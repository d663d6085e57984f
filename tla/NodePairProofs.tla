---------------------------- MODULE NodePairProofs ----------------------------
(***************************************************************************)
(* Proofs about NodePair, for every set of exits and requests.             *)
(***************************************************************************)
EXTENDS NodePair, FiniteSetTheorems, TLAPS

\* The exits that wait for the timer of discover have no other timer, so that
\* no question is asked twice at a time.
AskedOnce == asking \cap infoTimers = {}

\* The timeout of an exit is cleared with its answer.
AnsweredClearsTimer == infoTimers \cap answered = {}

PairInv == TypeOK /\ PollsWhileAwaiting /\ CountersAgree /\ AskedOnce /\ AnsweredClearsTimer

LEMMA FiniteData ==
    ASSUME TypeOK
    PROVE  IsFiniteSet(ongoing) /\ IsFiniteSet(infoTimers) /\ IsFiniteSet(answers)
<1>1. IsFiniteSet(Exits \X Requests)
  BY ExitsAssumption, RequestsAssumption, FS_Product
<1>2. IsFiniteSet(1..MaxRounds)
  BY BoundsAssumption, FS_Interval
<1>3. IsFiniteSet((Exits \X (1..MaxRounds)) \X (1..MaxAnswers))
  <2>1. IsFiniteSet(1..MaxAnswers)
    BY BoundsAssumption, FS_Interval
  <2>2. IsFiniteSet(Exits \X (1..MaxRounds))
    BY <1>2, ExitsAssumption, FS_Product
  <2> QED
    BY <2>1, <2>2, FS_Product
<1> QED
  BY <1>1, <1>3, ExitsAssumption, FS_Subset DEF TypeOK

LEMMA Counted ==
    ASSUME TypeOK
    PROVE  Cardinality(ongoing) \in Nat /\ Cardinality(infoTimers) \in Nat
BY FiniteData, FS_CardinalityType

LEMMA InitPair == Init => PairInv
<1> SUFFICES ASSUME Init PROVE PairInv
  OBVIOUS
<1>1. exits \subseteq Exits /\ asking \subseteq Exits
  BY DEF Init
<1>2. round \in 1..MaxRounds
  BY BoundsAssumption DEF Init
<1>3. gone \in BOOLEAN /\ infoFail \subseteq Exits /\ ongoing \subseteq Exits \X Requests
  BY DEF Init
<1>4. TypeOK
  BY <1>1, <1>2, <1>3 DEF Init, TypeOK
<1> QED
  BY <1>4, FS_EmptySet DEF Init, PairInv, PollsWhileAwaiting, Awaiting, CountersAgree,
     AskedOnce, AnsweredClearsTimer

-----------------------------------------------------------------------------
(* Requests *)

LEMMA RequestStartedKeeps ==
    ASSUME PairInv, NEW x \in Exits, NEW r \in Requests, RequestStarted(x, r)
    PROVE  PairInv'
<1>1. TypeOK /\ <<x, r>> \notin ongoing /\ x \in exits
  BY DEF PairInv, RequestStarted
<1>2. TypeOK'
  BY <1>1 DEF RequestStarted, StartPolling, TypeOK, infoVars, routeVars
<1>3. PollsWhileAwaiting'
  BY <1>1 DEF PairInv, PollsWhileAwaiting, Awaiting, RequestStarted, StartPolling, TypeOK,
     infoVars, routeVars
<1>4. Cardinality(ongoing') = Cardinality(ongoing) + 1
  BY <1>1, FiniteData, FS_AddElement DEF RequestStarted
<1>5. CountersAgree'
  BY <1>1, <1>4 DEF PairInv, CountersAgree, RequestStarted, infoVars, routeVars
<1> QED
  BY <1>2, <1>3, <1>5 DEF PairInv, RequestStarted, AskedOnce, AnsweredClearsTimer, infoVars

LEMMA RequestEndedKeeps ==
    ASSUME PairInv, NEW x \in Exits, NEW r \in Requests, RequestEnded(x, r)
    PROVE  PairInv'
<1>1. TypeOK /\ <<x, r>> \in ongoing
  BY DEF PairInv, RequestEnded
<1>2. Cardinality(ongoing') = Cardinality(ongoing) - 1 /\ Cardinality(ongoing') \in Nat
  BY <1>1, FiniteData, FS_RemoveElement, FS_CardinalityType DEF RequestEnded
<1>3. requestsOngoing' = requestsOngoing - 1 /\ requestsOngoing' \in Nat
  BY <1>2 DEF RequestEnded, PairInv, CountersAgree
<1>4. TypeOK'
  BY <1>1, <1>3 DEF RequestEnded, checkStopInterval, TypeOK, infoVars, routeVars
<1>5. PollsWhileAwaiting'
  BY <1>1, <1>3 DEF PairInv, PollsWhileAwaiting, Awaiting, RequestEnded, checkStopInterval,
     TypeOK, infoVars, routeVars
<1>6. CountersAgree'
  BY <1>2, <1>3 DEF PairInv, CountersAgree, RequestEnded, infoVars, routeVars
<1> QED
  BY <1>4, <1>5, <1>6 DEF PairInv, RequestEnded, AskedOnce, AnsweredClearsTimer, infoVars

-----------------------------------------------------------------------------
(* Information *)

LEMMA RequestInfoKeeps ==
    ASSUME PairInv, NEW x \in Exits, RequestInfo(x)
    PROVE  PairInv'
<1>1. TypeOK /\ x \in asking /\ x \notin infoTimers /\ asking' = asking \ {x}
  BY DEF PairInv, RequestInfo, AskedOnce
<1>2. CASE x \in exits
  <2>1. TypeOK'
    BY <1>1, <1>2 DEF RequestInfo, StartPolling, TypeOK, requestVars, routeVars
  <2>2. PollsWhileAwaiting'
    BY <1>1, <1>2 DEF PairInv, PollsWhileAwaiting, Awaiting, RequestInfo, StartPolling, TypeOK,
       requestVars, routeVars
  <2>3. Cardinality(infoTimers') = Cardinality(infoTimers) + 1
    BY <1>1, <1>2, FiniteData, FS_AddElement DEF RequestInfo
  <2>4. infoOngoing' <= Cardinality(infoTimers')
    BY <1>1, <1>2, <2>3, Counted DEF PairInv, CountersAgree, RequestInfo, TypeOK
  <2>5. CountersAgree'
    BY <2>4 DEF PairInv, CountersAgree, RequestInfo, requestVars, routeVars
  <2>6. AskedOnce' /\ AnsweredClearsTimer'
    BY <1>1, <1>2 DEF PairInv, AskedOnce, AnsweredClearsTimer, RequestInfo
  <2> QED
    BY <2>1, <2>2, <2>5, <2>6 DEF PairInv
<1>3. CASE x \notin exits
  <2>1. UNCHANGED <<infoVars, pollVars, requestVars, routeVars>>
    BY <1>3 DEF RequestInfo
  <2> QED
    BY <1>1, <2>1 DEF PairInv, TypeOK, PollsWhileAwaiting, Awaiting, CountersAgree, AskedOnce,
       AnsweredClearsTimer, infoVars, pollVars, requestVars, routeVars
<1> QED
  BY <1>2, <1>3

LEMMA InfoTimeoutKeeps ==
    ASSUME PairInv, NEW x \in Exits, InfoTimeout(x)
    PROVE  PairInv'
<1>1. TypeOK /\ x \in infoTimers /\ infoTimers' = infoTimers \ {x}
  BY DEF PairInv, InfoTimeout
<1>2. infoOngoing' = removeOngoingInfo(1) /\ infoOngoing' \in Nat
  BY <1>1 DEF InfoTimeout, removeOngoingInfo, TypeOK
<1>3. TypeOK'
  BY <1>1, <1>2 DEF InfoTimeout, checkStopInterval, TypeOK, requestVars, routeVars
<1>4. PollsWhileAwaiting'
  BY <1>1, <1>2 DEF PairInv, PollsWhileAwaiting, Awaiting, InfoTimeout, checkStopInterval,
     removeOngoingInfo, TypeOK, requestVars, routeVars
<1>5. Cardinality(infoTimers') = Cardinality(infoTimers) - 1
  BY <1>1, FiniteData, FS_RemoveElement
<1>6. Cardinality(infoTimers') \in Nat
  BY <1>1, FiniteData, FS_RemoveElement, FS_CardinalityType
<1>7. infoOngoing' <= Cardinality(infoTimers')
  BY <1>1, <1>2, <1>5, <1>6, Counted DEF PairInv, CountersAgree, removeOngoingInfo, TypeOK
<1>8. CountersAgree'
  BY <1>7 DEF PairInv, CountersAgree, InfoTimeout, requestVars, routeVars
<1> QED
  BY <1>3, <1>4, <1>8 DEF PairInv, AskedOnce, AnsweredClearsTimer, InfoTimeout

-----------------------------------------------------------------------------
(* Polling *)

LEMMA TimersKeep ==
    ASSUME PairInv, PollTimer \/ OrphanTimer \/ FetchFails \/ Finally
    PROVE  PairInv'
<1>1. TypeOK
  BY DEF PairInv
<1>2. UNCHANGED <<requestVars, infoVars, routeVars, asking>>
  BY DEF PollTimer, OrphanTimer, FetchFails, Finally
<1>3. TypeOK'
  BY <1>1, <1>2 DEF PollTimer, OrphanTimer, FetchFails, Finally, TypeOK, requestVars, infoVars,
     routeVars
<1>4. (fetchTimeout' # "undefined") = (fetchTimeout # "undefined")
  BY DEF PollTimer, OrphanTimer, FetchFails, Finally
<1>5. fetchTimeout' = "fired" /\ ~gone => fetching' + settled' > 0
  BY <1>1 DEF PollTimer, OrphanTimer, FetchFails, Finally, PairInv, PollsWhileAwaiting, TypeOK
<1>6. PollsWhileAwaiting'
  BY <1>2, <1>4, <1>5 DEF PairInv, PollsWhileAwaiting, Awaiting, requestVars, infoVars, routeVars
<1>7. CountersAgree' /\ AskedOnce' /\ AnsweredClearsTimer'
  BY <1>2 DEF PairInv, CountersAgree, AskedOnce, AnsweredClearsTimer, requestVars, infoVars,
     routeVars
<1> QED
  BY <1>3, <1>6, <1>7 DEF PairInv

\* The exits of some answers are at most as many as the answers.
LEMMA FewerSenders ==
    ASSUME NEW known, IsFiniteSet(known)
    PROVE  /\ IsFiniteSet({m[1][1] : m \in known})
           /\ Cardinality({m[1][1] : m \in known}) <= Cardinality(known)
<1> DEFINE f == [m \in known |-> m[1][1]]
<1>1. f \in Surjection(known, {m[1][1] : m \in known})
  BY DEF Surjection
<1> QED
  BY <1>1, FS_Surjection

\* Answers take as many timers at most as they are counted.
LEMMA TimersCleared ==
    ASSUME PairInv, NEW known \in SUBSET answers
    PROVE  /\ removeOngoingInfo(Cardinality(known)) \in Nat
           /\ removeOngoingInfo(Cardinality(known))
                <= Cardinality(infoTimers \ {m[1][1] : m \in known})
<1> DEFINE from == {m[1][1] : m \in known}
<1>1. TypeOK
  BY DEF PairInv
<1>2. IsFiniteSet(known) /\ IsFiniteSet(infoTimers)
  BY <1>1, FiniteData, FS_Subset
<1>3. IsFiniteSet(from) /\ Cardinality(from) <= Cardinality(known)
  BY <1>2, FewerSenders
<1>4. Cardinality(infoTimers \ from) = Cardinality(infoTimers) - Cardinality(infoTimers \cap from)
  BY <1>2, FS_Difference
<1>5. IsFiniteSet(infoTimers \cap from) /\ Cardinality(infoTimers \cap from) <= Cardinality(from)
  BY <1>3, FS_Subset
<1>6. IsFiniteSet(infoTimers \ from)
  BY <1>2, FS_Difference
<1>7. /\ Cardinality(known) \in Nat /\ Cardinality(from) \in Nat
      /\ Cardinality(infoTimers \cap from) \in Nat /\ Cardinality(infoTimers \ from) \in Nat
      /\ Cardinality(infoTimers) \in Nat
  BY <1>2, <1>3, <1>5, <1>6, FS_CardinalityType
<1>8. infoOngoing \in Nat /\ infoOngoing <= Cardinality(infoTimers)
  BY DEF PairInv, TypeOK, CountersAgree
<1>9. removeOngoingInfo(Cardinality(known)) =
        IF infoOngoing > Cardinality(known) THEN infoOngoing - Cardinality(known) ELSE 0
  BY DEF removeOngoingInfo
<1> HIDE DEF from
<1>10. /\ removeOngoingInfo(Cardinality(known)) \in Nat
       /\ removeOngoingInfo(Cardinality(known)) <= Cardinality(infoTimers \ from)
  BY <1>3, <1>4, <1>5, <1>7, <1>8, <1>9
<1> QED
  BY <1>10 DEF from

LEMMA MessagesFetchedKeeps ==
    ASSUME PairInv, NEW got \in SUBSET answers, MessagesFetched(got)
    PROVE  PairInv'
<1> DEFINE known == {m \in got : m[1][1] \in exits}
           from == {m[1][1] : m \in known}
<1>1. TypeOK /\ known \in SUBSET answers /\ from \subseteq Exits
  BY DEF PairInv, TypeOK
<1>2. /\ fetching > 0 /\ fetching' = fetching - 1 /\ settled' = settled + 1
      /\ answers' = answers \ got
      /\ answered' = answered \cup from
      /\ infoFail' = infoFail \ from
      /\ infoTimers' = infoTimers \ from
      /\ infoOngoing' = removeOngoingInfo(Cardinality(known))
      /\ checkStopInterval(requestsOngoing, infoOngoing')
      /\ UNCHANGED <<orphans, requestVars, routeVars, asking>>
  BY DEF MessagesFetched
<1>3. infoOngoing' \in Nat /\ infoOngoing' <= Cardinality(infoTimers')
  BY <1>1, <1>2, TimersCleared
<1> HIDE DEF known, from
<1>4. TypeOK'
  BY <1>1, <1>2, <1>3 DEF checkStopInterval, TypeOK, requestVars, routeVars
<1>5. infoOngoing' > 0 => infoOngoing > 0
  <2>1. Cardinality(known) \in Nat
    BY <1>1, FiniteData, FS_Subset, FS_CardinalityType
  <2> QED
    BY <1>1, <1>2, <2>1 DEF removeOngoingInfo, TypeOK
<1>6. PollsWhileAwaiting'
  BY <1>1, <1>2, <1>3, <1>5 DEF PairInv, PollsWhileAwaiting, Awaiting, checkStopInterval, TypeOK,
     requestVars, routeVars
<1>7. CountersAgree'
  BY <1>2, <1>3 DEF PairInv, CountersAgree, requestVars, routeVars
<1>8. AskedOnce' /\ AnsweredClearsTimer'
  BY <1>2 DEF PairInv, AskedOnce, AnsweredClearsTimer
<1> QED
  BY <1>4, <1>6, <1>7, <1>8 DEF PairInv

-----------------------------------------------------------------------------
(* The collector *)

LEMMA RefreshKeeps ==
    ASSUME PairInv, NEW added \in SUBSET Exits, NEW removed \in SUBSET Exits,
           Refresh(added, removed)
    PROVE  PairInv'
<1>1. TypeOK /\ exits' = (exits \cup added) \ removed /\ infoTimers = {} /\ round < MaxRounds
  BY DEF PairInv, Refresh
<1>2. TypeOK'
  BY <1>1, BoundsAssumption DEF Refresh, TypeOK, requestVars
<1>3. PollsWhileAwaiting'
  BY DEF PairInv, PollsWhileAwaiting, Awaiting, Refresh, requestVars
<1>4. \A o \in ongoing' : o[1] \in exits'
  <2> SUFFICES ASSUME NEW o \in ongoing PROVE o[1] \in exits'
    BY DEF Refresh, requestVars
  <2>1. PICK x \in Exits, r \in Requests : o = <<x, r>>
    BY <1>1 DEF TypeOK
  <2>2. x \notin removed
    BY <2>1 DEF Refresh, Idle
  <2>3. x \in exits
    BY <2>1 DEF PairInv, CountersAgree
  <2> QED
    BY <1>1, <2>1, <2>2, <2>3
<1>5. CountersAgree'
  BY <1>4 DEF PairInv, CountersAgree, Refresh, requestVars
<1> QED
  BY <1>1, <1>2, <1>3, <1>5 DEF PairInv, AskedOnce, AnsweredClearsTimer, Refresh

LEMMA DestructKeeps ==
    ASSUME PairInv, Destruct
    PROVE  PairInv'
BY DEF PairInv, Destruct, TypeOK, PollsWhileAwaiting, Awaiting, CountersAgree, AskedOnce,
   AnsweredClearsTimer, requestVars, infoVars

LEMMA PairInductive == PairInv /\ [Next]_vars => PairInv'
<1> SUFFICES ASSUME PairInv, [Next]_vars PROVE PairInv'
  OBVIOUS
<1>1. ASSUME NEW x \in Exits, NEW r \in Requests, RequestStep(x, r) PROVE PairInv'
  BY <1>1, RequestStartedKeeps, RequestEndedKeeps DEF RequestStep
<1>2. ASSUME NEW x \in Exits, InfoStep(x) PROVE PairInv'
  BY <1>2, RequestInfoKeeps, InfoTimeoutKeeps DEF InfoStep
<1>3. ASSUME PollTimer \/ OrphanTimer \/ FetchSettles \/ Finally PROVE PairInv'
  BY <1>3, TimersKeep, MessagesFetchedKeeps DEF FetchSettles
<1>4. ASSUME CollectorStep PROVE PairInv'
  BY <1>4, RefreshKeeps, DestructKeeps DEF CollectorStep
<1>5. CASE UNCHANGED vars
  BY <1>5 DEF vars, requestVars, infoVars, pollVars, routeVars, PairInv, TypeOK,
     PollsWhileAwaiting, Awaiting, CountersAgree, AskedOnce, AnsweredClearsTimer
<1> QED
  BY <1>1, <1>2, <1>3, <1>4, <1>5 DEF Next

LEMMA PairInvariant == Spec => []PairInv
BY InitPair, PairInductive, PTL DEF Spec

-----------------------------------------------------------------------------
(* Theorems *)

\* Type correctness; in particular no counter falls below zero.
THEOREM TypeCorrect == Spec => []TypeOK
<1>1. PairInv => TypeOK
  BY DEF PairInv
<1> QED
  BY <1>1, PairInvariant, PTL

\* Polling goes on exactly as long as something is awaited, however requests,
\* questions, timeouts and fetches interleave.
THEOREM PollingCorrect == Spec => []PollsWhileAwaiting
<1>1. PairInv => PollsWhileAwaiting
  BY DEF PairInv
<1> QED
  BY <1>1, PairInvariant, PTL

\* The counters of the entry agree with the data of its exits.
THEOREM CountersCorrect == Spec => []CountersAgree
<1>1. PairInv => CountersAgree
  BY DEF PairInv
<1> QED
  BY <1>1, PairInvariant, PTL

\* An exit whose answer was read is not marked failed.
THEOREM AnsweredNotFailed == Spec => FailedDidNotAnswer
<1> DEFINE step == \A x \in infoFail' \ infoFail : x \notin answered
<1>1. ASSUME PairInv, Next, NEW x \in infoFail' \ infoFail PROVE x \notin answered
  <2>1. PICK y \in Exits : InfoTimeout(y)
    BY <1>1 DEF Next, RequestStep, RequestStarted, RequestEnded, InfoStep, RequestInfo, PollTimer,
       OrphanTimer, FetchSettles, FetchFails, MessagesFetched, Finally, CollectorStep, Destruct,
       Refresh, infoVars
  <2>2. x = y /\ y \in infoTimers
    BY <1>1, <2>1 DEF InfoTimeout
  <2> QED
    BY <1>1, <2>2 DEF PairInv, AnsweredClearsTimer
<1>2. PairInv /\ [Next]_vars => [step]_vars
  BY <1>1
<1>3. Spec => [][step]_vars
  BY <1>2, PairInvariant, PTL DEF Spec
<1> QED
  BY <1>3 DEF step, FailedDidNotAnswer
==============================================================================
