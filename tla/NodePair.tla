------------------------------- MODULE NodePair -------------------------------
(***************************************************************************)
(* One entry node and the exits behind it, as the node collector of the    *)
(* SDK keeps them: who is asked for information, which requests are under  *)
(* way, and the loop that polls the entry for messages as long as one of   *)
(* the two is awaited.                                                     *)
(*                                                                         *)
(* Every handler runs to its end; between two of them any other may run,   *)
(* and a fetch is under way between its timer and its answer.  The handler *)
(* of the answer and the finally that polls again are two microtasks.      *)
(*                                                                         *)
(* The collector asks again after 10 minutes, so no question of the last   *)
(* round, which has 10 seconds, is open by then; its answer may be.        *)
(***************************************************************************)
EXTENDS Naturals, FiniteSets

CONSTANTS
    Exits,      \* exit nodes
    Requests,   \* requests
    MaxAnswers, \* bound: how often an answer to one question arrives
    MaxRounds,  \* bound: how often the routes are fetched
    MaxLoops    \* bound: polling loops at the same time

ASSUME ExitsAssumption == IsFiniteSet(Exits)
ASSUME RequestsAssumption == IsFiniteSet(Requests)
ASSUME BoundsAssumption ==
    MaxAnswers \in Nat /\ MaxRounds \in Nat \ {0} /\ MaxLoops \in Nat \ {0}

VARIABLES
    gone,             \* the collector dropped the pair
    exits,            \* the keys of exitNodes and exitDatas
    infoFail,         \* exits with exitData.infoFail
    asking,           \* exits for which discover set a timer that runs requestInfo
    infoTimers,       \* exits whose info timeout runs
    infoOngoing,      \* entryData.infoOngoing
    ongoing,          \* <<x, r>>: r is in exitDatas.get(x).requestsOngoing
    requestsOngoing,  \* entryData.requestsOngoing
    fetchTimeout,     \* no timer, one that runs, or one that has fired
    orphans,          \* timers that poll but fetchTimeout does not refer to
    fetching,         \* calls of retrieveMessages under way
    settled,          \* those that are answered, before finally
    round,            \* how often the routes were fetched
    answers,          \* <<<<x, n>>, i>>: x may answer its question of round n for
                      \* the i-th time
    answered          \* exits whose answer to the latest question was read

requestVars == <<ongoing, requestsOngoing>>
infoVars == <<infoFail, infoTimers, infoOngoing, answers, answered>>
pollVars == <<fetchTimeout, orphans, fetching, settled>>
routeVars == <<gone, exits, round>>
vars == <<requestVars, infoVars, pollVars, routeVars, asking>>

TypeOK ==
    /\ gone \in BOOLEAN
    /\ exits \subseteq Exits
    /\ infoFail \subseteq Exits
    /\ asking \subseteq Exits
    /\ infoTimers \subseteq Exits
    /\ infoOngoing \in Nat
    /\ ongoing \subseteq Exits \X Requests
    /\ requestsOngoing \in Nat
    /\ fetchTimeout \in {"undefined", "running", "fired"}
    /\ orphans \in Nat
    /\ fetching \in Nat
    /\ settled \in Nat
    /\ round \in 1..MaxRounds
    /\ answers \subseteq (Exits \X (1..MaxRounds)) \X (1..MaxAnswers)
    /\ answered \subseteq Exits

Loops == orphans + fetching + settled + (IF fetchTimeout = "running" THEN 1 ELSE 0)
Idle(x) == \A r \in Requests : <<x, r>> \notin ongoing

\* Start polling unless fetchTimeout says that somebody did.
StartPolling ==
    /\ fetchTimeout = "undefined" => Loops < MaxLoops
    /\ fetchTimeout' = IF fetchTimeout = "undefined" THEN "running" ELSE fetchTimeout
    /\ UNCHANGED <<orphans, fetching, settled>>

\* Broken on purpose: it is enough that one of the two is not awaited.
checkStopEither(requests, infos) ==
    fetchTimeout' = IF requests = 0 \/ infos = 0 THEN "undefined" ELSE fetchTimeout

\* checkStopInterval, after the counters became these.
checkStopInterval(requests, infos) ==
    fetchTimeout' = IF requests = 0 /\ infos = 0 THEN "undefined" ELSE fetchTimeout

\* Broken on purpose: an answer that comes late is counted all the same.
removeUnclamped(n) == infoOngoing - n

\* EntryData.removeOngoingInfo, n times.
removeOngoingInfo(n) == IF infoOngoing > n THEN infoOngoing - n ELSE 0

\* create and discover, for some exits.
Init ==
    /\ gone = FALSE
    /\ exits \in (SUBSET Exits) \ {{}}
    /\ infoFail = {} /\ infoTimers = {} /\ infoOngoing = 0
    /\ asking = exits
    /\ ongoing = {} /\ requestsOngoing = 0
    /\ fetchTimeout = "undefined" /\ orphans = 0 /\ fetching = 0 /\ settled = 0
    /\ round = 1
    /\ answers = {} /\ answered = {}

-----------------------------------------------------------------------------
(* Requests *)

\* requestStarted, for a route that was just selected.
RequestStarted(x, r) ==
    /\ ~gone /\ x \in exits
    /\ \A y \in Exits : <<y, r>> \notin ongoing
    /\ ongoing' = ongoing \cup {<<x, r>>}
    /\ requestsOngoing' = requestsOngoing + 1
    /\ StartPolling
    /\ UNCHANGED <<infoVars, routeVars, asking>>

\* requestSucceeded and requestFailed.
RequestEnded(x, r) ==
    /\ ~gone /\ <<x, r>> \in ongoing
    /\ ongoing' = ongoing \ {<<x, r>>}
    /\ requestsOngoing' = requestsOngoing - 1
    /\ checkStopInterval(requestsOngoing - 1, infoOngoing)
    /\ UNCHANGED <<orphans, fetching, settled, infoVars, routeVars, asking>>

-----------------------------------------------------------------------------
(* Information *)

\* requestInfo; nothing is asked of an exit that was removed since.
RequestInfo(x) ==
    /\ x \in asking
    /\ asking' = asking \ {x}
    /\ IF x \in exits
       THEN /\ infoOngoing' = infoOngoing + 1
            /\ infoTimers' = infoTimers \cup {x}
            /\ answers' = answers \cup {<<<<x, round>>, i>> : i \in 1..MaxAnswers}
            /\ answered' = answered \ {x}
            /\ StartPolling
            /\ UNCHANGED infoFail
       ELSE UNCHANGED <<infoVars, pollVars>>
    /\ UNCHANGED <<requestVars, routeVars>>

\* Broken on purpose: the timeout does not look whether polling can stop.
TimeoutKeepsPolling(x) ==
    /\ x \in infoTimers
    /\ infoTimers' = infoTimers \ {x}
    /\ infoOngoing' = removeOngoingInfo(1)
    /\ infoFail' = infoFail \cup ({x} \cap exits)
    /\ UNCHANGED <<answers, answered, requestVars, pollVars, routeVars, asking>>

\* The timeout that requestInfo set: the exit did not answer.
InfoTimeout(x) ==
    /\ x \in infoTimers
    /\ infoTimers' = infoTimers \ {x}
    /\ infoOngoing' = removeOngoingInfo(1)
    /\ checkStopInterval(requestsOngoing, removeOngoingInfo(1))
    /\ infoFail' = infoFail \cup ({x} \cap exits)
    /\ UNCHANGED <<answers, answered, orphans, fetching, settled, requestVars, routeVars, asking>>

-----------------------------------------------------------------------------
(* Polling *)

\* The timer of fetchTimeout fires: fetchMessages.
PollTimer ==
    /\ fetchTimeout = "running"
    /\ fetchTimeout' = "fired"
    /\ fetching' = fetching + 1
    /\ UNCHANGED <<orphans, settled, requestVars, infoVars, routeVars, asking>>

\* A timer that nobody can clear any more fires: fetchMessages.
OrphanTimer ==
    /\ orphans > 0
    /\ orphans' = orphans - 1
    /\ fetching' = fetching + 1
    /\ UNCHANGED <<fetchTimeout, settled, requestVars, infoVars, routeVars, asking>>

\* Broken on purpose: the timeout of an exit that answered goes on.
MessagesLeaveTimers(got) ==
    LET known == {m \in got : m[1][1] \in exits}
        from == {m[1][1] : m \in known}
        infos == removeOngoingInfo(Cardinality(known))
    IN  /\ fetching > 0 /\ got \subseteq answers
        /\ fetching' = fetching - 1 /\ settled' = settled + 1
        /\ answers' = answers \ got
        /\ answered' = answered \cup from
        /\ infoFail' = infoFail \ from
        /\ infoOngoing' = infos
        /\ checkStopInterval(requestsOngoing, infos)
        /\ UNCHANGED <<infoTimers, orphans, requestVars, routeVars, asking>>

\* fetchMessages is answered: incInfoResps reads the answers of exits that the
\* pair has, and counts each of them, also a second one to the same question.
\* Messages for requests are passed on: see RequestEnded.
MessagesFetched(got) ==
    LET known == {m \in got : m[1][1] \in exits}
        from == {m[1][1] : m \in known}
        infos == removeOngoingInfo(Cardinality(known))
    IN  /\ fetching > 0 /\ got \subseteq answers
        /\ fetching' = fetching - 1 /\ settled' = settled + 1
        /\ answers' = answers \ got
        /\ answered' = answered \cup from
        /\ infoFail' = infoFail \ from
        /\ infoTimers' = infoTimers \ from
        /\ infoOngoing' = infos
        /\ checkStopInterval(requestsOngoing, infos)
        /\ UNCHANGED <<orphans, requestVars, routeVars, asking>>

\* fetchMessages fails, which is counted and logged.
FetchFails ==
    /\ fetching > 0
    /\ fetching' = fetching - 1 /\ settled' = settled + 1
    /\ UNCHANGED <<fetchTimeout, orphans, requestVars, infoVars, routeVars, asking>>

\* finally: fetch again, unless polling was stopped.  If it was stopped and
\* started in the meantime there are two timers now.
Finally ==
    /\ settled > 0
    /\ settled' = settled - 1
    /\ \/ /\ fetchTimeout = "undefined"
          /\ UNCHANGED <<fetchTimeout, orphans>>
       \/ /\ fetchTimeout # "undefined"
          /\ orphans' = IF fetchTimeout = "running" THEN orphans + 1 ELSE orphans
          /\ fetchTimeout' = "running"
    /\ UNCHANGED <<fetching, requestVars, infoVars, routeVars, asking>>

-----------------------------------------------------------------------------
(* The collector *)

\* Broken on purpose: redundant routes are removed, requests or not.
RefreshRemovesBusy(added, removed) ==
    /\ ~gone /\ round < MaxRounds
    /\ asking = {} /\ infoTimers = {}
    /\ exits' = (exits \cup added) \ removed
    /\ ongoing' = {o \in ongoing : o[1] \notin removed}
    /\ infoFail' = infoFail \cap exits'
    /\ gone' = (exits' = {})
    /\ fetchTimeout' = IF gone' THEN "undefined" ELSE fetchTimeout
    /\ asking' = exits'
    /\ round' = round + 1
    /\ UNCHANGED <<infoTimers, infoOngoing, answers, answered, requestsOngoing, orphans, fetching, settled>>

\* initNodes: add exits, remove idle ones if the routes of all pairs are too
\* many, and ask the exits that are left.  A pair without exits is dropped.
Refresh(added, removed) ==
    /\ ~gone /\ round < MaxRounds
    /\ asking = {} /\ infoTimers = {}
    /\ \A x \in removed : Idle(x)
    /\ exits' = (exits \cup added) \ removed
    /\ infoFail' = infoFail \cap exits'
    /\ gone' = (exits' = {})
    /\ fetchTimeout' = IF gone' THEN "undefined" ELSE fetchTimeout
    /\ asking' = exits'
    /\ round' = round + 1
    /\ UNCHANGED <<infoTimers, infoOngoing, answers, answered, requestVars, orphans, fetching, settled>>

\* destruct: polling stops, the other timers stay.
Destruct ==
    /\ ~gone
    /\ gone' = TRUE
    /\ fetchTimeout' = "undefined"
    /\ UNCHANGED <<exits, round, orphans, fetching, settled, requestVars, infoVars, asking>>

-----------------------------------------------------------------------------

RequestStep(x, r) == RequestStarted(x, r) \/ RequestEnded(x, r)
InfoStep(x) == RequestInfo(x) \/ InfoTimeout(x)
InOrder(got) == \A m \in got : \A i \in 1..(m[2] - 1) : <<m[1], i>> \notin answers \ got
FetchSettles == FetchFails \/ \E got \in SUBSET answers : InOrder(got) /\ MessagesFetched(got)
CollectorStep == Destruct \/ \E added, removed \in SUBSET Exits : Refresh(added, removed)

Next ==
    \/ \E x \in Exits, r \in Requests : RequestStep(x, r)
    \/ \E x \in Exits : InfoStep(x)
    \/ PollTimer \/ OrphanTimer \/ FetchSettles \/ Finally
    \/ CollectorStep

Spec == Init /\ [][Next]_vars

\* Timers fire, and a fetch is aborted after 30 seconds at the latest.
FairSpec ==
    /\ Spec
    /\ WF_vars(PollTimer) /\ WF_vars(OrphanTimer) /\ WF_vars(FetchSettles) /\ WF_vars(Finally)
    /\ \A x \in Exits : WF_vars(RequestInfo(x)) /\ WF_vars(InfoTimeout(x))

-----------------------------------------------------------------------------
(* Properties *)

Awaiting == requestsOngoing > 0 \/ infoOngoing > 0

\* The entry is polled as long as something is awaited, and fetchTimeout is
\* reset when nothing is: requests and questions stop and start polling at any
\* moment of a fetch, and no order of these loses the loop.
PollsWhileAwaiting ==
    ~gone => /\ (fetchTimeout # "undefined") <=> Awaiting
             /\ fetchTimeout = "fired" => fetching + settled > 0

\* The counters of the entry agree with the data of its exits: every ongoing
\* request is counted, and no more answers are awaited than timeouts run.
CountersAgree ==
    /\ requestsOngoing = Cardinality(ongoing)
    /\ infoOngoing <= Cardinality(infoTimers)
    /\ \A o \in ongoing : o[1] \in exits

\* Only an exit whose answer to the latest question was not read is marked
\* failed: its timeout never fires on an exit that answered.
FailedDidNotAnswer == [][\A x \in infoFail' \ infoFail : x \notin answered]_vars

\* When no request is left and nobody is asked, every polling loop ends, also
\* those that no timer handle refers to.
NothingToDo == asking = {} /\ infoTimers = {} /\ requestsOngoing = 0
PollingStops == <>[]NothingToDo => <>[](Loops = 0)
==============================================================================
