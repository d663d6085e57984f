------------------------------- MODULE SdkProofs -------------------------------
(***************************************************************************)
(* Proofs about SDK for any providers, any number of calls at the same     *)
(* time and any faults: remembered chain ids belong to their providers,    *)
(* and only mainnet transactions are redirected.                           *)
(***************************************************************************)
EXTENDS SDK, TLAPS

-----------------------------------------------------------------------------
(* Type correctness *)

\* A call that doSend starts is well typed.
LEMMA CallTyped ==
    ASSUME NEW kind \in {"user"} \cup Methods, NEW p \in Providers, NEW t \in Providers,
           NEW tx \in BOOLEAN
    PROVE  Call(kind, p, t, tx) \in CallState
BY DEF Call, CallState

LEMMA ChainIdCallTyped ==
    ASSUME NEW m \in Methods, NEW p \in Providers
    PROVE  ChainIdCall(m, p) \in CallState
BY CallTyped DEF ChainIdCall

LEMMA FreeTyped == Free \in CallState
BY DEF Free, CallState

\* The calls that are under way.
BusyCalls ==
    [pc       : {"routing", "created"},
     kind     : {"user"} \cup Methods,
     provider : Providers,
     target   : Providers,
     tx       : BOOLEAN,
     reported : ChainIds \cup {"undefined"}]

\* The record of a call that is under way.
LEMMA BusyCall ==
    ASSUME TypeOK, NEW c \in Slots, calls[c] # Free
    PROVE  /\ calls[c] \in BusyCalls
           /\ calls[c].pc \in {"routing", "created"}
           /\ calls[c].kind \in {"user"} \cup Methods
           /\ calls[c].provider \in Providers
           /\ calls[c].target \in Providers
           /\ calls[c].tx \in BOOLEAN
<1>1. calls[c] \in BusyCalls
  BY DEF TypeOK, CallState, Free, BusyCalls
<1> QED
  BY <1>1 DEF BusyCalls

LEMMA NotFree ==
    ASSUME NEW c \in Slots, calls[c].pc \in {"routing", "created"}
    PROVE  calls[c] # Free
BY DEF Free

\* Redirecting yields a provider.
LEMMA DeterminedTyped ==
    ASSUME NEW p \in Providers, NEW tx \in BOOLEAN
    PROVE  determineProvider(p, tx) \in Providers
BY ProvidersAssumption DEF determineProvider

LEMMA InitTyped == Init => TypeOK
<1> SUFFICES ASSUME Init PROVE TypeOK
  OBVIOUS
<1>1. calls \in [Slots -> CallState]
  <2>1. ChainIdCall("eth", Default) \in CallState
    BY ChainIdCallTyped, ProvidersAssumption DEF Methods
  <2>2. PICK c \in Slots :
          calls = [x \in Slots |->
                     IF x = c /\ Sendable(Default) THEN ChainIdCall("eth", Default) ELSE Free]
    BY DEF Init
  <2> QED
    BY <2>1, <2>2, FreeTyped
<1>2. versionChecks \in 0..MaxChecks
  BY MaxChecksAssumption DEF Init
<1> QED
  BY <1>1, <1>2, ProvidersAssumption DEF Init, TypeOK

LEMMA NextTyped == TypeOK /\ [Next]_vars => TypeOK'
<1> SUFFICES ASSUME TypeOK, [Next]_vars PROVE TypeOK'
  OBVIOUS
<1>1. ASSUME NEW c \in Slots, NEW requested \in Requested, NEW tx \in BOOLEAN,
             Send(c, requested, tx)
      PROVE  TypeOK'
  <2> DEFINE p == IF requested = NoProvider THEN Default ELSE requested
             t == determineProvider(p, tx)
  <2>1. p \in Providers /\ t \in Providers
    BY ProvidersAssumption, RequestedAssumption, DeterminedTyped
  <2>2. Call("user", p, t, tx) \in CallState
    BY <2>1, CallTyped
  <2>3. Populates(requested) => ChainIdCall("eth", requested) \in CallState
    BY RequestedAssumption, ChainIdCallTyped DEF Populates, Methods
  <2>4. calls' \in [Slots -> CallState]
    BY <1>1, <2>2, <2>3 DEF Send, TypeOK
  <2> QED
    BY <1>1, <2>1, <2>4 DEF Send, TypeOK
<1>2. ASSUME NEW c \in Slots, CreateRequest(c) PROVE TypeOK'
  <2> DEFINE cId == IF chainIds[handler] = "none" THEN "undefined" ELSE chainIds[handler]
             new == [calls[c] EXCEPT !.pc = "created", !.reported = cId]
  <2>1. calls[c] # Free
    BY <1>2, NotFree DEF CreateRequest
  <2>2. cId \in ChainIds \cup {"undefined"}
    BY DEF TypeOK
  <2>3. new \in BusyCalls
    <3>1. calls[c] \in BusyCalls
      BY <2>1, BusyCall
    <3> HIDE DEF cId
    <3> QED
      BY <2>2, <3>1 DEF BusyCalls
  <2>4. new \in CallState
    BY <2>3 DEF BusyCalls, CallState
  <2>5. calls' = [calls EXCEPT ![c] = new]
    BY <1>2 DEF CreateRequest, TypeOK
  <2> HIDE DEF new
  <2> QED
    BY <1>2, <2>4, <2>5 DEF CreateRequest, TypeOK
<1>3. ASSUME NEW c \in Slots, Answer(c) \/ BadAnswer(c) PROVE TypeOK'
  BY <1>3, FreeTyped DEF Answer, BadAnswer, TypeOK
<1>4. ASSUME NEW c \in Slots, StoreChainId(c) \/ EmptyBody(c) PROVE TypeOK'
  <2>1. calls[c].provider \in Providers
    BY <1>4, NotFree, BusyCall DEF StoreChainId, EmptyBody, ChainIdRequest
  <2>2. Chain[calls[c].provider] \in ChainIds
    BY <2>1, ChainAssumption
  <2>3. chainIds' \in [Providers -> ChainIds \cup {"none", "undefined"}]
    BY <1>4, <2>1, <2>2 DEF StoreChainId, EmptyBody, TypeOK
  <2> QED
    BY <1>4, <2>3, FreeTyped DEF StoreChainId, EmptyBody, TypeOK
<1>5. ASSUME NEW c \in Slots, MethodNotFound(c) PROVE TypeOK'
  <2>1. calls[c].provider \in Providers
    BY <1>5, NotFree, BusyCall DEF MethodNotFound, ChainIdRequest
  <2>2. ChainIdCall("starknet", calls[c].provider) \in CallState
    BY <2>1, ChainIdCallTyped DEF Methods
  <2> QED
    BY <1>5, <2>1, <2>2, FreeTyped DEF MethodNotFound, TypeOK
<1>6. ASSUME NEW c \in Slots, FetchRejects(c) PROVE TypeOK'
  <2>1. versionChecks' \in 0..MaxChecks
    BY <1>6, MaxChecksAssumption DEF FetchRejects, TypeOK
  <2> QED
    BY <1>6, <2>1, FreeTyped DEF FetchRejects, TypeOK
<1>7. CASE VersionsFetched
  BY <1>7, MaxChecksAssumption DEF VersionsFetched, TypeOK
<1>8. CASE UNCHANGED vars
  BY <1>8 DEF vars, TypeOK
<1> QED
  BY <1>1, <1>2, <1>3, <1>4, <1>5, <1>6, <1>7, <1>8 DEF Next, Sending, CallStep

\* SDK is type correct.
THEOREM TypeCorrect == Spec => []TypeOK
BY InitTyped, NextTyped, PTL DEF Spec

-----------------------------------------------------------------------------
(* Chain ids *)

LEMMA ChainIdsInductive ==
    /\ Init => ChainIdsCorrect
    /\ TypeOK /\ ChainIdsCorrect /\ [Next]_vars => ChainIdsCorrect'
<1>1. Init => ChainIdsCorrect
  BY DEF Init, ChainIdsCorrect
<1>2. ASSUME TypeOK, ChainIdsCorrect, [Next]_vars PROVE ChainIdsCorrect'
  <2>1. CASE UNCHANGED chainIds
    BY <1>2, <2>1 DEF ChainIdsCorrect
  <2>2. ASSUME NEW c \in Slots, StoreChainId(c) \/ EmptyBody(c) PROVE ChainIdsCorrect'
    BY <1>2, <2>2 DEF StoreChainId, EmptyBody, ChainIdsCorrect, TypeOK
  <2> QED
    BY <1>2, <2>1, <2>2
    DEF Next, Sending, Send, CallStep, CreateRequest, Answer, MethodNotFound, BadAnswer,
        FetchRejects, VersionsFetched, vars
<1> QED
  BY <1>1, <1>2

\* However many chain id requests overlap, a remembered chain id is the one
\* of its own provider.
THEOREM RememberedChainIdsCorrect == Spec => []ChainIdsCorrect
BY InitTyped, NextTyped, ChainIdsInductive, PTL DEF Spec

-----------------------------------------------------------------------------
(* Redirection *)

\* A transaction is redirected only once its provider's chain id is known.
LEMMA RedirectedIsMainnet ==
    ASSUME ChainIdsCorrect, NEW p \in Providers, NEW tx \in BOOLEAN,
           determineProvider(p, tx) # p
    PROVE  Mainnet(Chain[p])
BY DEF ChainIdsCorrect, determineProvider, Mainnet

LEMMA RedirectionInductive ==
    /\ Init => OnlyMainnetRedirected
    /\ TypeOK /\ ChainIdsCorrect /\ OnlyMainnetRedirected /\ [Next]_vars => OnlyMainnetRedirected'
<1> DEFINE Fine(x) == x # Free /\ x.kind = "user" /\ x.tx /\ x.target # x.provider
                        => Mainnet(Chain[x.provider])
<1>1. OnlyMainnetRedirected <=> \A c \in Slots : Fine(calls[c])
  BY DEF OnlyMainnetRedirected, UserTx
<1>2. OnlyMainnetRedirected' <=> \A c \in Slots : Fine(calls'[c])
  BY DEF OnlyMainnetRedirected, UserTx, Mainnet
<1>3. Fine(Free)
  OBVIOUS
<1>4. \A m, p : Fine(ChainIdCall(m, p))
  BY DEF ChainIdCall, Call
<1>5. Init => OnlyMainnetRedirected
  <2> HIDE DEF Fine
  <2> QED
    BY <1>1, <1>3, <1>4 DEF Init
<1>6. ASSUME TypeOK, ChainIdsCorrect, OnlyMainnetRedirected, [Next]_vars
      PROVE  OnlyMainnetRedirected'
  <2>1. ASSUME NEW c \in Slots, NEW requested \in Requested, NEW tx \in BOOLEAN,
               Send(c, requested, tx)
        PROVE  OnlyMainnetRedirected'
    <3> DEFINE p == IF requested = NoProvider THEN Default ELSE requested
               t == determineProvider(p, tx)
    <3>1. p \in Providers
      BY ProvidersAssumption, RequestedAssumption
    <3>2. t # p => Mainnet(Chain[p])
      BY <1>6, <3>1, RedirectedIsMainnet
    <3> HIDE DEF t
    <3>3. Fine(Call("user", p, t, tx))
      BY <3>2 DEF Call
    <3>4. \A d \in Slots : \/ calls'[d] = calls[d]
                           \/ calls'[d] = Call("user", p, t, tx)
                           \/ calls'[d] = ChainIdCall("eth", requested)
      BY <1>6, <2>1 DEF Send, TypeOK, t
    <3> HIDE DEF Fine, p
    <3> QED
      BY <1>1, <1>2, <1>4, <1>6, <3>3, <3>4
  <2>2. ASSUME NEW c \in Slots, CreateRequest(c) PROVE OnlyMainnetRedirected'
    <3>1. calls[c] # Free
      BY <2>2, NotFree DEF CreateRequest
    <3>2. /\ calls'[c].kind = calls[c].kind /\ calls'[c].tx = calls[c].tx
          /\ calls'[c].target = calls[c].target /\ calls'[c].provider = calls[c].provider
      BY <1>6, <2>2, <3>1, BusyCall DEF CreateRequest, TypeOK
    <3>3. \A d \in Slots \ {c} : calls'[d] = calls[d]
      BY <1>6, <2>2 DEF CreateRequest, TypeOK
    <3> QED
      BY <1>1, <1>2, <1>6, <3>1, <3>2, <3>3
  <2>3. ASSUME NEW c \in Slots, MethodNotFound(c) PROVE OnlyMainnetRedirected'
    <3>1. \A d \in Slots : \/ calls'[d] = calls[d] \/ calls'[d] = Free
                           \/ calls'[d] = ChainIdCall("starknet", calls[c].provider)
      BY <1>6, <2>3 DEF MethodNotFound, TypeOK
    <3> HIDE DEF Fine
    <3> QED
      BY <1>1, <1>2, <1>3, <1>4, <1>6, <3>1
  <2>4. ASSUME NEW c \in Slots, Answer(c) \/ BadAnswer(c) \/ StoreChainId(c) \/ EmptyBody(c)
                                  \/ FetchRejects(c)
        PROVE  OnlyMainnetRedirected'
    <3>1. \A d \in Slots : calls'[d] = calls[d] \/ calls'[d] = Free
      BY <1>6, <2>4 DEF Answer, BadAnswer, StoreChainId, EmptyBody, FetchRejects, TypeOK
    <3> HIDE DEF Fine
    <3> QED
      BY <1>1, <1>2, <1>3, <1>6, <3>1
  <2>5. CASE UNCHANGED calls
    BY <1>1, <1>2, <1>6, <2>5
  <2> QED
    BY <1>6, <2>1, <2>2, <2>3, <2>4, <2>5 DEF Next, Sending, CallStep, VersionsFetched, vars
<1> QED
  BY <1>5, <1>6

\* Only transactions for mainnet are redirected to the MEV protection
\* provider, even where chain ids arrive after the request was sent.
THEOREM RedirectsOnlyMainnet == Spec => []OnlyMainnetRedirected
BY InitTyped, NextTyped, ChainIdsInductive, RedirectionInductive, PTL DEF Spec
-----------------------------------------------------------------------------
(* Reported chain ids *)

\* Nothing but CreateRequest creates a request.
LEMMA OnlyCreateRequestCreates ==
    ASSUME TypeOK, [Next]_vars, NEW c \in Slots,
           calls[c].pc = "routing", calls'[c].pc = "created"
    PROVE  CreateRequest(c)
<1>1. calls[c] # Free /\ calls'[c] # Free /\ calls'[c] # calls[c]
  BY DEF Free
<1>2. ASSUME NEW d \in Slots, NEW requested \in Requested, NEW tx \in BOOLEAN,
             Send(d, requested, tx)
      PROVE  FALSE
  <2>1. calls'[c] = calls[c] \/ calls[c] = Free
    BY <1>2 DEF Send, TypeOK, FreeSlots
  <2> QED
    BY <1>1, <2>1
<1>3. ASSUME NEW d \in Slots, CreateRequest(d) PROVE CreateRequest(c)
  <2>1. d # c => calls'[c] = calls[c]
    BY <1>3 DEF CreateRequest, TypeOK
  <2> QED
    BY <1>1, <1>3, <2>1
<1>4. ASSUME NEW d \in Slots, MethodNotFound(d) PROVE FALSE
  <2>1. d = c => calls[c].pc = "created"
    BY <1>4 DEF MethodNotFound, ChainIdRequest
  <2>2. d # c => calls'[c] = calls[c]
    BY <1>4 DEF MethodNotFound, TypeOK
  <2> QED
    BY <1>1, <2>1, <2>2
<1>5. ASSUME NEW d \in Slots, Answer(d) \/ BadAnswer(d) \/ StoreChainId(d) \/ EmptyBody(d)
                                \/ FetchRejects(d)
      PROVE  FALSE
  <2>1. calls'[c] = calls[c] \/ calls'[c] = Free
    BY <1>5 DEF Answer, BadAnswer, StoreChainId, EmptyBody, FetchRejects, TypeOK
  <2> QED
    BY <1>1, <2>1
<1>6. CASE UNCHANGED calls
  BY <1>1, <1>6
<1> QED
  BY <1>2, <1>3, <1>4, <1>5, <1>6 DEF Next, Sending, CallStep, VersionsFetched, vars

\* A request that was not overtaken reports the chain id of its provider.
THEOREM ReportsCorrect == Spec => ReportsOwnChainId
<1> DEFINE step == \A c \in Slots :
              calls[c].pc = "routing" /\ calls'[c].pc = "created" /\ handler = calls[c].target =>
                calls'[c].reported \in {Chain[calls[c].target], "undefined"}
<1>1. ASSUME TypeOK, ChainIdsCorrect, [Next]_vars PROVE step
  <2> SUFFICES ASSUME NEW c \in Slots, calls[c].pc = "routing", calls'[c].pc = "created",
                      handler = calls[c].target
               PROVE  calls'[c].reported \in {Chain[calls[c].target], "undefined"}
    OBVIOUS
  <2>1. CreateRequest(c)
    BY <1>1, OnlyCreateRequestCreates
  <2>2. calls[c] \in BusyCalls
    BY <1>1, NotFree, BusyCall
  <2>3. calls'[c].reported = IF chainIds[handler] = "none" THEN "undefined" ELSE chainIds[handler]
    BY <1>1, <2>1, <2>2 DEF CreateRequest, BusyCalls, TypeOK
  <2>4. chainIds[handler] \in {Chain[handler], "none", "undefined"}
    BY <1>1 DEF ChainIdsCorrect, TypeOK
  <2> QED
    BY <2>3, <2>4
<1>2. Spec => [][step]_vars
  <2> HIDE DEF step
  <2> QED
    BY <1>1, InitTyped, NextTyped, ChainIdsInductive, PTL DEF Spec
<1> QED
  BY <1>2 DEF ReportsOwnChainId
==============================================================================
