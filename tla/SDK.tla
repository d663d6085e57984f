---------------------------------- MODULE SDK ----------------------------------
(***************************************************************************)
(* The SDK: requests are sent to RPC providers through a uHTTP client.     *)
(*                                                                         *)
(* The SDK learns the chain id of a provider by a request of its own,      *)
(* remembers it, reports it with later requests, and redirects mainnet     *)
(* transactions to the MEV protection provider.  All calls share one uHTTP *)
(* client and its one handler for created requests; a call runs without    *)
(* interruption up to uClient.fetch and goes on when fetch answers.  The   *)
(* client looks for a route first and creates the request after that.      *)
(*                                                                         *)
(* Faults names what may go wrong:                                         *)
(*   "failure"    fetch rejects: no route, or no answer in time            *)
(*   "version"    fetch rejects: no nodes matching required version        *)
(*   "badAnswer"  an HTTP error, a JRPC error or no JSON at all            *)
(*   "emptyBody"  a JSON object with neither result nor error              *)
(***************************************************************************)
EXTENDS Naturals

CONSTANTS
    Providers,     \* provider URLs
    BadURLs,       \* those that are not valid URLs
    Default,       \* ops.provider
    Mev,           \* ops.mevProtectionProvider
    DisableMev,    \* ops.disableMevProtection
    Requested,     \* what a request may name as provider; NoProvider: nothing
    Chain,         \* Chain[p]: the chain id that p answers
    Family,        \* Family[p]: the chain id method that p knows, or "neither"
    Slots,         \* calls of doSend that can be under way at the same time
    Faults,        \* what may go wrong, see above
    MaxChecks      \* bound: version checks at the same time

NoProvider == "no provider"
ChainIds == {"0x1", "1", "0x64", "SN_MAIN"}
Methods == {"eth", "starknet"}

ASSUME ProvidersAssumption == Default \in Providers /\ Mev \in Providers /\ BadURLs \subseteq Providers
ASSUME RequestedAssumption == Requested \subseteq Providers \cup {NoProvider}
ASSUME ChainAssumption == Chain \in [Providers -> ChainIds]
ASSUME FamilyAssumption == Family \in [Providers -> Methods \cup {"neither"}]
ASSUME MaxChecksAssumption == MaxChecks \in Nat \ {0}
ASSUME DisableMevAssumption == DisableMev \in BOOLEAN

VARIABLES
    chainIds,      \* the Map: chainIds[p], "none" if there is no entry
    handler,       \* the provider that onRequestCreationHandler looks up
    calls,         \* calls[c]: the doSend call in slot c
    versionChecks  \* number of fetchVersions calls under way

vars == <<chainIds, handler, calls, versionChecks>>

\* kind: the user's request, or the chain id request the SDK makes.
\* provider: what was asked for; target: what doSend determined.
\* reported: the chain id that went with the request.
CallState ==
    [pc : {"free"}] \cup
    [pc       : {"routing", "created"},
     kind     : {"user"} \cup Methods,
     provider : Providers,
     target   : Providers,
     tx       : BOOLEAN,
     reported : ChainIds \cup {"undefined"}]

Free == [pc |-> "free"]
FreeSlots == {c \in Slots : calls[c] = Free}

TypeOK ==
    /\ chainIds \in [Providers -> ChainIds \cup {"none", "undefined"}]
    /\ handler \in Providers
    /\ calls \in [Slots -> CallState]
    /\ versionChecks \in 0..MaxChecks

\* cId === '0x1' or parseInt(cId) === 1.
Mainnet(cId) == cId \in {"0x1", "1"}

\* Broken on purpose: the chain id is not checked.
determineProviderUnchecked(provider, tx) ==
    IF ~DisableMev /\ tx THEN Mev ELSE provider

\* determineProvider: where a request to the provider goes.
determineProvider(provider, tx) ==
    IF ~DisableMev /\ tx /\ Mainnet(chainIds[provider]) THEN Mev ELSE provider

\* doSend's checks of the provider and of the MEV protection provider: the
\* call throws a SendError before it reaches the client.
Sendable(target) == target \notin BadURLs /\ Mev \notin BadURLs

\* doSend up to the call of uClient.fetch.
Call(kind, provider, target, tx) ==
    [pc |-> "routing", kind |-> kind, provider |-> provider, target |-> target,
     tx |-> tx, reported |-> "undefined"]
ChainIdCall(method, provider) == Call(method, provider, provider, FALSE)

\* The constructor checks versions and asks for the default chain id.
Init ==
    /\ chainIds = [p \in Providers |-> "none"]
    /\ handler = Default
    /\ \E c \in Slots :
         calls = [x \in Slots |->
                    IF x = c /\ Sendable(Default) THEN ChainIdCall("eth", Default) ELSE Free]
    /\ versionChecks = 1

-----------------------------------------------------------------------------

\* populateChainIds fetches, unless no provider is named or its entry exists.
Populates(requested) ==
    requested # NoProvider /\ chainIds[requested] = "none" /\ Sendable(requested)

\* send: populateChainIds and then doSend, both up to uClient.fetch.  Each
\* installs its own handler; the user's call comes last.  With a URL that is
\* not valid both are rejected at once, which changes nothing.
Send(c, requested, tx) ==
    LET provider == IF requested = NoProvider THEN Default ELSE requested
        target == determineProvider(provider, tx)
    IN  /\ calls[c] = Free
        /\ Sendable(target)
        /\ \/ /\ ~Populates(requested)
              /\ calls' = [calls EXCEPT ![c] = Call("user", provider, target, tx)]
           \/ /\ Populates(requested)
              /\ \E d \in FreeSlots \ {c} :
                   calls' = [calls EXCEPT ![c] = Call("user", provider, target, tx),
                                          ![d] = ChainIdCall("eth", requested)]
        /\ handler' = target
        /\ UNCHANGED <<chainIds, versionChecks>>

\* The client found a route and creates the request: the handler installed
\* last adds the chain id.
CreateRequest(c) ==
    /\ calls[c].pc = "routing"
    /\ LET cId == chainIds[handler]
       IN  calls' = [calls EXCEPT ![c].pc = "created",
                                  ![c].reported = IF cId = "none" THEN "undefined" ELSE cId]
    /\ UNCHANGED <<chainIds, handler, versionChecks>>

\* The user's request is answered.
Answer(c) ==
    /\ calls[c].pc = "created" /\ calls[c].kind = "user"
    /\ calls' = [calls EXCEPT ![c] = Free]
    /\ UNCHANGED <<chainIds, handler, versionChecks>>

ChainIdRequest(c) == calls[c].pc = "created" /\ calls[c].kind \in Methods

\* Broken on purpose: the answer is stored for the provider asked last.
StoresForHandler(c) ==
    /\ ChainIdRequest(c)
    /\ Family[calls[c].provider] = calls[c].kind
    /\ chainIds' = [chainIds EXCEPT ![handler] = Chain[calls[c].provider]]
    /\ calls' = [calls EXCEPT ![c] = Free]
    /\ UNCHANGED <<handler, versionChecks>>

\* fetchChainId: the provider answers its chain id.
StoreChainId(c) ==
    /\ ChainIdRequest(c)
    /\ Family[calls[c].provider] = calls[c].kind
    /\ chainIds' = [chainIds EXCEPT ![calls[c].provider] = Chain[calls[c].provider]]
    /\ calls' = [calls EXCEPT ![c] = Free]
    /\ UNCHANGED <<handler, versionChecks>>

\* Broken on purpose: Starknet's method is retried, too.
RetriesAlways(c) ==
    /\ ChainIdRequest(c)
    /\ LET p == calls[c].provider
       IN  /\ Family[p] # calls[c].kind
           /\ calls' = [calls EXCEPT ![c] = ChainIdCall("starknet", p)]
           /\ handler' = p
    /\ UNCHANGED <<chainIds, versionChecks>>

\* Broken on purpose: Starknet's method is never tried.
NeverRetries(c) ==
    /\ ChainIdRequest(c)
    /\ Family[calls[c].provider] # calls[c].kind
    /\ calls' = [calls EXCEPT ![c] = Free]
    /\ UNCHANGED <<chainIds, handler, versionChecks>>

\* fetchChainId: the method is unknown, so Starknet's is tried, once.
MethodNotFound(c) ==
    /\ ChainIdRequest(c)
    /\ LET p == calls[c].provider
       IN  /\ Family[p] # calls[c].kind
           /\ IF calls[c].kind = "eth"
              THEN /\ calls' = [calls EXCEPT ![c] = ChainIdCall("starknet", p)]
                   /\ handler' = p
              ELSE /\ calls' = [calls EXCEPT ![c] = Free]
                   /\ UNCHANGED handler
    /\ UNCHANGED <<chainIds, versionChecks>>

\* fetchChainId: anything else is logged and forgotten.
BadAnswer(c) ==
    /\ "badAnswer" \in Faults
    /\ ChainIdRequest(c)
    /\ calls' = [calls EXCEPT ![c] = Free]
    /\ UNCHANGED <<chainIds, handler, versionChecks>>

\* fetchChainId: no error, so the missing result is stored.
EmptyBody(c) ==
    /\ "emptyBody" \in Faults
    /\ ChainIdRequest(c)
    /\ chainIds' = [chainIds EXCEPT ![calls[c].provider] = "undefined"]
    /\ calls' = [calls EXCEPT ![c] = Free]
    /\ UNCHANGED <<handler, versionChecks>>

\* fetch rejects: send rejects, fetchChainId logs; a version mismatch has the
\* versions checked again.
FetchRejects(c) ==
    /\ calls[c] # Free
    /\ \/ "failure" \in Faults /\ UNCHANGED versionChecks
       \/ "version" \in Faults /\ versionChecks < MaxChecks /\ versionChecks' = versionChecks + 1
    /\ calls' = [calls EXCEPT ![c] = Free]
    /\ UNCHANGED <<chainIds, handler>>

\* fetchVersions: the listener is told, or the failure is logged.
VersionsFetched ==
    /\ versionChecks > 0
    /\ versionChecks' = versionChecks - 1
    /\ UNCHANGED <<chainIds, handler, calls>>

CallStep(c) ==
    \/ CreateRequest(c) \/ Answer(c)
    \/ StoreChainId(c) \/ MethodNotFound(c) \/ BadAnswer(c) \/ EmptyBody(c)
    \/ FetchRejects(c)

Sending == \E c \in Slots, requested \in Requested, tx \in BOOLEAN : Send(c, requested, tx)

Next == Sending \/ (\E c \in Slots : CallStep(c)) \/ VersionsFetched

Spec == Init /\ [][Next]_vars

\* The client answers every fetch, in time or with a timeout.
FairSpec == Spec /\ WF_vars(VersionsFetched) /\ \A c \in Slots : WF_vars(CallStep(c))

-----------------------------------------------------------------------------
(* Properties *)

\* A remembered chain id is the one of its own provider, however many chain id
\* requests overlap: several for one provider and for several providers.
ChainIdsCorrect == \A p \in Providers : chainIds[p] \in {Chain[p], "none", "undefined"}

UserTx(c) == calls[c] # Free /\ calls[c].kind = "user" /\ calls[c].tx

\* Only mainnet transactions are redirected: one meant for another chain
\* would be lost at the MEV protection provider.
OnlyMainnetRedirected ==
    \A c \in Slots :
        UserTx(c) /\ calls[c].target # calls[c].provider => Mainnet(Chain[calls[c].provider])

\* Requests of the SDK itself come to an end: method-not-found answers do not
\* send it back and forth between the two methods.
CallsEnd == \A c \in Slots : (calls[c] # Free) ~> (calls[c] = Free)

AsksChainId(c, p) == calls[c] # Free /\ calls[c].kind \in Methods /\ calls[c].provider = p

\* A chain id request fails, for another reason than its method.
Faulty ==
    \E c \in Slots :
        /\ \E p \in Providers : AsksChainId(c, p)
        /\ BadAnswer(c) \/ FetchRejects(c)
        /\ ~MethodNotFound(c)

\* A provider that knows one of the methods and is asked again and again has
\* its chain id learned once faults cease: no failure of the past and no other
\* call under way keeps an entry from ever being made.
ChainIdLearned ==
    \A p \in Providers : Family[p] # "neither" =>
        (<>[][~Faulty]_vars /\ []<>(\E c \in Slots : AsksChainId(c, p))
           => <>(chainIds[p] # "none"))

\* What the SDK asks on its own account settles: every call ends, and the
\* provider's chain id is known in the end.
ProbesSettle == CallsEnd /\ ChainIdLearned

\* "Report chainId for provider with request payload": a request that no later
\* call to another provider overtook reports the chain id of the provider it
\* goes to, if any.
ReportsOwnChainId ==
    [][\A c \in Slots :
         calls[c].pc = "routing" /\ calls'[c].pc = "created" /\ handler = calls[c].target =>
           calls'[c].reported \in {Chain[calls[c].target], "undefined"}]_vars

\* "target MEV Protection provider RPC, will send transactions through this
\* provider": at least after some time no mainnet transaction goes elsewhere.
Unprotected(c) == UserTx(c) /\ Mainnet(Chain[calls[c].provider]) /\ calls[c].target # Mev
ProtectionSettles == ~DisableMev => <>[](\A c \in Slots : ~Unprotected(c))
==============================================================================
