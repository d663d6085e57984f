------------------------- MODULE AvailabilityMonitor -------------------------
(***************************************************************************)
(* The availability monitor: one process that, run after run, reads the    *)
(* registered nodes, asks each for its peers and one of the entries for    *)
(* all payment channels, pings every exit application through one of the   *)
(* exit's peers, and replaces the tables of zero hop and one hop routes.   *)
(*                                                                         *)
(* A ping travels over the hopr network: pongs come back late or never,    *)
(* and wait in the message inbox of the node that sent the ping until they *)
(* are popped or deleted.  Node requests fail in the ways named by Faults: *)
(*   "deleteRefused"  deleting old messages is answered, but not with 204  *)
(*   "deleteLost"     the delete request itself fails (network, timeout)   *)
(*   "errorBody"      a node answers with an error object                  *)
(*   "noAnswer"       any other request fails                              *)
(*   "latePong"       a pong arrives after the inbox was popped            *)
(*   "dbError"        a database statement fails                           *)
(***************************************************************************)
EXTENDS Routes, Naturals

CONSTANTS
    Entries, Exits,   \* ids of nodes that may be registered as entry or exit
    Relays,           \* ids of other nodes, only ever seen as peers
    Links,            \* pairs <<a, b>>: a may see b as a peer
    Channels,         \* pairs <<a, b>>: a may have a payment channel to b
    Faults,           \* what may go wrong, see above
    MaxChurn          \* bound: changes of the set of registered nodes

ASSUME ChurnAssumption == MaxChurn \in Nat
ASSUME NodesAssumption == Entries \cap Exits = {}
ASSUME LinksAssumption == \A l \in Links \cup Channels : l[1] # l[2]

Nodes == Entries \cup Exits
Ids == Nodes \cup Relays
ASSUME ChannelsAssumption == Channels \subseteq Ids \X Ids
Routes2 == Entries \X Exits

VARIABLES
    registered,   \* rows of registered_nodes
    churn,        \* how often registered changed
    zeroHopTable, \* rows of zero_hop_pairings
    oneHopTable,  \* rows of one_hop_pairings
    alive,        \* exits whose application answers pings
    pc,           \* what the run does next; "timer" between two runs
    entryRows,    \* the run's entry nodes
    exitRows,     \* the run's exit nodes
    entryPeers,   \* Map: what the entries answered for their peers
    exitPeers,    \* Map: what the exits answered for their peers
    candidates,   \* entries not yet asked for the channels
    channels,     \* Map: the payment channels of the nodes that answered
    exitIds,      \* exitIds[n]: the exits that node n is to ping
    stage,        \* stage[n]: where the pinging through node n is
    flying,       \* <<n, x, cur>>: pings from n whose pong is still to come;
                  \* cur: of the running run
    inbox,        \* inbox[n]: pongs <<x, cur>> waiting at node n
    heard         \* pongs <<x, cur>> the run has popped

tables == <<zeroHopTable, oneHopTable>>
nodeVars == <<registered, churn>>
rowVars == <<entryRows, exitRows>>
peerVars == <<entryPeers, exitPeers, candidates>>
pingVars == <<exitIds, stage, heard>>
netVars == <<alive, flying, inbox>>
vars == <<nodeVars, tables, alive, pc, rowVars, peerVars, channels, pingVars, flying, inbox>>

NoMap == [id \in {} |-> {}]
Pongs == Exits \X BOOLEAN

TypeOK ==
    /\ registered \subseteq Nodes
    /\ churn \in 0..MaxChurn
    /\ zeroHopTable \subseteq Routes2 /\ oneHopTable \subseteq Routes2
    /\ alive \subseteq Exits
    /\ pc \in {"timer", "exitRows", "entryPeers", "exitPeers", "channels",
               "pings", "writeZeroHop", "writeOneHop", "dead"}
    /\ entryRows \subseteq Entries /\ exitRows \subseteq Exits
    /\ entryPeers \in PartialMaps(Entries, Ids)
    /\ exitPeers \in PartialMaps(Exits, Ids)
    /\ candidates \subseteq Entries
    /\ channels \in PartialMaps(Nodes, Ids)
    /\ exitIds \in [Nodes -> SUBSET Exits]
    /\ stage \in [Nodes -> {"unused", "delete", "send", "pop", "done", "failed", "garbled"}]
    /\ flying \subseteq Nodes \X Pongs
    /\ inbox \in [Nodes -> SUBSET Pongs]
    /\ heard \subseteq Pongs

Idle ==
    /\ entryRows' = {} /\ exitRows' = {}
    /\ entryPeers' = NoMap /\ exitPeers' = NoMap /\ candidates' = {}
    /\ channels' = NoMap
    /\ exitIds' = [n \in Nodes |-> {}]
    /\ stage' = [n \in Nodes |-> "unused"]
    /\ heard' = {}

Init ==
    /\ registered \in SUBSET Nodes /\ churn = 0
    /\ zeroHopTable = {} /\ oneHopTable = {}
    /\ alive = Exits
    /\ pc = "timer"
    /\ entryRows = {} /\ exitRows = {}
    /\ entryPeers = NoMap /\ exitPeers = NoMap /\ candidates = {}
    /\ channels = NoMap
    /\ exitIds = [n \in Nodes |-> {}]
    /\ stage = [n \in Nodes |-> "unused"]
    /\ flying = {} /\ inbox = [n \in Nodes |-> {}] /\ heard = {}

\* Broken on purpose: the timer is not set.
EndRunUnscheduled == pc' = "stopped" /\ Idle

\* The run ends, by its last statement or by an exception that run() logs:
\* what it gathered is garbage and the timer is set (finally, reschedule).
EndRun == pc' = "timer" /\ Idle

\* An exception leaves doRun.
Throw == EndRun /\ UNCHANGED <<nodeVars, tables, netVars>>

-----------------------------------------------------------------------------
(* The environment *)

Register(n) ==
    /\ churn < MaxChurn /\ churn' = churn + 1
    /\ n \notin registered
    /\ registered' = registered \cup {n}
    /\ UNCHANGED <<tables, pc, rowVars, peerVars, channels, pingVars, netVars>>

\* The foreign keys of the route tables keep a routed node registered.
Unregister(n) ==
    /\ churn < MaxChurn /\ churn' = churn + 1
    /\ n \in registered
    /\ \A r \in zeroHopTable \cup oneHopTable : n \notin {r[1], r[2]}
    /\ registered' = registered \ {n}
    /\ UNCHANGED <<tables, pc, rowVars, peerVars, channels, pingVars, netVars>>

ExitAppStops(x) ==
    /\ x \in alive
    /\ alive' = alive \ {x}
    /\ UNCHANGED <<nodeVars, tables, pc, rowVars, peerVars, channels, pingVars, flying, inbox>>

ExitAppStarts(x) ==
    /\ x \notin alive
    /\ alive' = alive \cup {x}
    /\ UNCHANGED <<nodeVars, tables, pc, rowVars, peerVars, channels, pingVars, flying, inbox>>

\* The exit application answered the ping and its pong reaches the sender.
\* Without the fault "latePong" it does so before the sender's inbox is read.
Pong(f) ==
    /\ f \in flying
    /\ "latePong" \in Faults \/ (f[2][2] /\ stage[f[1]] = "pop")
    /\ f[2][1] \in alive
    /\ flying' = flying \ {f}
    /\ inbox' = [inbox EXCEPT ![f[1]] = @ \cup {f[2]}]
    /\ UNCHANGED <<nodeVars, tables, alive, pc, rowVars, peerVars, channels, pingVars>>

\* The ping or its pong is lost.
Lost(f) ==
    /\ f \in flying
    /\ flying' = flying \ {f}
    /\ UNCHANGED <<nodeVars, tables, alive, inbox, pc, rowVars, peerVars, channels, pingVars>>

Environment ==
    \/ \E n \in Nodes : Register(n) \/ Unregister(n)
    \/ \E x \in Exits : ExitAppStops(x) \/ ExitAppStarts(x)
    \/ \E f \in flying : Pong(f) \/ Lost(f)

-----------------------------------------------------------------------------
(* run *)

\* The timer fires and the entry nodes are read.  From here on every pong
\* still under way belongs to an older run.
Aged(pongs) == {<<p[1], FALSE>> : p \in pongs}
StartRun ==
    /\ pc = "timer"
    /\ pc' = "exitRows"
    /\ entryRows' = registered \cap Entries
    /\ flying' = {<<f[1], <<f[2][1], FALSE>>>> : f \in flying}
    /\ inbox' = [n \in Nodes |-> Aged(inbox[n])]
    /\ UNCHANGED <<nodeVars, tables, alive, exitRows, peerVars, channels, pingVars>>

\* The exit nodes are read; without nodes of both kinds there is no run.
ReadExitRows ==
    /\ pc = "exitRows"
    /\ LET rows == registered \cap Exits
       IN  IF entryRows = {} \/ rows = {}
           THEN EndRun
           ELSE /\ exitRows' = rows
                /\ pc' = "entryPeers"
                /\ UNCHANGED <<entryRows, peerVars, channels, pingVars>>
    /\ UNCHANGED <<nodeVars, tables, netVars>>

\* What some of the nodes may report: the ids each is linked to, or some.
Reports(nodes) ==
    {map \in PartialMaps(nodes, Ids) : \A id \in DOMAIN map : {id} \X map[id] \subseteq Links}

\* peersMap over fetchPeers: the nodes that answer, and the peers they report.
GatherEntryPeers ==
    /\ pc = "entryPeers"
    /\ entryPeers' \in Reports(entryRows)
    /\ pc' = "exitPeers"
    /\ UNCHANGED <<nodeVars, tables, netVars, rowVars, exitPeers, candidates, channels, pingVars>>

GatherExitPeers ==
    /\ pc = "exitPeers"
    /\ exitPeers' \in Reports(exitRows)
    /\ candidates' = DOMAIN entryPeers
    /\ pc' = "channels"
    /\ UNCHANGED <<nodeVars, tables, netVars, rowVars, entryPeers, channels, pingVars>>

\* runOnlineChecks starts: each exit that has a peer among the nodes that
\* answered is pinged through one of those, chosen at random.
Assignments ==
    LET known == DOMAIN entryPeers \cup DOMAIN exitPeers
        pingable == {x \in DOMAIN exitPeers : exitPeers[x] \cap known # {}}
    IN  {via \in [pingable -> known] : \A x \in pingable : via[x] \in exitPeers[x]}

StartPings ==
    \E via \in Assignments :
        /\ exitIds' = [n \in Nodes |-> {x \in DOMAIN via : via[x] = n}]
        /\ stage' = [n \in Nodes |-> IF exitIds'[n] = {} THEN "unused" ELSE "delete"]
        /\ heard' = {}

\* gatherChannels with an entry that answers, or with none left to ask.  Of all
\* channels of the network, those of the nodes that reported peers are used.
GatherChannels ==
    /\ pc = "channels"
    /\ candidates' = {}
    /\ LET known == DOMAIN entryPeers \cup DOMAIN exitPeers
       IN  channels' \in IF candidates = {} THEN {NoMap}
                         ELSE {channelsMap(chs) : chs \in SUBSET {c \in Channels : c[1] \in known}}
    /\ pc' = "pings"
    /\ StartPings
    /\ UNCHANGED <<nodeVars, tables, netVars, rowVars, entryPeers, exitPeers>>

\* The entry asked gives no answer: gatherChannels goes on with the others.
NoChannels ==
    /\ pc = "channels"
    /\ "noAnswer" \in Faults
    /\ \E e \in candidates : candidates' = candidates \ {e}
    /\ UNCHANGED <<nodeVars, tables, netVars, pc, rowVars, entryPeers, exitPeers, channels, pingVars>>

\* The entry asked answers with an error: respCh.all is undefined and
\* channelsMap throws.
GarbledChannels ==
    /\ pc = "channels"
    /\ "errorBody" \in Faults
    /\ candidates # {}
    /\ Throw

-----------------------------------------------------------------------------
(* runOnlineChecks: delete, ping, wait and pop, in parallel through all the *)
(* nodes that have exits to ping                                            *)

Pinging(n, from, to) ==
    /\ pc = "pings"
    /\ stage[n] = from
    /\ stage' = [stage EXCEPT ![n] = to]
    /\ UNCHANGED <<nodeVars, tables, alive, pc, rowVars, peerVars, channels, exitIds>>

\* Broken on purpose: the inbox is not emptied.
DeletePongsSkipped(n) ==
    /\ Pinging(n, "delete", "send")
    /\ UNCHANGED <<flying, inbox, heard>>

\* The node empties its inbox.
DeletePongs(n) ==
    /\ Pinging(n, "delete", "send")
    /\ inbox' = [inbox EXCEPT ![n] = {}]
    /\ UNCHANGED <<flying, heard>>

\* deleteMessages rejects: the error is logged and the pings go out anyway.
DeleteRefused(n) ==
    /\ "deleteRefused" \in Faults
    /\ Pinging(n, "delete", "send")
    /\ UNCHANGED <<flying, inbox, heard>>

\* fetch rejects inside deleteMessages' promise executor: nobody handles the
\* rejection, and an unhandled rejection ends a node process.
DeleteLost(n) ==
    /\ "deleteLost" \in Faults
    /\ pc = "pings" /\ stage[n] = "delete"
    /\ pc' = "dead" /\ Idle
    /\ UNCHANGED <<nodeVars, tables, netVars>>

\* Some of the pings are sent; failures are logged and change nothing.
SendPings(n) ==
    /\ Pinging(n, "send", "pop")
    /\ \E sent \in SUBSET exitIds[n] :
         flying' = flying \cup {<<n, <<x, TRUE>>>> : x \in sent}
    /\ UNCHANGED <<inbox, heard>>

\* After the grace period the inbox is popped.
PopPongs(n) ==
    /\ Pinging(n, "pop", "done")
    /\ heard' = heard \cup inbox[n]
    /\ inbox' = [inbox EXCEPT ![n] = {}]
    /\ UNCHANGED flying

PopFailed(n) ==
    /\ \/ "noAnswer" \in Faults /\ Pinging(n, "pop", "failed")
       \/ "errorBody" \in Faults /\ Pinging(n, "pop", "garbled")
    /\ UNCHANGED <<flying, inbox, heard>>

\* allSettled: every node is through.  An error object instead of messages
\* makes the evaluation of the results throw.
CollectPongs ==
    /\ pc = "pings"
    /\ \A n \in Nodes : stage[n] \notin {"delete", "send", "pop"}
    /\ IF \E n \in Nodes : stage[n] = "garbled"
       THEN EndRun
       ELSE pc' = "writeZeroHop" /\ UNCHANGED <<rowVars, peerVars, channels, pingVars>>
    /\ UNCHANGED <<nodeVars, tables, netVars>>

-----------------------------------------------------------------------------
(* writePairings, once per table, each in a transaction of its own *)

\* The routes of the run, from what it gathered.
zhPairs == zeroHop(entryPeers, exitPeers)
ohPairs == oneHop(channels, entryPeers, exitPeers)

Online == {p[1] : p \in heard}

\* Broken on purpose: routes to offline exits are kept.
AllPairs(pairs) == toPairings(pairs)

\* The rows to write, and whether the foreign keys allow them.
OnlinePairs(pairs) == toPairings(filterOnline(pairs, Online))

\* Broken on purpose: no foreign keys.
AnyPairs(pairs) == OnlinePairs(pairs) \subseteq Nodes \X Nodes

KnownPairs(pairs) == OnlinePairs(pairs) \subseteq registered \X registered

\* Broken on purpose: the old rows are not deleted.
WriteZeroHopAppends ==
    /\ pc = "writeZeroHop"
    /\ KnownPairs(zhPairs)
    /\ zeroHopTable' = zeroHopTable \cup OnlinePairs(zhPairs)
    /\ pc' = "writeOneHop"
    /\ UNCHANGED <<nodeVars, oneHopTable, netVars, rowVars, peerVars, channels, pingVars>>

\* All rows are deleted and the routes inserted, in one transaction.
WriteZeroHop ==
    /\ pc = "writeZeroHop"
    /\ KnownPairs(zhPairs)
    /\ zeroHopTable' = OnlinePairs(zhPairs)
    /\ pc' = "writeOneHop"
    /\ UNCHANGED <<nodeVars, oneHopTable, netVars, rowVars, peerVars, channels, pingVars>>

\* Broken on purpose: entry and exit column swapped.
WriteOneHopSwapped ==
    /\ pc = "writeOneHop"
    /\ KnownPairs(ohPairs)
    /\ oneHopTable' = {<<r[2], r[1]>> : r \in OnlinePairs(ohPairs)}
    /\ EndRun
    /\ UNCHANGED <<nodeVars, zeroHopTable, netVars>>

\* The second transaction; the run is over.
WriteOneHop ==
    /\ pc = "writeOneHop"
    /\ KnownPairs(ohPairs)
    /\ oneHopTable' = OnlinePairs(ohPairs)
    /\ EndRun
    /\ UNCHANGED <<nodeVars, zeroHopTable, netVars>>

\* The insert hits a node that was unregistered meanwhile, or a statement
\* fails: rollback and out.
WriteFails ==
    /\ \/ pc = "writeZeroHop" /\ ("dbError" \in Faults \/ ~KnownPairs(zhPairs))
       \/ pc = "writeOneHop" /\ ("dbError" \in Faults \/ ~KnownPairs(ohPairs))
    /\ Throw

\* Reading the node rows fails.
ReadFails ==
    /\ pc = "exitRows"
    /\ "dbError" \in Faults
    /\ Throw

\* Whoever runs the process starts it again.
Restart ==
    /\ pc = "dead"
    /\ pc' = "timer"
    /\ UNCHANGED <<nodeVars, tables, netVars, rowVars, peerVars, channels, pingVars>>

PingStep(n) ==
    \/ DeletePongs(n) \/ DeleteRefused(n) \/ DeleteLost(n)
    \/ SendPings(n) \/ PopPongs(n) \/ PopFailed(n)

RunStep ==
    \/ StartRun \/ ReadExitRows \/ ReadFails
    \/ GatherEntryPeers \/ GatherExitPeers
    \/ GatherChannels \/ NoChannels \/ GarbledChannels
    \/ \E n \in Nodes : PingStep(n)
    \/ CollectPongs
    \/ WriteZeroHop \/ WriteOneHop \/ WriteFails

Next == Environment \/ RunStep \/ Restart

Spec == Init /\ [][Next]_vars
FairSpec == Spec /\ WF_vars(RunStep)

-----------------------------------------------------------------------------
(* Properties *)

\* Once its transaction is through, the zero hop table holds exactly the routes
\* that the run observed: the nodes see each other, and a pong of the exit was
\* read.  Nothing else changes the table.
ZeroHopRoutesObserved ==
    [][(pc = "writeZeroHop" /\ pc' = "writeOneHop") \/ zeroHopTable' # zeroHopTable =>
         zeroHopTable' = WithOnlineExit(ZeroHopRoutes(entryPeers, exitPeers), Online)]_<<tables, pc>>

\* The one hop table changes to exactly the routes that the run observed: there
\* is a paid relay there and one back, and a pong of the exit was read.
OneHopRoutesObserved ==
    [][oneHopTable' # oneHopTable =>
         /\ pc = "writeOneHop"
         /\ oneHopTable' = WithOnlineExit(OneHopRoutes(channels, entryPeers, exitPeers), Online)]_tables

\* Each table is replaced by the routes that the run observed, all of them and
\* no others: no row of an older run is carried over, whichever of the two
\* transactions fails and whatever was registered meanwhile.
RoutesObserved == ZeroHopRoutesObserved /\ OneHopRoutesObserved

\* Whatever a run has read before, whatever is registered or removed while it
\* goes on, and wherever it fails: what it does to the tables that the platform
\* reads is to replace one of them, as a whole, by routes between nodes that are
\* registered at that moment.
Shared == INSTANCE RouteTables WITH
              Kinds <- {"zero_hop_pairings", "one_hop_pairings"},
              tables <- [k \in {"zero_hop_pairings", "one_hop_pairings"} |->
                           IF k = "zero_hop_pairings" THEN zeroHopTable ELSE oneHopTable]
ImplementsRouteTables == Shared!RouteTablesSpec

\* An exit counts as online only if it answered a ping of the running run:
\* the inboxes were emptied before the pings went out.
OnlineMeansAnsweredNow == \A p \in heard : p[2]

\* Whatever happens to a run, another one starts: "schedule new run every
\* min 30sec and max 10 min".
MonitorKeepsRunning == []<>(pc = "exitRows")

\* An answer that cannot be read, or a failing statement, ends a run early.
RunFails ==
    \/ ReadFails \/ GarbledChannels \/ WriteFails
    \/ CollectPongs /\ pc' = "timer"

\* Routes to an exit whose application stays silent disappear for good, once
\* runs do not fail any more: whatever was lost, came late or went wrong before,
\* and though nodes go on to be silent and to refuse deletes.
SilentExitsAreUnpublished ==
    <>[][~RunFails]_vars =>
      \A x \in Exits :
        <>[](x \notin alive) => <>[](\A r \in zeroHopTable \cup oneHopTable : r[2] # x)
==============================================================================
