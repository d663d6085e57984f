------------------------------- MODULE Pairings -------------------------------
(***************************************************************************)
(* How the discovery platform hands out routes: the requests               *)
(* GET /nodes/pairings.                                                    *)
(*                                                                         *)
(* A request awaits the check of its client, one query that selects routes *)
(* and then two queries at the same time that look up the nodes of these   *)
(* routes.  Between them the availability monitor replaces the tables of   *)
(* routes and the operator of the platform changes nodes and clients.      *)
(* What happens to the tables and the nodes are the steps of RouteTables,  *)
(* which AvailabilityMonitor implements.                                   *)
(***************************************************************************)
EXTENDS Naturals, FiniteSets

CONSTANTS
    Entries, Exits,  \* ids of nodes
    Rank,            \* Rank[x]: the place of exit x in the order of ids
    Users, Clients,
    Owner,           \* Owner[c]: the user of client c
    UuidTokens,      \* clients whose token reads as a uuid
    IdTokens,        \* ... and is the client's own id
    Amounts,         \* what a request may ask for
    Requests,
    MaxWrites,       \* bound: how often the tables are replaced
    MaxChurn,        \* bound: changes of nodes, associations and clients
    DbFails          \* do queries fail?

Nodes == Entries \cup Exits
Kinds == {"zero_hop_pairings", "one_hop_pairings"}
Routes == Entries \X Exits

ASSUME NodesAssumption ==
    Entries \cap Exits = {} /\ IsFiniteSet(Entries) /\ IsFiniteSet(Exits)
ASSUME RankAssumption ==
    Rank \in [Exits -> Nat] /\ \A x, y \in Exits : Rank[x] = Rank[y] => x = y
ASSUME OwnerAssumption == Owner \in [Clients -> Users]
ASSUME TokensAssumption == IdTokens \subseteq UuidTokens /\ UuidTokens \subseteq Clients
ASSUME AmountsAssumption == Amounts \subseteq Nat
ASSUME BoundsAssumption == MaxWrites \in Nat /\ MaxChurn \in Nat /\ DbFails \in BOOLEAN

VARIABLES
    tables,      \* tables[k]: the routes in table k
    registered,  \* registered_nodes
    associated,  \* associated_nodes: pairs of a user and a node
    clients,     \* clients that have a row
    valid,       \* ... and are not invalidated
    asked,       \* asked[q]: the parameters of request q
    pc,          \* pc[q]: what request q waits for
    status,      \* status[q]: HTTP status of the response, 0: none yet
    found,       \* found[q]: the routes selected for q
    nodesFor,    \* nodesFor[q]: results of the two parallel queries
    withdrawn,   \* withdrawn[q]: routes selected for q and since then taken out
                 \* of their table (a history variable, for a property)
    writes, churn

data == <<tables, registered, associated, clients, valid, writes, churn>>
request == <<asked, pc, status, found, nodesFor, withdrawn>>
vars == <<data, request>>

Params == [client : Clients, force_zero_hop : BOOLEAN, client_associated : BOOLEAN,
           amount : Amounts]

\* read: the lookups that have a result.
NotRead == [read |-> {}, entries |-> {}, exits |-> {}]

TypeOK ==
    /\ tables \in [Kinds -> SUBSET Routes]
    /\ registered \subseteq Nodes
    /\ associated \subseteq Users \X Nodes
    /\ clients \subseteq Clients
    /\ valid \subseteq clients
    /\ asked \in [Requests -> Params]
    /\ pc \in [Requests -> {"authorize", "pairings", "nodes", "end"}]
    /\ status \in [Requests -> {0, 200, 204, 400, 403, 500}]
    /\ found \in [Requests -> SUBSET Routes]
    /\ nodesFor \in [Requests -> [read    : SUBSET {"entries", "exits"},
                                  entries : SUBSET Entries,
                                  exits   : SUBSET Exits]]
    /\ withdrawn \in [Requests -> SUBSET Routes]
    /\ writes \in 0..MaxWrites
    /\ churn \in 0..MaxChurn

Init ==
    /\ tables = [k \in Kinds |-> {}]
    /\ registered = Nodes
    /\ associated = {}
    /\ clients = Clients
    /\ valid = Clients
    /\ asked \in [Requests -> Params]
    /\ pc = [q \in Requests |-> "authorize"]
    /\ status = [q \in Requests |-> 0]
    /\ found = [q \in Requests |-> {}]
    /\ nodesFor = [q \in Requests |-> NotRead]
    /\ withdrawn = [q \in Requests |-> {}]
    /\ writes = 0
    /\ churn = 0

-----------------------------------------------------------------------------
(* listPairings *)

ExitsOf(routes) == {r[2] : r \in routes}
EntriesOf(routes) == {r[1] : r \in routes}
Least(a, b) == IF a < b THEN a ELSE b

Unassociated(n) == \A u \in Users : <<u, n>> \notin associated

\* The rows of the table that the joins and the where clause leave.  A user
\* that the subquery does not find is NULL and equals none.
Eligible(k, user) ==
    {r \in tables[k] : <<user, r[1]>> \in associated /\ <<user, r[2]>> \in associated}
EligibleForAll(k) == {r \in tables[k] : Unassociated(r[1]) /\ Unassociated(r[2])}

\* The exits that come first in the order of ids.
FirstExits(routes, amount) ==
    {x \in ExitsOf(routes) : Cardinality({y \in ExitsOf(routes) : Rank[y] < Rank[x]}) < amount}

\* queryMaxExitsRandEntries: distinct on exits, each with any of its entries.
MaxExitsRandEntries(routes, amount) ==
    {{<<entry[x], x>> : x \in DOMAIN entry} :
       entry \in {f \in [FirstExits(routes, amount) -> EntriesOf(routes)] :
                    \A x \in DOMAIN f : <<f[x], x>> \in routes}}

\* Broken on purpose: the limit does not count the first selection.
RemainingUnlimited(routes, first, amount) ==
    {rest \in SUBSET (routes \ first) :
       Cardinality(rest) = Least(amount, Cardinality(routes \ first))}

\* queryRandomRemainingRoutes: any others, up to the amount.
RandomRemainingRoutes(routes, first, amount) ==
    {rest \in SUBSET (routes \ first) :
       Cardinality(rest) = Least(amount - Cardinality(first), Cardinality(routes \ first))}

\* listPairings: the union of both.
listPairings(routes, amount) ==
    UNION {{first \cup rest : rest \in RandomRemainingRoutes(routes, first, amount)} :
             first \in MaxExitsRandEntries(routes, amount)}

-----------------------------------------------------------------------------
(* The request *)

Respond(q, code) ==
    /\ pc' = [pc EXCEPT ![q] = "end"]
    /\ status' = [status EXCEPT ![q] = code]

\* clientAuthorized, and then the validation without a further await.
Authorize(q) ==
    /\ pc[q] = "authorize"
    /\ IF asked[q].client \notin valid THEN Respond(q, 403)
       ELSE IF asked[q].amount \notin 1..100 THEN Respond(q, 400)
       ELSE /\ pc' = [pc EXCEPT ![q] = "pairings"]
            /\ UNCHANGED status
    /\ UNCHANGED <<data, asked, found, nodesFor, withdrawn>>

\* Errors of the check are logged; the client counts as not authorized.
AuthorizeFails(q) ==
    /\ DbFails
    /\ pc[q] = "authorize"
    /\ Respond(q, 403)
    /\ UNCHANGED <<data, asked, found, nodesFor, withdrawn>>

\* The token is compared with the uuid clients.id: one that is not a uuid
\* makes the query fail, one that is nobody's id selects nothing.
BadToken(q) == asked[q].client_associated /\ asked[q].client \notin UuidTokens
TableOf(q) == IF asked[q].force_zero_hop THEN "zero_hop_pairings" ELSE "one_hop_pairings"
RowsFor(q) ==
    LET k == TableOf(q)
        c == asked[q].client
    IN  IF ~asked[q].client_associated THEN EligibleForAll(k)
        ELSE IF c \in IdTokens \cap clients THEN Eligible(k, Owner[c])
        ELSE {}

\* One statement selects the routes; the lookups start at once.
ListPairings(q) ==
    /\ pc[q] = "pairings"
    /\ ~BadToken(q)
    /\ IF RowsFor(q) = {}
       THEN Respond(q, 204) /\ UNCHANGED found
       ELSE /\ \E routes \in listPairings(RowsFor(q), asked[q].amount) :
                 found' = [found EXCEPT ![q] = routes]
            /\ pc' = [pc EXCEPT ![q] = "nodes"]
            /\ UNCHANGED status
    /\ UNCHANGED <<data, asked, nodesFor, withdrawn>>

ListPairingsFails(q) ==
    /\ pc[q] = "pairings"
    /\ DbFails \/ BadToken(q)
    /\ Respond(q, 500)
    /\ UNCHANGED <<data, asked, found, nodesFor, withdrawn>>

\* The response waits for both lookups.
RespondIfRead(q) ==
    IF nodesFor'[q].read = {"entries", "exits"}
    THEN Respond(q, 200)
    ELSE UNCHANGED <<pc, status>>

ListEntryNodes(q) ==
    /\ pc[q] = "nodes" /\ "entries" \notin nodesFor[q].read
    /\ nodesFor' = [nodesFor EXCEPT ![q].read = @ \cup {"entries"},
                                    ![q].entries = EntriesOf(found[q]) \cap registered]
    /\ RespondIfRead(q)
    /\ UNCHANGED <<data, asked, found, withdrawn>>

\* Broken on purpose: only one exit of each entry is looked up.
ListOneExitEach(q) ==
    /\ pc[q] = "nodes" /\ "exits" \notin nodesFor[q].read
    /\ nodesFor' = [nodesFor EXCEPT ![q].read = @ \cup {"exits"}, ![q].exits =
         {x \in ExitsOf(found[q]) \cap registered :
            \E e \in EntriesOf(found[q]) :
              /\ <<e, x>> \in found[q]
              /\ \A y \in Exits : <<e, y>> \in found[q] => Rank[x] <= Rank[y]}]
    /\ RespondIfRead(q)
    /\ UNCHANGED <<data, asked, found, withdrawn>>

ListExitNodes(q) ==
    /\ pc[q] = "nodes" /\ "exits" \notin nodesFor[q].read
    /\ nodesFor' = [nodesFor EXCEPT ![q].read = @ \cup {"exits"},
                                    ![q].exits = ExitsOf(found[q]) \cap registered]
    /\ RespondIfRead(q)
    /\ UNCHANGED <<data, asked, found, withdrawn>>

\* Broken on purpose: the failure of a lookup is only logged.
ReadNodesLogs(q) ==
    /\ DbFails
    /\ pc[q] = "nodes"
    /\ pc' = [pc EXCEPT ![q] = "end"]
    /\ UNCHANGED <<data, asked, status, found, nodesFor, withdrawn>>

\* One of the lookups fails: the other one is not waited for.
ReadNodesFails(q) ==
    /\ DbFails
    /\ pc[q] = "nodes"
    /\ Respond(q, 500)
    /\ UNCHANGED <<data, asked, found, nodesFor, withdrawn>>

RequestStep(q) ==
    \/ Authorize(q) \/ AuthorizeFails(q)
    \/ ListPairings(q) \/ ListPairingsFails(q)
    \/ ListEntryNodes(q) \/ ListExitNodes(q) \/ ReadNodesFails(q)

-----------------------------------------------------------------------------
(* The database *)

Shared == INSTANCE RouteTables

Withdraw(k) ==
    withdrawn' = [q \in Requests |->
                    IF pc[q] = "nodes" /\ TableOf(q) = k THEN withdrawn[q] \cup (found[q] \ tables'[k])
                    ELSE withdrawn[q]]

\* Broken on purpose: the columns are inserted in the wrong order.
WriteSwappedPairings(k) ==
    /\ writes < MaxWrites /\ writes' = writes + 1
    /\ \E routes \in SUBSET ((Exits \cap registered) \X (Entries \cap registered)) :
         tables' = [tables EXCEPT ![k] = routes]
    /\ Withdraw(k)
    /\ UNCHANGED <<registered, associated, clients, valid, churn, asked, pc, status, found, nodesFor>>

\* The monitor replaces a table.
WritePairings(k) ==
    /\ writes < MaxWrites /\ writes' = writes + 1
    /\ Shared!Replace(k)
    /\ Withdraw(k)
    /\ UNCHANGED <<associated, clients, valid, churn, asked, pc, status, found, nodesFor>>

Churn == churn < MaxChurn /\ churn' = churn + 1 /\ UNCHANGED writes

\* Broken on purpose: only associations keep a node.
UnregisterRouted(n) ==
    /\ n \in registered /\ registered' = registered \ {n}
    /\ Unassociated(n)
    /\ Churn
    /\ UNCHANGED <<tables, associated, clients, valid, request>>

\* Foreign keys keep a node that a route or an association refers to.
Unregister(n) ==
    /\ n \in registered /\ Shared!Unregister(n)
    /\ Unassociated(n)
    /\ Churn
    /\ UNCHANGED <<associated, clients, valid, request>>

Register(n) ==
    /\ n \notin registered /\ Shared!Register(n)
    /\ Churn
    /\ UNCHANGED <<associated, clients, valid, request>>

Associate(u, n) ==
    /\ n \in registered
    /\ \/ <<u, n>> \notin associated /\ associated' = associated \cup {<<u, n>>}
       \/ <<u, n>> \in associated /\ associated' = associated \ {<<u, n>>}
    /\ Churn
    /\ UNCHANGED <<tables, registered, clients, valid, request>>

DeleteClient(c) ==
    /\ c \in clients
    /\ clients' = clients \ {c}
    /\ valid' = valid \ {c}
    /\ Churn
    /\ UNCHANGED <<tables, registered, associated, request>>

\* update sets or clears invalidated_at; the subquery for the user ignores it.
UpdateClient(c) ==
    /\ c \in clients
    /\ \/ c \in valid /\ valid' = valid \ {c}
       \/ c \notin valid /\ valid' = valid \cup {c}
    /\ Churn
    /\ UNCHANGED <<tables, registered, associated, clients, request>>

Environment ==
    \/ \E k \in Kinds : WritePairings(k)
    \/ \E n \in Nodes : Register(n) \/ Unregister(n)
    \/ \E u \in Users, n \in Nodes : Associate(u, n)
    \/ \E c \in Clients : DeleteClient(c) \/ UpdateClient(c)

Next == (\E q \in Requests : RequestStep(q)) \/ Environment

Spec == Init /\ [][Next]_vars

\* Every query is answered, by its result or an error.
FairSpec == Spec /\ \A q \in Requests : WF_vars(RequestStep(q))

-----------------------------------------------------------------------------
(* Properties *)

\* "Will try to fetch routes matching as many different exit nodes as possible":
\* at the moment of the selection nothing better could be had, neither routes
\* nor exits, and 204 says that there was no route at all.
SelectionIsMaximal ==
    [][\A q \in Requests :
         /\ pc[q] = "pairings" /\ pc'[q] = "nodes" =>
              LET routes == found'[q]
                  rows == RowsFor(q)
              IN  /\ routes \subseteq rows
                  /\ Cardinality(routes) = Least(asked[q].amount, Cardinality(rows))
                  /\ Cardinality(ExitsOf(routes)) =
                       Least(asked[q].amount, Cardinality(ExitsOf(rows)))
         /\ status[q] = 0 /\ status'[q] = 204 => RowsFor(q) = {}]_vars

\* Whatever happens between the queries, an answer describes both nodes of each
\* of its routes and no others: as long as a route is in its table, foreign keys
\* keep its nodes.  Only if the monitor withdrew a route meanwhile may a node of
\* it be missing, so that the answer recommends an exit that it does not describe.
AnswersDescribeTheirRoutes ==
    \A q \in Requests :
        status[q] = 200 =>
            /\ \A r \in found[q] \ withdrawn[q] :
                 r[1] \in nodesFor[q].entries /\ r[2] \in nodesFor[q].exits
            /\ nodesFor[q].entries \subseteq EntriesOf(found[q])
            /\ nodesFor[q].exits \subseteq ExitsOf(found[q])

\* Every request is answered: the promise that is not returned from the
\* handler of the first query handles its own errors.
RequestsAnswered == \A q \in Requests : <>(status[q] # 0)
==============================================================================
