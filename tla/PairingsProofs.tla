---------------------------- MODULE PairingsProofs ----------------------------
(***************************************************************************)
(* Proofs about Pairings for any nodes, clients, users and number of       *)
(* requests, and without bounds on what changes between their queries:     *)
(* every answer describes the nodes of its routes, and its selection is as *)
(* large and as varied as the tables allow.                                *)
(***************************************************************************)
EXTENDS Pairings, FiniteSetTheorems, TLAPS

\* What listPairings selects are rows it was given.
LEMMA SelectsRows ==
    ASSUME NEW routes, NEW amount, NEW selection \in listPairings(routes, amount)
    PROVE  selection \subseteq routes
<1>1. PICK first \in MaxExitsRandEntries(routes, amount) :
        \E rest \in RandomRemainingRoutes(routes, first, amount) : selection = first \cup rest
  BY DEF listPairings
<1>2. first \subseteq routes
  BY DEF MaxExitsRandEntries
<1>3. \A rest \in RandomRemainingRoutes(routes, first, amount) : rest \subseteq routes
  BY DEF RandomRemainingRoutes
<1> QED
  BY <1>1, <1>2, <1>3

\* The rows of a request are in the table it asks for.
LEMMA RowsInTable ==
    ASSUME TypeOK, NEW q \in Requests
    PROVE  TableOf(q) \in Kinds /\ RowsFor(q) \subseteq tables[TableOf(q)]
BY DEF TableOf, Kinds, RowsFor, Eligible, EligibleForAll

-----------------------------------------------------------------------------
(* Type correctness *)

Lookups == [read : SUBSET {"entries", "exits"}, entries : SUBSET Entries, exits : SUBSET Exits]

LEMMA Initially == Init => TypeOK
BY BoundsAssumption DEF Init, TypeOK, NotRead

\* A response ends the request.
LEMMA RespondTyped ==
    ASSUME TypeOK, NEW q \in Requests, NEW code \in {0, 200, 204, 400, 403, 500}, Respond(q, code)
    PROVE  /\ pc' \in [Requests -> {"authorize", "pairings", "nodes", "end"}]
           /\ status' \in [Requests -> {0, 200, 204, 400, 403, 500}]
           /\ pc'[q] = "end" /\ status'[q] = code
           /\ \A p \in Requests \ {q} : pc'[p] = pc[p] /\ status'[p] = status[p]
BY DEF Respond, TypeOK

LEMMA AuthorizeTyped ==
    ASSUME TypeOK, NEW q \in Requests,
           Authorize(q) \/ AuthorizeFails(q) \/ ListPairingsFails(q) \/ ReadNodesFails(q)
    PROVE  TypeOK'
<1>1. data' = data /\ asked' = asked /\ found' = found /\ nodesFor' = nodesFor /\ withdrawn' = withdrawn
  BY DEF Authorize, AuthorizeFails, ListPairingsFails, ReadNodesFails
<1>2. /\ pc' \in [Requests -> {"authorize", "pairings", "nodes", "end"}]
      /\ status' \in [Requests -> {0, 200, 204, 400, 403, 500}]
  <2>1. CASE \E code \in {0, 200, 204, 400, 403, 500} : Respond(q, code)
    BY <2>1, RespondTyped
  <2>2. CASE pc' = [pc EXCEPT ![q] = "pairings"] /\ status' = status
    BY <2>2 DEF TypeOK
  <2> QED
    BY <2>1, <2>2 DEF Authorize, AuthorizeFails, ListPairingsFails, ReadNodesFails
<1> QED
  BY <1>1, <1>2 DEF TypeOK, data

LEMMA ListPairingsTyped ==
    ASSUME TypeOK, NEW q \in Requests, ListPairings(q)
    PROVE  TypeOK'
<1>1. data' = data /\ asked' = asked /\ nodesFor' = nodesFor /\ withdrawn' = withdrawn
  BY DEF ListPairings
<1>2. CASE RowsFor(q) = {}
  <2>1. Respond(q, 204) /\ found' = found
    BY <1>2 DEF ListPairings
  <2> QED
    BY <1>1, <2>1, RespondTyped DEF TypeOK, data
<1>3. CASE RowsFor(q) # {}
  <2>1. PICK routes \in listPairings(RowsFor(q), asked[q].amount) :
          found' = [found EXCEPT ![q] = routes]
    BY <1>3 DEF ListPairings
  <2>2. routes \in SUBSET Routes
    <3>1. routes \subseteq RowsFor(q)
      BY SelectsRows
    <3>2. tables[TableOf(q)] \subseteq Routes
      BY RowsInTable DEF TypeOK
    <3> QED
      BY <3>1, <3>2, RowsInTable
  <2>3. pc' = [pc EXCEPT ![q] = "nodes"] /\ status' = status
    BY <1>3 DEF ListPairings
  <2> QED
    BY <1>1, <2>1, <2>2, <2>3 DEF TypeOK, data
<1> QED
  BY <1>2, <1>3

\* The results of a lookup.
LEMMA LookupTyped ==
    ASSUME NEW x \in Lookups, NEW e \in SUBSET Entries, NEW y \in SUBSET Exits
    PROVE  /\ [x EXCEPT !.read = @ \cup {"entries"}, !.entries = e] \in Lookups
           /\ [x EXCEPT !.read = @ \cup {"exits"}, !.exits = y] \in Lookups
<1>1. [x EXCEPT !.read = @ \cup {"entries"}, !.entries = e] \in Lookups
  BY DEF Lookups
<1>2. [x EXCEPT !.read = @ \cup {"exits"}, !.exits = y] \in Lookups
  BY DEF Lookups
<1> QED
  BY <1>1, <1>2

LEMMA FoundNodes ==
    ASSUME TypeOK, NEW q \in Requests
    PROVE  EntriesOf(found[q]) \subseteq Entries /\ ExitsOf(found[q]) \subseteq Exits
BY DEF TypeOK, Routes, EntriesOf, ExitsOf

LEMMA ListNodesTyped ==
    ASSUME TypeOK, NEW q \in Requests, ListEntryNodes(q) \/ ListExitNodes(q)
    PROVE  TypeOK'
<1>1. data' = data /\ asked' = asked /\ found' = found /\ withdrawn' = withdrawn
  BY DEF ListEntryNodes, ListExitNodes
<1>2. nodesFor \in [Requests -> Lookups] /\ nodesFor[q] \in Lookups
  BY DEF TypeOK, Lookups
<1>3. nodesFor' \in [Requests -> Lookups]
  <2>1. CASE nodesFor' = [nodesFor EXCEPT ![q] =
               [nodesFor[q] EXCEPT !.read = @ \cup {"entries"},
                                   !.entries = EntriesOf(found[q]) \cap registered]]
    <3>1. [nodesFor[q] EXCEPT !.read = @ \cup {"entries"},
                              !.entries = EntriesOf(found[q]) \cap registered] \in Lookups
      BY <1>2, FoundNodes, LookupTyped
    <3> QED
      BY <1>2, <2>1, <3>1
  <2>2. CASE nodesFor' = [nodesFor EXCEPT ![q] =
               [nodesFor[q] EXCEPT !.read = @ \cup {"exits"},
                                   !.exits = ExitsOf(found[q]) \cap registered]]
    <3>1. [nodesFor[q] EXCEPT !.read = @ \cup {"exits"},
                              !.exits = ExitsOf(found[q]) \cap registered] \in Lookups
      BY <1>2, FoundNodes, LookupTyped
    <3> QED
      BY <1>2, <2>2, <3>1
  <2> QED
    BY <2>1, <2>2 DEF ListEntryNodes, ListExitNodes
<1>4. /\ pc' \in [Requests -> {"authorize", "pairings", "nodes", "end"}]
      /\ status' \in [Requests -> {0, 200, 204, 400, 403, 500}]
  <2>1. Respond(q, 200) \/ (pc' = pc /\ status' = status)
    BY DEF ListEntryNodes, ListExitNodes, RespondIfRead
  <2> QED
    BY <2>1, RespondTyped DEF TypeOK
<1> QED
  BY <1>1, <1>3, <1>4 DEF TypeOK, data, Lookups

LEMMA EnvironmentTyped ==
    ASSUME TypeOK, Environment
    PROVE  TypeOK'
<1>1. ASSUME NEW k \in Kinds, WritePairings(k) PROVE TypeOK'
  <2>1. PICK rows \in SUBSET Shared!Publishable : tables' = [tables EXCEPT ![k] = rows]
    BY <1>1 DEF WritePairings, Shared!Replace
  <2>2. tables' \in [Kinds -> SUBSET Routes]
    BY <2>1 DEF TypeOK, Routes, Shared!Publishable
  <2>3. writes' \in 0..MaxWrites
    BY <1>1, BoundsAssumption DEF WritePairings, TypeOK
  <2>4. withdrawn' \in [Requests -> SUBSET Routes]
    BY <1>1 DEF WritePairings, Withdraw, TypeOK
  <2>5. registered' = registered
    BY <1>1 DEF WritePairings, Shared!Replace
  <2> QED
    BY <1>1, <2>2, <2>3, <2>4, <2>5 DEF WritePairings, TypeOK
<1>2. Churn => churn' \in 0..MaxChurn
  BY BoundsAssumption DEF Churn, TypeOK
<1>3. ASSUME NEW n \in Nodes, Register(n) PROVE TypeOK'
  BY <1>2, <1>3 DEF Register, Shared!Register, Churn, TypeOK, request
<1>4. ASSUME NEW n \in Nodes, Unregister(n) PROVE TypeOK'
  BY <1>2, <1>4 DEF Unregister, Shared!Unregister, Churn, TypeOK, request
<1>5. ASSUME NEW u \in Users, NEW n \in Nodes, Associate(u, n) PROVE TypeOK'
  BY <1>2, <1>5 DEF Associate, Churn, TypeOK, request
<1>6. ASSUME NEW c \in Clients, DeleteClient(c) PROVE TypeOK'
  BY <1>2, <1>6 DEF DeleteClient, Churn, TypeOK, request
<1>7. ASSUME NEW c \in Clients, UpdateClient(c) PROVE TypeOK'
  BY <1>2, <1>7 DEF UpdateClient, Churn, TypeOK, request
<1> QED
  BY <1>1, <1>3, <1>4, <1>5, <1>6, <1>7 DEF Environment

LEMMA NextTyped == TypeOK /\ [Next]_vars => TypeOK'
<1> SUFFICES ASSUME TypeOK, [Next]_vars PROVE TypeOK'
  OBVIOUS
<1>1. ASSUME NEW q \in Requests, RequestStep(q) PROVE TypeOK'
  BY <1>1, AuthorizeTyped, ListPairingsTyped, ListNodesTyped DEF RequestStep
<1>2. CASE UNCHANGED vars
  BY <1>2 DEF vars, data, request, TypeOK
<1> QED
  BY <1>1, <1>2, EnvironmentTyped DEF Next

\* Type correctness of the route handout.
THEOREM TypeCorrect == Spec => []TypeOK
BY Initially, NextTyped, PTL DEF Spec

-----------------------------------------------------------------------------
(* Answers describe their routes *)

\* The routes of q that the monitor did not withdraw since q's selection.
Left(q) == found[q] \ withdrawn[q]

\* The foreign keys.
NodesReferenced ==
    \A k \in Kinds : \A r \in tables[k] : r[1] \in registered /\ r[2] \in registered

\* Until the lookups, what is left of the routes is in their table.
Available(q) == pc[q] = "nodes" => Left(q) \subseteq tables[TableOf(q)]
Fresh(q) == pc[q] \in {"authorize", "pairings"} => nodesFor[q].read = {}
EntriesRead(q) ==
    "entries" \in nodesFor[q].read =>
        /\ \A r \in Left(q) : r[1] \in nodesFor[q].entries
        /\ nodesFor[q].entries \subseteq EntriesOf(found[q])
ExitsRead(q) ==
    "exits" \in nodesFor[q].read =>
        /\ \A r \in Left(q) : r[2] \in nodesFor[q].exits
        /\ nodesFor[q].exits \subseteq ExitsOf(found[q])
Answered(q) ==
    status[q] = 200 => pc[q] = "end" /\ {"entries", "exits"} \subseteq nodesFor[q].read
Handled(q) == Available(q) /\ Fresh(q) /\ EntriesRead(q) /\ ExitsRead(q) /\ Answered(q)

PairingsInv == TypeOK /\ NodesReferenced /\ \A q \in Requests : Handled(q)

\* A request that nothing happens to but that its routes may be withdrawn.
LEMMA HandledUnchanged ==
    ASSUME NEW q \in Requests, Handled(q), pc'[q] = pc[q], status'[q] = status[q],
           found'[q] = found[q], nodesFor'[q] = nodesFor[q], withdrawn[q] \subseteq withdrawn'[q],
           pc[q] = "nodes" => Left(q)' \subseteq tables'[TableOf(q)'],
           pc[q] # "nodes" => withdrawn'[q] = withdrawn[q]
    PROVE  Handled(q)'
<1>1. Available(q)'
  BY DEF Available
<1>2. EntriesRead(q)'
  BY DEF Handled, EntriesRead, Left
<1>3. ExitsRead(q)'
  BY DEF Handled, ExitsRead, Left
<1> QED
  BY <1>1, <1>2, <1>3 DEF Handled, Fresh, Answered

\* The database changes.
LEMMA EnvironmentKeeps ==
    ASSUME PairingsInv, Environment
    PROVE  NodesReferenced' /\ \A q \in Requests : Handled(q)'
<1>1. ASSUME NEW k \in Kinds, WritePairings(k)
      PROVE  NodesReferenced' /\ \A q \in Requests : Handled(q)'
  <2>1. PICK rows \in SUBSET Shared!Publishable : tables' = [tables EXCEPT ![k] = rows]
    BY <1>1 DEF WritePairings, Shared!Replace
  <2>2. \A r \in rows : r[1] \in registered /\ r[2] \in registered
    BY <2>1 DEF Shared!Publishable
  <2>3. \A j \in Kinds : tables'[j] = IF j = k THEN rows ELSE tables[j]
    BY <2>1 DEF PairingsInv, TypeOK
  <2>4. /\ registered' = registered
        /\ UNCHANGED <<asked, pc, status, found, nodesFor>>
    BY <1>1 DEF WritePairings, Shared!Replace
  <2>5. NodesReferenced'
    BY <2>2, <2>3, <2>4 DEF PairingsInv, NodesReferenced
  <2>6. ASSUME NEW q \in Requests PROVE Handled(q)'
    <3>1. withdrawn'[q] = IF pc[q] = "nodes" /\ TableOf(q) = k
                          THEN withdrawn[q] \cup (found[q] \ tables'[k]) ELSE withdrawn[q]
      BY <1>1 DEF WritePairings, Withdraw
    <3>2. TableOf(q)' = TableOf(q) /\ TableOf(q) \in Kinds
      BY <2>4 DEF TableOf, Kinds
    <3>3. pc[q] = "nodes" => Left(q)' \subseteq tables'[TableOf(q)']
      BY <2>3, <2>4, <3>1, <3>2 DEF PairingsInv, Handled, Available, Left
    <3> QED
      BY <2>4, <3>1, <3>3, HandledUnchanged DEF PairingsInv
  <2> QED
    BY <2>5, <2>6
<1>2. ASSUME tables' = tables, request' = request, NodesReferenced'
      PROVE  \A q \in Requests : Handled(q)'
  <2> SUFFICES ASSUME NEW q \in Requests PROVE Handled(q)'
    OBVIOUS
  <2>1. TableOf(q)' = TableOf(q) /\ Left(q)' = Left(q)
    BY <1>2 DEF TableOf, Left, request
  <2> QED
    BY <1>2, <2>1, HandledUnchanged DEF PairingsInv, Handled, Available, request
<1>3. ASSUME NEW n \in Nodes, Unregister(n)
      PROVE  NodesReferenced' /\ \A q \in Requests : Handled(q)'
  <2>1. /\ tables' = tables /\ request' = request /\ registered' = registered \ {n}
        /\ \A k \in Kinds : \A r \in tables[k] : n \notin {r[1], r[2]}
    BY <1>3 DEF Unregister, Shared!Unregister
  <2>2. NodesReferenced'
    BY <2>1 DEF PairingsInv, NodesReferenced
  <2> QED
    BY <1>2, <2>1, <2>2
<1>4. ASSUME tables' = tables, registered \subseteq registered', request' = request
      PROVE  NodesReferenced' /\ \A q \in Requests : Handled(q)'
  <2>1. NodesReferenced'
    BY <1>4 DEF PairingsInv, NodesReferenced
  <2> QED
    BY <1>2, <1>4, <2>1
<1> QED
  BY <1>1, <1>3, <1>4
  DEF Environment, Register, Shared!Register, Associate, DeleteClient, UpdateClient

\* The steps of a request leave the others and the database alone.
LEMMA RequestStepKeeps ==
    ASSUME PairingsInv, NEW q \in Requests, RequestStep(q), Handled(q)'
    PROVE  NodesReferenced' /\ \A p \in Requests : Handled(p)'
<1>1. data' = data /\ withdrawn' = withdrawn /\ asked' = asked
  BY DEF RequestStep, Authorize, AuthorizeFails, ListPairings, ListPairingsFails,
         ListEntryNodes, ListExitNodes, ReadNodesFails
<1>2. NodesReferenced'
  BY <1>1 DEF PairingsInv, NodesReferenced, data
<1>3. ASSUME NEW p \in Requests \ {q}
      PROVE  /\ pc'[p] = pc[p] /\ status'[p] = status[p]
             /\ found'[p] = found[p] /\ nodesFor'[p] = nodesFor[p]
  BY DEF PairingsInv, TypeOK, RequestStep, Authorize, AuthorizeFails, ListPairings,
         ListPairingsFails, ListEntryNodes, ListExitNodes, ReadNodesFails, RespondIfRead, Respond
<1>4. ASSUME NEW p \in Requests \ {q} PROVE Handled(p)'
  <2>1. TableOf(p)' = TableOf(p) /\ Left(p)' = Left(p) /\ tables' = tables
    BY <1>1, <1>3 DEF TableOf, Left, data
  <2> QED
    BY <1>1, <1>3, <2>1, HandledUnchanged DEF PairingsInv, Handled, Available
<1> QED
  BY <1>2, <1>4

\* Steps that end a request without an answer, or pass the authorization.
LEMMA AuthorizeKeeps ==
    ASSUME PairingsInv, NEW q \in Requests,
           Authorize(q) \/ AuthorizeFails(q) \/ ListPairingsFails(q) \/ ReadNodesFails(q)
    PROVE  Handled(q)'
<1>1. data' = data /\ found' = found /\ nodesFor' = nodesFor /\ withdrawn' = withdrawn
  BY DEF Authorize, AuthorizeFails, ListPairingsFails, ReadNodesFails
<1>2. \/ pc'[q] = "end" /\ status'[q] \in {400, 403, 500}
      \/ pc[q] = "authorize" /\ pc'[q] = "pairings" /\ status' = status
  <2>1. CASE \E code \in {400, 403, 500} : Respond(q, code)
    BY <2>1 DEF PairingsInv, TypeOK, Respond
  <2>2. CASE pc[q] = "authorize" /\ pc' = [pc EXCEPT ![q] = "pairings"] /\ status' = status
    BY <2>2 DEF PairingsInv, TypeOK
  <2> QED
    BY <2>1, <2>2 DEF Authorize, AuthorizeFails, ListPairingsFails, ReadNodesFails
<1>3. Handled(q)
  BY DEF PairingsInv
<1> QED
  BY <1>1, <1>2, <1>3
  DEF Handled, Available, Fresh, EntriesRead, ExitsRead, Left, Answered, data

\* The selection: its routes are in their table at this moment.
LEMMA ListPairingsKeeps ==
    ASSUME PairingsInv, NEW q \in Requests, ListPairings(q)
    PROVE  Handled(q)'
<1>1. /\ data' = data /\ nodesFor' = nodesFor /\ withdrawn' = withdrawn /\ asked' = asked
      /\ pc[q] = "pairings"
      /\ Handled(q) /\ nodesFor[q].read = {}
  BY DEF ListPairings, PairingsInv, Handled, Fresh
<1>2. CASE RowsFor(q) = {}
  <2>1. pc'[q] = "end" /\ status'[q] = 204
    BY <1>2 DEF ListPairings, PairingsInv, TypeOK, Respond
  <2> QED
    BY <1>1, <2>1 DEF Handled, Available, Fresh, EntriesRead, ExitsRead, Answered
<1>3. CASE RowsFor(q) # {}
  <2>1. PICK routes \in listPairings(RowsFor(q), asked[q].amount) :
          found' = [found EXCEPT ![q] = routes]
    BY <1>3 DEF ListPairings
  <2>2. pc' = [pc EXCEPT ![q] = "nodes"] /\ status' = status
    BY <1>3 DEF ListPairings
  <2>3. pc'[q] = "nodes" /\ found'[q] = routes
    BY <2>1, <2>2 DEF PairingsInv, TypeOK
  <2>4. routes \subseteq tables[TableOf(q)] /\ TableOf(q) \in Kinds
    BY SelectsRows, RowsInTable DEF PairingsInv
  <2>5. Available(q)'
    BY <1>1, <2>3, <2>4 DEF Available, Left, TableOf, data
  <2>6. status'[q] # 200
    BY <1>1, <2>2 DEF Handled, Answered
  <2> QED
    BY <1>1, <2>3, <2>5, <2>6 DEF Handled, Fresh, EntriesRead, ExitsRead, Answered
<1> QED
  BY <1>2, <1>3

\* The lookups: what is registered is read.
LEMMA ListNodesKeeps ==
    ASSUME PairingsInv, NEW q \in Requests, ListEntryNodes(q) \/ ListExitNodes(q)
    PROVE  Handled(q)'
<1>1. /\ data' = data /\ found' = found /\ withdrawn' = withdrawn /\ asked' = asked
      /\ pc[q] = "nodes" /\ Handled(q) /\ Left(q)' = Left(q)
      /\ nodesFor \in [Requests -> Lookups]
  BY DEF ListEntryNodes, ListExitNodes, PairingsInv, TypeOK, Lookups, Left
<1>a. \A r \in Left(q) : r[1] \in registered /\ r[2] \in registered
  <2>1. Left(q) \subseteq tables[TableOf(q)] /\ TableOf(q) \in Kinds
    BY <1>1 DEF Handled, Available, TableOf, Kinds
  <2> QED
    BY <2>1 DEF PairingsInv, NodesReferenced
<1>b. \A r \in Left(q) : r[1] \in EntriesOf(found[q]) /\ r[2] \in ExitsOf(found[q])
  BY DEF Left, EntriesOf, ExitsOf
<1>2. EntriesRead(q)' /\ ExitsRead(q)'
  <2>1. CASE ListEntryNodes(q)
    <3>1. nodesFor' = [nodesFor EXCEPT ![q] =
               [nodesFor[q] EXCEPT !.read = @ \cup {"entries"},
                                   !.entries = EntriesOf(found[q]) \cap registered]]
      BY <2>1 DEF ListEntryNodes
    <3>2. /\ nodesFor'[q].entries = EntriesOf(found[q]) \cap registered
          /\ nodesFor'[q].exits = nodesFor[q].exits
          /\ nodesFor'[q].read = nodesFor[q].read \cup {"entries"}
      BY <1>1, <3>1 DEF Lookups
    <3> QED
      BY <1>1, <1>a, <1>b, <3>2 DEF Handled, EntriesRead, ExitsRead
  <2>2. CASE ListExitNodes(q)
    <3>1. nodesFor' = [nodesFor EXCEPT ![q] =
               [nodesFor[q] EXCEPT !.read = @ \cup {"exits"},
                                   !.exits = ExitsOf(found[q]) \cap registered]]
      BY <2>2 DEF ListExitNodes
    <3>2. /\ nodesFor'[q].exits = ExitsOf(found[q]) \cap registered
          /\ nodesFor'[q].entries = nodesFor[q].entries
          /\ nodesFor'[q].read = nodesFor[q].read \cup {"exits"}
      BY <1>1, <3>1 DEF Lookups
    <3> QED
      BY <1>1, <1>a, <1>b, <3>2 DEF Handled, EntriesRead, ExitsRead
  <2> QED
    BY <2>1, <2>2
<1>3. \/ /\ pc'[q] = "end" /\ status'[q] = 200
         /\ nodesFor'[q].read = {"entries", "exits"}
      \/ pc' = pc /\ status' = status
  BY DEF ListEntryNodes, ListExitNodes, RespondIfRead, Respond, PairingsInv, TypeOK
<1>4. status[q] # 200
  BY <1>1 DEF Handled, Answered
<1> QED
  BY <1>1, <1>2, <1>3, <1>4
  DEF Handled, Available, Fresh, Answered, TableOf, data

LEMMA PairingsInductive == PairingsInv /\ [Next]_vars => PairingsInv'
<1> SUFFICES ASSUME PairingsInv, [Next]_vars PROVE PairingsInv'
  OBVIOUS
<1>1. TypeOK'
  BY NextTyped DEF PairingsInv
<1>2. ASSUME NEW q \in Requests, RequestStep(q)
      PROVE  NodesReferenced' /\ \A p \in Requests : Handled(p)'
  <2>1. Handled(q)'
    BY <1>2, AuthorizeKeeps, ListPairingsKeeps, ListNodesKeeps DEF RequestStep
  <2> QED
    BY <1>2, <2>1, RequestStepKeeps
<1>3. ASSUME UNCHANGED vars
      PROVE  NodesReferenced' /\ \A p \in Requests : Handled(p)'
  BY <1>3 DEF PairingsInv, NodesReferenced, Handled, Available, Fresh, EntriesRead, ExitsRead,
     Answered, Left, TableOf, vars, data, request
<1>4. ASSUME Environment
      PROVE  NodesReferenced' /\ \A p \in Requests : Handled(p)'
  BY <1>4, EnvironmentKeeps
<1>5. NodesReferenced' /\ \A p \in Requests : Handled(p)'
  <2>1. CASE UNCHANGED vars
    BY <1>3, <2>1
  <2> QED
    BY <1>2, <1>4, <2>1 DEF Next
<1> QED
  BY <1>1, <1>5 DEF PairingsInv

\* Whatever is changed between its queries, an answer describes both nodes of
\* each of its routes, but for routes that the monitor withdrew meanwhile.
THEOREM AnswersComplete == Spec => []AnswersDescribeTheirRoutes
<1>1. Init => PairingsInv
  BY Initially DEF Init, PairingsInv, NodesReferenced, Handled, Available,
     Fresh, EntriesRead, ExitsRead, Answered, NotRead
<1>2. PairingsInv => AnswersDescribeTheirRoutes
  BY DEF PairingsInv, Handled, Answered, EntriesRead, ExitsRead, Left,
     AnswersDescribeTheirRoutes
<1> QED
  BY <1>1, <1>2, PairingsInductive, PTL DEF Spec

-----------------------------------------------------------------------------
(* The selection is maximal *)

LEMMA FiniteRows ==
    ASSUME NEW rows \in SUBSET Routes
    PROVE  /\ IsFiniteSet(rows) /\ Cardinality(rows) \in Nat
           /\ ExitsOf(rows) \subseteq Exits
           /\ IsFiniteSet(ExitsOf(rows)) /\ Cardinality(ExitsOf(rows)) \in Nat
<1>1. IsFiniteSet(Routes)
  BY NodesAssumption, FS_Product DEF Routes
<1>2. IsFiniteSet(rows)
  BY <1>1, FS_Subset
<1>3. ExitsOf(rows) \subseteq Exits
  BY DEF ExitsOf, Routes
<1>4. IsFiniteSet(ExitsOf(rows))
  BY <1>3, NodesAssumption, FS_Subset
<1> QED
  BY <1>2, <1>3, <1>4, FS_CardinalityType

\* Of a set of exits, those with fewer than amount others before them are as
\* many as there may be: the number of exits before one is its place, and the
\* places of n exits are 0 to n-1.
LEMMA FirstsCounted ==
    ASSUME NEW E \in SUBSET Exits, NEW amount \in Nat
    PROVE  Cardinality({x \in E : Cardinality({y \in E : Rank[y] < Rank[x]}) < amount})
             = Least(amount, Cardinality(E))
<1> DEFINE before(x) == {y \in E : Rank[y] < Rank[x]}
           n == Cardinality(E)
           place == [x \in E |-> Cardinality(before(x))]
           m == Least(amount, n)
           F == {x \in E : place[x] < amount}
<1>1. IsFiniteSet(E) /\ n \in Nat
  BY NodesAssumption, FS_Subset, FS_CardinalityType
<1>2. \A x \in E : Rank[x] \in Nat
  BY RankAssumption
<1>3. ASSUME NEW x \in E
      PROVE  IsFiniteSet(before(x)) /\ place[x] \in Nat /\ place[x] < n
  <2>1. before(x) \in SUBSET (E \ {x})
    BY <1>2
  <2>2. IsFiniteSet(E \ {x}) /\ Cardinality(E \ {x}) = n - 1
    BY <1>1, FS_RemoveElement
  <2>3. IsFiniteSet(before(x)) /\ Cardinality(before(x)) <= n - 1
    BY <2>1, <2>2, FS_Subset
  <2>4. Cardinality(before(x)) \in Nat
    BY <2>3, FS_CardinalityType
  <2> HIDE DEF before, n
  <2> QED
    BY <1>1, <2>3, <2>4
<1>4. ASSUME NEW x \in E, NEW y \in E, Rank[x] < Rank[y]
      PROVE  place[x] < place[y]
  <2>1. before(x) \cup {x} \in SUBSET before(y) /\ x \notin before(x)
    BY <1>2, <1>4
  <2>2. IsFiniteSet(before(x)) /\ IsFiniteSet(before(y))
    BY <1>3
  <2>3. Cardinality(before(x) \cup {x}) = Cardinality(before(x)) + 1
    BY <2>1, <2>2, FS_AddElement
  <2>4. Cardinality(before(x) \cup {x}) <= Cardinality(before(y))
    BY <2>1, <2>2, FS_Subset
  <2>5. Cardinality(before(x)) \in Nat /\ Cardinality(before(y)) \in Nat
    BY <2>2, FS_CardinalityType
  <2> HIDE DEF before
  <2> QED
    BY <2>3, <2>4, <2>5
<1>5. place \in [E -> 0..(n - 1)]
  <2>1. \A x \in E : Cardinality(before(x)) \in 0..(n - 1)
    BY <1>1, <1>3
  <2> HIDE DEF before, n
  <2> QED
    BY <2>1
<1>6. m \in Nat /\ m <= amount /\ m <= n /\ (m = amount \/ m = n)
  BY <1>1 DEF Least
<1>7. F = {x \in E : Cardinality({y \in E : Rank[y] < Rank[x]}) < amount}
  OBVIOUS
<1>8. n = Cardinality(E) /\ m = Least(amount, n)
  OBVIOUS
<1> HIDE DEF before, place, n, m
<1>9. \A x, y \in E : place[x] = place[y] => x = y
  <2> SUFFICES ASSUME NEW x \in E, NEW y \in E, place[x] = place[y], x # y PROVE FALSE
    OBVIOUS
  <2>1. Rank[x] < Rank[y] \/ Rank[y] < Rank[x]
    BY <1>2, RankAssumption
  <2>2. place[x] \in Nat /\ place[y] \in Nat
    BY <1>3
  <2>3. place[x] < place[y] \/ place[y] < place[x]
    BY <1>4, <2>1
  <2> QED
    BY <2>2, <2>3
<1>10. place \in Surjection(E, 0..(n - 1))
  <2>1. place \in Injection(E, 0..(n - 1))
    BY <1>5, <1>9 DEF Injection, IsInjective
  <2>2. IsFiniteSet(0..(n - 1)) /\ Cardinality(0..(n - 1)) = n
    BY <1>1, FS_Interval
  <2> QED
    BY <1>8, <2>1, <2>2, FS_Injection
<1> DEFINE p == [x \in F |-> place[x]]
<1>11. p \in Injection(F, 0..(m - 1)) /\ p \in Surjection(F, 0..(m - 1))
  <2>1. ASSUME NEW x \in F PROVE x \in E /\ place[x] \in 0..(m - 1)
    BY <1>1, <1>5, <1>6
  <2>2. p \in [F -> 0..(m - 1)]
    BY <2>1
  <2>3. p \in Injection(F, 0..(m - 1))
    BY <1>9, <2>1, <2>2 DEF Injection, IsInjective
  <2>4. ASSUME NEW i \in 0..(m - 1) PROVE \E x \in F : p[x] = i
    <3>1. i \in 0..(n - 1) /\ i < amount
      BY <1>1, <1>6
    <3>2. PICK x \in E : place[x] = i
      BY <1>10, <3>1 DEF Surjection
    <3> QED
      BY <3>1, <3>2
  <2> QED
    BY <2>2, <2>3, <2>4 DEF Surjection
<1>12. Cardinality(F) = m
  <2>1. IsFiniteSet(0..(m - 1)) /\ Cardinality(0..(m - 1)) = m
    BY <1>6, FS_Interval
  <2> HIDE DEF p, F
  <2> QED
    BY <1>11, <2>1, FS_Injection
<1> QED
  BY <1>7, <1>8, <1>12

LEMMA LeastOfTwo ==
    \A a, b \in Nat : Least(a, b) \in Nat /\ Least(a, b) <= a /\ Least(a, b) <= b
                       /\ (Least(a, b) = a \/ Least(a, b) = b)
BY DEF Least

\* A set of routes has no more exits than routes.
LEMMA ExitsOfRows ==
    ASSUME NEW rows \in SUBSET Routes
    PROVE  Cardinality(ExitsOf(rows)) <= Cardinality(rows)
<1> DEFINE exit == [r \in rows |-> r[2]]
<1>1. exit \in Surjection(rows, ExitsOf(rows))
  BY DEF Surjection, ExitsOf
<1> QED
  BY <1>1, FiniteRows, FS_Surjection

\* The first selection takes one row for each of the first exits.
LEMMA FirstSelection ==
    ASSUME NEW rows \in SUBSET Routes, NEW amount \in Nat,
           NEW first \in MaxExitsRandEntries(rows, amount)
    PROVE  /\ first \subseteq rows
           /\ ExitsOf(first) = FirstExits(rows, amount)
           /\ Cardinality(ExitsOf(first)) = Least(amount, Cardinality(ExitsOf(rows)))
           /\ Cardinality(first) = Cardinality(ExitsOf(first))
<1> DEFINE D == FirstExits(rows, amount)
<1>1. PICK entry \in [D -> EntriesOf(rows)] :
        /\ \A x \in D : <<entry[x], x>> \in rows
        /\ first = {<<entry[x], x>> : x \in D}
  BY DEF MaxExitsRandEntries
<1>2. first \subseteq rows
  BY <1>1
<1> HIDE DEF D
<1>3. ASSUME NEW x \in D PROVE \E r \in first : r[2] = x
  <2>1. <<entry[x], x>> \in first
    BY <1>1
  <2>2. <<entry[x], x>>[2] = x
    OBVIOUS
  <2> QED
    BY <2>1, <2>2
<1>4. ASSUME NEW r \in first PROVE r[2] \in D /\ r = <<entry[r[2]], r[2]>>
  BY <1>1
<1>5. ExitsOf(first) = D
  BY <1>3, <1>4 DEF ExitsOf
<1>6. Cardinality(D) = Least(amount, Cardinality(ExitsOf(rows)))
  BY FiniteRows, FirstsCounted DEF FirstExits, D
<1>7. Cardinality(first) = Cardinality(D)
  <2> DEFINE exit == [r \in first |-> r[2]]
  <2>1. exit \in Surjection(first, D)
    BY <1>3, <1>4 DEF Surjection
  <2>2. exit \in Injection(first, D)
    <3>1. \A r, s \in first : r[2] = s[2] => r = s
      BY <1>4
    <3>2. exit \in [first -> D]
      BY <2>1 DEF Surjection
    <3> QED
      BY <3>1, <3>2 DEF Injection, IsInjective
  <2>3. first \in SUBSET Routes
    BY <1>2
  <2> HIDE DEF exit
  <2> QED
    BY <2>1, <2>2, <2>3, FiniteRows, FS_Surjection
<1> QED
  BY <1>2, <1>5, <1>6, <1>7 DEF D

\* What listPairings selects: as many rows as asked for or as there are, and
\* among them as many exits as that allows.
LEMMA SelectionCounted ==
    ASSUME NEW rows \in SUBSET Routes, NEW amount \in Nat,
           NEW selection \in listPairings(rows, amount)
    PROVE  /\ selection \subseteq rows
           /\ Cardinality(selection) = Least(amount, Cardinality(rows))
           /\ Cardinality(ExitsOf(selection)) = Least(amount, Cardinality(ExitsOf(rows)))
<1>1. PICK first \in MaxExitsRandEntries(rows, amount) :
        \E rest \in RandomRemainingRoutes(rows, first, amount) : selection = first \cup rest
  BY DEF listPairings
<1>2. PICK rest \in SUBSET (rows \ first) :
        /\ Cardinality(rest) = Least(amount - Cardinality(first), Cardinality(rows \ first))
        /\ selection = first \cup rest
  BY <1>1 DEF RandomRemainingRoutes
<1>3. /\ first \in SUBSET rows /\ first \in SUBSET Routes /\ rest \in SUBSET Routes
      /\ selection \in SUBSET Routes /\ selection \subseteq rows
  BY <1>2, FirstSelection
<1> DEFINE r == Cardinality(rows)
           f == Cardinality(first)
           e == Cardinality(ExitsOf(rows))
<1>4. r \in Nat /\ f \in Nat /\ e \in Nat /\ e <= r /\ f = Least(amount, e)
  BY <1>3, FiniteRows, FirstSelection, ExitsOfRows
<1>5. f <= amount /\ f <= e /\ (f = amount \/ f = e)
  BY <1>4, LeastOfTwo
<1>6. Cardinality(rows \ first) = r - f
  <2>1. rows \cap first = first
    BY <1>3
  <2> QED
    BY <2>1, FiniteRows, FS_Difference
<1>7. Cardinality(selection) = f + Cardinality(rest)
  <2>1. IsFiniteSet(first) /\ IsFiniteSet(rest) /\ Cardinality(rest) \in Nat
    BY <1>3, FiniteRows
  <2>2. first \cap rest = {}
    BY <1>2
  <2>3. Cardinality(first \cap rest) = 0
    BY <2>2, FS_EmptySet
  <2>4. Cardinality(selection) = f + Cardinality(rest) - Cardinality(first \cap rest)
    BY <1>2, <2>1, FS_Union
  <2> QED
    BY <1>4, <2>1, <2>3, <2>4
<1>8. Cardinality(rest) = Least(amount - f, r - f)
  BY <1>2, <1>6
<1> HIDE DEF r, f, e
<1>9. Cardinality(selection) = Least(amount, r)
  BY <1>4, <1>5, <1>7, <1>8 DEF Least
<1>10. Cardinality(ExitsOf(selection)) = f
  <2>1. ExitsOf(first) \subseteq ExitsOf(selection) /\ ExitsOf(selection) \subseteq ExitsOf(rows)
    BY <1>2, <1>3 DEF ExitsOf
  <2>2. Cardinality(ExitsOf(first)) = f
    BY FirstSelection DEF f
  <2>3. CASE f = amount
    <3>1. Cardinality(rest) = 0
      BY <1>4, <1>5, <1>8, <2>3 DEF Least
    <3>2. rest = {}
      BY <1>3, <3>1, FiniteRows, FS_EmptySet
    <3> QED
      BY <1>2, <2>2, <3>2
  <2>4. CASE f = e
    <3>1. ExitsOf(first) \in SUBSET ExitsOf(rows)
      BY <1>3 DEF ExitsOf
    <3>2. ExitsOf(first) = ExitsOf(rows)
      BY <2>2, <2>4, <3>1, FiniteRows, FS_Subset DEF e
    <3> QED
      BY <2>1, <2>2, <3>2
  <2> QED
    BY <1>5, <2>3, <2>4
<1> QED
  BY <1>3, <1>4, <1>9, <1>10 DEF r, e

\* listPairings of the discovery platform: the routes it hands out are the
\* best that could be had at the moment of its query, for every content of the
\* tables and every amount, and 204 says that there were none.
THEOREM SelectionMaximal == Spec => SelectionIsMaximal
<1> DEFINE Maximal ==
      \A q \in Requests :
         /\ pc[q] = "pairings" /\ pc'[q] = "nodes" =>
              LET routes == found'[q]
                  rows == RowsFor(q)
              IN  /\ routes \subseteq rows
                  /\ Cardinality(routes) = Least(asked[q].amount, Cardinality(rows))
                  /\ Cardinality(ExitsOf(routes)) =
                       Least(asked[q].amount, Cardinality(ExitsOf(rows)))
         /\ status[q] = 0 /\ status'[q] = 204 => RowsFor(q) = {}
<1>1. ASSUME TypeOK, NEW p \in Requests, RequestStep(p), NEW q \in Requests
      PROVE  /\ pc[q] = "pairings" /\ pc'[q] = "nodes" =>
                  q = p /\ \E routes \in listPairings(RowsFor(q), asked[q].amount) : found'[q] = routes
             /\ status[q] = 0 /\ status'[q] = 204 => RowsFor(q) = {}
  <2>1. CASE ListPairings(p)
    BY <1>1, <2>1 DEF ListPairings, Respond, TypeOK
  <2>2. CASE Authorize(p) \/ AuthorizeFails(p) \/ ListPairingsFails(p) \/ ReadNodesFails(p)
    BY <1>1, <2>2 DEF Authorize, AuthorizeFails, ListPairingsFails, ReadNodesFails, Respond, TypeOK
  <2>3. CASE ListEntryNodes(p) \/ ListExitNodes(p)
    BY <1>1, <2>3 DEF ListEntryNodes, ListExitNodes, RespondIfRead, Respond, TypeOK
  <2> QED
    BY <1>1, <2>1, <2>2, <2>3 DEF RequestStep
<1>2. ASSUME TypeOK, NEW q \in Requests
      PROVE  RowsFor(q) \in SUBSET Routes /\ asked[q].amount \in Nat
  <2>1. tables[TableOf(q)] \subseteq Routes
    BY <1>2, RowsInTable DEF TypeOK
  <2>2. asked[q].amount \in Amounts
    BY <1>2 DEF TypeOK, Params
  <2> QED
    BY <1>2, <2>1, <2>2, RowsInTable, AmountsAssumption
<1>3. ASSUME TypeOK, NEW p \in Requests, RequestStep(p) PROVE Maximal
  <2>1. ASSUME NEW q \in Requests, pc[q] = "pairings", pc'[q] = "nodes"
        PROVE  /\ found'[q] \subseteq RowsFor(q)
               /\ Cardinality(found'[q]) = Least(asked[q].amount, Cardinality(RowsFor(q)))
               /\ Cardinality(ExitsOf(found'[q])) =
                    Least(asked[q].amount, Cardinality(ExitsOf(RowsFor(q))))
    <3>1. PICK routes \in listPairings(RowsFor(q), asked[q].amount) : found'[q] = routes
      BY <1>1, <1>3, <2>1
    <3>2. RowsFor(q) \in SUBSET Routes /\ asked[q].amount \in Nat
      BY <1>2, <1>3
    <3> QED
      BY <3>1, <3>2, SelectionCounted
  <2> QED
    BY <1>1, <1>3, <2>1
<1>4. TypeOK /\ (Environment \/ UNCHANGED vars) => Maximal
  <2>1. Environment => pc' = pc /\ status' = status
    BY DEF Environment, WritePairings, Register, Unregister, Associate, DeleteClient, UpdateClient, request
  <2> QED
    BY <2>1 DEF vars, request
<1>5. TypeOK /\ [Next]_vars => [Maximal]_vars
  BY <1>3, <1>4 DEF Next
<1> QED
  BY <1>5, TypeCorrect, PTL DEF Spec, SelectionIsMaximal
==============================================================================
