------------------------------ MODULE QuotaProofs ------------------------------
(***************************************************************************)
(* Proofs about Quota for all users, clients, processes and bounds.        *)
(*                                                                         *)
(* Type correctness and the bound on losses hold for any number of         *)
(* platform processes.  That no usage is counted twice and no month is     *)
(* archived twice holds for one process: the theorems assume it.           *)
(***************************************************************************)
EXTENDS Quota, TLAPS

-----------------------------------------------------------------------------
(* Counters *)

Counters == [Columns -> Nat]

\* Zero is a vector of counters, all of them zero.
LEMMA ZeroCounters == Zero \in Counters /\ \A col \in Columns : Zero[col] = 0
BY DEF Zero, Counters

\* Plus adds column by column.
LEMMA PlusCounters ==
    ASSUME NEW a \in Counters, NEW b \in Counters
    PROVE  /\ Plus(a, b) \in Counters
           /\ \A col \in Columns : Plus(a, b)[col] = a[col] + b[col]
BY DEF Plus, Counters

\* Adding nothing changes nothing.
LEMMA PlusZero ==
    ASSUME NEW a \in Counters
    PROVE  Plus(a, Zero) = a
BY DEF Plus, Counters, Zero

\* What a report adds is a vector of counters.
LEMMA UsageCounters ==
    ASSUME NEW r \in Report
    PROVE  Usage(r) \in Counters
<1>1. r.segments \in Nat
  BY SegmentCountsAssumption DEF Report
<1>2. Zero \in Counters
  BY ZeroCounters
<1> QED
  BY <1>1, <1>2 DEF Usage, Counters, Columns

\* Counting one entry up keeps a function to Nat one, wherever it counts.
LEMMA CountUp ==
    ASSUME NEW S, NEW f \in [S -> Nat], NEW m
    PROVE  [f EXCEPT ![m] = @ + 1] \in [S -> Nat]
<1> DEFINE g == [f EXCEPT ![m] = @ + 1]
<1>1. \A k \in S : g[k] \in Nat
  <2>1. ASSUME NEW k \in S, k = m PROVE g[k] = f[k] + 1
    BY <2>1
  <2>2. ASSUME NEW k \in S, k # m PROVE g[k] = f[k]
    BY <2>2
  <2> HIDE DEF g
  <2> QED
    BY <2>1, <2>2
<1>2. g = [k \in S |-> g[k]]
  OBVIOUS
<1> HIDE DEF g
<1>3. g \in [S -> Nat]
  BY <1>1, <1>2
<1> QED
  BY <1>3 DEF g

\* The report that an occupied handler works on.
LEMMA HandlerReport ==
    ASSUME TypeOK, NEW h \in Handlers, handler[h].pc # "free"
    PROVE  /\ handler[h].report \in Report
           /\ handler[h].report.client \in Clients
           /\ Owner[handler[h].report.client] \in Users
<1>1. handler[h] \in HandlerState
  BY DEF TypeOK
<1>2. handler[h].report \in Report
  BY <1>1 DEF HandlerState
<1>3. handler[h].report.client \in Clients
  BY <1>2 DEF Report
<1> QED
  BY <1>2, <1>3, OwnerAssumption

-----------------------------------------------------------------------------
(* Type correctness *)

\* The initial state is well typed.
LEMMA InitTyped == Init => TypeOK
<1> SUFFICES ASSUME Init PROVE TypeOK
  OBVIOUS
<1>1. Zero \in Counters
  BY ZeroCounters
<1>2. now \in Months /\ rowCount \in 0..MaxRows /\ faults \in 0..MaxFaults
  BY BoundsAssumption DEF Init, Months
<1>3. [u \in Users |-> 0] \in [Users -> Months]
  BY BoundsAssumption DEF Months
<1>4. wrap \in [Instances -> WrapState]
  BY <1>1 DEF Init, IdleWrap, WrapState, Counters
<1>5. handler \in [Handlers -> HandlerState]
  BY DEF Init, HandlerState
<1> QED
  BY <1>1, <1>2, <1>3, <1>4, <1>5 DEF Init, TypeOK, Counters

\* Every step preserves the types: one step of the proof per action.
LEMMA NextTyped == TypeOK /\ [Next]_vars => TypeOK'
<1> SUFFICES ASSUME TypeOK, [Next]_vars PROVE TypeOK'
  OBVIOUS
<1> USE DEF usageVars, rowVars, accountVars
<1>1. CASE Tick
  <2>1. now' \in Months
    BY <1>1, BoundsAssumption DEF Tick, TypeOK, Months
  <2> QED
    BY <1>1, <2>1 DEF Tick, TypeOK
<1>2. ASSUME NEW u \in Users, SignUp(u) PROVE TypeOK'
  <2>1. now \in Nat
    BY BoundsAssumption DEF TypeOK, Months
  <2> QED
    BY <1>2, <2>1 DEF SignUp, TypeOK
<1>3. ASSUME NEW c \in Clients, CreateClient(c) PROVE TypeOK'
  BY <1>3 DEF CreateClient, TypeOK
<1>4. ASSUME NEW c \in Clients, UpdateClient(c) PROVE TypeOK'
  BY <1>4 DEF UpdateClient, TypeOK
<1>5. ASSUME NEW c \in Clients, DeleteClient(c) PROVE TypeOK'
  BY <1>5 DEF DeleteClient, TypeOK
<1>6. ASSUME NEW h \in Handlers, Authorize(h) PROVE TypeOK'
  BY <1>6 DEF Authorize, TypeOK, HandlerState
<1>7. ASSUME NEW h \in Handlers, Validate(h) PROVE TypeOK'
  <2>1. handler' \in [Handlers -> HandlerState]
    BY <1>7 DEF Validate, TypeOK, HandlerState
  <2> QED
    BY <1>7, <2>1 DEF Validate, TypeOK
<1>8. ASSUME NEW h \in Handlers, InsertRow(h) PROVE TypeOK'
  <2> DEFINE r == handler[h].report
             u == Owner[r.client]
  <2>1. r \in Report /\ r.client \in Clients /\ u \in Users
    BY <1>8, HandlerReport DEF InsertRow
  <2>2. Usage(r) \in Counters
    BY <2>1, UsageCounters
  <2>3. Plus(counted[u], Usage(r)) \in Counters /\ Plus(reported[u], Usage(r)) \in Counters
    BY <2>1, <2>2, PlusCounters DEF TypeOK, Counters
  <2>4. counted' \in [Users -> Counters] /\ reported' \in [Users -> Counters]
    BY <1>8, <2>1, <2>3 DEF InsertRow, Trigger, TypeOK, Counters
  <2>5. handler' \in [Handlers -> HandlerState]
    BY <1>8 DEF InsertRow, TypeOK, HandlerState
  <2>6. billed' \subseteq Clients /\ rowCount' \in 0..MaxRows
    BY <1>8, <2>1, BoundsAssumption DEF InsertRow, TypeOK
  <2> QED
    BY <1>8, <2>4, <2>5, <2>6 DEF InsertRow, TypeOK, Counters
<1>9. ASSUME NEW h \in Handlers, FailReport(h) PROVE TypeOK'
  BY <1>9 DEF FailReport, TypeOK, HandlerState
<1>10. ASSUME NEW i \in Instances, WrapSelect(i) PROVE TypeOK'
  <2>1. IdleWrap \in WrapState
    BY ZeroCounters DEF IdleWrap, WrapState, Counters
  <2>2. Due \subseteq Users
    BY DEF Due, TypeOK
  <2>3. [IdleWrap EXCEPT !.pc = "selected", !.due = Due] \in WrapState
    BY <2>1, <2>2 DEF WrapState
  <2> QED
    BY <1>10, <2>3 DEF WrapSelect, TypeOK
<1>11. ASSUME NEW i \in Instances, WrapInsert(i) PROVE TypeOK'
  <2>1. [u \in Users |-> IF u \in wrap[i].due THEN counted[u] ELSE Zero] \in [Users -> Counters]
    BY ZeroCounters DEF TypeOK, Counters
  <2>2. wrap[i] \in WrapState
    BY DEF TypeOK
  <2>3. [wrap[i] EXCEPT !.pc = "inserted", !.from = started,
           !.copy = [u \in Users |-> IF u \in wrap[i].due THEN counted[u] ELSE Zero]] \in WrapState
    BY <2>1, <2>2 DEF WrapState, Counters, TypeOK
  <2>4. wrap' \in [Instances -> WrapState]
    BY <1>11, <2>3 DEF WrapInsert, TypeOK
  <2> QED
    BY <1>11, <2>4 DEF WrapInsert, TypeOK
<1>12. ASSUME NEW i \in Instances, WrapUpdate(i) PROVE TypeOK'
  <2>1. wrap' \in [Instances -> WrapState]
    BY <1>12 DEF WrapUpdate, TypeOK, WrapState
  <2> QED
    BY <1>12, <2>1 DEF WrapUpdate, TypeOK
<1>13. ASSUME NEW i \in Instances, WrapCommit(i) PROVE TypeOK'
  <2> DEFINE w == wrap[i]
  <2>1. w \in WrapState
    BY DEF TypeOK
  <2>2. \A u \in Users : Plus(archived[u], w.copy[u]) \in Counters
    BY <2>1, PlusCounters DEF TypeOK, WrapState, Counters
  <2>3. archived' \in [Users -> Counters]
    BY <1>13, <2>2 DEF WrapCommit
  <2>4. counted' \in [Users -> Counters]
    BY <1>13, ZeroCounters DEF WrapCommit, Reset, TypeOK, Counters
  <2>5. started' \in [Users -> Nat]
    BY <1>13 DEF WrapCommit, NextPeriod, TypeOK
  <2>6. \A u \in Users : rows'[u] \in [Months -> Nat]
    <3> SUFFICES ASSUME NEW u \in Users PROVE rows'[u] \in [Months -> Nat]
      OBVIOUS
    <3>1. rows[u] \in [Months -> Nat]
      BY DEF TypeOK
    <3>2. [rows[u] EXCEPT ![w.from[u]] = @ + 1] \in [Months -> Nat]
      BY <3>1, CountUp
    <3> QED
      BY <1>13, <3>1, <3>2 DEF WrapCommit
  <2>7. rows' \in [Users -> [Months -> Nat]]
    BY <1>13, <2>6 DEF WrapCommit
  <2>8. wrap' \in [Instances -> WrapState]
    BY <1>13, ZeroCounters DEF WrapCommit, IdleWrap, TypeOK, WrapState, Counters
  <2> QED
    BY <1>13, <2>3, <2>4, <2>5, <2>7, <2>8 DEF WrapCommit, TypeOK, Counters
<1>14. ASSUME NEW i \in Instances, WrapAbort(i) PROVE TypeOK'
  <2>1. wrap' \in [Instances -> WrapState]
    BY <1>14, ZeroCounters DEF WrapAbort, IdleWrap, TypeOK, WrapState, Counters
  <2> QED
    BY <1>14, <2>1, BoundsAssumption DEF WrapAbort, TypeOK
<1>15. CASE UNCHANGED vars
  BY <1>15 DEF vars, TypeOK
<1> QED
  BY <1>1, <1>2, <1>3, <1>4, <1>5, <1>6, <1>7, <1>8, <1>9, <1>10, <1>11, <1>12,
     <1>13, <1>14, <1>15 DEF Next, Accounts, Reporting, Wrapping, WrapStep

\* Quota is type correct, for any number of processes and requests.
THEOREM TypeCorrect == Spec => []TypeOK
BY InitTyped, NextTyped, PTL DEF Spec

-----------------------------------------------------------------------------
(* The counters of a user, as numbers *)

\* Counters are natural numbers, column by column.
LEMMA CounterValues ==
    ASSUME TypeOK, NEW u \in Users, NEW col \in Columns
    PROVE  counted[u][col] \in Nat /\ archived[u][col] \in Nat /\ reported[u][col] \in Nat
<1>1. counted[u] \in Counters /\ archived[u] \in Counters /\ reported[u] \in Counters
  BY DEF TypeOK, Counters
<1> QED
  BY <1>1 DEF Counters

\* A row adds the same amount to what is reported and to what is counted.
LEMMA InsertAddsEqually ==
    ASSUME TypeOK, NEW h \in Handlers, InsertRow(h), NEW u \in Users, NEW col \in Columns
    PROVE  /\ archived'[u][col] = archived[u][col]
           /\ \E n \in Nat : /\ reported'[u][col] = reported[u][col] + n
                             /\ counted'[u][col] = counted[u][col] + n
<1> DEFINE r == handler[h].report
           v == Owner[r.client]
<1>1. v \in Users /\ Usage(r) \in Counters
  BY HandlerReport, UsageCounters DEF InsertRow
<1>2. archived' = archived
  BY DEF InsertRow
<1>3. CASE u = v
  <2>1. /\ counted'[u] = Plus(counted[u], Usage(r))
        /\ reported'[u] = Plus(reported[u], Usage(r))
    BY <1>1, <1>3 DEF InsertRow, Trigger, TypeOK
  <2>2. counted[u] \in Counters /\ reported[u] \in Counters
    BY DEF TypeOK, Counters
  <2>3. /\ counted'[u][col] = counted[u][col] + Usage(r)[col]
        /\ reported'[u][col] = reported[u][col] + Usage(r)[col]
    BY <1>1, <2>1, <2>2, PlusCounters
  <2>4. Usage(r)[col] \in Nat
    BY <1>1 DEF Counters
  <2> QED
    BY <1>2, <2>3, <2>4
<1>4. CASE u # v
  <2>1. counted'[u] = counted[u] /\ reported'[u] = reported[u]
    BY <1>1, <1>4 DEF InsertRow, Trigger, TypeOK
  <2> QED
    BY <1>2, <2>1, CounterValues
<1> QED
  BY <1>3, <1>4

\* A wrap copies nothing for users that are not due.
CopyOnlyDue ==
    \A i \in Instances : \A u \in Users : u \notin wrap[i].due => wrap[i].copy[u] = Zero

\* Steps that leave the wraps alone keep CopyOnlyDue, and so does each step of
\* a wrap.
LEMMA CopyOnlyDueInductive ==
    /\ Init => CopyOnlyDue
    /\ TypeOK /\ CopyOnlyDue /\ [Next]_vars => CopyOnlyDue'
<1>1. Init => CopyOnlyDue
  BY DEF Init, IdleWrap, CopyOnlyDue
<1>2. ASSUME TypeOK, CopyOnlyDue, [Next]_vars PROVE CopyOnlyDue'
  <2>1. CASE UNCHANGED wrap
    BY <1>2, <2>1 DEF CopyOnlyDue
  <2>2. ASSUME NEW i \in Instances, WrapStep(i) \/ WrapAbort(i) PROVE CopyOnlyDue'
    <3>1. \A j \in Instances : j # i => wrap'[j] = wrap[j]
      BY <1>2, <2>2 DEF WrapStep, WrapSelect, WrapInsert, WrapUpdate, WrapCommit, WrapAbort, TypeOK
    <3>2. wrap[i] \in WrapState
      BY <1>2 DEF TypeOK
    <3>3. ASSUME NEW u \in Users, u \notin wrap'[i].due PROVE wrap'[i].copy[u] = Zero
      <4>1. CASE WrapSelect(i)
        BY <1>2, <4>1 DEF WrapSelect, IdleWrap, TypeOK
      <4>2. CASE WrapInsert(i)
        <5>1. wrap'[i].due = wrap[i].due
          BY <1>2, <3>2, <4>2 DEF WrapInsert, TypeOK, WrapState
        <5>2. wrap'[i].copy = [v \in Users |-> IF v \in wrap[i].due THEN counted[v] ELSE Zero]
          BY <1>2, <3>2, <4>2 DEF WrapInsert, TypeOK, WrapState
        <5> QED
          BY <3>3, <5>1, <5>2
      <4>3. CASE WrapUpdate(i)
        <5>1. wrap'[i].due = wrap[i].due /\ wrap'[i].copy = wrap[i].copy
          BY <1>2, <3>2, <4>3 DEF WrapUpdate, TypeOK, WrapState
        <5> QED
          BY <1>2, <3>3, <5>1 DEF CopyOnlyDue
      <4>4. CASE WrapCommit(i) \/ WrapAbort(i)
        BY <1>2, <4>4 DEF WrapCommit, WrapAbort, IdleWrap, TypeOK
      <4> QED
        BY <2>2, <4>1, <4>2, <4>3, <4>4 DEF WrapStep
    <3> QED
      BY <1>2, <3>1, <3>3 DEF CopyOnlyDue
  <2> QED
    BY <1>2, <2>1, <2>2 DEF Next, Accounts, Reporting, Wrapping, Tick, SignUp, CreateClient,
       UpdateClient, DeleteClient, Authorize, Validate, InsertRow, FailReport, vars
<1> QED
  BY <1>1, <1>2

\* What a commit does to one user.
LEMMA CommitEffect ==
    ASSUME TypeOK, CopyOnlyDue, NEW i \in Instances, WrapCommit(i), NEW u \in Users
    PROVE  /\ reported' = reported
           /\ u \in wrap[i].due =>
                /\ started'[u] = started[u] + 1
                /\ counted'[u] = Zero
                /\ \A col \in Columns : archived'[u][col] = archived[u][col] + wrap[i].copy[u][col]
           /\ u \notin wrap[i].due =>
                started'[u] = started[u] /\ counted'[u] = counted[u] /\ archived'[u] = archived[u]
<1>1. archived[u] \in Counters /\ wrap[i].copy[u] \in Counters
  BY DEF TypeOK, WrapState, Counters
<1>2. archived'[u] = Plus(archived[u], wrap[i].copy[u])
  BY DEF WrapCommit
<1>3. \A col \in Columns : archived'[u][col] = archived[u][col] + wrap[i].copy[u][col]
  BY <1>1, <1>2, PlusCounters
<1>4. u \notin wrap[i].due => archived'[u] = archived[u]
  BY <1>1, <1>2, PlusZero DEF CopyOnlyDue
<1>5. reported' = reported
  BY DEF WrapCommit, rowVars
<1>6. /\ counted'[u] = IF u \in wrap[i].due THEN Zero ELSE counted[u]
      /\ started'[u] = IF u \in wrap[i].due THEN started[u] + 1 ELSE started[u]
  BY DEF WrapCommit, Reset, NextPeriod
<1> QED
  BY <1>3, <1>4, <1>5, <1>6

\* The steps that touch no counter at all.
LEMMA OtherStepsKeepCounters ==
    ASSUME [Next]_vars,
           ~(\E h \in Handlers : InsertRow(h)), ~(\E i \in Instances : WrapCommit(i))
    PROVE  UNCHANGED <<counted, rows, archived, reported>>
BY DEF Next, Accounts, Reporting, Wrapping, WrapStep, Tick, SignUp, CreateClient, UpdateClient,
   DeleteClient, Authorize, Validate, FailReport, WrapSelect, WrapInsert, WrapUpdate, WrapAbort,
   vars, usageVars, rowVars

\* Usage is lost by no step but the commit that ends the user's period: with
\* any number of processes, requests and failures.
THEOREM LossBounded == Spec => LossOnlyByCommit
<1> DEFINE step == \A u \in Users : \A col \in Columns :
              started'[u] = started[u] =>
                reported'[u][col] - (archived'[u][col] + counted'[u][col])
                  <= reported[u][col] - (archived[u][col] + counted[u][col])
<1>1. ASSUME TypeOK, CopyOnlyDue, [Next]_vars PROVE step
  <2> SUFFICES ASSUME NEW u \in Users, NEW col \in Columns, started'[u] = started[u]
               PROVE  reported'[u][col] - (archived'[u][col] + counted'[u][col])
                        <= reported[u][col] - (archived[u][col] + counted[u][col])
    OBVIOUS
  <2>1. counted[u][col] \in Nat /\ archived[u][col] \in Nat /\ reported[u][col] \in Nat
    BY <1>1, CounterValues
  <2>2. ASSUME NEW h \in Handlers, InsertRow(h)
        PROVE  reported'[u][col] - (archived'[u][col] + counted'[u][col])
                 <= reported[u][col] - (archived[u][col] + counted[u][col])
    BY <1>1, <2>1, <2>2, InsertAddsEqually
  <2>3. ASSUME NEW i \in Instances, WrapCommit(i)
        PROVE  reported'[u][col] - (archived'[u][col] + counted'[u][col])
                 <= reported[u][col] - (archived[u][col] + counted[u][col])
    <3>1. started[u] \in Nat
      BY <1>1 DEF TypeOK
    <3>2. u \notin wrap[i].due
      BY <1>1, <2>3, <3>1, CommitEffect
    <3> QED
      BY <1>1, <2>1, <2>3, <3>2, CommitEffect
  <2>4. CASE ~(\E h \in Handlers : InsertRow(h)) /\ ~(\E i \in Instances : WrapCommit(i))
    BY <1>1, <2>1, <2>4, OtherStepsKeepCounters
  <2> QED
    BY <2>2, <2>3, <2>4
<1> HIDE DEF step
<1>2. Spec => [][step]_vars
  BY <1>1, InitTyped, NextTyped, CopyOnlyDueInductive, PTL DEF Spec
<1> QED
  BY <1>2 DEF step, LossOnlyByCommit

-----------------------------------------------------------------------------
(* One process *)

OneProcess == \A i, j \in Instances : i = j

\* The users of a wrap stay due until it commits, and what it copied into the
\* history is still there to be reset.
WrapSound ==
    \A i \in Instances : \A u \in wrap[i].due :
        /\ u \in users
        /\ started[u] + 1 < now
        /\ wrap[i].pc \in {"inserted", "updated"} =>
             /\ wrap[i].from[u] = started[u]
             /\ \A col \in Columns : wrap[i].copy[u][col] <= counted[u][col]

OpenedBefore == \A u \in users : created[u] <= started[u]

OwnersSignedUp == \A c \in clients : Owner[c] \in users

OneInv ==
    /\ TypeOK
    /\ CopyOnlyDue
    /\ WrapSound
    /\ OpenedBefore
    /\ OwnersSignedUp
    /\ NeverOvercounted
    /\ EveryMonthArchivedOnce

\* The initial state satisfies the invariant: nothing is counted and no wrap
\* has selected anybody.
LEMMA InitOne == Init => OneInv
<1> SUFFICES ASSUME Init PROVE OneInv
  OBVIOUS
<1>1. WrapSound
  BY DEF Init, WrapSound, IdleWrap
<1>2. OpenedBefore /\ OwnersSignedUp
  BY DEF Init, OpenedBefore, OwnersSignedUp
<1>3. NeverOvercounted
  BY ZeroCounters DEF Init, NeverOvercounted
<1>4. EveryMonthArchivedOnce
  BY DEF Init, EveryMonthArchivedOnce
<1> QED
  BY <1>1, <1>2, <1>3, <1>4, InitTyped, CopyOnlyDueInductive DEF OneInv

\* The steps that touch neither counters, periods, users nor the wrap.
LEMMA QuietSteps ==
    ASSUME [Next]_vars,
           ~Tick, ~(\E u \in Users : SignUp(u)), ~(\E h \in Handlers : InsertRow(h)),
           ~(\E i \in Instances : WrapStep(i) \/ WrapAbort(i))
    PROVE  UNCHANGED <<now, users, created, started, counted, rows, archived, reported, wrap>>
<1> USE DEF usageVars, rowVars, accountVars
<1>1. ASSUME NEW c \in Clients, CreateClient(c) \/ UpdateClient(c) \/ DeleteClient(c)
      PROVE  UNCHANGED <<now, users, created, started, counted, rows, archived, reported, wrap>>
  BY <1>1 DEF CreateClient, UpdateClient, DeleteClient
<1>2. ASSUME NEW h \in Handlers, Authorize(h) \/ Validate(h) \/ FailReport(h)
      PROVE  UNCHANGED <<now, users, created, started, counted, rows, archived, reported, wrap>>
  BY <1>2 DEF Authorize, Validate, FailReport
<1>3. CASE UNCHANGED vars
  BY <1>3 DEF vars
<1> QED
  BY <1>1, <1>2, <1>3 DEF Next, Accounts, Reporting, Wrapping

\* A wrap that is under way stays sound, whatever happens meanwhile.
LEMMA WrapStaysSound ==
    ASSUME OneProcess, OneInv, [Next]_vars
    PROVE  WrapSound'
<1> USE DEF OneInv
<1>1. CASE Tick
  <2>1. now \in Nat /\ now' = now + 1
    BY <1>1, BoundsAssumption DEF Tick, TypeOK, Months
  <2>2. \A u \in Users : started[u] \in Nat
    BY DEF TypeOK
  <2>3. \A i \in Instances : wrap[i].due \subseteq Users
    BY DEF TypeOK, WrapState
  <2> QED
    BY <1>1, <2>1, <2>2, <2>3 DEF Tick, WrapSound, accountVars, usageVars
<1>2. ASSUME NEW u \in Users, SignUp(u) PROVE WrapSound'
  <2>1. \A v \in users : v \in users' /\ started'[v] = started[v]
    BY <1>2 DEF SignUp, TypeOK
  <2>2. UNCHANGED <<wrap, now, counted>>
    BY <1>2 DEF SignUp
  <2> QED
    BY <2>1, <2>2 DEF WrapSound
<1>3. ASSUME NEW h \in Handlers, InsertRow(h) PROVE WrapSound'
  <2>1. UNCHANGED <<wrap, now, users, started>>
    BY <1>3 DEF InsertRow, accountVars
  <2>2. ASSUME NEW i \in Instances, NEW u \in wrap[i].due, NEW col \in Columns,
               wrap[i].copy[u][col] <= counted[u][col]
        PROVE  wrap[i].copy[u][col] <= counted'[u][col]
    <3>1. wrap[i].copy \in [Users -> Counters] /\ u \in Users
      BY DEF TypeOK, WrapState, Counters
    <3>2. wrap[i].copy[u][col] \in Nat /\ counted[u][col] \in Nat
      BY <3>1, CounterValues DEF Counters
    <3>3. \E n \in Nat : counted'[u][col] = counted[u][col] + n
      BY <1>3, <3>1, InsertAddsEqually
    <3> QED
      BY <2>2, <3>2, <3>3
  <2> QED
    BY <2>1, <2>2 DEF WrapSound
<1>4. ASSUME NEW i \in Instances, WrapStep(i) \/ WrapAbort(i) PROVE WrapSound'
  <2>1. \A j \in Instances : j = i
    BY DEF OneProcess
  <2>2. wrap[i] \in WrapState
    BY DEF TypeOK
  <2>3. CASE WrapSelect(i)
    <3>1. wrap'[i].pc = "selected" /\ wrap'[i].due = Due
      BY <2>3 DEF WrapSelect, IdleWrap, TypeOK
    <3>2. UNCHANGED <<now, users, started, counted>>
      BY <2>3 DEF WrapSelect, accountVars, usageVars
    <3> QED
      BY <2>1, <3>1, <3>2 DEF WrapSound, Due
  <2>4. CASE WrapInsert(i)
    <3>1. /\ wrap'[i].due = wrap[i].due
          /\ wrap'[i].from = started
          /\ wrap'[i].copy = [v \in Users |-> IF v \in wrap[i].due THEN counted[v] ELSE Zero]
      BY <2>2, <2>4 DEF WrapInsert, TypeOK, WrapState
    <3>2. UNCHANGED <<now, users, started, counted>>
      BY <2>4 DEF WrapInsert, accountVars, usageVars
    <3>3. \A u \in wrap[i].due : \A col \in Columns : wrap'[i].copy[u][col] <= counted[u][col]
      <4> SUFFICES ASSUME NEW u \in wrap[i].due, NEW col \in Columns
                   PROVE  wrap'[i].copy[u][col] <= counted[u][col]
        OBVIOUS
      <4>1. u \in Users
        BY <2>2 DEF WrapState
      <4>2. wrap'[i].copy[u] = counted[u]
        BY <3>1, <4>1
      <4>3. counted[u][col] \in Nat
        BY <4>1, CounterValues
      <4> QED
        BY <4>2, <4>3
    <3> QED
      BY <2>1, <3>1, <3>2, <3>3 DEF WrapSound
  <2>5. CASE WrapUpdate(i)
    <3>1. /\ wrap[i].pc = "inserted"
          /\ wrap'[i].due = wrap[i].due
          /\ wrap'[i].from = wrap[i].from
          /\ wrap'[i].copy = wrap[i].copy
      BY <2>2, <2>5 DEF WrapUpdate, TypeOK, WrapState
    <3>2. UNCHANGED <<now, users, started, counted>>
      BY <2>5 DEF WrapUpdate, accountVars, usageVars
    <3> QED
      BY <2>1, <3>1, <3>2 DEF WrapSound
  <2>6. CASE WrapCommit(i) \/ WrapAbort(i)
    <3>1. wrap'[i].due = {}
      BY <2>6 DEF WrapCommit, WrapAbort, IdleWrap, TypeOK
    <3> QED
      BY <2>1, <3>1 DEF WrapSound
  <2> QED
    BY <1>4, <2>3, <2>4, <2>5, <2>6 DEF WrapStep
<1>5. CASE UNCHANGED <<now, users, started, counted, wrap>>
  BY <1>5 DEF WrapSound
<1> QED
  BY <1>1, <1>2, <1>3, <1>4, <1>5, QuietSteps

\* What the archive gains at a commit was in the counters that the commit
\* resets.
LEMMA NeverOvercountedStep ==
    ASSUME OneInv, [Next]_vars
    PROVE  NeverOvercounted'
<1> USE DEF OneInv
<1> SUFFICES ASSUME NEW u \in Users, NEW col \in Columns
             PROVE  archived'[u][col] + counted'[u][col] <= reported'[u][col]
  BY DEF NeverOvercounted
<1>1. /\ counted[u][col] \in Nat /\ archived[u][col] \in Nat /\ reported[u][col] \in Nat
      /\ archived[u][col] + counted[u][col] <= reported[u][col]
  BY CounterValues DEF NeverOvercounted
<1>2. ASSUME NEW h \in Handlers, InsertRow(h)
      PROVE  archived'[u][col] + counted'[u][col] <= reported'[u][col]
  BY <1>1, <1>2, InsertAddsEqually
<1>3. ASSUME NEW i \in Instances, WrapCommit(i)
      PROVE  archived'[u][col] + counted'[u][col] <= reported'[u][col]
  <2>1. CASE u \in wrap[i].due
    <3>1. wrap[i].copy[u][col] <= counted[u][col]
      BY <1>3, <2>1 DEF WrapSound, WrapCommit
    <3>2. wrap[i].copy[u] \in Counters
      BY DEF TypeOK, WrapState, Counters
    <3>3. wrap[i].copy[u][col] \in Nat
      BY <3>2 DEF Counters
    <3>4. /\ archived'[u][col] = archived[u][col] + wrap[i].copy[u][col]
          /\ counted'[u][col] = 0
          /\ reported' = reported
      BY <1>3, <2>1, CommitEffect, ZeroCounters
    <3> QED
      BY <1>1, <3>1, <3>3, <3>4
  <2>2. CASE u \notin wrap[i].due
    BY <1>1, <1>3, <2>2, CommitEffect
  <2> QED
    BY <2>1, <2>2
<1>4. CASE ~(\E h \in Handlers : InsertRow(h)) /\ ~(\E i \in Instances : WrapCommit(i))
  BY <1>1, <1>4, OtherStepsKeepCounters
<1> QED
  BY <1>2, <1>3, <1>4

\* The history follows started_at: a commit adds the row of exactly the month
\* that it ends.
LEMMA MonthsStep ==
    ASSUME OneInv, [Next]_vars
    PROVE  EveryMonthArchivedOnce' /\ OpenedBefore'
<1> USE DEF OneInv
<1>1. ASSUME NEW u \in Users, SignUp(u) PROVE EveryMonthArchivedOnce' /\ OpenedBefore'
  <2>1. \A v \in Users \ {u} :
          /\ v \in users' <=> v \in users
          /\ created'[v] = created[v] /\ started'[v] = started[v]
    BY <1>1 DEF SignUp, TypeOK
  <2>2. u \notin users /\ created'[u] = now /\ started'[u] = now /\ now \in Nat /\ rows' = rows
    BY <1>1, BoundsAssumption DEF SignUp, TypeOK, Months
  <2>3. users' \subseteq Users /\ users \subseteq Users
    BY <1>1 DEF SignUp, TypeOK
  <2>4. \A m \in Months : m \in Nat /\ ~(now <= m /\ m < now)
    BY <2>2 DEF Months
  <2>5. EveryMonthArchivedOnce'
    <3> SUFFICES ASSUME NEW v \in Users, NEW m \in Months
                 PROVE  rows'[v][m] = IF v \in users' /\ created'[v] <= m /\ m < started'[v]
                                      THEN 1 ELSE 0
      BY DEF EveryMonthArchivedOnce, Months
    <3> QED
      BY <2>1, <2>2, <2>4 DEF EveryMonthArchivedOnce
  <2>6. OpenedBefore'
    BY <2>1, <2>2, <2>3 DEF OpenedBefore
  <2> QED
    BY <2>5, <2>6
<1>2. ASSUME NEW i \in Instances, WrapCommit(i) PROVE EveryMonthArchivedOnce' /\ OpenedBefore'
  <2>1. UNCHANGED <<users, created>>
    BY <1>2 DEF WrapCommit, accountVars
  <2>2. ASSUME NEW v \in Users, v \in wrap[i].due
        PROVE  /\ v \in users
               /\ created[v] \in Nat /\ started[v] \in Nat /\ started[v] \in Months
               /\ created[v] <= started[v]
               /\ started'[v] = started[v] + 1
               /\ rows'[v] = [rows[v] EXCEPT ![started[v]] = @ + 1]
    <3>1. v \in users /\ started[v] + 1 < now /\ wrap[i].from[v] = started[v]
      BY <1>2, <2>2 DEF WrapSound, WrapCommit
    <3>2. created[v] \in Nat /\ started[v] \in Nat
      BY BoundsAssumption DEF TypeOK, Months
    <3>3. started[v] \in Months
      BY <3>1, <3>2, BoundsAssumption DEF TypeOK, Months
    <3>4. rows'[v] = [rows[v] EXCEPT ![started[v]] = @ + 1]
      BY <1>2, <2>2, <3>1 DEF WrapCommit
    <3>5. started'[v] = started[v] + 1
      BY <1>2, <2>2, CommitEffect
    <3> QED
      BY <3>1, <3>2, <3>3, <3>4, <3>5 DEF OpenedBefore
  <2>3. ASSUME NEW v \in Users, v \notin wrap[i].due
        PROVE  started'[v] = started[v] /\ rows'[v] = rows[v]
    BY <1>2, <2>3, CommitEffect DEF WrapCommit
  <2>4. EveryMonthArchivedOnce'
    <3> SUFFICES ASSUME NEW v \in Users, NEW m \in Months
                 PROVE  rows'[v][m] = IF v \in users /\ created[v] <= m /\ m < started'[v]
                                      THEN 1 ELSE 0
      BY <2>1 DEF EveryMonthArchivedOnce, Months
    <3>1. /\ m \in Nat
          /\ rows[v] \in [Months -> Nat]
          /\ rows[v][m] = IF v \in users /\ created[v] <= m /\ m < started[v] THEN 1 ELSE 0
      BY DEF EveryMonthArchivedOnce, TypeOK, Months
    <3>2. CASE v \in wrap[i].due
      <4>1. /\ v \in users
            /\ created[v] \in Nat /\ started[v] \in Nat /\ started[v] \in Months
            /\ created[v] <= started[v]
            /\ started'[v] = started[v] + 1
            /\ rows'[v] = [rows[v] EXCEPT ![started[v]] = @ + 1]
        BY <2>2, <3>2
      <4>2. CASE m = started[v]
        <5>1. rows'[v][m] = rows[v][m] + 1
          BY <3>1, <4>1, <4>2
        <5>2. rows[v][m] = 0
          BY <3>1, <4>1, <4>2
        <5> QED
          BY <3>1, <4>1, <4>2, <5>1, <5>2
      <4>3. CASE m # started[v]
        <5>1. rows'[v][m] = rows[v][m]
          BY <3>1, <4>1, <4>3
        <5>2. m < started[v] + 1 <=> m < started[v]
          BY <3>1, <4>1, <4>3
        <5> QED
          BY <3>1, <4>1, <5>1, <5>2
      <4> QED
        BY <4>2, <4>3
    <3>3. CASE v \notin wrap[i].due
      <4>1. started'[v] = started[v] /\ rows'[v] = rows[v]
        BY <2>3, <3>3
      <4> QED
        BY <3>1, <4>1
    <3> QED
      BY <3>2, <3>3
  <2>5. OpenedBefore'
    <3> SUFFICES ASSUME NEW v \in users PROVE created[v] <= started'[v]
      BY <2>1 DEF OpenedBefore
    <3>1. v \in Users /\ created[v] \in Nat /\ started[v] \in Nat /\ created[v] <= started[v]
      BY BoundsAssumption DEF OpenedBefore, TypeOK, Months
    <3>2. CASE v \in wrap[i].due
      <4>1. started'[v] = started[v] + 1
        BY <2>2, <3>1, <3>2
      <4> QED
        BY <3>1, <4>1
    <3>3. CASE v \notin wrap[i].due
      <4>1. started'[v] = started[v]
        BY <2>3, <3>1, <3>3
      <4> QED
        BY <3>1, <4>1
    <3> QED
      BY <3>2, <3>3
  <2> QED
    BY <2>4, <2>5
<1>3. CASE UNCHANGED <<users, created, started, rows>>
  BY <1>3 DEF EveryMonthArchivedOnce, OpenedBefore, Months
<1>4. ASSUME ~(\E u \in Users : SignUp(u)), ~(\E i \in Instances : WrapCommit(i))
      PROVE  UNCHANGED <<users, created, started, rows>>
  BY <1>4 DEF Next, Accounts, Reporting, Wrapping, WrapStep, Tick, CreateClient, UpdateClient,
     DeleteClient, Authorize, Validate, InsertRow, FailReport, WrapSelect, WrapInsert, WrapUpdate,
     WrapAbort, vars, usageVars, rowVars, accountVars
<1> QED
  BY <1>1, <1>2, <1>3, <1>4

\* Clients belong to users that signed up.
LEMMA OwnersStep ==
    ASSUME OneInv, [Next]_vars
    PROVE  OwnersSignedUp'
BY DEF OneInv, OwnersSignedUp, TypeOK, Next, Accounts, Reporting, Wrapping, WrapStep, Tick, SignUp,
   CreateClient, UpdateClient, DeleteClient, Authorize, Validate, InsertRow, FailReport, WrapSelect,
   WrapInsert, WrapUpdate, WrapCommit, WrapAbort, vars, usageVars, rowVars, accountVars

LEMMA OneInvariant ==
    ASSUME OneProcess
    PROVE  Spec => []OneInv
<1>1. OneInv /\ [Next]_vars => OneInv'
  <2> SUFFICES ASSUME OneInv, [Next]_vars PROVE OneInv'
    OBVIOUS
  <2>1. TypeOK' /\ CopyOnlyDue'
    BY NextTyped, CopyOnlyDueInductive DEF OneInv
  <2> QED
    BY <2>1, WrapStaysSound, NeverOvercountedStep, MonthsStep, OwnersStep DEF OneInv
<1> QED
  BY <1>1, InitOne, PTL DEF Spec

\* With one platform process no usage is ever counted twice, whatever reports
\* commit while a period is being closed and however often a wrap fails.
THEOREM NothingCountedTwice ==
    ASSUME OneProcess
    PROVE  Spec => []NeverOvercounted
<1>1. OneInv => NeverOvercounted
  BY DEF OneInv
<1> QED
  BY <1>1, OneInvariant, PTL

\* With one platform process the history has one row for every closed month
\* of every user and no other.
THEOREM MonthsArchivedOnce ==
    ASSUME OneProcess
    PROVE  Spec => []EveryMonthArchivedOnce
<1>1. OneInv => EveryMonthArchivedOnce
  BY DEF OneInv
<1> QED
  BY <1>1, OneInvariant, PTL

-----------------------------------------------------------------------------
(* Refinement *)

\* The initial state is an initial state of the ledger.
LEMMA LedgerInit == Init => Ledger!Init
BY DEF Init, Ledger!Init, Zero

\* A sign-up opens the user's period.
LEMMA SignUpOpens ==
    ASSUME OneInv, NEW u \in Users, SignUp(u)
    PROVE  Ledger!Open(u)
BY DEF OneInv, TypeOK, SignUp, usageVars, Ledger!Open

\* A row is recorded for the owner of the client it names.
LEMMA InsertRecords ==
    ASSUME OneInv, NEW h \in Handlers, InsertRow(h)
    PROVE  Ledger!Record(Owner[handler[h].report.client])
<1> DEFINE u == Owner[handler[h].report.client]
<1> USE DEF OneInv
<1>1. u \in users /\ u \in Users
  BY HandlerReport DEF OwnersSignedUp, InsertRow
<1>2. ASSUME NEW col \in Columns PROVE counted'[u][col] >= counted[u][col]
  BY <1>1, CounterValues, InsertAddsEqually
<1>3. \A v \in Users \ {u} : counted'[v] = counted[v]
  BY <1>1 DEF InsertRow, Trigger, TypeOK
<1>4. UNCHANGED <<users, started, archived>>
  BY DEF InsertRow, accountVars
<1> HIDE DEF u
<1>5. Ledger!Record(u)
  BY <1>1, <1>2, <1>3, <1>4 DEF Ledger!Record
<1> QED
  BY <1>5 DEF u

\* A commit closes the periods of the users of its wrap.
LEMMA CommitCloses ==
    ASSUME OneInv, NEW i \in Instances, WrapCommit(i), wrap[i].due # {}
    PROVE  Ledger!Close(wrap[i].due)
<1> DEFINE us == wrap[i].due
<1> USE DEF OneInv
<1>1. us \subseteq users /\ us \subseteq Users /\ users' = users
  BY DEF WrapSound, WrapCommit, accountVars, TypeOK, WrapState
<1>2. ASSUME NEW u \in us
      PROVE  /\ started'[u] = started[u] + 1
             /\ \A col \in Columns :
                  /\ counted'[u][col] = 0
                  /\ archived'[u][col] \in archived[u][col]..(archived[u][col] + counted[u][col])
  <2>1. u \in Users /\ started'[u] = started[u] + 1
    BY <1>1, CommitEffect
  <2>2. ASSUME NEW col \in Columns
        PROVE  /\ counted'[u][col] = 0
               /\ archived'[u][col] \in archived[u][col]..(archived[u][col] + counted[u][col])
    <3>1. wrap[i].copy[u][col] <= counted[u][col]
      BY DEF WrapSound, WrapCommit
    <3>2. wrap[i].copy[u] \in Counters
      BY <2>1 DEF TypeOK, WrapState, Counters
    <3>3. wrap[i].copy[u][col] \in Nat
      BY <3>2 DEF Counters
    <3>4. counted[u][col] \in Nat /\ archived[u][col] \in Nat
      BY <2>1, CounterValues
    <3>5. /\ archived'[u][col] = archived[u][col] + wrap[i].copy[u][col]
          /\ counted'[u][col] = 0
      BY <2>1, CommitEffect, ZeroCounters
    <3> QED
      BY <3>1, <3>3, <3>4, <3>5
  <2> QED
    BY <2>1, <2>2
<1>3. ASSUME NEW u \in Users \ us
      PROVE  started'[u] = started[u] /\ counted'[u] = counted[u] /\ archived'[u] = archived[u]
  BY <1>3, CommitEffect
<1> HIDE DEF us
<1>4. us # {} => Ledger!Close(us)
  BY <1>1, <1>2, <1>3 DEF Ledger!Close
<1> QED
  BY <1>4 DEF us

\* A commit of a wrap without users changes nothing the ledger sees.
LEMMA EmptyCommitStutters ==
    ASSUME OneInv, NEW i \in Instances, WrapCommit(i), wrap[i].due = {}
    PROVE  UNCHANGED <<users, started, counted, archived>>
<1> USE DEF OneInv
<1>1. \A u \in Users : started'[u] = started[u] /\ counted'[u] = counted[u] /\ archived'[u] = archived[u]
  BY CommitEffect
<1>2. /\ started \in [Users -> Nat] /\ started' \in [Users -> Nat]
      /\ counted \in [Users -> Counters] /\ counted' \in [Users -> Counters]
      /\ archived \in [Users -> Counters] /\ archived' \in [Users -> Counters]
  <2>1. TypeOK'
    BY NextTyped DEF Next, Wrapping, WrapStep
  <2> QED
    BY <2>1 DEF TypeOK, Counters
<1>3. users' = users
  BY DEF WrapCommit, accountVars
<1> QED
  BY <1>1, <1>2, <1>3

\* Every step is a step of the ledger or leaves it as it is.
LEMMA LedgerStep ==
    ASSUME OneInv, [Next]_vars
    PROVE  [Ledger!Next]_(Ledger!ledgerVars)
<1>1. ASSUME NEW u \in Users, SignUp(u) PROVE Ledger!Next
  BY <1>1, SignUpOpens DEF Ledger!Next
<1>2. ASSUME NEW h \in Handlers, InsertRow(h) PROVE Ledger!Next
  <2>1. Owner[handler[h].report.client] \in Users
    BY <1>2, HandlerReport DEF OneInv, InsertRow
  <2> QED
    BY <1>2, <2>1, InsertRecords DEF Ledger!Next
<1>3. ASSUME NEW i \in Instances, WrapCommit(i) PROVE [Ledger!Next]_(Ledger!ledgerVars)
  <2>1. CASE wrap[i].due # {}
    <3>1. wrap[i].due \subseteq Users
      BY DEF OneInv, TypeOK, WrapState
    <3>2. Ledger!Close(wrap[i].due)
      BY <1>3, <2>1, CommitCloses
    <3> QED
      BY <3>1, <3>2 DEF Ledger!Next
  <2>2. CASE wrap[i].due = {}
    BY <1>3, <2>2, EmptyCommitStutters DEF Ledger!ledgerVars
  <2> QED
    BY <2>1, <2>2
<1>4. ASSUME ~(\E u \in Users : SignUp(u)), ~(\E h \in Handlers : InsertRow(h)),
             ~(\E i \in Instances : WrapCommit(i))
      PROVE  UNCHANGED <<users, started, counted, archived>>
  BY <1>4 DEF Next, Accounts, Reporting, Wrapping, WrapStep, Tick, CreateClient, UpdateClient,
     DeleteClient, Authorize, Validate, FailReport, WrapSelect, WrapInsert, WrapUpdate, WrapAbort,
     vars, usageVars, rowVars, accountVars
<1> QED
  BY <1>1, <1>2, <1>3, <1>4 DEF Ledger!ledgerVars

\* With one platform process the tables, triggers and wraps implement the
\* abstract ledger of monthly usage.
THEOREM LedgerImplemented ==
    ASSUME OneProcess
    PROVE  Spec => ImplementsLedger
<1>1. OneInv /\ [Next]_vars => [Ledger!Next]_(Ledger!ledgerVars)
  BY LedgerStep
<1>2. Spec => [][Ledger!Next]_(Ledger!ledgerVars)
  BY <1>1, OneInvariant, PTL DEF Spec
<1> QED
  BY <1>2, LedgerInit, PTL DEF Spec, ImplementsLedger, Ledger!LedgerSpec
==============================================================================
