-------------------------------- MODULE Quota --------------------------------
(***************************************************************************)
(* Quota accounting of the discovery platform.                             *)
(*                                                                         *)
(* Exit nodes report every request and response segment count over HTTP.   *)
(* A report becomes a row of request_quotas or response_quotas, and a      *)
(* database trigger adds it to the user's row of monthly_quota_usages in   *)
(* the same statement.  Every hour a platform process wraps the periods    *)
(* that are over: in one transaction it copies the counters into the       *)
(* history table and then resets them.                                     *)
(*                                                                         *)
(* PostgreSQL runs at its default level, READ COMMITTED: each statement of *)
(* a transaction sees what was committed when the statement started, and   *)
(* an UPDATE locks its rows until the transaction ends.                    *)
(***************************************************************************)
EXTENDS Naturals, FiniteSets

CONSTANTS
    Users,          \* users that may sign up
    Clients,        \* API clients that may be created
    Owner,          \* Owner[c]: the user that client c belongs to
    Handlers,       \* HTTP requests the platform can serve at the same time
    Instances,      \* platform processes sharing the database
    SegmentCounts,  \* segment counts an exit node reports
    MaxMonth,       \* bound: the clock stops here
    MaxRows,        \* bound: quota rows written
    MaxFaults       \* bound: failed or crashed wrap transactions

ASSUME OwnerAssumption == Owner \in [Clients -> Users]
ASSUME SegmentCountsAssumption == SegmentCounts \subseteq Nat
ASSUME BoundsAssumption == MaxMonth \in Nat /\ MaxRows \in Nat /\ MaxFaults \in Nat

VARIABLES
    now,        \* the clock, in months
    users,      \* rows of users
    created,    \* created[u]: the month of users.created_at
    clients,    \* rows of clients
    expired,    \* clients whose invalidated_at has passed
    started,    \* started[u]: monthly_quota_usages.started_at
    counted,    \* counted[u][col]: the counters of monthly_quota_usages
    rows,       \* rows[u][m]: history rows of user u for the month m
    archived,   \* archived[u][col]: sum over the history rows of user u
    reported,   \* reported[u][col]: sum over the quota rows of u's clients
    billed,     \* clients that a quota row refers to
    rowCount,   \* number of quota rows written
    handler,    \* handler[h]: the report that request handler h works on
    wrap,       \* wrap[i]: the wrap transaction of process i
    faults      \* number of wrap transactions that failed

usageVars == <<started, counted, rows, archived>>
rowVars == <<reported, billed, rowCount>>
accountVars == <<users, created, clients, expired>>
vars == <<now, accountVars, usageVars, rowVars, handler, wrap, faults>>

Months == 0..MaxMonth

\* The counter columns of monthly_quota_usages and of its history.
Columns == {"req_count", "resp_count", "req_segment_count", "resp_segment_count"}
Zero == [col \in Columns |-> 0]
Plus(a, b) == [col \in Columns |-> a[col] + b[col]]

Kinds == {"request", "response"}
Report == [client : Clients, kind : Kinds, segments : SegmentCounts]

\* A handler that serves no report, or only knows that its caller is a node,
\* or that has looked up the client.
HandlerState == [pc : {"free"}] \cup [pc : {"authorized", "validated"}, report : Report]

\* Every column of a report that the trigger process_monthly_usage adds.
Usage(r) ==
    IF r.kind = "request"
    THEN [Zero EXCEPT !["req_count"] = 1, !["req_segment_count"] = r.segments]
    ELSE [Zero EXCEPT !["resp_count"] = 1, !["resp_segment_count"] = r.segments]

\* The wrap of a process: the users selected as due, and the started_at and
\* counters that the insert into the history table read.
WrapState == [pc   : {"idle", "selected", "inserted", "updated"},
              due  : SUBSET Users,
              from : [Users -> Nat],
              copy : [Users -> [Columns -> Nat]]]

IdleWrap == [pc |-> "idle", due |-> {}, from |-> [u \in Users |-> 0],
             copy |-> [u \in Users |-> Zero]]

\* The row of user u is locked by a transaction that updated it.
Locked(u) == \E i \in Instances : wrap[i].pc = "updated" /\ u \in wrap[i].due

TypeOK ==
    /\ now \in Months
    /\ users \subseteq Users
    /\ created \in [Users -> Months]
    /\ clients \subseteq Clients
    /\ expired \subseteq Clients
    /\ started \in [Users -> Nat]
    /\ counted \in [Users -> [Columns -> Nat]]
    /\ rows \in [Users -> [Months -> Nat]]
    /\ archived \in [Users -> [Columns -> Nat]]
    /\ reported \in [Users -> [Columns -> Nat]]
    /\ billed \subseteq Clients
    /\ rowCount \in 0..MaxRows
    /\ handler \in [Handlers -> HandlerState]
    /\ wrap \in [Instances -> WrapState]
    /\ faults \in 0..MaxFaults

Init ==
    /\ now = 0
    /\ users = {} /\ created = [u \in Users |-> 0]
    /\ clients = {} /\ expired = {}
    /\ started = [u \in Users |-> 0]
    /\ counted = [u \in Users |-> Zero]
    /\ rows = [u \in Users |-> [m \in Months |-> 0]]
    /\ archived = [u \in Users |-> Zero]
    /\ reported = [u \in Users |-> Zero]
    /\ billed = {} /\ rowCount = 0
    /\ handler = [h \in Handlers |-> [pc |-> "free"]]
    /\ wrap = [i \in Instances |-> IdleWrap]
    /\ faults = 0

-----------------------------------------------------------------------------
(* Accounts *)

\* A user row appears; the trigger process_initial_monthly_usage opens the
\* running period at created_at.
SignUp(u) ==
    /\ u \notin users
    /\ users' = users \cup {u}
    /\ created' = [created EXCEPT ![u] = now]
    /\ started' = [started EXCEPT ![u] = now]
    /\ UNCHANGED <<now, clients, expired, counted, rows, archived, rowVars,
                   handler, wrap, faults>>

\* client.create, with any invalidated_at.
CreateClient(c) ==
    /\ Owner[c] \in users
    /\ c \notin clients \cup expired
    /\ clients' = clients \cup {c}
    /\ expired' \in {expired, expired \cup {c}}
    /\ UNCHANGED <<now, users, created, usageVars, rowVars, handler, wrap, faults>>

\* client.update sets invalidated_at, to a date that passed or is to come.
UpdateClient(c) ==
    /\ c \in clients
    /\ expired' \in {expired \cup {c}, expired \ {c}}
    /\ UNCHANGED <<now, users, created, clients, usageVars, rowVars, handler, wrap, faults>>

\* client.del: the foreign keys of the quota tables forbid deleting a client
\* that was billed.  Its id and token are random and never reused.
DeleteClient(c) ==
    /\ c \in clients \ billed
    /\ clients' = clients \ {c}
    /\ expired' = expired \cup {c}
    /\ UNCHANGED <<now, users, created, usageVars, rowVars, handler, wrap, faults>>

-----------------------------------------------------------------------------
(* Reports: nodeAuthorized, then validate, then one insert *)

\* The middleware found the caller's node token.
Authorize(h) ==
    /\ handler[h].pc = "free"
    /\ \E r \in Report :
         handler' = [handler EXCEPT ![h] = [pc |-> "authorized", report |-> r]]
    /\ UNCHANGED <<now, accountVars, usageVars, rowVars, wrap, faults>>

\* listIdsByExternalToken finds a live client, or the report is answered
\* with 403 and dropped.
Validate(h) ==
    /\ handler[h].pc = "authorized"
    /\ handler' = [handler EXCEPT
         ![h] = IF handler[h].report.client \in clients \ expired
                THEN [handler[h] EXCEPT !.pc = "validated"]
                ELSE [pc |-> "free"]]
    /\ UNCHANGED <<now, accountVars, usageVars, rowVars, wrap, faults>>

\* Broken on purpose: responses are not added.
TriggerRequestsOnly(u, r) ==
    IF r.kind = "request" THEN [counted EXCEPT ![u] = Plus(counted[u], Usage(r))] ELSE counted

\* process_monthly_usage: the counters after a row for report r.
Trigger(u, r) == [counted EXCEPT ![u] = Plus(counted[u], Usage(r))]

\* createRequest or createResponse: one statement inserts the row and, in its
\* trigger, adds to the user's counters.  It waits while the user's row is
\* locked, and the foreign key needs the client row to exist still.
InsertRow(h) ==
    /\ handler[h].pc = "validated"
    /\ LET r == handler[h].report
           u == Owner[r.client]
       IN  /\ r.client \in clients
           /\ ~Locked(u)
           /\ rowCount < MaxRows
           /\ counted' = Trigger(u, r)
           /\ reported' = [reported EXCEPT ![u] = Plus(reported[u], Usage(r))]
           /\ billed' = billed \cup {r.client}
    /\ rowCount' = rowCount + 1
    /\ handler' = [handler EXCEPT ![h] = [pc |-> "free"]]
    /\ UNCHANGED <<now, accountVars, started, rows, archived, wrap, faults>>

\* The lookup or the insert fails, or the process serving the report dies:
\* nothing was written and the node gets a 500 or no answer.
FailReport(h) ==
    /\ handler[h].pc # "free"
    /\ handler' = [handler EXCEPT ![h] = [pc |-> "free"]]
    /\ UNCHANGED <<now, accountVars, usageVars, rowVars, wrap, faults>>

-----------------------------------------------------------------------------
(* The monthly wrap: runQuotaWrap, wrapMonthlyQuotas, doWrapMonthlyQuotas *)

\* The users whose running period is over.
Due == {u \in users : started[u] + 1 < now}

\* Broken on purpose: no run is scheduled after one that failed.
SelectUnlessFailed(i) ==
    /\ faults = 0
    /\ wrap[i].pc = "idle"
    /\ Due # {}
    /\ wrap' = [wrap EXCEPT ![i] = [IdleWrap EXCEPT !.pc = "selected", !.due = Due]]
    /\ UNCHANGED <<now, accountVars, usageVars, rowVars, handler, faults>>

\* The timer fired: read who is due, outside any transaction.  With nobody
\* due the run ends and the next one is scheduled.
WrapSelect(i) ==
    /\ wrap[i].pc = "idle"
    /\ Due # {}
    /\ wrap' = [wrap EXCEPT ![i] = [IdleWrap EXCEPT !.pc = "selected", !.due = Due]]
    /\ UNCHANGED <<now, accountVars, usageVars, rowVars, handler, faults>>

\* begin, then the insert into the history: it copies the counters that are
\* committed now.  Readers take no lock.
WrapInsert(i) ==
    /\ wrap[i].pc = "selected"
    /\ wrap' = [wrap EXCEPT
         ![i].pc = "inserted",
         ![i].from = started,
         ![i].copy = [u \in Users |-> IF u \in wrap[i].due THEN counted[u] ELSE Zero]]
    /\ UNCHANGED <<now, accountVars, usageVars, rowVars, handler, faults>>

\* The update locks the rows it resets; it waits for another transaction's
\* locks.
WrapUpdate(i) ==
    /\ wrap[i].pc = "inserted"
    /\ \A u \in wrap[i].due : ~Locked(u)
    /\ wrap' = [wrap EXCEPT ![i].pc = "updated"]
    /\ UNCHANGED <<now, accountVars, usageVars, rowVars, handler, faults>>

\* Broken on purpose: the counters keep their values.
NoReset(w) == counted

\* What the update of wrap w sets the counters to.
Reset(w) == [u \in Users |-> IF u \in w.due THEN Zero ELSE counted[u]]

\* Broken on purpose: started_at stays, or goes back.
SamePeriod(w) == started
PreviousPeriod(w) == [u \in Users |-> IF u \in w.due THEN started[u] - 1 ELSE started[u]]

\* What the update of wrap w sets started_at to.
NextPeriod(w) == [u \in Users |-> IF u \in w.due THEN started[u] + 1 ELSE started[u]]

\* commit: the history rows and the reset become visible together.
WrapCommit(i) ==
    /\ wrap[i].pc = "updated"
    /\ LET w == wrap[i]
       IN  /\ rows' = [u \in Users |->
                IF u \in w.due THEN [rows[u] EXCEPT ![w.from[u]] = @ + 1] ELSE rows[u]]
           /\ archived' = [u \in Users |-> Plus(archived[u], w.copy[u])]
           /\ counted' = Reset(w)
           /\ started' = NextPeriod(w)
    /\ wrap' = [wrap EXCEPT ![i] = IdleWrap]
    /\ UNCHANGED <<now, accountVars, rowVars, handler, faults>>

\* Broken on purpose: the insert into the history stays.
AbortWithoutRollback(i) ==
    /\ wrap[i].pc # "idle"
    /\ faults < MaxFaults
    /\ faults' = faults + 1
    /\ archived' = [u \in Users |-> Plus(archived[u], wrap[i].copy[u])]
    /\ rows' = [u \in Users |->
         IF wrap[i].pc # "selected" /\ u \in wrap[i].due
         THEN [rows[u] EXCEPT ![wrap[i].from[u]] = @ + 1]
         ELSE rows[u]]
    /\ wrap' = [wrap EXCEPT ![i] = IdleWrap]
    /\ UNCHANGED <<now, accountVars, started, counted, rowVars, handler>>

\* A statement fails and the code rolls back, or the process dies and the
\* database does: in both cases the next run starts over.
WrapAbort(i) ==
    /\ wrap[i].pc # "idle"
    /\ faults < MaxFaults
    /\ faults' = faults + 1
    /\ wrap' = [wrap EXCEPT ![i] = IdleWrap]
    /\ UNCHANGED <<now, accountVars, usageVars, rowVars, handler>>

-----------------------------------------------------------------------------

Tick ==
    /\ now < MaxMonth
    /\ now' = now + 1
    /\ UNCHANGED <<accountVars, usageVars, rowVars, handler, wrap, faults>>

Accounts ==
    \/ \E u \in Users : SignUp(u)
    \/ \E c \in Clients : CreateClient(c) \/ UpdateClient(c) \/ DeleteClient(c)

Reporting ==
    \E h \in Handlers : Authorize(h) \/ Validate(h) \/ InsertRow(h) \/ FailReport(h)

WrapStep(i) == WrapSelect(i) \/ WrapInsert(i) \/ WrapUpdate(i) \/ WrapCommit(i)

Wrapping == \E i \in Instances : WrapStep(i) \/ WrapAbort(i)

Next == Tick \/ Accounts \/ Reporting \/ Wrapping

\* The wrap timer is always set again (.finally) and the database answers.
Fairness == \A i \in Instances : WF_vars(WrapStep(i))

Spec == Init /\ [][Next]_vars
FairSpec == Spec /\ Fairness

-----------------------------------------------------------------------------
(* Properties *)

\* No usage is counted twice: what is archived and what runs never exceed
\* what was reported, whatever reports arrive while a period is being closed.
NeverOvercounted ==
    \A u \in Users : \A col \in Columns :
        archived[u][col] + counted[u][col] <= reported[u][col]

\* The history has exactly one row for every closed month of a user and none
\* for the running one: no period is skipped, closed twice or closed early,
\* across failed and repeated wraps.
EveryMonthArchivedOnce ==
    \A u \in Users : \A m \in Months :
        rows[u][m] = IF u \in users /\ created[u] <= m /\ m < started[u] THEN 1 ELSE 0

\* Usage is only lost inside the window of a wrap: with no history insert
\* waiting for its reset, everything reported since is still accounted for.
\* Outside a commit the unaccounted part of a user's usage never grows.
LossOnlyByCommit ==
    [][\A u \in Users : \A col \in Columns :
         started'[u] = started[u] =>
           reported'[u][col] - (archived'[u][col] + counted'[u][col])
             <= reported[u][col] - (archived[u][col] + counted[u][col])]_vars

\* Everything reported is in the running counters or in the history.  The
\* wrap's comments and the change log promise it; a report that commits
\* between the history insert and the reset breaks it.
UsageConserved ==
    \A u \in Users : archived[u] = [col \in Columns |-> reported[u][col] - counted[u][col]]

\* A period that is over is eventually archived, one month at a time.
OverduePeriodsAreWrapped ==
    \A u \in Users : (u \in Due) ~> (u \notin Due)

\* The whole machinery implements the abstract ledger.
Ledger == INSTANCE MonthlyLedger WITH
              open <- users, period <- started, current <- counted, archive <- archived
ImplementsLedger == Ledger!LedgerSpec
==============================================================================
