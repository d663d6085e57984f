---------------------------- MODULE MonthlyLedger ----------------------------
(***************************************************************************)
(* What the discovery platform promises about metered usage, without       *)
(* requests, transactions or crashes: every user has a running period with *)
(* counters, and an archive of closed periods.  Recording adds to the      *)
(* counters; closing a period moves what was counted into the archive and  *)
(* starts the next period from zero.  Closing may lose usage (the code     *)
(* does, see Quota!UsageConserved) but never invents any.                  *)
(***************************************************************************)
EXTENDS Naturals

CONSTANTS
    Users,      \* every user that may ever sign up
    Columns     \* the counters kept per user and period

VARIABLES
    open,       \* users that have a running period
    period,     \* period[u]: the month in which u's running period started
    current,    \* current[u][col]: counted in the running period
    archive     \* archive[u][col]: counted in all closed periods together

ledgerVars == <<open, period, current, archive>>

Init ==
    /\ open = {}
    /\ period \in [Users -> {0}]
    /\ current = [u \in Users |-> [col \in Columns |-> 0]]
    /\ archive = [u \in Users |-> [col \in Columns |-> 0]]

\* A user signs up: the running period starts with all counters at zero.
Open(u) ==
    /\ u \notin open
    /\ open' = open \cup {u}
    /\ \A v \in Users \ {u} : period'[v] = period[v]
    /\ UNCHANGED <<current, archive>>

\* Usage is recorded: the counters of one user grow, nothing else moves.
Record(u) ==
    /\ u \in open
    /\ \A col \in Columns : current'[u][col] >= current[u][col]
    /\ \A v \in Users \ {u} : current'[v] = current[v]
    /\ UNCHANGED <<open, period, archive>>

\* The periods of the users in us end together.  At most what the period
\* counted is archived, and the counters restart from zero.
Close(us) ==
    /\ us \subseteq open
    /\ us # {}
    /\ \A u \in us :
         /\ period'[u] = period[u] + 1
         /\ \A col \in Columns :
              /\ current'[u][col] = 0
              /\ archive'[u][col] \in archive[u][col]..(archive[u][col] + current[u][col])
    /\ \A u \in Users \ us :
         /\ period'[u] = period[u]
         /\ current'[u] = current[u]
         /\ archive'[u] = archive[u]
    /\ UNCHANGED open

Next ==
    \/ \E u \in Users : Open(u) \/ Record(u)
    \/ \E us \in SUBSET Users : Close(us)

LedgerSpec == Init /\ [][Next]_ledgerVars
==============================================================================
