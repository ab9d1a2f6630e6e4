--------------------------- MODULE CrawlerTables ---------------------------
(***************************************************************************)
(* The two PostgreSQL tables of the crawler, crawling_targets and          *)
(* crawling_logs, and the SQL statements of                                *)
(* internal/repository/crawler_repo.go that read and write them.  Each     *)
(* statement is one operator on a row or on the whole table: a statement   *)
(* is atomic, a handler that issues two of them is not.                    *)
(***************************************************************************)
EXTENDS Integers, Sequences, FiniteSets

CONSTANTS
    Targets,        \* rows of crawling_targets, one per target_url
    BreakerLimit,   \* failures that trip the breaker (5 in the code)
    Interval,       \* check_interval_hours, in clock ticks
    Backoff,        \* the four 429 backoff windows, in clock ticks
    PendingAge,     \* age at which a DISPATCHED log is polled (10 minutes)
    MaxTime         \* bound: the last clock reading explored

ASSUME BreakerLimitAssumption == BreakerLimit \in Nat \ {0}
ASSUME TimesAssumption ==
    /\ Interval \in Nat \ {0} /\ PendingAge \in Nat /\ MaxTime \in Nat
    /\ Backoff \in [1..4 -> Nat]

Times == 0..MaxTime

(* task_<first 8 characters of the target id>_<unix seconds>: two tasks    *)
(* made for one target within the same clock reading get the same id.      *)
TaskIds == Targets \X Times
NoTask == <<>>

DeadCodes == {404, 410}
Throttled == 429

Healths == {"HEALTHY", "DEGRADED", "DISABLED_DEAD_LINK", "DEAD"}

(* status 0 stands for a NULL last_http_status: no statement tells the two *)
(* apart.                                                                  *)
TargetRow == [exists: BOOLEAN, active: BOOLEAN, health: Healths,
              failures: Nat, status: Nat, nextRun: Nat]

LogStatus == {"DISPATCHED", "COMPLETED", "FAILED"}
LogRow == [task: TaskIds, status: LogStatus, at: Times]

NoRow == [exists |-> FALSE, active |-> FALSE, health |-> "HEALTHY",
          failures |-> 0, status |-> 0, nextRun |-> 0]

----------------------------------------------------------------------------
(* Statements on crawling_targets.                                         *)

(* CreateTarget: insert, or on an existing target_url only switch the row  *)
(* on; health and counters of an existing row are left alone.              *)
CreateTarget(row, isActive, time) ==
    IF row.exists
    THEN [row EXCEPT !.active = TRUE]
    ELSE [NoRow EXCEPT !.exists = TRUE, !.active = isActive, !.nextRun = time]

UpdateTargetNextRun(row, time) == [row EXCEPT !.nextRun = time + Interval]

RecordSuccessKeepingCount(row, code) ==    \* mutant of RecordSuccess
    [row EXCEPT !.status = code, !.health = "HEALTHY"]

RecordSuccess(row, code) ==
    [row EXCEPT !.failures = 0, !.status = code, !.health = "HEALTHY"]

(* The circuit breaker's condition on the counter after the increment.     *)
Trips(code, failures) ==
    \/ code \in DeadCodes
    \/ code # Throttled /\ failures >= BreakerLimit

BackoffWindow(failures) == Backoff[IF failures <= 1 THEN 1
                                   ELSE IF failures <= 3 THEN failures ELSE 4]

RecordFailure(row, code, time) ==
    LET n == row.failures + 1
    IN  [row EXCEPT
            !.failures = n,
            !.status   = code,
            !.health   = IF Trips(code, n) THEN "DISABLED_DEAD_LINK"
                                           ELSE "DEGRADED",
            !.active   = @ /\ ~Trips(code, n),
            !.nextRun  = IF code = Throttled THEN time + BackoffWindow(n)
                                             ELSE @]

(* ResetCrawlerErrors: the update of one row, and the rows that "ALL"      *)
(* selects.  last_http_status is kept.                                     *)
ResetRow(row, time) ==
    [row EXCEPT !.failures = 0, !.health = "HEALTHY", !.active = TRUE,
                !.nextRun = time]

Failing(row) == row.exists /\ (row.status >= 400 \/ row.health # "HEALTHY")

Due(row, time) ==
    /\ row.exists /\ row.active
    /\ row.health # "DISABLED_DEAD_LINK"
    /\ row.nextRun <= time

----------------------------------------------------------------------------
(* Statements on crawling_logs, a sequence of rows in insertion order.     *)

CreateLog(rows, id, time) ==
    Append(rows, [task |-> id, status |-> "DISPATCHED", at |-> time])

(* Every row that carries the task id is rewritten, whatever its status.   *)
UpdateLogStatus(rows, id, s, time) ==
    [i \in DOMAIN rows |->
        IF rows[i].task = id THEN [rows[i] EXCEPT !.status = s, !.at = time]
                             ELSE rows[i]]

Pending(rows, time) ==
    {i \in DOMAIN rows : /\ rows[i].status = "DISPATCHED"
                         /\ rows[i].at + PendingAge <= time}

(* ORDER BY key LIMIT n: any n smallest members of S (ties are broken by   *)
(* the database).                                                          *)
OldestOf(S, key, n) ==
    {B \in SUBSET S :
        /\ Cardinality(B) = IF Cardinality(S) <= n THEN Cardinality(S) ELSE n
        /\ \A b \in B, s \in S \ B : key[b] <= key[s]}
=============================================================================
