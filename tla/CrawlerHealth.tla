--------------------------- MODULE CrawlerHealth ---------------------------
(***************************************************************************)
(* The crawl pipeline together with the URL health check                   *)
(* (internal/queue/url_health_check_worker.go), a sweep that reads up to   *)
(* a hundred active targets, asks each URL in turn, two seconds apart, and *)
(* writes the breaker columns of the row from what it read at the start.   *)
(***************************************************************************)
EXTENDS Crawler

CONSTANTS
    Checkers,       \* worker goroutines that may run a sweep
    Verdicts,       \* what VerifyAndResolve may find, [health, status]
    CheckLimit,     \* LIMIT of the sweep's query (100)
    CheckFailures,  \* failures at which a sweep switches a target off (3)
    CheckAge,       \* age of last_scraped_at that a sweep looks at (12 hours)
    MaxFailures     \* bound: consecutive_failures that sweeps count up to

VARIABLES
    scraped,    \* last_scraped_at of each target
    check       \* what each sweep has read and not yet written

allVars == <<vars, scraped, check>>

(* Older than CheckAge at every clock reading: a NULL last_scraped_at.     *)
Never == -CheckAge

(* last_http_status 0, as distinct from NULL, which TargetRow writes 0.    *)
NoAnswer == 1

(* What the verifier returns: an answer below 400 without the marks of a   *)
(* soft 404; a dead link, a soft 404 or a malformed URL; any other error.  *)
VerifierResults ==
    [health: {"HEALTHY"}, status: {200, 301}]
    \cup [health: {"DISABLED_DEAD_LINK"}, status: {403, 404, 410, NoAnswer}]
    \cup [health: {"DEGRADED"}, status: {401, 429, 500, 503, NoAnswer}]

ASSUME HealthCheckAssumption ==
    /\ Verdicts \subseteq VerifierResults
    /\ CheckLimit \in Nat /\ CheckFailures \in Nat /\ CheckAge \in Nat \ {0}
    /\ MaxFailures \in Nat

----------------------------------------------------------------------------
(* A step of the crawl pipeline: UpdateTargetNextRun also stamps           *)
(* last_scraped_at.                                                        *)
Stamped(t) ==
    \E d \in Dispatchers :
        /\ disp[d].pc = "sent" /\ disp[d].task[1] = t
        /\ disp'[d].pc # "sent" /\ crashes' = crashes
        /\ targets'[t] = UpdateTargetNextRun(targets[t], now)

CrawlStep ==
    /\ Next
    /\ scraped' = [t \in Targets |-> IF Stamped(t) THEN now ELSE scraped[t]]
    /\ UNCHANGED check

----------------------------------------------------------------------------
(* HandleURLHealthCheck: the query.                                        *)

StaleRow(t) == targets[t].status = 0 \/ scraped[t] + CheckAge <= now

EligibleThoughOff == {t \in Targets : targets[t].exists /\ StaleRow(t)}  \* mutant

Eligible == {t \in Targets : targets[t].exists /\ targets[t].active /\ StaleRow(t)}

(* ORDER BY: rows without a status first, then the most failures.          *)
Precedes(t, u) ==
    LET r == targets[t]  s == targets[u]
    IN  \/ r.status = 0 /\ s.status # 0
        \/ (r.status = 0 <=> s.status = 0) /\ r.failures > s.failures

Sweeps ==
    {B \in SUBSET Eligible :
        /\ Cardinality(B) = IF Cardinality(Eligible) <= CheckLimit
                            THEN Cardinality(Eligible) ELSE CheckLimit
        /\ \A t \in B, u \in Eligible \ B : ~Precedes(u, t)}

StartCheck(h) ==
    /\ check[h] = << >>
    /\ \E B \in Sweeps :
          /\ B # {}
          /\ check' = [check EXCEPT ![h] = [t \in B |-> targets[t].failures]]
    /\ UNCHANGED <<vars, scraped>>

----------------------------------------------------------------------------
(* The row written for a verdict and the failure count read at the start.  *)

CheckedRowKeepingCount(row, n, v, time) ==      \* mutant of CheckedRow
    [row EXCEPT !.health = v.health, !.status = v.status, !.failures = n,
                !.active = v.health # "DISABLED_DEAD_LINK" /\ n < CheckFailures]

(* Dead links become 'DEAD', a value the crawl pipeline never writes.  A   *)
(* throttled URL keeps its count and is switched on.                       *)
CheckedRow(row, n, v, time) ==
    LET throttled == v.health = "DEGRADED" /\ v.status = Throttled
        failed    == CASE v.health = "HEALTHY" -> 0
                       [] throttled            -> n
                       [] OTHER                -> n + 1
    IN  [row EXCEPT
            !.health   = IF v.health = "DISABLED_DEAD_LINK" THEN "DEAD" ELSE v.health,
            !.status   = v.status,
            !.failures = failed,
            !.active   = \/ v.health = "HEALTHY" \/ throttled
                         \/ v.health = "DEGRADED" /\ failed < CheckFailures,
            !.nextRun  = IF v.status = Throttled THEN time + BackoffWindow(failed)
                                                 ELSE @]

Verify(h, t) ==
    /\ t \in DOMAIN check[h] /\ check[h][t] < MaxFailures
    /\ \E v \in Verdicts : SetTarget(t, CheckedRow(targets[t], check[h][t], v, now))
    /\ check' = [check EXCEPT ![h] = [u \in DOMAIN @ \ {t} |-> @[u]]]
    /\ UNCHANGED <<now, logs, outside, disp, hook, poll, bounds, scraped>>

CheckStops(h) ==
    /\ check[h] # << >> /\ crashes < MaxCrashes
    /\ check' = [check EXCEPT ![h] = << >>]
    /\ crashes' = crashes + 1
    /\ UNCHANGED <<now, tables, outside, disp, hook, poll, resets, scraped>>

----------------------------------------------------------------------------
HealthInit ==
    /\ Init
    /\ scraped = [t \in Targets |-> Never]
    /\ check = [h \in Checkers |-> << >>]

CheckStep(h) == StartCheck(h) \/ \E t \in Targets : Verify(h, t)

HealthNext ==
    \/ CrawlStep
    \/ \E h \in Checkers : CheckStep(h) \/ CheckStops(h)

HealthSpec == HealthInit /\ [][HealthNext]_allVars

(* The cron scheduler enqueues a sweep every five minutes and asynq runs   *)
(* it; the clock moves.  Nothing is asked of the crawl pipeline.           *)
HealthFairSpec ==
    /\ HealthSpec
    /\ \A h \in Checkers : WF_allVars(CheckStep(h))
    /\ WF_allVars(Tick /\ UNCHANGED <<scraped, check>>)

----------------------------------------------------------------------------
(* Types; a sweep holds the failure counts of the targets it has read.     *)
Reads == UNION {[B -> Nat] : B \in SUBSET Targets}

HealthTypeOK ==
    /\ TypeOK
    /\ scraped \in [Targets -> Times \cup {Never}]
    /\ check \in [Checkers -> Reads]

(* Two writers, the breaker and the sweep, keep different rules on the     *)
(* same columns.  Whatever their order, a row marked HEALTHY has no        *)
(* failures left to count, one the breaker marked has the count or the     *)
(* code that trips it, and one the sweep marked DEAD counts a failure.     *)
MarksAgree(row) ==
    /\ row.health = "HEALTHY" => row.failures = 0
    /\ row.health = "DISABLED_DEAD_LINK" => Trips(row.status, row.failures)
    /\ row.health = "DEAD" => row.failures > 0
BreakerColumnsAgree == \A t \in Targets : MarksAgree(targets[t])

(* A target that is off and that no sweep has read stays off until an      *)
(* administrator creates or resets it: no late callback, no cycle and no   *)
(* new sweep brings it back.                                               *)
Off(t) == ~targets[t].active /\ \A h \in Checkers : t \notin DOMAIN check[h]
OffStaysOff ==
    [][\A t \in Targets :
          Off(t) /\ ~(AddTarget(t) \/ ResetTarget(t) \/ ResetAll) => Off(t)']_allVars

(* A target whose URL keeps failing ends up switched off, unless dispatch  *)
(* cycles keep stamping it: no count gets lost for ever when sweeps overlap*)
(* and overwrite each other's, and no target starves behind the LIMIT.     *)
FailingUrlIsSwitchedOff ==
    \A t \in Seeded : <>[](targets[t].active => ~StaleRow(t))
=============================================================================
