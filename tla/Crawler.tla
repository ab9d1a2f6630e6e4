------------------------------ MODULE Crawler ------------------------------
(***************************************************************************)
(* The crawl pipeline: dispatch cycles (internal/queue/                    *)
(* crawler_dispatcher_worker.go) send due targets to the external scraper, *)
(* the scraper calls back (internal/handler/webhook.go), the fallback      *)
(* poller asks for the tasks whose callback never came, and administrators *)
(* create and reset targets.  They share the two tables of CrawlerTables   *)
(* and take no lock: every SQL statement is a step of its own, so handlers *)
(* interleave between their statements.                                    *)
(***************************************************************************)
EXTENDS CrawlerTables

CONSTANTS
    Seeded,         \* targets in the database when the system starts
    Dispatchers,    \* worker goroutines that may run a dispatch cycle
    Webhooks,       \* API goroutines that may serve a callback
    Pollers,        \* worker goroutines that may run a poll
    Outcomes,       \* what the scraper may report of a task
    DueLimit,       \* LIMIT of GetDueTargets (50)
    PollLimit,      \* LIMIT of GetPendingLogs (50)
    AdminOps,       \* the administrative operations this instance performs
    Faults,         \* the calls that may fail in this instance
    MaxLogs,        \* bound: rows of crawling_logs
    MaxDeliveries,  \* bound: callbacks the scraper sends for one task
    MaxCrashes,     \* bound: handlers that die between two steps
    MaxResets       \* bound: administrative resets

NoContent == "none"
TaskStatus == [status: {"UNKNOWN", "RUNNING", "COMPLETED", "FAILED"},
               code: Nat, content: STRING]

ASSUME CrawlerAssumption ==
    /\ Seeded \subseteq Targets /\ IsFiniteSet(Webhooks) /\ IsFiniteSet(Pollers)
    /\ Outcomes \subseteq {o \in TaskStatus : o.status \in {"COMPLETED", "FAILED"}}

VARIABLES
    now,        \* the clock
    targets,    \* crawling_targets
    logs,       \* crawling_logs
    scraper,    \* the scraper's answer for each task id
    sent,       \* callbacks begun for each task id
    jobs,       \* llm_extraction tasks enqueued for each task id
    disp,       \* state of each dispatch cycle
    hook,       \* state of each callback being served
    poll,       \* state of each poll
    crashes, resets     \* how much of the bounds is used

tables == <<targets, logs>>
outside == <<scraper, sent, jobs>>
bounds == <<crashes, resets>>
vars == <<now, targets, logs, scraper, sent, jobs, disp, hook, poll, crashes, resets>>

Unknown == [status |-> "UNKNOWN", code |-> 0, content |-> NoContent]
Running == [Unknown EXCEPT !.status = "RUNNING"]
Finished(id) == scraper[id].status \in {"COMPLETED", "FAILED"}

IdleCycle == [pc |-> "idle", queue |-> {}, task |-> NoTask]
IdleHook  == [pc |-> "idle", task |-> NoTask, out |-> Unknown]
IdlePoll  == [pc |-> "idle", batch |-> {}, task |-> NoTask, out |-> Unknown]

Init ==
    /\ now = 0
    /\ targets = [t \in Targets |->
                    IF t \in Seeded THEN CreateTarget(NoRow, TRUE, 0) ELSE NoRow]
    /\ logs = << >>
    /\ scraper = [id \in TaskIds |-> Unknown]
    /\ sent = [id \in TaskIds |-> 0]
    /\ jobs = [id \in TaskIds |-> 0]
    /\ disp = [d \in Dispatchers |-> IdleCycle]
    /\ hook = [w \in Webhooks |-> IdleHook]
    /\ poll = [p \in Pollers |-> IdlePoll]
    /\ crashes = 0 /\ resets = 0

----------------------------------------------------------------------------
(* Statements as the handlers issue them: an error is logged and ignored.  *)

SetLogStatus(id, s) ==
    \/ logs' = UpdateLogStatus(logs, id, s, now)
    \/ "UpdateLogStatus" \in Faults /\ UNCHANGED logs

SetTarget(t, row) ==
    \/ targets' = [targets EXCEPT ![t] = row]
    \/ "UpdateTarget" \in Faults /\ UNCHANGED targets

Record(id, failed, code) ==
    LET row == targets[id[1]]
    IN  SetTarget(id[1], IF failed THEN RecordFailure(row, code, now)
                                   ELSE RecordSuccess(row, code))

----------------------------------------------------------------------------
(* HandleDispatchCrawlingTask.  The batch is sent in host-interleaved      *)
(* order, which the model leaves open: any target of the batch is next.    *)

StartCycle(d) ==
    /\ disp[d].pc = "idle"
    /\ \E batch \in OldestOf({t \in Targets : Due(targets[t], now)},
                             [t \in Targets |-> targets[t].nextRun], DueLimit) :
          /\ batch # {}
          /\ disp' = [disp EXCEPT ![d] = [IdleCycle EXCEPT !.pc = "next", !.queue = batch]]
    /\ UNCHANGED <<now, tables, outside, hook, poll, bounds>>

PostBeforeLog(d) ==                         \* mutant of LogDispatch
    /\ disp[d].pc = "next"
    /\ Len(logs) < MaxLogs /\ now + PendingAge <= MaxTime
    /\ \E t \in disp[d].queue :
          disp' = [disp EXCEPT ![d] = [pc |-> "post", queue |-> @.queue \ {t},
                                      task |-> <<t, now>>]]
    /\ UNCHANGED <<now, tables, outside, hook, poll, bounds>>

(* Make the task id and insert the DISPATCHED log; an insert error is only *)
(* logged.  MaxLogs and the clock's horizon bound the number of tasks.     *)
LogDispatch(d) ==
    /\ disp[d].pc = "next"
    /\ Len(logs) < MaxLogs /\ now + PendingAge <= MaxTime
    /\ \E t \in disp[d].queue :
          LET id == <<t, now>>
          IN  /\ disp' = [disp EXCEPT ![d] = [pc |-> "post", queue |-> @.queue \ {t},
                                              task |-> id]]
              /\ \/ logs' = CreateLog(logs, id, now)
                 \/ "CreateLog" \in Faults /\ UNCHANGED logs
    /\ UNCHANGED <<now, targets, outside, hook, poll, bounds>>

(* POST /scrape-tasks.  The request may fail before the scraper has it,    *)
(* or, on the client's 10 second timeout, after.                           *)
PostTask(d) ==
    /\ disp[d].pc = "post"
    /\ \E accepted \in BOOLEAN, err \in BOOLEAN :
          /\ ~accepted => err
          /\ err => "DispatchTask" \in Faults
          /\ scraper' = IF accepted /\ scraper[disp[d].task] = Unknown
                        THEN [scraper EXCEPT ![disp[d].task] = Running]
                        ELSE scraper
          /\ disp' = [disp EXCEPT ![d].pc = IF err THEN "failed" ELSE "sent"]
    /\ UNCHANGED <<now, tables, sent, jobs, hook, poll, bounds>>

NextTarget(d) ==
    disp' = [disp EXCEPT ![d] = IF @.queue = {} THEN IdleCycle
                                ELSE [pc |-> "next", queue |-> @.queue, task |-> NoTask]]

(* A failed dispatch leaves next_run_at alone: the next cycle retries it.  *)
DispatchFailed(d) ==
    /\ disp[d].pc = "failed"
    /\ SetLogStatus(disp[d].task, "FAILED")
    /\ NextTarget(d)
    /\ UNCHANGED <<now, targets, outside, hook, poll, bounds>>

AdvanceNextRun(d) ==
    /\ disp[d].pc = "sent"
    /\ LET t == disp[d].task[1]
       IN  SetTarget(t, UpdateTargetNextRun(targets[t], now))
    /\ NextTarget(d)
    /\ UNCHANGED <<now, logs, outside, hook, poll, bounds>>

----------------------------------------------------------------------------
(* The external scraper finishes a task it accepted.                       *)
FinishTask(id) ==
    /\ scraper[id] = Running
    /\ \E o \in Outcomes : scraper' = [scraper EXCEPT ![id] = o]
    /\ UNCHANGED <<now, tables, sent, jobs, disp, hook, poll, bounds>>

----------------------------------------------------------------------------
(* HandleCrawlerWebhook.                                                   *)

HttpStatus(o) == IF o.code # 0 THEN o.code
                 ELSE IF o.status = "FAILED" THEN 500 ELSE 200
IsFailure(o) == o.status = "FAILED" \/ HttpStatus(o) >= 400

(* The scraper calls back, perhaps more than once, perhaps never.          *)
Deliver(w, id) ==
    /\ hook[w].pc = "idle"
    /\ Finished(id) /\ sent[id] < MaxDeliveries
    /\ sent' = [sent EXCEPT ![id] = @ + 1]
    /\ hook' = [hook EXCEPT ![w] =
                    [pc   |-> IF IsFailure(scraper[id]) THEN "failLog" ELSE "okTarget",
                     task |-> id, out |-> scraper[id]]]
    /\ UNCHANGED <<now, tables, scraper, jobs, disp, poll, bounds>>

CallbackFailLog(w) ==
    /\ hook[w].pc = "failLog"
    /\ SetLogStatus(hook[w].task, "FAILED")
    /\ hook' = [hook EXCEPT ![w].pc = "failTarget"]
    /\ UNCHANGED <<now, targets, outside, disp, poll, bounds>>

CallbackFailTargetAgain(w) ==               \* mutant of CallbackFailTarget
    /\ hook[w].pc = "failTarget"
    /\ Record(hook[w].task, TRUE, HttpStatus(hook[w].out))
    /\ hook' = [hook EXCEPT ![w].pc = "failLog"]
    /\ UNCHANGED <<now, logs, outside, disp, poll, bounds>>

CallbackFailTarget(w) ==
    /\ hook[w].pc = "failTarget"
    /\ Record(hook[w].task, TRUE, HttpStatus(hook[w].out))
    /\ hook' = [hook EXCEPT ![w] = IdleHook]
    /\ UNCHANGED <<now, logs, outside, disp, poll, bounds>>

(* The target is healthy again before the content is looked at: a success  *)
(* without content is then refused (422) and its log stays DISPATCHED.     *)
CallbackOkTarget(w) ==
    /\ hook[w].pc = "okTarget"
    /\ Record(hook[w].task, FALSE, HttpStatus(hook[w].out))
    /\ hook' = [hook EXCEPT ![w] = IF @.out.content = NoContent THEN IdleHook
                                   ELSE [@ EXCEPT !.pc = "okLog"]]
    /\ UNCHANGED <<now, logs, outside, disp, poll, bounds>>

CallbackOkLog(w) ==
    /\ hook[w].pc = "okLog"
    /\ SetLogStatus(hook[w].task, "COMPLETED")
    /\ hook' = [hook EXCEPT ![w].pc = "enqueue"]
    /\ UNCHANGED <<now, targets, outside, disp, poll, bounds>>

(* An enqueue error is only logged; the answer is 202 either way.          *)
CallbackEnqueue(w) ==
    /\ hook[w].pc = "enqueue"
    /\ \/ jobs' = [jobs EXCEPT ![hook[w].task] = @ + 1]
       \/ "Enqueue" \in Faults /\ UNCHANGED jobs
    /\ hook' = [hook EXCEPT ![w] = IdleHook]
    /\ UNCHANGED <<now, tables, scraper, sent, disp, poll, bounds>>

----------------------------------------------------------------------------
(* HandlePollPendingTasks.                                                 *)

StartPoll(p) ==
    /\ poll[p].pc = "idle"
    /\ \E batch \in OldestOf(Pending(logs, now),
                             [i \in DOMAIN logs |-> logs[i].at], PollLimit) :
          /\ batch # {}
          /\ poll' = [poll EXCEPT ![p] = [IdlePoll EXCEPT !.pc = "ask", !.batch = batch]]
    /\ UNCHANGED <<now, tables, outside, disp, hook, bounds>>

NextLog(batch) == IF batch = {} THEN IdlePoll
                  ELSE [IdlePoll EXCEPT !.pc = "ask", !.batch = batch]

AskStatusOfSuccesses(p) ==                  \* mutant of AskStatus
    /\ poll[p].pc = "ask"
    /\ \E i \in poll[p].batch :
          LET id   == logs[i].task
              rest == poll[p].batch \ {i}
          IN  poll' = [poll EXCEPT ![p] =
                          IF scraper[id].status = "COMPLETED"
                          THEN [pc |-> "log", batch |-> rest, task |-> id,
                                out |-> scraper[id]]
                          ELSE NextLog(rest)]
    /\ UNCHANGED <<now, tables, outside, disp, hook, bounds>>

(* GET /tasks/{id}: an unknown task is an error, an error or a task still  *)
(* running leaves the log for a later poll.                                *)
AskStatus(p) ==
    /\ poll[p].pc = "ask"
    /\ \E i \in poll[p].batch :
          LET id   == logs[i].task
              rest == poll[p].batch \ {i}
          IN  \/ /\ Finished(id)
                 /\ poll' = [poll EXCEPT ![p] = [pc |-> "log", batch |-> rest,
                                                 task |-> id, out |-> scraper[id]]]
              \/ /\ ~Finished(id) \/ "GetTaskStatus" \in Faults
                 /\ poll' = [poll EXCEPT ![p] = NextLog(rest)]
    /\ UNCHANGED <<now, tables, outside, disp, hook, bounds>>

PollLogAsCompleted(p) ==                    \* mutant of PollLog
    /\ poll[p].pc = "log"
    /\ SetLogStatus(poll[p].task, "COMPLETED")
    /\ poll' = [poll EXCEPT ![p].pc = "target"]
    /\ UNCHANGED <<now, targets, outside, disp, hook, bounds>>

PollLogOfSuccesses(p) ==                    \* mutant of PollLog
    /\ poll[p].pc = "log"
    /\ IF poll[p].out.status = "COMPLETED" THEN SetLogStatus(poll[p].task, "COMPLETED")
       ELSE UNCHANGED logs
    /\ poll' = [poll EXCEPT ![p].pc = "target"]
    /\ UNCHANGED <<now, targets, outside, disp, hook, bounds>>

PollLog(p) ==
    /\ poll[p].pc = "log"
    /\ SetLogStatus(poll[p].task, poll[p].out.status)
    /\ poll' = [poll EXCEPT ![p].pc = "target"]
    /\ UNCHANGED <<now, targets, outside, disp, hook, bounds>>

(* The scraper's code is recorded as it is, without the callback's default.*)
PollTarget(p) ==
    /\ poll[p].pc = "target"
    /\ Record(poll[p].task, poll[p].out.status = "FAILED", poll[p].out.code)
    /\ poll' = [poll EXCEPT ![p] = NextLog(@.batch)]
    /\ UNCHANGED <<now, logs, outside, disp, hook, bounds>>

----------------------------------------------------------------------------
(* POST /admin/scraping-jobs and POST /admin/crawler-errors/reset.         *)

AddTarget(t) ==
    /\ "CreateTarget" \in AdminOps
    /\ \E isActive \in BOOLEAN : SetTarget(t, CreateTarget(targets[t], isActive, now))
    /\ UNCHANGED <<now, logs, outside, disp, hook, poll, bounds>>

ResetTarget(t) ==
    /\ "ResetOne" \in AdminOps
    /\ targets[t].exists /\ resets < MaxResets
    /\ SetTarget(t, ResetRow(targets[t], now))
    /\ resets' = resets + 1
    /\ UNCHANGED <<now, logs, outside, disp, hook, poll, crashes>>

ResetAll ==
    /\ "ResetAll" \in AdminOps
    /\ resets < MaxResets
    /\ targets' = [t \in Targets |-> IF Failing(targets[t]) THEN ResetRow(targets[t], now)
                                     ELSE targets[t]]
    /\ resets' = resets + 1
    /\ UNCHANGED <<now, logs, outside, disp, hook, poll, crashes>>

----------------------------------------------------------------------------
(* A handler dies between two of its statements: the process is killed or  *)
(* its context is cancelled.  What it already wrote stays.                 *)

DispatcherStops(d) ==
    /\ disp[d].pc # "idle" /\ crashes < MaxCrashes
    /\ disp' = [disp EXCEPT ![d] = IdleCycle]
    /\ crashes' = crashes + 1
    /\ UNCHANGED <<now, tables, outside, hook, poll, resets>>

WebhookStops(w) ==
    /\ hook[w].pc # "idle" /\ crashes < MaxCrashes
    /\ hook' = [hook EXCEPT ![w] = IdleHook]
    /\ crashes' = crashes + 1
    /\ UNCHANGED <<now, tables, outside, disp, poll, resets>>

PollerStops(p) ==
    /\ poll[p].pc # "idle" /\ crashes < MaxCrashes
    /\ poll' = [poll EXCEPT ![p] = IdlePoll]
    /\ crashes' = crashes + 1
    /\ UNCHANGED <<now, tables, outside, disp, hook, resets>>

Tick ==
    /\ now < MaxTime
    /\ now' = now + 1
    /\ UNCHANGED <<tables, outside, disp, hook, poll, bounds>>

----------------------------------------------------------------------------
DispatchStep(d) ==
    \/ StartCycle(d) \/ LogDispatch(d) \/ PostTask(d)
    \/ DispatchFailed(d) \/ AdvanceNextRun(d)

CallbackStep(w) ==
    \/ CallbackFailLog(w) \/ CallbackFailTarget(w)
    \/ CallbackOkTarget(w) \/ CallbackOkLog(w) \/ CallbackEnqueue(w)

PollStep(p) == StartPoll(p) \/ AskStatus(p) \/ PollLog(p) \/ PollTarget(p)

AdminStep == (\E t \in Targets : AddTarget(t) \/ ResetTarget(t)) \/ ResetAll

Next ==
    \/ \E d \in Dispatchers : DispatchStep(d) \/ DispatcherStops(d)
    \/ \E id \in TaskIds : FinishTask(id)
    \/ \E w \in Webhooks : \/ \E id \in TaskIds : Deliver(w, id)
                           \/ CallbackStep(w) \/ WebhookStops(w)
    \/ \E p \in Pollers : PollStep(p) \/ PollerStops(p)
    \/ AdminStep
    \/ Tick

Spec == Init /\ [][Next]_vars

(* asynq keeps running the cron tasks and retries what a crash interrupted,*)
(* a handler that runs keeps running, the scraper finishes what it         *)
(* accepted and time passes.  No callback need ever be sent, and no        *)
(* administrator need ever act.                                            *)
Fairness ==
    /\ \A d \in Dispatchers : WF_vars(DispatchStep(d))
    /\ \A w \in Webhooks : WF_vars(CallbackStep(w))
    /\ \A p \in Pollers : WF_vars(PollStep(p))
    /\ \A id \in TaskIds : WF_vars(FinishTask(id))
    /\ WF_vars(Tick)

FairSpec == Spec /\ Fairness

----------------------------------------------------------------------------
CycleState == {IdleCycle}
    \cup [pc: {"next"}, queue: SUBSET Targets, task: {NoTask}]
    \cup [pc: {"post", "failed", "sent"}, queue: SUBSET Targets, task: TaskIds]
HookState == {IdleHook}
    \cup [pc: {"failLog", "failTarget", "okTarget", "okLog", "enqueue"},
          task: TaskIds, out: Outcomes]
PollState(rows) == {IdlePoll}
    \cup [pc: {"ask"}, batch: SUBSET (DOMAIN rows), task: {NoTask}, out: {Unknown}]
    \cup [pc: {"log", "target"}, batch: SUBSET (DOMAIN rows), task: TaskIds, out: Outcomes]

(* Type invariant: a handler that works on a task holds a task id and an   *)
(* outcome of the scraper, and a poll only holds rows that exist.          *)
TypeOK ==
    /\ now \in Times
    /\ targets \in [Targets -> TargetRow]
    /\ logs \in Seq(LogRow)
    /\ scraper \in [TaskIds -> {Unknown, Running} \cup Outcomes]
    /\ sent \in [TaskIds -> Nat] /\ jobs \in [TaskIds -> Nat]
    /\ disp \in [Dispatchers -> CycleState]
    /\ hook \in [Webhooks -> HookState]
    /\ poll \in [Pollers -> PollState(logs)]
    /\ crashes \in Nat /\ resets \in Nat

(* The three columns of the breaker agree however callbacks, polls, resets *)
(* and re-created targets interleave: health_status is what RecordFailure  *)
(* would compute from consecutive_failures and last_http_status.           *)
Derivable(row) ==
    row.health = IF row.failures = 0 THEN "HEALTHY"
                 ELSE IF Trips(row.status, row.failures) THEN "DISABLED_DEAD_LINK"
                 ELSE "DEGRADED"
HealthDerivable == \A t \in Targets : Derivable(targets[t])

(* The log is written before the scraper hears of the task, so a callback  *)
(* or a poll always finds the row it has to update (as long as the insert  *)
(* itself does not fail).                                                  *)
Logged(id) == \E i \in DOMAIN logs : logs[i].task = id
AcceptedIsLogged ==
    "CreateLog" \notin Faults => \A id \in TaskIds : scraper[id] # Unknown => Logged(id)

(* Whatever the order of callbacks, polls and late dispatch errors, a log  *)
(* says COMPLETED only if the scraper completed that task.                 *)
CompletedMeansScraped ==
    \A i \in DOMAIN logs :
        logs[i].status = "COMPLETED" => scraper[logs[i].task].status = "COMPLETED"

(* A report takes effect once, whatever the order in which callbacks, their*)
(* repetitions, polls, late dispatch errors and lost updates interleave: a *)
(* target has no more failures than failed callbacks, and where the logs   *)
(* can be written one more for each failed log of its tasks and each       *)
(* poller, which counts a log beside the callbacks but never again; and    *)
(* the extraction, which is paid per job, gets no more jobs than callbacks *)
(* with content.                                                           *)
FailedTasks(t) == {id \in TaskIds : id[1] = t /\ Finished(id) /\ IsFailure(scraper[id])}
FailedReports(t) == UNION {{id} \X (1..sent[id]) : id \in FailedTasks(t)}
FailedLogs(t) == {i \in DOMAIN logs : /\ logs[i].task[1] = t /\ logs[i].status = "FAILED"
                                      /\ scraper[logs[i].task].status = "FAILED"}

EachReportOnce ==
    /\ Pollers = {} \/ "UpdateLogStatus" \notin Faults =>
          \A t \in Targets :
             targets[t].failures <= Cardinality(FailedReports(t))
                                      + Cardinality(FailedLogs(t) \X Pollers)
    /\ \A id \in TaskIds :
          /\ jobs[id] <= sent[id]
          /\ jobs[id] > 0 => scraper[id].content # NoContent

(* Fallback polling settles every task the scraper finishes, even when its *)
(* callback is lost, refused as empty or killed half-way.  It holds as long*)
(* as all stuck logs fit in the LIMIT of one poll.                         *)
FinishedIsSettled ==
    \A id \in TaskIds :
        Finished(id) ~> \A i \in DOMAIN logs :
                            logs[i].task = id => logs[i].status # "DISPATCHED"

----------------------------------------------------------------------------
(* What a comment says, and the code does not do.                          *)

TrippedByCount(t) == /\ targets[t].health = "DISABLED_DEAD_LINK"
                     /\ targets[t].status \notin DeadCodes

(* RecordFailure, "If non-429 failures >= 5": only failures other than 429 *)
(* add up to the breaker's limit.                                          *)
ThrottlingIsNotCounted ==
    \A t \in Targets :
        TrippedByCount(t) =>
            Cardinality({id \in FailedTasks(t) : scraper[id].code # Throttled})
                >= BreakerLimit
=============================================================================
