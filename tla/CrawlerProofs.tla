--------------------------- MODULE CrawlerProofs ---------------------------
(***************************************************************************)
(* Theorems of Crawler: what holds for every number of targets, handlers   *)
(* and pollers, every breaker limit and back-off table, every set of       *)
(* faults and every bound.                                                 *)
(***************************************************************************)
EXTENDS Crawler, SequenceTheorems, FiniteSetTheorems, TLAPS

----------------------------------------------------------------------------
(* The statements keep their tables well typed.                            *)

(* Every statement on crawling_targets turns a row into a row.             *)
LEMMA RowTypes ==
    ASSUME NEW row \in TargetRow, NEW time \in Nat, NEW code \in Nat, NEW b \in BOOLEAN
    PROVE  /\ CreateTarget(row, b, time) \in TargetRow
           /\ UpdateTargetNextRun(row, time) \in TargetRow
           /\ RecordSuccess(row, code) \in TargetRow
           /\ RecordFailure(row, code, time) \in TargetRow
           /\ ResetRow(row, time) \in TargetRow
<1>1. NoRow \in TargetRow
  BY DEF NoRow, TargetRow, Healths
<1>2. CreateTarget(row, b, time) \in TargetRow
  BY <1>1 DEF CreateTarget, TargetRow, NoRow, Healths
<1>3. UpdateTargetNextRun(row, time) \in TargetRow
  BY TimesAssumption DEF UpdateTargetNextRun, TargetRow
<1>4. RecordSuccess(row, code) \in TargetRow
  BY DEF RecordSuccess, TargetRow, Healths
<1>5. RecordFailure(row, code, time) \in TargetRow
  <2> DEFINE n == row.failures + 1
  <2>1. n \in Nat
    BY DEF TargetRow
  <2>2. BackoffWindow(n) \in Nat
    BY <2>1, TimesAssumption DEF BackoffWindow
  <2>3. Trips(code, n) \in BOOLEAN
    BY DEF Trips
  <2> HIDE DEF n
  <2>4. /\ (IF Trips(code, n) THEN "DISABLED_DEAD_LINK" ELSE "DEGRADED") \in Healths
        /\ (row.active /\ ~Trips(code, n)) \in BOOLEAN
        /\ (IF code = Throttled THEN time + BackoffWindow(n) ELSE row.nextRun) \in Nat
    BY <2>2, <2>3 DEF Healths, TargetRow
  <2> QED
    BY <2>1, <2>4 DEF RecordFailure, TargetRow, n
<1>6. ResetRow(row, time) \in TargetRow
  BY DEF ResetRow, TargetRow, Healths
<1> QED
  BY <1>2, <1>3, <1>4, <1>5, <1>6

(* An insert appends one row; an update keeps the number of rows.          *)
LEMMA LogTypes ==
    ASSUME NEW rows \in Seq(LogRow), NEW id \in TaskIds, NEW time \in Times,
           NEW s \in LogStatus
    PROVE  /\ CreateLog(rows, id, time) \in Seq(LogRow)
           /\ DOMAIN rows \subseteq DOMAIN CreateLog(rows, id, time)
           /\ UpdateLogStatus(rows, id, s, time) \in Seq(LogRow)
           /\ DOMAIN UpdateLogStatus(rows, id, s, time) = DOMAIN rows
<1>1. /\ CreateLog(rows, id, time) \in Seq(LogRow)
      /\ DOMAIN rows \subseteq DOMAIN CreateLog(rows, id, time)
  <2> DEFINE r == [task |-> id, status |-> "DISPATCHED", at |-> time]
  <2>1. r \in LogRow
    BY DEF LogRow, LogStatus
  <2> HIDE DEF r
  <2>2. /\ Append(rows, r) \in Seq(LogRow)
        /\ DOMAIN rows \subseteq DOMAIN Append(rows, r)
    BY <2>1
  <2> QED
    BY <2>2 DEF CreateLog, r
<1>2. DOMAIN UpdateLogStatus(rows, id, s, time) = DOMAIN rows
  BY DEF UpdateLogStatus
<1>3. UpdateLogStatus(rows, id, s, time) \in Seq(LogRow)
  <2>1. \A i \in 1..Len(rows) : rows[i] \in LogRow
    OBVIOUS
  <2>2. ASSUME NEW r \in LogRow
        PROVE  [r EXCEPT !.status = s, !.at = time] \in LogRow
    BY DEF LogRow
  <2>3. DOMAIN rows = 1..Len(rows)
    OBVIOUS
  <2>4. UpdateLogStatus(rows, id, s, time) \in [1..Len(rows) -> LogRow]
    BY <2>1, <2>2, <2>3, Zenon DEF UpdateLogStatus
  <2> QED
    BY <2>4, SeqDef
<1> QED
  BY <1>1, <1>2, <1>3

----------------------------------------------------------------------------
(* The states of the handlers.                                             *)

(* A dispatch cycle that is past its read holds targets, and a task id     *)
(* from LogDispatch on.                                                    *)
LEMMA CycleBusy ==
    ASSUME NEW c \in CycleState, c.pc # "idle"
    PROVE  /\ c = [pc |-> c.pc, queue |-> c.queue, task |-> c.task]
           /\ c.queue \in SUBSET Targets
           /\ c.pc = "next" => c.task = NoTask
           /\ c.pc # "next" => /\ c.pc \in {"post", "failed", "sent"}
                              /\ c.task \in TaskIds
                              /\ [pc |-> "next", queue |-> c.queue, task |-> NoTask]
                                    \in CycleState
                              /\ \A pc \in {"failed", "sent"} :
                                    [c EXCEPT !.pc = pc] \in CycleState
<1>1. /\ c = [pc |-> c.pc, queue |-> c.queue, task |-> c.task]
      /\ c.queue \in SUBSET Targets
      /\ c.pc = "next" => c.task = NoTask
      /\ c.pc # "next" => c.pc \in {"post", "failed", "sent"} /\ c.task \in TaskIds
  BY DEF CycleState, IdleCycle
<1>2. \A pc : [c EXCEPT !.pc = pc] = [pc |-> pc, queue |-> c.queue, task |-> c.task]
  BY <1>1
<1> QED
  BY <1>1, <1>2 DEF CycleState

(* A callback being served holds a task id and the scraper's outcome.      *)
LEMMA HookBusy ==
    ASSUME NEW h \in HookState, h.pc # "idle"
    PROVE  /\ h = [pc |-> h.pc, task |-> h.task, out |-> h.out]
           /\ h.pc \in {"failLog", "failTarget", "okTarget", "okLog", "enqueue"}
           /\ h.task \in TaskIds /\ h.out \in Outcomes
           /\ h.out \in TaskStatus /\ HttpStatus(h.out) \in Nat
           /\ \A pc \in {"failTarget", "okLog", "enqueue"} :
                 [h EXCEPT !.pc = pc] \in HookState
<1>1. /\ h = [pc |-> h.pc, task |-> h.task, out |-> h.out]
      /\ h.pc \in {"failLog", "failTarget", "okTarget", "okLog", "enqueue"}
      /\ h.task \in TaskIds /\ h.out \in Outcomes
  BY DEF HookState, IdleHook
<1>2. h.out \in TaskStatus
  BY <1>1, CrawlerAssumption
<1>3. HttpStatus(h.out) \in Nat
  BY <1>2 DEF HttpStatus, TaskStatus
<1>4. \A pc : [h EXCEPT !.pc = pc] = [pc |-> pc, task |-> h.task, out |-> h.out]
  BY <1>1
<1>5. \A pc \in {"failTarget", "okLog", "enqueue"} : [h EXCEPT !.pc = pc] \in HookState
  BY <1>1, <1>4 DEF HookState
<1> QED
  BY <1>1, <1>2, <1>3, <1>5

(* A poll holds rows of the table, and a finished outcome once it has asked.*)
LEMMA PollBusy ==
    ASSUME NEW rows, NEW p \in PollState(rows), p.pc # "idle"
    PROVE  /\ p = [pc |-> p.pc, batch |-> p.batch, task |-> p.task, out |-> p.out]
           /\ p.batch \in SUBSET (DOMAIN rows)
           /\ p.pc = "ask" => p.task = NoTask /\ p.out = Unknown
           /\ p.pc # "ask" => /\ p.pc \in {"log", "target"}
                             /\ p.task \in TaskIds /\ p.out \in Outcomes
                             /\ p.out \in TaskStatus
                             /\ p.out.status \in LogStatus /\ p.out.code \in Nat
                             /\ [p EXCEPT !.pc = "target"] \in PollState(rows)
<1>1. /\ p = [pc |-> p.pc, batch |-> p.batch, task |-> p.task, out |-> p.out]
      /\ p.batch \in SUBSET (DOMAIN rows)
      /\ p.pc = "ask" => p.task = NoTask /\ p.out = Unknown
      /\ p.pc # "ask" => /\ p.pc \in {"log", "target"}
                        /\ p.task \in TaskIds /\ p.out \in Outcomes
  BY DEF PollState, IdlePoll
<1>2. ASSUME p.pc # "ask"
      PROVE  /\ p.out \in TaskStatus
             /\ p.out.status \in LogStatus /\ p.out.code \in Nat
  <2>1. p.out \in TaskStatus /\ p.out.status \in {"COMPLETED", "FAILED"}
    BY <1>1, <1>2, CrawlerAssumption
  <2> QED
    BY <2>1 DEF TaskStatus, LogStatus
<1>3. [p EXCEPT !.pc = "target"]
          = [pc |-> "target", batch |-> p.batch, task |-> p.task, out |-> p.out]
  BY <1>1
<1>4. p.pc # "ask" => [p EXCEPT !.pc = "target"] \in PollState(rows)
  BY <1>1, <1>3 DEF PollState
<1> QED
  BY <1>1, <1>2, <1>4

(* Rows that are only updated or appended leave every poll a poll.         *)
LEMMA PollStateGrows ==
    ASSUME NEW rows, NEW more, DOMAIN rows \subseteq DOMAIN more
    PROVE  PollState(rows) \subseteq PollState(more)
  BY DEF PollState

(* The outcomes of finished tasks are the scraper's.                       *)
LEMMA FinishedOutcome ==
    ASSUME TypeOK, NEW id \in TaskIds, Finished(id)
    PROVE  scraper[id] \in Outcomes
  BY DEF TypeOK, Finished, Unknown, Running

----------------------------------------------------------------------------
(* The statements as the handlers issue them.                              *)

LEMMA NowIsNat == ASSUME now \in Times PROVE now \in Nat
  BY TimesAssumption DEF Times

(* UpdateLogStatus, applied or failed.                                     *)
LEMMA SetLogStatusTypes ==
    ASSUME TypeOK, NEW id \in TaskIds, NEW s \in LogStatus, SetLogStatus(id, s)
    PROVE  logs' \in Seq(LogRow) /\ DOMAIN logs' = DOMAIN logs
  BY LogTypes DEF SetLogStatus, TypeOK

(* RecordSuccess or RecordFailure, applied or failed.                      *)
LEMMA RecordTypes ==
    ASSUME TypeOK, NEW id \in TaskIds, NEW failed \in BOOLEAN, NEW code \in Nat,
           Record(id, failed, code)
    PROVE  targets' \in [Targets -> TargetRow]
<1>1. id[1] \in Targets
  BY DEF TaskIds
<1>2. targets[id[1]] \in TargetRow /\ now \in Nat
  BY <1>1, NowIsNat DEF TypeOK
<1>3. /\ RecordFailure(targets[id[1]], code, now) \in TargetRow
      /\ RecordSuccess(targets[id[1]], code) \in TargetRow
  BY <1>2, RowTypes
<1>4. PICK row \in TargetRow : SetTarget(id[1], row)
  BY <1>3 DEF Record
<1> QED
  BY <1>4 DEF SetTarget, TypeOK

----------------------------------------------------------------------------
(* Type correctness.                                                       *)

(* What a step may leave alone, in the groups the actions name.            *)
LEMMA TypeStutter ==
    ASSUME TypeOK, UNCHANGED vars
    PROVE  TypeOK'
  BY DEF TypeOK, vars

LEMMA TypeInit == Init => TypeOK
<1> SUFFICES ASSUME Init PROVE TypeOK
  OBVIOUS
<1>1. now \in Times
  BY TimesAssumption DEF Init, Times
<1>2. NoRow \in TargetRow /\ CreateTarget(NoRow, TRUE, 0) \in TargetRow
  <2>1. NoRow \in TargetRow
    BY DEF NoRow, TargetRow, Healths
  <2> QED
    BY <2>1, RowTypes
<1>3. targets \in [Targets -> TargetRow]
  BY <1>2 DEF Init
<1>4. /\ IdleCycle \in CycleState
      /\ IdleHook \in HookState
      /\ IdlePoll \in PollState(logs)
  BY DEF CycleState, HookState, PollState
<1>5. /\ disp \in [Dispatchers -> CycleState]
      /\ hook \in [Webhooks -> HookState]
      /\ poll \in [Pollers -> PollState(logs)]
  BY <1>4 DEF Init
<1>6. /\ logs \in Seq(LogRow)
      /\ scraper \in [TaskIds -> {Unknown, Running} \cup Outcomes]
      /\ sent \in [TaskIds -> Nat] /\ jobs \in [TaskIds -> Nat]
      /\ crashes \in Nat /\ resets \in Nat
  BY DEF Init
<1> QED
  BY <1>1, <1>3, <1>5, <1>6 DEF TypeOK

(* A dispatch cycle.                                                       *)
LEMMA TypeDispatch ==
    ASSUME TypeOK, NEW d \in Dispatchers, DispatchStep(d) \/ DispatcherStops(d)
    PROVE  TypeOK'
<1> USE DEF TypeOK, tables, outside, bounds
<1>0. disp[d] \in CycleState
  OBVIOUS
<1>1. CASE StartCycle(d)
  <2>1. PICK batch \in SUBSET Targets :
            disp' = [disp EXCEPT ![d] = [IdleCycle EXCEPT !.pc = "next", !.queue = batch]]
    BY <1>1 DEF StartCycle, OldestOf
  <2>2. [IdleCycle EXCEPT !.pc = "next", !.queue = batch] \in CycleState
    BY DEF IdleCycle, CycleState
  <2>3. disp' \in [Dispatchers -> CycleState]
    BY <2>1, <2>2
  <2> QED
    BY <1>1, <2>3 DEF StartCycle
<1>2. CASE LogDispatch(d)
  <2>1. PICK t \in disp[d].queue :
            /\ disp' = [disp EXCEPT ![d] = [pc |-> "post", queue |-> disp[d].queue \ {t},
                                            task |-> <<t, now>>]]
            /\ logs' = CreateLog(logs, <<t, now>>, now) \/ logs' = logs
    BY <1>2 DEF LogDispatch
  <2>2. disp[d].queue \in SUBSET Targets
    BY <1>0, <1>2, CycleBusy DEF LogDispatch
  <2>3. <<t, now>> \in TaskIds
    BY <2>1, <2>2 DEF TaskIds
  <2>4. disp' \in [Dispatchers -> CycleState]
    BY <2>1, <2>2, <2>3 DEF CycleState
  <2>5. logs' \in Seq(LogRow) /\ DOMAIN logs \subseteq DOMAIN logs'
    BY <2>1, <2>3, LogTypes DEF LogStatus
  <2>6. poll' \in [Pollers -> PollState(logs')]
    BY <1>2, <2>5, PollStateGrows DEF LogDispatch
  <2> QED
    BY <1>2, <2>4, <2>5, <2>6 DEF LogDispatch
<1>3. CASE PostTask(d)
  <2>1. scraper' \in [TaskIds -> {Unknown, Running} \cup Outcomes]
    BY <1>3 DEF PostTask
  <2>2. PICK pc \in {"failed", "sent"} : disp' = [disp EXCEPT ![d].pc = pc]
    BY <1>3 DEF PostTask
  <2>3. [disp[d] EXCEPT !.pc = pc] \in CycleState
    BY <1>0, <1>3, <2>2, CycleBusy DEF PostTask
  <2>4. disp' \in [Dispatchers -> CycleState]
    BY <2>2, <2>3
  <2> QED
    BY <1>3, <2>1, <2>4 DEF PostTask
<1>4. ASSUME disp[d].pc \in {"failed", "sent"}, NextTarget(d)
      PROVE  disp' \in [Dispatchers -> CycleState]
  <2>1. disp[d].queue \in SUBSET Targets /\ disp[d].task \in TaskIds
    BY <1>0, <1>4, CycleBusy
  <2>2. [pc |-> "next", queue |-> disp[d].queue, task |-> NoTask] \in CycleState
    BY <1>0, <1>4, CycleBusy
  <2>3. IdleCycle \in CycleState
    BY DEF CycleState
  <2> QED
    BY <1>4, <2>2, <2>3 DEF NextTarget
<1>5. CASE DispatchFailed(d)
  <2>1. disp' \in [Dispatchers -> CycleState]
    BY <1>4, <1>5 DEF DispatchFailed
  <2>2. logs' \in Seq(LogRow) /\ DOMAIN logs' = DOMAIN logs
    BY <1>0, <1>5, CycleBusy, SetLogStatusTypes DEF DispatchFailed, LogStatus
  <2>3. poll' \in [Pollers -> PollState(logs')]
    BY <1>5, <2>2, PollStateGrows DEF DispatchFailed
  <2> QED
    BY <1>5, <2>1, <2>2, <2>3 DEF DispatchFailed
<1>6. CASE AdvanceNextRun(d)
  <2>1. disp' \in [Dispatchers -> CycleState]
    BY <1>4, <1>6 DEF AdvanceNextRun
  <2>2. disp[d].task[1] \in Targets
    BY <1>0, <1>6, CycleBusy DEF AdvanceNextRun, TaskIds
  <2>3. UpdateTargetNextRun(targets[disp[d].task[1]], now) \in TargetRow
    BY <2>2, RowTypes, NowIsNat
  <2>4. targets' \in [Targets -> TargetRow]
    BY <1>6, <2>2, <2>3 DEF AdvanceNextRun, SetTarget
  <2> QED
    BY <1>6, <2>1, <2>4 DEF AdvanceNextRun
<1>7. CASE DispatcherStops(d)
  BY <1>7 DEF DispatcherStops, CycleState
<1> QED
  BY <1>1, <1>2, <1>3, <1>5, <1>6, <1>7 DEF DispatchStep

(* A callback.                                                             *)
LEMMA TypeCallback ==
    ASSUME TypeOK, NEW w \in Webhooks,
           \/ \E id \in TaskIds : Deliver(w, id)
           \/ CallbackStep(w) \/ WebhookStops(w)
    PROVE  TypeOK'
<1> USE DEF TypeOK, tables, outside, bounds
<1>0. hook[w] \in HookState /\ IdleHook \in HookState
  BY DEF HookState
<1>1. ASSUME NEW id \in TaskIds, Deliver(w, id)
      PROVE  TypeOK'
  <2>1. PICK pc \in {"failLog", "okTarget"} :
            hook' = [hook EXCEPT ![w] = [pc |-> pc, task |-> id, out |-> scraper[id]]]
    BY <1>1 DEF Deliver
  <2>2. scraper[id] \in Outcomes
    BY <1>1, FinishedOutcome DEF Deliver
  <2>3. hook' \in [Webhooks -> HookState]
    BY <2>1, <2>2 DEF HookState
  <2>4. sent' \in [TaskIds -> Nat]
    BY <1>1 DEF Deliver
  <2> QED
    BY <1>1, <2>3, <2>4 DEF Deliver
<1>2. ASSUME hook[w].pc # "idle",
             NEW pc \in {"failTarget", "okLog", "enqueue"},
             hook' = [hook EXCEPT ![w].pc = pc]
      PROVE  hook' \in [Webhooks -> HookState]
  <2>1. [hook[w] EXCEPT !.pc = pc] \in HookState
    BY <1>0, <1>2, HookBusy
  <2> QED
    BY <1>2, <2>1
<1>3. ASSUME NEW s \in LogStatus, hook[w].pc # "idle", SetLogStatus(hook[w].task, s),
             UNCHANGED poll
      PROVE  logs' \in Seq(LogRow) /\ poll' \in [Pollers -> PollState(logs')]
  <2>1. logs' \in Seq(LogRow) /\ DOMAIN logs' = DOMAIN logs
    BY <1>0, <1>3, HookBusy, SetLogStatusTypes
  <2> QED
    BY <1>3, <2>1, PollStateGrows
<1>4. ASSUME NEW failed \in BOOLEAN, hook[w].pc # "idle",
             Record(hook[w].task, failed, HttpStatus(hook[w].out))
      PROVE  targets' \in [Targets -> TargetRow]
  BY <1>0, <1>4, HookBusy, RecordTypes
<1>5. CASE CallbackFailLog(w)
  BY <1>2, <1>3, <1>5 DEF CallbackFailLog, LogStatus
<1>6. CASE CallbackFailTarget(w)
  BY <1>0, <1>4, <1>6 DEF CallbackFailTarget
<1>7. CASE CallbackOkTarget(w)
  <2>1. \/ hook' = [hook EXCEPT ![w] = IdleHook]
        \/ hook' = [hook EXCEPT ![w].pc = "okLog"]
    BY <1>7 DEF CallbackOkTarget
  <2>2. hook' \in [Webhooks -> HookState]
    BY <1>0, <1>2, <1>7, <2>1 DEF CallbackOkTarget
  <2> QED
    BY <1>4, <1>7, <2>2 DEF CallbackOkTarget
<1>8. CASE CallbackOkLog(w)
  BY <1>2, <1>3, <1>8 DEF CallbackOkLog, LogStatus
<1>9. CASE CallbackEnqueue(w)
  <2>1. jobs' \in [TaskIds -> Nat]
    BY <1>9 DEF CallbackEnqueue
  <2> QED
    BY <1>0, <1>9, <2>1 DEF CallbackEnqueue
<1>10. CASE WebhookStops(w)
  BY <1>0, <1>10 DEF WebhookStops
<1> QED
  BY <1>1, <1>5, <1>6, <1>7, <1>8, <1>9, <1>10 DEF CallbackStep

(* A poll.                                                                 *)
LEMMA TypePoll ==
    ASSUME TypeOK, NEW p \in Pollers, PollStep(p) \/ PollerStops(p)
    PROVE  TypeOK'
<1> USE DEF TypeOK, tables, outside, bounds
<1>0. /\ poll[p] \in PollState(logs)
      /\ \A batch \in SUBSET (DOMAIN logs) : NextLog(batch) \in PollState(logs)
      /\ IdlePoll \in PollState(logs)
  BY DEF PollState, NextLog, IdlePoll
<1>1. CASE StartPoll(p)
  <2>1. PICK batch \in SUBSET (DOMAIN logs) :
            poll' = [poll EXCEPT ![p] = [IdlePoll EXCEPT !.pc = "ask", !.batch = batch]]
    BY <1>1 DEF StartPoll, OldestOf, Pending
  <2>2. [IdlePoll EXCEPT !.pc = "ask", !.batch = batch] \in PollState(logs)
    BY DEF IdlePoll, PollState
  <2> QED
    BY <1>1, <2>1, <2>2 DEF StartPoll
<1>2. CASE AskStatus(p)
  <2>1. poll[p].batch \in SUBSET (DOMAIN logs)
    BY <1>0, <1>2, PollBusy DEF AskStatus
  <2>2. PICK i \in poll[p].batch :
            \/ /\ Finished(logs[i].task)
               /\ poll' = [poll EXCEPT ![p] = [pc |-> "log", batch |-> poll[p].batch \ {i},
                                               task |-> logs[i].task,
                                               out |-> scraper[logs[i].task]]]
            \/ poll' = [poll EXCEPT ![p] = NextLog(poll[p].batch \ {i})]
    BY <1>2 DEF AskStatus
  <2>3. logs[i].task \in TaskIds
    <3>1. logs[i] \in LogRow
      BY <2>1, <2>2
    <3> QED
      BY <3>1 DEF LogRow
  <2>4. ASSUME Finished(logs[i].task)
        PROVE  [pc |-> "log", batch |-> poll[p].batch \ {i}, task |-> logs[i].task,
                out |-> scraper[logs[i].task]] \in PollState(logs)
    BY <2>1, <2>3, <2>4, FinishedOutcome DEF PollState
  <2>5. NextLog(poll[p].batch \ {i}) \in PollState(logs)
    BY <1>0, <2>1
  <2>6. poll' \in [Pollers -> PollState(logs)]
    BY <2>2, <2>4, <2>5
  <2> QED
    BY <1>2, <2>6 DEF AskStatus
<1>3. CASE PollLog(p)
  <2>1. logs' \in Seq(LogRow) /\ DOMAIN logs' = DOMAIN logs
    BY <1>0, <1>3, PollBusy, SetLogStatusTypes DEF PollLog
  <2>2. [poll[p] EXCEPT !.pc = "target"] \in PollState(logs)
    BY <1>0, <1>3, PollBusy DEF PollLog
  <2>3. poll' \in [Pollers -> PollState(logs)]
    BY <1>3, <2>2 DEF PollLog
  <2>4. poll' \in [Pollers -> PollState(logs')]
    BY <2>1, <2>3, PollStateGrows
  <2> QED
    BY <1>3, <2>1, <2>4 DEF PollLog
<1>4. CASE PollTarget(p)
  <2>1. targets' \in [Targets -> TargetRow]
    BY <1>0, <1>4, PollBusy, RecordTypes DEF PollTarget
  <2>2. poll' \in [Pollers -> PollState(logs)]
    BY <1>0, <1>4, PollBusy DEF PollTarget
  <2> QED
    BY <1>4, <2>1, <2>2 DEF PollTarget
<1>5. CASE PollerStops(p)
  BY <1>0, <1>5 DEF PollerStops
<1> QED
  BY <1>1, <1>2, <1>3, <1>4, <1>5 DEF PollStep

(* The administrator, the scraper and the clock.                           *)
LEMMA TypeRest ==
    ASSUME TypeOK, AdminStep \/ (\E id \in TaskIds : FinishTask(id)) \/ Tick
    PROVE  TypeOK'
<1> USE DEF TypeOK, tables, outside, bounds
<1>0. now \in Nat
  BY NowIsNat
<1>1. ASSUME NEW t \in Targets, AddTarget(t)
      PROVE  TypeOK'
  <2>1. \A b \in BOOLEAN : CreateTarget(targets[t], b, now) \in TargetRow
    BY <1>0, RowTypes
  <2>2. targets' \in [Targets -> TargetRow]
    BY <1>1, <2>1 DEF AddTarget, SetTarget
  <2> QED
    BY <1>1, <2>2 DEF AddTarget
<1>2. \A t \in Targets : ResetRow(targets[t], now) \in TargetRow
  BY <1>0, RowTypes
<1>3. ASSUME NEW t \in Targets, ResetTarget(t)
      PROVE  TypeOK'
  <2>1. targets' \in [Targets -> TargetRow]
    BY <1>2, <1>3 DEF ResetTarget, SetTarget
  <2> QED
    BY <1>3, <2>1 DEF ResetTarget
<1>4. CASE ResetAll
  <2>1. targets' \in [Targets -> TargetRow]
    BY <1>2, <1>4 DEF ResetAll
  <2> QED
    BY <1>4, <2>1 DEF ResetAll
<1>5. ASSUME NEW id \in TaskIds, FinishTask(id)
      PROVE  TypeOK'
  BY <1>5 DEF FinishTask
<1>6. CASE Tick
  BY <1>6, TimesAssumption DEF Tick, Times
<1> QED
  BY <1>1, <1>3, <1>4, <1>5, <1>6 DEF AdminStep

(* TypeOK is inductive.                                                    *)
LEMMA TypeStep == TypeOK /\ [Next]_vars => TypeOK'
<1> SUFFICES ASSUME TypeOK, [Next]_vars PROVE TypeOK'
  OBVIOUS
<1>1. CASE UNCHANGED vars
  BY <1>1, TypeStutter
<1>2. CASE Next
  BY <1>2, TypeDispatch, TypeCallback, TypePoll, TypeRest DEF Next
<1> QED
  BY <1>1, <1>2

(* Every reachable state is well typed: in particular no poll ever works   *)
(* on a log row that is gone, and no handler acts for a task that does not *)
(* exist.                                                                  *)
THEOREM TypeCorrect == Spec => []TypeOK
  BY TypeInit, TypeStep, PTL DEF Spec

----------------------------------------------------------------------------
(* The breaker's columns.  HealthDerivable is inductive once the rows are  *)
(* well typed: the counter is never negative, so an increment is never 0.  *)

LEMMA RowHealth ==
    ASSUME NEW row \in TargetRow, Derivable(row),
           NEW time \in Nat, NEW code \in Nat, NEW b \in BOOLEAN
    PROVE  /\ Derivable(CreateTarget(row, b, time))
           /\ Derivable(UpdateTargetNextRun(row, time))
           /\ Derivable(RecordSuccess(row, code))
           /\ Derivable(RecordFailure(row, code, time))
           /\ Derivable(ResetRow(row, time))
<1> USE DEF TargetRow, Derivable
<1>1. Derivable(CreateTarget(row, b, time))
  <2>1. CASE row.exists
    BY <2>1 DEF CreateTarget
  <2>2. CASE ~row.exists
    BY <2>2 DEF CreateTarget, NoRow
  <2> QED
    BY <2>1, <2>2
<1>2. Derivable(UpdateTargetNextRun(row, time))
  BY DEF UpdateTargetNextRun
<1>3. Derivable(RecordSuccess(row, code))
  BY DEF RecordSuccess
<1>4. Derivable(RecordFailure(row, code, time))
  <2> DEFINE r == RecordFailure(row, code, time)
  <2>1. /\ r.failures = row.failures + 1
        /\ r.status = code
        /\ r.health = IF Trips(code, row.failures + 1) THEN "DISABLED_DEAD_LINK"
                                                      ELSE "DEGRADED"
    BY DEF RecordFailure
  <2>2. r.failures # 0
    BY <2>1
  <2> QED
    BY <2>1, <2>2
<1>5. Derivable(ResetRow(row, time))
  BY DEF ResetRow
<1> QED
  BY <1>1, <1>2, <1>3, <1>4, <1>5

(* A single-row update to a derivable row keeps the table derivable.       *)
LEMMA SetTargetHealth ==
    ASSUME TypeOK, HealthDerivable, NEW t \in Targets, NEW row, Derivable(row),
           SetTarget(t, row)
    PROVE  HealthDerivable'
  BY DEF SetTarget, HealthDerivable, Derivable, TypeOK

LEMMA RecordHealth ==
    ASSUME TypeOK, HealthDerivable, NEW id \in TaskIds, NEW failed \in BOOLEAN,
           NEW code \in Nat, Record(id, failed, code)
    PROVE  HealthDerivable'
<1>1. id[1] \in Targets
  BY DEF TaskIds
<1>2. /\ Derivable(RecordFailure(targets[id[1]], code, now))
      /\ Derivable(RecordSuccess(targets[id[1]], code))
  <2>1. targets[id[1]] \in TargetRow /\ Derivable(targets[id[1]]) /\ now \in Nat
    BY <1>1, NowIsNat DEF TypeOK, HealthDerivable
  <2> QED
    BY <2>1, RowHealth
<1>3. PICK row : Derivable(row) /\ SetTarget(id[1], row)
  BY <1>2 DEF Record
<1> QED
  BY <1>1, <1>3, SetTargetHealth

LEMMA DerivableInit == Init => HealthDerivable
  BY DEF Init, HealthDerivable, Derivable, CreateTarget, NoRow

LEMMA DerivableStep == TypeOK /\ HealthDerivable /\ [Next]_vars => HealthDerivable'
<1> SUFFICES ASSUME TypeOK, HealthDerivable, [Next]_vars PROVE HealthDerivable'
  OBVIOUS
<1>1. CASE UNCHANGED targets
  BY <1>1 DEF HealthDerivable, Derivable
<1>2. now \in Nat /\ \A t \in Targets : targets[t] \in TargetRow /\ Derivable(targets[t])
  BY NowIsNat DEF TypeOK, HealthDerivable
<1>3. ASSUME NEW d \in Dispatchers, AdvanceNextRun(d)
      PROVE  HealthDerivable'
  <2>1. disp[d].task[1] \in Targets
    BY <1>3, CycleBusy DEF AdvanceNextRun, TypeOK, TaskIds
  <2>2. Derivable(UpdateTargetNextRun(targets[disp[d].task[1]], now))
    BY <1>2, <2>1, RowHealth
  <2> QED
    BY <1>3, <2>1, <2>2, SetTargetHealth DEF AdvanceNextRun
<1>4. ASSUME NEW w \in Webhooks, CallbackFailTarget(w) \/ CallbackOkTarget(w)
      PROVE  HealthDerivable'
  <2>1. PICK failed \in BOOLEAN : Record(hook[w].task, failed, HttpStatus(hook[w].out))
    BY <1>4 DEF CallbackFailTarget, CallbackOkTarget
  <2>2. hook[w].pc # "idle" /\ hook[w] \in HookState
    BY <1>4 DEF CallbackFailTarget, CallbackOkTarget, TypeOK
  <2> QED
    BY <2>1, <2>2, HookBusy, RecordHealth
<1>5. ASSUME NEW p \in Pollers, PollTarget(p)
      PROVE  HealthDerivable'
  <2>1. /\ poll[p] \in PollState(logs) /\ poll[p].pc = "target"
        /\ Record(poll[p].task, poll[p].out.status = "FAILED", poll[p].out.code)
    BY <1>5 DEF PollTarget, TypeOK
  <2> QED
    BY <2>1, PollBusy, RecordHealth
<1>6. ASSUME NEW t \in Targets, AddTarget(t)
      PROVE  HealthDerivable'
  <2>1. PICK b \in BOOLEAN : SetTarget(t, CreateTarget(targets[t], b, now))
    BY <1>6 DEF AddTarget
  <2>2. Derivable(CreateTarget(targets[t], b, now))
    BY <1>2, RowHealth
  <2> QED
    BY <2>1, <2>2, SetTargetHealth
<1>7. \A t \in Targets : Derivable(ResetRow(targets[t], now))
  BY <1>2, RowHealth
<1>8. ASSUME NEW t \in Targets, ResetTarget(t)
      PROVE  HealthDerivable'
  BY <1>7, <1>8, SetTargetHealth DEF ResetTarget
<1>9. CASE ResetAll
  <2>1. \A t \in Targets : targets'[t] = targets[t] \/ targets'[t] = ResetRow(targets[t], now)
    BY <1>9 DEF ResetAll
  <2> QED
    BY <1>2, <1>7, <2>1 DEF HealthDerivable, Derivable
<1> QED
  BY <1>1, <1>3, <1>4, <1>5, <1>6, <1>8, <1>9
  DEF Next, vars, tables, DispatchStep, CallbackStep, PollStep, AdminStep, StartCycle,
      LogDispatch, PostTask, DispatchFailed, DispatcherStops, FinishTask, Deliver,
      CallbackFailLog, CallbackOkLog, CallbackEnqueue, WebhookStops, StartPoll,
      AskStatus, PollLog, PollerStops, Tick

(* health_status, consecutive_failures and last_http_status agree in every *)
(* reachable state, whatever handlers interleave, die or lose updates.     *)
THEOREM HealthCorrect == Spec => []HealthDerivable
<1>1. Init => TypeOK /\ HealthDerivable
  BY TypeInit, DerivableInit
<1>2. (TypeOK /\ HealthDerivable) /\ [Next]_vars => (TypeOK /\ HealthDerivable)'
  BY TypeStep, DerivableStep
<1> QED
  BY <1>1, <1>2, PTL DEF Spec

----------------------------------------------------------------------------
(* What the log claims.  CompletedMeansScraped is not inductive: a handler *)
(* carries the scraper's answer for several steps before it writes it, so  *)
(* the invariant says that what is carried is still the scraper's answer,  *)
(* and that a callback on its success path carries a completion.           *)

CarriesAnswer ==
    /\ \A w \in Webhooks :
          hook[w].pc # "idle" =>
              /\ Finished(hook[w].task)
              /\ hook[w].out = scraper[hook[w].task]
              /\ hook[w].pc \in {"okTarget", "okLog", "enqueue"} =>
                    hook[w].out.status = "COMPLETED"
    /\ \A p \in Pollers :
          poll[p].pc \in {"log", "target"} =>
              /\ Finished(poll[p].task)
              /\ poll[p].out = scraper[poll[p].task]

(* The scraper never changes an answer it has given.                       *)
LEMMA AnswersStay ==
    ASSUME TypeOK, [Next]_vars
    PROVE  \A id \in TaskIds : Finished(id) => /\ scraper'[id] = scraper[id]
                                              /\ Finished(id)'
<1>1. CASE UNCHANGED scraper
  BY <1>1 DEF Finished
<1>2. ASSUME NEW d \in Dispatchers, PostTask(d)
      PROVE  \A id \in TaskIds : Finished(id) => scraper'[id] = scraper[id]
  <2>1. scraper' = scraper \/ (/\ scraper[disp[d].task] = Unknown
                              /\ scraper' = [scraper EXCEPT ![disp[d].task] = Running])
    BY <1>2 DEF PostTask
  <2> QED
    BY <2>1 DEF Finished, Unknown, TypeOK
<1>3. ASSUME NEW t \in TaskIds, FinishTask(t)
      PROVE  \A id \in TaskIds : Finished(id) => scraper'[id] = scraper[id]
  BY <1>3 DEF FinishTask, Finished, Running, Unknown, TypeOK
<1>4. \A id \in TaskIds : Finished(id) => scraper'[id] = scraper[id]
  BY <1>1, <1>2, <1>3
  DEF Next, vars, outside, DispatchStep, CallbackStep, PollStep, AdminStep, StartCycle,
      LogDispatch, DispatchFailed, AdvanceNextRun, DispatcherStops, Deliver, CallbackFailLog,
      CallbackFailTarget, CallbackOkTarget, CallbackOkLog, CallbackEnqueue, WebhookStops,
      StartPoll, AskStatus, PollLog, PollTarget, PollerStops, AddTarget, ResetTarget,
      ResetAll, Tick
<1> QED
  BY <1>4 DEF Finished

LEMMA CarryInit == Init => CarriesAnswer
  BY DEF Init, CarriesAnswer, IdleHook, IdlePoll

(* A callback that is not refused as a failure reports a completion.       *)
LEMMA SuccessIsCompletion ==
    ASSUME NEW o \in Outcomes, ~IsFailure(o)
    PROVE  o.status = "COMPLETED"
  BY CrawlerAssumption DEF IsFailure, TaskStatus

LEMMA CarryHook ==
    ASSUME TypeOK, CarriesAnswer, [Next]_vars, NEW w \in Webhooks, hook'[w].pc # "idle"
    PROVE  /\ Finished(hook[w].task)'
           /\ hook'[w].out = scraper'[hook'[w].task]
           /\ hook'[w].pc \in {"okTarget", "okLog", "enqueue"} =>
                 hook'[w].out.status = "COMPLETED"
<1>1. CASE hook'[w] = hook[w]
  <2>1. hook[w].task \in TaskIds /\ Finished(hook[w].task)
    BY <1>1, HookBusy DEF TypeOK, CarriesAnswer
  <2>2. hook'[w].task = hook[w].task /\ hook'[w].out = hook[w].out /\ hook'[w].pc = hook[w].pc
    BY <1>1
  <2>3. scraper'[hook[w].task] = scraper[hook[w].task] /\ Finished(hook[w].task)'
    BY <2>1, <2>2, AnswersStay DEF Finished
  <2> QED
    BY <1>1, <2>1, <2>2, <2>3 DEF CarriesAnswer
<1>2. ASSUME NEW id \in TaskIds, Deliver(w, id)
      PROVE  /\ hook'[w].task = id /\ hook'[w].out = scraper[id] /\ Finished(id)
             /\ scraper' = scraper
             /\ hook'[w].pc = IF IsFailure(scraper[id]) THEN "failLog" ELSE "okTarget"
  BY <1>2 DEF Deliver, TypeOK, outside
<1>3. ASSUME NEW id \in TaskIds, Deliver(w, id)
      PROVE  /\ Finished(hook[w].task)'
             /\ hook'[w].out = scraper'[hook'[w].task]
             /\ hook'[w].pc \in {"okTarget", "okLog", "enqueue"} =>
                   hook'[w].out.status = "COMPLETED"
  <2>1. scraper[id] \in Outcomes
    BY <1>2, <1>3, FinishedOutcome
  <2> QED
    BY <1>2, <1>3, <2>1, SuccessIsCompletion DEF Finished
<1>4. ASSUME CallbackStep(w)
      PROVE  /\ hook[w].pc # "idle"
             /\ hook'[w].task = hook[w].task /\ hook'[w].out = hook[w].out
             /\ scraper' = scraper
             /\ hook'[w].pc \in {"okTarget", "okLog", "enqueue"} =>
                   hook[w].pc \in {"okTarget", "okLog", "enqueue"}
  <2> USE DEF TypeOK, outside, IdleHook
  <2>1. CASE CallbackFailLog(w)
    BY <2>1 DEF CallbackFailLog
  <2>2. CASE CallbackFailTarget(w)
    BY <2>2 DEF CallbackFailTarget
  <2>3. CASE CallbackOkTarget(w)
    <3>1. hook'[w] = [hook[w] EXCEPT !.pc = "okLog"]
      BY <2>3 DEF CallbackOkTarget
    <3> QED
      BY <2>3, <3>1, HookBusy DEF CallbackOkTarget
  <2>4. CASE CallbackOkLog(w)
    BY <2>4 DEF CallbackOkLog
  <2>5. CASE CallbackEnqueue(w)
    BY <2>5 DEF CallbackEnqueue
  <2> QED
    BY <1>4, <2>1, <2>2, <2>3, <2>4, <2>5 DEF CallbackStep
<1>5. CASE CallbackStep(w)
  BY <1>4, <1>5 DEF CarriesAnswer, Finished
<1>6. ~WebhookStops(w)
  BY DEF WebhookStops, IdleHook, TypeOK
<1>7. ASSUME NEW v \in Webhooks, v # w,
             (\E id \in TaskIds : Deliver(v, id)) \/ CallbackStep(v) \/ WebhookStops(v)
      PROVE  hook'[w] = hook[w]
  BY <1>7 DEF Deliver, CallbackStep, CallbackFailLog, CallbackFailTarget, CallbackOkTarget,
              CallbackOkLog, CallbackEnqueue, WebhookStops, TypeOK
<1>8. CASE UNCHANGED hook
  BY <1>1, <1>8
<1> QED
  BY <1>1, <1>3, <1>5, <1>6, <1>7, <1>8
  DEF Next, vars, DispatchStep, PollStep, AdminStep, StartCycle, LogDispatch, PostTask,
      DispatchFailed, AdvanceNextRun, DispatcherStops, FinishTask, StartPoll, AskStatus,
      PollLog, PollTarget, PollerStops, AddTarget, ResetTarget, ResetAll, Tick

LEMMA CarryPoll ==
    ASSUME TypeOK, CarriesAnswer, [Next]_vars, NEW p \in Pollers,
           poll'[p].pc \in {"log", "target"}
    PROVE  /\ Finished(poll[p].task)'
           /\ poll'[p].out = scraper'[poll'[p].task]
<1>1. CASE poll'[p] = poll[p]
  <2>1. poll[p].task \in TaskIds /\ Finished(poll[p].task)
    BY <1>1, PollBusy DEF TypeOK, CarriesAnswer
  <2>2. scraper'[poll[p].task] = scraper[poll[p].task] /\ poll'[p].task = poll[p].task
    BY <1>1, <2>1, AnswersStay
  <2> QED
    BY <1>1, <2>1, <2>2 DEF CarriesAnswer, Finished
<1>2. CASE AskStatus(p)
  <2>1. PICK i \in poll[p].batch :
            \/ /\ Finished(logs[i].task)
               /\ poll' = [poll EXCEPT ![p] = [pc |-> "log", batch |-> poll[p].batch \ {i},
                                               task |-> logs[i].task,
                                               out |-> scraper[logs[i].task]]]
            \/ poll' = [poll EXCEPT ![p] = NextLog(poll[p].batch \ {i})]
    BY <1>2 DEF AskStatus
  <2>2. NextLog(poll[p].batch \ {i}).pc \in {"idle", "ask"}
    BY DEF NextLog, IdlePoll
  <2>3. scraper' = scraper
    BY <1>2 DEF AskStatus, outside
  <2> QED
    BY <2>1, <2>2, <2>3 DEF Finished, TypeOK
<1>3. CASE PollLog(p)
  <2>1. /\ poll[p].pc = "log" /\ scraper' = scraper
        /\ poll'[p].task = poll[p].task /\ poll'[p].out = poll[p].out
    BY <1>3 DEF PollLog, TypeOK, outside
  <2> QED
    BY <2>1 DEF CarriesAnswer, Finished
<1>4. ~StartPoll(p) /\ ~PollTarget(p) /\ ~PollerStops(p)
  <2> USE DEF TypeOK
  <2>1. \A batch : /\ [IdlePoll EXCEPT !.pc = "ask", !.batch = batch].pc = "ask"
                   /\ NextLog(batch).pc \in {"idle", "ask"}
                   /\ IdlePoll.pc = "idle"
    BY DEF IdlePoll, NextLog
  <2>2. ~StartPoll(p)
    BY <2>1 DEF StartPoll
  <2>3. ~PollTarget(p)
    BY <2>1 DEF PollTarget
  <2>4. ~PollerStops(p)
    BY <2>1 DEF PollerStops
  <2> QED
    BY <2>2, <2>3, <2>4
<1>5. ASSUME NEW q \in Pollers, q # p, PollStep(q) \/ PollerStops(q)
      PROVE  poll'[p] = poll[p]
  BY <1>5 DEF PollStep, StartPoll, AskStatus, PollLog, PollTarget, PollerStops, TypeOK
<1>6. CASE UNCHANGED poll
  BY <1>1, <1>6
<1> QED
  BY <1>1, <1>2, <1>3, <1>4, <1>5, <1>6
  DEF Next, vars, DispatchStep, CallbackStep, PollStep, AdminStep, StartCycle, LogDispatch,
      PostTask, DispatchFailed, AdvanceNextRun, DispatcherStops, FinishTask, Deliver,
      CallbackFailLog, CallbackFailTarget, CallbackOkTarget, CallbackOkLog, CallbackEnqueue,
      WebhookStops, AddTarget, ResetTarget, ResetAll, Tick

LEMMA CarryStep == TypeOK /\ CarriesAnswer /\ [Next]_vars => CarriesAnswer'
  BY CarryHook, CarryPoll DEF CarriesAnswer

(* A log row is rewritten to COMPLETED only on a completion.               *)
LEMMA CompletedWrite ==
    ASSUME TypeOK, [Next]_vars, CompletedMeansScraped, NEW id \in TaskIds,
           NEW s \in LogStatus, SetLogStatus(id, s),
           s = "COMPLETED" => scraper[id].status = "COMPLETED"
    PROVE  CompletedMeansScraped'
<1> SUFFICES ASSUME NEW i \in DOMAIN logs', logs'[i].status = "COMPLETED"
             PROVE  scraper'[logs'[i].task].status = "COMPLETED"
  BY DEF CompletedMeansScraped
<1>1. i \in DOMAIN logs /\ logs[i] \in LogRow
  BY SetLogStatusTypes DEF TypeOK
<1>2. logs'[i].task = logs[i].task /\ logs[i].task \in TaskIds
  BY <1>1 DEF SetLogStatus, UpdateLogStatus, LogRow
<1>3. \/ logs[i].status = "COMPLETED"
      \/ logs[i].task = id /\ s = "COMPLETED"
  BY <1>1 DEF SetLogStatus, UpdateLogStatus, LogRow
<1>4. scraper[logs[i].task].status = "COMPLETED"
  BY <1>1, <1>3 DEF CompletedMeansScraped
<1> QED
  BY <1>2, <1>4, AnswersStay DEF Finished

LEMMA CompletedStep ==
    TypeOK /\ CarriesAnswer /\ CompletedMeansScraped /\ [Next]_vars => CompletedMeansScraped'
<1> SUFFICES ASSUME TypeOK, CarriesAnswer, CompletedMeansScraped, [Next]_vars
             PROVE  CompletedMeansScraped'
  OBVIOUS
<1>1. CASE UNCHANGED logs
  <2>1. \A i \in DOMAIN logs : logs[i].task \in TaskIds
    <3>1. \A i \in DOMAIN logs : logs[i] \in LogRow
      BY DEF TypeOK
    <3> QED
      BY <3>1 DEF LogRow
  <2> QED
    BY <1>1, <2>1, AnswersStay DEF CompletedMeansScraped, Finished
<1>2. ASSUME NEW d \in Dispatchers, LogDispatch(d)
      PROVE  CompletedMeansScraped'
  <2>1. PICK id : logs' = CreateLog(logs, id, now) \/ logs' = logs
    BY <1>2 DEF LogDispatch
  <2>2. scraper' = scraper
    BY <1>2 DEF LogDispatch, outside
  <2>3. CASE logs' = CreateLog(logs, id, now)
    <3>1. \A i \in DOMAIN logs' :
              logs'[i].status = "COMPLETED" => i \in DOMAIN logs /\ logs'[i] = logs[i]
      BY <2>3 DEF CreateLog, TypeOK
    <3> QED
      BY <2>2, <3>1 DEF CompletedMeansScraped
  <2> QED
    BY <1>1, <2>1, <2>3
<1>3. ASSUME NEW d \in Dispatchers, DispatchFailed(d)
      PROVE  CompletedMeansScraped'
  <2>1. disp[d].task \in TaskIds /\ SetLogStatus(disp[d].task, "FAILED")
    BY <1>3, CycleBusy DEF DispatchFailed, TypeOK
  <2> QED
    BY <2>1, CompletedWrite DEF LogStatus
<1>4. ASSUME NEW w \in Webhooks, CallbackFailLog(w) \/ CallbackOkLog(w)
      PROVE  CompletedMeansScraped'
  <2>1. PICK s \in {"FAILED", "COMPLETED"} :
            SetLogStatus(hook[w].task, s) /\ (s = "COMPLETED" => hook[w].pc = "okLog")
    BY <1>4 DEF CallbackFailLog, CallbackOkLog
  <2>2. hook[w].pc # "idle" /\ hook[w].task \in TaskIds
    BY <1>4, HookBusy DEF CallbackFailLog, CallbackOkLog, TypeOK
  <2>3. s = "COMPLETED" => scraper[hook[w].task].status = "COMPLETED"
    BY <2>1, <2>2 DEF CarriesAnswer
  <2> QED
    BY <2>1, <2>2, <2>3, CompletedWrite DEF LogStatus
<1>5. ASSUME NEW p \in Pollers, PollLog(p)
      PROVE  CompletedMeansScraped'
  <2>1. /\ poll[p].pc = "log" /\ poll[p] \in PollState(logs)
        /\ SetLogStatus(poll[p].task, poll[p].out.status)
    BY <1>5 DEF PollLog, TypeOK
  <2>2. poll[p].task \in TaskIds /\ poll[p].out.status \in LogStatus
    BY <2>1, PollBusy
  <2>3. poll[p].out = scraper[poll[p].task]
    BY <2>1 DEF CarriesAnswer
  <2> QED
    BY <2>1, <2>2, <2>3, CompletedWrite
<1> QED
  BY <1>1, <1>2, <1>3, <1>4, <1>5
  DEF Next, vars, tables, DispatchStep, CallbackStep, PollStep, AdminStep, StartCycle, PostTask,
      AdvanceNextRun, DispatcherStops, FinishTask, Deliver, CallbackFailTarget,
      CallbackOkTarget, CallbackEnqueue, WebhookStops, StartPoll, AskStatus, PollTarget,
      PollerStops, AddTarget, ResetTarget, ResetAll, Tick

(* No interleaving of callbacks, polls, late dispatch errors, crashes or   *)
(* lost updates makes the log claim a completion the scraper did not       *)
(* report.                                                                 *)
THEOREM CompletedCorrect == Spec => []CompletedMeansScraped
<1> DEFINE IInv == TypeOK /\ CarriesAnswer /\ CompletedMeansScraped
<1>1. Init => IInv
  BY TypeInit, CarryInit DEF Init, CompletedMeansScraped
<1>2. IInv /\ [Next]_vars => IInv'
  BY TypeStep, CarryStep, CompletedStep
<1> QED
  BY <1>1, <1>2, PTL DEF Spec

----------------------------------------------------------------------------
(* The write-ahead of the log: a cycle that has a task id has logged it,   *)
(* unless inserts may fail.                                                *)

CyclesLogged ==
    "CreateLog" \notin Faults =>
        \A d \in Dispatchers :
            disp[d].pc \in {"post", "failed", "sent"} => Logged(disp[d].task)

(* Log rows are never removed and never change their task.                 *)
LEMMA RowsStay ==
    ASSUME TypeOK, [Next]_vars, NEW i \in DOMAIN logs
    PROVE  i \in DOMAIN logs' /\ logs'[i].task = logs[i].task
<1>1. CASE UNCHANGED logs
  BY <1>1
<1>2. ASSUME NEW t \in TaskIds, NEW s \in LogStatus, SetLogStatus(t, s)
      PROVE  i \in DOMAIN logs' /\ logs'[i].task = logs[i].task
  <2>1. logs[i] \in LogRow
    BY DEF TypeOK
  <2> QED
    BY <1>2, <2>1, SetLogStatusTypes DEF SetLogStatus, UpdateLogStatus, LogRow
<1>3. ASSUME NEW d \in Dispatchers, LogDispatch(d)
      PROVE  i \in DOMAIN logs' /\ logs'[i].task = logs[i].task
  <2>1. PICK t : logs' = CreateLog(logs, t, now) \/ logs' = logs
    BY <1>3 DEF LogDispatch
  <2>2. CASE logs' = CreateLog(logs, t, now)
    <3>1. logs' = Append(logs, [task |-> t, status |-> "DISPATCHED", at |-> now])
      BY <2>2 DEF CreateLog
    <3>2. logs \in Seq(LogRow) /\ i \in 1..Len(logs)
      BY DEF TypeOK
    <3> QED
      BY <3>1, <3>2
  <2> QED
    BY <2>1, <2>2
<1>4. ASSUME NEW d \in Dispatchers, DispatchFailed(d)
      PROVE  i \in DOMAIN logs' /\ logs'[i].task = logs[i].task
  BY <1>2, <1>4, CycleBusy DEF DispatchFailed, TypeOK, LogStatus
<1>5. ASSUME NEW w \in Webhooks, CallbackFailLog(w) \/ CallbackOkLog(w)
      PROVE  i \in DOMAIN logs' /\ logs'[i].task = logs[i].task
  BY <1>2, <1>5, HookBusy DEF CallbackFailLog, CallbackOkLog, TypeOK, LogStatus
<1>6. ASSUME NEW p \in Pollers, PollLog(p)
      PROVE  i \in DOMAIN logs' /\ logs'[i].task = logs[i].task
  BY <1>2, <1>6, PollBusy DEF PollLog, TypeOK
<1> QED
  BY <1>1, <1>3, <1>4, <1>5, <1>6
  DEF Next, vars, tables, DispatchStep, CallbackStep, PollStep, AdminStep, StartCycle, PostTask,
      AdvanceNextRun, DispatcherStops, FinishTask, Deliver, CallbackFailTarget,
      CallbackOkTarget, CallbackEnqueue, WebhookStops, StartPoll, AskStatus, PollTarget,
      PollerStops, AddTarget, ResetTarget, ResetAll, Tick

LEMMA LogsStay ==
    ASSUME TypeOK, [Next]_vars, NEW id \in TaskIds, Logged(id)
    PROVE  Logged(id)'
<1>1. PICK i \in DOMAIN logs : logs[i].task = id
  BY DEF Logged
<1>2. i \in DOMAIN logs' /\ logs'[i].task = id
  BY <1>1, RowsStay
<1> QED
  BY <1>2 DEF Logged

(* A cycle past LogDispatch keeps its task until it turns to the next one. *)
LEMMA CycleKeepsTask ==
    ASSUME TypeOK, [Next]_vars, NEW d \in Dispatchers,
           disp'[d].pc \in {"post", "failed", "sent"}, ~LogDispatch(d)
    PROVE  /\ disp[d].pc \in {"post", "failed", "sent"}
           /\ disp'[d].task = disp[d].task
<1> USE DEF TypeOK
<1>1. CASE UNCHANGED disp
  BY <1>1
<1>2. CASE PostTask(d)
  BY <1>2 DEF PostTask
<1>3. \A batch : [IdleCycle EXCEPT !.pc = "next", !.queue = batch].pc = "next"
  BY DEF IdleCycle
<1>4. ~StartCycle(d)
  BY <1>3 DEF StartCycle
<1>5. ~DispatchFailed(d) /\ ~AdvanceNextRun(d) /\ ~DispatcherStops(d)
  BY DEF DispatchFailed, AdvanceNextRun, NextTarget, DispatcherStops, IdleCycle
<1>6. ASSUME NEW e \in Dispatchers, e # d, DispatchStep(e) \/ DispatcherStops(e)
      PROVE  disp'[d] = disp[d]
  BY <1>6 DEF DispatchStep, StartCycle, LogDispatch, PostTask, DispatchFailed,
              AdvanceNextRun, NextTarget, DispatcherStops
<1> QED
  BY <1>1, <1>2, <1>4, <1>5, <1>6
  DEF Next, vars, DispatchStep, CallbackStep, PollStep, AdminStep, FinishTask, Deliver,
      CallbackFailLog, CallbackFailTarget, CallbackOkTarget, CallbackOkLog, CallbackEnqueue,
      WebhookStops, StartPoll, AskStatus, PollLog, PollTarget, PollerStops, AddTarget,
      ResetTarget, ResetAll, Tick

LEMMA LoggedStep ==
    TypeOK /\ CyclesLogged /\ AcceptedIsLogged /\ [Next]_vars
        => CyclesLogged' /\ AcceptedIsLogged'
<1> SUFFICES ASSUME TypeOK, CyclesLogged, AcceptedIsLogged, [Next]_vars,
                    "CreateLog" \notin Faults
             PROVE  /\ \A d \in Dispatchers :
                          disp'[d].pc \in {"post", "failed", "sent"} => Logged(disp[d].task)'
                    /\ \A id \in TaskIds : scraper'[id] # Unknown => Logged(id)'
  BY DEF CyclesLogged, AcceptedIsLogged
<1>1. ASSUME NEW d \in Dispatchers, disp'[d].pc \in {"post", "failed", "sent"}
      PROVE  Logged(disp[d].task)'
  <2>1. CASE LogDispatch(d)
    <3>1. PICK id : logs' = CreateLog(logs, id, now) /\ disp'[d].task = id
      BY <2>1 DEF LogDispatch, TypeOK
    <3>2. Len(logs) + 1 \in DOMAIN logs' /\ logs'[Len(logs) + 1].task = id
      BY <3>1 DEF CreateLog, TypeOK
    <3> QED
      BY <3>1, <3>2 DEF Logged
  <2>2. CASE ~LogDispatch(d)
    <3>1. /\ disp[d].pc \in {"post", "failed", "sent"}
          /\ disp'[d].task = disp[d].task
      BY <1>1, <2>2, CycleKeepsTask
    <3>2. disp[d].task \in TaskIds /\ Logged(disp[d].task)
      BY <3>1, CycleBusy DEF TypeOK, CyclesLogged
    <3>3. \E i \in DOMAIN logs' : logs'[i].task = disp[d].task
      BY <3>2, LogsStay DEF Logged
    <3> QED
      BY <3>1, <3>3 DEF Logged
  <2> QED
    BY <2>1, <2>2
<1>2. ASSUME NEW id \in TaskIds, scraper'[id] # Unknown
      PROVE  Logged(id)'
  <2>1. CASE scraper[id] # Unknown
    BY <2>1, LogsStay DEF AcceptedIsLogged
  <2>2. CASE scraper[id] = Unknown
    <3>1. PICK d \in Dispatchers : PostTask(d)
      <4>1. scraper' # scraper
        BY <1>2, <2>2
      <4>2. ASSUME NEW t \in TaskIds, FinishTask(t)
            PROVE  FALSE
        BY <1>2, <2>2, <4>2 DEF FinishTask, Running, Unknown, TypeOK
      <4> QED
        BY <4>1, <4>2
        DEF Next, vars, outside, DispatchStep, CallbackStep, PollStep, AdminStep, StartCycle,
            LogDispatch, DispatchFailed, AdvanceNextRun, DispatcherStops, Deliver,
            CallbackFailLog, CallbackFailTarget, CallbackOkTarget, CallbackOkLog,
            CallbackEnqueue, WebhookStops, StartPoll, AskStatus, PollLog, PollTarget,
            PollerStops, AddTarget, ResetTarget, ResetAll, Tick
    <3>2. disp[d].task = id /\ disp[d].pc = "post"
      BY <1>2, <2>2, <3>1 DEF PostTask, TypeOK
    <3> QED
      BY <3>2, LogsStay DEF CyclesLogged
  <2> QED
    BY <2>1, <2>2
<1> QED
  BY <1>1, <1>2

(* A task the scraper knows is in the log, so that its callback and every  *)
(* poll find the row they update.                                          *)
THEOREM LoggedCorrect == Spec => []AcceptedIsLogged
<1> DEFINE IInv == TypeOK /\ CyclesLogged /\ AcceptedIsLogged
<1>1. Init => IInv
  BY TypeInit DEF Init, CyclesLogged, AcceptedIsLogged, IdleCycle
<1>2. IInv /\ [Next]_vars => IInv'
  BY TypeStep, LoggedStep
<1> QED
  BY <1>1, <1>2, PTL DEF Spec

----------------------------------------------------------------------------
(* Each report counts once.  EachReportOnce is not inductive: a callback   *)
(* that has been received and not yet counted is owed a failure, or a job, *)
(* so the invariant counts the callbacks that are being served as well, and*)
(* the pollers that have marked a log and not yet told its target.  Against*)
(* these stand the logs marked as failed, once for each poller that will   *)
(* not count them again: all but those of its batch and the one it has in  *)
(* hand, whose index held[p] the state does not show.                      *)

Counting(t) == {w \in Webhooks : hook[w].pc \in {"failLog", "failTarget"} /\ hook[w].task[1] = t}
Serving(id) == {w \in Webhooks : hook[w].pc \in {"okTarget", "okLog", "enqueue"}
                                 /\ hook[w].task = id}
Telling(t) == {p \in Pollers : /\ poll[p].pc = "target" /\ poll[p].out.status = "FAILED"
                               /\ poll[p].task[1] = t}
MayCount(p, held) == poll[p].batch \cup (IF poll[p].pc = "log" THEN {held[p]} ELSE {})
Counted(t, held) == {x \in FailedLogs(t) \X Pollers : x[1] \notin MayCount(x[2], held)}

HooksTold ==
    /\ \A id \in TaskIds : ~Finished(id) => sent[id] = 0
    /\ \A w \in Webhooks :
          /\ hook[w].pc \in {"failLog", "failTarget"} => IsFailure(hook[w].out)
          /\ hook[w].pc \in {"okLog", "enqueue"} => hook[w].out.content # NoContent

InHand(held) ==
    \A p \in Pollers :
       poll[p].pc = "log" => /\ held[p] \in (DOMAIN logs) \ poll[p].batch
                            /\ logs[held[p]].task = poll[p].task

LogsWritten == Pollers = {} \/ "UpdateLogStatus" \notin Faults

FailuresOwed(held) ==
    \A t \in Targets :
       /\ IsFiniteSet(FailedReports(t))
       /\ LogsWritten => targets[t].failures + Cardinality(Counting(t)) + Cardinality(Telling(t))
                            <= Cardinality(FailedReports(t)) + Cardinality(Counted(t, held))

JobsOwed ==
    \A id \in TaskIds :
       /\ jobs[id] + Cardinality(Serving(id)) <= sent[id]
       /\ jobs[id] > 0 => scraper[id].content # NoContent

ReportsInv(held) ==
    /\ TypeOK /\ CarriesAnswer /\ HooksTold /\ JobsOwed
    /\ InHand(held) /\ FailuresOwed(held)

ReportsKept == \E held \in [Pollers -> Nat] : ReportsInv(held)

LEMMA HookSets ==
    \A S \in SUBSET Webhooks : IsFiniteSet(S) /\ Cardinality(S) \in Nat
  BY CrawlerAssumption, FS_Subset, FS_CardinalityType

LEMMA HookSetsGrow ==
    ASSUME NEW S \in SUBSET Webhooks, NEW w \in Webhooks
    PROVE  /\ w \notin S => Cardinality(S \cup {w}) = Cardinality(S) + 1
           /\ w \in S => Cardinality(S \ {w}) = Cardinality(S) - 1
           /\ Cardinality(S \ {w}) <= Cardinality(S)
  BY HookSets, FS_AddElement, FS_RemoveElement

LEMMA HookSetsShrink ==
    ASSUME NEW S \in SUBSET Webhooks, NEW w \in Webhooks, NEW T, T = S \/ T = S \ {w}
    PROVE  Cardinality(T) <= Cardinality(S)
<1>1. Cardinality(S) \in Nat /\ Cardinality(S \ {w}) <= Cardinality(S)
  BY HookSets, HookSetsGrow
<1> QED
  BY <1>1

LEMMA OneMore ==
    ASSUME NEW S, IsFiniteSet(S), NEW x, x \notin S, NEW T, T = S \cup {x}
    PROVE  IsFiniteSet(T) /\ Cardinality(T) = Cardinality(S) + 1
  BY FS_AddElement

LEMMA AtMostOneMore ==
    ASSUME NEW S, IsFiniteSet(S), NEW x
    PROVE  IsFiniteSet(S \cup {x}) /\ Cardinality(S \cup {x}) <= Cardinality(S) + 1
<1>1. Cardinality(S) \in Nat
  BY FS_CardinalityType
<1>2. /\ IsFiniteSet(S \cup {x})
      /\ Cardinality(S \cup {x}) = IF x \in S THEN Cardinality(S) ELSE Cardinality(S) + 1
  BY FS_AddElement
<1> QED
  BY <1>1, <1>2

LEMMA ReportsAre ==
    \A t, r : r \in FailedReports(t) <=>
                 \E id \in FailedTasks(t) : \E n \in 1..sent[id] : r = <<id, n>>
  BY DEF FailedReports

(* What was reported stays reported, while nothing is sent.                *)
LEMMA ReportsStay ==
    ASSUME TypeOK, HooksTold, [Next]_vars, sent' = sent, NEW t \in Targets
    PROVE  FailedReports(t)' = FailedReports(t)
<1>1. \A id \in TaskIds : Finished(id) => scraper'[id] = scraper[id] /\ Finished(id)'
  BY AnswersStay
<1>2. \A id \in FailedTasks(t) : id \in FailedTasks(t)'
  BY <1>1 DEF FailedTasks
<1>3. \A id \in FailedTasks(t)' : id \in FailedTasks(t) \/ sent[id] = 0
  BY <1>1 DEF FailedTasks, HooksTold
<1>4. \A r : r \in FailedReports(t)' <=>
                \E id \in FailedTasks(t)' : \E n \in 1..sent[id] : r = <<id, n>>
  BY DEF FailedReports
<1> QED
  BY <1>2, <1>3, <1>4, ReportsAre

(* The rows of a table.                                                    *)
LEMMA RowsAre ==
    ASSUME NEW rows \in Seq(LogRow)
    PROVE  /\ Len(rows) \in Nat /\ DOMAIN rows = 1..Len(rows) /\ IsFiniteSet(DOMAIN rows)
           /\ \A i \in DOMAIN rows : i \in Nat /\ rows[i] \in LogRow /\ rows[i].task \in TaskIds
<1>1. Len(rows) \in Nat /\ DOMAIN rows = 1..Len(rows)
  OBVIOUS
<1>2. ASSUME NEW i \in DOMAIN rows
      PROVE  rows[i] \in LogRow
  BY <1>1, <1>2
<1>3. IsFiniteSet(1..Len(rows))
  BY <1>1, FS_Interval
<1> QED
  BY <1>1, <1>2, <1>3 DEF LogRow

(* A log marked as failed, of a task that failed, stays so.                *)
LEMMA FailedWrite ==
    ASSUME TypeOK, [Next]_vars, NEW t \in Targets, NEW id \in TaskIds, NEW s \in LogStatus,
           SetLogStatus(id, s), s = "FAILED" \/ scraper[id].status = "COMPLETED"
    PROVE  FailedLogs(t) \subseteq FailedLogs(t)'
<1> SUFFICES ASSUME NEW i \in FailedLogs(t)
             PROVE  i \in FailedLogs(t)'
  OBVIOUS
<1>1. /\ i \in DOMAIN logs /\ logs[i] \in LogRow /\ logs[i].status = "FAILED"
      /\ logs[i].task[1] = t /\ scraper[logs[i].task].status = "FAILED"
      /\ logs[i].task \in TaskIds
  BY RowsAre DEF FailedLogs, TypeOK
<1>2. i \in DOMAIN logs' /\ logs'[i].task = logs[i].task /\ logs'[i].status = "FAILED"
  BY <1>1, SetLogStatusTypes DEF SetLogStatus, UpdateLogStatus, LogRow
<1>3. scraper'[logs[i].task].status = "FAILED"
  BY <1>1, AnswersStay DEF Finished
<1> QED
  BY <1>1, <1>2, <1>3 DEF FailedLogs

LEMMA FailedLogsStay ==
    ASSUME TypeOK, CarriesAnswer, [Next]_vars, NEW t \in Targets
    PROVE  FailedLogs(t) \subseteq FailedLogs(t)'
<1>0. \A i \in FailedLogs(t) :
          /\ i \in DOMAIN logs /\ logs[i].task \in TaskIds /\ Finished(logs[i].task)
          /\ logs[i].task[1] = t /\ logs[i].status = "FAILED"
          /\ scraper[logs[i].task].status = "FAILED"
  <2>1. \A i \in DOMAIN logs : logs[i].task \in TaskIds
    BY RowsAre DEF TypeOK
  <2> QED
    BY <2>1 DEF FailedLogs, Finished
<1>1. CASE UNCHANGED logs
  BY <1>0, <1>1, AnswersStay DEF FailedLogs
<1>2. ASSUME NEW d \in Dispatchers, LogDispatch(d)
      PROVE  FailedLogs(t) \subseteq FailedLogs(t)'
  <2>1. PICK id : logs' = CreateLog(logs, id, now) \/ logs' = logs
    BY <1>2 DEF LogDispatch
  <2>2. \A i \in DOMAIN logs : i \in DOMAIN logs' /\ logs'[i] = logs[i]
    <3>1. CASE logs' = CreateLog(logs, id, now)
      <4>1. logs' = Append(logs, [task |-> id, status |-> "DISPATCHED", at |-> now])
        BY <3>1 DEF CreateLog
      <4>2. logs \in Seq(LogRow) /\ \A i \in DOMAIN logs : i \in 1..Len(logs)
        BY DEF TypeOK
      <4> QED
        BY <4>1, <4>2
    <3> QED
      BY <2>1, <3>1
  <2>3. scraper' = scraper
    BY <1>2 DEF LogDispatch, outside
  <2> QED
    BY <1>0, <2>2, <2>3 DEF FailedLogs
<1>3. ASSUME NEW d \in Dispatchers, DispatchFailed(d)
      PROVE  FailedLogs(t) \subseteq FailedLogs(t)'
  <2>1. disp[d].task \in TaskIds /\ SetLogStatus(disp[d].task, "FAILED")
    BY <1>3, CycleBusy DEF DispatchFailed, TypeOK
  <2> QED
    BY <2>1, FailedWrite DEF LogStatus
<1>4. ASSUME NEW w \in Webhooks, CallbackFailLog(w) \/ CallbackOkLog(w)
      PROVE  FailedLogs(t) \subseteq FailedLogs(t)'
  <2>1. PICK s \in {"FAILED", "COMPLETED"} :
            SetLogStatus(hook[w].task, s) /\ (s = "COMPLETED" => hook[w].pc = "okLog")
    BY <1>4 DEF CallbackFailLog, CallbackOkLog
  <2>2. hook[w].pc # "idle" /\ hook[w].task \in TaskIds
    BY <1>4, HookBusy DEF CallbackFailLog, CallbackOkLog, TypeOK
  <2>3. s = "FAILED" \/ scraper[hook[w].task].status = "COMPLETED"
    BY <2>1, <2>2 DEF CarriesAnswer
  <2> QED
    BY <2>1, <2>2, <2>3, FailedWrite DEF LogStatus
<1>5. ASSUME NEW p \in Pollers, PollLog(p)
      PROVE  FailedLogs(t) \subseteq FailedLogs(t)'
  <2>1. /\ poll[p].pc = "log" /\ poll[p] \in PollState(logs)
        /\ SetLogStatus(poll[p].task, poll[p].out.status)
    BY <1>5 DEF PollLog, TypeOK
  <2>2. /\ poll[p].task \in TaskIds /\ poll[p].out.status \in {"FAILED", "COMPLETED"}
        /\ poll[p].out = scraper[poll[p].task]
    BY <2>1, PollBusy DEF CarriesAnswer, Finished
  <2> QED
    BY <2>1, <2>2, FailedWrite DEF LogStatus
<1> QED
  BY <1>1, <1>2, <1>3, <1>4, <1>5
  DEF Next, vars, tables, DispatchStep, CallbackStep, PollStep, AdminStep, StartCycle, PostTask,
      AdvanceNextRun, DispatcherStops, FinishTask, Deliver, CallbackFailTarget,
      CallbackOkTarget, CallbackEnqueue, WebhookStops, StartPoll, AskStatus, PollTarget,
      PollerStops, AddTarget, ResetTarget, ResetAll, Tick

(* The sets that are counted are finite.                                   *)
LEMMA PollSets ==
    ASSUME TypeOK, NEW t, NEW held
    PROVE  /\ IsFiniteSet(Counted(t, held)) /\ Cardinality(Counted(t, held)) \in Nat
           /\ IsFiniteSet(Telling(t)) /\ Cardinality(Telling(t)) \in Nat
           /\ IsFiniteSet(FailedLogs(t) \X Pollers)
           /\ Cardinality(Counted(t, held)) <= Cardinality(FailedLogs(t) \X Pollers)
           /\ Cardinality(FailedLogs(t) \X Pollers) \in Nat
<1>1. IsFiniteSet(DOMAIN logs) /\ FailedLogs(t) \subseteq DOMAIN logs
  BY RowsAre DEF TypeOK, FailedLogs
<1>2. IsFiniteSet(FailedLogs(t)) /\ IsFiniteSet(Pollers)
  BY <1>1, FS_Subset, CrawlerAssumption
<1>3. IsFiniteSet(FailedLogs(t) \X Pollers)
  BY <1>2, FS_Product
<1>4. Counted(t, held) \subseteq FailedLogs(t) \X Pollers /\ Telling(t) \subseteq Pollers
  BY DEF Counted, Telling
<1> QED
  BY <1>2, <1>3, <1>4, FS_Subset, FS_CardinalityType

(* While no poll takes a step, nothing is owed to the polls.               *)
LEMMA NoPoll ==
    ASSUME TypeOK, CarriesAnswer, [Next]_vars, UNCHANGED poll, NEW held, InHand(held),
           NEW t \in Targets
    PROVE  /\ Telling(t)' = Telling(t)
           /\ Cardinality(Counted(t, held)) <= Cardinality(Counted(t, held)')
           /\ Cardinality(Counted(t, held)') \in Nat
<1>1. Telling(t)' = Telling(t)
  BY DEF Telling
<1>2. Counted(t, held) \subseteq Counted(t, held)'
  BY FailedLogsStay DEF Counted, MayCount
<1>3. IsFiniteSet(Counted(t, held)') /\ Cardinality(Counted(t, held)') \in Nat
  <2>1. TypeOK'
    BY TypeStep
  <2>2. /\ IsFiniteSet(DOMAIN logs') /\ FailedLogs(t)' \subseteq DOMAIN logs'
    BY <2>1, RowsAre DEF TypeOK, FailedLogs
  <2>3. IsFiniteSet(FailedLogs(t)' \X Pollers)
    BY <2>2, FS_Subset, FS_Product, CrawlerAssumption
  <2>4. Counted(t, held)' \subseteq FailedLogs(t)' \X Pollers
    BY DEF Counted
  <2> QED
    BY <2>3, <2>4, FS_Subset, FS_CardinalityType
<1> QED
  BY <1>1, <1>2, <1>3, FS_Subset

(* The log in hand stays where it is.                                      *)
LEMMA StillInHand ==
    ASSUME TypeOK, [Next]_vars, UNCHANGED poll, NEW held, InHand(held)
    PROVE  InHand(held)'
<1>1. \A i \in DOMAIN logs : i \in DOMAIN logs' /\ logs'[i].task = logs[i].task
  BY RowsStay
<1> QED
  BY <1>1 DEF InHand

(* A step that serves no callback: what is said of callbacks stays.        *)
LEMMA NoCallbackHooks ==
    ASSUME TypeOK, CarriesAnswer, HooksTold, JobsOwed, [Next]_vars, UNCHANGED <<sent, jobs, hook>>
    PROVE  HooksTold' /\ JobsOwed'
<1>1. \A id \in TaskIds : Finished(id) => scraper'[id] = scraper[id] /\ Finished(id)'
  BY AnswersStay
<1>2. HooksTold'
  BY <1>1 DEF HooksTold
<1>3. JobsOwed'
  <2> SUFFICES ASSUME NEW id \in TaskIds
               PROVE  /\ jobs[id] + Cardinality(Serving(id)') <= sent[id]
                      /\ jobs[id] > 0 => scraper'[id].content # NoContent
    BY DEF JobsOwed
  <2>1. Serving(id)' = Serving(id) /\ Cardinality(Serving(id)) \in Nat
    BY HookSets DEF Serving
  <2>2. jobs[id] \in Nat /\ jobs[id] + Cardinality(Serving(id)) <= sent[id]
    BY DEF JobsOwed, TypeOK
  <2>3. jobs[id] > 0 => Finished(id)
    BY <2>1, <2>2 DEF HooksTold
  <2> QED
    BY <1>1, <2>1, <2>2, <2>3 DEF JobsOwed
<1> QED
  BY <1>2, <1>3

(* A step that serves no callback and no poll and adds no failure.         *)
LEMMA NoCallback ==
    ASSUME NEW held, ReportsInv(held), [Next]_vars, UNCHANGED <<sent, jobs, hook, poll>>,
           \A t \in Targets : targets'[t].failures <= targets[t].failures
    PROVE  HooksTold' /\ FailuresOwed(held)' /\ JobsOwed'
<1> USE DEF ReportsInv
<1>1. HooksTold' /\ JobsOwed'
  BY NoCallbackHooks
<1>2. FailuresOwed(held)'
  <2> SUFFICES ASSUME NEW t \in Targets
               PROVE  /\ IsFiniteSet(FailedReports(t)')
                      /\ LogsWritten =>
                            targets'[t].failures + Cardinality(Counting(t)')
                              + Cardinality(Telling(t)')
                            <= Cardinality(FailedReports(t)') + Cardinality(Counted(t, held)')
    BY DEF FailuresOwed, LogsWritten
  <2>1. FailedReports(t)' = FailedReports(t) /\ Counting(t)' = Counting(t)
    BY ReportsStay DEF Counting
  <2>2. IsFiniteSet(FailedReports(t)) /\ Cardinality(FailedReports(t)) \in Nat
        /\ Cardinality(Counting(t)) \in Nat
    BY FS_CardinalityType, HookSets DEF FailuresOwed, Counting
  <2>3. targets[t].failures \in Nat /\ targets'[t].failures \in Nat
    BY TypeStep DEF TypeOK, TargetRow
  <2>4. Cardinality(Telling(t)) \in Nat /\ Cardinality(Counted(t, held)) \in Nat
    BY PollSets
  <2>5. /\ Telling(t)' = Telling(t) /\ Cardinality(Counted(t, held)') \in Nat
        /\ Cardinality(Counted(t, held)) <= Cardinality(Counted(t, held)')
    BY NoPoll
  <2>6. LogsWritten =>
           targets[t].failures + Cardinality(Counting(t)) + Cardinality(Telling(t))
           <= Cardinality(FailedReports(t)) + Cardinality(Counted(t, held))
    BY DEF FailuresOwed
  <2> QED
    BY <2>1, <2>2, <2>3, <2>4, <2>5, <2>6
<1> QED
  BY <1>1, <1>2

(* A callback being served goes on, or dies.                               *)
LEMMA CallbackCounts ==
    ASSUME NEW held, ReportsInv(held), [Next]_vars, UNCHANGED <<sent, scraper, poll>>,
           NEW w \in Webhooks,
           NEW h, hook' = [hook EXCEPT ![w] = h], hook[w].pc # "idle",
           h.pc # "idle" => h.task = hook[w].task /\ h.out = hook[w].out,
           h.pc \in {"failLog", "failTarget"} => hook[w].pc \in {"failLog", "failTarget"},
           h.pc \in {"okTarget", "okLog", "enqueue"} =>
              hook[w].pc \in {"okTarget", "okLog", "enqueue"},
           h.pc \in {"okLog", "enqueue"} => hook[w].out.content # NoContent,
           \/ \A t \in Targets : targets'[t].failures <= targets[t].failures
           \/ /\ hook[w].pc = "failTarget" /\ h.pc = "idle"
              /\ \A t \in Targets : targets'[t].failures
                    <= IF t = hook[w].task[1] THEN targets[t].failures + 1
                                              ELSE targets[t].failures,
           \/ jobs' = jobs
           \/ /\ hook[w].pc = "enqueue" /\ h.pc = "idle"
              /\ jobs' = [jobs EXCEPT ![hook[w].task] = @ + 1]
    PROVE  HooksTold' /\ FailuresOwed(held)' /\ JobsOwed'
<1> USE DEF ReportsInv
<1>1. hook'[w] = h /\ \A v \in Webhooks : v # w => hook'[v] = hook[v]
  BY DEF TypeOK
<1>2. hook[w].task \in TaskIds /\ hook[w].task[1] \in Targets
  BY HookBusy DEF TypeOK, TaskIds
<1>3. HooksTold'
  <2>1. \A id \in TaskIds : ~Finished(id)' => sent'[id] = 0
    BY DEF HooksTold, Finished
  <2>2. ASSUME NEW v \in Webhooks
        PROVE  /\ hook'[v].pc \in {"failLog", "failTarget"} => IsFailure(hook'[v].out)
               /\ hook'[v].pc \in {"okLog", "enqueue"} => hook'[v].out.content # NoContent
    BY <1>1 DEF HooksTold
  <2> QED
    BY <2>1, <2>2 DEF HooksTold, IsFailure, HttpStatus
<1>4. FailuresOwed(held)'
  <2> SUFFICES ASSUME NEW t \in Targets
               PROVE  /\ IsFiniteSet(FailedReports(t)')
                      /\ LogsWritten =>
                            targets'[t].failures + Cardinality(Counting(t)')
                              + Cardinality(Telling(t)')
                            <= Cardinality(FailedReports(t)') + Cardinality(Counted(t, held)')
    BY DEF FailuresOwed, LogsWritten
  <2>8. Cardinality(Telling(t)) \in Nat /\ Cardinality(Counted(t, held)) \in Nat
    BY PollSets
  <2>9. /\ Telling(t)' = Telling(t) /\ Cardinality(Counted(t, held)') \in Nat
        /\ Cardinality(Counted(t, held)) <= Cardinality(Counted(t, held)')
    BY NoPoll
  <2>10. LogsWritten =>
           targets[t].failures + Cardinality(Counting(t)) + Cardinality(Telling(t))
           <= Cardinality(FailedReports(t)) + Cardinality(Counted(t, held))
    BY DEF FailuresOwed
  <2>1. FailedReports(t)' = FailedReports(t)
    BY ReportsStay
  <2>2. IsFiniteSet(FailedReports(t)) /\ Cardinality(FailedReports(t)) \in Nat
        /\ Cardinality(Counting(t)) \in Nat /\ Cardinality(Counting(t)') \in Nat
        /\ Counting(t) \in SUBSET Webhooks
    BY FS_CardinalityType, HookSets DEF FailuresOwed, Counting
  <2>3. targets[t].failures \in Nat /\ targets'[t].failures \in Nat
    BY TypeStep DEF TypeOK, TargetRow
  <2>4. Counting(t)' = Counting(t) \/ Counting(t)' = Counting(t) \ {w}
    BY <1>1 DEF Counting
  <2>5. Cardinality(Counting(t)') <= Cardinality(Counting(t))
    BY <2>2, <2>4, HookSetsShrink
  <2>6. CASE targets'[t].failures <= targets[t].failures
    BY <2>1, <2>2, <2>3, <2>5, <2>6, <2>8, <2>9, <2>10
  <2>7. CASE ~(targets'[t].failures <= targets[t].failures)
    <3>1. /\ hook[w].pc = "failTarget" /\ h.pc = "idle" /\ t = hook[w].task[1]
          /\ targets'[t].failures <= targets[t].failures + 1
      BY <2>7
    <3>2. w \in Counting(t) /\ Counting(t)' = Counting(t) \ {w}
      BY <1>1, <3>1 DEF Counting
    <3>3. Cardinality(Counting(t)') = Cardinality(Counting(t)) - 1
      BY <2>2, <3>2, HookSetsGrow
    <3> QED
      BY <2>1, <2>2, <2>3, <3>1, <3>3, <2>8, <2>9, <2>10
  <2> QED
    BY <2>6, <2>7
<1>5. JobsOwed'
  <2> SUFFICES ASSUME NEW id \in TaskIds
               PROVE  /\ jobs'[id] + Cardinality(Serving(id)') <= sent[id]
                      /\ jobs'[id] > 0 => scraper[id].content # NoContent
    BY DEF JobsOwed
  <2>1. Cardinality(Serving(id)) \in Nat /\ Cardinality(Serving(id)') \in Nat
        /\ Serving(id) \in SUBSET Webhooks
    BY HookSets DEF Serving
  <2>2. Serving(id)' = Serving(id) \/ Serving(id)' = Serving(id) \ {w}
    BY <1>1 DEF Serving
  <2>3. Cardinality(Serving(id)') <= Cardinality(Serving(id))
    BY <2>1, <2>2, HookSetsShrink
  <2>4. jobs[id] \in Nat /\ sent[id] \in Nat /\ jobs[id] + Cardinality(Serving(id)) <= sent[id]
        /\ (jobs[id] > 0 => scraper[id].content # NoContent)
    BY DEF JobsOwed, TypeOK
  <2>5. CASE jobs'[id] = jobs[id]
    BY <2>1, <2>3, <2>4, <2>5
  <2>6. CASE jobs'[id] # jobs[id]
    <3>1. /\ hook[w].pc = "enqueue" /\ h.pc = "idle" /\ id = hook[w].task
          /\ jobs'[id] = jobs[id] + 1
      BY <2>6 DEF TypeOK
    <3>2. w \in Serving(id) /\ Serving(id)' = Serving(id) \ {w}
      BY <1>1, <3>1 DEF Serving
    <3>3. Cardinality(Serving(id)') = Cardinality(Serving(id)) - 1
      BY <2>1, <3>2, HookSetsGrow
    <3>4. hook[w].out = scraper[id] /\ hook[w].out.content # NoContent
      BY <3>1 DEF CarriesAnswer, HooksTold
    <3> QED
      BY <2>1, <2>4, <3>1, <3>3, <3>4
  <2> QED
    BY <2>5, <2>6
<1> QED
  BY <1>3, <1>4, <1>5

(* A callback that begins is a report more, and is counted as served.      *)
LEMMA DeliverReports ==
    ASSUME TypeOK, HooksTold, [Next]_vars, NEW w \in Webhooks, NEW id \in TaskIds,
           Deliver(w, id), NEW t \in Targets
    PROVE  FailedReports(t)' = IF id \in FailedTasks(t)
                               THEN FailedReports(t) \cup {<<id, sent[id] + 1>>}
                               ELSE FailedReports(t)
<1>1. scraper' = scraper /\ sent' = [sent EXCEPT ![id] = @ + 1]
  BY DEF Deliver
<1>2. FailedTasks(t)' = FailedTasks(t)
  BY <1>1 DEF FailedTasks, Finished, IsFailure, HttpStatus
<1>3. \A r : r \in FailedReports(t)' <=>
                \E k \in FailedTasks(t) : \E n \in 1..sent'[k] : r = <<k, n>>
  BY <1>2 DEF FailedReports
<1>4. FailedTasks(t) \subseteq TaskIds
  BY DEF FailedTasks
<1>5. \A k \in TaskIds : k # id => sent'[k] = sent[k]
  BY <1>1 DEF TypeOK
<1>6. sent'[id] = sent[id] + 1 /\ sent[id] \in Nat
  BY <1>1 DEF TypeOK
<1>7. \A n : n \in 1..sent'[id] <=> n \in 1..sent[id] \/ n = sent[id] + 1
  BY <1>6
<1>8. CASE id \in FailedTasks(t)
  <2>1. \A r : r \in FailedReports(t)' <=> r \in FailedReports(t) \/ r = <<id, sent[id] + 1>>
    BY <1>3, <1>4, <1>5, <1>7, <1>8, ReportsAre
  <2> QED
    BY <1>8, <2>1
<1>9. CASE id \notin FailedTasks(t)
  <2>1. \A r : r \in FailedReports(t)' <=> r \in FailedReports(t)
    BY <1>3, <1>4, <1>5, <1>9, ReportsAre
  <2> QED
    BY <1>9, <2>1
<1> QED
  BY <1>8, <1>9

LEMMA DeliverCounts ==
    ASSUME NEW held, ReportsInv(held), [Next]_vars, NEW w \in Webhooks, NEW k \in TaskIds,
           Deliver(w, k)
    PROVE  HooksTold' /\ FailuresOwed(held)' /\ JobsOwed'
<1> USE DEF ReportsInv
<1> DEFINE h == [pc   |-> IF IsFailure(scraper[k]) THEN "failLog" ELSE "okTarget",
                 task |-> k, out |-> scraper[k]]
<1>1. /\ hook[w].pc = "idle" /\ Finished(k)
      /\ sent' = [sent EXCEPT ![k] = @ + 1]
      /\ hook' = [hook EXCEPT ![w] = h]
      /\ UNCHANGED <<targets, scraper, jobs, poll>>
  BY DEF Deliver, tables
<1>2. /\ hook'[w] = h /\ \A v \in Webhooks : v # w => hook'[v] = hook[v]
      /\ sent'[k] = sent[k] + 1 /\ \A i \in TaskIds : i # k => sent'[i] = sent[i]
      /\ k[1] \in Targets
  BY <1>1 DEF TypeOK, TaskIds
<1>3. /\ h.pc \in {"failLog", "okTarget"} /\ h.task = k
      /\ h.pc = "failLog" <=> IsFailure(scraper[k])
      /\ h.out = scraper[k]
  OBVIOUS
<1> HIDE DEF h
<1>4. HooksTold'
  <2>1. \A i \in TaskIds : ~Finished(i)' => sent'[i] = 0
    BY <1>1, <1>2 DEF HooksTold, Finished
  <2>2. ASSUME NEW v \in Webhooks
        PROVE  /\ hook'[v].pc \in {"failLog", "failTarget"} => IsFailure(hook'[v].out)
               /\ hook'[v].pc \in {"okLog", "enqueue"} => hook'[v].out.content # NoContent
    BY <1>2, <1>3 DEF HooksTold
  <2> QED
    BY <2>1, <2>2 DEF HooksTold, IsFailure, HttpStatus
<1>5. FailuresOwed(held)'
  <2> SUFFICES ASSUME NEW t \in Targets
               PROVE  /\ IsFiniteSet(FailedReports(t)')
                      /\ LogsWritten =>
                            targets'[t].failures + Cardinality(Counting(t)')
                              + Cardinality(Telling(t)')
                            <= Cardinality(FailedReports(t)') + Cardinality(Counted(t, held)')
    BY DEF FailuresOwed, LogsWritten
  <2>8. Cardinality(Telling(t)) \in Nat /\ Cardinality(Counted(t, held)) \in Nat
    BY PollSets
  <2>9. /\ Telling(t)' = Telling(t) /\ Cardinality(Counted(t, held)') \in Nat
        /\ Cardinality(Counted(t, held)) <= Cardinality(Counted(t, held)')
    BY <1>1, NoPoll
  <2>10. LogsWritten =>
           targets[t].failures + Cardinality(Counting(t)) + Cardinality(Telling(t))
           <= Cardinality(FailedReports(t)) + Cardinality(Counted(t, held))
    BY DEF FailuresOwed
  <2>1. /\ IsFiniteSet(FailedReports(t)) /\ Cardinality(FailedReports(t)) \in Nat
        /\ Counting(t) \in SUBSET Webhooks /\ Cardinality(Counting(t)) \in Nat
        /\ targets'[t] = targets[t] /\ targets[t].failures \in Nat
    BY <1>1, FS_CardinalityType, HookSets DEF FailuresOwed, Counting, TypeOK, TargetRow
  <2>3. w \notin Counting(t)
    BY <1>1 DEF Counting
  <2>4. CASE k \in FailedTasks(t)
    <3>1. FailedReports(t)' = FailedReports(t) \cup {<<k, sent[k] + 1>>}
      BY <2>4, DeliverReports
    <3>2. <<k, sent[k] + 1>> \notin FailedReports(t)
      <4>1. sent[k] \in Nat
        BY DEF TypeOK
      <4>2. ASSUME NEW i \in FailedTasks(t), NEW n \in 1..sent[i], <<k, sent[k] + 1>> = <<i, n>>
            PROVE  FALSE
        BY <4>1, <4>2
      <4> QED
        BY <4>2, ReportsAre
    <3>3. /\ IsFiniteSet(FailedReports(t)')
          /\ Cardinality(FailedReports(t)') = Cardinality(FailedReports(t)) + 1
      BY <2>1, <3>1, <3>2, OneMore
    <3>4. k[1] = t /\ IsFailure(scraper[k])
      BY <2>4 DEF FailedTasks
    <3>5. Counting(t)' = Counting(t) \cup {w}
      BY <1>2, <1>3, <3>4 DEF Counting
    <3>6. Cardinality(Counting(t)') = Cardinality(Counting(t)) + 1
      BY <2>1, <2>3, <3>5, HookSetsGrow
    <3> QED
      BY <2>1, <3>3, <3>6, <2>8, <2>9, <2>10
  <2>5. CASE k \notin FailedTasks(t)
    <3>1. FailedReports(t)' = FailedReports(t)
      BY <2>5, DeliverReports
    <3>2. ~(k[1] = t /\ IsFailure(scraper[k]))
      BY <1>1, <2>5 DEF FailedTasks
    <3>3. Counting(t)' = Counting(t)
      BY <1>2, <1>3, <2>3, <3>2 DEF Counting
    <3> QED
      BY <2>1, <3>1, <3>3, <2>8, <2>9, <2>10
  <2> QED
    BY <2>4, <2>5
<1>6. JobsOwed'
  <2> SUFFICES ASSUME NEW i \in TaskIds
               PROVE  /\ jobs[i] + Cardinality(Serving(i)') <= sent'[i]
                      /\ jobs[i] > 0 => scraper[i].content # NoContent
    BY <1>1 DEF JobsOwed
  <2>1. /\ Cardinality(Serving(i)) \in Nat /\ Serving(i) \in SUBSET Webhooks
        /\ jobs[i] \in Nat /\ sent[i] \in Nat
        /\ jobs[i] + Cardinality(Serving(i)) <= sent[i]
        /\ jobs[i] > 0 => scraper[i].content # NoContent
    BY HookSets DEF Serving, TypeOK, JobsOwed
  <2>2. w \notin Serving(i)
    BY <1>1 DEF Serving
  <2>3. Serving(i)' = Serving(i) \/ (i = k /\ Serving(i)' = Serving(i) \cup {w})
    BY <1>2, <1>3, <2>2 DEF Serving
  <2>4. CASE Serving(i)' = Serving(i)
    <3>1. sent[i] <= sent'[i] /\ sent'[i] \in Nat
      BY <1>2, <2>1
    <3> QED
      BY <2>1, <2>4, <3>1
  <2>5. CASE i = k /\ Serving(i)' = Serving(i) \cup {w}
    <3>1. Cardinality(Serving(i)') = Cardinality(Serving(i)) + 1
      BY <2>1, <2>2, <2>5, HookSetsGrow
    <3>2. sent'[i] = sent[i] + 1
      BY <1>2, <2>5
    <3> QED
      BY <2>1, <3>1, <3>2
  <2> QED
    BY <2>3, <2>4, <2>5
<1> QED
  BY <1>4, <1>5, <1>6

(* What recording an answer does to the counters.                          *)
LEMMA RecordCounts ==
    ASSUME TypeOK, NEW id \in TaskIds, NEW failed \in BOOLEAN, NEW code, Record(id, failed, code),
           NEW t \in Targets
    PROVE  targets'[t].failures <= IF failed /\ t = id[1] THEN targets[t].failures + 1
                                                       ELSE targets[t].failures
<1>1. targets[t] \in TargetRow /\ targets[t].failures \in Nat
  BY DEF TypeOK, TargetRow
<1>2. RecordFailure(targets[t], code, now).failures = targets[t].failures + 1
  BY <1>1 DEF RecordFailure, TargetRow
<1>3. RecordSuccess(targets[t], code).failures = 0
  BY <1>1 DEF RecordSuccess, TargetRow
<1>4. CASE targets'[t] = targets[t]
  BY <1>1, <1>4
<1>5. CASE targets'[t] # targets[t]
  <2>1. t = id[1] /\ targets'[t] = IF failed THEN RecordFailure(targets[t], code, now)
                                             ELSE RecordSuccess(targets[t], code)
    BY <1>5 DEF Record, SetTarget, TypeOK
  <2> QED
    BY <1>1, <1>2, <1>3, <2>1
<1> QED
  BY <1>4, <1>5

(* The steps of the callbacks.                                             *)
LEMMA CallbackReports ==
    ASSUME NEW held, ReportsInv(held), [Next]_vars, NEW w \in Webhooks,
           CallbackStep(w) \/ WebhookStops(w)
    PROVE  HooksTold' /\ FailuresOwed(held)' /\ JobsOwed'
<1> USE DEF ReportsInv
<1>1. /\ hook[w].pc # "idle" /\ hook[w].task \in TaskIds /\ HttpStatus(hook[w].out) \in Nat
      /\ hook[w] = [pc |-> hook[w].pc, task |-> hook[w].task, out |-> hook[w].out]
      /\ UNCHANGED <<sent, scraper, poll>>
  <2>1. hook[w].pc # "idle" /\ UNCHANGED <<sent, scraper, poll>>
    BY DEF CallbackStep, CallbackFailLog, CallbackFailTarget, CallbackOkTarget, CallbackOkLog,
           CallbackEnqueue, WebhookStops, outside
  <2> QED
    BY <2>1, HookBusy DEF TypeOK
<1>2. \A t \in Targets : targets[t].failures \in Nat
  BY DEF TypeOK, TargetRow
<1>3. \A pc : LET h == [hook[w] EXCEPT !.pc = pc]
              IN  h.pc = pc /\ h.task = hook[w].task /\ h.out = hook[w].out
  BY <1>1
<1>4. IdleHook.pc = "idle"
  BY DEF IdleHook
<1>5. CASE CallbackFailLog(w)
  <2> DEFINE h == [hook[w] EXCEPT !.pc = "failTarget"]
  <2>1. /\ hook[w].pc = "failLog" /\ hook' = [hook EXCEPT ![w] = h]
        /\ UNCHANGED <<targets, jobs>>
    BY <1>5 DEF CallbackFailLog, outside
  <2>2. h.pc = "failTarget" /\ h.task = hook[w].task /\ h.out = hook[w].out
    BY <1>3
  <2>3. \A t \in Targets : targets'[t].failures <= targets[t].failures
    BY <1>2, <2>1
  <2> HIDE DEF h
  <2> QED
    BY <1>1, <2>1, <2>2, <2>3, CallbackCounts
<1>6. CASE CallbackFailTarget(w)
  <2>1. /\ hook[w].pc = "failTarget" /\ hook' = [hook EXCEPT ![w] = IdleHook]
        /\ Record(hook[w].task, TRUE, HttpStatus(hook[w].out)) /\ jobs' = jobs
    BY <1>6 DEF CallbackFailTarget, outside
  <2>2. \A t \in Targets : targets'[t].failures
            <= IF t = hook[w].task[1] THEN targets[t].failures + 1 ELSE targets[t].failures
    BY <1>1, <2>1, RecordCounts
  <2> QED
    BY <1>1, <1>4, <2>1, <2>2, CallbackCounts
<1>7. CASE CallbackOkTarget(w)
  <2> DEFINE h == IF hook[w].out.content = NoContent THEN IdleHook
                  ELSE [hook[w] EXCEPT !.pc = "okLog"]
  <2>1. /\ hook[w].pc = "okTarget" /\ hook' = [hook EXCEPT ![w] = h]
        /\ Record(hook[w].task, FALSE, HttpStatus(hook[w].out)) /\ jobs' = jobs
    BY <1>7 DEF CallbackOkTarget, outside
  <2>2. /\ h.pc \in {"idle", "okLog"}
        /\ h.pc # "idle" => h.task = hook[w].task /\ h.out = hook[w].out
        /\ h.pc = "okLog" => hook[w].out.content # NoContent
    BY <1>3, <1>4
  <2>3. \A t \in Targets : targets'[t].failures <= targets[t].failures
    BY <1>1, <2>1, RecordCounts
  <2> HIDE DEF h
  <2> QED
    BY <1>1, <2>1, <2>2, <2>3, CallbackCounts
<1>8. CASE CallbackOkLog(w)
  <2> DEFINE h == [hook[w] EXCEPT !.pc = "enqueue"]
  <2>1. /\ hook[w].pc = "okLog" /\ hook' = [hook EXCEPT ![w] = h]
        /\ UNCHANGED <<targets, jobs>>
    BY <1>8 DEF CallbackOkLog, outside
  <2>2. h.pc = "enqueue" /\ h.task = hook[w].task /\ h.out = hook[w].out
    BY <1>3
  <2>3. \A t \in Targets : targets'[t].failures <= targets[t].failures
    BY <1>2, <2>1
  <2>4. hook[w].out.content # NoContent
    BY <2>1 DEF HooksTold
  <2> HIDE DEF h
  <2> QED
    BY <1>1, <2>1, <2>2, <2>3, <2>4, CallbackCounts
<1>9. CASE CallbackEnqueue(w)
  <2>1. /\ hook[w].pc = "enqueue" /\ hook' = [hook EXCEPT ![w] = IdleHook]
        /\ targets' = targets
        /\ jobs' = jobs \/ jobs' = [jobs EXCEPT ![hook[w].task] = @ + 1]
    BY <1>9 DEF CallbackEnqueue, tables
  <2>2. \A t \in Targets : targets'[t].failures <= targets[t].failures
    BY <1>2, <2>1
  <2> QED
    BY <1>1, <1>4, <2>1, <2>2, CallbackCounts
<1>10. CASE WebhookStops(w)
  <2>1. hook' = [hook EXCEPT ![w] = IdleHook] /\ UNCHANGED <<targets, jobs>>
    BY <1>10 DEF WebhookStops, tables, outside
  <2>2. \A t \in Targets : targets'[t].failures <= targets[t].failures
    BY <1>2, <2>1
  <2> QED
    BY <1>1, <1>4, <2>1, <2>2, CallbackCounts
<1> QED
  BY <1>5, <1>6, <1>7, <1>8, <1>9, <1>10 DEF CallbackStep

(* The steps of the polls, and the log that is then in hand.               *)
LEMMA PollBooks ==
    ASSUME NEW held, ReportsInv(held), [Next]_vars, NEW p \in Pollers, NEW more, NEW t \in Targets,
           UNCHANGED <<sent, hook>>, targets'[t].failures \in Nat,
           IsFiniteSet(Counted(t, more)'), IsFiniteSet(Telling(t)'),
           Counted(t, held) \subseteq Counted(t, more)',
           \/ /\ Telling(t)' \subseteq Telling(t)
              /\ targets'[t].failures <= targets[t].failures
           \/ /\ p \in Telling(t) /\ Telling(t)' = Telling(t) \ {p}
              /\ targets'[t].failures <= targets[t].failures + 1
           \/ /\ Telling(t)' \subseteq Telling(t) \cup {p}
              /\ targets'[t].failures <= targets[t].failures
              /\ \E x : x \notin Counted(t, held) /\ x \in Counted(t, more)'
    PROVE  /\ IsFiniteSet(FailedReports(t)')
           /\ LogsWritten =>
                targets'[t].failures + Cardinality(Counting(t)') + Cardinality(Telling(t)')
                <= Cardinality(FailedReports(t)') + Cardinality(Counted(t, more)')
<1> USE DEF ReportsInv
<1>1. FailedReports(t)' = FailedReports(t) /\ Counting(t)' = Counting(t)
  BY ReportsStay DEF Counting
<1>2. /\ IsFiniteSet(FailedReports(t)) /\ Cardinality(FailedReports(t)) \in Nat
      /\ Cardinality(Counting(t)) \in Nat /\ targets[t].failures \in Nat
  BY FS_CardinalityType, HookSets DEF FailuresOwed, Counting, TypeOK, TargetRow
<1>3. /\ IsFiniteSet(Counted(t, held)) /\ Cardinality(Counted(t, held)) \in Nat
      /\ IsFiniteSet(Telling(t)) /\ Cardinality(Telling(t)) \in Nat
  BY PollSets
<1>4. /\ Cardinality(Counted(t, more)') \in Nat /\ Cardinality(Telling(t)') \in Nat
      /\ Cardinality(Counted(t, held)) <= Cardinality(Counted(t, more)')
  BY FS_Subset, FS_CardinalityType
<1>5. LogsWritten =>
         targets[t].failures + Cardinality(Counting(t)) + Cardinality(Telling(t))
         <= Cardinality(FailedReports(t)) + Cardinality(Counted(t, held))
  BY DEF FailuresOwed
<1>6. CASE Telling(t)' \subseteq Telling(t) /\ targets'[t].failures <= targets[t].failures
  <2>1. Cardinality(Telling(t)') <= Cardinality(Telling(t))
    BY <1>3, <1>6, FS_Subset
  <2> QED
    BY <1>1, <1>2, <1>3, <1>4, <1>5, <1>6, <2>1
<1>7. CASE /\ p \in Telling(t) /\ Telling(t)' = Telling(t) \ {p}
           /\ targets'[t].failures <= targets[t].failures + 1
  <2>1. Cardinality(Telling(t)') = Cardinality(Telling(t)) - 1
    BY <1>3, <1>7, FS_RemoveElement
  <2> QED
    BY <1>1, <1>2, <1>3, <1>4, <1>5, <1>7, <2>1
<1>8. CASE /\ Telling(t)' \subseteq Telling(t) \cup {p}
           /\ targets'[t].failures <= targets[t].failures
           /\ \E x : x \notin Counted(t, held) /\ x \in Counted(t, more)'
  <2>1. PICK x : x \notin Counted(t, held) /\ x \in Counted(t, more)'
    BY <1>8
  <2>2. /\ IsFiniteSet(Counted(t, held) \cup {x})
        /\ Cardinality(Counted(t, held) \cup {x}) = Cardinality(Counted(t, held)) + 1
    BY <1>3, <2>1, OneMore
  <2>3. Counted(t, held) \cup {x} \subseteq Counted(t, more)'
    BY <2>1
  <2>4. Cardinality(Counted(t, held) \cup {x}) <= Cardinality(Counted(t, more)')
    BY <2>3, FS_Subset
  <2>5. /\ IsFiniteSet(Telling(t) \cup {p})
        /\ Cardinality(Telling(t) \cup {p}) <= Cardinality(Telling(t)) + 1
    BY <1>3, AtMostOneMore
  <2>6. /\ Cardinality(Telling(t)') <= Cardinality(Telling(t) \cup {p})
        /\ Cardinality(Telling(t) \cup {p}) \in Nat
    BY <1>8, <2>5, FS_Subset, FS_CardinalityType
  <2> QED
    BY <1>1, <1>2, <1>3, <1>4, <1>5, <1>8, <2>2, <2>4, <2>5, <2>6
<1> QED
  BY <1>1, <1>2, <1>6, <1>7, <1>8

LEMMA PollReports ==
    ASSUME NEW held \in [Pollers -> Nat], ReportsInv(held), [Next]_vars, NEW p \in Pollers,
           PollStep(p) \/ PollerStops(p)
    PROVE  \E more \in [Pollers -> Nat] : InHand(more)' /\ FailuresOwed(more)'
<1> USE DEF ReportsInv
<1>0. UNCHANGED <<sent, jobs, hook, scraper>> /\ TypeOK'
  BY TypeStep DEF PollStep, StartPoll, AskStatus, PollLog, PollTarget, PollerStops, outside
<1>1. \A t \in Targets :
         /\ targets[t].failures \in Nat /\ targets'[t].failures \in Nat
         /\ FailedLogs(t) \subseteq FailedLogs(t)'
  BY <1>0, FailedLogsStay DEF TypeOK, TargetRow
<1>2. ASSUME NEW t \in Targets, NEW more
      PROVE  IsFiniteSet(Counted(t, more)') /\ IsFiniteSet(Telling(t)')
  <2>1. /\ IsFiniteSet(DOMAIN logs') /\ FailedLogs(t)' \subseteq DOMAIN logs'
    BY <1>0, RowsAre DEF TypeOK, FailedLogs
  <2>2. IsFiniteSet(FailedLogs(t)' \X Pollers) /\ IsFiniteSet(Pollers)
    BY <2>1, FS_Subset, FS_Product, CrawlerAssumption
  <2>3. Counted(t, more)' \subseteq FailedLogs(t)' \X Pollers /\ Telling(t)' \subseteq Pollers
    BY DEF Counted, Telling
  <2> QED
    BY <2>2, <2>3, FS_Subset
<1>3. \A q \in Pollers : q # p => poll'[q] = poll[q]
  BY DEF PollStep, StartPoll, AskStatus, PollLog, PollTarget, PollerStops, TypeOK
<1>4. \A i \in DOMAIN logs : i \in DOMAIN logs' /\ logs'[i].task = logs[i].task
  BY RowsStay
<1>5. ASSUME NEW more \in [Pollers -> Nat], \A q \in Pollers : q # p => more[q] = held[q],
             poll'[p].pc = "log" => /\ more[p] \in (DOMAIN logs) \ poll'[p].batch
                                   /\ logs[more[p]].task = poll'[p].task
      PROVE  InHand(more)'
  BY <1>3, <1>4, <1>5 DEF InHand
<1>6. ASSUME NEW more, NEW t \in Targets, \A q \in Pollers : q # p => more[q] = held[q],
             \A i \in FailedLogs(t) :
                i \in poll'[p].batch \cup (IF poll'[p].pc = "log" THEN {more[p]} ELSE {})
                   => i \in MayCount(p, held)
      PROVE  Counted(t, held) \subseteq Counted(t, more)'
  <2> SUFFICES ASSUME NEW i \in FailedLogs(t), NEW q \in Pollers, i \notin MayCount(q, held)
               PROVE  i \notin MayCount(q, more)'
    BY <1>1 DEF Counted
  <2>1. CASE q = p
    BY <1>6, <2>1 DEF MayCount
  <2>2. CASE q # p
    BY <1>3, <1>6, <2>2 DEF MayCount
  <2> QED
    BY <2>1, <2>2
<1>7. ASSUME NEW t \in Targets, ~(poll'[p].pc = "target")
      PROVE  Telling(t)' \subseteq Telling(t)
  BY <1>3, <1>7 DEF Telling
<1>8. CASE StartPoll(p)
  <2>1. PICK batch : /\ batch \subseteq Pending(logs, now)
                     /\ poll' = [poll EXCEPT ![p] = [IdlePoll EXCEPT !.pc = "ask",
                                                                    !.batch = batch]]
                     /\ UNCHANGED <<targets, logs>>
    BY <1>8 DEF StartPoll, OldestOf, tables
  <2>2. poll'[p].pc = "ask" /\ poll'[p].batch = batch
    BY <2>1 DEF IdlePoll, TypeOK
  <2>3. InHand(held)'
    BY <1>5, <2>2
  <2>4. ASSUME NEW t \in Targets
        PROVE  Counted(t, held) \subseteq Counted(t, held)'
    <3>1. \A i \in FailedLogs(t) : i \notin batch
      BY <2>1 DEF FailedLogs, Pending
    <3> QED
      BY <1>6, <2>2, <3>1
  <2>5. \A t \in Targets : targets'[t].failures <= targets[t].failures
    BY <1>1, <2>1
  <2>6. FailuresOwed(held)'
    BY <1>0, <1>1, <1>2, <1>7, <2>2, <2>4, <2>5, PollBooks DEF FailuresOwed, LogsWritten
  <2> QED
    BY <2>3, <2>6
<1>9. CASE AskStatus(p)
  <2>1. PICK i \in poll[p].batch :
            \/ poll' = [poll EXCEPT ![p] = [pc |-> "log", batch |-> poll[p].batch \ {i},
                                            task |-> logs[i].task, out |-> scraper[logs[i].task]]]
            \/ poll' = [poll EXCEPT ![p] = NextLog(poll[p].batch \ {i})]
    BY <1>9 DEF AskStatus
  <2>2. /\ poll[p].pc = "ask" /\ i \in DOMAIN logs /\ i \in Nat
        /\ UNCHANGED <<targets, logs>>
    <3>1. poll[p].pc = "ask" /\ UNCHANGED <<targets, logs>> /\ poll[p] \in PollState(logs)
      BY <1>9 DEF AskStatus, TypeOK, tables
    <3>2. i \in DOMAIN logs
      BY <3>1, PollBusy
    <3> QED
      BY <3>1, <3>2, RowsAre DEF TypeOK
  <2> DEFINE more == [held EXCEPT ![p] = i]
  <2>3. more \in [Pollers -> Nat] /\ more[p] = i /\ \A q \in Pollers : q # p => more[q] = held[q]
    BY <2>2
  <2>4. /\ poll'[p].pc \in {"log", "ask", "idle"}
        /\ poll'[p].batch \subseteq poll[p].batch \ {i}
        /\ poll'[p].pc = "log" => poll'[p].task = logs[i].task
    <3>1. /\ NextLog(poll[p].batch \ {i}).pc \in {"ask", "idle"}
          /\ NextLog(poll[p].batch \ {i}).batch \subseteq poll[p].batch \ {i}
      BY DEF NextLog, IdlePoll
    <3>2. \/ poll'[p] = [pc |-> "log", batch |-> poll[p].batch \ {i},
                         task |-> logs[i].task, out |-> scraper[logs[i].task]]
          \/ poll'[p] = NextLog(poll[p].batch \ {i})
      BY <2>1 DEF TypeOK
    <3> QED
      BY <3>1, <3>2
  <2> HIDE DEF more
  <2>5. InHand(more)'
    BY <1>5, <2>2, <2>3, <2>4
  <2>6. ASSUME NEW t \in Targets
        PROVE  Counted(t, held) \subseteq Counted(t, more)'
    BY <1>6, <2>3, <2>4 DEF MayCount
  <2>7. \A t \in Targets : targets'[t].failures <= targets[t].failures
    BY <1>1, <2>2
  <2>8. FailuresOwed(more)'
    BY <1>0, <1>1, <1>2, <1>7, <2>4, <2>6, <2>7, PollBooks DEF FailuresOwed, LogsWritten
  <2> QED
    BY <2>3, <2>5, <2>8
<1>10. CASE PollLog(p)
  <2>1. /\ poll[p].pc = "log" /\ SetLogStatus(poll[p].task, poll[p].out.status)
        /\ poll' = [poll EXCEPT ![p].pc = "target"] /\ targets' = targets
    BY <1>10 DEF PollLog
  <2>2. /\ poll'[p].pc = "target" /\ poll'[p].batch = poll[p].batch
        /\ poll'[p].out = poll[p].out /\ poll'[p].task = poll[p].task
        /\ poll[p].task \in TaskIds /\ poll[p].out = scraper[poll[p].task]
        /\ held[p] \in (DOMAIN logs) \ poll[p].batch /\ logs[held[p]].task = poll[p].task
    <3>1. poll[p] \in PollState(logs) /\ poll'[p] = [poll[p] EXCEPT !.pc = "target"]
      BY <2>1 DEF TypeOK
    <3>2. /\ poll[p] = [pc |-> poll[p].pc, batch |-> poll[p].batch, task |-> poll[p].task,
                        out |-> poll[p].out]
          /\ poll[p].task \in TaskIds
      BY <2>1, <3>1, PollBusy
    <3>3. /\ poll[p].out = scraper[poll[p].task]
          /\ held[p] \in (DOMAIN logs) \ poll[p].batch /\ logs[held[p]].task = poll[p].task
      BY <2>1 DEF CarriesAnswer, InHand
    <3> QED
      BY <3>1, <3>2, <3>3
  <2>3. InHand(held)'
    BY <1>5, <2>2
  <2>4. ASSUME NEW t \in Targets
        PROVE  Counted(t, held) \subseteq Counted(t, held)'
    BY <1>6, <2>2 DEF MayCount
  <2>5. \A t \in Targets : targets'[t].failures <= targets[t].failures
    BY <1>1, <2>1
  <2>6. ASSUME NEW t \in Targets, LogsWritten
        PROVE  \/ Telling(t)' \subseteq Telling(t)
               \/ /\ Telling(t)' \subseteq Telling(t) \cup {p}
                  /\ \E x : x \notin Counted(t, held) /\ x \in Counted(t, held)'
    <3>1. Telling(t)' \subseteq Telling(t) \cup {p}
      BY <1>3 DEF Telling
    <3>2. CASE poll[p].out.status = "FAILED" /\ poll[p].task[1] = t
      <4>1. logs' = UpdateLogStatus(logs, poll[p].task, "FAILED", now)
        BY <2>1, <2>6, <3>2 DEF SetLogStatus, LogsWritten
      <4>2. held[p] \in DOMAIN logs' /\ logs'[held[p]].status = "FAILED"
            /\ logs'[held[p]].task = poll[p].task
        <5>1. logs[held[p]] \in LogRow
          BY <2>2 DEF TypeOK
        <5> QED
          BY <2>2, <4>1, <5>1 DEF UpdateLogStatus, LogRow
      <4>3. held[p] \in FailedLogs(t)'
        BY <1>0, <2>2, <3>2, <4>2 DEF FailedLogs
      <4>4. held[p] \notin MayCount(p, held)'
        BY <2>2 DEF MayCount
      <4>5. <<held[p], p>> \in Counted(t, held)'
        BY <4>3, <4>4 DEF Counted
      <4>6. <<held[p], p>> \notin Counted(t, held)
        BY <2>1 DEF Counted, MayCount
      <4> QED
        BY <3>1, <4>5, <4>6
    <3>3. CASE ~(poll[p].out.status = "FAILED" /\ poll[p].task[1] = t)
      BY <1>3, <2>2, <3>3 DEF Telling
    <3> QED
      BY <3>2, <3>3
  <2>7. FailuresOwed(held)'
    <3>1. CASE LogsWritten
      BY <1>0, <1>1, <1>2, <2>4, <2>5, <2>6, <3>1, PollBooks DEF FailuresOwed, LogsWritten
    <3>2. CASE ~LogsWritten
      BY <1>0, <3>2, ReportsStay DEF FailuresOwed, LogsWritten
    <3> QED
      BY <3>1, <3>2
  <2> QED
    BY <2>3, <2>7
<1>11. CASE PollTarget(p)
  <2>1. /\ poll[p].pc = "target" /\ logs' = logs
        /\ Record(poll[p].task, poll[p].out.status = "FAILED", poll[p].out.code)
        /\ poll' = [poll EXCEPT ![p] = NextLog(@.batch)]
    BY <1>11 DEF PollTarget
  <2>2. /\ poll'[p].pc \in {"ask", "idle"} /\ poll'[p].batch \subseteq poll[p].batch
        /\ poll[p].task \in TaskIds
    BY <2>1, PollBusy DEF TypeOK, NextLog, IdlePoll
  <2>3. InHand(held)'
    BY <1>5, <2>2
  <2>4. ASSUME NEW t \in Targets
        PROVE  Counted(t, held) \subseteq Counted(t, held)'
    BY <1>6, <2>2 DEF MayCount
  <2>5. ASSUME NEW t \in Targets
        PROVE  targets'[t].failures <= IF poll[p].out.status = "FAILED" /\ t = poll[p].task[1]
                                       THEN targets[t].failures + 1 ELSE targets[t].failures
    BY <2>1, <2>2, RecordCounts
  <2>6. ASSUME NEW t \in Targets
        PROVE  \/ /\ Telling(t)' \subseteq Telling(t)
                  /\ targets'[t].failures <= targets[t].failures
               \/ /\ p \in Telling(t) /\ Telling(t)' = Telling(t) \ {p}
                  /\ targets'[t].failures <= targets[t].failures + 1
    <3>1. CASE poll[p].out.status = "FAILED" /\ t = poll[p].task[1]
      <4>1. p \in Telling(t)
        BY <2>1, <3>1 DEF Telling
      <4>2. Telling(t)' = Telling(t) \ {p}
        BY <1>3, <2>2 DEF Telling
      <4> QED
        BY <2>5, <3>1, <4>1, <4>2
    <3>2. CASE ~(poll[p].out.status = "FAILED" /\ t = poll[p].task[1])
      BY <1>7, <2>2, <2>5, <3>2
    <3> QED
      BY <3>1, <3>2
  <2>7. FailuresOwed(held)'
    BY <1>0, <1>1, <1>2, <2>4, <2>6, PollBooks DEF FailuresOwed, LogsWritten
  <2> QED
    BY <2>3, <2>7
<1>12. CASE PollerStops(p)
  <2>1. poll' = [poll EXCEPT ![p] = IdlePoll] /\ targets' = targets
    BY <1>12 DEF PollerStops, tables
  <2>2. poll'[p].pc = "idle" /\ poll'[p].batch = {}
    BY <2>1 DEF IdlePoll, TypeOK
  <2>3. InHand(held)'
    BY <1>5, <2>2
  <2>4. ASSUME NEW t \in Targets
        PROVE  Counted(t, held) \subseteq Counted(t, held)'
    BY <1>6, <2>2
  <2>5. \A t \in Targets : targets'[t].failures <= targets[t].failures
    BY <1>1, <2>1
  <2>6. FailuresOwed(held)'
    BY <1>0, <1>1, <1>2, <1>7, <2>2, <2>4, <2>5, PollBooks DEF FailuresOwed, LogsWritten
  <2> QED
    BY <2>3, <2>6
<1> QED
  BY <1>8, <1>9, <1>10, <1>11, <1>12 DEF PollStep

LEMMA ReportsInit == Init => ReportsKept
<1> SUFFICES ASSUME Init PROVE ReportsInv([p \in Pollers |-> 0])
  BY DEF ReportsKept
<1> DEFINE held == [p \in Pollers |-> 0]
<1>1. TypeOK /\ CarriesAnswer
  BY TypeInit, CarryInit
<1>2. /\ \A id \in TaskIds : sent[id] = 0 /\ jobs[id] = 0
      /\ \A w \in Webhooks : hook[w].pc = "idle"
      /\ \A t \in Targets : targets[t].failures = 0
  BY DEF Init, IdleHook, CreateTarget, NoRow
<1>3. HooksTold
  BY <1>2 DEF HooksTold
<1>4. Cardinality({}) = 0 /\ IsFiniteSet({})
  BY FS_EmptySet
<1>7. \A p \in Pollers : poll[p].pc = "idle"
  BY DEF Init, IdlePoll
<1>8. InHand(held)
  BY <1>7 DEF InHand
<1> HIDE DEF held
<1>5. FailuresOwed(held)
  <2>1. \A t \in Targets : Counting(t) = {} /\ Telling(t) = {} /\ Counted(t, held) = {}
    <3>1. logs = << >>
      BY DEF Init
    <3> QED
      BY <1>2, <1>7, <3>1 DEF Counting, Telling, Counted, FailedLogs
  <2>2. \A t \in Targets : FailedReports(t) = {}
    BY <1>2, ReportsAre DEF FailedTasks
  <2> QED
    BY <1>2, <1>4, <2>1, <2>2 DEF FailuresOwed
<1>6. JobsOwed
  <2>1. \A id \in TaskIds : Serving(id) = {}
    BY <1>2 DEF Serving
  <2> QED
    BY <1>2, <1>4, <2>1 DEF JobsOwed
<1> QED
  BY <1>1, <1>3, <1>5, <1>6, <1>8 DEF ReportsInv, held

LEMMA ReportsStep == ReportsKept /\ [Next]_vars => ReportsKept'
<1> SUFFICES ASSUME NEW held \in [Pollers -> Nat], ReportsInv(held), [Next]_vars
             PROVE  \E more \in [Pollers -> Nat] : ReportsInv(more)'
  BY DEF ReportsKept
<1> USE DEF ReportsInv
<1>1. TypeOK' /\ CarriesAnswer'
  BY TypeStep, CarryStep
<1>0. UNCHANGED poll => InHand(held)'
  BY StillInHand
<1>2. \A t \in Targets : targets[t] \in TargetRow /\ targets[t].failures \in Nat
  BY DEF TypeOK, TargetRow
<1>3. CASE \E w \in Webhooks : \/ \E id \in TaskIds : Deliver(w, id)
                               \/ CallbackStep(w) \/ WebhookStops(w)
  <2>1. UNCHANGED poll
    BY <1>3 DEF Deliver, CallbackStep, CallbackFailLog, CallbackFailTarget, CallbackOkTarget,
                CallbackOkLog, CallbackEnqueue, WebhookStops
  <2> QED
    BY <1>0, <1>1, <1>3, <2>1, DeliverCounts, CallbackReports
<1>4. CASE \E d \in Dispatchers : AdvanceNextRun(d)
  <2>1. PICK d \in Dispatchers : AdvanceNextRun(d)
    BY <1>4
  <2>2. \A t \in Targets : UpdateTargetNextRun(targets[t], now).failures = targets[t].failures
    BY <1>2 DEF UpdateTargetNextRun, TargetRow
  <2>3. ASSUME NEW t \in Targets
        PROVE  targets'[t].failures <= targets[t].failures
    <3>1. targets'[t] = targets[t] \/ targets'[t] = UpdateTargetNextRun(targets[t], now)
      BY <2>1 DEF AdvanceNextRun, SetTarget, TypeOK
    <3> QED
      BY <1>2, <2>2, <3>1
  <2>4. UNCHANGED <<sent, jobs, hook, poll>>
    BY <2>1 DEF AdvanceNextRun, outside
  <2> QED
    BY <1>0, <1>1, <2>3, <2>4, NoCallback
<1>5. CASE \E p \in Pollers : PollStep(p) \/ PollerStops(p)
  <2>1. PICK p \in Pollers : PollStep(p) \/ PollerStops(p)
    BY <1>5
  <2>2. UNCHANGED <<sent, jobs, hook>>
    BY <2>1 DEF PollStep, StartPoll, AskStatus, PollLog, PollTarget, PollerStops, outside
  <2>3. HooksTold' /\ JobsOwed'
    BY <2>2, NoCallbackHooks
  <2> QED
    BY <1>1, <2>1, <2>3, PollReports
<1>6. CASE AdminStep
  <2>1. UNCHANGED <<sent, jobs, hook, poll>>
    BY <1>6 DEF AdminStep, AddTarget, ResetTarget, ResetAll, outside
  <2>2. ASSUME NEW t \in Targets
        PROVE  /\ ResetRow(targets[t], now).failures = 0
               /\ \A b \in BOOLEAN : CreateTarget(targets[t], b, now).failures
                                        \in {0, targets[t].failures}
    BY <1>2 DEF ResetRow, CreateTarget, NoRow, TargetRow
  <2>3. ASSUME NEW t \in Targets
        PROVE  targets'[t].failures \in {0, targets[t].failures}
    <3>1. \/ targets'[t] = targets[t]
          \/ targets'[t] = ResetRow(targets[t], now)
          \/ \E b \in BOOLEAN : targets'[t] = CreateTarget(targets[t], b, now)
      <4>1. ASSUME NEW u \in Targets, AddTarget(u)
            PROVE  \/ targets'[t] = targets[t]
                   \/ \E b \in BOOLEAN : targets'[t] = CreateTarget(targets[t], b, now)
        BY <4>1 DEF AddTarget, SetTarget, TypeOK
      <4>2. ASSUME NEW u \in Targets, ResetTarget(u)
            PROVE  targets'[t] = targets[t] \/ targets'[t] = ResetRow(targets[t], now)
        BY <4>2 DEF ResetTarget, SetTarget, TypeOK
      <4>3. ASSUME ResetAll
            PROVE  targets'[t] = targets[t] \/ targets'[t] = ResetRow(targets[t], now)
        BY <4>3 DEF ResetAll
      <4> QED
        BY <1>6, <4>1, <4>2, <4>3 DEF AdminStep
    <3> QED
      BY <2>2, <3>1
  <2>4. \A t \in Targets : targets'[t].failures <= targets[t].failures
    BY <1>2, <2>3
  <2> QED
    BY <1>0, <1>1, <2>1, <2>4, NoCallback
<1>7. CASE UNCHANGED <<targets, sent, jobs, hook, poll>>
  BY <1>0, <1>1, <1>2, <1>7, NoCallback
<1> QED
  BY <1>3, <1>4, <1>5, <1>6, <1>7
  DEF Next, vars, tables, outside, DispatchStep, StartCycle, LogDispatch, PostTask,
      DispatchFailed, DispatcherStops, FinishTask, Tick

LEMMA ReportsEnough == ReportsKept => EachReportOnce
<1> SUFFICES ASSUME NEW held, ReportsInv(held) PROVE EachReportOnce
  BY DEF ReportsKept
<1> USE DEF ReportsInv
<1>1. ASSUME NEW t \in Targets, LogsWritten
      PROVE  targets[t].failures <= Cardinality(FailedReports(t))
                                      + Cardinality(FailedLogs(t) \X Pollers)
  <2>1. /\ targets[t].failures \in Nat /\ Cardinality(Counting(t)) \in Nat
        /\ Cardinality(FailedReports(t)) \in Nat
    BY HookSets, FS_CardinalityType DEF TypeOK, TargetRow, Counting, FailuresOwed
  <2>2. targets[t].failures + Cardinality(Counting(t)) + Cardinality(Telling(t))
        <= Cardinality(FailedReports(t)) + Cardinality(Counted(t, held))
    BY <1>1 DEF FailuresOwed
  <2>3. /\ Cardinality(Counted(t, held)) \in Nat /\ Cardinality(Telling(t)) \in Nat
        /\ Cardinality(Counted(t, held)) <= Cardinality(FailedLogs(t) \X Pollers)
        /\ Cardinality(FailedLogs(t) \X Pollers) \in Nat
    BY PollSets
  <2> QED
    BY <2>1, <2>2, <2>3
<1>2. ASSUME NEW id \in TaskIds
      PROVE  jobs[id] <= sent[id] /\ (jobs[id] > 0 => scraper[id].content # NoContent)
  <2>1. jobs[id] \in Nat /\ sent[id] \in Nat /\ Cardinality(Serving(id)) \in Nat
    BY HookSets DEF TypeOK, Serving
  <2>2. /\ jobs[id] + Cardinality(Serving(id)) <= sent[id]
        /\ jobs[id] > 0 => scraper[id].content # NoContent
    BY DEF JobsOwed
  <2> QED
    BY <2>1, <2>2
<1> QED
  BY <1>1, <1>2 DEF EachReportOnce, LogsWritten

(* However callbacks of several tasks, their repetitions, polls, lost      *)
(* updates and crashed handlers interleave, a failed callback is counted at*)
(* most once, a failed log at most once by each poller, and a task gets at *)
(* most one extraction job per callback with content.                      *)
THEOREM ReportsCorrect == Spec => []EachReportOnce
<1>1. Init => ReportsKept
  BY ReportsInit
<1>2. ReportsKept /\ [Next]_vars => ReportsKept'
  BY ReportsStep
<1>3. ReportsKept => EachReportOnce
  BY ReportsEnough
<1> QED
  BY <1>1, <1>2, <1>3, PTL DEF Spec
=============================================================================
