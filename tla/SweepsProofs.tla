---------------------------- MODULE SweepsProofs ----------------------------
(***************************************************************************)
(* The sweeps of the background workers: the invariants of the URL health  *)
(* check beside the crawl pipeline, and of the sweeps over the links of    *)
(* companies, for every number of targets, companies, handlers and sweeps  *)
(* that overlap.                                                           *)
(***************************************************************************)
EXTENDS CrawlerHealth, Profiles, CrawlerProofs

----------------------------------------------------------------------------
(* CrawlerHealth: every verdict of the verifier and every bound.           *)

(* What a sweep writes is a row, whatever count it read at its start.      *)
LEMMA CheckedRowTypes ==
    ASSUME NEW row \in TargetRow, NEW n \in Nat, NEW v \in Verdicts, NEW time \in Nat
    PROVE  /\ CheckedRow(row, n, v, time) \in TargetRow
           /\ MarksAgree(CheckedRow(row, n, v, time))
<1> DEFINE throttled == v.health = "DEGRADED" /\ v.status = Throttled
           failed    == CASE v.health = "HEALTHY" -> 0
                          [] throttled            -> n
                          [] OTHER                -> n + 1
<1>1. /\ v.health \in {"HEALTHY", "DEGRADED", "DISABLED_DEAD_LINK"}
      /\ v.status \in Nat
  BY HealthCheckAssumption DEF VerifierResults, NoAnswer
<1>2. failed \in Nat
  <2>1. CASE v.health = "HEALTHY"
    BY <2>1
  <2>2. CASE v.health # "HEALTHY" /\ throttled
    BY <2>2
  <2>3. CASE v.health # "HEALTHY" /\ ~throttled
    BY <2>3
  <2> QED
    BY <2>1, <2>2, <2>3
<1>3. /\ v.health = "HEALTHY" => failed = 0
      /\ v.health = "DISABLED_DEAD_LINK" => failed > 0
  OBVIOUS
<1> HIDE DEF failed
<1>4. BackoffWindow(failed) \in Nat
  BY <1>2, TimesAssumption DEF BackoffWindow
<1> DEFINE health == IF v.health = "DISABLED_DEAD_LINK" THEN "DEAD" ELSE v.health
           active == \/ v.health = "HEALTHY" \/ throttled
                     \/ v.health = "DEGRADED" /\ failed < CheckFailures
           next   == IF v.status = Throttled THEN time + BackoffWindow(failed)
                                             ELSE row.nextRun
<1>5. health \in {"HEALTHY", "DEGRADED", "DEAD"} /\ active \in BOOLEAN /\ next \in Nat
  BY <1>1, <1>4 DEF TargetRow
<1>6. /\ health = "HEALTHY" => failed = 0
      /\ health = "DEAD" => failed > 0
  BY <1>1, <1>3
<1>7. CheckedRow(row, n, v, time)
        = [row EXCEPT !.health = health, !.status = v.status, !.failures = failed,
                      !.active = active, !.nextRun = next]
  BY DEF CheckedRow, failed
<1> HIDE DEF health, active, next
<1>8. CheckedRow(row, n, v, time)
        = [exists |-> row.exists, active |-> active, health |-> health,
           failures |-> failed, status |-> v.status, nextRun |-> next]
  BY <1>7 DEF TargetRow
<1> QED
  BY <1>1, <1>2, <1>5, <1>6, <1>8 DEF TargetRow, Healths, MarksAgree

----------------------------------------------------------------------------
(* Type correctness.                                                       *)

LEMMA HealthTypeInit == HealthInit => HealthTypeOK
<1> SUFFICES ASSUME HealthInit PROVE HealthTypeOK
  OBVIOUS
<1>1. TypeOK
  BY TypeInit DEF HealthInit
<1>2. << >> \in Reads
  <2>1. << >> \in [{} -> Nat] /\ {} \in SUBSET Targets
    OBVIOUS
  <2> QED
    BY <2>1 DEF Reads
<1>3. scraped \in [Targets -> Times \cup {Never}] /\ check \in [Checkers -> Reads]
  BY <1>2 DEF HealthInit
<1> QED
  BY <1>1, <1>3 DEF HealthTypeOK

(* A step of a sweep leaves the pipeline's own state alone.                *)
LEMMA CheckKeepsTypes ==
    ASSUME TypeOK, targets' \in [Targets -> TargetRow], crashes' \in Nat,
           UNCHANGED <<now, logs, outside, disp, hook, poll, resets>>
    PROVE  TypeOK'
  BY DEF TypeOK, outside

LEMMA StartCheckTypes ==
    ASSUME HealthTypeOK, NEW h \in Checkers, StartCheck(h)
    PROVE  HealthTypeOK'
<1>1. TypeOK'
  BY TypeStutter DEF HealthTypeOK, StartCheck
<1>2. PICK B \in Sweeps : check' = [check EXCEPT ![h] = [t \in B |-> targets[t].failures]]
  BY DEF StartCheck
<1>3. B \in SUBSET Targets
  BY <1>2 DEF Sweeps, Eligible
<1>4. \A t \in B : targets[t].failures \in Nat
  BY <1>3 DEF HealthTypeOK, TypeOK, TargetRow
<1>5. [t \in B |-> targets[t].failures] \in Reads
  BY <1>3, <1>4 DEF Reads
<1>6. check' \in [Checkers -> Reads]
  BY <1>2, <1>5 DEF HealthTypeOK
<1> QED
  BY <1>1, <1>6 DEF HealthTypeOK, StartCheck

(* What a sweep still holds after it wrote a row.                          *)
LEMMA ReadsShrink ==
    ASSUME NEW f \in Reads, NEW t
    PROVE  /\ [u \in DOMAIN f \ {t} |-> f[u]] \in Reads
           /\ t \in DOMAIN f => t \in Targets /\ f[t] \in Nat
<1>1. PICK B \in SUBSET Targets : f \in [B -> Nat]
  BY DEF Reads
<1>2. [u \in DOMAIN f \ {t} |-> f[u]] \in [B \ {t} -> Nat]
  BY <1>1
<1>3. B \ {t} \in SUBSET Targets
  BY <1>1
<1> QED
  BY <1>1, <1>2, <1>3 DEF Reads

LEMMA VerifyTypes ==
    ASSUME HealthTypeOK, NEW h \in Checkers, NEW t \in Targets, Verify(h, t)
    PROVE  HealthTypeOK'
<1>1. /\ check[h] \in Reads /\ targets[t] \in TargetRow /\ now \in Nat
  BY NowIsNat DEF HealthTypeOK, TypeOK
<1>2. check[h][t] \in Nat
  BY <1>1, ReadsShrink DEF Verify
<1>3. PICK v \in Verdicts : SetTarget(t, CheckedRow(targets[t], check[h][t], v, now))
  BY DEF Verify
<1>4. CheckedRow(targets[t], check[h][t], v, now) \in TargetRow
  BY <1>1, <1>2, CheckedRowTypes
<1>5. targets' \in [Targets -> TargetRow]
  BY <1>3, <1>4 DEF SetTarget, HealthTypeOK, TypeOK
<1>6. TypeOK'
  BY <1>5, CheckKeepsTypes DEF HealthTypeOK, TypeOK, Verify, bounds
<1>7. check' = [check EXCEPT ![h] = [u \in DOMAIN check[h] \ {t} |-> check[h][u]]]
  BY DEF Verify
<1>8. check' \in [Checkers -> Reads]
  BY <1>1, <1>7, ReadsShrink DEF HealthTypeOK
<1> QED
  BY <1>6, <1>8 DEF HealthTypeOK, Verify

LEMMA CheckStopsTypes ==
    ASSUME HealthTypeOK, NEW h \in Checkers, CheckStops(h)
    PROVE  HealthTypeOK'
<1>1. TypeOK'
  BY CheckKeepsTypes DEF HealthTypeOK, TypeOK, CheckStops, tables
<1>2. << >> \in Reads
  <2>1. << >> \in [{} -> Nat] /\ {} \in SUBSET Targets
    OBVIOUS
  <2> QED
    BY <2>1 DEF Reads
<1>3. check' \in [Checkers -> Reads]
  BY <1>2 DEF HealthTypeOK, CheckStops
<1> QED
  BY <1>1, <1>3 DEF HealthTypeOK, CheckStops

LEMMA HealthTypeStep == HealthTypeOK /\ [HealthNext]_allVars => HealthTypeOK'
<1> SUFFICES ASSUME HealthTypeOK, [HealthNext]_allVars PROVE HealthTypeOK'
  OBVIOUS
<1>1. CASE UNCHANGED allVars
  BY <1>1, TypeStutter DEF HealthTypeOK, allVars
<1>2. CASE CrawlStep
  <2>1. TypeOK'
    BY <1>2, TypeStep DEF HealthTypeOK, CrawlStep
  <2>2. scraped' \in [Targets -> Times \cup {Never}]
    BY <1>2 DEF HealthTypeOK, TypeOK, CrawlStep
  <2> QED
    BY <1>2, <2>1, <2>2 DEF HealthTypeOK, CrawlStep
<1> QED
  BY <1>1, <1>2, StartCheckTypes, VerifyTypes, CheckStopsTypes
  DEF HealthNext, CheckStep

(* Every reachable state is well typed: a sweep only holds targets that    *)
(* exist as rows, each with the count it read.                             *)
THEOREM HealthTypeCorrect == HealthSpec => []HealthTypeOK
  BY HealthTypeInit, HealthTypeStep, PTL DEF HealthSpec

----------------------------------------------------------------------------
(* The marks of the two writers.                                           *)

(* Each statement of the crawl pipeline keeps a row's marks in agreement.  *)
LEMMA RowMarks ==
    ASSUME NEW row \in TargetRow, MarksAgree(row),
           NEW time \in Nat, NEW code \in Nat, NEW b \in BOOLEAN
    PROVE  /\ MarksAgree(CreateTarget(row, b, time))
           /\ MarksAgree(UpdateTargetNextRun(row, time))
           /\ MarksAgree(RecordSuccess(row, code))
           /\ MarksAgree(RecordFailure(row, code, time))
           /\ MarksAgree(ResetRow(row, time))
<1> USE DEF TargetRow, MarksAgree
<1>1. MarksAgree(CreateTarget(row, b, time))
  <2>1. CASE row.exists
    BY <2>1 DEF CreateTarget
  <2>2. CASE ~row.exists
    BY <2>2 DEF CreateTarget, NoRow
  <2> QED
    BY <2>1, <2>2
<1>2. MarksAgree(UpdateTargetNextRun(row, time))
  BY DEF UpdateTargetNextRun
<1>3. MarksAgree(RecordSuccess(row, code))
  BY DEF RecordSuccess
<1>4. MarksAgree(RecordFailure(row, code, time))
  <2> DEFINE r == RecordFailure(row, code, time)
  <2>1. /\ r.failures = row.failures + 1
        /\ r.status = code
        /\ r.health = IF Trips(code, row.failures + 1) THEN "DISABLED_DEAD_LINK"
                                                      ELSE "DEGRADED"
    BY DEF RecordFailure
  <2> QED
    BY <2>1
<1>5. MarksAgree(ResetRow(row, time))
  BY DEF ResetRow
<1> QED
  BY <1>1, <1>2, <1>3, <1>4, <1>5

(* A single-row update to an agreeing row keeps the table in agreement.    *)
LEMMA SetTargetMarks ==
    ASSUME TypeOK, BreakerColumnsAgree, NEW t \in Targets, NEW row, MarksAgree(row),
           SetTarget(t, row)
    PROVE  BreakerColumnsAgree'
  BY DEF SetTarget, BreakerColumnsAgree, MarksAgree, TypeOK

LEMMA RecordMarks ==
    ASSUME TypeOK, BreakerColumnsAgree, NEW id \in TaskIds, NEW failed \in BOOLEAN,
           NEW code \in Nat, Record(id, failed, code)
    PROVE  BreakerColumnsAgree'
<1>1. id[1] \in Targets
  BY DEF TaskIds
<1>2. targets[id[1]] \in TargetRow /\ MarksAgree(targets[id[1]]) /\ now \in Nat
  BY <1>1, NowIsNat DEF TypeOK, BreakerColumnsAgree
<1>3. /\ MarksAgree(RecordFailure(targets[id[1]], code, now))
      /\ MarksAgree(RecordSuccess(targets[id[1]], code))
  BY <1>2, RowMarks
<1>4. PICK row : MarksAgree(row) /\ SetTarget(id[1], row)
  BY <1>3 DEF Record
<1> QED
  BY <1>1, <1>4, SetTargetMarks

(* A step of the crawl pipeline.                                           *)
LEMMA CrawlMarks == TypeOK /\ BreakerColumnsAgree /\ Next => BreakerColumnsAgree'
<1> SUFFICES ASSUME TypeOK, BreakerColumnsAgree, Next PROVE BreakerColumnsAgree'
  OBVIOUS
<1>1. CASE UNCHANGED targets
  BY <1>1 DEF BreakerColumnsAgree, MarksAgree
<1>2. now \in Nat /\ \A t \in Targets : targets[t] \in TargetRow /\ MarksAgree(targets[t])
  BY NowIsNat DEF TypeOK, BreakerColumnsAgree
<1>3. ASSUME NEW d \in Dispatchers, AdvanceNextRun(d)
      PROVE  BreakerColumnsAgree'
  <2>1. disp[d].task[1] \in Targets
    BY <1>3, CycleBusy DEF AdvanceNextRun, TypeOK, TaskIds
  <2>2. MarksAgree(UpdateTargetNextRun(targets[disp[d].task[1]], now))
    BY <1>2, <2>1, RowMarks
  <2> QED
    BY <1>3, <2>1, <2>2, SetTargetMarks DEF AdvanceNextRun
<1>4. ASSUME NEW w \in Webhooks, CallbackFailTarget(w) \/ CallbackOkTarget(w)
      PROVE  BreakerColumnsAgree'
  <2>1. PICK failed \in BOOLEAN : Record(hook[w].task, failed, HttpStatus(hook[w].out))
    BY <1>4 DEF CallbackFailTarget, CallbackOkTarget
  <2>2. hook[w].pc # "idle" /\ hook[w] \in HookState
    BY <1>4 DEF CallbackFailTarget, CallbackOkTarget, TypeOK
  <2> QED
    BY <2>1, <2>2, HookBusy, RecordMarks
<1>5. ASSUME NEW p \in Pollers, PollTarget(p)
      PROVE  BreakerColumnsAgree'
  <2>1. /\ poll[p] \in PollState(logs) /\ poll[p].pc = "target"
        /\ Record(poll[p].task, poll[p].out.status = "FAILED", poll[p].out.code)
    BY <1>5 DEF PollTarget, TypeOK
  <2> QED
    BY <2>1, PollBusy, RecordMarks
<1>6. ASSUME NEW t \in Targets, AddTarget(t)
      PROVE  BreakerColumnsAgree'
  <2>1. PICK b \in BOOLEAN : SetTarget(t, CreateTarget(targets[t], b, now))
    BY <1>6 DEF AddTarget
  <2>2. MarksAgree(CreateTarget(targets[t], b, now))
    BY <1>2, RowMarks
  <2> QED
    BY <2>1, <2>2, SetTargetMarks
<1>7. \A t \in Targets : MarksAgree(ResetRow(targets[t], now))
  BY <1>2, RowMarks
<1>8. ASSUME NEW t \in Targets, ResetTarget(t)
      PROVE  BreakerColumnsAgree'
  BY <1>7, <1>8, SetTargetMarks DEF ResetTarget
<1>9. CASE ResetAll
  <2>1. \A t \in Targets : targets'[t] = targets[t] \/ targets'[t] = ResetRow(targets[t], now)
    BY <1>9 DEF ResetAll
  <2> QED
    BY <1>2, <1>7, <2>1 DEF BreakerColumnsAgree, MarksAgree
<1> QED
  BY <1>1, <1>3, <1>4, <1>5, <1>6, <1>8, <1>9
  DEF Next, tables, DispatchStep, CallbackStep, PollStep, AdminStep, StartCycle,
      LogDispatch, PostTask, DispatchFailed, DispatcherStops, FinishTask, Deliver,
      CallbackFailLog, CallbackOkLog, CallbackEnqueue, WebhookStops, StartPoll,
      AskStatus, PollLog, PollerStops, Tick

(* A sweep that writes from a count it read long ago.                      *)
LEMMA VerifyMarks ==
    ASSUME HealthTypeOK, BreakerColumnsAgree, NEW h \in Checkers, NEW t \in Targets,
           Verify(h, t)
    PROVE  BreakerColumnsAgree'
<1>1. TypeOK /\ check[h] \in Reads /\ targets[t] \in TargetRow /\ now \in Nat
  BY NowIsNat DEF HealthTypeOK, TypeOK
<1>2. check[h][t] \in Nat
  BY <1>1, ReadsShrink DEF Verify
<1>3. PICK v \in Verdicts : SetTarget(t, CheckedRow(targets[t], check[h][t], v, now))
  BY DEF Verify
<1>4. MarksAgree(CheckedRow(targets[t], check[h][t], v, now))
  BY <1>1, <1>2, CheckedRowTypes
<1> QED
  BY <1>1, <1>3, <1>4, SetTargetMarks

LEMMA MarksInit == HealthInit => BreakerColumnsAgree
  BY DEF HealthInit, Init, BreakerColumnsAgree, MarksAgree, CreateTarget, NoRow

LEMMA MarksStep ==
    HealthTypeOK /\ BreakerColumnsAgree /\ [HealthNext]_allVars => BreakerColumnsAgree'
<1> SUFFICES ASSUME HealthTypeOK, BreakerColumnsAgree, [HealthNext]_allVars
             PROVE  BreakerColumnsAgree'
  OBVIOUS
<1>1. CASE UNCHANGED targets
  BY <1>1 DEF BreakerColumnsAgree, MarksAgree
<1>2. CASE CrawlStep
  BY <1>2, CrawlMarks DEF CrawlStep, HealthTypeOK
<1> QED
  BY <1>1, <1>2, VerifyMarks
  DEF HealthNext, CheckStep, StartCheck, CheckStops, allVars, vars, tables

(* The breaker and the sweep keep different rules on the same columns and  *)
(* interleave freely, and sweeps write counts they read long ago; still no *)
(* row's mark contradicts its count.                                       *)
THEOREM BreakerColumnsCorrect == HealthSpec => []BreakerColumnsAgree
<1>1. HealthInit => HealthTypeOK /\ BreakerColumnsAgree
  BY HealthTypeInit, MarksInit
<1>2. (HealthTypeOK /\ BreakerColumnsAgree) /\ [HealthNext]_allVars
        => (HealthTypeOK /\ BreakerColumnsAgree)'
  BY HealthTypeStep, MarksStep
<1> QED
  BY <1>1, <1>2, PTL DEF HealthSpec

----------------------------------------------------------------------------
(* A target that is off stays off.                                         *)

(* No statement of a cycle, a callback or a poll switches a target on.     *)
LEMMA RowStaysOff ==
    ASSUME NEW row \in TargetRow, NEW time \in Nat, NEW code \in Nat
    PROVE  /\ UpdateTargetNextRun(row, time).active = row.active
           /\ RecordSuccess(row, code).active = row.active
           /\ RecordFailure(row, code, time).active => row.active
  BY DEF TargetRow, UpdateTargetNextRun, RecordSuccess, RecordFailure

LEMMA SetTargetOff ==
    ASSUME TypeOK, NEW t \in Targets, NEW u, NEW row, SetTarget(u, row),
           row.active => targets[u].active
    PROVE  targets'[t].active => targets[t].active
  BY DEF SetTarget, TypeOK

LEMMA RecordOff ==
    ASSUME TypeOK, NEW t \in Targets, NEW id \in TaskIds, NEW failed \in BOOLEAN,
           NEW code \in Nat, Record(id, failed, code)
    PROVE  targets'[t].active => targets[t].active
<1>1. id[1] \in Targets
  BY DEF TaskIds
<1>2. targets[id[1]] \in TargetRow /\ now \in Nat
  BY <1>1, NowIsNat DEF TypeOK
<1>3. /\ RecordFailure(targets[id[1]], code, now).active => targets[id[1]].active
      /\ RecordSuccess(targets[id[1]], code).active => targets[id[1]].active
  BY <1>2, RowStaysOff
<1>4. PICK row : SetTarget(id[1], row) /\ (row.active => targets[id[1]].active)
  BY <1>3 DEF Record
<1> QED
  BY <1>4, SetTargetOff

LEMMA CrawlStaysOff ==
    ASSUME TypeOK, Next, NEW t \in Targets, ~(AddTarget(t) \/ ResetTarget(t) \/ ResetAll)
    PROVE  targets'[t].active => targets[t].active
<1>1. CASE UNCHANGED targets
  BY <1>1
<1>2. ASSUME NEW d \in Dispatchers, AdvanceNextRun(d)
      PROVE  targets'[t].active => targets[t].active
  <2>1. disp[d].task[1] \in Targets
    BY <1>2, CycleBusy DEF AdvanceNextRun, TypeOK, TaskIds
  <2>2. UpdateTargetNextRun(targets[disp[d].task[1]], now).active
           = targets[disp[d].task[1]].active
    BY <2>1, RowStaysOff, NowIsNat DEF TypeOK
  <2> QED
    BY <1>2, <2>2, SetTargetOff DEF AdvanceNextRun
<1>3. ASSUME NEW w \in Webhooks, CallbackFailTarget(w) \/ CallbackOkTarget(w)
      PROVE  targets'[t].active => targets[t].active
  <2>1. PICK failed \in BOOLEAN : Record(hook[w].task, failed, HttpStatus(hook[w].out))
    BY <1>3 DEF CallbackFailTarget, CallbackOkTarget
  <2>2. hook[w].pc # "idle" /\ hook[w] \in HookState
    BY <1>3 DEF CallbackFailTarget, CallbackOkTarget, TypeOK
  <2> QED
    BY <2>1, <2>2, HookBusy, RecordOff
<1>4. ASSUME NEW p \in Pollers, PollTarget(p)
      PROVE  targets'[t].active => targets[t].active
  <2>1. /\ poll[p] \in PollState(logs) /\ poll[p].pc = "target"
        /\ Record(poll[p].task, poll[p].out.status = "FAILED", poll[p].out.code)
    BY <1>4 DEF PollTarget, TypeOK
  <2> QED
    BY <2>1, PollBusy, RecordOff
<1>5. ASSUME NEW u \in Targets, AddTarget(u) \/ ResetTarget(u)
      PROVE  targets'[t].active => targets[t].active
  <2>1. u # t
    BY <1>5
  <2>2. PICK row : SetTarget(u, row)
    BY <1>5 DEF AddTarget, ResetTarget
  <2> QED
    BY <2>1, <2>2 DEF SetTarget, TypeOK
<1> QED
  BY <1>1, <1>2, <1>3, <1>4, <1>5
  DEF Next, tables, DispatchStep, CallbackStep, PollStep, AdminStep, StartCycle,
      LogDispatch, PostTask, DispatchFailed, DispatcherStops, FinishTask, Deliver,
      CallbackFailLog, CallbackOkLog, CallbackEnqueue, WebhookStops, StartPoll,
      AskStatus, PollLog, PollerStops, Tick

LEMMA StartCheckOff ==
    ASSUME HealthTypeOK, NEW t \in Targets, Off(t), NEW h \in Checkers, StartCheck(h)
    PROVE  Off(t)'
<1>1. PICK B \in Sweeps : check' = [check EXCEPT ![h] = [u \in B |-> targets[u].failures]]
  BY DEF StartCheck
<1>2. t \notin B
  BY <1>1 DEF Sweeps, Eligible, Off
<1>3. \A g \in Checkers : t \notin DOMAIN check'[g]
  BY <1>1, <1>2 DEF Off, HealthTypeOK
<1> QED
  BY <1>3 DEF Off, StartCheck, vars

LEMMA VerifyOff ==
    ASSUME HealthTypeOK, NEW t \in Targets, Off(t), NEW h \in Checkers, NEW u \in Targets,
           Verify(h, u)
    PROVE  Off(t)'
<1>1. u # t
  BY DEF Verify, Off
<1>2. PICK row : SetTarget(u, row)
  BY DEF Verify
<1>3. targets'[t].active = targets[t].active
  BY <1>1, <1>2 DEF SetTarget, HealthTypeOK, TypeOK
<1>4. check' = [check EXCEPT ![h] = [v \in DOMAIN check[h] \ {u} |-> check[h][v]]]
  BY DEF Verify
<1>5. \A g \in Checkers : t \notin DOMAIN check'[g]
  BY <1>4 DEF Off, HealthTypeOK
<1> QED
  BY <1>3, <1>5 DEF Off

LEMMA CheckStopsOff ==
    ASSUME HealthTypeOK, NEW t \in Targets, Off(t), NEW h \in Checkers, CheckStops(h)
    PROVE  Off(t)'
<1>1. check' = [check EXCEPT ![h] = << >>] /\ UNCHANGED targets
  BY DEF CheckStops, tables
<1>2. \A g \in Checkers : t \notin DOMAIN check'[g]
  BY <1>1 DEF Off, HealthTypeOK
<1> QED
  BY <1>1, <1>2 DEF Off

LEMMA OffStep ==
    ASSUME HealthTypeOK, [HealthNext]_allVars, NEW t \in Targets, Off(t),
           ~(AddTarget(t) \/ ResetTarget(t) \/ ResetAll)
    PROVE  Off(t)'
<1>1. CASE UNCHANGED allVars
  BY <1>1 DEF Off, allVars, vars
<1>2. CASE CrawlStep
  BY <1>2, CrawlStaysOff DEF CrawlStep, HealthTypeOK, Off
<1> QED
  BY <1>1, <1>2, StartCheckOff, VerifyOff, CheckStopsOff DEF HealthNext, CheckStep

(* Only an administrator switches on a target that is off and that no      *)
(* sweep has read: neither a late callback nor a poll, a cycle or a new    *)
(* sweep brings it back.                                                   *)
THEOREM OffStaysOffHolds == HealthSpec => OffStaysOff
<1>1. HealthTypeOK /\ [HealthNext]_allVars
        => [\A t \in Targets :
               Off(t) /\ ~(AddTarget(t) \/ ResetTarget(t) \/ ResetAll) => Off(t)']_allVars
  BY OffStep
<1> QED
  BY <1>1, HealthTypeCorrect, PTL DEF HealthSpec, OffStaysOff

----------------------------------------------------------------------------
(* Profiles: whatever the networks answer, whoever edits and whichever     *)
(* updates fail.                                                           *)

Kinds == {"verify", "search", "fill"}
ProfileRow == [url : Links \cup {NoLink}, status : Statuses, age : Ages]
Busy == {"ask", "save"}

----------------------------------------------------------------------------
(* A sweep that works on a batch holds each company once, with the link it *)
(* read; what it is about to save is the answer about one row of it.       *)
SoundSweep(w, n, acc) ==
    /\ w.pc # "idle" /\ w.kind = "verify" => n \in Social
    /\ w.pc \in Busy =>
          /\ \A r, q \in w.batch : r[1] = q[1] => r = q
          /\ w.kind = "verify" => \A r \in w.batch : r[2] \in Links
    /\ w.pc = "save" =>
          /\ w.row \in w.batch
          /\ w.ok => <<w.row[1], w.url>> \in acc
          /\ w.kind = "verify" => w.url = w.row[2] /\ (w.alive => w.ok)

SweepsSound == \A s \in Passes : SoundSweep(sweep[s], net, accepted)

(* A link a verification has read is still the company's, unless someone   *)
(* edited the company, two sweeps held it, or a checked link came instead. *)
ReadIsCurrent(w, prof, acc, tch) ==
    w.pc \in Busy /\ w.kind = "verify" =>
        \A r \in w.batch : \/ r[1] \in tch
                           \/ prof[r[1]].url = r[2]
                           \/ <<r[1], prof[r[1]].url>> \in acc

ReadsCurrent == \A s \in Passes : ReadIsCurrent(sweep[s], profile, accepted, touched)

ProfilesInv == ProfilesTypeOK /\ SweepsSound /\ ReadsCurrent /\ ValidIsAccepted

----------------------------------------------------------------------------
(* The states of a sweep.                                                  *)
LEMMA SweepBusy ==
    ASSUME NEW w \in SweepStates
    PROVE  /\ w.pc \in {"idle", "fetch", "ask", "save"}
           /\ w.pc = "idle" <=> w = Resting
           /\ w.pc # "idle" => w.kind \in Kinds
           /\ w.pc \in Busy => w.batch \in SUBSET Rows
           /\ w.pc = "save" => /\ w.row \in Rows /\ w.url \in Links
                               /\ w.ok \in BOOLEAN /\ w.alive \in BOOLEAN
  BY DEF SweepStates, Resting, Kinds, Busy

LEMMA FetchState ==
    ASSUME NEW kind \in Kinds PROVE [pc |-> "fetch", kind |-> kind] \in SweepStates
  BY DEF SweepStates, Kinds

LEMMA AskState ==
    ASSUME NEW kind \in Kinds, NEW batch \in SUBSET Rows
    PROVE  [pc |-> "ask", kind |-> kind, batch |-> batch] \in SweepStates
  BY DEF SweepStates, Kinds

(* A row has a company and a link.                                         *)
LEMMA RowParts ==
    ASSUME NEW r \in Rows
    PROVE  r[1] \in Companies /\ r[2] \in Links \cup {NoLink} /\ r = <<r[1], r[2]>>
  BY DEF Rows

(* What a sweep does after a row: fewer rows, of the same batch.           *)
LEMMA RestState ==
    ASSUME NEW s \in Passes, sweep[s] \in SweepStates, sweep[s].pc = "save"
    PROVE  LET w == sweep[s]
               r == Rest(s, w.row)
           IN  /\ r \in SweepStates /\ r.pc # "save"
               /\ r.pc # "idle" => r.kind = w.kind
               /\ r.pc \in Busy => r.batch = w.batch \ {w.row}
<1> DEFINE w == sweep[s]
           left == w.batch \ {w.row}
<1>1. w.kind \in Kinds /\ w.batch \in SUBSET Rows
  BY SweepBusy DEF Busy
<1>2. left \in SUBSET Rows
  BY <1>1
<1>3. CASE left # {}
  <2>1. Rest(s, w.row) = [pc |-> "ask", kind |-> w.kind, batch |-> left]
    BY <1>3 DEF Rest
  <2> QED
    BY <1>1, <1>2, <2>1, AskState DEF Busy
<1>4. CASE left = {} /\ w.kind # "fill"
  <2>1. Rest(s, w.row) = [pc |-> "fetch", kind |-> w.kind]
    BY <1>4 DEF Rest
  <2> QED
    BY <1>1, <2>1, FetchState DEF Busy
<1>5. CASE left = {} /\ w.kind = "fill"
  <2>1. Rest(s, w.row) = Resting
    BY <1>5 DEF Rest
  <2> QED
    BY <2>1 DEF Resting, Busy, SweepStates
<1> QED
  BY <1>3, <1>4, <1>5

(* What the sweeps make of a row is a row; what the edits make of it too.  *)
LEMMA ProfileRowTypes ==
    ASSUME NEW row \in ProfileRow, NEW u \in Links, NEW ok \in BOOLEAN
    PROVE  /\ Verified(row, u, ok) \in ProfileRow
           /\ Found(row, u, ok) \in ProfileRow
           /\ FilledIn(row, u, ok) \in ProfileRow
<1> USE DEF ProfileRow, Statuses, Ages
<1>1. Verified(row, u, ok) \in ProfileRow
  BY DEF Verified
<1>2. Found(row, u, ok) \in ProfileRow
  BY DEF Found
<1>3. FilledIn(row, u, ok) \in ProfileRow
  BY DEF FilledIn
<1> QED
  BY <1>1, <1>2, <1>3

LEMMA EditTypes ==
    ASSUME NEW row \in ProfileRow, NEW u \in Links \cup {NoLink}, NEW st \in Statuses
    PROVE  Overwritten(row, u, st) \in ProfileRow
  BY DEF Overwritten, ProfileRow, Statuses, Ages

(* What a step may be, the networks' workers told apart by the kind only.  *)
LEMMA Steps ==
    ASSUME ProfilesTypeOK, ProfNext
    PROVE  \/ \E s \in Passes :
                 \/ \E kind \in Kinds : Start(s, kind) /\ (kind = "verify" => net \in Social)
                 \/ Trigger(s) /\ net \in Social
                 \/ Fetch(s) \/ AskVerify(s)
                 \/ \E kind \in {"search", "fill"} : AskFound(s, kind)
                 \/ Save(s) \/ SaveFails(s) \/ Stopped(s)
           \/ \E c \in Companies : UpdateCompany(c) \/ WriteChecked(c) \/ HoursPass(c)
<1>1. \A s \in Passes : ScheduleVerification(s) \/ ScheduleSearch(s) \/ ScheduleFilling(s)
        => \E kind \in Kinds : Start(s, kind) /\ (kind = "verify" => net \in Social)
  BY DEF ScheduleVerification, ScheduleSearch, ScheduleFilling, Kinds
<1>2. \A s \in Passes : TriggerLinkedIn(s) \/ TriggerInstagram(s) \/ TriggerFacebook(s)
                          \/ TriggerYoutube(s) => Trigger(s) /\ net \in Social
  BY DEF TriggerLinkedIn, TriggerInstagram, TriggerFacebook, TriggerYoutube, Social
<1>3. \A s \in Passes : Work(s) => Step(s)
  BY DEF Work, StepOf, LinkedInCheck, InstagramCheck, FacebookCheck, YoutubeCheck,
         LinkedInDiscovery, InstagramDiscovery, EnrichMissingWebsites, ContactDiscovery
<1>4. \A s \in Passes : Step(s) => \/ Fetch(s) \/ AskVerify(s) \/ Save(s)
                                   \/ \E kind \in {"search", "fill"} : AskFound(s, kind)
  BY DEF Step, SearchLinkedIn, SearchInstagram, LookUpWebsite, ScrapeContact
<1>5. \A c \in Companies : CreateCompany(c) \/ DiscoveredWebsite(c) => WriteChecked(c)
  BY DEF CreateCompany, DiscoveredWebsite
<1> QED
  BY <1>1, <1>2, <1>3, <1>4, <1>5 DEF ProfNext
----------------------------------------------------------------------------
(* The invariant, action by action.                                        *)

LEMMA SoundGrows ==
    ASSUME NEW w, NEW n, NEW acc, NEW more, acc \subseteq more, SoundSweep(w, n, acc)
    PROVE  SoundSweep(w, n, more)
  BY DEF SoundSweep

(* Unless the new link of a company is checked, or the company is touched, *)
(* what a verification has read stays current only if no link moves.       *)
StaysCurrent(c) ==
    \/ c \in touched'
    \/ profile'[c].url = profile[c].url
    \/ <<c, profile'[c].url>> \in accepted'

LEMMA CurrentStays ==
    ASSUME NEW w, ReadIsCurrent(w, profile, accepted, touched),
           accepted \subseteq accepted', touched \subseteq touched',
           w.pc \in Busy => \A r \in w.batch : StaysCurrent(r[1])
    PROVE  ReadIsCurrent(w, profile', accepted', touched')
  BY DEF ReadIsCurrent, StaysCurrent

(* One sweep moves.                                                        *)
LEMMA SweepMoves ==
    ASSUME ProfilesInv, NEW s \in Passes, NEW w,
           sweep' = [sweep EXCEPT ![s] = w], net' = net,
           accepted \subseteq accepted', touched \subseteq touched',
           SoundSweep(w, net, accepted'),
           ReadIsCurrent(w, profile', accepted', touched'),
           \A t \in Passes \ {s} :
              sweep[t].pc \in Busy => \A r \in sweep[t].batch : StaysCurrent(r[1])
    PROVE  SweepsSound' /\ ReadsCurrent'
<1>1. sweep'[s] = w /\ \A t \in Passes \ {s} : sweep'[t] = sweep[t]
  BY DEF ProfilesInv, ProfilesTypeOK
<1>2. \A t \in Passes \ {s} :
          /\ SoundSweep(sweep[t], net, accepted')
          /\ ReadIsCurrent(sweep[t], profile', accepted', touched')
  BY SoundGrows, CurrentStays DEF ProfilesInv, SweepsSound, ReadsCurrent
<1> QED
  BY <1>1, <1>2 DEF SweepsSound, ReadsCurrent

(* No sweep moves.                                                         *)
LEMMA EditMoves ==
    ASSUME ProfilesInv, UNCHANGED <<net, sweep>>,
           accepted \subseteq accepted', touched \subseteq touched',
           \A c \in Companies : StaysCurrent(c)
    PROVE  SweepsSound' /\ ReadsCurrent'
<1>1. \A t \in Passes : sweep[t].pc \in Busy => \A r \in sweep[t].batch : r[1] \in Companies
  BY SweepBusy, RowParts DEF ProfilesInv, ProfilesTypeOK
<1>2. \A t \in Passes :
          /\ SoundSweep(sweep[t], net, accepted')
          /\ ReadIsCurrent(sweep[t], profile', accepted', touched')
  BY <1>1, SoundGrows, CurrentStays DEF ProfilesInv, SweepsSound, ReadsCurrent
<1> QED
  BY <1>2 DEF SweepsSound, ReadsCurrent

(* A pass begins or ends, and no row changes its link.                     *)
LEMMA PassMoves ==
    ASSUME ProfilesInv, NEW s \in Passes, NEW w \in SweepStates, w.pc \notin Busy,
           w.pc # "idle" /\ w.kind = "verify" => net \in Social,
           sweep' = [sweep EXCEPT ![s] = w], UNCHANGED <<net, accepted, touched>>,
           \A c \in Companies : profile'[c].url = profile[c].url
    PROVE  SweepsSound' /\ ReadsCurrent'
<1>1. SoundSweep(w, net, accepted') /\ ReadIsCurrent(w, profile', accepted', touched')
  BY DEF SoundSweep, ReadIsCurrent, Busy
<1>2. \A t \in Passes \ {s} :
          sweep[t].pc \in Busy => \A r \in sweep[t].batch : StaysCurrent(r[1])
  BY SweepBusy, RowParts DEF ProfilesInv, ProfilesTypeOK, StaysCurrent
<1> QED
  BY <1>1, <1>2, SweepMoves

LEMMA StartInv ==
    ASSUME ProfilesInv, NEW s \in Passes, NEW kind \in Kinds, Start(s, kind),
           kind = "verify" => net \in Social
    PROVE  ProfilesInv'
<1> DEFINE w == [pc |-> "fetch", kind |-> kind]
<1>1. w \in SweepStates /\ w.pc \notin Busy /\ (w.kind = "verify" => net \in Social)
  BY FetchState DEF Busy
<1>2. sweep' = [sweep EXCEPT ![s] = w]
  BY DEF Start
<1> HIDE DEF w
<1>3. SweepsSound' /\ ReadsCurrent'
  BY <1>1, <1>2, PassMoves DEF Start
<1>4. ProfilesTypeOK' /\ ValidIsAccepted'
  BY <1>1, <1>2 DEF ProfilesInv, ProfilesTypeOK, ValidIsAccepted, Start
<1> QED
  BY <1>3, <1>4 DEF ProfilesInv

LEMMA StopInv ==
    ASSUME ProfilesInv, NEW s \in Passes, Stopped(s)
    PROVE  ProfilesInv'
<1>1. Resting \in SweepStates /\ Resting.pc \notin Busy /\ Resting.pc = "idle"
  BY DEF Busy, Resting, SweepStates
<1>2. SweepsSound' /\ ReadsCurrent'
  BY <1>1, PassMoves DEF Stopped
<1>3. ProfilesTypeOK' /\ ValidIsAccepted'
  BY <1>1, ProfilesAssumption DEF ProfilesInv, ProfilesTypeOK, ValidIsAccepted, Stopped
<1> QED
  BY <1>2, <1>3 DEF ProfilesInv

LEMMA TriggerInv ==
    ASSUME ProfilesInv, NEW s \in Passes, Trigger(s), net \in Social
    PROVE  ProfilesInv'
<1> DEFINE w == [pc |-> "fetch", kind |-> "verify"]
<1>1. w \in SweepStates /\ w.pc \notin Busy /\ (w.kind = "verify" => net \in Social)
  BY FetchState DEF Busy, Kinds
<1>2. sweep' = [sweep EXCEPT ![s] = w]
  BY DEF Trigger
<1> HIDE DEF w
<1>3. \A c \in Companies : profile[c] \in ProfileRow
  BY DEF ProfilesInv, ProfilesTypeOK, ProfileRow
<1>4. \A c \in Companies :
          /\ profile'[c] \in ProfileRow
          /\ profile'[c].url = profile[c].url
          /\ profile'[c].status = "VALID" => profile[c].status = "VALID"
  <2> SUFFICES ASSUME NEW c \in Companies
               PROVE  /\ profile'[c] \in ProfileRow
                      /\ profile'[c].url = profile[c].url
                      /\ profile'[c].status = "VALID" => profile[c].status = "VALID"
    OBVIOUS
  <2>1. CASE profile[c].url = NoLink
    BY <1>3, <2>1 DEF Trigger
  <2>2. CASE profile[c].url # NoLink
    <3>1. profile'[c] = [profile[c] EXCEPT !.age = "never", !.status = "UNVERIFIED"]
      BY <2>2 DEF Trigger
    <3>2. profile'[c] = [url |-> profile[c].url, status |-> "UNVERIFIED", age |-> "never"]
      BY <1>3, <3>1 DEF ProfileRow
    <3> QED
      BY <1>3, <3>2 DEF ProfileRow, Statuses, Ages
  <2> QED
    BY <2>1, <2>2
<1>5. profile' \in [Companies -> ProfileRow]
  BY <1>4 DEF Trigger
<1>6. SweepsSound' /\ ReadsCurrent'
  BY <1>1, <1>2, <1>4, PassMoves DEF Trigger
<1>7. UNCHANGED <<net, accepted, touched>> /\ events < MaxEvents /\ events' = events + 1
  BY DEF Trigger
<1>8. ProfilesTypeOK'
  BY <1>1, <1>2, <1>5, <1>7, ProfilesAssumption DEF ProfilesInv, ProfilesTypeOK, ProfileRow
<1>9. ValidIsAccepted'
  BY <1>4, <1>7 DEF ProfilesInv, ValidIsAccepted
<1> QED
  BY <1>6, <1>8, <1>9 DEF ProfilesInv

(* A batch holds the links as they are now.                                *)
LEMMA FetchInv ==
    ASSUME ProfilesInv, NEW s \in Passes, Fetch(s)
    PROVE  ProfilesInv'
<1> DEFINE kind == sweep[s].kind
<1>1. /\ sweep[s] \in SweepStates /\ sweep[s].pc = "fetch" /\ kind \in Kinds
      /\ kind = "verify" => net \in Social
  BY SweepBusy DEF Fetch, ProfilesInv, ProfilesTypeOK, SweepsSound, SoundSweep
<1>2. UNCHANGED <<net, profile, accepted, touched, events>>
  BY DEF Fetch
<1>3. \A c \in Companies : profile[c].url \in Links \cup {NoLink}
  BY DEF ProfilesInv, ProfilesTypeOK
<1>4. ValidIsAccepted'
  BY <1>2 DEF ProfilesInv, ValidIsAccepted
<1>5. ASSUME NEW w \in SweepStates, sweep' = [sweep EXCEPT ![s] = w]
      PROVE  ProfilesTypeOK'
  BY <1>2, <1>5 DEF ProfilesInv, ProfilesTypeOK
<1>6. CASE Wanted(kind) = {}
  <2>1. sweep' = [sweep EXCEPT ![s] = Resting]
    BY <1>6 DEF Fetch
  <2>2. Resting \in SweepStates /\ Resting.pc \notin Busy /\ Resting.pc = "idle"
    BY DEF Busy, Resting, SweepStates
  <2>3. SweepsSound' /\ ReadsCurrent'
    BY <1>2, <2>1, <2>2, PassMoves
  <2> QED
    BY <1>4, <1>5, <2>1, <2>2, <2>3 DEF ProfilesInv
<1>7. CASE Wanted(kind) # {}
  <2> DEFINE rows(batch) == {<<c, profile[c].url>> : c \in batch}
  <2>1. PICK batch \in SUBSET Wanted(kind) :
           sweep' = [sweep EXCEPT ![s] = [pc |-> "ask", kind |-> kind, batch |-> rows(batch)]]
    BY <1>7 DEF Fetch, kSubset
  <2>2. /\ batch \subseteq Companies
        /\ kind = "verify" => \A c \in batch : profile[c].url \in Links
    BY <1>3, <2>1 DEF Wanted, ToVerify
  <2>3. rows(batch) \in SUBSET Rows
    BY <1>3, <2>2 DEF Rows
  <2>4. /\ \A r, q \in rows(batch) : r[1] = q[1] => r = q
        /\ kind = "verify" => \A r \in rows(batch) : r[2] \in Links
        /\ \A r \in rows(batch) : profile[r[1]].url = r[2]
    BY <2>2
  <2> DEFINE w == [pc |-> "ask", kind |-> kind, batch |-> rows(batch)]
  <2> HIDE DEF rows, kind
  <2>5. w \in SweepStates
    BY <1>1, <2>3, AskState
  <2>6. SoundSweep(w, net, accepted') /\ ReadIsCurrent(w, profile', accepted', touched')
    BY <1>1, <1>2, <2>4 DEF SoundSweep, ReadIsCurrent, Busy
  <2>7. \A t \in Passes \ {s} :
            sweep[t].pc \in Busy => \A r \in sweep[t].batch : StaysCurrent(r[1])
    BY <1>2 DEF StaysCurrent
  <2>8. sweep' = [sweep EXCEPT ![s] = w]
    BY <2>1
  <2> HIDE DEF w
  <2>9. SweepsSound' /\ ReadsCurrent'
    BY <1>2, <2>6, <2>7, <2>8, SweepMoves
  <2> QED
    BY <1>4, <1>5, <2>5, <2>8, <2>9 DEF ProfilesInv
<1> QED
  BY <1>6, <1>7

(* An answer: what is accepted is remembered.                              *)
LEMMA AskInv ==
    ASSUME ProfilesInv, NEW s \in Passes, sweep[s].pc = "ask",
           NEW row \in sweep[s].batch, NEW u \in Links, NEW a \in Answers, Ask(s, row, u, a),
           sweep[s].kind = "verify" => u = row[2]
    PROVE  ProfilesInv'
<1> DEFINE kind == sweep[s].kind
           batch == sweep[s].batch
           ok == Accepts(a)
           alive == a \in {"page", "login"}
           w == [pc |-> "save", kind |-> kind, batch |-> batch,
                 row |-> row, url |-> u, ok |-> ok, alive |-> alive]
<1>1. /\ sweep[s] \in SweepStates /\ kind \in Kinds
      /\ batch \in SUBSET Rows /\ row \in Rows
      /\ SoundSweep(sweep[s], net, accepted)
      /\ ReadIsCurrent(sweep[s], profile, accepted, touched)
  BY SweepBusy DEF ProfilesInv, ProfilesTypeOK, SweepsSound, ReadsCurrent, Busy
<1>2. net \in Social \cup Filled
  BY DEF ProfilesInv, ProfilesTypeOK
<1>3. ok \in BOOLEAN /\ (net \in Social /\ alive => ok)
  <2> USE DEF Social
  <2>1. CASE net = "linkedin"
    BY <2>1 DEF Accepts, LinkedInAccepts
  <2>2. CASE net = "instagram"
    BY <2>2 DEF Accepts, InstagramAccepts
  <2>3. CASE net = "facebook"
    BY <2>3 DEF Accepts, FacebookAccepts
  <2>4. CASE net = "youtube"
    BY <2>4 DEF Accepts, YoutubeAccepts
  <2>5. CASE net = "website"
    BY <2>5 DEF Accepts, WebsiteAccepts
  <2>6. CASE net = "contact"
    BY <2>6 DEF Accepts, ContactAccepts
  <2> QED
    BY <1>2, <2>1, <2>2, <2>3, <2>4, <2>5, <2>6 DEF Filled
<1>4. /\ accepted' = IF ok THEN accepted \cup {<<row[1], u>>} ELSE accepted
      /\ sweep' = [sweep EXCEPT ![s] = w]
      /\ UNCHANGED <<net, profile, touched, events>>
  BY DEF Ask
<1> HIDE DEF ok, alive, kind, batch
<1>5. w \in SweepStates
  <2>1. alive \in BOOLEAN
    BY DEF alive
  <2> QED
    BY <1>1, <1>3, <2>1 DEF SweepStates, Kinds
<1>6. accepted \subseteq accepted' /\ accepted' \subseteq Companies \X Links
  BY <1>1, <1>4, RowParts DEF ProfilesInv, ProfilesTypeOK
<1>7. SoundSweep(w, net, accepted')
  <2>1. /\ \A r, q \in batch : r[1] = q[1] => r = q
        /\ kind = "verify" => net \in Social /\ \A r \in batch : r[2] \in Links
    BY <1>1 DEF SoundSweep, Busy, batch, kind
  <2>2. /\ row \in batch /\ (ok => <<row[1], u>> \in accepted')
        /\ kind = "verify" => u = row[2] /\ (alive => ok)
    BY <1>3, <1>4, <2>1 DEF batch, kind
  <2> QED
    BY <2>1, <2>2 DEF SoundSweep, Busy
<1>8. ReadIsCurrent(w, profile', accepted', touched')
  BY <1>1, <1>4, <1>6 DEF ReadIsCurrent, Busy, batch, kind
<1> HIDE DEF w
<1>9. SweepsSound' /\ ReadsCurrent'
  BY <1>4, <1>6, <1>7, <1>8, SweepMoves DEF StaysCurrent
<1>10. ProfilesTypeOK' /\ ValidIsAccepted'
  BY <1>4, <1>5, <1>6 DEF ProfilesInv, ProfilesTypeOK, ValidIsAccepted
<1> QED
  BY <1>9, <1>10 DEF ProfilesInv

(* A row is left: what the sweep still holds was read with it.             *)
LEMMA RestSound ==
    ASSUME ProfilesInv, NEW s \in Passes, sweep[s].pc = "save", NEW acc, accepted \subseteq acc
    PROVE  LET w == sweep[s]
               r == Rest(s, w.row)
           IN  /\ r \in SweepStates /\ w.row \in w.batch /\ w.row \in Rows
               /\ SoundSweep(r, net, acc)
               /\ ReadIsCurrent(r, profile, accepted, touched)
               /\ r.pc \in Busy => \A q \in r.batch : q[1] # w.row[1] /\ q \in Rows
<1> DEFINE w == sweep[s]
           r == Rest(s, w.row)
<1>1. /\ w \in SweepStates /\ w.pc = "save"
      /\ SoundSweep(w, net, accepted) /\ ReadIsCurrent(w, profile, accepted, touched)
  BY DEF ProfilesInv, ProfilesTypeOK, SweepsSound, ReadsCurrent
<1>2. /\ r \in SweepStates /\ r.pc # "save"
      /\ r.pc # "idle" => r.kind = w.kind
      /\ r.pc \in Busy => r.batch = w.batch \ {w.row}
  BY <1>1, RestState
<1>3. /\ w.row \in w.batch /\ w.row \in Rows /\ w.batch \subseteq Rows
      /\ \A q, p \in w.batch : q[1] = p[1] => q = p
      /\ w.kind = "verify" => net \in Social /\ \A q \in w.batch : q[2] \in Links
      /\ w.kind = "verify" => \A q \in w.batch : \/ q[1] \in touched
                                                 \/ profile[q[1]].url = q[2]
                                                 \/ <<q[1], profile[q[1]].url>> \in accepted
  BY <1>1, SweepBusy DEF SoundSweep, ReadIsCurrent, Busy
<1> HIDE DEF r, w
<1>4. /\ r.pc \in Busy => \A q \in r.batch : q[1] # w.row[1] /\ q \in Rows
      /\ r.pc \in Busy => \A q, p \in r.batch : q[1] = p[1] => q = p
  BY <1>2, <1>3
<1>5. SoundSweep(r, net, acc) /\ ReadIsCurrent(r, profile, accepted, touched)
  BY <1>2, <1>3, <1>4 DEF SoundSweep, ReadIsCurrent, Busy
<1> QED
  BY <1>2, <1>3, <1>4, <1>5 DEF r, w

LEMMA SaveFailsInv ==
    ASSUME ProfilesInv, NEW s \in Passes, SaveFails(s)
    PROVE  ProfilesInv'
<1> DEFINE r == Rest(s, sweep[s].row)
<1>1. /\ sweep[s].pc = "save" /\ sweep' = [sweep EXCEPT ![s] = r]
      /\ events < MaxEvents /\ events' = events + 1
      /\ UNCHANGED <<net, profile, accepted, touched>>
  BY DEF SaveFails
<1>2. /\ r \in SweepStates /\ SoundSweep(r, net, accepted')
      /\ ReadIsCurrent(r, profile', accepted', touched')
  BY <1>1, RestSound
<1> HIDE DEF r
<1>3. SweepsSound' /\ ReadsCurrent'
  BY <1>1, <1>2, SweepMoves DEF StaysCurrent
<1>4. ProfilesTypeOK' /\ ValidIsAccepted'
  BY <1>1, <1>2, ProfilesAssumption DEF ProfilesInv, ProfilesTypeOK, ValidIsAccepted
<1> QED
  BY <1>3, <1>4 DEF ProfilesInv

(* The row that is written, of the answer the sweep holds.                 *)
LEMMA SavedRow ==
    ASSUME ProfilesInv, NEW s \in Passes, sweep[s].pc = "save"
    PROVE  LET w   == sweep[s]
               c   == w.row[1]
               row == After(w.kind, profile[c], w.url, w.ok)
           IN  /\ c \in Companies
               /\ row \in ProfileRow
               /\ c \notin touched /\ row.status = "VALID" => <<c, row.url>> \in accepted
               /\ profile[c].url # NoLink /\ row.url = NoLink => ~w.alive
<1> DEFINE w   == sweep[s]
           c   == w.row[1]
           old == profile[c]
           row == After(w.kind, old, w.url, w.ok)
<1>1. /\ w \in SweepStates /\ w.pc = "save"
      /\ SoundSweep(w, net, accepted) /\ ReadIsCurrent(w, profile, accepted, touched)
  BY DEF ProfilesInv, ProfilesTypeOK, SweepsSound, ReadsCurrent
<1>2. /\ w.row \in w.batch /\ w.row \in Rows /\ w.kind \in Kinds
      /\ w.url \in Links /\ w.ok \in BOOLEAN
      /\ w.ok => <<c, w.url>> \in accepted
      /\ w.kind = "verify" => /\ w.url = w.row[2] /\ (w.alive => w.ok)
                              /\ \/ c \in touched
                                 \/ old.url = w.row[2]
                                 \/ <<c, old.url>> \in accepted
  BY <1>1, SweepBusy DEF SoundSweep, ReadIsCurrent, Busy
<1>3. c \in Companies
  BY <1>2, RowParts
<1>4. /\ old \in ProfileRow
      /\ c \notin touched /\ old.status = "VALID" => <<c, old.url>> \in accepted
  BY <1>3 DEF ProfilesInv, ProfilesTypeOK, ProfileRow, ValidIsAccepted
<1>5. w.url # NoLink
  BY <1>2, ProfilesAssumption DEF NoLink
<1> HIDE DEF w, c, old
<1>6. /\ Verified(old, w.url, w.ok) \in ProfileRow
      /\ Found(old, w.url, w.ok) \in ProfileRow
      /\ FilledIn(old, w.url, w.ok) \in ProfileRow
  BY <1>2, <1>4, ProfileRowTypes
<1> DEFINE Goal == /\ c \in Companies /\ row \in ProfileRow
                   /\ c \notin touched /\ row.status = "VALID" => <<c, row.url>> \in accepted
                   /\ old.url # NoLink /\ row.url = NoLink => ~w.alive
<1>7. ASSUME w.kind = "verify" PROVE Goal
  <2>1. row = Verified(old, w.url, w.ok)
    BY <1>7 DEF After
  <2>2. CASE w.ok
    <3>1. row.url = old.url
      BY <1>4, <2>1, <2>2 DEF Verified, ProfileRow
    <3> QED
      BY <1>2, <1>3, <1>6, <1>7, <2>1, <2>2, <3>1
  <2>3. CASE ~w.ok
    <3>1. row.status = "none"
      BY <2>1, <2>3 DEF Verified
    <3> QED
      BY <1>2, <1>3, <1>6, <1>7, <2>1, <2>3, <3>1
  <2> QED
    BY <1>2, <2>2, <2>3
<1>8. ASSUME w.kind = "search" PROVE Goal
  <2>1. row = Found(old, w.url, w.ok)
    BY <1>8 DEF After
  <2>2. IF w.ok THEN row.url = w.url ELSE row.url = old.url /\ row.status = old.status
    BY <1>2, <1>4, <2>1 DEF Found, ProfileRow
  <2> QED
    BY <1>2, <1>3, <1>4, <1>5, <1>6, <2>1, <2>2
<1>9. ASSUME w.kind = "fill" PROVE Goal
  <2>1. row = FilledIn(old, w.url, w.ok)
    BY <1>9 DEF After
  <2>2. IF w.ok THEN row.url = w.url ELSE row.url = old.url /\ row.status = old.status
    BY <1>2, <1>4, <2>1 DEF FilledIn, ProfileRow
  <2> QED
    BY <1>2, <1>3, <1>4, <1>5, <1>6, <2>1, <2>2
<1>10. Goal
  BY <1>2, <1>7, <1>8, <1>9 DEF Kinds
<1> QED
  BY <1>10 DEF w, c, old

LEMMA SaveInv ==
    ASSUME ProfilesInv, NEW s \in Passes, Save(s)
    PROVE  ProfilesInv'
<1> DEFINE c   == sweep[s].row[1]
           row == After(sweep[s].kind, profile[c], sweep[s].url, sweep[s].ok)
           r   == Rest(s, sweep[s].row)
           hit == \E t \in Passes \ {s} : c \in Held(t)
<1>1. /\ sweep[s].pc = "save" /\ sweep' = [sweep EXCEPT ![s] = r]
      /\ profile' = [profile EXCEPT ![c] = row]
      /\ touched' = IF hit THEN touched \cup {c} ELSE touched
      /\ UNCHANGED <<net, accepted, events>>
  BY DEF Save
<1>2. /\ c \in Companies /\ row \in ProfileRow
      /\ c \notin touched /\ row.status = "VALID" => <<c, row.url>> \in accepted
  BY <1>1, SavedRow
<1>3. /\ r \in SweepStates /\ SoundSweep(r, net, accepted')
      /\ ReadIsCurrent(r, profile, accepted, touched)
      /\ r.pc \in Busy => \A q \in r.batch : q[1] # c /\ q \in Rows
  BY <1>1, RestSound
<1>4. \A t \in Passes \ {s} :
          sweep[t].pc \in Busy => \A q \in sweep[t].batch : q[1] = c => c \in touched'
  <2>1. \A t \in Passes \ {s} :
            sweep[t].pc \in Busy => \A q \in sweep[t].batch : q[1] = c => hit
    BY DEF Held, Busy
  <2> QED
    BY <1>1, <2>1
<1>5. \A t \in Passes :
          sweep[t].pc \in Busy => \A q \in sweep[t].batch : q[1] \in Companies
  BY SweepBusy, RowParts DEF ProfilesInv, ProfilesTypeOK
<1> HIDE DEF c, row, r, hit
<1>6. /\ profile' \in [Companies -> ProfileRow] /\ profile'[c] = row
      /\ \A d \in Companies \ {c} : profile'[d] = profile[d]
  BY <1>1, <1>2 DEF ProfilesInv, ProfilesTypeOK, ProfileRow
<1>7. \A d \in Companies \ {c} : StaysCurrent(d)
  BY <1>6 DEF StaysCurrent
<1>8. ReadIsCurrent(r, profile', accepted', touched')
  <2>1. r.pc \in Busy => \A q \in r.batch : q[1] \in Companies \ {c}
    BY <1>3, RowParts
  <2>2. accepted \subseteq accepted' /\ touched \subseteq touched'
    BY <1>1
  <2> QED
    BY <1>3, <1>7, <2>1, <2>2, CurrentStays
<1>9. \A t \in Passes \ {s} :
          sweep[t].pc \in Busy => \A q \in sweep[t].batch : StaysCurrent(q[1])
  BY <1>4, <1>5, <1>7 DEF StaysCurrent
<1>10. SweepsSound' /\ ReadsCurrent'
  BY <1>1, <1>3, <1>8, <1>9, SweepMoves
<1>11. ProfilesTypeOK'
  BY <1>1, <1>2, <1>3, <1>6 DEF ProfilesInv, ProfilesTypeOK, ProfileRow
<1>12. ValidIsAccepted'
  BY <1>1, <1>2, <1>6 DEF ProfilesInv, ValidIsAccepted
<1> QED
  BY <1>10, <1>11, <1>12 DEF ProfilesInv

(* Edits, and the hours.                                                   *)
LEMMA EditInv ==
    ASSUME ProfilesInv, NEW c \in Companies, UpdateCompany(c) \/ WriteChecked(c) \/ HoursPass(c)
    PROVE  ProfilesInv'
<1>1. profile[c] \in ProfileRow /\ events \in 0..MaxEvents
  BY DEF ProfilesInv, ProfilesTypeOK, ProfileRow
<1>2. ASSUME NEW row \in ProfileRow, profile' = [profile EXCEPT ![c] = row],
             UNCHANGED <<net, sweep>>, events < MaxEvents, events' = events + 1,
             accepted \subseteq accepted', accepted' \subseteq Companies \X Links,
             touched \subseteq touched', touched' \subseteq Companies,
             \/ c \in touched'
             \/ <<c, row.url>> \in accepted'
             \/ row.url = profile[c].url /\ row.status = profile[c].status
      PROVE  ProfilesInv'
  <2>1. /\ profile' \in [Companies -> ProfileRow] /\ profile'[c] = row
        /\ \A d \in Companies \ {c} : profile'[d] = profile[d]
    BY <1>2 DEF ProfilesInv, ProfilesTypeOK, ProfileRow
  <2>2. SweepsSound' /\ ReadsCurrent'
    BY <1>2, <2>1, EditMoves DEF StaysCurrent
  <2>3. ProfilesTypeOK'
    BY <1>2, <2>1, ProfilesAssumption DEF ProfilesInv, ProfilesTypeOK, ProfileRow
  <2>4. ValidIsAccepted'
    BY <1>2, <2>1 DEF ProfilesInv, ValidIsAccepted
  <2> QED
    BY <2>2, <2>3, <2>4 DEF ProfilesInv
<1>3. accepted \subseteq Companies \X Links /\ touched \subseteq Companies
  BY DEF ProfilesInv, ProfilesTypeOK
<1>4. CASE UpdateCompany(c)
  <2>1. PICK u \in Links \cup {NoLink}, st \in Statuses :
           profile' = [profile EXCEPT ![c] = Overwritten(profile[c], u, st)]
    BY <1>4 DEF UpdateCompany
  <2>2. Overwritten(profile[c], u, st) \in ProfileRow
    BY <1>1, EditTypes
  <2>3. /\ UNCHANGED <<net, sweep, accepted>> /\ touched' = touched \cup {c}
        /\ events < MaxEvents /\ events' = events + 1
    BY <1>4 DEF UpdateCompany
  <2> QED
    BY <1>2, <1>3, <2>1, <2>2, <2>3
<1>5. CASE WriteChecked(c)
  <2>1. PICK u \in Links : /\ profile' = [profile EXCEPT ![c].url = u]
                           /\ accepted' = accepted \cup {<<c, u>>}
    BY <1>5 DEF WriteChecked
  <2> DEFINE row == [profile[c] EXCEPT !.url = u]
  <2>2. row \in ProfileRow /\ row.url = u
    BY <1>1 DEF ProfileRow
  <2>3. profile' = [profile EXCEPT ![c] = row]
    BY <2>1
  <2>4. /\ UNCHANGED <<net, sweep, touched>>
        /\ events < MaxEvents /\ events' = events + 1
    BY <1>5 DEF WriteChecked
  <2> HIDE DEF row
  <2>5. /\ accepted \subseteq accepted' /\ accepted' \subseteq Companies \X Links
        /\ <<c, row.url>> \in accepted'
    BY <1>3, <2>1, <2>2
  <2>6. touched \subseteq touched' /\ touched' \subseteq Companies
    BY <1>3, <2>4
  <2> QED
    BY <1>2, <2>2, <2>3, <2>4, <2>5, <2>6
<1>6. CASE HoursPass(c)
  <2> DEFINE age == IF profile[c].age = "minutes" THEN "hours" ELSE "halfday"
             row == [profile[c] EXCEPT !.age = age]
  <2>1. row \in ProfileRow /\ row.url = profile[c].url /\ row.status = profile[c].status
    BY <1>1 DEF ProfileRow, Ages
  <2>2. profile' = [profile EXCEPT ![c] = row]
    BY <1>6 DEF HoursPass
  <2>3. /\ UNCHANGED <<net, sweep, accepted, touched>>
        /\ events < MaxEvents /\ events' = events + 1
    BY <1>6 DEF HoursPass
  <2> HIDE DEF row, age
  <2> QED
    BY <1>2, <1>3, <2>1, <2>2, <2>3
<1> QED
  BY <1>4, <1>5, <1>6

----------------------------------------------------------------------------
LEMMA ProfilesInvInit == ProfInit => ProfilesInv
<1> SUFFICES ASSUME ProfInit PROVE ProfilesInv
  OBVIOUS
<1>1. Resting \in SweepStates /\ Resting.pc = "idle"
  BY DEF Resting, SweepStates
<1>2. ProfilesTypeOK
  BY <1>1, ProfilesAssumption DEF ProfInit, ProfilesTypeOK, Statuses, Ages
<1>3. SweepsSound /\ ReadsCurrent
  BY <1>1 DEF ProfInit, SweepsSound, ReadsCurrent, SoundSweep, ReadIsCurrent, Busy
<1>4. ValidIsAccepted
  BY DEF ProfInit, ValidIsAccepted
<1> QED
  BY <1>2, <1>3, <1>4 DEF ProfilesInv

LEMMA ProfilesInvStep == ProfilesInv /\ [ProfNext]_profVars => ProfilesInv'
<1> SUFFICES ASSUME ProfilesInv, [ProfNext]_profVars PROVE ProfilesInv'
  OBVIOUS
<1>1. CASE UNCHANGED profVars
  BY <1>1 DEF profVars, ProfilesInv, ProfilesTypeOK, SweepsSound, ReadsCurrent, ValidIsAccepted
<1>2. ASSUME NEW s \in Passes, AskVerify(s)
      PROVE  ProfilesInv'
  <2>1. PICK row \in sweep[s].batch, a \in Answers : Ask(s, row, row[2], a)
    BY <1>2 DEF AskVerify
  <2>2. sweep[s].pc = "ask" /\ SoundSweep(sweep[s], net, accepted) /\ sweep[s].kind = "verify"
    BY <1>2 DEF AskVerify, ProfilesInv, SweepsSound
  <2>3. row[2] \in Links
    BY <2>2 DEF SoundSweep, Busy
  <2> QED
    BY <2>1, <2>2, <2>3, AskInv
<1>3. ASSUME NEW s \in Passes, NEW kind \in {"search", "fill"}, AskFound(s, kind)
      PROVE  ProfilesInv'
  BY <1>3, AskInv DEF AskFound
<1>4. CASE ProfNext
  BY <1>2, <1>3, <1>4, Steps, StartInv, TriggerInv, FetchInv, SaveInv, SaveFailsInv,
     StopInv, EditInv DEF ProfilesInv
<1> QED
  BY <1>1, <1>4

(* Every reachable state is well typed.                                    *)
THEOREM ProfilesTypeCorrect == ProfSpec => []ProfilesTypeOK
<1>1. ProfilesInv => ProfilesTypeOK
  BY DEF ProfilesInv
<1> QED
  BY <1>1, ProfilesInvInit, ProfilesInvStep, PTL DEF ProfSpec

(* A profile called VALID is one its verifier accepted, unless someone     *)
(* edited the company or two sweeps held it at once.                       *)
THEOREM ValidCorrect == ProfSpec => []ValidIsAccepted
<1>1. ProfilesInv => ValidIsAccepted
  BY DEF ProfilesInv
<1> QED
  BY <1>1, ProfilesInvInit, ProfilesInvStep, PTL DEF ProfSpec

----------------------------------------------------------------------------
(* A link is only lost in a Save of a sweep whose answer was no sign of    *)
(* life.                                                                   *)
Erased(c) == profile[c].url # NoLink /\ profile'[c].url = NoLink
Refused(c) == \E s \in Passes : /\ sweep[s].pc = "save" /\ sweep[s].row[1] = c
                                /\ sweep'[s] # sweep[s]
                                /\ ~sweep[s].alive

LEMMA SaveErases ==
    ASSUME ProfilesInv, NEW s \in Passes, Save(s), NEW c \in Companies, Erased(c)
    PROVE  Refused(c)
<1> DEFINE d   == sweep[s].row[1]
           row == After(sweep[s].kind, profile[d], sweep[s].url, sweep[s].ok)
<1>1. /\ sweep[s].pc = "save" /\ sweep' = [sweep EXCEPT ![s] = Rest(s, sweep[s].row)]
      /\ profile' = [profile EXCEPT ![d] = row]
  BY DEF Save
<1>2. d \in Companies /\ (profile[d].url # NoLink /\ row.url = NoLink => ~sweep[s].alive)
  BY <1>1, SavedRow
<1>3. Rest(s, sweep[s].row).pc # "save"
  BY <1>1, RestState DEF ProfilesInv, ProfilesTypeOK
<1>4. sweep'[s] # sweep[s]
  BY <1>1, <1>3 DEF ProfilesInv, ProfilesTypeOK
<1> HIDE DEF row, d
<1>5. c = d /\ profile'[d] = row
  BY <1>1, <1>2 DEF Erased, ProfilesInv, ProfilesTypeOK
<1> QED
  BY <1>1, <1>2, <1>4, <1>5 DEF Refused, Erased, d

LEMMA EditErasesNothing ==
    ASSUME ProfilesInv, NEW d \in Companies, UpdateCompany(d) \/ WriteChecked(d) \/ HoursPass(d),
           NEW c \in Companies
    PROVE  ~Erased(c)
<1>1. profile[d] \in ProfileRow /\ profile \in [Companies -> ProfileRow] /\ NoLink \notin Links
  BY ProfilesAssumption DEF ProfilesInv, ProfilesTypeOK, ProfileRow, NoLink
<1>2. ASSUME NEW row, profile' = [profile EXCEPT ![d] = row],
             profile[d].url # NoLink => row.url # NoLink
      PROVE  ~Erased(c)
  BY <1>1, <1>2 DEF Erased
<1>3. CASE UpdateCompany(d)
  <2>1. PICK u \in Links \cup {NoLink}, st \in Statuses :
           profile' = [profile EXCEPT ![d] = Overwritten(profile[d], u, st)]
    BY <1>3 DEF UpdateCompany
  <2>2. profile[d].url # NoLink => Overwritten(profile[d], u, st).url # NoLink
    BY <1>1 DEF Overwritten, ProfileRow
  <2> QED
    BY <1>2, <2>1, <2>2
<1>4. CASE WriteChecked(d)
  <2>1. PICK u \in Links : profile' = [profile EXCEPT ![d].url = u]
    BY <1>4 DEF WriteChecked
  <2>2. profile' = [profile EXCEPT ![d] = [profile[d] EXCEPT !.url = u]]
    BY <2>1
  <2>3. [profile[d] EXCEPT !.url = u].url # NoLink
    BY <1>1 DEF ProfileRow
  <2> QED
    BY <1>2, <2>2, <2>3
<1>5. CASE HoursPass(d)
  <2>1. \A age : [profile[d] EXCEPT !.age = age].url = profile[d].url
    BY <1>1 DEF ProfileRow
  <2>2. PICK age : profile' = [profile EXCEPT ![d] = [profile[d] EXCEPT !.age = age]]
    BY <1>5 DEF HoursPass
  <2> QED
    BY <1>2, <2>1, <2>2
<1> QED
  BY <1>3, <1>4, <1>5

LEMMA ErasedStep ==
    ASSUME ProfilesInv, [ProfNext]_profVars, NEW c \in Companies, Erased(c)
    PROVE  Refused(c)
<1>1. CASE UNCHANGED profile
  BY <1>1 DEF Erased
<1>2. \A s \in Passes : Trigger(s) => ~Erased(c)
  <2> SUFFICES ASSUME NEW s \in Passes, Trigger(s) PROVE ~Erased(c)
    OBVIOUS
  <2>1. profile[c] \in ProfileRow
    BY DEF ProfilesInv, ProfilesTypeOK, ProfileRow
  <2>2. CASE profile[c].url # NoLink
    <3>1. profile'[c] = [profile[c] EXCEPT !.age = "never", !.status = "UNVERIFIED"]
      BY <2>2 DEF Trigger
    <3>2. profile'[c] = [url |-> profile[c].url, status |-> "UNVERIFIED", age |-> "never"]
      BY <2>1, <3>1 DEF ProfileRow
    <3> QED
      BY <3>2 DEF Erased
  <2> QED
    BY <2>2 DEF Erased
<1>3. CASE ProfNext
  BY <1>1, <1>2, <1>3, Steps, SaveErases, EditErasesNothing
  DEF ProfilesInv, Start, Fetch, AskVerify, AskFound, Ask, SaveFails, Stopped
<1> QED
  BY <1>1, <1>3 DEF profVars

(* A sweep erases a profile only after an answer that was neither the page *)
(* nor a wall that asks visitors to log in: of any overlap of sweeps.      *)
THEOREM ErasedCorrect == ProfSpec => ErasedOnlyRefused
<1>1. ProfilesInv /\ [ProfNext]_profVars =>
         [\A c \in Companies :
            profile[c].url # NoLink /\ profile'[c].url = NoLink
            => \E s \in Passes : /\ sweep[s].pc = "save" /\ sweep[s].row[1] = c
                                  /\ sweep'[s] # sweep[s]
                                  /\ ~sweep[s].alive]_profVars
  BY ErasedStep DEF Erased, Refused
<1> QED
  BY <1>1, ProfilesInvInit, ProfilesInvStep, PTL DEF ProfSpec, ErasedOnlyRefused
=============================================================================
