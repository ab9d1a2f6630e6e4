----------------------------- MODULE FeedProofs -----------------------------
(***************************************************************************)
(* What is collected about companies: the invariants of the signals, the   *)
(* registers and the watch list, for every number of jobs, findings,       *)
(* companies, deeds, permits and persons. ServicesProofs says of the       *)
(* running services what is proved here.                                   *)
(***************************************************************************)
EXTENDS Signals, Registers, Monitoring, FiniteSetTheorems, TLAPS

----------------------------------------------------------------------------
(* Signals: the batches of a retraction hold all that is left of the       *)
(* claim, but for the rows written or reviewed meanwhile.                  *)

(* A batch that is not full holds all that its claim has left, but for the *)
(* rows others held when it was selected and those written since.          *)
HoldsRest(c) ==
    call[c].pc = "commit" /\ Cardinality(call[c].batch) < BatchSize
      => Unretracted(call[c].claim) \subseteq call[c].batch \cup call[c].late
BatchHoldsRest == \A c \in Calls : HoldsRest(c)

(* What is in a batch is a row.                                            *)
BatchStored == \A c \in Calls : call[c].pc = "commit" => call[c].batch \subseteq Stored

SignalsInv == SignalsTypeOK /\ RetractedIsHidden /\ BatchHoldsRest /\ BatchStored

SignalTypes ==
    /\ signals \in [Hashes -> SignalRow \cup {NoSignal}]
    /\ task \in [Jobs -> TaskState]
    /\ finding \in [Findings -> {"none", "pending_review", "approved", "rejected"}]
    /\ call \in [Calls -> CallState]
    /\ resaved \subseteq Hashes

BatchesApart ==
    \A c, d \in Calls : call[c].pc = "commit" /\ call[d].pc = "commit" /\ c # d
                           => call[c].batch \cap call[d].batch = {}

LEMMA SignalsTypes == SignalsTypeOK <=> SignalTypes /\ BatchesApart
  BY DEF SignalsTypeOK, SignalTypes, BatchesApart

LEMMA SignalsInvNext ==
    SignalTypes' /\ BatchesApart' /\ RetractedIsHidden' /\ BatchHoldsRest' /\ BatchStored'
      => SignalsInv'
  BY DEF SignalsInv, SignalsTypeOK, SignalTypes, BatchesApart

----------------------------------------------------------------------------
LEMMA HashesFinite == IsFiniteSet(Hashes)
<1>1. IsFiniteSet({"page"}) /\ IsFiniteSet({"mirror", "approved"})
  <2>1. IsFiniteSet({"mirror"}) /\ IsFiniteSet({"approved"}) /\ IsFiniteSet({"page"})
    BY FS_Singleton
  <2>2. {"mirror", "approved"} = {"mirror"} \cup {"approved"}
    OBVIOUS
  <2> QED
    BY <2>1, <2>2, FS_Union
<1> QED
  BY <1>1, SignalsAssumption, FS_Product, FS_Union DEF Hashes

LEMMA CallIs ==
    ASSUME SignalTypes, NEW c \in Calls
    PROVE  /\ call[c] \in CallState
           /\ call[c].pc \in {"mirror", "promote"} => call[c].finding \in Findings
           /\ call[c].pc \in {"select", "commit"} => call[c].claim \in Claims
           /\ call[c].pc = "commit" =>
                /\ call[c].batch \subseteq Hashes /\ call[c].late \subseteq Hashes
                /\ call[c] = [pc |-> "commit", claim |-> call[c].claim, batch |-> call[c].batch,
                              late |-> call[c].late]
  BY DEF SignalTypes, CallState, AtRest

(* The calls that hold a batch are told of a row; nothing else of them     *)
(* changes.                                                                *)
LEMMA Told ==
    ASSUME SignalTypes, NEW h \in Hashes
    PROVE  /\ Tell(h) \in [Calls -> CallState]
           /\ \A c \in Calls :
                /\ Tell(h)[c].pc = call[c].pc
                /\ call[c].pc # "commit" => Tell(h)[c] = call[c]
                /\ call[c].pc = "commit" =>
                     /\ Tell(h)[c].claim = call[c].claim /\ Tell(h)[c].batch = call[c].batch
                     /\ Tell(h)[c].late = call[c].late \cup {h}
<1> SUFFICES ASSUME NEW c \in Calls
             PROVE  /\ Tell(h)[c] \in CallState
                    /\ Tell(h)[c].pc = call[c].pc
                    /\ call[c].pc # "commit" => Tell(h)[c] = call[c]
                    /\ call[c].pc = "commit" =>
                         /\ Tell(h)[c].claim = call[c].claim /\ Tell(h)[c].batch = call[c].batch
                         /\ Tell(h)[c].late = call[c].late \cup {h}
  BY DEF Tell
<1>1. CASE call[c].pc = "commit"
  <2>1. /\ call[c].claim \in Claims /\ call[c].batch \subseteq Hashes /\ call[c].late \subseteq Hashes
        /\ call[c] = [pc |-> "commit", claim |-> call[c].claim, batch |-> call[c].batch,
                      late |-> call[c].late]
    BY <1>1, CallIs
  <2>2. Tell(h)[c] = [call[c] EXCEPT !.late = @ \cup {h}]
    BY <1>1 DEF Tell
  <2>3. Tell(h)[c] = [pc |-> "commit", claim |-> call[c].claim, batch |-> call[c].batch,
                      late |-> call[c].late \cup {h}]
    BY <2>1, <2>2
  <2> QED
    BY <2>1, <2>3 DEF CallState
<1>2. CASE call[c].pc # "commit"
  BY <1>2, CallIs DEF Tell
<1> QED
  BY <1>1, <1>2

(* What a batch must hold only shrinks, unless a row is written, and then  *)
(* those who hold a batch are told.                                        *)
LEMMA RestKept ==
    ASSUME SignalTypes, BatchHoldsRest, NEW c \in Calls,
           call[c].pc = "commit", call'[c].pc = "commit",
           call'[c].claim = call[c].claim, call'[c].batch = call[c].batch,
           call[c].late \subseteq call'[c].late,
           \A h \in Hashes : /\ signals'[h] # NoSignal /\ call[c].claim \in signals'[h].cited
                             /\ signals'[h].status # "RETRACTED"
                             => h \in Unretracted(call[c].claim) \/ h \in call'[c].late
    PROVE  HoldsRest(c)'
<1>1. \A h \in Unretracted(call[c].claim)' : h \in Unretracted(call[c].claim) \/ h \in call'[c].late
  BY DEF Unretracted, Stored
<1>2. HoldsRest(c)
  BY DEF BatchHoldsRest
<1>3. Unretracted(call[c].claim)' = {h \in Hashes : /\ signals'[h] # NoSignal
                                       /\ call'[c].claim \in signals'[h].cited
                                       /\ signals'[h].status # "RETRACTED"}
  BY DEF Unretracted, Stored
<1> QED
  BY <1>1, <1>2, <1>3 DEF HoldsRest

LEMMA RowIs ==
    ASSUME SignalTypes, NEW h \in Stored
    PROVE  /\ h \in Hashes /\ signals[h] \in SignalRow
           /\ signals[h].status \in {"ACTIVE", "RETRACTED"}
           /\ signals[h].url \in {UrlOf[x] : x \in Jobs \cup Findings}
           /\ signals[h].cited \in SUBSET Claims
  BY DEF SignalTypes, Stored, SignalRow

LEMMA NoSignalIsNoRow == NoSignal \notin SignalRow
  BY DEF NoSignal, SignalRow

LEMMA FindingRowIs == \A f \in Findings : FindingRow(f) \in SignalRow
  BY SignalsAssumption DEF FindingRow, SignalRow

----------------------------------------------------------------------------
LEMMA SignalsInvInit == SignalsInit => SignalsInv
<1> SUFFICES ASSUME SignalsInit
             PROVE  SignalsInv
  OBVIOUS
<1>1. SignalTypes
  BY SignalsAssumption DEF SignalsInit, SignalTypes, TaskState, CallState, Queued
<1>2. BatchesApart /\ BatchHoldsRest /\ BatchStored
  BY DEF SignalsInit, BatchesApart, BatchHoldsRest, HoldsRest, BatchStored, AtRest
<1>3. RetractedIsHidden
  BY DEF SignalsInit, RetractedIsHidden, Stored
<1> QED
  BY <1>1, <1>2, <1>3, SignalsTypes DEF SignalsInv

LEMMA QueuedIs == \A n \in 0..MaxRetry : Queued(n) \in TaskState
  BY DEF Queued, TaskState

LEMMA AgainIs == \A n \in 0..MaxRetry : Again(n) \in TaskState
<1> SUFFICES ASSUME NEW n \in 0..MaxRetry
             PROVE  Again(n) \in TaskState
  OBVIOUS
<1>1. n < MaxRetry => n + 1 \in 0..MaxRetry
  BY SignalsAssumption
<1>2. AtRest \in TaskState
  BY DEF TaskState
<1> QED
  BY <1>1, <1>2, QueuedIs DEF Again

(* Steps of the extraction that write no row.                              *)
LEMMA TaskStep ==
    ASSUME SignalsInv, NEW j \in Jobs,
           EnqueueExtraction(j) \/ Extract(j) \/ ResolveCompany(j) \/ Skip(j) \/ TaskFails(j)
    PROVE  SignalsInv'
<1> USE DEF SignalsInv
<1>1. task[j] \in TaskState
  BY SignalsTypes DEF SignalTypes
<1>2. \E t \in TaskState : task' = [task EXCEPT ![j] = t]
  <2>0. /\ task[j] # AtRest => task[j].tries \in 0..MaxRetry
        /\ task[j].pc = "extracted" => task[j].named \in BOOLEAN
        /\ task[j].pc \in {"queued", "extracted"} => task[j] # AtRest
    BY <1>1 DEF TaskState, AtRest
  <2>1. CASE EnqueueExtraction(j)
    <3>1. 0 \in 0..MaxRetry
      BY SignalsAssumption
    <3> QED
      BY <2>1, <3>1, QueuedIs DEF EnqueueExtraction
  <2>2. CASE Extract(j)
    <3>1. PICK named \in BOOLEAN :
            task' = [task EXCEPT ![j] = [pc |-> "extracted", tries |-> task[j].tries, named |-> named]]
      BY <2>2 DEF Extract
    <3>2. task[j].tries \in 0..MaxRetry
      BY <2>0, <2>2 DEF Extract
    <3>3. [pc |-> "extracted", tries |-> task[j].tries, named |-> named] \in TaskState
      BY <3>2 DEF TaskState
    <3> QED
      BY <3>1, <3>3
  <2>3. CASE ResolveCompany(j)
    <3>1. PICK found \in BOOLEAN :
            task' = [task EXCEPT ![j] = [pc |-> "resolved", tries |-> task[j].tries,
                                         named |-> task[j].named, found |-> found]]
      BY <2>3 DEF ResolveCompany
    <3>2. task[j].tries \in 0..MaxRetry /\ task[j].named \in BOOLEAN
      BY <2>0, <2>3 DEF ResolveCompany
    <3>3. [pc |-> "resolved", tries |-> task[j].tries, named |-> task[j].named, found |-> found]
             \in TaskState
      BY <3>2 DEF TaskState
    <3> QED
      BY <3>1, <3>3
  <2>4. CASE Skip(j)
    BY <2>4 DEF Skip, Settle, TaskState
  <2>5. CASE TaskFails(j)
    <3>1. task[j].tries \in 0..MaxRetry
      BY <2>0, <2>5 DEF TaskFails
    <3>2. Again(task[j].tries) \in TaskState
      BY <3>1, AgainIs
    <3> QED
      BY <2>5, <3>2 DEF TaskFails
  <2> QED
    BY <2>1, <2>2, <2>3, <2>4, <2>5
<1>3. UNCHANGED <<signals, finding, call, resaved>>
  BY DEF EnqueueExtraction, Extract, ResolveCompany, Skip, TaskFails
<1>4. SignalTypes'
  BY <1>2, <1>3, SignalsTypes DEF SignalTypes
<1>5. BatchesApart' /\ RetractedIsHidden' /\ BatchHoldsRest' /\ BatchStored'
  BY <1>3, SignalsTypes
     DEF BatchesApart, RetractedIsHidden, BatchHoldsRest, HoldsRest, BatchStored, Stored, Visible,
         Unretracted
<1> QED
  BY <1>4, <1>5, SignalsInvNext

LEMMA SaveStep ==
    ASSUME SignalsInv, NEW j \in Jobs, SaveSignal(j)
    PROVE  SignalsInv'
<1> USE DEF SignalsInv
<1> DEFINE h == <<"page", j>>
<1>0. SignalTypes /\ BatchesApart /\ h \in Hashes
  BY SignalsTypes DEF Hashes
<1>1. PICK cited \in SUBSET Claims :
        signals' = [signals EXCEPT ![h] = [relevance |-> "HIGH", status |-> KeptStatus(h),
                                           url |-> UrlOf[j], cited |-> cited]]
  BY DEF SaveSignal
<1>2. /\ resaved' = IF KeptStatus(h) = "RETRACTED" THEN resaved \cup {h} ELSE resaved
      /\ call' = Tell(h) /\ finding' = finding
  BY DEF SaveSignal
<1>3. KeptStatus(h) \in {"ACTIVE", "RETRACTED"}
  BY <1>0, RowIs DEF KeptStatus, Stored
<1>4. [relevance |-> "HIGH", status |-> KeptStatus(h), url |-> UrlOf[j], cited |-> cited] \in SignalRow
  BY <1>3 DEF SignalRow
<1>5. \E t \in TaskState : task' = [task EXCEPT ![j] = t]
  <2>1. task[j] \in TaskState /\ task[j].pc = "resolved"
    BY <1>0 DEF SignalTypes, SaveSignal
  <2>2. Settle(j) \/ task' = [task EXCEPT ![j] = Again(task[j].tries)]
    BY DEF SaveSignal
  <2>3. task[j].tries \in 0..MaxRetry
    BY <2>1 DEF TaskState, AtRest
  <2>4. Again(task[j].tries) \in TaskState
    BY <2>3, AgainIs
  <2> QED
    BY <2>2, <2>4 DEF Settle, TaskState
<1>6. SignalTypes'
  BY <1>0, <1>1, <1>2, <1>4, <1>5, Told DEF SignalTypes
<1>7. BatchesApart'
  BY <1>0, <1>2, Told DEF BatchesApart
<1>8. RetractedIsHidden'
  <2>1. \A g \in Hashes : g # h => signals'[g] = signals[g]
    BY <1>0, <1>1 DEF SignalTypes
  <2>2. signals'[h].status = KeptStatus(h)
    BY <1>0, <1>1 DEF SignalTypes
  <2> QED
    BY <1>2, <2>1, <2>2 DEF RetractedIsHidden, Stored, Visible
<1>9. BatchHoldsRest'
  <2> SUFFICES ASSUME NEW c \in Calls, call'[c].pc = "commit"
               PROVE  HoldsRest(c)'
    BY DEF BatchHoldsRest, HoldsRest
  <2>1. /\ call[c].pc = "commit" /\ call'[c].claim = call[c].claim /\ call'[c].batch = call[c].batch
        /\ call'[c].late = call[c].late \cup {h}
    BY <1>0, <1>2, Told
  <2>2. \A g \in Hashes : g # h => signals'[g] = signals[g]
    BY <1>0, <1>1 DEF SignalTypes
  <2>3. \A g \in Hashes : /\ signals'[g] # NoSignal /\ call[c].claim \in signals'[g].cited
                          /\ signals'[g].status # "RETRACTED"
                          => g \in Unretracted(call[c].claim) \/ g \in call'[c].late
    BY <2>1, <2>2 DEF Unretracted, Stored
  <2> QED
    BY <1>0, <2>1, <2>3, RestKept
<1>10. BatchStored'
  <2>1. \A g \in Hashes : signals[g] # NoSignal => signals'[g] # NoSignal
    BY <1>0, <1>1, <1>4, NoSignalIsNoRow DEF SignalTypes
  <2>2. \A c \in Calls : call'[c].pc = "commit" =>
                            call[c].pc = "commit" /\ call'[c].batch = call[c].batch
    BY <1>0, <1>2, Told
  <2> QED
    BY <2>1, <2>2 DEF BatchStored, Stored
<1> QED
  BY <1>6, <1>7, <1>8, <1>9, <1>10, SignalsInvNext

(* A call that writes a row for a finding, or does not, and is done.       *)
LEMMA FindingStep ==
    ASSUME SignalsInv, NEW c \in Calls, NEW f \in Findings, NEW h \in Hashes,
           call[c].pc \in {"mirror", "promote"}, UNCHANGED <<task, finding, resaved>>,
           \/ /\ \/ signals' = [signals EXCEPT ![h] = FindingRow(f)]
                 \/ signals' = signals
              /\ call' = [Tell(h) EXCEPT ![c] = AtRest]
           \/ signals' = signals /\ call' = [call EXCEPT ![c] = AtRest]
    PROVE  SignalsInv'
<1> USE DEF SignalsInv
<1>0. SignalTypes /\ BatchesApart
  BY SignalsTypes
<1>1. /\ signals' \in [Hashes -> SignalRow \cup {NoSignal}]
      /\ \A g \in Hashes : signals'[g] = signals[g] \/ (g = h /\ signals'[g] = FindingRow(f))
  BY <1>0, FindingRowIs DEF SignalTypes
<1>2. /\ call' \in [Calls -> CallState] /\ call'[c] = AtRest
      /\ \A d \in Calls : d # c => /\ call'[d].pc = call[d].pc
                                   /\ call[d].pc = "commit" =>
                                        /\ call'[d].claim = call[d].claim
                                        /\ call'[d].batch = call[d].batch
                                        /\ call[d].late \subseteq call'[d].late
                                        /\ signals' # signals => h \in call'[d].late
  <2>1. AtRest \in CallState
    BY DEF CallState
  <2>2. CASE call' = [Tell(h) EXCEPT ![c] = AtRest]
    BY <1>0, <2>1, <2>2, Told
  <2>3. CASE signals' = signals /\ call' = [call EXCEPT ![c] = AtRest]
    BY <1>0, <2>1, <2>3 DEF SignalTypes
  <2> QED
    BY <2>2, <2>3
<1>3. SignalTypes'
  BY <1>0, <1>1, <1>2 DEF SignalTypes
<1>4. AtRest.pc # "commit"
  BY DEF AtRest
<1>5. BatchesApart'
  BY <1>0, <1>2, <1>4 DEF BatchesApart
<1>6. RetractedIsHidden'
  BY <1>1 DEF RetractedIsHidden, Stored, Visible, FindingRow
<1>7. BatchHoldsRest'
  <2> SUFFICES ASSUME NEW d \in Calls, call'[d].pc = "commit"
               PROVE  HoldsRest(d)'
    BY DEF BatchHoldsRest, HoldsRest
  <2>1. /\ call[d].pc = "commit" /\ call'[d].claim = call[d].claim /\ call'[d].batch = call[d].batch
        /\ call[d].late \subseteq call'[d].late /\ (signals' # signals => h \in call'[d].late)
    BY <1>2, <1>4
  <2>2. \A g \in Hashes : /\ signals'[g] # NoSignal /\ call[d].claim \in signals'[g].cited
                          /\ signals'[g].status # "RETRACTED"
                          => g \in Unretracted(call[d].claim) \/ g \in call'[d].late
    BY <1>1, <2>1 DEF Unretracted, Stored
  <2> QED
    BY <1>0, <2>1, <2>2, RestKept
<1>8. BatchStored'
  BY <1>1, <1>2, <1>4, FindingRowIs, NoSignalIsNoRow DEF BatchStored, Stored
<1> QED
  BY <1>3, <1>5, <1>6, <1>7, <1>8, SignalsInvNext

LEMMA MirrorStep ==
    ASSUME SignalsInv, NEW c \in Calls, MirrorFinding(c) \/ PromoteFinding(c)
    PROVE  SignalsInv'
<1>0. SignalTypes
  BY SignalsTypes DEF SignalsInv
<1>1. call[c].pc \in {"mirror", "promote"} /\ call[c].finding \in Findings
  BY <1>0, CallIs DEF MirrorFinding, PromoteFinding
<1>2. CASE MirrorFinding(c)
  <2>1. <<"mirror", call[c].finding>> \in Hashes
    BY <1>1 DEF Hashes
  <2> QED
    BY <1>1, <1>2, <2>1, FindingStep DEF MirrorFinding
<1>3. CASE PromoteFinding(c)
  <2> DEFINE h == <<"approved", call[c].finding>>
  <2>1. h \in Hashes
    BY <1>1 DEF Hashes
  <2>2. \/ [signals EXCEPT ![h] = Promoted(call[c].finding)]
             = [signals EXCEPT ![h] = FindingRow(call[c].finding)]
        \/ [signals EXCEPT ![h] = Promoted(call[c].finding)] = signals
    BY <1>0, <2>1 DEF Promoted, SignalTypes
  <2> QED
    BY <1>1, <1>3, <2>1, <2>2, FindingStep DEF PromoteFinding
<1> QED
  BY <1>2, <1>3

(* A call that begins, ends without a word, or goes on to a step that      *)
(* holds no batch.                                                         *)
LEMMA CallStep ==
    ASSUME SignalsInv, NEW c \in Calls, NEW s \in CallState, s.pc # "commit",
           call' = [call EXCEPT ![c] = s], UNCHANGED <<signals, task, resaved>>,
           finding' \in [Findings -> {"none", "pending_review", "approved", "rejected"}]
    PROVE  SignalsInv'
<1> USE DEF SignalsInv
<1>0. SignalTypes /\ BatchesApart
  BY SignalsTypes
<1>1. \A d \in Calls : call'[d].pc = "commit" => d # c /\ call'[d] = call[d]
  BY <1>0 DEF SignalTypes
<1>2. SignalTypes'
  BY <1>0 DEF SignalTypes
<1>3. BatchesApart' /\ RetractedIsHidden' /\ BatchHoldsRest' /\ BatchStored'
  BY <1>0, <1>1 DEF BatchesApart, RetractedIsHidden, BatchHoldsRest, HoldsRest, BatchStored, Stored,
                    Visible, Unretracted
<1> QED
  BY <1>2, <1>3, SignalsInvNext

LEMMA BeginStep ==
    ASSUME SignalsInv, NEW c \in Calls,
           \/ \E f \in Findings :
                 \/ \E r \in Submissions : SubmitFinding(c, f, r)
                 \/ \E action \in {"approve", "reject"} : ReviewFinding(c, f, action)
           \/ \E claim \in Claims : StartRetraction(c, claim)
           \/ RetractionFails(c)
    PROVE  SignalsInv'
<1>0. SignalTypes
  BY SignalsTypes DEF SignalsInv
<1>1. ASSUME NEW f \in Findings, NEW r \in Submissions, SubmitFinding(c, f, r)
      PROVE  SignalsInv'
  <2>1. Inserted(f) \in {"none", "pending_review", "approved", "rejected"}
    BY <1>0 DEF Inserted, SignalTypes
  <2>2. finding' \in [Findings -> {"none", "pending_review", "approved", "rejected"}]
    BY <1>0, <1>1, <2>1 DEF SubmitFinding, SignalTypes
  <2>3. [pc |-> "mirror", finding |-> f] \in CallState
    BY DEF CallState
  <2> QED
    BY <1>1, <2>2, <2>3, CallStep DEF SubmitFinding
<1>2. ASSUME NEW f \in Findings, NEW action \in {"approve", "reject"}, ReviewFinding(c, f, action)
      PROVE  SignalsInv'
  <2>1. finding' \in [Findings -> {"none", "pending_review", "approved", "rejected"}]
    BY <1>0, <1>2 DEF ReviewFinding, SignalTypes
  <2>2. call[c] = AtRest /\ AtRest \in CallState /\ [pc |-> "promote", finding |-> f] \in CallState
        /\ AtRest.pc # "commit"
    BY <1>2 DEF ReviewFinding, CallState, AtRest
  <2>3. call' = [call EXCEPT ![c] = AtRest] \/ call' = [call EXCEPT ![c] = [pc |-> "promote", finding |-> f]]
    BY <1>0, <1>2, <2>2 DEF ReviewFinding, SignalTypes
  <2> QED
    BY <1>2, <2>1, <2>2, <2>3, CallStep DEF ReviewFinding
<1>3. ASSUME NEW claim \in Claims, StartRetraction(c, claim)
      PROVE  SignalsInv'
  <2>1. [pc |-> "select", claim |-> claim] \in CallState
    BY DEF CallState
  <2> QED
    BY <1>0, <1>3, <2>1, CallStep DEF StartRetraction, SignalTypes
<1>4. CASE RetractionFails(c)
  BY <1>0, <1>4, CallStep DEF RetractionFails, SignalTypes, CallState, AtRest
<1> QED
  BY <1>1, <1>2, <1>3, <1>4

----------------------------------------------------------------------------
LEMMA SelectStep ==
    ASSUME SignalsInv, NEW c \in Calls, SelectBatch(c)
    PROVE  SignalsInv'
<1> USE DEF SignalsInv
<1> DEFINE claim == call[c].claim
           free == Selectable(claim)
<1>0. SignalTypes /\ BatchesApart /\ claim \in Claims /\ call[c].pc = "select"
  BY SignalsTypes, CallIs DEF SelectBatch
<1>1. PICK batch \in kSubset(Min({BatchSize, Cardinality(free)}), free) :
        call' = [call EXCEPT ![c] = [pc |-> "commit", claim |-> claim, batch |-> batch,
                                     late |-> Unretracted(claim) \cap Locked]]
  BY DEF SelectBatch
<1>2. batch \subseteq free /\ Cardinality(batch) = Min({BatchSize, Cardinality(free)})
  BY DEF kSubset
<1>3. free = Unretracted(claim) \ Locked /\ Unretracted(claim) \subseteq Hashes
  BY DEF Selectable, Unretracted, Stored
<1>4. UNCHANGED <<signals, task, finding, resaved>>
  BY DEF SelectBatch
<1>5. SignalTypes'
  BY <1>0, <1>1, <1>2, <1>3, <1>4 DEF SignalTypes, CallState
<1>6. \A d \in Calls : d # c => call'[d] = call[d]
  BY <1>0, <1>1 DEF SignalTypes
<1>7. call'[c] = [pc |-> "commit", claim |-> claim, batch |-> batch,
                  late |-> Unretracted(claim) \cap Locked]
  BY <1>0, <1>1 DEF SignalTypes
<1>8. \A d \in Calls : call[d].pc = "commit" => call[d].batch \subseteq Locked
  BY DEF Locked
<1>9. BatchesApart'
  BY <1>0, <1>2, <1>3, <1>6, <1>7, <1>8 DEF BatchesApart
<1>10. Cardinality(batch) < BatchSize => Unretracted(claim) \subseteq batch \cup (Unretracted(claim) \cap Locked)
  <2> SUFFICES ASSUME Cardinality(batch) < BatchSize
               PROVE  batch = free
    BY <1>3
  <2>1. IsFiniteSet(free)
    BY <1>3, HashesFinite, FS_Subset
  <2>2. Cardinality(free) \in Nat /\ BatchSize \in Nat
    BY <2>1, FS_CardinalityType, SignalsAssumption
  <2>3. PICK n \in {BatchSize, Cardinality(free)} : \A m \in {BatchSize, Cardinality(free)} : n <= m
    BY <2>2
  <2>4. Min({BatchSize, Cardinality(free)}) \in {BatchSize, Cardinality(free)}
    BY <2>3 DEF Min
  <2>5. Cardinality(batch) = Cardinality(free)
    BY <1>2, <2>4, <2>2
  <2> QED
    BY <1>2, <2>1, <2>5, FS_Subset
<1>11. BatchHoldsRest'
  <2>1. ASSUME NEW d \in Calls, d # c
        PROVE  HoldsRest(d)'
    BY <1>4, <1>6, <2>1 DEF BatchHoldsRest, HoldsRest, Unretracted, Stored
  <2>2. HoldsRest(c)'
    BY <1>4, <1>7, <1>10 DEF HoldsRest, Unretracted, Stored
  <2> QED
    BY <2>1, <2>2 DEF BatchHoldsRest
<1>12. RetractedIsHidden'
  BY <1>4 DEF RetractedIsHidden, Stored, Visible
<1>13. BatchStored'
  BY <1>2, <1>3, <1>4, <1>6, <1>7 DEF BatchStored, Stored, Unretracted
<1> QED
  BY <1>5, <1>9, <1>11, <1>12, <1>13, SignalsInvNext

LEMMA CommitStep ==
    ASSUME SignalsInv, NEW c \in Calls, CommitBatch(c)
    PROVE  SignalsInv'
<1> USE DEF SignalsInv
<1> DEFINE batch == call[c].batch
<1>0. SignalTypes /\ BatchesApart /\ call[c].claim \in Claims /\ batch \subseteq Hashes
  BY SignalsTypes, CallIs DEF CommitBatch
<1>1. signals' = [h \in Hashes |->
                     IF h \in batch
                     THEN [relevance |-> "LOW", status |-> "RETRACTED",
                           url |-> signals[h].url, cited |-> signals[h].cited]
                     ELSE signals[h]]
  BY DEF CommitBatch
<1>2. resaved' = resaved \ batch /\ UNCHANGED <<task, finding>>
  BY DEF CommitBatch
<1>3. call' = [call EXCEPT ![c] = AtRest] \/ call' = [call EXCEPT ![c] = [pc |-> "select", claim |-> call[c].claim]]
  BY DEF CommitBatch
<1>4. batch \subseteq Stored
  BY DEF BatchStored, CommitBatch
<1>5. /\ \A h \in Hashes \ batch : signals'[h] = signals[h]
      /\ \A h \in batch : /\ signals'[h] \in SignalRow
                          /\ signals'[h].relevance = "LOW" /\ signals'[h].status = "RETRACTED"
  <2> SUFFICES ASSUME NEW h \in batch
               PROVE  /\ signals'[h] \in SignalRow
                      /\ signals'[h].relevance = "LOW" /\ signals'[h].status = "RETRACTED"
    BY <1>1
  <2>1. signals'[h] = [relevance |-> "LOW", status |-> "RETRACTED",
                       url |-> signals[h].url, cited |-> signals[h].cited]
    BY <1>0, <1>1
  <2> QED
    BY <1>0, <1>4, <2>1, RowIs DEF SignalRow
<1>6. /\ call' \in [Calls -> CallState]
      /\ \A d \in Calls : call'[d].pc = "commit" => d # c /\ call'[d] = call[d]
  <2>1. AtRest \in CallState /\ AtRest.pc # "commit"
    BY DEF AtRest, CallState
  <2>2. [pc |-> "select", claim |-> call[c].claim] \in CallState
    BY <1>0 DEF CallState
  <2> QED
    BY <1>0, <1>3, <2>1, <2>2 DEF SignalTypes
<1>7. SignalTypes'
  BY <1>0, <1>1, <1>2, <1>5, <1>6 DEF SignalTypes
<1>8. BatchesApart'
  BY <1>0, <1>6 DEF BatchesApart
<1>9. RetractedIsHidden'
  BY <1>2, <1>5 DEF RetractedIsHidden, Stored, Visible
<1>10. BatchHoldsRest'
  <2> SUFFICES ASSUME NEW d \in Calls, call'[d].pc = "commit"
               PROVE  HoldsRest(d)'
    BY DEF BatchHoldsRest, HoldsRest
  <2>1. \A g \in Hashes : /\ signals'[g] # NoSignal /\ call[d].claim \in signals'[g].cited
                          /\ signals'[g].status # "RETRACTED"
                          => g \in Unretracted(call[d].claim)
    BY <1>5 DEF Unretracted, Stored
  <2> QED
    BY <1>0, <1>6, <2>1, RestKept
<1>11. BatchStored'
  BY <1>0, <1>5, <1>6, NoSignalIsNoRow DEF BatchStored, Stored
<1> QED
  BY <1>7, <1>8, <1>9, <1>10, <1>11, SignalsInvNext

LEMMA SignalsInvStep == SignalsInv /\ [SignalsNext]_signalsVars => SignalsInv'
<1> SUFFICES ASSUME SignalsInv, [SignalsNext]_signalsVars
             PROVE  SignalsInv'
  OBVIOUS
<1>1. CASE UNCHANGED signalsVars
  BY <1>1 DEF signalsVars, SignalsInv, SignalsTypeOK, RetractedIsHidden, BatchHoldsRest, HoldsRest,
              BatchStored, Stored, Visible, Unretracted
<1>2. CASE SignalsNext
  BY <1>2, TaskStep, SaveStep, MirrorStep, BeginStep, SelectStep, CommitStep DEF SignalsNext
<1> QED
  BY <1>1, <1>2

----------------------------------------------------------------------------
(* Only a review changes the verdict of a review: what else writes the     *)
(* column is a submission, which keeps it.                                 *)
LEMMA ReviewSurvivesStep ==
    SignalsInv /\ [SignalsNext]_signalsVars => ReviewSurvives
<1> SUFFICES ASSUME SignalsInv, [SignalsNext]_signalsVars, NEW f \in Findings,
                    finding[f] \in {"approved", "rejected"}, finding'[f] # finding[f]
             PROVE  \E c \in Calls, action \in {"approve", "reject"} : ReviewFinding(c, f, action)
  BY DEF ReviewSurvives
<1>0. finding \in [Findings -> {"none", "pending_review", "approved", "rejected"}]
  BY DEF SignalsInv, SignalsTypeOK
<1>1. CASE UNCHANGED finding
  BY <1>1
<1>2. ASSUME NEW c \in Calls, NEW g \in Findings, NEW r \in Submissions, SubmitFinding(c, g, r)
      PROVE  FALSE
  BY <1>0, <1>2 DEF SubmitFinding, Inserted
<1>3. ASSUME NEW c \in Calls, NEW g \in Findings, NEW action \in {"approve", "reject"},
             ReviewFinding(c, g, action)
      PROVE  g = f
  BY <1>0, <1>3 DEF ReviewFinding
<1>4. \/ UNCHANGED finding
      \/ \E c \in Calls, g \in Findings :
            \/ \E r \in Submissions : SubmitFinding(c, g, r)
            \/ \E action \in {"approve", "reject"} : ReviewFinding(c, g, action)
  BY DEF SignalsNext, signalsVars, EnqueueExtraction, Extract, ResolveCompany, Skip, SaveSignal,
         TaskFails, MirrorFinding, PromoteFinding, StartRetraction, SelectBatch, CommitBatch,
         RetractionFails
<1> QED
  BY <1>1, <1>2, <1>3, <1>4

(* The last batch is not full, and so held all but the late rows.          *)
LEMMA RetractionLeavesNoneStep == SignalsInv => RetractionLeavesNone
<1> SUFFICES ASSUME SignalsInv, NEW c \in Calls, CommitBatch(c), call'[c] = AtRest
             PROVE  {h \in Hashes : /\ signals'[h] # NoSignal /\ call[c].claim \in signals'[h].cited
                                    /\ signals'[h].status # "RETRACTED"} \subseteq call[c].late
  BY DEF RetractionLeavesNone
<1>1. Cardinality(call[c].batch) < BatchSize
  <2>1. call'[c] = IF IsLast(call[c].batch) THEN AtRest
                   ELSE [pc |-> "select", claim |-> call[c].claim]
    BY DEF SignalsInv, SignalsTypeOK, CommitBatch
  <2>2. [pc |-> "select", claim |-> call[c].claim].pc # AtRest.pc
    BY DEF AtRest
  <2> QED
    BY <2>1, <2>2 DEF IsLast
<1>2. Unretracted(call[c].claim) \subseteq call[c].batch \cup call[c].late
  BY <1>1 DEF SignalsInv, BatchHoldsRest, HoldsRest, CommitBatch
<1>3. \A h \in Hashes : signals'[h] = IF h \in call[c].batch
                                     THEN [relevance |-> "LOW", status |-> "RETRACTED",
                                           url |-> signals[h].url, cited |-> signals[h].cited]
                                     ELSE signals[h]
  BY DEF CommitBatch
<1>4. ASSUME NEW h \in Hashes, signals'[h] # NoSignal, call[c].claim \in signals'[h].cited,
             signals'[h].status # "RETRACTED"
      PROVE  h \in call[c].late
  <2>1. h \notin call[c].batch
    <3>1. [relevance |-> "LOW", status |-> "RETRACTED", url |-> signals[h].url,
           cited |-> signals[h].cited].status = "RETRACTED"
      OBVIOUS
    <3> QED
      BY <1>3, <1>4, <3>1
  <2>2. signals'[h] = signals[h]
    BY <1>3, <2>1
  <2>3. h \in Unretracted(call[c].claim)
    BY <1>4, <2>2 DEF Unretracted, Stored
  <2> QED
    BY <1>2, <2>1, <2>3
<1> QED
  BY <1>4

----------------------------------------------------------------------------
(* Registers: a registration and the number in the row of its company.     *)

RegistersInv == RegistersTypeOK /\ RegisteredHasNumber

(* The row of a company that is there, and what a registration refers to.  *)
HouseRow == [is : {"house"}, ahu : Deeds \cup {Null}, nib : Permits \cup {Null},
             kbli : Codes \cup {Null}]
DeedTo(n, c) == deed[n] # Missing /\ deed[n].of = c
PermitTo(n, c) == permit[n] # Missing /\ permit[n].of = c

(* The invariant without its choices: a company that a registration refers *)
(* to has a number of that register in its row.                            *)
Numbers ==
    /\ \A n \in Deeds, c \in Houses : DeedTo(n, c) => There(c) /\ house[c].ahu \in Deeds
    /\ \A n \in Permits, c \in Houses : PermitTo(n, c) => There(c) /\ house[c].nib \in Permits

LEMMA NumbersAreShown == RegistersTypeOK => (Numbers <=> RegisteredHasNumber)
<1> SUFFICES ASSUME RegistersTypeOK
             PROVE  Numbers <=> RegisteredHasNumber
  OBVIOUS
<1>1. \A n \in Deeds : deed[n] # Missing =>
         deed[n].of \in Houses \cup {Null} /\ (deed[n].of \in Houses <=> deed[n].of # Null)
  BY RegistersAssumption DEF RegistersTypeOK, Deed
<1>2. \A n \in Permits : permit[n] # Missing =>
         permit[n].of \in Houses \cup {Null} /\ (permit[n].of \in Houses <=> permit[n].of # Null)
  BY RegistersAssumption DEF RegistersTypeOK, Permit
<1>3. \A c \in Houses : ShownDeeds(c) # {} <=> There(c) /\ house[c].ahu \in Deeds
  BY DEF ShownDeeds
<1>4. \A c \in Houses : ShownPermits(c) # {} <=> There(c) /\ house[c].nib \in Permits
  BY DEF ShownPermits
<1> QED
  BY <1>1, <1>2, <1>3, <1>4
     DEF Numbers, RegisteredHasNumber, DeedTo, PermitTo, GetByAHUNumber, GetByNIB

LEMMA RegistersInvInit == RegistersInit => RegistersInv
  BY DEF RegistersInit, RegistersInv, RegistersTypeOK, RegisteredHasNumber, GetByAHUNumber,
         GetByNIB, Missing

(* What a step may do with a register: one number gets a company that is   *)
(* there afterwards with a number of that register, or none, and no        *)
(* company that is referred to loses row or number.                        *)
LEMMA HousesKept ==
    ASSUME RegistersTypeOK, Numbers, NEW c \in Houses, house[c] # Missing,
           NEW row \in HouseRow, house' = [house EXCEPT ![c] = row],
           row.ahu # house[c].ahu => row.ahu \in Deeds,
           row.nib # house[c].nib => row.nib \in Permits
    PROVE  /\ house' \in [Houses -> {Missing} \cup HouseRow]
           /\ \A d \in Houses : There(d) => There(d)'
           /\ \A d \in Houses : There(d) /\ house[d].ahu \in Deeds => house'[d].ahu \in Deeds
           /\ \A d \in Houses : There(d) /\ house[d].nib \in Permits => house'[d].nib \in Permits
<1>1. house \in [Houses -> {Missing} \cup HouseRow]
  BY DEF RegistersTypeOK, HouseRow
<1>2. row # Missing
  BY DEF HouseRow, Missing
<1> QED
  BY <1>1, <1>2 DEF There

LEMMA RowOf == RegistersTypeOK => \A c \in Houses : There(c) => house[c] \in HouseRow
  BY DEF RegistersTypeOK, HouseRow, There

LEMMA DeedsStep ==
    ASSUME RegistersTypeOK, Numbers,
           \/ \E n \in Deeds, given \in Present \cup {Null} : UpsertAHU(n, given)
           \/ \E n \in Deeds, c \in Present : LinkCompanyAHU(c, n)
    PROVE  RegistersTypeOK' /\ Numbers'
<1>1. PICK n \in Deeds, c \in Houses \cup {Null} :
         /\ c # Null => There(c) /\ house' = [house EXCEPT ![c].ahu = n]
         /\ c = Null => house' = house
         /\ deed' = [deed EXCEPT ![n] = Deed(c)] \/ (c # Null /\ deed' = deed)
         /\ permit' = permit
  <2>1. ASSUME NEW n \in Deeds, NEW given \in Present \cup {Null}, UpsertAHU(n, given)
        PROVE  \E c \in Houses \cup {Null} :
                 /\ c # Null => There(c) /\ house' = [house EXCEPT ![c].ahu = n]
                 /\ c = Null => house' = house
                 /\ deed' = [deed EXCEPT ![n] = Deed(c)]
                 /\ permit' = permit
    <3>1. OfDeed(n) # Null => OfDeed(n) \in Houses /\ There(OfDeed(n))
      BY RegistersAssumption DEF RegistersTypeOK, Numbers, OfDeed, DeedTo, Deed
    <3>2. FirstOf(given, OfDeed(n)) \in Houses \cup {Null}
      BY <3>1 DEF FirstOf, Present
    <3>3. FirstOf(given, OfDeed(n)) # Null => There(FirstOf(given, OfDeed(n)))
      BY <3>1 DEF FirstOf, Present
    <3> QED
      BY <2>1, <3>2, <3>3 DEF UpsertAHU, Numbered
  <2>2. ASSUME NEW n \in Deeds, NEW c \in Present, LinkCompanyAHU(c, n)
        PROVE  /\ c \in Houses /\ c # Null /\ There(c) /\ house' = [house EXCEPT ![c].ahu = n]
               /\ deed' = [deed EXCEPT ![n] = Deed(c)] \/ deed' = deed
               /\ permit' = permit
    BY <2>2, RegistersAssumption DEF LinkCompanyAHU, Present
  <2> QED
    BY <2>1, <2>2
<1>2. deed' \in [Deeds -> {Missing} \cup {Deed(d) : d \in Houses \cup {Null}}]
  BY <1>1 DEF RegistersTypeOK
<1>3. ASSUME NEW d \in Houses
      PROVE  /\ house' \in [Houses -> {Missing} \cup HouseRow]
             /\ There(d) => There(d)'
             /\ There(d) /\ house[d].ahu \in Deeds => house'[d].ahu \in Deeds
             /\ There(d) /\ house[d].nib \in Permits => house'[d].nib \in Permits
  <2>1. CASE c = Null
    BY <1>1, <2>1 DEF There, RegistersTypeOK, HouseRow
  <2>2. CASE c # Null
    <3>1. house[c] \in HouseRow /\ c \in Houses /\ house[c] # Missing
      BY <1>1, <2>2, RowOf DEF There
    <3>2. /\ [house[c] EXCEPT !.ahu = n] \in HouseRow
          /\ house' = [house EXCEPT ![c] = [house[c] EXCEPT !.ahu = n]]
          /\ [house[c] EXCEPT !.ahu = n].ahu = n /\ [house[c] EXCEPT !.ahu = n].nib = house[c].nib
      BY <1>1, <2>2, <3>1 DEF HouseRow
    <3> HIDE DEF HouseRow
    <3> QED
      BY <3>1, <3>2, HousesKept
  <2> QED
    BY <2>1, <2>2
<1>4. c # Null => There(c)' /\ house'[c].ahu \in Deeds
  <2>1. c # Null => house[c] \in HouseRow /\ c \in Houses
    BY <1>1, RowOf
  <2> QED
    BY <1>1, <2>1 DEF There, HouseRow, Missing, RegistersTypeOK
<1>5. \A m \in Deeds, d \in Houses : DeedTo(m, d)' => DeedTo(m, d) \/ d = c
  BY <1>1, RegistersAssumption DEF DeedTo, Deed, RegistersTypeOK
<1>6. \A m \in Permits, d \in Houses : PermitTo(m, d)' <=> PermitTo(m, d)
  BY <1>1 DEF PermitTo
<1>7. c = Null => c \notin Houses
  BY RegistersAssumption
<1>8. Numbers'
  BY <1>3, <1>4, <1>5, <1>6, <1>7 DEF Numbers
<1> QED
  BY <1>1, <1>2, <1>3, <1>8 DEF RegistersTypeOK, HouseRow

LEMMA NumberingIs ==
    \A old \in HouseRow : \A m, k :
        Numbering(old, m, k) = [is |-> old.is, ahu |-> old.ahu, nib |-> m,
                                kbli |-> FirstOf(old.kbli, k)]
  BY DEF Numbering

LEMMA PermitsStep ==
    ASSUME RegistersTypeOK, Numbers,
           \/ \E n \in Permits, given \in Present \cup {Null}, code \in Codes \cup {Null} :
                 UpsertNIB(n, given, code)
           \/ \E n \in Permits, c \in Present : LinkCompanyNIB(c, n)
    PROVE  RegistersTypeOK' /\ Numbers'
<1>1. PICK n \in Permits, c \in Houses \cup {Null}, code \in Codes \cup {Null},
           known \in Codes \cup {Null} :
         /\ c # Null => There(c) /\ house' = [house EXCEPT ![c] = Numbering(@, n, known)]
         /\ c = Null => house' = house
         /\ permit' = [permit EXCEPT ![n] = Permit(c, code)] \/ (c # Null /\ permit' = permit)
         /\ deed' = deed
  <2>1. \A n \in Permits : CodeOf(n) \in Codes \cup {Null}
    BY DEF CodeOf, RegistersTypeOK, Permit
  <2>2. ASSUME NEW n \in Permits, NEW given \in Present \cup {Null},
               NEW known \in Codes \cup {Null}, UpsertNIB(n, given, known)
        PROVE  \E c \in Houses \cup {Null}, code \in Codes \cup {Null} :
                 /\ c # Null => There(c) /\ house' = [house EXCEPT ![c] = Numbering(@, n, known)]
                 /\ c = Null => house' = house
                 /\ permit' = [permit EXCEPT ![n] = Permit(c, code)]
                 /\ deed' = deed
    <3>1. OfPermit(n) # Null => OfPermit(n) \in Houses /\ There(OfPermit(n))
      BY RegistersAssumption DEF RegistersTypeOK, Numbers, OfPermit, PermitTo, Permit
    <3>2. FirstOf(given, OfPermit(n)) \in Houses \cup {Null}
      BY <3>1 DEF FirstOf, Present
    <3>3. FirstOf(given, OfPermit(n)) # Null => There(FirstOf(given, OfPermit(n)))
      BY <3>1 DEF FirstOf, Present
    <3>4. FirstOf(known, CodeOf(n)) \in Codes \cup {Null}
      BY <2>1 DEF FirstOf
    <3> QED
      BY <2>2, <3>2, <3>3, <3>4 DEF UpsertNIB
  <2>3. ASSUME NEW n \in Permits, NEW c \in Present, LinkCompanyNIB(c, n)
        PROVE  /\ c \in Houses /\ c # Null /\ There(c)
               /\ house' = [house EXCEPT ![c] = Numbering(@, n, CodeOf(n))]
               /\ permit' = [permit EXCEPT ![n] = Permit(c, CodeOf(n))] \/ permit' = permit
               /\ deed' = deed
    BY <2>3, RegistersAssumption DEF LinkCompanyNIB, Present
  <2> DEFINE Out(n, c, code, known) ==
         /\ c # Null => There(c) /\ house' = [house EXCEPT ![c] = Numbering(@, n, known)]
         /\ c = Null => house' = house
         /\ permit' = [permit EXCEPT ![n] = Permit(c, code)] \/ (c # Null /\ permit' = permit)
         /\ deed' = deed
  <2>4. ASSUME NEW n \in Permits, NEW given \in Present \cup {Null},
               NEW known \in Codes \cup {Null}, UpsertNIB(n, given, known)
        PROVE  \E c \in Houses \cup {Null}, code \in Codes \cup {Null} : Out(n, c, code, known)
    BY <2>2, <2>4
  <2>5. ASSUME NEW n \in Permits, NEW c \in Present, LinkCompanyNIB(c, n)
        PROVE  /\ c \in Houses \cup {Null}
               /\ CodeOf(n) \in Codes \cup {Null}
               /\ Out(n, c, CodeOf(n), CodeOf(n))
    BY <2>1, <2>3, <2>5
  <2>6. \E n \in Permits, c \in Houses \cup {Null}, code \in Codes \cup {Null},
           known \in Codes \cup {Null} : Out(n, c, code, known)
    <3> HIDE DEF Out
    <3> QED
      BY <2>4, <2>5
  <2> QED
    BY <2>6
<1>2. permit' \in [Permits -> {Missing} \cup {Permit(d, k) : d \in Houses \cup {Null},
                                                             k \in Codes \cup {Null}}]
  BY <1>1 DEF RegistersTypeOK
<1>3. ASSUME NEW d \in Houses
      PROVE  /\ house' \in [Houses -> {Missing} \cup HouseRow]
             /\ There(d) => There(d)'
             /\ There(d) /\ house[d].ahu \in Deeds => house'[d].ahu \in Deeds
             /\ There(d) /\ house[d].nib \in Permits => house'[d].nib \in Permits
  <2>1. CASE c = Null
    BY <1>1, <2>1 DEF There, RegistersTypeOK, HouseRow
  <2>2. CASE c # Null
    <3> DEFINE after == Numbering(house[c], n, known)
    <3>1. house[c] \in HouseRow /\ c \in Houses /\ house[c] # Missing
      BY <1>1, <2>2, RowOf DEF There
    <3>2. /\ after \in HouseRow /\ house' = [house EXCEPT ![c] = after]
          /\ after.nib = n /\ after.ahu = house[c].ahu
      <4>1. FirstOf(house[c].kbli, known) \in Codes \cup {Null}
        BY <3>1 DEF HouseRow, FirstOf
      <4>2. after = [is |-> house[c].is, ahu |-> house[c].ahu, nib |-> n,
                   kbli |-> FirstOf(house[c].kbli, known)]
        BY <3>1, NumberingIs
      <4>3. after \in HouseRow /\ after.nib = n /\ after.ahu = house[c].ahu
        BY <3>1, <4>1, <4>2 DEF HouseRow
      <4>4. house' = [house EXCEPT ![c] = after]
        BY <1>1, <2>2
      <4> QED
        BY <4>3, <4>4
    <3> HIDE DEF HouseRow, after
    <3> QED
      BY <3>1, <3>2, HousesKept
  <2> QED
    BY <2>1, <2>2
<1>4. c # Null => There(c)' /\ house'[c].nib \in Permits
  <2> SUFFICES ASSUME c # Null
               PROVE  There(c)' /\ house'[c].nib \in Permits
    OBVIOUS
  <2>1. house[c] \in HouseRow /\ c \in Houses
    BY <1>1, RowOf
  <2>2. house'[c] = Numbering(house[c], n, known)
    BY <1>1, <2>1 DEF RegistersTypeOK
  <2>3. house'[c] = [is |-> house[c].is, ahu |-> house[c].ahu, nib |-> n,
                     kbli |-> FirstOf(house[c].kbli, known)]
    BY <2>1, <2>2, NumberingIs
  <2> QED
    BY <2>1, <2>3 DEF There, Missing
<1>5. \A m \in Permits, d \in Houses : PermitTo(m, d)' => PermitTo(m, d) \/ d = c
  BY <1>1, RegistersAssumption DEF PermitTo, Permit, RegistersTypeOK
<1>6. \A m \in Deeds, d \in Houses : DeedTo(m, d)' <=> DeedTo(m, d)
  BY <1>1 DEF DeedTo
<1>7. c = Null => c \notin Houses
  BY RegistersAssumption
<1>8. Numbers'
  BY <1>3, <1>4, <1>5, <1>6, <1>7 DEF Numbers
<1> QED
  BY <1>1, <1>2, <1>3, <1>8 DEF RegistersTypeOK, HouseRow

LEMMA CompanyStep ==
    ASSUME RegistersTypeOK, Numbers, NEW c \in Present,
           RemoveCompany(c) \/ \E code \in Codes : LinkCompanyKBLI(c, code)
    PROVE  RegistersTypeOK' /\ Numbers'
<1>0. c \in Houses /\ There(c) /\ c # Null /\ house[c] \in HouseRow
  BY RegistersAssumption, RowOf DEF Present
<1>1. CASE RemoveCompany(c)
  <2>1. /\ house' = [house EXCEPT ![c] = Missing]
        /\ deed' = [n \in Deeds |-> IF OfDeed(n) = c THEN Deed(Null) ELSE deed[n]]
        /\ permit' = [n \in Permits |-> IF OfPermit(n) = c THEN Permit(Null, CodeOf(n))
                                        ELSE permit[n]]
    BY <1>1 DEF RemoveCompany
  <2>2. \A n \in Permits : CodeOf(n) \in Codes \cup {Null}
    BY DEF CodeOf, RegistersTypeOK, Permit
  <2>3. RegistersTypeOK'
    BY <2>1, <2>2, <1>0 DEF RegistersTypeOK
  <2>4. \A n \in Deeds, d \in Houses : DeedTo(n, d)' => DeedTo(n, d) /\ d # c
    BY <1>0, <2>1, RegistersAssumption DEF DeedTo, OfDeed, Deed
  <2>5. \A n \in Permits, d \in Houses : PermitTo(n, d)' => PermitTo(n, d) /\ d # c
    BY <1>0, <2>1, RegistersAssumption DEF PermitTo, OfPermit, Permit
  <2>6. \A d \in Houses : d # c => house'[d] = house[d]
    BY <2>1 DEF RegistersTypeOK
  <2> QED
    BY <2>3, <2>4, <2>5, <2>6 DEF Numbers, There
<1>2. ASSUME NEW code \in Codes, LinkCompanyKBLI(c, code)
      PROVE  RegistersTypeOK' /\ Numbers'
  <2>1. house' = [house EXCEPT ![c].kbli = code] /\ UNCHANGED <<deed, permit>>
    BY <1>2 DEF LinkCompanyKBLI
  <2>2. \A d \in Houses : There(d)' = There(d) /\ (There(d) => /\ house'[d] \in HouseRow
                              /\ house'[d].ahu = house[d].ahu /\ house'[d].nib = house[d].nib)
    BY <1>0, <2>1, RowOf DEF There, HouseRow, Missing, RegistersTypeOK
  <2>3. house' \in [Houses -> {Missing} \cup HouseRow]
    BY <1>0, <2>1, <2>2 DEF RegistersTypeOK, HouseRow, There
  <2> QED
    BY <2>1, <2>2, <2>3 DEF Numbers, RegistersTypeOK, DeedTo, PermitTo, HouseRow
<1> QED
  BY <1>1, <1>2

LEMMA RegistersInvStep == RegistersInv /\ [RegistersNext]_registersVars => RegistersInv'
<1> SUFFICES ASSUME RegistersInv, [RegistersNext]_registersVars
             PROVE  RegistersInv'
  OBVIOUS
<1>1. RegistersTypeOK /\ Numbers
  BY NumbersAreShown DEF RegistersInv
<1>2. RegistersTypeOK' /\ Numbers'
  <2>1. CASE UNCHANGED registersVars
    BY <1>1, <2>1 DEF registersVars, RegistersTypeOK, Numbers, DeedTo, PermitTo, There
  <2>2. CASE RegistersNext
    BY <1>1, <2>2, DeedsStep, PermitsStep, CompanyStep DEF RegistersNext
  <2> QED
    BY <2>1, <2>2
<1>3. (RegistersTypeOK => (Numbers <=> RegisteredHasNumber))'
  BY NumbersAreShown, PTL
<1> QED
  BY <1>2, <1>3 DEF RegistersInv

----------------------------------------------------------------------------
(* Monitoring: parents, watched companies, key persons and posts name      *)
(* companies that exist.                                                   *)

(* The invariant column by column: who names whom.                         *)
WatchExists == \A c \in Concerns : watch[c] # Unwatched => Exists(c)
PersonsExist == \A p \in Persons : person[p] # NoOne => Exists(person[p])
ParentsExist == \A c, d \in Concerns : parent[d] = Concern(c) => Exists(c)
PostKept(u) ==
    /\ Exists(post[u].of) /\ (post[u].by # NoOne => person[post[u].by] # NoOne)
    /\ post[u].of = first[u] /\ (post[u].plea => post[u].act)
PostsKept == \A u \in Posts : post[u] # Nowhere => PostKept(u)

(* A merge at work keeps the duplicate, the people it moves in it, and the *)
(* company these go to.                                                    *)
MergeKept ==
    merge # NoMerge =>
       /\ Exists(merge.from) /\ merge.from # merge.into
       /\ \A p \in merge.moved : person[p] = merge.from
       /\ merge.moved # {} => Exists(merge.into)

MonitoringInv == MonitoringTypeOK /\ WatchedExists /\ MergeKept

ConcernRows == {Nowhere} \cup {Concern(c) : c \in Concerns \cup {NoOne}}
PostRow == [is : {"post"}, of : Concerns, by : Persons \cup {NoOne}, plea : BOOLEAN, act : BOOLEAN]

LEMMA ByColumn ==
    MonitoringTypeOK => (WatchedExists <=> WatchExists /\ PersonsExist /\ ParentsExist /\ PostsKept)
<1> SUFFICES ASSUME MonitoringTypeOK
             PROVE  WatchedExists <=> WatchExists /\ PersonsExist /\ ParentsExist /\ PostsKept
  OBVIOUS
<1>1. ListAllWatchlist \subseteq Existing <=> WatchExists
  BY DEF ListAllWatchlist, Existing, WatchExists
<1>2. \A c \in Concerns : GetCompanyHierarchy(c).below = {d \in Concerns : parent[d] = Concern(c)}
  BY DEF GetCompanyHierarchy, GetCompanySubsidiaries
<1>3. (\A c \in Concerns : GetCompanyHierarchy(c).below # {} => Exists(c)) <=> ParentsExist
  BY <1>2 DEF ParentsExist
<1>4. ASSUME NEW u \in Posts, post[u] # Nowhere
      PROVE  (/\ Exists(post[u].of) /\ (post[u].by # NoOne => person[post[u].by] # NoOne)
              /\ u \in GetSocialSignalsByCompanyID(first[u])
              /\ post[u].plea => u \in GetActionableSignals(post[u].of)) <=> PostKept(u)
  BY <1>4 DEF PostKept, GetSocialSignalsByCompanyID, GetActionableSignals
<1> QED
  BY <1>1, <1>3, <1>4 DEF WatchedExists, PersonsExist, PostsKept

LEMMA MergeFields ==
    ASSUME MonitoringTypeOK, merge # NoMerge
    PROVE  merge.from \in Concerns /\ merge.into \in Concerns /\ merge.moved \in SUBSET Persons
  BY DEF MonitoringTypeOK, Merge

LEMMA MonitoringInvInit == MonitoringInit => MonitoringInv
<1> SUFFICES ASSUME MonitoringInit
             PROVE  MonitoringTypeOK /\ WatchExists /\ PersonsExist /\ ParentsExist /\ PostsKept
                    /\ MergeKept
  BY ByColumn DEF MonitoringInv
<1>1. MonitoringTypeOK
  BY DEF MonitoringInit, MonitoringTypeOK
<1>2. WatchExists /\ PersonsExist /\ PostsKept /\ MergeKept
  BY DEF MonitoringInit, WatchExists, PersonsExist, PostsKept, MergeKept
<1>3. ParentsExist
  BY MonitoringAssumption DEF MonitoringInit, ParentsExist, Concern, Nowhere
<1> QED
  BY <1>1, <1>2, <1>3

(* A merge at work is kept by what takes no company away and moves nobody. *)
LEMMA MergeStays ==
    ASSUME MonitoringTypeOK, MergeKept, merge' = merge,
           \A c \in Concerns : parent[c] # Nowhere => parent'[c] # Nowhere,
           \A p \in Persons : merge # NoMerge /\ p \in merge.moved /\ person[p] # NoOne =>
                                 person'[p] = person[p]
    PROVE  MergeKept'
<1> SUFFICES ASSUME merge # NoMerge
             PROVE  /\ parent'[merge.from] # Nowhere /\ merge.from # merge.into
                    /\ \A p \in merge.moved : person'[p] = merge.from
                    /\ merge.moved # {} => parent'[merge.into] # Nowhere
  BY DEF MergeKept, Exists
<1>1. merge.from \in Concerns /\ merge.into \in Concerns /\ merge.moved \in SUBSET Persons
  BY MergeFields
<1>2. /\ parent[merge.from] # Nowhere /\ merge.from # merge.into
      /\ \A p \in merge.moved : person[p] = merge.from
      /\ merge.moved # {} => parent[merge.into] # Nowhere
  BY DEF MergeKept, Exists
<1>3. \A p \in merge.moved : person[p] # NoOne
  BY <1>1, <1>2, MonitoringAssumption
<1> QED
  BY <1>1, <1>2, <1>3

(* A company that is made, or gets a parent that exists, takes nothing     *)
(* from what names another.                                                *)
LEMMA ParentStep ==
    ASSUME MonitoringTypeOK, WatchExists, PersonsExist, ParentsExist, PostsKept, MergeKept,
           parent' \in [Concerns -> ConcernRows],
           \A c \in Concerns : Exists(c) => Exists(c)',
           \A c, d \in Concerns : parent'[d] = Concern(c) => Exists(c)',
           UNCHANGED <<watch, person, post, merge, first>>,
           watcher' \in [Watchers -> {NoRequest} \cup
                                     {Request(c, a) : c \in Concerns, a \in {"on", "off"}}]
    PROVE  MonitoringTypeOK' /\ WatchExists' /\ PersonsExist' /\ ParentsExist' /\ PostsKept'
             /\ MergeKept'
<1>1. MonitoringTypeOK'
  BY DEF MonitoringTypeOK, ConcernRows
<1>2. WatchExists' /\ PersonsExist' /\ ParentsExist'
  BY DEF WatchExists, PersonsExist, ParentsExist, MonitoringTypeOK
<1>3. PostsKept'
  BY DEF PostsKept, PostKept, MonitoringTypeOK, Nowhere
<1>4. MergeKept'
  BY MergeStays DEF Exists
<1> QED
  BY <1>1, <1>2, <1>3, <1>4

(* What a removal of companies and people leaves: the people who stay are  *)
(* in companies that stay.                                                 *)
LEMMA RemovalStep ==
    ASSUME MonitoringTypeOK, WatchExists, ParentsExist, PostsKept,
           NEW lost \in SUBSET Concerns, NEW leaving \in SUBSET Persons,
           RemoveCompanies(lost, leaving),
           person' \in [Persons -> Concerns \cup {NoOne}],
           \A p \in Persons : person'[p] # NoOne => Exists(person'[p]) /\ person'[p] \notin lost,
           \A p \in Persons : person[p] # NoOne /\ p \notin leaving => person'[p] # NoOne,
           merge' = NoMerge \/ merge' = merge
    PROVE  /\ MonitoringTypeOK' /\ WatchExists' /\ PersonsExist' /\ ParentsExist' /\ PostsKept'
           /\ \A e \in Concerns : Exists(e) /\ e \notin lost => Exists(e)'
<1>0. \A c \in Concerns : Concern(c) # Nowhere /\ Concern(NoOne) # Concern(c)
         /\ \A d \in Concerns : Concern(c) = Concern(d) => c = d
  BY MonitoringAssumption DEF Concern, Nowhere
<1>1. \A e \in Concerns : /\ e \notin lost /\ parent[e] # Nowhere => parent'[e] # Nowhere
                          /\ parent'[e] \in ConcernRows
                          /\ \A f \in Concerns : parent'[e] = Concern(f) =>
                                                    f \notin lost /\ parent[e] = Concern(f)
  <2> SUFFICES ASSUME NEW e \in Concerns
               PROVE  /\ e \notin lost /\ parent[e] # Nowhere => parent'[e] # Nowhere
                      /\ parent'[e] \in ConcernRows
                      /\ \A f \in Concerns : parent'[e] = Concern(f) =>
                                                f \notin lost /\ parent[e] = Concern(f)
    OBVIOUS
  <2>1. parent'[e] = IF e \in lost THEN Nowhere
                     ELSE IF \E c \in lost : parent[e] = Concern(c) THEN Concern(NoOne)
                     ELSE parent[e]
    BY DEF RemoveCompanies
  <2>2. parent[e] \in ConcernRows
    BY DEF MonitoringTypeOK, ConcernRows
  <2>3. Nowhere \in ConcernRows /\ Concern(NoOne) \in ConcernRows /\ Concern(NoOne) # Nowhere
    BY DEF ConcernRows, Concern, Nowhere
  <2> QED
    BY <1>0, <2>1, <2>2, <2>3
<1>2. /\ parent' \in [Concerns -> ConcernRows] /\ watcher' = watcher
      /\ watch' \in [Concerns -> {Unwatched, "on", "off"}]
      /\ \A c \in Concerns : watch'[c] # Unwatched => c \notin lost /\ watch[c] # Unwatched
  BY <1>1 DEF RemoveCompanies, MonitoringTypeOK
<1>3. /\ post' \in [Posts -> {Nowhere} \cup PostRow]
      /\ first' \in [Posts -> Concerns \cup {NoOne}]
      /\ \A u \in Posts : post'[u] # Nowhere =>
            /\ post[u] # Nowhere /\ post'[u] = post[u] /\ first'[u] = first[u]
            /\ post[u].of \notin lost /\ post[u].by \notin leaving
  <2> DEFINE gone(u) == post[u] # Nowhere /\ (post[u].of \in lost \/ post[u].by \in leaving)
  <2>1. /\ post' = [u \in Posts |-> IF gone(u) THEN Nowhere ELSE post[u]]
        /\ first' = [u \in Posts |-> IF gone(u) THEN NoOne ELSE first[u]]
    BY DEF RemoveCompanies, Cascade
  <2>2. post \in [Posts -> {Nowhere} \cup PostRow] /\ first \in [Posts -> Concerns \cup {NoOne}]
    BY DEF MonitoringTypeOK, PostRow
  <2>3. \A u \in Posts : post[u] # Nowhere /\ ~gone(u) =>
           post[u].of \notin lost /\ post[u].by \notin leaving
    OBVIOUS
  <2> HIDE DEF gone
  <2>4. \A u \in Posts : /\ post'[u] = IF gone(u) THEN Nowhere ELSE post[u]
                         /\ first'[u] = IF gone(u) THEN NoOne ELSE first[u]
    BY <2>1
  <2>5. post' \in [Posts -> {Nowhere} \cup PostRow] /\ first' \in [Posts -> Concerns \cup {NoOne}]
    BY <2>1, <2>2
  <2> QED
    BY <2>3, <2>4, <2>5
<1>4. MonitoringTypeOK'
  BY <1>2, <1>3 DEF MonitoringTypeOK, ConcernRows, PostRow
<1>5. \A e \in Concerns : Exists(e) /\ e \notin lost => Exists(e)'
  BY <1>1 DEF Exists
<1>6. PersonsExist'
  <2> SUFFICES ASSUME NEW p \in Persons, person'[p] # NoOne
               PROVE  Exists(person[p])'
    BY DEF PersonsExist
  <2>1. person'[p] \in Concerns /\ Exists(person'[p]) /\ person'[p] \notin lost
    OBVIOUS
  <2> QED
    BY <1>5, <2>1 DEF Exists
<1>7. WatchExists' /\ ParentsExist'
  BY <1>1, <1>2, <1>5 DEF WatchExists, ParentsExist, MonitoringTypeOK
<1>8. PostsKept'
  <2> SUFFICES ASSUME NEW u \in Posts, post'[u] # Nowhere
               PROVE  PostKept(u)'
    BY DEF PostsKept, Nowhere
  <2>1. /\ post[u] # Nowhere /\ post'[u] = post[u] /\ first'[u] = first[u]
        /\ post[u].of \notin lost /\ post[u].by \notin leaving
    BY <1>3
  <2>2. post[u] \in PostRow /\ PostKept(u)
    BY <2>1 DEF PostsKept, MonitoringTypeOK, PostRow
  <2>3. post[u].of \in Concerns /\ post[u].by \in Persons \cup {NoOne}
    BY <2>2 DEF PostRow
  <2>4. Exists(post[u].of)'
    BY <1>5, <2>1, <2>2, <2>3 DEF PostKept
  <2>5. post[u].by # NoOne => person'[post[u].by] # NoOne
    BY <2>1, <2>2, <2>3 DEF PostKept
  <2> QED
    BY <2>1, <2>2, <2>4, <2>5 DEF PostKept, Exists
<1> QED
  BY <1>4, <1>5, <1>6, <1>7, <1>8

LEMMA MonitoringActs ==
    ASSUME MonitoringTypeOK, WatchExists, PersonsExist, ParentsExist, PostsKept, MergeKept,
           MonitoringNext
    PROVE  MonitoringTypeOK' /\ WatchExists' /\ PersonsExist' /\ ParentsExist' /\ PostsKept'
             /\ MergeKept'
<1>0. \A c \in Concerns : Concern(c) # Nowhere /\ Concern(NoOne) # Concern(c)
         /\ \A d \in Concerns : Concern(c) = Concern(d) => c = d
  BY MonitoringAssumption DEF Concern, Nowhere
<1>1. ASSUME NEW k \in Watchers, NEW c \in Concerns, NEW named \in BOOLEAN,
             AddWatchlistCompany(k, c, named)
      PROVE  MonitoringTypeOK' /\ WatchExists' /\ PersonsExist' /\ ParentsExist' /\ PostsKept'
             /\ MergeKept'
  <2>1. parent' \in [Concerns -> ConcernRows]
    BY <1>1 DEF AddWatchlistCompany, MonitoringTypeOK, ConcernRows
  <2>2. \A d \in Concerns : Exists(d) => Exists(d)'
    BY <1>1 DEF AddWatchlistCompany, MonitoringTypeOK, Exists, Concern, Nowhere
  <2>3. \A d, e \in Concerns : parent'[e] = Concern(d) => Exists(d)'
    BY <1>0, <1>1, <2>2 DEF AddWatchlistCompany, MonitoringTypeOK, ParentsExist
  <2>4. watcher' \in [Watchers -> {NoRequest} \cup
                                  {Request(d, a) : d \in Concerns, a \in {"on", "off"}}]
    BY <1>1 DEF AddWatchlistCompany, MonitoringTypeOK
  <2> QED
    BY <1>1, <2>1, <2>2, <2>3, <2>4, ParentStep DEF AddWatchlistCompany
<1>2. ASSUME NEW k \in Watchers, NEW c \in Concerns, NEW active \in {"on", "off"},
             ToggleCompanyWatchlist(k, c, active)
      PROVE  MonitoringTypeOK' /\ WatchExists' /\ PersonsExist' /\ ParentsExist' /\ PostsKept'
             /\ MergeKept'
  <2>1. watcher' \in [Watchers -> {NoRequest} \cup
                                  {Request(d, a) : d \in Concerns, a \in {"on", "off"}}]
    BY <1>2 DEF ToggleCompanyWatchlist, MonitoringTypeOK
  <2>2. \A d \in Concerns : Exists(d) => Exists(d)'
    BY <1>2 DEF ToggleCompanyWatchlist, monitorRows, Exists
  <2> QED
    BY <1>2, <2>1, <2>2, ParentStep
       DEF ToggleCompanyWatchlist, monitorRows, MonitoringTypeOK, ConcernRows, ParentsExist
<1>3. ASSUME NEW k \in Watchers, AddOrUpdateWatchlist(k)
      PROVE  MonitoringTypeOK' /\ WatchExists' /\ PersonsExist' /\ ParentsExist' /\ PostsKept'
             /\ MergeKept'
  <2>1. watcher[k].of \in Concerns /\ watcher[k].active \in {"on", "off"}
    BY <1>3 DEF AddOrUpdateWatchlist, MonitoringTypeOK, Request
  <2>2. MonitoringTypeOK'
    BY <1>3, <2>1 DEF AddOrUpdateWatchlist, MonitoringTypeOK
  <2>3. WatchExists'
    BY <1>3, <2>1 DEF AddOrUpdateWatchlist, WatchExists, Exists, MonitoringTypeOK
  <2>4. MergeKept'
    BY <1>3, MergeStays DEF AddOrUpdateWatchlist, Exists
  <2> QED
    BY <1>3, <2>2, <2>3, <2>4 DEF AddOrUpdateWatchlist, PersonsExist, ParentsExist, PostsKept,
                                  PostKept, Exists
<1>4. ASSUME NEW c \in Concerns, RemoveFromWatchlist(c)
      PROVE  MonitoringTypeOK' /\ WatchExists' /\ PersonsExist' /\ ParentsExist' /\ PostsKept'
             /\ MergeKept'
  <2>1. MergeKept'
    BY <1>4, MergeStays DEF RemoveFromWatchlist, Exists
  <2> QED
    BY <1>4, <2>1 DEF RemoveFromWatchlist, MonitoringTypeOK, WatchExists, PersonsExist,
                      ParentsExist, PostsKept, PostKept, Exists
<1>5. ASSUME NEW c \in Concerns, NEW p \in Persons, CreateKeyPerson(c, p)
      PROVE  MonitoringTypeOK' /\ WatchExists' /\ PersonsExist' /\ ParentsExist' /\ PostsKept'
             /\ MergeKept'
  <2>1. MonitoringTypeOK' /\ PersonsExist'
    BY <1>5 DEF CreateKeyPerson, MonitoringTypeOK, PersonsExist, Exists
  <2>2. \A q \in Persons : person[q] # NoOne => person'[q] # NoOne
    BY <1>5, MonitoringAssumption DEF CreateKeyPerson, MonitoringTypeOK
  <2>3. PostsKept'
    BY <1>5, <2>2 DEF CreateKeyPerson, PostsKept, PostKept, MonitoringTypeOK, Exists, Nowhere
  <2>4. MergeKept'
    <3>1. \A q \in Persons : person[q] # NoOne => person'[q] = person[q]
      BY <1>5 DEF CreateKeyPerson, MonitoringTypeOK
    <3> QED
      BY <1>5, <3>1, MergeStays DEF CreateKeyPerson, Exists
  <2> QED
    BY <1>5, <2>1, <2>3, <2>4 DEF CreateKeyPerson, WatchExists, ParentsExist, Exists
<1>6. ASSUME NEW p \in Persons, DeleteKeyPerson(p)
      PROVE  MonitoringTypeOK' /\ WatchExists' /\ PersonsExist' /\ ParentsExist' /\ PostsKept'
             /\ MergeKept'
  <2>1. MonitoringTypeOK' /\ PersonsExist'
    BY <1>6 DEF DeleteKeyPerson, Cascade, MonitoringTypeOK, PersonsExist, Exists
  <2>2. \A u \in Posts : post'[u] # Nowhere =>
           post[u] # Nowhere /\ post[u].by # p /\ post'[u] = post[u] /\ first'[u] = first[u]
    BY <1>6 DEF DeleteKeyPerson, Cascade
  <2>3. \A q \in Persons : q # p => person'[q] = person[q]
    BY <1>6 DEF DeleteKeyPerson, MonitoringTypeOK
  <2>4. PostsKept'
    BY <1>6, <2>2, <2>3 DEF DeleteKeyPerson, PostsKept, PostKept, MonitoringTypeOK, Exists, Nowhere
  <2>5. MergeKept'
    <3>1. \A q \in Persons : merge # NoMerge /\ q \in merge.moved => q # p
      BY <1>6 DEF DeleteKeyPerson
    <3> QED
      BY <1>6, <2>3, <3>1, MergeStays DEF DeleteKeyPerson, Exists
  <2> QED
    BY <1>6, <2>1, <2>4, <2>5 DEF DeleteKeyPerson, WatchExists, ParentsExist, Exists
<1>7. ASSUME NEW c \in Concerns, NEW u \in Posts, NEW p \in Persons \cup {NoOne},
             NEW plea \in BOOLEAN, NEW told \in BOOLEAN, IngestSocialSignal(c, u, p, plea, told)
      PROVE  MonitoringTypeOK' /\ WatchExists' /\ PersonsExist' /\ ParentsExist' /\ PostsKept'
             /\ MergeKept'
  <2>1. Actionable(plea, told) \in BOOLEAN /\ (plea => Actionable(plea, told))
    BY DEF Actionable
  <2>2. PICK of, by : /\ post' = [post EXCEPT ![u] = [is |-> "post", of |-> of, by |-> by,
                                             plea |-> plea, act |-> Actionable(plea, told)]]
                      /\ of \in Concerns /\ by \in Persons \cup {NoOne}
                      /\ Exists(of) /\ (by # NoOne => person[by] # NoOne)
                      /\ first' \in [Posts -> Concerns \cup {NoOne}] /\ first'[u] = of
                      /\ \A v \in Posts : v # u => first'[v] = first[v]
    <3>0. Exists(c) /\ (p # NoOne => person[p] # NoOne)
      BY <1>7 DEF IngestSocialSignal
    <3>1. CASE post[u] = Nowhere
      <4>1. post' = [post EXCEPT ![u] = [is |-> "post", of |-> c, by |-> p, plea |-> plea,
                                        act |-> Actionable(plea, told)]]
        BY <1>7, <3>1 DEF IngestSocialSignal
      <4>2. first' = [first EXCEPT ![u] = c]
        BY <1>7, <3>1 DEF IngestSocialSignal
      <4>3. first' \in [Posts -> Concerns \cup {NoOne}] /\ first'[u] = c
            /\ \A v \in Posts : v # u => first'[v] = first[v]
        BY <4>2 DEF MonitoringTypeOK
      <4> QED
        BY <3>0, <4>1, <4>3
    <3>2. CASE post[u] # Nowhere
      <4>1. post[u].of \in Concerns /\ post[u].by \in Persons \cup {NoOne} /\ PostKept(u)
        BY <3>2 DEF MonitoringTypeOK, PostsKept
      <4>2. post' = [post EXCEPT ![u] = [is |-> "post", of |-> post[u].of, by |-> post[u].by,
                                        plea |-> plea, act |-> Actionable(plea, told)]]
        BY <1>7, <3>2 DEF IngestSocialSignal
      <4>3. first' = first
        BY <1>7, <3>2 DEF IngestSocialSignal
      <4>4. first' \in [Posts -> Concerns \cup {NoOne}] /\ first'[u] = post[u].of
            /\ \A v \in Posts : v # u => first'[v] = first[v]
        BY <4>1, <4>3 DEF MonitoringTypeOK, PostKept
      <4>5. Exists(post[u].of) /\ (post[u].by # NoOne => person[post[u].by] # NoOne)
        BY <4>1 DEF PostKept
      <4> QED
        BY <4>1, <4>2, <4>4, <4>5
    <3> QED
      BY <3>1, <3>2
  <2>3. post' \in [Posts -> {Nowhere} \cup PostRow]
    BY <2>1, <2>2 DEF MonitoringTypeOK, PostRow
  <2>4. MonitoringTypeOK'
    BY <1>7, <2>2, <2>3 DEF IngestSocialSignal, MonitoringTypeOK, PostRow
  <2>5. PostKept(u)'
    BY <1>7, <2>1, <2>2 DEF IngestSocialSignal, PostKept, Exists, MonitoringTypeOK
  <2>6. \A v \in Posts : v # u => post'[v] = post[v] /\ first'[v] = first[v]
    BY <2>2 DEF MonitoringTypeOK
  <2>7. PostsKept'
    BY <1>7, <2>5, <2>6 DEF IngestSocialSignal, PostsKept, PostKept, Exists
  <2>8. MergeKept'
    BY <1>7, MergeStays DEF IngestSocialSignal, Exists
  <2> QED
    BY <1>7, <2>4, <2>7, <2>8 DEF IngestSocialSignal, WatchExists, PersonsExist, ParentsExist, Exists
<1>8. ASSUME NEW c \in Concerns, NEW d \in Concerns, LinkParentSubsidiary(c, d)
      PROVE  MonitoringTypeOK' /\ WatchExists' /\ PersonsExist' /\ ParentsExist' /\ PostsKept'
             /\ MergeKept'
  <2>1. parent' \in [Concerns -> ConcernRows]
    BY <1>8 DEF LinkParentSubsidiary, MonitoringTypeOK, ConcernRows
  <2>2. \A e \in Concerns : Exists(e) => Exists(e)'
    BY <1>0, <1>8 DEF LinkParentSubsidiary, MonitoringTypeOK, Exists
  <2>3. \A e, f \in Concerns : parent'[f] = Concern(e) => Exists(e)'
    BY <1>0, <1>8, <2>2 DEF LinkParentSubsidiary, MonitoringTypeOK, ParentsExist
  <2> QED
    BY <1>8, <2>1, <2>2, <2>3, ParentStep DEF LinkParentSubsidiary, MonitoringTypeOK
<1>9. ASSUME NEW c \in Concerns, NEW named \in SUBSET Concerns, AutoLinkCorporateGroups(c, named)
      PROVE  MonitoringTypeOK' /\ WatchExists' /\ PersonsExist' /\ ParentsExist' /\ PostsKept'
             /\ MergeKept'
  <2>1. parent' \in [Concerns -> ConcernRows]
    BY <1>9 DEF AutoLinkCorporateGroups, MonitoringTypeOK, ConcernRows
  <2>2. \A e \in Concerns : Exists(e) => Exists(e)'
    BY <1>0, <1>9 DEF AutoLinkCorporateGroups, Exists
  <2>3. \A e, f \in Concerns : parent'[f] = Concern(e) => Exists(e)'
    BY <1>0, <1>9, <2>2 DEF AutoLinkCorporateGroups, ParentsExist
  <2> QED
    BY <1>9, <2>1, <2>2, <2>3, ParentStep DEF AutoLinkCorporateGroups, MonitoringTypeOK
<1>10. ASSUME NEW c \in Concerns, NEW d \in Concerns, TransferKeyPersons(c, d)
       PROVE  MonitoringTypeOK' /\ WatchExists' /\ PersonsExist' /\ ParentsExist' /\ PostsKept'
              /\ MergeKept'
  <2> DEFINE moved == PeopleOf({c})
  <2>1. /\ merge' = Merge(c, d, moved) /\ UNCHANGED <<monitorRows, watcher>>
        /\ c # d /\ Exists(c) /\ (moved # {} => Exists(d))
    BY <1>10 DEF TransferKeyPersons
  <2>2. moved \in SUBSET Persons /\ \A p \in moved : person[p] = c
    BY DEF PeopleOf
  <2> HIDE DEF moved
  <2>3. MonitoringTypeOK'
    BY <2>1, <2>2 DEF monitorRows, MonitoringTypeOK
  <2>4. MergeKept'
    BY <2>1, <2>2 DEF monitorRows, MergeKept, Merge, Exists
  <2> QED
    BY <2>1, <2>3, <2>4 DEF monitorRows, WatchExists, PersonsExist, ParentsExist, PostsKept,
                            PostKept, Exists
<1>11. ASSUME DeleteDuplicate
       PROVE  MonitoringTypeOK' /\ WatchExists' /\ PersonsExist' /\ ParentsExist' /\ PostsKept'
              /\ MergeKept'
  <2>1. PICK lost, leaving, moved, into :
           /\ lost = {merge.from} /\ leaving = PeopleOf({merge.from}) \ merge.moved
           /\ moved = merge.moved /\ into = merge.into
    OBVIOUS
  <2>2. /\ RemoveCompanies(lost, leaving) /\ merge' = NoMerge /\ merge # NoMerge
        /\ person' = [p \in Persons |-> IF p \in moved THEN into
                                        ELSE IF person[p] \in lost THEN NoOne ELSE person[p]]
    BY <1>11, <2>1 DEF DeleteDuplicate
  <2>3. /\ lost \in SUBSET Concerns /\ leaving \in SUBSET Persons /\ into \in Concerns
        /\ \A p \in Persons : p \in leaving <=> person[p] \in lost /\ p \notin moved
        /\ moved # {} => Exists(into) /\ into \notin lost
    BY <2>1, <2>2, MergeFields DEF MergeKept, PeopleOf
  <2>4. person' \in [Persons -> Concerns \cup {NoOne}]
    BY <2>2, <2>3 DEF MonitoringTypeOK
  <2>5. \A p \in Persons : person'[p] # NoOne => Exists(person'[p]) /\ person'[p] \notin lost
    BY <2>2, <2>3 DEF PersonsExist
  <2>6. \A p \in Persons : person[p] # NoOne /\ p \notin leaving => person'[p] # NoOne
    BY <2>2, <2>3, MonitoringAssumption
  <2>7. MergeKept'
    BY <2>2 DEF MergeKept
  <2> QED
    BY <2>2, <2>3, <2>4, <2>5, <2>6, <2>7, RemovalStep
<1>12. ASSUME RollBackMerge
       PROVE  MonitoringTypeOK' /\ WatchExists' /\ PersonsExist' /\ ParentsExist' /\ PostsKept'
              /\ MergeKept'
  BY <1>12 DEF RollBackMerge, monitorRows, MonitoringTypeOK, WatchExists, PersonsExist,
               ParentsExist, PostsKept, PostKept, MergeKept, Exists
<1>13. ASSUME NEW bad \in SUBSET Concerns, DeduplicateCompanies(bad)
       PROVE  MonitoringTypeOK' /\ WatchExists' /\ PersonsExist' /\ ParentsExist' /\ PostsKept'
              /\ MergeKept'
  <2>1. PICK leaving : leaving = PeopleOf(bad)
    OBVIOUS
  <2>2. /\ RemoveCompanies(bad, leaving) /\ merge' = merge
        /\ person' = [p \in Persons |-> IF person[p] \in bad THEN NoOne ELSE person[p]]
        /\ merge # NoMerge => {merge.from, merge.into} \cap bad = {}
    BY <1>13, <2>1 DEF DeduplicateCompanies
  <2>3. /\ leaving \in SUBSET Persons
        /\ \A p \in Persons : p \in leaving <=> person[p] \in bad
    BY <2>1 DEF PeopleOf
  <2>4. person' \in [Persons -> Concerns \cup {NoOne}]
    BY <2>2 DEF MonitoringTypeOK
  <2>5. \A p \in Persons : /\ person'[p] # NoOne => Exists(person'[p]) /\ person'[p] \notin bad
                           /\ person[p] # NoOne /\ p \notin leaving => person'[p] # NoOne
                           /\ person[p] \notin bad => person'[p] = person[p]
    BY <2>2, <2>3 DEF PersonsExist
  <2>6. /\ MonitoringTypeOK' /\ WatchExists' /\ PersonsExist' /\ ParentsExist' /\ PostsKept'
        /\ \A e \in Concerns : Exists(e) /\ e \notin bad => Exists(e)'
    BY <2>2, <2>3, <2>4, <2>5, RemovalStep
  <2>7. MergeKept'
    <3> SUFFICES ASSUME merge # NoMerge
                 PROVE  /\ parent'[merge.from] # Nowhere /\ merge.from # merge.into
                        /\ \A p \in merge.moved : person'[p] = merge.from
                        /\ merge.moved # {} => parent'[merge.into] # Nowhere
      BY <2>2 DEF MergeKept, Exists
    <3>1. merge.from \in Concerns /\ merge.into \in Concerns /\ merge.moved \in SUBSET Persons
      BY MergeFields
    <3>2. merge.from \notin bad /\ merge.into \notin bad
      BY <2>2
    <3>3. \A p \in merge.moved : person'[p] = merge.from
      BY <2>5, <3>1, <3>2 DEF MergeKept
    <3> QED
      BY <2>6, <3>1, <3>2, <3>3 DEF MergeKept, Exists
  <2> QED
    BY <2>6, <2>7
<1> QED
  BY <1>1, <1>2, <1>3, <1>4, <1>5, <1>6, <1>7, <1>8, <1>9, <1>10, <1>11, <1>12, <1>13,
     MonitoringAssumption DEF MonitoringNext

LEMMA MonitoringInvStep == MonitoringInv /\ [MonitoringNext]_monitoringVars => MonitoringInv'
<1> SUFFICES ASSUME MonitoringInv, [MonitoringNext]_monitoringVars
             PROVE  MonitoringInv'
  OBVIOUS
<1>1. MonitoringTypeOK /\ WatchExists /\ PersonsExist /\ ParentsExist /\ PostsKept
      /\ MergeKept
  BY ByColumn DEF MonitoringInv
<1>2. MonitoringTypeOK' /\ WatchExists' /\ PersonsExist' /\ ParentsExist' /\ PostsKept'
      /\ MergeKept'
  <2>1. CASE UNCHANGED monitoringVars
    BY <1>1, <2>1 DEF monitoringVars, monitorRows, MonitoringTypeOK, WatchExists, PersonsExist,
                      ParentsExist, PostsKept, PostKept, MergeKept, Exists
  <2> QED
    BY <1>1, <2>1, MonitoringActs
<1>3. (MonitoringTypeOK =>
         (WatchedExists <=> WatchExists /\ PersonsExist /\ ParentsExist /\ PostsKept))'
  BY ByColumn, PTL
<1> QED
  BY <1>2, <1>3 DEF MonitoringInv
=============================================================================
