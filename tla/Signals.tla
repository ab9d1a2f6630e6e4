------------------------------ MODULE Signals ------------------------------
(***************************************************************************)
(* The feed of corporate signals (intelligence.company_signals) and those  *)
(* who write it: the queue's extraction jobs, the research agents, whose   *)
(* findings are mirrored when submitted and promoted when approved, and    *)
(* the retraction of a claim, batch by batch.  Every statement on the      *)
(* database is one step; a handler's statements may interleave with those  *)
(* of others, and each may fail.  Tables the same calls write and no step  *)
(* here reads are left out: the company master, the ESG profiles, the      *)
(* enriched programs and the log of tokens.                                *)
(***************************************************************************)
EXTENDS Integers, FiniteSetsExt

CONSTANTS
    Jobs,           \* extraction tasks, one per page
    Findings,       \* findings, by idempotency key
    UrlOf,          \* the URL of each page and finding
    Claims,         \* claims that may be retracted
    Cites,          \* the claims each finding's summary names
    Calls,          \* handler calls in progress: submissions, reviews, retractions
    MaxRetry,       \* retries of an extraction task (5)
    BatchSize       \* rows per batch of a retraction (100)

ASSUME SignalsAssumption ==
    /\ MaxRetry \in Nat /\ BatchSize \in Nat \ {0}
    /\ IsFiniteSet(Jobs) /\ IsFiniteSet(Findings)
    /\ Cites \in [Findings -> SUBSET Claims]

VARIABLES
    signals,    \* company_signals, by content_hash
    task,       \* the extraction tasks
    finding,    \* ai_research_findings: the status
    call,       \* where each handler call is
    resaved     \* history: hashes extracted again after their retraction

signalsVars == <<signals, task, finding, call, resaved>>

Hashes == ({"page"} \X Jobs) \cup ({"mirror", "approved"} \X Findings)
NoSignal == [relevance |-> "none"]
AtRest == [pc |-> "idle"]
Queued(n) == [pc |-> "queued", tries |-> n]

SignalsInit ==
    /\ signals = [h \in Hashes |-> NoSignal]
    /\ task = [j \in Jobs |-> Queued(0)]
    /\ finding = [f \in Findings |-> "none"]
    /\ call = [c \in Calls |-> AtRest]
    /\ resaved = {}

Stored == {h \in Hashes : signals[h] # NoSignal}

(* Rows a retraction holds between its SELECT ... FOR UPDATE and its       *)
(* commit; a statement that writes one waits.                              *)
Locked == UNION {call[c].batch : c \in {d \in Calls : call[d].pc = "commit"}}

(* The rows ListSignals shows, whatever the search.                        *)
Visible(h) == signals[h].relevance = "HIGH"

----------------------------------------------------------------------------
(* The extraction task.  The language model reads the page and names the   *)
(* company, or does not: it answers nothing, or "Unknown".                 *)
Extract(j) ==
    /\ task[j].pc = "queued"
    /\ \E named \in BOOLEAN :
          task' = [task EXCEPT ![j] = [pc |-> "extracted", tries |-> @.tries, named |-> named]]
    /\ UNCHANGED <<signals, finding, call, resaved>>

(* The company is resolved: one that is found, or made, lends the signal   *)
(* its name, also when the model gave none, for '%' with nothing between   *)
(* matches every company.                                                  *)
ResolveCompany(j) ==
    /\ task[j].pc = "extracted"
    /\ \E found \in BOOLEAN :
          task' = [task EXCEPT ![j] = [pc |-> "resolved", tries |-> @.tries,
                                       named |-> @.named, found |-> found]]
    /\ UNCHANGED <<signals, finding, call, resaved>>

(* A signal without a company is not worth a row; a company that was       *)
(* resolved has lent it its name.                                          *)
Anonymous(t) == ~t.found /\ ~t.named

Settle(j) == task' = [task EXCEPT ![j] = AtRest]

(* It is skipped, also when it is judged irrelevant, unsure or empty.      *)
Skip(j) ==
    /\ task[j].pc = "resolved"
    /\ Settle(j)
    /\ UNCHANGED <<signals, finding, call, resaved>>

(* A step fails or the worker dies: the queue hands the task out again     *)
(* until its retries are used up.                                          *)
Again(n) == IF n < MaxRetry THEN Queued(n + 1) ELSE AtRest

TaskFails(j) ==
    /\ task[j] # AtRest
    /\ task' = [task EXCEPT ![j] = Again(@.tries)]
    /\ UNCHANGED <<signals, finding, call, resaved>>

(* The upsert on content_hash replaces what was extracted and leaves the   *)
(* column status alone.  The worker may die before it tells the queue.     *)
KeptStatus(h) == IF signals[h] = NoSignal THEN "ACTIVE" ELSE signals[h].status

(* A retraction whose batch is selected does not see a row written now.    *)
Tell(h) == [c \in Calls |-> IF call[c].pc = "commit" THEN [call[c] EXCEPT !.late = @ \cup {h}]
                            ELSE call[c]]

SaveSignal(j) ==
    /\ task[j].pc = "resolved" /\ ~Anonymous(task[j])
    /\ LET h == <<"page", j>>
       IN  /\ h \notin Locked
           /\ \E cited \in SUBSET Claims :
                 signals' = [signals EXCEPT ![h] =
                                [relevance |-> "HIGH", status |-> KeptStatus(h), url |-> UrlOf[j],
                                 cited |-> cited]]
           /\ resaved' = IF KeptStatus(h) = "RETRACTED" THEN resaved \cup {h} ELSE resaved
           /\ call' = Tell(h)
    /\ \/ Settle(j)
       \/ task' = [task EXCEPT ![j] = Again(@.tries)]
    /\ UNCHANGED finding

(* The crawler's webhook enqueues a page, the same content perhaps twice.  *)
EnqueueExtraction(j) ==
    /\ task[j] = AtRest
    /\ task' = [task EXCEPT ![j] = Queued(0)]
    /\ UNCHANGED <<signals, finding, call, resaved>>

----------------------------------------------------------------------------
(* POST /ai/research/findings: title, a URL as evidence, some confidence.  *)
Submissions == [title: BOOLEAN, url: BOOLEAN, confidence: {"none", "some"}]
Acceptable(r) == r.title /\ r.url /\ r.confidence = "some"

(* The finding is inserted for review; a repeat of the same key only       *)
(* touches updated_at.                                                     *)
(* Mutant of Inserted: a finding sent again is queued for review again.     *)
Requeued(f) == "pending_review"

Inserted(f) == IF finding[f] = "none" THEN "pending_review" ELSE finding[f]

SubmitFinding(c, f, r) ==
    /\ call[c] = AtRest /\ Acceptable(r)
    /\ finding' = [finding EXCEPT ![f] = Inserted(f)]
    /\ call' = [call EXCEPT ![c] = [pc |-> "mirror", finding |-> f]]
    /\ UNCHANGED <<signals, task, resaved>>

(* It is mirrored among the signals at once, unless a row has its URL or   *)
(* its hash.                                                               *)
FindingRow(f) == [relevance |-> "HIGH", status |-> "ACTIVE", url |-> UrlOf[f],
                  cited |-> Cites[f]]

MirrorFinding(c) ==
    /\ call[c].pc = "mirror"
    /\ LET f == call[c].finding
           h == <<"mirror", f>>
           taken == \E g \in Stored : g = h \/ signals[g].url = UrlOf[f]
           told == Tell(h)
       IN  \/ /\ ~taken
              /\ signals' = [signals EXCEPT ![h] = FindingRow(f)]
              /\ call' = [told EXCEPT ![c] = AtRest]
           \/ /\ call' = [call EXCEPT ![c] = AtRest]
              /\ UNCHANGED signals
    /\ UNCHANGED <<task, finding, resaved>>

(* An administrator reviews a finding, whatever its status is.             *)
ReviewFinding(c, f, action) ==
    /\ call[c] = AtRest /\ finding[f] # "none"
    /\ \/ /\ action = "reject"
          /\ finding' = [finding EXCEPT ![f] = "rejected"]
          /\ UNCHANGED call
       \/ /\ action = "approve"
          /\ finding' = [finding EXCEPT ![f] = "approved"]
          /\ call' = [call EXCEPT ![c] = [pc |-> "promote", finding |-> f]]
    /\ UNCHANGED <<signals, task, resaved>>

(* An approved finding gets a row of its own; a repeated approval renews   *)
(* the text of the row and neither its relevance nor its status.           *)
(* Mutant of Promoted: a repeated approval renews the relevance as well.   *)
Revived(f) == IF signals[<<"approved", f>>] = NoSignal THEN FindingRow(f)
              ELSE [signals[<<"approved", f>>] EXCEPT !.relevance = "HIGH"]

Promoted(f) == IF signals[<<"approved", f>>] = NoSignal THEN FindingRow(f)
               ELSE signals[<<"approved", f>>]

PromoteFinding(c) ==
    /\ call[c].pc = "promote"
    /\ LET f == call[c].finding
           h == <<"approved", f>>
           told == Tell(h)
       IN  \/ /\ h \notin Locked
              /\ signals' = [signals EXCEPT ![h] = Promoted(f)]
              /\ call' = [told EXCEPT ![c] = AtRest]
           \/ call' = [call EXCEPT ![c] = AtRest] /\ UNCHANGED signals
    /\ UNCHANGED <<task, finding, resaved>>

----------------------------------------------------------------------------
(* The retraction of a claim: a transaction per batch, of rows that name   *)
(* the claim, are not retracted and not locked by somebody else.           *)
Unretracted(claim) ==
    {h \in Stored : claim \in signals[h].cited /\ signals[h].status # "RETRACTED"}

(* Mutant of Selectable: rows others hold are not skipped.                 *)
AllUnretracted(claim) == Unretracted(claim)

Selectable(claim) == Unretracted(claim) \ Locked

StartRetraction(c, claim) ==
    /\ call[c] = AtRest
    /\ call' = [call EXCEPT ![c] = [pc |-> "select", claim |-> claim]]
    /\ UNCHANGED <<signals, task, finding, resaved>>

SelectBatch(c) ==
    /\ call[c].pc = "select"
    /\ LET free == Selectable(call[c].claim)
       IN  \E batch \in kSubset(Min({BatchSize, Cardinality(free)}), free) :
              call' = [call EXCEPT ![c] =
                          [pc |-> "commit", claim |-> @.claim, batch |-> batch,
                           late |-> Unretracted(@.claim) \cap Locked]]
    /\ UNCHANGED <<signals, task, finding, resaved>>

(* A batch that is not full is the last.                                   *)
(* Mutant of IsLast: a full batch is the last, too.                         *)
EndsEarly(batch) == Cardinality(batch) <= BatchSize

IsLast(batch) == Cardinality(batch) < BatchSize

CommitBatch(c) ==
    /\ call[c].pc = "commit"
    /\ LET batch == call[c].batch
       IN  /\ signals' = [h \in Hashes |->
                             IF h \in batch
                             THEN [relevance |-> "LOW", status |-> "RETRACTED",
                                   url |-> signals[h].url, cited |-> signals[h].cited]
                             ELSE signals[h]]
           /\ resaved' = resaved \ batch
           /\ call' = [call EXCEPT ![c] =
                          IF IsLast(batch) THEN AtRest
                          ELSE [pc |-> "select", claim |-> @.claim]]
    /\ UNCHANGED <<task, finding>>

(* The transaction or its commit fails: the retraction reports an error.   *)
RetractionFails(c) ==
    /\ call[c].pc \in {"select", "commit"}
    /\ call' = [call EXCEPT ![c] = AtRest]
    /\ UNCHANGED <<signals, task, finding, resaved>>

----------------------------------------------------------------------------
SignalsNext ==
    \/ \E j \in Jobs :
          \/ EnqueueExtraction(j) \/ Extract(j) \/ ResolveCompany(j)
          \/ Skip(j) \/ SaveSignal(j) \/ TaskFails(j)
    \/ \E c \in Calls :
          \/ \E f \in Findings :
                \/ \E r \in Submissions : SubmitFinding(c, f, r)
                \/ \E action \in {"approve", "reject"} : ReviewFinding(c, f, action)
          \/ MirrorFinding(c) \/ PromoteFinding(c)
          \/ \E claim \in Claims : StartRetraction(c, claim)
          \/ SelectBatch(c) \/ CommitBatch(c) \/ RetractionFails(c)

SignalsSpec == SignalsInit /\ [][SignalsNext]_signalsVars

----------------------------------------------------------------------------
SignalRow == [relevance: {"HIGH", "LOW"}, status: {"ACTIVE", "RETRACTED"},
              url: {UrlOf[x] : x \in Jobs \cup Findings}, cited: SUBSET Claims]

TaskState ==
    {AtRest} \cup [pc: {"queued"}, tries: 0..MaxRetry]
    \cup [pc: {"extracted"}, tries: 0..MaxRetry, named: BOOLEAN]
    \cup [pc: {"resolved"}, tries: 0..MaxRetry, named: BOOLEAN, found: BOOLEAN]

CallState ==
    {AtRest} \cup [pc: {"mirror", "promote"}, finding: Findings]
    \cup [pc: {"select"}, claim: Claims]
    \cup [pc: {"commit"}, claim: Claims, batch: SUBSET Hashes, late: SUBSET Hashes]

(* Type invariant.  A row is locked by one retraction at a time.           *)
SignalsTypeOK ==
    /\ signals \in [Hashes -> SignalRow \cup {NoSignal}]
    /\ task \in [Jobs -> TaskState]
    /\ finding \in [Findings -> {"none", "pending_review", "approved", "rejected"}]
    /\ call \in [Calls -> CallState]
    /\ resaved \subseteq Hashes
    /\ \A c, d \in Calls : call[c].pc = "commit" /\ call[d].pc = "commit" /\ c # d
                              => call[c].batch \cap call[d].batch = {}

(* The verdict of a review is changed by a review only: an agent that      *)
(* sends its finding again, in whatever order, does not reopen it.         *)
ReviewSurvives ==
    \A f \in Findings :
       finding[f] \in {"approved", "rejected"} /\ finding'[f] # finding[f]
          => \E c \in Calls, action \in {"approve", "reject"} : ReviewFinding(c, f, action)

(* A row that was retracted is shown again only when its page was          *)
(* extracted anew after the retraction: neither an approval, nor a repeat  *)
(* of the finding, nor another retraction brings it back.                  *)
RetractedIsHidden ==
    \A h \in Stored : signals[h].status = "RETRACTED" /\ Visible(h) => h \in resaved

(* A retraction that reports success has retracted every row that names    *)
(* its claim, but for those somebody else held when it looked and those    *)
(* written while it ran.                                                   *)
RetractionLeavesNone ==
    \A c \in Calls :
       CommitBatch(c) /\ call'[c] = AtRest
          => {h \in Hashes : /\ signals'[h] # NoSignal /\ call[c].claim \in signals'[h].cited
                             /\ signals'[h].status # "RETRACTED"} \subseteq call[c].late

=============================================================================
