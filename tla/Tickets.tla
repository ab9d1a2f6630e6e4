------------------------------ MODULE Tickets ------------------------------
(***************************************************************************)
(* Customer support: a poller makes tickets of the unread e-mails of a     *)
(* mailbox, the assistant drafts answers, people edit, reject or approve   *)
(* them, and the answer of an approved draft is mailed.  The table of      *)
(* tickets and the two mail servers are not part of the repository.        *)
(***************************************************************************)
EXTENDS Naturals

CONSTANTS
    Mails,          \* e-mails that may reach the mailbox
    Blank,          \* those without an envelope, or with nothing in it
    Texts,          \* texts of answers
    Reviewers       \* bound: decisions in progress at the same time

ASSUME TicketsAssumption == Blank \subseteq Mails

VARIABLES
    mailbox,    \* each e-mail on the server: away, unseen or seen
    poll,       \* the poller: what it asked for and what it was sent
    ticket,     \* how often each e-mail was ingested
    draft,      \* support_drafts, one row a ticket
    review,     \* where each decision is
    outbox,     \* answers handed to goroutines that mail them
    replied,    \* answers mailed
    inReview,   \* history: texts a draft had while an approval was being served
    lost        \* history: e-mails sent to a poller that did not ingest them

mailVars == <<mailbox, poll, ticket, lost>>
draftVars == <<draft, review, outbox, replied, inReview>>
ticketsVars == <<mailVars, draftVars>>

Resting == [pc |-> "idle"]
NoDraft == [text |-> "none"]

TicketsInit ==
    /\ mailbox = [m \in Mails |-> "away"]
    /\ poll = Resting
    /\ ticket = [m \in Mails |-> 0]
    /\ draft = [m \in Mails |-> NoDraft]
    /\ review = [v \in Reviewers |-> Resting]
    /\ outbox = {} /\ replied = {}
    /\ inReview = [m \in Mails |-> {}]
    /\ lost = {}

----------------------------------------------------------------------------
Deliver(m) ==
    /\ mailbox[m] = "away"
    /\ mailbox' = [mailbox EXCEPT ![m] = "unseen"]
    /\ UNCHANGED <<poll, ticket, lost, draftVars>>

(* Each minute: connect, log in, select, search, each of which may fail.   *)
StartPoll ==
    /\ poll = Resting
    /\ poll' = [pc |-> "fetch", asked |-> {m \in Mails : mailbox[m] = "unseen"}, sent |-> {}]
    /\ UNCHANGED <<mailbox, ticket, lost, draftVars>>

(* Plausible bug: the bodies are asked for without marking them as read.   *)
Peeked(m) == mailbox[m]

(* The mailbox is selected for writing and the whole body is fetched: the  *)
(* server marks the e-mail as seen when it sends it.                       *)
Fetched(m) == "seen"

FetchMail(m) ==
    /\ poll # Resting /\ m \in poll.asked
    /\ mailbox' = [mailbox EXCEPT ![m] = Fetched(m)]
    /\ poll' = [poll EXCEPT !.asked = @ \ {m}, !.sent = @ \cup {m}]
    /\ UNCHANGED <<ticket, lost, draftVars>>

(* An e-mail without content is marked as seen and left; another becomes a *)
(* ticket and is marked, or does not, when the database fails.  Marking    *)
(* may fail, too.                                                          *)
HandleMail(m) ==
    /\ poll # Resting /\ m \in poll.sent
    /\ poll' = [poll EXCEPT !.sent = @ \ {m}]
    /\ \E stored \in {m \notin Blank, FALSE}, marked \in BOOLEAN :
          /\ ticket' = IF stored THEN [ticket EXCEPT ![m] = @ + 1] ELSE ticket
          /\ lost' = IF stored \/ m \in Blank THEN lost ELSE lost \cup {m}
          /\ mailbox' = IF marked /\ (stored \/ m \in Blank)
                        THEN [mailbox EXCEPT ![m] = "seen"] ELSE mailbox
    /\ UNCHANGED draftVars

(* The connection breaks, or everything was sent; what was sent is served. *)
EndPoll ==
    /\ poll # Resting
    /\ poll' = IF poll.sent = {} THEN Resting ELSE [poll EXCEPT !.asked = {}]
    /\ UNCHANGED <<mailbox, ticket, lost, draftVars>>

----------------------------------------------------------------------------
(* Texts that the draft has while somebody's approval is being served.     *)
Approving(m) == \E v \in Reviewers : review[v].pc = "send" /\ review[v].ticket = m
Rewritten(m, text) ==
    inReview' = IF Approving(m) THEN [inReview EXCEPT ![m] = @ \cup {text}] ELSE inReview

(* The assistant's draft takes the place of the one there is, whatever was *)
(* decided about it.                                                       *)
SaveDraft(m, text) ==
    /\ ticket[m] > 0
    /\ draft' = [draft EXCEPT ![m] =
                    [text |-> text, decision |-> "NEEDS_REVIEW", status |-> "PENDING"]]
    /\ Rewritten(m, text)
    /\ UNCHANGED <<mailVars, review, outbox, replied>>

EditDraft(m, text) ==
    /\ draft[m] # NoDraft
    /\ draft' = [draft EXCEPT ![m] = [text |-> text, decision |-> "EDITED", status |-> "PENDING"]]
    /\ Rewritten(m, text)
    /\ UNCHANGED <<mailVars, review, outbox, replied>>

(* Plausible bug: any decision sends the draft.                            *)
AnyDecision(decision) == decision # ""

(* Which decision sends it.                                                *)
Sends(decision) == decision = "APPROVED"

(* UpdateDraft: the row says SENT before anything is sent.                 *)
Decide(v, m, decision) ==
    /\ review[v] = Resting /\ draft[m] # NoDraft
    /\ draft' = [draft EXCEPT ![m] =
                    [text |-> @.text, decision |-> decision,
                     status |-> IF decision = "APPROVED" THEN "SENT" ELSE "PENDING"]]
    /\ inReview' = IF decision = "APPROVED" THEN [inReview EXCEPT ![m] = @ \cup {draft[m].text}]
                   ELSE inReview
    /\ review' = IF Sends(decision) THEN [review EXCEPT ![v] = [pc |-> "send", ticket |-> m]]
                 ELSE review
    /\ UNCHANGED <<mailVars, outbox, replied>>

(* It reads the text in a query of its own; when that fails, nobody hears  *)
(* of it.                                                                  *)
TakeText(v) ==
    /\ review[v].pc = "send"
    /\ LET m == review[v].ticket IN
       \/ outbox' = outbox \cup {<<m, draft[m].text>>}
       \/ UNCHANGED outbox
    /\ review' = [review EXCEPT ![v] = Resting]
    /\ UNCHANGED <<mailVars, draft, replied, inReview>>

SendReply(reply) ==
    /\ reply \in outbox
    /\ outbox' = outbox \ {reply}
    /\ replied' = replied \cup {reply} \/ UNCHANGED replied
    /\ UNCHANGED <<mailVars, draft, review, inReview>>

(* The server stops: the rows stay.                                        *)
SupportStops ==
    /\ poll # Resting \/ outbox # {} \/ \E v \in Reviewers : review[v] # Resting
    /\ poll' = Resting
    /\ lost' = IF poll = Resting THEN lost ELSE lost \cup (poll.sent \ Blank)
    /\ review' = [v \in Reviewers |-> Resting] /\ outbox' = {}
    /\ UNCHANGED <<mailbox, ticket, draft, replied, inReview>>

----------------------------------------------------------------------------
(* What the assistant is told to work on, and what is reported as waiting  *)
(* too long; a draft never gets the status REJECTED.                       *)
GetPendingTickets == {m \in Mails : ticket[m] > 0 /\ draft[m] = NoDraft}
GetStaleDrafts == {m \in Mails : draft[m] # NoDraft /\ draft[m].status = "PENDING"}

TicketsNext ==
    \/ \E m \in Mails : Deliver(m) \/ FetchMail(m) \/ HandleMail(m)
    \/ StartPoll \/ EndPoll \/ SupportStops
    \/ \E m \in Mails, text \in Texts : SaveDraft(m, text) \/ EditDraft(m, text)
    \/ \E v \in Reviewers, m \in Mails, d \in {"APPROVED", "REJECTED"} : Decide(v, m, d)
    \/ \E v \in Reviewers : TakeText(v)
    \/ \E m \in Mails, text \in Texts : SendReply(<<m, text>>)

TicketsSpec == TicketsInit /\ [][TicketsNext]_ticketsVars

----------------------------------------------------------------------------
(* The state is well typed, and every ticket is either waiting for a draft *)
(* or has one.                                                             *)
TicketsTypeOK ==
    /\ mailbox \in [Mails -> {"away", "unseen", "seen"}]
    /\ poll \in {Resting} \cup [pc : {"fetch"}, asked : SUBSET Mails, sent : SUBSET Mails]
    /\ ticket \in [Mails -> Nat]
    /\ draft \in [Mails -> {NoDraft} \cup [text : Texts, status : {"PENDING", "SENT"},
                     decision : {"NEEDS_REVIEW", "EDITED", "APPROVED", "REJECTED"}]]
    /\ review \in [Reviewers -> {Resting} \cup [pc : {"send"}, ticket : Mails]]
    /\ outbox \subseteq Mails \X Texts /\ replied \subseteq Mails \X Texts
    /\ inReview \in [Mails -> SUBSET Texts] /\ lost \subseteq Mails
    /\ \A m \in Mails : ticket[m] > 0 => m \in GetPendingTickets \/ draft[m] # NoDraft

(* A customer is mailed only a text that the draft had when it was         *)
(* approved, or got between an approval and the query that reads the text  *)
(* (UpdateDraft): a text that was rejected, or only drafted, stays here,   *)
(* whoever edits or drafts anew meanwhile.                                 *)
RepliesWereInReview ==
    \A reply \in outbox \cup replied : reply[2] \in inReview[reply[1]]

(* An e-mail becomes at most one ticket though marking it may fail and the *)
(* poller asks for unread ones every minute; and one the server counts as  *)
(* read became a ticket, was empty, is being handled, or was lost with a   *)
(* failed INSERT or a stop (pollUnreadEmails).                             *)
EachMailOnce ==
    \A m \in Mails :
        /\ ticket[m] <= 1
        /\ mailbox[m] = "seen" => \/ ticket[m] = 1 \/ m \in Blank \/ m \in lost
                                  \/ poll # Resting /\ m \in poll.sent
=============================================================================
