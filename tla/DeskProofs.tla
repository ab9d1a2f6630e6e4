----------------------------- MODULE DeskProofs -----------------------------
(***************************************************************************)
(* What people and models write: the invariants of tickets, the assistant, *)
(* pitches, masters, proposals, language models and matching, for every    *)
(* number of them and every interleaving. ServicesProofs says of the       *)
(* running services what is proved here.                                   *)
(***************************************************************************)
EXTENDS Tickets, Assistant, Pitches, Masters, Proposals, LanguageModels, Matching,
        FiniteSetTheorems, SequenceTheorems, WellFoundedInduction, TLAPS

----------------------------------------------------------------------------
(* Tickets: a reply says what was in review, and an e-mail makes one       *)
(* ticket.                                                                 *)

(* The text of a draft whose approval is being served is one that was in   *)
(* review.                                                                 *)
ApprovedTextIsNoted ==
    \A m \in Mails : Approving(m) => draft[m] # NoDraft /\ draft[m].text \in inReview[m]

(* An e-mail the poller still asks for is unread, and one that is unread   *)
(* or on its way to be handled has no ticket.                              *)
UnreadHasNoTicket ==
    /\ \A m \in Mails : mailbox[m] # "seen" => ticket[m] = 0
    /\ poll # Resting => \A m \in Mails :
          /\ m \in poll.asked => mailbox[m] = "unseen"
          /\ m \in poll.sent => mailbox[m] = "seen" /\ ticket[m] = 0

TicketsInv ==
    TicketsTypeOK /\ ApprovedTextIsNoted /\ RepliesWereInReview
    /\ UnreadHasNoTicket /\ EachMailOnce

LEMMA TicketsInvInit == TicketsInit => TicketsInv
  BY TicketsAssumption DEF TicketsInit, TicketsInv, TicketsTypeOK, ApprovedTextIsNoted, RepliesWereInReview,
     UnreadHasNoTicket, EachMailOnce, Resting, NoDraft, Approving, GetPendingTickets

(* What the poller does keeps the half of the invariant that is about      *)
(* drafts, and what is done to drafts keeps the other.                     *)
MailsInv ==
    /\ mailbox \in [Mails -> {"away", "unseen", "seen"}]
    /\ poll \in {Resting} \cup [pc : {"fetch"}, asked : SUBSET Mails, sent : SUBSET Mails]
    /\ ticket \in [Mails -> Nat] /\ lost \subseteq Mails
    /\ UnreadHasNoTicket /\ EachMailOnce

DraftsInv ==
    /\ draft \in [Mails -> {NoDraft} \cup [text : Texts, status : {"PENDING", "SENT"},
                     decision : {"NEEDS_REVIEW", "EDITED", "APPROVED", "REJECTED"}]]
    /\ review \in [Reviewers -> {Resting} \cup [pc : {"send"}, ticket : Mails]]
    /\ outbox \subseteq Mails \X Texts /\ replied \subseteq Mails \X Texts
    /\ inReview \in [Mails -> SUBSET Texts]
    /\ ApprovedTextIsNoted /\ RepliesWereInReview

LEMMA TicketsHalves == TicketsInv <=> MailsInv /\ DraftsInv
  BY DEF TicketsInv, TicketsTypeOK, MailsInv, DraftsInv, GetPendingTickets

LEMMA MailsStep ==
    ASSUME MailsInv,
           \/ \E m \in Mails : Deliver(m) \/ FetchMail(m) \/ HandleMail(m)
           \/ StartPoll \/ EndPoll \/ SupportStops \/ UNCHANGED mailVars
    PROVE  MailsInv'
<1> USE DEF MailsInv, UnreadHasNoTicket, EachMailOnce, Resting
<1>1. ASSUME NEW m \in Mails, Deliver(m)
      PROVE  MailsInv'
  BY <1>1 DEF Deliver
<1>2. ASSUME NEW m \in Mails, FetchMail(m)
      PROVE  MailsInv'
  BY <1>2 DEF FetchMail, Fetched
<1>3. ASSUME NEW m \in Mails, HandleMail(m)
      PROVE  MailsInv'
  BY <1>3, TicketsAssumption DEF HandleMail
<1>4. CASE StartPoll
  BY <1>4 DEF StartPoll
<1>5. CASE EndPoll
  BY <1>5 DEF EndPoll
<1>6. CASE SupportStops
  BY <1>6 DEF SupportStops
<1>7. CASE UNCHANGED mailVars
  BY <1>7 DEF mailVars
<1> QED
  BY <1>1, <1>2, <1>3, <1>4, <1>5, <1>6, <1>7

LEMMA DraftsStep ==
    ASSUME DraftsInv,
           \/ \E m \in Mails, text \in Texts : SaveDraft(m, text) \/ EditDraft(m, text)
           \/ \E v \in Reviewers, m \in Mails, d \in {"APPROVED", "REJECTED"} : Decide(v, m, d)
           \/ \E v \in Reviewers : TakeText(v)
           \/ \E m \in Mails, text \in Texts : SendReply(<<m, text>>)
           \/ SupportStops \/ UNCHANGED draftVars
    PROVE  DraftsInv'
<1> USE DEF DraftsInv, ApprovedTextIsNoted, RepliesWereInReview, Approving, Resting, NoDraft
<1>1. ASSUME NEW m \in Mails, NEW text \in Texts, SaveDraft(m, text) \/ EditDraft(m, text)
      PROVE  DraftsInv'
  <2>1. PICK d \in {"NEEDS_REVIEW", "EDITED"} :
             draft' = [draft EXCEPT ![m] = [text |-> text, decision |-> d, status |-> "PENDING"]]
    BY <1>1 DEF SaveDraft, EditDraft
  <2>2. /\ UNCHANGED <<review, outbox, replied>>
        /\ inReview' = IF Approving(m) THEN [inReview EXCEPT ![m] = @ \cup {text}]
                       ELSE inReview
    BY <1>1 DEF SaveDraft, EditDraft, Rewritten
  <2>3. draft'[m] # NoDraft /\ draft'[m].text = text
    BY <2>1
  <2>4. \A n \in Mails : n # m => draft'[n] = draft[n]
    BY <2>1
  <2>5. inReview' \in [Mails -> SUBSET Texts] /\ \A n \in Mails : inReview[n] \subseteq inReview'[n]
    BY <2>2
  <2>6. ApprovedTextIsNoted'
    BY <2>2, <2>3, <2>4, <2>5
  <2>7. RepliesWereInReview'
    BY <2>2, <2>5
  <2> QED
    BY <2>1, <2>2, <2>5, <2>6, <2>7
<1>2. ASSUME NEW v \in Reviewers, NEW m \in Mails, NEW d \in {"APPROVED", "REJECTED"},
             Decide(v, m, d)
      PROVE  DraftsInv'
  <2>1. CASE d = "APPROVED"
    <3>1. /\ draft' = [draft EXCEPT ![m] = [text |-> draft[m].text, decision |-> d,
                                           status |-> "SENT"]]
          /\ inReview' = [inReview EXCEPT ![m] = @ \cup {draft[m].text}]
          /\ review' = [review EXCEPT ![v] = [pc |-> "send", ticket |-> m]]
          /\ draft[m] # NoDraft /\ UNCHANGED <<outbox, replied>>
      BY <1>2, <2>1 DEF Decide, Sends
    <3>2. draft[m].text \in Texts
      BY <3>1
    <3> QED
      BY <2>1, <3>1, <3>2
  <2>2. CASE d = "REJECTED"
    BY <1>2, <2>2 DEF Decide, Sends
  <2> QED
    BY <2>1, <2>2
<1>3. ASSUME NEW v \in Reviewers, TakeText(v)
      PROVE  DraftsInv'
  BY <1>3 DEF TakeText
<1>4. ASSUME NEW m \in Mails, NEW text \in Texts, SendReply(<<m, text>>)
      PROVE  DraftsInv'
  BY <1>4 DEF SendReply
<1>5. CASE SupportStops
  BY <1>5 DEF SupportStops
<1>6. CASE UNCHANGED draftVars
  BY <1>6 DEF draftVars
<1> QED
  BY <1>1, <1>2, <1>3, <1>4, <1>5, <1>6

LEMMA TicketsInvStep == TicketsInv /\ [TicketsNext]_ticketsVars => TicketsInv'
<1> SUFFICES ASSUME TicketsInv, [TicketsNext]_ticketsVars
             PROVE  TicketsInv'
  OBVIOUS
<1>1. MailsInv'
  BY MailsStep, TicketsHalves
     DEF TicketsNext, ticketsVars, SaveDraft, EditDraft, Decide, TakeText, SendReply
<1>2. DraftsInv'
  BY DraftsStep, TicketsHalves
     DEF TicketsNext, ticketsVars, Deliver, FetchMail, HandleMail, StartPoll, EndPoll
<1> QED
  BY <1>1, <1>2, TicketsHalves DEF TicketsInv, TicketsTypeOK, MailsInv, DraftsInv, GetPendingTickets,
     ApprovedTextIsNoted, RepliesWereInReview, UnreadHasNoTicket, EachMailOnce, Approving

----------------------------------------------------------------------------
(* Assistant: what is gathered for a reply is its reader's own, or feed.   *)

(* Who answers in a thread owns it, and has gathered what may be told.     *)
Answering(c) == chat[c].pc \in {"history", "ask", "tool", "log"}

GatheredOwn ==
    \A c \in Chats :
       /\ Answering(c) => /\ thread[chat[c].thread] # NoThread
                          /\ thread[chat[c].thread].owner = chat[c].who
       /\ chat[c].pc \in {"ask", "tool"} => chat[c].prompt \subseteq MayTell(chat[c].who)
       /\ chat[c].pc = "tool" => chat[c].result \subseteq MayTell(chat[c].who)
       /\ chat[c].pc = "log" => chat[c].tells \subseteq MayTell(chat[c].who)

(* A logged reply is in a thread of its reader and tells what may be told. *)
LoggedOwn ==
    \A l \in log : /\ l.tells \subseteq MayTell(l.owner)
                   /\ thread[l.thread] # NoThread /\ thread[l.thread].owner = l.owner

AssistantInv == AssistantTypeOK /\ GatheredOwn /\ LoggedOwn

LEMMA AssistantInvInit == AssistantInit => AssistantInv
  BY DEF AssistantInit, AssistantInv, AssistantTypeOK, GatheredOwn, LoggedOwn, NoThread, Quiet,
         Answering

(* The labels that every text of a member stays in.                        *)
LEMMA OwnLabels == \A p \in People : MayTell(p) \subseteq Labels /\ Said(p) \in MayTell(p)
  BY AssistantAssumption DEF MayTell, Own, Labels

LEMMA ToolsTell == \A p \in People : \A r \in ToolResults(p) : r \subseteq MayTell(p)
  BY DEF ToolResults, SearchSignalsByOrg, SearchCompaniesPublic, ListWatchlistByOrg,
         ListOrganizationPrograms, MayTell, Own

LEMMA ChatStep ==
    ASSUME AssistantInv, NEW c \in Chats,
           \/ BuildPrompt(c) \/ FirstTurn(c) \/ SecondTurn(c) \/ CreateChatLog(c) \/ DropChat(c)
           \/ \E p \in People, wanted \in Threads \cup {"new"} : PostChat(c, p, wanted)
    PROVE  AssistantInv'
<1> USE DEF AssistantInv, AssistantTypeOK, GatheredOwn, LoggedOwn, Answering, Step, Quiet
<1>1. ASSUME NEW p \in People, NEW wanted \in Threads \cup {"new"}, PostChat(c, p, wanted)
      PROVE  AssistantInv'
  BY <1>1 DEF PostChat
<1>2. CASE BuildPrompt(c)
  <2> DEFINE p == chat[c].who
             earlier == UNION {l.tells : l \in GetConversationHistory(p, chat[c].thread)}
  <2>1. PICK prompt \in {{Said(p)}, {Said(p)} \cup earlier} :
           chat' = [chat EXCEPT ![c] = [pc |-> "ask", who |-> p, thread |-> chat[c].thread,
                                        prompt |-> prompt]]
    BY <1>2 DEF BuildPrompt
  <2>2. p \in People /\ chat[c].thread \in Threads
    BY <1>2 DEF BuildPrompt
  <2>3. earlier \subseteq MayTell(p)
    BY DEF GetConversationHistory
  <2>4. prompt \subseteq MayTell(p) /\ prompt \subseteq Labels
    BY <2>1, <2>2, <2>3, OwnLabels
  <2> HIDE DEF earlier
  <2> QED
    BY <1>2, <2>1, <2>2, <2>4 DEF BuildPrompt
<1>3. ASSUME NEW tells, tells \subseteq MayTell(chat[c].who), Reply(c, tells),
             chat[c].pc \in {"ask", "tool"}, UNCHANGED <<thread, log>>
      PROVE  AssistantInv'
  <2>1. chat[c].who \in People /\ chat[c].thread \in Threads
    BY <1>3
  <2>2. tells \in SUBSET Labels
    BY <1>3, <2>1, OwnLabels
  <2> QED
    BY <1>3, <2>1, <2>2 DEF Reply
<1>4. CASE FirstTurn(c)
  <2>1. chat[c].who \in People /\ chat[c].thread \in Threads
    BY <1>4 DEF FirstTurn
  <2>2. CASE Reply(c, chat[c].prompt)
    BY <1>3, <1>4, <2>2 DEF FirstTurn
  <2>3. CASE Reply(c, {Said(chat[c].who)} \cup SearchSignalsByOrg(chat[c].who)
                                          \cup SearchCompaniesPublic(chat[c].who))
    <3>1. {Said(chat[c].who)} \cup SearchSignalsByOrg(chat[c].who)
             \cup SearchCompaniesPublic(chat[c].who) \subseteq MayTell(chat[c].who)
      BY <2>1, OwnLabels DEF MayTell, SearchSignalsByOrg, SearchCompaniesPublic
    <3> QED
      BY <1>3, <1>4, <2>3, <3>1 DEF FirstTurn
  <2>4. ASSUME NEW result \in ToolResults(chat[c].who),
               Step(c, [pc |-> "tool", who |-> chat[c].who, thread |-> chat[c].thread,
                        prompt |-> chat[c].prompt, result |-> result])
        PROVE  AssistantInv'
    <3>1. result \subseteq MayTell(chat[c].who) /\ result \in SUBSET Labels
      BY <2>1, ToolsTell, OwnLabels
    <3> QED
      BY <1>4, <2>1, <2>4, <3>1 DEF FirstTurn
  <2> QED
    BY <1>4, <2>2, <2>3, <2>4 DEF FirstTurn
<1>5. CASE SecondTurn(c)
  BY <1>3, <1>5 DEF SecondTurn
<1>6. CASE CreateChatLog(c)
  <2>1. chat[c].who \in People /\ chat[c].thread \in Threads /\ chat[c].tells \in SUBSET Labels
    BY <1>6 DEF CreateChatLog
  <2> QED
    BY <1>6, <2>1 DEF CreateChatLog
<1>7. CASE DropChat(c)
  BY <1>7 DEF DropChat
<1> QED
  BY <1>1, <1>2, <1>4, <1>5, <1>6, <1>7

(* No thread changes hands: it is opened once, and archived afterwards.    *)
LEMMA ThreadStep ==
    ASSUME AssistantInv,
           \/ \E c \in Chats : ResolveThread(c)
           \/ \E p \in People, t \in Threads : ArchiveConversation(p, t)
    PROVE  AssistantInv'
<1> USE DEF AssistantInv, AssistantTypeOK, GatheredOwn, LoggedOwn, Answering, Step, Quiet, NoThread
<1>1. ASSUME NEW c \in Chats, ResolveThread(c)
      PROVE  AssistantInv'
  <2>1. chat[c].who \in People /\ log' = log
    BY <1>1 DEF ResolveThread
  <2>2. CASE /\ GetConversationByID(chat[c].who, chat[c].thread)
             /\ chat' = [chat EXCEPT ![c] = [pc |-> "history", who |-> chat[c].who,
                                             thread |-> chat[c].thread]]
             /\ UNCHANGED thread
    BY <2>1, <2>2 DEF GetConversationByID
  <2>3. ASSUME NEW t \in Threads, CreateConversation(chat[c].who, t),
               chat' = [chat EXCEPT ![c] = [pc |-> "history", who |-> chat[c].who, thread |-> t]]
        PROVE  AssistantInv'
    <3>1. thread' = [thread EXCEPT ![t] = [status |-> "active", owner |-> chat[c].who]]
      BY <2>3 DEF CreateConversation
    <3>2. thread[t] = NoThread
      BY <2>3 DEF CreateConversation
    <3> QED
      BY <2>1, <2>3, <3>1, <3>2
  <2> QED
    BY <1>1, <2>2, <2>3 DEF ResolveThread
<1>2. ASSUME NEW p \in People, NEW t \in Threads, ArchiveConversation(p, t)
      PROVE  AssistantInv'
  BY <1>2 DEF ArchiveConversation, Archive, OwnsThread
<1> QED
  BY <1>1, <1>2

LEMMA AssistantInvStep == AssistantInv /\ [AssistantNext]_assistantVars => AssistantInv'
<1> SUFFICES ASSUME AssistantInv, [AssistantNext]_assistantVars
             PROVE  AssistantInv'
  OBVIOUS
<1>1. CASE UNCHANGED assistantVars
  BY <1>1 DEF assistantVars, AssistantInv, AssistantTypeOK, GatheredOwn, LoggedOwn, Answering
<1>2. CASE AssistantNext
  BY <1>2, ChatStep, ThreadStep DEF AssistantNext
<1> QED
  BY <1>1, <1>2

(* What is shown follows from what was gathered and logged.                *)
LEMMA NothingOfOthersFrom == AssistantInv => NothingOfOthersButFeed
<1> SUFFICES ASSUME AssistantInv
             PROVE  NothingOfOthersButFeed
  OBVIOUS
<1> USE DEF AssistantInv, AssistantTypeOK, GatheredOwn, LoggedOwn
<1>1. \A c \in Chats : chat[c].pc = "log" => chat[c].tells \subseteq MayTell(chat[c].who)
  OBVIOUS
<1>2. \A p \in People, t \in Threads : \A l \in GetConversationMessages(p, t) :
         l.tells \subseteq MayTell(p)
  BY DEF GetConversationMessages, GetConversationHistory
<1>3. ASSUME NEW p \in People, NEW t \in Threads, NEW l \in AdminGetConversationMessages(p, t)
      PROVE  l.tells \subseteq UNION {MayTell(q) : q \in {r \in People : OrgOf[r] = OrgOf[p]}}
  <2>1. l \in log /\ l.owner \in People /\ OrgOf[l.owner] = OrgOf[p]
    BY <1>3 DEF AdminGetConversationMessages, GetAdminConversationHistory
  <2>2. l.tells \subseteq MayTell(l.owner)
    BY <2>1
  <2> QED
    BY <2>1, <2>2
<1> QED
  BY <1>1, <1>2, <1>3 DEF NothingOfOthersButFeed

LEMMA ThreadsKeepFrom == AssistantInv => ThreadsKeepToOwner
  BY DEF AssistantInv, LoggedOwn, ThreadsKeepToOwner, AdminListConversations,
         ListConversationsByOrgAdmin, AdminGetConversationMessages, GetAdminConversationHistory

----------------------------------------------------------------------------
(* Pitches: they are written in words of an own programme.                 *)

(* A programme says what its institution said, and who writes a pitch      *)
(* writes it of an own deal, in words of an own programme or the default.  *)
ProgramsWereSaid == \A q \in Drives : drive[q] # NoRow => drive[q].says \in said[drive[q].org]

WritersKeepToOwn ==
    \A k \in Writers : writer[k] # NoPitch =>
       /\ writer[k].deal \in ListDeals(writer[k].org)
       /\ writer[k].pc = "pitch" => writer[k].words \in said[writer[k].org] \cup {Default}

PitchesInv == PitchesTypeOK /\ ProgramsWereSaid /\ WritersKeepToOwn /\ PitchFromOwnProgram

LEMMA PitchesInvInit == PitchesInit => PitchesInv
  BY PitchesAssumption
     DEF PitchesInit, PitchesInv, PitchesTypeOK, ProgramsWereSaid, WritersKeepToOwn,
         PitchFromOwnProgram, NoPitch, ListDeals

(* Programmes: what was said stays said.                                   *)
LEMMA ProgramStep ==
    ASSUME PitchesInv, NEW o \in Ngos, NEW q \in Drives, NEW words \in Wordings,
           CreateProgram(o, q, words) \/ UpdateProgram(o, q, words)
    PROVE  PitchesInv'
<1> USE DEF PitchesInv, PitchesTypeOK
<1>1. /\ drive' = [drive EXCEPT ![q] = [org |-> o, says |-> words]]
      /\ said' = [said EXCEPT ![o] = @ \cup {words}]
      /\ UNCHANGED <<deal, usage, writer>>
  BY DEF CreateProgram, UpdateProgram, InstitutionProgram, OwnsDrive, DriveRow
<1>2. [org |-> o, says |-> words] \in DriveRow /\ [org |-> o, says |-> words] # NoRow
  BY PitchesAssumption DEF DriveRow
<1>3. said' \in [Ngos -> SUBSET Wordings] /\ \A p \in Ngos : said[p] \subseteq said'[p]
  BY <1>1
<1>4. drive' \in [Drives -> {NoRow} \cup DriveRow]
  BY <1>1, <1>2
<1>5. ProgramsWereSaid'
  BY <1>1, <1>3 DEF ProgramsWereSaid, DriveRow
<1>6. WritersKeepToOwn'
  BY <1>1, <1>3 DEF WritersKeepToOwn, ListDeals, NoPitch
<1>7. PitchFromOwnProgram'
  BY <1>1, <1>3 DEF PitchFromOwnProgram, ListDeals, DealRow
<1>8. \A d \in Deals : deal'[d] # NoRow /\ deal'[d].target # NoRow => drive'[deal'[d].target] # NoRow
  BY <1>1, <1>2 DEF DealRow
<1> QED
  BY <1>1, <1>3, <1>4, <1>5, <1>6, <1>7, <1>8

(* Deals: a change keeps the owner, and the proposal but that of a pitch.  *)
LEMMA DealStep ==
    ASSUME PitchesInv,
           \/ \E o \in Ngos, q \in Drives : DeleteProgram(o, q)
           \/ \E o \in Ngos, d \in Deals, q \in Drives \cup {NoRow} : CreateDeal(o, d, q)
           \/ \E o \in Ngos, ds \in SUBSET Deals, s \in DealStages : UpdateStage(o, ds, s)
    PROVE  PitchesInv'
<1> USE DEF PitchesInv, PitchesTypeOK
<1>1. ASSUME NEW o \in Ngos, NEW q \in Drives, DeleteProgram(o, q)
      PROVE  PitchesInv'
  <2>1. /\ drive' = [drive EXCEPT ![q] = NoRow]
        /\ deal' = [d \in Deals |-> IF deal[d] # NoRow /\ deal[d].target = q
                                    THEN [deal[d] EXCEPT !.target = NoRow] ELSE deal[d]]
        /\ UNCHANGED <<usage, said, writer>>
    BY <1>1 DEF DeleteProgram, RemoveDrive
  <2>2. \A d \in Deals : deal[d] # NoRow =>
           /\ deal'[d] \in DealRow /\ deal'[d] # NoRow /\ deal'[d].org = deal[d].org
           /\ deal'[d].proposal = deal[d].proposal
           /\ deal'[d].target # NoRow => deal'[d].target = deal[d].target /\ deal[d].target # q
    BY <2>1, PitchesAssumption DEF DealRow
  <2>3. \A d \in Deals : deal[d] = NoRow => deal'[d] = NoRow
    BY <2>1
  <2>4. deal' \in [Deals -> {NoRow} \cup DealRow]
    BY <2>1, <2>2, <2>3
  <2>5. \A p \in Ngos : ListDeals(p)' = ListDeals(p)
    BY <2>2, <2>3 DEF ListDeals
  <2>6. ProgramsWereSaid' /\ drive' \in [Drives -> {NoRow} \cup DriveRow]
    BY <2>1 DEF ProgramsWereSaid
  <2>7. WritersKeepToOwn'
    BY <2>1, <2>5 DEF WritersKeepToOwn, NoPitch
  <2>8. PitchFromOwnProgram'
    BY <2>1, <2>2, <2>3, <2>5 DEF PitchFromOwnProgram
  <2>9. \A d \in Deals : deal'[d] # NoRow /\ deal'[d].target # NoRow
                            => drive'[deal'[d].target] # NoRow
    BY <2>1, <2>2, <2>3 DEF DealRow
  <2> QED
    BY <2>1, <2>4, <2>6, <2>7, <2>8, <2>9
<1>2. ASSUME NEW o \in Ngos, NEW d \in Deals, NEW q \in Drives \cup {NoRow}, CreateDeal(o, d, q)
      PROVE  PitchesInv'
  <2>1. /\ deal[d] = NoRow /\ (q # NoRow => drive[q] # NoRow)
        /\ deal' = [deal EXCEPT ![d] = DealPipeline(o, q)]
        /\ UNCHANGED <<drive, usage, said, writer>>
    BY <1>2 DEF CreateDeal
  <2>2. DealPipeline(o, q) \in DealRow /\ DealPipeline(o, q) # NoRow
    BY PitchesAssumption DEF DealPipeline, DealRow
  <2>3. \A p \in Ngos : ListDeals(p) \subseteq ListDeals(p)'
    BY <2>1 DEF ListDeals
  <2>4. WritersKeepToOwn'
    BY <2>1, <2>3 DEF WritersKeepToOwn, NoPitch
  <2>5. PitchFromOwnProgram'
    BY <2>1, <2>2, <2>3 DEF PitchFromOwnProgram, DealPipeline
  <2> QED
    BY <2>1, <2>2, <2>4, <2>5 DEF ProgramsWereSaid, DealPipeline
<1>3. ASSUME NEW o \in Ngos, NEW ds \in SUBSET Deals, NEW s \in DealStages, UpdateStage(o, ds, s)
      PROVE  PitchesInv'
  <2>1. /\ ds \subseteq ListDeals(o)
        /\ deal' = [d \in Deals |-> IF d \in ds THEN [deal[d] EXCEPT !.stage = s] ELSE deal[d]]
        /\ UNCHANGED <<drive, usage, said, writer>>
    BY <1>3 DEF UpdateStage, UpdateDealStage
  <2>2. \A d \in Deals : deal[d] # NoRow =>
           /\ deal'[d] \in DealRow /\ deal'[d] # NoRow /\ deal'[d].org = deal[d].org
           /\ deal'[d].proposal = deal[d].proposal /\ deal'[d].target = deal[d].target
    BY <2>1, PitchesAssumption DEF DealRow
  <2>3. \A d \in Deals : deal[d] = NoRow => deal'[d] = NoRow
    BY <2>1 DEF ListDeals
  <2>4. \A p \in Ngos : ListDeals(p)' = ListDeals(p)
    BY <2>2, <2>3 DEF ListDeals
  <2>5. deal' \in [Deals -> {NoRow} \cup DealRow]
    BY <2>1, <2>2, <2>3
  <2>6. WritersKeepToOwn'
    BY <2>1, <2>4 DEF WritersKeepToOwn, NoPitch
  <2>7. PitchFromOwnProgram'
    BY <2>1, <2>2, <2>3, <2>4 DEF PitchFromOwnProgram
  <2>8. \A d \in Deals : deal'[d] # NoRow /\ deal'[d].target # NoRow
                            => drive'[deal'[d].target] # NoRow
    BY <2>1, <2>2, <2>3
  <2> QED
    BY <2>1, <2>5, <2>6, <2>7, <2>8 DEF ProgramsWereSaid
<1> QED
  BY <1>1, <1>2, <1>3

(* The three transactions of a pitch.                                      *)
LEMMA WriterStep ==
    ASSUME PitchesInv,
           \/ \E k \in Writers, o \in Ngos, d \in Deals : GeneratePitch(k, o, d)
           \/ \E k \in Writers : ReadProgram(k) \/ UpdateDealPitch(k)
           \/ PitchesStop
    PROVE  PitchesInv'
<1> USE DEF PitchesInv, PitchesTypeOK
<1>1. ASSUME NEW k \in Writers, NEW o \in Ngos, NEW d \in Deals, GeneratePitch(k, o, d)
      PROVE  PitchesInv'
  <2>1. /\ d \in ListDeals(o) /\ UNCHANGED <<drive, deal, usage, said>>
        /\ writer' = [writer EXCEPT ![k] = [pc |-> "program", org |-> o, deal |-> d,
                                            target |-> deal[d].target]]
    BY <1>1 DEF GeneratePitch, GetDealByID, rowVars
  <2>2. deal[d].target \in Drives \cup {NoRow}
    BY <2>1 DEF ListDeals, DealRow
  <2> QED
    BY <2>1, <2>2 DEF ProgramsWereSaid, WritersKeepToOwn, PitchFromOwnProgram, ListDeals, NoPitch
<1>2. ASSUME NEW k \in Writers, ReadProgram(k)
      PROVE  PitchesInv'
  <2>1. writer[k].pc = "program" /\ writer[k] # NoPitch /\ UNCHANGED <<drive, deal, usage, said>>
    BY <1>2 DEF ReadProgram, rowVars, NoPitch
  <2>2. PICK words \in {Default} \cup
                (IF GetProgramByID(writer[k].org, writer[k].target)
                 THEN {drive[writer[k].target].says} ELSE {}) :
           writer' = [writer EXCEPT ![k] = [pc |-> "pitch", org |-> writer[k].org,
                                            deal |-> writer[k].deal, words |-> words]]
    BY <1>2 DEF ReadProgram
  <2>3. writer[k].org \in Ngos /\ writer[k].deal \in Deals
        /\ writer[k].target \in Drives \cup {NoRow}
    BY <2>1 DEF NoPitch
  <2>4. words \in (said[writer[k].org] \cup {Default}) /\ words \in Wordings \cup {Default}
    BY <2>2, <2>3 DEF GetProgramByID, OwnsDrive, ProgramsWereSaid
  <2>5. WritersKeepToOwn'
    BY <2>1, <2>2, <2>3, <2>4 DEF WritersKeepToOwn, ListDeals, NoPitch
  <2> QED
    BY <2>1, <2>2, <2>3, <2>4, <2>5 DEF ProgramsWereSaid, PitchFromOwnProgram, ListDeals
<1>3. ASSUME NEW k \in Writers, UpdateDealPitch(k)
      PROVE  PitchesInv'
  <2> DEFINE o == writer[k].org
             d == writer[k].deal
  <2>1. /\ writer[k].pc = "pitch" /\ writer[k] # NoPitch
        /\ UNCHANGED <<drive, said>> /\ writer' = [writer EXCEPT ![k] = NoPitch]
        /\ \/ deal' = [deal EXCEPT ![d].proposal = writer[k].words]
           \/ UNCHANGED deal
        /\ usage' = [usage EXCEPT ![o] = @ \cup {d}] \/ UNCHANGED usage
    BY <1>3 DEF UpdateDealPitch, LogUsage, NoPitch
  <2>2. /\ o \in Ngos /\ d \in ListDeals(o) /\ writer[k].words \in said[o] \cup {Default}
        /\ writer[k].words \in Wordings \cup {Default}
    BY <2>1 DEF WritersKeepToOwn, NoPitch
  <2>3. /\ d \in Deals /\ deal[d] \in DealRow /\ deal[d] # NoRow /\ deal[d].org = o
    BY <2>2 DEF ListDeals
  <2> HIDE DEF o, d
  <2>4. deal' = deal \/
           /\ deal'[d] \in DealRow /\ deal'[d] # NoRow /\ deal'[d].org = o
           /\ deal'[d].target = deal[d].target /\ deal'[d].proposal \in said[o] \cup {Default}
           /\ deal' = [deal EXCEPT ![d] = deal'[d]]
    BY <2>1, <2>2, <2>3, PitchesAssumption DEF DealRow
  <2>5. \A p \in Ngos : ListDeals(p)' = ListDeals(p)
    BY <2>3, <2>4 DEF ListDeals
  <2>6. deal' \in [Deals -> {NoRow} \cup DealRow]
    BY <2>4
  <2>7. WritersKeepToOwn'
    BY <2>1, <2>5 DEF WritersKeepToOwn, NoPitch
  <2>8. \A p \in Ngos : usage'[p] \subseteq ListDeals(p)'
    BY <2>1, <2>2, <2>5 DEF PitchFromOwnProgram
  <2>9. PitchFromOwnProgram'
    BY <2>1, <2>2, <2>3, <2>4, <2>8 DEF PitchFromOwnProgram
  <2>10. \A e \in Deals : deal'[e] # NoRow /\ deal'[e].target # NoRow
                             => drive'[deal'[e].target] # NoRow
    BY <2>1, <2>3, <2>4
  <2>11. usage' \in [Ngos -> SUBSET Deals]
    BY <2>1, <2>3
  <2> QED
    BY <2>1, <2>6, <2>7, <2>9, <2>10, <2>11 DEF ProgramsWereSaid
<1>4. CASE PitchesStop
  BY <1>4 DEF PitchesStop, rowVars, ProgramsWereSaid, WritersKeepToOwn, PitchFromOwnProgram,
              ListDeals, NoPitch
<1> QED
  BY <1>1, <1>2, <1>3, <1>4

LEMMA PitchesInvStep == PitchesInv /\ [PitchesNext]_pitchesVars => PitchesInv'
<1> SUFFICES ASSUME PitchesInv, [PitchesNext]_pitchesVars
             PROVE  PitchesInv'
  OBVIOUS
<1>1. CASE UNCHANGED pitchesVars
  BY <1>1 DEF pitchesVars, rowVars, PitchesInv, PitchesTypeOK, ProgramsWereSaid,
              WritersKeepToOwn, PitchFromOwnProgram, ListDeals
<1>2. CASE PitchesNext
  BY <1>2, ProgramStep, DealStep, WriterStep DEF PitchesNext
<1> QED
  BY <1>1, <1>2

----------------------------------------------------------------------------
(* Masters: an institution exports its own file or the built-in one.       *)

(* A file is its institution's own or broken, and whoever has its path in  *)
(* hands, or in the row, has the own path of a file that was written.      *)
OwnFiles == \A o \in Uploaders, kind \in Kinds : file[<<o, kind>>] \in {o, Nothing, Broken}

OwnKeys ==
    \A o \in Uploaders, kind \in Kinds :
       masterKey[<<o, kind>>] # Nothing =>
          masterKey[<<o, kind>>] = <<o, kind>> /\ file[<<o, kind>>] # Nothing

OwnDesks ==
    \A k \in Desks :
       /\ desk[k].pc = "key" => file[<<desk[k].org, desk[k].kind>>] # Nothing
       /\ desk[k].pc = "file" /\ desk[k].path # Nothing =>
             /\ desk[k].path = <<desk[k].org, desk[k].kind>>
             /\ file[<<desk[k].org, desk[k].kind>>] # Nothing

OwnDocuments == \A e \in exported : e[3] \in {e[1], BuiltIn}

MastersInv == MastersTypeOK /\ OwnFiles /\ OwnKeys /\ OwnDesks /\ OwnDocuments

LEMMA MastersInvInit == MastersInit => MastersInv
  BY DEF MastersInit, MastersInv, MastersTypeOK, OwnFiles, OwnKeys, OwnDesks, OwnDocuments,
         AtEase, Paths

LEMMA MastersAreOwnFrom == MastersInv => MastersAreOwn
<1> SUFFICES ASSUME MastersInv
             PROVE  MastersAreOwn
  OBVIOUS
<1>1. \A p \in Paths : masterKey[p] # Nothing => file[masterKey[p]] # Nothing
  <2>1. \A p \in Paths : p[1] \in Uploaders /\ p[2] \in Kinds /\ p = <<p[1], p[2]>>
    BY DEF Paths
  <2> QED
    BY <2>1 DEF MastersInv, OwnKeys
<1>2. \A k \in Desks : desk[k] # AtEase /\ desk[k].pc = "file" /\ desk[k].path # Nothing
                          => file[desk[k].path] # Nothing
  BY DEF MastersInv, OwnDesks
<1> QED
  BY <1>1, <1>2 DEF MastersInv, OwnDocuments, MastersAreOwn

LEMMA UploadStep ==
    ASSUME MastersInv, NEW k \in Desks, NEW o \in Uploaders, NEW kind \in Kinds,
           UploadTemplate(k, o, kind)
    PROVE  MastersInv'
<1> USE DEF MastersInv, MastersTypeOK, AtEase
<1>1. PICK content \in {o, Broken} : file' = [file EXCEPT ![<<o, kind>>] = content]
  BY DEF UploadTemplate, SaveFile, PathOf
<1>2. /\ UNCHANGED <<masterKey, exported>>
      /\ desk' = desk \/ desk' = [desk EXCEPT ![k] = [pc |-> "key", org |-> o, kind |-> kind]]
  BY DEF UploadTemplate
<1>3. <<o, kind>> \in Paths /\ content # Nothing
  BY MastersAssumption DEF Paths
<1>4. file' \in [Paths -> Uploaders \cup {Nothing, Broken}]
  BY <1>1, <1>3
<1>5. OwnFiles'
  BY <1>1, <1>3 DEF OwnFiles, Paths
<1>6. \A p \in Paths : file[p] # Nothing => file'[p] # Nothing
  BY <1>1, <1>3
<1>7. OwnKeys'
  BY <1>2, <1>6 DEF OwnKeys, Paths
<1>8. file'[<<o, kind>>] # Nothing
  BY <1>1, <1>3
<1>9. desk' \in [Desks -> {AtEase}
         \cup [pc : {"key"}, org : Uploaders, kind : Kinds]
         \cup [pc : {"file"}, org : Uploaders, kind : Kinds, path : Paths \cup {Nothing}]]
  BY <1>2
<1>10. OwnDesks'
  BY <1>2, <1>6, <1>8 DEF OwnDesks, Paths
<1> QED
  BY <1>2, <1>4, <1>5, <1>7, <1>9, <1>10 DEF OwnDocuments

LEMMA DeskStep ==
    ASSUME MastersInv, NEW k \in Desks,
           SaveTenantTemplateKey(k) \/ FillTemplate(k)
    PROVE  MastersInv'
<1> USE DEF MastersInv, MastersTypeOK, AtEase
<1>1. CASE SaveTenantTemplateKey(k)
  <2> DEFINE o == desk[k].org
             kind == desk[k].kind
  <2>1. o \in Uploaders /\ kind \in Kinds /\ desk[k].pc = "key"
    BY <1>1 DEF SaveTenantTemplateKey
  <2>2. /\ \/ masterKey' = [masterKey EXCEPT ![<<o, kind>>] = <<o, kind>>]
           \/ masterKey' = masterKey
        /\ desk' = [desk EXCEPT ![k] = AtEase] /\ UNCHANGED <<file, exported>>
    BY <1>1 DEF SaveTenantTemplateKey, PathOf
  <2>3. <<o, kind>> \in Paths /\ file[<<o, kind>>] # Nothing
    BY <2>1 DEF OwnDesks, Paths
  <2> HIDE DEF o, kind
  <2>4. masterKey' \in [Paths -> Paths \cup {Nothing}]
    BY <2>2, <2>3
  <2>5. ASSUME NEW p \in Uploaders, NEW other \in Kinds, masterKey'[<<p, other>>] # Nothing
        PROVE  masterKey'[<<p, other>>] = <<p, other>> /\ file'[<<p, other>>] # Nothing
    <3>1. <<p, other>> \in Paths
      BY DEF Paths
    <3>2. CASE <<p, other>> = <<o, kind>>
      BY <2>2, <2>3, <2>5, <3>1, <3>2 DEF OwnKeys
    <3>3. CASE <<p, other>> # <<o, kind>>
      BY <2>2, <2>3, <2>5, <3>1, <3>3 DEF OwnKeys
    <3> QED
      BY <3>2, <3>3
  <2>6. OwnKeys'
    BY <2>5 DEF OwnKeys
  <2> QED
    BY <2>2, <2>4, <2>6 DEF OwnFiles, OwnDesks, OwnDocuments
<1>2. CASE FillTemplate(k)
  <2> DEFINE o == desk[k].org
             kind == desk[k].kind
             own == SubstitutePlaceholders(GetTemplate(desk[k].path))
  <2>1. o \in Uploaders /\ kind \in Kinds /\ desk[k].pc = "file"
    BY <1>2 DEF FillTemplate
  <2>2. PICK master \in {BuiltIn} \cup ({own} \ {Nothing}) :
           /\ exported' = exported \cup {<<o, kind, master>>}
           /\ desk' = [desk EXCEPT ![k] = AtEase] /\ UNCHANGED <<file, masterKey>>
    BY <1>2 DEF FillTemplate
  <2>3. own \in {o, Nothing}
    <3>1. CASE desk[k].path = Nothing
      BY <3>1 DEF SubstitutePlaceholders, GetTemplate
    <3>2. CASE desk[k].path # Nothing
      <4>1. desk[k].path = <<o, kind>> /\ file[<<o, kind>>] \in {o, Nothing, Broken}
        BY <2>1, <3>2 DEF OwnDesks, OwnFiles
      <4>2. own = SubstitutePlaceholders(file[<<o, kind>>])
        BY <3>2, <4>1 DEF GetTemplate
      <4> QED
        BY <4>1, <4>2 DEF SubstitutePlaceholders
    <3> QED
      BY <3>1, <3>2
  <2>4. master \in {o, BuiltIn}
    BY <2>2, <2>3
  <2> HIDE DEF o, kind, own
  <2>5. exported' \subseteq Uploaders \X Kinds \X (Uploaders \cup {BuiltIn})
    BY <2>1, <2>2, <2>4
  <2>6. OwnDocuments'
    BY <2>2, <2>4 DEF OwnDocuments
  <2> QED
    BY <2>2, <2>5, <2>6 DEF OwnFiles, OwnDesks, OwnKeys
<1> QED
  BY <1>1, <1>2

LEMMA ExportStep ==
    ASSUME MastersInv,
           \/ \E k \in Desks, o \in Uploaders, kind \in Kinds : ExportProposal(k, o, kind)
           \/ \E o \in Uploaders, kind \in Kinds : ResetTemplate(o, kind)
           \/ MastersStop
    PROVE  MastersInv'
<1> USE DEF MastersInv, MastersTypeOK, AtEase
<1>1. ASSUME NEW k \in Desks, NEW o \in Uploaders, NEW kind \in Kinds, ExportProposal(k, o, kind)
      PROVE  MastersInv'
  <2>1. PICK path \in {masterKey[<<o, kind>>], Nothing} :
           desk' = [desk EXCEPT ![k] = [pc |-> "file", org |-> o, kind |-> kind, path |-> path]]
    BY <1>1 DEF ExportProposal, GetTenantTemplate
  <2>2. UNCHANGED <<file, masterKey, exported>>
    BY <1>1 DEF ExportProposal
  <2>3. <<o, kind>> \in Paths
    BY DEF Paths
  <2>4. path # Nothing => path = <<o, kind>> /\ file[<<o, kind>>] # Nothing
    BY <2>1 DEF OwnKeys
  <2>5. path \in Paths \cup {Nothing}
    BY <2>1, <2>3
  <2>6. OwnDesks'
    BY <2>1, <2>2, <2>4 DEF OwnDesks
  <2> QED
    BY <2>1, <2>2, <2>5, <2>6 DEF OwnFiles, OwnKeys, OwnDocuments
<1>2. ASSUME NEW o \in Uploaders, NEW kind \in Kinds, ResetTemplate(o, kind)
      PROVE  MastersInv'
  <2>1. masterKey' = [masterKey EXCEPT ![<<o, kind>>] = Nothing] /\ UNCHANGED <<file, exported, desk>>
    BY <1>2 DEF ResetTemplate, ClearTenantTemplateKey
  <2>2. OwnKeys' /\ masterKey' \in [Paths -> Paths \cup {Nothing}]
    BY <2>1 DEF OwnKeys, Paths
  <2> QED
    BY <2>1, <2>2 DEF OwnFiles, OwnDesks, OwnDocuments
<1>3. CASE MastersStop
  BY <1>3 DEF MastersStop, OwnFiles, OwnKeys, OwnDesks, OwnDocuments
<1> QED
  BY <1>1, <1>2, <1>3

LEMMA MastersInvStep == MastersInv /\ [MastersNext]_mastersVars => MastersInv'
<1> SUFFICES ASSUME MastersInv, [MastersNext]_mastersVars
             PROVE  MastersInv'
  OBVIOUS
<1>1. CASE UNCHANGED mastersVars
  BY <1>1 DEF mastersVars, MastersInv, MastersTypeOK, OwnFiles, OwnKeys, OwnDesks, OwnDocuments
<1>2. CASE MastersNext
  BY <1>2, UploadStep, DeskStep, ExportStep DEF MastersNext
<1> QED
  BY <1>1, <1>2

----------------------------------------------------------------------------
(* Proposals: no row that was there all along is skipped between pages.    *)

(* Of sets of members of a finite set one has no other within it.          *)
LEMMA Smallest ==
    ASSUME NEW S, IsFiniteSet(S), NEW I, I # {}, NEW f \in [I -> SUBSET S]
    PROVE  \E i \in I : \A j \in I : f[j] \subseteq f[i] => f[j] = f[i]
<1> DEFINE F == {f[i] : i \in I}
<1>1. IsWellFoundedOn(StrictSubsetOrdering(S), FiniteSubsetsOf(S))
  BY FS_StrictSubsetOrderingWellFounded
<1>2. F \subseteq FiniteSubsetsOf(S) /\ F # {}
  BY FS_Subset DEF FiniteSubsetsOf
<1>3. \E X \in F : \A Y \in F : ~(<<Y, X>> \in StrictSubsetOrdering(S))
  <2> HIDE DEF F
  <2> QED
    BY <1>1, <1>2, WFMin
<1>4. PICK i \in I : \A j \in I : ~(<<f[j], f[i]>> \in StrictSubsetOrdering(S))
  BY <1>3
<1>5. \A j \in I : f[j] \subseteq f[i] /\ f[j] # f[i]
                      => <<f[j], f[i]>> \in StrictSubsetOrdering(S)
  BY DEF StrictSubsetOrdering
<1>6. \A j \in I : f[j] \subseteq f[i] => f[j] = f[i]
  BY <1>4, <1>5
<1> QED
  BY <1>6

(* Rows in an order, N giving those before each: no place up to one that   *)
(* is taken is empty.                                                      *)
LEMMA PlacesAreTaken ==
    ASSUME NEW S, IsFiniteSet(S), NEW N \in [S -> SUBSET S],
           \A l \in S : l \notin N[l],
           \A l, m \in S : l # m => l \in N[m] \/ m \in N[l],
           \A l \in S : \A m \in N[l] : N[m] \subseteq N[l],
           NEW k \in Nat, NEW l \in S, Cardinality(N[l]) >= k
    PROVE  \E m \in S : Cardinality(N[m]) = k
<1>1. \A m \in S : IsFiniteSet(N[m]) /\ Cardinality(N[m]) \in Nat
  BY FS_Subset, FS_CardinalityType
<1> DEFINE Late == {m \in S : Cardinality(N[m]) >= k}
           f == [m \in Late |-> N[m]]
<1>2. Late # {} /\ f \in [Late -> SUBSET S]
  OBVIOUS
<1>3. \E m \in Late : \A x \in Late : f[x] \subseteq f[m] => f[x] = f[m]
  <2> HIDE DEF f, Late
  <2> QED
    BY <1>2, Smallest
<1>4. PICK m \in Late : \A x \in Late : N[x] \subseteq N[m] => N[x] = N[m]
  BY <1>3
<1>5. m \in S /\ Cardinality(N[m]) >= k
  OBVIOUS
<1>6. SUFFICES ASSUME Cardinality(N[m]) # k
               PROVE  FALSE
  BY <1>5
<1>7. N[m] # {}
  BY <1>1, <1>5, <1>6, FS_EmptySet
<1> DEFINE Behind(x) == {y \in N[m] : x \in N[y]}
           g == [x \in N[m] |-> Behind(x)]
<1>8. g \in [N[m] -> SUBSET S]
  BY <1>5
<1>9. \E x \in N[m] : \A y \in N[m] : g[y] \subseteq g[x] => g[y] = g[x]
  <2> HIDE DEF g
  <2> QED
    BY <1>7, <1>8, Smallest
<1>10. PICK x \in N[m] : \A y \in N[m] : g[y] \subseteq g[x] => g[y] = g[x]
  BY <1>9
<1>11. \A y \in N[m] : Behind(y) \subseteq Behind(x) => Behind(y) = Behind(x)
  BY <1>10
<1>12. Behind(x) = {}
  <2> SUFFICES ASSUME NEW y \in Behind(x)
               PROVE  FALSE
    OBVIOUS
  <2>1. y \in S /\ y \in N[m] /\ x \in N[y]
    OBVIOUS
  <2>2. ASSUME NEW z \in Behind(y) PROVE z \in Behind(x)
    <3>1. z \in S /\ z \in N[m] /\ y \in N[z]
      OBVIOUS
    <3>2. N[y] \subseteq N[z]
      BY <3>1
    <3> QED
      BY <2>1, <3>1, <3>2
  <2>3. y \notin Behind(y)
    BY <2>1
  <2> QED
    BY <1>11, <2>1, <2>2, <2>3
<1>13. x \in S /\ N[x] \subseteq N[m] /\ x \notin N[x]
  OBVIOUS
<1>14. \A z \in N[m] : z # x => z \in N[x]
  <2> SUFFICES ASSUME NEW z \in N[m], z # x
               PROVE  z \in N[x]
    OBVIOUS
  <2>1. x \notin N[z]
    BY <1>12
  <2> QED
    BY <1>13, <2>1
<1>15. N[x] = N[m] \ {x}
  BY <1>13, <1>14
<1>16. Cardinality(N[x]) = Cardinality(N[m]) - 1
  <2>1. IsFiniteSet(N[m]) /\ x \in N[m]
    BY <1>1, <1>5
  <2>2. Cardinality(N[m] \ {x}) = Cardinality(N[m]) - 1
    BY <2>1, FS_RemoveElement
  <2> QED
    BY <1>15, <2>2
<1>17. x \in Late
  BY <1>1, <1>5, <1>6, <1>13, <1>16
<1> QED
  BY <1>4, <1>10, <1>13, <1>17

----------------------------------------------------------------------------
(* NoneSkipped is not inductive: what a reader has not seen of its due must*)
(* still be ahead of it, and for that the rows must be in an order.        *)

RowsInOrder ==
    /\ older \in [Letters -> SUBSET Proposed]
    /\ \A l \in Letters : l \notin older[l]
    /\ \A l, m \in Proposed : l # m => l \in older[m] \/ m \in older[l]
    /\ \A l \in Letters : \A m \in older[l] : older[m] \subseteq older[l]

Ahead(at) ==
    \A l \in at.due : \/ l \in at.seen
                      \/ /\ l \in ListOf(at.who)
                         /\ Place(at.who, l) >= Offset(at.page, at.size)

ReaderState == {Away} \cup
    [pc : {"read", "done"}, who : Institutions \cup Receivers, size : Asked,
     page : Nat \ {0}, seen : SUBSET Letters, due : SUBSET Letters]

ProposalsInv ==
    /\ letter \in [Letters -> {NoLetter} \cup
                      [by : Institutions, to : Receivers, status : Statuses]]
    /\ reader \in [Readers -> ReaderState]
    /\ RowsInOrder
    /\ \A r \in Readers : /\ reader[r].pc = "read" => Ahead(reader[r])
                          /\ reader[r].pc = "done" => reader[r].due \subseteq reader[r].seen

LEMMA LettersAreFinite ==
    ASSUME NEW T, T \subseteq Letters
    PROVE  IsFiniteSet(T) /\ Cardinality(T) \in Nat
  BY ProposalsAssumption, FS_Subset, FS_CardinalityType

LEMMA MoreAreNoFewer ==
    ASSUME NEW S, S \subseteq Letters, NEW T, T \subseteq S
    PROVE  Cardinality(T) <= Cardinality(S)
  BY LettersAreFinite, FS_Subset

LEMMA ListsHoldRows == \A who, l : l \in ListOf(who) => l \in Proposed /\ l \in Letters
  BY DEF ListOf, ListByOrgTenant, ListByCorpTenant, Proposed

LEMMA PlaceType == \A who, l : Place(who, l) \in Nat /\ Newer(who, l) \subseteq Letters
<1> SUFFICES ASSUME NEW who, NEW l
             PROVE  Place(who, l) \in Nat /\ Newer(who, l) \subseteq Letters
  OBVIOUS
<1>1. Newer(who, l) \subseteq Letters
  BY ListsHoldRows DEF Newer
<1> QED
  BY <1>1, LettersAreFinite DEF Place

LEMMA Sizes ==
    ASSUME NEW page \in Nat \ {0}, NEW size \in Nat
    PROVE  /\ PageSize(size) \in Nat \ {0} /\ Offset(page, size) \in Nat
           /\ Offset(1, size) = 0
           /\ Offset(page + 1, size) = Offset(page, size) + PageSize(size)
<1>1. PICK s \in Nat \ {0} : s = PageSize(size)
  BY ProposalsAssumption DEF PageSize
<1>2. (page - 1) \in Nat /\ (page + 1) - 1 = (page - 1) + 1
  OBVIOUS
<1>3. \A n \in Nat : n * s \in Nat /\ (n + 1) * s = n * s + s
  OBVIOUS
<1>4. Offset(page, size) = (page - 1) * s /\ Offset(page + 1, size) = ((page - 1) + 1) * s
  BY <1>1, <1>2 DEF Offset
<1>5. Offset(1, size) = 0 * s
  BY <1>1 DEF Offset
<1> QED
  BY <1>1, <1>2, <1>3, <1>4, <1>5

(* A reader that finds a page empty has nothing ahead.                     *)
LEMMA EmptyPageIsTheLast ==
    ASSUME ProposalsInv, NEW who, NEW page \in Nat \ {0}, NEW size \in Nat,
           PageOf(who, page, size) = {}
    PROVE  \A l \in ListOf(who) : ~(Place(who, l) >= Offset(page, size))
<1> SUFFICES ASSUME NEW l \in ListOf(who), Place(who, l) >= Offset(page, size)
             PROVE  FALSE
  OBVIOUS
<1> DEFINE S == ListOf(who)
           N == [m \in S |-> Newer(who, m)]
<1>1. S \subseteq Proposed /\ S \subseteq Letters /\ IsFiniteSet(S)
  BY ListsHoldRows, LettersAreFinite
<1>2. \A m \in S : N[m] = {n \in S : m \in older[n]}
  BY DEF Newer
<1>3. N \in [S -> SUBSET S]
  BY DEF Newer
<1>4. \A m \in S : Cardinality(N[m]) = Place(who, m)
  BY DEF Place
<1> HIDE DEF N, S
<1>5. \A m \in S : m \notin N[m]
  BY <1>1, <1>2 DEF ProposalsInv, RowsInOrder
<1>6. \A m, n \in S : m # n => m \in N[n] \/ n \in N[m]
  BY <1>1, <1>2 DEF ProposalsInv, RowsInOrder
<1>7. \A m \in S : \A n \in N[m] : N[n] \subseteq N[m]
  BY <1>1, <1>2, <1>3 DEF ProposalsInv, RowsInOrder
<1>8. PICK k \in Nat : k = Offset(page, size)
  BY Sizes
<1>9. l \in S /\ Cardinality(N[l]) >= k
  BY <1>4, <1>8 DEF S
<1>10. PICK m \in S : Cardinality(N[m]) = k
  BY <1>1, <1>3, <1>5, <1>6, <1>7, <1>9, PlacesAreTaken
<1>11. PICK s \in Nat \ {0} : s = PageSize(size)
  BY Sizes
<1>12. k \in k..(k + s - 1)
  OBVIOUS
<1>13. m \in PageOf(who, page, size)
  BY <1>4, <1>8, <1>10, <1>11, <1>12 DEF PageOf, S
<1> QED
  BY <1>13

(* Rows that are added or reviewed take nothing from what is ahead.        *)
LEMMA AheadStays ==
    ASSUME NEW at,
           \A l \in ListOf(at.who) : /\ l \in ListOf(at.who)'
                                     /\ Newer(at.who, l) \subseteq Newer(at.who, l)',
           \A l : Newer(at.who, l)' \subseteq Letters,
           Ahead(at), at.page \in Nat \ {0}, at.size \in Nat
    PROVE  Ahead(at)'
<1> SUFFICES ASSUME NEW l \in at.due, l \notin at.seen
             PROVE  /\ l \in ListOf(at.who)'
                    /\ Place(at.who, l)' >= Offset(at.page, at.size)
  BY DEF Ahead, Offset, PageSize
<1>1. l \in ListOf(at.who) /\ Place(at.who, l) >= Offset(at.page, at.size)
  BY DEF Ahead
<1>2. Place(at.who, l) <= Place(at.who, l)'
  BY <1>1, MoreAreNoFewer DEF Place
<1>3. Place(at.who, l) \in Nat /\ Place(at.who, l)' \in Nat
  BY PlaceType, LettersAreFinite DEF Place
<1>4. PICK k \in Nat : k = Offset(at.page, at.size)
  BY Sizes
<1> QED
  BY <1>1, <1>2, <1>3, <1>4

LEMMA ReaderTypes ==
    ASSUME NEW at \in ReaderState, at.pc \in {"read", "done"}
    PROVE  /\ at \in [pc : {"read", "done"}, who : Institutions \cup Receivers, size : Asked,
                      page : Nat \ {0}, seen : SUBSET Letters, due : SUBSET Letters]
           /\ at.page \in Nat \ {0} /\ at.size \in Nat
           /\ at = [pc |-> at.pc, who |-> at.who, size |-> at.size, page |-> at.page,
                    seen |-> at.seen, due |-> at.due]
<1>1. at # Away
  BY DEF Away
<1>2. at \in [pc : {"read", "done"}, who : Institutions \cup Receivers, size : Asked,
             page : Nat \ {0}, seen : SUBSET Letters, due : SUBSET Letters]
  BY <1>1 DEF ReaderState
<1>3. at.page \in Nat \ {0} /\ at.size \in Nat
  BY <1>2, ProposalsAssumption
<1>4. at = [pc |-> at.pc, who |-> at.who, size |-> at.size, page |-> at.page,
            seen |-> at.seen, due |-> at.due]
  BY <1>2
<1> QED
  BY <1>2, <1>3, <1>4

(* The rows change and the readers do not.                                 *)
LEMMA RowsAreAdded ==
    ASSUME ProposalsInv, reader' = reader,
           \A who : \A l \in ListOf(who) :
              l \in ListOf(who)' /\ Newer(who, l) \subseteq Newer(who, l)'
    PROVE  (\A r \in Readers : /\ reader[r].pc = "read" => Ahead(reader[r])
                               /\ reader[r].pc = "done" => reader[r].due \subseteq reader[r].seen)'
<1> SUFFICES ASSUME NEW r \in Readers
             PROVE  /\ reader[r].pc = "read" => Ahead(reader[r])'
                    /\ reader[r].pc = "done" => reader[r].due \subseteq reader[r].seen
  OBVIOUS
<1>0. reader[r].pc = "done" => reader[r].due \subseteq reader[r].seen
  BY DEF ProposalsInv
<1> SUFFICES ASSUME reader[r].pc = "read"
             PROVE  Ahead(reader[r])'
  BY <1>0
<1>1. PICK at : at = reader[r]
  OBVIOUS
<1>2. at \in ReaderState /\ at.pc = "read" /\ Ahead(at)
  BY <1>1 DEF ProposalsInv
<1>3. at.page \in Nat \ {0} /\ at.size \in Nat
  BY <1>2, ReaderTypes
<1>4. \A l : Newer(at.who, l)' \subseteq Letters
  BY DEF Newer, ListOf, ListByOrgTenant, ListByCorpTenant, Proposed
<1>5. Ahead(at)'
  BY <1>2, <1>3, <1>4, AheadStays
<1> QED
  BY <1>1, <1>5

LEMMA SubmitStep ==
    ASSUME ProposalsInv, NEW l \in Letters, NEW o \in Institutions, NEW f \in Receivers,
           SubmitProposal(l, o, f)
    PROVE  ProposalsInv'
<1> USE DEF ProposalsInv
<1> DEFINE row == [by |-> o, to |-> f, status |-> "SUBMITTED"]
<1>1. /\ letter[l] = NoLetter /\ letter' = [letter EXCEPT ![l] = row]
      /\ older' = [older EXCEPT ![l] = Proposed] /\ reader' = reader
  BY DEF SubmitProposal
<1>2. row \in [by : Institutions, to : Receivers, status : Statuses] /\ row # NoLetter
  BY ProposalsAssumption DEF NoLetter
<1> HIDE DEF row
<1>3. letter' \in [Letters -> {NoLetter} \cup
                      [by : Institutions, to : Receivers, status : Statuses]]
  BY <1>1, <1>2
<1>4. l \notin Proposed /\ Proposed' = Proposed \cup {l}
  BY <1>1, <1>2 DEF Proposed
<1>5. \A m \in Letters : older'[m] = IF m = l THEN Proposed ELSE older[m]
  BY <1>1 DEF RowsInOrder
<1>6. \A m \in Letters : older[m] \subseteq Proposed
  BY DEF RowsInOrder
<1>7. older' \in [Letters -> SUBSET Proposed']
  BY <1>1, <1>4, <1>6 DEF RowsInOrder
<1>8. RowsInOrder'
  <2>1. \A m \in Letters : m \notin older'[m]
    BY <1>4, <1>5 DEF RowsInOrder
  <2>2. \A m, n \in Proposed' : m # n => m \in older'[n] \/ n \in older'[m]
    BY <1>4, <1>5 DEF RowsInOrder, Proposed
  <2>3. \A m \in Letters : \A n \in older'[m] : older'[n] \subseteq older'[m]
    <3> SUFFICES ASSUME NEW m \in Letters, NEW n \in older'[m]
                 PROVE  older'[n] \subseteq older'[m]
      OBVIOUS
    <3>1. n \in Proposed /\ n \in Letters /\ n # l /\ older'[n] = older[n]
      BY <1>4, <1>5, <1>6 DEF Proposed
    <3>2. CASE m = l
      BY <1>5, <1>6, <3>1, <3>2
    <3>3. CASE m # l
      BY <1>5, <3>1, <3>3 DEF RowsInOrder
    <3> QED
      BY <3>2, <3>3
  <2> QED
    BY <1>7, <2>1, <2>2, <2>3 DEF RowsInOrder
<1>9. \A m \in Proposed : letter'[m] = letter[m] /\ m \in Proposed' /\ older'[m] = older[m]
  BY <1>1, <1>4, <1>5 DEF Proposed
<1>10. ASSUME NEW who, NEW m \in ListOf(who)
       PROVE  m \in ListOf(who)' /\ Newer(who, m) \subseteq Newer(who, m)'
  <2>1. \A n : n \in ListOf(who) => n \in ListOf(who)' /\ n \in Proposed
    BY <1>9 DEF ListOf, ListByOrgTenant, ListByCorpTenant
  <2> QED
    BY <1>9, <2>1 DEF Newer
<1> QED
  BY <1>1, <1>3, <1>8, <1>10, RowsAreAdded

LEMMA ReviewStep ==
    ASSUME ProposalsInv, NEW l \in Letters, NEW s \in Statuses, UpdateStatus(l, s)
    PROVE  ProposalsInv'
<1> USE DEF ProposalsInv
<1>1. /\ letter[l] # NoLetter /\ letter' = [letter EXCEPT ![l] = [letter[l] EXCEPT !.status = s]]
      /\ older' = older /\ reader' = reader
  BY DEF UpdateStatus
<1>2. letter[l] \in [by : Institutions, to : Receivers, status : Statuses]
  BY <1>1
<1>3. /\ [letter[l] EXCEPT !.status = s] \in [by : Institutions, to : Receivers, status : Statuses]
      /\ [letter[l] EXCEPT !.status = s].by = letter[l].by
      /\ [letter[l] EXCEPT !.status = s].to = letter[l].to
      /\ [letter[l] EXCEPT !.status = s] # NoLetter
  BY <1>2 DEF NoLetter
<1>4. \A m \in Letters : /\ letter'[m] = NoLetter <=> letter[m] = NoLetter
                         /\ m \in Proposed => letter'[m].by = letter[m].by
                                            /\ letter'[m].to = letter[m].to
  BY <1>1, <1>3
<1>5. letter' \in [Letters -> {NoLetter} \cup
                      [by : Institutions, to : Receivers, status : Statuses]]
  BY <1>1, <1>3
<1>6. Proposed' = Proposed
  BY <1>4 DEF Proposed
<1>7. RowsInOrder'
  BY <1>1, <1>6 DEF RowsInOrder
<1>8. ASSUME NEW who
      PROVE  ListOf(who)' = ListOf(who)
  BY <1>4, <1>6 DEF ListOf, ListByOrgTenant, ListByCorpTenant, Proposed
<1>9. ASSUME NEW who, NEW m \in ListOf(who)
      PROVE  m \in ListOf(who)' /\ Newer(who, m) \subseteq Newer(who, m)'
  BY <1>1, <1>8 DEF Newer
<1> QED
  BY <1>1, <1>5, <1>7, <1>9, RowsAreAdded

LEMMA StartStep ==
    ASSUME ProposalsInv, NEW r \in Readers, NEW who \in Institutions \cup Receivers,
           NEW size \in Asked, StartReading(r, who, size)
    PROVE  ProposalsInv'
<1> USE DEF ProposalsInv
<1> DEFINE at == [pc |-> "read", who |-> who, size |-> size, page |-> 1,
                  seen |-> {}, due |-> ListOf(who)]
<1>1. reader' = [reader EXCEPT ![r] = at] /\ UNCHANGED <<letter, older>>
  BY DEF StartReading
<1>2. at \in ReaderState /\ at.pc = "read"
  BY ListsHoldRows DEF ReaderState
<1>3. Ahead(at)
  <2>1. Offset(1, size) = 0
    BY ProposalsAssumption, Sizes
  <2>2. \A l \in ListOf(who) : Place(who, l) >= 0
    BY PlaceType
  <2> QED
    BY <2>1, <2>2 DEF Ahead
<1> HIDE DEF at
<1>4. \A a : Ahead(a)' <=> Ahead(a)
  BY <1>1 DEF Ahead, ListOf, ListByOrgTenant, ListByCorpTenant, Proposed, Place, Newer,
              Offset, PageSize
<1>5. \A q \in Readers : reader'[q] = IF q = r THEN at ELSE reader[q]
  BY <1>1
<1>6. RowsInOrder'
  BY <1>1 DEF RowsInOrder, Proposed
<1>7. \A q \in Readers : /\ reader'[q].pc = "read" => Ahead(reader'[q])
                         /\ reader'[q].pc = "done" => reader'[q].due \subseteq reader'[q].seen
  BY <1>2, <1>3, <1>5
<1>8. reader' \in [Readers -> ReaderState]
  BY <1>1, <1>2
<1> QED
  BY <1>1, <1>4, <1>6, <1>7, <1>8

LEMMA ReadStep ==
    ASSUME ProposalsInv, NEW r \in Readers, ReadPage(r)
    PROVE  ProposalsInv'
<1> USE DEF ProposalsInv
<1>1. PICK at : at = reader[r]
  OBVIOUS
<1> DEFINE got == PageOf(at.who, at.page, at.size)
           last == [at EXCEPT !.pc = "done"]
           next == [at EXCEPT !.seen = at.seen \cup got, !.page = at.page + 1]
<1>2. /\ at.pc = "read" /\ UNCHANGED <<letter, older>>
      /\ reader' = [reader EXCEPT ![r] = IF got = {} THEN last ELSE next]
  BY <1>1 DEF ReadPage
<1>3. at \in ReaderState /\ Ahead(at)
  BY <1>1, <1>2
<1>4. /\ at.page \in Nat \ {0} /\ at.size \in Nat
      /\ at = [pc |-> at.pc, who |-> at.who, size |-> at.size, page |-> at.page,
               seen |-> at.seen, due |-> at.due]
      /\ at.who \in Institutions \cup Receivers /\ at.size \in Asked
      /\ at.seen \subseteq Letters /\ at.due \subseteq Letters
  BY <1>2, <1>3, ReaderTypes
<1>5. got \subseteq ListOf(at.who) /\ got \subseteq Letters
  BY ListsHoldRows DEF PageOf
<1>6. ASSUME got = {}
      PROVE  at.due \subseteq at.seen
  <2>1. \A l \in ListOf(at.who) : ~(Place(at.who, l) >= Offset(at.page, at.size))
    BY <1>4, <1>6, EmptyPageIsTheLast
  <2> QED
    BY <1>3, <2>1 DEF Ahead
<1>7. last \in ReaderState /\ last.pc = "done" /\ last.due = at.due /\ last.seen = at.seen
  BY <1>4 DEF ReaderState
<1>8. /\ next.pc = at.pc /\ next.due = at.due /\ next.who = at.who /\ next.size = at.size
      /\ next.page = at.page + 1 /\ next.seen = at.seen \cup got
  <2> HIDE DEF got
  <2> QED
    BY <1>4
<1>9. next \in ReaderState /\ next.pc = "read"
  <2>1. at.page + 1 \in Nat \ {0}
    BY <1>4
  <2>2. at.seen \cup got \in SUBSET Letters
    BY <1>4, <1>5
  <2>3. at \in [pc : {"read", "done"}, who : Institutions \cup Receivers, size : Asked,
               page : Nat \ {0}, seen : SUBSET Letters, due : SUBSET Letters]
    BY <1>2, <1>3, ReaderTypes
  <2>4. \A S \in SUBSET Letters, n \in Nat \ {0} :
           [at EXCEPT !.seen = S, !.page = n] \in
              [pc : {"read", "done"}, who : Institutions \cup Receivers, size : Asked,
               page : Nat \ {0}, seen : SUBSET Letters, due : SUBSET Letters]
    BY <2>3
  <2> HIDE DEF got
  <2>5. next \in ReaderState
    BY <2>1, <2>2, <2>4 DEF ReaderState
  <2> QED
    BY <1>2, <1>8, <2>5
<1>10. Ahead(next)
  <2> SUFFICES ASSUME NEW l \in at.due, l \notin at.seen, l \notin got
               PROVE  /\ l \in ListOf(at.who)
                      /\ Place(at.who, l) >= Offset(at.page + 1, at.size)
    <3> HIDE DEF next, got
    <3> QED
      BY <1>8 DEF Ahead
  <2>2. l \in ListOf(at.who) /\ Place(at.who, l) >= Offset(at.page, at.size)
    BY <1>3 DEF Ahead
  <2>3. PICK k \in Nat, s \in Nat \ {0}, n \in Nat :
           /\ k = Offset(at.page, at.size) /\ s = PageSize(at.size) /\ n = Place(at.who, l)
    BY <1>4, Sizes, PlaceType
  <2>4. Offset(at.page + 1, at.size) = k + s
    BY <1>4, <2>3, Sizes
  <2>5. ~(n \in k..(k + s - 1))
    BY <2>2, <2>3 DEF PageOf
  <2>6. n >= k
    BY <2>2, <2>3
  <2>7. n >= k + s
    BY <2>5, <2>6
  <2> QED
    BY <2>2, <2>3, <2>4, <2>7
<1> DEFINE new == IF got = {} THEN last ELSE next
<1>11. /\ new \in ReaderState
       /\ new.pc = "read" => Ahead(new)
       /\ new.pc = "done" => new.due \subseteq new.seen
  <2> HIDE DEF last, next, got
  <2> QED
    BY <1>6, <1>7, <1>9, <1>10
<1>12. reader' = [reader EXCEPT ![r] = new]
  BY <1>2
<1> HIDE DEF new, last, next, got
<1>13. \A a : Ahead(a)' <=> Ahead(a)
  BY <1>2 DEF Ahead, ListOf, ListByOrgTenant, ListByCorpTenant, Proposed, Place, Newer,
              Offset, PageSize
<1>14. RowsInOrder'
  BY <1>2 DEF RowsInOrder, Proposed
<1>15. \A q \in Readers : reader'[q] = IF q = r THEN new ELSE reader[q]
  BY <1>12
<1>16. reader' \in [Readers -> ReaderState]
  BY <1>11, <1>12
<1> QED
  BY <1>2, <1>11, <1>13, <1>14, <1>15, <1>16

LEMMA StopStep ==
    ASSUME ProposalsInv, NEW r \in Readers, StopReading(r)
    PROVE  ProposalsInv'
<1> USE DEF ProposalsInv
<1>1. reader' = [reader EXCEPT ![r] = Away] /\ UNCHANGED <<letter, older>>
  BY DEF StopReading
<1>2. Away \in ReaderState /\ Away.pc = "away"
  BY DEF Away, ReaderState
<1>3. \A a : Ahead(a)' <=> Ahead(a)
  BY <1>1 DEF Ahead, ListOf, ListByOrgTenant, ListByCorpTenant, Proposed, Place, Newer,
              Offset, PageSize
<1>4. RowsInOrder'
  BY <1>1 DEF RowsInOrder, Proposed
<1>5. \A q \in Readers : reader'[q] = IF q = r THEN Away ELSE reader[q]
  BY <1>1
<1>6. reader' \in [Readers -> ReaderState]
  BY <1>1, <1>2
<1> QED
  BY <1>1, <1>2, <1>3, <1>4, <1>5, <1>6

LEMMA RemoveStep ==
    ASSUME ProposalsInv, NEW who, RemoveAll(who)
    PROVE  ProposalsInv'
<1> USE DEF ProposalsInv
<1>1. PICK gone : gone = ListOf(who)
  OBVIOUS
<1>2. /\ letter' = [l \in Letters |-> IF l \in gone THEN NoLetter ELSE letter[l]]
      /\ older' = [l \in Letters |-> IF l \in gone THEN {} ELSE older[l] \ gone]
      /\ reader' = [r \in Readers |-> IF reader[r] = Away THEN Away
                                      ELSE [reader[r] EXCEPT !.due = {}]]
  BY <1>1 DEF RemoveAll
<1>3. Proposed' = Proposed \ gone
  BY <1>2 DEF Proposed
<1>4. letter' \in [Letters -> {NoLetter} \cup
                      [by : Institutions, to : Receivers, status : Statuses]]
  BY <1>2
<1>5. RowsInOrder'
  <2>1. \A l \in Letters : older'[l] \subseteq Proposed'
    BY <1>2, <1>3 DEF RowsInOrder
  <2>2. older' \in [Letters -> SUBSET Proposed']
    BY <1>2, <2>1
  <2>3. \A l \in Letters : l \notin older'[l]
    BY <1>2 DEF RowsInOrder
  <2>4. \A l, m \in Proposed' : l # m => l \in older'[m] \/ m \in older'[l]
    BY <1>2, <1>3 DEF RowsInOrder, Proposed
  <2>5. \A l \in Letters : \A m \in older'[l] : older'[m] \subseteq older'[l]
    BY <1>2, <1>3 DEF RowsInOrder, Proposed
  <2> QED
    BY <2>2, <2>3, <2>4, <2>5 DEF RowsInOrder
<1>6. ASSUME NEW r \in Readers
      PROVE  /\ reader'[r] \in ReaderState
             /\ reader'[r] = Away \/ reader'[r].due = {}
  <2>1. CASE reader[r] = Away
    BY <1>2, <2>1 DEF ReaderState
  <2>2. CASE reader[r] # Away
    <3>1. PICK at : at = reader[r]
      OBVIOUS
    <3>2. at \in [pc : {"read", "done"}, who : Institutions \cup Receivers, size : Asked,
                  page : Nat \ {0}, seen : SUBSET Letters, due : SUBSET Letters]
      BY <2>2, <3>1 DEF ReaderState
    <3>3. [at EXCEPT !.due = {}] \in ReaderState /\ [at EXCEPT !.due = {}].due = {}
      BY <3>2 DEF ReaderState
    <3> QED
      BY <1>2, <2>2, <3>1, <3>3
  <2> QED
    BY <2>1, <2>2
<1>7. Away.pc = "away"
  BY DEF Away
<1>8. \A a : a.due = {} => Ahead(a)'
  BY DEF Ahead
<1>9. reader' \in [Readers -> ReaderState]
  BY <1>2, <1>6
<1> QED
  BY <1>4, <1>5, <1>6, <1>7, <1>8, <1>9

LEMMA ProposalsInvInit == ProposalsInit => ProposalsInv
  BY DEF ProposalsInit, ProposalsInv, RowsInOrder, Proposed, ReaderState, Away

LEMMA ProposalsInvStep == ProposalsInv /\ [ProposalsNext]_proposalsVars => ProposalsInv'
<1> SUFFICES ASSUME ProposalsInv, [ProposalsNext]_proposalsVars
             PROVE  ProposalsInv'
  OBVIOUS
<1>1. CASE UNCHANGED proposalsVars
  BY <1>1 DEF proposalsVars, ProposalsInv, RowsInOrder, Proposed, Ahead, ListOf,
              ListByOrgTenant, ListByCorpTenant, Place, Newer
<1> QED
  BY <1>1, SubmitStep, ReviewStep, StartStep, ReadStep, StopStep, RemoveStep
  DEF ProposalsNext

LEMMA ProposalsInvImplies == ProposalsInv => ProposalsTypeOK /\ NoneSkipped
<1> SUFFICES ASSUME ProposalsInv PROVE ProposalsTypeOK /\ NoneSkipped
  OBVIOUS
<1>1. \A l, m \in Proposed : l # m => (l \in older[m] <=> m \notin older[l])
  BY DEF ProposalsInv, RowsInOrder, Proposed
<1>2. \A r \in Readers : reader[r] \in ReaderState
  BY DEF ProposalsInv
<1> QED
  BY <1>1, <1>2 DEF ProposalsInv, RowsInOrder, ReaderState, ProposalsTypeOK, NoneSkipped

----------------------------------------------------------------------------
(* LanguageModels: a finding rests on the answer of the first model that   *)
(* was not given up on.                                                    *)

(* FindingIsFounded is not inductive: while a model is asked, the attempts *)
(* on it are as many as were busy, all before it were given up on, and     *)
(* what was waited is bounded by the models and the attempts behind.       *)

Whole == Pause * Attempts * (Attempts + 1)

Asking(m, k) ==
    /\ m \in 1..Models /\ k \in 1..Attempts
    /\ \A i \in 1..Len(asked) : asked[i].model <= m /\ asked[i].said # "ok"
    /\ \A n \in 1..(m - 1) : GivenUp(n)
    /\ Cardinality(Tries(m)) = k - 1
    /\ \A i \in Tries(m) : asked[i].said = "busy"
    /\ 2 * slept <= Whole * (m - 1) + Pause * (k - 1) * k

Answered ==
    /\ Len(asked) > 0
    /\ \A i \in 1..Len(asked) : asked[i].said = "ok" <=> i = Len(asked)
    /\ \A m \in 1..(asked[Len(asked)].model - 1) : GivenUp(m)

NoneReported ==
    /\ \A i \in 1..Len(asked) : asked[i].said # "ok"
    /\ asked = <<>> \/ \A m \in 1..Models : GivenUp(m)

Rated ==
    LET s == Best(talk.text)
    IN  talk.text \in Answers \ {<<>>} /\ talk.finding = s /\ talk.status = Status(Confidence(s))

LanguageInv ==
    /\ LanguageTypeOK
    /\ 2 * slept <= Whole * Models
    /\ talk.pc = "idle" => NoneReported
    /\ talk.pc = "ask" => Asking(talk.model, talk.attempt)
    /\ talk.pc = "parse" => Answered
    /\ talk.pc = "rated" => Answered /\ Rated
    /\ talk.pc = "failed" => Answered \/ NoneReported

(* An answer holds a finding, or two; the best of it is one about a        *)
(* company's programmes, if there is one.                                  *)
LEMMA BestIsFound ==
    ASSUME NEW text \in Answers, text # <<>>
    PROVE  /\ Best(text) \in Found
           /\ ~Corporate(Best(text)) => \A i \in 1..Len(text) : ~Corporate(text[i])
<1>1. /\ Len(text) \in {1, 2} /\ \A i \in 1..Len(text) : text[i] \in Found
  BY DEF Answers
<1> DEFINE I == {i \in 1..Len(text) : Corporate(text[i])}
<1>2. CASE I = {}
  <2>1. Best(text) = text[1] /\ 1 \in 1..Len(text)
    BY <1>1, <1>2 DEF Best
  <2> QED
    BY <1>1, <1>2, <2>1
<1>3. CASE I # {}
  <2>1. PICK x \in I : \A y \in I : x <= y
    <3>1. I \subseteq {1, 2}
      BY <1>1
    <3> QED
      BY <1>3, <3>1
  <2>2. Min(I) \in I
    BY <2>1 DEF Min
  <2>3. Best(text) = text[Min(I)]
    BY <1>3 DEF Best
  <2> QED
    BY <1>1, <2>2, <2>3
<1> QED
  BY <1>2, <1>3

(* What is rated high has a name and a quote, and everything else when the *)
(* quote is not in the text.                                               *)
LEMMA HighIsEarned ==
    ASSUME NEW s \in Found, Status(Confidence(s)) = "HIGH_CONFIDENCE"
    PROVE  /\ s.quote # "none" /\ s.name # "none"
           /\ s.quote = "other" => s.budget /\ s.contact
<1> DEFINE a == IF s.name \in {"unknown", "given"} THEN 25 ELSE 0
           b == CASE s.quote = "verbatim" -> 35 [] s.quote = "other" -> 15 [] OTHER -> 0
           c == IF s.budget THEN 20 ELSE 0
           d == IF s.contact THEN 20 ELSE 0
<1>1. s \in [name : {"none", "Unknown", "unknown", "given"}, csr : BOOLEAN,
             quote : {"none", "verbatim", "other"}, budget : BOOLEAN, contact : BOOLEAN]
  BY LanguageAssumption
<1>2. /\ a \in {0, 25} /\ (s.name = "none" => a = 0)
      /\ b \in {0, 15, 35} /\ (s.quote = "none" => b = 0) /\ (s.quote = "other" => b = 15)
      /\ c \in {0, 20} /\ (c = 20 <=> s.budget)
      /\ d \in {0, 20} /\ (d = 20 <=> s.contact)
  BY <1>1
<1>3. Confidence(s) = a + b + c + d
  BY DEF Confidence
<1> HIDE DEF a, b, c, d
<1>4. a + b + c + d >= 80
  BY <1>2, <1>3 DEF Status
<1> QED
  BY <1>2, <1>4

LEMMA WholeType == Whole \in Nat
<1>1. \A p, a \in Nat : p * a * (a + 1) \in Nat
  OBVIOUS
<1> QED
  BY <1>1, LanguageAssumption DEF Whole

(* The pauses behind an attempt, those of one more, and those of a model.  *)
LEMMA Pauses ==
    ASSUME NEW m \in 1..Models, NEW k \in 1..Attempts, NEW s \in Nat,
           2 * s <= Whole * (m - 1) + Pause * (k - 1) * k
    PROVE  /\ 2 * (s + Pause * k) <= Whole * (m - 1) + Pause * ((k + 1) - 1) * (k + 1)
           /\ 2 * (s + Pause * k) <= Whole * m
           /\ 2 * s <= Whole * m
           /\ Whole * m <= Whole * Models
           /\ s + Pause * k \in Nat
<1>1. PICK p \in Nat, a \in Nat \ {0}, w \in Nat, n \in Nat :
         p = Pause /\ a = Attempts /\ w = Whole /\ n = m - 1
  BY LanguageAssumption, WholeType
<1>2. w = p * a * (a + 1) /\ 2 * s <= w * n + p * (k - 1) * k /\ m = n + 1 /\ k <= a
  BY <1>1 DEF Whole
<1>3. 2 * (s + p * k) <= w * n + p * k * (k + 1)
  BY <1>2
<1>4. (k - 1) * k <= k * (k + 1) /\ k * (k + 1) <= a * (a + 1)
      /\ k * (k + 1) \in Nat /\ (k - 1) * k \in Nat /\ a * (a + 1) \in Nat
  BY <1>2
<1>5. p * (k * (k + 1)) <= p * (a * (a + 1)) /\ p * ((k - 1) * k) <= p * (k * (k + 1))
  BY <1>4
<1>6. p * k * (k + 1) <= w /\ p * (k - 1) * k <= w
  BY <1>2, <1>4, <1>5
<1>7. w * n + w = w * m
  BY <1>2
<1>8. w * m <= w * Models
  BY LanguageAssumption
<1>9. p * k \in Nat
  OBVIOUS
<1> QED
  BY <1>1, <1>2, <1>3, <1>6, <1>7, <1>8, <1>9

(* One attempt more.                                                       *)
LEMMA Attempted ==
    ASSUME LanguageTypeOK, NEW m \in 1..Models, NEW how \in {"ok", "busy", "broken"},
           asked' = Append(asked, [model |-> m, said |-> how])
    PROVE  /\ asked' \in Seq([model : 1..Models, said : {"ok", "busy", "broken"}])
           /\ Len(asked) \in Nat /\ Len(asked') = Len(asked) + 1
           /\ \A i \in 1..Len(asked) : asked'[i] = asked[i]
           /\ asked'[Len(asked) + 1].model = m /\ asked'[Len(asked) + 1].said = how
           /\ Tries(m)' = Tries(m) \cup {Len(asked) + 1}
           /\ \A i \in Tries(m) : i \in 1..Len(asked)
           /\ \A n : n # m => Tries(n)' = Tries(n) /\ (GivenUp(n) => GivenUp(n)')
<1> DEFINE e == [model |-> m, said |-> how]
<1>1. asked \in Seq([model : 1..Models, said : {"ok", "busy", "broken"}])
      /\ e \in [model : 1..Models, said : {"ok", "busy", "broken"}]
  BY DEF LanguageTypeOK
<1>2. asked' = Append(asked, e) /\ e.model = m /\ e.said = how
  OBVIOUS
<1> HIDE DEF e
<1>3. /\ asked' \in Seq([model : 1..Models, said : {"ok", "busy", "broken"}])
      /\ Len(asked) \in Nat /\ Len(asked') = Len(asked) + 1
      /\ \A i \in 1..Len(asked) : asked'[i] = asked[i]
      /\ asked'[Len(asked) + 1] = e
  BY <1>1, <1>2, AppendProperties
<1>4. PICK n \in Nat : n = Len(asked)
  BY <1>3
<1>5. \A i : i \in 1..(n + 1) <=> i \in 1..n \/ i = n + 1
  BY <1>4
<1>6. Tries(m)' = Tries(m) \cup {n + 1}
  BY <1>2, <1>3, <1>4, <1>5 DEF Tries
<1>7. ASSUME NEW k, k # m
      PROVE  Tries(k)' = Tries(k) /\ (GivenUp(k) => GivenUp(k)')
  <2>1. Tries(k)' = Tries(k)
    BY <1>2, <1>3, <1>4, <1>5, <1>7 DEF Tries
  <2>2. \A i \in Tries(k) : asked'[i] = asked[i]
    BY <1>3 DEF Tries
  <2> QED
    BY <2>1, <2>2 DEF GivenUp
<1> QED
  BY <1>2, <1>3, <1>4, <1>6, <1>7 DEF Tries

(* The attempt on model m that came k-th has gone wrong.                   *)
LEMMA AttemptFailed ==
    ASSUME LanguageTypeOK, NEW m, NEW k, Asking(m, k), NEW how \in {"busy", "broken"},
           asked' = Append(asked, [model |-> m, said |-> how]),
           slept' = slept + Waits(how, k)
    PROVE  /\ how = "busy" /\ k < Attempts => Asking(m, k + 1)'
           /\ ~(how = "busy" /\ k < Attempts) /\ m < Models => Asking(m + 1, 1)'
           /\ ~(how = "busy" /\ k < Attempts) /\ m = Models => NoneReported'
           /\ 2 * slept' <= Whole * Models /\ slept' \in Nat
<1>1. m \in 1..Models /\ k \in 1..Attempts /\ slept \in Nat /\ Models \in Nat \ {0}
      /\ Attempts \in Nat \ {0} /\ Pause \in Nat
  BY LanguageAssumption DEF Asking, LanguageTypeOK
<1>2. 2 * slept <= Whole * (m - 1) + Pause * (k - 1) * k
  BY DEF Asking
<1>3. PICK l \in Nat : l = Len(asked)
  BY <1>1, Attempted
<1>4. /\ Len(asked') = l + 1
      /\ \A i \in 1..l : asked'[i] = asked[i] /\ asked[i].model <= m /\ asked[i].said # "ok"
                         /\ asked[i].model \in Nat
      /\ asked'[l + 1].model = m /\ asked'[l + 1].said = how
      /\ \A i \in Tries(m) : i \in 1..l
      /\ Tries(m)' = Tries(m) \cup {l + 1}
      /\ \A n \in 1..(m - 1) : GivenUp(n)'
  <2>1. \A n \in 1..(m - 1) : GivenUp(n) /\ n # m
    BY <1>1 DEF Asking
  <2>2. \A i \in 1..Len(asked) : asked[i].model \in Nat
    <3>1. asked \in Seq([model : 1..Models, said : {"ok", "busy", "broken"}])
      BY DEF LanguageTypeOK
    <3>2. \A i \in 1..Len(asked) : asked[i] \in [model : 1..Models, said : {"ok", "busy", "broken"}]
      BY <3>1, ElementOfSeq
    <3> QED
      BY <1>1, <3>2
  <2> QED
    BY <1>1, <1>3, <2>1, <2>2, Attempted DEF Asking
<1>5. \A i \in 1..(l + 1) : i \in 1..l \/ i = l + 1
  BY <1>3
<1>6. \A i \in 1..Len(asked') : asked'[i].model <= m /\ asked'[i].said # "ok"
                                /\ asked'[i].model \in Nat
  BY <1>1, <1>4, <1>5
<1>7. \A i \in Tries(m) : asked[i].said = "busy" /\ asked'[i].said = "busy" /\ i < l + 1
  BY <1>4 DEF Asking
<1>8. Cardinality(Tries(m)') = k
  <2>1. IsFiniteSet(Tries(m)) /\ l + 1 \notin Tries(m)
    <3>1. IsFiniteSet(1..l)
      BY FS_Interval
    <3>2. Tries(m) \subseteq 1..l
      BY <1>4
    <3> QED
      BY <1>3, <1>4, <3>1, <3>2, FS_Subset
  <2>2. Cardinality(Tries(m)) = k - 1
    BY DEF Asking
  <2>3. Cardinality(Tries(m) \cup {l + 1}) = (k - 1) + 1
    BY <2>1, <2>2, FS_AddElement
  <2> QED
    BY <1>1, <1>4, <2>3
<1>9. /\ 2 * (slept + Pause * k) <= Whole * (m - 1) + Pause * ((k + 1) - 1) * (k + 1)
      /\ 2 * (slept + Pause * k) <= Whole * m
      /\ 2 * slept <= Whole * m
      /\ Whole * m <= Whole * Models
      /\ slept + Pause * k \in Nat
  BY <1>1, <1>2, Pauses
<1>10. slept' = IF how = "busy" THEN slept + Pause * k ELSE slept
  BY <1>1 DEF Waits
<1>11. 2 * slept' <= Whole * m /\ slept' \in Nat
  BY <1>1, <1>9, <1>10
<1>12. ASSUME how = "busy", k < Attempts
       PROVE  Asking(m, k + 1)'
  <2>1. k + 1 \in 1..Attempts /\ (k + 1) - 1 = k
    BY <1>1, <1>12
  <2>2. \A i \in Tries(m)' : asked'[i].said = "busy"
    BY <1>4, <1>7, <1>12
  <2>3. 2 * slept' <= Whole * (m - 1) + Pause * ((k + 1) - 1) * (k + 1)
    BY <1>9, <1>10, <1>12
  <2>4. Cardinality(Tries(m)') = (k + 1) - 1
    BY <1>8, <2>1
  <2> QED
    BY <1>1, <1>4, <1>6, <2>1, <2>2, <2>3, <2>4 DEF Asking, Whole
<1>13. ASSUME ~(how = "busy" /\ k < Attempts)
       PROVE  GivenUp(m)'
  <2>1. how = "broken" \/ (how = "busy" /\ k = Attempts)
    BY <1>1, <1>13
  <2>2. l + 1 \in Tries(m)'
    BY <1>4
  <2>3. \A i \in Tries(m)' \ {l + 1} : i < l + 1 /\ asked'[i].said = "busy"
    BY <1>4, <1>7
  <2>4. Cardinality(Tries(m)') <= Attempts
    BY <1>1, <1>8
  <2> QED
    BY <1>4, <1>8, <2>1, <2>2, <2>3, <2>4 DEF GivenUp
<1>14. ASSUME ~(how = "busy" /\ k < Attempts)
       PROVE  \A n \in 1..m : GivenUp(n)'
  BY <1>1, <1>4, <1>13, <1>14
<1>15. ASSUME ~(how = "busy" /\ k < Attempts), m < Models
       PROVE  Asking(m + 1, 1)'
  <2>1. m + 1 \in 1..Models /\ 1 \in 1..Attempts /\ (m + 1) - 1 = m
    BY <1>1, <1>15
  <2>2. Tries(m + 1)' = {}
    <3>1. \A i \in 1..Len(asked') : asked'[i].model # m + 1
      BY <1>1, <1>6
    <3> QED
      BY <3>1 DEF Tries
  <2>3. Cardinality(Tries(m + 1)') = 1 - 1
    <3>1. Cardinality({}) = 1 - 1
      BY FS_EmptySet
    <3> QED
      BY <2>2, <3>1
  <2>4. \A i \in 1..Len(asked') : asked'[i].model <= m + 1
    BY <1>1, <1>6
  <2>5. 2 * slept' <= Whole * ((m + 1) - 1) + Pause * (1 - 1) * 1
    <3>1. PICK p \in Nat, w \in Nat : p = Pause /\ w = Whole
      BY <1>1, WholeType
    <3>2. w * ((m + 1) - 1) + p * (1 - 1) * 1 = w * m
      BY <1>1, <2>1
    <3> QED
      BY <1>11, <3>1, <3>2
  <2> QED
    BY <1>6, <1>14, <1>15, <2>1, <2>2, <2>3, <2>4, <2>5 DEF Asking, Whole
<1>16. ASSUME ~(how = "busy" /\ k < Attempts), m = Models
       PROVE  NoneReported'
  BY <1>6, <1>14, <1>16 DEF NoneReported
<1>17. 2 * slept' <= Whole * Models
  <2>1. PICK w \in Nat : w = Whole
    BY WholeType
  <2>2. w * m \in Nat /\ w * Models \in Nat
    BY <1>1
  <2> QED
    BY <1>9, <1>11, <2>1, <2>2
<1> QED
  BY <1>11, <1>12, <1>15, <1>16, <1>17

(* The attempt was answered.                                               *)
LEMMA AttemptAnswered ==
    ASSUME LanguageTypeOK, NEW m, NEW k, Asking(m, k),
           asked' = Append(asked, [model |-> m, said |-> "ok"])
    PROVE  Answered'
<1>1. m \in 1..Models
  BY DEF Asking
<1>2. PICK l \in Nat : l = Len(asked)
  BY <1>1, Attempted
<1>3. /\ Len(asked') = l + 1 /\ \A i \in 1..l : asked'[i] = asked[i] /\ asked[i].said # "ok"
      /\ asked'[l + 1].model = m /\ asked'[l + 1].said = "ok"
      /\ \A n \in 1..(m - 1) : GivenUp(n)'
  <2>1. \A n \in 1..(m - 1) : GivenUp(n) /\ n # m
    BY <1>1, LanguageAssumption DEF Asking
  <2> QED
    BY <1>1, <1>2, <2>1, Attempted DEF Asking
<1>4. \A i \in 1..(l + 1) : i \in 1..l \/ i = l + 1
  BY <1>2
<1>5. \A i \in 1..l : i # l + 1
  BY <1>2
<1> QED
  BY <1>2, <1>3, <1>4, <1>5 DEF Answered

LEMMA LanguageInvInit == LanguageInit => LanguageInv
<1> SUFFICES ASSUME LanguageInit PROVE LanguageInv
  OBVIOUS
<1>1. talk = [pc |-> "idle"] /\ asked = <<>> /\ slept = 0 /\ Len(asked) = 0
  BY DEF LanguageInit
<1>2. LanguageTypeOK
  BY <1>1 DEF LanguageTypeOK
<1>3. 0 <= Whole * Models
  BY WholeType, LanguageAssumption
<1> QED
  BY <1>1, <1>2, <1>3 DEF LanguageInv, NoneReported

LEMMA ExtractStep ==
    ASSUME LanguageInv, ExtractCorporateSignal
    PROVE  LanguageInv'
<1>1. /\ talk' \in {AskNext(1, 1), Failed} /\ asked' = <<>> /\ slept' = 0 /\ Len(asked') = 0
  BY DEF ExtractCorporateSignal
<1>2. 1 \in 1..Models /\ 1 \in 1..Attempts
  BY LanguageAssumption
<1>3. LanguageTypeOK'
  BY <1>1, <1>2 DEF LanguageTypeOK, AskNext, Failed
<1>4. PICK p \in Nat, w \in Nat, n \in Nat : p = Pause /\ w = Whole /\ n = Models
  BY WholeType, LanguageAssumption
<1>5. 2 * slept' <= Whole * Models /\ 2 * slept' <= Whole * (1 - 1) + Pause * (1 - 1) * 1
  BY <1>1, <1>4
<1>6. Tries(1)' = {} /\ Cardinality({}) = 0
  BY <1>1, FS_EmptySet DEF Tries
<1>7. Asking(1, 1)'
  <2>1. Cardinality(Tries(1)') = 1 - 1 /\ \A i \in Tries(1)' : FALSE
    <3>1. Cardinality({}) = 1 - 1
      BY FS_EmptySet
    <3> QED
      BY <1>6, <3>1
  <2>2. \A i \in 1..(1 - 1) : FALSE
    OBVIOUS
  <2>3. \A i \in 1..Len(asked') : FALSE
    BY <1>1
  <2> QED
    BY <1>2, <1>5, <2>1, <2>2, <2>3 DEF Asking, Whole
<1>8. NoneReported'
  BY <1>1 DEF NoneReported
<1>9. talk' = AskNext(1, 1) => talk'.pc = "ask" /\ talk'.model = 1 /\ talk'.attempt = 1
  BY DEF AskNext
<1>10. talk' = Failed => talk'.pc = "failed"
  BY DEF Failed
<1> QED
  BY <1>1, <1>3, <1>5, <1>7, <1>8, <1>9, <1>10 DEF LanguageInv, Whole

LEMMA AskStep ==
    ASSUME LanguageInv, AskModel
    PROVE  LanguageInv'
<1>0. PICK m, k : m = talk.model /\ k = talk.attempt
  OBVIOUS
<1>1. PICK how \in {"ok", "busy", "broken"} :
         /\ talk.pc = "ask"
         /\ asked' = Append(asked, [model |-> m, said |-> how])
         /\ slept' = slept + Waits(how, k)
         /\ talk' \in
               IF how = "ok" THEN [pc : {"parse"}, text : Answers]
               ELSE IF AskAgain(how, k) THEN {AskNext(m, k + 1)}
               ELSE IF m < Models THEN {AskNext(m + 1, 1)}
               ELSE {Failed}
  BY <1>0 DEF AskModel
<1>2. Asking(m, k) /\ LanguageTypeOK /\ 2 * slept <= Whole * Models
  BY <1>0, <1>1 DEF LanguageInv
<1>3. m \in 1..Models /\ k \in 1..Attempts /\ slept \in Nat
      /\ Models \in Nat \ {0} /\ Attempts \in Nat \ {0}
  BY <1>2, LanguageAssumption DEF Asking, LanguageTypeOK
<1>4. asked' \in Seq([model : 1..Models, said : {"ok", "busy", "broken"}])
  BY <1>1, <1>2, <1>3, Attempted
<1>5. CASE how = "ok"
  <2>1. Answered'
    BY <1>1, <1>2, <1>5, AttemptAnswered
  <2>2. talk' \in [pc : {"parse"}, text : Answers] /\ slept' = slept
    BY <1>1, <1>3, <1>5 DEF Waits
  <2>3. talk'.pc = "parse"
    BY <2>2
  <2>4. LanguageTypeOK'
    BY <1>3, <1>4, <2>2 DEF LanguageTypeOK
  <2> QED
    BY <1>2, <2>1, <2>2, <2>3, <2>4 DEF LanguageInv, Whole
<1>6. CASE how # "ok"
  <2>1. /\ how = "busy" /\ k < Attempts => Asking(m, k + 1)'
        /\ ~(how = "busy" /\ k < Attempts) /\ m < Models => Asking(m + 1, 1)'
        /\ ~(how = "busy" /\ k < Attempts) /\ m = Models => NoneReported'
        /\ 2 * slept' <= Whole * Models /\ slept' \in Nat
    BY <1>1, <1>2, <1>6, AttemptFailed
  <2>2. CASE AskAgain(how, k)
    <3>1. talk' = AskNext(m, k + 1) /\ how = "busy" /\ k < Attempts /\ k + 1 \in 1..Attempts
      BY <1>1, <1>3, <1>6, <2>2 DEF AskAgain
    <3>2. talk'.pc = "ask" /\ talk'.model = m /\ talk'.attempt = k + 1
      BY <3>1 DEF AskNext
    <3>3. LanguageTypeOK'
      BY <1>3, <1>4, <2>1, <3>1 DEF LanguageTypeOK, AskNext
    <3> QED
      BY <2>1, <3>1, <3>2, <3>3 DEF LanguageInv, Whole
  <2>3. CASE ~AskAgain(how, k) /\ m < Models
    <3>1. talk' = AskNext(m + 1, 1) /\ ~(how = "busy" /\ k < Attempts)
          /\ m + 1 \in 1..Models /\ 1 \in 1..Attempts
      BY <1>1, <1>3, <1>6, <2>3 DEF AskAgain
    <3>2. talk'.pc = "ask" /\ talk'.model = m + 1 /\ talk'.attempt = 1
      BY <3>1 DEF AskNext
    <3>3. LanguageTypeOK'
      BY <1>3, <1>4, <2>1, <3>1 DEF LanguageTypeOK, AskNext
    <3> QED
      BY <2>1, <2>3, <3>1, <3>2, <3>3 DEF LanguageInv, Whole
  <2>4. CASE ~AskAgain(how, k) /\ ~(m < Models)
    <3>1. talk' = Failed /\ ~(how = "busy" /\ k < Attempts) /\ m = Models
      BY <1>1, <1>3, <1>6, <2>4 DEF AskAgain
    <3>2. talk'.pc = "failed"
      BY <3>1 DEF Failed
    <3>3. LanguageTypeOK'
      BY <1>3, <1>4, <2>1, <3>1 DEF LanguageTypeOK, Failed
    <3> QED
      BY <2>1, <3>1, <3>2, <3>3 DEF LanguageInv, Whole
  <2> QED
    BY <2>2, <2>3, <2>4
<1> QED
  BY <1>5, <1>6

LEMMA ParseStep ==
    ASSUME LanguageInv, ParseAnswer
    PROVE  LanguageInv'
<1>1. talk.pc = "parse" /\ UNCHANGED <<asked, slept>> /\ Answered /\ LanguageTypeOK
      /\ 2 * slept <= Whole * Models
  BY DEF ParseAnswer, LanguageInv
<1>2. Answered' /\ 2 * slept' <= Whole * Models
  <2>1. asked' = asked /\ slept' = slept
    BY <1>1
  <2>2. Answered' = Answered
    BY <2>1 DEF Answered, GivenUp, Tries
  <2>3. 2 * slept' <= Whole * Models
    BY <1>1, <2>1
  <2> QED
    BY <1>1, <2>2, <2>3
<1>3. talk.text \in Answers
  BY <1>1 DEF LanguageTypeOK
<1>4. CASE talk.text = <<>>
  <2>1. talk' = Failed /\ talk'.pc = "failed"
    BY <1>4 DEF ParseAnswer, Failed
  <2>2. LanguageTypeOK'
    BY <1>1, <2>1 DEF LanguageTypeOK, Failed
  <2> QED
    BY <1>2, <2>1, <2>2 DEF LanguageInv, Whole
<1>5. CASE talk.text # <<>>
  <2>1. PICK t, s, r : t = talk.text /\ s = Best(t) /\ r = Status(Confidence(s))
    OBVIOUS
  <2>2. talk' = [pc |-> "rated", text |-> t, finding |-> s, status |-> r]
    BY <1>5, <2>1 DEF ParseAnswer
  <2>3. talk'.pc = "rated" /\ talk'.text = t /\ talk'.finding = s /\ talk'.status = r
    BY <2>2
  <2>4. t \in Answers /\ t # <<>> /\ s \in Found
        /\ r \in {"HIGH_CONFIDENCE", "MEDIUM_CONFIDENCE", "NEEDS_REVIEW"}
    BY <1>3, <1>5, <2>1, BestIsFound DEF Status
  <2>5. Rated'
    BY <2>1, <2>3, <2>4 DEF Rated
  <2>6. LanguageTypeOK'
    BY <1>1, <2>2, <2>4 DEF LanguageTypeOK
  <2> QED
    BY <1>2, <2>3, <2>5, <2>6 DEF LanguageInv, Whole
<1> QED
  BY <1>4, <1>5

LEMMA LanguageInvStep == LanguageInv /\ [LanguageNext]_languageVars => LanguageInv'
<1> SUFFICES ASSUME LanguageInv, [LanguageNext]_languageVars
             PROVE  LanguageInv'
  OBVIOUS
<1>1. CASE UNCHANGED languageVars
  <2>1. talk' = talk /\ asked' = asked /\ slept' = slept
    BY <1>1 DEF languageVars
  <2>2. \A m : GivenUp(m)' = GivenUp(m) /\ Tries(m)' = Tries(m)
    BY <2>1 DEF GivenUp, Tries
  <2>3. \A m, k : Asking(m, k) => Asking(m, k)'
    BY <2>1, <2>2 DEF Asking, Whole
  <2>4. (Answered => Answered') /\ (NoneReported => NoneReported') /\ (Rated => Rated')
    BY <2>1, <2>2 DEF Answered, NoneReported, Rated
  <2>5. LanguageTypeOK'
    BY <2>1 DEF LanguageInv, LanguageTypeOK
  <2> QED
    BY <2>1, <2>3, <2>4, <2>5 DEF LanguageInv, Whole
<1> QED
  BY <1>1, ExtractStep, AskStep, ParseStep DEF LanguageNext

LEMMA LanguageInvImplies == LanguageInv => LanguageTypeOK /\ FindingIsFounded
<1> SUFFICES ASSUME LanguageInv PROVE FindingIsFounded
  BY DEF LanguageInv
<1>1. LanguageTypeOK /\ 2 * slept <= Pause * Attempts * (Attempts + 1) * Models
  BY DEF LanguageInv, Whole
<1>2. Len(asked) \in Nat
  BY <1>1 DEF LanguageTypeOK
<1> DEFINE heard == {i \in 1..Len(asked) : asked[i].said = "ok"}
<1>3. talk.pc \in {"idle", "ask", "parse", "rated", "failed"}
  BY <1>1 DEF LanguageTypeOK
<1>4. ASSUME Answered
      PROVE  /\ heard \subseteq {Len(asked)} /\ heard # {}
             /\ \A m \in 1..(asked[Len(asked)].model - 1) : GivenUp(m)
  BY <1>2, <1>4 DEF Answered
<1>5. ASSUME NoneReported
      PROVE  heard = {} /\ (asked = <<>> \/ \A m \in 1..Models : GivenUp(m))
  BY <1>5 DEF NoneReported
<1>6. ASSUME talk.pc = "ask"
      PROVE  heard = {}
  BY <1>6 DEF LanguageInv, Asking
<1>7. /\ heard \subseteq {Len(asked)}
      /\ heard # {} => \A m \in 1..(asked[Len(asked)].model - 1) : GivenUp(m)
      /\ talk.pc = "failed" /\ heard = {} => asked = <<>> \/ \A m \in 1..Models : GivenUp(m)
      /\ talk.pc = "rated" => heard # {}
  <2> HIDE DEF heard
  <2> QED
    BY <1>3, <1>4, <1>5, <1>6 DEF LanguageInv
<1>8. ASSUME talk.pc = "rated"
      PROVE  /\ ~Corporate(talk.finding) =>
                    \A i \in 1..Len(talk.text) : ~Corporate(talk.text[i])
             /\ talk.status = "HIGH_CONFIDENCE" =>
                    /\ talk.finding.quote # "none" /\ talk.finding.name # "none"
                    /\ talk.finding.quote = "other" => talk.finding.budget /\ talk.finding.contact
  <2>1. PICK t, s : t = talk.text /\ s = talk.finding
    OBVIOUS
  <2>2. t \in Answers /\ t # <<>> /\ s = Best(t) /\ talk.status = Status(Confidence(s))
    BY <1>8, <2>1 DEF LanguageInv, Rated
  <2>3. s \in Found /\ (~Corporate(s) => \A i \in 1..Len(t) : ~Corporate(t[i]))
    BY <2>2, BestIsFound
  <2> QED
    BY <2>1, <2>2, <2>3, HighIsEarned
<1> QED
  BY <1>1, <1>7, <1>8 DEF FindingIsFounded

----------------------------------------------------------------------------
(* Matching: the list that is sent holds the best rows, in order.          *)

(* BestAreListed needs what the sort has reached: each place before i      *)
(* scores no less than any that follows, and place i no less than those it *)
(* was compared with; and exchanges neither lose nor repeat a row.         *)

Arranged(s, n, R) ==
    /\ n \in Nat /\ s \in [1..n -> R]
    /\ \A c \in R : \E p \in 1..n : s[p] = c
    /\ \A p, q \in 1..n : p # q => s[p] # s[q]

SortedUpTo(s, n, sc, i, j) ==
    /\ i \in Nat \ {0} /\ j \in Nat /\ i < j /\ (i < n => j <= n)
    /\ \A p, q \in 1..n : p < i /\ p < q => sc[s[p]] >= sc[s[q]]
    /\ \A q \in 1..n : i < q /\ q < j => sc[s[i]] >= sc[s[q]]

Exchanged(s, sc, i, j) ==
    IF sc[s[j]] > sc[s[i]] THEN [s EXCEPT ![i] = s[j], ![j] = s[i]] ELSE s

(* One comparison of the sort.                                             *)
LEMMA ExchangeSorts ==
    ASSUME NEW n, NEW R, NEW s, Arranged(s, n, R), NEW sc \in [R -> Nat],
           NEW i, NEW j, SortedUpTo(s, n, sc, i, j), i < n
    PROVE  /\ Arranged(Exchanged(s, sc, i, j), n, R)
           /\ j < n => SortedUpTo(Exchanged(s, sc, i, j), n, sc, i, j + 1)
           /\ ~(j < n) => SortedUpTo(Exchanged(s, sc, i, j), n, sc, i + 1, i + 2)
<1> DEFINE t == Exchanged(s, sc, i, j)
<1>1. /\ n \in Nat /\ s \in [1..n -> R] /\ i \in 1..n /\ j \in 1..n /\ i < j
  BY DEF Arranged, SortedUpTo
<1>2. \A p \in 1..n : s[p] \in R /\ sc[s[p]] \in Nat
  BY <1>1
<1>3. \/ t = s /\ sc[s[i]] >= sc[s[j]]
      \/ t = [s EXCEPT ![i] = s[j], ![j] = s[i]] /\ sc[s[j]] > sc[s[i]]
  BY <1>1, <1>2 DEF Exchanged
<1> HIDE DEF t
<1>4. /\ \A p \in 1..n : p # i /\ p # j => t[p] = s[p]
      /\ \/ t[i] = s[i] /\ t[j] = s[j] /\ sc[s[i]] >= sc[s[j]]
         \/ t[i] = s[j] /\ t[j] = s[i] /\ sc[s[j]] > sc[s[i]]
      /\ t \in [1..n -> R]
  BY <1>1, <1>3
<1>5. Arranged(t, n, R)
  <2>1. ASSUME NEW c \in R
        PROVE  \E p \in 1..n : t[p] = c
    <3>1. PICK p \in 1..n : s[p] = c
      BY DEF Arranged
    <3> QED
      BY <1>1, <1>4, <3>1
  <2>2. \A p, q \in 1..n : p # q => s[p] # s[q]
    BY DEF Arranged
  <2>3. \A p, q \in 1..n : p # q => t[p] # t[q]
    BY <1>1, <1>4, <2>2
  <2> QED
    BY <1>1, <1>4, <2>1, <2>3 DEF Arranged
<1>6. \A p, q \in 1..n : p < i /\ p < q => sc[t[p]] >= sc[t[q]]
  <2> SUFFICES ASSUME NEW p \in 1..n, NEW q \in 1..n, p < i, p < q
               PROVE  sc[t[p]] >= sc[t[q]]
    OBVIOUS
  <2>1. \A r \in 1..n : p < r => sc[s[p]] >= sc[s[r]]
    BY DEF SortedUpTo
  <2>2. t[p] = s[p] /\ p < j
    BY <1>1, <1>4
  <2>3. \E r \in 1..n : p < r /\ t[q] = s[r]
    BY <1>1, <1>4, <2>2
  <2> QED
    BY <2>1, <2>2, <2>3
<1>7. \A q \in 1..n : i < q /\ q <= j => sc[t[i]] >= sc[t[q]]
  <2> SUFFICES ASSUME NEW q \in 1..n, i < q, q <= j
               PROVE  sc[t[i]] >= sc[t[q]]
    OBVIOUS
  <2>1. sc[t[i]] >= sc[s[i]] /\ sc[t[i]] \in Nat
    BY <1>1, <1>2, <1>4
  <2>2. CASE q = j
    BY <1>1, <1>2, <1>4, <2>2
  <2>3. CASE q < j
    <3>1. t[q] = s[q] /\ sc[s[i]] >= sc[s[q]]
      BY <1>1, <1>4, <2>3 DEF SortedUpTo
    <3> QED
      BY <1>1, <1>2, <2>1, <3>1
  <2> QED
    BY <1>1, <2>2, <2>3
<1>8. ASSUME j < n
      PROVE  SortedUpTo(t, n, sc, i, j + 1)
  <2>1. j + 1 \in Nat /\ i < j + 1 /\ j + 1 <= n /\ i \in Nat \ {0}
    BY <1>1, <1>8
  <2>2. \A q \in 1..n : q < j + 1 => q <= j
    BY <1>1
  <2> QED
    BY <1>6, <1>7, <2>1, <2>2 DEF SortedUpTo
<1>9. ASSUME ~(j < n)
      PROVE  SortedUpTo(t, n, sc, i + 1, i + 2)
  <2>1. i + 1 \in Nat \ {0} /\ i + 2 \in Nat /\ i + 1 < i + 2 /\ (i + 1 < n => i + 2 <= n) /\ j = n
    BY <1>1, <1>9
  <2>2. \A p \in 1..n : p < i + 1 => p < i \/ p = i
    BY <1>1
  <2>3. \A p, q \in 1..n : p < i + 1 /\ p < q => sc[t[p]] >= sc[t[q]]
    BY <1>6, <1>7, <2>1, <2>2
  <2>4. \A q \in 1..n : ~(i + 1 < q /\ q < i + 2)
    BY <1>1
  <2> QED
    BY <2>1, <2>3, <2>4 DEF SortedUpTo
<1> QED
  BY <1>5, <1>8, <1>9 DEF t

----------------------------------------------------------------------------
Scores(w) == [c \in Read |-> Score(w, c)]

MatchingInv ==
    /\ look \in [Rivals -> Looks]
    /\ answer \in {NoAnswer}
          \cup [pc : {"sort"}, wish : Wishes, rows : [1..LastPlace -> Read], i : Nat, j : Nat]
          \cup [pc : {"sent"}, wish : Wishes,
                list : UNION {[1..n -> Read] : n \in 0..LastPlace}]
    /\ answer.pc = "sort" =>
          /\ Arranged(answer.rows, LastPlace, Read)
          /\ SortedUpTo(answer.rows, LastPlace, Scores(answer.wish), answer.i, answer.j)
    /\ BestAreListed

LEMMA ReadIsFinite == IsFiniteSet(Read) /\ LastPlace \in Nat /\ Read \subseteq Rivals
  BY MatchingAssumption, FS_Subset, FS_CardinalityType DEF Read, LastPlace

LEMMA LookTypes ==
    ASSUME look \in [Rivals -> Looks], NEW c \in Rivals
    PROVE  look[c].tier \in 1..3
  BY MatchingAssumption

LEMMA ScoreBounds ==
    ASSUME look \in [Rivals -> Looks], NEW w \in Wishes, NEW c \in Rivals
    PROVE  /\ Score(w, c) \in Nat
           /\ look[c].tier = 1 => Score(w, c) >= IF w.place # "none" THEN 80 ELSE 65
           /\ look[c].tier = 3 => Score(w, c) <= IF w.place # "none" THEN 80 ELSE 65
<1>1. look[c].tier \in 1..3
  BY LookTypes
<1>2. FocusScore(w, c) \in {20, 35, 40}
  BY DEF FocusScore
<1>3. /\ GeoScore(w, c) \in {15, 30} /\ (w.place = "none" => GeoScore(w, c) = 15)
      /\ look[c].tier = 1 /\ w.place # "none" => GeoScore(w, c) = 30
  BY DEF GeoScore
<1>4. TierScore(c) = 40 - 10 * look[c].tier
  BY DEF TierScore
<1> QED
  BY <1>1, <1>2, <1>3, <1>4 DEF Score

LEMMA ScoresType ==
    ASSUME look \in [Rivals -> Looks], NEW w \in Wishes
    PROVE  Scores(w) \in [Read -> Nat]
  BY ReadIsFinite, ScoreBounds DEF Scores

(* The directory does not change.                                          *)
LEMMA ReadStays ==
    ASSUME UNCHANGED look
    PROVE  /\ Read' = Read /\ LastPlace' = LastPlace /\ Rows' = Rows
           /\ \A w : Scores(w)' = Scores(w)
           /\ \A w, c : Score(w, c)' = Score(w, c)
  BY DEF Read, LastPlace, Rows, Before, Scores, Score, FocusScore, GeoScore, TierScore

LEMMA MatchingInvInit == MatchingInit => MatchingInv
  BY DEF MatchingInit, MatchingInv, NoAnswer, BestAreListed

LEMMA RowsStep ==
    ASSUME MatchingInv, NEW w \in Wishes, MatchCompaniesForProgram(w)
    PROVE  MatchingInv'
<1>1. PICK rows \in Rows :
         answer' = [pc |-> "sort", wish |-> w, rows |-> rows, i |-> 1, j |-> 2]
  BY DEF MatchCompaniesForProgram
<1>2. UNCHANGED look /\ look \in [Rivals -> Looks]
  BY DEF MatchCompaniesForProgram, MatchingInv
<1>3. PICK n \in Nat : n = LastPlace /\ n = Cardinality(Read)
  BY ReadIsFinite DEF LastPlace
<1>4. /\ rows \in [1..n -> Read] /\ \A c \in Read : \E i \in 1..n : rows[i] = c
      /\ \A i, j \in 1..n : i < j => Before(rows[i], rows[j])
  BY <1>3 DEF Rows
<1>5. \A c \in Rivals : ~Before(c, c)
  BY <1>2, LookTypes, MatchingAssumption DEF Before
<1>6. \A i, j \in 1..n : i # j => rows[i] # rows[j]
  <2> SUFFICES ASSUME NEW i \in 1..n, NEW j \in 1..n, i # j
               PROVE  rows[i] # rows[j]
    OBVIOUS
  <2>1. rows[i] \in Rivals /\ rows[j] \in Rivals
    BY <1>4, ReadIsFinite
  <2> QED
    BY <1>4, <1>5, <2>1
<1>7. Arranged(rows, n, Read)
  BY <1>4, <1>6 DEF Arranged
<1>8. SortedUpTo(rows, n, Scores(w), 1, 2)
  <2>1. \A q \in 1..n : ~(q < 1) /\ ~(1 < q /\ q < 2)
    OBVIOUS
  <2> QED
    BY <2>1 DEF SortedUpTo
<1>9. /\ answer'.pc = "sort" /\ answer'.wish = w /\ answer'.rows = rows
      /\ answer'.i = 1 /\ answer'.j = 2
  BY <1>1
<1>10. answer' \in [pc : {"sort"}, wish : Wishes, rows : [1..n -> Read], i : Nat, j : Nat]
  BY <1>1, <1>4
<1> QED
  BY <1>2, <1>3, <1>7, <1>8, <1>9, <1>10, ReadStays DEF MatchingInv, BestAreListed

LEMMA CompareStep ==
    ASSUME MatchingInv, Compare
    PROVE  MatchingInv'
<1>1. PICK i, j, s, w : i = answer.i /\ j = answer.j /\ s = answer.rows /\ w = answer.wish
  OBVIOUS
<1>2. PICK n \in Nat : n = LastPlace
  BY ReadIsFinite
<1>3. /\ answer.pc = "sort" /\ i < n /\ UNCHANGED look /\ look \in [Rivals -> Looks]
      /\ answer' = [pc   |-> "sort", wish |-> w,
                    rows |-> IF Score(w, s[j]) > Score(w, s[i])
                             THEN [s EXCEPT ![i] = s[j], ![j] = s[i]] ELSE s,
                    i |-> NextPlaces(i, j)[1], j |-> NextPlaces(i, j)[2]]
  BY <1>1, <1>2 DEF Compare, MatchingInv
<1>4. /\ Arranged(s, n, Read) /\ SortedUpTo(s, n, Scores(w), i, j)
      /\ w \in Wishes /\ i \in Nat /\ j \in Nat
  BY <1>1, <1>2, <1>3 DEF MatchingInv, NoAnswer
<1>5. i \in 1..n /\ j \in 1..n /\ s[i] \in Read /\ s[j] \in Read
  BY <1>3, <1>4 DEF Arranged, SortedUpTo
<1>6. PICK t : t = Exchanged(s, Scores(w), i, j)
  OBVIOUS
<1>7. PICK k, l : k = NextPlaces(i, j)[1] /\ l = NextPlaces(i, j)[2]
  OBVIOUS
<1>8. answer' = [pc |-> "sort", wish |-> w, rows |-> t, i |-> k, j |-> l]
  BY <1>3, <1>5, <1>6, <1>7 DEF Exchanged, Scores
<1>9. Scores(w) \in [Read -> Nat]
  BY <1>3, <1>4, ScoresType
<1>10. /\ Arranged(t, n, Read)
       /\ j < n => SortedUpTo(t, n, Scores(w), i, j + 1)
       /\ ~(j < n) => SortedUpTo(t, n, Scores(w), i + 1, i + 2)
  BY <1>3, <1>4, <1>6, <1>9, ExchangeSorts
<1>11. IF j < n THEN k = i /\ l = j + 1 ELSE k = i + 1 /\ l = i + 2
  BY <1>2, <1>7 DEF NextPlaces
<1>12. SortedUpTo(t, n, Scores(w), k, l)
  BY <1>10, <1>11
<1>13. /\ answer'.pc = "sort" /\ answer'.wish = w /\ answer'.rows = t
       /\ answer'.i = k /\ answer'.j = l
  BY <1>8
<1>14. answer' \in [pc : {"sort"}, wish : Wishes, rows : [1..n -> Read], i : Nat, j : Nat]
  BY <1>4, <1>8, <1>10, <1>12 DEF Arranged, SortedUpTo
<1> QED
  BY <1>2, <1>3, <1>10, <1>12, <1>13, <1>14, ReadStays DEF MatchingInv, BestAreListed

LEMMA SendStep ==
    ASSUME MatchingInv, MatchProgram
    PROVE  MatchingInv'
<1>1. PICK i, s, w, sc : i = answer.i /\ s = answer.rows /\ w = answer.wish /\ sc = Scores(w)
  OBVIOUS
<1>2. PICK n \in Nat : n = LastPlace
  BY ReadIsFinite
<1>3. PICK m : m = Limit(w)
  OBVIOUS
<1> DEFINE list == [p \in {q \in 1..n : q <= m} |-> s[p]]
<1>4. /\ answer.pc = "sort" /\ i >= n /\ UNCHANGED look /\ look \in [Rivals -> Looks]
      /\ answer' = [pc |-> "sent", wish |-> w, list |-> list]
  BY <1>1, <1>2, <1>3 DEF MatchProgram, MatchingInv
<1>5. /\ Arranged(s, n, Read) /\ SortedUpTo(s, n, sc, i, answer.j)
      /\ w \in Wishes /\ i \in Nat
  BY <1>1, <1>2, <1>4 DEF MatchingInv, NoAnswer
<1>6. m \in Nat
  BY <1>3, <1>5, MatchingAssumption DEF Limit
<1>7. PICK d \in 0..n : (d = m \/ (d = n /\ n < m)) /\ {q \in 1..n : q <= m} = 1..d
  <2>1. CASE m <= n
    <3>1. m \in 0..n /\ {q \in 1..n : q <= m} = 1..m
      BY <1>6, <2>1
    <3> QED
      BY <3>1
  <2>2. CASE n < m
    <3>1. n \in 0..n /\ {q \in 1..n : q <= m} = 1..n
      BY <1>6, <2>2
    <3> QED
      BY <2>2, <3>1
  <2> QED
    BY <1>6, <2>1, <2>2
<1>8. list \in [1..d -> Read] /\ DOMAIN list = 1..d /\ \A p \in 1..d : list[p] = s[p] /\ p \in 1..n
  BY <1>5, <1>7 DEF Arranged
<1> HIDE DEF list
<1>9. \A p, q \in 1..n : p < q => sc[s[p]] >= sc[s[q]]
  BY <1>4, <1>5 DEF SortedUpTo
<1>10. \A p \in 1..n : s[p] \in Read /\ sc[s[p]] = Score(w, s[p])
  BY <1>1, <1>5 DEF Arranged, Scores
<1>11. /\ answer'.pc = "sent" /\ answer'.wish = w /\ answer'.list = list
       /\ answer' \in [pc : {"sent"}, wish : Wishes, list : UNION {[1..k -> Read] : k \in 0..n}]
  BY <1>4, <1>5, <1>8
<1> DEFINE chosen == {list[p] : p \in 1..d}
<1>12. Listed' = chosen
  BY <1>8, <1>11 DEF Listed
<1>13. chosen = Read \/ DOMAIN list = 1..Limit(w)
  <2>1. CASE d = m
    BY <1>3, <1>8, <2>1
  <2>2. CASE d = n
    BY <1>5, <1>8, <2>2 DEF Arranged
  <2> QED
    BY <1>7, <2>1, <2>2
<1>14. \A p, q \in DOMAIN list : p < q => /\ list[p] # list[q]
                                          /\ Score(w, list[p]) >= Score(w, list[q])
  BY <1>5, <1>8, <1>9, <1>10 DEF Arranged
<1>15. ASSUME NEW c \in Read \ chosen, NEW e \in chosen
       PROVE  Score(w, c) <= Score(w, e)
  <2>1. PICK p \in 1..n : s[p] = c
    BY <1>5 DEF Arranged
  <2>2. PICK q \in 1..d : e = list[q]
    OBVIOUS
  <2>3. p \notin 1..d
    BY <1>8, <2>1
  <2>4. q < p /\ q \in 1..n /\ e = s[q]
    BY <1>8, <2>2, <2>3
  <2>5. Score(w, e) >= Score(w, c)
    BY <1>9, <1>10, <2>1, <2>4
  <2>6. Score(w, e) \in Nat /\ Score(w, c) \in Nat
    BY <1>4, <1>5, <1>10, <2>1, <2>4, ReadIsFinite, ScoreBounds
  <2> QED
    BY <2>5, <2>6
<1>16. ASSUME NEW c \in Rivals, NEW e \in chosen, look[c].tier = 1, look[e].tier = 3
       PROVE  Score(w, c) >= Score(w, e)
  <2>1. e \in Rivals
    BY <1>8, <1>10, ReadIsFinite
  <2>2. PICK x, y \in Nat : x = Score(w, c) /\ y = Score(w, e)
    BY <1>4, <1>5, <2>1, ScoreBounds
  <2>3. x >= (IF w.place # "none" THEN 80 ELSE 65) /\ y <= IF w.place # "none" THEN 80 ELSE 65
    BY <1>4, <1>5, <1>16, <2>1, <2>2, ScoreBounds
  <2> QED
    BY <2>2, <2>3
<1> HIDE DEF chosen
<1>17. BestAreListed'
  BY <1>4, <1>11, <1>12, <1>13, <1>14, <1>15, <1>16, ReadStays DEF BestAreListed, Limit
<1> QED
  BY <1>2, <1>4, <1>11, <1>17, ReadStays DEF MatchingInv

LEMMA MatchingInvStep == MatchingInv /\ [MatchingNext]_matchingVars => MatchingInv'
<1> SUFFICES ASSUME MatchingInv, [MatchingNext]_matchingVars
             PROVE  MatchingInv'
  OBVIOUS
<1>1. CASE UNCHANGED matchingVars
  <2>1. answer' = answer /\ look' = look
    BY <1>1 DEF matchingVars
  <2>2. Listed' = Listed
    BY <2>1 DEF Listed
  <2> QED
    BY <2>1, <2>2, ReadStays DEF MatchingInv, BestAreListed
<1> QED
  BY <1>1, RowsStep, CompareStep, SendStep DEF MatchingNext

LEMMA MatchingInvImplies == MatchingInv => MatchingTypeOK /\ BestAreListed
  BY DEF MatchingInv, MatchingTypeOK
=============================================================================
