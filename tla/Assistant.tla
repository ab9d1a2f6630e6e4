----------------------------- MODULE Assistant -----------------------------
(***************************************************************************)
(* The assistant of an organisation: a member's message is answered by a   *)
(* language model that sees the history of the thread and may call one     *)
(* tool, and message and answer are logged in the thread.  What a text may *)
(* give away is modelled by labels: whose words, and whose programmes, it  *)
(* was made from; a text of the model may give its whole prompt away.      *)
(* Signals and the watch list are read without a condition on the          *)
(* organisation, and are labelled as those of all of them.  The directory  *)
(* of companies, public by its documents too, carries no label.            *)
(***************************************************************************)
EXTENDS Naturals, FiniteSets

CONSTANTS
    People,         \* users, with the organisation and the role of their token
    Orgs,
    OrgOf,          \* org_id of each user
    Admins,         \* users whose role is ORG_ADMIN, DIRECTOR or ADMIN
    Threads,        \* bound: conversation ids
    Chats,          \* bound: messages being answered at the same time
    MaxLogged       \* bound: different turns in the log

ASSUME AssistantAssumption == OrgOf \in [People -> Orgs] /\ Admins \subseteq People

VARIABLES
    thread,     \* organization_ai_conversations: owner and status
    chat,       \* where each message is
    log         \* organization_ai_chat_logs: thread, user, labels of the reply

assistantVars == <<thread, chat, log>>

NoThread == [status |-> "none"]
Quiet == [pc |-> "idle"]
Said(p) == <<"words", p>>
ProgramsOf(o) == <<"programmes", o>>
FeedOf(o) == <<"feed", o>>      \* the signals and the watch list of an organisation
WholeFeed == {FeedOf(o) : o \in Orgs}
Labels == {Said(p) : p \in People} \cup {ProgramsOf(o) : o \in Orgs} \cup WholeFeed

AssistantInit ==
    /\ thread = [t \in Threads |-> NoThread]
    /\ chat = [c \in Chats |-> Quiet]
    /\ log = {}

Step(c, where) == chat' = [chat EXCEPT ![c] = where]

----------------------------------------------------------------------------
(* The message names a thread, or none.                                    *)
PostChat(c, p, wanted) ==
    /\ chat[c] = Quiet
    /\ Step(c, [pc |-> "resolve", who |-> p, thread |-> wanted])
    /\ UNCHANGED <<thread, log>>

(* Plausible bug: the id alone selects the thread.                         *)
GetConversation(p, t) == t \in Threads /\ thread[t] # NoThread

(* The caller's own, and not archived.                                     *)
GetConversationByID(p, t) ==
    /\ t \in Threads
    /\ thread[t].status = "active" /\ thread[t].owner = p

(* Without such a thread the message opens a new one.                      *)
CreateConversation(p, t) ==
    /\ thread[t] = NoThread
    /\ thread' = [thread EXCEPT ![t] = [status |-> "active", owner |-> p]]

ResolveThread(c) ==
    /\ chat[c].pc = "resolve"
    /\ LET p == chat[c].who
           wanted == chat[c].thread
       IN  \/ /\ GetConversationByID(p, wanted)
              /\ Step(c, [pc |-> "history", who |-> p, thread |-> wanted])
              /\ UNCHANGED thread
           \/ /\ ~GetConversationByID(p, wanted)
              /\ \E t \in Threads :
                    /\ CreateConversation(p, t)
                    /\ Step(c, [pc |-> "history", who |-> p, thread |-> t])
    /\ UNCHANGED log

GetConversationHistory(p, t) == {l \in log : l.thread = t /\ l.owner = p}

(* The prompt: the thread's earlier turns, unless they cannot be read, and *)
(* the message.                                                            *)
BuildPrompt(c) ==
    /\ chat[c].pc = "history"
    /\ LET p == chat[c].who
           earlier == UNION {l.tells : l \in GetConversationHistory(p, chat[c].thread)}
       IN  \E prompt \in {{Said(p)}, {Said(p)} \cup earlier} :
              Step(c, [pc |-> "ask", who |-> p, thread |-> chat[c].thread, prompt |-> prompt])
    /\ UNCHANGED <<thread, log>>

(* What the tools return.  The model names no organisation to them; that   *)
(* of the token is handed to the readers of signals and of the watch list, *)
(* whose statements do not use it.                                         *)
SearchSignalsByOrg(p) == WholeFeed
SearchCompaniesPublic(p) == {}
ListWatchlistByOrg(p) == WholeFeed

(* Plausible bug: the model's arguments name the organisation.             *)
ListPrograms(p) == {ProgramsOf(o) : o \in Orgs}

ListOrganizationPrograms(p) == {ProgramsOf(OrgOf[p])}

(* A tool that fails, or that the model made up, says so.                  *)
ToolResults(p) == {SearchSignalsByOrg(p), SearchCompaniesPublic(p), ListWatchlistByOrg(p),
                   ListOrganizationPrograms(p), {}}

Reply(c, tells) == Step(c, [pc |-> "log", who |-> chat[c].who, thread |-> chat[c].thread,
                            tells |-> tells])

(* The first turn: the model answers, or calls a tool, or fails (no key,   *)
(* no answer, no quota), and then signals and companies are searched for   *)
(* the message.                                                            *)
FirstTurn(c) ==
    /\ chat[c].pc = "ask"
    /\ \/ Reply(c, chat[c].prompt)
       \/ \E result \in ToolResults(chat[c].who) :
             Step(c, [pc |-> "tool", who |-> chat[c].who, thread |-> chat[c].thread,
                      prompt |-> chat[c].prompt, result |-> result])
       \/ Reply(c, {Said(chat[c].who)} \cup SearchSignalsByOrg(chat[c].who)
                                       \cup SearchCompaniesPublic(chat[c].who))
    /\ UNCHANGED <<thread, log>>

(* The second turn: the model words the result, or the result is the reply.*)
SecondTurn(c) ==
    /\ chat[c].pc = "tool"
    /\ \/ Reply(c, chat[c].prompt \cup chat[c].result)
       \/ Reply(c, chat[c].result)
    /\ UNCHANGED <<thread, log>>

(* The reply is sent whether or not it could be logged.                    *)
CreateChatLog(c) ==
    /\ chat[c].pc = "log"
    /\ \/ /\ log' = log \cup {[thread |-> chat[c].thread, owner |-> chat[c].who,
                               tells |-> chat[c].tells]}
          /\ Cardinality(log') <= MaxLogged
       \/ UNCHANGED log
    /\ Step(c, Quiet)
    /\ UNCHANGED thread

(* The client goes away or the server stops.                               *)
DropChat(c) ==
    /\ chat[c] # Quiet /\ Step(c, Quiet)
    /\ UNCHANGED <<thread, log>>

OwnsThread(p, t) == thread[t] # NoThread /\ thread[t].owner = p

Archive(p, t) ==
    /\ OwnsThread(p, t)
    /\ thread' = [thread EXCEPT ![t].status = "archived"]

ArchiveConversation(p, t) == Archive(p, t) /\ UNCHANGED <<chat, log>>

----------------------------------------------------------------------------
(* What members and administrators are shown; archived threads keep their  *)
(* messages and stay in the administrators' lists.                         *)
ListConversationsByUser(p) ==
    {t \in Threads : OwnsThread(p, t) /\ thread[t].status # "archived"}
ListConversations(p) == ListConversationsByUser(p)
GetConversationMessages(p, t) == GetConversationHistory(p, t)
ListConversationsByOrgAdmin(o) ==
    {t \in Threads : thread[t] # NoThread /\ OrgOf[thread[t].owner] = o}
AdminListConversations(p) ==
    {t \in ListConversationsByOrgAdmin(OrgOf[p]) : p \in Admins}
GetAdminConversationHistory(o, t) == {l \in log : l.thread = t /\ OrgOf[l.owner] = o}
AdminGetConversationMessages(p, t) ==
    {l \in GetAdminConversationHistory(OrgOf[p], t) : p \in Admins}

AssistantNext ==
    \/ \E c \in Chats :
          \/ \E p \in People, wanted \in Threads \cup {"new"} : PostChat(c, p, wanted)
          \/ ResolveThread(c) \/ BuildPrompt(c) \/ FirstTurn(c) \/ SecondTurn(c)
          \/ CreateChatLog(c) \/ DropChat(c)
    \/ \E p \in People, t \in Threads : ArchiveConversation(p, t)

AssistantSpec == AssistantInit /\ [][AssistantNext]_assistantVars

----------------------------------------------------------------------------
(* The state is well typed, and nobody answers in a thread that is not.    *)
AssistantTypeOK ==
    /\ thread \in [Threads -> {NoThread} \cup [status : {"active", "archived"}, owner : People]]
    /\ chat \in [Chats ->
          {Quiet}
          \cup [pc : {"resolve"}, who : People, thread : Threads \cup {"new"}]
          \cup [pc : {"history"}, who : People, thread : Threads]
          \cup [pc : {"ask"}, who : People, thread : Threads, prompt : SUBSET Labels]
          \cup [pc : {"tool"}, who : People, thread : Threads, prompt : SUBSET Labels,
                result : SUBSET Labels]
          \cup [pc : {"log"}, who : People, thread : Threads, tells : SUBSET Labels]]
    /\ log \subseteq [thread : Threads, owner : People, tells : SUBSET Labels]

(* A reply, given now or read again later by its reader or an administra-  *)
(* tor, is made from its reader's own words, the programmes of the reader's*)
(* own organisation, and signals and watch list, through history, tools and*)
(* fallbacks (ProcessChatMessage, callGeminiWithTools, the readers of the  *)
(* log): of what is somebody else's it tells the feed at most, never words *)
(* or programmes.                                                          *)
Own(p) == {Said(p), ProgramsOf(OrgOf[p])}
MayTell(p) == Own(p) \cup WholeFeed

NothingOfOthersButFeed ==
    /\ \A c \in Chats : chat[c].pc = "log" => chat[c].tells \subseteq MayTell(chat[c].who)
    /\ \A p \in People, t \in Threads :
          /\ \A l \in GetConversationMessages(p, t) : l.tells \subseteq MayTell(p)
          /\ \A l \in AdminGetConversationMessages(p, t) :
                l.tells \subseteq UNION {MayTell(q) : q \in {r \in People : OrgOf[r] = OrgOf[p]}}

(* A thread holds messages of its owner only, whatever thread a message    *)
(* asked for and whoever archives meanwhile; and all its messages are      *)
(* shown to an administrator who finds it in the list.                     *)
ThreadsKeepToOwner ==
    /\ \A l \in log : thread[l.thread] # NoThread /\ thread[l.thread].owner = l.owner
    /\ \A p \in People : \A t \in AdminListConversations(p) :
          \A l \in log : l.thread = t => l \in AdminGetConversationMessages(p, t)
=============================================================================
