------------------------------ MODULE Profiles ------------------------------
(***************************************************************************)
(* The links of the companies that background sweeps keep: the profiles on *)
(* four social networks, verified and, for two of them, searched for; the  *)
(* website and the contact, filled in when they are empty.  A sweep reads  *)
(* a batch of rows, asks the network about each URL and writes the answer  *)
(* to the row by its id, whatever the row holds by then.  Sweeps of the    *)
(* queue, goroutines that an administrator starts beside it, and edits may *)
(* overlap.  The columns of the networks share nothing, so a behaviour     *)
(* observes those of one of them, "net".                                   *)
(***************************************************************************)
EXTENDS Integers, FiniteSetsExt

CONSTANTS
    Companies,
    Links,          \* the URLs a row may hold
    Passes,         \* sweeps that may run at the same time
    PageSize,       \* rows per batch (50, or 100 for websites)
    MaxEvents       \* bound: edits, hours that pass, updates that fail, kills

ASSUME ProfilesAssumption ==
    /\ PageSize \in Nat \ {0} /\ MaxEvents \in Nat
    /\ IsFiniteSet(Companies) /\ "none" \notin Links

VARIABLES
    net,        \* whose columns are observed
    profile,    \* the columns: url, status and the age of verified_at
    sweep,      \* where each sweep is
    accepted,   \* history: the URLs a check accepted for each company
    touched,    \* history: companies edited, or held by two sweeps at once
    events      \* outside events so far, bounded by MaxEvents

profVars == <<net, profile, sweep, accepted, touched, events>>

Social == {"linkedin", "instagram", "facebook", "youtube"}
Searched == {"linkedin", "instagram"}
Filled == {"website", "contact"}
Statuses == {"none", "UNVERIFIED", "VALID", "INVALID"}
Ages == {"never", "minutes", "hours", "halfday"}   \* under 1, 12 hours, more
NoLink == "none"
Resting == [pc |-> "idle"]

ProfInit ==
    /\ net \in Social \cup Filled
    /\ profile \in [Companies -> [url : Links \cup {NoLink}, status : {"UNVERIFIED"}, age : {"never"}]]
    /\ sweep = [s \in Passes |-> Resting]
    /\ accepted = {}
    /\ touched = {}
    /\ events = 0

----------------------------------------------------------------------------
(* What a page may answer: itself, a wall that asks for a login, a refusal *)
(* of robots (999), "no such page" as a status or as a text, a temporary   *)
(* status (429, 5xx), nothing at all, or the URL has not the form asked.   *)
Answers == {"page", "login", "denied", "missing", "notice", "busy", "unreachable", "malformed"}

(* A plausible bug: a wall is no sign of life.                              *)
DeniesLogin(a) == a \in {"page"}

(* Each verifier's verdict.  Every answer that is not a sign of life makes *)
(* the link invalid, also those the verifier calls degraded.               *)
LinkedInAccepts(a) == a \in {"page", "login", "denied"}
InstagramAccepts(a) == a \in {"page", "login"}
FacebookAccepts(a) == a \in {"page", "login"}
YoutubeAccepts(a) == a \in {"page", "login"}
WebsiteAccepts(a) == a \in {"page", "login", "notice"}
ContactAccepts(a) == a \in {"page"}     \* the number or address has the form asked

Accepts(a) ==
    CASE net = "linkedin"  -> LinkedInAccepts(a)
      [] net = "instagram" -> InstagramAccepts(a)
      [] net = "facebook"  -> FacebookAccepts(a)
      [] net = "youtube"   -> YoutubeAccepts(a)
      [] net = "website"   -> WebsiteAccepts(a)
      [] net = "contact"   -> ContactAccepts(a)

----------------------------------------------------------------------------
(* The rows each sweep asks for.                                           *)
ToVerify(c) == profile[c].url # NoLink /\ profile[c].age \in {"never", "halfday"}

ToSearch(c) ==
    /\ profile[c].status \in {"INVALID", "UNVERIFIED"} \/ profile[c].url = NoLink
    /\ profile[c].age # "minutes"

ToFill(c) == profile[c].url = NoLink

Wanted(kind) ==
    {c \in Companies : CASE kind = "verify" -> ToVerify(c)
                         [] kind = "search" -> ToSearch(c)
                         [] kind = "fill"   -> ToFill(c)}

(* A new pass is started by the scheduler, by the worker's own start or by *)
(* an administrator.                                                       *)
Start(s, kind) ==
    /\ sweep[s] = Resting
    /\ sweep' = [sweep EXCEPT ![s] = [pc |-> "fetch", kind |-> kind]]
    /\ UNCHANGED <<net, profile, accepted, touched, events>>

ScheduleVerification(s) == net \in Social /\ Start(s, "verify")
ScheduleSearch(s) == net \in Searched /\ Start(s, "search")
ScheduleFilling(s) == net \in Filled /\ Start(s, "fill")

(* The administrator's trigger first makes every link due again.           *)
Trigger(s) ==
    /\ sweep[s] = Resting /\ events < MaxEvents
    /\ profile' = [c \in Companies |->
                     IF profile[c].url = NoLink THEN profile[c]
                     ELSE [profile[c] EXCEPT !.age = "never", !.status = "UNVERIFIED"]]
    /\ sweep' = [sweep EXCEPT ![s] = [pc |-> "fetch", kind |-> "verify"]]
    /\ events' = events + 1
    /\ UNCHANGED <<net, accepted, touched>>

TriggerLinkedIn(s) == net = "linkedin" /\ Trigger(s)
TriggerInstagram(s) == net = "instagram" /\ Trigger(s)
TriggerFacebook(s) == net = "facebook" /\ Trigger(s)
TriggerYoutube(s) == net = "youtube" /\ Trigger(s)

(* The next batch; without one the pass is over.                           *)
Fetch(s) ==
    /\ sweep[s].pc = "fetch"
    /\ LET due == Wanted(sweep[s].kind)
           size == IF Cardinality(due) < PageSize THEN Cardinality(due) ELSE PageSize
       IN  IF due = {}
           THEN sweep' = [sweep EXCEPT ![s] = Resting]
           ELSE \E batch \in kSubset(size, due) :
                   sweep' = [sweep EXCEPT ![s] =
                     [pc |-> "ask", kind |-> @.kind, batch |-> {<<c, profile[c].url>> : c \in batch}]]
    /\ UNCHANGED <<net, profile, accepted, touched, events>>

(* What a sweep does after a row: the next one, or the next batch; the     *)
(* passes that fill read one batch only.                                   *)
Rest(s, row) ==
    LET left == sweep[s].batch \ {row}
    IN  CASE left # {} -> [pc |-> "ask", kind |-> sweep[s].kind, batch |-> left]
          [] left = {} /\ sweep[s].kind # "fill" -> [pc |-> "fetch", kind |-> sweep[s].kind]
          [] OTHER -> Resting

(* A URL is asked for.  A search tries links it finds on the website and   *)
(* in four search services, and keeps the first that its verifier accepts, *)
(* if any does; a fill likewise.                                           *)
Ask(s, row, u, a) ==
    /\ sweep' = [sweep EXCEPT ![s] = [pc |-> "save", kind |-> @.kind, batch |-> @.batch,
                                      row |-> row, url |-> u,
                                      ok |-> Accepts(a), alive |-> a \in {"page", "login"}]]
    /\ accepted' = IF Accepts(a) THEN accepted \cup {<<row[1], u>>} ELSE accepted
    /\ UNCHANGED <<net, profile, touched, events>>

AskVerify(s) ==
    /\ sweep[s].pc = "ask" /\ sweep[s].kind = "verify"
    /\ \E row \in sweep[s].batch, a \in Answers : Ask(s, row, row[2], a)

AskFound(s, kind) ==
    /\ sweep[s].pc = "ask" /\ sweep[s].kind = kind
    /\ \E row \in sweep[s].batch, u \in Links, a \in Answers : Ask(s, row, u, a)

SearchLinkedIn(s) == net = "linkedin" /\ AskFound(s, "search")
SearchInstagram(s) == net = "instagram" /\ AskFound(s, "search")
LookUpWebsite(s) == net = "website" /\ AskFound(s, "fill")
ScrapeContact(s) == net = "contact" /\ AskFound(s, "fill")

(* Plausible bugs: a row that was not found stays due, a link is kept      *)
(* unasked.                                                                *)
FoundUnstamped(row, u, ok) ==
    IF ok THEN [url |-> u, status |-> "VALID", age |-> "minutes"] ELSE row
FoundUnchecked(row, u, ok) == [url |-> u, status |-> "VALID", age |-> "minutes"]

(* The row after the answer of a verification, of a search, of a filling.  *)
Verified(row, u, ok) ==
    IF ok THEN [row EXCEPT !.status = "VALID", !.age = "minutes"]
    ELSE [url |-> NoLink, status |-> "none", age |-> "minutes"]

Found(row, u, ok) ==
    IF ok THEN [url |-> u, status |-> "VALID", age |-> "minutes"]
    ELSE [row EXCEPT !.age = "minutes"]

FilledIn(row, u, ok) == IF ok THEN [row EXCEPT !.url = u] ELSE row

After(kind, row, u, ok) ==
    CASE kind = "verify" -> Verified(row, u, ok)
      [] kind = "search" -> Found(row, u, ok)
      [] kind = "fill"   -> FilledIn(row, u, ok)

Held(t) ==
    IF sweep[t].pc \in {"ask", "save"} THEN {row[1] : row \in sweep[t].batch} ELSE {}

Save(s) ==
    /\ sweep[s].pc = "save"
    /\ LET w == sweep[s]
           c == w.row[1]
       IN  /\ profile' = [profile EXCEPT ![c] = After(w.kind, @, w.url, w.ok)]
           /\ sweep' = [sweep EXCEPT ![s] = Rest(s, w.row)]
           /\ touched' = IF \E t \in Passes \ {s} : c \in Held(t) THEN touched \cup {c} ELSE touched
    /\ UNCHANGED <<net, accepted, events>>

(* The update fails; that is logged and the pass goes on.                  *)
SaveFails(s) ==
    /\ sweep[s].pc = "save" /\ events < MaxEvents
    /\ sweep' = [sweep EXCEPT ![s] = Rest(s, sweep[s].row)]
    /\ events' = events + 1
    /\ UNCHANGED <<net, profile, accepted, touched>>

(* The context ends, or the process does.                                  *)
Stopped(s) ==
    /\ sweep[s] # Resting /\ events < MaxEvents
    /\ sweep' = [sweep EXCEPT ![s] = Resting]
    /\ events' = events + 1
    /\ UNCHANGED <<net, profile, accepted, touched>>

----------------------------------------------------------------------------
(* Edits.  The handler checks a LinkedIn link and a website and takes the  *)
(* others, and the statuses, as they come; verified_at stays.              *)
Checked == {"linkedin", "website"}

(* Only what the edit gives is written.                                    *)
Overwritten(row, u, st) ==
    [row EXCEPT !.url = IF u = NoLink THEN @ ELSE u,
                !.status = IF st = "none" \/ net \in Filled THEN @ ELSE st]

UpdateCompany(c) ==
    /\ events < MaxEvents
    /\ \E u \in Links \cup {NoLink}, st \in Statuses, a \in Answers :
          /\ u # NoLink /\ net \in Checked => Accepts(a)
          /\ u = NoLink \/ net \notin Checked => a = "page"   \* asks nobody
          /\ profile' = [profile EXCEPT ![c] = Overwritten(@, u, st)]
    /\ touched' = touched \cup {c}
    /\ events' = events + 1
    /\ UNCHANGED <<net, sweep, accepted>>

(* A link that was checked before it is written: creating a company that   *)
(* exists by its name writes the links its statement knows, the website    *)
(* and LinkedIn; the scraper's answer to a search writes the website.      *)
WriteChecked(c) ==
    /\ events < MaxEvents
    /\ \E u \in Links, a \in Answers :
          /\ Accepts(a)
          /\ profile' = [profile EXCEPT ![c].url = u]
          /\ accepted' = accepted \cup {<<c, u>>}
    /\ events' = events + 1
    /\ UNCHANGED <<net, sweep, touched>>

CreateCompany(c) == net \in Checked /\ WriteChecked(c)
DiscoveredWebsite(c) == net = "website" /\ WriteChecked(c)

HoursPass(c) ==
    /\ events < MaxEvents /\ profile[c].age \in {"minutes", "hours"}
    /\ profile' = [profile EXCEPT ![c].age = IF @ = "minutes" THEN "hours" ELSE "halfday"]
    /\ events' = events + 1
    /\ UNCHANGED <<net, sweep, accepted, touched>>

----------------------------------------------------------------------------
(* The workers: the same loop over each network's columns.                 *)
Step(s) ==
    \/ Fetch(s) \/ AskVerify(s) \/ Save(s)
    \/ SearchLinkedIn(s) \/ SearchInstagram(s) \/ LookUpWebsite(s) \/ ScrapeContact(s)
StepOf(s, kind) == sweep[s] # Resting /\ sweep[s].kind = kind /\ Step(s)

LinkedInCheck(s) == net = "linkedin" /\ StepOf(s, "verify")
InstagramCheck(s) == net = "instagram" /\ StepOf(s, "verify")
FacebookCheck(s) == net = "facebook" /\ StepOf(s, "verify")
YoutubeCheck(s) == net = "youtube" /\ StepOf(s, "verify")
LinkedInDiscovery(s) == net = "linkedin" /\ StepOf(s, "search")
InstagramDiscovery(s) == net = "instagram" /\ StepOf(s, "search")
EnrichMissingWebsites(s) == net = "website" /\ StepOf(s, "fill")
ContactDiscovery(s) == net = "contact" /\ StepOf(s, "fill")

Work(s) ==
    \/ LinkedInCheck(s) \/ InstagramCheck(s) \/ FacebookCheck(s) \/ YoutubeCheck(s)
    \/ LinkedInDiscovery(s) \/ InstagramDiscovery(s)
    \/ EnrichMissingWebsites(s) \/ ContactDiscovery(s)

ProfNext ==
    \/ \E s \in Passes :
          \/ ScheduleVerification(s) \/ ScheduleSearch(s) \/ ScheduleFilling(s)
          \/ TriggerLinkedIn(s) \/ TriggerInstagram(s) \/ TriggerFacebook(s) \/ TriggerYoutube(s)
          \/ Work(s) \/ SaveFails(s) \/ Stopped(s)
    \/ \E c \in Companies :
          UpdateCompany(c) \/ CreateCompany(c) \/ DiscoveredWebsite(c) \/ HoursPass(c)

ProfSpec == ProfInit /\ [][ProfNext]_profVars

(* A worker that runs goes on running; nothing else is fair.               *)
ProfFairSpec == ProfSpec /\ \A s \in Passes : WF_profVars(Work(s))

----------------------------------------------------------------------------
(* Types; a sweep holds each row of its batch once.                        *)
Rows == Companies \X (Links \cup {NoLink})

SweepStates ==
    {Resting}
    \cup [pc : {"fetch"}, kind : {"verify", "search", "fill"}]
    \cup [pc : {"ask"}, kind : {"verify", "search", "fill"}, batch : SUBSET Rows]
    \cup [pc : {"save"}, kind : {"verify", "search", "fill"}, batch : SUBSET Rows,
           row : Rows, url : Links, ok : BOOLEAN, alive : BOOLEAN]

ProfilesTypeOK ==
    /\ net \in Social \cup Filled
    /\ profile \in [Companies -> [url : Links \cup {NoLink}, status : Statuses, age : Ages]]
    /\ sweep \in [Passes -> SweepStates]
    /\ accepted \subseteq Companies \X Links
    /\ touched \subseteq Companies
    /\ events \in 0..MaxEvents

(* A profile called VALID is there and its verifier accepted this link,    *)
(* whatever batch the sweeps read and whenever they write, unless someone  *)
(* edited the row or two sweeps held it at the same time: then a row can   *)
(* say VALID of a link that another sweep has just erased.                 *)
ValidIsAccepted ==
    \A c \in Companies \ touched :
        profile[c].status = "VALID" => <<c, profile[c].url>> \in accepted

(* A sweep erases a profile only after a check whose answer was neither    *)
(* the page nor a wall that asks visitors to log in.                       *)
ErasedOnlyRefused ==
    [][\A c \in Companies :
        profile[c].url # NoLink /\ profile'[c].url = NoLink
        => \E s \in Passes : /\ sweep[s].pc = "save" /\ sweep[s].row[1] = c
                              /\ sweep'[s] # sweep[s]
                              /\ ~sweep[s].alive]_profVars

(* A pass ends: the loop that fetches batches until none is due, of two    *)
(* passes at once, with rows that fail to be written now and then.         *)
SweepEnds == \A s \in Passes : (sweep[s] # Resting) ~> (sweep[s] = Resting)
=============================================================================
