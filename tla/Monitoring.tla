----------------------------- MODULE Monitoring -----------------------------
(***************************************************************************)
(* What is watched of companies: the watch list of the agents, the people  *)
(* in them and the posts these write, and the group a company belongs to,  *)
(* while duplicates of companies are merged.                               *)
(***************************************************************************)

CONSTANTS
    Concerns,       \* companies
    Persons,        \* rows of company_key_persons
    Posts,          \* addresses of posts
    Watchers,       \* bound: requests to the watch list at the same time
    NoOne

ASSUME MonitoringAssumption == NoOne \notin Concerns \cup Persons

VARIABLES
    parent,     \* company.companies: parent_company_id
    watch,      \* ai_company_watchlist: is_active of each company's row
    person,     \* company_key_persons: the company of each
    post,       \* key_person_social_signals
    watcher,    \* what each request to the watch list is about to write
    merge,      \* the transaction of the tool that merges duplicates
    first       \* history: the company that first reported each post stored

monitorRows == <<parent, watch, person, post, first>>
monitoringVars == <<monitorRows, watcher, merge>>

Nowhere == [is |-> "absent"]
Concern(c) == [is |-> "concern", parent |-> c]
Exists(c) == parent[c] # Nowhere
Existing == {c \in Concerns : Exists(c)}
Unwatched == "unwatched"
NoRequest == [is |-> "idle"]
Request(c, active) == [is |-> "request", of |-> c, active |-> active]
NoMerge == [is |-> "none"]
Merge(c, d, moved) == [is |-> "merge", from |-> c, into |-> d, moved |-> moved]
PeopleOf(lost) == {p \in Persons : person[p] \in lost}

MonitoringInit ==
    /\ parent \in [Concerns -> {Nowhere, Concern(NoOne)}]
    /\ watch = [c \in Concerns |-> Unwatched]
    /\ person = [p \in Persons |-> NoOne]
    /\ post = [u \in Posts |-> Nowhere]
    /\ watcher = [k \in Watchers |-> NoRequest]
    /\ merge = NoMerge
    /\ first = [u \in Posts |-> NoOne]

----------------------------------------------------------------------------
(* The watch list.  A company is given by its identifier, there or not, or *)
(* found by its name, or else made; its row is written afterwards, when it *)
(* may be gone.                                                            *)
AddWatchlistCompany(k, c, named) ==
    /\ watcher[k] = NoRequest
    /\ parent' = IF named /\ ~Exists(c) THEN [parent EXCEPT ![c] = Concern(NoOne)] ELSE parent
    /\ watcher' = [watcher EXCEPT ![k] = Request(c, "on")]
    /\ UNCHANGED <<watch, person, post, merge, first>>

(* On or off by the identifier of a company, there or not.                 *)
ToggleCompanyWatchlist(k, c, active) ==
    /\ watcher[k] = NoRequest
    /\ watcher' = [watcher EXCEPT ![k] = Request(c, active)]
    /\ UNCHANGED <<monitorRows, merge>>

(* The row refers to the company: without it nothing is written.           *)
AddOrUpdateWatchlist(k) ==
    /\ watcher[k] # NoRequest
    /\ watch' = IF Exists(watcher[k].of) THEN [watch EXCEPT ![watcher[k].of] = watcher[k].active]
                ELSE watch
    /\ watcher' = [watcher EXCEPT ![k] = NoRequest]
    /\ UNCHANGED <<parent, person, post, merge, first>>

RemoveFromWatchlist(c) ==
    /\ watch' = [watch EXCEPT ![c] = Unwatched]
    /\ UNCHANGED <<parent, person, post, watcher, merge, first>>

ListAllWatchlist == {c \in Concerns : watch[c] # Unwatched}

----------------------------------------------------------------------------
(* People.  An update keeps the company of a person.                       *)
CreateKeyPerson(c, p) ==
    /\ person[p] = NoOne /\ Exists(c)
    /\ person' = [person EXCEPT ![p] = c]
    /\ UNCHANGED <<parent, watch, post, watcher, merge, first>>

(* Posts: a deleted person, or company, takes the posts along (ON DELETE   *)
(* CASCADE).                                                               *)
Cascade(lost, leaving) ==
    LET gone(u) == post[u] # Nowhere /\ (post[u].of \in lost \/ post[u].by \in leaving)
    IN  /\ post' = [u \in Posts |-> IF gone(u) THEN Nowhere ELSE post[u]]
        /\ first' = [u \in Posts |-> IF gone(u) THEN NoOne ELSE first[u]]

(* The row of a person is locked while a merge moves it.                   *)
DeleteKeyPerson(p) ==
    /\ merge # NoMerge => p \notin merge.moved
    /\ person' = [person EXCEPT ![p] = NoOne]
    /\ Cascade({}, {p})
    /\ UNCHANGED <<parent, watch, watcher, merge>>

(* Plausible bug: the words decide only when nothing is said with them.    *)
ActionableUnlessTold(plea, told) == told

(* A word of need among the keywords makes a post actionable, told or not. *)
Actionable(plea, told) == plea \/ told

(* A post reported again, by whichever company, keeps company and person   *)
(* and takes the keywords of the new report.                               *)
IngestSocialSignal(c, u, p, plea, told) ==
    /\ Exists(c) /\ (p # NoOne => person[p] # NoOne)
    /\ post' = [post EXCEPT ![u] =
          IF @ = Nowhere THEN [is |-> "post", of |-> c, by |-> p, plea |-> plea,
                              act |-> Actionable(plea, told)]
          ELSE [is |-> "post", of |-> @.of, by |-> @.by, plea |-> plea,
                act |-> Actionable(plea, told)]]
    /\ first' = IF post[u] = Nowhere THEN [first EXCEPT ![u] = c] ELSE first
    /\ UNCHANGED <<parent, watch, person, watcher, merge>>

GetSocialSignalsByCompanyID(c) == {u \in Posts : post[u] # Nowhere /\ post[u].of = c}
GetActionableSignals(c) == {u \in GetSocialSignalsByCompanyID(c) : post[u].act}

----------------------------------------------------------------------------
(* Groups.                                                                 *)
LinkParentSubsidiary(c, d) ==
    /\ Exists(c) /\ Exists(d)
    /\ parent' = [parent EXCEPT ![d] = Concern(c)]
    /\ UNCHANGED <<watch, person, post, watcher, merge, first>>

(* One statement for each group: who has no parent and a name of the group *)
(* gets its root, which may be of that name itself.                        *)
AutoLinkCorporateGroups(root, named) ==
    /\ Exists(root)
    /\ parent' = [c \in Concerns |-> IF c \in named /\ parent[c] = Concern(NoOne)
                                     THEN Concern(root) ELSE parent[c]]
    /\ UNCHANGED <<watch, person, post, watcher, merge, first>>

GetCompanySubsidiaries(c) == {d \in Concerns : parent[d] = Concern(c)}
GetCompanyHierarchy(c) ==
    [above |-> {d \in Existing : parent[c] = Concern(d)}, below |-> GetCompanySubsidiaries(c)]

(* Duplicates.  A company that is removed takes its row of the watch list  *)
(* and its posts along, and leaves its subsidiaries without a parent (ON   *)
(* DELETE CASCADE and SET NULL).                                           *)
RemoveCompanies(lost, leaving) ==
    /\ parent' = [d \in Concerns |-> IF d \in lost THEN Nowhere
                                     ELSE IF \E c \in lost : parent[d] = Concern(c)
                                     THEN Concern(NoOne) ELSE parent[d]]
    /\ watch' = [c \in Concerns |-> IF c \in lost THEN Unwatched ELSE watch[c]]
    /\ Cascade(lost, leaving)
    /\ UNCHANGED watcher

(* The tool moves the people of a duplicate, which another transaction does*)
(* not see yet, to a company that must be there if there are any ...       *)
TransferKeyPersons(c, d) ==
    /\ merge = NoMerge /\ c # d /\ Exists(c)
    /\ PeopleOf({c}) # {} => Exists(d)
    /\ merge' = Merge(c, d, PeopleOf({c}))
    /\ UNCHANGED <<monitorRows, watcher>>

(* ... and then deletes the duplicate, with the people it got since.       *)
DeleteDuplicate ==
    /\ merge # NoMerge
    /\ RemoveCompanies({merge.from}, PeopleOf({merge.from}) \ merge.moved)
    /\ person' = [p \in Persons |-> IF p \in merge.moved THEN merge.into
                                    ELSE IF person[p] = merge.from THEN NoOne ELSE person[p]]
    /\ merge' = NoMerge

(* A failure, or the end of the tool, undoes the transaction.              *)
RollBackMerge ==
    /\ merge # NoMerge /\ merge' = NoMerge
    /\ UNCHANGED <<monitorRows, watcher>>

(* The administrator's script moves no people: they go with the duplicates.*)
(* It waits for a merge of the same companies.                             *)
DeduplicateCompanies(bad) ==
    /\ bad \subseteq Existing /\ bad # Existing
    /\ merge # NoMerge => {merge.from, merge.into} \cap bad = {}
    /\ RemoveCompanies(bad, PeopleOf(bad))
    /\ person' = [p \in Persons |-> IF person[p] \in bad THEN NoOne ELSE person[p]]
    /\ UNCHANGED merge

MonitoringNext ==
    \/ \E k \in Watchers, c \in Concerns :
          \/ \E named \in BOOLEAN : AddWatchlistCompany(k, c, named)
          \/ \E active \in {"on", "off"} : ToggleCompanyWatchlist(k, c, active)
    \/ \E k \in Watchers : AddOrUpdateWatchlist(k)
    \/ \E c \in Concerns : RemoveFromWatchlist(c)
    \/ \E c \in Concerns, p \in Persons : CreateKeyPerson(c, p)
    \/ \E p \in Persons : DeleteKeyPerson(p)
    \/ \E c \in Concerns, u \in Posts, p \in Persons \cup {NoOne}, plea, told \in BOOLEAN :
          IngestSocialSignal(c, u, p, plea, told)
    \/ \E c, d \in Concerns : LinkParentSubsidiary(c, d) \/ TransferKeyPersons(c, d)
    \/ DeleteDuplicate \/ RollBackMerge
    \/ \E bad \in SUBSET Concerns : DeduplicateCompanies(bad)
    \/ \E c \in Concerns, named \in SUBSET Concerns : AutoLinkCorporateGroups(c, named)

MonitoringSpec == MonitoringInit /\ [][MonitoringNext]_monitoringVars

----------------------------------------------------------------------------
(* The state is well typed.                                                *)
MonitoringTypeOK ==
    /\ parent \in [Concerns -> {Nowhere} \cup {Concern(c) : c \in Concerns \cup {NoOne}}]
    /\ watch \in [Concerns -> {Unwatched, "on", "off"}]
    /\ person \in [Persons -> Concerns \cup {NoOne}]
    /\ post \in [Posts -> {Nowhere} \cup [is : {"post"}, of : Concerns, by : Persons \cup {NoOne},
                                         plea : BOOLEAN, act : BOOLEAN]]
    /\ watcher \in [Watchers -> {NoRequest} \cup {Request(c, a) : c \in Concerns, a \in {"on", "off"}}]
    /\ merge \in {NoMerge} \cup {Merge(c, d, moved) : c, d \in Concerns, moved \in SUBSET Persons}
    /\ first \in [Posts -> Concerns \cup {NoOne}]

(* What is watched of a company ends with it: no row of the watch list, no *)
(* person, post or subsidiary names a company or a person that is gone,    *)
(* though a row of the watch list is written after its company was looked  *)
(* up; a post is shown by the company that reported it first, and one      *)
(* whose keywords tell of need is always among those to be acted on.       *)
WatchedExists ==
    /\ ListAllWatchlist \subseteq Existing
    /\ \A p \in Persons : person[p] # NoOne => Exists(person[p])
    /\ \A c \in Concerns : GetCompanyHierarchy(c).below # {} => Exists(c)
    /\ \A u \in Posts : post[u] # Nowhere =>
          /\ Exists(post[u].of) /\ (post[u].by # NoOne => person[post[u].by] # NoOne)
          /\ u \in GetSocialSignalsByCompanyID(first[u])
          /\ post[u].plea => u \in GetActionableSignals(post[u].of)
=============================================================================
