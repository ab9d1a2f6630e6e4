----------------------------- MODULE Proposals -----------------------------
(***************************************************************************)
(* Proposals of institutions to companies: submitted, reviewed, removed    *)
(* with the company when duplicates are merged, and read page by page by   *)
(* both sides while all of this goes on.                                   *)
(***************************************************************************)
EXTENDS Naturals, FiniteSets

CONSTANTS
    Letters,        \* proposals
    Institutions,   \* who submits them
    Receivers,      \* companies they are submitted to
    Statuses,       \* proposal_status_enum
    Largest,        \* the largest page that is served (100)
    Standard,       \* the size of a page when the one asked for is not served (20)
    Asked,          \* sizes of pages that are asked for
    Readers         \* bound: readers at the same time

ASSUME ProposalsAssumption ==
    /\ IsFiniteSet(Letters) /\ "SUBMITTED" \in Statuses
    /\ Largest \in Nat /\ Standard \in 1..Largest /\ Asked \subseteq Nat

VARIABLES
    letter,     \* what each row says
    older,      \* the rows that were created before each one: created_at
    reader      \* how far each reader is, and what it must not miss

proposalsVars == <<letter, older, reader>>

NoLetter == [status |-> "none"]
Away == [pc |-> "away"]

ProposalsInit ==
    /\ letter = [l \in Letters |-> NoLetter]
    /\ older = [l \in Letters |-> {}]
    /\ reader = [r \in Readers |-> Away]

Proposed == {l \in Letters : letter[l] # NoLetter}

----------------------------------------------------------------------------
(* The row is stored, and the answer is a failure all the same: the notes, *)
(* which are empty, are read into a string.  Who tries again stores one    *)
(* more.                                                                   *)
SubmitProposal(l, o, f) ==
    /\ letter[l] = NoLetter
    /\ letter' = [letter EXCEPT ![l] = [by |-> o, to |-> f, status |-> "SUBMITTED"]]
    /\ older' = [older EXCEPT ![l] = Proposed]
    /\ UNCHANGED reader

(* Any status may follow any other; the row keeps its place in the order.  *)
UpdateStatus(l, status) ==
    /\ letter[l] # NoLetter
    /\ letter' = [letter EXCEPT ![l].status = status]
    /\ UNCHANGED <<older, reader>>

----------------------------------------------------------------------------
ListByOrgTenant(o) == {l \in Proposed : letter[l].by = o}
ListByCorpTenant(f) == {l \in Proposed : letter[l].to = f}
ListOf(who) == IF who \in Institutions THEN ListByOrgTenant(who) ELSE ListByCorpTenant(who)

(* ORDER BY created_at DESC: as many rows come before one as are newer.    *)
Newer(who, l) == {m \in ListOf(who) : l \in older[m]}
Place(who, l) == Cardinality(Newer(who, l))

PageSize(size) == IF size \in 1..Largest THEN size ELSE Standard

(* Plausible bug: the first page is skipped.                               *)
PagesBefore(page, size) == page * PageSize(size)

Offset(page, size) == (page - 1) * PageSize(size)

PageOf(who, page, size) ==
    {l \in ListOf(who) :
        Place(who, l) \in Offset(page, size)..(Offset(page, size) + PageSize(size) - 1)}

(* A reader begins with the first page and goes on to the next until one   *)
(* is empty.  The size of 0 is served but then divided by: no answer.      *)
StartReading(r, who, size) ==
    /\ reader[r] = Away
    /\ reader' = [reader EXCEPT ![r] = [pc |-> "read", who |-> who, size |-> size, page |-> 1,
                                        seen |-> {}, due |-> ListOf(who)]]
    /\ UNCHANGED <<letter, older>>

ReadPage(r) ==
    /\ reader[r].pc = "read" /\ reader[r].size # 0
    /\ LET at  == reader[r]
           got == PageOf(at.who, at.page, at.size)
       IN  reader' = [reader EXCEPT ![r] =
                        IF got = {} THEN [at EXCEPT !.pc = "done"]
                        ELSE [at EXCEPT !.seen = at.seen \cup got, !.page = at.page + 1]]
    /\ UNCHANGED <<letter, older>>

StopReading(r) ==
    /\ reader[r] # Away
    /\ reader' = [reader EXCEPT ![r] = Away]
    /\ UNCHANGED <<letter, older>>

(* Merging companies, or removing an organisation, removes its rows.  The  *)
(* pages move under a reader, who may then miss anything.                  *)
RemoveAll(who) ==
    /\ ListOf(who) # {}
    /\ LET gone == ListOf(who) IN
       /\ letter' = [l \in Letters |-> IF l \in gone THEN NoLetter ELSE letter[l]]
       /\ older' = [l \in Letters |-> IF l \in gone THEN {} ELSE older[l] \ gone]
    /\ reader' = [r \in Readers |-> IF reader[r] = Away THEN Away
                                    ELSE [reader[r] EXCEPT !.due = {}]]

ProposalsNext ==
    \/ \E l \in Letters, o \in Institutions, f \in Receivers : SubmitProposal(l, o, f)
    \/ \E l \in Letters, s \in Statuses : UpdateStatus(l, s)
    \/ \E r \in Readers, who \in Institutions \cup Receivers, n \in Asked : StartReading(r, who, n)
    \/ \E r \in Readers : ReadPage(r) \/ StopReading(r)
    \/ \E who \in Institutions \cup Receivers : RemoveAll(who)

ProposalsSpec == ProposalsInit /\ [][ProposalsNext]_proposalsVars

----------------------------------------------------------------------------
(* The state is well typed, and of two stored rows one is the older.       *)
ProposalsTypeOK ==
    /\ letter \in [Letters -> {NoLetter} \cup
                     [by : Institutions, to : Receivers, status : Statuses]]
    /\ older \in [Letters -> SUBSET Proposed]
    /\ \A l, m \in Proposed : l # m => (l \in older[m] <=> m \notin older[l])
    /\ \A r \in Readers :
          reader[r] = Away \/ reader[r] \in
             [pc : {"read", "done"}, who : Institutions \cup Receivers, size : Asked,
              page : Nat \ {0}, seen : SUBSET Letters, due : SUBSET Letters]

(* Who reads page after page until one is empty has seen every proposal    *)
(* that was there at the start, however many are submitted and reviewed in *)
(* between: new rows push the others towards later pages and a review      *)
(* moves none (ListByOrgTenant, ListByCorpTenant, UpdateStatus).           *)
NoneSkipped ==
    \A r \in Readers : reader[r] # Away /\ reader[r].pc = "done"
                          => reader[r].due \subseteq reader[r].seen
=============================================================================
