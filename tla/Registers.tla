----------------------------- MODULE Registers -----------------------------
(***************************************************************************)
(* What the registers of the state say of companies: deeds (AHU), permits  *)
(* (OSS) and industry codes (KBLI), each kept in a table of its own and    *)
(* copied into the row of the company.  Every request is one transaction.  *)
(***************************************************************************)

CONSTANTS
    Houses,         \* companies
    Deeds,          \* AHU numbers
    Permits,        \* NIB numbers
    Codes,          \* KBLI codes of kbli_reference
    Null

ASSUME RegistersAssumption == Null \notin Houses \cup Deeds \cup Permits \cup Codes

VARIABLES
    house,      \* company.companies: ahu_number, nib, kbli_code
    deed,       \* ahu_registrations: the company of each number
    permit      \* oss_nib_registrations: the company and code of each number

registersVars == <<house, deed, permit>>

Missing == [is |-> "missing"]
Deed(c) == [is |-> "deed", of |-> c]
Permit(c, k) == [is |-> "permit", of |-> c, code |-> k]

There(c) == house[c] # Missing
Present == {c \in Houses : There(c)}
FirstOf(x, y) == IF x # Null THEN x ELSE y

RegistersInit ==
    /\ house = [c \in Houses |-> [is |-> "house", ahu |-> Null, nib |-> Null, kbli |-> Null]]
    /\ deed = [n \in Deeds |-> Missing]
    /\ permit = [n \in Permits |-> Missing]

OfDeed(n) == IF deed[n] = Missing THEN Null ELSE deed[n].of
OfPermit(n) == IF permit[n] = Missing THEN Null ELSE permit[n].of
CodeOf(n) == IF permit[n] = Missing THEN Null ELSE permit[n].code

----------------------------------------------------------------------------
(* Plausible bug: without a transaction the second statement may fail, and *)
(* its error is not looked at.                                             *)
NumberedOrNot(c, n) == {[house EXCEPT ![c].ahu = n], house}

(* The second statement of UpsertAHU; its failure undoes the first.        *)
Numbered(c, n) == {[house EXCEPT ![c].ahu = n]}

(* A company given, or found by its name (any that contains it), or none;  *)
(* a number known already keeps its company when none is.                  *)
UpsertAHU(n, given) ==
    LET c == FirstOf(given, OfDeed(n))
    IN  /\ deed' = [deed EXCEPT ![n] = Deed(c)]
        /\ IF c = Null THEN UNCHANGED house ELSE house' \in Numbered(c, n)
        /\ UNCHANGED permit

(* An unknown number is written to the company all the same.               *)
LinkCompanyAHU(c, n) ==
    /\ deed' = IF deed[n] = Missing THEN deed ELSE [deed EXCEPT ![n] = Deed(c)]
    /\ house' = [house EXCEPT ![c].ahu = n]
    /\ UNCHANGED permit

(* The row of a company with a number, and with a code unless it has one.  *)
Numbering(row, n, code) ==
    [is |-> row.is, ahu |-> row.ahu, nib |-> n, kbli |-> FirstOf(row.kbli, code)]

(* The company gets the code of this request.                              *)
UpsertNIB(n, given, code) ==
    LET c == FirstOf(given, OfPermit(n))
    IN  /\ permit' = [permit EXCEPT ![n] = Permit(c, FirstOf(code, CodeOf(n)))]
        /\ house' = IF c = Null THEN house
                    ELSE [house EXCEPT ![c] = Numbering(@, n, code)]
        /\ UNCHANGED deed

(* Here it gets the code of the permit.                                    *)
LinkCompanyNIB(c, n) ==
    /\ permit' = IF permit[n] = Missing THEN permit
                 ELSE [permit EXCEPT ![n] = Permit(c, CodeOf(n))]
    /\ house' = [house EXCEPT ![c] = Numbering(@, n, CodeOf(n))]
    /\ UNCHANGED deed

LinkCompanyKBLI(c, code) ==
    /\ house' = [house EXCEPT ![c].kbli = code]
    /\ UNCHANGED <<deed, permit>>

(* A company is removed as a duplicate: ON DELETE SET NULL.                *)
RemoveCompany(c) ==
    /\ house' = [house EXCEPT ![c] = Missing]
    /\ deed' = [n \in Deeds |-> IF OfDeed(n) = c THEN Deed(Null) ELSE deed[n]]
    /\ permit' = [n \in Permits |-> IF OfPermit(n) = c THEN Permit(Null, CodeOf(n)) ELSE permit[n]]

(* What GetByAHUNumber and GetByNIB find, and the company's own page shows.*)
GetByAHUNumber(n) == deed[n]
GetByNIB(n) == permit[n]
ShownDeeds(c) == {n \in Deeds : There(c) /\ house[c].ahu = n}
ShownPermits(c) == {n \in Permits : There(c) /\ house[c].nib = n}

RegistersNext ==
    \/ \E n \in Deeds, given \in Present \cup {Null} : UpsertAHU(n, given)
    \/ \E n \in Permits, given \in Present \cup {Null}, code \in Codes \cup {Null} :
          UpsertNIB(n, given, code)
    \/ \E c \in Present :
          \/ \E n \in Deeds : LinkCompanyAHU(c, n)
          \/ \E n \in Permits : LinkCompanyNIB(c, n)
          \/ \E code \in Codes : LinkCompanyKBLI(c, code)
          \/ RemoveCompany(c)

RegistersSpec == RegistersInit /\ [][RegistersNext]_registersVars

----------------------------------------------------------------------------
(* The state is well typed.                                                *)
RegistersTypeOK ==
    /\ house \in [Houses -> {Missing} \cup [is : {"house"}, ahu : Deeds \cup {Null},
                                            nib : Permits \cup {Null}, kbli : Codes \cup {Null}]]
    /\ deed \in [Deeds -> {Missing} \cup {Deed(c) : c \in Houses \cup {Null}}]
    /\ permit \in [Permits -> {Missing} \cup {Permit(c, k) : c \in Houses \cup {Null},
                                                             k \in Codes \cup {Null}}]

(* A registration names companies that exist, and none whose own row says  *)
(* nothing of that register, whatever was upserted with or without its     *)
(* company, linked elsewhere, moved or removed, and though a failure of    *)
(* the second statement is not looked at (UpsertAHU, UpsertNIB).           *)
RegisteredHasNumber ==
    /\ \A n \in Deeds : LET found == GetByAHUNumber(n)
                         IN  found # Missing /\ found.of # Null => ShownDeeds(found.of) # {}
    /\ \A n \in Permits : LET found == GetByNIB(n)
                           IN  found # Missing /\ found.of # Null => ShownPermits(found.of) # {}
=============================================================================
