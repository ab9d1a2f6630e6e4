---------------------------- MODULE Marketplace ----------------------------
(***************************************************************************)
(* The two-sided market: organisations claim the profile of a company, an  *)
(* approved claim makes the organisation the company's, and with it the    *)
(* owner of the company's CSR programmes, whose visibility it changes and  *)
(* whose private ones it sees.  The statements of a request are            *)
(* transactions of their own: requests interleave between them, each may   *)
(* be cut short, and duplicates of a company are merged meanwhile.         *)
(***************************************************************************)
EXTENDS Integers

CONSTANTS
    Tenants,        \* organisations
    Firms,          \* companies
    Programs,       \* CSR programmes of companies
    Dealings,       \* bound: requests at the same time
    Root            \* the caller of a SUPERADMIN

VARIABLES
    firm,       \* who claimed each company: a tenant, Nobody, or Gone
    tenant,     \* organizations: is_verified (and type CORPORATE), company_id
    claim,      \* company_claims: <<tenant, company>> (no statement reads a status)
    program,    \* company_enriched_programs: company_id, visibility
    dealing,    \* where each request is
    approved    \* history: <<tenant, company>> of each approval of a claim

marketVars == <<firm, tenant, claim, program, dealing, approved>>

Nobody == "nobody"
Gone == "gone"

ASSUME MarketAssumption ==
    Root \notin Tenants /\ {Nobody, Gone} \cap (Tenants \cup Firms) = {}

Waiting == [pc |-> "idle"]
ClaimStatuses == {"PENDING", "APPROVED", "REJECTED"}
Visibilities == {"public", "private"}   \* "curated" is listed as "public" is

MarketInit ==
    /\ firm = [c \in Firms |-> Nobody]
    /\ tenant = [o \in Tenants |-> [verified |-> FALSE, firm |-> Nobody]]
    /\ claim = {}
    /\ program \in [Programs -> [firm : Firms, visibility : {"public"}]]
    /\ dealing = [h \in Dealings |-> Waiting]
    /\ approved = {}

Goto(h, where) == dealing' = [dealing EXCEPT ![h] = where]

----------------------------------------------------------------------------
(* SubmitClaim.  The company is read first; "matches" says that the domain *)
(* of the work email is the company's, which approves the claim at once.   *)
SubmitClaim(h, o, c) ==
    /\ dealing[h] = Waiting /\ firm[c] = Nobody
    /\ \E matches \in BOOLEAN :
          Goto(h, [pc |-> "insert", tenant |-> o, firm |-> c,
                 status |-> IF matches THEN "APPROVED" ELSE "PENDING"])
    /\ UNCHANGED <<firm, tenant, claim, program, approved>>

Granted(status, o, c) == IF status = "APPROVED" THEN {<<o, c>>} ELSE {}

InsertClaim(h) ==
    /\ dealing[h].pc = "insert"
    /\ LET r == dealing[h] IN
       IF firm[r.firm] = Gone THEN Goto(h, Waiting) /\ UNCHANGED <<claim, approved>>
       ELSE /\ claim' = claim \cup {<<r.tenant, r.firm>>}
            /\ approved' = approved \cup Granted(r.status, r.tenant, r.firm)
            /\ Goto(h, IF r.status = "APPROVED" THEN [r EXCEPT !.pc = "decide"] ELSE Waiting)
    /\ UNCHANGED <<firm, tenant, program>>

(* A SUPERADMIN decides a claim, whatever it was and whatever the company  *)
(* is by now; to revoke it, or to leave it pending, does no more than to   *)
(* reject it.                                                              *)
VerifyClaim(h, o, c, status) ==
    /\ dealing[h] = Waiting /\ <<o, c>> \in claim
    /\ Goto(h, [pc |-> "decide", tenant |-> o, firm |-> c, status |-> status])
    /\ UNCHANGED <<firm, tenant, claim, program, approved>>

(* Plausible bug: any decision gives the company away.                     *)
GrantsDecided(status) == status # "PENDING"

(* Which decision gives the company away.                                  *)
Grants(status) == status = "APPROVED"

(* UpdateStatus: the claim, then, if it is approved, the company and the   *)
(* organisation, each by a statement whose failure is not looked at.       *)
DecideClaim(h) ==
    /\ dealing[h].pc = "decide"
    /\ LET r == dealing[h] IN
       IF <<r.tenant, r.firm>> \notin claim THEN Goto(h, Waiting) /\ UNCHANGED approved
       ELSE /\ approved' = approved \cup Granted(r.status, r.tenant, r.firm)
            /\ Goto(h, IF Grants(r.status) THEN [r EXCEPT !.pc = "firm"] ELSE Waiting)
    /\ UNCHANGED <<firm, tenant, claim, program>>

ClaimFirm(h) ==
    /\ dealing[h].pc = "firm"
    /\ LET r == dealing[h] IN
       /\ \/ firm[r.firm] # Gone /\ firm' = [firm EXCEPT ![r.firm] = r.tenant]
          \/ UNCHANGED firm
       /\ Goto(h, [r EXCEPT !.pc = "tenant"])
    /\ UNCHANGED <<tenant, claim, program, approved>>

VerifyTenant(h) ==
    /\ dealing[h].pc = "tenant"
    /\ LET r == dealing[h] IN
       \/ firm[r.firm] # Gone
          /\ tenant' = [tenant EXCEPT ![r.tenant] = [verified |-> TRUE, firm |-> r.firm]]
       \/ UNCHANGED tenant
    /\ Goto(h, Waiting)
    /\ UNCHANGED <<firm, claim, program, approved>>

(* The server stops, or the client goes away, between two statements.      *)
Abandon(h) ==
    /\ dealing[h] # Waiting /\ Goto(h, Waiting)
    /\ UNCHANGED <<firm, tenant, claim, program, approved>>

----------------------------------------------------------------------------
(* Plausible bug: the join with the company is forgotten.                  *)
OwnsAnyProgram(o, p) == o \in Tenants /\ tenant[o].verified

(* Programmes.  A verified corporate organisation owns its company's.      *)
OwnsProgram(o, p) == o \in Tenants /\ tenant[o].verified /\ tenant[o].firm = program[p].firm

(* Plausible bug: any caller that is logged in sees them.                  *)
SeesAll(o, p) == TRUE

(* The same condition, inside the statement that lists programmes.         *)
MaySee(o, p) == tenant[o].verified /\ tenant[o].firm = program[p].firm

(* Checked first, written later.                                           *)
UpdateCSRProgramVisibility(h, o, p) ==
    /\ dealing[h] = Waiting
    /\ o = Root \/ OwnsProgram(o, p)
    /\ Goto(h, [pc |-> "write", tenant |-> o, program |-> p, firm |-> program[p].firm])
    /\ UNCHANGED <<firm, tenant, claim, program, approved>>

UpdateVisibility(h) ==
    /\ dealing[h].pc = "write"
    /\ \E v \in Visibilities : program' = [program EXCEPT ![dealing[h].program].visibility = v]
    /\ Goto(h, Waiting)
    /\ UNCHANGED <<firm, tenant, claim, approved>>

(* The catalogue, for a logged-in organisation that asks for everything    *)
(* it may ask for; a SUPERADMIN is listed all programmes.                  *)
ListAllPrograms(o) ==
    {p \in Programs : program[p].visibility # "private" \/ MaySee(o, p)}

ListCSRPrograms(o) == IF o = Root THEN Programs ELSE ListAllPrograms(o)

----------------------------------------------------------------------------
(* Duplicate d is merged into c, in one transaction: programmes move, the  *)
(* row is deleted, and with it, by the foreign keys, its claims and the    *)
(* link of its claimant.                                                   *)
Moved(r, c, d) == IF r.firm = d THEN [r EXCEPT !.firm = c] ELSE r

MergeDuplicate(c, d) ==
    /\ c # d /\ firm[c] # Gone /\ firm[d] # Gone
    /\ firm' = [firm EXCEPT ![d] = Gone]
    /\ program' = [p \in Programs |-> Moved(program[p], c, d)]
    /\ claim' = {k \in claim : k[2] # d}
    /\ tenant' = [o \in Tenants |->
                    IF tenant[o].firm = d THEN [verified |-> tenant[o].verified, firm |-> Nobody]
                    ELSE tenant[o]]
    /\ UNCHANGED <<dealing, approved>>

(* The administrator's script and the tool do the same to these rows.      *)
TriggerDeduplication(c, d) == MergeDuplicate(c, d)

MarketNext ==
    \/ \E h \in Dealings :
          \/ \E o \in Tenants, c \in Firms : SubmitClaim(h, o, c)
          \/ \E o \in Tenants, c \in Firms, status \in {"APPROVED", "REJECTED"} : VerifyClaim(h, o, c, status)
          \/ InsertClaim(h) \/ DecideClaim(h) \/ ClaimFirm(h) \/ VerifyTenant(h) \/ Abandon(h)
          \/ \E o \in Tenants \cup {Root}, p \in Programs : UpdateCSRProgramVisibility(h, o, p)
          \/ UpdateVisibility(h)
    \/ \E c, d \in Firms : TriggerDeduplication(c, d)

MarketSpec == MarketInit /\ [][MarketNext]_marketVars

----------------------------------------------------------------------------
(* The state is well typed; a request remembers what it read.              *)
MarketTypeOK ==
    /\ firm \in [Firms -> Tenants \cup {Nobody, Gone}]
    /\ tenant \in [Tenants -> [verified : BOOLEAN, firm : Firms \cup {Nobody}]]
    /\ claim \subseteq Tenants \X Firms
    /\ program \in [Programs -> [firm : Firms, visibility : Visibilities]]
    /\ dealing \in [Dealings ->
         {Waiting}
         \cup [pc : {"insert", "decide", "firm", "tenant"},
               tenant : Tenants, firm : Firms, status : ClaimStatuses]
         \cup [pc : {"write"}, tenant : Tenants \cup {Root}, program : Programs, firm : Firms]]
    /\ approved \subseteq Tenants \X Firms

(* Nobody holds a company, on the company's row or on the organisation's,  *)
(* without an approval of its claim to that company (UpdateStatus), and no *)
(* row names a company that a merge removed.                               *)
HoldersWereApproved ==
    /\ \A c \in Firms : firm[c] \in Tenants => <<firm[c], c>> \in approved
    /\ \A o \in Tenants :
          tenant[o].firm # Nobody => /\ <<o, tenant[o].firm>> \in approved
                                     /\ firm[tenant[o].firm] # Gone

(* Private programmes are listed only to an organisation whose claim to    *)
(* their company was approved (ListAllPrograms).                           *)
PrivateSeenByClaimant ==
    \A o \in Tenants, p \in Programs :
        program[p].visibility = "private" /\ p \in ListCSRPrograms(o)
          => <<o, program[p].firm>> \in approved

(* Whoever changes a programme's visibility is a SUPERADMIN or was         *)
(* approved for the company the programme had when the right was checked.  *)
ManagedByClaimant ==
    \A p \in Programs :
       program'[p].visibility # program[p].visibility
         => \E h \in Dealings :
               /\ dealing[h].pc = "write" /\ dealing[h].program = p
               /\ \/ dealing[h].tenant = Root
                  \/ <<dealing[h].tenant, dealing[h].firm>> \in approved
=============================================================================
