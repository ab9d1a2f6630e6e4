---------------------------- MODULE AccessProofs ----------------------------
(***************************************************************************)
(* Who may do what: the invariants of the sessions and of the claims to    *)
(* companies, for every number of accounts, tokens, keys, organisations,   *)
(* companies and programmes. ServicesProofs says of the running services   *)
(* what is proved here.                                                    *)
(***************************************************************************)
EXTENDS Sessions, Marketplace, TLAPS

----------------------------------------------------------------------------
(* Sessions: every life of a token, and every time to live of the set of   *)
(* revoked tokens that is not shorter.                                     *)

Stated == [user : Users, role : Roles, at : 0..MaxNow]
Issued(t) == token[t] # Unissued

SessTypes ==
    /\ clock \in 0..MaxNow
    /\ user \in [Users -> [role : Roles, active : BOOLEAN] \cup {Absent}]
    /\ token \in [Tokens -> Stated \cup {Unissued}]
    /\ revoked \subseteq Tokens
    /\ expiry = Never \/ (expiry \in Nat /\ expiry > clock /\ revoked # {})
    /\ key \in [AgentKeys -> {"none", "active", "inactive", "expired"}]
    /\ loggedOut \subseteq Tokens
    /\ stood \in [Users -> [Roles -> 0..MaxNow \cup {Never}]]

(* A token was made in the past, when its user was active in its role.     *)
TokensStood ==
    \A t \in Tokens :
        Issued(t) => token[t].at <= clock /\ token[t].at <= stood[token[t].user][token[t].role]

(* The history does not run ahead of the clock.                            *)
StoodBefore == \A u \in Users, r \in Roles : stood[u][r] <= clock

(* A token that is logged out stays in the set as long as it is valid: the *)
(* set was given the time to live after the token was made, and no logout  *)
(* makes that time shorter.                                                *)
LoggedOutKept ==
    \A t \in loggedOut :
        /\ Issued(t)
        /\ Valid(t) => t \in revoked /\ expiry # Never /\ token[t].at + Life <= expiry

SessInv == SessTypes /\ TokensStood /\ StoodBefore /\ LoggedOutKept

----------------------------------------------------------------------------
LEMMA Constants ==
    /\ Life \in Nat \ {0} /\ Keep \in Nat /\ Keep >= Life /\ MaxNow \in Nat
    /\ Tokens \cap AgentKeys = {} /\ Never = -1
  BY SessionsAssumption DEF Never

(* What a token says, once it is issued.                                   *)
LEMMA TokenSays ==
    ASSUME SessTypes, NEW t \in Tokens, Issued(t)
    PROVE  /\ token[t] \in Stated
           /\ token[t].user \in Users /\ token[t].role \in Roles /\ token[t].at \in 0..MaxNow
  BY DEF SessTypes, Issued, Stated

(* The history only moves forward.                                         *)
LEMMA StoodGrows ==
    ASSUME SessTypes, StoodBefore, Stood, clock' \in 0..MaxNow, clock <= clock'
    PROVE  /\ stood' \in [Users -> [Roles -> 0..MaxNow \cup {Never}]]
           /\ StoodBefore'
           /\ \A u \in Users, r \in Roles : stood[u][r] <= stood'[u][r]
<1>1. \A u \in Users, r \in Roles : stood[u][r] \in 0..MaxNow \cup {Never}
  BY DEF SessTypes
<1>2. \A u \in Users, r \in Roles :
         stood'[u][r] = IF user'[u].active /\ user'[u].role = r THEN clock' ELSE stood[u][r]
  BY DEF Stood
<1>3. \A u \in Users, r \in Roles :
         /\ stood'[u][r] \in 0..MaxNow \cup {Never}
         /\ stood'[u][r] <= clock' /\ stood[u][r] <= stood'[u][r]
  BY <1>1, <1>2, Constants DEF StoodBefore, SessTypes
<1>4. stood' \in [Users -> [Roles -> 0..MaxNow \cup {Never}]]
  BY <1>1 DEF Stood
<1> QED
  BY <1>3, <1>4 DEF StoodBefore

(* Tokens that stay as they are still were made when their users stood.    *)
LEMMA TokensStay ==
    ASSUME SessInv, Stood, token' = token, clock' \in 0..MaxNow, clock <= clock'
    PROVE  TokensStood'
<1> SUFFICES ASSUME NEW t \in Tokens, Issued(t)
             PROVE  /\ token[t].at <= clock'
                    /\ token[t].at <= stood'[token[t].user][token[t].role]
  BY DEF TokensStood, Issued
<1> DEFINE u == token[t].user
           r == token[t].role
           n == token[t].at
<1>1. u \in Users /\ r \in Roles /\ n \in 0..MaxNow
  BY TokenSays DEF SessInv
<1>2. n <= clock /\ n <= stood[u][r]
  BY DEF SessInv, TokensStood
<1>3. stood[u][r] <= stood'[u][r]
  BY <1>1, StoodGrows DEF SessInv
<1>4. stood[u][r] \in Int /\ stood'[u][r] \in Int /\ clock \in Int
  <2>1. stood' \in [Users -> [Roles -> 0..MaxNow \cup {Never}]]
    BY StoodGrows DEF SessInv
  <2> QED
    BY <1>1, <2>1, Constants DEF SessInv, SessTypes
<1> HIDE DEF u, r, n
<1> QED
  BY <1>1, <1>2, <1>3, <1>4 DEF u, r, n

LEMMA KeptStay ==
    ASSUME SessInv, UNCHANGED <<clock, token, revoked, expiry, loggedOut>>
    PROVE  LoggedOutKept'
  BY DEF SessInv, LoggedOutKept, Issued, Valid

----------------------------------------------------------------------------
(* Accounts and keys.                                                      *)
LEMMA AccountInv ==
    ASSUME SessInv, Stood,
           \/ \E u \in Users : Register(u) \/ ChangeUser(u)
           \/ SeedAgentCredential
           \/ \E k \in AgentKeys : KeyEnds(k)
    PROVE  SessInv'
<1>1. UNCHANGED <<clock, token, revoked, expiry, loggedOut>>
  BY DEF Register, ChangeUser, SeedAgentCredential, KeyEnds
<1>2. clock' \in 0..MaxNow /\ clock <= clock'
  BY <1>1, Constants DEF SessInv, SessTypes
<1>3. user' \in [Users -> [role : Roles, active : BOOLEAN] \cup {Absent}]
  <2> DEFINE Account == [role : Roles, active : BOOLEAN] \cup {Absent}
  <2>1. \A r \in Roles, a \in BOOLEAN : [role |-> r, active |-> a] \in Account
    OBVIOUS
  <2>2. "FUNDRAISER" \in Roles
    BY DEF Roles
  <2>3. user \in [Users -> Account]
    BY DEF SessInv, SessTypes
  <2> HIDE DEF Account
  <2>4. UNCHANGED user \/ \E u \in Users, a \in Account : user' = [user EXCEPT ![u] = a]
    BY <2>1, <2>2 DEF Register, ChangeUser, SeedAgentCredential, KeyEnds
  <2>5. user' \in [Users -> Account]
    BY <2>3, <2>4
  <2> QED
    BY <2>5 DEF Account
<1>4. key' \in [AgentKeys -> {"none", "active", "inactive", "expired"}]
  BY DEF SessInv, SessTypes, Register, ChangeUser, SeedAgentCredential, KeyEnds
<1>5. /\ stood' \in [Users -> [Roles -> 0..MaxNow \cup {Never}]] /\ StoodBefore'
  BY <1>2, StoodGrows DEF SessInv
<1>6. TokensStood' /\ LoggedOutKept'
  BY <1>1, <1>2, TokensStay, KeptStay
<1>7. SessTypes'
  BY <1>1, <1>3, <1>4, <1>5 DEF SessInv, SessTypes
<1> QED
  BY <1>5, <1>6, <1>7 DEF SessInv

(* A login: the account stands in the role the token gets.                 *)
LEMMA LoginInv ==
    ASSUME SessInv, Stood, NEW u \in Users, NEW t \in Tokens, Login(u, t)
    PROVE  SessInv'
<1> DEFINE say == [user |-> u, role |-> user[u].role, at |-> clock]
<1>1. /\ UNCHANGED <<clock, user, revoked, expiry, key, loggedOut>>
      /\ token[t] = Unissued /\ user[u].active
      /\ token' = [token EXCEPT ![t] = say]
  BY DEF Login, FindUserWithTenantByEmail
<1>2. user[u].role \in Roles
  BY <1>1 DEF SessInv, SessTypes, Absent
<1>3. clock' \in 0..MaxNow /\ clock <= clock'
  BY <1>1, Constants DEF SessInv, SessTypes
<1>4. /\ stood' \in [Users -> [Roles -> 0..MaxNow \cup {Never}]] /\ StoodBefore'
      /\ \A v \in Users, r \in Roles : stood[v][r] <= stood'[v][r]
  BY <1>3, StoodGrows DEF SessInv
<1>5. stood'[u][user[u].role] = clock
  BY <1>1, <1>2 DEF Stood
<1>6. say \in Stated /\ say.user = u /\ say.role = user[u].role /\ say.at = clock
  BY <1>2 DEF SessInv, SessTypes, Stated
<1> HIDE DEF say
<1>7. token' \in [Tokens -> Stated \cup {Unissued}] /\ token'[t] = say
      /\ \A x \in Tokens \ {t} : token'[x] = token[x]
  BY <1>1, <1>6 DEF SessInv, SessTypes
<1>8. TokensStood'
  <2> SUFFICES ASSUME NEW x \in Tokens, token'[x] # Unissued
               PROVE  /\ token'[x].at <= clock'
                      /\ token'[x].at <= stood'[token'[x].user][token'[x].role]
    BY DEF TokensStood, Issued
  <2>1. CASE x = t
    <3>1. clock \in Int
      BY <1>3, <1>1
    <3> QED
      BY <1>1, <1>5, <1>6, <1>7, <2>1, <3>1
  <2>2. CASE x # t
    <3> DEFINE v == token[x].user
               r == token[x].role
               n == token[x].at
    <3>1. token'[x] = token[x] /\ Issued(x)
      BY <1>7, <2>2 DEF Issued
    <3>2. v \in Users /\ r \in Roles /\ n \in 0..MaxNow
      BY <3>1, TokenSays DEF SessInv
    <3>3. n <= clock /\ n <= stood[v][r] /\ stood[v][r] <= stood'[v][r]
      BY <1>4, <3>1, <3>2 DEF SessInv, TokensStood
    <3>4. stood[v][r] \in Int /\ stood'[v][r] \in Int
      BY <1>4, <3>2, Constants DEF SessInv, SessTypes
    <3> HIDE DEF v, r, n
    <3>5. n <= clock' /\ n <= stood'[v][r]
      BY <1>1, <3>2, <3>3, <3>4
    <3> QED
      BY <3>1, <3>5 DEF v, r, n
  <2> QED
    BY <2>1, <2>2
<1>9. t \notin loggedOut
  BY <1>1 DEF SessInv, LoggedOutKept, Issued
<1>10. LoggedOutKept'
  <2>1. \A x \in loggedOut : token'[x] = token[x]
    BY <1>7, <1>9 DEF SessInv, SessTypes
  <2> QED
    BY <1>1, <2>1 DEF SessInv, LoggedOutKept, Issued, Valid
<1>11. SessTypes'
  BY <1>1, <1>4, <1>7 DEF SessInv, SessTypes
<1> QED
  BY <1>4, <1>8, <1>10, <1>11 DEF SessInv

(* A logout, obeyed or not: the set's time to live moves forward only.     *)
LEMMA LogoutInv ==
    ASSUME SessInv, Stood, NEW t \in Tokens, Logout(t)
    PROVE  SessInv'
<1>1. UNCHANGED <<clock, user, token, key>> /\ Valid(t)
  BY DEF Logout
<1>2. PICK added \in BOOLEAN, extended \in BOOLEAN :
         /\ revoked' = IF added THEN revoked \cup {t} ELSE revoked
         /\ expiry' = IF extended /\ revoked' # {} THEN clock + Keep ELSE expiry
         /\ loggedOut' = IF added /\ extended THEN loggedOut \cup {t} ELSE loggedOut
  BY DEF Logout, Extended
<1>3. clock \in 0..MaxNow /\ clock' \in 0..MaxNow /\ clock <= clock'
  BY <1>1, Constants DEF SessInv, SessTypes
<1>4. /\ stood' \in [Users -> [Roles -> 0..MaxNow \cup {Never}]] /\ StoodBefore'
  BY <1>3, StoodGrows DEF SessInv
<1>5. TokensStood'
  BY <1>1, <1>3, TokensStay
<1>6. expiry' = Never \/ (expiry' \in Nat /\ expiry' > clock' /\ revoked' # {})
  BY <1>1, <1>2, <1>3, Constants DEF SessInv, SessTypes
<1>7. SessTypes'
  BY <1>1, <1>2, <1>4, <1>6 DEF SessInv, SessTypes
<1>8. LoggedOutKept'
  <2> SUFFICES ASSUME NEW x \in loggedOut'
               PROVE  /\ Issued(x)
                      /\ Valid(x) => /\ x \in revoked' /\ expiry' # Never
                                     /\ token[x].at + Life <= expiry'
    BY <1>1 DEF LoggedOutKept, Issued, Valid
  <2>1. Issued(x)
    BY <1>1, <1>2 DEF SessInv, LoggedOutKept, Issued, Valid
  <2>2. token[x].at \in 0..MaxNow /\ token[x].at <= clock /\ x \in Tokens
    <3>1. x \in Tokens
      BY <1>2 DEF SessInv, SessTypes
    <3> QED
      BY <2>1, <3>1, TokenSays DEF SessInv, TokensStood
  <2>3. token[x].at + Life <= clock + Keep /\ clock + Keep # Never
    BY <1>3, <2>2, Constants
  <2>4. CASE x \in loggedOut
    <3>1. Valid(x) => x \in revoked /\ expiry # Never /\ token[x].at + Life <= expiry
      BY <2>4 DEF SessInv, LoggedOutKept
    <3> QED
      BY <1>2, <2>1, <2>3, <3>1
  <2>5. CASE x \notin loggedOut
    <3>1. x = t /\ added /\ extended
      BY <1>2, <2>5
    <3> QED
      BY <1>2, <2>1, <2>3, <3>1
  <2> QED
    BY <2>4, <2>5
<1> QED
  BY <1>4, <1>5, <1>7, <1>8 DEF SessInv

(* The set goes when its time has come, and then no token in it is valid.  *)
LEMMA HourInv ==
    ASSUME SessInv, Stood, Hour
    PROVE  SessInv'
<1>1. UNCHANGED <<user, token, key, loggedOut>> /\ clock < MaxNow /\ clock' = clock + 1
  BY DEF Hour
<1>2. \/ expiry # Never /\ expiry <= clock' /\ revoked' = {} /\ expiry' = Never
      \/ ~(expiry # Never /\ expiry <= clock') /\ UNCHANGED <<revoked, expiry>>
  BY DEF Hour
<1>3. clock \in 0..MaxNow /\ clock' \in 0..MaxNow /\ clock <= clock'
  BY <1>1, Constants DEF SessInv, SessTypes
<1>4. /\ stood' \in [Users -> [Roles -> 0..MaxNow \cup {Never}]] /\ StoodBefore'
  BY <1>3, StoodGrows DEF SessInv
<1>5. TokensStood'
  BY <1>1, <1>3, TokensStay
<1>6. expiry' = Never \/ (expiry' \in Nat /\ expiry' > clock' /\ revoked' # {})
  BY <1>2, <1>3, Constants DEF SessInv, SessTypes
<1>7. revoked' \subseteq Tokens
  BY <1>2 DEF SessInv, SessTypes
<1>8. SessTypes'
  BY <1>1, <1>3, <1>4, <1>6, <1>7 DEF SessInv, SessTypes
<1>9. LoggedOutKept'
  <2> SUFFICES ASSUME NEW x \in loggedOut, clock' < token[x].at + Life
               PROVE  x \in revoked' /\ expiry' # Never /\ token[x].at + Life <= expiry'
    BY <1>1 DEF SessInv, LoggedOutKept, Issued, Valid
  <2>1. Issued(x) /\ x \in Tokens
    BY DEF SessInv, SessTypes, LoggedOutKept
  <2>2. token[x].at \in 0..MaxNow
    BY <2>1, TokenSays DEF SessInv
  <2>3. Valid(x)
    BY <1>1, <1>3, <2>1, <2>2, Constants DEF Valid, Issued
  <2>4. x \in revoked /\ expiry # Never /\ token[x].at + Life <= expiry
    BY <2>3 DEF SessInv, LoggedOutKept
  <2>5. expiry \in Nat
    BY <2>4 DEF SessInv, SessTypes
  <2>6. clock' < expiry
    BY <1>3, <2>2, <2>4, <2>5, Constants
  <2> QED
    BY <1>2, <1>3, <2>4, <2>5, <2>6
<1> QED
  BY <1>4, <1>5, <1>8, <1>9 DEF SessInv

----------------------------------------------------------------------------
LEMMA SessInvInit == SessInit => SessInv
<1> SUFFICES ASSUME SessInit PROVE SessInv
  OBVIOUS
<1>1. SessTypes
  BY Constants DEF SessInit, SessTypes, Roles
<1>2. TokensStood /\ LoggedOutKept
  BY DEF SessInit, TokensStood, LoggedOutKept, Issued
<1>3. StoodBefore
  BY Constants DEF SessInit, StoodBefore
<1> QED
  BY <1>1, <1>2, <1>3 DEF SessInv

LEMMA SessInvStep == SessInv /\ [SessNext]_sessVars => SessInv'
<1> SUFFICES ASSUME SessInv, [SessNext]_sessVars PROVE SessInv'
  OBVIOUS
<1>1. CASE UNCHANGED sessVars
  BY <1>1 DEF sessVars, SessInv, SessTypes, TokensStood, StoodBefore, LoggedOutKept, Issued, Valid
<1>2. CASE SessNext
  BY <1>2, AccountInv, LoginInv, LogoutInv, HourInv DEF SessNext
<1> QED
  BY <1>1, <1>2

(* The state is well typed, and the two guards that know agents agree.     *)
LEMMA SessTypesFrom == SessInv => SessionsTypeOK
<1> SUFFICES ASSUME SessInv PROVE SessionsTypeOK
  OBVIOUS
<1>1. \A k \in AgentKeys : AIAgentAuthMiddleware(k, {"admin:all"}, "any")
                              <=> RequireRole(k, FALSE, {"SUPERADMIN"})
  BY DEF AIAgentAuthMiddleware, RequireRole, AuthenticateJWTOrAgentKey, RoleOf
<1> QED
  BY <1>1 DEF SessInv, SessTypes, SessionsTypeOK, Stated

(* Accounts, tokens, keys and the set of revoked tokens are well typed.    *)
THEOREM SessTypeCorrect == SessSpec => []SessionsTypeOK
  BY SessTypesFrom, SessInvInit, SessInvStep, PTL DEF SessSpec

(* A token whose logout Redis obeyed is refused as long as it is valid,    *)
(* whatever others' logouts do to the time to live they share.             *)
LEMMA RefusedFrom == SessInv => LoggedOutIsRefused
  BY DEF SessInv, LoggedOutKept, LoggedOutIsRefused, AuthenticateJWT

(* So a logged out token is refused whenever Redis answers.                *)
THEOREM LoggedOutCorrect == SessSpec => []LoggedOutIsRefused
  BY RefusedFrom, SessInvInit, SessInvStep, PTL DEF SessSpec

(* No guard serves a token in a role its user has not stood in for Life    *)
(* hours.                                                                  *)
LEMMA RightsFrom == SessInv => RightsEndWithinADay
<1> SUFFICES ASSUME SessInv, NEW t \in Tokens, NEW role \in Roles, Passes(t, role)
             PROVE  LET last == stood[token[t].user][role]
                    IN  last # Never /\ clock < last + Life
  BY DEF RightsEndWithinADay
<1>1. t \notin AgentKeys
  BY Constants
<1>2. Valid(t) /\ token[t].role = role
  BY <1>1 DEF Passes, RequireRole, AuthenticateJWTOrAgentKey, AuthenticateJWT, RoleOf,
              OrgAIAuthMiddleware, RequireVisibilityAccess, Me
<1> DEFINE u == token[t].user
           n == token[t].at
<1>3. Issued(t) /\ clock < n + Life
  BY <1>2 DEF Valid, Issued
<1>4. u \in Users /\ n \in 0..MaxNow
  BY <1>3, TokenSays DEF SessInv
<1>5. n <= stood[u][role]
  BY <1>2, <1>3 DEF SessInv, TokensStood
<1>6. stood[u][role] \in Int /\ clock \in Int
  BY <1>4, Constants DEF SessInv, SessTypes
<1> HIDE DEF u, n
<1>7. stood[u][role] # Never /\ clock < stood[u][role] + Life
  BY <1>3, <1>4, <1>5, <1>6, Constants
<1> QED
  BY <1>7 DEF u

(* So what was taken from an account is lost to its tokens within a life.  *)
THEOREM RightsCorrect == SessSpec => []RightsEndWithinADay
  BY RightsFrom, SessInvInit, SessInvStep, PTL DEF SessSpec

----------------------------------------------------------------------------
(* Marketplace: however the statements of the requests interleave with     *)
(* each other and with merges, and whichever of them fail.                 *)

Deciding == {"insert", "decide", "firm", "tenant"}
Claiming ==
    [pc : Deciding, tenant : Tenants, firm : Firms, status : ClaimStatuses]
Writing == [pc : {"write"}, tenant : Tenants \cup {Root}, program : Programs, firm : Firms]
States == {Waiting} \cup Claiming \cup Writing
Links == [verified : BOOLEAN, firm : Firms \cup {Nobody}]
Filed == [firm : Firms, visibility : Visibilities]

(* What a request carries was approved: a company it gives away, and the   *)
(* right to a programme it is about to change.                             *)
Carries(r) ==
    /\ r.pc \in {"firm", "tenant"} => <<r.tenant, r.firm>> \in approved
    /\ r.pc = "write" => r.tenant = Root \/ <<r.tenant, r.firm>> \in approved
RequestsApproved == \A h \in Dealings : Carries(dealing[h])

MarketInv == MarketTypeOK /\ HoldersWereApproved /\ RequestsApproved

----------------------------------------------------------------------------
(* The states of a request, by its program counter.                        *)
LEMMA RequestStates ==
    ASSUME MarketTypeOK, NEW h \in Dealings
    PROVE  /\ dealing[h] \in States
           /\ dealing[h].pc \in Deciding => dealing[h] \in Claiming
           /\ dealing[h].pc = "write" => dealing[h] \in Writing
           /\ dealing[h] = Waiting => dealing[h].pc = "idle"
  BY DEF MarketTypeOK, States, Claiming, Writing, Deciding, Waiting

LEMMA ClaimStates ==
    ASSUME NEW r \in Claiming, NEW pc \in Deciding
    PROVE  /\ [r EXCEPT !.pc = pc] \in Claiming /\ [r EXCEPT !.pc = pc].pc = pc
           /\ [r EXCEPT !.pc = pc].tenant = r.tenant /\ [r EXCEPT !.pc = pc].firm = r.firm
           /\ r.tenant \in Tenants /\ r.firm \in Firms /\ r.status \in ClaimStatuses
  BY DEF Claiming

(* A request moves to a state that carries nothing unapproved.             *)
LEMMA GotoKeeps ==
    ASSUME MarketInv, NEW h \in Dealings, NEW where \in States, Goto(h, where),
           approved \subseteq approved',
           where.pc \in {"firm", "tenant"} => <<where.tenant, where.firm>> \in approved',
           where.pc = "write" => where.tenant = Root \/ <<where.tenant, where.firm>> \in approved'
    PROVE  dealing' \in [Dealings -> States] /\ RequestsApproved'
<1>1. dealing \in [Dealings -> States]
  BY RequestStates DEF MarketInv, MarketTypeOK, States, Claiming, Writing, Deciding
<1>2. dealing' \in [Dealings -> States] /\ dealing'[h] = where
      /\ \A k \in Dealings \ {h} : dealing'[k] = dealing[k]
  BY <1>1 DEF Goto
<1>3. \A k \in Dealings : Carries(dealing[k])
  BY DEF MarketInv, RequestsApproved
<1> QED
  BY <1>2, <1>3 DEF RequestsApproved, Carries

LEMMA WaitingKeeps ==
    ASSUME MarketInv, NEW h \in Dealings, Goto(h, Waiting), approved \subseteq approved'
    PROVE  dealing' \in [Dealings -> States] /\ RequestsApproved'
<1>1. Waiting \in States /\ Waiting.pc = "idle"
  BY DEF Waiting, States
<1> QED
  BY <1>1, GotoKeeps

(* The pieces of the invariant that a step has to answer for.              *)
LEMMA InvFrom ==
    ASSUME MarketInv,
           dealing' \in [Dealings -> States], RequestsApproved',
           firm' \in [Firms -> Tenants \cup {Nobody, Gone}], tenant' \in [Tenants -> Links],
           claim' \subseteq Tenants \X Firms, program' \in [Programs -> Filed],
           approved' \subseteq Tenants \X Firms, HoldersWereApproved'
    PROVE  MarketInv'
  BY DEF MarketInv, MarketTypeOK, States, Claiming, Writing, Deciding, Links, Filed

LEMMA Typed ==
    ASSUME MarketInv
    PROVE  /\ dealing \in [Dealings -> States]
           /\ firm \in [Firms -> Tenants \cup {Nobody, Gone}] /\ tenant \in [Tenants -> Links]
           /\ claim \subseteq Tenants \X Firms /\ program \in [Programs -> Filed]
           /\ approved \subseteq Tenants \X Firms
  BY DEF MarketInv, MarketTypeOK, States, Claiming, Writing, Deciding, Links, Filed

LEMMA HoldersKeep ==
    ASSUME HoldersWereApproved, UNCHANGED <<firm, tenant>>, approved \subseteq approved'
    PROVE  HoldersWereApproved'
  BY DEF HoldersWereApproved

----------------------------------------------------------------------------
(* The claim of a company.                                                 *)

LEMMA AskedInv ==
    ASSUME MarketInv, NEW h \in Dealings, NEW o \in Tenants, NEW c \in Firms,
           NEW status \in ClaimStatuses, SubmitClaim(h, o, c) \/ VerifyClaim(h, o, c, status)
    PROVE  MarketInv'
<1>1. UNCHANGED <<firm, tenant, claim, program, approved>>
  BY DEF SubmitClaim, VerifyClaim
<1>2. PICK pc \in {"insert", "decide"}, st \in ClaimStatuses :
         Goto(h, [pc |-> pc, tenant |-> o, firm |-> c, status |-> st])
  BY DEF SubmitClaim, VerifyClaim, ClaimStatuses
<1>3. [pc |-> pc, tenant |-> o, firm |-> c, status |-> st] \in States
  BY DEF States, Claiming, Deciding
<1>4. dealing' \in [Dealings -> States] /\ RequestsApproved'
  BY <1>1, <1>2, <1>3, GotoKeeps
<1> QED
  BY <1>1, <1>4, InvFrom, Typed, HoldersKeep DEF MarketInv

LEMMA DecidedInv ==
    ASSUME MarketInv, NEW h \in Dealings, InsertClaim(h) \/ DecideClaim(h)
    PROVE  MarketInv'
<1> DEFINE r == dealing[h]
<1>1. r \in Claiming /\ r.tenant \in Tenants /\ r.firm \in Firms
  BY RequestStates, ClaimStates DEF MarketInv, InsertClaim, DecideClaim, Deciding
<1>2. UNCHANGED <<firm, tenant, program>>
  BY DEF InsertClaim, DecideClaim
<1>3. /\ approved \subseteq approved' /\ approved' \subseteq Tenants \X Firms
      /\ claim' \subseteq Tenants \X Firms
  BY <1>1, Typed DEF InsertClaim, DecideClaim, Granted
<1>4. \/ Goto(h, Waiting)
      \/ Goto(h, [r EXCEPT !.pc = "decide"])
      \/ Goto(h, [r EXCEPT !.pc = "firm"]) /\ <<r.tenant, r.firm>> \in approved'
  BY DEF InsertClaim, DecideClaim, Granted, Grants
<1>5. /\ [r EXCEPT !.pc = "decide"] \in States /\ [r EXCEPT !.pc = "decide"].pc = "decide"
      /\ [r EXCEPT !.pc = "firm"] \in States /\ [r EXCEPT !.pc = "firm"].pc = "firm"
      /\ [r EXCEPT !.pc = "firm"].tenant = r.tenant /\ [r EXCEPT !.pc = "firm"].firm = r.firm
  BY <1>1, ClaimStates DEF States, Deciding
<1> HIDE DEF r
<1>6. dealing' \in [Dealings -> States] /\ RequestsApproved'
  BY <1>3, <1>4, <1>5, GotoKeeps, WaitingKeeps
<1> QED
  BY <1>2, <1>3, <1>6, InvFrom, Typed, HoldersKeep DEF MarketInv

LEMMA ClaimFirmInv ==
    ASSUME MarketInv, NEW h \in Dealings, ClaimFirm(h)
    PROVE  MarketInv'
<1> DEFINE r == dealing[h]
           w == [r EXCEPT !.pc = "tenant"]
<1>1. r \in Claiming /\ r.tenant \in Tenants /\ r.firm \in Firms
  BY RequestStates, ClaimStates DEF MarketInv, ClaimFirm, Deciding
<1>2. <<r.tenant, r.firm>> \in approved
  BY DEF MarketInv, RequestsApproved, Carries, ClaimFirm
<1>3. /\ UNCHANGED <<tenant, claim, program, approved>>
      /\ Goto(h, w)
      /\ \/ firm[r.firm] # Gone /\ firm' = [firm EXCEPT ![r.firm] = r.tenant]
         \/ UNCHANGED firm
  BY DEF ClaimFirm
<1>4. w \in States /\ w.pc = "tenant" /\ w.tenant = r.tenant /\ w.firm = r.firm
  BY <1>1, ClaimStates DEF States, Deciding
<1> HIDE DEF r, w
<1>5. dealing' \in [Dealings -> States] /\ RequestsApproved'
  BY <1>2, <1>3, <1>4, GotoKeeps
<1>6. firm' \in [Firms -> Tenants \cup {Nobody, Gone}]
  BY <1>1, <1>3, Typed
<1>7. /\ \A c \in Firms : firm'[c] = firm[c] \/ (c = r.firm /\ firm'[c] = r.tenant)
      /\ \A c \in Firms : firm[c] # Gone => firm'[c] # Gone
  BY <1>1, <1>3, Typed, MarketAssumption
<1>8. HoldersWereApproved'
  BY <1>2, <1>3, <1>7, Typed DEF MarketInv, HoldersWereApproved, Links
<1> QED
  BY <1>3, <1>5, <1>6, <1>8, InvFrom, Typed

LEMMA VerifyTenantInv ==
    ASSUME MarketInv, NEW h \in Dealings, VerifyTenant(h)
    PROVE  MarketInv'
<1> DEFINE r == dealing[h]
           link == [verified |-> TRUE, firm |-> r.firm]
<1>1. r \in Claiming /\ r.tenant \in Tenants /\ r.firm \in Firms
  BY RequestStates, ClaimStates DEF MarketInv, VerifyTenant, Deciding
<1>2. <<r.tenant, r.firm>> \in approved
  BY DEF MarketInv, RequestsApproved, Carries, VerifyTenant
<1>3. /\ UNCHANGED <<firm, claim, program, approved>> /\ Goto(h, Waiting)
      /\ \/ firm[r.firm] # Gone /\ tenant' = [tenant EXCEPT ![r.tenant] = link]
         \/ UNCHANGED tenant
  BY DEF VerifyTenant
<1>4. link \in Links /\ link.firm = r.firm
  BY <1>1 DEF Links
<1> HIDE DEF r, link
<1>5. dealing' \in [Dealings -> States] /\ RequestsApproved'
  BY <1>3, WaitingKeeps
<1>6. tenant' \in [Tenants -> Links]
  BY <1>3, <1>4, Typed
<1>7. \A o \in Tenants : \/ tenant'[o] = tenant[o]
                         \/ o = r.tenant /\ tenant'[o] = link /\ firm[r.firm] # Gone
  BY <1>1, <1>3, Typed
<1>8. HoldersWereApproved'
  BY <1>1, <1>2, <1>3, <1>4, <1>7 DEF MarketInv, HoldersWereApproved
<1> QED
  BY <1>3, <1>5, <1>6, <1>8, InvFrom, Typed

----------------------------------------------------------------------------
(* Programmes, and requests that end.                                      *)

(* An organisation that owns a programme was approved for its company.     *)
LEMMA OwnersWereApproved ==
    ASSUME MarketInv, NEW o \in Tenants, NEW p \in Programs,
           tenant[o].firm = program[p].firm
    PROVE  <<o, program[p].firm>> \in approved
<1>1. program[p].firm \in Firms
  BY Typed DEF Filed
<1> QED
  BY <1>1, MarketAssumption DEF MarketInv, HoldersWereApproved

LEMMA RightInv ==
    ASSUME MarketInv, NEW h \in Dealings, NEW o \in Tenants \cup {Root}, NEW p \in Programs,
           UpdateCSRProgramVisibility(h, o, p)
    PROVE  MarketInv'
<1> DEFINE w == [pc |-> "write", tenant |-> o, program |-> p, firm |-> program[p].firm]
<1>1. /\ UNCHANGED <<firm, tenant, claim, program, approved>> /\ Goto(h, w)
      /\ o = Root \/ OwnsProgram(o, p)
  BY DEF UpdateCSRProgramVisibility
<1>2. o = Root \/ <<o, program[p].firm>> \in approved
  BY <1>1, OwnersWereApproved DEF OwnsProgram
<1>3. w \in States
  BY Typed DEF States, Writing, Filed
<1>4. dealing' \in [Dealings -> States] /\ RequestsApproved'
  BY <1>1, <1>2, <1>3, GotoKeeps
<1> QED
  BY <1>1, <1>4, InvFrom, Typed, HoldersKeep DEF MarketInv

LEMMA EndInv ==
    ASSUME MarketInv, NEW h \in Dealings, UpdateVisibility(h) \/ Abandon(h)
    PROVE  MarketInv'
<1>1. UNCHANGED <<firm, tenant, claim, approved>> /\ Goto(h, Waiting)
  BY DEF UpdateVisibility, Abandon
<1>2. dealing' \in [Dealings -> States] /\ RequestsApproved'
  BY <1>1, WaitingKeeps
<1>3. program' \in [Programs -> Filed]
  <2>1. CASE Abandon(h)
    BY <2>1, Typed DEF Abandon
  <2>2. CASE UpdateVisibility(h)
    <3>1. PICK v \in Visibilities :
             program' = [program EXCEPT ![dealing[h].program].visibility = v]
      BY <2>2 DEF UpdateVisibility
    <3>2. \A x \in Filed : [x EXCEPT !.visibility = v] \in Filed
      BY DEF Filed
    <3>3. program' = [program EXCEPT ![dealing[h].program] =
                        [program[dealing[h].program] EXCEPT !.visibility = v]]
      BY <3>1
    <3>4. dealing[h].program \in Programs
      BY <2>2, RequestStates DEF MarketInv, UpdateVisibility, Writing
    <3> QED
      BY <3>2, <3>3, <3>4, Typed
  <2> QED
    BY <2>1, <2>2
<1> QED
  BY <1>1, <1>2, <1>3, InvFrom, Typed, HoldersKeep DEF MarketInv

(* A merge deletes the links with the row.                                 *)
LEMMA MergeInv ==
    ASSUME MarketInv, NEW c \in Firms, NEW d \in Firms, MergeDuplicate(c, d)
    PROVE  MarketInv'
<1> DEFINE link(o) == IF tenant[o].firm = d
                      THEN [verified |-> tenant[o].verified, firm |-> Nobody] ELSE tenant[o]
<1>1. /\ firm' = [firm EXCEPT ![d] = Gone] /\ UNCHANGED <<dealing, approved>>
      /\ program' = [p \in Programs |-> Moved(program[p], c, d)]
      /\ claim' = {k \in claim : k[2] # d}
      /\ tenant' = [o \in Tenants |-> link(o)]
  BY DEF MergeDuplicate
<1>2. dealing' \in [Dealings -> States] /\ RequestsApproved'
  BY <1>1, Typed DEF MarketInv, RequestsApproved, Carries
<1>3. firm' \in [Firms -> Tenants \cup {Nobody, Gone}] /\ claim' \subseteq Tenants \X Firms
  BY <1>1, Typed
<1>4. \A o \in Tenants : /\ link(o) \in Links /\ link(o).firm # d
                         /\ link(o).firm # Nobody => link(o).firm = tenant[o].firm
  BY Typed, MarketAssumption DEF Links
<1>5. program' \in [Programs -> Filed]
  <2>1. \A x \in Filed : Moved(x, c, d) \in Filed
    BY DEF Filed, Moved
  <2> QED
    BY <1>1, <2>1, Typed
<1> HIDE DEF link
<1>6. tenant' \in [Tenants -> Links] /\ \A o \in Tenants : tenant'[o] = link(o)
  BY <1>1, <1>4
<1>7. \A x \in Firms : x # d => firm'[x] = firm[x]
  BY <1>1, Typed
<1>8. firm'[d] = Gone /\ Gone \notin Tenants
  BY <1>1, Typed, MarketAssumption
<1>9. HoldersWereApproved'
  <2>1. \A x \in Firms : firm'[x] \in Tenants => <<firm'[x], x>> \in approved'
    BY <1>1, <1>7, <1>8 DEF MarketInv, HoldersWereApproved
  <2>2. ASSUME NEW o \in Tenants, tenant'[o].firm # Nobody
        PROVE  <<o, tenant'[o].firm>> \in approved' /\ firm'[tenant'[o].firm] # Gone
    <3>1. /\ tenant'[o].firm = tenant[o].firm /\ tenant[o].firm # d
          /\ tenant[o].firm # Nobody
      BY <1>4, <1>6, <2>2
    <3>2. <<o, tenant[o].firm>> \in approved /\ firm[tenant[o].firm] # Gone
      BY <3>1 DEF MarketInv, HoldersWereApproved
    <3>3. tenant[o].firm \in Firms
      BY <3>1, Typed DEF Links
    <3> QED
      BY <1>1, <1>7, <3>1, <3>2, <3>3
  <2> QED
    BY <2>1, <2>2 DEF HoldersWereApproved
<1> QED
  BY <1>1, <1>2, <1>3, <1>5, <1>6, <1>9, InvFrom, Typed

----------------------------------------------------------------------------
LEMMA MarketInvInit == MarketInit => MarketInv
  BY MarketAssumption
  DEF MarketInit, MarketInv, MarketTypeOK, HoldersWereApproved, RequestsApproved, Carries,
      Waiting, Nobody, Gone, Visibilities

LEMMA MarketInvStep == MarketInv /\ [MarketNext]_marketVars => MarketInv'
<1> SUFFICES ASSUME MarketInv, [MarketNext]_marketVars PROVE MarketInv'
  OBVIOUS
<1>1. CASE UNCHANGED marketVars
  BY <1>1 DEF marketVars, MarketInv, MarketTypeOK, HoldersWereApproved, RequestsApproved, Carries
<1>2. {"APPROVED", "REJECTED"} \subseteq ClaimStatuses /\ "PENDING" \in ClaimStatuses
  BY DEF ClaimStatuses
<1>3. CASE MarketNext
  BY <1>2, <1>3, AskedInv, DecidedInv, ClaimFirmInv, VerifyTenantInv, RightInv, EndInv, MergeInv
  DEF MarketNext, TriggerDeduplication
<1> QED
  BY <1>1, <1>3

(* Every reachable state is well typed.                                    *)
THEOREM MarketTypeCorrect == MarketSpec => []MarketTypeOK
<1>1. MarketInv => MarketTypeOK
  BY DEF MarketInv
<1> QED
  BY <1>1, MarketInvInit, MarketInvStep, PTL DEF MarketSpec

(* Nobody holds a company without an approval of its claim to it, though   *)
(* the statements of UpdateStatus interleave and fail one by one.          *)
THEOREM HoldersCorrect == MarketSpec => []HoldersWereApproved
<1>1. MarketInv => HoldersWereApproved
  BY DEF MarketInv
<1> QED
  BY <1>1, MarketInvInit, MarketInvStep, PTL DEF MarketSpec

(* Private programmes are listed to approved claimants only.               *)
LEMMA PrivateFrom == MarketInv => PrivateSeenByClaimant
<1> SUFFICES ASSUME MarketInv, NEW o \in Tenants, NEW p \in Programs,
                    program[p].visibility = "private", p \in ListCSRPrograms(o)
             PROVE  <<o, program[p].firm>> \in approved
  BY DEF PrivateSeenByClaimant
<1>1. MaySee(o, p)
  BY MarketAssumption DEF ListCSRPrograms, ListAllPrograms
<1> QED
  BY <1>1, OwnersWereApproved DEF MaySee

(* So private programmes are listed to approved claimants only.            *)
THEOREM PrivateCorrect == MarketSpec => []PrivateSeenByClaimant
  BY PrivateFrom, MarketInvInit, MarketInvStep, PTL DEF MarketSpec

(* Whoever changes the visibility of a programme had the right to it when  *)
(* it was checked.                                                         *)
LEMMA ManagedStep == MarketInv /\ [MarketNext]_marketVars => ManagedByClaimant
<1> SUFFICES ASSUME MarketInv, [MarketNext]_marketVars, NEW p \in Programs,
                    program'[p].visibility # program[p].visibility
             PROVE  \E h \in Dealings :
                       /\ dealing[h].pc = "write" /\ dealing[h].program = p
                       /\ \/ dealing[h].tenant = Root
                          \/ <<dealing[h].tenant, dealing[h].firm>> \in approved
  BY DEF ManagedByClaimant
<1>1. program' # program
  OBVIOUS
<1>2. ASSUME NEW c \in Firms, NEW d \in Firms, MergeDuplicate(c, d)
      PROVE  program'[p].visibility = program[p].visibility
  <2>1. \A x \in Filed : Moved(x, c, d).visibility = x.visibility
    BY DEF Filed, Moved
  <2>2. program'[p] = Moved(program[p], c, d)
    BY <1>2 DEF MergeDuplicate
  <2> QED
    BY <2>1, <2>2, Typed
<1>3. PICK h \in Dealings : UpdateVisibility(h)
  BY <1>1, <1>2
  DEF MarketNext, marketVars, SubmitClaim, VerifyClaim, InsertClaim, DecideClaim, ClaimFirm,
      VerifyTenant, Abandon, UpdateCSRProgramVisibility, TriggerDeduplication
<1>4. dealing[h].program = p
  <2>1. PICK v : program' = [program EXCEPT ![dealing[h].program].visibility = v]
    BY <1>3 DEF UpdateVisibility
  <2> QED
    BY <2>1, Typed
<1> QED
  BY <1>3, <1>4 DEF UpdateVisibility, MarketInv, RequestsApproved, Carries

(* So whoever changes a programme's visibility was approved for it.        *)
THEOREM ManagedCorrect == MarketSpec => [][ManagedByClaimant]_marketVars
<1>1. MarketInv /\ [MarketNext]_marketVars => [ManagedByClaimant]_marketVars
  BY ManagedStep
<1> QED
  BY <1>1, MarketInvInit, MarketInvStep, PTL DEF MarketSpec
=============================================================================
