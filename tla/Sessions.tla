------------------------------ MODULE Sessions ------------------------------
(***************************************************************************)
(* Who is let in: the tokens of users, which live a day and cannot be      *)
(* changed, the Redis set of those that were logged out, with one time to  *)
(* live for the whole set, and the keys of research agents, rows of the    *)
(* database that each start of the server writes again.  A route has one   *)
(* of the guards of the middleware; only one of them reads the Redis set.  *)
(***************************************************************************)
EXTENDS Integers

CONSTANTS
    Users,          \* accounts, by e-mail address
    Tokens,         \* the tokens logins hand out (a login: a new jti)
    AgentKeys,      \* keys of agents that the configuration names
    Life,           \* hours a token lives (24)
    Keep,           \* hours the set of revoked tokens is kept (24)
    MaxNow          \* bound on the clock

ASSUME SessionsAssumption ==
    /\ Life \in Nat \ {0} /\ Keep \in Nat /\ Keep >= Life /\ MaxNow \in Nat
    /\ Tokens \cap AgentKeys = {}

VARIABLES
    clock,      \* hours
    user,       \* users: role and is_active; Absent before the registration
    token,      \* what each token says: its user, the role, the hour; or Unissued
    revoked,    \* the Redis set
    expiry,     \* when the set expires; Never while it has no time to live
    key,        \* ai_agent_credentials: a key's row
    loggedOut,  \* history: logouts both of whose commands Redis obeyed
    stood       \* history: when each user last was active in each role

sessVars == <<clock, user, token, revoked, expiry, key, loggedOut, stood>>

Never == -1
Roles == {"FUNDRAISER", "ORG_ADMIN"}
Absent == [role |-> "none", active |-> FALSE]
Unissued == [user |-> "none"]

SessInit ==
    /\ clock = 0
    /\ user = [u \in Users |-> Absent]
    /\ token = [t \in Tokens |-> Unissued]
    /\ revoked = {} /\ expiry = Never
    /\ key = [k \in AgentKeys |-> "none"]
    /\ loggedOut = {}
    /\ stood = [u \in Users |-> [r \in Roles |-> Never]]

(* The history, brought up to date with every step.                        *)
Stood == stood' = [u \in Users |-> [r \in Roles |->
             IF user'[u].active /\ user'[u].role = r THEN clock' ELSE stood[u][r]]]

(* Anybody may register, with an address that has no account yet, and is a *)
(* fundraiser; other roles, and whether an account is active, are set in   *)
(* the database.                                                           *)
Register(u) ==
    /\ user[u] = Absent
    /\ user' = [user EXCEPT ![u] = [role |-> "FUNDRAISER", active |-> TRUE]]
    /\ UNCHANGED <<clock, token, revoked, expiry, key, loggedOut>>

ChangeUser(u) ==
    /\ user[u] # Absent
    /\ \E r \in Roles, active \in BOOLEAN :
          user' = [user EXCEPT ![u] = [role |-> r, active |-> active]]
    /\ UNCHANGED <<clock, token, revoked, expiry, key, loggedOut>>

(* Plausible bug: the query forgets is_active.                             *)
FindAnyUser(u) == user[u] # Absent

FindUserWithTenantByEmail(u) == user[u].active

(* The password is right: the token says what the account is now.          *)
Login(u, t) ==
    /\ token[t] = Unissued /\ FindUserWithTenantByEmail(u)
    /\ token' = [token EXCEPT ![t] = [user |-> u, role |-> user[u].role, at |-> clock]]
    /\ UNCHANGED <<clock, user, revoked, expiry, key, loggedOut>>

Valid(t) == token[t] # Unissued /\ clock < token[t].at + Life

(* Plausible bug: only the first revocation sets the time to live.         *)
SetOnce(now) == IF expiry = Never THEN now + Keep ELSE expiry

(* Plausible bug: the time to live is in the wrong unit.                   *)
ExpiredAtOnce(now) == now

(* Every revocation renews the time to live of the whole set.              *)
Extended(now) == now + Keep

(* SADD and EXPIRE are sent one after the other; either may fail, the      *)
(* answers are not looked at, and the caller is told that the session has  *)
(* ended.                                                                  *)
Logout(t) ==
    /\ Valid(t)
    /\ \E added, extended \in BOOLEAN :
          /\ revoked' = IF added THEN revoked \cup {t} ELSE revoked
          /\ expiry' = IF extended /\ revoked' # {} THEN Extended(clock) ELSE expiry
          /\ loggedOut' = IF added /\ extended THEN loggedOut \cup {t} ELSE loggedOut
    /\ UNCHANGED <<clock, user, token, key>>

(* An hour passes; Redis drops the set when its time has come.             *)
Hour ==
    /\ clock < MaxNow
    /\ clock' = clock + 1
    /\ IF expiry # Never /\ expiry <= clock'
       THEN revoked' = {} /\ expiry' = Never
       ELSE UNCHANGED <<revoked, expiry>>
    /\ UNCHANGED <<user, token, key, loggedOut>>

----------------------------------------------------------------------------
(* The key of an agent: each start of the server writes the rows of the    *)
(* configured ones, active whatever they were, and leaves their expiry     *)
(* alone; keys are made inactive, or expire, in the database.              *)
SeedAgentCredential ==
    /\ key' = [k \in AgentKeys |-> IF key[k] = "expired" THEN "expired" ELSE "active"]
    /\ UNCHANGED <<clock, user, token, revoked, expiry, loggedOut>>

KeyEnds(k) ==
    /\ key[k] # "none"
    /\ \E state \in {"inactive", "expired"} : key' = [key EXCEPT ![k] = state]
    /\ UNCHANGED <<clock, user, token, revoked, expiry, loggedOut>>

ValidateToken(k) == key[k] = "active"

(* The guards.  A request with a revoked token is let in when Redis does   *)
(* not answer it; those of the assistant and of the catalogue's private    *)
(* entries do not ask Redis at all.                                        *)
AuthenticateJWT(t, answers) == Valid(t) /\ ~(answers /\ t \in revoked)
OrgAIAuthMiddleware(t) == Valid(t)
RequireVisibilityAccess(t) == Valid(t)
AIAgentAuthMiddleware(k, scopes, required) ==
    ValidateToken(k) /\ scopes \cap {required, "admin:all"} # {}

(* Who passes AuthenticateJWTOrAgentKey: an agent as a SUPERADMIN, a user  *)
(* in the role of the token; RequireRole compares it.                      *)
RoleOf(x) == IF x \in AgentKeys THEN "SUPERADMIN" ELSE token[x].role
AuthenticateJWTOrAgentKey(x, answers) ==
    IF x \in AgentKeys THEN ValidateToken(x) ELSE AuthenticateJWT(x, answers)
RequireRole(x, answers, allowed) == AuthenticateJWTOrAgentKey(x, answers) /\ RoleOf(x) \in allowed

(* The account as it is now.                                               *)
Me(t, answers) == AuthenticateJWT(t, answers) /\ user[token[t].user].active

----------------------------------------------------------------------------
SessNext ==
    /\ \/ \E u \in Users : Register(u) \/ ChangeUser(u)
       \/ \E u \in Users, t \in Tokens : Login(u, t)
       \/ \E t \in Tokens : Logout(t)
       \/ Hour \/ SeedAgentCredential
       \/ \E k \in AgentKeys : KeyEnds(k)
    /\ Stood

SessSpec == SessInit /\ [][SessNext]_sessVars

----------------------------------------------------------------------------
(* The state is well typed, a set of revoked tokens that has a time to     *)
(* live is not empty and has some of it left, and the two guards that know *)
(* agents agree on their keys.                                             *)
SessionsTypeOK ==
    /\ clock \in 0..MaxNow
    /\ user \in [Users -> [role : Roles, active : BOOLEAN] \cup {Absent}]
    /\ token \in [Tokens -> [user : Users, role : Roles, at : 0..MaxNow] \cup {Unissued}]
    /\ revoked \subseteq Tokens
    /\ expiry = Never \/ (expiry \in Nat /\ expiry > clock /\ revoked # {})
    /\ key \in [AgentKeys -> {"none", "active", "inactive", "expired"}]
    /\ loggedOut \subseteq Tokens
    /\ stood \in [Users -> [Roles -> 0..MaxNow \cup {Never}]]
    /\ \A k \in AgentKeys : AIAgentAuthMiddleware(k, {"admin:all"}, "any")
                               <=> RequireRole(k, FALSE, {"SUPERADMIN"})

(* A logout that Redis obeyed lasts as long as the token: the token is     *)
(* refused whenever Redis answers, though the one time to live of the set  *)
(* is renewed, or not, by the logouts of others (Logout, AuthenticateJWT). *)
LoggedOutIsRefused ==
    \A t \in loggedOut : ~AuthenticateJWT(t, TRUE)

(* Who is served in the role of a fundraiser or an administrator: by the   *)
(* routes that compare it, by those that do not, by the own profile.       *)
Passes(t, role) ==
    \E answers \in BOOLEAN :
       \/ RequireRole(t, answers, {role})
       \/ token[t] # Unissued /\ token[t].role = role
             /\ (OrgAIAuthMiddleware(t) \/ RequireVisibilityAccess(t) \/ Me(t, answers))

(* No guard serves a token in a role that its user had not had, on an      *)
(* active account, at some time of the last Life hours: what was taken     *)
(* from an account is lost within a day (Login, the guards, RequireRole).  *)
RightsEndWithinADay ==
    \A t \in Tokens, role \in Roles :
        Passes(t, role) => LET last == stood[token[t].user][role]
                           IN  last # Never /\ clock < last + Life
=============================================================================
