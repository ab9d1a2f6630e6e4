---------------------------- MODULE RateLimiter ----------------------------
(***************************************************************************)
(* Request throttling (internal/middleware/rate_limiter.go): a store of    *)
(* fixed windows, one per tenant or per IP, shared by the routes' limits,  *)
(* with a mutex on the store, one on each window, and a goroutine that     *)
(* removes idle windows.  TenantRateLimit and IPRateLimit are the same     *)
(* code over two stores; this is one of them.                              *)
(***************************************************************************)
EXTENDS Integers, FiniteSetsExt

CONSTANTS
    Keys,           \* tenants or IPs
    Requests,       \* goroutines serving requests
    Limits,         \* the limits of the routes that share the store
    Windows,        \* bound: addresses of window objects
    None,           \* no address
    Window,         \* windowDuration
    IdleAge,        \* age at which the clean-up removes a window (15 minutes)
    SweepPeriod,    \* period of the clean-up's ticker (10 minutes)
    MaxTime         \* bound: the last clock reading explored

Times == 0..MaxTime

ASSUME LimiterAssumption ==
    /\ Limits \subseteq Nat \ {0} /\ IsFiniteSet(Limits) /\ Limits # {}
    /\ IsFiniteSet(Requests) /\ None \notin Windows
    /\ Window \in Nat \ {0} /\ IdleAge \in Nat /\ IdleAge >= Window
    /\ SweepPeriod \in Nat /\ MaxTime \in Nat

VARIABLES
    now,
    store,      \* the map from keys to windows
    windows,    \* windowStart and count of each object
    request,    \* where each request is
    sweep,      \* the clean-up: the time it read, the entries it has left
    swept,      \* when the clean-up last started
    admitted,   \* history: the admissions of each key, by clock reading and number
    stray       \* history: requests that held a window when it was removed

vars == <<now, store, windows, request, sweep, swept, admitted, stray>>

Idle == [pc |-> "idle"]
Fresh == [start |-> now, count |-> 0]

Init ==
    /\ now = 0
    /\ store = [k \in Keys |-> None]
    /\ windows = [w \in Windows |-> [start |-> 0, count |-> 0]]
    /\ request = [r \in Requests |-> Idle]
    /\ sweep = Idle
    /\ swept = 0
    /\ admitted = [k \in Keys |-> {}]
    /\ stray = [k \in Keys |-> 0]

(* Holders of the two kinds of mutex.                                      *)
StoreLocked == sweep # Idle

(* Mutant of WindowLocked: no mutex on the windows.                        *)
NeverLocked(w) == FALSE

WindowLocked(w) == \E r \in Requests : request[r].pc = "inside" /\ request[r].window = w

(* A window that neither the map nor a request points to is free memory.   *)
Pointing == {r \in Requests : request[r].pc \in {"waiting", "inside"}}
Reachable == {store[k] : k \in Keys} \cup {request[r].window : r \in Pointing}

----------------------------------------------------------------------------
Holding(k, limit, w) == [pc |-> "waiting", key |-> k, limit |-> limit, window |-> w]

(* A request to a route with this limit finds or makes its window under    *)
(* the mutex of the store, and keeps the pointer after it has unlocked it. *)
Lookup(r, k, limit) ==
    /\ request[r] = Idle /\ ~StoreLocked
    /\ LET w == CHOOSE free \in Windows : free \notin Reachable
       IN  \/ /\ store[k] # None
              /\ request' = [request EXCEPT ![r] = Holding(k, limit, store[k])]
              /\ UNCHANGED <<store, windows>>
           \/ /\ store[k] = None /\ Windows \ Reachable # {}
              /\ store' = [store EXCEPT ![k] = w]
              /\ windows' = [windows EXCEPT ![w] = Fresh]
              /\ request' = [request EXCEPT ![r] = Holding(k, limit, w)]
    /\ UNCHANGED <<now, sweep, swept, admitted, stray>>

(* It locks the window, reads the clock, and starts the window anew when   *)
(* it has expired.                                                         *)
(* Mutant of Expired: the comparison turned round.                         *)
StillRunning(w) == now - windows[w].start <= Window

Expired(w) == now - windows[w].start > Window

(* Mutant of Renewed: the count survives.                                  *)
CountKept(w) == [start |-> now, count |-> windows[w].count]

Renewed(w) == Fresh

EnterWindow(r) ==
    /\ request[r].pc = "waiting" /\ ~WindowLocked(request[r].window)
    /\ LET w == request[r].window
       IN  /\ windows' = IF Expired(w) THEN [windows EXCEPT ![w] = Renewed(w)] ELSE windows
           /\ request' = [request EXCEPT ![r] =
                             [pc |-> "inside", key |-> @.key, limit |-> @.limit,
                              window |-> w, at |-> now]]
    /\ UNCHANGED <<now, store, sweep, swept, admitted, stray>>

(* Admissions of a key with the same clock reading are numbered.           *)
AdmittedAt(k, t) == {a \in admitted[k] : a.at = t}
Admission(k, t) == [at |-> t, nth |-> Cardinality(AdmittedAt(k, t)) + 1]

(* It is refused if its route's limit is reached, else counted and served. *)
Full(r) == windows[request[r].window].count >= request[r].limit

Reject(r) ==
    /\ request[r].pc = "inside" /\ Full(r)
    /\ request' = [request EXCEPT ![r] = Idle]
    /\ UNCHANGED <<now, store, windows, sweep, swept, admitted, stray>>

Admit(r) ==
    /\ request[r].pc = "inside" /\ ~Full(r)
    /\ windows' = [windows EXCEPT ![request[r].window].count = @ + 1]
    /\ admitted' = [admitted EXCEPT ![request[r].key] =
                       @ \cup {Admission(request[r].key, request[r].at)}]
    /\ request' = [request EXCEPT ![r] = Idle]
    /\ UNCHANGED <<now, store, sweep, swept, stray>>

----------------------------------------------------------------------------
(* The clean-up holds the mutex of the store from its first entry to its   *)
(* last and locks each window in turn; it compares with the time it began. *)
StartSweep ==
    /\ ~StoreLocked /\ now >= swept + SweepPeriod
    /\ sweep' = [pc |-> "sweeping", time |-> now, left |-> {k \in Keys : store[k] # None}]
    /\ swept' = now
    /\ UNCHANGED <<now, store, windows, request, admitted, stray>>

Old(w, time) == time - windows[w].start > IdleAge
Holders(w) == {r \in Pointing : request[r].window = w}

SweepEntry(k) ==
    /\ StoreLocked /\ k \in sweep.left /\ ~WindowLocked(store[k])
    /\ \/ /\ Old(store[k], sweep.time)
          /\ store' = [store EXCEPT ![k] = None]
          /\ stray' = [stray EXCEPT ![k] = @ + Cardinality(Holders(store[k]))]
       \/ ~Old(store[k], sweep.time) /\ UNCHANGED <<store, stray>>
    /\ sweep' = [sweep EXCEPT !.left = @ \ {k}]
    /\ UNCHANGED <<now, windows, request, swept, admitted>>

EndSweep ==
    /\ StoreLocked /\ sweep.left = {}
    /\ sweep' = Idle
    /\ UNCHANGED <<now, store, windows, request, swept, admitted, stray>>

Tick ==
    /\ now < MaxTime /\ now' = now + 1
    /\ UNCHANGED <<store, windows, request, sweep, swept, admitted, stray>>

Next ==
    \/ \E r \in Requests :
          \/ \E k \in Keys, limit \in Limits : Lookup(r, k, limit)
          \/ EnterWindow(r) \/ Reject(r) \/ Admit(r)
    \/ StartSweep \/ (\E k \in Keys : SweepEntry(k)) \/ EndSweep
    \/ Tick

Spec == Init /\ [][Next]_vars

----------------------------------------------------------------------------
RequestState ==
    {Idle}
    \cup [pc: {"waiting"}, key: Keys, limit: Limits, window: Windows]
    \cup [pc: {"inside"}, key: Keys, limit: Limits, window: Windows, at: Times]

(* Type invariant.  A window is locked by at most one request, and belongs *)
(* to one key.                                                             *)
Owns(k, w) == \/ store[k] = w
              \/ \E r \in Pointing : request[r].window = w /\ request[r].key = k

TypeOK ==
    /\ now \in Times
    /\ store \in [Keys -> Windows \cup {None}]
    /\ windows \in [Windows -> [start: Times, count: Nat]]
    /\ request \in [Requests -> RequestState]
    /\ sweep \in {Idle} \cup [pc: {"sweeping"}, time: Times, left: SUBSET Keys]
    /\ swept \in Times
    /\ admitted \in [Keys -> SUBSET [at: Times, nth: Nat]]
    /\ stray \in [Keys -> Nat]
    /\ \A k, l \in Keys, w \in Windows : Owns(k, w) /\ Owns(l, w) => k = l
    /\ \A q, r \in Requests :
          /\ request[q].pc = "inside" /\ request[r].pc = "inside"
          /\ request[q].window = request[r].window
          => q = r

(* The requests of a key that were admitted in a span of time.             *)
AdmittedIn(k, from, to) ==
    Cardinality({a \in admitted[k] : from <= a.at /\ a.at <= to})

(* A tenant is refused only after as many requests of its own, whatever    *)
(* their route, were admitted within windowDuration, also when its window  *)
(* was removed or started anew in between.                                 *)
NoFalseRejection ==
    \A r \in Requests :
       Reject(r) => AdmittedIn(request[r].key, request[r].at - Window, request[r].at)
                        >= request[r].limit

(* What the limiter really enforces in any span of windowDuration: the     *)
(* largest limit twice, because a new window may start within the span,    *)
(* and one more for each request that held the address of a window which   *)
(* the clean-up removed, and so counted where nobody else does.            *)
SpanBound ==
    \A k \in Keys, t \in Times :
        AdmittedIn(k, t, t + Window) <= 2 * Max(Limits) + stray[k]
=============================================================================
