---------------------------- MODULE LimitsProofs ----------------------------
(***************************************************************************)
(* What is counted in time: the invariants of the request limiter and of   *)
(* the control of the agents, for every number of keys, requests, contexts *)
(* and runs, every limit, window, cost and cap and every precision of the  *)
(* clock. ServicesProofs says of the running services what is proved here. *)
(***************************************************************************)
EXTENDS RateLimiter, AgentControl, FiniteSetTheorems, TLAPS

----------------------------------------------------------------------------
(* RateLimiter: what was admitted is numbered, so that the admissions of a *)
(* span can be counted by the difference of two numbers; a set of natural  *)
(* numbers has a least member, which the induction over those numbers      *)
(* rests on.                                                               *)

LEMMA Least ==
    ASSUME NEW T, T \subseteq Nat, T # {}
    PROVE  \E x \in T : \A y \in T : x <= y
<1>1. PICK b \in T : TRUE
  OBVIOUS
<1> DEFINE S == 0..b
           F == {0..y : y \in T \cap S}
<1>2. IsFiniteSet(S)
  BY FS_Interval
<1>3. IsWellFoundedOn(StrictSubsetOrdering(S), FiniteSubsetsOf(S))
  BY FS_StrictSubsetOrderingWellFounded
<1>4. F \subseteq FiniteSubsetsOf(S)
  BY <1>2, FS_Subset DEF FiniteSubsetsOf
<1>5. F # {}
  BY <1>1
<1>6. \E x \in F : \A y \in F : ~ (<<y, x>> \in StrictSubsetOrdering(S))
  <2> HIDE DEF F, S
  <2> QED
    BY <1>3, <1>4, <1>5, WFMin
<1>7. PICK m \in T \cap S : \A y \in T \cap S : ~ (<<0..y, 0..m>> \in StrictSubsetOrdering(S))
  BY <1>6
<1>8. ASSUME NEW y \in T \cap S, y < m
      PROVE  FALSE
  <2>1. 0..y \subseteq 0..m /\ 0..m \subseteq S /\ m \notin 0..y /\ m \in 0..m
    BY <1>8
  <2>2. <<0..y, 0..m>> \in StrictSubsetOrdering(S)
    <3> HIDE DEF S
    <3>1. (0..y) \in SUBSET S /\ (0..m) \in SUBSET S /\ 0..y # 0..m
      BY <2>1
    <3> QED
      BY <2>1, <3>1 DEF StrictSubsetOrdering
  <2> QED
    BY <1>7, <2>2
<1>9. \A y \in T : y \in S \/ y > b
  BY <1>1
<1> QED
  BY <1>1, <1>7, <1>8, <1>9
LEMMA Induction ==
    ASSUME NEW T, 0 \in T, \A n \in Nat : n \in T => n + 1 \in T
    PROVE  Nat \subseteq T
<1> SUFFICES ASSUME Nat \ T # {}
             PROVE  FALSE
  OBVIOUS
<1>1. PICK m \in Nat \ T : \A y \in Nat \ T : m <= y
  BY Least
<1>2. m # 0 /\ m - 1 \in Nat /\ (m - 1) + 1 = m
  BY <1>1
<1>3. m - 1 \notin T => m - 1 \in Nat \ T
  BY <1>2
<1>4. ~ (m <= m - 1)
  BY <1>1
<1> QED
  BY <1>1, <1>2, <1>3, <1>4
LEMMA LargestIs ==
    ASSUME NEW L, IsFiniteSet(L), L \subseteq Nat, L # {}
    PROVE  \E x \in L : \A y \in L : y <= x
<1> DEFINE Has(n) == \A K : IsFiniteSet(K) /\ Cardinality(K) = n /\ K \subseteq Nat /\ K # {}
                               => \E x \in K : \A y \in K : y <= x
           T == {n \in Nat : Has(n)}
<1>1. 0 \in T
  BY FS_EmptySet
<1>2. ASSUME NEW n \in Nat, n \in T
      PROVE  n + 1 \in T
  <2>0. n + 1 \in Nat
    OBVIOUS
  <2> SUFFICES Has(n + 1)
    <3> HIDE DEF Has
    <3> QED
      BY <2>0
  <2> SUFFICES ASSUME NEW K, IsFiniteSet(K), Cardinality(K) = n + 1, K \subseteq Nat, K # {}
               PROVE  \E x \in K : \A y \in K : y <= x
    OBVIOUS
  <2>1. PICK k \in K : TRUE
    OBVIOUS
  <2>2. IsFiniteSet(K \ {k}) /\ Cardinality(K \ {k}) = n
    <3>1. IsFiniteSet(K \ {k}) /\ Cardinality(K \ {k}) = Cardinality(K) - 1
      <4> HIDE DEF T, Has
      <4> QED
        BY <2>1, FS_RemoveElement
    <3> QED
      BY <3>1
  <2>3. CASE K \ {k} = {}
    BY <2>1, <2>3
  <2>4. CASE K \ {k} # {}
    <3>1. PICK x \in K \ {k} : \A y \in K \ {k} : y <= x
      BY <1>2, <2>2, <2>4
    <3>2. CASE x <= k
      <4>1. \A y \in K : y <= k
        BY <2>1, <3>1, <3>2
      <4> QED
        BY <2>1, <4>1
    <3>3. CASE ~(x <= k)
      <4>1. \A y \in K : y <= x
        BY <2>1, <3>1, <3>3
      <4> QED
        BY <3>1, <4>1
    <3> QED
      BY <3>2, <3>3
  <2> QED
    BY <2>3, <2>4
<1>3. Nat \subseteq T
  <2> HIDE DEF T
  <2> QED
    BY <1>1, <1>2, Induction
<1>4. Cardinality(L) \in Nat
  BY FS_CardinalityType
<1> QED
  BY <1>3, <1>4
----------------------------------------------------------------------------
MaxLimit == Max(Limits)

LEMMA LimiterConstants ==
    /\ MaxLimit \in Nat /\ \A l \in Limits : l <= MaxLimit /\ l \in Nat \ {0}
    /\ Window \in Nat /\ IdleAge \in Nat /\ IdleAge >= Window /\ MaxTime \in Nat
    /\ IsFiniteSet(Requests) /\ None \notin Windows
    /\ \A t \in Times : t \in Nat
<1>1. \E x \in Limits : \A y \in Limits : y <= x
  BY LargestIs, LimiterAssumption
<1>2. \E x \in Limits : \A y \in Limits : x >= y
  BY <1>1, LimiterAssumption
<1>3. MaxLimit \in Limits /\ \A y \in Limits : MaxLimit >= y
  BY <1>2 DEF MaxLimit, Max
<1> QED
  BY <1>3, LimiterAssumption DEF Times

(* The admissions of a key since a time, and in a span of time.            *)
Since(k, t) == {a \in admitted[k] : t <= a.at}
Within(k, t, u) == {a \in admitted[k] : t <= a.at /\ a.at <= u}
NSince(k, t) == Cardinality(Since(k, t))
NWithin(k, t, u) == Cardinality(Within(k, t, u))

(* The requests of a key that hold a window the map does not point to.     *)
Strays(k) == {r \in Pointing : request[r].key = k /\ request[r].window # store[k]}
Spent(k) == stray[k] - Cardinality(Strays(k))

LimiterTypes ==
    /\ now \in Times
    /\ store \in [Keys -> Windows \cup {None}]
    /\ windows \in [Windows -> [start: Times, count: Nat]]
    /\ request \in [Requests -> RequestState]
    /\ sweep \in {Idle} \cup [pc: {"sweeping"}, time: Times, left: SUBSET Keys]
    /\ swept \in Times
    /\ admitted \in [Keys -> SUBSET [at: Times, nth: Nat]]
    /\ stray \in [Keys -> Nat]

OneOwner == \A k, l \in Keys, w \in Windows : Owns(k, w) /\ Owns(l, w) => k = l
OneInside ==
    \A q, r \in Requests :
       /\ request[q].pc = "inside" /\ request[r].pc = "inside"
       /\ request[q].window = request[r].window
       => q = r

(* Nothing is dated ahead of the clock, and who is inside a window came    *)
(* while it ran.                                                           *)
Clocks ==
    /\ \A w \in Windows : windows[w].start <= now
    /\ StoreLocked => sweep.time <= now /\ \A k \in sweep.left : store[k] # None
    /\ \A r \in Requests : request[r].pc = "inside" =>
          /\ request[r].at <= now
          /\ windows[request[r].window].start <= request[r].at
          /\ request[r].at <= windows[request[r].window].start + Window

Counting ==
    \A k \in Keys :
       /\ IsFiniteSet(admitted[k])
       /\ \A a \in admitted[k] : a.nth <= Cardinality(AdmittedAt(k, a.at))

(* What a key was admitted, as long as it has a window: since the window   *)
(* began what the window counts, before that what one more window can      *)
(* count, and beyond what strays had.                                      *)
InWindow(k, s, c) ==
    /\ c <= MaxLimit
    /\ NSince(k, s) <= c + Spent(k)
    /\ \A t \in Times : t >= s - Window => NSince(k, t) <= MaxLimit + c + Spent(k)
    /\ NSince(k, s + Window + 1) <= Spent(k)
OutOfWindow(k) ==
    /\ NSince(k, now) <= Spent(k)
    /\ \A t \in Times : t >= now - Window => NSince(k, t) <= MaxLimit + Spent(k)
Spans(k) == \A t \in Times : NWithin(k, t, t + Window) <= 2 * MaxLimit + Spent(k)

KeyBound(k) ==
    /\ store[k] # None => InWindow(k, windows[store[k]].start, windows[store[k]].count)
    /\ store[k] = None => OutOfWindow(k)
    /\ Spans(k)

(* A window never counts more than its key was admitted since it began.    *)
Counted ==
    /\ \A k \in Keys, w \in Windows :
          Owns(k, w) => windows[w].count <= NWithin(k, windows[w].start, now)
    /\ \A r \in Requests : request[r].pc = "inside" =>
          windows[request[r].window].count
             <= NWithin(request[r].key, windows[request[r].window].start, request[r].at)

LimiterInv ==
    /\ LimiterTypes /\ OneOwner /\ OneInside
    /\ Clocks /\ Counting /\ Counted
    /\ \A k \in Keys : KeyBound(k)

LEMMA TypeOKIs == TypeOK <=> LimiterTypes /\ OneOwner /\ OneInside
  BY DEF TypeOK, LimiterTypes, OneOwner, OneInside

----------------------------------------------------------------------------
LEMMA RequestIs ==
    ASSUME LimiterTypes, NEW r \in Requests
    PROVE  /\ request[r] \in RequestState
           /\ r \in Pointing => /\ request[r].key \in Keys /\ request[r].limit \in Limits
                                /\ request[r].window \in Windows
           /\ request[r].pc = "inside" => request[r].at \in Times /\ r \in Pointing
           /\ request[r].pc = "waiting" => r \in Pointing
           /\ request[r] = Idle => r \notin Pointing
  BY DEF LimiterTypes, RequestState, Idle, Pointing

(* Admissions are finite in number, and fewer of them are later.           *)
LEMMA NumbersFrom ==
    ASSUME LimiterTypes, Counting, NEW k \in Keys
    PROVE  /\ \A t : NSince(k, t) \in Nat /\ IsFiniteSet(Since(k, t))
           /\ \A t, u : NWithin(k, t, u) \in Nat /\ IsFiniteSet(Within(k, t, u))
           /\ \A t, u : NWithin(k, t, u) <= NSince(k, t)
           /\ \A t \in Int, u \in Int : t <= u => NSince(k, u) <= NSince(k, t)
           /\ \A t \in Int, u \in Int, v \in Int :
                 u <= v => NWithin(k, t, u) <= NWithin(k, t, v)
<1>1. \A a \in admitted[k] : a.at \in Nat
  BY LimiterConstants DEF LimiterTypes
<1>2. IsFiniteSet(admitted[k])
  BY DEF Counting
<1>3. \A t : Since(k, t) \subseteq admitted[k] /\ \A u : Within(k, t, u) \subseteq Since(k, t)
  BY DEF Since, Within
<1>4. \A t : IsFiniteSet(Since(k, t)) /\ NSince(k, t) \in Nat
  BY <1>2, <1>3, FS_Subset, FS_CardinalityType DEF NSince
<1>5. \A t, u : IsFiniteSet(Within(k, t, u)) /\ NWithin(k, t, u) \in Nat
                /\ NWithin(k, t, u) <= NSince(k, t)
  BY <1>3, <1>4, FS_Subset, FS_CardinalityType DEF NSince, NWithin
<1>6. \A t \in Int, u \in Int : t <= u => Since(k, u) \subseteq Since(k, t)
  BY <1>1 DEF Since
<1>7. \A t \in Int, u \in Int : t <= u => NSince(k, u) <= NSince(k, t)
  BY <1>4, <1>6, FS_Subset DEF NSince
<1>8. \A t \in Int, u \in Int, v \in Int : u <= v => Within(k, t, u) \subseteq Within(k, t, v)
  BY <1>1 DEF Within
<1>9. \A t \in Int, u \in Int, v \in Int : u <= v => NWithin(k, t, u) <= NWithin(k, t, v)
  BY <1>5, <1>8, FS_Subset DEF NWithin
<1> QED
  BY <1>4, <1>5, <1>7, <1>9

LEMMA StraysFinite ==
    \A k \in Keys : IsFiniteSet(Strays(k)) /\ Cardinality(Strays(k)) \in Nat
<1>1. \A k \in Keys : Strays(k) \subseteq Requests
  BY DEF Strays, Pointing
<1> QED
  BY <1>1, LimiterConstants, FS_Subset, FS_CardinalityType

LEMMA SpentIs == LimiterTypes => \A k \in Keys : Spent(k) \in Int /\ Spent(k) <= stray[k]
  BY StraysFinite DEF Spent, LimiterTypes

----------------------------------------------------------------------------
LEMMA LimiterInvInit == Init => LimiterInv
<1> SUFFICES ASSUME Init
             PROVE  LimiterInv
  OBVIOUS
<1>1. 0 \in Times
  BY LimiterConstants DEF Times
<1>2. LimiterTypes
  BY <1>1 DEF Init, LimiterTypes, RequestState
<1>3. Pointing = {}
  BY DEF Init, Pointing, Idle
<1>4. OneOwner /\ OneInside
  BY <1>3, LimiterConstants DEF Init, OneOwner, OneInside, Owns, Idle
<1>5. Clocks /\ Counted
  <2>1. \A r \in Requests : request[r].pc # "inside"
    BY DEF Init, Idle
  <2>2. \A k \in Keys, w \in Windows : ~Owns(k, w)
    BY <1>3, LimiterConstants DEF Init, Owns
  <2> QED
    BY <2>1, <2>2 DEF Init, Clocks, Counted, StoreLocked
<1>6. Counting
  BY FS_EmptySet DEF Init, Counting
<1>7. ASSUME NEW k \in Keys
      PROVE  KeyBound(k)
  <2>1. \A t : NSince(k, t) = 0 /\ \A u : NWithin(k, t, u) = 0
    <3>1. \A t : Since(k, t) = {} /\ \A u : Within(k, t, u) = {}
      BY DEF Init, Since, Within
    <3> QED
      BY <3>1, FS_EmptySet DEF NSince, NWithin
  <2>2. Spent(k) = 0
    <3>1. Strays(k) = {} /\ stray[k] = 0
      BY <1>3 DEF Strays, Init
    <3> QED
      BY <3>1, FS_EmptySet DEF Spent
  <2>3. store[k] = None
    BY DEF Init
  <2> QED
    BY <2>1, <2>2, <2>3, LimiterConstants DEF KeyBound, OutOfWindow, Spans
<1> QED
  BY <1>2, <1>4, <1>5, <1>6, <1>7 DEF LimiterInv

----------------------------------------------------------------------------
(* A step that admits nobody of a key and leaves its window alone may only *)
(* use up strays.                                                          *)
LEMMA QuietKey ==
    ASSUME LimiterTypes, Counting, NEW k \in Keys, KeyBound(k),
           now' = now, admitted'[k] = admitted[k], store'[k] = store[k],
           store[k] # None => windows'[store[k]] = windows[store[k]],
           Spent(k)' \in Int, Spent(k) <= Spent(k)'
    PROVE  KeyBound(k)'
<1>1. /\ \A t : NSince(k, t)' = NSince(k, t) /\ NSince(k, t) \in Nat
      /\ \A t, u : NWithin(k, t, u)' = NWithin(k, t, u) /\ NWithin(k, t, u) \in Nat
  BY NumbersFrom DEF NSince, NWithin, Since, Within
<1>2. Spent(k) \in Int /\ MaxLimit \in Nat
  BY SpentIs, LimiterConstants
<1>3. store[k] # None => /\ windows[store[k]].start \in Nat /\ windows[store[k]].count \in Nat
  BY LimiterConstants DEF LimiterTypes
<1>4. \A s, c \in Nat : InWindow(k, s, c) => InWindow(k, s, c)'
  BY <1>1, <1>2 DEF InWindow
<1>5. OutOfWindow(k) => OutOfWindow(k)'
  BY <1>1, <1>2 DEF OutOfWindow
<1>6. Spans(k) => Spans(k)'
  BY <1>1, <1>2, LimiterConstants DEF Spans
<1> QED
  BY <1>3, <1>4, <1>5, <1>6 DEF KeyBound, InWindow

(* What stays when nobody is admitted and the clock stands still.          *)
LEMMA SameAdmissions ==
    ASSUME Counting, UNCHANGED <<now, admitted>>
    PROVE  /\ Counting'
           /\ \A k, t, u : NWithin(k, t, u)' = NWithin(k, t, u)
           /\ \A k, t : NSince(k, t)' = NSince(k, t)
  BY DEF Counting, AdmittedAt, NWithin, Within, NSince, Since

LEMMA SpentSame ==
    ASSUME LimiterTypes, NEW k \in Keys, Strays(k)' = Strays(k), stray'[k] = stray[k]
    PROVE  Spent(k)' = Spent(k) /\ Spent(k) \in Int
  BY SpentIs DEF Spent

LEMMA LookupStep ==
    ASSUME LimiterInv, NEW r \in Requests, NEW k \in Keys, NEW limit \in Limits,
           Lookup(r, k, limit)
    PROVE  LimiterInv'
<1> USE DEF LimiterInv
<1>1. PICK w \in Windows :
        /\ request' = [request EXCEPT ![r] = Holding(k, limit, w)]
        /\ store'[k] = w
        /\ \A l \in Keys : l # k => store'[l] = store[l]
        /\ \/ store[k] = w /\ UNCHANGED <<store, windows>>
           \/ /\ store[k] = None /\ w \notin Reachable
              /\ store' = [store EXCEPT ![k] = w] /\ windows' = [windows EXCEPT ![w] = Fresh]
  <2> DEFINE free == CHOOSE f \in Windows : f \notin Reachable
  <2>1. Windows \ Reachable # {} => free \in Windows /\ free \notin Reachable
    OBVIOUS
  <2>2. CASE store[k] # None /\ request' = [request EXCEPT ![r] = Holding(k, limit, store[k])]
             /\ UNCHANGED <<store, windows>>
    BY <2>2 DEF LimiterTypes
  <2>3. CASE /\ store[k] = None /\ Windows \ Reachable # {}
             /\ store' = [store EXCEPT ![k] = free]
             /\ windows' = [windows EXCEPT ![free] = Fresh]
             /\ request' = [request EXCEPT ![r] = Holding(k, limit, free)]
    <3> HIDE DEF free
    <3> QED
      BY <2>1, <2>3 DEF LimiterTypes
  <2> QED
    BY <2>2, <2>3 DEF Lookup
<1>2. /\ request[r] = Idle /\ ~StoreLocked
      /\ UNCHANGED <<now, sweep, swept, admitted, stray>>
  BY DEF Lookup
<1>3. /\ r \notin Pointing /\ Pointing' = Pointing \cup {r}
      /\ request'[r] = Holding(k, limit, w)
      /\ \A q \in Requests : q # r => request'[q] = request[q]
  <2>1. request'[r] = Holding(k, limit, w) /\ \A q \in Requests : q # r => request'[q] = request[q]
    BY <1>1 DEF LimiterTypes
  <2> QED
    BY <1>2, <2>1 DEF Pointing, Holding, Idle
<1>4. LimiterTypes'
  <2>1. Holding(k, limit, w) \in RequestState
    BY DEF Holding, RequestState
  <2>2. Fresh \in [start: Times, count: Nat]
    BY DEF Fresh, LimiterTypes
  <2> QED
    BY <1>1, <1>2, <2>1, <2>2 DEF LimiterTypes
<1>5. \A l \in Keys, v \in Windows : Owns(l, v)' => Owns(l, v) \/ (l = k /\ v = w)
  BY <1>1, <1>3 DEF Owns, Holding
<1>6. w \in Reachable \/ \A l \in Keys : ~Owns(l, w)
  BY DEF Owns, Reachable
<1>7. OneOwner'
  <2>1. \A l \in Keys : Owns(l, w) => l = k
    BY <1>1, <1>6 DEF OneOwner, Owns
  <2> QED
    BY <1>5, <2>1 DEF OneOwner
<1>8. OneInside'
  BY <1>3 DEF OneInside, Holding
<1>9. \A q \in Requests : request'[q].pc = "inside" =>
         /\ request'[q] = request[q] /\ windows'[request[q].window] = windows[request[q].window]
  <2>1. \A q \in Requests : request'[q].pc = "inside" => request'[q] = request[q] /\ q \in Pointing
    BY <1>3, RequestIs DEF Holding
  <2>2. \A q \in Pointing : request[q].window \in Reachable /\ request[q].window \in Windows
    BY RequestIs DEF Reachable, Pointing
  <2> QED
    BY <1>1, <2>1, <2>2 DEF LimiterTypes
<1>10. \A v \in Windows : windows'[v] = windows[v] \/ windows'[v] = Fresh
  BY <1>1 DEF LimiterTypes
<1>11. Clocks'
  <2>1. \A v \in Windows : windows'[v].start <= now
    BY <1>10, LimiterConstants DEF Clocks, Fresh, LimiterTypes
  <2> QED
    BY <1>2, <1>9, <2>1 DEF Clocks, StoreLocked
<1>12. Counted'
  <2>1. ASSUME NEW l \in Keys, NEW v \in Windows, Owns(l, v)'
        PROVE  windows'[v].count <= NWithin(l, windows'[v].start, now)
    <3>1. CASE windows'[v] = windows[v] /\ Owns(l, v)
      BY <3>1 DEF Counted
    <3>2. CASE windows'[v] = Fresh
      BY <3>2, NumbersFrom DEF Fresh
    <3>3. windows'[v] = Fresh \/ (windows'[v] = windows[v] /\ Owns(l, v))
      BY <1>1, <1>5, <2>1 DEF Owns, LimiterTypes
    <3> QED
      BY <3>1, <3>2, <3>3
  <2> QED
    BY <1>2, <1>9, <2>1, SameAdmissions DEF Counted
<1>13. ASSUME NEW l \in Keys
       PROVE  Strays(l)' = Strays(l)
  <2>1. r \notin Strays(l)'
    BY <1>1, <1>3 DEF Strays, Holding
  <2>2. \A q \in Pointing : request[q].key = k => (request[q].window # store[k] <=> request[q].window # w)
    BY <1>1, RequestIs, LimiterConstants DEF Reachable, Pointing
  <2> QED
    BY <1>1, <1>3, <2>1, <2>2 DEF Strays
<1>14. ASSUME NEW l \in Keys
       PROVE  KeyBound(l)'
  <2>1. Spent(l)' = Spent(l) /\ Spent(l) \in Int
    BY <1>2, <1>13, SpentSame
  <2>2. CASE l # k \/ store[k] = w
    <3>1. store[l] # None => windows'[store[l]] = windows[store[l]]
      BY <1>1, <2>2 DEF Reachable, LimiterTypes
    <3> QED
      BY <1>1, <1>2, <2>1, <2>2, <3>1, QuietKey
  <2>3. CASE l = k /\ store[k] = None
    <3>1. windows'[w].start = now /\ windows'[w].count = 0 /\ store'[k] = w
      BY <1>1, <2>3, LimiterConstants DEF LimiterTypes, Fresh
    <3>2. OutOfWindow(k) /\ Spans(k)
      BY <2>3 DEF KeyBound
    <3>3. InWindow(k, now, 0)
      BY <2>1, <2>3, <3>2, NumbersFrom, LimiterConstants DEF OutOfWindow, InWindow, LimiterTypes
    <3>4. InWindow(k, now, 0)' /\ Spans(k)'
      BY <1>2, <2>1, <2>3, <3>2, <3>3, SameAdmissions DEF InWindow, Spans
    <3> QED
      BY <1>1, <1>2, <2>3, <3>1, <3>4, LimiterConstants DEF KeyBound, InWindow
  <2> QED
    BY <1>1, <2>2, <2>3
<1> QED
  BY <1>2, <1>4, <1>7, <1>8, <1>11, <1>12, <1>14, SameAdmissions

LEMMA EnterStep ==
    ASSUME LimiterInv, NEW r \in Requests, EnterWindow(r)
    PROVE  LimiterInv'
<1> USE DEF LimiterInv
<1> DEFINE w == request[r].window
           k == request[r].key
           inside == [pc |-> "inside", key |-> k, limit |-> request[r].limit,
                      window |-> w, at |-> now]
<1>1. /\ r \in Pointing /\ k \in Keys /\ w \in Windows /\ request[r].limit \in Limits
      /\ request[r].pc = "waiting"
  BY RequestIs DEF EnterWindow
<1>2. /\ request' = [request EXCEPT ![r] = inside]
      /\ windows' = IF Expired(w) THEN [windows EXCEPT ![w] = Fresh] ELSE windows
      /\ ~WindowLocked(w)
      /\ UNCHANGED <<now, store, sweep, swept, admitted, stray>>
  BY DEF EnterWindow, Renewed
<1>3. /\ Pointing' = Pointing /\ request'[r] = inside
      /\ \A q \in Requests : q # r => request'[q] = request[q]
      /\ \A q \in Pointing : request'[q].key = request[q].key /\ request'[q].window = request[q].window
  BY <1>1, <1>2 DEF LimiterTypes, Pointing
<1>4. LimiterTypes'
  <2>1. inside \in RequestState
    BY <1>1 DEF RequestState, LimiterTypes
  <2>2. Fresh \in [start: Times, count: Nat]
    BY DEF Fresh, LimiterTypes
  <2> HIDE DEF w, k, inside
  <2> QED
    BY <1>1, <1>2, <2>1, <2>2 DEF LimiterTypes
<1>5. \A l \in Keys, v \in Windows : Owns(l, v)' <=> Owns(l, v)
  BY <1>2, <1>3 DEF Owns
<1>6. OneOwner'
  BY <1>5 DEF OneOwner
<1>7. \A q \in Requests : request'[q].pc = "inside" /\ q # r =>
         request'[q] = request[q] /\ request[q].window # w
  BY <1>2, <1>3 DEF WindowLocked
<1>8. OneInside'
  BY <1>3, <1>7 DEF OneInside
<1>9. /\ \A v \in Windows : v # w => windows'[v] = windows[v]
      /\ windows[w].start \in Nat /\ windows[w].count \in Nat /\ now \in Nat
      /\ windows[w].start <= now
      /\ \/ now - windows[w].start > Window /\ windows'[w].start = now /\ windows'[w].count = 0
         \/ now - windows[w].start <= Window /\ windows'[w] = windows[w]
  <2>1. windows[w].start \in Nat /\ windows[w].count \in Nat /\ now \in Nat /\ windows[w].start <= now
    BY <1>1, LimiterConstants DEF LimiterTypes, Clocks
  <2>2. Expired(w) <=> now - windows[w].start > Window
    BY DEF Expired
  <2>3. \A v \in Windows : windows'[v] = IF Expired(w) /\ v = w THEN Fresh ELSE windows[v]
    BY <1>1, <1>2 DEF LimiterTypes
  <2> HIDE DEF w
  <2> QED
    BY <1>1, <2>1, <2>2, <2>3, LimiterConstants DEF Fresh
<1>10. Clocks'
  <2>1. \A v \in Windows : windows'[v].start <= now
    BY <1>9 DEF Clocks
  <2>2. windows'[w].start <= now /\ now <= windows'[w].start + Window
    BY <1>9, LimiterConstants
  <2>3. ASSUME NEW q \in Requests, request'[q].pc = "inside"
        PROVE  /\ request'[q].at <= now
               /\ windows'[request'[q].window].start <= request'[q].at
               /\ request'[q].at <= windows'[request'[q].window].start + Window
    <3>1. CASE q = r
      BY <1>3, <1>9, <2>2, <3>1
    <3>2. CASE q # r
      BY <1>7, <1>9, <2>3, <3>2, RequestIs DEF Clocks
    <3> QED
      BY <3>1, <3>2
  <2> QED
    BY <1>2, <2>1, <2>3 DEF Clocks, StoreLocked
<1>11. \A l \in Keys, v \in Windows : Owns(l, v) => windows'[v].count <= NWithin(l, windows'[v].start, now)
  BY <1>9, NumbersFrom DEF Counted
<1>12. Counted'
  <2>1. Owns(k, w)
    BY <1>1 DEF Owns
  <2>2. ASSUME NEW q \in Requests, request'[q].pc = "inside"
        PROVE  windows'[request'[q].window].count
                 <= NWithin(request'[q].key, windows'[request'[q].window].start, request'[q].at)
    <3>1. CASE q = r
      BY <1>1, <1>3, <1>11, <2>1, <3>1
    <3>2. CASE q # r
      BY <1>7, <1>9, <2>2, <3>2, RequestIs DEF Counted
    <3> QED
      BY <3>1, <3>2
  <2> QED
    BY <1>2, <1>5, <1>11, <2>2, SameAdmissions DEF Counted
<1>13. ASSUME NEW l \in Keys
       PROVE  KeyBound(l)'
  <2>1. Spent(l)' = Spent(l) /\ Spent(l) \in Int
    <3>1. Strays(l)' = Strays(l)
      BY <1>2, <1>3 DEF Strays
    <3> QED
      BY <1>2, <3>1, SpentSame
  <2>2. CASE store[l] = w /\ now - windows[w].start > Window
    <3> DEFINE s == windows[w].start
               c == windows[w].count
    <3>1. s \in Nat /\ c \in Nat /\ now \in Nat /\ now > s + Window
      BY <1>9, <2>2, LimiterConstants
    <3>2. InWindow(l, s, c) /\ Spans(l)
      BY <1>1, <2>2, LimiterConstants DEF KeyBound
    <3>3. \A t \in Times : t \in Int
      BY LimiterConstants
    <3>4. NSince(l, now) <= NSince(l, s + Window + 1) /\ NSince(l, now + Window + 1) <= NSince(l, s + Window + 1)
          /\ \A t \in Times : t >= now - Window => NSince(l, t) <= NSince(l, s)
      <4> HIDE DEF s, c
      <4> QED
        BY <3>1, <3>3, NumbersFrom, LimiterConstants
    <3>5. InWindow(l, now, 0)
      <4>1. \A t : NSince(l, t) \in Nat
        BY NumbersFrom
      <4>2. c <= MaxLimit /\ NSince(l, s) <= c + Spent(l) /\ NSince(l, s + Window + 1) <= Spent(l)
        BY <3>2 DEF InWindow
      <4> HIDE DEF s, c
      <4> QED
        BY <2>1, <3>1, <3>4, <4>1, <4>2, LimiterConstants DEF InWindow
    <3>6. InWindow(l, now, 0)' /\ Spans(l)'
      BY <1>2, <2>1, <3>2, <3>5, SameAdmissions DEF InWindow, Spans
    <3>7. windows'[w].start = now /\ windows'[w].count = 0 /\ store'[l] = w
      BY <1>2, <1>9, <2>2, LimiterConstants
    <3> QED
      BY <1>1, <1>2, <3>6, <3>7, LimiterConstants DEF KeyBound, InWindow
  <2>3. CASE ~(store[l] = w /\ now - windows[w].start > Window)
    <3>1. store[l] # None => windows'[store[l]] = windows[store[l]]
      BY <1>9, <2>3 DEF LimiterTypes
    <3> QED
      BY <1>2, <2>1, <3>1, QuietKey
  <2> QED
    BY <2>2, <2>3
<1> QED
  BY <1>2, <1>4, <1>6, <1>8, <1>10, <1>12, <1>13, SameAdmissions

(* A request that leaves may use up a stray.                               *)
LEMMA StraysLeave ==
    ASSUME LimiterTypes, NEW r \in Requests, NEW l \in Keys,
           request' = [request EXCEPT ![r] = Idle], store' = store, stray' = stray
    PROVE  /\ Strays(l)' = Strays(l) \ {r}
           /\ Spent(l)' = IF r \in Strays(l) THEN Spent(l) + 1 ELSE Spent(l)
           /\ Spent(l) \in Int /\ Spent(l)' \in Int
<1>1. Strays(l)' = Strays(l) \ {r}
  BY DEF Strays, Pointing, Idle, LimiterTypes
<1>2. IsFiniteSet(Strays(l)) /\ Cardinality(Strays(l)) \in Nat
  BY StraysFinite
<1>3. Cardinality(Strays(l) \ {r}) =
         IF r \in Strays(l) THEN Cardinality(Strays(l)) - 1 ELSE Cardinality(Strays(l))
  BY <1>2, FS_RemoveElement
<1>4. stray[l] \in Nat
  BY DEF LimiterTypes
<1> QED
  BY <1>1, <1>2, <1>3, <1>4 DEF Spent

LEMMA RejectStep ==
    ASSUME LimiterInv, NEW r \in Requests, Reject(r)
    PROVE  LimiterInv'
<1> USE DEF LimiterInv
<1>1. request' = [request EXCEPT ![r] = Idle]
      /\ UNCHANGED <<now, store, windows, sweep, swept, admitted, stray>>
  BY DEF Reject
<1>2. /\ request'[r] = Idle /\ \A q \in Requests : q # r => request'[q] = request[q]
      /\ Pointing' = Pointing \ {r}
  BY <1>1 DEF LimiterTypes, Pointing, Idle
<1>3. LimiterTypes'
  BY <1>1 DEF LimiterTypes, RequestState
<1>4. \A l \in Keys, v \in Windows : Owns(l, v)' => Owns(l, v)
  BY <1>1, <1>2 DEF Owns
<1>5. OneOwner' /\ OneInside'
  BY <1>2, <1>4 DEF OneOwner, OneInside, Idle
<1>6. Clocks'
  BY <1>1, <1>2 DEF Clocks, StoreLocked, Idle
<1>7. Counted'
  <2>0. \A l, t, u : NWithin(l, t, u)' = NWithin(l, t, u)
    BY <1>1, SameAdmissions
  <2>1. ASSUME NEW l \in Keys, NEW v \in Windows, Owns(l, v)'
        PROVE  (windows[v].count <= NWithin(l, windows[v].start, now))'
    <3>1. windows[v].count <= NWithin(l, windows[v].start, now)
      BY <1>4, <2>1 DEF Counted
    <3> QED
      BY <1>1, <2>0, <3>1
  <2>2. ASSUME NEW q \in Requests, (request[q].pc = "inside")'
        PROVE  (windows[request[q].window].count
                  <= NWithin(request[q].key, windows[request[q].window].start, request[q].at))'
    <3>1. request'[q] = request[q]
      BY <1>2, <2>2 DEF Idle
    <3>2. windows[request[q].window].count
             <= NWithin(request[q].key, windows[request[q].window].start, request[q].at)
      BY <2>2, <3>1 DEF Counted
    <3> QED
      BY <1>1, <2>0, <3>1, <3>2
  <2> QED
    BY <2>1, <2>2 DEF Counted
<1>8. ASSUME NEW l \in Keys
      PROVE  KeyBound(l)'
  <2>1. /\ Spent(l)' = Spent(l) + 1 \/ Spent(l)' = Spent(l)
        /\ Spent(l) \in Int /\ Spent(l)' \in Int
    BY <1>1, StraysLeave
  <2>2. Spent(l) <= Spent(l)'
    BY <2>1
  <2> QED
    BY <1>1, <2>1, <2>2, QuietKey
<1> QED
  BY <1>1, <1>3, <1>5, <1>6, <1>7, <1>8, SameAdmissions

(* One admission more, and it is a new one.                                *)
LEMMA NewAdmission ==
    ASSUME LimiterTypes, Counting, NEW k \in Keys, NEW x \in Times,
           admitted' = [admitted EXCEPT ![k] = @ \cup {Admission(k, x)}]
    PROVE  /\ admitted' \in [Keys -> SUBSET [at: Times, nth: Nat]]
           /\ Counting'
           /\ \A l \in Keys : l # k => admitted'[l] = admitted[l]
           /\ \A t \in Int : NSince(k, t)' = IF t <= x THEN NSince(k, t) + 1 ELSE NSince(k, t)
           /\ \A t \in Int, u \in Int :
                 NWithin(k, t, u)' = IF t <= x /\ x <= u THEN NWithin(k, t, u) + 1
                                     ELSE NWithin(k, t, u)
<1> DEFINE a == Admission(k, x)
           n == Cardinality(AdmittedAt(k, x))
<1>1. IsFiniteSet(AdmittedAt(k, x)) /\ n \in Nat
  <2>1. AdmittedAt(k, x) \subseteq admitted[k]
    BY DEF AdmittedAt
  <2> QED
    BY <2>1, FS_Subset, FS_CardinalityType DEF Counting
<1>2. a.at = x /\ a.nth = n + 1 /\ a \in [at: Times, nth: Nat]
  BY <1>1 DEF Admission
<1>3. a \notin admitted[k]
  <2>1. \A b \in admitted[k] : b.at = x => b.nth <= n /\ b.nth \in Nat
    BY DEF Counting, LimiterTypes
  <2> HIDE DEF a, n
  <2> QED
    BY <1>1, <1>2, <2>1
<1>4. /\ admitted'[k] = admitted[k] \cup {a} /\ \A l \in Keys : l # k => admitted'[l] = admitted[l]
      /\ admitted' \in [Keys -> SUBSET [at: Times, nth: Nat]]
  BY <1>2 DEF LimiterTypes
<1> HIDE DEF a
<1>5. /\ AdmittedAt(k, x)' = AdmittedAt(k, x) \cup {a}
      /\ \A t : t = x => Cardinality(AdmittedAt(k, t)') = n + 1
      /\ \A t : t # x => AdmittedAt(k, t)' = AdmittedAt(k, t)
  <2>1. AdmittedAt(k, x)' = AdmittedAt(k, x) \cup {a} /\ a \notin AdmittedAt(k, x)
        /\ \A t : t # x => AdmittedAt(k, t)' = AdmittedAt(k, t)
    BY <1>2, <1>3, <1>4 DEF AdmittedAt
  <2> QED
    BY <1>1, <2>1, FS_AddElement
<1>6. Counting'
  <2>1. IsFiniteSet(admitted'[k])
    BY <1>4, FS_AddElement DEF Counting
  <2>2. \A b \in admitted'[k] : b.nth <= Cardinality(AdmittedAt(k, b.at)')
    <3> SUFFICES ASSUME NEW b \in admitted'[k]
                 PROVE  b.nth <= Cardinality(AdmittedAt(k, b.at)')
      OBVIOUS
    <3>1. CASE b = a
      <4> HIDE DEF n
      <4> QED
        BY <1>1, <1>2, <1>5, <3>1
    <3>2. CASE b \in admitted[k] /\ b.at # x
      BY <1>5, <3>2 DEF Counting
    <3>3. CASE b \in admitted[k] /\ b.at = x
      <4>1. b.nth <= n /\ b.nth \in Nat
        BY <3>3 DEF Counting, LimiterTypes
      <4> HIDE DEF n
      <4> QED
        BY <1>1, <1>5, <3>3, <4>1
    <3> QED
      BY <1>4, <3>1, <3>2, <3>3
  <2>3. \A l \in Keys : l # k => IsFiniteSet(admitted'[l])
                          /\ \A b \in admitted'[l] : b.nth <= Cardinality(AdmittedAt(l, b.at)')
    BY <1>4 DEF Counting, AdmittedAt
  <2> QED
    BY <2>1, <2>2, <2>3 DEF Counting, AdmittedAt
<1>7. ASSUME NEW t \in Int
      PROVE  NSince(k, t)' = IF t <= x THEN NSince(k, t) + 1 ELSE NSince(k, t)
  <2>1. Since(k, t)' = IF t <= x THEN Since(k, t) \cup {a} ELSE Since(k, t)
    BY <1>2, <1>4 DEF Since
  <2>2. a \notin Since(k, t) /\ IsFiniteSet(Since(k, t))
    BY <1>3, NumbersFrom DEF Since
  <2> QED
    BY <2>1, <2>2, FS_AddElement DEF NSince
<1>8. ASSUME NEW t \in Int, NEW u \in Int
      PROVE  NWithin(k, t, u)' = IF t <= x /\ x <= u THEN NWithin(k, t, u) + 1 ELSE NWithin(k, t, u)
  <2>1. Within(k, t, u)' = IF t <= x /\ x <= u THEN Within(k, t, u) \cup {a} ELSE Within(k, t, u)
    BY <1>2, <1>4 DEF Within
  <2>2. a \notin Within(k, t, u) /\ IsFiniteSet(Within(k, t, u))
    BY <1>3, NumbersFrom DEF Within
  <2> QED
    BY <2>1, <2>2, FS_AddElement DEF NWithin
<1> QED
  BY <1>4, <1>6, <1>7, <1>8

LEMMA AdmitAt ==
    ASSUME LimiterInv, NEW r \in Requests, NEW k \in Keys, NEW w \in Windows, NEW limit \in Limits,
           NEW x \in Times, NEW s \in Times, NEW c \in Nat, NEW n \in Times,
           now = n, windows[w] = [start |-> s, count |-> c], c < limit,
           request[r] = [pc |-> "inside", key |-> k, limit |-> limit, window |-> w, at |-> x],
           windows' = [windows EXCEPT ![w] = [start |-> s, count |-> c + 1]],
           admitted' = [admitted EXCEPT ![k] = @ \cup {Admission(k, x)}],
           request' = [request EXCEPT ![r] = Idle],
           UNCHANGED <<now, store, sweep, swept, stray>>
    PROVE  LimiterInv'
<1> USE DEF LimiterInv
<1>1. r \in Pointing /\ request[r].pc = "inside" /\ request[r].window = w /\ request[r].key = k
      /\ request[r].at = x
  BY DEF Pointing
<1>3. /\ s \in Nat /\ x \in Nat /\ n \in Nat /\ s <= x /\ x <= s + Window /\ x <= n
      /\ c + 1 <= MaxLimit
  <2>1. limit <= MaxLimit /\ limit \in Nat
    BY LimiterConstants
  <2>2. s <= x /\ x <= s + Window /\ x <= n
    BY <1>1 DEF Clocks
  <2> QED
    BY <2>1, <2>2, LimiterConstants
<1>4. /\ windows'[w] = [start |-> s, count |-> c + 1]
      /\ \A v \in Windows : v # w => windows'[v] = windows[v]
      /\ windows' \in [Windows -> [start: Times, count: Nat]]
  BY DEF LimiterTypes
<1>5. /\ request'[r] = Idle /\ \A q \in Requests : q # r => request'[q] = request[q]
      /\ Pointing' = Pointing \ {r}
  BY DEF LimiterTypes, Pointing, Idle
<1>6. /\ admitted' \in [Keys -> SUBSET [at: Times, nth: Nat]] /\ Counting'
      /\ \A l \in Keys : l # k => admitted'[l] = admitted[l]
      /\ \A t \in Int : NSince(k, t)' = IF t <= x THEN NSince(k, t) + 1 ELSE NSince(k, t)
      /\ \A t \in Int, u \in Int :
            NWithin(k, t, u)' = IF t <= x /\ x <= u THEN NWithin(k, t, u) + 1 ELSE NWithin(k, t, u)
  BY NewAdmission
<1>7. LimiterTypes'
  BY <1>4, <1>6 DEF LimiterTypes, RequestState
<1>8. \A l \in Keys, v \in Windows : Owns(l, v)' => Owns(l, v)
  BY <1>5 DEF Owns
<1>9. OneOwner' /\ OneInside'
  BY <1>5, <1>8 DEF OneOwner, OneInside, Idle
<1>10. \A q \in Requests : request'[q].pc = "inside" =>
          /\ q # r /\ request'[q] = request[q] /\ request[q].window # w
          /\ windows'[request[q].window] = windows[request[q].window]
  <2>1. \A q \in Requests : request'[q].pc = "inside" => q # r /\ request'[q] = request[q]
    BY <1>5 DEF Idle
  <2>2. \A q \in Requests : request[q].pc = "inside" /\ q # r => request[q].window # w
    BY <1>1 DEF OneInside
  <2>3. \A q \in Requests : request[q].pc = "inside" => request[q].window \in Windows
    BY RequestIs
  <2> QED
    BY <1>4, <2>1, <2>2, <2>3
<1>11. Clocks'
  <2>1. \A v \in Windows : windows'[v].start = windows[v].start
    BY <1>4
  <2> QED
    BY <1>10, <2>1 DEF Clocks, StoreLocked
<1>12. Owns(k, w)
  BY <1>1 DEF Owns
<1>13. \A l \in Keys : \A t \in Int, u \in Int :
          /\ NWithin(l, t, u) <= NWithin(l, t, u)'
          /\ NWithin(l, t, u) \in Nat /\ NWithin(l, t, u)' \in Nat
  <2>1. \A l \in Keys : l # k => \A t, u : NWithin(l, t, u)' = NWithin(l, t, u)
    BY <1>6 DEF NWithin, Within
  <2>2. \A l \in Keys : \A t, u : NWithin(l, t, u) \in Nat
    BY NumbersFrom
  <2>3. ASSUME NEW t \in Int, NEW u \in Int
        PROVE  NWithin(k, t, u) <= NWithin(k, t, u)' /\ NWithin(k, t, u)' \in Nat
    <3>1. NWithin(k, t, u)' = NWithin(k, t, u) + 1 \/ NWithin(k, t, u)' = NWithin(k, t, u)
      BY <1>6
    <3>2. NWithin(k, t, u) \in Nat
      BY <2>2
    <3> QED
      BY <3>1, <3>2
  <2>4. ASSUME NEW l \in Keys, NEW t \in Int, NEW u \in Int
        PROVE  /\ NWithin(l, t, u) <= NWithin(l, t, u)'
               /\ NWithin(l, t, u) \in Nat /\ NWithin(l, t, u)' \in Nat
    <3>1. CASE l = k
      BY <2>2, <2>3, <3>1
    <3>2. CASE l # k
      BY <2>1, <2>2, <3>2
    <3> QED
      BY <3>1, <3>2
  <2> QED
    BY <2>4
<1>14. Counted'
  <2>1. ASSUME NEW l \in Keys, NEW v \in Windows, Owns(l, v)'
        PROVE  (windows[v].count <= NWithin(l, windows[v].start, now))'
    <3>1. PICK b \in Nat, d \in Nat : windows[v].start = b /\ windows[v].count = d
      BY LimiterConstants DEF LimiterTypes
    <3>2. d <= NWithin(l, b, n)
      BY <1>8, <2>1, <3>1 DEF Counted
    <3>3. CASE v = w
      <4>1. l = k /\ b = s /\ d = c
        BY <1>8, <1>12, <2>1, <3>1, <3>3 DEF OneOwner
      <4>2. NWithin(l, b, n)' = NWithin(l, b, n) + 1 /\ NWithin(l, b, n) \in Nat
        BY <1>3, <1>6, <1>13, <4>1
      <4>3. (windows[v].start = b /\ windows[v].count = d + 1 /\ now = n)'
        BY <1>4, <3>3, <4>1
      <4> QED
        BY <3>1, <3>2, <4>2, <4>3
    <3>4. CASE v # w
      <4>1. (windows[v].start = b /\ windows[v].count = d /\ now = n)'
        BY <1>4, <3>1, <3>4
      <4>2. NWithin(l, b, n) <= NWithin(l, b, n)' /\ NWithin(l, b, n) \in Nat /\ NWithin(l, b, n)' \in Nat
        BY <1>3, <1>13, <3>1
      <4> QED
        BY <3>1, <3>2, <4>1, <4>2
    <3> QED
      BY <3>3, <3>4
  <2>2. ASSUME NEW q \in Requests, (request[q].pc = "inside")'
        PROVE  (windows[request[q].window].count
                  <= NWithin(request[q].key, windows[request[q].window].start, request[q].at))'
    <3>1. request'[q] = request[q] /\ request[q].pc = "inside"
          /\ windows'[request[q].window] = windows[request[q].window]
      BY <1>10, <2>2
    <3>2. PICK l \in Keys, v \in Windows, y \in Nat :
            request[q].key = l /\ request[q].window = v /\ request[q].at = y
      BY <3>1, RequestIs, LimiterConstants
    <3>3. PICK b \in Nat, d \in Nat : windows[v].start = b /\ windows[v].count = d
      BY LimiterConstants DEF LimiterTypes
    <3>4. d <= NWithin(l, b, y)
      BY <3>1, <3>2, <3>3 DEF Counted
    <3>5. NWithin(l, b, y) <= NWithin(l, b, y)' /\ NWithin(l, b, y) \in Nat /\ NWithin(l, b, y)' \in Nat
      BY <1>13, <3>2, <3>3
    <3>6. (request[q].key = l /\ request[q].window = v /\ request[q].at = y
            /\ windows[v].start = b /\ windows[v].count = d)'
      BY <3>1, <3>2, <3>3
    <3> QED
      BY <3>3, <3>4, <3>5, <3>6
  <2> QED
    BY <2>1, <2>2 DEF Counted
<1>15. ASSUME NEW l \in Keys, l # k
       PROVE  KeyBound(l)'
  <2>1. Spent(l)' = Spent(l) /\ Spent(l) \in Int
    BY <1>1, <1>15, StraysLeave DEF Strays
  <2>2. store[l] # w
    BY <1>12, <1>15 DEF OneOwner, Owns
  <2>3. store[l] # None => windows'[store[l]] = windows[store[l]]
    BY <1>4, <2>2 DEF LimiterTypes
  <2> QED
    BY <1>6, <1>15, <2>1, <2>3, QuietKey
<1>16. /\ \A t : NSince(k, t) \in Nat /\ \A u : NWithin(k, t, u) \in Nat
       /\ \A t, u : NWithin(k, t, u) <= NSince(k, t)
  BY NumbersFrom
<1>17. \A t \in Times : t \in Nat
  BY LimiterConstants
<1>18. CASE store[k] = w
  <2>1. Spent(k)' = Spent(k) /\ Spent(k) \in Int
    <3>1. r \notin Strays(k)
      BY <1>1, <1>18 DEF Strays
    <3> QED
      BY <3>1, StraysLeave
  <2>2. InWindow(k, s, c) /\ Spans(k)
    BY <1>18, LimiterConstants DEF KeyBound
  <2>3. InWindow(k, s, c + 1)'
    <3>0. NSince(k, s) <= c + Spent(k) /\ NSince(k, s + Window + 1) <= Spent(k)
          /\ \A t \in Times : t >= s - Window => NSince(k, t) <= MaxLimit + c + Spent(k)
      BY <2>2 DEF InWindow
    <3>1. NSince(k, s)' <= (c + 1) + Spent(k)'
      <4>1. NSince(k, s)' = NSince(k, s) + 1
        BY <1>3, <1>6
      <4> QED
        BY <1>16, <2>1, <3>0, <4>1
    <3>2. \A t \in Times : t >= s - Window => NSince(k, t)' <= MaxLimit + (c + 1) + Spent(k)'
      <4> SUFFICES ASSUME NEW t \in Times, t >= s - Window
                   PROVE  NSince(k, t)' <= MaxLimit + (c + 1) + Spent(k)'
        OBVIOUS
      <4>1. NSince(k, t)' <= NSince(k, t) + 1 /\ NSince(k, t)' \in Nat
        <5>1. NSince(k, t)' = NSince(k, t) + 1 \/ NSince(k, t)' = NSince(k, t)
          BY <1>6, <1>17
        <5> QED
          BY <1>16, <5>1
      <4> QED
        BY <1>16, <2>1, <3>0, <4>1, LimiterConstants
    <3>3. NSince(k, s + Window + 1)' <= Spent(k)'
      <4>1. s + Window + 1 \in Int /\ ~(s + Window + 1 <= x)
        BY <1>3, LimiterConstants
      <4>2. NSince(k, s + Window + 1)' = NSince(k, s + Window + 1)
        BY <1>6, <4>1
      <4> QED
        BY <2>1, <3>0, <4>2
    <3> QED
      BY <1>3, <3>1, <3>2, <3>3 DEF InWindow
  <2>4. Spans(k)'
    <3> SUFFICES ASSUME NEW t \in Times
                 PROVE  NWithin(k, t, t + Window)' <= 2 * MaxLimit + Spent(k)'
      BY DEF Spans
    <3>1. t \in Nat /\ t + Window \in Nat
      BY <1>17, LimiterConstants
    <3>2. NWithin(k, t, t + Window) <= 2 * MaxLimit + Spent(k)
      BY <2>2 DEF Spans
    <3>3. CASE t <= x /\ x <= t + Window
      <4>1. t >= s - Window
        BY <1>3, <3>1, <3>3, LimiterConstants
      <4>2. NSince(k, t) <= MaxLimit + c + Spent(k)
        BY <2>2, <4>1 DEF InWindow
      <4>3. NWithin(k, t, t + Window)' = NWithin(k, t, t + Window) + 1
        BY <1>6, <3>1, <3>3
      <4>4. NWithin(k, t, t + Window) <= NSince(k, t) /\ NWithin(k, t, t + Window) \in Nat
            /\ NSince(k, t) \in Nat
        BY <1>16
      <4> QED
        BY <1>3, <2>1, <4>2, <4>3, <4>4, LimiterConstants
    <3>4. CASE ~(t <= x /\ x <= t + Window)
      BY <1>6, <2>1, <3>1, <3>2, <3>4
    <3> QED
      BY <3>3, <3>4
  <2>5. (store[k] = w /\ windows[w].start = s /\ windows[w].count = c + 1)'
    BY <1>4, <1>18
  <2>6. KeyBound(k)'
    BY <2>3, <2>4, <2>5, LimiterConstants DEF KeyBound, InWindow
  <2> QED
    BY <1>6, <1>7, <1>9, <1>11, <1>14, <1>15, <2>6
<1>19. CASE store[k] # w
  <2>1. Spent(k)' = Spent(k) + 1 /\ Spent(k) \in Int
    <3>1. r \in Strays(k)
      BY <1>1, <1>19 DEF Strays
    <3> QED
      BY <3>1, StraysLeave
  <2>2. ASSUME NEW t \in Int
        PROVE  /\ NSince(k, t)' <= NSince(k, t) + 1 /\ NSince(k, t)' \in Nat
               /\ \A u \in Int : NWithin(k, t, u)' <= NWithin(k, t, u) + 1 /\ NWithin(k, t, u)' \in Nat
    <3>1. NSince(k, t)' = NSince(k, t) + 1 \/ NSince(k, t)' = NSince(k, t)
      BY <1>6
    <3>2. ASSUME NEW u \in Int
          PROVE  NWithin(k, t, u)' <= NWithin(k, t, u) + 1 /\ NWithin(k, t, u)' \in Nat
      <4>1. NWithin(k, t, u)' = NWithin(k, t, u) + 1 \/ NWithin(k, t, u)' = NWithin(k, t, u)
        BY <1>6
      <4> QED
        BY <1>16, <4>1
    <3> QED
      BY <1>16, <3>1, <3>2
  <2>3. Spans(k)'
    <3> SUFFICES ASSUME NEW t \in Times
                 PROVE  NWithin(k, t, t + Window)' <= 2 * MaxLimit + Spent(k)'
      BY DEF Spans
    <3>1. t \in Int /\ t + Window \in Int
      BY <1>17, LimiterConstants
    <3>2. NWithin(k, t, t + Window) <= 2 * MaxLimit + Spent(k)
      BY DEF Spans, KeyBound
    <3>3. NWithin(k, t, t + Window)' <= NWithin(k, t, t + Window) + 1
          /\ NWithin(k, t, t + Window)' \in Nat /\ NWithin(k, t, t + Window) \in Nat
      BY <1>16, <2>2, <3>1
    <3> QED
      BY <2>1, <3>2, <3>3, LimiterConstants
  <2>4. \A b \in Nat, d \in Nat : InWindow(k, b, d) => InWindow(k, b, d)'
    <3> SUFFICES ASSUME NEW b \in Nat, NEW d \in Nat, InWindow(k, b, d)
                 PROVE  InWindow(k, b, d)'
      OBVIOUS
    <3>1. NSince(k, b)' <= d + Spent(k)'
      <4>1. NSince(k, b) <= d + Spent(k) /\ NSince(k, b) \in Nat
        BY <1>16 DEF InWindow
      <4>2. NSince(k, b)' <= NSince(k, b) + 1 /\ NSince(k, b)' \in Nat
        BY <2>2
      <4> QED
        BY <2>1, <4>1, <4>2
    <3>2. ASSUME NEW t \in Times, t >= b - Window
          PROVE  NSince(k, t)' <= MaxLimit + d + Spent(k)'
      <4>1. NSince(k, t) <= MaxLimit + d + Spent(k) /\ NSince(k, t) \in Nat
        BY <1>16, <3>2 DEF InWindow
      <4>2. NSince(k, t)' <= NSince(k, t) + 1 /\ NSince(k, t)' \in Nat
        BY <1>17, <2>2
      <4> QED
        BY <2>1, <4>1, <4>2, LimiterConstants
    <3>3. NSince(k, b + Window + 1)' <= Spent(k)'
      <4>0. b + Window + 1 \in Int
        BY LimiterConstants
      <4>1. NSince(k, b + Window + 1) <= Spent(k) /\ NSince(k, b + Window + 1) \in Nat
        BY <1>16 DEF InWindow
      <4>2. NSince(k, b + Window + 1)' <= NSince(k, b + Window + 1) + 1
            /\ NSince(k, b + Window + 1)' \in Nat
        BY <2>2, <4>0
      <4> QED
        BY <2>1, <4>1, <4>2
    <3> QED
      BY <3>1, <3>2, <3>3, LimiterConstants DEF InWindow
  <2>5. OutOfWindow(k) => OutOfWindow(k)'
    <3>1. OutOfWindow(k) <=> /\ NSince(k, n) <= Spent(k)
                             /\ \A t \in Times : t >= n - Window => NSince(k, t) <= MaxLimit + Spent(k)
      BY DEF OutOfWindow
    <3>2. OutOfWindow(k)' <=> /\ NSince(k, n)' <= Spent(k)'
                              /\ \A t \in Times : t >= n - Window => NSince(k, t)' <= MaxLimit + Spent(k)'
      BY DEF OutOfWindow
    <3> SUFFICES ASSUME OutOfWindow(k)
                 PROVE  OutOfWindow(k)'
      OBVIOUS
    <3>3. NSince(k, n)' <= Spent(k)'
      <4>1. NSince(k, n)' <= NSince(k, n) + 1 /\ NSince(k, n)' \in Nat /\ NSince(k, n) \in Nat
        BY <1>3, <1>16, <2>2
      <4> QED
        BY <2>1, <3>1, <4>1
    <3>4. ASSUME NEW t \in Times, t >= n - Window
          PROVE  NSince(k, t)' <= MaxLimit + Spent(k)'
      <4>1. NSince(k, t)' <= NSince(k, t) + 1 /\ NSince(k, t)' \in Nat /\ NSince(k, t) \in Nat
        BY <1>16, <1>17, <2>2
      <4>2. NSince(k, t) <= MaxLimit + Spent(k)
        BY <3>1, <3>4
      <4> QED
        BY <2>1, <4>1, <4>2, LimiterConstants
    <3> QED
      BY <1>3, <1>17, <3>2, <3>3, <3>4, LimiterConstants
  <2>6. ASSUME store[k] = None
        PROVE  KeyBound(k)'
    BY <2>3, <2>5, <2>6 DEF KeyBound
  <2>7. ASSUME store[k] # None
        PROVE  KeyBound(k)'
    <3>1. PICK v \in Windows, b \in Nat, d \in Nat :
            store[k] = v /\ v # w /\ windows[v].start = b /\ windows[v].count = d
      BY <1>19, <2>7, LimiterConstants DEF LimiterTypes
    <3>2. InWindow(k, b, d)
      BY <2>7, <3>1 DEF KeyBound
    <3>3. (store[k] = v /\ windows[v].start = b /\ windows[v].count = d)'
      BY <1>4, <3>1
    <3>4. InWindow(k, b, d)'
      BY <2>4, <3>1, <3>2
    <3>5. v # None
      BY LimiterConstants
    <3> QED
      BY <2>3, <3>1, <3>3, <3>4, <3>5, LimiterConstants DEF KeyBound, InWindow
  <2>8. KeyBound(k)'
    BY <2>6, <2>7
  <2> QED
    BY <1>6, <1>7, <1>9, <1>11, <1>14, <1>15, <2>8
<1> QED
  BY <1>18, <1>19

LEMMA AdmitStep ==
    ASSUME LimiterInv, NEW r \in Requests, Admit(r)
    PROVE  LimiterInv'
<1>1. PICK k \in Keys, w \in Windows, limit \in Limits, x \in Times :
        request[r] = [pc |-> "inside", key |-> k, limit |-> limit, window |-> w, at |-> x]
  BY DEF Admit, LimiterInv, LimiterTypes, RequestState, Idle
<1>2. PICK s \in Times, c \in Nat : windows[w] = [start |-> s, count |-> c]
  BY DEF LimiterInv, LimiterTypes
<1>3. PICK n \in Times : now = n
  BY DEF LimiterInv, LimiterTypes
<1>4. windows' = [windows EXCEPT ![w] = [start |-> s, count |-> c + 1]]
  <2>1. windows' = [windows EXCEPT ![w] = [windows[w] EXCEPT !.count = windows[w].count + 1]]
    BY <1>1 DEF Admit
  <2>2. [windows[w] EXCEPT !.count = windows[w].count + 1] = [start |-> s, count |-> c + 1]
    BY <1>2
  <2> QED
    BY <2>1, <2>2
<1>5. ~(c >= limit) /\ c \in Nat /\ limit \in Nat
  BY <1>1, <1>2, LimiterConstants DEF Admit, Full
<1>6. c < limit
  BY <1>5
<1>7. /\ admitted' = [admitted EXCEPT ![k] = @ \cup {Admission(k, x)}]
      /\ request' = [request EXCEPT ![r] = Idle]
      /\ UNCHANGED <<now, store, sweep, swept, stray>>
  BY <1>1 DEF Admit
<1> QED
  BY <1>1, <1>2, <1>3, <1>4, <1>6, <1>7, AdmitAt

----------------------------------------------------------------------------
(* A step of the clean-up that removes nothing.                            *)
LEMMA NothingRemoved ==
    ASSUME LimiterInv, UNCHANGED <<now, store, windows, request, admitted, stray>>,
           sweep' \in {Idle} \cup [pc: {"sweeping"}, time: Times, left: SUBSET Keys],
           swept' \in Times,
           sweep' # Idle => sweep'.time <= now /\ \A k \in sweep'.left : store[k] # None
    PROVE  LimiterInv'
<1> USE DEF LimiterInv
<1>1. Pointing' = Pointing
  BY DEF Pointing
<1>2. LimiterTypes'
  BY DEF LimiterTypes
<1>3. OneOwner' /\ OneInside'
  BY <1>1 DEF OneOwner, OneInside, Owns
<1>4. Clocks'
  BY DEF Clocks, StoreLocked
<1>5. Counted'
  BY <1>1, SameAdmissions DEF Counted, Owns
<1>6. ASSUME NEW k \in Keys
      PROVE  KeyBound(k)'
  <2>1. Spent(k)' = Spent(k) /\ Spent(k) \in Int
    BY <1>1, SpentSame DEF Strays
  <2>2. Spent(k)' \in Int /\ Spent(k) <= Spent(k)'
    BY <2>1
  <2> QED
    BY <2>2, QuietKey
<1> QED
  BY <1>2, <1>3, <1>4, <1>5, <1>6, SameAdmissions

LEMMA StartSweepStep == LimiterInv /\ StartSweep => LimiterInv'
<1> SUFFICES ASSUME LimiterInv, StartSweep
             PROVE  LimiterInv'
  OBVIOUS
<1>1. now \in Times /\ now <= now
  BY LimiterConstants DEF LimiterInv, LimiterTypes
<1>2. sweep' \in [pc: {"sweeping"}, time: Times, left: SUBSET Keys]
      /\ sweep'.time <= now /\ \A k \in sweep'.left : store[k] # None
  BY <1>1 DEF StartSweep
<1> QED
  BY <1>1, <1>2, NothingRemoved DEF StartSweep

LEMMA EndSweepStep == LimiterInv /\ EndSweep => LimiterInv'
  BY NothingRemoved DEF EndSweep, LimiterInv, LimiterTypes

(* An entry removed: who held it is a stray from now on, and what the      *)
(* window counted is longer ago than windowDuration.                       *)
LEMMA RemovedStep ==
    ASSUME LimiterInv, NEW k \in Keys, SweepEntry(k), Old(store[k], sweep.time),
           store' = [store EXCEPT ![k] = None],
           stray' = [stray EXCEPT ![k] = @ + Cardinality(Holders(store[k]))]
    PROVE  LimiterInv'
<1> USE DEF LimiterInv
<1>1. /\ sweep # Idle /\ k \in sweep.left /\ sweep' = [sweep EXCEPT !.left = @ \ {k}]
      /\ UNCHANGED <<now, windows, request, swept, admitted>>
  BY DEF SweepEntry, StoreLocked
<1>2. PICK n \in Nat, time \in Nat, w \in Windows, s \in Nat, c \in Nat :
        /\ now = n /\ sweep.time = time /\ time <= n
        /\ store[k] = w /\ windows[w].start = s /\ windows[w].count = c
        /\ time - s > IdleAge
  <2>1. store[k] # None /\ sweep.time <= now
    BY <1>1 DEF Clocks, StoreLocked
  <2>2. store[k] \in Windows /\ sweep.time \in Nat /\ now \in Nat
    BY <1>1, <2>1, LimiterConstants DEF LimiterTypes
  <2>3. windows[store[k]].start \in Nat /\ windows[store[k]].count \in Nat
    BY <2>2, LimiterConstants DEF LimiterTypes
  <2>4. sweep.time - windows[store[k]].start > IdleAge
    BY DEF Old
  <2> QED
    BY <2>1, <2>2, <2>3, <2>4
<1>3. /\ store'[k] = None /\ \A l \in Keys : l # k => store'[l] = store[l]
      /\ \A l \in Keys : l # k => stray'[l] = stray[l]
      /\ stray'[k] = stray[k] + Cardinality(Holders(w))
  BY <1>2 DEF LimiterTypes
<1>4. Pointing' = Pointing
  BY <1>1 DEF Pointing
<1>5. IsFiniteSet(Holders(w)) /\ Cardinality(Holders(w)) \in Nat
  <2>1. Holders(w) \subseteq Requests
    BY DEF Holders, Pointing
  <2> QED
    BY <2>1, LimiterConstants, FS_Subset, FS_CardinalityType
<1>6. LimiterTypes'
  <2>1. stray'[k] \in Nat
    BY <1>3, <1>5 DEF LimiterTypes
  <2>2. stray' \in [Keys -> Nat]
    BY <1>5, <1>2 DEF LimiterTypes
  <2> QED
    BY <1>1, <2>2 DEF LimiterTypes
<1>7. \A l \in Keys, v \in Windows : Owns(l, v)' => Owns(l, v)
  BY <1>1, <1>3, <1>4, LimiterConstants DEF Owns
<1>8. OneOwner' /\ OneInside'
  BY <1>1, <1>7 DEF OneOwner, OneInside
<1>9. Clocks'
  <2>1. /\ sweep'.time = sweep.time /\ sweep'.left = sweep.left \ {k}
        /\ sweep.left \subseteq Keys
    BY <1>1 DEF LimiterTypes
  <2> QED
    BY <1>1, <1>3, <2>1 DEF Clocks, StoreLocked
<1>10. Counted'
  BY <1>1, <1>7, SameAdmissions DEF Counted
<1>11. ASSUME NEW l \in Keys, l # k
       PROVE  KeyBound(l)'
  <2>1. Spent(l)' = Spent(l) /\ Spent(l) \in Int
    BY <1>1, <1>3, <1>4, <1>11, SpentSame DEF Strays
  <2>2. Spent(l)' \in Int /\ Spent(l) <= Spent(l)'
    BY <2>1
  <2> QED
    BY <1>1, <1>3, <1>11, <2>2, QuietKey
<1>12. Spent(k)' = Spent(k) /\ Spent(k) \in Int
  <2>1. Strays(k)' = Strays(k) \cup Holders(w)
    <3>1. \A r \in Holders(w) : request[r].key = k
      <4>1. Owns(k, w)
        BY <1>2 DEF Owns
      <4>2. \A r \in Holders(w) : request[r].key \in Keys /\ Owns(request[r].key, w)
        BY RequestIs DEF Holders, Owns, Pointing
      <4> QED
        BY <4>1, <4>2 DEF OneOwner
    <3>2. \A r \in Pointing : request[r].window # None
      BY RequestIs, LimiterConstants DEF Pointing
    <3> QED
      BY <1>1, <1>2, <1>3, <1>4, <3>1, <3>2 DEF Strays, Holders
  <2>2. Strays(k) \cap Holders(w) = {}
    BY <1>2 DEF Strays, Holders
  <2>3. IsFiniteSet(Strays(k)) /\ Cardinality(Strays(k)) \in Nat
    BY StraysFinite
  <2>4. Cardinality(Strays(k) \cup Holders(w)) = Cardinality(Strays(k)) + Cardinality(Holders(w))
    <3>1. Cardinality(Strays(k) \cap Holders(w)) = 0
      BY <2>2, FS_EmptySet
    <3>2. Cardinality(Strays(k) \cup Holders(w))
             = Cardinality(Strays(k)) + Cardinality(Holders(w)) - Cardinality(Strays(k) \cap Holders(w))
      BY <1>5, <2>3, FS_Union
    <3> QED
      BY <1>5, <2>3, <3>1, <3>2
  <2>5. stray[k] \in Nat
    BY DEF LimiterTypes
  <2> QED
    BY <1>3, <1>5, <2>1, <2>3, <2>4, <2>5 DEF Spent
<1>13. InWindow(k, s, c) /\ Spans(k)
  BY <1>2, LimiterConstants DEF KeyBound
<1>14. s + Window + 1 \in Int /\ s + Window + 1 <= n
  BY <1>2, LimiterConstants
<1>15. \A t : NSince(k, t) \in Nat
  BY NumbersFrom
<1>16. NSince(k, n)' <= Spent(k)'
  <2>1. NSince(k, n) <= NSince(k, s + Window + 1)
    BY <1>2, <1>14, NumbersFrom
  <2>2. NSince(k, s + Window + 1) <= Spent(k)
    BY <1>13 DEF InWindow
  <2>3. NSince(k, n)' = NSince(k, n)
    BY <1>1, SameAdmissions
  <2> QED
    BY <1>12, <1>15, <2>1, <2>2, <2>3
<1>17. ASSUME NEW t \in Times, t >= n - Window
       PROVE  NSince(k, t)' <= MaxLimit + Spent(k)'
  <2>1. t \in Int /\ s <= t
    BY <1>14, <1>17, LimiterConstants
  <2>2. NSince(k, t) <= NSince(k, s)
    BY <2>1, NumbersFrom
  <2>3. NSince(k, s) <= c + Spent(k) /\ c <= MaxLimit
    BY <1>13 DEF InWindow
  <2>4. NSince(k, t)' = NSince(k, t)
    BY <1>1, SameAdmissions
  <2> QED
    BY <1>12, <1>15, <2>2, <2>3, <2>4, LimiterConstants
<1>18. Spans(k)'
  BY <1>1, <1>12, <1>13, SameAdmissions DEF Spans
<1>19. OutOfWindow(k)'
  <2>1. now' = n
    BY <1>1, <1>2
  <2>2. OutOfWindow(k)' <=> /\ NSince(k, n)' <= Spent(k)'
                            /\ \A t \in Times : t >= n - Window => NSince(k, t)' <= MaxLimit + Spent(k)'
    BY <2>1 DEF OutOfWindow
  <2> QED
    BY <1>16, <1>17, <2>2
<1>20. KeyBound(k)'
  BY <1>3, <1>18, <1>19 DEF KeyBound
<1> QED
  BY <1>1, <1>6, <1>8, <1>9, <1>10, <1>11, <1>20, SameAdmissions

LEMMA SweepEntryStep ==
    ASSUME LimiterInv, NEW k \in Keys, SweepEntry(k)
    PROVE  LimiterInv'
<1>1. CASE Old(store[k], sweep.time)
  BY <1>1, RemovedStep DEF SweepEntry
<1>2. CASE ~Old(store[k], sweep.time)
  <2>1. sweep \in [pc: {"sweeping"}, time: Times, left: SUBSET Keys] /\ sweep # Idle
        /\ sweep' = [sweep EXCEPT !.left = @ \ {k}]
    BY DEF SweepEntry, StoreLocked, LimiterInv, LimiterTypes
  <2>2. /\ sweep' \in [pc: {"sweeping"}, time: Times, left: SUBSET Keys]
        /\ sweep'.time = sweep.time /\ sweep'.left \subseteq sweep.left
    BY <2>1
  <2>3. sweep.time <= now /\ \A l \in sweep.left : store[l] # None
    BY <2>1 DEF LimiterInv, Clocks, StoreLocked
  <2>4. swept' \in Times /\ UNCHANGED <<now, store, windows, request, admitted, stray>>
    BY <1>2 DEF SweepEntry, LimiterInv, LimiterTypes
  <2> QED
    BY <2>2, <2>3, <2>4, NothingRemoved
<1> QED
  BY <1>1, <1>2

(* Time only makes what was admitted older.                                *)
LEMMA TickStep == LimiterInv /\ Tick => LimiterInv'
<1> SUFFICES ASSUME LimiterInv, Tick
             PROVE  LimiterInv'
  OBVIOUS
<1> USE DEF LimiterInv
<1>1. PICK n \in Nat : now = n /\ n < MaxTime
  BY LimiterConstants DEF Tick, LimiterTypes
<1>2. now' = n + 1 /\ n + 1 \in Nat
      /\ UNCHANGED <<store, windows, request, sweep, swept, admitted, stray>>
  BY <1>1 DEF Tick
<1>3. Pointing' = Pointing
  BY <1>2 DEF Pointing
<1>4. LimiterTypes'
  <2>1. now' \in Times
    BY <1>1, <1>2, LimiterConstants DEF Times
  <2> QED
    BY <1>2, <2>1 DEF LimiterTypes
<1>5. OneOwner' /\ OneInside' /\ Counting'
  BY <1>2, <1>3 DEF OneOwner, OneInside, Owns, Counting, AdmittedAt
<1>6. /\ \A w \in Windows : windows[w].start \in Nat /\ windows[w].count \in Nat
      /\ \A r \in Requests : request[r].pc = "inside" => request[r].at \in Nat
      /\ StoreLocked => sweep.time \in Nat
  <2>1. \A w \in Windows : windows[w].start \in Nat /\ windows[w].count \in Nat
    BY LimiterConstants DEF LimiterTypes
  <2>2. \A r \in Requests : request[r].pc = "inside" => request[r].at \in Nat
    BY RequestIs, LimiterConstants
  <2>3. StoreLocked => sweep.time \in Nat
    BY LimiterConstants DEF LimiterTypes, StoreLocked
  <2> QED
    BY <2>1, <2>2, <2>3
<1>7. Clocks'
  BY <1>1, <1>2, <1>6 DEF Clocks, StoreLocked
<1>8. \A k, t : NSince(k, t)' = NSince(k, t) /\ \A u : NWithin(k, t, u)' = NWithin(k, t, u)
  BY <1>2 DEF NSince, Since, NWithin, Within
<1>9. Counted'
  <2>1. ASSUME NEW k \in Keys, NEW w \in Windows, Owns(k, w)
        PROVE  windows[w].count <= NWithin(k, windows[w].start, n + 1)
    <3>1. windows[w].count <= NWithin(k, windows[w].start, n)
      BY <1>1, <2>1 DEF Counted
    <3>2. NWithin(k, windows[w].start, n) <= NWithin(k, windows[w].start, n + 1)
      <4>1. PICK s \in Int : windows[w].start = s
        BY <1>6
      <4>2. n \in Int /\ n + 1 \in Int /\ n <= n + 1
        OBVIOUS
      <4>3. NWithin(k, s, n) <= NWithin(k, s, n + 1)
        BY <4>2, NumbersFrom
      <4> QED
        BY <4>1, <4>3
    <3>3. NWithin(k, windows[w].start, n) \in Nat /\ NWithin(k, windows[w].start, n + 1) \in Nat
      BY NumbersFrom
    <3> QED
      BY <1>6, <3>1, <3>2, <3>3
  <2>2. \A k \in Keys, w \in Windows : Owns(k, w)' <=> Owns(k, w)
    BY <1>2, <1>3 DEF Owns
  <2> QED
    BY <1>2, <1>8, <2>1, <2>2 DEF Counted
<1>10. ASSUME NEW k \in Keys
       PROVE  KeyBound(k)'
  <2>1. Spent(k)' = Spent(k) /\ Spent(k) \in Int
    BY <1>2, <1>3, SpentSame DEF Strays
  <2>2. KeyBound(k)
    OBVIOUS
  <2>3. Spans(k)'
    BY <1>8, <2>1, <2>2 DEF KeyBound, Spans
  <2>4. ASSUME store[k] # None
        PROVE  KeyBound(k)'
    BY <1>2, <1>8, <2>1, <2>2, <2>3, <2>4 DEF KeyBound, InWindow
  <2>5. ASSUME store[k] = None
        PROVE  KeyBound(k)'
    <3>1. /\ NSince(k, n) <= Spent(k)
          /\ \A t \in Times : t >= n - Window => NSince(k, t) <= MaxLimit + Spent(k)
      BY <1>1, <2>2, <2>5 DEF KeyBound, OutOfWindow
    <3>2. PICK m \in Nat : m = n + 1
      BY <1>2
    <3>3. NSince(k, m) <= Spent(k)
      <4>1. NSince(k, m) <= NSince(k, n) /\ NSince(k, n) \in Nat /\ NSince(k, m) \in Nat
        <5>1. n \in Int /\ m \in Int /\ n <= m
          BY <3>2
        <5> QED
          BY <5>1, NumbersFrom
      <4> QED
        BY <2>1, <3>1, <4>1
    <3>4. OutOfWindow(k)'
      <4>1. OutOfWindow(k)' <=> /\ NSince(k, m)' <= Spent(k)'
                                /\ \A t \in Times : t >= m - Window
                                      => NSince(k, t)' <= MaxLimit + Spent(k)'
        <5>1. now' = m
          BY <1>2, <3>2
        <5> QED
          BY <5>1 DEF OutOfWindow
      <4>2. \A t \in Times : t >= m - Window => t >= n - Window
        BY <3>2, LimiterConstants
      <4>3. \A t : NSince(k, t)' = NSince(k, t)
        BY <1>8
      <4> QED
        BY <2>1, <3>1, <3>3, <4>1, <4>2, <4>3
    <3>5. store'[k] = None
      BY <1>2, <2>5
    <3> QED
      BY <2>3, <3>4, <3>5 DEF KeyBound
  <2> QED
    BY <2>4, <2>5
<1> QED
  BY <1>4, <1>5, <1>7, <1>9, <1>10

LEMMA LimiterInvStep == LimiterInv /\ [Next]_vars => LimiterInv'
<1> SUFFICES ASSUME LimiterInv, [Next]_vars
             PROVE  LimiterInv'
  OBVIOUS
<1>1. CASE UNCHANGED vars
  <2>1. UNCHANGED <<now, store, windows, request, admitted, stray, sweep, swept>>
    BY <1>1 DEF vars
  <2> QED
    BY <2>1, NothingRemoved DEF LimiterInv, LimiterTypes, Clocks, StoreLocked
<1>2. CASE Next
  <2>1. ASSUME NEW r \in Requests, \/ \E k \in Keys, limit \in Limits : Lookup(r, k, limit)
                                   \/ EnterWindow(r) \/ Reject(r) \/ Admit(r)
        PROVE  LimiterInv'
    BY <2>1, LookupStep, EnterStep, RejectStep, AdmitStep
  <2> QED
    BY <1>2, <2>1, StartSweepStep, SweepEntryStep, EndSweepStep, TickStep DEF Next
<1> QED
  BY <1>1, <1>2

----------------------------------------------------------------------------
LEMMA LimiterInvImplies == LimiterInv => TypeOK /\ SpanBound /\ NoFalseRejection
<1> SUFFICES ASSUME LimiterInv
             PROVE  TypeOK /\ SpanBound /\ NoFalseRejection
  OBVIOUS
<1> USE DEF LimiterInv
<1>1. TypeOK
  BY TypeOKIs
<1>2. SpanBound
  <2> SUFFICES ASSUME NEW k \in Keys, NEW t \in Times
               PROVE  AdmittedIn(k, t, t + Window) <= 2 * MaxLimit + stray[k]
    BY DEF SpanBound, MaxLimit
  <2>1. AdmittedIn(k, t, t + Window) = NWithin(k, t, t + Window)
    BY DEF AdmittedIn, NWithin, Within
  <2>2. NWithin(k, t, t + Window) <= 2 * MaxLimit + Spent(k)
    BY DEF KeyBound, Spans
  <2>3. NWithin(k, t, t + Window) \in Nat /\ Spent(k) \in Int /\ Spent(k) <= stray[k]
        /\ stray[k] \in Nat /\ MaxLimit \in Nat
    BY NumbersFrom, SpentIs, LimiterConstants DEF LimiterTypes
  <2> QED
    BY <2>1, <2>2, <2>3
<1>3. NoFalseRejection
  <2> SUFFICES ASSUME NEW r \in Requests, Reject(r)
               PROVE  AdmittedIn(request[r].key, request[r].at - Window, request[r].at)
                         >= request[r].limit
    BY DEF NoFalseRejection
  <2>1. PICK k \in Keys, w \in Windows, limit \in Nat, x \in Nat :
          request[r].pc = "inside" /\ request[r].key = k /\ request[r].window = w
          /\ request[r].limit = limit /\ request[r].at = x
    BY RequestIs, LimiterConstants DEF Reject
  <2>2. PICK s \in Nat, c \in Nat : windows[w].start = s /\ windows[w].count = c
    BY LimiterConstants DEF LimiterTypes
  <2>3. c >= limit /\ s <= x /\ x <= s + Window /\ c <= NWithin(k, s, x)
    BY <2>1, <2>2 DEF Reject, Full, Clocks, Counted
  <2>4. NWithin(k, s, x) <= AdmittedIn(k, x - Window, x) /\ NWithin(k, s, x) \in Nat
        /\ AdmittedIn(k, x - Window, x) \in Nat
    <3>1. \A a \in admitted[k] : a.at \in Nat
      BY LimiterConstants DEF LimiterTypes
    <3>2. Within(k, s, x) \subseteq Within(k, x - Window, x)
      BY <2>3, <3>1, LimiterConstants DEF Within
    <3>3. AdmittedIn(k, x - Window, x) = NWithin(k, x - Window, x)
      BY DEF AdmittedIn, NWithin, Within
    <3> QED
      BY <3>2, <3>3, NumbersFrom, FS_Subset DEF NWithin
  <2>5. AdmittedIn(k, x - Window, x) >= limit
    BY <2>3, <2>4
  <2> QED
    BY <2>1, <2>5
<1> QED
  BY <1>1, <1>2, <1>3

----------------------------------------------------------------------------
(* AgentControl: signed contexts, their nonces and the budgets of runs     *)
(* that overlap.                                                           *)

LifeTicks == Ttl * Second
RunState == {Off} \cup [pc : {"run"}, context : Contexts]

LEMMA Parameters ==
    /\ Second \in Nat \ {0} /\ Ttl \in Nat \ {0}
    /\ SupportCost \in Nat \ {0} /\ ResearchCost \in Nat \ {0}
    /\ TaskCap \in Nat \ {0} /\ TenantCap \in Nat \ {0}
    /\ MaxTick \in Nat /\ MaxDay \in Nat /\ Unsigned = -1
    /\ IsFiniteSet(Runs) /\ Cardinality(Runs) \in Nat
<1>1. IsFiniteSet(Runs) /\ {Second, Ttl, SupportCost, ResearchCost, TaskCap, TenantCap}
                               \subseteq Nat \ {0}
  BY ControlAssumption
<1>2. Cardinality(Runs) \in Nat
  BY <1>1, FS_CardinalityType
<1> QED
  BY <1>1, <1>2, ControlAssumption DEF Unsigned

LEMMA Quotient == ASSUME NEW a \in Nat, NEW b \in Nat, b > 0 PROVE a \div b \in Nat
<1>1. a \div b >= 0
  BY SMTT(30)
<1>2. a \div b \in Int
  BY SMTT(30)
<1> QED
  BY <1>1, <1>2

LEMMA LifeIsNat == LifeTicks \in Nat
<1>1. \A a, b \in Nat : a * b \in Nat
  OBVIOUS
<1> QED
  BY <1>1, Parameters DEF LifeTicks

----------------------------------------------------------------------------
(* A nonce is kept for a whole life after each acceptance, or that life is *)
(* over.                                                                   *)
NoncesKept ==
    \A x \in Contexts : \A s \in accepted[x] :
        s <= tick /\ (s + LifeTicks <= tick \/ s + LifeTicks <= nonce[x])

NonceInv == ControlTypeOK /\ NoncesKept /\ AcceptedALifeApart

(* The counters and the runs may be anything here.                         *)
LEMMA TypeFrom ==
    ASSUME ControlTypeOK,
           tick' \in 0..MaxTick, today' \in 0..MaxDay,
           context' \in [Contexts -> Nat \cup {Unsigned}], nonce' \in [Contexts -> Nat \cup {Unsigned}],
           accepted' \in [Contexts -> SUBSET (0..MaxTick)], run' \in [Runs -> RunState],
           taskCost' \in [Contexts -> Nat], tenantDaily' \in [Billed -> [0..MaxDay -> Nat]],
           halted' \in BOOLEAN,
           \A x \in Contexts : accepted'[x] # {} => context'[x] # Unsigned
    PROVE  ControlTypeOK'
  BY DEF ControlTypeOK, RunState

LEMMA TypeGives ==
    ASSUME ControlTypeOK
    PROVE  /\ tick \in 0..MaxTick /\ today \in 0..MaxDay
           /\ context \in [Contexts -> Nat \cup {Unsigned}]
           /\ nonce \in [Contexts -> Nat \cup {Unsigned}]
           /\ accepted \in [Contexts -> SUBSET (0..MaxTick)] /\ run \in [Runs -> RunState]
           /\ taskCost \in [Contexts -> Nat] /\ tenantDaily \in [Billed -> [0..MaxDay -> Nat]]
           /\ halted \in BOOLEAN
           /\ \A x \in Contexts : accepted[x] # {} => context[x] # Unsigned
  BY DEF ControlTypeOK, RunState

(* What is counted when a run is over.                                     *)
LEMMA CostIsNat == \A x \in Contexts : CostOf(x) \in Nat \ {0}
  BY Parameters DEF CostOf

LEMMA TrackTypes ==
    ASSUME ControlTypeOK, NEW x \in Contexts, TrackUsage(x)
    PROVE  taskCost' \in [Contexts -> Nat] /\ tenantDaily' \in [Billed -> [0..MaxDay -> Nat]]
<1>1. CASE halted
  BY <1>1, TypeGives DEF TrackUsage
<1>2. CASE ~halted
  <2>1. taskCost[x] \in Nat /\ CostOf(x) \in Nat
    BY TypeGives, CostIsNat
  <2>2. taskCost' = [taskCost EXCEPT ![x] = taskCost[x] + CostOf(x)]
    BY <1>2 DEF TrackUsage
  <2>3. taskCost' \in [Contexts -> Nat]
    BY <2>1, <2>2, TypeGives
  <2>4. CASE UNCHANGED tenantDaily
    BY <2>3, <2>4, TypeGives
  <2>5. CASE ~IsGlobal(x) /\ tenantDaily' =
               [tenantDaily EXCEPT ![TenantOf[x]][today] = @ + CostOf(x)]
    <3> DEFINE o == TenantOf[x]
    <3>1. o \in Billed
      BY <2>5 DEF IsGlobal, Billed
    <3>2. tenantDaily[o] \in [0..MaxDay -> Nat] /\ today \in 0..MaxDay
      BY <3>1, TypeGives
    <3> DEFINE days  == tenantDaily[o]
               more  == days[today] + CostOf(x)
               daily == [days EXCEPT ![today] = more]
    <3>3. daily \in [0..MaxDay -> Nat]
      <4>1. days \in [0..MaxDay -> Nat] /\ today \in 0..MaxDay
        BY <3>2
      <4>2. days[today] \in Nat
        BY <4>1
      <4>3. more \in Nat
        BY <2>1, <4>2
      <4> HIDE DEF days, more
      <4> QED
        BY <4>1, <4>3
    <3>4. tenantDaily' = [tenantDaily EXCEPT ![o] = daily]
      BY <2>5
    <3> HIDE DEF daily, o
    <3> QED
      BY <2>3, <3>1, <3>3, <3>4, TypeGives
  <2> QED
    BY <1>2, <2>4, <2>5 DEF TrackUsage
<1> QED
  BY <1>1, <1>2

LEMMA ControlTypeStep == ControlTypeOK /\ [ControlNext]_controlVars => ControlTypeOK'
<1> SUFFICES ASSUME ControlTypeOK, [ControlNext]_controlVars PROVE ControlTypeOK'
  OBVIOUS
<1> USE TypeGives, Parameters
<1>1. CASE UNCHANGED controlVars
  BY <1>1, TypeFrom DEF controlVars
<1>2. ASSUME NEW x \in Contexts, CreateSignedContext(x) PROVE ControlTypeOK'
  <2>1. tick \div Second + Ttl \in Nat
    <3>1. tick \in Nat /\ Second \in Nat /\ Second > 0
      OBVIOUS
    <3>2. tick \div Second \in Nat
      BY <3>1, Quotient
    <3> QED
      BY <3>2
  <2>2. context' \in [Contexts -> Nat \cup {Unsigned}]
    BY <1>2, <2>1 DEF CreateSignedContext
  <2>3. \A y \in Contexts : accepted'[y] # {} => context'[y] # Unsigned
    BY <1>2, <2>1 DEF CreateSignedContext
  <2> QED
    BY <1>2, <2>2, <2>3, TypeFrom DEF CreateSignedContext, costVars
<1>3. ASSUME NEW x \in Contexts, VerifyAndParseContext(x) PROVE ControlTypeOK'
  <2>1. tick + LifeTicks \in Nat
    BY LifeIsNat
  <2>2. nonce' = [nonce EXCEPT ![x] = tick + LifeTicks]
    BY <1>3 DEF VerifyAndParseContext, MarkNonce, LifeTicks
  <2>3. nonce' \in [Contexts -> Nat \cup {Unsigned}]
    BY <2>1, <2>2
  <2>4. /\ accepted' \in [Contexts -> SUBSET (0..MaxTick)]
        /\ \A y \in Contexts : accepted'[y] # {} => context[y] # Unsigned
    BY <1>3 DEF VerifyAndParseContext
  <2> QED
    BY <1>3, <2>3, <2>4, TypeFrom DEF VerifyAndParseContext, costVars
<1>4. CASE Janitor
  <2>1. nonce' \in [Contexts -> Nat \cup {Unsigned}]
    BY <1>4 DEF Janitor
  <2> QED
    BY <1>4, <2>1, TypeFrom DEF Janitor, costVars
<1>5. ASSUME NEW r \in Runs, NEW x \in Contexts, StartRun(r, x) PROVE ControlTypeOK'
  <2>1. [pc |-> "run", context |-> x] \in RunState
    BY DEF RunState
  <2>2. run' \in [Runs -> RunState]
    BY <1>5, <2>1 DEF StartRun
  <2> QED
    BY <1>5, <2>2, TypeFrom DEF StartRun
<1>6. ASSUME NEW r \in Runs, FailRun(r) PROVE ControlTypeOK'
  <2>1. run' \in [Runs -> RunState]
    BY <1>6 DEF FailRun, RunState
  <2> QED
    BY <1>6, <2>1, TypeFrom DEF FailRun
<1>7. ASSUME NEW r \in Runs, FinishRun(r) PROVE ControlTypeOK'
  <2>1. run[r].context \in Contexts
    BY <1>7 DEF FinishRun, RunState
  <2>2. taskCost' \in [Contexts -> Nat] /\ tenantDaily' \in [Billed -> [0..MaxDay -> Nat]]
    BY <1>7, <2>1, TrackTypes DEF FinishRun
  <2>3. run' \in [Runs -> RunState]
    BY <1>7 DEF FinishRun, RunState
  <2> QED
    BY <1>7, <2>2, <2>3, TypeFrom DEF FinishRun
<1>8. CASE SetGlobalCircuitBreaker
  BY <1>8, TypeFrom DEF SetGlobalCircuitBreaker, costVars
<1>9. CASE Clock
  BY <1>9, TypeFrom DEF Clock, costVars
<1>10. CASE Midnight
  BY <1>10, TypeFrom DEF Midnight, costVars
<1> QED
  BY <1>1, <1>2, <1>3, <1>4, <1>5, <1>6, <1>7, <1>8, <1>9, <1>10
  DEF ControlNext, RunSupportAssistant, RunGlobalResearch

LEMMA ControlTypeInit == ControlInit => ControlTypeOK
<1> SUFFICES ASSUME ControlInit PROVE ControlTypeOK
  OBVIOUS
<1>1. /\ tick \in 0..MaxTick /\ today \in 0..MaxDay /\ halted \in BOOLEAN
      /\ context \in [Contexts -> Nat \cup {Unsigned}]
      /\ nonce \in [Contexts -> Nat \cup {Unsigned}]
  <2>1. 0 \in 0..MaxTick /\ 0 \in 0..MaxDay
    BY Parameters
  <2>2. tick = 0 /\ today = 0 /\ halted = FALSE
    BY DEF ControlInit
  <2>3. context = [x \in Contexts |-> Unsigned] /\ nonce = [x \in Contexts |-> Unsigned]
    BY DEF ControlInit
  <2> QED
    BY <2>1, <2>2, <2>3
<1>2. /\ accepted \in [Contexts -> SUBSET (0..MaxTick)]
      /\ \A x \in Contexts : accepted[x] = {}
  BY DEF ControlInit
<1>3. run \in [Runs -> {Off} \cup [pc : {"run"}, context : Contexts]]
  BY DEF ControlInit
<1>4. taskCost \in [Contexts -> Nat] /\ tenantDaily \in [Billed -> [0..MaxDay -> Nat]]
  BY DEF ControlInit
<1> QED
  BY <1>1, <1>2, <1>3, <1>4 DEF ControlTypeOK

(* Every reachable state is well typed, and no context is accepted that    *)
(* was not signed.                                                         *)
THEOREM ControlTypeCorrect == ControlSpec => []ControlTypeOK
  BY ControlTypeInit, ControlTypeStep, PTL DEF ControlSpec

----------------------------------------------------------------------------
(* An acceptance: the nonce is not kept, so a life has passed since every  *)
(* acceptance before.                                                      *)
LEMMA AcceptKeeps ==
    ASSUME NonceInv, NEW x \in Contexts, VerifyAndParseContext(x)
    PROVE  NoncesKept' /\ AcceptedALifeApart'
<1> USE TypeGives, Parameters, LifeIsNat DEF NonceInv
<1>1. /\ tick' = tick /\ nonce' = [nonce EXCEPT ![x] = tick + LifeTicks]
      /\ accepted' = [accepted EXCEPT ![x] = @ \cup {tick}]
      /\ nonce[x] = Unsigned \/ ~(tick < nonce[x])
  BY DEF VerifyAndParseContext, MarkNonce, Replayed, LifeTicks
<1>2. \A s \in accepted[x] : s \in 0..MaxTick /\ s + LifeTicks <= tick
  <2>1. \A s \in accepted[x] : /\ s \in 0..MaxTick
                               /\ s + LifeTicks <= tick \/ s + LifeTicks <= nonce[x]
    BY DEF NoncesKept
  <2>2. nonce[x] \in Nat \cup {Unsigned} /\ tick \in Nat
    OBVIOUS
  <2> QED
    BY <1>1, <2>1, <2>2
<1>3. /\ accepted'[x] = accepted[x] \cup {tick} /\ nonce'[x] = tick + LifeTicks
      /\ \A y \in Contexts \ {x} : accepted'[y] = accepted[y] /\ nonce'[y] = nonce[y]
  BY <1>1
<1>4. NoncesKept'
  <2>1. \A s \in accepted'[x] :
           s <= tick /\ (s + LifeTicks <= tick \/ s + LifeTicks <= nonce'[x])
    BY <1>2, <1>3
  <2>2. \A y \in Contexts \ {x} : \A s \in accepted'[y] :
           s <= tick /\ (s + LifeTicks <= tick \/ s + LifeTicks <= nonce'[y])
    BY <1>3 DEF NoncesKept
  <2> QED
    BY <1>1, <2>1, <2>2 DEF NoncesKept
<1>5. \A s, t \in accepted'[x] : s < t => t - s >= LifeTicks
  <2>1. \A s, t \in accepted[x] : s < t => t - s >= LifeTicks
    BY DEF AcceptedALifeApart, LifeTicks
  <2> QED
    BY <1>2, <1>3, <2>1
<1>6. \A y \in Contexts \ {x} : \A s, t \in accepted'[y] : s < t => t - s >= LifeTicks
  BY <1>3 DEF AcceptedALifeApart, LifeTicks
<1> QED
  BY <1>4, <1>5, <1>6 DEF AcceptedALifeApart, LifeTicks

(* The janitor removes what is past, and time only passes.                 *)
LEMMA JanitorKeeps ==
    ASSUME NonceInv, Janitor
    PROVE  NoncesKept' /\ AcceptedALifeApart'
<1> USE TypeGives, Parameters, LifeIsNat DEF NonceInv
<1>1. /\ UNCHANGED <<tick, accepted>>
      /\ \A x \in Contexts : nonce'[x] = IF tick > nonce[x] THEN Unsigned ELSE nonce[x]
  BY DEF Janitor
<1>2. \A x \in Contexts : \A s \in accepted[x] :
         s \in 0..MaxTick /\ s <= tick /\ (s + LifeTicks <= tick \/ s + LifeTicks <= nonce[x])
  BY DEF NoncesKept
<1>3. \A x \in Contexts : nonce[x] \in Nat \cup {Unsigned}
  OBVIOUS
<1>4. \A x \in Contexts : \A s \in accepted[x] :
         s + LifeTicks <= tick \/ s + LifeTicks <= nonce'[x]
  BY <1>1, <1>2, <1>3
<1> QED
  BY <1>1, <1>2, <1>4 DEF NoncesKept, AcceptedALifeApart

LEMMA ClockKeeps ==
    ASSUME NonceInv, tick' = tick \/ tick' = tick + 1, UNCHANGED <<nonce, accepted>>
    PROVE  NoncesKept' /\ AcceptedALifeApart'
<1> USE TypeGives, Parameters, LifeIsNat DEF NonceInv
<1>1. \A x \in Contexts : \A s \in accepted[x] :
         s \in 0..MaxTick /\ s <= tick /\ (s + LifeTicks <= tick \/ s + LifeTicks <= nonce[x])
  BY DEF NoncesKept
<1>2. \A x \in Contexts : \A s \in accepted[x] :
         s <= tick' /\ (s + LifeTicks <= tick' \/ s + LifeTicks <= nonce[x])
  BY <1>1
<1> QED
  BY <1>2 DEF NoncesKept, AcceptedALifeApart

LEMMA NonceInvStep == NonceInv /\ [ControlNext]_controlVars => NonceInv'
<1> SUFFICES ASSUME NonceInv, [ControlNext]_controlVars PROVE NonceInv'
  OBVIOUS
<1>1. ControlTypeOK'
  BY ControlTypeStep DEF NonceInv
<1>2. \/ \E x \in Contexts : VerifyAndParseContext(x)
      \/ Janitor
      \/ (tick' = tick \/ tick' = tick + 1) /\ UNCHANGED <<nonce, accepted>>
  BY DEF ControlNext, controlVars, CreateSignedContext, RunSupportAssistant, RunGlobalResearch,
         StartRun, FailRun, FinishRun, SetGlobalCircuitBreaker, Clock, Midnight
<1> QED
  BY <1>1, <1>2, AcceptKeeps, JanitorKeeps, ClockKeeps DEF NonceInv

LEMMA NonceInvInit == ControlInit => NonceInv
  BY ControlTypeInit DEF ControlInit, NonceInv, NoncesKept, AcceptedALifeApart

(* A context is accepted again only when a whole life has passed, for any  *)
(* life, precision, order of checks and visits of the janitor.             *)
THEOREM AcceptedCorrect == ControlSpec => []AcceptedALifeApart
<1>1. NonceInv => AcceptedALifeApart
  BY DEF NonceInv
<1> QED
  BY <1>1, NonceInvInit, NonceInvStep, PTL DEF ControlSpec

----------------------------------------------------------------------------
(* The runs of a task, and those of a tenant, that are not over yet.       *)
OfTask(x) == {r \in Runs : run[r] # Off /\ run[r].context = x}
OfTenant(o) == {r \in Runs : run[r] # Off /\ TenantOf[run[r].context] = o}

(* What is counted and what may still be counted.                          *)
Pending(S, cost) == Cardinality(S) * cost
AllRuns(cost) == Cardinality(Runs) * cost

TasksBounded ==
    \A x \in Contexts : taskCost[x] + Pending(OfTask(x), CostOf(x)) < TaskCap + AllRuns(CostOf(x))
TenantsBounded ==
    \A o \in Billed, d \in 0..MaxDay :
        /\ tenantDaily[o][d] < TenantCap + AllRuns(SupportCost)
        /\ d >= today => tenantDaily[o][d] + Pending(OfTenant(o), SupportCost)
                             < TenantCap + AllRuns(SupportCost)
        /\ d > today => tenantDaily[o][d] = 0

CostInv == ControlTypeOK /\ TasksBounded /\ TenantsBounded

LEMMA TimesNat == ASSUME NEW a \in Nat, NEW c \in Nat PROVE a * c \in Nat
  OBVIOUS

LEMMA TimesLess ==
    ASSUME NEW a \in Nat, NEW b \in Nat, NEW c \in Nat, a <= b
    PROVE  a * c <= b * c
<1>1. (b - a) * c >= 0
  BY SMTT(30)
<1>2. (b - a) * c = b * c - a * c
  BY SMTT(30)
<1>3. a * c \in Int /\ b * c \in Int
  OBVIOUS
<1> QED
  BY <1>1, <1>2, <1>3, SMTT(30)

LEMMA TimesOneLess ==
    ASSUME NEW a \in Nat, NEW c \in Nat, a > 0
    PROVE  (a - 1) * c = a * c - c
  BY SMTT(30)

(* Sets of runs: what they may cost is a number, is less in a part of      *)
(* them, and is less by one cost without one of them.                      *)
LEMMA PendingLess ==
    ASSUME NEW S, NEW T \in SUBSET Runs, S \subseteq T, NEW cost \in Nat
    PROVE  /\ Pending(S, cost) \in Nat /\ Pending(T, cost) \in Nat /\ AllRuns(cost) \in Nat
           /\ Pending(S, cost) <= Pending(T, cost) /\ Pending(T, cost) <= AllRuns(cost)
<1>1. IsFiniteSet(Runs) /\ IsFiniteSet(T) /\ IsFiniteSet(S)
  BY Parameters, FS_Subset
<1>2. Cardinality(S) <= Cardinality(T) /\ Cardinality(T) <= Cardinality(Runs)
  BY <1>1, FS_Subset
<1>3. Cardinality(S) \in Nat /\ Cardinality(T) \in Nat /\ Cardinality(Runs) \in Nat
  BY <1>1, FS_CardinalityType
<1> DEFINE s == Cardinality(S)  t == Cardinality(T)  n == Cardinality(Runs)
<1>4. s * cost <= t * cost /\ t * cost <= n * cost
  <2> HIDE DEF s, t, n
  <2> QED
    BY <1>2, <1>3, TimesLess DEF s, t, n
<1>5. s * cost \in Nat /\ t * cost \in Nat /\ n * cost \in Nat
  BY <1>3, TimesNat
<1> QED
  BY <1>4, <1>5 DEF Pending, AllRuns

LEMMA PendingOneLess ==
    ASSUME NEW S \in SUBSET Runs, NEW r \in S, NEW cost \in Nat
    PROVE  Pending(S \ {r}, cost) = Pending(S, cost) - cost
<1>1. IsFiniteSet(S)
  BY Parameters, FS_Subset
<1>2. Cardinality(S \ {r}) = Cardinality(S) - 1
  BY <1>1, FS_RemoveElement
<1>3. Cardinality(S) \in Nat /\ Cardinality(S) > 0
  BY <1>1, FS_CardinalityType, FS_EmptySet
<1> DEFINE s == Cardinality(S)
<1>4. (s - 1) * cost = s * cost - cost
  BY <1>3, TimesOneLess
<1> QED
  BY <1>2, <1>4 DEF Pending

(* Types of the numbers compared.                                          *)
LEMMA CostNumbers ==
    ASSUME ControlTypeOK
    PROVE  /\ \A x \in Contexts : /\ taskCost[x] \in Nat /\ CostOf(x) \in Nat /\ CostOf(x) > 0
                                  /\ OfTask(x) \in SUBSET Runs
                                  /\ ~IsGlobal(x) => TenantOf[x] \in Billed /\ CostOf(x) = SupportCost
           /\ \A o \in Billed : \E x \in Contexts : TenantOf[x] = o /\ ~IsGlobal(x)
           /\ \A o \in Billed : OfTenant(o) \in SUBSET Runs
           /\ \A o \in Billed, d \in 0..MaxDay : tenantDaily[o][d] \in Nat
           /\ \A r \in Runs : run[r] # Off => run[r].context \in Contexts
           /\ today \in 0..MaxDay /\ 0..MaxDay \subseteq Nat
           /\ SupportCost \in Nat /\ TaskCap \in Nat /\ TenantCap \in Nat /\ TaskCap > 0 /\ TenantCap > 0
<1>1. \A x \in Contexts : CostOf(x) \in Nat /\ CostOf(x) > 0
  BY CostIsNat
<1>2. \A r \in Runs : run[r] # Off => run[r].context \in Contexts
  BY TypeGives DEF RunState
<1>3. \A o \in Billed, d \in 0..MaxDay : tenantDaily[o][d] \in Nat
  BY TypeGives
<1>4. \A x \in Contexts : ~IsGlobal(x) => TenantOf[x] \in Billed /\ CostOf(x) = SupportCost
  BY DEF IsGlobal, Billed, CostOf
<1>5. \A o \in Billed : \E x \in Contexts : TenantOf[x] = o /\ ~IsGlobal(x)
  BY DEF IsGlobal, Billed
<1> QED
  BY <1>1, <1>2, <1>3, <1>4, <1>5, TypeGives, Parameters DEF OfTask, OfTenant

(* Counters and the day stay, and no task or tenant gains a run.           *)
LEMMA FewerRuns ==
    ASSUME CostInv, ControlTypeOK', UNCHANGED <<taskCost, tenantDaily, today>>,
           \A x \in Contexts : OfTask(x)' \subseteq OfTask(x),
           \A o \in Billed : OfTenant(o)' \subseteq OfTenant(o)
    PROVE  CostInv'
<1> USE CostNumbers DEF CostInv
<1>1. ASSUME NEW x \in Contexts
      PROVE  taskCost'[x] + Pending(OfTask(x)', CostOf(x)) < TaskCap + AllRuns(CostOf(x))
  <2>1. /\ Pending(OfTask(x)', CostOf(x)) \in Nat /\ Pending(OfTask(x), CostOf(x)) \in Nat
        /\ AllRuns(CostOf(x)) \in Nat
        /\ Pending(OfTask(x)', CostOf(x)) <= Pending(OfTask(x), CostOf(x))
    BY PendingLess
  <2>2. taskCost'[x] = taskCost[x] /\ taskCost[x] \in Nat /\ TaskCap \in Nat
    OBVIOUS
  <2>3. taskCost[x] + Pending(OfTask(x), CostOf(x)) < TaskCap + AllRuns(CostOf(x))
    BY DEF TasksBounded
  <2> QED
    BY <2>1, <2>2, <2>3
<1>2. ASSUME NEW o \in Billed, NEW d \in 0..MaxDay, d >= today
      PROVE  tenantDaily'[o][d] + Pending(OfTenant(o)', SupportCost)
                 < TenantCap + AllRuns(SupportCost)
  <2>1. /\ Pending(OfTenant(o)', SupportCost) \in Nat /\ Pending(OfTenant(o), SupportCost) \in Nat
        /\ AllRuns(SupportCost) \in Nat
        /\ Pending(OfTenant(o)', SupportCost) <= Pending(OfTenant(o), SupportCost)
    BY PendingLess
  <2>2. tenantDaily'[o][d] = tenantDaily[o][d] /\ tenantDaily[o][d] \in Nat /\ TenantCap \in Nat
    OBVIOUS
  <2>3. tenantDaily[o][d] + Pending(OfTenant(o), SupportCost) < TenantCap + AllRuns(SupportCost)
    BY <1>2 DEF TenantsBounded
  <2> QED
    BY <2>1, <2>2, <2>3
<1>3. TasksBounded'
  BY <1>1 DEF TasksBounded, CostOf, AllRuns, Pending, IsGlobal
<1>4. TenantsBounded'
  BY <1>2 DEF TenantsBounded, AllRuns, Pending
<1> QED
  BY <1>3, <1>4

(* A run begins: its task and its tenant were below their caps.            *)
LEMMA StartKeeps ==
    ASSUME CostInv, ControlTypeOK', NEW r \in Runs, NEW x \in Contexts, StartRun(r, x)
    PROVE  CostInv'
<1> USE CostNumbers DEF CostInv
<1> DEFINE begun == [pc |-> "run", context |-> x]
<1>1. /\ UNCHANGED <<taskCost, tenantDaily, today>>
      /\ run[r] = Off /\ run' = [run EXCEPT ![r] = begun]
      /\ taskCost[x] < TaskCap
      /\ ~IsGlobal(x) => tenantDaily[TenantOf[x]][today] < TenantCap
  <2>1. CheckLimit(x)
    BY DEF StartRun
  <2>2. taskCost[x] < TaskCap
    BY <2>1 DEF CheckLimit, Reached
  <2>3. ~IsGlobal(x) => tenantDaily[TenantOf[x]][today] < TenantCap
    BY <2>1 DEF CheckLimit, Reached
  <2> QED
    BY <2>2, <2>3 DEF StartRun
<1>2. run'[r] = begun /\ \A q \in Runs \ {r} : run'[q] = run[q]
  BY <1>1, TypeGives
<1>3. begun # Off /\ begun.context = x
  BY DEF Off
<1>4. \A y \in Contexts \ {x} : OfTask(y)' = OfTask(y)
  BY <1>1, <1>2, <1>3 DEF OfTask
<1>5. \A o \in Billed : o # TenantOf[x] => OfTenant(o)' = OfTenant(o)
  BY <1>1, <1>2, <1>3 DEF OfTenant
<1>6. ASSUME NEW y \in Contexts
      PROVE  taskCost'[y] + Pending(OfTask(y)', CostOf(y)) < TaskCap + AllRuns(CostOf(y))
  <2>1. CASE y # x
    BY <1>1, <1>4, <2>1 DEF TasksBounded
  <2>2. CASE y = x
    <3>1. OfTask(x)' \in SUBSET Runs
      BY DEF OfTask
    <3>2. /\ Pending(OfTask(x)', CostOf(x)) \in Nat /\ AllRuns(CostOf(x)) \in Nat
          /\ Pending(OfTask(x)', CostOf(x)) <= AllRuns(CostOf(x))
      BY <3>1, PendingLess
    <3>3. taskCost'[x] = taskCost[x] /\ taskCost[x] \in Nat /\ TaskCap \in Nat
      BY <1>1
    <3> QED
      BY <1>1, <2>2, <3>2, <3>3
  <2> QED
    BY <2>1, <2>2
<1>7. ASSUME NEW o \in Billed, NEW d \in 0..MaxDay, d >= today
      PROVE  tenantDaily'[o][d] + Pending(OfTenant(o)', SupportCost)
                 < TenantCap + AllRuns(SupportCost)
  <2>1. CASE o # TenantOf[x]
    BY <1>1, <1>5, <1>7, <2>1 DEF TenantsBounded
  <2>2. CASE o = TenantOf[x]
    <3>1. OfTenant(o)' \in SUBSET Runs
      BY DEF OfTenant
    <3>2. /\ Pending(OfTenant(o)', SupportCost) \in Nat /\ AllRuns(SupportCost) \in Nat
          /\ Pending(OfTenant(o)', SupportCost) <= AllRuns(SupportCost)
      BY <3>1, PendingLess
    <3>3. tenantDaily[o][d] < TenantCap
      <4>1. ~IsGlobal(x)
        BY <2>2 DEF Billed, IsGlobal
      <4>2. d = today \/ d > today
        BY <1>7
      <4> QED
        BY <1>1, <2>2, <4>1, <4>2 DEF TenantsBounded
    <3>4. tenantDaily'[o][d] = tenantDaily[o][d] /\ tenantDaily[o][d] \in Nat /\ TenantCap \in Nat
      BY <1>1
    <3> QED
      BY <3>2, <3>3, <3>4
  <2> QED
    BY <2>1, <2>2
<1>8. TasksBounded'
  BY <1>6 DEF TasksBounded, CostOf, AllRuns, Pending, IsGlobal
<1>9. TenantsBounded'
  BY <1>1, <1>7 DEF TenantsBounded, AllRuns, Pending
<1> QED
  BY <1>8, <1>9

(* A run is over and counted: what it could still cost is now cost.        *)
LEMMA CountKeeps ==
    ASSUME CostInv, ControlTypeOK', NEW r \in Runs, FinishRun(r), ~halted,
           NEW x, x = run[r].context, NEW t, t = TenantOf[x],
           NEW more, more = taskCost[x] + CostOf(x)
    PROVE  CostInv'
<1> USE CostNumbers DEF CostInv
<1>1. x \in Contexts /\ run[r] # Off /\ run' = [run EXCEPT ![r] = Off] /\ today' = today
  BY DEF FinishRun
<1>2. run'[r] = Off /\ \A q \in Runs \ {r} : run'[q] = run[q]
  BY <1>1, TypeGives
<1>3. taskCost' = [taskCost EXCEPT ![x] = more]
  BY DEF FinishRun, TrackUsage
<1>4. taskCost'[x] = more /\ \A y \in Contexts \ {x} : taskCost'[y] = taskCost[y]
  BY <1>1, <1>3, TypeGives
<1>5. \/ UNCHANGED tenantDaily
      \/ ~IsGlobal(x) /\ tenantDaily' = [tenantDaily EXCEPT ![t][today] = @ + CostOf(x)]
  BY DEF FinishRun, TrackUsage
<1>6. /\ r \in OfTask(x) /\ OfTask(x)' = OfTask(x) \ {r}
      /\ \A y \in Contexts \ {x} : OfTask(y)' = OfTask(y)
  BY <1>1, <1>2 DEF OfTask
<1>7. \A o \in Billed : OfTenant(o)' \subseteq OfTenant(o)
  BY <1>2 DEF OfTenant
<1>8. t \in Billed => r \in OfTenant(t) /\ OfTenant(t)' = OfTenant(t) \ {r}
  BY <1>1, <1>2 DEF OfTenant
<1>9. ASSUME NEW y \in Contexts
      PROVE  taskCost'[y] + Pending(OfTask(y)', CostOf(y)) < TaskCap + AllRuns(CostOf(y))
  <2>1. CASE y # x
    BY <1>4, <1>6, <2>1 DEF TasksBounded
  <2>2. CASE y = x
    <3>1. Pending(OfTask(x)', CostOf(x)) = Pending(OfTask(x), CostOf(x)) - CostOf(x)
      BY <1>1, <1>6, PendingOneLess
    <3>2. taskCost[x] + Pending(OfTask(x), CostOf(x)) < TaskCap + AllRuns(CostOf(x))
      BY <1>1 DEF TasksBounded
    <3>3. /\ Pending(OfTask(x), CostOf(x)) \in Nat /\ AllRuns(CostOf(x)) \in Nat
          /\ taskCost[x] \in Nat /\ CostOf(x) \in Nat /\ TaskCap \in Nat
      BY <1>1, PendingLess
    <3>4. taskCost'[x] = taskCost[x] + CostOf(x)
      BY <1>4
    <3> QED
      BY <2>2, <3>1, <3>2, <3>3, <3>4
  <2> QED
    BY <2>1, <2>2
<1>10. ASSUME NEW o \in Billed, NEW d \in 0..MaxDay
       PROVE  \/ tenantDaily'[o][d] = tenantDaily[o][d]
              \/ /\ o = t /\ d = today /\ OfTenant(o)' = OfTenant(o) \ {r} /\ r \in OfTenant(o)
                 /\ tenantDaily'[o][d] = tenantDaily[o][d] + SupportCost
  <2>1. CASE UNCHANGED tenantDaily
    BY <2>1
  <2>2. CASE ~IsGlobal(x) /\ tenantDaily' = [tenantDaily EXCEPT ![t][today] = @ + CostOf(x)]
    <3>1. t \in Billed /\ CostOf(x) = SupportCost
      BY <1>1, <2>2
    <3>2. tenantDaily[o] \in [0..MaxDay -> Nat] /\ tenantDaily \in [Billed -> [0..MaxDay -> Nat]]
      BY TypeGives
    <3>3. CASE o # t
      BY <2>2, <3>1, <3>2, <3>3
    <3>4. CASE o = t
      <4> DEFINE days == tenantDaily[t]
      <4>1. tenantDaily'[t] = [days EXCEPT ![today] = days[today] + SupportCost]
        BY <2>2, <3>1, <3>2
      <4>2. days \in [0..MaxDay -> Nat]
        BY <3>1, TypeGives
      <4> HIDE DEF days
      <4>3. d # today => tenantDaily'[t][d] = days[d]
        BY <4>1, <4>2
      <4>4. d = today => tenantDaily'[t][d] = days[d] + SupportCost
        BY <4>1, <4>2
      <4> USE DEF days
      <4> QED
        BY <1>8, <3>1, <3>4, <4>3, <4>4
    <3> QED
      BY <3>3, <3>4
  <2> QED
    BY <1>5, <2>1, <2>2
<1>11. ASSUME NEW o \in Billed, NEW d \in 0..MaxDay, d >= today
       PROVE  tenantDaily'[o][d] + Pending(OfTenant(o)', SupportCost)
                  < TenantCap + AllRuns(SupportCost)
  <2>1. tenantDaily[o][d] + Pending(OfTenant(o), SupportCost) < TenantCap + AllRuns(SupportCost)
    BY <1>11 DEF TenantsBounded
  <2>2. /\ Pending(OfTenant(o), SupportCost) \in Nat /\ AllRuns(SupportCost) \in Nat
        /\ Pending(OfTenant(o)', SupportCost) \in Nat
        /\ Pending(OfTenant(o)', SupportCost) <= Pending(OfTenant(o), SupportCost)
        /\ tenantDaily[o][d] \in Nat /\ SupportCost \in Nat /\ TenantCap \in Nat
    BY <1>7, PendingLess
  <2>3. CASE tenantDaily'[o][d] = tenantDaily[o][d]
    BY <2>1, <2>2, <2>3
  <2>4. CASE /\ OfTenant(o)' = OfTenant(o) \ {r} /\ r \in OfTenant(o)
             /\ tenantDaily'[o][d] = tenantDaily[o][d] + SupportCost
    <3>1. Pending(OfTenant(o)', SupportCost) = Pending(OfTenant(o), SupportCost) - SupportCost
      BY <2>4, PendingOneLess
    <3> QED
      BY <2>1, <2>2, <2>4, <3>1
  <2> QED
    BY <1>10, <2>3, <2>4
<1>12. ASSUME NEW o \in Billed, NEW d \in 0..MaxDay
       PROVE  tenantDaily'[o][d] < TenantCap + AllRuns(SupportCost)
  <2>1. CASE d >= today
    <3>1. /\ Pending(OfTenant(o)', SupportCost) \in Nat /\ AllRuns(SupportCost) \in Nat
          /\ TenantCap \in Nat
      BY <1>7, PendingLess
    <3>2. tenantDaily'[o][d] \in Nat
      BY <1>10
    <3> QED
      BY <1>11, <2>1, <3>1, <3>2
  <2>2. CASE ~(d >= today)
    <3>1. tenantDaily'[o][d] = tenantDaily[o][d]
      BY <1>10, <2>2
    <3> QED
      BY <3>1 DEF TenantsBounded
  <2> QED
    BY <2>1, <2>2
<1>13. \A o \in Billed, d \in 0..MaxDay : d > today => tenantDaily'[o][d] = 0
  BY <1>10 DEF TenantsBounded
<1>14. TasksBounded'
  BY <1>9 DEF TasksBounded, CostOf, AllRuns, Pending, IsGlobal
<1>15. TenantsBounded'
  BY <1>1, <1>11, <1>12, <1>13 DEF TenantsBounded, AllRuns, Pending
<1> QED
  BY <1>14, <1>15

LEMMA CostInvStep == CostInv /\ [ControlNext]_controlVars => CostInv'
<1> SUFFICES ASSUME CostInv, [ControlNext]_controlVars PROVE CostInv'
  OBVIOUS
<1>1. ControlTypeOK'
  BY ControlTypeStep DEF CostInv
<1>2. ASSUME UNCHANGED <<run, taskCost, tenantDaily, today>> PROVE CostInv'
  BY <1>1, <1>2, FewerRuns DEF OfTask, OfTenant
<1>3. ASSUME NEW r \in Runs, FailRun(r) PROVE CostInv'
  <2>1. UNCHANGED <<taskCost, tenantDaily, today>> /\ run' = [run EXCEPT ![r] = Off]
    BY <1>3 DEF FailRun
  <2>2. \A q \in Runs : run'[q] = Off \/ run'[q] = run[q]
    BY <2>1, TypeGives DEF CostInv
  <2> QED
    BY <1>1, <2>1, <2>2, FewerRuns DEF OfTask, OfTenant
<1>4. ASSUME NEW r \in Runs, FinishRun(r) PROVE CostInv'
  <2>1. CASE ~halted
    BY <1>1, <1>4, <2>1, CountKeeps
  <2>2. CASE halted
    <3>1. UNCHANGED <<taskCost, tenantDaily, today>> /\ run' = [run EXCEPT ![r] = Off]
      BY <1>4, <2>2 DEF FinishRun, TrackUsage
    <3>2. \A q \in Runs : run'[q] = Off \/ run'[q] = run[q]
      BY <3>1, TypeGives DEF CostInv
    <3> QED
      BY <1>1, <3>1, <3>2, FewerRuns DEF OfTask, OfTenant
  <2> QED
    BY <2>1, <2>2
<1>5. CASE Midnight
  <2>1. UNCHANGED <<run, taskCost, tenantDaily>> /\ today' = today + 1
    BY <1>5 DEF Midnight, costVars
  <2>2. TasksBounded'
    BY <2>1 DEF CostInv, TasksBounded, OfTask, Pending, AllRuns
  <2>3. \A o \in Billed : OfTenant(o)' = OfTenant(o)
    BY <2>1 DEF OfTenant
  <2>4. TenantsBounded'
    BY <2>1, <2>3, CostNumbers DEF CostInv, TenantsBounded, Pending, AllRuns
  <2> QED
    BY <1>1, <2>2, <2>4 DEF CostInv
<1>6. \/ UNCHANGED <<run, taskCost, tenantDaily, today>>
      \/ \E r \in Runs, x \in Contexts : StartRun(r, x)
      \/ \E r \in Runs : FailRun(r) \/ FinishRun(r)
      \/ Midnight
  BY DEF ControlNext, controlVars, costVars, CreateSignedContext, VerifyAndParseContext, Janitor,
         RunSupportAssistant, RunGlobalResearch, SetGlobalCircuitBreaker, Clock
<1> QED
  BY <1>1, <1>2, <1>3, <1>4, <1>5, <1>6, StartKeeps

LEMMA CostInvInit == ControlInit => CostInv
<1> SUFFICES ASSUME ControlInit PROVE CostInv
  OBVIOUS
<1>1. ControlTypeOK
  BY ControlTypeInit
<1> USE <1>1, CostNumbers
<1>2. \A r \in Runs : run[r] = Off
  BY DEF ControlInit
<1>3. \A x \in Contexts : OfTask(x) = {} /\ taskCost[x] = 0
  BY <1>2 DEF ControlInit, OfTask
<1>4. \A o \in Billed : OfTenant(o) = {} /\ \A d \in 0..MaxDay : tenantDaily[o][d] = 0
  BY <1>2 DEF ControlInit, OfTenant
<1>5. \A c \in Nat : /\ Pending({}, c) \in Nat /\ AllRuns(c) \in Nat
                     /\ Pending({}, c) <= AllRuns(c)
  BY PendingLess
<1>6. ASSUME NEW x \in Contexts
      PROVE  taskCost[x] + Pending(OfTask(x), CostOf(x)) < TaskCap + AllRuns(CostOf(x))
  <2>1. CostOf(x) \in Nat /\ TaskCap \in Nat /\ TaskCap > 0
    OBVIOUS
  <2>2. /\ Pending({}, CostOf(x)) \in Nat /\ AllRuns(CostOf(x)) \in Nat
        /\ Pending({}, CostOf(x)) <= AllRuns(CostOf(x))
    BY <1>5, <2>1
  <2>3. taskCost[x] = 0 /\ OfTask(x) = {}
    BY <1>3
  <2> QED
    BY <2>1, <2>2, <2>3
<1>7. ASSUME NEW o \in Billed, NEW d \in 0..MaxDay
      PROVE  /\ tenantDaily[o][d] < TenantCap + AllRuns(SupportCost)
             /\ tenantDaily[o][d] + Pending(OfTenant(o), SupportCost)
                    < TenantCap + AllRuns(SupportCost)
             /\ tenantDaily[o][d] = 0
  <2>1. SupportCost \in Nat /\ TenantCap \in Nat /\ TenantCap > 0
    OBVIOUS
  <2>2. /\ Pending({}, SupportCost) \in Nat /\ AllRuns(SupportCost) \in Nat
        /\ Pending({}, SupportCost) <= AllRuns(SupportCost)
    BY <1>5, <2>1
  <2>3. tenantDaily[o][d] = 0 /\ OfTenant(o) = {}
    BY <1>4
  <2> QED
    BY <2>1, <2>2, <2>3
<1> QED
  BY <1>6, <1>7 DEF CostInv, TasksBounded, TenantsBounded

LEMMA OvershootFrom == CostInv => OvershootBounded
<1> SUFFICES ASSUME CostInv PROVE OvershootBounded
  OBVIOUS
<1> USE CostNumbers DEF CostInv
<1>1. ASSUME NEW x \in Contexts PROVE taskCost[x] < TaskCap + Cardinality(Runs) * CostOf(x)
  <2>1. taskCost[x] + Pending(OfTask(x), CostOf(x)) < TaskCap + AllRuns(CostOf(x))
    BY DEF TasksBounded
  <2>2. Pending(OfTask(x), CostOf(x)) \in Nat /\ AllRuns(CostOf(x)) \in Nat
    BY PendingLess
  <2>3. taskCost[x] < TaskCap + AllRuns(CostOf(x))
    BY <2>1, <2>2
  <2> QED
    BY <2>3 DEF AllRuns
<1>2. \A o \in Billed, d \in 0..MaxDay :
         tenantDaily[o][d] < TenantCap + Cardinality(Runs) * SupportCost
  BY DEF TenantsBounded, AllRuns
<1> QED
  BY <1>1, <1>2 DEF OvershootBounded

(* However many runs are started at the same time, a cap is exceeded by    *)
(* what they cost and by no more.                                          *)
THEOREM OvershootCorrect == ControlSpec => []OvershootBounded
  BY CostInvInit, CostInvStep, OvershootFrom, PTL DEF ControlSpec
=============================================================================
