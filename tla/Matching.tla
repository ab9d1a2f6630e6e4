------------------------------ MODULE Matching ------------------------------
(***************************************************************************)
(* Which companies suit a programme: the first rows of the directory are   *)
(* scored for a request, sorted by an exchange sort and cut.  What the     *)
(* text of a company contains is a set of labels.                          *)
(***************************************************************************)
EXTENDS Integers, FiniteSets

CONSTANTS
    Rivals,         \* companies, numbered in the order of their names
    Looks,          \* what a company can be: tier, what its text contains, nearness
    Wishes,         \* requests: with a category or not, the location, the limit
    ReadAtMost,     \* LIMIT 100 of the query
    Longest, Usual  \* the largest limit, and the one in place of a wrong one

ASSUME MatchingAssumption ==
    /\ Rivals \subseteq Nat /\ IsFiniteSet(Rivals)
    /\ Looks \subseteq [tier : 1..3, says : SUBSET {"category", "keyword"}, near : BOOLEAN]
    /\ Wishes \subseteq [category : BOOLEAN, place : {"none", "named", "national"}, limit : Int]
    /\ ReadAtMost \in Nat /\ Longest \in Nat /\ Usual \in 1..Longest

VARIABLES
    look,       \* company.companies
    answer      \* the request that is answered: the rows while they are sorted, the answer

matchingVars == <<look, answer>>

NoAnswer == [pc |-> "none"]

MatchingInit == look \in [Rivals -> Looks] /\ answer = NoAnswer

----------------------------------------------------------------------------
(* ORDER BY priority_tier, name LIMIT 100: the rows that are read.         *)
Before(a, b) == look[a].tier < look[b].tier \/ (look[a].tier = look[b].tier /\ a < b)
Read == {c \in Rivals : Cardinality({d \in Rivals : Before(d, c)}) < ReadAtMost}
LastPlace == Cardinality(Read)

(* They come one by one, each once.                                        *)
Rows ==
    LET read == Read
        last == Cardinality(read)
    IN  {rows \in [1..last -> read] :
            /\ \A c \in read : \E i \in 1..last : rows[i] = c
            /\ \A i, j \in 1..last : i < j => Before(rows[i], rows[j])}

(* A keyword counts only when the category is not found.                   *)
FocusScore(w, c) ==
    IF w.category /\ "category" \in look[c].says THEN 40
    ELSE IF "keyword" \in look[c].says THEN 35
    ELSE 20

GeoScore(w, c) ==
    IF w.place # "none" /\ (look[c].near \/ w.place = "national" \/ look[c].tier = 1)
    THEN 30 ELSE 15

TierScore(c) == 40 - 10 * look[c].tier

Score(w, c) == FocusScore(w, c) + GeoScore(w, c) + TierScore(c)

Limit(w) == IF w.limit <= 0 \/ w.limit > Longest THEN Usual ELSE w.limit

(* The rows are read and given their scores.                               *)
MatchCompaniesForProgram(w) ==
    /\ answer.pc # "sort"
    /\ \E rows \in Rows :
          answer' = [pc |-> "sort", wish |-> w, rows |-> rows, i |-> 1, j |-> 2]
    /\ UNCHANGED look

(* Plausible bug: each place is compared with its neighbour only.          *)
NextPlacesOfNeighbours(i, j) == <<i + 1, i + 2>>

(* The two loops: place i is compared with all that follow it.             *)
NextPlaces(i, j) == IF j < LastPlace THEN <<i, j + 1>> ELSE <<i + 1, i + 2>>

(* The exchange sort: place i takes whatever scores more at once.          *)
Compare ==
    /\ answer.pc = "sort" /\ answer.i < LastPlace
    /\ LET i == answer.i
           j == answer.j
           s == answer.rows
           w == answer.wish
       IN  answer' = [pc   |-> "sort", wish |-> w,
                      rows |-> IF Score(w, s[j]) > Score(w, s[i])
                               THEN [s EXCEPT ![i] = s[j], ![j] = s[i]] ELSE s,
                      i |-> NextPlaces(i, j)[1], j |-> NextPlaces(i, j)[2]]
    /\ UNCHANGED look

(* The best of the rows are sent; the handlers add nothing.                *)
MatchProgram ==
    /\ answer.pc = "sort" /\ answer.i >= LastPlace
    /\ answer' = [pc |-> "sent", wish |-> answer.wish,
                  list |-> [i \in {p \in 1..LastPlace : p <= Limit(answer.wish)} |-> answer.rows[i]]]
    /\ UNCHANGED look

MatchingNext == (\E w \in Wishes : MatchCompaniesForProgram(w)) \/ Compare \/ MatchProgram

MatchingSpec == MatchingInit /\ [][MatchingNext]_matchingVars

----------------------------------------------------------------------------
(* The state is well typed.                                                *)
MatchingTypeOK ==
    /\ look \in [Rivals -> Looks]
    /\ answer \in {NoAnswer}
          \cup [pc : {"sort"}, wish : Wishes, rows : [1..LastPlace -> Read], i : Nat, j : Nat]
          \cup [pc : {"sent"}, wish : Wishes,
                list : UNION {[1..n -> Read] : n \in 0..LastPlace}]

Listed == {answer.list[i] : i \in DOMAIN answer.list}

(* The answer holds the best of the rows that were read, each once and the *)
(* better first; and though only the first rows are read, and the focus is *)
(* worth more than a tier, no company of the third tier is put above one   *)
(* of the first, read or not.                                              *)
BestAreListed ==
    answer.pc = "sent" =>
       LET w == answer.wish
           list == answer.list
       IN  /\ Listed = Read \/ DOMAIN list = 1..Limit(w)
           /\ \A i, j \in DOMAIN list : i < j => /\ list[i] # list[j]
                                                 /\ Score(w, list[i]) >= Score(w, list[j])
           /\ \A c \in Read \ Listed, d \in Listed : Score(w, c) <= Score(w, d)
           /\ \A c \in Rivals, d \in Listed :
                 look[c].tier = 1 /\ look[d].tier = 3 => Score(w, c) >= Score(w, d)
=============================================================================
