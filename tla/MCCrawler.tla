----------------------------- MODULE MCCrawler -----------------------------
(* Instances of Crawler for TLC.                                           *)
EXTENDS Crawler, TLC

CONSTANTS t1, t2, d1, d2, w1, w2, p1, p2

Done(c, k) == [status |-> "COMPLETED", code |-> c, content |-> k]
Fail(c)    == [status |-> "FAILED", code |-> c, content |-> NoContent]

(* The windows 30 minutes, 2, 6 and 24 hours, squeezed into the clock's    *)
(* horizon.                                                                *)
MCBackoff    == <<1, 1, 2, 2>>

(* A success, a success without content, a dead link, a throttled and a    *)
(* failed request; the scraper may leave the code out (0).                 *)
AllOutcomes  == {Done(200, "c1"), Done(0, NoContent), Fail(404), Fail(429), Fail(0)}
FewOutcomes  == {Done(200, "c1"), Fail(0)}
BreakerOutcomes == {Done(200, "c1"), Fail(404), Fail(429)}
Failures     == {Fail(429), Fail(500)}

Symmetry == Permutations({d1, d2}) \cup Permutations({w1, w2})
=============================================================================
