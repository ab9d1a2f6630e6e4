------------------------------ MODULE MCHealth ------------------------------
(* Instances of CrawlerHealth for TLC.                                     *)
EXTENDS CrawlerHealth

CONSTANTS t1, t2, d1, w1, h1, h2

Done(c) == [status |-> "COMPLETED", code |-> c, content |-> "c1"]
Fail(c) == [status |-> "FAILED", code |-> c, content |-> NoContent]
Verdict(h, c) == [health |-> h, status |-> c]

MCBackoff == <<1, 1, 2, 2>>

ScrapeOutcomes == {Done(200), Fail(404), Fail(0)}
ScrapeFailures == {Fail(0)}

AllVerdicts == {Verdict("HEALTHY", 200), Verdict("DEGRADED", 429),
                Verdict("DEGRADED", 500), Verdict("DISABLED_DEAD_LINK", 404)}
OnlyErrors    == {Verdict("DEGRADED", 500), Verdict("DEGRADED", NoAnswer)}
=============================================================================
