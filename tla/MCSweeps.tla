------------------------------ MODULE MCSweeps ------------------------------
(***************************************************************************)
(* The sweeps of the background workers for TLC, with fairness: the URL    *)
(* health check of the crawl targets and the sweeps over the links of      *)
(* companies.  The two share no state: a behaviour picks one of them and   *)
(* is a fair behaviour of it, while the other stays as it began.           *)
(***************************************************************************)
EXTENDS MCHealth, Profiles

CONSTANTS co1, co2, link1, s1, s2

VARIABLE part

sweepsVars == <<part, allVars, profVars>>

SweepsInit ==
    /\ HealthInit /\ ProfInit
    /\ \/ part = "profiles"
       \/ part = "health" /\ net = "contact" /\ \A c \in Companies : profile[c].url = NoLink

SweepsNext ==
    \/ part = "health" /\ HealthNext /\ UNCHANGED <<part, profVars>>
    \/ part = "profiles" /\ ProfNext /\ UNCHANGED <<part, allVars>>

(* The fairness of HealthFairSpec and of ProfFairSpec.                     *)
SweepsSpec ==
    /\ SweepsInit /\ [][SweepsNext]_sweepsVars
    /\ \A h \in Checkers : WF_allVars(part = "health" /\ CheckStep(h))
    /\ WF_allVars(part = "health" /\ Tick /\ UNCHANGED <<scraped, check>>)
    /\ \A s \in Passes : WF_profVars(part = "profiles" /\ Work(s))

----------------------------------------------------------------------------
(* A crawl target whose URL keeps failing is switched off by the sweeps of *)
(* the health check, unless dispatch cycles keep stamping it; said of the  *)
(* behaviours in which that check runs (FailingUrlIsSwitchedOff).          *)
DeadUrlIsSwitchedOff == part = "health" => FailingUrlIsSwitchedOff
=============================================================================
