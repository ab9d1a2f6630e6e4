---------------------------- MODULE Entitlement ----------------------------
(***************************************************************************)
(* What the billing of the backend promises: an organisation has at most   *)
(* one plan in force; a payment is recorded and its plan put in force in   *)
(* one step; no plan is ever in force without a cause, which is a payment  *)
(* for it, the trial, or a tier an administrator or the seed data gave the *)
(* organisation; and payments and given tiers are never taken back.        *)
(***************************************************************************)
CONSTANTS Organisations, PlanCodes, NoPlan, Trial

VARIABLES
    inForce,    \* the plan in force
    paid,       \* plans each organisation has paid for
    given       \* tiers each organisation was given

entitlement == <<inForce, paid, given>>

Entitled(o) == paid[o] \cup given[o] \cup {Trial}

Start ==
    /\ inForce = [o \in Organisations |-> NoPlan]
    /\ paid = [o \in Organisations |-> {}]
    /\ given \in [Organisations -> SUBSET PlanCodes]

Purchase(o, p) ==
    /\ paid' = [paid EXCEPT ![o] = @ \cup {p}]
    /\ inForce' = [inForce EXCEPT ![o] = p]
    /\ UNCHANGED given

Enter(o, p) ==
    /\ p \in Entitled(o)
    /\ inForce' = [inForce EXCEPT ![o] = p]
    /\ UNCHANGED <<paid, given>>

Give(o, p) ==
    /\ given' = [given EXCEPT ![o] = @ \cup {p}]
    /\ UNCHANGED <<inForce, paid>>

(* A restart of the backend gives seeded organisations their tier again    *)
(* and enters organisations without a plan into one they were given.       *)
Reseed(seed) ==
    /\ given' = [o \in Organisations |-> given[o] \cup seed[o]]
    /\ inForce' \in [Organisations -> PlanCodes]
    /\ \A o \in Organisations :
          IF inForce[o] = NoPlan THEN inForce'[o] \in given'[o]
                                 ELSE inForce'[o] = inForce[o]
    /\ UNCHANGED paid

Step ==
    \/ \E o \in Organisations, p \in PlanCodes :
          Purchase(o, p) \/ Enter(o, p) \/ Give(o, p)
    \/ \E seed \in [Organisations -> SUBSET PlanCodes] : Reseed(seed)

Promise == Start /\ [][Step]_entitlement

(* Every plan in force has a cause.                                        *)
NoFreePlan == \A o \in Organisations : inForce[o] \in Entitled(o) \cup {NoPlan}
=============================================================================
