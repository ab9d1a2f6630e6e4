----------------------------- MODULE MCBilling -----------------------------
(* Instances of Billing for TLC.                                           *)
EXTENDS Billing, TLC

CONSTANTS o1, o2, x1, x2, c1, w1, w2, r1

(* A seeded prospect of the larger plan and an organisation of the smaller.*)
MCTier == [o \in Orgs |-> IF o = o1 THEN "ENTERPRISE" ELSE "PRO"]

MCTrial == [o \in Orgs |-> "PRO"]

(* The notifications of a payment by virtual account.                      *)
VAKinds == {"pending", "settlement", "expire"}

Symmetry == Permutations({w1, w2}) \cup Permutations({x1, x2})
=============================================================================
