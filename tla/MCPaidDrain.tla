----------------------------- MODULE MCPaidDrain -----------------------------
(***************************************************************************)
(* A small instance of PaidDrain for TLC: one metered mandate, and people  *)
(* whose own drains share its budget, which cannot pay for both.           *)
(***************************************************************************)
EXTENDS PaidDrain

CONSTANTS m1, b1

MandateTerms == [m \in Mandates |-> [cap |-> 2, budget |-> b1, ceiling |-> 3, cents |-> 1]]
PersonOffers ==
    {[size |-> 2, budget |-> b1, ceiling |-> 3, cents |-> 1, label |-> "by hand"],
     [size |-> 1, budget |-> NoBudget, ceiling |-> 0, cents |-> 0, label |-> "by hand"]}
=============================================================================
