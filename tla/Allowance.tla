------------------------------ MODULE Allowance ------------------------------
(***************************************************************************)
(* What a paid budget promises its owner: one ceiling for its whole life,  *)
(* reservations that only grow and never pass it, and no call that was not *)
(* reserved first.                                                         *)
(***************************************************************************)
EXTENDS Naturals

CONSTANTS Budgets, Limits

VARIABLES ceiling,     \* ceiling[b]: the frozen ceiling of b, 0 before the first plan
          reserved,    \* reserved[b]: cents set aside by authorized plans
          committed    \* committed[b]: cents of the calls sent so far

Init == /\ ceiling = [b \in Budgets |-> 0]
        /\ reserved = [b \in Budgets |-> 0]
        /\ committed = [b \in Budgets |-> 0]

Reserve(b) ==
    \E limit \in Limits : \E sum \in 1..limit :
        /\ ceiling[b] \in {0, limit}
        /\ sum > reserved[b]
        /\ ceiling' = [ceiling EXCEPT ![b] = limit]
        /\ reserved' = [reserved EXCEPT ![b] = sum]
        /\ UNCHANGED committed

Commit(b) ==
    \E sum \in 1..reserved[b] :
        /\ sum > committed[b]
        /\ committed' = [committed EXCEPT ![b] = sum]
        /\ UNCHANGED <<ceiling, reserved>>

Next == \E b \in Budgets : Reserve(b) \/ Commit(b)

Spec == Init /\ [][Next]_<<ceiling, reserved, committed>>
=============================================================================
