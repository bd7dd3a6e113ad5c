----------------------------- MODULE MCOperations -----------------------------
(***************************************************************************)
(* Small instances of Operations for TLC, one scene at a time: approvals   *)
(* with few rows, longer histories without approvals, or anything.         *)
(***************************************************************************)
EXTENDS Operations, TLC

CONSTANTS Scenes, FewRows, w1, w2, c1, p1, s1, l1, l2, g1

VARIABLE scene

NoParents == [g \in Grants |-> NoGrant]
Symmetric == Permutations(Workers) \union Permutations(Labels)

\* Behind the few rows nothing is planned, and nobody but a worker adds one.
RowsAreFew ==
    \A c \in Keys : Len(acquisitions[c]) >= FewRows =>
        order' = order /\ (acquisitions'[c] = acquisitions[c] \/ pc' # pc)

SceneInit == Init /\ scene \in Scenes

SceneNext ==
    /\ Next
    /\ scene = "approvals" => RowsAreFew
    /\ scene = "histories" => UNCHANGED grants
    /\ UNCHANGED scene

SceneSpec == SceneInit /\ [][SceneNext]_<<vars, scene>>
SceneLive == SceneSpec /\ Fairness
=============================================================================
