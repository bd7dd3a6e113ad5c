------------------------------- MODULE MCOffice -------------------------------
(***************************************************************************)
(* Small instances of what happens beside the operations, for TLC: one     *)
(* scene at a time, each with the state of one module moving and that of   *)
(* the others as it began.                                                 *)
(***************************************************************************)
EXTENDS LedgerStore, Approvals, Desk, Outbox, TLC

CONSTANTS Scenes, ann, d1, c1, main, t1, t2, f1, f2, w1, w2, a, b, plan, host

VARIABLE scene

vars == <<scene, store, approvals, desk, outbox>>

Symmetric == Permutations(People)

\* The store: rows take turns with two digests.
OddsAndEvens == [r \in RowNumbers |-> IF r % 2 = 1 THEN w1 ELSE w2]

\* Approvals, with people planning by hand and one row per candidate, or two
\* rows and no plan but the policies': one window, one schedule of
\* every discovery, a copy and a retry policy after the same candidate.
AllDiscoveries == [s \in Schedules |-> Discoveries]
FoundByFirst   == [c \in Candidates |-> d1]
OnTheSchedule  == [p \in Copies |-> CHOOSE s \in Schedules : TRUE]
TermsOfPolicy  == [p \in Policies |-> IF p \in Copies THEN t1 ELSE t2]
Totals         == [p \in Policies |-> IF p \in Retries THEN 2 ELSE 1]
OneEach        == [r \in Retries |-> 1]
OneWindow      == [g \in Grants |-> main]

\* The desk: one file is the work, the other a version of it or another work.
Says     == (f1 :> (c1 :> "same")) @@ (f2 :> (c1 :> "other"))
Likeness == (a :> None) @@ (b :> "POSSIBLE_VERSION")

\* The outbox: one state, which comes and goes, and an occurrence that grows and vanishes.
Counts == (plan :> 1) @@ (host :> 2)

Init ==
    /\ scene \in Scenes
    /\ StoreInit /\ ApprovalsInit /\ DeskInit /\ OutboxInit
    /\ scene # "store" => blob = [d \in Digests |-> "absent"]

Next ==
    /\ UNCHANGED scene
    /\ \/ /\ scene = "store"
          /\ StoreNext
          /\ UNCHANGED <<approvals, desk, outbox>>
       \/ /\ scene \in {"approvals", "attempts"}
          /\ ApprovalsNext
          /\ IF scene = "approvals" THEN \A c \in Candidates : Len(outcomes'[c]) <= 1
             ELSE work' = NoWork => \A op \in Acquires : state'[op] = "planned" => state[op] = "planned"
          /\ UNCHANGED <<store, desk, outbox>>
       \/ /\ \/ /\ scene = "files"
                /\ (\E t \in Clerks : Receiving(t) \/ Deciding(t)) \/ Staging \/ KillServer
             \/ /\ scene = "references"
                /\ Proposing \/ \E t \in Clerks : Deciding(t)
             \/ /\ scene = "offers"
                /\ Buying \/ Staging \/ KillServer
          /\ UNCHANGED <<store, approvals, outbox>>
       \/ /\ scene = "outbox"
          /\ OutboxNext
          /\ UNCHANGED <<store, approvals, desk>>

Spec == Init /\ [][Next]_vars
=============================================================================
