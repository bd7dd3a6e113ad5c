------------------------------ MODULE MCService ------------------------------
(* The control server, the ledger of people and the wizard's drafts, one scene at a time. *)
EXTENDS Control, Authoring

CONSTANTS Scenes, Ann, Secret, d1, d2, left, right, other, plain

VARIABLE scene

vars == <<control, authoring, scene>>

\* Two tabs of one draft, and one of another.
OpenIn == (left :> d1) @@ (right :> d1) @@ (other :> d2)

Symmetric == Permutations(Threads) \cup Permutations(Tokens) \cup Permutations(Keys)
             \cup Permutations(Requests)

NothingDrafted ==
    /\ draft = << >> /\ tab = << >> /\ dirs = << >> /\ stored = {}
    /\ making = Blank /\ today = 0 /\ serverKills = 0

Person1(role) ==
    [role |-> role, email |-> None, enabled |-> TRUE, sub |-> None, must_change |-> FALSE,
     credential |-> [word |-> Secret, salt |-> 0]]

Init ==
    /\ scene \in Scenes
    /\ ServerInit
    /\ \/ scene \in {"tabs", "names"} /\ AuthoringInit
       \/ scene \notin {"tabs", "names"} /\ NothingDrafted
    /\ \/ scene = "ledger" /\ AccountsInit
       \/ /\ scene # "ledger"
          /\ people = [i \in Ids |-> CASE i = Ann -> Person1("admin")
                                          [] i # Ann /\ scene = "people" -> Person1("operator")
                                          [] OTHER -> Nobody]
          /\ rows = 2 /\ tail = "whole"
    /\ \E mine \in Tokens :
           sessions = [k \in Tokens |-> IF scene = "keys" /\ k = mine THEN Session(Ann, Person1("admin"), 0)
                                      ELSE NoSession]

Next ==
    /\ UNCHANGED scene
    /\ \/ /\ \/ scene = "ledger" /\ AccountsNext /\ UNCHANGED <<server, clock, ran, forgotten>>
             \/ /\ scene = "doors"
                /\ \/ \E t \in Threads : Arrive(t, {"login", "password", "others"}, {Ann}) \/ Serve(t)
                   \/ CommandLine \/ Restart
                   \/ clock < 1 /\ Tick
             \/ /\ scene = "people"
                /\ \E t \in Threads : Arrive(t, {"login", "person"}, Ids) \/ Serve(t)
             \/ /\ scene = "keys"
                /\ \/ \E t \in Threads : Arrive(t, {"post", "logout"}, {Ann}) \/ Serve(t)
                   \/ Tick
          /\ UNCHANGED authoring
       \/ /\ \/ scene = "tabs"  /\ \E t \in {left, right} : Editing(t)
             \/ scene = "names" /\ \E t \in {left, other} : Editing(t) /\ \A d \in Drafts : draft'[d].files = Blank /\ draft'[d].text \in {plain, Blank}
             \/ scene \in {"tabs", "names"} /\ Creating
             \/ scene \in {"tabs", "names"} /\ Beside /\ (scene = "names" => today' = 0)
          /\ UNCHANGED control

Spec == Init /\ [][Next]_vars
=============================================================================
