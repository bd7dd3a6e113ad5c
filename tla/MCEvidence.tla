------------------------------ MODULE MCEvidence ------------------------------
(***************************************************************************)
(* Small instances of Journey for TLC, one scene at a time: documents and  *)
(* their readings under a round that is settled; copies and floors; people *)
(* signing while the round and the project's files move.                   *)
(***************************************************************************)
EXTENDS Journey

CONSTANTS s1, s2, c1, c2, c3, A, B, r1, r2, x, Scenes

VARIABLES scene, reader

Symmetric == Permutations({r1, r2})

vars == <<claims, round, scene, reader>>

ChunkSource == (c1 :> s1) @@ (c2 :> s1) @@ (c3 :> s2)
ChunkText   == (c1 :> A) @@ (c2 :> B) @@ (c3 :> A)

\* Three versions of the gate: two conversions of the record, then its rejection.
Gates == <<x :> 1, x :> 2, x :> None>>

Protocol(version, text, floor, own, mode, supplied) ==
    [version |-> version, text |-> text, date |-> version, floor |-> floor,
     floors |-> ("k" :> own) @@ ("l" :> None), mode |-> mode, supplied |-> supplied]

Base     == Protocol(1, "t", 50, None, "gate", "separate")
Strict   == Protocol(1, "t", 40, 100, "gate", "separate")
Lenient  == Protocol(1, "t", 50, 100, "partial", "separate")
Counting == Protocol(1, "t", 20, None, "gate", "count")
Reworded == Protocol(1, "u", 50, None, "gate", "separate")
Renewed  == Protocol(2, "u", 50, None, "gate", "separate")
AllProtocols == {Base, Strict, Lenient, Counting, Reworded, Renewed}

Copy == [NoCopy EXCEPT !.acquired = TRUE, !.dated = TRUE]

\* Either reader alone over a text two documents share, or both over one document.
\* Nothing is claimed: where nothing is read either, the calls are still to be made or answered.
Readings ==
    /\ docs = CASE scene = "copies" -> [s \in Sources |-> None]
                 [] scene = "upgrade" \/ (scene = "reviews" /\ reader = None) -> (s1 :> c1) @@ (s2 :> "refuted")
                 [] OTHER -> (s1 :> c1) @@ (s2 :> c3)
    /\ asked = CASE scene \in {"copies", "readings"} -> [t \in Texts |-> {}]
                  [] scene = "upgrade" -> (A :> {c1}) @@ (B :> {})
                  [] scene = "reviews" -> (A :> {c1, c3}) @@ (B :> {})
                  [] OTHER -> (A :> {c1, c3}) @@ (B :> {c2})
    /\ answers = [t \in Texts |-> [r \in Readers |-> [said |-> {}, ok |-> scene \in {"corpus", "protocols"}]]]

Init ==
    /\ scene \in Scenes
    /\ reader \in CASE scene \in {"readings", "upgrade"} -> Readers
                    [] scene = "reviews" -> Readers \cup {None}
                    [] OTHER -> {None}
    /\ Readings /\ JudgementsInit
    /\ project \in IF scene = "corpus" THEN {Strict, Lenient, Counting} ELSE {Base}
    /\ class = [s \in Sources |-> CASE scene = "copies" /\ s = s1 -> Unfound
                                  [] scene \in {"corpus", "protocols"} /\ s = s2 -> "l"
                                  [] OTHER -> "k"]
    /\ copies = [s \in Sources |-> IF scene = "copies" /\ s = s1 THEN <<>> ELSE <<Copy>>]
    /\ RoundInit(scene \notin {"corpus", "protocols"})

Next ==
    /\ UNCHANGED <<scene, reader>>
    /\ \/ /\ scene = "readings"
          /\ Normalize(s1) \/ Extracting({reader}) \/ UpgradeGate
          /\ UNCHANGED round
       \/ /\ scene = "reviews"
          /\ Extracting(IF reader = None THEN Readers ELSE {reader}) \/ Reviewing
          /\ UNCHANGED round
       \/ /\ scene = "upgrade"
          /\ Extracting({reader}) \/ Reviewing \/ UpgradeGate
          /\ UNCHANGED round
       \/ /\ scene = "copies"
          /\ \/ UNCHANGED docs /\ (Collect(s1) \/ Search \/ Repair)
             \/ UNCHANGED round /\ \E s \in Acquired : Normalize(s)
          /\ UNCHANGED <<asked, answers, judgements>>
       \/ /\ scene = "corpus"
          /\ \/ UNCHANGED claims /\ (Collect(s1) \/ Build \/ Show \/ AdjudicateCommand)
                /\ Len(copies'[s1]) <= 2
             \/ UNCHANGED round /\ Holds(s1) /\ Normalize(s1)
       \/ /\ scene = "protocols"
          /\ Judge \/ Reclassify(s1)
          /\ Cardinality(flows') <= 1   \* a request names one flow
          /\ UNCHANGED claims

Spec == Init /\ [][Next]_vars
=============================================================================
