-------------------------------- MODULE Claims --------------------------------
(***************************************************************************)
(* From documents to the evidence of a question: normalize.py,             *)
(* chunk_sets.py, extract.py, claim_records.py, review.py and              *)
(* profile_inputs.py over the queues of model_call.py.                     *)
(*                                                                         *)
(* One question, one kind, one batch per lane.  A generation of a document *)
(* is one chunk, named for it.  The stages hold the project's lock and     *)
(* append one row after another; a kill may fall between any two, so a row *)
(* is a step.  What a gate decides of a record, and what it converts its   *)
(* figures to, depends on the version of its code alone.                   *)
(***************************************************************************)
EXTENDS Naturals, FiniteSets

CONSTANTS Sources, Chunks, Texts, Readers, Records,
          SourceOf, TextOf,    \* of a chunk
          Outputs,             \* what a valid answer may list: sets of records
          Verdicts,            \* of a review
          Gate,                \* Gate[v][x]: the conversion of x by version v, or None: rejected
          None

Versions == DOMAIN Gate

ASSUME DocumentsAssumption ==
    /\ IsFiniteSet(Sources) /\ None \notin Chunks \cup Readers
    /\ SourceOf \in [Chunks -> Sources] /\ TextOf \in [Chunks -> Texts]
    /\ 1 \in Versions /\ Versions \subseteq Nat

Claimed  == Chunks \X Readers \X Records      \* annotation ids: chunk, answer's reader, record
Unread   == [said |-> {}, ok |-> FALSE]
NoRow    == [rev |-> 0, by |-> 0]
NoReview == [by |-> None]
NoVerdict == [verdict |-> None, ok |-> FALSE]

VARIABLES
    docs,       \* docs[s]: the latest document row: a chunk, "refuted" or None
    asked,      \* asked[t]: the chunks that ask the extraction of text t
    answers,    \* answers[t][r]: r's stored answer, and whether it is judged valid
    yes, no,    \* yes[i], no[i]: latest claim and rejection: revision and version of the gate
    targets,    \* the claims a second reader was asked about, each with the annotation to judge
    second,     \* second[<<t, x, conversion>>][r]: r's verdict, and whether it is judged valid
    reviews,    \* reviews[i]: the latest review row
    gate        \* the version of the gate in the code

judgements == <<yes, no, targets, second, reviews, gate>>
claims     == <<docs, asked, answers, yes, no, targets, second, reviews, gate>>

ReaderOf(i) == i[2]
Text(i)     == TextOf[i[1]]

-----------------------------------------------------------------------------
(***************************************************************************)
(* Documents and their chunks.                                             *)
(***************************************************************************)
Active == {c \in Chunks : docs[SourceOf[c]] = c}

\* The document row comes after its chunks, and its manifest makes them the active ones: until
\* then no reader sees a generation whose writing was killed.
Normalize(s) ==
    /\ \E c \in {c \in Chunks : SourceOf[c] = s} \cup {"refuted"} :
           docs[s] # c /\ docs' = [docs EXCEPT ![s] = c]
    /\ UNCHANGED <<asked, answers, yes, no, targets, second, reviews, gate>>

-----------------------------------------------------------------------------
(***************************************************************************)
(* Extraction: calls are made once per text and answered once per reader.  *)
(***************************************************************************)

\* A batch of some of the active chunks: another chunk of the same text joins the call.
ExtractBuild ==
    /\ \E these \in SUBSET Active \ {{}} :
           asked' = [t \in Texts |-> asked[t] \cup {c \in these : TextOf[c] = t}]
    /\ asked' # asked
    /\ UNCHANGED <<docs, answers, yes, no, targets, second, reviews, gate>>

\* A reader answers; an answer judged invalid may be asked for again.
Drain(t, r) ==
    /\ asked[t] # {} /\ ~answers[t][r].ok
    /\ \E said \in Outputs, ok \in BOOLEAN : answers' = [answers EXCEPT ![t][r] = [said |-> said, ok |-> ok]]
    /\ UNCHANGED <<docs, asked, yes, no, targets, second, reviews, gate>>

\* The same bytes under other rules of judging.
Rejudge(t, r) ==
    /\ answers[t][r] # Unread
    /\ answers' = [answers EXCEPT ![t][r].ok = ~@]
    /\ UNCHANGED <<docs, asked, yes, no, targets, second, reviews, gate>>

\* The decision that stands: the later revision of the two ledgers.
Rejected(i) == no[i].rev > yes[i].rev
Held(i)     == IF Rejected(i) THEN no[i] ELSE yes[i]

SameDecision(i, accepts) == Held(i).rev > 0 /\ Rejected(i) = ~accepts /\ Held(i).by = gate

Proposed(i) ==
    LET said == answers[Text(i)][ReaderOf(i)]
    IN  said.ok /\ i[3] \in said.said /\ i[1] \in asked[Text(i)] /\ i[1] \in Active

\* One decision of the gate, unless the same one is already held.
Harvest(i) ==
    LET accepts == Gate[gate][i[3]] # None
        row     == [rev |-> Held(i).rev + 1, by |-> gate]
    IN  /\ Proposed(i) /\ ~SameDecision(i, accepts)
        /\ \/ accepts /\ yes' = [yes EXCEPT ![i] = row] /\ UNCHANGED no
           \/ ~accepts /\ no' = [no EXCEPT ![i] = row] /\ UNCHANGED yes
        /\ UNCHANGED <<docs, asked, answers, targets, second, reviews, gate>>

-----------------------------------------------------------------------------
(***************************************************************************)
(* What of the two ledgers is current.                                     *)
(***************************************************************************)

\* Its chunk is active and its reader's answer, as it is judged now, still holds the record.
Authoritative(i) ==
    LET said == answers[Text(i)][ReaderOf(i)] IN i[1] \in Active /\ said.ok /\ i[3] \in said.said

Decided    == {i \in Claimed : Held(i).rev > 0 /\ Authoritative(i)}
Accepted   == {i \in Decided : ~Rejected(i)}
Rejections == Decided \ Accepted

Annotation(i) == <<i[3], Gate[yes[i].by][i[3]]>>
Call(i, note) == <<Text(i), note[1], note[2]>>

-----------------------------------------------------------------------------
(***************************************************************************)
(* Review: a second reader, never the one who made the claim.              *)
(***************************************************************************)

StandsAsGiven(i) == reviews[i] # NoReview

\* It judged exactly this annotation, and its reader's answer is still judged valid.
Stands(i) ==
    LET review == reviews[i]
    IN  /\ review # NoReview /\ review.note = Annotation(i)
        /\ second[Call(i, review.note)][review.by] = [verdict |-> review.verdict, ok |-> TRUE]

Reviewed == {i \in Accepted : Stands(i)}

\* Every accepted claim that has no review yet, but those of the reader to be asked.
ReviewBuild ==
    /\ \E reviewer \in Readers :
           LET these == {i \in Accepted \ Reviewed : ReaderOf(i) # reviewer}
           IN  targets' = targets \cup {<<i, Annotation(i)>> : i \in these}
    /\ targets' # targets
    /\ UNCHANGED <<docs, asked, answers, yes, no, second, reviews, gate>>

ReviewDrain(r) ==
    /\ \E target \in targets, verdict \in Verdicts :
           LET call == Call(target[1], target[2])
           IN  /\ second[call][r].ok = FALSE
               /\ second' = [second EXCEPT ![call][r] = [verdict |-> verdict, ok |-> TRUE]]
    /\ UNCHANGED <<docs, asked, answers, yes, no, targets, reviews, gate>>

ReviewRejudge(r) ==
    /\ \E call \in DOMAIN second :
           second[call][r].verdict # None /\ second' = [second EXCEPT ![call][r].ok = ~@]
    /\ UNCHANGED <<docs, asked, answers, yes, no, targets, reviews, gate>>

\* Who asked is told apart from who answered only here.
Eligible(target, r) == ReaderOf(target[1]) # r

ReviewHarvest(r) ==
    /\ \E target \in targets :
           LET answer == second[Call(target[1], target[2])][r]
               row    == [by |-> r, verdict |-> answer.verdict, note |-> target[2]]
           IN  /\ answer.ok /\ Eligible(target, r)
               /\ reviews[target[1]] # row
               /\ reviews' = [reviews EXCEPT ![target[1]] = row]
    /\ UNCHANGED <<docs, asked, answers, yes, no, targets, second, gate>>

\* Other code is installed.
UpgradeGate ==
    /\ gate + 1 \in Versions /\ gate' = gate + 1
    /\ UNCHANGED <<docs, asked, answers, yes, no, targets, second, reviews>>

-----------------------------------------------------------------------------
(***************************************************************************)
(* What a profile is built from, when `acquired` are the sources held.     *)
(***************************************************************************)
InScope(acquired)   == {c \in Active : SourceOf[c] \in acquired}

Valid(c) == {r \in Readers : c \in asked[TextOf[c]] /\ answers[TextOf[c]][r].ok}

\* Every record of the answer has a current decision, of whichever version of the gate.
Gated(c, r) == \A x \in answers[TextOf[c]][r].said : <<c, r, x>> \in Decided

Blocking(acquired) ==
    LET chunks == InScope(acquired)
        mine(S) == {i \in S : i[1] \in chunks}
    IN  {why \in {"awaiting_extract", "awaiting_harvest", "awaiting_regate", "awaiting_review"} :
            \/ why = "awaiting_extract" /\ \E c \in chunks : Valid(c) = {}
            \/ why = "awaiting_harvest" /\ \E c \in chunks : Valid(c) # {} /\ \A r \in Valid(c) : ~Gated(c, r)
            \/ why = "awaiting_regate" /\ \E i \in mine(Decided) : Held(i).by # gate
            \/ why = "awaiting_review" /\ mine(Accepted \ Reviewed) # {}}

Evidence(acquired) ==
    LET chunks == InScope(acquired)
        mine   == {i \in Accepted : i[1] \in chunks}
    IN  [claims   |-> {<<i, Annotation(i)>> : i \in mine},
         reviews  |-> {<<i, reviews[i]>> : i \in mine \cap Reviewed},
         rejected |-> {<<i, no[i].by>> : i \in {j \in Rejections : j[1] \in chunks}},
         gates    |-> {Held(i).by : i \in mine},
         chunks   |-> chunks]

-----------------------------------------------------------------------------
Conversions == UNION {{Gate[v][x] : x \in Records} : v \in Versions} \ {None}

JudgementsInit ==
    /\ yes = [i \in Claimed |-> NoRow] /\ no = [i \in Claimed |-> NoRow]
    /\ targets = {}
    /\ second = [call \in Texts \X Records \X Conversions |-> [r \in Readers |-> NoVerdict]]
    /\ reviews = [i \in Claimed |-> NoReview]
    /\ gate = 1

ClaimsInit ==
    /\ docs = [s \in Sources |-> None]
    /\ asked = [t \in Texts |-> {}]
    /\ answers = [t \in Texts |-> [r \in Readers |-> Unread]]
    /\ JudgementsInit

Extracting(R) ==
    \/ ExtractBuild
    \/ \E t \in Texts, r \in R : Drain(t, r) \/ Rejudge(t, r)
    \/ \E i \in Claimed : Harvest(i)

Reviewing == ReviewBuild \/ \E r \in Readers : ReviewDrain(r) \/ ReviewRejudge(r) \/ ReviewHarvest(r)
=============================================================================
