-------------------------- MODULE CandidateHistory --------------------------
(***************************************************************************)
(* What acquisition promises about one project, with nothing said of how:  *)
(* every candidate has a history of outcomes that only grows.  A transfer  *)
(* adds an outcome only where the document is not held, and one that was   *)
(* planned only against the row its plan was frozen on.  A person may      *)
(* supply a copy at any time, and what is held may be judged again at any  *)
(* time, which may take it away and is no attempt to get it.               *)
(*                                                                         *)
(* Operations implements this module; the ledger it abstracts is           *)
(* acquisitions.jsonl.                                                     *)
(***************************************************************************)
EXTENDS Naturals, Sequences

CONSTANTS Keys,       \* candidates
          Plans,      \* frozen acquisition plans, each with a key and a prior
          Routine,    \* the routine campaign, which has no frozen plan
          Intake,     \* the campaign of supplied copies
          Regates     \* campaigns that judge again

Outcomes == {"acquired", "failed"}

VARIABLE history      \* history[c]: the outcome rows of candidate c, oldest first

Begun(c)  == history[c] # <<>>
Newest(c) == history[c][Len(history[c])]
Held(c)   == Begun(c) /\ Newest(c).outcome = "acquired"
Tried(c)  == IF Begun(c) THEN Newest(c).attempt ELSE 0

\* The newest row is the one at place n; before any row, place 0.
Stands(c, n) == IF Begun(c) THEN n \in 1..Len(history[c]) /\ history[c][n] = Newest(c) ELSE n = 0

Add(c, by, outcome, attempt) ==
    history' = [history EXCEPT ![c] =
        Append(@, [campaign |-> by, outcome |-> outcome, attempt |-> attempt])]

Init == history = [c \in Keys |-> <<>>]

Record(c, by, outcome) ==
    /\ ~Held(c)
    /\ by \in Plans => by.key = c /\ Stands(c, by.prior)
    /\ Add(c, by, outcome, Tried(c) + 1)

Supply(c) == Add(c, Intake, "acquired", Tried(c) + 1)

Rejudge(c, by, outcome) == Begun(c) /\ Add(c, by, outcome, Tried(c))

Next == \E c \in Keys :
            \/ Supply(c)
            \/ \E outcome \in Outcomes :
                   \/ \E by \in Plans \union {Routine} : Record(c, by, outcome)
                   \/ \E by \in Regates : Rejudge(c, by, outcome)

Spec == Init /\ [][Next]_history
=============================================================================
