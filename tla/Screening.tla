----------------------------- MODULE Screening -----------------------------
(***************************************************************************)
(* Observations about the relevance and the identity of found works:       *)
(* source_selection.py, and the plans tools/import_source_selection.py     *)
(* brings.                                                                 *)
(*                                                                         *)
(* A row is known by its content, the row it supersedes included.  A plan  *)
(* is frozen in a file; whoever imports it looks at the ledgers first,     *)
(* then takes the project's lock, replays both ledgers and appends what is *)
(* missing, row after row, and may be killed between any two.              *)
(***************************************************************************)
EXTENDS Naturals, Sequences, FiniteSets, SequencesExt

CONSTANTS
    Batch,      \* the candidates of a screening, in the plan's order
    Refined,    \* the one whose full text the plan judges
    Inventory,  \* the candidates of the frozen inventory
    Importers,
    Nil,        \* no row, no plan
    MaxPlans    \* bound: plans an importer brings

ASSUME BatchAssumption == Batch \in Seq(Range(Batch))

VARIABLES
    screened,   \* source_screening.jsonl
    related,    \* source_identity.jsonl
    plan,       \* plan[i]: the frozen plan of importer i, or Nil
    plans,      \* plans[i]: how many it has brought
    checked,    \* importers whose plan was held against the ledgers
    queue       \* queue[i]: Nil before the lock is taken, then the places it still appends

screening == <<screened, related, plan, plans, checked, queue>>

-----------------------------------------------------------------------------
(***************************************************************************)
(* Chains of observations.                                                 *)
(***************************************************************************)
Observation(k, level, by, over) == [key |-> k, level |-> level, by |-> by, over |-> over]

\* The last of k's among the first `upto` rows.
LatestIn(rows, upto, k) ==
    LET mine == {m \in 1..upto : rows[m].key = k}
    IN IF mine = {} THEN Nil ELSE rows[Max(mine)]

LatestOf(rows, k) == LatestIn(rows, Len(rows), k)

\* A full text is not judged again by an abstract.
Regresses(previous, row) ==
    previous # Nil /\ previous.level = "FULLTEXT" /\ row.level = "ABSTRACT"

\* Mistake: what a row says that it supersedes is not looked at.
ContinuesAny(previous, row) == ~Regresses(previous, row)

Continues(previous, row) == row.over = previous /\ ~Regresses(previous, row)

\* The rows there are, once each and one on another.
Replayed(rows) ==
    \A n \in DOMAIN rows :
        /\ Continues(LatestIn(rows, n - 1, rows[n].key), rows[n])
        /\ \A m \in 1..n - 1 : rows[m] # rows[n]

\* The places of a proposal whose rows are not there yet, a repetition left out.
New(rows, proposed) ==
    {n \in DOMAIN proposed : /\ \A i \in DOMAIN rows : rows[i] # proposed[n]
                             /\ \A m \in DOMAIN proposed : m < n => proposed[m] # proposed[n]}

\* What the row at place n finds, when those at the places before it are there.
Before(rows, proposed, places, n) ==
    LET k    == proposed[n].key
        mine == {m \in places : m < n /\ proposed[m].key = k}
    IN IF mine = {} THEN LatestOf(rows, k) ELSE proposed[Max(mine)]

Follow(rows, proposed, places) ==
    \A n \in places : Continues(Before(rows, proposed, places, n), proposed[n])

Fits(rows, proposed) == Replayed(rows) /\ Follow(rows, proposed, New(rows, proposed))

Within(rows) == \A i \in DOMAIN rows : rows[i].key \in Inventory

-----------------------------------------------------------------------------
(***************************************************************************)
(* Plans.  Whoever writes one knows the ledgers as they are then.          *)
(***************************************************************************)
Abstracts(by) == [n \in DOMAIN Batch |-> Observation(Batch[n], "ABSTRACT", by, Nil)]


\* The abstracts, one of them refined by its full text, and the identity of its copy.
FirstPlan(by) ==
    [screening |-> Abstracts(by) \o
                   <<Observation(Refined, "FULLTEXT", by, LatestOf(Abstracts(by), Refined))>>,
     identity  |-> <<Observation(Refined, "FULLTEXT", by, Nil)>>,
     replaces  |-> FALSE]

\* Other abstracts for all but the full text, each naming the row it supersedes.
ReplacementPlan(by) ==
    [screening |-> [n \in {n \in DOMAIN Batch : Batch[n] # Refined} |->
                      Observation(Batch[n], "ABSTRACT", by, LatestOf(screened, Batch[n]))],
     identity  |-> <<>>,
     replaces  |-> TRUE]

\* One more full text was read.
ReadingPlan(by, k) ==
    [screening |-> <<Observation(k, "FULLTEXT", by, LatestOf(screened, k))>>,
     identity  |-> <<>>,
     replaces  |-> FALSE]

Bring(i) ==
    /\ plan[i] = Nil /\ plans[i] < MaxPlans
    /\ plans' = [plans EXCEPT ![i] = @ + 1]
    /\ LET by == <<i, plans[i]>> IN
       \E new \in {FirstPlan(by), ReplacementPlan(by)} \cup {ReadingPlan(by, k) : k \in Range(Batch)} :
         plan' = [plan EXCEPT ![i] = new]
    /\ UNCHANGED <<screened, related, checked, queue>>

\* A plan nobody can import any more is put away.
Withdraw(i) ==
    /\ plan[i] # Nil /\ queue[i] = Nil
    /\ plan' = [plan EXCEPT ![i] = Nil]
    /\ checked' = checked \ {i}
    /\ UNCHANGED <<screened, related, plans, queue>>

-----------------------------------------------------------------------------
(***************************************************************************)
(* Imports.                                                                *)
(***************************************************************************)
\* The judged full text stands, and every row is there already or supersedes an abstract.
ReplacementHolds(p) ==
    /\ LatestOf(screened, Refined) # Nil /\ LatestOf(screened, Refined).level = "FULLTEXT"
    /\ \A n \in DOMAIN p.screening :
         LET row == p.screening[n]
             active == LatestOf(screened, row.key)
         IN active # row => (active # Nil /\ active = row.over /\ active.level = "ABSTRACT")

\* Both ledgers are replayed, and would go on with what is new of the plan.
Acceptable(p) == Fits(screened, p.screening) /\ Fits(related, p.identity)

\* Without the lock, and before anything is written.
Check(i) ==
    /\ plan[i] # Nil /\ i \notin checked
    /\ plan[i].replaces => ReplacementHolds(plan[i])
    /\ Acceptable(plan[i])
    /\ checked' = checked \cup {i}
    /\ UNCHANGED <<screened, related, plan, plans, queue>>

\* With the lock, nothing is taken from the look before.
TakeLock(i) ==
    /\ i \in checked /\ \A j \in Importers : queue[j] = Nil
    /\ Within(plan[i].screening) /\ Within(plan[i].identity) /\ Within(screened) /\ Within(related)
    /\ Acceptable(plan[i])
    /\ queue' = [queue EXCEPT ![i] =
                   [screening |-> New(screened, plan[i].screening),
                    identity  |-> New(related, plan[i].identity)]]
    /\ UNCHANGED <<screened, related, plan, plans, checked>>

\* The rows found new go out in the plan's order.
WriteScreening(i) ==
    /\ queue[i] # Nil
    /\ \E n \in queue[i].screening :
           /\ \A m \in queue[i].screening : n <= m
           /\ screened' = Append(screened, plan[i].screening[n])
           /\ queue' = [queue EXCEPT ![i].screening = @ \ {n}]
    /\ UNCHANGED <<related, plan, plans, checked>>

WriteIdentity(i) ==
    /\ queue[i] # Nil /\ queue[i].screening = {}
    /\ \E n \in queue[i].identity :
           /\ \A m \in queue[i].identity : n <= m
           /\ related' = Append(related, plan[i].identity[n])
           /\ queue' = [queue EXCEPT ![i].identity = @ \ {n}]
    /\ UNCHANGED <<screened, plan, plans, checked>>

Report(i) ==
    /\ queue[i] = [screening |-> {}, identity |-> {}]
    /\ queue' = [queue EXCEPT ![i] = Nil]
    /\ plan' = [plan EXCEPT ![i] = Nil]
    /\ checked' = checked \ {i}
    /\ UNCHANGED <<screened, related, plans>>

\* The lock goes with the process; the plan can be imported again.
KillImport(i) ==
    /\ queue[i] # Nil
    /\ queue' = [queue EXCEPT ![i] = Nil]
    /\ checked' = checked \ {i}
    /\ UNCHANGED <<screened, related, plan, plans>>

ScreeningInit ==
    /\ screened = <<>> /\ related = <<>>
    /\ plan = [i \in Importers |-> Nil] /\ plans = [i \in Importers |-> 0]
    /\ checked = {} /\ queue = [i \in Importers |-> Nil]

ScreeningNext ==
    \E i \in Importers : \/ Bring(i) \/ Withdraw(i) \/ Check(i) \/ TakeLock(i)
                         \/ WriteScreening(i) \/ WriteIdentity(i) \/ Report(i) \/ KillImport(i)

ScreeningSpec == ScreeningInit /\ [][ScreeningNext]_screening

-----------------------------------------------------------------------------
(***************************************************************************)
(* What is promised of the observations.                                   *)
(***************************************************************************)
Replays(rows) ==
    \A i \in DOMAIN rows :
        /\ rows[i].over = LatestIn(rows, i - 1, rows[i].key)
        /\ \A j \in 1..i - 1 : rows[j] # rows[i]

(* Importers that prepare from old looks at the ledgers, are killed in the middle and try     *)
(* again leave one unforked chain per candidate, each row once, and never an abstract over a  *)
(* full text: the ledgers can be replayed (source_selection.py, _replay).                     *)
ChainsReplay ==
    /\ Replays(screened) /\ Replays(related)
    /\ \A i \in DOMAIN screened :
         screened[i].over # Nil =>
           ~(screened[i].over.level = "FULLTEXT" /\ screened[i].level = "ABSTRACT")

=============================================================================
