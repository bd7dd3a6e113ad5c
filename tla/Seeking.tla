------------------------------ MODULE Seeking ------------------------------
(***************************************************************************)
(* How works become candidates: discover.py, population.py, classify.py    *)
(* and the parts of searchers.py that decide.                              *)
(*                                                                         *)
(* One command runs at a time, under the project's lock and with the       *)
(* project's files as it read them; it appends row after row and may be    *)
(* killed between any two.  A round's population is frozen by the first    *)
(* command that declares one.                                              *)
(*                                                                         *)
(* A work's metadata is known by what predicates read of it (its "facts"). *)
(***************************************************************************)
EXTENDS Naturals, Sequences, FiniteSets, SequencesExt

CONSTANTS
    Keys,      \* candidate keys
    Facts,     \* what predicates may read of a work
    Blank,     \* stands for a result with neither title nor address
    Queries,   \* the (topic, term, service) queries of the protocol, in its order
    Paged,     \* those asked of OpenAlex, whose results come in pages
    Results,   \* Results[q]: what the service holds for q, as [key, facts]
    PerQuery,  \* results asked for at once
    MaxPages,  \* the largest page budget given
    Rounds,
    Seed,      \* the facts of a manifest row
    Bare,      \* the facts of a reference nobody looked up
    Cited,     \* Cited[k]: in how many documents of the corpus k is cited
    Dois,      \* references that name a DOI
    Short,     \* references whose title is too short to look up
    Works,     \* Works[k]: the facts of the work k refers to, as OpenAlex has them
    Designs,   \* records [population, rules, threshold, manifest] of the project's files
    Unbound,   \* no population
    MaxEdits,  \* bound: edits of the project's files
    MaxJobs    \* bound: commands

ASSUME ServiceAssumption ==
    /\ Results \in [DOMAIN Results -> Seq([key : Keys \cup {Blank}, facts : Facts])]
    /\ Queries \in Seq(DOMAIN Results)
    /\ PerQuery \in Nat

ASSUME FactsAssumption == {Seed, Bare} \subseteq Facts /\ \A k \in DOMAIN Cited : Works[k] \in Facts

VARIABLES
    design,    \* the project's files
    frozen,    \* frozen[r]: r's row in populations.jsonl, or Unbound
    ledger,    \* ledger[k]: the rows of k in candidates.jsonl
    hits,      \* query_hits.jsonl
    searches,  \* queries.jsonl
    cites,     \* the keys in references.jsonl
    edits,     \* edits of the files so far
    jobs,      \* commands so far
    job        \* the command under way

seeking == <<design, frozen, ledger, hits, searches, cites, edits, jobs, job>>
found   == <<ledger, hits, searches>>

Unclassified == "none"
Unstated == 0        \* the total of a service that names none
Resolved == {"BY_DOI", "BY_TITLE"}

\* No command under way.  A search still has the queries of these numbers to do; query is the
\* one it asks, and pages, rows, total, failed and at are what it has of that one's answer.
NoJob == [kind |-> "none", round |-> Unbound, design |-> Unbound, todo |-> {}, query |-> 0,
          lookup |-> FALSE, budget |-> 1, stage |-> "asking", pages |-> 0, rows |-> <<>>,
          total |-> Unstated, failed |-> FALSE, at |-> 1]

-----------------------------------------------------------------------------
(***************************************************************************)
(* Populations and classes.                                                *)
(***************************************************************************)
Decide(policy, facts) == policy = Unbound \/ facts = Seed \/ facts \in policy

\* The first declared class whose rules match.
Classify(rules, facts) ==
    LET matching == SelectSeq(rules, LAMBDA rule : facts \in rule.facts)
    IN IF matching = <<>> THEN Unclassified ELSE Head(matching).class

HasCandidates(r) == \E k \in Keys : \E i \in DOMAIN ledger[k] : ledger[k][i].round = r

\* A population is neither changed nor removed, nor declared once there are candidates.
Permits(policy, r) == frozen[r] # policy => (frozen[r] = Unbound /\ ~HasCandidates(r))

Known(k)      == ledger[k] # <<>>
Current(k)    == Last(ledger[k])
RoundOf(k, r) == IF Known(k) THEN Current(k).round ELSE r

Candidate(facts, class, r, resolution) ==
    [facts |-> facts, class |-> class, round |-> r, resolution |-> resolution]
Inferred(facts, r, resolution) ==
    Candidate(facts, Classify(job.design.rules, facts), r, resolution)

-----------------------------------------------------------------------------
(***************************************************************************)
(* Commands.                                                               *)
(***************************************************************************)
Start(command) ==
    /\ job = NoJob /\ jobs < MaxJobs
    /\ jobs' = jobs + 1
    /\ job' = IF command.todo = {} THEN NoJob ELSE command
    /\ UNCHANGED <<design, found, cites, edits>>

Command(kind, r, todo) ==
    [NoJob EXCEPT !.kind = kind, !.round = r, !.design = design, !.todo = todo]

CheckRound(r) ==
    /\ Permits(design.population, r)
    /\ frozen' = [frozen EXCEPT ![r] = design.population]

\* One item of a command's is dealt with; the command is over after the last.
Dealt(k) == job' = IF job.todo = {k} THEN NoJob ELSE [job EXCEPT !.todo = @ \ {k}]

AppendCandidate(k, row) ==
    /\ ledger' = [ledger EXCEPT ![k] = Append(@, row)]
    /\ UNCHANGED <<design, frozen, hits, searches, cites, edits, jobs>>

Skip == UNCHANGED <<design, frozen, found, cites, edits, jobs>>

Kill ==
    /\ job # NoJob /\ job' = NoJob
    /\ UNCHANGED <<design, frozen, found, cites, edits, jobs>>

-----------------------------------------------------------------------------
(***************************************************************************)
(* The keyword channel.                                                    *)
(***************************************************************************)
First(n, chosen) == n \in chosen /\ \A m \in chosen : n <= m

StartSearch(r, chosen, budget) ==
    /\ CheckRound(r)
    /\ \E n \in chosen :
         /\ First(n, chosen)
         /\ Start([Command("search", r, chosen) EXCEPT !.query = n, !.budget = budget])

Query == Queries[job.query]
Searching(stage) == job.kind = "search" /\ job.stage = stage

NextPage ==
    LET rest == SubSeq(Results[Query], Len(job.rows) + 1, Len(Results[Query]))
    IN SubSeq(rest, 1, IF Len(rest) < PerQuery THEN Len(rest) ELSE PerQuery)

\* A page is followed while the last one was full, the total is not reached and the budget
\* is not spent; a service without pages is asked once and names no total.
AskPage ==
    /\ Searching("asking")
    /\ \E total \in IF Query \in Paged THEN {Unstated, Len(Results[Query])} ELSE {Unstated} :
         LET rows    == job.rows \o NextPage
             known   == IF total = Unstated THEN job.total ELSE total
             pages   == job.pages + 1
             reached == known # Unstated /\ Len(rows) >= known
             enough  == Len(NextPage) < PerQuery \/ reached \/ pages = job.budget \/ Query \notin Paged
         IN job' = [job EXCEPT !.rows = rows, !.total = known, !.pages = pages,
                               !.stage = IF enough THEN "taking" ELSE "asking"]
    /\ Skip

\* The rows of earlier pages stay.
PageFails ==
    /\ Searching("asking")
    /\ job' = [job EXCEPT !.pages = @ + 1, !.failed = TRUE, !.stage = "taking"]
    /\ Skip

Taking == Searching("taking") /\ job.at <= Len(job.rows)
Taken  == job.rows[job.at]
InPopulation(facts) == Decide(job.design.population, facts)

\* Mistake: a hit that is known was dealt with before.
RecordHitOnce ==
    LET hit == [round |-> job.round, query |-> Query, rank |-> job.at, key |-> Taken.key] IN
    /\ Taking /\ Taken.key # Blank
    /\ hits' = hits \cup {hit}
    /\ job' = IF hit \in hits THEN [job EXCEPT !.at = @ + 1] ELSE [job EXCEPT !.stage = "admitting"]
    /\ UNCHANGED <<design, frozen, ledger, searches, cites, edits, jobs>>

\* A hit is known by its query, rank and key: asking again adds none that is known.
RecordHit ==
    /\ Taking /\ Taken.key # Blank
    /\ hits' = hits \cup {[round |-> job.round, query |-> Query, rank |-> job.at, key |-> Taken.key]}
    /\ job' = [job EXCEPT !.stage = "admitting"]
    /\ UNCHANGED <<design, frozen, ledger, searches, cites, edits, jobs>>

PassBlank ==
    /\ Taking /\ Taken.key = Blank
    /\ job' = [job EXCEPT !.at = @ + 1]
    /\ Skip

NextRow == job' = [job EXCEPT !.stage = "taking", !.at = @ + 1]

Admit ==
    /\ Searching("admitting") /\ NextRow
    /\ IF InPopulation(Taken.facts) /\ ~Known(Taken.key)
       THEN AppendCandidate(Taken.key, Inferred(Taken.facts, job.round, "none"))
       ELSE Skip

\* How deep the query was read: capped, not capped, or not to be told.
Depth ==
    CASE job.total = Unstated      -> "unknown"
      [] job.total > Len(job.rows) -> "capped"
      [] OTHER                     -> "whole"

\* The row of a query is written after those of its results.
RecordQuery ==
    /\ Searching("taking") /\ job.at > Len(job.rows)
    /\ searches' = searches \cup {[round |-> job.round, query |-> Query, returned |-> Len(job.rows),
                                   depth |-> Depth, ok |-> ~job.failed]}
    /\ LET rest == job.todo \ {job.query} IN
       \/ rest = {} /\ job' = NoJob
       \/ \E n \in rest :
            /\ First(n, rest)
            /\ job' = [Command("search", job.round, rest) EXCEPT
                         !.design = job.design, !.budget = job.budget, !.query = n]
    /\ UNCHANGED <<design, frozen, ledger, hits, cites, edits, jobs>>

-----------------------------------------------------------------------------
(***************************************************************************)
(* The citation channel, and works a rejected claim named.                 *)
(***************************************************************************)
StartCitations(r, lookup) ==
    /\ CheckRound(r)
    /\ Start([Command("cite", r, cites) EXCEPT !.lookup = lookup])

\* What is held is looked at again only to look up what is unresolved, and only while the
\* round that holds it has the population it was found under.
Settled(k) == Known(k) /\ (Current(k).resolution \in Resolved \/ ~job.lookup)
\* Mistake: the round of the command is the one that was checked.
MayRetryUnchecked(k) == TRUE
MayRetry(k) == Known(k) => Permits(job.design.population, Current(k).round)

\* A work is believed only if it carries the reference's title, by whichever way it was found.
Resolution(byDoi, byTitle) ==
    CASE byDoi = "match"    -> "BY_DOI"
      [] byTitle = "failed" -> "LOOKUP_FAILED"
      [] byTitle = "match"  -> "BY_TITLE"
      [] byDoi = "failed"   -> "LOOKUP_FAILED"
      [] OTHER              -> "NO_MATCH"

Resolutions(k) ==
    IF ~job.lookup    THEN {"NOT_ATTEMPTED"}
    ELSE IF k \in Short THEN {"TITLE_TOO_SHORT"}
    ELSE {Resolution(d, t) : d \in IF k \in Dois THEN {"match", "other", "failed"} ELSE {"other"},
                             t \in {"match", "other", "failed"}}

LookedUp(k) ==
    {[resolution |-> r, facts |-> IF r \in Resolved THEN Works[k] ELSE Bare] : r \in Resolutions(k)}

PassReference(k) ==
    /\ job.kind = "cite" /\ k \in job.todo
    /\ Cited[k] < job.design.threshold \/ Settled(k)
    /\ Dealt(k) /\ Skip

Cite(k) ==
    /\ job.kind = "cite" /\ k \in job.todo
    /\ Cited[k] >= job.design.threshold /\ ~Settled(k)
    /\ MayRetry(k)
    /\ Dealt(k)
    /\ \E answer \in LookedUp(k) :
         IF InPopulation(answer.facts)
         THEN AppendCandidate(k, Inferred(answer.facts, RoundOf(k, job.round), answer.resolution))
         ELSE Skip

\* The command ends with an error; what it has written stays.
RefuseRetry(k) ==
    /\ job.kind = "cite" /\ k \in job.todo
    /\ Cited[k] >= job.design.threshold /\ ~Settled(k)
    /\ ~MayRetry(k)
    /\ job' = NoJob /\ Skip

\* Whatever the threshold says: a rejected claim named these.
StartPromotion(r, named) ==
    /\ CheckRound(r)
    /\ Start(Command("promote", r, named))

Promote(k) ==
    /\ job.kind = "promote" /\ k \in job.todo
    /\ Dealt(k)
    /\ IF ~Known(k) /\ InPopulation(Bare)
       THEN AppendCandidate(k, Inferred(Bare, job.round, "NOT_ATTEMPTED"))
       ELSE Skip

-----------------------------------------------------------------------------
(***************************************************************************)
(* Manifests, new rules, and what happens around the commands.             *)
(***************************************************************************)
StartImport(r) ==
    /\ CheckRound(r)
    /\ Start(Command("import", r, DOMAIN design.manifest))

\* A row whose facts are recorded already is not written again.
ImportRow(k, r) == Candidate(Seed, job.design.manifest[k], RoundOf(k, r), "none")

Import(k) ==
    /\ job.kind = "import" /\ k \in job.todo
    /\ Dealt(k)
    /\ IF Known(k) /\ Current(k) = ImportRow(k, job.round) THEN Skip
       ELSE AppendCandidate(k, ImportRow(k, job.round))

StartReclassify ==
    /\ UNCHANGED frozen
    /\ Start(Command("reclassify", Unbound, {k \in Keys : Known(k)}))

\* A manifest states its classes.
Reclassified(k) ==
    IF Current(k).facts = Seed THEN Current(k).class
    ELSE Classify(job.design.rules, Current(k).facts)

ReclassifyRow(k) ==
    /\ job.kind = "reclassify" /\ k \in job.todo
    /\ Dealt(k)
    /\ IF Reclassified(k) = Current(k).class THEN Skip
       ELSE AppendCandidate(k, [Current(k) EXCEPT !.class = Reclassified(k)])

\* A document of the corpus was read, and cites k.
ReadBibliography(k) ==
    /\ job = NoJob /\ k \notin cites
    /\ cites' = cites \cup {k}
    /\ UNCHANGED <<design, frozen, found, edits, jobs, job>>

EditDesign ==
    /\ edits < MaxEdits
    /\ edits' = edits + 1
    /\ design' \in Designs \ {design}
    /\ UNCHANGED <<frozen, found, cites, jobs, job>>

SeekingInit ==
    /\ design \in Designs
    /\ frozen = [r \in Rounds |-> Unbound]
    /\ ledger = [k \in Keys |-> <<>>]
    /\ hits = {} /\ searches = {} /\ cites = {}
    /\ edits = 0 /\ jobs = 0 /\ job = NoJob

SeekingNext ==
    \/ \E r \in Rounds : \/ \E chosen \in (SUBSET DOMAIN Queries) \ {{}} : \E budget \in 1..MaxPages :
                              StartSearch(r, chosen, budget)
                         \/ \E lookup \in BOOLEAN : StartCitations(r, lookup)
                         \/ \E named \in SUBSET cites : StartPromotion(r, named)
                         \/ StartImport(r)
    \/ StartReclassify
    \/ AskPage \/ PageFails \/ RecordHit \/ PassBlank \/ Admit \/ RecordQuery
    \/ \E k \in job.todo : \/ PassReference(k) \/ Cite(k) \/ RefuseRetry(k)
                           \/ Promote(k) \/ Import(k) \/ ReclassifyRow(k)
    \/ \E k \in DOMAIN Cited : ReadBibliography(k)
    \/ EditDesign \/ Kill

SeekingSpec == SeekingInit /\ [][SeekingNext]_seeking

-----------------------------------------------------------------------------
(***************************************************************************)
(* What is promised of the candidates.                                     *)
(***************************************************************************)

(* A round has one population: whatever becomes of the project's files, and whichever command *)
(* writes a row into the round, every candidate of a round with a declared population meets   *)
(* it or was declared by the manifest (population.py, "one predicate per round").             *)
PopulationIsFrozen ==
    \A k \in Keys : \A i \in DOMAIN ledger[k] :
        Decide(frozen[ledger[k][i].round], ledger[k][i].facts)

(* The row of a query speaks for what it says was returned: each result has its hit, those in *)
(* the round's population are candidates, and a depth that is said to be whole is the whole,  *)
(* after kills, failed pages and repetitions (discover.py, run; D113, D148).                  *)
QueryRowsAreHonest ==
    \A s \in searches :
        /\ \A n \in 1..s.returned :
             LET result == Results[s.query][n] IN
             result.key # Blank =>
                 /\ [round |-> s.round, query |-> s.query, rank |-> n, key |-> result.key] \in hits
                 /\ Decide(frozen[s.round], result.facts) => Known(result.key)
        /\ s.depth = "whole" => s.returned = Len(Results[s.query])

=============================================================================
