---------------------------- MODULE SourcesProofs ----------------------------
(***************************************************************************)
(* Proofs about how works become candidates (Seeking) and about the        *)
(* packages that leave a project (Exports), for any services, designs,     *)
(* rounds, exporters and editions.                                         *)
(*                                                                         *)
(* Seeking: a command carries the population its round was frozen with,    *)
(* and what it has taken of an answer has its hits and its candidates.     *)
(***************************************************************************)
EXTENDS Seeking, Exports, TLAPS

Hits == [key: Keys \union {Blank}, facts: Facts]

Classes ==
    {Classify(d.rules, f) : d \in Designs, f \in Facts}
        \union UNION {{d.manifest[k] : k \in DOMAIN d.manifest} : d \in Designs}

Findings == {"none", "BY_DOI", "BY_TITLE", "LOOKUP_FAILED", "NO_MATCH", "NOT_ATTEMPTED",
             "TITLE_TOO_SHORT"}

Rows == [facts: Facts, class: Classes, round: Rounds, resolution: Findings]

Policies == {d.population : d \in Designs} \union {Unbound}

Items == DOMAIN Queries \union DOMAIN Cited \union Keys \union UNION {DOMAIN d.manifest : d \in Designs}

Jobs ==
    [kind: {"none", "search", "cite", "promote", "import", "reclassify"},
     round: Rounds \union {Unbound}, design: Designs \union {Unbound}, todo: SUBSET Items,
     query: Nat, lookup: BOOLEAN, budget: Nat, stage: {"asking", "taking", "admitting"},
     pages: Nat, rows: Seq(Hits), total: Nat, failed: BOOLEAN, at: Nat \ {0}]

QueryRows == [round: Rounds, query: DOMAIN Results, returned: Nat,
              depth: {"unknown", "capped", "whole"}, ok: BOOLEAN]

SeekingType ==
    /\ design \in Designs
    /\ frozen \in [Rounds -> Policies]
    /\ ledger \in [Keys -> Seq(Rows)]
    /\ searches \in SUBSET QueryRows
    /\ cites \in SUBSET DOMAIN Cited
    /\ job \in Jobs

\* A command that writes into a round carries the population the round is frozen with.
Working ==
    /\ job.kind = "none" => job = NoJob
    /\ job.kind # "none" => job.design \in Designs
    /\ job.kind \in {"search", "cite", "promote", "import"} =>
         job.round \in Rounds /\ frozen[job.round] = job.design.population
    /\ job.kind = "search" => job.query \in DOMAIN Queries /\ job.todo \subseteq DOMAIN Queries
    /\ job.kind = "cite" => job.todo \subseteq DOMAIN Cited
    /\ job.kind = "import" => job.todo \subseteq DOMAIN job.design.manifest
    /\ job.kind = "reclassify" => \A k \in job.todo : k \in Keys /\ Known(k)

\* The n-th result of q was dealt with for round r.
Obtained(r, q, n) ==
    Results[q][n].key # Blank =>
        /\ [round |-> r, query |-> q, rank |-> n, key |-> Results[q][n].key] \in hits
        /\ Decide(frozen[r], Results[q][n].facts) => Known(Results[q][n].key)

\* What a search has of the answer is the beginning of it, and is dealt with up to where it is.
Answered ==
    job.kind = "search" =>
        /\ Len(job.rows) <= Len(Results[Query])
        /\ \A n \in 1..Len(job.rows) : job.rows[n] = Results[Query][n]
        /\ job.total \in {Unstated, Len(Results[Query])}
        /\ job.at <= Len(job.rows) + 1
        /\ job.stage = "asking" => job.at = 1
        /\ job.stage = "admitting" =>
             /\ job.at <= Len(job.rows) /\ Taken.key # Blank
             /\ [round |-> job.round, query |-> Query, rank |-> job.at, key |-> Taken.key] \in hits
        /\ \A n \in 1..job.at - 1 : Obtained(job.round, Query, n)

Returned == \A s \in searches : s.returned <= Len(Results[s.query])

SeekingInv == SeekingType /\ Working /\ Answered /\ Returned /\ PopulationIsFrozen /\ QueryRowsAreHonest

-----------------------------------------------------------------------------
(***************************************************************************)
(* What only grows.                                                        *)
(***************************************************************************)
LEMMA ServiceTypes ==
    /\ \A q \in DOMAIN Results : Results[q] \in Seq(Hits)
    /\ \A n \in DOMAIN Queries : n \in Nat /\ Queries[n] \in DOMAIN Results
    /\ {Seed, Bare} \subseteq Facts
<1>1. \A q \in DOMAIN Results : Results[q] \in Seq(Hits)
    BY ServiceAssumption DEF Hits
<1>2. \A n \in DOMAIN Queries : n \in Nat /\ Queries[n] \in DOMAIN Results
    BY ServiceAssumption
<1> QED
    BY <1>1, <1>2, FactsAssumption

LEMMA OneMore ==
    ASSUME NEW S, NEW s \in Seq(S), NEW x \in S
    PROVE  /\ Append(s, x) \in Seq(S) /\ Append(s, x) # <<>>
           /\ \A i \in DOMAIN Append(s, x) :
                 \/ i = Len(s) + 1 /\ Append(s, x)[i] = x
                 \/ i \in DOMAIN s /\ Append(s, x)[i] = s[i]
    OBVIOUS

LEMMA NoJobIsAJob == NoJob \in Jobs
    BY DEF NoJob, Jobs, Unstated, Hits

Grows ==
    /\ hits \subseteq hits'
    /\ \A k \in Keys : Known(k) => Known(k)'
    /\ \A r \in Rounds : frozen'[r] = frozen[r] \/ frozen[r] = Unbound

LEMMA ObtainedStays ==
    ASSUME Grows, NEW r \in Rounds, NEW q \in DOMAIN Results, NEW n \in 1..Len(Results[q]),
           Obtained(r, q, n)
    PROVE  Obtained(r, q, n)'
<1>1. PICK result \in Hits : result = Results[q][n]
    BY ServiceTypes
<1>2. CASE result.key = Blank
    BY <1>1, <1>2 DEF Obtained
<1>3. CASE result.key # Blank
  <2>1. result.key \in Keys
      BY <1>3 DEF Hits
  <2>2. /\ [round |-> r, query |-> q, rank |-> n, key |-> result.key] \in hits
        /\ Decide(frozen[r], result.facts) => Known(result.key)
      BY <1>1, <1>3 DEF Obtained
  <2>3. [round |-> r, query |-> q, rank |-> n, key |-> result.key] \in hits'
      BY <2>2 DEF Grows
  <2>4. Decide(frozen'[r], result.facts) => Decide(frozen[r], result.facts)
      BY DEF Grows, Decide
  <2>5. Known(result.key) => Known(result.key)'
      BY <2>1 DEF Grows
  <2>6. Decide(frozen'[r], result.facts) => Known(result.key)'
      BY <2>2, <2>4, <2>5
  <2> QED
      BY <1>1, <2>3, <2>6 DEF Obtained
<1> QED
    BY <1>2, <1>3

LEMMA RowsStayHonest ==
    ASSUME SeekingType, Returned, QueryRowsAreHonest, Grows, searches' = searches
    PROVE  Returned' /\ QueryRowsAreHonest'
<1>1. Returned'
    BY DEF Returned
<1>2. ASSUME NEW s \in searches
      PROVE  /\ \A n \in 1..s.returned : Obtained(s.round, s.query, n)'
             /\ s.depth = "whole" => s.returned = Len(Results[s.query])
  <2>1. PICK x \in QueryRows : x = s
      BY DEF SeekingType
  <2>2. /\ \A n \in 1..x.returned : Obtained(x.round, x.query, n)
        /\ x.depth = "whole" => x.returned = Len(Results[x.query])
        /\ x.returned <= Len(Results[x.query])
      BY <2>1 DEF QueryRowsAreHonest, Returned, Obtained
  <2>3. x.round \in Rounds /\ x.query \in DOMAIN Results /\ x.returned \in Nat
        /\ Len(Results[x.query]) \in Nat
      BY ServiceTypes DEF QueryRows
  <2>4. ASSUME NEW n \in 1..x.returned
        PROVE  Obtained(x.round, x.query, n)'
    <3>1. n \in 1..Len(Results[x.query])
        BY <2>2, <2>3
    <3> QED
        BY <2>2, <2>3, <3>1, ObtainedStays
  <2> QED
      BY <2>1, <2>2, <2>4
<1>3. QueryRowsAreHonest'
    BY <1>2 DEF QueryRowsAreHonest, Obtained
<1> QED
    BY <1>1, <1>3

\* What a search has stays dealt with while the search goes on as it is.
LEMMA SearchStays ==
    ASSUME SeekingType, Working, Answered, job.kind = "search", Grows,
           NEW r, r = job.round, NEW q, q = Query, NEW m \in 1..job.at
    PROVE  \A n \in 1..m - 1 : Obtained(r, q, n)'
<1>1. /\ r \in Rounds /\ q \in DOMAIN Results /\ job.at \in Nat
      /\ Len(job.rows) \in Nat /\ Len(Results[q]) \in Nat
    BY ServiceTypes DEF Working, SeekingType, Jobs, Query
<1>2. ASSUME NEW n \in 1..m - 1
      PROVE  Obtained(r, q, n)'
  <2>1. n \in 1..Len(Results[q]) /\ n \in 1..job.at - 1
      BY <1>1 DEF Answered
  <2> QED
      BY <1>1, <2>1, ObtainedStays DEF Answered
<1> QED
    BY <1>2

-----------------------------------------------------------------------------
(***************************************************************************)
(* Steps that move the command on and write nothing.                       *)
(***************************************************************************)
LEMMA MovingOn ==
    ASSUME SeekingInv, Skip, job' \in Jobs, Working', Answered'
    PROVE  SeekingInv'
<1>1. SeekingType'
    BY DEF SeekingInv, SeekingType, Skip, found
<1>2. Grows
    BY DEF Grows, Skip, found, Known
<1>3. Returned' /\ QueryRowsAreHonest'
    BY <1>2, RowsStayHonest DEF SeekingInv, Skip, found
<1>4. PopulationIsFrozen'
    BY DEF SeekingInv, PopulationIsFrozen, Skip, found
<1> QED
    BY <1>1, <1>3, <1>4 DEF SeekingInv

LEMMA Over ==
    ASSUME job' = NoJob
    PROVE  job' \in Jobs /\ Working' /\ Answered'
    BY NoJobIsAJob DEF Working, Answered, NoJob

LEMMA Kills ==
    ASSUME SeekingInv, Kill \/ \E k : RefuseRetry(k)
    PROVE  SeekingInv'
    BY Over, MovingOn DEF Kill, RefuseRetry, Skip

\* One item less.
LEMMA Deals ==
    ASSUME SeekingType, Working, NEW k, k \in job.todo,
           job.kind \in {"cite", "promote", "import", "reclassify"}, Dealt(k),
           UNCHANGED frozen, \A h \in Keys : Known(h) => Known(h)'
    PROVE  job' \in Jobs /\ Working' /\ Answered'
<1>1. CASE job' = NoJob
    BY <1>1, Over
<1>2. CASE job' = [job EXCEPT !.todo = @ \ {k}]
  <2>1. job' \in Jobs
      BY <1>2 DEF SeekingType, Jobs
  <2>2. /\ job'.kind = job.kind /\ job'.round = job.round /\ job'.design = job.design
        /\ job'.todo = job.todo \ {k}
      BY <1>2 DEF SeekingType, Jobs
  <2>3. Working'
      BY <2>2 DEF Working
  <2>4. Answered'
      BY <2>2 DEF Answered
  <2> QED
      BY <2>1, <2>3, <2>4
<1> QED
    BY <1>1, <1>2 DEF Dealt

LEMMA PassesReference ==
    ASSUME SeekingInv, NEW k, PassReference(k)
    PROVE  SeekingInv'
<1>1. job' \in Jobs /\ Working' /\ Answered'
    BY Deals DEF PassReference, Skip, found, SeekingInv, Known
<1> QED
    BY <1>1, MovingOn DEF PassReference

-----------------------------------------------------------------------------
(***************************************************************************)
(* A candidate's row.                                                      *)
(***************************************************************************)
LEMMA Appended ==
    ASSUME SeekingInv, NEW k, NEW row \in Rows, AppendCandidate(k, row),
           k \in Keys => Decide(frozen[row.round], row.facts)
    PROVE  /\ ledger' \in [Keys -> Seq(Rows)]
           /\ PopulationIsFrozen'
           /\ Grows
           /\ k \in Keys => Known(k)'
<1>1. ledger' = [ledger EXCEPT ![k] = Append(@, row)] /\ frozen' = frozen /\ hits' = hits
    BY DEF AppendCandidate
<1>2. \A h \in Keys : ledger[h] \in Seq(Rows) /\ ledger \in [Keys -> Seq(Rows)]
    BY DEF SeekingInv, SeekingType
<1>3. \A h \in Keys : ledger'[h] = IF h = k THEN Append(ledger[h], row) ELSE ledger[h]
    BY <1>1, <1>2
<1> DEFINE longer(h) == Append(ledger[h], row)
<1>4. ASSUME NEW h \in Keys
      PROVE  /\ longer(h) \in Seq(Rows) /\ longer(h) # <<>>
             /\ \A i \in DOMAIN longer(h) :
                   \/ i = Len(ledger[h]) + 1 /\ longer(h)[i] = row
                   \/ i \in DOMAIN ledger[h] /\ longer(h)[i] = ledger[h][i]
  <2>1. ledger[h] \in Seq(Rows)
      BY <1>2
  <2> QED
      BY ONLY <2>1, row \in Rows, OneMore
<1>5. \A h \in Keys : ledger'[h] = IF h = k THEN longer(h) ELSE ledger[h]
    BY <1>3
<1> HIDE DEF longer
<1>6. ledger' \in [Keys -> Seq(Rows)]
  <2>1. \A h \in Keys : ledger'[h] \in Seq(Rows)
      BY <1>2, <1>4, <1>5
  <2>2. ledger' = [h \in Keys |-> ledger'[h]]
      BY <1>1 DEF SeekingInv, SeekingType
  <2> QED
      BY <2>1, <2>2
<1>7. ASSUME NEW h \in Keys, NEW i \in DOMAIN ledger'[h]
      PROVE  Decide(frozen'[ledger'[h][i].round], ledger'[h][i].facts)
  <2>1. CASE ledger'[h][i] = row /\ h = k
      BY <1>1, <2>1
  <2>2. CASE i \in DOMAIN ledger[h] /\ ledger'[h][i] = ledger[h][i]
      BY <1>1, <2>2 DEF SeekingInv, PopulationIsFrozen
  <2> QED
      BY <1>4, <1>5, <1>7, <2>1, <2>2
<1>8. PopulationIsFrozen'
    BY <1>7 DEF PopulationIsFrozen
<1>9. \A h \in Keys : (Known(h) => Known(h)') /\ (h = k => Known(h)')
    BY <1>2, <1>4, <1>5 DEF Known
<1> QED
    BY <1>1, <1>6, <1>8, <1>9 DEF Grows

LEMMA Writing ==
    ASSUME SeekingInv, NEW k, NEW row \in Rows, AppendCandidate(k, row),
           k \in Keys => Decide(frozen[row.round], row.facts),
           k \in job.todo, job.kind \in {"cite", "promote", "import", "reclassify"}, Dealt(k)
    PROVE  SeekingInv'
<1>1. /\ ledger' \in [Keys -> Seq(Rows)]
      /\ PopulationIsFrozen'
      /\ Grows
    BY Appended
<1>2. job' \in Jobs /\ Working' /\ Answered'
    BY <1>1, Deals DEF AppendCandidate, SeekingInv, Grows
<1>3. SeekingType'
    BY <1>1, <1>2 DEF SeekingInv, SeekingType, AppendCandidate
<1>4. Returned' /\ QueryRowsAreHonest'
    BY <1>1, RowsStayHonest DEF SeekingInv, AppendCandidate
<1> QED
    BY <1>1, <1>2, <1>3, <1>4 DEF SeekingInv

LEMMA Passing ==
    ASSUME SeekingInv, NEW k, Skip,
           k \in job.todo, job.kind \in {"cite", "promote", "import", "reclassify"}, Dealt(k)
    PROVE  SeekingInv'
<1>1. job' \in Jobs /\ Working' /\ Answered'
    BY Deals DEF Skip, found, SeekingInv, Known
<1> QED
    BY <1>1, MovingOn

LEMMA RowTypes ==
    ASSUME SeekingType
    PROVE  /\ \A d \in Designs, f \in Facts : Classify(d.rules, f) \in Classes
           /\ \A d \in Designs : \A k \in DOMAIN d.manifest : d.manifest[k] \in Classes
           /\ \A k \in Keys : Known(k) => /\ Current(k) \in Rows
                                         /\ \E i \in DOMAIN ledger[k] : Current(k) = ledger[k][i]
<1>1. /\ \A d \in Designs, f \in Facts : Classify(d.rules, f) \in Classes
      /\ \A d \in Designs : \A k \in DOMAIN d.manifest : d.manifest[k] \in Classes
    BY DEF Classes
<1>2. ASSUME NEW k \in Keys, Known(k)
      PROVE  Current(k) \in Rows /\ \E i \in DOMAIN ledger[k] : Current(k) = ledger[k][i]
  <2>1. ledger[k] \in Seq(Rows) /\ ledger[k] # <<>>
      BY <1>2 DEF SeekingType, Known
  <2>2. Len(ledger[k]) \in DOMAIN ledger[k] /\ Last(ledger[k]) = ledger[k][Len(ledger[k])]
      BY <2>1 DEF Last
  <2> QED
      BY <2>1, <2>2 DEF Current
<1> QED
    BY <1>1, <1>2

LEMMA Cites ==
    ASSUME SeekingInv, NEW k, Cite(k)
    PROVE  SeekingInv'
<1>1. /\ job.kind = "cite" /\ k \in job.todo /\ Dealt(k) /\ MayRetry(k)
      /\ job.design \in Designs /\ job.round \in Rounds
      /\ frozen[job.round] = job.design.population /\ k \in DOMAIN Cited
    BY DEF Cite, SeekingInv, Working
<1>2. CASE Skip
    BY <1>1, <1>2, Passing
<1>3. CASE ~Skip
  <2>1. PICK answer \in LookedUp(k) :
          /\ InPopulation(answer.facts)
          /\ AppendCandidate(k, Inferred(answer.facts, RoundOf(k, job.round), answer.resolution))
      BY <1>3 DEF Cite
  <2>2. answer.resolution \in Findings /\ answer.facts \in Facts
      BY <1>1, FactsAssumption, ServiceTypes DEF LookedUp, Resolutions, Resolution, Findings
  <2> DEFINE r == RoundOf(k, job.round)
             row == Inferred(answer.facts, r, answer.resolution)
  <2>3. k \in Keys => r \in Rounds /\ Decide(frozen[r], answer.facts)
    <3>1. CASE k \in Keys /\ Known(k)
      <4>1. r = Current(k).round /\ r \in Rounds
          BY <3>1, RowTypes DEF RoundOf, SeekingInv, Rows
      <4>2. HasCandidates(r)
          BY <3>1, <4>1, RowTypes DEF HasCandidates, SeekingInv
      <4>3. Permits(job.design.population, r)
          BY <1>1, <3>1, <4>1 DEF MayRetry
      <4>4. frozen[r] = job.design.population
          BY <4>2, <4>3 DEF Permits
      <4> QED
          BY <2>1, <4>1, <4>4 DEF InPopulation
    <3>2. CASE ~Known(k)
        BY <1>1, <2>1, <3>2 DEF RoundOf, InPopulation
    <3> QED
        BY <3>1, <3>2
  <2>4. CASE k \in Keys
    <3>1. row \in Rows /\ row.round = r /\ row.facts = answer.facts
        BY <1>1, <2>2, <2>3, <2>4, RowTypes DEF Inferred, Candidate, Rows, SeekingInv
    <3> HIDE DEF row, r
    <3> QED
        BY <1>1, <2>1, <2>3, <3>1, Writing DEF row, r
  <2>5. CASE k \notin Keys
    <3>1. ledger' = ledger
        BY <2>1, <2>5 DEF AppendCandidate, SeekingInv, SeekingType
    <3> QED
        BY <1>1, <2>1, <3>1, Passing DEF AppendCandidate, Skip, found
  <2> QED
      BY <2>4, <2>5
<1> QED
    BY <1>2, <1>3

LEMMA Promotes ==
    ASSUME SeekingInv, NEW k, Promote(k)
    PROVE  SeekingInv'
<1>1. /\ job.kind = "promote" /\ k \in job.todo /\ Dealt(k)
      /\ job.design \in Designs /\ job.round \in Rounds
      /\ frozen[job.round] = job.design.population
    BY DEF Promote, SeekingInv, Working
<1>2. CASE Skip
    BY <1>1, <1>2, Passing
<1>3. CASE ~Skip
  <2> DEFINE row == Inferred(Bare, job.round, "NOT_ATTEMPTED")
  <2>1. InPopulation(Bare) /\ AppendCandidate(k, row)
      BY <1>3 DEF Promote
  <2>2. row \in Rows /\ row.round = job.round /\ row.facts = Bare
      BY <1>1, ServiceTypes, RowTypes DEF Inferred, Candidate, Rows, Findings, SeekingInv
  <2>3. Decide(frozen[row.round], row.facts)
      BY <1>1, <2>1, <2>2 DEF InPopulation
  <2> HIDE DEF row
  <2> QED
      BY <1>1, <2>1, <2>2, <2>3, Writing
<1> QED
    BY <1>2, <1>3

LEMMA Imports ==
    ASSUME SeekingInv, NEW k, Import(k)
    PROVE  SeekingInv'
<1>1. /\ job.kind = "import" /\ k \in job.todo /\ Dealt(k)
      /\ job.design \in Designs /\ job.round \in Rounds /\ k \in DOMAIN job.design.manifest
    BY DEF Import, SeekingInv, Working
<1>2. CASE Skip
    BY <1>1, <1>2, Passing
<1>3. CASE ~Skip
  <2> DEFINE row == ImportRow(k, job.round)
  <2>1. AppendCandidate(k, row)
      BY <1>3 DEF Import
  <2>2. CASE k \in Keys
    <3>1. row \in Rows /\ row.facts = Seed
        BY <1>1, <2>2, ServiceTypes, RowTypes
           DEF ImportRow, Candidate, RoundOf, Rows, Findings, SeekingInv
    <3>2. Decide(frozen[row.round], row.facts)
        BY <3>1 DEF Decide
    <3> HIDE DEF row
    <3> QED
        BY <1>1, <2>1, <3>1, <3>2, Writing
  <2>3. CASE k \notin Keys
    <3>1. ledger' = ledger
        BY <2>1, <2>3 DEF AppendCandidate, SeekingInv, SeekingType
    <3> QED
        BY <1>1, <2>1, <3>1, Passing DEF AppendCandidate, Skip, found
  <2> QED
      BY <2>2, <2>3
<1> QED
    BY <1>2, <1>3

LEMMA Reclassifies ==
    ASSUME SeekingInv, NEW k, ReclassifyRow(k)
    PROVE  SeekingInv'
<1>1. /\ job.kind = "reclassify" /\ k \in job.todo /\ Dealt(k)
      /\ job.design \in Designs /\ k \in Keys /\ Known(k)
    BY DEF ReclassifyRow, SeekingInv, Working
<1>2. CASE Skip
    BY <1>1, <1>2, Passing
<1>3. CASE ~Skip
  <2> DEFINE row == [Current(k) EXCEPT !.class = Reclassified(k)]
  <2>1. AppendCandidate(k, row)
      BY <1>3 DEF ReclassifyRow
  <2>2. PICK i \in DOMAIN ledger[k] : Current(k) = ledger[k][i]
      BY <1>1, RowTypes DEF SeekingInv
  <2>3. PICK old \in Rows : old = Current(k)
      BY <1>1, RowTypes DEF SeekingInv
  <2>4. Reclassified(k) \in Classes
      BY <1>1, <2>3, RowTypes DEF Reclassified, Rows, SeekingInv
  <2>5. row \in Rows /\ row.round = old.round /\ row.facts = old.facts
      BY <2>3, <2>4 DEF Rows
  <2>6. Decide(frozen[old.round], old.facts)
      BY <1>1, <2>2, <2>3 DEF SeekingInv, PopulationIsFrozen
  <2> HIDE DEF row
  <2> QED
      BY <1>1, <2>1, <2>5, <2>6, Writing
<1> QED
    BY <1>2, <1>3

-----------------------------------------------------------------------------
(***************************************************************************)
(* Commands start.                                                         *)
(***************************************************************************)
\* Declaring a round's population takes nothing back: it has no candidates yet, or has this one.
LEMMA Declares ==
    ASSUME SeekingInv, NEW r \in Rounds, CheckRound(r), UNCHANGED <<ledger, hits, searches>>
    PROVE  /\ frozen' \in [Rounds -> Policies]
           /\ frozen'[r] = design.population
           /\ PopulationIsFrozen'
           /\ Returned' /\ QueryRowsAreHonest'
<1>1. /\ design \in Designs /\ frozen \in [Rounds -> Policies] /\ ledger \in [Keys -> Seq(Rows)]
      /\ design.population \in Policies
    BY DEF SeekingInv, SeekingType, Policies
<1>2. /\ frozen' \in [Rounds -> Policies] /\ frozen'[r] = design.population
      /\ \A h \in Rounds : h # r => frozen'[h] = frozen[h]
    BY <1>1 DEF CheckRound
<1>3. Grows
    BY <1>2 DEF CheckRound, Permits, Grows, Known
<1>4. ASSUME NEW k \in Keys, NEW i \in DOMAIN ledger[k]
      PROVE  Decide(frozen'[ledger[k][i].round], ledger[k][i].facts)
  <2>1. ledger[k][i] \in Rows
      BY <1>1
  <2>2. PICK h \in Rounds : h = ledger[k][i].round
      BY <2>1 DEF Rows
  <2>3. HasCandidates(h)
      BY <2>2 DEF HasCandidates
  <2>4. frozen'[h] = frozen[h]
      BY <1>2, <2>3 DEF CheckRound, Permits
  <2> QED
      BY <2>2, <2>4 DEF SeekingInv, PopulationIsFrozen
<1>5. PopulationIsFrozen'
    BY <1>4 DEF PopulationIsFrozen
<1> QED
    BY <1>2, <1>3, <1>5, RowsStayHonest DEF SeekingInv

\* A command as it is made, whatever it asks.
Fresh(command, kind, r, todo) ==
    /\ command \in Jobs
    /\ command.kind = kind /\ command.round = r /\ command.design = design /\ command.todo = todo
    /\ command.rows = <<>> /\ command.total = Unstated /\ command.at = 1
    /\ command.stage = "asking"

LEMMA CommandTypes ==
    ASSUME SeekingType, NEW kind \in {"search", "cite", "promote", "import", "reclassify"},
           NEW r \in Rounds \union {Unbound}, NEW todo \in SUBSET Items
    PROVE  Fresh(Command(kind, r, todo), kind, r, todo)
    BY NoJobIsAJob DEF Fresh, Command, NoJob, Jobs, SeekingType, Unstated

\* What a command that starts knows.
LEMMA StartsKnowing ==
    ASSUME SeekingInv, NEW command \in Jobs, command.kind # "none", Start(command),
           command.design = design, command.rows = <<>>, command.total = Unstated,
           command.at = 1, command.stage = "asking",
           command.kind = "reclassify" \/ (command.round \in Rounds /\ frozen'[command.round] = design.population),
           command.kind = "search" =>
               command.query \in DOMAIN Queries /\ command.todo \subseteq DOMAIN Queries,
           command.kind = "cite" => command.todo \subseteq DOMAIN Cited,
           command.kind = "import" => command.todo \subseteq DOMAIN design.manifest,
           command.kind = "reclassify" => \A k \in command.todo : k \in Keys /\ Known(k)
    PROVE  job' \in Jobs /\ Working' /\ Answered'
<1>1. CASE job' = NoJob
    BY <1>1, Over
<1>2. CASE job' = command
  <2>1. design \in Designs
      BY DEF SeekingInv, SeekingType
  <2>2. Working'
      BY <1>2, <2>1 DEF Working, Start, found, Known
  <2>3. ASSUME command.kind = "search"
        PROVE  Len(Results[Queries[command.query]]) \in Nat
      BY <2>3, ServiceTypes
  <2>4. Answered'
      BY <1>2, <2>3 DEF Answered, Query
  <2> QED
      BY <1>2, <2>2, <2>4
<1> QED
    BY <1>1, <1>2 DEF Start

LEMMA StartsInRound ==
    ASSUME SeekingInv, NEW r \in Rounds, CheckRound(r), NEW command, Start(command),
           job' \in Jobs, Working', Answered'
    PROVE  SeekingInv'
<1>1. /\ frozen' \in [Rounds -> Policies]
      /\ PopulationIsFrozen' /\ Returned' /\ QueryRowsAreHonest'
    BY Declares DEF Start, found
<1> QED
    BY <1>1 DEF SeekingInv, SeekingType, Start, found

LEMMA Begins ==
    ASSUME SeekingInv, NEW r \in Rounds,
           \/ \E chosen \in (SUBSET DOMAIN Queries) \ {{}} : \E budget \in 1..MaxPages :
                 StartSearch(r, chosen, budget)
           \/ \E lookup \in BOOLEAN : StartCitations(r, lookup)
           \/ \E named \in SUBSET cites : StartPromotion(r, named)
           \/ StartImport(r)
    PROVE  SeekingInv'
<1>1. /\ SeekingType /\ design \in Designs /\ cites \subseteq DOMAIN Cited
      /\ DOMAIN Queries \subseteq Nat
    BY ServiceTypes DEF SeekingInv, SeekingType
<1>2. ASSUME NEW chosen \in (SUBSET DOMAIN Queries) \ {{}}, NEW budget \in 1..MaxPages,
             StartSearch(r, chosen, budget)
      PROVE  SeekingInv'
  <2>1. PICK n \in chosen :
            Start([Command("search", r, chosen) EXCEPT !.query = n, !.budget = budget])
      BY <1>2 DEF StartSearch
  <2> DEFINE command == [Command("search", r, chosen) EXCEPT !.query = n, !.budget = budget]
  <2>2. CheckRound(r) /\ frozen'[r] = design.population
      BY <1>2, <2>1, Declares DEF StartSearch, Start, found
  <2>3. chosen \in SUBSET Items /\ n \in Nat /\ budget \in Nat /\ n \in DOMAIN Queries
      BY <1>1 DEF Items
  <2>4. PICK c \in Jobs : c = Command("search", r, chosen) /\ Fresh(c, "search", r, chosen)
      BY <1>1, <2>3, CommandTypes DEF Fresh
  <2>5. /\ command \in Jobs
        /\ command.kind = "search" /\ command.round = r /\ command.design = design
        /\ command.query = n /\ command.todo = chosen
        /\ command.rows = <<>> /\ command.total = Unstated /\ command.at = 1
        /\ command.stage = "asking"
      BY <2>3, <2>4 DEF Fresh, Jobs
  <2> HIDE DEF command
  <2>6. Start(command)
      BY <2>1 DEF command
  <2>7. job' \in Jobs /\ Working' /\ Answered'
      BY <2>2, <2>3, <2>5, <2>6, StartsKnowing
  <2> QED
      BY <2>2, <2>6, <2>7, StartsInRound
<1>3. ASSUME NEW lookup \in BOOLEAN, StartCitations(r, lookup)
      PROVE  SeekingInv'
  <2> DEFINE command == [Command("cite", r, cites) EXCEPT !.lookup = lookup]
  <2>1. CheckRound(r) /\ Start(command)
      BY <1>3 DEF StartCitations
  <2>2. frozen'[r] = design.population
      BY <2>1, Declares DEF Start, found
  <2>3. cites \in SUBSET Items
      BY <1>1 DEF Items
  <2>4. PICK c \in Jobs : c = Command("cite", r, cites) /\ Fresh(c, "cite", r, cites)
      BY <1>1, <2>3, CommandTypes DEF Fresh
  <2>5. /\ command \in Jobs
        /\ command.kind = "cite" /\ command.round = r /\ command.design = design
        /\ command.todo = cites
        /\ command.rows = <<>> /\ command.total = Unstated /\ command.at = 1
        /\ command.stage = "asking"
      BY <2>4 DEF Fresh, Jobs
  <2> HIDE DEF command
  <2>6. job' \in Jobs /\ Working' /\ Answered'
      BY <1>1, <2>1, <2>2, <2>5, StartsKnowing
  <2> QED
      BY <2>1, <2>6, StartsInRound
<1>4. ASSUME NEW named \in SUBSET cites, StartPromotion(r, named)
      PROVE  SeekingInv'
  <2> DEFINE command == Command("promote", r, named)
  <2>1. CheckRound(r) /\ Start(command)
      BY <1>4 DEF StartPromotion
  <2>2. frozen'[r] = design.population
      BY <2>1, Declares DEF Start, found
  <2>3. named \in SUBSET Items
      BY <1>1 DEF Items
  <2>4. PICK c \in Jobs : c = Command("promote", r, named) /\ Fresh(c, "promote", r, named)
      BY <1>1, <2>3, CommandTypes DEF Fresh
  <2>5. /\ command \in Jobs
        /\ command.kind = "promote" /\ command.round = r /\ command.design = design
        /\ command.rows = <<>> /\ command.total = Unstated /\ command.at = 1
        /\ command.stage = "asking"
      BY <2>4 DEF Fresh, Jobs
  <2> HIDE DEF command
  <2>6. job' \in Jobs /\ Working' /\ Answered'
      BY <1>1, <2>1, <2>2, <2>5, StartsKnowing
  <2> QED
      BY <2>1, <2>6, StartsInRound
<1>5. ASSUME StartImport(r)
      PROVE  SeekingInv'
  <2> DEFINE command == Command("import", r, DOMAIN design.manifest)
  <2>1. CheckRound(r) /\ Start(command)
      BY <1>5 DEF StartImport
  <2>2. frozen'[r] = design.population
      BY <2>1, Declares DEF Start, found
  <2>3. DOMAIN design.manifest \in SUBSET Items
      BY <1>1 DEF Items
  <2>4. PICK c \in Jobs : c = Command("import", r, DOMAIN design.manifest) /\ Fresh(c, "import", r, DOMAIN design.manifest)
      BY <1>1, <2>3, CommandTypes DEF Fresh
  <2>5. /\ command \in Jobs
        /\ command.kind = "import" /\ command.round = r /\ command.design = design
        /\ command.todo = DOMAIN design.manifest
        /\ command.rows = <<>> /\ command.total = Unstated /\ command.at = 1
        /\ command.stage = "asking"
      BY <2>4 DEF Fresh, Jobs
  <2> HIDE DEF command
  <2>6. job' \in Jobs /\ Working' /\ Answered'
      BY <1>1, <2>1, <2>2, <2>5, StartsKnowing
  <2> QED
      BY <2>1, <2>6, StartsInRound
<1> QED
    BY <1>2, <1>3, <1>4, <1>5

LEMMA BeginsReclassifying ==
    ASSUME SeekingInv, StartReclassify
    PROVE  SeekingInv'
<1> DEFINE todo == {k \in Keys : Known(k)}
           command == Command("reclassify", Unbound, todo)
<1>1. Start(command) /\ frozen' = frozen /\ SeekingType
    BY DEF StartReclassify, SeekingInv
<1>2. todo \in SUBSET Items /\ \A k \in todo : k \in Keys /\ Known(k)
    BY DEF Items
<1> HIDE DEF todo
<1>3. Fresh(command, "reclassify", Unbound, todo)
    BY <1>1, <1>2, CommandTypes
<1> HIDE DEF command
<1>4. /\ command \in Jobs
      /\ command.kind = "reclassify" /\ command.design = design /\ command.todo = todo
      /\ command.rows = <<>> /\ command.total = Unstated /\ command.at = 1
      /\ command.stage = "asking"
    BY <1>3 DEF Fresh
<1>5. job' \in Jobs /\ Working' /\ Answered'
    BY <1>1, <1>2, <1>4, StartsKnowing
<1>6. Grows
    BY <1>1 DEF Grows, Start, found, Known
<1>7. Returned' /\ QueryRowsAreHonest'
    BY <1>1, <1>6, RowsStayHonest DEF SeekingInv, Start, found
<1> QED
    BY <1>1, <1>5, <1>7 DEF SeekingInv, SeekingType, PopulationIsFrozen, Start, found

-----------------------------------------------------------------------------
(***************************************************************************)
(* A search asks, page after page, and takes what it was answered.         *)
(***************************************************************************)
\* One page more of s, and what begins as s does.
OneMorePage(rows, s, m) == rows \o SubSeq(SubSeq(s, Len(rows) + 1, Len(s)), 1, m)

Beginnings(S, s) == {x \in Seq(S) : Len(x) <= Len(s) /\ \A n \in 1..Len(x) : x[n] = s[n]}

LEMMA PageFollows ==
    ASSUME NEW S, NEW s \in Seq(S), NEW rows \in Seq(S), Len(rows) <= Len(s),
           \A n \in 1..Len(rows) : rows[n] = s[n],
           NEW m \in Nat, m <= Len(s) - Len(rows)
    PROVE  OneMorePage(rows, s, m) \in Beginnings(S, s)
<1> DEFINE rest == SubSeq(s, Len(rows) + 1, Len(s))
           page == SubSeq(rest, 1, m)
           more == rows \o page
<1>1. Len(rows) \in Nat /\ Len(s) \in Nat
    OBVIOUS
<1>2. rest \in Seq(S) /\ Len(rest) = Len(s) - Len(rows)
    BY <1>1
<1>3. \A n \in 1..Len(rest) : rest[n] = s[Len(rows) + n]
    BY <1>1
<1> HIDE DEF rest
<1>4. page \in Seq(S) /\ Len(page) = m
    BY <1>1, <1>2
<1>5. \A n \in 1..m : page[n] = rest[n]
    BY <1>1, <1>2
<1> HIDE DEF page
<1>6. more \in Seq(S) /\ Len(more) = Len(rows) + m
    BY ONLY rows \in Seq(S), <1>4, SMTT(60)
<1>7. ASSUME NEW n \in 1..Len(more)
      PROVE  more[n] = s[n]
  <2>1. CASE n <= Len(rows)
      BY <1>1, <1>4, <1>6, <2>1
  <2>2. CASE n > Len(rows)
    <3>1. n - Len(rows) \in 1..m
        BY <1>1, <1>6, <2>2
    <3>2. more[n] = page[n - Len(rows)]
        BY <1>1, <1>4, <1>6, <2>2
    <3>3. page[n - Len(rows)] = rest[n - Len(rows)]
        BY <1>5, <3>1
    <3>4. rest[n - Len(rows)] = s[Len(rows) + (n - Len(rows))]
        BY <1>1, <1>2, <1>3, <3>1
    <3>5. Len(rows) + (n - Len(rows)) = n
        BY <1>1, <1>6
    <3> QED
        BY <3>2, <3>3, <3>4, <3>5
  <2> QED
      BY <1>1, <1>6, <2>1, <2>2
<1>8. Len(more) <= Len(s)
    BY <1>1, <1>6
<1> QED
    BY <1>6, <1>7, <1>8 DEF page, rest, OneMorePage, Beginnings

\* What every step of a search knows.
LEMMA AtSearch ==
    ASSUME SeekingInv, job.kind = "search"
    PROVE  /\ job \in Jobs /\ job.design \in Designs /\ job.round \in Rounds
           /\ frozen[job.round] = job.design.population
           /\ job.query \in DOMAIN Queries /\ Query \in DOMAIN Results
           /\ Results[Query] \in Seq(Hits) /\ Len(Results[Query]) \in Nat
           /\ job.rows \in Seq(Hits) /\ Len(job.rows) \in Nat
           /\ job.at \in Nat \ {0}
           /\ Len(job.rows) <= Len(Results[Query])
           /\ \A n \in 1..Len(job.rows) : job.rows[n] = Results[Query][n]
    BY ServiceTypes DEF SeekingInv, SeekingType, Working, Answered, Query, Jobs

LEMMA Asks ==
    ASSUME SeekingInv, AskPage
    PROVE  SeekingInv'
<1>1. job.kind = "search" /\ job.stage = "asking" /\ job.at = 1 /\ Skip
    BY DEF AskPage, Searching, SeekingInv, Answered
<1> DEFINE more == job.rows \o NextPage
<1>2. PICK s \in Seq(Hits), rows \in Seq(Hits) : s = Results[Query] /\ rows = job.rows
    BY <1>1, AtSearch
<1>3. Len(rows) <= Len(s) /\ (\A n \in 1..Len(rows) : rows[n] = s[n])
    BY <1>1, <1>2, AtSearch
<1>4. /\ more \in Seq(Hits) /\ Len(more) <= Len(Results[Query])
      /\ \A n \in 1..Len(more) : more[n] = Results[Query][n]
  <2>1. Len(SubSeq(s, Len(rows) + 1, Len(s))) = Len(s) - Len(rows)
      BY <1>3
  <2> DEFINE m == IF Len(SubSeq(s, Len(rows) + 1, Len(s))) < PerQuery
                  THEN Len(SubSeq(s, Len(rows) + 1, Len(s))) ELSE PerQuery
  <2>2. m \in Nat /\ m <= Len(s) - Len(rows)
      BY <1>3, <2>1, ServiceAssumption
  <2>3. more = OneMorePage(rows, s, m)
      BY <1>2 DEF NextPage, OneMorePage
  <2> HIDE DEF m, more
  <2>4. OneMorePage(rows, s, m) \in Beginnings(Hits, s)
      BY <1>3, <2>2, PageFollows
  <2> QED
      BY <1>2, <2>3, <2>4 DEF Beginnings
<1>5. PICK total \in {Unstated, Len(Results[Query])}, stage \in {"asking", "taking"},
           known \in {Unstated, Len(Results[Query])} :
          job' = [job EXCEPT !.rows = more, !.total = known, !.pages = job.pages + 1, !.stage = stage]
  <2>1. job.total \in {Unstated, Len(Results[Query])}
      BY <1>1 DEF SeekingInv, Answered
  <2> HIDE DEF more
  <2> QED
      BY <2>1 DEF AskPage, more
<1> HIDE DEF more
<1>6. /\ job' \in Jobs
      /\ job'.kind = "search" /\ job'.round = job.round /\ job'.design = job.design
      /\ job'.query = job.query /\ job'.todo = job.todo /\ job'.rows = more /\ job'.total = known
      /\ job'.at = 1 /\ job'.stage \in {"asking", "taking"}
  <2>1. PICK j \in Jobs : j = job
      BY <1>1, AtSearch
  <2>2. job' = [j EXCEPT !.rows = more, !.total = known, !.pages = j.pages + 1,
                         !.failed = j.failed, !.stage = stage, !.at = j.at]
      BY <1>5, <2>1 DEF Jobs
  <2>3. /\ known \in Nat /\ j.pages + 1 \in Nat /\ j.failed \in BOOLEAN /\ j.at \in Nat \ {0}
        /\ stage \in {"asking", "taking", "admitting"}
      BY <1>1, AtSearch DEF Jobs, Unstated
  <2> QED
      BY <1>1, <1>4, <2>1, <2>2, <2>3 DEF Jobs
<1>7. Working'
    BY <1>1, <1>6 DEF Working, SeekingInv, Skip
<1>8. Answered'
    BY <1>1, <1>4, <1>6 DEF Answered, Query
<1> QED
    BY <1>1, <1>6, <1>7, <1>8, MovingOn

LEMMA FailsPage ==
    ASSUME SeekingInv, PageFails
    PROVE  SeekingInv'
<1>1. job.kind = "search" /\ job.stage = "asking" /\ job.at = 1 /\ Skip
    BY DEF PageFails, Searching, SeekingInv, Answered
<1>2. /\ job' \in Jobs
      /\ job'.kind = "search" /\ job'.round = job.round /\ job'.design = job.design
      /\ job'.query = job.query /\ job'.todo = job.todo /\ job'.rows = job.rows /\ job'.total = job.total
      /\ job'.at = 1 /\ job'.stage = "taking"
  <2>1. PICK j \in Jobs : j = job
      BY <1>1, AtSearch
  <2>2. job' = [j EXCEPT !.rows = j.rows, !.total = j.total, !.pages = j.pages + 1,
                         !.failed = TRUE, !.stage = "taking", !.at = j.at]
      BY <2>1 DEF PageFails, Jobs
  <2>3. /\ j.total \in Nat /\ j.pages + 1 \in Nat /\ j.at \in Nat \ {0} /\ j.rows \in Seq(Hits)
      BY DEF Jobs
  <2> QED
      BY <1>1, <2>1, <2>2, <2>3 DEF Jobs
<1>3. Working'
    BY <1>1, <1>2 DEF Working, SeekingInv, Skip
<1>4. Answered'
    BY <1>1, <1>2, AtSearch DEF Answered, Query, SeekingInv
<1> QED
    BY <1>1, <1>2, <1>3, <1>4, MovingOn

\* The search is one result further.
LEMMA Further ==
    ASSUME SeekingInv, job.kind = "search", job.at <= Len(job.rows),
           job' = [job EXCEPT !.stage = "taking", !.at = @ + 1],
           UNCHANGED frozen, Grows,
           NEW r, r = job.round, NEW q, q = Query, NEW n, n = job.at, Obtained(r, q, n)'
    PROVE  job' \in Jobs /\ Working' /\ Answered'
<1>1. /\ job' \in Jobs
      /\ job'.kind = "search" /\ job'.round = r /\ job'.design = job.design
      /\ job'.query = job.query /\ job'.todo = job.todo /\ job'.rows = job.rows /\ job'.total = job.total
      /\ job'.at = n + 1 /\ job'.stage = "taking"
  <2>1. PICK j \in Jobs : j = job
      BY AtSearch
  <2>2. job' = [j EXCEPT !.rows = j.rows, !.total = j.total, !.pages = j.pages,
                         !.failed = j.failed, !.stage = "taking", !.at = j.at + 1]
      BY <2>1 DEF Jobs
  <2>3. /\ j.total \in Nat /\ j.pages \in Nat /\ j.at + 1 \in Nat \ {0} /\ j.rows \in Seq(Hits)
        /\ j.failed \in BOOLEAN
      BY DEF Jobs
  <2> QED
      BY <2>1, <2>2, <2>3 DEF Jobs
<1>2. Working'
    BY <1>1 DEF Working, SeekingInv
<1>3. \A i \in 1..n - 1 : Obtained(r, q, i)'
  <2>1. n \in 1..job.at
      BY AtSearch
  <2> QED
      BY <2>1, SearchStays DEF SeekingInv
<1>4. Query' = q /\ n \in Nat /\ Len(job.rows) \in Nat
    BY <1>1, AtSearch DEF Query
<1>5. \A i \in 1..job'.at - 1 : Obtained(job.round, Query, i)'
  <2>1. ASSUME NEW i \in 1..n
        PROVE  Obtained(r, q, i)'
      BY <1>3, <1>4, <2>1
  <2> QED
      BY <1>1, <1>4, <2>1 DEF Obtained
<1>6. Answered'
    BY <1>1, <1>4, <1>5, AtSearch DEF Answered, SeekingInv
<1> QED
    BY <1>1, <1>2, <1>6

LEMMA PassesBlank ==
    ASSUME SeekingInv, PassBlank
    PROVE  SeekingInv'
<1>1. /\ job.kind = "search" /\ job.stage = "taking" /\ job.at <= Len(job.rows)
      /\ job.rows[job.at].key = Blank /\ Skip /\ job' = [job EXCEPT !.at = @ + 1]
    BY DEF PassBlank, Taking, Searching, Taken
<1>2. job' = [job EXCEPT !.stage = "taking", !.at = @ + 1]
    BY <1>1, AtSearch DEF Jobs
<1>3. Grows /\ UNCHANGED frozen
    BY <1>1 DEF Grows, Skip, found, Known
<1>4. PICK r \in Rounds, q \in DOMAIN Results, n \in Nat : r = job.round /\ q = Query /\ n = job.at
    BY <1>1, AtSearch
<1>5. Results[q][n].key = Blank
    BY <1>1, <1>4, AtSearch
<1>6. Obtained(r, q, n)'
    BY <1>5 DEF Obtained
<1>7. job' \in Jobs /\ Working' /\ Answered'
    BY <1>1, <1>2, <1>3, <1>4, <1>6, Further
<1> QED
    BY <1>1, <1>7, MovingOn

LEMMA RecordsHit ==
    ASSUME SeekingInv, RecordHit
    PROVE  SeekingInv'
<1>1. /\ job.kind = "search" /\ job.stage = "taking" /\ job.at <= Len(job.rows)
      /\ job.rows[job.at].key # Blank
      /\ hits' = hits \union {[round |-> job.round, query |-> Query, rank |-> job.at, key |-> Taken.key]}
      /\ job' = [job EXCEPT !.stage = "admitting"]
      /\ UNCHANGED <<design, frozen, ledger, searches, cites, edits, jobs>>
    BY DEF RecordHit, Taking, Searching, Taken
<1>2. Grows
    BY <1>1 DEF Grows, Known
<1>3. /\ job' \in Jobs
      /\ job'.kind = "search" /\ job'.round = job.round /\ job'.design = job.design
      /\ job'.query = job.query /\ job'.todo = job.todo /\ job'.rows = job.rows /\ job'.total = job.total
      /\ job'.at = job.at /\ job'.stage = "admitting"
    BY <1>1, AtSearch DEF Jobs
<1>4. Working'
    BY <1>1, <1>3 DEF Working, SeekingInv
<1>5. PICK r \in Rounds, q \in DOMAIN Results, n \in Nat \ {0} : r = job.round /\ q = Query /\ n = job.at
    BY <1>1, AtSearch
<1>6. \A i \in 1..n - 1 : Obtained(r, q, i)'
  <2>1. n \in 1..job.at
      BY <1>5
  <2> QED
      BY <1>1, <1>2, <1>5, <2>1, SearchStays DEF SeekingInv
<1>7. Query' = q /\ job'.round = r /\ job'.at = n
    BY <1>3, <1>5 DEF Query
<1>8. \A i \in 1..job'.at - 1 : Obtained(job.round, Query, i)'
    BY <1>6, <1>7 DEF Obtained
<1>9. Taken' = Taken /\ [round |-> r, query |-> q, rank |-> n, key |-> Taken.key] \in hits'
    BY <1>1, <1>3, <1>5 DEF Taken
<1>10. Answered'
    BY <1>1, <1>3, <1>5, <1>7, <1>8, <1>9, AtSearch DEF Answered, SeekingInv, Taken
<1>11. Returned' /\ QueryRowsAreHonest'
    BY <1>1, <1>2, RowsStayHonest DEF SeekingInv
<1> QED
    BY <1>1, <1>3, <1>4, <1>10, <1>11 DEF SeekingInv, SeekingType, PopulationIsFrozen

LEMMA Admits ==
    ASSUME SeekingInv, Admit
    PROVE  SeekingInv'
<1>1. /\ job.kind = "search" /\ job.stage = "admitting" /\ job.at <= Len(job.rows)
      /\ job' = [job EXCEPT !.stage = "taking", !.at = @ + 1]
      /\ Taken.key # Blank
      /\ [round |-> job.round, query |-> Query, rank |-> job.at, key |-> Taken.key] \in hits
    BY DEF Admit, NextRow, Searching, SeekingInv, Answered
<1>2. PICK r \in Rounds, q \in DOMAIN Results, n \in Nat : r = job.round /\ q = Query /\ n = job.at
    BY <1>1, AtSearch
<1>3. PICK result \in Hits : result = Taken
    BY <1>1, AtSearch DEF Taken
<1>4. result = Results[q][n] /\ result.key \in Keys /\ result.facts \in Facts
    BY <1>1, <1>2, <1>3, AtSearch DEF Taken, Hits
<1>5. CASE InPopulation(result.facts) /\ ~Known(result.key)
  <2> DEFINE row == Inferred(result.facts, job.round, "none")
  <2>1. AppendCandidate(result.key, row)
      BY <1>3, <1>5 DEF Admit
  <2>2. row \in Rows /\ row.round = job.round /\ row.facts = result.facts
      BY <1>1, <1>4, AtSearch, RowTypes DEF Inferred, Candidate, Rows, Findings, SeekingInv
  <2>3. Decide(frozen[row.round], row.facts)
      BY <1>1, <1>5, <2>2, AtSearch DEF InPopulation
  <2> HIDE DEF row
  <2>4. /\ ledger' \in [Keys -> Seq(Rows)] /\ PopulationIsFrozen' /\ Grows /\ Known(result.key)'
      BY <1>4, <2>1, <2>2, <2>3, Appended
  <2>5. Obtained(r, q, n)'
      BY <1>1, <1>2, <1>3, <1>4, <2>1, <2>4 DEF Obtained, AppendCandidate
  <2>6. job' \in Jobs /\ Working' /\ Answered'
      BY <1>1, <1>2, <2>1, <2>4, <2>5, Further DEF AppendCandidate
  <2>7. Returned' /\ QueryRowsAreHonest'
      BY <2>1, <2>4, RowsStayHonest DEF SeekingInv, AppendCandidate
  <2> QED
      BY <2>1, <2>4, <2>6, <2>7 DEF SeekingInv, SeekingType, AppendCandidate
<1>6. CASE ~(InPopulation(result.facts) /\ ~Known(result.key))
  <2>1. Skip
      BY <1>3, <1>6 DEF Admit
  <2>2. Grows /\ UNCHANGED <<frozen, hits>> /\ (Known(result.key) => Known(result.key)')
      BY <2>1 DEF Grows, Skip, found, Known
  <2>3. Decide(frozen[r], result.facts) => Known(result.key)
      BY <1>1, <1>2, <1>6, AtSearch DEF InPopulation
  <2>4. Obtained(r, q, n)'
      BY <1>1, <1>2, <1>3, <1>4, <2>2, <2>3 DEF Obtained
  <2>5. job' \in Jobs /\ Working' /\ Answered'
      BY <1>1, <1>2, <2>2, <2>4, Further
  <2> QED
      BY <2>1, <2>5, MovingOn
<1> QED
    BY <1>5, <1>6

LEMMA RecordsQuery ==
    ASSUME SeekingInv, RecordQuery
    PROVE  SeekingInv'
<1> DEFINE s == [round |-> job.round, query |-> Query, returned |-> Len(job.rows),
                 depth |-> Depth, ok |-> ~job.failed]
           rest == job.todo \ {job.query}
<1>1. /\ job.kind = "search" /\ job.at > Len(job.rows)
      /\ searches' = searches \union {s}
      /\ UNCHANGED <<design, frozen, ledger, hits, cites, edits, jobs>>
    BY DEF RecordQuery, Searching
<1>2. /\ s \in QueryRows /\ s.returned <= Len(Results[s.query])
      /\ s.round = job.round /\ s.query = Query /\ s.returned = Len(job.rows)
    BY <1>1, AtSearch DEF QueryRows, Depth, Jobs
<1>3. s.depth = "whole" => s.returned = Len(Results[s.query])
    BY <1>1, AtSearch DEF Depth, SeekingInv, Answered
<1>4. \A n \in 1..s.returned : Obtained(s.round, s.query, n)
    BY <1>1, <1>2, AtSearch DEF SeekingInv, Answered
<1> HIDE DEF s
<1>5. PICK row \in QueryRows : row = s
    BY <1>2
<1>6. Returned'
    BY <1>1, <1>2, <1>5 DEF Returned, SeekingInv
<1>7. \A n \in 1..row.returned : Obtained(row.round, row.query, n)'
    BY <1>1, <1>4, <1>5 DEF Obtained, Known
<1>8. QueryRowsAreHonest'
  <2>1. ASSUME NEW x \in searches
        PROVE  /\ \A n \in 1..x.returned : Obtained(x.round, x.query, n)'
               /\ x.depth = "whole" => x.returned = Len(Results[x.query])
    <3>1. PICK y : y = x
        OBVIOUS
    <3>2. \A n \in 1..y.returned : Obtained(y.round, y.query, n)'
        BY <1>1, <2>1, <3>1 DEF SeekingInv, QueryRowsAreHonest, Obtained, Known
    <3> QED
        BY <3>1, <3>2 DEF SeekingInv, QueryRowsAreHonest
  <2>2. \A x \in searches' : x \in searches \/ x = row
      BY <1>1, <1>5
  <2> QED
      BY <1>3, <1>5, <1>7, <2>1, <2>2 DEF QueryRowsAreHonest, Obtained
<1>9. job' \in Jobs /\ Working' /\ Answered'
  <2>1. CASE job' = NoJob
      BY <2>1, Over
  <2>2. CASE job' # NoJob
    <3>1. PICK n \in rest :
              job' = [Command("search", job.round, rest) EXCEPT
                        !.design = job.design, !.budget = job.budget, !.query = n]
        BY <2>2 DEF RecordQuery
    <3>2. rest \in SUBSET Items /\ job.round \in Rounds /\ job.design \in Designs /\ job.budget \in Nat
        BY <1>1, AtSearch DEF Jobs
    <3>3. n \in DOMAIN Queries /\ n \in Nat /\ rest \subseteq DOMAIN Queries
        BY <1>1, ServiceTypes DEF SeekingInv, Working
    <3> HIDE DEF rest
    <3>4. PICK c \in Jobs : /\ c = Command("search", job.round, rest)
                           /\ Fresh(c, "search", job.round, rest)
        BY <3>2, CommandTypes DEF Fresh, SeekingInv
    <3>5. /\ job' \in Jobs
          /\ job'.kind = "search" /\ job'.round = job.round /\ job'.design = job.design
          /\ job'.query = n /\ job'.todo = rest /\ job'.rows = <<>> /\ job'.total = Unstated
          /\ job'.at = 1 /\ job'.stage = "asking"
        BY <3>1, <3>2, <3>3, <3>4 DEF Fresh, Jobs
    <3>6. Working'
        BY <1>1, <3>3, <3>5 DEF Working, SeekingInv
    <3>7. Len(Results[Queries[n]]) \in Nat
        BY <3>3, ServiceTypes
    <3>8. Answered'
        BY <3>5, <3>7 DEF Answered, Query
    <3> QED
        BY <3>5, <3>6, <3>8
  <2> QED
      BY <2>1, <2>2
<1>10. searches' \in SUBSET QueryRows
    BY <1>1, <1>2 DEF SeekingInv, SeekingType
<1> QED
    BY <1>1, <1>6, <1>8, <1>9, <1>10 DEF SeekingInv, SeekingType, PopulationIsFrozen

-----------------------------------------------------------------------------
(***************************************************************************)
(* The theorems about candidates.                                          *)
(***************************************************************************)
LEMMA SeekingStarts ==
    ASSUME SeekingInit
    PROVE  SeekingInv
<1>1. \A k \in Keys : ledger[k] = <<>>
    BY DEF SeekingInit
<1>2. SeekingType
    BY <1>1, NoJobIsAJob DEF SeekingInit, SeekingType, Policies
<1> QED
    BY <1>1, <1>2 DEF SeekingInit, SeekingInv, Working, Answered, NoJob, Returned,
                      PopulationIsFrozen, QueryRowsAreHonest

LEMMA Around ==
    ASSUME SeekingInv, EditDesign \/ (\E k \in DOMAIN Cited : ReadBibliography(k)) \/ UNCHANGED seeking
    PROVE  SeekingInv'
<1>1. UNCHANGED <<frozen, ledger, hits, searches, job>> /\ design' \in Designs /\ cites' \in SUBSET DOMAIN Cited
    BY DEF EditDesign, ReadBibliography, found, seeking, SeekingInv, SeekingType
<1>2. SeekingType' /\ Working' /\ Returned' /\ PopulationIsFrozen'
    BY <1>1 DEF SeekingInv, SeekingType, Working, Known, Returned, PopulationIsFrozen
<1>3. Answered' /\ QueryRowsAreHonest'
    BY <1>1 DEF SeekingInv, Answered, Query, Taken, Obtained, Known, QueryRowsAreHonest
<1> QED
    BY <1>2, <1>3 DEF SeekingInv

LEMMA SeekingSteps ==
    ASSUME SeekingInv, [SeekingNext]_seeking
    PROVE  SeekingInv'
<1>1. CASE \E r \in Rounds :
              \/ \E chosen \in (SUBSET DOMAIN Queries) \ {{}} : \E budget \in 1..MaxPages :
                    StartSearch(r, chosen, budget)
              \/ \E lookup \in BOOLEAN : StartCitations(r, lookup)
              \/ \E named \in SUBSET cites : StartPromotion(r, named)
              \/ StartImport(r)
    BY <1>1, Begins
<1>2. CASE StartReclassify
    BY <1>2, BeginsReclassifying
<1>3. CASE AskPage \/ PageFails \/ RecordHit \/ PassBlank \/ Admit \/ RecordQuery
    BY <1>3, Asks, FailsPage, RecordsHit, PassesBlank, Admits, RecordsQuery
<1>4. CASE \E k \in job.todo : \/ PassReference(k) \/ Cite(k) \/ RefuseRetry(k)
                               \/ Promote(k) \/ Import(k) \/ ReclassifyRow(k)
    BY <1>4, PassesReference, Cites, Kills, Promotes, Imports, Reclassifies
<1>5. CASE EditDesign \/ (\E k \in DOMAIN Cited : ReadBibliography(k)) \/ UNCHANGED seeking
    BY <1>5, Around
<1>6. CASE Kill
    BY <1>6, Kills
<1> QED
    BY <1>1, <1>2, <1>3, <1>4, <1>5, <1>6 DEF SeekingNext

\* Every command, killed anywhere, keeps what the next one relies on.
THEOREM SeekingInvariant == SeekingSpec => []SeekingInv
<1>1. SeekingInit => SeekingInv
    BY SeekingStarts
<1>2. SeekingInv /\ [SeekingNext]_seeking => SeekingInv'
    BY SeekingSteps
<1> QED
    BY <1>1, <1>2, PTL DEF SeekingSpec

\* Whatever is edited between commands, and whichever of them writes a row into a round, every
\* candidate of a round meets the population the round was frozen with.
THEOREM OnePopulation == SeekingSpec => []PopulationIsFrozen
<1>1. SeekingInv => PopulationIsFrozen
    BY DEF SeekingInv
<1> QED
    BY <1>1, SeekingInvariant, PTL

\* The row of a query never claims more than was taken: every result it returned has its hit and,
\* when it is in the population, its candidate, and a whole depth is the whole answer.
THEOREM QueriesAreHonest == SeekingSpec => []QueryRowsAreHonest
<1>1. SeekingInv => QueryRowsAreHonest
    BY DEF SeekingInv
<1> QED
    BY <1>1, SeekingInvariant, PTL

-----------------------------------------------------------------------------
(***************************************************************************)
(* What leaves a project.  A package in the making knows the dossier it is *)
(* for and where its ledgers were cut; nothing takes either away.          *)
(***************************************************************************)
Snapshots == [evidence: Nat, edition: Editions]

PackageIds ==
    [rows: Nat \X Nat \X (Snapshots \union {NoExport}) \X Nat, edition: Editions, copies: {FALSE},
     dossier: Snapshots]

FlowIds ==
    [rows: Nat \X Nat \X (Snapshots \union {NoExport}) \X Nat, edition: Editions, copies: BOOLEAN]

Names == {NoExport} \union Snapshots \union PackageIds \union FlowIds \union [edition: Editions]

Tasks ==
    [step: {"none", "loaded", "cut", "manifest", "outputs", "copies", "record", "profiles", "dossier",
            "package", "enter"}, id: Names]

ExportsType ==
    /\ evidence \in Nat /\ verdicts \in Nat /\ edition \in Editions
    /\ profiles \in Snapshots \union {NoExport}
    /\ dossiers \in Seq(Snapshots)
    /\ packaged \in Seq(PackageIds)
    /\ task \in [Exporters -> Tasks]

\* A package of this name was cut where the dossier it is for is the last.
Grounded(id) ==
    /\ id \in PackageIds
    /\ id.rows[4] \in 1..Len(dossiers) /\ id.dossier = dossiers[id.rows[4]]
    /\ id.rows[1] = id.dossier.evidence

Does(q) ==
    /\ q.step = "loaded" => q.id \in [edition: Editions]
    /\ q.step \in {"cut", "manifest", "outputs", "copies", "record"} => q.id \in FlowIds
    /\ q.step \in {"profiles", "dossier"} => q.id \in Snapshots
    /\ q.step \in {"package", "enter"} => Grounded(q.id)
    /\ q.step = "enter" => q.id \in DOMAIN packages

Making == \A e \in Exporters : Does(task[e])

Made ==
    /\ \A id \in DOMAIN packages : Grounded(id) /\ packages[id] = Parts(id)
    /\ \A i \in DOMAIN packaged : packaged[i] \in DOMAIN packages
    /\ \A i, j \in DOMAIN packaged : packaged[i] = packaged[j] => i = j

ExportsInv == ExportsType /\ Making /\ Made

Longer == dossiers' = dossiers \/ \E s \in Snapshots : dossiers' = Append(dossiers, s)

LEMMA GroundedStays ==
    ASSUME dossiers \in Seq(Snapshots), Longer, NEW id, Grounded(id)
    PROVE  Grounded(id)' /\ dossiers' \in Seq(Snapshots)
<1>1. CASE dossiers' = dossiers
    BY <1>1 DEF Grounded
<1>2. ASSUME NEW s \in Snapshots, dossiers' = Append(dossiers, s)
      PROVE  Grounded(id)' /\ dossiers' \in Seq(Snapshots)
  <2>1. /\ dossiers' \in Seq(Snapshots) /\ Len(dossiers') = Len(dossiers) + 1
        /\ \A i \in 1..Len(dossiers) : dossiers'[i] = dossiers[i]
      BY <1>2
  <2>2. id.rows[4] \in 1..Len(dossiers) /\ id.dossier = dossiers[id.rows[4]]
      BY DEF Grounded
  <2>3. id.rows[4] \in 1..Len(dossiers') /\ id.dossier = dossiers'[id.rows[4]]
      BY <2>1, <2>2
  <2> QED
      BY <2>1, <2>3 DEF Grounded
<1> QED
    BY <1>1, <1>2 DEF Longer

LEMMA Tasked ==
    ASSUME ExportsInv, NEW e \in Exporters
    PROVE  task[e] \in Tasks /\ Does(task[e])
    BY DEF ExportsInv, ExportsType, Making

\* Exporter e turns to q; of what is there, nothing goes.
LEMMA TurnsTo ==
    ASSUME ExportsInv, NEW e \in Exporters, NEW q \in Tasks, task' = [task EXCEPT ![e] = q],
           Does(q)', Longer, DOMAIN packages \subseteq DOMAIN packages'
    PROVE  task' \in [Exporters -> Tasks] /\ Making'
<1>1. task' \in [Exporters -> Tasks]
    BY DEF ExportsInv, ExportsType
<1>2. ASSUME NEW d \in Exporters
      PROVE  Does(task[d])'
  <2>1. CASE d = e
      BY <2>1 DEF Does, Grounded, ExportsInv, ExportsType
  <2>2. CASE d # e
    <3>1. PICK r \in Tasks : r = task[d] /\ Does(r)
        BY Tasked
    <3>2. r = task'[d]
        BY <2>2, <3>1 DEF ExportsInv, ExportsType
    <3>3. Grounded(r.id) => Grounded(r.id)'
        BY GroundedStays DEF ExportsInv, ExportsType
    <3>4. Does(r)'
        BY <3>1, <3>3 DEF Does
    <3> QED
        BY <3>2, <3>4 DEF Does, Grounded
  <2> QED
      BY <2>1, <2>2
<1> QED
    BY <1>1, <1>2 DEF Making

LEMMA PackagesStay ==
    ASSUME ExportsInv, Longer, UNCHANGED packagePart
    PROVE  Made' /\ dossiers' \in Seq(Snapshots) /\ packaged' \in Seq(PackageIds)
<1>1. \A id \in DOMAIN packages : Grounded(id)'
    BY GroundedStays DEF ExportsInv, ExportsType, Made
<1>2. dossiers' \in Seq(Snapshots)
    BY DEF ExportsInv, ExportsType, Longer
<1> QED
    BY <1>1, <1>2 DEF Made, ExportsInv, ExportsType, packagePart, Parts

\* A step that touches no package.
LEMMA Elsewhere ==
    ASSUME ExportsInv, NEW e \in Exporters, NEW q \in Tasks, task' = [task EXCEPT ![e] = q],
           Does(q)', Longer, UNCHANGED <<contents, packagePart>>,
           profiles' \in Snapshots \union {NoExport}
    PROVE  ExportsInv'
<1>1. task' \in [Exporters -> Tasks] /\ Making'
    BY TurnsTo DEF packagePart
<1>2. Made' /\ dossiers' \in Seq(Snapshots) /\ packaged' \in Seq(PackageIds)
    BY PackagesStay
<1> QED
    BY <1>1, <1>2 DEF ExportsInv, ExportsType, contents

LEMMA Leaves ==
    ASSUME ExportsInv, NEW e \in Exporters, Leave(e)
    PROVE  Unoccupied \in Tasks /\ task' = [task EXCEPT ![e] = Unoccupied] /\ Does(Unoccupied)'
    BY DEF Leave, Unoccupied, Tasks, Names, Does

LEMMA WorldMoves ==
    ASSUME ExportsInv, AddEvidence \/ SignVerdict \/ ChangeFiles \/ UNCHANGED exports
    PROVE  ExportsInv'
<1>1. /\ UNCHANGED <<dossierPart, packagePart, task>>
      /\ evidence' \in Nat /\ verdicts' \in Nat /\ edition' \in Editions
    BY DEF AddEvidence, SignVerdict, ChangeFiles, exports, dossierPart, packagePart,
           ExportsInv, ExportsType
<1>2. Made' /\ packaged' \in Seq(PackageIds)
    BY <1>1, PackagesStay DEF Longer, dossierPart
<1>3. Making'
    BY <1>1 DEF Making, Does, Grounded, ExportsInv, dossierPart, packagePart
<1> QED
    BY <1>1, <1>2, <1>3 DEF ExportsInv, ExportsType, dossierPart

LEMMA CutsAreNames ==
    ASSUME ExportsInv, NEW n \in Editions, NEW copies \in BOOLEAN
    PROVE  Cut(n, copies) \in FlowIds
<1>1. <<evidence, verdicts, profiles, Len(dossiers)>>
        \in Nat \X Nat \X (Snapshots \union {NoExport}) \X Nat
    BY DEF ExportsInv, ExportsType
<1> QED
    BY <1>1 DEF Cut, FlowIds

LEMMA FlowMoves ==
    ASSUME ExportsInv, NEW e \in Exporters,
           \/ Load(e) \/ \E copies \in BOOLEAN : CutLedgers(e, copies)
           \/ FindExport(e) \/ MissExport(e) \/ WriteFiles(e) \/ RefuseCopy(e) \/ RecordExport(e)
           \/ Abandon(e)
    PROVE  ExportsInv'
<1>1. UNCHANGED <<contents, dossierPart, packagePart>> /\ Longer
    BY DEF Load, CutLedgers, FindExport, MissExport, WriteFiles, RefuseCopy, RecordExport, Abandon,
           Longer, dossierPart
<1>2. profiles' \in Snapshots \union {NoExport}
    BY <1>1 DEF dossierPart, ExportsInv, ExportsType
<1>3. CASE Leave(e)
    BY <1>1, <1>2, <1>3, Leaves, Elsewhere
<1>4. CASE Load(e)
  <2>1. PICK q \in Tasks : q = [step |-> "loaded", id |-> [edition |-> edition]]
      BY DEF Tasks, Names, ExportsInv, ExportsType
  <2>2. task' = [task EXCEPT ![e] = q]
      BY <1>4, <2>1 DEF Load, Enter
  <2>3. q.step = "loaded" /\ q.id \in [edition: Editions]
      BY <2>1 DEF ExportsInv, ExportsType
  <2>4. Does(q)'
      BY <2>3 DEF Does
  <2> QED
      BY <1>1, <1>2, <2>2, <2>4, Elsewhere
<1>5. ASSUME NEW copies \in BOOLEAN, CutLedgers(e, copies)
      PROVE  ExportsInv'
  <2>1. task[e].id \in [edition: Editions]
      BY <1>5, Tasked DEF CutLedgers, Does
  <2>2. PICK id \in FlowIds : id = Cut(task[e].id.edition, copies)
    <3>1. task[e].id.edition \in Editions
        BY <2>1
    <3>2. Cut(task[e].id.edition, copies) \in FlowIds
        BY <2>1, <3>1, CutsAreNames
    <3> QED
        BY <3>2
  <2> DEFINE q == [step |-> "cut", id |-> id]
  <2>3. q \in Tasks /\ q.step = "cut" /\ q.id \in FlowIds
      BY DEF Tasks, Names
  <2>4. task' = [task EXCEPT ![e] = q]
      BY <1>5, <2>2 DEF CutLedgers, Enter
  <2> HIDE DEF q
  <2>5. Does(q)'
      BY <2>3 DEF Does
  <2> QED
      BY <1>1, <1>2, <2>3, <2>4, <2>5, Elsewhere
<1>6. ASSUME NEW step \in {"manifest", "outputs", "copies", "record"}, Goto(e, step),
             task[e].step \in {"cut", "manifest", "outputs", "copies"}
      PROVE  ExportsInv'
  <2>1. PICK r \in Tasks : r = task[e] /\ Does(r)
      BY Tasked
  <2> DEFINE q == [r EXCEPT !.step = step]
  <2>2. q \in Tasks /\ q.step = step /\ q.id = r.id
      BY DEF Tasks
  <2>3. r.id \in FlowIds
      BY <1>6, <2>1 DEF Does
  <2>4. task' = [task EXCEPT ![e] = q]
      BY <1>6, <2>1 DEF Goto, ExportsInv, ExportsType
  <2> HIDE DEF q
  <2>5. Does(q)'
      BY <2>2, <2>3 DEF Does
  <2> QED
      BY <1>1, <1>2, <2>2, <2>4, <2>5, Elsewhere
<1> QED
    BY <1>3, <1>4, <1>5, <1>6
       DEF FindExport, MissExport, WriteFiles, NextStep, RefuseCopy, RecordExport, Abandon

LEMMA DossierMoves ==
    ASSUME ExportsInv, NEW e \in Exporters,
           StartFinalize(e) \/ StoreProfiles(e) \/ AppendDossier(e)
    PROVE  ExportsInv'
<1>1. UNCHANGED <<contents, packagePart>>
    BY DEF StartFinalize, StoreProfiles, AppendDossier
<1>2. PICK r \in Tasks : r = task[e] /\ Does(r)
    BY Tasked
<1>3. CASE StartFinalize(e)
  <2>1. r.id \in [edition: Editions]
      BY <1>2, <1>3 DEF StartFinalize, Does
  <2>2. PICK s \in Snapshots : s = Snapshot(r.id.edition)
      BY <2>1 DEF Snapshot, Snapshots, ExportsInv, ExportsType
  <2>3. PICK step \in {"dossier", "profiles"} : Enter(e, step, s)
      BY <1>2, <1>3, <2>2 DEF StartFinalize
  <2> DEFINE q == [step |-> step, id |-> s]
  <2>4. q \in Tasks /\ Does(q)'
      BY DEF Tasks, Names, Does
  <2>5. task' = [task EXCEPT ![e] = q]
      BY <2>3 DEF Enter
  <2>6. Longer /\ profiles' \in Snapshots \union {NoExport}
      BY <1>3 DEF StartFinalize, Longer, dossierPart, ExportsInv, ExportsType
  <2> HIDE DEF q
  <2> QED
      BY <1>1, <2>4, <2>5, <2>6, Elsewhere
<1>4. CASE StoreProfiles(e)
  <2>1. r.id \in Snapshots
      BY <1>2, <1>4 DEF StoreProfiles, Does
  <2> DEFINE q == [r EXCEPT !.step = "dossier"]
  <2>2. q \in Tasks /\ q.step = "dossier" /\ q.id = r.id
      BY DEF Tasks
  <2>3. task' = [task EXCEPT ![e] = q]
      BY <1>2, <1>4 DEF StoreProfiles, Goto, ExportsInv, ExportsType
  <2> HIDE DEF q
  <2>4. Does(q)'
      BY <2>1, <2>2 DEF Does
  <2>5. Longer /\ profiles' \in Snapshots \union {NoExport}
      BY <1>2, <1>4, <2>1 DEF StoreProfiles, Longer
  <2> QED
      BY <1>1, <2>2, <2>3, <2>4, <2>5, Elsewhere
<1>5. CASE AppendDossier(e)
  <2>1. r.id \in Snapshots /\ dossiers' = Append(dossiers, r.id)
      BY <1>2, <1>5 DEF AppendDossier, Does
  <2>2. Longer /\ profiles' \in Snapshots \union {NoExport}
      BY <1>5, <2>1 DEF AppendDossier, Longer, ExportsInv, ExportsType
  <2>3. Leave(e)
      BY <1>5 DEF AppendDossier, Release
  <2> QED
      BY <1>1, <2>2, <2>3, Leaves, Elsewhere
<1> QED
    BY <1>3, <1>4, <1>5

LEMMA StartsPackage ==
    ASSUME ExportsInv, NEW e \in Exporters, StartPackage(e)
    PROVE  ExportsInv'
<1>1. PICK n \in Editions :
        /\ UpToDate(n)
        /\ Enter(e, IF PackageOf(n) \in DOMAIN packages THEN "enter" ELSE "package", PackageOf(n))
  <2>1. task[e].id \in [edition: Editions]
      BY Tasked DEF StartPackage, Does
  <2>2. task[e].id.edition \in Editions
      BY <2>1
  <2> QED
      BY <2>2 DEF StartPackage
<1>2. UNCHANGED <<contents, dossierPart, packagePart>>
    BY DEF StartPackage
<1>3. /\ evidence \in Nat /\ verdicts \in Nat /\ profiles \in Snapshots \union {NoExport}
      /\ dossiers \in Seq(Snapshots) /\ dossiers # <<>>
      /\ Snapshot(n) \in Snapshots
    BY <1>1 DEF UpToDate, ExportsInv, ExportsType, Snapshot, Snapshots
<1>4. Len(dossiers) \in 1..Len(dossiers) /\ dossiers[Len(dossiers)] = Snapshot(n)
    BY <1>1, <1>3 DEF UpToDate, Last
<1>5. PICK id \in PackageIds : id = PackageOf(n)
  <2>1. <<evidence, verdicts, profiles, Len(dossiers)>>
          \in Nat \X Nat \X (Snapshots \union {NoExport}) \X Nat
      BY <1>3
  <2> QED
      BY <1>3, <2>1 DEF PackageOf, PackageIds, Cut
<1>6. Grounded(id)
    BY <1>3, <1>4, <1>5 DEF PackageOf, Cut, Grounded, Snapshot
<1>7. PICK step \in {"package", "enter"} :
          Enter(e, step, id) /\ (step = "enter" => id \in DOMAIN packages)
    BY <1>1, <1>5
<1> DEFINE q == [step |-> step, id |-> id]
<1>8. q \in Tasks /\ q.step = step /\ q.id = id
    BY DEF Tasks, Names
<1>9. task' = [task EXCEPT ![e] = q]
    BY <1>7 DEF Enter
<1> HIDE DEF q
<1>10. Longer /\ profiles' \in Snapshots \union {NoExport}
    BY <1>2, <1>3 DEF Longer, dossierPart
<1>11. Does(q)'
    BY <1>2, <1>6, <1>7, <1>8 DEF Does, Grounded, dossierPart, packagePart
<1> QED
    BY <1>2, <1>8, <1>9, <1>10, <1>11, Elsewhere

LEMMA Packages ==
    ASSUME ExportsInv, NEW e \in Exporters, Package(e)
    PROVE  ExportsInv'
<1>1. PICK r \in Tasks : r = task[e] /\ Does(r) /\ r.step = "package"
    BY Tasked DEF Package
<1> DEFINE q == [r EXCEPT !.step = "enter"]
<1>2. q \in Tasks /\ q.step = "enter" /\ q.id = r.id
    BY DEF Tasks
<1>3. task' = [task EXCEPT ![e] = q]
    BY <1>1 DEF Package, Goto, ExportsInv, ExportsType
<1>4. /\ UNCHANGED <<contents, dossierPart, packaged>>
      /\ packages' = Put(packages, r.id, Parts(r.id))
    BY <1>1 DEF Package
<1>5. /\ DOMAIN packages' = DOMAIN packages \union {r.id}
      /\ packages'[r.id] = Parts(r.id)
      /\ \A id \in DOMAIN packages : id # r.id => packages'[id] = packages[id]
    BY <1>4 DEF Put
<1>6. Grounded(r.id)
    BY <1>1 DEF Does
<1>7. Longer
    BY <1>4 DEF Longer, dossierPart
<1> HIDE DEF q
<1>8. Does(q)'
    BY <1>2, <1>4, <1>5, <1>6 DEF Does, Grounded, dossierPart
<1>9. task' \in [Exporters -> Tasks] /\ Making'
    BY <1>2, <1>3, <1>5, <1>7, <1>8, TurnsTo
<1>10. Made'
  <2>1. \A id \in DOMAIN packages' : Grounded(id)' /\ packages'[id] = Parts(id)
      BY <1>4, <1>5, <1>6 DEF ExportsInv, Made, Grounded, dossierPart
  <2> QED
      BY <1>4, <1>5, <2>1 DEF ExportsInv, Made, Parts
<1> QED
    BY <1>4, <1>9, <1>10 DEF ExportsInv, ExportsType, contents, dossierPart

LEMMA EntersPackage ==
    ASSUME ExportsInv, NEW e \in Exporters, EnterPackage(e)
    PROVE  ExportsInv'
<1>1. PICK r \in Tasks : r = task[e] /\ Does(r) /\ r.step = "enter"
    BY Tasked DEF EnterPackage
<1>2. Grounded(r.id) /\ r.id \in DOMAIN packages /\ r.id \in PackageIds
    BY <1>1 DEF Does, Grounded
<1>3. UNCHANGED <<contents, dossierPart, packages>> /\ Leave(e)
    BY DEF EnterPackage, Release
<1>4. Longer
    BY <1>3 DEF Longer, dossierPart
<1>5. task' \in [Exporters -> Tasks] /\ Making'
    BY <1>3, <1>4, Leaves, TurnsTo
<1>6. packaged \in Seq(PackageIds)
    BY DEF ExportsInv, ExportsType
<1>7. \A id \in DOMAIN packages : Grounded(id)' /\ packages'[id] = Parts(id)
    BY <1>3 DEF ExportsInv, Made, Grounded, dossierPart
<1>8. packaged' \in Seq(PackageIds) /\ Made'
  <2>1. CASE packaged' = packaged
      BY <1>3, <1>6, <1>7, <2>1 DEF ExportsInv, Made, Parts
  <2>2. CASE packaged' # packaged
    <3>1. packaged' = Append(packaged, r.id) /\ r.id \notin Range(packaged)
        BY <1>1, <2>2 DEF EnterPackage
    <3>2. /\ packaged' \in Seq(PackageIds)
          /\ \A i \in DOMAIN packaged' : \/ i = Len(packaged) + 1 /\ packaged'[i] = r.id
                                         \/ i \in DOMAIN packaged /\ packaged'[i] = packaged[i]
        BY <1>2, <1>6, <3>1, OneMore
    <3>3. \A i \in DOMAIN packaged : packaged[i] # r.id
        BY <3>1 DEF Range
    <3>4. \A i \in DOMAIN packaged' : packaged'[i] \in DOMAIN packages
        BY <1>2, <3>2 DEF ExportsInv, Made
    <3>5. \A i, j \in DOMAIN packaged' : packaged'[i] = packaged'[j] => i = j
        BY <3>2, <3>3 DEF ExportsInv, Made
    <3> QED
        BY <1>3, <1>7, <3>2, <3>4, <3>5 DEF Made, Parts
  <2> QED
      BY <2>1, <2>2
<1> QED
    BY <1>3, <1>5, <1>8 DEF ExportsInv, ExportsType, contents, dossierPart

LEMMA ExportsStart ==
    ASSUME \E n \in Editions : ExportsInit(n)
    PROVE  ExportsInv
<1>1. Unoccupied \in Tasks /\ Does(Unoccupied)
    BY DEF Unoccupied, Tasks, Names, Does
<1>2. /\ task = [e \in Exporters |-> Unoccupied] /\ packages = <<>> /\ packaged = <<>>
      /\ dossiers = <<>> /\ evidence = 0 /\ verdicts = 0 /\ profiles = NoExport
      /\ edition \in Editions
    BY DEF ExportsInit
<1>3. ExportsType /\ Making
    BY <1>1, <1>2 DEF ExportsType, Making
<1>4. DOMAIN packages = {} /\ DOMAIN packaged = {}
    BY <1>2
<1> QED
    BY <1>3, <1>4 DEF ExportsInv, Made

LEMMA ExportsSteps ==
    ASSUME ExportsInv, [ExportsNext]_exports
    PROVE  ExportsInv'
    BY WorldMoves, FlowMoves, DossierMoves, StartsPackage, Packages, EntersPackage DEF ExportsNext

\* Whoever is killed or overtaken, a package is there whole or not at all, has one row at most,
\* and rests on just the evidence of the dossier that was the last when it was cut.
THEOREM WholePackages == ExportsSpec => []PackagesAreWhole
<1>1. (\E n \in Editions : ExportsInit(n)) => ExportsInv
    BY ExportsStart
<1>2. ExportsInv /\ [ExportsNext]_exports => ExportsInv'
    BY ExportsSteps
<1>3. ExportsInv => PackagesAreWhole
    BY DEF ExportsInv, Made, Grounded, PackagesAreWhole, Complete, FilesOf, Range
<1> QED
    BY <1>1, <1>2, <1>3, PTL DEF ExportsSpec
=============================================================================
