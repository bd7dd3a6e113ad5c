--------------------------- MODULE OperationsProofs ---------------------------
(***************************************************************************)
(* Proofs about Operations, for every number of workers, candidates,       *)
(* labels and grants, and for every value of the bounds.                   *)
(*                                                                         *)
(* The argument: the writer lock makes the worker in its critical section  *)
(* the only writer of the ledgers and of the grants (Locked, Working,      *)
(* Sanctioned), so what PassChecks read of them still holds when Request   *)
(* and RecordOutcome append; a plan's prior row, once written, never       *)
(* changes and was not an acquired one when the plan was frozen (Frozen);  *)
(* and attempts only grow, a transfer's above all before it, so the digest *)
(* of a row that was answered never comes back (Numbered).                 *)
(***************************************************************************)
EXTENDS Operations, SequenceTheorems, FiniteSetTheorems, WellFoundedInduction, TLAPS

Critical == {"checked", "fetch", "settled", "sealed"}

\* Whoever is between its checks and its last row holds the lock.
Locked == \A w \in Workers : pc[w] \in Critical => lock = w

\* What such a worker knows of its operation.
Working ==
    \A w \in Workers :
        /\ pc[w] \in Critical \union {"erred"} => cur[w] \in Plans
        /\ pc[w] \in {"fetch", "settled"} => Last(cur[w]) = "started"
        /\ pc[w] = "sealed" => Last(cur[w]) = "unit_completed"
        /\ pc[w] = "checked" => ~StateChanged(cur[w])
        /\ pc[w] = "fetch" => Version(cur[w].key) = cur[w].prior
        /\ pc[w] \in {"settled", "sealed"} => cur[w] \in Settled(cur[w].key)

\* Nobody takes the approval away from under it.
Sanctioned ==
    \A w \in Workers : pc[w] \in {"checked", "fetch"} /\ via[cur[w]] \in Grants =>
        Granted(via[cur[w]]) /\ window[via[cur[w]]] # "early"

\* A planned operation was frozen on rows that are still there, the last of
\* which had not acquired the document.
Frozen ==
    \A op \in Plans : events[op] # <<>> =>
        /\ op.prior <= Len(acquisitions[op.key])
        /\ op.prior > 0 => acquisitions[op.key][op.prior].outcome # "acquired"

\* Attempts never go back, and only a re-gate keeps the number of its
\* predecessor.
Numbered ==
    \A c \in Keys : \A j \in 1..Len(acquisitions[c]) : \A i \in 1..(j - 1) :
        /\ acquisitions[c][i].attempt <= acquisitions[c][j].attempt
        /\ acquisitions[c][j].campaign \notin Regates =>
               acquisitions[c][i].attempt < acquisitions[c][j].attempt

\* No transfer is made for a document that is held: nothing the scheduler or a
\* routine run records stands directly after an acquired row.
NeverRefetched ==
    \A c \in Keys : \A i \in 1..Len(acquisitions[c]) :
        acquisitions[c][i].campaign \in Plans \union {Routine} /\ i > 1 =>
            acquisitions[c][i - 1].outcome # "acquired"

\* What OutcomeChain says of one plan's row at place i of a history.
Chained(rows, c, i) ==
    LET by == rows[i].campaign
    IN  /\ by.key = c
        /\ IF i = 1 THEN by.prior = 0 ELSE by.prior \in 1..(i - 1) /\ rows[by.prior] = rows[i - 1]

Data    == LedgerReadable /\ Frozen /\ OutcomeChain /\ Numbered /\ NeverRefetched /\ CompletedHasOutcome
Control == Locked /\ Working /\ Sanctioned
IInv    == TypeOK /\ Data /\ Control

USE BoundsAssumption, NamesAssumption

\* A history that has rows has a first one like its last.
LEMMA FirstIsThere ==
    ASSUME NEW rows \in Seq(Row), rows # <<>>
    PROVE  /\ FirstLikeLast(rows) \in 1..Len(rows)
           /\ rows[FirstLikeLast(rows)] = rows[Len(rows)]
  <1> DEFINE n == Len(rows)
             T == {i \in 1..n : rows[i] = rows[n]}
             F == {1..i : i \in T}
  <1>1. n \in Nat \ {0} /\ n \in T
    OBVIOUS
  <1>2. F \subseteq FiniteSubsetsOf(Nat) /\ F # {}
    <2>1. \A i \in T : 1..i \in SUBSET Nat /\ IsFiniteSet(1..i)
      BY FS_Interval
    <2> QED BY <1>1, <2>1 DEF FiniteSubsetsOf
  <1>3. PICK A \in F : \A B \in F : <<B, A>> \notin StrictSubsetOrdering(Nat)
    <2> HIDE DEF F
    <2> QED BY <1>2, FS_StrictSubsetOrderingWellFounded, WFMin
  <1>4. PICK i \in T : A = 1..i
    OBVIOUS
  <1>5. ASSUME NEW j \in 1..(i - 1), rows[j] = rows[n]
        PROVE  FALSE
    <2>1. j \in T /\ 1..j \in F
      BY <1>1, <1>5
    <2>2. 1..j \subseteq A /\ i \in A /\ i \notin 1..j /\ A \subseteq Nat
      BY <1>4
    <2>3. <<1..j, A>> \in StrictSubsetOrdering(Nat)
      BY <2>2 DEF StrictSubsetOrdering
    <2> QED BY <1>3, <2>1, <2>3
  <1>6. \A j \in 1..(i - 1) : rows[j] # rows[n]
    BY <1>5
  <1> HIDE DEF F
  <1> QED BY <1>4, <1>6 DEF FirstLikeLast

\* What the version of a candidate is.
LEMMA VersionIs ==
    ASSUME TypeOK, NEW c \in Keys
    PROVE  /\ Version(c) \in Nat /\ Version(c) <= Len(acquisitions[c])
           /\ ~HasRow(c) => Version(c) = 0
           /\ HasRow(c) => /\ Version(c) \in 1..Len(acquisitions[c])
                           /\ acquisitions[c][Version(c)] = Latest(c)
                           /\ Latest(c) \in Row
                           /\ Len(acquisitions[c]) \in Nat \ {0}
  <1>1. acquisitions[c] \in Seq(Row)
    BY DEF TypeOK
  <1>2. CASE acquisitions[c] = <<>>
    BY <1>2 DEF Version, FirstLikeLast, HasRow
  <1>3. CASE acquisitions[c] # <<>>
    <2>1. FirstLikeLast(acquisitions[c]) \in 1..Len(acquisitions[c])
          /\ acquisitions[c][FirstLikeLast(acquisitions[c])] = acquisitions[c][Len(acquisitions[c])]
      BY <1>1, <1>3, FirstIsThere
    <2>2. Len(acquisitions[c]) \in Nat \ {0} /\ acquisitions[c][Len(acquisitions[c])] \in Row
      BY <1>1, <1>3
    <2> QED BY <1>3, <2>1, <2>2 DEF Version, HasRow, Latest
  <1> QED BY <1>2, <1>3

-----------------------------------------------------------------------------
(***************************************************************************)
(* One row appended to the operation ledger.                               *)
(***************************************************************************)

\* What LogEvent does to one operation and leaves alone in the others.
LEMMA LoggedEvent ==
    ASSUME TypeOK, NEW op \in Plans, NEW e \in Events, LogEvent(op, e)
    PROVE  /\ events' \in [Plans -> Seq(Events)]
           /\ events'[op] = Append(events[op], e)
           /\ Last(op)' = e
           /\ \A other \in Plans : other # op => events'[other] = events[other] /\ Last(other)' = Last(other)
           /\ \A other \in Plans : events[other] # <<>> => events'[other] # <<>>
  <1>1. events' = [events EXCEPT ![op] = Append(@, e)] /\ events \in [Plans -> Seq(Events)]
    BY DEF LogEvent, TypeOK
  <1>2. events[op] \in Seq(Events)
    BY <1>1
  <1>3. Append(events[op], e) \in Seq(Events) /\ Append(events[op], e) # <<>>
    BY <1>2, AppendProperties
  <1>4. events'[op] = Append(events[op], e)
    BY <1>1
  <1>5. Last(op)' = e
    BY <1>2, <1>3, <1>4 DEF Last
  <1>6. \A other \in Plans : other # op => events'[other] = events[other] /\ Last(other)' = Last(other)
    BY <1>1 DEF Last
  <1> QED BY <1>1, <1>3, <1>4, <1>5, <1>6

\* An event the reader permits after the last one keeps the ledger readable.
LEMMA ReadableEvent ==
    ASSUME TypeOK, LedgerReadable, NEW op \in Plans, NEW e \in Events, LogEvent(op, e),
           IF events[op] = <<>> THEN e = "planned" ELSE <<Last(op), e>> \in Permitted
    PROVE  LedgerReadable'
  <1> SUFFICES ASSUME NEW o \in Plans
      PROVE /\ events'[o] # <<>> => events'[o][1] = "planned"
            /\ \A i \in 1..(Len(events'[o]) - 1) : <<events'[o][i], events'[o][i + 1]>> \in Permitted
    BY DEF LedgerReadable, Permitted
  <1>1. CASE o # op
    BY <1>1, LoggedEvent DEF LedgerReadable
  <1>2. CASE o = op
    <2> DEFINE s == events[op]
    <2>1. s \in Seq(Events) /\ events'[op] = Append(s, e)
      BY LoggedEvent DEF TypeOK
    <2>2. Append(s, e)[1] = "planned"
      BY <2>1 DEF LedgerReadable
    <2>3. ASSUME NEW i \in 1..(Len(Append(s, e)) - 1)
          PROVE  <<Append(s, e)[i], Append(s, e)[i + 1]>> \in Permitted
      <3>1. i \in 1..Len(s) /\ s # <<>>
        BY <2>1
      <3>2. CASE i < Len(s)
        BY <2>1, <3>1, <3>2 DEF LedgerReadable
      <3>3. CASE i = Len(s)
        BY <2>1, <3>1, <3>3 DEF Last
      <3> QED BY <3>1, <3>2, <3>3
    <2> QED BY <1>2, <2>1, <2>2, <2>3
  <1> QED BY <1>1, <1>2

\* The ledger invariants through any legal event of an operation.
LEMMA DataEvent ==
    ASSUME TypeOK, Data, NEW op \in Plans, NEW e \in Events, LogEvent(op, e),
           acquisitions' = acquisitions,
           IF events[op] = <<>> THEN e = "planned" ELSE <<Last(op), e>> \in Permitted,
           e = "planned" => /\ op.prior <= Len(acquisitions[op.key])
                            /\ op.prior > 0 => acquisitions[op.key][op.prior].outcome # "acquired",
           e \in {"unit_completed", "completed"} => op \in Settled(op.key)
    PROVE  Data'
  <1>1. LedgerReadable'
    BY ReadableEvent DEF Data
  <1>2. Frozen'
    <2> SUFFICES ASSUME NEW o \in Plans, events'[o] # <<>>
        PROVE /\ o.prior <= Len(acquisitions[o.key])
              /\ o.prior > 0 => acquisitions[o.key][o.prior].outcome # "acquired"
      BY DEF Frozen
    <2>1. CASE o = op /\ events[op] = <<>>
      BY <2>1
    <2>2. CASE o # op \/ events[op] # <<>>
      <3>1. events[o] # <<>>
        BY <2>2, LoggedEvent
      <3> QED BY <3>1 DEF Data, Frozen
    <2> QED BY <2>1, <2>2
  <1>3. OutcomeChain' /\ Numbered' /\ NeverRefetched'
    BY DEF Data, OutcomeChain, Numbered, NeverRefetched
  <1>4. CompletedHasOutcome'
    <2> SUFFICES ASSUME NEW o \in Plans, Last(o)' \in {"unit_completed", "completed"}
        PROVE o \in Settled(o.key)
      BY DEF CompletedHasOutcome, Settled
    <2>1. CASE o = op
      BY <2>1, LoggedEvent
    <2>2. CASE o # op
      BY <2>2, LoggedEvent DEF Data, CompletedHasOutcome
    <2> QED BY <2>1, <2>2
  <1> QED BY <1>1, <1>2, <1>3, <1>4 DEF Data

-----------------------------------------------------------------------------
(***************************************************************************)
(* One row appended to the acquisition ledger.                             *)
(***************************************************************************)

LogRow(c, row) == acquisitions' = [acquisitions EXCEPT ![c] = Append(@, row)]

\* What an outcome row does to its candidate and leaves alone elsewhere.
LEMMA LoggedRow ==
    ASSUME TypeOK, NEW c \in Keys, NEW row \in Row, LogRow(c, row)
    PROVE  /\ acquisitions' \in [Keys -> Seq(Row)]
           /\ acquisitions'[c] = Append(acquisitions[c], row)
           /\ \A k \in Keys : k # c => acquisitions'[k] = acquisitions[k]
           /\ \A k \in Keys : Settled(k) \subseteq Settled(k)'
           /\ row.campaign \in Settled(c)'
  <1>1. acquisitions' = [acquisitions EXCEPT ![c] = Append(@, row)] /\ acquisitions \in [Keys -> Seq(Row)]
    BY DEF LogRow, TypeOK
  <1>2. acquisitions[c] \in Seq(Row) /\ acquisitions'[c] = Append(acquisitions[c], row)
    BY <1>1
  <1>3. \A k \in Keys : k # c => acquisitions'[k] = acquisitions[k]
    BY <1>1
  <1>4. ASSUME NEW k \in Keys, NEW by \in Settled(k)
        PROVE  by \in Settled(k)'
    <2>1. PICK i \in 1..Len(acquisitions[k]) : by = acquisitions[k][i].campaign
      BY <1>4 DEF Settled
    <2>2. i \in 1..Len(acquisitions'[k]) /\ acquisitions'[k][i] = acquisitions[k][i]
      BY <1>2, <1>3, <2>1
    <2> QED BY <2>1, <2>2 DEF Settled
  <1>5. row.campaign \in Settled(c)'
    <2>1. Len(acquisitions'[c]) = Len(acquisitions[c]) + 1 /\ Len(acquisitions[c]) \in Nat
      BY <1>2
    <2>2. acquisitions'[c][Len(acquisitions[c]) + 1] = row
      BY <1>2
    <2> QED BY <2>1, <2>2 DEF Settled
  <1> QED BY <1>1, <1>2, <1>3, <1>4, <1>5

\* Every row has the type of a row.
LEMMA RowsTyped ==
    ASSUME TypeOK, NEW c \in Keys, NEW i \in 1..Len(acquisitions[c])
    PROVE  /\ acquisitions[c] \in Seq(Row)
           /\ acquisitions[c][i] \in Row
           /\ acquisitions[c][i].attempt \in Nat
           /\ acquisitions[c][i].campaign \in Campaigns
  <1>1. acquisitions[c] \in Seq(Row)
    BY DEF TypeOK
  <1>2. acquisitions[c][i] \in Row
    BY <1>1
  <1> QED BY <1>1, <1>2 DEF Row

\* A plan's row at place i was recorded directly after the row it was frozen on,
\* or after that row written again.
LEMMA RowChained ==
    ASSUME OutcomeChain, NEW c \in Keys, NEW i \in 1..Len(acquisitions[c]),
           acquisitions[c][i].campaign \in Plans
    PROVE  Chained(acquisitions[c], c, i)
  BY DEF OutcomeChain, Chained

\* No earlier plan answered the row the latest one is like: a transfer raises
\* the attempt above every row before it.
LEMMA VersionIsFresh ==
    ASSUME TypeOK, OutcomeChain, Numbered, NEW c \in Keys, NEW i \in 1..Len(acquisitions[c]),
           acquisitions[c][i].campaign \in Plans
    PROVE  acquisitions[c][i].campaign.prior # Version(c)
  <1> DEFINE s == acquisitions[c]
             n == Len(acquisitions[c])
             p == acquisitions[c][i].campaign.prior
  <1> SUFFICES ASSUME p = Version(c) PROVE FALSE
    OBVIOUS
  <1>1. s \in Seq(Row) /\ HasRow(c) /\ n \in Nat /\ i \in Nat
    BY RowsTyped DEF HasRow
  <1>2. p \in 1..n /\ s[p] = s[n]
    BY <1>1, VersionIs DEF Latest
  <1>3. i # 1 /\ p \in 1..(i - 1) /\ s[p] = s[i - 1]
    BY <1>2, RowChained DEF Chained
  <1>4. s[i].campaign \notin Regates
    OBVIOUS
  <1>5. i - 1 \in 1..(i - 1) /\ i - 1 \in 1..n /\ n \in 1..n
    BY <1>1, <1>3
  <1>6. s[i - 1].attempt < s[i].attempt
    BY <1>4, <1>5 DEF Numbered
  <1>7. s[i].attempt <= s[n].attempt
    <2>1. s[i].attempt \in Nat
      BY RowsTyped
    <2>2. CASE i = n
      BY <2>1, <2>2
    <2>3. CASE i # n
      <3>1. i \in 1..(n - 1)
        BY <1>1, <2>3
      <3> QED BY <1>5, <3>1 DEF Numbered
    <2> QED BY <2>2, <2>3
  <1>8. s[i].attempt \in Nat /\ s[n].attempt \in Nat /\ s[i - 1].attempt \in Nat
    BY <1>5, RowsTyped
  <1>9. s[i - 1].attempt = s[n].attempt
    BY <1>2, <1>3
  <1> HIDE DEF s, n
  <1> QED BY <1>6, <1>7, <1>8, <1>9

\* The ledger invariants through a row appended to the present history: one of a
\* plan against the version it was frozen on; one of a transfer for a document
\* that is not held; any with the next attempt, a re-gate with the present one.
LEMMA DataRow ==
    ASSUME TypeOK, Data, NEW c \in Keys, NEW row \in Row, LogRow(c, row),
           events' = events,
           row.campaign \in Plans => row.campaign.key = c /\ row.campaign.prior = Version(c),
           row.campaign \in Plans \union {Routine} => (HasRow(c) => Latest(c).outcome # "acquired"),
           row.attempt = (IF row.campaign \in Regates THEN Attempt(c) ELSE Attempt(c) + 1)
    PROVE  Data'
  <1> DEFINE s == acquisitions[c]
             n == Len(s)
  <1>1. s \in Seq(Row) /\ acquisitions'[c] = Append(s, row) /\ n \in Nat
    BY LoggedRow DEF TypeOK
  <1>2. \A i \in 1..n : Append(s, row)[i] = s[i]
    BY <1>1
  <1>3. Len(Append(s, row)) = n + 1 /\ Append(s, row)[n + 1] = row
    BY <1>1
  <1>0. n > 0 => HasRow(c) /\ Latest(c) = s[n]
    BY <1>1 DEF HasRow, Latest
  <1>4. LedgerReadable'
    BY DEF Data, LedgerReadable, Permitted
  <1>5. Frozen'
    <2> SUFFICES ASSUME NEW op \in Plans, events[op] # <<>>
        PROVE /\ op.prior <= Len(acquisitions'[op.key])
              /\ op.prior > 0 => acquisitions'[op.key][op.prior].outcome # "acquired"
      BY DEF Frozen
    <2>1. /\ op.key \in Keys
          /\ op.prior \in Nat
          /\ op.prior <= Len(acquisitions[op.key])
          /\ op.prior > 0 => acquisitions[op.key][op.prior].outcome # "acquired"
      BY DEF Data, Frozen, Plans
    <2>2. CASE op.key = c
      BY <1>1, <1>2, <1>3, <2>1, <2>2
    <2>3. CASE op.key # c
      BY <2>1, <2>3, LoggedRow
    <2> QED BY <2>2, <2>3
  <1>6. OutcomeChain'
    <2>1. \A k \in Keys : k # c => acquisitions'[k] = acquisitions[k]
      BY LoggedRow
    <2>2. \A i \in 1..n : s[i].campaign \in Plans =>
              Chained(s, c, i) /\ Chained(Append(s, row), c, i)
      <3> SUFFICES ASSUME NEW i \in 1..n, s[i].campaign \in Plans
          PROVE Chained(s, c, i) /\ Chained(Append(s, row), c, i)
        OBVIOUS
      <3>1. Chained(s, c, i)
        BY RowChained DEF Data
      <3> QED BY <1>1, <1>2, <3>1 DEF Chained
    <2>3. row.campaign \in Plans => Chained(Append(s, row), c, n + 1)
      <3> SUFFICES ASSUME row.campaign \in Plans PROVE Chained(Append(s, row), c, n + 1)
        OBVIOUS
      <3>1. CASE n = 0
        <4>1. Version(c) = 0
          BY <1>1, <3>1, VersionIs DEF HasRow
        <4> QED BY <1>3, <3>1, <4>1 DEF Chained
      <3>2. CASE n > 0
        <4>1. Version(c) \in 1..n /\ s[Version(c)] = s[n]
          BY <1>0, <3>2, VersionIs
        <4>2. n \in 1..n /\ n + 1 # 1 /\ (n + 1) - 1 = n
          BY <1>1, <3>2
        <4>3. Append(s, row)[Version(c)] = Append(s, row)[n]
          BY <1>2, <4>1, <4>2
        <4> HIDE DEF n
        <4> QED BY <1>3, <4>1, <4>2, <4>3 DEF Chained
      <3> QED BY <1>1, <3>1, <3>2
    <2>4. row.campaign \in Plans =>
              \A i \in 1..n : s[i].campaign \in Plans => s[i].campaign.prior # row.campaign.prior
      BY VersionIsFresh DEF Data
    <2>5. \A i, j \in 1..n : s[i].campaign \in Plans /\ s[j].campaign \in Plans /\ j # i =>
              s[j].campaign.prior # s[i].campaign.prior
      BY DEF Data, OutcomeChain
    <2> SUFFICES ASSUME NEW k \in Keys, NEW i \in 1..Len(acquisitions'[k]),
                        acquisitions'[k][i].campaign \in Plans
        PROVE /\ Chained(acquisitions'[k], k, i)
              /\ \A j \in 1..Len(acquisitions'[k]) :
                     acquisitions'[k][j].campaign \in Plans /\ j # i =>
                         acquisitions'[k][j].campaign.prior # acquisitions'[k][i].campaign.prior
      BY DEF OutcomeChain, Chained, Plans
    <2>6. CASE k # c
      <3>1. acquisitions'[k] = acquisitions[k]
        BY <2>1, <2>6
      <3>2. Chained(acquisitions[k], k, i)
        BY <3>1, RowChained DEF Data
      <3> QED BY <3>1, <3>2 DEF Data, OutcomeChain
    <2>7. CASE k = c
      <3>1. \A j \in 1..(n + 1) : j = n + 1 \/ j \in 1..n
        BY <1>1
      <3> HIDE DEF s, n
      <3>2. CASE i \in 1..n
        <4>1. acquisitions'[k][i] = s[i] /\ s[i].campaign \in Plans
          BY <1>1, <1>2, <2>7, <3>2
        <4>2. Chained(acquisitions'[k], k, i)
          BY <1>1, <2>2, <2>7, <3>2, <4>1
        <4>3. ASSUME NEW j \in 1..Len(acquisitions'[k]), acquisitions'[k][j].campaign \in Plans, j # i
              PROVE  acquisitions'[k][j].campaign.prior # s[i].campaign.prior
          <5>1. CASE j = n + 1
            BY <1>1, <1>3, <2>4, <2>7, <3>2, <4>1, <4>3, <5>1
          <5>2. CASE j \in 1..n
            BY <1>1, <1>2, <2>5, <2>7, <3>2, <4>1, <4>3, <5>2
          <5> QED BY <1>1, <1>3, <2>7, <3>1, <4>3, <5>1, <5>2
        <4> QED BY <4>1, <4>2, <4>3
      <3>3. CASE i = n + 1
        BY <1>1, <1>2, <1>3, <2>3, <2>4, <2>7, <3>1, <3>3
      <3> QED BY <1>1, <1>3, <2>7, <3>1, <3>2, <3>3
    <2> QED BY <2>6, <2>7
  <1>7. Numbered'
    <2>1. \A i \in 1..n : s[i].attempt \in Nat /\ s[i].attempt <= Attempt(c)
      <3> SUFFICES ASSUME NEW i \in 1..n PROVE s[i].attempt \in Nat /\ s[i].attempt <= Attempt(c)
        OBVIOUS
      <3>1. s[i].attempt \in Nat /\ n > 0 /\ n \in 1..n
        BY <1>1, RowsTyped
      <3>2. Attempt(c) = s[n].attempt
        BY <1>0, <3>1 DEF Attempt
      <3>3. i = n \/ i \in 1..(n - 1)
        BY <1>1
      <3> QED BY <3>1, <3>2, <3>3 DEF Data, Numbered
    <2>2. Attempt(c) \in Nat
      <3>1. CASE n = 0
        BY <1>1, <3>1 DEF Attempt, HasRow
      <3>2. CASE n > 0
        <4>1. n \in 1..n
          BY <1>1, <3>2
        <4> QED BY <1>0, <3>2, <4>1, RowsTyped DEF Attempt
      <3> QED BY <1>1, <3>1, <3>2
    <2> SUFFICES ASSUME NEW k \in Keys, NEW j \in 1..Len(acquisitions'[k]), NEW i \in 1..(j - 1)
        PROVE /\ acquisitions'[k][i].attempt <= acquisitions'[k][j].attempt
              /\ acquisitions'[k][j].campaign \notin Regates =>
                     acquisitions'[k][i].attempt < acquisitions'[k][j].attempt
      BY DEF Numbered
    <2>3. CASE k # c
      BY <2>3, LoggedRow DEF Data, Numbered
    <2>4. CASE k = c /\ j \in 1..n
      <3>1. i \in 1..n
        BY <1>1, <2>4
      <3> QED BY <1>1, <1>2, <2>4, <3>1 DEF Data, Numbered
    <2>5. CASE k = c /\ j = n + 1
      <3>1. i \in 1..n
        BY <1>1, <2>5
      <3>2. s[i].attempt \in Nat /\ s[i].attempt <= Attempt(c) /\ acquisitions'[k][i] = s[i]
        BY <1>1, <1>2, <2>1, <2>5, <3>1
      <3>3. acquisitions'[k][j] = row
        BY <1>1, <1>3, <2>5
      <3> QED BY <2>2, <3>2, <3>3
    <2> QED BY <1>1, <1>3, <2>3, <2>4, <2>5
  <1>8. NeverRefetched'
    <2> SUFFICES ASSUME NEW k \in Keys, NEW i \in 1..Len(acquisitions'[k]), i > 1,
                        acquisitions'[k][i].campaign \in Plans \union {Routine}
        PROVE acquisitions'[k][i - 1].outcome # "acquired"
      BY DEF NeverRefetched, Plans
    <2>1. CASE k # c
      BY <2>1, LoggedRow DEF Data, NeverRefetched
    <2>2. CASE k = c /\ i \in 1..n
      <3>1. i - 1 \in 1..n
        BY <1>1, <2>2
      <3> QED BY <1>1, <1>2, <2>2, <3>1 DEF Data, NeverRefetched
    <2>3. CASE k = c /\ i = n + 1
      <3>1. n > 0 /\ n \in 1..n /\ i - 1 = n
        BY <1>1, <2>3
      <3>2. acquisitions'[k][i - 1] = s[n] /\ acquisitions'[k][i] = row
        BY <1>1, <1>2, <1>3, <2>3, <3>1
      <3> QED BY <1>0, <3>1, <3>2
    <2> QED BY <1>1, <1>3, <2>1, <2>2, <2>3
  <1>9. CompletedHasOutcome'
    <2> SUFFICES ASSUME NEW op \in Plans, Last(op) \in {"unit_completed", "completed"}
        PROVE op \in Settled(op.key)'
      BY DEF CompletedHasOutcome, Last
    <2>1. op.key \in Keys /\ op \in Settled(op.key)
      BY DEF Data, CompletedHasOutcome, Plans
    <2> QED BY <2>1, LoggedRow
  <1> QED BY <1>4, <1>5, <1>6, <1>7, <1>8, <1>9 DEF Data

\* A step that touches neither ledger leaves their invariants alone.
LEMMA DataUnchanged ==
    ASSUME Data, events' = events, acquisitions' = acquisitions
    PROVE  Data'
  <1>1. LedgerReadable'
    BY DEF Data, LedgerReadable, Permitted
  <1>2. Frozen' /\ OutcomeChain' /\ Numbered' /\ NeverRefetched'
    BY DEF Data, Frozen, OutcomeChain, Numbered, NeverRefetched
  <1>3. CompletedHasOutcome'
    BY DEF Data, CompletedHasOutcome, Last, Settled
  <1> QED BY <1>1, <1>2, <1>3 DEF Data

-----------------------------------------------------------------------------
(***************************************************************************)
(* The invariant holds at the start and through every action.              *)
(***************************************************************************)

LEMMA InitInvariant == Init => IInv
  <1> SUFFICES ASSUME Init PROVE IInv
    OBVIOUS
  <1>1. TypeOK
    BY DEF Init, TypeOK, Points
  <1>2. Data
    BY DEF Init, Data, LedgerReadable, Frozen, OutcomeChain, NeverRefetched,
           CompletedHasOutcome, Last, Plans, Numbered
  <1>3. Control
    BY DEF Init, Control, Locked, Working, Sanctioned, Critical
  <1> QED BY <1>1, <1>2, <1>3 DEF IInv

\* Somebody who is no worker takes the free lock: to plan, authorize or revoke,
\* for a routine run, a supplied copy or a re-gate.
LEMMA OutsideKeepsControl ==
    ASSUME IInv, lock = Free, UNCHANGED workers
    PROVE  Control'
  <1>1. \A w \in Workers : pc[w] \notin Critical
    BY DEF IInv, Control, Locked
  <1>2. Locked'
    BY <1>1 DEF Locked, workers
  <1>3. Working'
    BY <1>1 DEF IInv, Control, Working, workers, Critical
  <1>4. Sanctioned'
    BY <1>1 DEF Sanctioned, workers, Critical
  <1> QED BY <1>2, <1>3, <1>4 DEF Control

LEMMA PlanKeeps ==
    ASSUME IInv, NEW c \in Keys, NEW label \in Labels, PlanAcquire(c, label)
    PROVE  IInv'
  <1> DEFINE op == [key |-> c, label |-> label, prior |-> Version(c), epoch |-> epoch]
  <1>1. acquisitions[c] \in Seq(Row) /\ Len(acquisitions[c]) < MaxRows /\ Len(acquisitions[c]) \in Nat
    BY DEF PlanAcquire, IInv, TypeOK
  <1>2. Version(c) \in Nat /\ Version(c) <= Len(acquisitions[c])
    BY VersionIs DEF IInv
  <1>3. op \in Plans /\ "planned" \in Events
    BY <1>1, <1>2 DEF Plans, IInv, TypeOK, Events
  <1>4. LogEvent(op, "planned") /\ Last(op) = "none" /\ order' = Append(order, op)
    BY DEF PlanAcquire
  <1>5. events[op] = <<>>
    <2>1. events[op] # <<>> => Last(op) \in Events
      BY <1>3 DEF Last, IInv, TypeOK
    <2> QED BY <1>4, <2>1 DEF Events
  <1>6. Version(c) > 0 => acquisitions[c][Version(c)].outcome # "acquired"
    <2> SUFFICES ASSUME Version(c) > 0 PROVE acquisitions[c][Version(c)].outcome # "acquired"
      OBVIOUS
    <2>1. HasRow(c)
      BY VersionIs DEF IInv
    <2>2. acquisitions[c][Version(c)] = Latest(c)
      BY <2>1, VersionIs DEF IInv
    <2> QED BY <2>1, <2>2 DEF PlanAcquire, Eligible
  <1>7. TypeOK'
    BY <1>3, <1>4, LoggedEvent DEF PlanAcquire, IInv, TypeOK, grants, workers
  <1>8. Data'
    <2>1. op.key = c /\ op.prior = Version(c) /\ op.prior <= Len(acquisitions[op.key])
      BY <1>2
    <2>2. acquisitions' = acquisitions /\ TypeOK /\ Data
      BY DEF PlanAcquire, IInv
    <2> HIDE DEF op
    <2> QED BY <1>3, <1>4, <1>5, <1>6, <2>1, <2>2, DataEvent
  <1>9. Control'
    BY OutsideKeepsControl DEF PlanAcquire
  <1> QED BY <1>7, <1>8, <1>9 DEF IInv

LEMMA AuthorizeKeeps ==
    ASSUME IInv, NEW op \in Plans, NEW by \in Grants \union {Operator},
           lock = Free, Authorize(op, by)
    PROVE  IInv'
  <1>1. LogEvent(op, "authorized") /\ Last(op) = "planned" /\ "authorized" \in Events
    BY DEF Authorize, Events
  <1>2. events[op] # <<>>
    BY <1>1 DEF Last
  <1>3. TypeOK'
    BY <1>1, LoggedEvent DEF Authorize, IInv, TypeOK, grants, workers
  <1>4. Data'
    BY <1>1, <1>2, DataEvent DEF Authorize, IInv, Permitted
  <1>5. Control'
    BY OutsideKeepsControl DEF Authorize
  <1> QED BY <1>3, <1>4, <1>5 DEF IInv

\* Time and the environment touch neither ledgers nor workers, and a window that
\* has opened is never early again.
LEMMA ElsewhereKeeps ==
    ASSUME IInv, UNCHANGED <<ledgers, workers, grant>>, TypeOK',
           \A g \in Grants : window[g] # "early" => window'[g] # "early"
    PROVE  IInv'
  <1>1. Data'
    BY DataUnchanged DEF IInv, ledgers
  <1>2. Locked' /\ Working'
    BY DEF IInv, ledgers, workers, Control, Locked, Working, Last, Settled, StateChanged,
           Version, HasRow, Latest
  <1>3. Sanctioned'
    BY DEF IInv, ledgers, workers, Control, Sanctioned, Granted
  <1> QED BY <1>1, <1>2, <1>3 DEF IInv, Control

\* An approval is given or withdrawn under the lock, by somebody who is no worker.
LEMMA GrantKeeps ==
    ASSUME IInv, NEW g \in Grants, AuthorizeGrant(g) \/ RevokeGrant(g)
    PROVE  IInv'
  <1>1. TypeOK'
    BY DEF AuthorizeGrant, RevokeGrant, IInv, TypeOK, ledgers, workers
  <1>2. Data'
    BY DataUnchanged DEF AuthorizeGrant, RevokeGrant, IInv, ledgers
  <1>3. Control'
    BY OutsideKeepsControl DEF AuthorizeGrant, RevokeGrant
  <1> QED BY <1>1, <1>2, <1>3 DEF IInv

\* A row of somebody who is no worker: a routine run, an intake, a re-gate.
LEMMA OutsideRowKeeps ==
    ASSUME IInv, NEW c \in Keys, NEW by \in {Routine, Intake} \union Regates, NEW outcome \in Outcomes,
           NEW attempt, attempt = (IF by \in Regates THEN Attempt(c) ELSE Attempt(c) + 1),
           LogOutcome(c, by, outcome, attempt), lock = Free,
           by = Routine => Eligible(c),
           UNCHANGED <<events, via, order, requests, grants, workers, epoch, crashes>>
    PROVE  IInv'
  <1> DEFINE row == [campaign |-> by, outcome |-> outcome, attempt |-> attempt]
  <1>1. Attempt(c) \in Nat
    BY VersionIs DEF IInv, Attempt, Row
  <1>2. row \in Row /\ LogRow(c, row) /\ row.campaign \notin Plans
    BY <1>1 DEF LogOutcome, Row, LogRow, Campaigns
  <1>3. TypeOK'
    BY <1>2, LoggedRow DEF IInv, TypeOK, grants, workers
  <1>4. Data'
    <2>1. row.campaign = by /\ row.attempt = attempt
      OBVIOUS
    <2> HIDE DEF row
    <2> QED BY <1>2, <2>1, DataRow DEF IInv, Eligible
  <1>5. Control'
    BY OutsideKeepsControl
  <1> QED BY <1>3, <1>4, <1>5 DEF IInv

LEMMA OperateKeeps == ASSUME IInv, Operate PROVE IInv'
  <1>1. CASE \E c \in Keys, label \in Labels : PlanAcquire(c, label)
    BY <1>1, PlanKeeps
  <1>2. CASE \E op \in Plans : AuthorizeByOperator(op)
    BY <1>2, AuthorizeKeeps DEF AuthorizeByOperator
  <1>3. CASE \E op \in Plans, g \in Grants : AuthorizeScheduled(op, g) \/ AuthorizeByPolicy(op, g)
    BY <1>3, AuthorizeKeeps DEF AuthorizeScheduled, AuthorizeByPolicy
  <1>4. CASE \E g \in Grants : AuthorizeGrant(g) \/ RevokeGrant(g)
    BY <1>4, GrantKeeps
  <1>5. CASE \E g \in Grants : MoveWindow(g)
    <2>1. TypeOK'
      BY <1>5 DEF MoveWindow, IInv, TypeOK, ledgers, workers
    <2>2. \A g \in Grants : window[g] # "early" => window'[g] # "early"
      BY <1>5 DEF MoveWindow, IInv, TypeOK
    <2>3. UNCHANGED <<ledgers, workers, grant>>
      BY <1>5 DEF MoveWindow
    <2> QED BY <2>1, <2>2, <2>3, ElsewhereKeeps
  <1>6. CASE ChangeEnvironment
    <2>1. TypeOK'
      BY <1>6 DEF ChangeEnvironment, IInv, TypeOK, ledgers, workers, grants
    <2>2. UNCHANGED <<ledgers, workers, grant>> /\ window' = window
      BY <1>6 DEF ChangeEnvironment, grants
    <2> QED BY <2>1, <2>2, ElsewhereKeeps
  <1>7. CASE \E c \in Keys, outcome \in Outcomes : RoutineAcquire(c, outcome)
    <2>1. PICK c \in Keys, outcome \in Outcomes : RoutineAcquire(c, outcome)
      BY <1>7
    <2>2. Routine \notin Regates
      OBVIOUS
    <2> QED BY <2>1, <2>2, OutsideRowKeeps DEF RoutineAcquire
  <1>8. CASE \E c \in Keys : SupplyCopy(c)
    <2>1. PICK c \in Keys : SupplyCopy(c)
      BY <1>8
    <2>2. Intake \notin Regates /\ Intake # Routine /\ "acquired" \in Outcomes
      BY DEF Outcomes
    <2> QED BY <2>1, <2>2, OutsideRowKeeps DEF SupplyCopy
  <1>9. CASE \E c \in Keys, by \in Regates, outcome \in Outcomes : Regate(c, by, outcome)
    <2>1. PICK c \in Keys, by \in Regates, outcome \in Outcomes : Regate(c, by, outcome)
      BY <1>9
    <2>2. by # Routine
      OBVIOUS
    <2> QED BY <2>1, <2>2, OutsideRowKeeps DEF Regate
  <1> QED BY <1>1, <1>2, <1>3, <1>4, <1>5, <1>6, <1>7, <1>8, <1>9 DEF Operate

\* What a worker must establish of itself, when no other one is in its
\* critical section.
LEMMA ControlStep ==
    ASSUME IInv, NEW w \in Workers, lock = Free \/ lock = w,
           \A v \in Workers : v # w => pc'[v] = pc[v] /\ cur'[v] = cur[v],
           pc'[w] \in Critical => lock' = w,
           pc'[w] \in Critical \union {"erred"} => cur'[w] \in Plans,
           pc'[w] \in {"fetch", "settled"} => Last(cur[w])' = "started",
           pc'[w] = "sealed" => Last(cur[w])' = "unit_completed",
           pc'[w] = "checked" => ~StateChanged(cur[w])',
           pc'[w] = "fetch" => Version(cur[w].key)' = cur'[w].prior,
           pc'[w] \in {"settled", "sealed"} => cur'[w] \in Settled(cur[w].key)',
           pc'[w] \in {"checked", "fetch"} /\ via'[cur'[w]] \in Grants =>
               Granted(via[cur[w]])' /\ window'[via'[cur'[w]]] # "early"
    PROVE  Control'
  <1>1. \A v \in Workers : v # w => pc[v] \notin Critical
    BY DEF IInv, Control, Locked
  <1>2. Locked'
    BY <1>1 DEF Locked
  <1>3. ASSUME NEW v \in Workers, v # w
        PROVE  pc'[v] \notin Critical /\ (pc'[v] = "erred" => cur'[v] \in Plans)
    BY <1>1, <1>3 DEF IInv, Control, Working
  <1>4. Working'
    BY <1>3 DEF Working, Critical
  <1>5. Sanctioned'
    BY <1>3 DEF Sanctioned, Critical
  <1> QED BY <1>2, <1>4, <1>5 DEF Control

\* A worker outside its critical section that writes no ledger.
LEMMA ControlOutside ==
    ASSUME IInv, NEW w \in Workers,
           UNCHANGED <<ledgers, grants>>,
           \A v \in Workers : v # w => pc'[v] = pc[v] /\ cur'[v] = cur[v] /\ (lock = v => lock' = v),
           pc'[w] \in {"idle", "scan", "pick"}
    PROVE  Control'
  <1>1. Locked'
    BY DEF IInv, Control, Locked, Critical
  <1>2. \A v \in Workers : v # w => /\ Last(cur[v])' = Last(cur[v])
                                    /\ Settled(cur[v].key)' = Settled(cur[v].key)
                                    /\ Version(cur[v].key)' = Version(cur[v].key)
                                    /\ StateChanged(cur[v])' = StateChanged(cur[v])
    BY DEF ledgers, Last, Settled, Version, StateChanged, HasRow, Latest
  <1>3. Working'
    BY <1>2 DEF IInv, Control, Working, Critical
  <1>4. Sanctioned'
    BY DEF IInv, Control, Sanctioned, Granted, ledgers, grants
  <1> QED BY <1>1, <1>3, <1>4 DEF Control

LEMMA NextOperationType ==
    ASSUME IInv, NEW w \in Workers, NEW op, NextOperation(w, op)
    PROVE  /\ todo' \in [Workers -> SUBSET Plans]
           /\ pc' \in [Workers -> Points]
           /\ cur' \in [Workers -> Plans \union {NoPlan}]
           /\ pc'[w] \in {"idle", "pick"}
           /\ \A v \in Workers : v # w => pc'[v] = pc[v] /\ cur'[v] = cur[v]
  BY DEF NextOperation, Goto, Take, IInv, TypeOK, Points

LEMMA TickKeeps ==
    ASSUME IInv, NEW w \in Workers, TickBegin(w) \/ TickScan(w) \/ Crash(w)
    PROVE  IInv'
  <1>1. TypeOK'
    <2>1. CASE TickBegin(w)
      BY <2>1 DEF TickBegin, Goto, IInv, TypeOK, ledgers, grants, Points
    <2>2. CASE TickScan(w)
      BY <2>2 DEF TickScan, Goto, IInv, TypeOK, ledgers, grants, Points, Ready
    <2>3. CASE Crash(w)
      BY <2>3 DEF Crash, Goto, Take, IInv, TypeOK, ledgers, grants, Points
    <2> QED BY <2>1, <2>2, <2>3
  <1>2. /\ UNCHANGED <<ledgers, grants>>
        /\ \A v \in Workers : v # w => pc'[v] = pc[v] /\ cur'[v] = cur[v] /\ (lock = v => lock' = v)
        /\ pc'[w] \in {"idle", "scan", "pick"}
    BY DEF TickBegin, TickScan, Crash, Goto, Take, IInv, TypeOK
  <1>3. Data'
    BY <1>2, DataUnchanged DEF IInv, ledgers
  <1>4. Control'
    BY <1>2, ControlOutside
  <1> QED BY <1>1, <1>3, <1>4 DEF IInv

\* execute returns a completed operation, raises before its first row, or has
\* read under the lock all that the rest of it relies on.
LEMMA ExecutionKeeps ==
    ASSUME IInv, NEW w \in Workers, NEW op \in todo[w],
           ReplayCompleted(w, op) \/ RefuseExecution(w, op) \/ PassChecks(w, op)
    PROVE  IInv'
  <1>0. /\ op \in Plans /\ lock = Free
        /\ events' = events /\ acquisitions' = acquisitions /\ via' = via /\ UNCHANGED grants
    BY DEF IInv, TypeOK, ReplayCompleted, RefuseExecution, PassChecks, Entering, ledgers
  <1>1. Data'
    BY <1>0, DataUnchanged DEF IInv
  <1>2. CASE ReplayCompleted(w, op)
    <2>1. TypeOK'
      BY <1>2, NextOperationType DEF ReplayCompleted, IInv, TypeOK, ledgers, grants
    <2>2. Control'
      BY <1>0, <1>2, NextOperationType, ControlStep DEF ReplayCompleted, Critical
    <2> QED BY <1>1, <2>1, <2>2 DEF IInv
  <1>3. CASE RefuseExecution(w, op)
    <2>1. TypeOK'
      BY <1>0, <1>3 DEF RefuseExecution, IInv, TypeOK, ledgers, grants, Goto, Take, Points
    <2>2. /\ \A v \in Workers : v # w => pc'[v] = pc[v] /\ cur'[v] = cur[v]
          /\ pc'[w] = "erred" /\ cur'[w] = op
      BY <1>3 DEF RefuseExecution, Goto, Take, IInv, TypeOK
    <2>3. Control'
      BY <1>0, <2>2, ControlStep DEF Critical
    <2> QED BY <1>1, <2>1, <2>3 DEF IInv
  <1>4. CASE PassChecks(w, op)
    <2>1. TypeOK'
      BY <1>0, <1>4 DEF PassChecks, IInv, TypeOK, ledgers, grants, Goto, Take, Points
    <2>2. /\ \A v \in Workers : v # w => pc'[v] = pc[v] /\ cur'[v] = cur[v]
          /\ pc'[w] = "checked" /\ cur'[w] = op /\ lock' = w
      BY <1>4 DEF PassChecks, Goto, Take, IInv, TypeOK
    <2>3. ~StateChanged(cur[w])'
      <3>1. ~StateChanged(op)
        BY <1>4 DEF PassChecks, Refused
      <3> QED BY <1>0, <2>2, <3>1 DEF StateChanged, HasRow, Latest, Version
    <2>4. via'[cur'[w]] \in Grants => Granted(via[cur[w]])' /\ window'[via'[cur'[w]]] # "early"
      BY <1>0, <1>4, <2>2 DEF PassChecks, Refused, Due, Open, Granted, grants
    <2>5. Control'
      BY <1>0, <2>2, <2>3, <2>4, ControlStep
    <2> QED BY <1>1, <2>1, <2>5 DEF IInv
  <1> QED BY <1>2, <1>3, <1>4

LEMMA SealInterruptedKeeps ==
    ASSUME IInv, NEW w \in Workers, SealInterrupted(w)
    PROVE  IInv'
  <1>1. /\ cur[w] \in Plans /\ lock = w /\ acquisitions' = acquisitions
        /\ LogEvent(cur[w], "completed") /\ Last(cur[w]) = "unit_completed" /\ "completed" \in Events
    BY DEF SealInterrupted, IInv, Control, Locked, Working, Critical, Events
  <1>2. events[cur[w]] # <<>> /\ cur[w] \in Settled(cur[w].key)
    BY <1>1 DEF Last, IInv, Data, CompletedHasOutcome
  <1>3. TypeOK'
    BY <1>1, LoggedEvent, NextOperationType DEF SealInterrupted, IInv, TypeOK, grants
  <1>4. Data'
    BY <1>1, <1>2, DataEvent DEF IInv, Permitted
  <1>5. Control'
    BY <1>1, NextOperationType, ControlStep DEF SealInterrupted, Critical
  <1> QED BY <1>3, <1>4, <1>5 DEF IInv

\* A resumed operation logs nothing; a new one logs that it started.
LEMMA LoggedStart ==
    ASSUME IInv, NEW op \in Plans, LogStart(op), Last(op) \in {"authorized", "started"},
           acquisitions' = acquisitions
    PROVE  events' \in [Plans -> Seq(Events)] /\ Last(op)' = "started" /\ Data'
  <1>1. CASE Last(op) = "authorized"
    <2>1. LogEvent(op, "started") /\ "started" \in Events /\ events[op] # <<>>
      BY <1>1 DEF LogStart, Events, Last
    <2> QED BY <1>1, <2>1, LoggedEvent, DataEvent DEF IInv, Permitted
  <1>2. CASE Last(op) = "started"
    <2>1. events' = events
      BY <1>2 DEF LogStart
    <2> QED BY <1>2, <2>1, DataUnchanged DEF IInv, TypeOK, Last
  <1> QED BY <1>1, <1>2

LEMMA ReconcileKeeps ==
    ASSUME IInv, NEW w \in Workers, Reconcile(w)
    PROVE  IInv'
  <1>0. /\ cur[w] \in Plans /\ lock = w /\ lock' = lock /\ acquisitions' = acquisitions /\ cur' = cur
        /\ LogStart(cur[w]) /\ Last(cur[w]) \in {"authorized", "started"}
    BY DEF IInv, Control, Locked, Working, Critical, Reconcile
  <1>1. TypeOK'
    BY <1>0, LoggedStart DEF Reconcile, IInv, TypeOK, grants, Goto, Points
  <1>2. /\ \A v \in Workers : v # w => pc'[v] = pc[v]
        /\ pc'[w] = "settled"
    BY DEF Reconcile, Goto, IInv, TypeOK
  <1>3. cur[w] \in Settled(cur[w].key)
    <2>1. acquisitions[cur[w].key] \in Seq(Row) /\ acquisitions[cur[w].key] # <<>>
      BY <1>0 DEF Plans, IInv, TypeOK, Reconcile, Recorded, HasRow
    <2>2. Len(acquisitions[cur[w].key]) \in 1..Len(acquisitions[cur[w].key])
      BY <2>1
    <2> QED BY <2>2 DEF Reconcile, Recorded, Latest, Settled
  <1>4. Last(cur[w])' = "started" /\ cur'[w] \in Settled(cur[w].key)'
    BY <1>0, <1>3, LoggedStart DEF Last, Settled
  <1>5. Control'
    BY <1>0, <1>2, <1>4, ControlStep
  <1> QED BY <1>0, <1>1, <1>5, LoggedStart DEF IInv

\* What was checked of the acquisition ledger on entry: it still ends with the
\* row the plan was frozen against.
LEMMA FreshAgainstPrior ==
    ASSUME IInv, NEW op \in Plans, events[op] # <<>>, ~StateChanged(op), ~Recorded(op)
    PROVE  Version(op.key) = op.prior
  <1>1. op.key \in Keys /\ op.prior \in Nat /\ op.prior <= Len(acquisitions[op.key])
    BY DEF Plans, IInv, Data, Frozen
  <1>2. CASE HasRow(op.key)
    BY <1>2 DEF StateChanged, Recorded
  <1>3. CASE ~HasRow(op.key)
    <2>1. Version(op.key) = 0
      BY <1>1, <1>3, VersionIs DEF IInv
    <2> QED BY <1>1, <1>3, <2>1 DEF HasRow
  <1> QED BY <1>2, <1>3

LEMMA StartTransferKeeps ==
    ASSUME IInv, NEW w \in Workers, StartTransfer(w)
    PROVE  IInv'
  <1>0. /\ cur[w] \in Plans /\ lock = w /\ lock' = lock /\ acquisitions' = acquisitions /\ cur' = cur
        /\ LogStart(cur[w]) /\ Last(cur[w]) \in {"authorized", "started"} /\ events[cur[w]] # <<>>
        /\ ~StateChanged(cur[w]) /\ pc[w] = "checked" /\ via' = via /\ UNCHANGED grants
    BY DEF IInv, Control, Locked, Working, Critical, StartTransfer, Last
  <1>1. TypeOK'
    BY <1>0, LoggedStart DEF StartTransfer, IInv, TypeOK, grants, Goto, Points
  <1>2. /\ \A v \in Workers : v # w => pc'[v] = pc[v]
        /\ pc'[w] = "fetch"
    BY DEF StartTransfer, Goto, IInv, TypeOK
  <1>3. Version(cur[w].key) = cur[w].prior
    BY <1>0, FreshAgainstPrior DEF StartTransfer
  <1>4. Last(cur[w])' = "started" /\ Version(cur[w].key)' = cur'[w].prior
    BY <1>0, <1>3, LoggedStart DEF Last, Version
  <1>5. via'[cur'[w]] \in Grants => Granted(via[cur[w]])' /\ window'[via'[cur'[w]]] # "early"
    BY <1>0 DEF IInv, Control, Sanctioned, Granted, grants
  <1>6. Control'
    BY <1>0, <1>2, <1>4, <1>5, ControlStep
  <1> QED BY <1>0, <1>1, <1>6, LoggedStart DEF IInv

LEMMA BlockUnsettledKeeps ==
    ASSUME IInv, NEW w \in Workers, BlockUnsettled(w)
    PROVE  IInv'
  <1>0. /\ cur[w] \in Plans /\ lock = w /\ acquisitions' = acquisitions
        /\ LogEvent(cur[w], "failed") /\ Last(cur[w]) = "started" /\ events[cur[w]] # <<>>
        /\ "failed" \in Events
    BY DEF IInv, Control, Locked, Working, Critical, BlockUnsettled, Last, Events
  <1>1. TypeOK'
    BY <1>0, LoggedEvent DEF BlockUnsettled, IInv, TypeOK, grants, Goto, Points
  <1>2. Data'
    BY <1>0, DataEvent DEF IInv, Permitted
  <1>3. /\ \A v \in Workers : v # w => pc'[v] = pc[v] /\ cur'[v] = cur[v]
        /\ pc'[w] = "erred" /\ cur'[w] = cur[w]
    BY DEF BlockUnsettled, Goto, IInv, TypeOK
  <1>4. Control'
    BY <1>0, <1>3, ControlStep DEF Critical
  <1> QED BY <1>1, <1>2, <1>4 DEF IInv

LEMMA RequestKeeps ==
    ASSUME IInv, NEW w \in Workers, Request(w)
    PROVE  IInv'
  <1>1. UNCHANGED workers /\ events' = events /\ acquisitions' = acquisitions
    BY DEF Request
  <1>2. cur[w] \in Plans
    BY DEF Request, IInv, Control, Working, Critical
  <1>3. requests[cur[w]] + 1 \in 0..MaxRequests
    BY <1>2 DEF Request, IInv, TypeOK
  <1>4. TypeOK'
    BY <1>1, <1>2, <1>3 DEF Request, IInv, TypeOK, workers, grants
  <1>5. Data'
    BY <1>1, DataUnchanged DEF IInv
  <1>6. Locked' /\ Working'
    BY <1>1 DEF workers, IInv, Control, Locked, Working, Last, Settled, StateChanged, HasRow,
                Latest, Version
  <1>7. Sanctioned'
    BY <1>1 DEF Request, workers, grants, IInv, Control, Sanctioned, Granted
  <1> QED BY <1>4, <1>5, <1>6, <1>7 DEF IInv, Control

\* Where the recording worker stands: its operation's candidate still has the
\* version the plan was frozen on, and the document is not held.
LEMMA Recording ==
    ASSUME IInv, NEW w \in Workers, NEW outcome \in Outcomes, RecordOutcome(w, outcome)
    PROVE  /\ pc[w] = "fetch" /\ lock = w /\ Last(cur[w]) = "started"
           /\ cur[w] \in Plans /\ cur[w].key \in Keys /\ cur[w].prior \in Nat
           /\ Version(cur[w].key) = cur[w].prior
           /\ HasRow(cur[w].key) => Latest(cur[w].key).outcome # "acquired"
           /\ Attempt(cur[w].key) \in Nat
           /\ LogRow(cur[w].key, [campaign |-> cur[w], outcome |-> outcome,
                                  attempt |-> Attempt(cur[w].key) + 1])
  <1>1. /\ pc[w] = "fetch" /\ lock = w /\ cur[w] \in Plans /\ Last(cur[w]) = "started"
        /\ Version(cur[w].key) = cur[w].prior
    BY DEF RecordOutcome, IInv, Control, Locked, Working, Critical
  <1>2. cur[w].key \in Keys /\ cur[w].prior \in Nat /\ events[cur[w]] # <<>>
    BY <1>1 DEF Plans, Last
  <1>3. HasRow(cur[w].key) => Latest(cur[w].key).outcome # "acquired"
    <2> SUFFICES ASSUME HasRow(cur[w].key) PROVE Latest(cur[w].key).outcome # "acquired"
      OBVIOUS
    <2>1. cur[w].prior > 0 /\ acquisitions[cur[w].key][cur[w].prior] = Latest(cur[w].key)
      BY <1>1, <1>2, VersionIs DEF IInv
    <2> QED BY <1>1, <1>2, <2>1 DEF IInv, Data, Frozen
  <1>4. Attempt(cur[w].key) \in Nat
    BY <1>2, VersionIs DEF IInv, Attempt, Row
  <1> QED BY <1>1, <1>2, <1>3, <1>4 DEF RecordOutcome, LogRow, LogOutcome

\* The compare-and-append: what FreshAgainstPrior established on entry is in
\* Working, because nobody else could write in between.
LEMMA RecordOutcomeKeeps ==
    ASSUME IInv, NEW w \in Workers, NEW outcome \in Outcomes, RecordOutcome(w, outcome)
    PROVE  IInv'
  <1> DEFINE op  == cur[w]
             row == [campaign |-> op, outcome |-> outcome, attempt |-> Attempt(op.key) + 1]
  <1>1. /\ pc[w] = "fetch" /\ op \in Plans /\ op.key \in Keys /\ lock = w
        /\ Last(op) = "started" /\ Version(op.key) = op.prior
        /\ HasRow(op.key) => Latest(op.key).outcome # "acquired"
        /\ Attempt(op.key) \in Nat /\ LogRow(op.key, row)
    BY Recording
  <1>2. row \in Row /\ row.campaign \notin Regates
    BY <1>1 DEF Row, Campaigns
  <1>3. /\ \A v \in Workers : v # w => pc'[v] = pc[v] /\ cur'[v] = cur[v]
        /\ pc'[w] = "settled" /\ cur'[w] = op /\ lock' = w /\ events' = events
    BY <1>1 DEF RecordOutcome, Goto, IInv, TypeOK
  <1>4. TypeOK'
    BY <1>1, <1>2, LoggedRow DEF RecordOutcome, IInv, TypeOK, grants, Goto, Points
  <1>5. Data'
    <2>1. row.campaign = op /\ row.attempt = Attempt(op.key) + 1
      OBVIOUS
    <2> HIDE DEF op, row
    <2> QED BY <1>1, <1>2, <1>3, <2>1, DataRow DEF IInv
  <1>6. Last(cur[w])' = "started" /\ cur'[w] \in Settled(cur[w].key)'
    <2>1. \A k \in Keys : k = op.key => op \in Settled(k)'
      <3> SUFFICES ASSUME NEW k \in Keys, k = op.key PROVE row.campaign \in Settled(k)'
        OBVIOUS
      <3>1. LogRow(k, row)
        BY <1>1
      <3> HIDE DEF row
      <3> QED BY <1>2, <3>1, LoggedRow DEF IInv
    <2>2. cur'[w].key \in Keys /\ cur'[w].key = op.key
      BY <1>1, <1>3
    <2>3. op \in Settled(cur[w].key)'
      BY <2>1, <2>2 DEF Settled
    <2> QED BY <1>1, <1>3, <2>3 DEF Last
  <1>7. Control'
    BY <1>1, <1>3, <1>6, ControlStep
  <1> QED BY <1>4, <1>5, <1>7 DEF IInv

LEMMA StageErrorKeeps ==
    ASSUME IInv, NEW w \in Workers, StageError(w)
    PROVE  IInv'
  <1>1. /\ pc[w] = "fetch" /\ cur[w] \in Plans /\ lock = w /\ events[cur[w]] # <<>>
        /\ Last(cur[w]) = "started" /\ "failed" \in Events
        /\ LogEvent(cur[w], "failed") /\ acquisitions' = acquisitions
    BY DEF StageError, IInv, Control, Locked, Working, Critical, Last, Events
  <1>2. TypeOK'
    BY <1>1, LoggedEvent DEF StageError, IInv, TypeOK, grants, Goto, Points
  <1>3. Data'
    BY <1>1, DataEvent DEF IInv, Permitted
  <1>4. /\ \A v \in Workers : v # w => pc'[v] = pc[v] /\ cur'[v] = cur[v]
        /\ pc'[w] = "erred" /\ cur'[w] = cur[w]
    BY DEF StageError, Goto, IInv, TypeOK
  <1>5. Control'
    BY <1>1, <1>4, ControlStep DEF Critical
  <1> QED BY <1>2, <1>3, <1>5 DEF IInv

LEMMA CompleteUnitKeeps ==
    ASSUME IInv, NEW w \in Workers, CompleteUnit(w)
    PROVE  IInv'
  <1>1. /\ pc[w] = "settled" /\ cur[w] \in Plans /\ lock = w /\ events[cur[w]] # <<>>
        /\ Last(cur[w]) = "started" /\ "unit_completed" \in Events
        /\ cur[w] \in Settled(cur[w].key)
        /\ LogEvent(cur[w], "unit_completed") /\ acquisitions' = acquisitions
    BY DEF CompleteUnit, IInv, Control, Locked, Working, Critical, Last, Events
  <1>2. TypeOK'
    BY <1>1, LoggedEvent DEF CompleteUnit, IInv, TypeOK, grants, Goto, Points
  <1>3. Data'
    BY <1>1, DataEvent DEF IInv, Permitted
  <1>4. /\ \A v \in Workers : v # w => pc'[v] = pc[v] /\ cur'[v] = cur[v]
        /\ pc'[w] = "sealed" /\ cur'[w] = cur[w] /\ lock' = lock
    BY DEF CompleteUnit, Goto, IInv, TypeOK
  <1>5. Last(cur[w])' = "unit_completed" /\ cur'[w] \in Settled(cur[w].key)'
    BY <1>1, <1>4, LoggedEvent DEF IInv, Last, Settled
  <1>6. Control'
    BY <1>1, <1>4, <1>5, ControlStep
  <1> QED BY <1>2, <1>3, <1>6 DEF IInv

LEMMA CompleteKeeps ==
    ASSUME IInv, NEW w \in Workers, Complete(w)
    PROVE  IInv'
  <1>1. /\ pc[w] = "sealed" /\ cur[w] \in Plans /\ lock = w /\ events[cur[w]] # <<>>
        /\ Last(cur[w]) = "unit_completed" /\ "completed" \in Events
        /\ cur[w] \in Settled(cur[w].key)
        /\ LogEvent(cur[w], "completed") /\ acquisitions' = acquisitions
    BY DEF Complete, IInv, Control, Locked, Working, Critical, Last, Events
  <1>2. TypeOK'
    BY <1>1, LoggedEvent, NextOperationType DEF Complete, IInv, TypeOK, grants
  <1>3. Data'
    BY <1>1, DataEvent DEF IInv, Permitted
  <1>4. Control'
    BY <1>1, NextOperationType, ControlStep DEF Complete, Critical
  <1> QED BY <1>2, <1>3, <1>4 DEF IInv

LEMMA HandleErrorKeeps ==
    ASSUME IInv, NEW w \in Workers, HandleError(w)
    PROVE  IInv'
  <1>1. /\ cur[w] \in Plans /\ lock = Free /\ lock' = lock /\ acquisitions' = acquisitions
        /\ NextOperation(w, cur[w])
    BY DEF HandleError, IInv, Control, Working, Critical
  <1>2. events' \in [Plans -> Seq(Events)] /\ Data'
    <2>1. CASE Last(cur[w]) \in Unfinished
      <3>1. /\ LogEvent(cur[w], "failed") /\ "failed" \in Events /\ events[cur[w]] # <<>>
            /\ <<Last(cur[w]), "failed">> \in Permitted
        BY <2>1 DEF HandleError, Events, Unfinished, Last, Permitted
      <3> QED BY <1>1, <3>1, LoggedEvent, DataEvent DEF IInv
    <2>2. CASE Last(cur[w]) \notin Unfinished
      BY <1>1, <2>2, DataUnchanged DEF HandleError, IInv, TypeOK
    <2> QED BY <2>1, <2>2
  <1>3. TypeOK'
    BY <1>1, <1>2, NextOperationType DEF HandleError, IInv, TypeOK, grants
  <1>4. Control'
    BY <1>1, NextOperationType, ControlStep DEF Critical
  <1> QED BY <1>2, <1>3, <1>4 DEF IInv

LEMMA NextInvariant == IInv /\ [Next]_vars => IInv'
  <1> SUFFICES ASSUME IInv, [Next]_vars PROVE IInv'
    OBVIOUS
  <1>1. CASE Operate
    BY <1>1, OperateKeeps
  <1>2. ASSUME NEW w \in Workers, Work(w) \/ Crash(w) PROVE IInv'
    <2>1. CASE TickBegin(w) \/ TickScan(w) \/ Crash(w)
      BY <2>1, TickKeeps
    <2>2. CASE \E op \in todo[w] : Execute(w, op)
      BY <2>2, ExecutionKeeps DEF Execute
    <2>3. CASE Transfer(w)
      BY <2>3, SealInterruptedKeeps, ReconcileKeeps, StartTransferKeeps, BlockUnsettledKeeps,
         RequestKeeps, RecordOutcomeKeeps, StageErrorKeeps, CompleteUnitKeeps, CompleteKeeps
         DEF Transfer, Proceed
    <2>4. CASE HandleError(w)
      BY <2>4, HandleErrorKeeps
    <2> QED BY <1>2, <2>1, <2>2, <2>3, <2>4 DEF Work
  <1>3. CASE UNCHANGED vars
    <2>1. UNCHANGED <<ledgers, workers, grant>> /\ window' = window /\ TypeOK'
      BY <1>3 DEF vars, ledgers, grants, workers, IInv, TypeOK
    <2> QED BY <2>1, ElsewhereKeeps
  <1> QED BY <1>1, <1>2, <1>3 DEF Next

-----------------------------------------------------------------------------
(***************************************************************************)
(* The theorems.                                                           *)
(***************************************************************************)

\* The inductive invariant, and with it type correctness.
THEOREM Invariant == Spec => []IInv
  BY InitInvariant, NextInvariant, PTL DEF Spec

\* operations.py: every variable keeps its type; no campaign exceeds its
\* physical request ceiling, across any number of crashes and workers.
THEOREM TypeCorrect == Spec => []TypeOK
  <1>1. IInv => TypeOK
    BY DEF IInv
  <1> QED BY <1>1, Invariant, PTL

\* `_events` never raises on what the program itself appended.
THEOREM Readable == Spec => []LedgerReadable
  <1>1. IInv => LedgerReadable
    BY DEF IInv, Data
  <1> QED BY <1>1, Invariant, PTL

\* Execution is a compare-and-append on the acquisition ledger.
THEOREM ChainedOutcomes == Spec => []OutcomeChain
  <1>1. IInv => OutcomeChain
    BY DEF IInv, Data
  <1> QED BY <1>1, Invariant, PTL

\* No transfer for a document that is held: only an intake or a re-gate ever
\* writes a row directly after an acquired one.
THEOREM NoSecondTransfer == Spec => []NeverRefetched
  <1>1. IInv => NeverRefetched
    BY DEF IInv, Data
  <1> QED BY <1>1, Invariant, PTL

\* A completed unit has its row in the acquisition ledger.
THEOREM CompletedUnits == Spec => []CompletedHasOutcome
  <1>1. IInv => CompletedHasOutcome
    BY DEF IInv, Data
  <1> QED BY <1>1, Invariant, PTL

-----------------------------------------------------------------------------
(***************************************************************************)
(* Steps: what may change the acquisition ledger, the request rows and the *)
(* set of workers with a transfer under way.                               *)
(***************************************************************************)

\* No outcome, no request, and nobody begins a transfer.
Quiet ==
    /\ UNCHANGED <<acquisitions, requests>>
    /\ \A v \in Workers : pc'[v] = "fetch" => pc[v] = "fetch" /\ cur'[v] = cur[v]

\* A worker that goes elsewhere than to a transfer.
LEMMA Elsewhere ==
    ASSUME NEW w \in Workers, UNCHANGED <<acquisitions, requests>>, pc'[w] # "fetch",
           \A v \in Workers : v # w => pc'[v] = pc[v] /\ cur'[v] = cur[v]
    PROVE  Quiet
  BY DEF Quiet

\* A row of somebody who is no worker.
OutsideRow(c) ==
    \/ \E outcome \in Outcomes : RoutineAcquire(c, outcome)
    \/ SupplyCopy(c)
    \/ \E by \in Regates, outcome \in Outcomes : Regate(c, by, outcome)

LEMMA OutsideRows ==
    ASSUME IInv, NEW c \in Keys, OutsideRow(c)
    PROVE  /\ \E by \in {Routine, Intake} \union Regates, outcome \in Outcomes, attempt \in Nat :
                  LogOutcome(c, by, outcome, attempt)
           /\ UNCHANGED <<requests, workers>>
  <1>1. Attempt(c) \in Nat /\ Attempt(c) + 1 \in Nat
    BY VersionIs DEF IInv, Attempt, Row
  <1>2. CASE \E outcome \in Outcomes : RoutineAcquire(c, outcome)
    BY <1>1, <1>2 DEF RoutineAcquire
  <1>3. CASE SupplyCopy(c)
    <2>1. "acquired" \in Outcomes /\ LogOutcome(c, Intake, "acquired", Attempt(c) + 1)
      BY <1>3 DEF SupplyCopy, Outcomes
    <2> QED BY <1>1, <1>3, <2>1 DEF SupplyCopy
  <1>4. CASE \E by \in Regates, outcome \in Outcomes : Regate(c, by, outcome)
    BY <1>1, <1>4 DEF Regate
  <1> QED BY <1>2, <1>3, <1>4 DEF OutsideRow

\* All the ways a step can touch what a transfer leaves behind.
LEMMA Moves ==
    ASSUME IInv, [Next]_vars
    PROVE  \/ Quiet
           \/ \E c \in Keys : OutsideRow(c)
           \/ \E w \in Workers : StartTransfer(w)
           \/ \E w \in Workers : Request(w)
           \/ \E w \in Workers, outcome \in Outcomes : RecordOutcome(w, outcome)
  <1>1. CASE UNCHANGED vars
    BY <1>1 DEF vars, ledgers, workers, Quiet
  <1>2. CASE Operate
    <2>1. CASE \E c \in Keys : OutsideRow(c)
      BY <2>1
    <2>2. CASE \E c \in Keys, label \in Labels : PlanAcquire(c, label)
      BY <2>2 DEF PlanAcquire, Quiet, workers
    <2>3. CASE \E op \in Plans : \/ AuthorizeByOperator(op)
                                 \/ \E g \in Grants : AuthorizeScheduled(op, g) \/ AuthorizeByPolicy(op, g)
      BY <2>3 DEF AuthorizeByOperator, AuthorizeScheduled, AuthorizeByPolicy, Authorize, Quiet, workers
    <2>4. CASE \E g \in Grants : AuthorizeGrant(g) \/ RevokeGrant(g) \/ MoveWindow(g)
      BY <2>4 DEF AuthorizeGrant, RevokeGrant, MoveWindow, Quiet, workers, ledgers
    <2>5. CASE ChangeEnvironment
      BY <2>5 DEF ChangeEnvironment, Quiet, workers, ledgers
    <2> QED BY <1>2, <2>1, <2>2, <2>3, <2>4, <2>5 DEF Operate, OutsideRow
  <1>3. ASSUME NEW w \in Workers, TickBegin(w) \/ TickScan(w) \/ Crash(w)
        PROVE  Quiet
    <2>1. /\ UNCHANGED <<acquisitions, requests>> /\ pc'[w] # "fetch"
          /\ \A v \in Workers : v # w => pc'[v] = pc[v] /\ cur'[v] = cur[v]
      BY <1>3 DEF TickBegin, TickScan, Crash, Goto, Take, ledgers, IInv, TypeOK
    <2> QED BY <2>1, Elsewhere
  <1>4. ASSUME NEW w \in Workers, NEW op \in todo[w], Execute(w, op)
        PROVE  Quiet
    <2>1. CASE ReplayCompleted(w, op)
      <3>1. NextOperation(w, op) /\ UNCHANGED <<acquisitions, requests>>
        BY <2>1 DEF ReplayCompleted, ledgers
      <3> QED BY <3>1, NextOperationType, Elsewhere
    <2>2. CASE RefuseExecution(w, op) \/ PassChecks(w, op)
      <3>1. /\ UNCHANGED <<acquisitions, requests>> /\ pc'[w] # "fetch"
            /\ \A v \in Workers : v # w => pc'[v] = pc[v] /\ cur'[v] = cur[v]
        BY <2>2 DEF RefuseExecution, PassChecks, Goto, Take, ledgers, IInv, TypeOK
      <3> QED BY <3>1, Elsewhere
    <2> QED BY <1>4, <2>1, <2>2 DEF Execute
  <1>5. ASSUME NEW w \in Workers, Reconcile(w) \/ BlockUnsettled(w) \/ StageError(w) \/ CompleteUnit(w)
        PROVE  Quiet
    <2>1. /\ UNCHANGED <<acquisitions, requests>> /\ pc'[w] # "fetch"
          /\ \A v \in Workers : v # w => pc'[v] = pc[v] /\ cur'[v] = cur[v]
      BY <1>5 DEF Reconcile, BlockUnsettled, StageError, CompleteUnit, Goto, IInv, TypeOK
    <2> QED BY <2>1, Elsewhere
  <1>6. ASSUME NEW w \in Workers, SealInterrupted(w) \/ Complete(w) \/ HandleError(w)
        PROVE  Quiet
    <2>1. NextOperation(w, cur[w]) /\ UNCHANGED <<acquisitions, requests>>
      BY <1>6 DEF SealInterrupted, Complete, HandleError
    <2> QED BY <2>1, NextOperationType, Elsewhere
  <1>7. ASSUME NEW w \in Workers, Work(w)
        PROVE  \/ Quiet
               \/ StartTransfer(w)
               \/ Request(w)
               \/ \E outcome \in Outcomes : RecordOutcome(w, outcome)
    BY <1>7, <1>3, <1>4, <1>5, <1>6 DEF Work, Transfer, Proceed
  <1> QED BY <1>1, <1>2, <1>3, <1>7 DEF Next

\* What no transfer of op may do while op is stranded.
LEMMA StrandedSteps ==
    ASSUME IInv, [Next]_vars, NEW op \in Plans, Stranded(op)
    PROVE  Stranded(op)' /\ requests'[op] = requests[op]
  <1>1. /\ op.key \in Keys /\ requests[op] > 0 /\ op \notin Settled(op.key)
        /\ \A w \in Workers : pc[w] = "fetch" => cur[w] # op
    BY DEF Stranded, Unsettled, Plans
  <1> SUFFICES /\ requests'[op] = requests[op]
               /\ op \notin Settled(op.key)'
               /\ \A w \in Workers : pc'[w] = "fetch" => cur'[w] # op
    BY <1>1 DEF Stranded, Unsettled
  <1>2. acquisitions' = acquisitions => op \notin Settled(op.key)'
    BY <1>1 DEF Settled
  <1>3. \A c \in Keys, row \in Row : LogRow(c, row) /\ row.campaign # op => op \notin Settled(op.key)'
    <2> SUFFICES ASSUME NEW c \in Keys, NEW row \in Row, LogRow(c, row), row.campaign # op,
                        NEW i \in 1..Len(acquisitions'[op.key]), acquisitions'[op.key][i].campaign = op
        PROVE FALSE
      BY DEF Settled
    <2>1. TypeOK
      BY DEF IInv
    <2>2. acquisitions'[c] = Append(acquisitions[c], row) /\ acquisitions[c] \in Seq(Row)
      BY <2>1, LoggedRow DEF TypeOK
    <2>3. CASE op.key # c
      BY <1>1, <2>1, <2>3, LoggedRow DEF Settled
    <2>4. CASE op.key = c
      <3>1. Len(acquisitions'[c]) = Len(acquisitions[c]) + 1 /\ Len(acquisitions[c]) \in Nat
        BY <2>2
      <3>2. CASE i = Len(acquisitions[c]) + 1
        BY <2>2, <2>4, <3>2
      <3>3. CASE i \in 1..Len(acquisitions[c])
        <4>1. acquisitions'[c][i] = acquisitions[c][i]
          BY <2>2, <3>3
        <4> QED BY <1>1, <2>4, <3>3, <4>1 DEF Settled
      <3> QED BY <2>4, <3>1, <3>2, <3>3
    <2> QED BY <2>3, <2>4
  <1>4. CASE Quiet
    BY <1>1, <1>2, <1>4 DEF Quiet
  <1>5. CASE \E c \in Keys : OutsideRow(c)
    <2>1. PICK c \in Keys : OutsideRow(c)
      BY <1>5
    <2>2. PICK by \in {Routine, Intake} \union Regates, outcome \in Outcomes, attempt \in Nat :
              LogOutcome(c, by, outcome, attempt)
      BY <2>1, OutsideRows
    <2> DEFINE row == [campaign |-> by, outcome |-> outcome, attempt |-> attempt]
    <2>3. row \in Row /\ LogRow(c, row) /\ row.campaign # op
      BY <2>2 DEF LogOutcome, Row, LogRow, Campaigns
    <2>4. requests' = requests /\ pc' = pc /\ cur' = cur
      BY <2>1, OutsideRows DEF workers
    <2> HIDE DEF row
    <2> QED BY <1>1, <1>3, <2>3, <2>4
  <1>6. CASE \E w \in Workers : StartTransfer(w)
    <2>1. PICK w \in Workers : StartTransfer(w)
      BY <1>6
    <2>2. cur[w] # op
      BY <1>1, <2>1 DEF StartTransfer
    <2>3. /\ acquisitions' = acquisitions /\ requests' = requests /\ cur' = cur
          /\ \A v \in Workers : v # w => pc'[v] = pc[v]
      BY <2>1 DEF StartTransfer, Goto, IInv, TypeOK
    <2> QED BY <1>1, <1>2, <2>2, <2>3
  <1>7. CASE \E w \in Workers : Request(w)
    <2>1. PICK w \in Workers : Request(w)
      BY <1>7
    <2>2. cur[w] # op
      BY <1>1, <2>1 DEF Request
    <2>3. requests'[op] = requests[op] /\ acquisitions' = acquisitions /\ pc' = pc /\ cur' = cur
      BY <2>1, <2>2 DEF Request, workers, IInv, TypeOK
    <2> QED BY <1>1, <1>2, <2>3
  <1>8. CASE \E w \in Workers, outcome \in Outcomes : RecordOutcome(w, outcome)
    <2>1. PICK w \in Workers, outcome \in Outcomes : RecordOutcome(w, outcome)
      BY <1>8
    <2> DEFINE row == [campaign |-> cur[w], outcome |-> outcome, attempt |-> Attempt(cur[w].key) + 1]
    <2>2. cur[w].key \in Keys /\ row \in Row /\ LogRow(cur[w].key, row) /\ row.campaign # op
      BY <1>1, <2>1, Recording DEF Row, Campaigns
    <2>3. /\ requests' = requests /\ cur' = cur
          /\ \A v \in Workers : pc'[v] = "fetch" => pc[v] = "fetch"
      BY <2>1 DEF RecordOutcome, Goto, IInv, TypeOK
    <2> HIDE DEF row
    <2> QED BY <1>1, <1>3, <2>2, <2>3
  <1> QED BY <1>4, <1>5, <1>6, <1>7, <1>8, Moves

\* Only the worker that holds the lock sends requests, for an operation whose
\* approval nobody could take away since it looked.
LEMMA RequestsSanctioned ==
    ASSUME IInv, [Next]_vars, NEW op \in Plans, requests'[op] # requests[op], via[op] \in Grants
    PROVE  Granted(via[op]) /\ window[via[op]] # "early"
  <1>1. requests' # requests
    OBVIOUS
  <1>2. \E w \in Workers : Request(w)
    BY <1>1, Moves, OutsideRows DEF Quiet, StartTransfer, RecordOutcome
  <1>3. PICK w \in Workers : Request(w)
    BY <1>2
  <1>4. pc[w] = "fetch" /\ cur[w] = op
    BY <1>3 DEF Request, IInv, TypeOK
  <1> QED BY <1>4 DEF IInv, Control, Sanctioned

\* What the version of a candidate tells the abstract history.
LEMMA VersionStands ==
    ASSUME TypeOK, NEW c \in Keys
    PROVE  History!Stands(c, Version(c))
  BY VersionIs DEF History!Stands, History!Begun, History!Newest, HasRow, Latest

\* Every step is an abstract record, supply or judgement, or leaves it alone.
LEMMA HistorySteps ==
    ASSUME IInv, [Next]_vars
    PROVE  [History!Next]_acquisitions
  <1>0. TypeOK
    BY DEF IInv
  <1>1. CASE acquisitions' = acquisitions
    BY <1>1
  <1>2. CASE \E c \in Keys : OutsideRow(c)
    <2>1. PICK c \in Keys : OutsideRow(c)
      BY <1>2
    <2>2. Attempt(c) = History!Tried(c) /\ HasRow(c) = History!Begun(c)
      BY DEF Attempt, HasRow, Latest, History!Tried, History!Begun, History!Newest
    <2>3. CASE \E outcome \in Outcomes : RoutineAcquire(c, outcome)
      <3>1. PICK outcome \in Outcomes : RoutineAcquire(c, outcome)
        BY <2>3
      <3>2. ~History!Held(c)
        BY <3>1 DEF RoutineAcquire, Eligible, HasRow, Latest, History!Held, History!Begun, History!Newest
      <3>3. History!Record(c, Routine, outcome)
        BY <2>2, <3>1, <3>2 DEF RoutineAcquire, LogOutcome, History!Record, History!Add
      <3> QED BY <3>3 DEF History!Next, Outcomes, History!Outcomes
    <2>4. CASE SupplyCopy(c)
      <3>1. History!Supply(c)
        BY <2>2, <2>4 DEF SupplyCopy, LogOutcome, History!Supply, History!Add
      <3> QED BY <3>1 DEF History!Next
    <2>5. CASE \E by \in Regates, outcome \in Outcomes : Regate(c, by, outcome)
      <3>1. PICK by \in Regates, outcome \in Outcomes : Regate(c, by, outcome)
        BY <2>5
      <3>2. History!Rejudge(c, by, outcome)
        BY <2>2, <3>1 DEF Regate, LogOutcome, History!Rejudge, History!Add
      <3> QED BY <3>2 DEF History!Next, Outcomes, History!Outcomes
    <2> QED BY <2>1, <2>3, <2>4, <2>5 DEF OutsideRow
  <1>3. CASE \E w \in Workers, outcome \in Outcomes : RecordOutcome(w, outcome)
    <2>1. PICK w \in Workers, outcome \in Outcomes : RecordOutcome(w, outcome)
      BY <1>3
    <2>2. /\ cur[w] \in Plans /\ cur[w].key \in Keys
          /\ Version(cur[w].key) = cur[w].prior
          /\ HasRow(cur[w].key) => Latest(cur[w].key).outcome # "acquired"
          /\ LogRow(cur[w].key, [campaign |-> cur[w], outcome |-> outcome,
                                 attempt |-> Attempt(cur[w].key) + 1])
      BY <2>1, Recording
    <2>3. Attempt(cur[w].key) = History!Tried(cur[w].key)
      BY DEF Attempt, HasRow, Latest, History!Tried, History!Begun, History!Newest
    <2>4. ~History!Held(cur[w].key)
      BY <2>2 DEF HasRow, Latest, History!Held, History!Begun, History!Newest
    <2>5. History!Stands(cur[w].key, cur[w].prior)
      BY <1>0, <2>2, VersionStands
    <2>6. History!Record(cur[w].key, cur[w], outcome)
      BY <2>2, <2>3, <2>4, <2>5 DEF LogRow, History!Record, History!Add
    <2>7. outcome \in History!Outcomes
      BY DEF Outcomes, History!Outcomes
    <2> QED BY <2>2, <2>6, <2>7 DEF History!Next
  <1>4. \/ acquisitions' = acquisitions
        \/ \E c \in Keys : OutsideRow(c)
        \/ \E w \in Workers, outcome \in Outcomes : RecordOutcome(w, outcome)
    BY Moves DEF Quiet, StartTransfer, Request
  <1> QED BY <1>1, <1>2, <1>3, <1>4

\* "An unsettled physical request blocks automatic retry", over any number of
\* crashes, workers and plans: operations.py never repeats what it cannot settle.
THEOREM StrandedRequests == Spec => StrandedStaysPut
  <1>1. IInv /\ [Next]_vars =>
            [\A op \in Plans : Stranded(op) => Stranded(op)' /\ requests'[op] = requests[op]]_vars
    BY StrandedSteps
  <1> QED BY <1>1, Invariant, PTL DEF Spec, StrandedStaysPut

\* A revocation waits for the lock a transfer holds, so no request leaves for an
\* operation whose approval is revoked or whose window has not opened.
THEOREM RequestsAreGranted == Spec => NoRequestUnlessGranted
  <1>1. IInv /\ [Next]_vars =>
            [\A op \in Plans : requests'[op] # requests[op] /\ via[op] \in Grants =>
                 Granted(via[op]) /\ window[via[op]] # "early"]_vars
    BY RequestsSanctioned
  <1> QED BY <1>1, Invariant, PTL DEF Spec, NoRequestUnlessGranted

\* Scheduler, routine runs, intake and re-gates together implement the candidate
\* history.
THEOREM HistoryImplemented == Spec => ImplementsHistory
  <1>1. Init => History!Init
    BY DEF Init, History!Init
  <1>2. IInv /\ [Next]_vars => [History!Next]_acquisitions
    BY HistorySteps
  <1> QED BY <1>1, <1>2, Invariant, PTL DEF Spec, ImplementsHistory, History!Spec
=============================================================================
