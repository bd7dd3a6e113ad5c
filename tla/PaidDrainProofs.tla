--------------------------- MODULE PaidDrainProofs ---------------------------
(***************************************************************************)
(* Proofs about PaidDrain, for any mandates and their terms, any offers,   *)
(* budgets and costs, and for every value of the bounds.                   *)
(*                                                                         *)
(* The argument: a plan is counted when it is authorized and nothing takes *)
(* it back, so allowances and reservations are sizes of sets that only     *)
(* grow; what a pass may still plan is what its mandate has left, and the  *)
(* drain it holds is no larger (Allowed); whoever is about to call looked  *)
(* whether the answer exists, and nobody else writes meanwhile (Looked);   *)
(* no row follows an answer that overran but the failure (Formed).         *)
(***************************************************************************)
EXTENDS PaidDrain, FiniteSetTheorems, FunctionTheorems, TLAPS

Labels == {offer.label : offer \in Offers} \union Mandates
Limits == {o.ceiling : o \in Offers} \union {Terms[m].ceiling : m \in Mandates}

Drains ==
    [lane: Lanes, calls: SUBSET Calls, asked: 0..MaxCalls, label: Labels,
     budget: Budgets \union {NoBudget}, ceiling: Nat, cents: Nat]

Events  == {"planned", "authorized", "started", "call_started", "unit_completed",
            "completed", "failed"}
LogRows == [event: Events, call: Calls \union {NoCall}, cost: Nat \union {Unknown}]
Answers == [by: Drains \union {NoOp}, cost: Nat \union {Unknown}]

TypeOK ==
    /\ mandate \in [Mandates -> {"none", "enabled", "disabled"}]
    /\ asked \in [Lanes -> 0..MaxCalls]
    /\ attempts \in [Calls -> Seq(Answers)]
    /\ Planned \subseteq Drains
    /\ IsFiniteSet(Planned)
    /\ ops \in [Planned -> Seq(LogRows) \ {<<>>}]
    /\ by \in [Authorized -> Mandates \union {Worker}]
    /\ driver \in Mandates \union {Worker}
    /\ pc \in Points
    /\ lane \in Lanes
    /\ remaining \in Nat
    /\ cur \in Planned \union {NoOp}
    /\ crashes \in 0..MaxCrashes

\* Two requests of one plan never have the same number.
Numbered(calls) == \A c, d \in calls : c[2] = d[2] => c = d

\* What a plan is: some calls, and for a paid one its limit and its price.
WellPlanned(op) ==
    /\ op.calls # {}
    /\ Numbered(op.calls)
    /\ Paid(op) => op.cents > 0 /\ op.ceiling \in Limits

\* The order of a drain's rows, and that none but a failure follows an overrun.
WellLogged(op) ==
    /\ \A i \in 1..Len(ops[op]) :
          /\ ops[op][i].event = "planned" <=> i = 1
          /\ ops[op][i].event = "authorized" <=> i = 2
          /\ ops[op][i].event = "call_started" => ops[op][i].call \in op.calls
    /\ \A i, j \in 1..Len(ops[op]) :
          (i < j /\ ops[op][i].event = "unit_completed" /\ Overrun(op, ops[op][i].cost))
            => ops[op][j].event = "failed"

Formed == \A op \in Planned : WellPlanned(op) /\ WellLogged(op)

Executing == {"enter", "run", "call", "answered", "counted"}

\* Who holds the lock, over what, and what he saw there.
Looked ==
    /\ pc \in {"drive", "planned"} => driver \in Mandates
    /\ pc = "planned" => cur \in Planned
    /\ pc \in Executing => cur \in Authorized
    /\ \A op \in Authorized : cur = op =>
          /\ pc = "call" => \A c \in Todo(op) : attempts[c] = <<>>
          /\ pc \in {"call", "answered"} => ~OverrunCounted(op)

\* What a pass may still plan is what its mandate has left.
Allowed ==
    \A m \in Mandates : driver = m =>
        /\ pc \in {"drive", "planned"} => CallsReserved(m) + remaining <= Terms[m].cap
        /\ pc \in {"planned"} \union Executing => Cardinality(cur.calls) <= remaining
        /\ pc \in Executing =>
              CallsReserved(m) + remaining <= Terms[m].cap + Cardinality(cur.calls)

OneCeiling ==
    \A one, two \in Authorized : Paid(one) /\ one.budget = two.budget => one.ceiling = two.ceiling

IInv == /\ TypeOK /\ Formed /\ Looked /\ Allowed /\ OneCeiling
        /\ CapHolds /\ NoAnswerBoughtTwice

USE TermsAssumption, NamesAssumption, BoundsAssumption

-----------------------------------------------------------------------------
(***************************************************************************)
(* Counting calls and cents.                                               *)
(***************************************************************************)
LEMMA CallsFinite == IsFiniteSet(Calls)
  <1> DEFINE Pairs == (Lanes \X (1..MaxCalls)) \X Readers
             f == [c \in Calls |-> <<<<c[1], c[2]>>, c[3]>>]
  <1>1. IsFiniteSet(Lanes) /\ IsFiniteSet(Readers)
    <2>1. \A x, y : IsFiniteSet({x} \union {y})
      BY FS_Singleton, FS_AddElement
    <2>2. Lanes = {"extract"} \union {"review"} /\ Readers = {"local"} \union {"paid"}
      BY DEF Lanes, Readers
    <2> QED BY <2>1, <2>2
  <1>2. IsFiniteSet(1..MaxCalls)
    BY FS_Interval
  <1>3. IsFiniteSet(Lanes \X (1..MaxCalls))
    BY <1>1, <1>2, FS_Product
  <1>4. IsFiniteSet(Pairs)
    BY <1>1, <1>3, FS_Product
  <1>5. f \in Injection(Calls, Pairs)
    <2>1. f \in [Calls -> Pairs]
      BY DEF Calls
    <2>2. \A c, d \in Calls : f[c] = f[d] => c = d
      BY DEF Calls
    <2> QED BY <2>1, <2>2 DEF Injection, IsInjective
  <1> QED BY <1>4, <1>5, FS_Injection

LEMMA CallNumber == \A c \in Calls : c[2] \in Nat /\ c[2] \in 1..MaxCalls
  BY DEF Calls

\* The first n of some numbered calls are n at most.
LEMMA FirstAreFew ==
    ASSUME NEW S \in SUBSET Calls, Numbered(S), NEW n \in Nat
    PROVE  First(S, n) \subseteq S /\ Cardinality(First(S, n)) <= n
  <1> DEFINE Before(c) == {d \in S : d[2] < c[2]}
             f == [c \in First(S, n) |-> Cardinality(Before(c))]
  <1>1. IsFiniteSet(S)
    BY CallsFinite, FS_Subset
  <1>2. First(S, n) \subseteq S
    BY DEF First
  <1>3. ASSUME NEW c \in S PROVE IsFiniteSet(Before(c)) /\ Cardinality(Before(c)) \in Nat
    <2>1. IsFiniteSet(Before(c))
      BY <1>1, FS_Subset
    <2> QED BY <2>1, FS_CardinalityType
  <1>4. ASSUME NEW c \in S, NEW d \in S, c[2] < d[2]
        PROVE  Cardinality(Before(c)) < Cardinality(Before(d))
    <2>1. c[2] \in Nat /\ d[2] \in Nat /\ \A e \in S : e[2] \in Nat
      BY CallNumber
    <2>2. Before(c) \subseteq Before(d)
      BY <1>4, <2>1
    <2>3. c \in Before(d) /\ c \notin Before(c)
      BY <1>4, <2>1
    <2>4. Before(c) # Before(d)
      BY <2>3
    <2>5. IsFiniteSet(Before(d)) /\ Cardinality(Before(d)) \in Nat /\ Cardinality(Before(c)) \in Nat
      BY <1>3
    <2> HIDE DEF Before
    <2>6. Cardinality(Before(c)) <= Cardinality(Before(d))
      BY <2>2, <2>5, FS_Subset
    <2>7. Cardinality(Before(c)) # Cardinality(Before(d))
      BY <2>2, <2>4, <2>5, FS_Subset
    <2> QED BY <2>5, <2>6, <2>7
  <1>5. f \in Injection(First(S, n), 0..(n - 1))
    <2>1. ASSUME NEW c \in First(S, n) PROVE Cardinality(Before(c)) \in 0..(n - 1)
      BY <1>2, <1>3 DEF First
    <2>2. f \in [First(S, n) -> 0..(n - 1)]
      BY <2>1
    <2>3. ASSUME NEW c \in First(S, n), NEW d \in First(S, n), f[c] = f[d] PROVE c = d
      <3>1. Cardinality(Before(c)) = Cardinality(Before(d)) /\ Cardinality(Before(c)) \in Nat
        BY <2>3, <1>2, <1>3
      <3>2. ~(c[2] < d[2]) /\ ~(d[2] < c[2])
        <4>1. c \in S /\ d \in S
          BY <1>2
        <4>2. /\ c[2] < d[2] => Cardinality(Before(c)) < Cardinality(Before(d))
              /\ d[2] < c[2] => Cardinality(Before(d)) < Cardinality(Before(c))
          BY <1>4, <4>1
        <4> HIDE DEF Before
        <4> QED BY <3>1, <4>2
      <3>3. c[2] = d[2]
        BY <1>2, <3>2, CallNumber
      <3> QED BY <1>2, <3>3 DEF Numbered
    <2> QED BY <2>2, <2>3 DEF Injection, IsInjective
  <1>6. IsFiniteSet(0..(n - 1)) /\ Cardinality(0..(n - 1)) = n
    BY FS_Interval
  <1>7. Cardinality(First(S, n)) <= Cardinality(0..(n - 1))
    BY <1>5, <1>6, FS_Injection
  <1> QED BY <1>2, <1>6, <1>7

\* There is one first call.
LEMMA FirstIsOne ==
    ASSUME NEW S \in SUBSET Calls, Numbered(S), NEW c \in First(S, 1), NEW d \in First(S, 1)
    PROVE  c = d
  <1>1. IsFiniteSet(S)
    BY CallsFinite, FS_Subset
  <1>2. ASSUME NEW e \in First(S, 1) PROVE e \in S /\ \A x \in S : ~(x[2] < e[2])
    <2>1. e \in S /\ Cardinality({x \in S : x[2] < e[2]}) < 1
      BY DEF First
    <2>2. IsFiniteSet({x \in S : x[2] < e[2]})
      BY <1>1, FS_Subset
    <2>3. Cardinality({x \in S : x[2] < e[2]}) = 0
      BY <2>1, <2>2, FS_CardinalityType
    <2>4. {x \in S : x[2] < e[2]} = {}
      BY <2>2, <2>3, FS_EmptySet
    <2> QED BY <2>1, <2>4
  <1>3. c[2] = d[2]
    BY <1>2, CallNumber
  <1> QED BY <1>2, <1>3 DEF Numbered

LEMMA Disjoint ==
    ASSUME NEW S, NEW T, IsFiniteSet(S), IsFiniteSet(T), S \cap T = {}
    PROVE  /\ IsFiniteSet(S \union T)
           /\ Cardinality(S \union T) = Cardinality(S) + Cardinality(T)
           /\ Cardinality(S) \in Nat /\ Cardinality(T) \in Nat
  <1>1. Cardinality(S) \in Nat /\ Cardinality(T) \in Nat
    BY FS_CardinalityType
  <1>2. Cardinality(S \cap T) = 0
    BY FS_EmptySet
  <1>3. IsFiniteSet(S \union T)
    BY FS_Union
  <1>4. Cardinality(S \union T) = Cardinality(S) + Cardinality(T) - Cardinality(S \cap T)
    BY FS_Union
  <1> QED BY <1>1, <1>2, <1>3, <1>4

\* One row per element.
LEMMA Tagged ==
    ASSUME NEW x, NEW T, IsFiniteSet(T)
    PROVE  /\ IsFiniteSet({x} \X T) /\ Cardinality({x} \X T) = Cardinality(T)
           /\ Cardinality(T) \in Nat
  <1>1. IsFiniteSet({x}) /\ Cardinality({x}) = 1
    BY FS_Singleton
  <1>2. IsFiniteSet({x} \X T)
    BY <1>1, FS_Product
  <1>3. Cardinality({x} \X T) = 1 * Cardinality(T)
    BY <1>1, FS_Product
  <1>4. Cardinality(T) \in Nat
    BY FS_CardinalityType
  <1> QED BY <1>2, <1>3, <1>4

-----------------------------------------------------------------------------
(***************************************************************************)
(* What the ledgers say after a row.                                       *)
(***************************************************************************)
LEMMA LedgerTypes ==
    ASSUME TypeOK
    PROVE  /\ Authorized \subseteq Planned
           /\ \A op \in Planned :
                 /\ op \in Drains
                 /\ ops[op] \in Seq(LogRows) /\ Len(ops[op]) \in Nat /\ Len(ops[op]) >= 1
                 /\ op.calls \in SUBSET Calls /\ IsFiniteSet(op.calls)
                 /\ op.ceiling \in Nat /\ op.cents \in Nat
                 /\ op.budget \in Budgets \union {NoBudget}
  <1>1. \A op \in Planned : ops[op] \in Seq(LogRows) /\ ops[op] # <<>> /\ op \in Drains
    BY DEF TypeOK
  <1>2. \A op \in Drains : op.calls \in SUBSET Calls /\ IsFiniteSet(op.calls)
    BY CallsFinite, FS_Subset DEF Drains
  <1>3. \A op \in Drains : /\ op.ceiling \in Nat /\ op.cents \in Nat
                           /\ op.budget \in Budgets \union {NoBudget}
    BY DEF Drains
  <1>4. \A op \in Planned : Len(ops[op]) \in Nat /\ Len(ops[op]) >= 1
    BY <1>1
  <1>5. Authorized \subseteq Planned
    BY DEF Authorized
  <1> QED BY <1>1, <1>2, <1>3, <1>4, <1>5

\* One more row of one drain.
LEMMA Appended ==
    ASSUME TypeOK, NEW op \in Planned, NEW row \in LogRows, Log(op, row)
    PROVE  /\ Planned' = Planned
           /\ ops' \in [Planned -> Seq(LogRows) \ {<<>>}]
           /\ \A o \in Planned : o # op => ops'[o] = ops[o]
           /\ ops'[op] = Append(ops[op], row)
           /\ Len(ops'[op]) = Len(ops[op]) + 1
           /\ ops'[op][Len(ops[op]) + 1] = row
           /\ \A i \in 1..Len(ops[op]) : ops'[op][i] = ops[op][i]
           /\ Authorized' = Authorized \union {op}
  <1>1. ops[op] \in Seq(LogRows) /\ Len(ops[op]) \in Nat /\ Len(ops[op]) >= 1
    BY LedgerTypes
  <1>2. /\ Planned' = Planned
        /\ \A o \in Planned : o # op => ops'[o] = ops[o]
        /\ ops'[op] = Append(ops[op], row)
    BY DEF Log, TypeOK, Planned
  <1>3. /\ Append(ops[op], row) \in Seq(LogRows) \ {<<>>}
        /\ Len(Append(ops[op], row)) = Len(ops[op]) + 1
        /\ Append(ops[op], row)[Len(ops[op]) + 1] = row
        /\ \A i \in 1..Len(ops[op]) : Append(ops[op], row)[i] = ops[op][i]
    BY <1>1
  <1>4. ops' \in [Planned -> Seq(LogRows) \ {<<>>}]
    BY <1>3 DEF Log, TypeOK, Planned
  <1>5. Authorized' = Authorized \union {op}
    <2>1. Len(ops'[op]) > 1
      BY <1>1, <1>2, <1>3
    <2> QED BY <1>2, <2>1 DEF Authorized
  <1> QED BY <1>2, <1>3, <1>4, <1>5

\* Nothing is authorized, nothing takes an authorization back: the same reservations.
LEMMA ReservationsStay ==
    ASSUME Authorized' = Authorized, by' = by
    PROVE  \A m \in Mandates : CallsReserved(m)' = CallsReserved(m)
  BY DEF CallsReserved, UnderMandate

LEMMA ReservationsCount ==
    ASSUME TypeOK
    PROVE  \A m \in Mandates : CallsReserved(m) \in Nat
  <1>1. \A m \in Mandates : UNION {{o} \X o.calls : o \in UnderMandate(m)} \subseteq Planned \X Calls
    BY LedgerTypes DEF UnderMandate, Authorized
  <1>2. IsFiniteSet(Planned \X Calls)
    BY CallsFinite, FS_Product DEF TypeOK
  <1> QED BY <1>1, <1>2, FS_Subset, FS_CardinalityType DEF CallsReserved

\* Neither a plan nor a row.
LEMMA Quiet ==
    ASSUME IInv, UNCHANGED <<ops, by>>
    PROVE  /\ Planned' = Planned /\ Authorized' = Authorized
           /\ Formed' /\ OneCeiling' /\ CapHolds'
           /\ \A m \in Mandates : CallsReserved(m)' = CallsReserved(m)
  <1>1. Planned' = Planned /\ Authorized' = Authorized
    BY DEF Planned, Authorized
  <1>2. \A m \in Mandates : CallsReserved(m)' = CallsReserved(m)
    BY <1>1, ReservationsStay
  <1>3. \A op \in Planned : WellLogged(op)' <=> WellLogged(op)
    BY DEF WellLogged
  <1>4. Formed'
    BY <1>1, <1>3 DEF Formed, IInv
  <1>5. OneCeiling' /\ CapHolds'
    BY <1>1, <1>2 DEF OneCeiling, CapHolds, IInv
  <1> QED BY <1>1, <1>2, <1>4, <1>5

\* A row of a drain that was authorized: after an overrun, its failure.
LEMMA Logged ==
    ASSUME IInv, NEW op \in Authorized, NEW row \in LogRows, Log(op, row), UNCHANGED by,
           row.event \notin {"planned", "authorized"},
           row.event = "call_started" => row.call \in op.calls,
           OverrunCounted(op) => row.event = "failed"
    PROVE  /\ Planned' = Planned /\ Authorized' = Authorized
           /\ ops' \in [Planned' -> Seq(LogRows) \ {<<>>}]
           /\ Formed' /\ OneCeiling' /\ CapHolds'
           /\ \A m \in Mandates : CallsReserved(m)' = CallsReserved(m)
  <1>1. TypeOK /\ op \in Planned
    BY LedgerTypes DEF IInv
  <1>2. /\ Planned' = Planned /\ Authorized' = Authorized
        /\ ops' \in [Planned -> Seq(LogRows) \ {<<>>}]
        /\ \A o \in Planned : o # op => ops'[o] = ops[o]
        /\ Len(ops'[op]) = Len(ops[op]) + 1
        /\ ops'[op][Len(ops[op]) + 1] = row
        /\ \A i \in 1..Len(ops[op]) : ops'[op][i] = ops[op][i]
    <2>1. Authorized' = Authorized \union {op}
      BY <1>1, Appended
    <2>2. Authorized' = Authorized
      BY <2>1
    <2> QED BY <1>1, <2>2, Appended
  <1>3. \A m \in Mandates : CallsReserved(m)' = CallsReserved(m)
    BY <1>2, ReservationsStay
  <1>4. OneCeiling' /\ CapHolds'
    BY <1>2, <1>3 DEF OneCeiling, CapHolds, IInv
  <1>5. Formed'
    <2> SUFFICES ASSUME NEW o \in Planned PROVE WellPlanned(o) /\ WellLogged(o)'
      BY <1>2 DEF Formed, WellPlanned
    <2>1. WellPlanned(o) /\ WellLogged(o)
      BY DEF Formed, IInv
    <2>2. CASE o # op
      BY <1>2, <2>1, <2>2 DEF WellLogged
    <2>3. CASE o = op
      <3>1. Len(ops[op]) \in Nat /\ Len(ops[op]) > 1
        BY <1>1, LedgerTypes DEF Authorized
      <3>2. \A i \in 1..Len(ops'[op]) : i \in 1..Len(ops[op]) \/ i = Len(ops[op]) + 1
        BY <1>2, <3>1
      <3>3. ASSUME NEW i \in 1..Len(ops'[op])
            PROVE  /\ ops'[op][i].event = "planned" <=> i = 1
                   /\ ops'[op][i].event = "authorized" <=> i = 2
                   /\ ops'[op][i].event = "call_started" => ops'[op][i].call \in op.calls
        <4>1. CASE i \in 1..Len(ops[op])
          <5>1. ops'[op][i] = ops[op][i]
            BY <1>2, <4>1
          <5>2. /\ ops[op][i].event = "planned" <=> i = 1
                /\ ops[op][i].event = "authorized" <=> i = 2
                /\ ops[op][i].event = "call_started" => ops[op][i].call \in op.calls
            BY <2>1, <2>3, <4>1 DEF WellLogged
          <5> QED BY <5>1, <5>2
        <4>2. CASE i = Len(ops[op]) + 1
          BY <1>2, <3>1, <4>2
        <4> QED BY <3>2, <4>1, <4>2
      <3>4. ASSUME NEW i \in 1..Len(ops'[op]), NEW j \in 1..Len(ops'[op]), i < j,
                   ops'[op][i].event = "unit_completed", Overrun(op, ops'[op][i].cost)
            PROVE  ops'[op][j].event = "failed"
        <4>1. i \in 1..Len(ops[op])
          BY <1>2, <3>1, <3>4
        <4>2. ops[op][i].event = "unit_completed" /\ Overrun(op, ops[op][i].cost)
          BY <1>2, <3>4, <4>1
        <4>3. CASE j \in 1..Len(ops[op])
          <5>1. ops[op][j].event = "failed"
            BY <2>1, <2>3, <3>4, <4>1, <4>2, <4>3 DEF WellLogged
          <5> QED BY <1>2, <4>3, <5>1
        <4>4. CASE j = Len(ops[op]) + 1
          <5>1. OverrunCounted(op)
            BY <4>1, <4>2 DEF OverrunCounted, Rows
          <5> QED BY <1>2, <4>4, <5>1
        <4> QED BY <3>2, <4>3, <4>4
      <3>5. WellLogged(op)'
        BY <3>3, <3>4 DEF WellLogged, Overrun, Paid
      <3> QED BY <2>1, <2>3, <3>5
    <2> QED BY <2>2, <2>3
  <1> QED BY <1>2, <1>3, <1>4, <1>5

\* A new plan.
LEMMA PlanLogged ==
    ASSUME IInv, NEW op \in Drains, op \notin Planned, WellPlanned(op), LogPlan(op), UNCHANGED by
    PROVE  /\ Planned' = Planned \union {op} /\ Authorized' = Authorized
           /\ IsFiniteSet(Planned')
           /\ ops' \in [Planned' -> Seq(LogRows) \ {<<>>}]
           /\ \A o \in Planned : ops'[o] = ops[o]
           /\ Formed' /\ OneCeiling' /\ CapHolds'
           /\ \A m \in Mandates : CallsReserved(m)' = CallsReserved(m)
  <1> DEFINE first == <<Row("planned", NoCall, 0)>>
  <1>1. Row("planned", NoCall, 0) \in LogRows
    BY DEF Row, LogRows, Events
  <1>2. first \in Seq(LogRows) \ {<<>>} /\ Len(first) = 1 /\ first[1] = Row("planned", NoCall, 0)
    BY <1>1
  <1>3. /\ Planned' = Planned \union {op}
        /\ \A o \in Planned : ops'[o] = ops[o]
        /\ ops'[op] = first
    BY DEF LogPlan, Planned
  <1> HIDE DEF first
  <1>4. ops' \in [Planned' -> Seq(LogRows) \ {<<>>}]
    <2>1. ops' = [o \in Planned' |-> ops'[o]]
      BY DEF LogPlan, Planned
    <2>2. \A o \in Planned' : ops'[o] \in Seq(LogRows) \ {<<>>}
      BY <1>2, <1>3 DEF TypeOK, IInv
    <2> QED BY <2>1, <2>2
  <1>5. IsFiniteSet(Planned')
    BY <1>3, FS_AddElement DEF TypeOK, IInv
  <1>6. Authorized' = Authorized
    <2>1. ~(Len(ops'[op]) > 1)
      BY <1>2, <1>3
    <2> QED BY <1>3, <2>1 DEF Authorized
  <1>7. \A m \in Mandates : CallsReserved(m)' = CallsReserved(m)
    BY <1>6, ReservationsStay
  <1>8. OneCeiling' /\ CapHolds'
    BY <1>6, <1>7 DEF OneCeiling, CapHolds, IInv
  <1>9. Formed'
    <2>1. ASSUME NEW o \in Planned PROVE WellPlanned(o) /\ WellLogged(o)'
      BY <1>3 DEF WellLogged, Formed, IInv
    <2>2. WellLogged(op)'
      <3>1. Len(ops'[op]) = 1 /\ ops'[op][1].event = "planned"
        BY <1>2, <1>3 DEF Row
      <3>2. \A i \in 1..Len(ops'[op]) : i = 1
        BY <3>1
      <3> QED BY <3>1, <3>2 DEF WellLogged
    <2> QED BY <1>3, <2>1, <2>2 DEF Formed, WellPlanned
  <1> QED BY <1>3, <1>4, <1>5, <1>6, <1>7, <1>8, <1>9

\* A drain that was only planned is counted from its authorization on, once.
LEMMA AuthorizationLogged ==
    ASSUME IInv, NEW op \in Planned, Last(op) = "planned", Fits(op),
           NEW who \in Mandates \union {Worker}, LogAuthorized(op, who)
    PROVE  /\ op \notin Authorized
           /\ Planned' = Planned /\ Authorized' = Authorized \union {op}
           /\ ops' \in [Planned' -> Seq(LogRows) \ {<<>>}]
           /\ by' \in [Authorized' -> Mandates \union {Worker}]
           /\ \A o \in Planned : o # op => ops'[o] = ops[o]
           /\ Formed' /\ OneCeiling'
           /\ \A m \in Mandates :
                 /\ CallsReserved(m) \in Nat
                 /\ CallsReserved(m)' =
                      IF m = who THEN CallsReserved(m) + Cardinality(op.calls) ELSE CallsReserved(m)
  <1> DEFINE row == Row("authorized", NoCall, 0)
  <1>0. row \in LogRows /\ row.event = "authorized"
    BY DEF Row, LogRows, Events
  <1>1. TypeOK
    BY DEF IInv
  <1>2. WellLogged(op) /\ WellPlanned(op)
    BY DEF Formed, IInv
  <1>3. Len(ops[op]) \in Nat /\ Len(ops[op]) >= 1 /\ IsFiniteSet(op.calls)
    BY <1>1, LedgerTypes
  <1>4. Len(ops[op]) = 1
    <2>1. Len(ops[op]) \in 1..Len(ops[op])
      BY <1>3
    <2> QED BY <1>2, <2>1 DEF WellLogged, Last
  <1>5. op \notin Authorized
    <2>1. ~(Len(ops[op]) > 1)
      BY <1>4
    <2> QED BY <2>1 DEF Authorized
  <1>6. Log(op, row)
    BY DEF LogAuthorized, LogPlain
  <1> HIDE DEF row
  <1>7. /\ Planned' = Planned /\ Authorized' = Authorized \union {op}
        /\ ops' \in [Planned -> Seq(LogRows) \ {<<>>}]
        /\ \A o \in Planned : o # op => ops'[o] = ops[o]
        /\ Len(ops'[op]) = 2
        /\ ops'[op][2] = row
        /\ ops'[op][1] = ops[op][1]
    <2>1. /\ Planned' = Planned /\ Authorized' = Authorized \union {op}
          /\ ops' \in [Planned -> Seq(LogRows) \ {<<>>}]
          /\ \A o \in Planned : o # op => ops'[o] = ops[o]
          /\ Len(ops'[op]) = Len(ops[op]) + 1
          /\ ops'[op][Len(ops[op]) + 1] = row
          /\ \A i \in 1..Len(ops[op]) : ops'[op][i] = ops[op][i]
      BY <1>0, <1>1, <1>6, Appended
    <2> QED BY <1>4, <2>1
  <1>8. Formed'
    <2>1. ASSUME NEW o \in Planned, o # op PROVE WellPlanned(o) /\ WellLogged(o)'
      BY <1>7, <2>1 DEF WellLogged, Formed, IInv
    <2>2. WellLogged(op)'
      <3>1. ops'[op][1].event = "planned"
        BY <1>2, <1>4, <1>7 DEF WellLogged
      <3>2. \A i \in 1..Len(ops'[op]) : i = 1 \/ i = 2
        BY <1>7
      <3> QED BY <1>0, <1>7, <3>1, <3>2 DEF WellLogged
    <2> QED BY <1>2, <1>7, <2>1, <2>2 DEF Formed, WellPlanned
  <1>9. OneCeiling'
    <2> SUFFICES ASSUME NEW one \in Authorized \union {op}, NEW two \in Authorized \union {op},
                        Paid(one), one.budget = two.budget
                 PROVE  one.ceiling = two.ceiling
      BY <1>7 DEF OneCeiling, Paid
    <2>1. Paid(one) /\ Paid(two)
      BY DEF Paid
    <2>2. CASE one \in Authorized /\ two \in Authorized
      BY <2>2 DEF OneCeiling, IInv
    <2>3. CASE one = op \/ two = op
      BY <2>1, <2>3 DEF Fits
    <2> QED BY <2>2, <2>3
  <1>10. /\ by' \in [Authorized' -> Mandates \union {Worker}]
         /\ by'[op] = who
         /\ \A o \in Authorized : by'[o] = by[o]
    <2>1. DOMAIN by = Authorized
      BY <1>1 DEF TypeOK
    <2>2. by' = [o \in Authorized' |-> IF o = op THEN who ELSE by[o]]
      BY <1>7, <2>1 DEF LogAuthorized
    <2>3. \A o \in Authorized : by[o] \in Mandates \union {Worker}
      BY <1>1 DEF TypeOK
    <2> QED BY <1>5, <1>7, <2>2, <2>3
  <1>11. ASSUME NEW m \in Mandates
         PROVE  /\ CallsReserved(m) \in Nat
                /\ CallsReserved(m)' =
                     IF m = who THEN CallsReserved(m) + Cardinality(op.calls) ELSE CallsReserved(m)
    <2> DEFINE old == UNION {{o} \X o.calls : o \in UnderMandate(m)}
               new == {op} \X op.calls
    <2>1. IsFiniteSet(old) /\ Cardinality(old) \in Nat
      <3>1. IsFiniteSet(Planned)
        BY <1>1 DEF TypeOK
      <3>3. IsFiniteSet(Planned \X Calls)
        BY <3>1, CallsFinite, FS_Product
      <3>4. old \subseteq Planned \X Calls
        BY <1>1, LedgerTypes DEF UnderMandate, Authorized
      <3>5. IsFiniteSet(old)
        BY <3>3, <3>4, FS_Subset
      <3> QED BY <3>5, FS_CardinalityType
    <2>2. IsFiniteSet(new) /\ Cardinality(new) = Cardinality(op.calls)
      BY <1>3, Tagged
    <2>3. old \cap new = {}
      BY <1>5 DEF UnderMandate
    <2>4. CASE m = who
      <3>1. UnderMandate(m)' = UnderMandate(m) \union {op}
        BY <1>5, <1>7, <1>10, <2>4 DEF UnderMandate
      <3>2. UNION {{o} \X o.calls : o \in UnderMandate(m) \union {op}} = old \union new
        OBVIOUS
      <3>3. Cardinality(old \union new) = Cardinality(old) + Cardinality(new)
        BY <2>1, <2>2, <2>3, Disjoint
      <3>4. CallsReserved(m)' = Cardinality(old \union new)
        BY <3>1, <3>2 DEF CallsReserved
      <3>5. CallsReserved(m) = Cardinality(old)
        BY DEF CallsReserved
      <3> QED BY ONLY <2>1, <2>2, <2>4, <3>3, <3>4, <3>5
    <2>5. CASE m # who
      <3>1. UnderMandate(m)' = UnderMandate(m)
        BY <1>5, <1>7, <1>10, <2>5 DEF UnderMandate
      <3> QED BY <2>1, <2>5, <3>1 DEF CallsReserved
    <2> QED BY <2>4, <2>5
  <1> QED BY <1>5, <1>7, <1>8, <1>9, <1>10, <1>11

-----------------------------------------------------------------------------
(***************************************************************************)
(* People, and what a process does beside its rows.                        *)
(***************************************************************************)
LEMMA Ended ==
    ASSUME EndPass PROVE Looked' /\ Allowed'
  BY DEF EndPass, Looked, Allowed, Executing

\* Mandates and requests.
LEMMA Elsewhere ==
    ASSUME IInv, UNCHANGED <<ledgers, process, crashes>>,
           mandate' \in [Mandates -> {"none", "enabled", "disabled"}],
           asked' \in [Lanes -> 0..MaxCalls]
    PROVE  IInv'
  <1>1. /\ Planned' = Planned /\ Authorized' = Authorized
        /\ Formed' /\ OneCeiling' /\ CapHolds'
        /\ \A m \in Mandates : CallsReserved(m)' = CallsReserved(m)
    BY Quiet DEF ledgers
  <1>2. TypeOK'
    BY <1>1 DEF TypeOK, IInv, ledgers, process
  <1>3. \A op \in Authorized : Todo(op)' = Todo(op) /\ (OverrunCounted(op)' <=> OverrunCounted(op))
    BY DEF Todo, Counted, OverrunCounted, Rows, ledgers
  <1>4. Looked'
    BY <1>1, <1>3 DEF Looked, IInv, ledgers, process
  <1>5. Allowed'
    BY <1>1 DEF Allowed, IInv, process
  <1>6. NoAnswerBoughtTwice'
    BY DEF NoAnswerBoughtTwice, IInv, ledgers
  <1> QED BY <1>1, <1>2, <1>4, <1>5, <1>6 DEF IInv

\* An answer is appended: by a drain, only where there was none.
LEMMA Recorded ==
    ASSUME IInv, NEW c \in Calls, NEW who \in Drains \union {NoOp}, NEW cost \in Costs \union {Unknown},
           Record(c, who, cost), who # NoOp => attempts[c] = <<>>
    PROVE  /\ attempts' \in [Calls -> Seq(Answers)]
           /\ NoAnswerBoughtTwice'
           /\ \A d \in Calls : d # c => attempts'[d] = attempts[d]
           /\ attempts'[c] # <<>>
  <1> DEFINE answer == [by |-> who, cost |-> cost]
  <1>1. answer \in Answers
    BY DEF Answers
  <1>2. attempts \in [Calls -> Seq(Answers)]
    BY DEF TypeOK, IInv
  <1>3. attempts' = [attempts EXCEPT ![c] = Append(@, answer)] /\ answer.by = who
    BY DEF Record
  <1> HIDE DEF answer
  <1>4. /\ Append(attempts[c], answer) \in Seq(Answers)
        /\ Append(attempts[c], answer) # <<>>
        /\ Len(attempts[c]) \in Nat
        /\ Len(Append(attempts[c], answer)) = Len(attempts[c]) + 1
        /\ Append(attempts[c], answer)[Len(attempts[c]) + 1] = answer
        /\ \A i \in 1..Len(attempts[c]) : Append(attempts[c], answer)[i] = attempts[c][i]
    BY <1>1, <1>2
  <1>5. attempts' \in [Calls -> Seq(Answers)]
    BY <1>2, <1>3, <1>4
  <1>6. attempts'[c] = Append(attempts[c], answer) /\ \A d \in Calls : d # c => attempts'[d] = attempts[d]
    BY <1>2, <1>3
  <1>7. NoAnswerBoughtTwice'
    <2> SUFFICES ASSUME NEW d \in Calls, NEW i \in 1..Len(attempts'[d]), attempts'[d][i].by # NoOp
                 PROVE  i = 1
      BY DEF NoAnswerBoughtTwice
    <2>1. CASE d # c
      BY <1>6, <2>1 DEF NoAnswerBoughtTwice, IInv
    <2>2. CASE d = c /\ i \in 1..Len(attempts[c])
      <3>1. attempts[c][i].by # NoOp
        BY <1>4, <1>6, <2>2
      <3> QED BY <2>2, <3>1 DEF NoAnswerBoughtTwice, IInv
    <2>3. CASE d = c /\ i = Len(attempts[c]) + 1
      <3>1. attempts'[c][i] = answer
        BY <1>4, <1>6, <2>3
      <3>2. who # NoOp
        BY <1>3, <2>3, <3>1
      <3>3. Len(attempts[c]) = 0
        BY <3>2
      <3> QED BY <2>3, <3>3
    <2>4. d = c => i \in 1..Len(attempts[c]) \/ i = Len(attempts[c]) + 1
      BY <1>4, <1>6
    <2> QED BY <2>1, <2>2, <2>3, <2>4
  <1> QED BY <1>4, <1>5, <1>6, <1>7

\* What is frozen as a plan: so many calls at most, each of them once.
LEMMA PlanTypes ==
    ASSUME TypeOK, NEW l \in Lanes, NEW n \in Nat, NEW terms, Money(terms), terms.ceiling \in Limits,
           NEW label \in Labels, Affordable(Plan(l, n, terms, label))
    PROVE  /\ Plan(l, n, terms, label) \in Drains
           /\ WellPlanned(Plan(l, n, terms, label))
           /\ Cardinality(Plan(l, n, terms, label).calls) <= n
  <1> DEFINE fresh == Fresh(l, Reader(terms))
             op == Plan(l, n, terms, label)
  <1>1. fresh \in SUBSET Calls /\ Numbered(fresh)
    BY DEF Fresh, Numbered, Calls
  <1>2. First(fresh, n) \subseteq fresh /\ Cardinality(First(fresh, n)) <= n
    BY <1>1, FirstAreFew
  <1>3. asked[l] \in 0..MaxCalls
    BY DEF TypeOK
  <1>4. /\ op = [lane |-> l, calls |-> First(fresh, n), asked |-> asked[l], label |-> label,
                 budget |-> terms.budget, ceiling |-> terms.ceiling, cents |-> terms.cents]
        /\ op.calls = First(fresh, n) /\ op.budget = terms.budget
        /\ op.ceiling = terms.ceiling /\ op.cents = terms.cents
    BY DEF Plan
  <1>5. op.calls # {}
    BY DEF Affordable
  <1> HIDE DEF fresh, op
  <1>6. op \in Drains
    BY <1>1, <1>2, <1>3, <1>4 DEF Drains, Money
  <1>7. WellPlanned(op)
    <2>1. Numbered(op.calls)
      BY <1>1, <1>2, <1>4 DEF Numbered
    <2>2. Paid(op) => op.cents > 0 /\ op.ceiling \in Limits
      BY <1>4 DEF Paid, Money
    <2> QED BY <1>5, <2>1, <2>2 DEF WellPlanned
  <1> QED BY <1>2, <1>4, <1>6, <1>7 DEF op

LEMMA PersonInv == IInv /\ Person => IInv'
  <1> SUFFICES ASSUME IInv, Person PROVE IInv'
    OBVIOUS
  <1>0. TypeOK
    BY DEF IInv
  <1>1. ASSUME NEW m \in Mandates, EnableMandate(m) \/ DisableMandate(m) PROVE IInv'
    BY <1>0, <1>1, Elsewhere DEF EnableMandate, DisableMandate, TypeOK
  <1>2. ASSUME NEW l \in Lanes, Build(l) PROVE IInv'
    BY <1>0, <1>2, Elsewhere DEF Build, TypeOK
  <1>3. ASSUME NEW l \in Lanes, NEW offer \in Offers, PlanByPerson(l, offer) PROVE IInv'
    <2>1. /\ Money(offer) /\ offer.size \in Nat /\ offer.ceiling \in Limits /\ offer.label \in Labels
      BY DEF Limits, Labels
    <2>2. PICK op : op = Plan(l, offer.size, offer, offer.label)
      OBVIOUS
    <2>3. /\ pc = "idle" /\ Affordable(op) /\ op \notin Planned /\ LogPlan(op)
          /\ UNCHANGED <<mandate, asked, attempts, by, process, crashes>>
      BY <1>3, <2>2 DEF PlanByPerson
    <2>4. op \in Drains /\ WellPlanned(op)
      BY <1>0, <2>1, <2>2, <2>3, PlanTypes
    <2>5. /\ Planned' = Planned \union {op} /\ Authorized' = Authorized
          /\ IsFiniteSet(Planned')
          /\ ops' \in [Planned' -> Seq(LogRows) \ {<<>>}]
          /\ Formed' /\ OneCeiling' /\ CapHolds'
      BY <2>3, <2>4, PlanLogged
    <2>6. TypeOK'
      BY <1>0, <2>3, <2>4, <2>5 DEF TypeOK, process
    <2>7. Looked' /\ Allowed'
      BY <2>3 DEF Looked, Allowed, Executing, process
    <2>8. NoAnswerBoughtTwice'
      BY <2>3 DEF NoAnswerBoughtTwice, IInv
    <2> QED BY <2>5, <2>6, <2>7, <2>8 DEF IInv
  <1>4. ASSUME NEW op \in Planned, AuthorizeByPerson(op) PROVE IInv'
    <2>1. /\ pc = "idle" /\ LogAuthorized(op, Worker)
          /\ UNCHANGED <<mandate, asked, attempts, process, crashes>>
      BY <1>4 DEF AuthorizeByPerson
    <2>2. /\ Planned' = Planned
          /\ ops' \in [Planned' -> Seq(LogRows) \ {<<>>}]
          /\ by' \in [Authorized' -> Mandates \union {Worker}]
          /\ Formed' /\ OneCeiling'
          /\ \A m \in Mandates :
                CallsReserved(m)' =
                  IF m = Worker THEN CallsReserved(m) + Cardinality(op.calls) ELSE CallsReserved(m)
      BY <1>4, <2>1, AuthorizationLogged DEF AuthorizeByPerson
    <2>3. CapHolds'
      BY <2>2 DEF CapHolds, IInv
    <2>4. TypeOK'
      BY <1>0, <2>1, <2>2 DEF TypeOK, process
    <2>5. Looked' /\ Allowed'
      BY <2>1 DEF Looked, Allowed, Executing, process
    <2>6. NoAnswerBoughtTwice'
      BY <2>1 DEF NoAnswerBoughtTwice, IInv
    <2> QED BY <2>2, <2>3, <2>4, <2>5, <2>6 DEF IInv
  <1>5. ASSUME NEW c \in Calls, NEW cost \in Costs \union {Unknown}, DrainByHand(c, cost) PROVE IInv'
    <2>1. /\ pc = "idle" /\ Record(c, NoOp, cost)
          /\ UNCHANGED <<mandate, asked, ops, by, process, crashes>>
      BY <1>5 DEF DrainByHand
    <2>2. attempts' \in [Calls -> Seq(Answers)] /\ NoAnswerBoughtTwice'
      BY <2>1, Recorded
    <2>3. /\ Planned' = Planned /\ Authorized' = Authorized
          /\ Formed' /\ OneCeiling' /\ CapHolds'
      BY <2>1, Quiet
    <2>4. TypeOK'
      BY <1>0, <2>1, <2>2, <2>3 DEF TypeOK, process
    <2>5. Looked' /\ Allowed'
      BY <2>1 DEF Looked, Allowed, Executing, process
    <2> QED BY <2>2, <2>3, <2>4, <2>5 DEF IInv
  <1> QED BY <1>1, <1>2, <1>3, <1>4, <1>5 DEF Person

\* A process takes the lock, goes on or lets go, and writes nothing.
LEMMA ProcessInv ==
    ASSUME IInv, UNCHANGED <<mandate, asked, ledgers>>, crashes' \in 0..MaxCrashes,
           driver' \in Mandates \union {Worker}, pc' \in Points, lane' \in Lanes,
           remaining' \in Nat, cur' \in Planned \union {NoOp},
           Looked', Allowed'
    PROVE  IInv'
  <1>1. /\ Planned' = Planned /\ Authorized' = Authorized
        /\ Formed' /\ OneCeiling' /\ CapHolds'
    BY Quiet DEF ledgers
  <1>2. TypeOK'
    BY <1>1 DEF TypeOK, IInv, ledgers
  <1>3. NoAnswerBoughtTwice'
    BY DEF NoAnswerBoughtTwice, IInv, ledgers
  <1> QED BY <1>1, <1>2, <1>3 DEF IInv

LEMMA BeginPassInv ==
    ASSUME IInv, NEW m \in Mandates, BeginPass(m)
    PROVE  IInv'
  <1> USE DEF BeginPass
  <1>0. TypeOK
    BY DEF IInv
  <1>1. UNCHANGED <<mandate, asked, ledgers, cur, crashes>> /\ driver' = m /\ pc' = "drive" /\ lane' = "extract"
    OBVIOUS
  <1>2. CallsReserved(m) \in Nat
    BY <1>0, ReservationsCount
  <1>3. remaining' \in Nat /\ CallsReserved(m) + remaining' <= Terms[m].cap
    BY <1>2
  <1>4. \A k \in Mandates : CallsReserved(k)' = CallsReserved(k)
    BY <1>1, Quiet DEF ledgers
  <1>5. Looked'
    BY <1>1 DEF Looked, Executing
  <1>6. Allowed'
    BY <1>1, <1>3, <1>4 DEF Allowed, Executing
  <1> QED BY <1>0, <1>1, <1>3, <1>5, <1>6, ProcessInv DEF TypeOK, Points, Lanes

LEMMA NextLaneInv ==
    ASSUME IInv, NEW left \in Nat, NextLane(left),
           driver \in Mandates,
           \A m \in Mandates : driver = m => CallsReserved(m)' + left <= Terms[m].cap
    PROVE  /\ Looked' /\ Allowed'
           /\ driver' \in Mandates \union {Worker} /\ pc' \in Points /\ lane' \in Lanes
           /\ remaining' \in Nat /\ cur' = NoOp
  <1>1. CASE lane = "extract"
    <2>1. pc' = "drive" /\ lane' = "review" /\ remaining' = left /\ cur' = NoOp /\ driver' = driver
      BY <1>1 DEF NextLane
    <2>2. Looked'
      BY <2>1 DEF Looked, Executing
    <2>3. Allowed'
      BY <2>1 DEF Allowed, Executing
    <2> QED BY <2>1, <2>2, <2>3 DEF Points, Lanes
  <1>2. CASE lane # "extract"
    <2>1. EndPass
      BY <1>2 DEF NextLane
    <2> QED BY <2>1, Ended DEF EndPass, Points, Lanes
  <1> QED BY <1>1, <1>2

LEMMA SkipLaneInv ==
    ASSUME IInv, SkipLane
    PROVE  IInv'
  <1> USE DEF SkipLane
  <1>0. TypeOK /\ driver \in Mandates /\ pc = "drive" /\ remaining \in Nat
    BY DEF IInv, TypeOK, Looked
  <1>1. \A m \in Mandates : CallsReserved(m)' = CallsReserved(m)
    BY Quiet DEF ledgers
  <1>2. \A m \in Mandates : driver = m => CallsReserved(m)' + remaining <= Terms[m].cap
    BY <1>0, <1>1 DEF Allowed, IInv
  <1>3. /\ Looked' /\ Allowed'
        /\ driver' \in Mandates \union {Worker} /\ pc' \in Points /\ lane' \in Lanes
        /\ remaining' \in Nat /\ cur' = NoOp
    BY <1>0, <1>2, NextLaneInv
  <1> QED BY <1>0, <1>3, ProcessInv DEF TypeOK

\* The pass is abandoned, or the process is killed.
LEMMA EndedInv ==
    ASSUME IInv, EndPass, UNCHANGED <<mandate, asked, ledgers>>, crashes' \in 0..MaxCrashes
    PROVE  IInv'
  <1>1. Looked' /\ Allowed'
    BY Ended
  <1> QED BY <1>1, ProcessInv DEF EndPass, Points, Lanes

LEMMA WorkerTakeInv ==
    ASSUME IInv, NEW op \in Planned, WorkerTake(op)
    PROVE  IInv'
  <1> USE DEF WorkerTake
  <1>0. TypeOK
    BY DEF IInv
  <1>1. op \in Authorized
    <2>1. Len(ops[op]) \in Nat /\ Len(ops[op]) >= 1
      BY <1>0, LedgerTypes
    <2>2. ops[op][1].event = "planned"
      BY <2>1 DEF Formed, WellLogged, IInv
    <2>3. Len(ops[op]) # 1
      BY <2>2 DEF Last, Unfinished
    <2>4. Len(ops[op]) > 1
      <3>1. \A n \in Nat : n >= 1 /\ n # 1 => n > 1
        OBVIOUS
      <3> QED BY <2>1, <2>3, <3>1
    <2> QED BY <2>4 DEF Authorized
  <1>2. Authorized' = Authorized
    BY Quiet DEF ledgers
  <1>3. Looked'
    BY <1>1, <1>2 DEF Looked, Executing
  <1>4. Allowed'
    BY DEF Allowed
  <1> QED BY <1>0, <1>3, <1>4, ProcessInv DEF TypeOK, Points

LEMMA NextCallInv ==
    ASSUME IInv, NextCall
    PROVE  IInv'
  <1> USE DEF NextCall
  <1>0. TypeOK /\ pc = "counted" /\ pc' = "run"
    BY DEF IInv
  <1>1. /\ Authorized' = Authorized
        /\ \A m \in Mandates : CallsReserved(m)' = CallsReserved(m)
    BY Quiet DEF ledgers
  <1>2. Looked'
    BY <1>0, <1>1 DEF Looked, Executing, IInv
  <1>3. Allowed'
    BY <1>0, <1>1 DEF Allowed, Executing, IInv
  <1> QED BY <1>0, <1>2, <1>3, ProcessInv DEF TypeOK, Points

LEMMA DrivePlanInv ==
    ASSUME IInv, DrivePlan
    PROVE  IInv'
  <1>0. TypeOK /\ pc = "drive" /\ driver \in Mandates /\ remaining \in Nat /\ lane \in Lanes
    BY DEF DrivePlan, IInv, TypeOK, Looked
  <1>1. PICK m \in Mandates : m = driver
    BY <1>0
  <1>2. Money(Terms[m]) /\ Terms[m].ceiling \in Limits /\ m \in Labels
    BY DEF Limits, Labels
  <1>3. PICK op : op = Plan(lane, remaining, Terms[m], m)
    OBVIOUS
  <1>4. /\ Affordable(op)
        /\ IF op \in Planned THEN UNCHANGED ops ELSE LogPlan(op)
        /\ pc' = "planned" /\ cur' = op
        /\ UNCHANGED <<mandate, asked, attempts, by, driver, lane, remaining, crashes>>
    BY <1>1, <1>3 DEF DrivePlan
  <1>5. op \in Drains /\ WellPlanned(op) /\ Cardinality(op.calls) <= remaining
    BY <1>0, <1>2, <1>3, <1>4, PlanTypes
  <1>6. /\ Planned' = Planned \union {op} /\ Authorized' = Authorized
        /\ IsFiniteSet(Planned')
        /\ ops' \in [Planned' -> Seq(LogRows) \ {<<>>}]
        /\ Formed' /\ OneCeiling' /\ CapHolds'
        /\ \A k \in Mandates : CallsReserved(k)' = CallsReserved(k)
    <2>1. CASE op \in Planned
      <3>1. UNCHANGED <<ops, by>>
        BY <1>4, <2>1
      <3>2. /\ Planned' = Planned /\ Authorized' = Authorized
            /\ Formed' /\ OneCeiling' /\ CapHolds'
            /\ \A k \in Mandates : CallsReserved(k)' = CallsReserved(k)
        BY <3>1, Quiet
      <3> QED BY <1>0, <2>1, <3>1, <3>2 DEF TypeOK
    <2>2. CASE op \notin Planned
      BY <1>4, <1>5, <2>2, PlanLogged
    <2> QED BY <2>1, <2>2
  <1>7. TypeOK'
    BY <1>0, <1>4, <1>5, <1>6 DEF TypeOK, Points
  <1>8. Looked'
    BY <1>0, <1>4, <1>6 DEF Looked, Executing
  <1>9. Allowed'
    <2>1. CallsReserved(m) + remaining <= Terms[m].cap
      BY <1>0, <1>1 DEF Allowed, IInv
    <2>2. driver' = m /\ remaining' = remaining /\ cur' = op /\ pc' = "planned"
      BY <1>1, <1>4
    <2> QED BY <1>5, <1>6, <2>1, <2>2 DEF Allowed, Executing
  <1>10. NoAnswerBoughtTwice'
    BY <1>4 DEF NoAnswerBoughtTwice, IInv
  <1> QED BY <1>6, <1>7, <1>8, <1>9, <1>10 DEF IInv

LEMMA DriveAuthorizeInv ==
    ASSUME IInv, DriveAuthorize
    PROVE  IInv'
  <1>0. TypeOK /\ pc = "planned" /\ driver \in Mandates /\ cur \in Planned /\ remaining \in Nat
    BY DEF DriveAuthorize, IInv, TypeOK, Looked
  <1>1. PICK m \in Mandates, op \in Planned : m = driver /\ op = cur
    BY <1>0
  <1>2. /\ IF Last(op) = "planned" THEN Fits(op) /\ LogAuthorized(op, m) ELSE UNCHANGED <<ops, by>>
        /\ pc' = "enter" /\ cur' = op /\ driver' = m /\ remaining' = remaining
        /\ UNCHANGED <<mandate, asked, attempts, driver, lane, remaining, cur, crashes>>
    BY <1>1 DEF DriveAuthorize
  <1>3. /\ CallsReserved(m) + remaining <= Terms[m].cap
        /\ Cardinality(op.calls) <= remaining /\ Cardinality(op.calls) \in Nat
    <2>1. IsFiniteSet(op.calls)
      BY <1>0, LedgerTypes
    <2> QED BY <1>0, <1>1, <2>1, FS_CardinalityType DEF Allowed, Executing, IInv
  <1>4. NoAnswerBoughtTwice'
    BY <1>2 DEF NoAnswerBoughtTwice, IInv
  <1>5. CASE Last(op) = "planned"
    <2>1. /\ Planned' = Planned /\ Authorized' = Authorized \union {op}
          /\ op \notin Authorized
          /\ ops' \in [Planned' -> Seq(LogRows) \ {<<>>}]
          /\ by' \in [Authorized' -> Mandates \union {Worker}]
          /\ Formed' /\ OneCeiling'
          /\ \A k \in Mandates :
                /\ CallsReserved(k) \in Nat
                /\ CallsReserved(k)' =
                     IF k = m THEN CallsReserved(k) + Cardinality(op.calls) ELSE CallsReserved(k)
      BY <1>2, <1>5, AuthorizationLogged
    <2>2. CapHolds'
      <3> SUFFICES ASSUME NEW k \in Mandates PROVE CallsReserved(k)' <= Terms[k].cap
        BY DEF CapHolds
      <3>1. CASE k = m
        <4>1. CallsReserved(m)' = CallsReserved(m) + Cardinality(op.calls) /\ CallsReserved(m) \in Nat
          BY <2>1
        <4> QED BY <1>0, <1>3, <3>1, <4>1
      <3>2. CASE k # m
        BY <2>1, <3>2 DEF CapHolds, IInv
      <3> QED BY <3>1, <3>2
    <2>3. TypeOK'
      BY <1>0, <1>2, <2>1 DEF TypeOK, Points
    <2>4. Looked'
      BY <1>2, <2>1 DEF Looked, Executing
    <2>5. Allowed'
      <3>1. CallsReserved(m)' + remaining <= Terms[m].cap + Cardinality(op.calls)
        <4>1. CallsReserved(m)' = CallsReserved(m) + Cardinality(op.calls) /\ CallsReserved(m) \in Nat
          BY <2>1
        <4> QED BY <1>0, <1>3, <4>1
      <3> QED BY <1>2, <1>3, <3>1 DEF Allowed, Executing
    <2> QED BY <1>4, <2>1, <2>2, <2>3, <2>4, <2>5 DEF IInv
  <1>6. CASE Last(op) # "planned"
    <2>0. UNCHANGED <<ops, by>>
      BY <1>2, <1>6
    <2>1. /\ Planned' = Planned /\ Authorized' = Authorized
          /\ Formed' /\ OneCeiling' /\ CapHolds'
          /\ \A k \in Mandates : CallsReserved(k)' = CallsReserved(k)
      BY <2>0, Quiet
    <2>2. op \in Authorized
      <3>1. Len(ops[op]) \in Nat /\ Len(ops[op]) >= 1
        BY <1>0, LedgerTypes
      <3>2. ops[op][1].event = "planned"
        BY <3>1 DEF Formed, WellLogged, IInv
      <3>3. Len(ops[op]) # 1
        BY <1>6, <3>2 DEF Last
      <3>4. Len(ops[op]) > 1
        <4>1. \A n \in Nat : n >= 1 /\ n # 1 => n > 1
          OBVIOUS
        <4> QED BY <3>1, <3>3, <4>1
      <3> QED BY <3>4 DEF Authorized
    <2>3. TypeOK'
      BY <1>0, <1>2, <2>0, <2>1 DEF TypeOK, Points
    <2>4. Looked'
      BY <1>2, <2>1, <2>2 DEF Looked, Executing
    <2>5. Allowed'
      <3>1. CallsReserved(m) \in Nat
        BY <1>0, ReservationsCount
      <3>2. CallsReserved(m)' + remaining <= Terms[m].cap + Cardinality(op.calls)
        BY <1>0, <1>3, <2>1, <3>1
      <3> QED BY <1>2, <1>3, <3>2 DEF Allowed, Executing
    <2> QED BY <1>4, <2>1, <2>3, <2>4, <2>5 DEF IInv
  <1> QED BY <1>5, <1>6

-----------------------------------------------------------------------------
(***************************************************************************)
(* The rows of a drain that is executed.                                   *)
(***************************************************************************)
LEMMA RowAdded ==
    ASSUME TypeOK, NEW op \in Planned, NEW row \in LogRows, Log(op, row)
    PROVE  Rows(op)' = Rows(op) \union {row}
  <1>1. /\ Len(ops'[op]) = Len(ops[op]) + 1
        /\ ops'[op][Len(ops[op]) + 1] = row
        /\ \A i \in 1..Len(ops[op]) : ops'[op][i] = ops[op][i]
        /\ Len(ops[op]) \in Nat
    BY Appended, LedgerTypes
  <1>2. \A i \in 1..Len(ops'[op]) : i \in 1..Len(ops[op]) \/ i = Len(ops[op]) + 1
    BY <1>1
  <1>3. \A i \in 1..Len(ops[op]) : i \in 1..Len(ops'[op])
    BY <1>1
  <1>4. Len(ops[op]) + 1 \in 1..Len(ops'[op])
    BY <1>1
  <1>5. ASSUME NEW r \in Rows(op)' PROVE r \in Rows(op) \union {row}
    <2>1. PICK i \in 1..Len(ops'[op]) : r = ops'[op][i]
      BY <1>5 DEF Rows
    <2> QED BY <1>1, <1>2, <2>1 DEF Rows
  <1>6. ASSUME NEW r \in Rows(op) PROVE r \in Rows(op)'
    <2>1. PICK i \in 1..Len(ops[op]) : r = ops[op][i]
      BY <1>6 DEF Rows
    <2> QED BY <1>1, <1>3, <2>1 DEF Rows
  <1>7. row \in Rows(op)'
    BY <1>1, <1>4 DEF Rows
  <1> QED BY <1>5, <1>6, <1>7

\* A row that counts no call: the same calls to do, the same overruns.
LEMMA RowBeside ==
    ASSUME TypeOK, NEW op \in Planned, NEW row \in LogRows, Log(op, row),
           row.event # "unit_completed"
    PROVE  Todo(op)' = Todo(op) /\ (OverrunCounted(op)' <=> OverrunCounted(op))
  <1>1. Rows(op)' = Rows(op) \union {row}
    BY RowAdded
  <1>2. Counted(op)' = Counted(op)
    BY <1>1 DEF Counted
  <1>3. Todo(op)' = Todo(op)
    BY <1>2 DEF Todo
  <1>4. OverrunCounted(op)' <=> OverrunCounted(op)
    BY <1>1 DEF OverrunCounted
  <1> QED BY <1>3, <1>4

\* The drain goes on with the next step of its own, having written a row or none.
LEMMA GoesOn ==
    ASSUME IInv, NEW op \in Authorized, cur = op, NEW point \in Executing, pc \in Executing,
           pc' = point, UNCHANGED <<mandate, asked, by, driver, lane, remaining, cur, crashes>>,
           attempts' \in [Calls -> Seq(Answers)], NoAnswerBoughtTwice',
           \/ UNCHANGED ops
           \/ \E row \in LogRows :
                /\ Log(op, row)
                /\ row.event \notin {"planned", "authorized"}
                /\ row.event = "call_started" => row.call \in op.calls
                /\ OverrunCounted(op) => row.event = "failed",
           point = "call" => \A c \in Todo(op)' : attempts'[c] = <<>>,
           point \in {"call", "answered"} => ~OverrunCounted(op)'
    PROVE  IInv'
  <1>0. TypeOK
    BY DEF IInv
  <1>1. /\ Planned' = Planned /\ Authorized' = Authorized
        /\ ops' \in [Planned' -> Seq(LogRows) \ {<<>>}]
        /\ Formed' /\ OneCeiling' /\ CapHolds'
        /\ \A m \in Mandates : CallsReserved(m)' = CallsReserved(m)
    <2>1. CASE UNCHANGED ops
      <3>1. /\ Planned' = Planned /\ Authorized' = Authorized
            /\ Formed' /\ OneCeiling' /\ CapHolds'
            /\ \A m \in Mandates : CallsReserved(m)' = CallsReserved(m)
        BY <2>1, Quiet
      <3> QED BY <1>0, <2>1, <3>1 DEF TypeOK
    <2>2. ASSUME NEW row \in LogRows, Log(op, row),
                 row.event \notin {"planned", "authorized"},
                 row.event = "call_started" => row.call \in op.calls,
                 OverrunCounted(op) => row.event = "failed"
          PROVE  /\ Planned' = Planned /\ Authorized' = Authorized
                 /\ ops' \in [Planned' -> Seq(LogRows) \ {<<>>}]
                 /\ Formed' /\ OneCeiling' /\ CapHolds'
                 /\ \A m \in Mandates : CallsReserved(m)' = CallsReserved(m)
      BY <2>2, Logged
    <2> QED BY <2>1, <2>2
  <1>2. TypeOK'
    BY <1>0, <1>1 DEF TypeOK, Executing, Points
  <1>3. Looked'
    BY <1>1 DEF Looked, Executing
  <1>4. Allowed'
    BY <1>1 DEF Allowed, Executing, IInv
  <1> QED BY <1>1, <1>2, <1>3, <1>4 DEF IInv

\* The drain's execution ends: with a row or without, its process lets go or goes to the next lane.
LEMMA Ends ==
    ASSUME IInv, NEW op \in Authorized, cur = op,
           UNCHANGED <<mandate, asked, attempts, by, crashes>>,
           \/ UNCHANGED ops
           \/ \E row \in LogRows :
                /\ Log(op, row)
                /\ row.event \notin {"planned", "authorized", "call_started"}
                /\ OverrunCounted(op) => row.event = "failed",
           \/ EndPass
           \/ /\ driver \in Mandates
              /\ pc \in Executing
              /\ NextLane(remaining - Cardinality(op.calls))
    PROVE  IInv'
  <1>0. TypeOK
    BY DEF IInv
  <1>1. /\ Planned' = Planned /\ Authorized' = Authorized
        /\ ops' \in [Planned' -> Seq(LogRows) \ {<<>>}]
        /\ Formed' /\ OneCeiling' /\ CapHolds'
        /\ \A m \in Mandates : CallsReserved(m)' = CallsReserved(m)
    <2>1. CASE UNCHANGED ops
      <3>1. /\ Planned' = Planned /\ Authorized' = Authorized
            /\ Formed' /\ OneCeiling' /\ CapHolds'
            /\ \A m \in Mandates : CallsReserved(m)' = CallsReserved(m)
        BY <2>1, Quiet
      <3> QED BY <1>0, <2>1, <3>1 DEF TypeOK
    <2>2. ASSUME NEW row \in LogRows, Log(op, row),
                 row.event \notin {"planned", "authorized", "call_started"},
                 OverrunCounted(op) => row.event = "failed"
          PROVE  /\ Planned' = Planned /\ Authorized' = Authorized
                 /\ ops' \in [Planned' -> Seq(LogRows) \ {<<>>}]
                 /\ Formed' /\ OneCeiling' /\ CapHolds'
                 /\ \A m \in Mandates : CallsReserved(m)' = CallsReserved(m)
      BY <2>2, Logged
    <2> QED BY <2>1, <2>2
  <1>2. /\ Looked' /\ Allowed'
        /\ driver' \in Mandates \union {Worker} /\ pc' \in Points /\ lane' \in Lanes
        /\ remaining' \in Nat /\ cur' = NoOp
    <2>1. CASE EndPass
      BY <2>1, Ended DEF EndPass, Points, Lanes
    <2>2. CASE driver \in Mandates /\ pc \in Executing /\ NextLane(remaining - Cardinality(op.calls))
      <3>1. IsFiniteSet(op.calls)
        BY <1>0, LedgerTypes
      <3>2. Cardinality(op.calls) \in Nat /\ remaining \in Nat
        BY <1>0, <3>1, FS_CardinalityType DEF TypeOK
      <3>3. \A m \in Mandates : driver = m =>
                /\ Cardinality(op.calls) <= remaining
                /\ CallsReserved(m) + remaining <= Terms[m].cap + Cardinality(op.calls)
        BY <2>2 DEF Allowed, IInv
      <3>4. \A m \in Mandates : CallsReserved(m) \in Nat
        BY <1>0, ReservationsCount
      <3>5. remaining - Cardinality(op.calls) \in Nat
        BY <2>2, <3>2, <3>3
      <3>6. \A m \in Mandates : driver = m =>
                CallsReserved(m)' + (remaining - Cardinality(op.calls)) <= Terms[m].cap
        BY <1>1, <3>2, <3>3, <3>4
      <3> QED BY <2>2, <3>5, <3>6, NextLaneInv
    <2> QED BY <2>1, <2>2
  <1>3. TypeOK'
    BY <1>0, <1>1, <1>2 DEF TypeOK
  <1>4. NoAnswerBoughtTwice'
    BY DEF NoAnswerBoughtTwice, IInv
  <1> QED BY <1>1, <1>2, <1>3, <1>4 DEF IInv

LEMMA ExecuteInv == IInv /\ Execute => IInv'
  <1> SUFFICES ASSUME IInv, Execute PROVE IInv'
    OBVIOUS
  <1>0. TypeOK /\ pc \in Executing
    BY DEF IInv, Execute, Executing, Refuse, Enter, RefuseOverrun, RefuseUnanswered, StartCall, Raise,
           Answer, CountUnit, StopOverrun, NextCall, Complete
  <1>1. PICK op \in Authorized : cur = op
    BY <1>0 DEF Looked, IInv
  <1>2. /\ op \in Planned /\ op \in Drains /\ op.calls \in SUBSET Calls
        /\ op.cents \in Nat /\ Numbered(op.calls)
    BY <1>0, LedgerTypes DEF Formed, WellPlanned, IInv
  <1>3. Todo(op) \in SUBSET Calls /\ Todo(op) \subseteq op.calls
    BY <1>2 DEF Todo, First
  <1>4. NoAnswerBoughtTwice /\ attempts \in [Calls -> Seq(Answers)]
    BY DEF IInv, TypeOK
  <1>5. \A ev \in Events : Row(ev, NoCall, 0) \in LogRows /\ Row(ev, NoCall, 0).event = ev
    BY DEF Row, LogRows
  <1>6. ASSUME LogPlain(cur, "failed"), EndPass, UNCHANGED <<mandate, asked, attempts, by, crashes>>
        PROVE  IInv'
    <2>1. Row("failed", NoCall, 0) \in LogRows /\ Row("failed", NoCall, 0).event = "failed"
      BY <1>5 DEF Events
    <2>2. Log(op, Row("failed", NoCall, 0))
      BY <1>1, <1>6 DEF LogPlain
    <2> QED BY <1>1, <1>6, <2>1, <2>2, Ends
  <1>7. CASE Refuse
    <2>1. EndPass /\ UNCHANGED <<mandate, asked, attempts, by, crashes>>
      BY <1>7 DEF Refuse
    <2>2. CASE driver = Worker
      BY <1>6, <1>7, <2>2 DEF Refuse
    <2>3. CASE driver # Worker
      <3>1. UNCHANGED ops
        BY <1>7, <2>3 DEF Refuse
      <3> QED BY <1>1, <2>1, <3>1, Ends
    <2> QED BY <2>2, <2>3
  <1>8. CASE RefuseOverrun \/ RefuseUnanswered \/ Raise \/ StopOverrun
    BY <1>6, <1>8 DEF RefuseOverrun, RefuseUnanswered, Raise, StopOverrun, Fail
  <1>9. CASE Enter
    <2>1. /\ pc' = "run"
          /\ UNCHANGED <<mandate, asked, attempts, by, driver, lane, remaining, cur, crashes>>
      BY <1>9 DEF Enter
    <2>2. NoAnswerBoughtTwice' /\ attempts' \in [Calls -> Seq(Answers)]
      BY <1>4, <2>1 DEF NoAnswerBoughtTwice
    <2>3. CASE Last(op) = "authorized"
      <3>1. Log(op, Row("started", NoCall, 0))
        BY <1>1, <1>9, <2>3 DEF Enter, LogPlain
      <3>2. ~OverrunCounted(op)
        <4>1. Len(ops[op]) \in Nat /\ Len(ops[op]) >= 1
          BY <1>0, <1>2, LedgerTypes
        <4>2. \A i \in 1..Len(ops[op]) : /\ ops[op][i].event = "planned" <=> i = 1
                                         /\ ops[op][i].event = "authorized" <=> i = 2
          BY <1>2 DEF Formed, WellLogged, IInv
        <4>3. Len(ops[op]) = 2
          <5>1. Len(ops[op]) \in 1..Len(ops[op])
            BY <4>1
          <5> QED BY <2>3, <4>2, <5>1 DEF Last
        <4>4. \A i \in 1..Len(ops[op]) : ops[op][i].event # "unit_completed"
          BY <4>2, <4>3
        <4> QED BY <4>4 DEF OverrunCounted, Rows
      <3>3. Row("started", NoCall, 0) \in LogRows /\ Row("started", NoCall, 0).event = "started"
        BY <1>5 DEF Events
      <3> QED BY <1>0, <1>1, <2>1, <2>2, <3>1, <3>2, <3>3, GoesOn DEF Executing
    <2>4. CASE Last(op) # "authorized"
      <3>1. UNCHANGED ops
        BY <1>1, <1>9, <2>4 DEF Enter
      <3> QED BY <1>0, <1>1, <2>1, <2>2, <3>1, GoesOn DEF Executing
    <2> QED BY <2>3, <2>4
  <1>10. CASE StartCall
    <2>1. PICK c \in Todo(op) :
             /\ attempts[c] = <<>>
             /\ IF Paid(op) THEN Log(op, Row("call_started", c, op.cents)) ELSE UNCHANGED ops
      BY <1>1, <1>10 DEF StartCall
    <2>2. /\ pc' = "call" /\ ~OverrunCounted(op)
          /\ UNCHANGED <<mandate, asked, attempts, by, driver, lane, remaining, cur, crashes>>
      BY <1>1, <1>10 DEF StartCall
    <2>3. NoAnswerBoughtTwice' /\ attempts' \in [Calls -> Seq(Answers)]
      BY <1>4, <2>2 DEF NoAnswerBoughtTwice
    <2>4. \A d \in Todo(op) : attempts'[d] = <<>>
      <3>1. op.calls \ Counted(op) \in SUBSET Calls /\ Numbered(op.calls \ Counted(op))
        BY <1>2 DEF Numbered
      <3>2. \A d \in Todo(op) : d = c
        BY <3>1, FirstIsOne DEF Todo
      <3> QED BY <2>1, <2>2, <3>2
    <2>5. CASE Paid(op)
      <3> DEFINE row == Row("call_started", c, op.cents)
      <3>1. row \in LogRows /\ row.event = "call_started" /\ row.call = c
        BY <1>2, <1>3 DEF Row, LogRows, Events
      <3>2. Log(op, row)
        BY <2>1, <2>5
      <3> HIDE DEF row
      <3>3. Todo(op)' = Todo(op) /\ (OverrunCounted(op)' <=> OverrunCounted(op))
        BY <1>0, <1>2, <3>1, <3>2, RowBeside
      <3>4. c \in op.calls
        BY <1>3
      <3> QED BY <1>0, <1>1, <2>2, <2>3, <2>4, <3>1, <3>2, <3>3, <3>4, GoesOn DEF Executing
    <2>6. CASE ~Paid(op)
      <3>1. UNCHANGED ops
        BY <2>1, <2>6
      <3>2. Todo(op)' = Todo(op) /\ (OverrunCounted(op)' <=> OverrunCounted(op))
        BY <3>1 DEF Todo, Counted, OverrunCounted, Rows
      <3> QED BY <1>0, <1>1, <2>2, <2>3, <2>4, <3>1, <3>2, GoesOn DEF Executing
    <2> QED BY <2>5, <2>6
  <1>11. ASSUME NEW cost \in Costs \union {Unknown}, Answer(cost) PROVE IInv'
    <2>1. PICK c \in Todo(op) : Record(c, op, cost)
      BY <1>1, <1>11 DEF Answer
    <2>2. /\ pc = "call" /\ pc' = "answered"
          /\ UNCHANGED <<mandate, asked, ops, by, driver, lane, remaining, cur, crashes>>
      BY <1>11 DEF Answer
    <2>3. attempts[c] = <<>> /\ ~OverrunCounted(op)
      BY <1>1, <2>2 DEF Looked, IInv
    <2>4. attempts' \in [Calls -> Seq(Answers)] /\ NoAnswerBoughtTwice'
      BY <1>2, <1>3, <2>1, <2>3, Recorded
    <2>5. ~OverrunCounted(op)'
      BY <2>2, <2>3 DEF OverrunCounted, Rows
    <2> QED BY <1>0, <1>1, <2>2, <2>4, <2>5, GoesOn DEF Executing
  <1>12. CASE CountUnit
    <2>1. PICK c \in Todo(op) :
             /\ attempts[c] # <<>>
             /\ Log(op, Row("unit_completed", c, attempts[c][Len(attempts[c])].cost))
      BY <1>1, <1>12 DEF CountUnit
    <2>2. /\ pc' = "counted"
          /\ UNCHANGED <<mandate, asked, attempts, by, driver, lane, remaining, cur, crashes>>
      BY <1>12 DEF CountUnit
    <2>3. ~OverrunCounted(op)
      BY <1>1, <1>12 DEF CountUnit, Looked, IInv
    <2>4. NoAnswerBoughtTwice' /\ attempts' \in [Calls -> Seq(Answers)]
      BY <1>4, <2>2 DEF NoAnswerBoughtTwice
    <2>5. attempts[c][Len(attempts[c])].cost \in Nat \union {Unknown}
      <3>1. attempts[c] \in Seq(Answers) /\ attempts[c] # <<>>
        BY <1>3, <1>4, <2>1
      <3>2. attempts[c][Len(attempts[c])] \in Answers
        BY <3>1
      <3> QED BY <3>2 DEF Answers
    <2> DEFINE row == Row("unit_completed", c, attempts[c][Len(attempts[c])].cost)
    <2>6. row \in LogRows /\ row.event = "unit_completed"
      BY <1>3, <2>5 DEF Row, LogRows, Events
    <2>7. Log(op, row)
      BY <2>1
    <2> HIDE DEF row
    <2> QED BY <1>0, <1>1, <2>2, <2>3, <2>4, <2>6, <2>7, GoesOn DEF Executing
  <1>13. CASE Complete
    <2>1. Log(op, Row("completed", NoCall, 0)) /\ ~OverrunCounted(op)
      BY <1>1, <1>13 DEF Complete, LogPlain
    <2>2. Row("completed", NoCall, 0) \in LogRows /\ Row("completed", NoCall, 0).event = "completed"
      BY <1>5 DEF Events
    <2>3. /\ UNCHANGED <<mandate, asked, attempts, by, crashes>>
          /\ IF driver = Worker THEN EndPass ELSE NextLane(remaining - Cardinality(op.calls))
      BY <1>1, <1>13 DEF Complete
    <2>4. driver # Worker => driver \in Mandates
      BY <1>0 DEF TypeOK
    <2> QED BY <1>0, <1>1, <2>1, <2>2, <2>3, <2>4, Ends
  <1>14. CASE NextCall
    BY <1>14, NextCallInv
  <1> QED BY <1>7, <1>8, <1>9, <1>10, <1>11, <1>12, <1>13, <1>14 DEF Execute

-----------------------------------------------------------------------------
(***************************************************************************)
(* The theorems.                                                           *)
(***************************************************************************)
LEMMA InitInv == Init => IInv
  <1> SUFFICES ASSUME Init PROVE IInv
    OBVIOUS
  <1>1. Planned = {} /\ Authorized = {}
    BY DEF Init, Planned, Authorized
  <1>2. TypeOK
    <2>1. IsFiniteSet({})
      BY FS_EmptySet
    <2>2. ops = [o \in Planned |-> ops[o]] /\ by = [o \in Authorized |-> by[o]]
      BY <1>1 DEF Init
    <2> QED BY <1>1, <2>1, <2>2 DEF Init, TypeOK, Lanes, Points
  <1>3. Formed /\ Looked /\ Allowed /\ OneCeiling /\ NoAnswerBoughtTwice
    BY <1>1 DEF Init, Formed, Looked, Allowed, OneCeiling, NoAnswerBoughtTwice, Executing
  <1>4. CapHolds
    <2> SUFFICES ASSUME NEW m \in Mandates PROVE CallsReserved(m) <= Terms[m].cap
      BY DEF CapHolds
    <2>1. UNION {{o} \X o.calls : o \in UnderMandate(m)} = {}
      BY <1>1 DEF UnderMandate
    <2>2. CallsReserved(m) = 0
      BY <2>1, FS_EmptySet DEF CallsReserved
    <2> QED BY <2>2
  <1> QED BY <1>2, <1>3, <1>4 DEF IInv

LEMMA NextInv == IInv /\ [Next]_vars => IInv'
  <1> SUFFICES ASSUME IInv, [Next]_vars PROVE IInv'
    OBVIOUS
  <1>0. TypeOK
    BY DEF IInv
  <1>1. CASE UNCHANGED vars
    BY <1>0, <1>1, Elsewhere DEF vars, TypeOK
  <1>2. CASE Person
    BY <1>2, PersonInv
  <1>3. ASSUME NEW m \in Mandates, BeginPass(m) PROVE IInv'
    BY <1>3, BeginPassInv
  <1>4. CASE SkipLane \/ DrivePlan \/ DriveAuthorize
    BY <1>4, SkipLaneInv, DrivePlanInv, DriveAuthorizeInv
  <1>5. CASE AbandonPass
    BY <1>0, <1>5, EndedInv DEF AbandonPass, TypeOK
  <1>6. ASSUME NEW op \in Planned, WorkerTake(op) PROVE IInv'
    BY <1>6, WorkerTakeInv
  <1>7. CASE Execute
    BY <1>7, ExecuteInv
  <1>8. CASE Crash
    <2>1. crashes' \in 0..MaxCrashes
      BY <1>0, <1>8 DEF Crash, TypeOK
    <2> QED BY <1>8, <2>1, EndedInv DEF Crash
  <1> QED BY <1>1, <1>2, <1>3, <1>4, <1>5, <1>6, <1>7, <1>8 DEF Next

LEMMA Invariant == Spec => []IInv
  BY InitInv, NextInv, PTL DEF Spec

\* The state is what the ledgers, the lock and a process can hold.
THEOREM TypeCorrect == Spec => []TypeOK
  <1>1. IInv => TypeOK
    BY DEF IInv
  <1> QED BY <1>1, Invariant, PTL

\* Calls reserved under a mandate never pass its lifetime cap, whoever dies between two rows.
THEOREM CapIsKept == Spec => []CapHolds
  <1>1. IInv => CapHolds
    BY DEF IInv
  <1> QED BY <1>1, Invariant, PTL

\* No drain buys an answer that the queue already holds.
THEOREM AnswersAreBoughtOnce == Spec => []NoAnswerBoughtTwice
  <1>1. IInv => NoAnswerBoughtTwice
    BY DEF IInv
  <1> QED BY <1>1, Invariant, PTL

\* After an answer that hid its cost, or cost more than its reservation, a drain has no row but
\* its failure: no call, no other answer and no completion, however often it is taken up again.
OverrunStops ==
    \A op \in Planned : \A i, j \in 1..Len(ops[op]) :
        (i < j /\ ops[op][i].event = "unit_completed" /\ Overrun(op, ops[op][i].cost))
            => ops[op][j].event = "failed"

THEOREM NothingAfterAnOverrun == Spec => []OverrunStops
  <1>1. IInv => OverrunStops
    BY DEF IInv, Formed, WellLogged, OverrunStops
  <1> QED BY <1>1, Invariant, PTL

-----------------------------------------------------------------------------
(***************************************************************************)
(* Paid drains implement their budgets' allowance.                         *)
(***************************************************************************)
\* The calls, the reservations and the ceilings of every budget are the same.
Stutter ==
    UNCHANGED <<[b \in Budgets |-> CeilingOf(b)], [b \in Budgets |-> ReservedIn(Authorized, b)],
                [b \in Budgets |-> CommittedIn(b)]>>

LEMMA SameBooks ==
    ASSUME \A b \in Budgets : PlansOf(b)' = PlansOf(b),
           \A op \in Authorized : Started(op)' = Started(op),
           \A b \in Budgets : ReservedIn(Authorized, b)' = ReservedIn(Authorized, b)
    PROVE  Stutter
  <1>1. \A b \in Budgets : CeilingOf(b)' = CeilingOf(b)
    BY DEF CeilingOf
  <1>2. ASSUME NEW b \in Budgets PROVE CommittedIn(b)' = CommittedIn(b)
    <2>1. \A op \in PlansOf(b) : Cents(op, Started(op))' = Cents(op, Started(op))
      BY DEF Cents, PlansOf
    <2>2. {Cents(op, Started(op)) : op \in PlansOf(b)}' = {Cents(op, Started(op)) : op \in PlansOf(b)}
      BY <2>1
    <2> QED BY <2>2 DEF CommittedIn
  <1> QED BY <1>1, <1>2 DEF Stutter

\* Cents are counted once for each call of each drain.
LEMMA CentsCount ==
    ASSUME NEW op, op.cents \in Nat, NEW calls, IsFiniteSet(calls)
    PROVE  IsFiniteSet(Cents(op, calls)) /\ Cardinality(Cents(op, calls)) = op.cents * Cardinality(calls)
  <1>1. IsFiniteSet(1..op.cents) /\ Cardinality(1..op.cents) = op.cents
    BY FS_Interval
  <1>2. IsFiniteSet(calls \X (1..op.cents))
    BY <1>1, FS_Product
  <1>3. Cardinality(calls \X (1..op.cents)) = Cardinality(calls) * op.cents
    BY <1>1, FS_Product
  <1>4. Cardinality(calls) \in Nat
    BY FS_CardinalityType
  <1>5. /\ IsFiniteSet({op} \X (calls \X (1..op.cents)))
        /\ Cardinality({op} \X (calls \X (1..op.cents))) = Cardinality(calls \X (1..op.cents))
    BY <1>2, Tagged
  <1>6. Cardinality(calls) * op.cents = op.cents * Cardinality(calls)
    BY <1>4
  <1> QED BY <1>3, <1>5, <1>6 DEF Cents

LEMMA ReservedFinite ==
    ASSUME TypeOK, NEW b
    PROVE  IsFiniteSet(UNION {Cents(o, o.calls) : o \in {x \in Authorized : x.budget = b}})
  <1> DEFINE plans == {x \in Authorized : x.budget = b}
             sets == {Cents(o, o.calls) : o \in plans}
  <1>1. IsFiniteSet(plans)
    BY LedgerTypes, FS_Subset DEF TypeOK
  <1>2. \A o \in plans : IsFiniteSet(Cents(o, o.calls))
    BY LedgerTypes, CentsCount
  <1>3. IsFiniteSet(sets)
    <2> DEFINE f == [o \in plans |-> Cents(o, o.calls)]
    <2>1. f \in Surjection(plans, sets)
      BY DEF Surjection
    <2> QED BY <1>1, <2>1, FS_Surjection
  <1>4. \A T \in sets : IsFiniteSet(T)
    BY <1>2
  <1> QED BY <1>3, <1>4, FS_UNION

LEMMA SameAuthorized ==
    ASSUME Authorized' = Authorized, \A op \in Authorized : Started(op)' = Started(op)
    PROVE  Stutter
  <1>1. \A b \in Budgets : PlansOf(b)' = PlansOf(b)
    BY DEF PlansOf
  <1>2. \A b \in Budgets : ReservedIn(Authorized, b)' = ReservedIn(Authorized, b)
    BY DEF ReservedIn, Cents
  <1> QED BY <1>1, <1>2, SameBooks

LEMMA RowElsewhere ==
    ASSUME IInv, NEW op \in Authorized, NEW row \in LogRows, Log(op, row), row.event # "call_started"
    PROVE  Stutter
  <1>1. TypeOK /\ op \in Planned
    BY LedgerTypes DEF IInv
  <1>2. Authorized' = Authorized /\ \A o \in Planned : o # op => ops'[o] = ops[o]
    <2>1. Authorized' = Authorized \union {op} /\ \A o \in Planned : o # op => ops'[o] = ops[o]
      BY <1>1, Appended
    <2> QED BY <2>1
  <1>3. Started(op)' = Started(op)
    <2>1. Rows(op)' = Rows(op) \union {row}
      BY <1>1, RowAdded
    <2> QED BY <2>1 DEF Started
  <1>4. \A o \in Authorized : o # op => Started(o)' = Started(o)
    BY <1>1, <1>2, LedgerTypes DEF Started, Rows
  <1> QED BY <1>2, <1>3, <1>4, SameAuthorized

\* A plan sets money aside when it is authorized: all of it, under the ceiling it declares.
LEMMA AuthorizationReserves ==
    ASSUME IInv, NEW op \in Planned, Last(op) = "planned", Fits(op),
           NEW who \in Mandates \union {Worker}, LogAuthorized(op, who)
    PROVE  Stutter \/ (Promise!Reserve(op.budget) /\ op.budget \in Budgets)
  <1>0. TypeOK /\ op \in Drains /\ WellPlanned(op) /\ WellLogged(op) /\ IsFiniteSet(op.calls)
        /\ op.cents \in Nat /\ op.ceiling \in Nat
    BY LedgerTypes DEF IInv, Formed
  <1>1. /\ op \notin Authorized
        /\ Authorized' = Authorized \union {op}
        /\ \A o \in Planned : o # op => ops'[o] = ops[o]
        /\ WellLogged(op)' /\ OneCeiling'
    BY AuthorizationLogged DEF Formed
  <1>2. \A o \in Authorized : Started(o)' = Started(o)
    BY <1>0, <1>1, LedgerTypes DEF Started, Rows
  <1>3. Started(op)' = {}
    <2>1. Log(op, Row("authorized", NoCall, 0))
      BY DEF LogAuthorized, LogPlain
    <2>2. Row("authorized", NoCall, 0) \in LogRows /\ Row("authorized", NoCall, 0).event = "authorized"
      BY DEF Row, LogRows, Events
    <2>3. Rows(op)' = Rows(op) \union {Row("authorized", NoCall, 0)}
      BY <1>0, <2>1, <2>2, RowAdded
    <2>4. \A r \in Rows(op) : r.event = "planned"
      <3>1. Len(ops[op]) \in Nat /\ Len(ops[op]) >= 1
        BY <1>0, LedgerTypes
      <3>2. ~(Len(ops[op]) > 1)
        BY <1>1 DEF Authorized
      <3>3. \A i \in 1..Len(ops[op]) : i = 1
        BY <3>1, <3>2
      <3> QED BY <1>0, <3>3 DEF WellLogged, Rows
    <2> QED BY <2>2, <2>3, <2>4 DEF Started
  <1>4. CASE ~Paid(op)
    <2>1. \A b \in Budgets : b # op.budget
      BY <1>4 DEF Paid
    <2>2. \A b \in Budgets : PlansOf(b)' = PlansOf(b)
      BY <1>1, <2>1 DEF PlansOf
    <2>3. \A b \in Budgets : {o \in Authorized : o.budget = b}' = {o \in Authorized : o.budget = b}
      BY <1>1, <2>1
    <2>4. \A b \in Budgets : ReservedIn(Authorized, b)' = ReservedIn(Authorized, b)
      BY <2>3 DEF ReservedIn, Cents
    <2>5. Stutter
      BY ONLY <1>2, <2>2, <2>4, SameBooks
    <2> QED BY <2>5
  <1>5. CASE Paid(op)
    <2> DEFINE b == op.budget
    <2>1. b \in Budgets
      BY <1>0, <1>5 DEF Paid, Drains
    <2>2. \A other \in Budgets : other # b => PlansOf(other)' = PlansOf(other)
      BY <1>1 DEF PlansOf
    <2>3. PlansOf(b)' = PlansOf(b) \union {op}
      BY <1>1 DEF PlansOf
    \* The ceiling.
    <2>4. CeilingOf(b) \in {0, op.ceiling} /\ CeilingOf(b)' = op.ceiling
      <3>1. \A o \in PlansOf(b) : o.ceiling = op.ceiling
        BY <1>5 DEF Fits, PlansOf
      <3>2. \A o \in PlansOf(b)' : o.ceiling = op.ceiling
        BY <2>3, <3>1
      <3>3. \A set : (\A o \in set : o.ceiling = op.ceiling)
                        => Declared(set) = IF set = {} THEN 0 ELSE op.ceiling
        BY DEF Declared
      <3>4. PlansOf(b)' # {}
        BY <2>3
      <3> QED BY <3>1, <3>2, <3>3, <3>4 DEF CeilingOf
    <2>5. \A other \in Budgets : other # b => CeilingOf(other)' = CeilingOf(other)
      BY <2>2 DEF CeilingOf
    \* What is reserved.
    <2>6. /\ ReservedIn(Authorized, b) \in Nat
          /\ ReservedIn(Authorized, b)' = ReservedIn(Authorized, b) + Reservation(op)
          /\ Reservation(op) \in Nat /\ Reservation(op) > 0
      <3> DEFINE old == UNION {Cents(o, o.calls) : o \in {x \in Authorized : x.budget = b}}
                 new == Cents(op, op.calls)
      <3>1. IsFiniteSet(old)
        BY <1>0, ReservedFinite
      <3>2. IsFiniteSet(new) /\ Cardinality(new) = Reservation(op)
        BY <1>0, CentsCount DEF Reservation
      <3>3. old \cap new = {}
        BY <1>1 DEF Cents
      <3>4. {o \in Authorized : o.budget = b}' = {o \in Authorized : o.budget = b} \union {op}
        BY <1>1
      <3>5. ReservedIn(Authorized, b)' = Cardinality(old \union new)
        <4>1. UNION {Cents(o, o.calls) : o \in {x \in Authorized : x.budget = b} \union {op}} = old \union new
          OBVIOUS
        <4> QED BY <3>4, <4>1 DEF ReservedIn, Cents
      <3>6. ReservedIn(Authorized, b) = Cardinality(old)
        BY DEF ReservedIn
      <3>7. /\ Cardinality(old \union new) = Cardinality(old) + Cardinality(new)
            /\ Cardinality(old) \in Nat /\ Cardinality(new) \in Nat
        BY <3>1, <3>2, <3>3, Disjoint
      <3>8. Reservation(op) > 0
        <4>1. Cardinality(op.calls) \in Nat /\ Cardinality(op.calls) # 0
          BY <1>0, FS_CardinalityType, FS_EmptySet DEF WellPlanned
        <4>2. op.cents > 0
          BY <1>0, <1>5 DEF WellPlanned
        <4>3. \A c, n \in Nat : c > 0 /\ n # 0 => c * n > 0
          OBVIOUS
        <4> QED BY <1>0, <4>1, <4>2, <4>3 DEF Reservation
      <3> QED BY ONLY <3>2, <3>5, <3>6, <3>7, <3>8
    <2>7. \A other \in Budgets : other # b => ReservedIn(Authorized, other)' = ReservedIn(Authorized, other)
      <3>1. \A other \in Budgets : other # b =>
               {o \in Authorized : o.budget = other}' = {o \in Authorized : o.budget = other}
        BY <1>1
      <3> QED BY <3>1 DEF ReservedIn, Cents
    \* What is committed.
    <2>8. \A other \in Budgets : CommittedIn(other)' = CommittedIn(other)
      <3> SUFFICES ASSUME NEW other \in Budgets PROVE CommittedIn(other)' = CommittedIn(other)
        OBVIOUS
      <3>1. \A o \in PlansOf(other) : Cents(o, Started(o))' = Cents(o, Started(o))
        BY <1>2 DEF Cents, PlansOf
      <3>2. Cents(op, Started(op))' = {}
        BY <1>3 DEF Cents
      <3>3. PlansOf(other)' = PlansOf(other) \/ PlansOf(other)' = PlansOf(other) \union {op}
        BY <2>2, <2>3
      <3>4. (UNION {Cents(o, Started(o)) : o \in PlansOf(other)})'
               = UNION {Cents(o, Started(o)) : o \in PlansOf(other)}
        BY <3>1, <3>2, <3>3
      <3> QED BY <3>4 DEF CommittedIn
    <2>9. ReservedIn(Authorized, b) + Reservation(op) <= op.ceiling
      BY <1>5 DEF Fits
    <2>10. op.ceiling \in Limits
      BY <1>0, <1>5 DEF WellPlanned
    <2>11. ReservedIn(Authorized, b)' \in 1..op.ceiling /\ ReservedIn(Authorized, b)' > ReservedIn(Authorized, b)
      BY <1>0, <2>6, <2>9
    <2>12. /\ [x \in Budgets |-> CeilingOf(x)]' = [[x \in Budgets |-> CeilingOf(x)] EXCEPT ![b] = op.ceiling]
           /\ [x \in Budgets |-> ReservedIn(Authorized, x)]'
                = [[x \in Budgets |-> ReservedIn(Authorized, x)] EXCEPT ![b] = ReservedIn(Authorized, b)']
           /\ [x \in Budgets |-> CommittedIn(x)]' = [x \in Budgets |-> CommittedIn(x)]
      BY <2>4, <2>5, <2>7, <2>8
    <2>13. Promise!Reserve(b)
      BY <2>1, <2>4, <2>10, <2>11, <2>12 DEF Promise!Reserve, Limits
    <2> QED BY <2>1, <2>13
  <1> QED BY <1>4, <1>5

\* A paid call is committed when it starts, out of what its drain reserved for it.
LEMMA StartCommits ==
    ASSUME IInv, NEW op \in Authorized, Paid(op), NEW c \in op.calls, c \notin Started(op),
           Log(op, Row("call_started", c, op.cents)), UNCHANGED by, ~OverrunCounted(op)
    PROVE  Promise!Commit(op.budget) /\ op.budget \in Budgets
  <1> DEFINE b == op.budget
             row == Row("call_started", c, op.cents)
  <1>0. /\ TypeOK /\ op \in Planned /\ op \in Drains /\ WellPlanned(op)
        /\ op.cents \in Nat /\ op.calls \in SUBSET Calls
    BY LedgerTypes DEF IInv, Formed
  <1>1. row \in LogRows /\ row.event = "call_started" /\ row.call = c
    BY <1>0 DEF Row, LogRows, Events
  <1>2. Authorized' = Authorized /\ Planned' = Planned /\ Formed'
    BY <1>1, Logged
  <1>3. Started(op)' = Started(op) \union {c}
    <2>1. Rows(op)' = Rows(op) \union {row}
      BY <1>0, <1>1, RowAdded
    <2> QED BY <1>1, <2>1 DEF Started
  <1>4. \A o \in Authorized : o # op => Started(o)' = Started(o)
    <2>1. \A o \in Planned : o # op => ops'[o] = ops[o]
      BY <1>0, <1>1, Appended
    <2> QED BY <1>0, <2>1, LedgerTypes DEF Started, Rows
  <1> HIDE DEF row
  <1>5. b \in Budgets /\ op.cents > 0
    BY <1>0 DEF Paid, Drains, WellPlanned
  <1>6. \A x \in Budgets : PlansOf(x)' = PlansOf(x)
    BY <1>2 DEF PlansOf
  <1>7. \A x \in Budgets : CeilingOf(x)' = CeilingOf(x)
    BY <1>6 DEF CeilingOf
  <1>8. \A x \in Budgets : ReservedIn(Authorized, x)' = ReservedIn(Authorized, x)
    BY <1>2 DEF ReservedIn, Cents
  <1>9. \A x \in Budgets : x # b => CommittedIn(x)' = CommittedIn(x)
    <2> SUFFICES ASSUME NEW x \in Budgets, x # b PROVE CommittedIn(x)' = CommittedIn(x)
      OBVIOUS
    <2>1. \A o \in PlansOf(x) : Cents(o, Started(o))' = Cents(o, Started(o))
      BY <1>4 DEF Cents, PlansOf
    <2>2. (UNION {Cents(o, Started(o)) : o \in PlansOf(x)})' = UNION {Cents(o, Started(o)) : o \in PlansOf(x)}
      BY <1>6, <2>1
    <2> QED BY <2>2 DEF CommittedIn
  \* What is committed grows by the price of one call, and stays inside what is reserved.
  <1> DEFINE reserved == UNION {Cents(o, o.calls) : o \in {x \in Authorized : x.budget = b}}
             old == UNION {Cents(o, Started(o)) : o \in PlansOf(b)}
             new == Cents(op, {c})
  <1>10. IsFiniteSet(reserved)
    BY <1>0, ReservedFinite
  <1>11. \A o \in Authorized : Started(o) \subseteq o.calls
    BY LedgerTypes DEF Formed, WellLogged, Started, Rows, IInv
  <1>12. old \subseteq reserved /\ new \subseteq reserved
    BY <1>11 DEF Cents, PlansOf
  <1>13. old \cap new = {}
    BY DEF Cents
  <1>14. IsFiniteSet(old)
    BY <1>10, <1>12, FS_Subset
  <1>15. IsFiniteSet(new) /\ Cardinality(new) = op.cents
    <2>1. IsFiniteSet({c}) /\ Cardinality({c}) = 1
      BY FS_Singleton
    <2>2. IsFiniteSet(new) /\ Cardinality(new) = op.cents * Cardinality({c})
      BY <1>0, <2>1, CentsCount
    <2> QED BY <1>0, <2>1, <2>2
  <1>16. (UNION {Cents(o, Started(o)) : o \in PlansOf(b)})' = old \union new
    <2>1. \A o \in PlansOf(b) : o # op => Cents(o, Started(o))' = Cents(o, Started(o))
      BY <1>4 DEF Cents, PlansOf
    <2>2. Cents(op, Started(op))' = Cents(op, Started(op)) \union new
      BY <1>3 DEF Cents
    <2>3. op \in PlansOf(b) /\ PlansOf(b)' = PlansOf(b)
      BY <1>5, <1>6 DEF PlansOf
    <2> HIDE DEF new
    <2> QED BY <2>1, <2>2, <2>3
  <1>17. /\ CommittedIn(b) = Cardinality(old) /\ CommittedIn(b)' = Cardinality(old \union new)
         /\ ReservedIn(Authorized, b) = Cardinality(reserved)
    BY <1>16 DEF CommittedIn, ReservedIn
  <1>18. /\ Cardinality(old \union new) = Cardinality(old) + Cardinality(new)
         /\ Cardinality(old) \in Nat
    BY <1>13, <1>14, <1>15, Disjoint
  <1>19. Cardinality(old \union new) <= Cardinality(reserved) /\ Cardinality(reserved) \in Nat
    <2>1. old \union new \subseteq reserved
      BY <1>12
    <2> QED BY <1>10, <2>1, FS_Subset, FS_CardinalityType
  <1> HIDE DEF old, new, reserved
  <1>20. CommittedIn(b)' \in 1..ReservedIn(Authorized, b) /\ CommittedIn(b)' > CommittedIn(b)
    BY <1>0, <1>5, <1>15, <1>17, <1>18, <1>19
  <1>21. /\ [x \in Budgets |-> CommittedIn(x)]'
              = [[x \in Budgets |-> CommittedIn(x)] EXCEPT ![b] = CommittedIn(b)']
         /\ [x \in Budgets |-> CeilingOf(x)]' = [x \in Budgets |-> CeilingOf(x)]
         /\ [x \in Budgets |-> ReservedIn(Authorized, x)]' = [x \in Budgets |-> ReservedIn(Authorized, x)]
    BY <1>7, <1>8, <1>9
  <1>22. Promise!Commit(b)
    BY <1>5, <1>20, <1>21 DEF Promise!Commit
  <1> QED BY <1>5, <1>22

LEMMA StepImplements ==
    ASSUME IInv, [Next]_vars
    PROVE  Promise!Next \/ Stutter
  <1>0. TypeOK
    BY DEF IInv
  <1>1. ASSUME UNCHANGED ops PROVE Stutter
    <2>1. Authorized' = Authorized /\ \A op \in Authorized : Started(op)' = Started(op)
      BY <1>1 DEF Authorized, Planned, Started, Rows
    <2> QED BY <2>1, SameAuthorized
  <1>2. ASSUME NEW op, op \notin Planned, LogPlan(op) PROVE Stutter
    <2>1. Planned' = Planned \union {op} /\ \A o \in Planned : ops'[o] = ops[o]
      BY <1>2 DEF LogPlan, Planned
    <2>2. ops'[op] = <<Row("planned", NoCall, 0)>>
      BY <1>2 DEF LogPlan, Planned
    <2>3. ~(Len(ops'[op]) > 1)
      BY <2>2
    <2>4. Authorized' = Authorized
      BY <2>1, <2>3 DEF Authorized
    <2>5. \A o \in Authorized : Started(o)' = Started(o)
      BY <1>0, <2>1, LedgerTypes DEF Started, Rows
    <2> QED BY <2>4, <2>5, SameAuthorized
  <1>3. ASSUME NEW op \in Planned, NEW who \in Mandates \union {Worker},
               Last(op) = "planned", Fits(op), LogAuthorized(op, who)
        PROVE  Promise!Next \/ Stutter
    BY <1>3, AuthorizationReserves DEF Promise!Next
  <1>4. CASE UNCHANGED vars
    BY <1>1, <1>4 DEF vars, ledgers
  <1>5. ASSUME NEW m \in Mandates, EnableMandate(m) \/ DisableMandate(m) \/ BeginPass(m) PROVE Stutter
    BY <1>1, <1>5 DEF EnableMandate, DisableMandate, BeginPass, ledgers
  <1>6. ASSUME NEW l \in Lanes, Build(l) PROVE Stutter
    BY <1>1, <1>6 DEF Build, ledgers
  <1>7. ASSUME NEW l \in Lanes, NEW offer \in Offers, PlanByPerson(l, offer) PROVE Stutter
    BY <1>2, <1>7 DEF PlanByPerson
  <1>8. ASSUME NEW op \in Planned, AuthorizeByPerson(op) PROVE Promise!Next \/ Stutter
    BY <1>3, <1>8 DEF AuthorizeByPerson
  <1>9. ASSUME NEW c \in Calls, NEW cost \in Costs \union {Unknown}, DrainByHand(c, cost) PROVE Stutter
    BY <1>1, <1>9 DEF DrainByHand
  <1>10. CASE SkipLane \/ AbandonPass \/ NextCall \/ Crash
    BY <1>1, <1>10 DEF SkipLane, AbandonPass, NextCall, Crash, ledgers
  <1>11. CASE DrivePlan
    BY <1>1, <1>2, <1>11 DEF DrivePlan
  <1>12. CASE DriveAuthorize
    <2>1. cur \in Planned /\ driver \in Mandates
      BY <1>12 DEF DriveAuthorize, Looked, IInv
    <2> QED BY <1>1, <1>3, <1>12, <2>1 DEF DriveAuthorize
  <1>13. ASSUME NEW op \in Planned, WorkerTake(op) PROVE Stutter
    BY <1>1, <1>13 DEF WorkerTake, ledgers
  <1>14. CASE Execute
    <2>1. pc \in Executing
      BY <1>14 DEF Execute, Executing, Refuse, Enter, RefuseOverrun, RefuseUnanswered, StartCall, Raise,
             Answer, CountUnit, StopOverrun, NextCall, Complete
    <2>2. PICK op \in Authorized : cur = op
      BY <2>1 DEF Looked, IInv
    <2>3. op \in Planned /\ op.cents \in Nat /\ op.calls \in SUBSET Calls
      BY <1>0, LedgerTypes
    <2>4. Todo(op) \subseteq op.calls
      BY DEF Todo, First
    <2>5. ASSUME NEW ev \in Events \ {"call_started"}, LogPlain(cur, ev) PROVE Stutter
      <3>1. Log(op, Row(ev, NoCall, 0)) /\ Row(ev, NoCall, 0) \in LogRows /\ Row(ev, NoCall, 0).event = ev
        BY <2>2, <2>5 DEF LogPlain, Row, LogRows
      <3> QED BY <2>5, <3>1, RowElsewhere
    <2>6. CASE Refuse \/ Enter \/ RefuseOverrun \/ RefuseUnanswered \/ Raise \/ StopOverrun \/ Complete
      BY <1>1, <2>5, <2>6 DEF Refuse, Enter, RefuseOverrun, RefuseUnanswered, Raise, StopOverrun, Fail,
                              Complete, Events
    <2>7. CASE StartCall
      <3>1. PICK c \in Todo(op) :
               /\ Paid(op) => c \notin Started(op)
               /\ IF Paid(op) THEN Log(op, Row("call_started", c, op.cents)) ELSE UNCHANGED ops
        BY <2>2, <2>7 DEF StartCall
      <3>2. UNCHANGED by /\ ~OverrunCounted(op)
        BY <2>2, <2>7 DEF StartCall
      <3>3. CASE Paid(op)
        <4>1. Promise!Commit(op.budget) /\ op.budget \in Budgets
          BY <2>4, <3>1, <3>2, <3>3, StartCommits
        <4> QED BY <4>1 DEF Promise!Next
      <3>4. CASE ~Paid(op)
        BY <1>1, <3>1, <3>4
      <3> QED BY <3>3, <3>4
    <2>8. ASSUME NEW cost \in Costs \union {Unknown}, Answer(cost) PROVE Stutter
      BY <1>1, <2>8 DEF Answer
    <2>9. CASE CountUnit
      <3>1. PICK c \in Todo(op) :
               /\ attempts[c] # <<>>
               /\ Log(op, Row("unit_completed", c, attempts[c][Len(attempts[c])].cost))
        BY <2>2, <2>9 DEF CountUnit
      <3>2. attempts[c] \in Seq(Answers) /\ c \in Calls
        BY <1>0, <2>3, <2>4 DEF TypeOK
      <3>3. attempts[c][Len(attempts[c])] \in Answers
        BY <3>1, <3>2
      <3>4. attempts[c][Len(attempts[c])].cost \in Nat \union {Unknown}
        BY <3>3 DEF Answers
      <3> DEFINE row == Row("unit_completed", c, attempts[c][Len(attempts[c])].cost)
      <3>5. row \in LogRows /\ row.event = "unit_completed"
        BY <3>2, <3>4 DEF Row, LogRows, Events
      <3>6. Log(op, row)
        BY <3>1
      <3> HIDE DEF row
      <3> QED BY <3>5, <3>6, RowElsewhere
    <2> QED BY <1>10, <1>14, <2>6, <2>7, <2>8, <2>9 DEF Execute
  <1> QED BY <1>4, <1>5, <1>6, <1>7, <1>8, <1>9, <1>10, <1>11, <1>12, <1>13, <1>14 DEF Next, Person

LEMMA InitImplements == Init => Promise!Init
  <1> SUFFICES ASSUME Init PROVE Promise!Init
    OBVIOUS
  <1>1. Authorized = {}
    BY DEF Init, Authorized, Planned
  <1>2. Cardinality({}) = 0
    BY FS_EmptySet
  <1>3. ASSUME NEW b \in Budgets
        PROVE  CeilingOf(b) = 0 /\ ReservedIn(Authorized, b) = 0 /\ CommittedIn(b) = 0
    <2>1. PlansOf(b) = {}
      BY <1>1 DEF PlansOf
    <2>2. /\ UNION {Cents(op, Started(op)) : op \in PlansOf(b)} = {}
          /\ UNION {Cents(op, op.calls) : op \in {o \in Authorized : o.budget = b}} = {}
      BY <1>1, <2>1
    <2> QED BY <1>2, <2>1, <2>2 DEF CeilingOf, Declared, ReservedIn, CommittedIn
  <1> QED BY <1>3 DEF Promise!Init

\* Paid drains keep their budgets' promise: one ceiling for a budget's life, reservations that only
\* grow and stay under it, and no call outside what was reserved for it.
THEOREM AllowanceIsImplemented == Spec => ImplementsAllowance
  <1>1. IInv /\ [Next]_vars
          => [Promise!Next]_<<[b \in Budgets |-> CeilingOf(b)], [b \in Budgets |-> ReservedIn(Authorized, b)],
                              [b \in Budgets |-> CommittedIn(b)]>>
    BY StepImplements DEF Stutter
  <1> QED BY <1>1, InitImplements, Invariant, PTL DEF Spec, Promise!Spec, ImplementsAllowance
=============================================================================
