--------------------------- MODULE ApprovalsProofs ---------------------------
(***************************************************************************)
(* Proofs about Approvals, for any people, discoveries, candidates, grants *)
(* and ceilings, and for every value of the bounds.                        *)
(*                                                                         *)
(* The argument: what was looked at before the first row of a piece of     *)
(* work still holds at every later one, because everybody else waits for   *)
(* the lock (Approved, Checked); an operation nobody has authorized hangs  *)
(* on no grant (Unattached), so authorizing adds to one grant and takes    *)
(* from none.                                                              *)
(***************************************************************************)
EXTENDS Approvals, FiniteSetTheorems, TLAPS

TypeOK ==
    /\ state \in [Ops -> {"none", "planned", "authorized", "completed", "failed"}]
    /\ via \in [Ops -> Grants \union {NoGrant}]
    /\ signed \in [Discoveries \union Schedules -> People \union {NoGrant}]
    /\ outcomes \in [Candidates -> Seq(Rows)]
    /\ \A c \in Candidates : Len(outcomes[c]) <= MaxRows
    /\ rested \in [Candidates -> BOOLEAN]
    /\ grant \in [Grants -> {"none", "planned", "authorized", "revoked"}]
    /\ window \in [Windows -> {"early", "open", "over"}]
    /\ work \in Approving \union Planning \union {NoWork}
    /\ crashes \in 0..MaxCrashes

\* Discoveries begin planned; what nobody authorized hangs on no grant, and policies approve
\* acquires only.
Unattached ==
    /\ \A d \in Discoveries : state[d] # "none"
    /\ \A op \in Ops : state[op] \in {"none", "planned"} => via[op] = NoGrant
    /\ \A op \in Discoveries : via[op] \notin Policies

\* Ceilings as an inductive step needs them: of finite sets.
Counted ==
    \A p \in Policies :
        /\ IsFiniteSet(Under(p))
        /\ Cardinality(Under(p)) <= MaxTotal[p]
        /\ \A c \in Candidates :
              Cardinality(UnderFor(p, c)) <= IF p \in Copies THEN 1 ELSE MaxEach[p]

\* Whoever approves a schedule finds its approved discoveries approved by himself.
Approved ==
    work \in Approving =>
        /\ grant[work.grant] = "planned"
        /\ \A d \in Entries[work.grant] :
              state[d] # "planned" => via[d] = work.grant /\ signed[d] = work.who

\* What a materialization looked at before it planned still holds.
Checked ==
    work \in Planning =>
        LET p == work.grant
            c == work.op.key
        IN  /\ Granted(p)
            /\ state[work.op] = "planned"
            /\ ~Active(p, c)
            /\ Cardinality(Under(p)) < MaxTotal[p]
            /\ Cardinality(UnderFor(p, c)) < IF p \in Copies THEN 1 ELSE MaxEach[p]

IInv == /\ TypeOK /\ Unattached /\ Counted /\ Approved /\ Checked
        /\ ScheduleIsWhole /\ OnePolicyAtATime

USE ApprovalNames, ApprovalPlans, ApprovalBounds

-----------------------------------------------------------------------------
(***************************************************************************)
(* Types.                                                                  *)
(***************************************************************************)
LEMMA PlanIsAcquire ==
    ASSUME TypeOK, NEW c \in Candidates, NEW terms \in Terms
    PROVE  Acquire(c, terms) \in Acquires /\ Acquire(c, terms).key = c
  <1>1. Len(outcomes[c]) \in 0..MaxRows
    BY DEF TypeOK
  <1> QED BY <1>1 DEF Acquire, Acquires

\* One more outcome row.
LEMMA RowAppended ==
    ASSUME TypeOK, NEW c \in Candidates, NEW row \in Rows, Len(outcomes[c]) < MaxRows,
           outcomes' = [outcomes EXCEPT ![c] = Append(@, row)]
    PROVE  /\ outcomes' \in [Candidates -> Seq(Rows)]
           /\ \A d \in Candidates : Len(outcomes'[d]) <= MaxRows
  <1>1. outcomes[c] \in Seq(Rows)
    BY DEF TypeOK
  <1>2. Append(outcomes[c], row) \in Seq(Rows) /\ Len(Append(outcomes[c], row)) <= MaxRows
    BY <1>1
  <1> QED BY <1>2 DEF TypeOK

LEMMA PersonTypes == TypeOK /\ Person => TypeOK'
  <1> SUFFICES ASSUME TypeOK, Person PROVE TypeOK'
    OBVIOUS
  <1> USE DEF TypeOK
  <1>1. ASSUME NEW d \in Discoveries, NEW who \in People, AuthorizeDiscovery(d, who) PROVE TypeOK'
    BY <1>1 DEF AuthorizeDiscovery, Authorize, Sign, Ops
  <1>2. ASSUME NEW op \in Acquires, AuthorizeAcquire(op) PROVE TypeOK'
    BY <1>2 DEF AuthorizeAcquire, Authorize, Ops
  <1>3. ASSUME NEW c \in Candidates, NEW terms \in Terms, PlanAcquire(c, terms) PROVE TypeOK'
    <2>1. Acquire(c, terms) \in Ops
      BY PlanIsAcquire DEF Ops
    <2> QED BY <1>3, <2>1 DEF PlanAcquire
  <1>4. ASSUME NEW g \in Grants, PlanGrant(g) \/ Revoke(g) PROVE TypeOK'
    BY <1>4 DEF PlanGrant, Revoke
  <1>5. ASSUME NEW p \in Policies, AuthorizePolicy(p) PROVE TypeOK'
    BY <1>5 DEF AuthorizePolicy, Grants
  <1>6. ASSUME NEW s \in Schedules, NEW who \in People, BeginSchedule(s, who) PROVE TypeOK'
    BY <1>6 DEF BeginSchedule, Approving
  <1>7. ASSUME NEW d \in Discoveries, ApproveEntry(d) PROVE TypeOK'
    <2>1. work \in Approving
      BY <1>7 DEF ApproveEntry, Planning
    <2>2. work.grant \in Schedules /\ work.who \in People
      BY <2>1 DEF Approving
    <2> QED BY <1>7, <2>2 DEF ApproveEntry, Authorize, Sign, Ops, Grants
  <1>8. ASSUME SealSchedule PROVE TypeOK'
    <2>1. work \in Approving
      BY <1>8 DEF SealSchedule, Planning
    <2>2. work.grant \in Schedules /\ work.who \in People
      BY <2>1 DEF Approving
    <2> QED BY <1>8, <2>2 DEF SealSchedule, Sign, Grants
  <1> QED BY <1>1, <1>2, <1>3, <1>4, <1>5, <1>6, <1>7, <1>8 DEF Person

LEMMA OtherTypes == TypeOK /\ (Materialize \/ Run \/ Otherwise) => TypeOK'
  <1> SUFFICES ASSUME TypeOK, Materialize \/ Run \/ Otherwise PROVE TypeOK'
    OBVIOUS
  <1> USE DEF TypeOK
  <1>1. ASSUME NEW p \in Policies, NEW c \in Candidates, MaterializePlan(p, c) PROVE TypeOK'
    <2>1. Acquire(c, TermsOf[p]) \in Acquires
      BY PlanIsAcquire
    <2> QED BY <1>1, <2>1 DEF MaterializePlan, Planning, Ops
  <1>2. ASSUME MaterializeAuthorize PROVE TypeOK'
    <2>1. work \in Planning
      BY <1>2 DEF MaterializeAuthorize, Approving
    <2>2. work.grant \in Policies /\ work.op \in Acquires
      BY <2>1 DEF Planning
    <2> QED BY <1>2, <2>2 DEF MaterializeAuthorize, Authorize, Ops, Grants
  <1>3. ASSUME NEW d \in Discoveries, CompleteDiscovery(d) PROVE TypeOK'
    BY <1>3 DEF CompleteDiscovery, End
  <1>4. ASSUME NEW op \in Acquires, NEW row \in Rows, RunAcquire(op, row) PROVE TypeOK'
    <2>1. op.key \in Candidates
      BY DEF Acquires
    <2>2. /\ outcomes' \in [Candidates -> Seq(Rows)]
          /\ \A d \in Candidates : Len(outcomes'[d]) <= MaxRows
      BY <1>4, <2>1, RowAppended DEF RunAcquire
    <2> QED BY <1>4, <2>1, <2>2 DEF RunAcquire, End
  <1>5. ASSUME NEW op \in Ops, Fail(op) PROVE TypeOK'
    BY <1>5 DEF Fail, End
  <1>6. ASSUME NEW c \in Candidates, NEW row \in Rows, RoutineAcquire(c, row) PROVE TypeOK'
    <2>1. /\ outcomes' \in [Candidates -> Seq(Rows)]
          /\ \A d \in Candidates : Len(outcomes'[d]) <= MaxRows
      BY <1>6, RowAppended DEF RoutineAcquire
    <2> QED BY <1>6, <2>1 DEF RoutineAcquire
  <1>7. ASSUME NEW u \in Windows, MoveWindow(u) PROVE TypeOK'
    BY <1>7 DEF MoveWindow
  <1>8. ASSUME NEW c \in Candidates, Rest(c) PROVE TypeOK'
    BY <1>8 DEF Rest
  <1>9. ASSUME Crash PROVE TypeOK'
    BY <1>9 DEF Crash
  <1> QED BY <1>1, <1>2, <1>3, <1>4, <1>5, <1>6, <1>7, <1>8, <1>9
          DEF Materialize, Run, Otherwise

-----------------------------------------------------------------------------
(***************************************************************************)
(* Counting.                                                               *)
(***************************************************************************)
\* Where an operation that hung on no grant is put under something else than p, p's count stays.
LEMMA NotCounted ==
    ASSUME TypeOK, Unattached, NEW op \in Ops, state[op] = "planned", NEW g, Authorize(op, g),
           NEW p \in Policies, g # p
    PROVE  Under(p)' = Under(p) /\ \A c \in Candidates : UnderFor(p, c)' = UnderFor(p, c)
  <1>1. via[op] = NoGrant /\ NoGrant # p
    BY DEF Unattached, Grants
  <1>2. \A other \in Ops : via'[other] = p <=> via[other] = p
    BY <1>1 DEF Authorize, TypeOK
  <1>3. Under(p)' = Under(p)
    BY <1>2 DEF Under
  <1> QED BY <1>3 DEF UnderFor

LEMMA OneMore ==
    ASSUME NEW S, NEW x, IsFiniteSet(S)
    PROVE  IsFiniteSet(S \union {x}) /\ Cardinality(S \union {x}) <= Cardinality(S) + 1
  <1>1. Cardinality(S) \in Nat
    BY FS_CardinalityType
  <1>2. IsFiniteSet(S \union {x})
    BY FS_AddElement
  <1>3. Cardinality(S \union {x}) = IF x \in S THEN Cardinality(S) ELSE Cardinality(S) + 1
    BY FS_AddElement
  <1> QED BY <1>1, <1>2, <1>3

\* An acquire that is put under p is counted there once, and for its candidate alone.
LEMMA CountedOnce ==
    ASSUME TypeOK, NEW p \in Policies, NEW op \in Acquires, Authorize(op, p),
           IsFiniteSet(Under(p))
    PROVE  /\ Under(p)' = Under(p) \union {op}
           /\ IsFiniteSet(Under(p)')
           /\ Cardinality(Under(p)') <= Cardinality(Under(p)) + 1
           /\ \A c \in Candidates : c # op.key => UnderFor(p, c)' = UnderFor(p, c)
           /\ Cardinality(UnderFor(p, op.key)') <= Cardinality(UnderFor(p, op.key)) + 1
  <1>0. op \in Ops
    BY DEF Ops
  <1>1. Under(p)' = Under(p) \union {op}
    BY <1>0 DEF Under, Authorize, TypeOK
  <1>2. IsFiniteSet(Under(p)') /\ Cardinality(Under(p)') <= Cardinality(Under(p)) + 1
    <2>1. IsFiniteSet(Under(p) \union {op}) /\ Cardinality(Under(p) \union {op}) <= Cardinality(Under(p)) + 1
      BY OneMore
    <2> QED BY <1>1, <2>1
  <1>3. \A c \in Candidates : c # op.key => UnderFor(p, c)' = UnderFor(p, c)
    BY <1>1 DEF UnderFor
  <1>4. IsFiniteSet(UnderFor(p, op.key))
    BY FS_Subset DEF UnderFor
  <1>5. UnderFor(p, op.key)' = UnderFor(p, op.key) \union {op}
    BY <1>1 DEF UnderFor
  <1>6. Cardinality(UnderFor(p, op.key)') <= Cardinality(UnderFor(p, op.key)) + 1
    BY <1>4, <1>5, OneMore
  <1> QED BY <1>1, <1>2, <1>3, <1>6

LEMMA CountsStay == Counted /\ via' = via => Counted'
  BY DEF Counted, Under, UnderFor

-----------------------------------------------------------------------------
(***************************************************************************)
(* Steps that authorize nothing.                                           *)
(***************************************************************************)
\* Time, and a process that is killed or records a row of its own.
LEMMA Elsewhere ==
    ASSUME IInv, TypeOK', UNCHANGED <<state, via, signed, grant>>, work' = work \/ work' = NoWork
    PROVE  IInv'
  <1> USE DEF IInv
  <1>1. Unattached' /\ Counted' /\ ScheduleIsWhole' /\ OnePolicyAtATime'
    BY CountsStay DEF Unattached, ScheduleIsWhole, OnePolicyAtATime
  <1>2. Approved'
    BY DEF Approved
  <1>3. Checked'
    BY DEF Checked, Granted, Active, Under, UnderFor
  <1> QED BY <1>1, <1>2, <1>3

\* An operation is planned or ends.
LEMMA Moved ==
    ASSUME IInv, TypeOK', UNCHANGED <<via, signed, grant>>, work = NoWork, work' = NoWork,
           NEW op \in Ops, NEW how \in {"planned", "completed", "failed"},
           state' = [state EXCEPT ![op] = how],
           IF how = "planned" THEN state[op] \in {"none", "planned"} ELSE state[op] = "authorized"
    PROVE  IInv'
  <1> USE DEF IInv
  <1>1. Unattached'
    BY DEF Unattached, TypeOK, Ops
  <1>2. Counted' /\ ScheduleIsWhole'
    BY CountsStay DEF ScheduleIsWhole
  <1>3. OnePolicyAtATime'
    BY DEF OnePolicyAtATime, TypeOK, Ops
  <1>4. Approved' /\ Checked'
    BY DEF Approved, Checked
  <1> QED BY <1>1, <1>2, <1>3, <1>4

\* A grant is planned, authorized or revoked while nobody is at work.
LEMMA GrantMoved ==
    ASSUME IInv, TypeOK', UNCHANGED <<state, via, signed>>, work = NoWork, work' = NoWork,
           NEW g \in Grants, NEW how \in {"planned", "authorized", "revoked"},
           grant' = [grant EXCEPT ![g] = how],
           g \in Schedules => how # "authorized",
           how = "revoked" => grant[g] = "authorized"
    PROVE  IInv'
  <1> USE DEF IInv
  <1>1. Unattached' /\ Counted' /\ OnePolicyAtATime'
    BY CountsStay DEF Unattached, OnePolicyAtATime
  <1>2. ScheduleIsWhole'
    BY DEF ScheduleIsWhole, TypeOK, Grants
  <1>3. Approved' /\ Checked'
    BY DEF Approved, Checked
  <1> QED BY <1>1, <1>2, <1>3

-----------------------------------------------------------------------------
(***************************************************************************)
(* Steps that authorize, one lemma each.                                   *)
(***************************************************************************)
\* Somebody authorizes an operation by himself.
LEMMA ByHand ==
    ASSUME IInv, TypeOK', work = NoWork, work' = NoWork, UNCHANGED grant,
           NEW op \in Ops, state[op] = "planned", Authorize(op, NoGrant),
           \A s \in Schedules : signed'[s] = signed[s],
           \A d \in Discoveries : d # op => signed'[d] = signed[d]
    PROVE  IInv'
  <1> USE DEF IInv
  <1>1. \A other \in Ops : other # op => via'[other] = via[other] /\ state'[other] = state[other]
    BY DEF Authorize, TypeOK
  <1>2. via'[op] = NoGrant /\ state'[op] = "authorized" /\ via[op] = NoGrant
    BY DEF Authorize, TypeOK, Unattached
  <1>3. Unattached'
    BY <1>1, <1>2 DEF Unattached, Grants, Ops
  <1>4. Counted'
    BY NotCounted DEF Counted, Grants
  <1>5. ScheduleIsWhole'
    <2> SUFFICES ASSUME NEW s \in Schedules, grant[s] \in {"authorized", "revoked"},
                        NEW d \in Entries[s]
                 PROVE  via'[d] = s /\ signed'[d] = signed'[s]
      BY DEF ScheduleIsWhole
    <2>1. d \in Discoveries /\ d \in Ops
      BY DEF Ops
    <2>2. via[d] = s /\ signed[d] = signed[s]
      BY DEF ScheduleIsWhole
    <2>3. d # op
      BY <1>2, <2>2 DEF Grants
    <2> QED BY <1>1, <2>1, <2>2, <2>3
  <1>6. OnePolicyAtATime'
    <2> SUFFICES ASSUME NEW one \in Acquires, NEW two \in Acquires, one.key = two.key,
                        state'[one] = "authorized", state'[two] = "authorized",
                        via'[one] \in Policies, via'[two] \in Policies
                 PROVE  one = two
      BY DEF OnePolicyAtATime
    <2>1. one # op /\ two # op
      BY <1>2 DEF Grants
    <2> QED BY <1>1, <2>1 DEF OnePolicyAtATime, Ops
  <1>7. Approved' /\ Checked'
    BY DEF Approved, Checked
  <1> QED BY <1>3, <1>4, <1>5, <1>6, <1>7

LEMMA ScheduleBegun ==
    ASSUME IInv, TypeOK', NEW s \in Schedules, NEW who \in People, BeginSchedule(s, who)
    PROVE  IInv'
  <1> USE DEF IInv, BeginSchedule
  <1>1. Unattached' /\ Counted' /\ ScheduleIsWhole' /\ OnePolicyAtATime'
    BY CountsStay DEF Unattached, ScheduleIsWhole, OnePolicyAtATime
  <1>2. Approved'
    BY DEF Approved, MayApprove
  <1>3. Checked'
    BY DEF Checked, Planning
  <1> QED BY <1>1, <1>2, <1>3

LEMMA EntryApproved ==
    ASSUME IInv, TypeOK', NEW d \in Discoveries, ApproveEntry(d)
    PROVE  IInv'
  <1> USE DEF IInv, ApproveEntry
  <1>1. work \in Approving /\ work \notin Planning
    BY DEF TypeOK, Planning, Approving
  <1>2. work.grant \in Schedules /\ d \in Ops
    BY <1>1 DEF Approving, Ops
  <1>3. \A other \in Ops : other # d => via'[other] = via[other] /\ state'[other] = state[other]
    BY DEF Authorize, TypeOK
  <1>4. /\ via'[d] = work.grant /\ state'[d] = "authorized" /\ via[d] = NoGrant
        /\ signed'[d] = work.who
    BY <1>2 DEF Authorize, Sign, TypeOK, Unattached
  <1>5. \A x \in Discoveries \union Schedules : x # d => signed'[x] = signed[x]
    BY DEF Sign, TypeOK
  <1>6. Unattached'
    BY <1>2, <1>3, <1>4 DEF Unattached, Ops
  <1>7. Counted'
    <2>1. \A p \in Policies : p # work.grant
      BY <1>2
    <2> QED BY <1>2, <2>1, NotCounted DEF Counted
  <1>8. ScheduleIsWhole'
    <2> SUFFICES ASSUME NEW s \in Schedules, grant[s] \in {"authorized", "revoked"},
                        NEW e \in Entries[s]
                 PROVE  via'[e] = s /\ signed'[e] = signed'[s]
      BY DEF ScheduleIsWhole
    <2>1. e \in Discoveries /\ e \in Ops
      BY DEF Ops
    <2>2. via[e] = s /\ signed[e] = signed[s]
      BY DEF ScheduleIsWhole
    <2>3. e # d /\ s # d
      BY <1>4, <2>2 DEF Grants
    <2> QED BY <1>3, <1>5, <2>1, <2>2, <2>3
  <1>9. OnePolicyAtATime'
    <2> SUFFICES ASSUME NEW one \in Acquires, NEW two \in Acquires, one.key = two.key,
                        state'[one] = "authorized", state'[two] = "authorized",
                        via'[one] \in Policies, via'[two] \in Policies
                 PROVE  one = two
      BY DEF OnePolicyAtATime
    <2> QED BY <1>3 DEF OnePolicyAtATime, Ops
  <1>10. Approved'
    <2> SUFFICES ASSUME NEW e \in Entries[work.grant], state'[e] # "planned"
                 PROVE  via'[e] = work.grant /\ signed'[e] = work.who
      BY <1>1 DEF Approved
    <2>1. e \in Discoveries /\ e \in Ops
      BY <1>2 DEF Ops
    <2> QED BY <1>1, <1>3, <1>4, <1>5, <2>1 DEF Approved
  <1>11. Checked'
    BY <1>1 DEF Checked
  <1> QED BY <1>6, <1>7, <1>8, <1>9, <1>10, <1>11

LEMMA ScheduleSealed ==
    ASSUME IInv, TypeOK', SealSchedule
    PROVE  IInv'
  <1> USE DEF IInv, SealSchedule
  <1>1. work \in Approving
    BY DEF TypeOK, Planning
  <1>2. work.grant \in Schedules /\ work.who \in People
    BY <1>1 DEF Approving
  <1>3. Unattached' /\ Counted' /\ OnePolicyAtATime'
    BY CountsStay DEF Unattached, OnePolicyAtATime
  <1>4. \A s \in Schedules : s # work.grant => signed'[s] = signed[s] /\ grant'[s] = grant[s]
    BY <1>2 DEF Sign, TypeOK, Grants
  <1>5. \A d \in Discoveries : signed'[d] = signed[d]
    BY <1>2 DEF Sign, TypeOK
  <1>6. signed'[work.grant] = work.who
    BY <1>2 DEF Sign, TypeOK
  <1>7. ScheduleIsWhole'
    <2> SUFFICES ASSUME NEW s \in Schedules, grant'[s] \in {"authorized", "revoked"},
                        NEW d \in Entries[s]
                 PROVE  via[d] = s /\ signed'[d] = signed'[s]
      BY DEF ScheduleIsWhole
    <2>1. d \in Discoveries
      OBVIOUS
    <2>2. CASE s = work.grant
      BY <1>1, <1>5, <1>6, <2>1, <2>2 DEF Approved
    <2>3. CASE s # work.grant
      BY <1>4, <1>5, <2>1, <2>3 DEF ScheduleIsWhole
    <2> QED BY <2>2, <2>3
  <1>8. Approved' /\ Checked'
    BY DEF Approved, Checked
  <1> QED BY <1>3, <1>7, <1>8

LEMMA Materialized ==
    ASSUME IInv, TypeOK', NEW p \in Policies, NEW c \in Candidates, MaterializePlan(p, c)
    PROVE  IInv'
  <1> USE DEF IInv
  <1> DEFINE op == Acquire(c, TermsOf[p])
  <1>1. op \in Acquires /\ op.key = c /\ op \in Ops /\ op \notin Discoveries
    BY PlanIsAcquire DEF Ops
  <1>2. state' = [state EXCEPT ![op] = "planned"] /\ state[op] \in {"none", "planned"}
    BY DEF MaterializePlan, Plannable
  <1> HIDE DEF op
  <1>3. Unattached' /\ ScheduleIsWhole'
    BY <1>1, <1>2 DEF MaterializePlan, Unattached, ScheduleIsWhole, TypeOK
  <1>4. Counted'
    BY CountsStay DEF MaterializePlan
  <1>5. \A other \in Acquires : state'[other] = "authorized" => state[other] = "authorized"
    BY <1>1, <1>2 DEF TypeOK, Ops
  <1>6. OnePolicyAtATime'
    BY <1>5 DEF MaterializePlan, OnePolicyAtATime
  <1>7. /\ work' \in Planning /\ work'.grant = p /\ work'.op = op
    BY <1>1 DEF MaterializePlan, Planning, op
  <1>8. Approved'
    BY <1>7 DEF Approved, Approving, Planning
  <1>9. Granted(p)' /\ Cardinality(Under(p)') < MaxTotal[p]
    BY DEF MaterializePlan, MayMaterialize, Granted, Under, Reserved
  <1>10. ~Active(p, c)'
    BY <1>5 DEF MaterializePlan, Active
  <1>11. Cardinality(UnderFor(p, c)') < IF p \in Copies THEN 1 ELSE MaxEach[p]
    <2>1. UnderFor(p, c)' = UnderFor(p, c)
      BY DEF MaterializePlan, Under, UnderFor
    <2>2. CASE p \in Copies
      <3>1. UnderFor(p, c) = {}
        BY <2>2 DEF MaterializePlan, CopyWanted, Reserved, UnderFor
      <3> QED BY <2>1, <2>2, <3>1, FS_EmptySet
    <2>3. CASE p \notin Copies
      BY <2>1, <2>3 DEF MaterializePlan, RetryWanted, Reserved, UnderFor
    <2> QED BY <2>2, <2>3
  <1>12. state'[op] = "planned"
    BY <1>1, <1>2 DEF TypeOK
  <1>13. Checked'
    BY <1>1, <1>7, <1>9, <1>10, <1>11, <1>12 DEF Checked
  <1> QED BY <1>3, <1>4, <1>6, <1>8, <1>13

LEMMA PolicyAuthorized ==
    ASSUME IInv, TypeOK', MaterializeAuthorize
    PROVE  IInv'
  <1> USE DEF IInv, MaterializeAuthorize
  <1>1. work \in Planning
    BY DEF TypeOK, Approving
  <1>0. PICK p \in Policies, op \in Acquires : work.grant = p /\ work.op = op
    BY <1>1 DEF Planning
  <1>2. p \in Policies /\ op \in Acquires /\ op.key \in Candidates /\ op \in Ops /\ op \notin Discoveries
    BY DEF Acquires, Ops
  <1>3. /\ Granted(p) /\ state[op] = "planned" /\ ~Active(p, op.key)
        /\ Cardinality(Under(p)) < MaxTotal[p]
        /\ Cardinality(UnderFor(p, op.key)) < IF p \in Copies THEN 1 ELSE MaxEach[p]
    BY <1>0, <1>1 DEF Checked
  <1>4. Authorize(op, p)
    BY <1>0
  <1>5. \A other \in Ops : other # op => via'[other] = via[other] /\ state'[other] = state[other]
    BY <1>4 DEF Authorize, TypeOK
  <1>6. via'[op] = p /\ state'[op] = "authorized"
    BY <1>2, <1>4 DEF Authorize, TypeOK
  <1>7. Unattached'
    BY <1>2, <1>5, <1>6 DEF Unattached, Ops
  <1>8. Counted'
    <2> SUFFICES ASSUME NEW q \in Policies
                 PROVE  /\ IsFiniteSet(Under(q)')
                        /\ Cardinality(Under(q)') <= MaxTotal[q]
                        /\ \A c \in Candidates :
                              Cardinality(UnderFor(q, c)') <= IF q \in Copies THEN 1 ELSE MaxEach[q]
      BY DEF Counted
    <2>1. CASE q # p
      BY <1>2, <1>3, <1>4, <2>1, NotCounted DEF Counted
    <2>2. CASE q = p
      <3>1. IsFiniteSet(Under(p)) /\ Cardinality(Under(p)) \in Nat
        BY <1>2, FS_CardinalityType DEF Counted
      <3>2. IsFiniteSet(UnderFor(p, op.key))
        BY <3>1, FS_Subset DEF UnderFor
      <3>3. Cardinality(UnderFor(p, op.key)) \in Nat
        BY <3>2, FS_CardinalityType
      <3>4. MaxTotal[p] \in Nat /\ (p \notin Copies => MaxEach[p] \in Nat)
        BY <1>2 DEF Policies
      <3>5. /\ IsFiniteSet(Under(p)')
            /\ Cardinality(Under(p)') <= Cardinality(Under(p)) + 1
            /\ \A c \in Candidates : c # op.key => UnderFor(p, c)' = UnderFor(p, c)
            /\ Cardinality(UnderFor(p, op.key)') <= Cardinality(UnderFor(p, op.key)) + 1
        <4>1. TypeOK
          OBVIOUS
        <4> QED BY ONLY <4>1, <1>2, <1>4, <3>1, CountedOnce
      <3>6. Cardinality(Under(p)') \in Nat
        BY <3>5, FS_CardinalityType
      <3>7. IsFiniteSet(UnderFor(p, op.key)')
        BY <3>5, FS_Subset DEF UnderFor
      <3>8. Cardinality(UnderFor(p, op.key)') \in Nat
        BY <3>7, FS_CardinalityType
      <3>9. Cardinality(Under(p)') <= MaxTotal[p]
        BY <1>3, <3>1, <3>4, <3>5, <3>6
      <3>10. Cardinality(UnderFor(p, op.key)') <= IF p \in Copies THEN 1 ELSE MaxEach[p]
        BY <1>3, <3>3, <3>4, <3>5, <3>8
      <3>11. ASSUME NEW c \in Candidates
             PROVE  Cardinality(UnderFor(p, c)') <= IF p \in Copies THEN 1 ELSE MaxEach[p]
        <4>1. CASE c = op.key
          BY ONLY <3>10, <4>1
        <4>2. CASE c # op.key
          <5>1. UnderFor(p, c)' = UnderFor(p, c)
            BY <3>5, <4>2
          <5>2. Cardinality(UnderFor(p, c)) <= IF p \in Copies THEN 1 ELSE MaxEach[p]
            BY <1>2 DEF Counted
          <5> QED BY <5>1, <5>2
        <4> QED BY <4>1, <4>2
      <3> QED BY ONLY <2>2, <3>5, <3>9, <3>11
    <2> QED BY <2>1, <2>2
  <1>9. ScheduleIsWhole'
    <2> SUFFICES ASSUME NEW s \in Schedules, grant[s] \in {"authorized", "revoked"},
                        NEW d \in Entries[s]
                 PROVE  via'[d] = s /\ signed[d] = signed[s]
      BY DEF ScheduleIsWhole
    <2> QED BY <1>2, <1>5 DEF ScheduleIsWhole, Ops
  <1>10. OnePolicyAtATime'
    <2> SUFFICES ASSUME NEW one \in Acquires, NEW two \in Acquires, one.key = two.key,
                        state'[one] = "authorized", state'[two] = "authorized",
                        via'[one] \in Policies, via'[two] \in Policies
                 PROVE  one = two
      BY DEF OnePolicyAtATime
    <2>1. \A other \in Acquires : other.key = op.key => state[other] # "authorized"
      BY <1>3 DEF Active
    <2>2. CASE one # op /\ two # op
      BY <1>5, <2>2 DEF OnePolicyAtATime, Ops
    <2>3. CASE one = op \/ two = op
      BY <1>5, <2>1, <2>3 DEF Ops
    <2> QED BY <2>2, <2>3
  <1>11. Approved' /\ Checked'
    BY DEF Approved, Checked
  <1> QED BY <1>7, <1>8, <1>9, <1>10, <1>11

-----------------------------------------------------------------------------
(***************************************************************************)
(* The theorems.                                                           *)
(***************************************************************************)
LEMMA InitInv == ApprovalsInit => IInv
  <1> SUFFICES ASSUME ApprovalsInit PROVE IInv
    OBVIOUS
  <1> USE DEF ApprovalsInit
  <1>1. TypeOK
    BY DEF TypeOK, Ops
  <1>2. Unattached
    BY DEF Unattached, Ops, Grants
  <1>3. \A p \in Policies : Under(p) = {} /\ \A c \in Candidates : UnderFor(p, c) = {}
    BY DEF Under, UnderFor, Grants
  <1>4. Counted
    <2>1. IsFiniteSet({}) /\ Cardinality({}) = 0
      BY FS_EmptySet
    <2>2. ASSUME NEW p \in Policies, NEW c \in Candidates
          PROVE  0 <= MaxTotal[p] /\ 0 <= IF p \in Copies THEN 1 ELSE MaxEach[p]
      BY DEF Policies
    <2>3. \A p \in Policies : 0 <= MaxTotal[p]
      BY DEF Policies
    <2> QED BY <1>3, <2>1, <2>2, <2>3 DEF Counted
  <1>5. Approved /\ Checked
    BY DEF Approved, Checked
  <1>6. ScheduleIsWhole /\ OnePolicyAtATime
    BY DEF ScheduleIsWhole, OnePolicyAtATime, Grants, Ops
  <1> QED BY <1>1, <1>2, <1>4, <1>5, <1>6 DEF IInv

LEMMA NextInv == IInv /\ [ApprovalsNext]_approvals => IInv'
  <1> SUFFICES ASSUME IInv, [ApprovalsNext]_approvals PROVE IInv'
    OBVIOUS
  <1>1. CASE UNCHANGED approvals
    <2>1. TypeOK'
      BY <1>1 DEF approvals, TypeOK, IInv
    <2> QED BY <1>1, <2>1, Elsewhere DEF approvals
  <1>2. CASE ApprovalsNext
    <2>0. TypeOK'
      BY <1>2, PersonTypes, OtherTypes DEF ApprovalsNext, IInv
    <2>1. ASSUME NEW d \in Discoveries, NEW who \in People, AuthorizeDiscovery(d, who) PROVE IInv'
      BY <2>0, <2>1, ByHand DEF AuthorizeDiscovery, Sign, Ops, IInv, TypeOK
    <2>2. ASSUME NEW op \in Acquires, AuthorizeAcquire(op) PROVE IInv'
      BY <2>0, <2>2, ByHand DEF AuthorizeAcquire, Ops
    <2>3. ASSUME NEW c \in Candidates, NEW terms \in Terms, PlanAcquire(c, terms) PROVE IInv'
      <3>1. Acquire(c, terms) \in Ops
        BY PlanIsAcquire DEF Ops, IInv
      <3> QED BY <2>0, <2>3, <3>1, Moved DEF PlanAcquire, Plannable
    <2>4. ASSUME NEW g \in Grants, PlanGrant(g) PROVE IInv'
      BY <2>0, <2>4, GrantMoved DEF PlanGrant
    <2>5. ASSUME NEW g \in Grants, Revoke(g) PROVE IInv'
      BY <2>0, <2>5, GrantMoved DEF Revoke
    <2>6. ASSUME NEW p \in Policies, AuthorizePolicy(p) PROVE IInv'
      BY <2>0, <2>6, GrantMoved DEF AuthorizePolicy, Grants
    <2>7. ASSUME NEW s \in Schedules, NEW who \in People, BeginSchedule(s, who) PROVE IInv'
      BY <2>0, <2>7, ScheduleBegun
    <2>8. ASSUME NEW d \in Discoveries, ApproveEntry(d) PROVE IInv'
      BY <2>0, <2>8, EntryApproved
    <2>9. ASSUME SealSchedule PROVE IInv'
      BY <2>0, <2>9, ScheduleSealed
    <2>10. ASSUME NEW p \in Policies, NEW c \in Candidates, MaterializePlan(p, c) PROVE IInv'
      BY <2>0, <2>10, Materialized
    <2>11. ASSUME MaterializeAuthorize PROVE IInv'
      BY <2>0, <2>11, PolicyAuthorized
    <2>12. ASSUME NEW d \in Discoveries, CompleteDiscovery(d) PROVE IInv'
      BY <2>0, <2>12, Moved DEF CompleteDiscovery, Runs, End, Ops
    <2>13. ASSUME NEW op \in Acquires, NEW row \in Rows, RunAcquire(op, row) PROVE IInv'
      BY <2>0, <2>13, Moved DEF RunAcquire, Runs, End, Ops
    <2>14. ASSUME NEW op \in Ops, Fail(op) PROVE IInv'
      BY <2>0, <2>14, Moved DEF Fail, WasReady, End
    <2>15. ASSUME NEW c \in Candidates, NEW row \in Rows, RoutineAcquire(c, row) PROVE IInv'
      BY <2>0, <2>15, Elsewhere DEF RoutineAcquire
    <2>16. ASSUME Otherwise PROVE IInv'
      BY <2>0, <2>16, Elsewhere DEF Otherwise, MoveWindow, Rest, Crash
    <2> QED BY <1>2, <2>1, <2>2, <2>3, <2>4, <2>5, <2>6, <2>7, <2>8, <2>9, <2>10, <2>11, <2>12,
               <2>13, <2>14, <2>15, <2>16 DEF ApprovalsNext, Person, Materialize, Run
  <1> QED BY <1>1, <1>2

\* In every reachable state the types and the properties hold, and so does what the holder of
\* the lock knows of its work (network_schedule.authorize, copy_policy and retry_policy's
\* materialize_due).
THEOREM Invariant == ApprovalsSpec => []IInv
  BY InitInv, NextInv, PTL DEF ApprovalsSpec

\* Every variable keeps its type.
THEOREM TypeCorrect == ApprovalsSpec => []TypeOK
  BY Invariant, PTL DEF IInv

\* An authorized schedule approved all of its discoveries itself, in one person's name
\* (network_schedule.authorize), however often that is interrupted.
THEOREM SchedulesAreWhole == ApprovalsSpec => []ScheduleIsWhole
  BY Invariant, PTL DEF IInv

\* No policy ever authorizes beyond its lifetime ceilings (copy_policy and retry_policy,
\* materialize_due).
THEOREM WithinCeilings == ApprovalsSpec => []CeilingsHold
  <1>1. IInv => CeilingsHold
    BY DEF IInv, Counted, CeilingsHold
  <1> QED BY <1>1, Invariant, PTL

\* Two policies never approve work on one candidate at the same time (the busy candidates that
\* materialize_due reads first and extends by hand).
THEOREM OneAtATime == ApprovalsSpec => []OnePolicyAtATime
  BY Invariant, PTL DEF IInv

\* No step puts an operation under a policy that is revoked, or whose schedule is.
LEMMA GrantedStep == IInv /\ ApprovalsNext =>
    \A op \in Ops : via'[op] # via[op] /\ via'[op] \in Policies => Granted(via'[op])
  <1> SUFFICES ASSUME IInv, ApprovalsNext, NEW op \in Ops, via'[op] # via[op], via'[op] \in Policies
               PROVE  Granted(via'[op])
    OBVIOUS
  <1> USE DEF IInv
  <1>1. ASSUME NEW d \in Discoveries, NEW who \in People, AuthorizeDiscovery(d, who) PROVE FALSE
    BY <1>1 DEF AuthorizeDiscovery, Authorize, TypeOK, Grants
  <1>2. ASSUME NEW a \in Acquires, AuthorizeAcquire(a) PROVE FALSE
    BY <1>2 DEF AuthorizeAcquire, Authorize, TypeOK, Grants
  <1>3. ASSUME NEW d \in Discoveries, ApproveEntry(d) PROVE FALSE
    <2>1. work.grant \in Schedules
      BY <1>3 DEF ApproveEntry, TypeOK, Planning, Approving
    <2> QED BY <1>3, <2>1 DEF ApproveEntry, Authorize, TypeOK
  <1>4. ASSUME MaterializeAuthorize PROVE Granted(via'[op])
    <2>1. work \in Planning
      BY <1>4 DEF MaterializeAuthorize, TypeOK, Approving
    <2>2. Granted(work.grant)
      BY <2>1 DEF Checked
    <2>3. via'[op] = work.grant
      BY <1>4 DEF MaterializeAuthorize, Authorize, TypeOK
    <2> QED BY <2>2, <2>3
  <1>5. ASSUME via' = via PROVE FALSE
    BY <1>5
  <1> QED BY <1>1, <1>2, <1>3, <1>4, <1>5
          DEF ApprovalsNext, Person, Materialize, Run, Otherwise, PlanAcquire, PlanGrant, Revoke,
              AuthorizePolicy, BeginSchedule, SealSchedule, MaterializePlan, CompleteDiscovery,
              RunAcquire, Fail, RoutineAcquire, MoveWindow, Rest, Crash

\* A revocation is final however long a materialization takes (copy_policy.due and authorize
\* under one lock).
THEOREM RevocationIsFinal == ApprovalsSpec => RevocationHolds
  <1>1. IInv /\ [ApprovalsNext]_approvals =>
          [\A op \in Ops : via'[op] # via[op] /\ via'[op] \in Policies => Granted(via'[op])]_approvals
    BY GrantedStep
  <1> QED BY <1>1, Invariant, PTL DEF ApprovalsSpec, RevocationHolds
=============================================================================
