------------------------------ MODULE Approvals ------------------------------
(***************************************************************************)
(* Advance approvals of network work: claimstone/network_schedule.py,      *)
(* claimstone/copy_policy.py and claimstone/retry_policy.py.               *)
(*                                                                         *)
(* A schedule approves frozen discovery operations.  A copy policy turns   *)
(* the hits of its schedule's discoveries into acquire operations, a retry *)
(* policy does so for candidates whose last acquisition failed in passing; *)
(* both plan and authorize them one by one, under lifetime ceilings.  What *)
(* an operation does once authorized is module Operations; here it ends,   *)
(* with or without an outcome row.  One process at a time holds the writer *)
(* lock, between any two rows of which it may be killed.                   *)
(***************************************************************************)
EXTENDS Naturals, Sequences, FiniteSets

CONSTANTS People,
          Discoveries,    \* frozen discovery operations
          Candidates,
          Schedules, Copies, Retries,
          Entries,        \* Entries[s]: the discoveries schedule s would approve
          HitOf,          \* HitOf[c]: the discovery that finds candidate c
          ScheduleOf,     \* ScheduleOf[p]: the schedule copy policy p hangs on
          Terms,          \* hosts and request ceiling of an acquire plan
          TermsOf,        \* TermsOf[p]: the terms policy p plans under
          MaxTotal,       \* MaxTotal[p]: max_candidates or max_retries
          MaxEach,        \* MaxEach[r]: max_attempts_each of a retry policy
          WindowOf,       \* WindowOf[g]: the UTC window of g, shared where two coincide
          NoGrant, NoWork,
          MaxOps,         \* bound: acquire operations planned
          MaxRows,        \* bound: acquisition rows of one candidate
          MaxCrashes      \* bound: killed processes

Policies == Copies \union Retries
Grants   == Schedules \union Policies
Windows  == {WindowOf[g] : g \in Grants}
Acquires == [key : Candidates, prior : 0..MaxRows, terms : Terms]
Ops      == Discoveries \union Acquires

\* What the holder of the lock may be at: approving a schedule's discoveries, or about to
\* authorize what a policy has just planned.
Approving == [kind : {"schedule"}, grant : Schedules, who : People, op : {NoWork}]
Planning  == [kind : {"policy"}, grant : Policies, who : {NoGrant}, op : Acquires]

\* An approval, an operation and a ledger's row are told apart by their IDs.
ASSUME ApprovalNames ==
    /\ Discoveries \intersect Acquires = {} /\ Discoveries \intersect Schedules = {}
    /\ Schedules \intersect Policies = {} /\ Copies \intersect Retries = {}
    /\ NoGrant \notin Grants /\ NoWork \notin Approving \union Planning
ASSUME ApprovalPlans ==
    /\ Entries \in [Schedules -> SUBSET Discoveries]
    /\ HitOf \in [Candidates -> Discoveries]
    /\ ScheduleOf \in [Copies -> Schedules]
    /\ TermsOf \in [Policies -> Terms]
    /\ MaxTotal \in [Policies -> Nat] /\ MaxEach \in [Retries -> Nat]
ASSUME ApprovalBounds == MaxOps \in Nat /\ MaxRows \in Nat /\ MaxCrashes \in Nat

VARIABLES
    state,     \* state[op]: "none", "planned", "authorized", "completed", "failed"
    via,       \* via[op]: the schedule or policy it was authorized under, or NoGrant
    signed,    \* signed[x]: who authorized discovery or schedule x, NoGrant before
    outcomes,  \* outcomes[c]: acquisition rows of candidate c
    rested,    \* rested[c]: the retry delay since its last row has passed
    grant,     \* grant[g]: "none", "planned", "authorized" or "revoked"
    window,    \* window[u]: where now lies relative to window u
    work,      \* what the holder of the lock is doing, or NoWork
    crashes

approvals == <<state, via, signed, outcomes, rested, grant, window, work, crashes>>

\* Acquired and terminal rows are alike to a policy: it never asks again.
Rows   == {"transient", "settled"}

ApprovalsInit ==
    /\ state = [op \in Ops |-> IF op \in Discoveries THEN "planned" ELSE "none"]
    /\ via = [op \in Ops |-> NoGrant]
    /\ signed = [x \in Discoveries \union Schedules |-> NoGrant]
    /\ outcomes = [c \in Candidates |-> <<>>]
    /\ rested = [c \in Candidates |-> TRUE]
    /\ grant = [g \in Grants |-> "none"]
    /\ window = [u \in Windows |-> "early"]
    /\ work = NoWork
    /\ crashes = 0

-----------------------------------------------------------------------------
(***************************************************************************)
(* What the ledgers say.                                                   *)
(***************************************************************************)
Granted(g) == /\ grant[g] = "authorized"
              /\ g \in Copies => grant[ScheduleOf[g]] = "authorized"
Due(g) == Granted(g) /\ window[WindowOf[g]] = "open"

Under(g)    == {op \in Ops : via[op] = g}
UnderFor(g, c) == {op \in Under(g) : op.key = c}

\* Mistake: an operation that has ended gives its place back.
ReservedActive(p) == {op \in Under(p) : state[op] = "authorized"}

\* Reservations of a policy: everything it ever authorized.
Reserved(p) == Under(p)

\* Mistake: only this policy's own operations count as active.
ActiveFor(p, c) == \E op \in UnderFor(p, c) : state[op] = "authorized"

\* Candidates some authorized operation is still busy with, whoever approved it.
Active(p, c) == \E op \in Acquires : op.key = c /\ state[op] = "authorized"

Planned == {op \in Acquires : state[op] # "none"}

\* operations.plan for an acquire: the candidate's last row decides.
Eligible(c) ==
    outcomes[c] # <<>> => outcomes[c][Len(outcomes[c])] = "transient" /\ rested[c]

Acquire(c, terms) == [key |-> c, prior |-> Len(outcomes[c]), terms |-> terms]
Plannable(op) ==
    /\ Eligible(op.key)
    /\ state[op] \in {"none", "planned"}
    /\ state[op] = "none" => Cardinality(Planned) < MaxOps

-----------------------------------------------------------------------------
(***************************************************************************)
(* People.                                                                 *)
(***************************************************************************)
Authorize(op, g) ==
    /\ state' = [state EXCEPT ![op] = "authorized"]
    /\ via' = [via EXCEPT ![op] = g]

\* Who authorized an operation is compared for the entries of a schedule only.
Sign(d, who) == signed' = [signed EXCEPT ![d] = who]

AuthorizeDiscovery(d, who) ==
    /\ work = NoWork
    /\ state[d] = "planned"
    /\ Authorize(d, NoGrant)
    /\ Sign(d, who)
    /\ UNCHANGED <<outcomes, rested, grant, window, work, crashes>>

AuthorizeAcquire(op) ==
    /\ work = NoWork
    /\ state[op] = "planned"
    /\ Authorize(op, NoGrant)
    /\ UNCHANGED <<signed, outcomes, rested, grant, window, work, crashes>>

PlanAcquire(c, terms) ==
    LET op == Acquire(c, terms)
    IN  /\ work = NoWork
        /\ Plannable(op)
        /\ state' = [state EXCEPT ![op] = "planned"]
        /\ UNCHANGED <<via, signed, outcomes, rested, grant, window, work, crashes>>

\* A schedule takes only operations nobody has approved yet; a retry policy's
\* window begins when it is planned.
PlanGrant(g) ==
    /\ work = NoWork
    /\ grant[g] = "none"
    /\ window[WindowOf[g]] # "over"
    /\ g \in Schedules => \A d \in Entries[g] : state[d] = "planned"
    /\ g \in Copies => grant[ScheduleOf[g]] # "none"
    /\ g \in Retries => window[WindowOf[g]] = "open"
    /\ grant' = [grant EXCEPT ![g] = "planned"]
    /\ UNCHANGED <<state, via, signed, outcomes, rested, window, work, crashes>>

AuthorizePolicy(p) ==
    /\ work = NoWork
    /\ grant[p] = "planned"
    /\ window[WindowOf[p]] # "over"
    /\ grant' = [grant EXCEPT ![p] = "authorized"]
    /\ UNCHANGED <<state, via, signed, outcomes, rested, window, work, crashes>>

\* Mistake: a revocation does not wait for the lock.
RevokeUnlocked(g) ==
    /\ grant[g] = "authorized"
    /\ grant' = [grant EXCEPT ![g] = "revoked"]
    /\ UNCHANGED <<state, via, signed, outcomes, rested, window, work, crashes>>

Revoke(g) ==
    /\ work = NoWork
    /\ grant[g] = "authorized"
    /\ grant' = [grant EXCEPT ![g] = "revoked"]
    /\ UNCHANGED <<state, via, signed, outcomes, rested, window, work, crashes>>

-----------------------------------------------------------------------------
(***************************************************************************)
(* Authorizing a schedule: its operations one by one, then itself.  What a *)
(* crash leaves half done, the same person may finish.                     *)
(***************************************************************************)
\* Mistake: any operation already authorized is skipped.
MayApproveAny(s, who) == \A d \in Entries[s] : state[d] # "none"

MayApprove(s, who) ==
    \A d \in Entries[s] :
        state[d] # "planned" => via[d] = s /\ signed[d] = who

BeginSchedule(s, who) ==
    /\ work = NoWork
    /\ grant[s] = "planned"
    /\ window[WindowOf[s]] # "over"
    /\ MayApprove(s, who)
    /\ work' = [kind |-> "schedule", grant |-> s, who |-> who, op |-> NoWork]
    /\ UNCHANGED <<state, via, signed, outcomes, rested, grant, window, crashes>>

ApproveEntry(d) ==
    /\ work # NoWork /\ work.kind = "schedule"
    /\ d \in Entries[work.grant]
    /\ state[d] = "planned"
    /\ Authorize(d, work.grant)
    /\ Sign(d, work.who)
    /\ UNCHANGED <<outcomes, rested, grant, window, work, crashes>>

SealSchedule ==
    /\ work # NoWork /\ work.kind = "schedule"
    /\ \A d \in Entries[work.grant] : state[d] # "planned"
    /\ grant' = [grant EXCEPT ![work.grant] = "authorized"]
    /\ Sign(work.grant, work.who)
    /\ work' = NoWork
    /\ UNCHANGED <<state, via, outcomes, rested, window, crashes>>

-----------------------------------------------------------------------------
(***************************************************************************)
(* materialize_due, first thing in every tick.                             *)
(***************************************************************************)
\* The candidate was found by a completed discovery of the policy's schedule.
Hit(p, c) == HitOf[c] \in Entries[ScheduleOf[p]] /\ state[HitOf[c]] = "completed"

CopyWanted(p, c) ==
    /\ Hit(p, c)
    /\ \A op \in Reserved(p) : op.key # c

RetryWanted(p, c) ==
    /\ outcomes[c] # <<>>
    /\ outcomes[c][Len(outcomes[c])] = "transient"
    /\ rested[c]
    /\ Cardinality({op \in Reserved(p) : op.key = c}) < MaxEach[p]

\* A copy policy looks at its window before each candidate, a retry policy once
\* before its first: by the time a later one is planned it may be over.
MayMaterialize(p) ==
    /\ Granted(p)
    /\ window[WindowOf[p]] \in (IF p \in Copies THEN {"open"} ELSE {"open", "over"})

\* The authorized row follows without a second look.
MaterializePlan(p, c) ==
    LET op == Acquire(c, TermsOf[p])
    IN  /\ work = NoWork
        /\ MayMaterialize(p)
        /\ Cardinality(Reserved(p)) < MaxTotal[p]
        /\ IF p \in Copies THEN CopyWanted(p, c) ELSE RetryWanted(p, c)
        /\ ~Active(p, c)
        /\ Plannable(op)
        /\ state' = [state EXCEPT ![op] = "planned"]
        /\ work' = [kind |-> "policy", grant |-> p, who |-> NoGrant, op |-> op]
        /\ UNCHANGED <<via, signed, outcomes, rested, grant, window, crashes>>

MaterializeAuthorize ==
    /\ work # NoWork /\ work.kind = "policy"
    /\ Authorize(work.op, work.grant)
    /\ work' = NoWork
    /\ UNCHANGED <<signed, outcomes, rested, grant, window, crashes>>

-----------------------------------------------------------------------------
(***************************************************************************)
(* Execution, time and crashes.                                            *)
(***************************************************************************)
Runs(op) == /\ work = NoWork
            /\ state[op] = "authorized"
            /\ via[op] \in Grants => Due(via[op])

\* On a worker's ready list, made when its grant was due: it is refused, and so
\* fails, when the grant is not due any more.
WasReady(op) ==
    /\ work = NoWork
    /\ state[op] = "authorized"
    /\ via[op] \in Grants => grant[via[op]] # "planned" /\ window[WindowOf[via[op]]] # "early"

End(op, how) == state' = [state EXCEPT ![op] = how]

CompleteDiscovery(d) ==
    /\ d \in Discoveries
    /\ Runs(d)
    /\ End(d, "completed")
    /\ UNCHANGED <<via, signed, outcomes, rested, grant, window, work, crashes>>

\* Its outcome row is appended only where the plan's prior row is still the last.
RunAcquire(op, row) ==
    /\ op \in Acquires
    /\ Runs(op)
    /\ op.prior = Len(outcomes[op.key])
    /\ op.prior < MaxRows
    /\ outcomes' = [outcomes EXCEPT ![op.key] = Append(@, row)]
    /\ rested' = [rested EXCEPT ![op.key] = FALSE]
    /\ End(op, "completed")
    /\ UNCHANGED <<via, signed, grant, window, work, crashes>>

\* `claimstone acquire` outside the scheduler records a row under no operation.
RoutineAcquire(c, row) ==
    /\ work = NoWork
    /\ Eligible(c)
    /\ Len(outcomes[c]) < MaxRows
    /\ outcomes' = [outcomes EXCEPT ![c] = Append(@, row)]
    /\ rested' = [rested EXCEPT ![c] = FALSE]
    /\ UNCHANGED <<state, via, signed, grant, window, work, crashes>>

\* Refused or failed before any row.
Fail(op) ==
    /\ WasReady(op)
    /\ End(op, "failed")
    /\ UNCHANGED <<via, signed, outcomes, rested, grant, window, work, crashes>>

MoveWindow(u) ==
    /\ window[u] # "over"
    /\ window' = [window EXCEPT ![u] = IF @ = "early" THEN "open" ELSE "over"]
    /\ UNCHANGED <<state, via, signed, outcomes, rested, grant, work, crashes>>

Rest(c) ==
    /\ ~rested[c]
    /\ rested' = [rested EXCEPT ![c] = TRUE]
    /\ UNCHANGED <<state, via, signed, outcomes, grant, window, work, crashes>>

Crash ==
    /\ work # NoWork
    /\ crashes < MaxCrashes
    /\ crashes' = crashes + 1
    /\ work' = NoWork
    /\ UNCHANGED <<state, via, signed, outcomes, rested, grant, window>>

Person ==
    \/ \E d \in Discoveries, who \in People : AuthorizeDiscovery(d, who)
    \/ \E op \in Acquires : AuthorizeAcquire(op)
    \/ \E c \in Candidates, terms \in Terms : PlanAcquire(c, terms)
    \/ \E g \in Grants : PlanGrant(g) \/ Revoke(g)
    \/ \E p \in Policies : AuthorizePolicy(p)
    \/ \E s \in Schedules, who \in People : BeginSchedule(s, who)
    \/ \E d \in Discoveries : ApproveEntry(d)
    \/ SealSchedule

Materialize ==
    \/ \E p \in Policies, c \in Candidates : MaterializePlan(p, c)
    \/ MaterializeAuthorize

Run ==
    \/ \E d \in Discoveries : CompleteDiscovery(d)
    \/ \E op \in Acquires, row \in Rows : RunAcquire(op, row)
    \/ \E op \in Ops : Fail(op)
    \/ \E c \in Candidates, row \in Rows : RoutineAcquire(c, row)

Otherwise ==
    \/ \E u \in Windows : MoveWindow(u)
    \/ \E c \in Candidates : Rest(c)
    \/ Crash

ApprovalsNext == Person \/ Materialize \/ Run \/ Otherwise

ApprovalsSpec == ApprovalsInit /\ [][ApprovalsNext]_approvals

-----------------------------------------------------------------------------
(***************************************************************************)
(* Properties.                                                             *)
(***************************************************************************)
\* An authorized schedule approved every one of its discoveries itself, in the
\* name of the person who authorized it, though approving is interrupted,
\* resumed, or overtaken by another schedule or a separate approval.
ScheduleIsWhole ==
    \A s \in Schedules : grant[s] \in {"authorized", "revoked"} =>
        \A d \in Entries[s] : via[d] = s /\ signed[d] = signed[s]

\* Lifetime ceilings hold over every authorization a policy ever gave, failed
\* and interrupted ones included: a copy policy asks once for a candidate, a
\* retry policy max_attempts_each times.
CeilingsHold ==
    \A p \in Policies :
        /\ Cardinality(Under(p)) <= MaxTotal[p]
        /\ \A c \in Candidates :
              Cardinality(UnderFor(p, c)) <= IF p \in Copies THEN 1 ELSE MaxEach[p]

\* Two policies never approve work on one candidate at the same time.
OnePolicyAtATime ==
    \A one, two \in Acquires :
        /\ one.key = two.key
        /\ state[one] = "authorized" /\ state[two] = "authorized"
        /\ via[one] \in Policies /\ via[two] \in Policies
        => one = two

\* Nothing is approved under a revoked policy, or a copy policy whose schedule
\* is revoked, however long its materialization takes.
RevocationHolds ==
    [][\A op \in Ops : via'[op] # via[op] /\ via'[op] \in Policies => Granted(via'[op])]_approvals
=============================================================================
