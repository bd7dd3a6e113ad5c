------------------------------ MODULE PaidDrain ------------------------------
(***************************************************************************)
(* Model-call drains of one flow, and the mandates that repeat them:       *)
(* claimstone/operations.py for the drain stages, claimstone/autopilot.py, *)
(* and the model queue of claimstone/model_call.py.                        *)
(*                                                                         *)
(* A drain freezes the next never attempted calls of one lane's queue.  A  *)
(* paid one reserves max_call_cents for each of them in a named budget,    *)
(* writes call_started before each transport and stops at the first answer *)
(* whose cost is unknown or above its reservation.  One process at a time  *)
(* holds the writer lock, a mandate for a whole pass, and may be killed    *)
(* between any two rows.                                                   *)
(***************************************************************************)
EXTENDS Naturals, Sequences, FiniteSets, FiniteSetsExt

CONSTANTS Mandates,
          Terms,         \* Terms[m]: [cap, budget, ceiling, cents] of mandate m
          Offers,        \* what a person may plan: [size, budget, ceiling, cents, label]
          Budgets,       \* budget IDs; a paid mandate has one of its own
          NoBudget,      \* a local drain
          Worker,        \* the scheduler's worker, under no mandate
          NoOp,
          Costs,         \* recorded costs of one answer
          Unknown,       \* an answer that does not say what it cost
          MaxCalls,      \* bound: requests of one lane
          MaxAsked,      \* bound: requests of both lanes
          MaxPlanned,    \* bound: drains planned
          MaxAttempts,   \* bound: answers of one call
          MaxByHand,     \* bound: answers bought outside the scheduler
          MaxCrashes     \* bound: killed processes

Lanes   == {"extract", "review"}
Readers == {"local", "paid"}
\* One request put to one reader: what a reader answered says nothing of another.
Calls == Lanes \X (1..MaxCalls) \X Readers

\* Terms of money are frozen as positive cents for a paid drain, and left out for a local one.
Money(terms) ==
    /\ terms.budget \in Budgets \union {NoBudget} /\ terms.ceiling \in Nat /\ terms.cents \in Nat
    /\ terms.budget # NoBudget => terms.ceiling > 0 /\ terms.cents > 0

ASSUME TermsAssumption ==
    /\ \A m \in Mandates : Money(Terms[m]) /\ Terms[m].cap \in Nat
    /\ \A offer \in Offers : Money(offer) /\ offer.size \in Nat
    /\ Costs \subseteq Nat
ASSUME NamesAssumption == NoBudget \notin Budgets /\ Worker \notin Mandates /\ Unknown \notin Nat
ASSUME BoundsAssumption == MaxCalls \in Nat /\ MaxCrashes \in Nat

VARIABLES
    mandate,    \* mandate[m]: "none", "enabled" or "disabled"
    asked,      \* asked[lane]: requests in the lane's queue
    attempts,   \* attempts[call]: its recorded answers, who bought them, at what cost
    ops,        \* ops[op]: the rows of each planned drain
    by,         \* by[op]: the mandate it was authorized under, or Worker
    driver,     \* who holds the lock: a mandate's pass, or the worker
    pc,         \* where that process stands, "idle" when nobody holds the lock
    lane,       \* the lane a mandate's pass is at
    remaining,  \* calls a mandate's pass may still plan
    cur,        \* the drain it plans or executes
    crashes

ledgers == <<attempts, ops, by>>
process == <<driver, pc, lane, remaining, cur>>
vars    == <<mandate, asked, ledgers, process, crashes>>

Points == {"idle", "drive", "planned", "enter", "run", "call", "answered", "counted"}

Init ==
    /\ mandate = [m \in Mandates |-> "none"]
    /\ asked = [l \in Lanes |-> 0]
    /\ attempts = [c \in Calls |-> <<>>]
    /\ ops = <<>>
    /\ by = <<>>
    /\ driver = Worker
    /\ pc = "idle"
    /\ lane = "extract"
    /\ remaining = 0
    /\ cur = NoOp
    /\ crashes = 0

-----------------------------------------------------------------------------
(***************************************************************************)
(* What the ledgers say.                                                   *)
(***************************************************************************)
Planned   == DOMAIN ops
\* A local answer never says what it cost.
Record(c, who, cost) ==
    /\ c[3] = "local" => cost = Unknown
    /\ attempts' = [attempts EXCEPT ![c] = Append(@, [by |-> who, cost |-> cost])]
Last(op)  == ops[op][Len(ops[op])].event
Paid(op)  == op.budget # NoBudget
Reader(terms) == IF terms.budget = NoBudget THEN "local" ELSE "paid"
Rows(op)  == {ops[op][i] : i \in 1..Len(ops[op])}
Counted(op)  == {r.call : r \in {x \in Rows(op) : x.event = "unit_completed"}}
Started(op)  == {r.call : r \in {x \in Rows(op) : x.event = "call_started"}}
Authorized   == {op \in Planned : Len(ops[op]) > 1}
Unfinished   == {"authorized", "started", "call_started", "unit_completed"}

Row(event, call, cost) == [event |-> event, call |-> call, cost |-> cost]
NoCall == <<"none", 0, "none">>
Log(op, row)     == ops' = [ops EXCEPT ![op] = Append(@, row)]
LogPlain(op, ev) == Log(op, Row(ev, NoCall, 0))

\* A paid answer may not cost more than it reserved, nor hide what it cost.
Overrun(op, cost) == Paid(op) /\ ~(cost # Unknown /\ cost <= op.cents)

\* The queue in request order; a drain takes the first never attempted calls.
Fresh(l, who) ==
    {c \in Calls : c[1] = l /\ c[2] <= asked[l] /\ c[3] = who /\ attempts[c] = <<>>}
First(calls, n) == {c \in calls : Cardinality({d \in calls : d[2] < c[2]}) < n}

Reservation(op) == op.cents * Cardinality(op.calls)

\* Sums are counted cent by cent: each cent of each call of each drain.
Cents(op, calls) == {op} \X (calls \X (1..op.cents))
ReservedIn(set, b) == Cardinality(UNION {Cents(op, op.calls) : op \in {o \in set : o.budget = b}})

\* Mistake: only drains that are still running hold their reservation.
FitsUnfinished(op) ==
    Paid(op) =>
        /\ \A other \in Authorized : other.budget = op.budget => other.ceiling = op.ceiling
        /\ ReservedIn({o \in Authorized : Last(o) \in Unfinished}, op.budget)
             + Reservation(op) <= op.ceiling

\* Every authorized plan of the budget stays reserved, failed and unused calls
\* included, and all of them declare the same ceiling.
Fits(op) ==
    Paid(op) =>
        /\ \A other \in Authorized : other.budget = op.budget => other.ceiling = op.ceiling
        /\ ReservedIn(Authorized, op.budget) + Reservation(op) <= op.ceiling

UnderMandate(m) == {op \in Authorized : by[op] = m}

\* Calls of those drains that were answered.
CallsCounted(m) == Cardinality(UNION {{op} \X Counted(op) : op \in UnderMandate(m)})

\* Calls reserved under a mandate: all calls of all its authorized drains.
CallsReserved(m) == Cardinality(UNION {{op} \X op.calls : op \in UnderMandate(m)})

-----------------------------------------------------------------------------
(***************************************************************************)
(* People.  Each of these holds the lock from its first read to its row.   *)
(***************************************************************************)
EnableMandate(m) ==
    /\ pc = "idle"
    /\ mandate[m] = "none"
    /\ \A other \in Mandates : mandate[other] # "enabled"
    /\ mandate' = [mandate EXCEPT ![m] = "enabled"]
    /\ UNCHANGED <<asked, ledgers, process, crashes>>

DisableMandate(m) ==
    /\ pc = "idle"
    /\ mandate[m] = "enabled"
    /\ mandate' = [mandate EXCEPT ![m] = "disabled"]
    /\ UNCHANGED <<asked, ledgers, process, crashes>>

\* New evidence: a build, inside a mandate's pass or outside, adds a request.
Build(l) ==
    /\ pc = "idle" \/ (pc = "drive" /\ lane = l)
    /\ asked[l] < MaxCalls /\ asked["extract"] + asked["review"] < MaxAsked
    /\ asked' = [asked EXCEPT ![l] = @ + 1]
    /\ UNCHANGED <<mandate, ledgers, process, crashes>>

\* `claimstone drain` outside the scheduler: any call still pending, under no
\* reservation; an answer left transient is asked again.
DrainByHand(c, cost) ==
    /\ pc = "idle"
    /\ c[2] <= asked[c[1]]
    /\ Len(attempts[c]) < MaxAttempts
    /\ Quantify(Calls, LAMBDA d : \E i \in 1..Len(attempts[d]) : attempts[d][i].by = NoOp) < MaxByHand
    /\ Record(c, NoOp, cost)
    /\ UNCHANGED <<mandate, asked, ops, by, process, crashes>>

\* The plan of the next n never attempted calls under some terms; its digest,
\* so its identity, covers the terms, the calls and the queue it was read from.
Plan(l, n, terms, label) ==
    [lane |-> l, calls |-> First(Fresh(l, Reader(terms)), n), asked |-> asked[l], label |-> label,
     budget |-> terms.budget, ceiling |-> terms.ceiling, cents |-> terms.cents]

Affordable(op) == op.calls # {} /\ (Paid(op) => Reservation(op) <= op.ceiling)

LogPlan(op) ==
    ops' = [o \in Planned \union {op} |->
              IF o \in Planned THEN ops[o] ELSE <<Row("planned", NoCall, 0)>>]

PlanByPerson(l, offer) ==
    LET op == Plan(l, offer.size, offer, offer.label)
    IN  /\ pc = "idle"
        /\ Cardinality(Planned) < MaxPlanned
        /\ Affordable(op)
        /\ op \notin Planned
        /\ LogPlan(op)
        /\ UNCHANGED <<mandate, asked, attempts, by, process, crashes>>

LogAuthorized(op, who) ==
    /\ LogPlain(op, "authorized")
    /\ by' = [o \in DOMAIN by \union {op} |-> IF o = op THEN who ELSE by[o]]

AuthorizeByPerson(op) ==
    /\ pc = "idle"
    /\ Last(op) = "planned"
    /\ Fits(op)
    /\ LogAuthorized(op, Worker)
    /\ UNCHANGED <<mandate, asked, attempts, process, crashes>>

-----------------------------------------------------------------------------
(***************************************************************************)
(* A mandate's pass (autopilot.tick, operations.drive_local) and a worker  *)
(* (operations.tick).                                                      *)
(***************************************************************************)
EndPass == driver' = Worker /\ pc' = "idle" /\ lane' = "extract" /\ remaining' = 0 /\ cur' = NoOp

\* The pass goes on to the next lane with what is left of its allowance.
NextLane(left) ==
    IF lane = "extract"
      THEN pc' = "drive" /\ lane' = "review" /\ remaining' = left /\ cur' = NoOp /\ UNCHANGED driver
      ELSE EndPass

\* Mistake: the allowance is what the mandate has not yet used.
BeginPassRefunded(m) ==
    /\ pc = "idle"
    /\ mandate[m] = "enabled"
    /\ CallsCounted(m) <= Terms[m].cap
    /\ remaining' = Terms[m].cap - CallsCounted(m)
    /\ driver' = m
    /\ pc' = "drive"
    /\ lane' = "extract"
    /\ UNCHANGED <<mandate, asked, ledgers, cur, crashes>>

BeginPass(m) ==
    /\ pc = "idle"
    /\ mandate[m] = "enabled"
    /\ CallsReserved(m) <= Terms[m].cap
    /\ remaining' = Terms[m].cap - CallsReserved(m)
    /\ driver' = m
    /\ pc' = "drive"
    /\ lane' = "extract"
    /\ UNCHANGED <<mandate, asked, ledgers, cur, crashes>>

\* Nothing to drain here, or no allowance left.
SkipLane ==
    /\ pc = "drive"
    /\ remaining = 0 \/ Fresh(lane, Reader(Terms[driver])) = {}
    /\ NextLane(remaining)
    /\ UNCHANGED <<mandate, asked, ledgers, crashes>>

\* An identical drain that failed stops the pass; one that exists is taken up
\* again; otherwise its planned row is appended.
DrivePlan ==
    LET op == Plan(lane, remaining, Terms[driver], driver)
    IN  /\ pc = "drive"
        /\ remaining > 0
        /\ Affordable(op)
        /\ op \in Planned => Last(op) # "failed"
        /\ op \notin Planned => Cardinality(Planned) < MaxPlanned
        /\ IF op \in Planned THEN UNCHANGED ops ELSE LogPlan(op)
        /\ pc' = "planned"
        /\ cur' = op
        /\ UNCHANGED <<mandate, asked, attempts, by, driver, lane, remaining, crashes>>

DriveAuthorize ==
    /\ pc = "planned"
    /\ IF Last(cur) = "planned"
         THEN Fits(cur) /\ LogAuthorized(cur, driver)
         ELSE UNCHANGED <<ops, by>>
    /\ pc' = "enter"
    /\ UNCHANGED <<mandate, asked, attempts, driver, lane, remaining, cur, crashes>>

\* A refused plan or authorization, or any other stage of the pass, raises.
AbandonPass ==
    /\ pc \in {"drive", "planned"}
    /\ EndPass
    /\ UNCHANGED <<mandate, asked, ledgers, crashes>>

WorkerTake(op) ==
    /\ pc = "idle"
    /\ Last(op) \in Unfinished
    /\ cur' = op
    /\ driver' = Worker
    /\ pc' = "enter"
    /\ UNCHANGED <<mandate, asked, ledgers, lane, remaining, crashes>>

\* Changed inputs refuse the plan.  The worker's handler logs the refusal, a
\* mandate's pass only ends.
Refuse ==
    /\ pc = "enter"
    /\ asked[cur.lane] # cur.asked
    /\ IF driver = Worker THEN LogPlain(cur, "failed") ELSE UNCHANGED ops
    /\ EndPass
    /\ UNCHANGED <<mandate, asked, attempts, by, crashes>>

Enter ==
    /\ pc = "enter"
    /\ asked[cur.lane] = cur.asked
    /\ IF Last(cur) = "authorized" THEN LogPlain(cur, "started") ELSE UNCHANGED ops
    /\ pc' = "run"
    /\ UNCHANGED <<mandate, asked, attempts, by, driver, lane, remaining, cur, crashes>>

\* Any exception inside the stage: a changed harness, a runner that raises.
Fail ==
    /\ LogPlain(cur, "failed")
    /\ EndPass
    /\ UNCHANGED <<mandate, asked, attempts, by, crashes>>

Raise == pc \in {"run", "call"} /\ Fail

\* An overrun already on the ledger ends a resumed drain before another call.
OverrunCounted(op) == \E r \in Rows(op) : r.event = "unit_completed" /\ Overrun(op, r.cost)

Todo(op) == First(op.calls \ Counted(op), 1)

RefuseOverrun ==
    /\ pc = "run"
    /\ OverrunCounted(cur)
    /\ Fail

\* A call that began and left no answer: inspect the provider's billing first.
RefuseUnanswered ==
    /\ pc = "run"
    /\ \E c \in Todo(cur) : Paid(cur) /\ attempts[c] = <<>> /\ c \in Started(cur)
    /\ Fail

\* Mistake: the queue's answers are not looked up before a call.
StartCallAgain ==
    /\ pc = "run"
    /\ ~OverrunCounted(cur)
    /\ \E c \in Todo(cur) :
        /\ Paid(cur) => c \notin Started(cur)
        /\ IF Paid(cur) THEN Log(cur, Row("call_started", c, cur.cents)) ELSE UNCHANGED ops
        /\ pc' = "call"
        /\ UNCHANGED <<mandate, asked, attempts, by, driver, lane, remaining, cur, crashes>>

StartCall ==
    /\ pc = "run"
    /\ ~OverrunCounted(cur)
    /\ \E c \in Todo(cur) :
        /\ attempts[c] = <<>>
        /\ Paid(cur) => c \notin Started(cur)
        /\ IF Paid(cur) THEN Log(cur, Row("call_started", c, cur.cents)) ELSE UNCHANGED ops
        /\ pc' = "call"
        /\ UNCHANGED <<mandate, asked, attempts, by, driver, lane, remaining, cur, crashes>>

\* The answer is appended to the queue before the operation ledger hears of it.
Answer(cost) ==
    /\ pc = "call"
    /\ \E c \in Todo(cur) :
        /\ Len(attempts[c]) < MaxAttempts
        /\ Record(c, cur, cost)
        /\ pc' = "answered"
        /\ UNCHANGED <<mandate, asked, ops, by, driver, lane, remaining, cur, crashes>>

\* The answer at hand, or one an earlier process already paid for.
CountUnit ==
    /\ pc = "answered" \/ (pc = "run" /\ ~OverrunCounted(cur))
    /\ \E c \in Todo(cur) :
        /\ attempts[c] # <<>>
        /\ Log(cur, Row("unit_completed", c, attempts[c][Len(attempts[c])].cost))
        /\ pc' = "counted"
        /\ UNCHANGED <<mandate, asked, attempts, by, driver, lane, remaining, cur, crashes>>

StopOverrun ==
    /\ pc = "counted"
    /\ Overrun(cur, ops[cur][Len(ops[cur])].cost)
    /\ Fail

NextCall ==
    /\ pc = "counted"
    /\ ~Overrun(cur, ops[cur][Len(ops[cur])].cost)
    /\ pc' = "run"
    /\ UNCHANGED <<mandate, asked, ledgers, driver, lane, remaining, cur, crashes>>

Complete ==
    /\ pc = "run"
    /\ ~OverrunCounted(cur)
    /\ Todo(cur) = {}
    /\ LogPlain(cur, "completed")
    /\ IF driver = Worker THEN EndPass ELSE NextLane(remaining - Cardinality(cur.calls))
    /\ UNCHANGED <<mandate, asked, attempts, by, crashes>>

\* The process is killed: the kernel drops its lock, its memory is gone.
Crash ==
    /\ pc # "idle"
    /\ crashes < MaxCrashes
    /\ crashes' = crashes + 1
    /\ EndPass
    /\ UNCHANGED <<mandate, asked, ledgers>>

Person ==
    \/ \E m \in Mandates : EnableMandate(m) \/ DisableMandate(m)
    \/ \E l \in Lanes : Build(l) \/ \E offer \in Offers : PlanByPerson(l, offer)
    \/ \E op \in Planned : AuthorizeByPerson(op)
    \/ \E c \in Calls, cost \in Costs \union {Unknown} : DrainByHand(c, cost)

Execute ==
    \/ Refuse \/ Enter \/ RefuseOverrun \/ RefuseUnanswered \/ StartCall \/ Raise
    \/ (\E cost \in Costs \union {Unknown} : Answer(cost))
    \/ CountUnit \/ StopOverrun \/ NextCall \/ Complete

Next ==
    \/ Person
    \/ \E m \in Mandates : BeginPass(m)
    \/ SkipLane \/ DrivePlan \/ DriveAuthorize \/ AbandonPass
    \/ \E op \in Planned : WorkerTake(op)
    \/ Execute
    \/ Crash

Spec == Init /\ [][Next]_vars

-----------------------------------------------------------------------------
(***************************************************************************)
(* Properties.                                                             *)
(***************************************************************************)
\* Calls reserved under a mandate never pass its lifetime cap, however often
\* its pass dies between planning, authorizing and executing a drain: a restart
\* does not restore the allowance.
CapHolds == \A m \in Mandates : CallsReserved(m) <= Terms[m].cap

\* No drain buys an answer the queue already holds, though drains frozen
\* earlier or by someone else overlap in their calls and `drain` runs by hand.
NoAnswerBoughtTwice ==
    \A c \in Calls : \A i \in 1..Len(attempts[c]) : attempts[c][i].by # NoOp => i = 1

\* Budgets as their owner sees them: the ceiling the authorized plans declare,
\* what they reserve together, and what the started calls may cost.
PlansOf(b)     == {op \in Authorized : op.budget = b}
Declared(set)  == IF set = {} THEN 0 ELSE (CHOOSE op \in set : TRUE).ceiling
CeilingOf(b)   == Declared(PlansOf(b))
CommittedIn(b) == Cardinality(UNION {Cents(op, Started(op)) : op \in PlansOf(b)})

\* Paid drains implement the allowance their budgets promise: one ceiling,
\* reservations that only grow and stay under it, calls only inside them.
Promise == INSTANCE Allowance WITH
    Limits    <- {o.ceiling : o \in Offers} \union {Terms[m].ceiling : m \in Mandates},
    ceiling   <- [b \in Budgets |-> CeilingOf(b)],
    reserved  <- [b \in Budgets |-> ReservedIn(Authorized, b)],
    committed <- [b \in Budgets |-> CommittedIn(b)]
ImplementsAllowance == Promise!Spec

\* The contract's claim: a paid call that began and left no result is not
\* retried until someone has inspected the provider's billing.  Here nobody
\* has: the second start would be the mandate's own.
NoBlindRetry ==
    \A c \in Calls : \A one, two \in {op \in Authorized : by[op] \in Mandates} :
        (attempts[c] = <<>> /\ c \in Started(one) /\ c \in Started(two)) => one = two
=============================================================================
