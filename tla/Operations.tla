----------------------------- MODULE Operations -----------------------------
(***************************************************************************)
(* Scheduler operations of one project: claimstone/operations.py, for the  *)
(* acquire stage, with the workers that tick them.                         *)
(*                                                                         *)
(* An operation is identified by the digest of its frozen plan, so a plan  *)
(* is its own identity here: two requests that freeze the same key, label, *)
(* prior acquisition row and environment are one operation.  Three ledgers *)
(* are kept: operations.jsonl (events, via, order), acquisitions.jsonl     *)
(* (acquisitions) and the request_started rows of requests.jsonl           *)
(* (requests).  A worker reads the operation ledger without the project    *)
(* writer lock, then executes one operation at a time under it; it may be  *)
(* killed between any two rows it writes.                                  *)
(*                                                                         *)
(* Three others append to acquisitions.jsonl under the same lock: routine  *)
(* acquisition, the intake of a file a person supplies, and re-gating.     *)
(***************************************************************************)
EXTENDS Naturals, Sequences, FiniteSets

CONSTANTS Workers,      \* processes that tick the project
          Keys,         \* candidates of the flow
          Labels,       \* run labels, host lists, ceilings: what tells two plans apart
          Schedules,    \* finite advance approvals
          Policies,     \* copy and retry policies
          Parent,       \* the schedule a copy policy hangs on, NoGrant for the others
          NoGrant,
          Operator,     \* authorized by a person, under no grant
          Routine,      \* the campaign of an acquire run outside the scheduler
          Intake,       \* the campaign of a copy a person supplied
          Regates,      \* campaigns of the regate command: a label and a gate
          Free,         \* nobody holds the writer lock
          NoPlan,       \* a worker executes nothing
          MaxRequests,  \* max_network_requests of every plan
          MaxOps,       \* max_operations of one tick
          MaxPlanned,   \* bound: operations planned
          MaxRows,      \* bound: acquisition rows of one candidate
          MaxEpoch,     \* bound: changes of code, protocol or flow binding
          MaxCrashes    \* bound: killed workers

Grants == Schedules \union Policies
Plans  == [key : Keys, label : Labels, prior : 0..MaxRows, epoch : 0..MaxEpoch]

ASSUME BoundsAssumption ==
    /\ MaxRequests \in Nat \ {0}
    /\ MaxOps \in Nat \ {0}
    /\ MaxPlanned \in Nat
    /\ MaxRows \in Nat
    /\ MaxEpoch \in Nat
    /\ MaxCrashes \in Nat

ASSUME NamesAssumption ==
    /\ Free \notin Workers
    /\ Routine # Intake
    /\ {Routine, Intake} \intersect (Plans \union Regates) = {}
    /\ Regates \intersect Plans = {}
    /\ NoPlan \notin Plans
    /\ Operator \notin Grants \union {NoGrant}
    /\ NoGrant \notin Grants
    /\ Parent \in [Grants -> Schedules \union {NoGrant}]

\* What kind of failure it was decides when it may be tried again, which time
\* and the operator do here.
Outcomes  == {"acquired", "failed"}
Campaigns == Plans \union {Routine, Intake} \union Regates
Row       == [campaign : Campaigns, outcome : Outcomes, attempt : Nat]

VARIABLES
    events,        \* events[op]: the events of op in the ledger, oldest first
    via,           \* via[op]: what op was authorized under, NoGrant before that
    order,         \* the operations in the order of their planned rows
    acquisitions,  \* acquisitions[c]: the outcome rows of candidate c
    requests,      \* requests[op]: request_started rows of campaign op
    grant,         \* grant[g]: the state of a schedule or policy
    window,        \* window[g]: where now lies relative to the UTC window of g
    epoch,         \* identity of the code, protocol, flow binding and inputs
    lock,          \* holder of the project writer lock, or Free
    pc,            \* pc[w]: where worker w stands
    todo,          \* todo[w]: operations its tick still has to process
    cur,           \* cur[w]: the operation it executes, or NoPlan
    crashes        \* workers killed so far

ledgers == <<events, via, order, acquisitions, requests>>
grants  == <<grant, window>>
workers == <<lock, pc, todo, cur>>
vars    == <<ledgers, grants, workers, epoch, crashes>>

Events == {"planned", "authorized", "started", "unit_completed", "completed", "failed"}
Points == {"idle", "scan", "pick", "checked", "fetch", "settled", "sealed", "erred"}

TypeOK ==
    /\ events \in [Plans -> Seq(Events)]
    /\ via \in [Plans -> Grants \union {Operator, NoGrant}]
    /\ order \in Seq(Plans)
    /\ acquisitions \in [Keys -> Seq(Row)]
    /\ requests \in [Plans -> 0..MaxRequests]
    /\ grant \in [Grants -> {"planned", "authorized", "revoked"}]
    /\ window \in [Grants -> {"early", "open", "over"}]
    /\ epoch \in 0..MaxEpoch
    /\ lock \in Workers \union {Free}
    /\ pc \in [Workers -> Points]
    /\ todo \in [Workers -> SUBSET Plans]
    /\ cur \in [Workers -> Plans \union {NoPlan}]
    /\ crashes \in 0..MaxCrashes

Init ==
    /\ events = [op \in Plans |-> <<>>]
    /\ via = [op \in Plans |-> NoGrant]
    /\ order = <<>>
    /\ acquisitions = [c \in Keys |-> <<>>]
    /\ requests = [op \in Plans |-> 0]
    /\ grant = [g \in Grants |-> "planned"]
    /\ window = [g \in Grants |-> "early"]
    /\ epoch = 0
    /\ lock = Free
    /\ pc = [w \in Workers |-> "idle"]
    /\ todo = [w \in Workers |-> {}]
    /\ cur = [w \in Workers |-> NoPlan]
    /\ crashes = 0

-----------------------------------------------------------------------------
(***************************************************************************)
(* What the ledgers say.                                                   *)
(***************************************************************************)

\* The transitions the reader accepts after a first planned event; any other one
\* makes every later read of the ledger raise, for all operations of the project.
Permitted ==
    {<<"planned", "authorized">>,
     <<"authorized", "started">>,          <<"authorized", "failed">>,
     <<"started", "unit_completed">>,      <<"started", "failed">>,
     <<"unit_completed", "completed">>,    <<"unit_completed", "failed">>}

Last(op) == IF events[op] = <<>> THEN "none" ELSE events[op][Len(events[op])]
LogEvent(op, event) == events' = [events EXCEPT ![op] = Append(@, event)]

Unfinished == {"authorized", "started", "unit_completed"}

Latest(c)  == acquisitions[c][Len(acquisitions[c])]
HasRow(c)  == acquisitions[c] # <<>>
Settled(c) == {acquisitions[c][i].campaign : i \in 1..Len(acquisitions[c])}

Attempt(c) == IF HasRow(c) THEN Latest(c).attempt ELSE 0

\* What the digest of the latest row tells: where that row was first written.  A
\* re-gate numbers no attempt, so a second one may write the same row again.
FirstLikeLast(rows) ==
    IF rows = <<>> THEN 0
    ELSE CHOOSE i \in 1..Len(rows) : /\ rows[i] = rows[Len(rows)]
                                     /\ \A j \in 1..(i - 1) : rows[j] # rows[Len(rows)]

Version(c) == FirstLikeLast(acquisitions[c])

LogOutcome(c, campaign, outcome, attempt) ==
    acquisitions' = [acquisitions EXCEPT ![c] =
        Append(@, [campaign |-> campaign, outcome |-> outcome, attempt |-> attempt])]

\* A terminal failure is eligible again when its class is named, a transient
\* one once its delay has passed; only a candidate whose latest row acquired
\* its document is not.
Eligible(c) == HasRow(c) => Latest(c).outcome # "acquired"

\* Campaigns of candidate c that began a transfer and recorded no outcome.
Unsettled(c) == {op \in Plans : op.key = c /\ requests[op] > 0 /\ op \notin Settled(c)}

Granted(g) == /\ grant[g] = "authorized"
              /\ Parent[g] # NoGrant => grant[Parent[g]] = "authorized"

\* Approvals under which an operation may run now.
Open(g) == Granted(g) /\ window[g] = "open"
Due(op) == via[op] \in Grants => Open(via[op])

-----------------------------------------------------------------------------
(***************************************************************************)
(* The operator and the grants.  Each holds the writer lock from its first *)
(* read to its last row, so each is one step.                              *)
(***************************************************************************)

PlanAcquire(c, label) ==
    LET op == [key |-> c, label |-> label, prior |-> Version(c), epoch |-> epoch]
    IN  /\ lock = Free
        /\ Len(order) < MaxPlanned
        /\ Len(acquisitions[c]) < MaxRows
        /\ Unsettled(c) = {}
        /\ Eligible(c)
        /\ Last(op) = "none"
        /\ LogEvent(op, "planned")
        /\ order' = Append(order, op)
        /\ UNCHANGED <<via, acquisitions, requests, grants, workers, epoch, crashes>>

Authorize(op, by) ==
    /\ Last(op) = "planned"
    /\ LogEvent(op, "authorized")
    /\ via' = [via EXCEPT ![op] = by]
    /\ UNCHANGED <<order, acquisitions, requests, grants, workers, epoch, crashes>>

AuthorizeByOperator(op) == lock = Free /\ Authorize(op, Operator)

\* A schedule authorizes its frozen operations before its own authorized row.
AuthorizeScheduled(op, g) ==
    /\ lock = Free
    /\ g \in Schedules
    /\ grant[g] = "planned"
    /\ Authorize(op, g)

\* A policy authorizes what it planned while it was due; its window is not
\* looked at again in between.
AuthorizeByPolicy(op, g) ==
    /\ lock = Free
    /\ g \in Policies
    /\ Granted(g)
    /\ window[g] # "early"
    /\ Authorize(op, g)

AuthorizeGrant(g) ==
    /\ lock = Free
    /\ grant[g] = "planned"
    /\ window[g] # "over"
    /\ grant' = [grant EXCEPT ![g] = "authorized"]
    /\ UNCHANGED <<ledgers, window, workers, epoch, crashes>>

RevokeGrant(g) ==
    /\ lock = Free
    /\ grant[g] = "authorized"
    /\ grant' = [grant EXCEPT ![g] = "revoked"]
    /\ UNCHANGED <<ledgers, window, workers, epoch, crashes>>

\* Time passes without anyone's lock.
MoveWindow(g) ==
    /\ window[g] # "over"
    /\ window' = [window EXCEPT ![g] = IF @ = "early" THEN "open" ELSE "over"]
    /\ UNCHANGED <<ledgers, grant, workers, epoch, crashes>>

\* A new package, protocol or flow binding: files change without the lock.
ChangeEnvironment ==
    /\ epoch < MaxEpoch
    /\ epoch' = epoch + 1
    /\ UNCHANGED <<ledgers, grants, workers, crashes>>

\* `claimstone acquire` outside the scheduler: one lock over the whole stage,
\* no request_started rows, and no look at unsettled campaigns.
RoutineAcquire(c, outcome) ==
    /\ lock = Free
    /\ Eligible(c)
    /\ Len(acquisitions[c]) < MaxRows
    /\ LogOutcome(c, Routine, outcome, Attempt(c) + 1)
    /\ UNCHANGED <<events, via, order, requests, grants, workers, epoch, crashes>>

\* A person's file is accepted as the copy of c, under the lock.  Whether c needs
\* one was looked up before the lock was taken, and a copy that was refuted needs
\* one as well: the row may follow an acquired one.
SupplyCopy(c) ==
    /\ lock = Free
    /\ Len(acquisitions[c]) < MaxRows
    /\ LogOutcome(c, Intake, "acquired", Attempt(c) + 1)
    /\ UNCHANGED <<events, via, order, requests, grants, workers, epoch, crashes>>

\* `claimstone regate`, under the lock: the bytes held are judged again, whatever
\* the latest row said of them.  It is no attempt.
Regate(c, campaign, outcome) ==
    /\ lock = Free
    /\ HasRow(c)
    /\ Len(acquisitions[c]) < MaxRows
    /\ LogOutcome(c, campaign, outcome, Attempt(c))
    /\ UNCHANGED <<events, via, order, requests, grants, workers, epoch, crashes>>

-----------------------------------------------------------------------------
(***************************************************************************)
(* A worker.  idle -> scan -> pick -> (execute one operation) -> pick ...  *)
(***************************************************************************)

Goto(w, point) == pc' = [pc EXCEPT ![w] = point]
Take(w, op)    == cur' = [cur EXCEPT ![w] = op]

\* The tick goes on to its next operation, or ends.
NextOperation(w, op) ==
    /\ todo' = [todo EXCEPT ![w] = @ \ {op}]
    /\ Goto(w, IF todo[w] = {op} THEN "idle" ELSE "pick")
    /\ Take(w, NoPlan)

\* The policies materialize first, under the lock; with none authorized they
\* return at once.
TickBegin(w) ==
    /\ pc[w] = "idle"
    /\ lock = Free
    /\ Goto(w, "scan")
    /\ UNCHANGED <<ledgers, grants, lock, todo, cur, epoch, crashes>>

\* Plan order is the order of the planned rows.
Before(a, b) == \E i, j \in 1..Len(order) : i < j /\ order[i] = a /\ order[j] = b
Ready == {op \in Plans : Last(op) \in Unfinished /\ Due(op)}

\* The ledger is read without the lock: another worker may be executing.
TickScan(w) ==
    LET chosen == {op \in Ready : Cardinality({other \in Ready : Before(other, op)}) < MaxOps}
    IN  /\ pc[w] = "scan"
        /\ todo' = [todo EXCEPT ![w] = chosen]
        /\ Goto(w, IF chosen = {} THEN "idle" ELSE "pick")
        /\ UNCHANGED <<ledgers, grants, lock, cur, epoch, crashes>>

\* Mistake: the prior acquisition digest is not compared again.
StateNeverChanged(op) == FALSE

\* The latest row of the candidate is neither this campaign's nor the one its
\* plan was frozen against.
StateChanged(op) ==
    /\ HasRow(op.key)
    /\ Latest(op.key).campaign # op
    /\ Version(op.key) # op.prior

\* Mistake: due time and revocation are only checked when the ready list is made.
RefusedIfStale(op) == \/ op.epoch # epoch
                      \/ StateChanged(op)
                      \/ Last(op) = "failed"

Refused(op) == \/ ~Due(op)
               \/ op.epoch # epoch
               \/ StateChanged(op)
               \/ Last(op) = "failed"

\* Mistake: any outcome row of the candidate is taken for this campaign's.
RecordedByAnyone(op) == HasRow(op.key)

Recorded(op) == HasRow(op.key) /\ Latest(op.key).campaign = op

\* Entry to execute, in plan order: the lock is taken, the ledgers are read again.
Entering(w, op) ==
    /\ pc[w] = "pick"
    /\ lock = Free
    /\ op \in todo[w]
    /\ \A other \in todo[w] : ~Before(other, op)

ReplayCompleted(w, op) ==
    /\ Entering(w, op)
    /\ Last(op) = "completed"
    /\ NextOperation(w, op)
    /\ UNCHANGED <<ledgers, grants, lock, epoch, crashes>>

RefuseExecution(w, op) ==
    /\ Entering(w, op)
    /\ Last(op) # "completed"
    /\ Refused(op)
    /\ Goto(w, "erred")
    /\ Take(w, op)
    /\ UNCHANGED <<ledgers, grants, lock, todo, epoch, crashes>>

\* The checks have passed; time goes on, and the lock is kept.
PassChecks(w, op) ==
    /\ Entering(w, op)
    /\ Last(op) # "completed"
    /\ ~Refused(op)
    /\ lock' = w
    /\ Goto(w, "checked")
    /\ Take(w, op)
    /\ UNCHANGED <<ledgers, grants, todo, epoch, crashes>>

\* A crash fell between unit_completed and completed.
SealInterrupted(w) ==
    /\ pc[w] = "checked"
    /\ Last(cur[w]) = "unit_completed"
    /\ LogEvent(cur[w], "completed")
    /\ lock' = Free
    /\ NextOperation(w, cur[w])
    /\ UNCHANGED <<via, order, acquisitions, requests, grants, epoch, crashes>>

\* A resumed operation has its started event already.
LogStart(op) == IF Last(op) = "authorized" THEN LogEvent(op, "started") ELSE UNCHANGED events

\* The outcome row of this campaign is already there: no second transfer.
Reconcile(w) ==
    /\ pc[w] = "checked"
    /\ Last(cur[w]) \in {"authorized", "started"}
    /\ Recorded(cur[w])
    /\ LogStart(cur[w])
    /\ Goto(w, "settled")
    /\ UNCHANGED <<via, order, acquisitions, requests, grants, lock, todo, cur, epoch, crashes>>

\* A transfer of this campaign began and left no outcome: inspect first.
BlockUnsettled(w) ==
    /\ pc[w] = "checked"
    /\ Last(cur[w]) = "started"
    /\ ~Recorded(cur[w])
    /\ requests[cur[w]] > 0
    /\ LogEvent(cur[w], "failed")
    /\ lock' = Free
    /\ Goto(w, "erred")
    /\ UNCHANGED <<via, order, acquisitions, requests, grants, todo, cur, epoch, crashes>>

\* Mistake: a transfer that was cut short is simply begun again.
RestartTransfer(w) ==
    /\ pc[w] = "checked"
    /\ Last(cur[w]) \in {"authorized", "started"}
    /\ ~Recorded(cur[w])
    /\ LogStart(cur[w])
    /\ Goto(w, "fetch")
    /\ UNCHANGED <<via, order, acquisitions, requests, grants, lock, todo, cur, epoch, crashes>>

StartTransfer(w) ==
    /\ pc[w] = "checked"
    /\ Last(cur[w]) \in {"authorized", "started"}
    /\ ~Recorded(cur[w])
    /\ requests[cur[w]] = 0
    /\ LogStart(cur[w])
    /\ Goto(w, "fetch")
    /\ UNCHANGED <<via, order, acquisitions, requests, grants, lock, todo, cur, epoch, crashes>>

\* A request_started row, appended before the transport it announces.
Request(w) ==
    /\ pc[w] = "fetch"
    /\ requests[cur[w]] < MaxRequests
    /\ requests' = [requests EXCEPT ![cur[w]] = @ + 1]
    /\ UNCHANGED <<events, via, order, acquisitions, grants, workers, epoch, crashes>>

\* Nothing can be acquired without a transfer; a refusal needs none.
RecordOutcome(w, outcome) ==
    LET op == cur[w]
    IN  /\ pc[w] = "fetch"
        /\ outcome = "acquired" => requests[op] > 0
        /\ LogOutcome(op.key, op, outcome, Attempt(op.key) + 1)
        /\ Goto(w, "settled")
        /\ UNCHANGED <<events, via, order, requests, grants, lock, todo, cur, epoch, crashes>>

\* Any exception of the stage: its row is the failed event.
StageError(w) ==
    /\ pc[w] = "fetch"
    /\ LogEvent(cur[w], "failed")
    /\ lock' = Free
    /\ Goto(w, "erred")
    /\ UNCHANGED <<via, order, acquisitions, requests, grants, todo, cur, epoch, crashes>>

CompleteUnit(w) ==
    /\ pc[w] = "settled"
    /\ LogEvent(cur[w], "unit_completed")
    /\ Goto(w, "sealed")
    /\ UNCHANGED <<via, order, acquisitions, requests, grants, lock, todo, cur, epoch, crashes>>

Complete(w) ==
    /\ pc[w] = "sealed"
    /\ LogEvent(cur[w], "completed")
    /\ lock' = Free
    /\ NextOperation(w, cur[w])
    /\ UNCHANGED <<via, order, acquisitions, requests, grants, epoch, crashes>>

\* Mistake: the handler logs the failure without reading the ledger again.
HandleErrorUnread(w) ==
    /\ pc[w] = "erred"
    /\ lock = Free
    /\ LogEvent(cur[w], "failed")
    /\ NextOperation(w, cur[w])
    /\ UNCHANGED <<via, order, acquisitions, requests, grants, lock, epoch, crashes>>

\* Mistake: the handler only reports, so a refused operation stays ready.
HandleErrorReported(w) ==
    /\ pc[w] = "erred"
    /\ lock = Free
    /\ NextOperation(w, cur[w])
    /\ UNCHANGED <<ledgers, grants, lock, epoch, crashes>>

\* The tick's handler: the lock was released when execute raised, so the event
\* ledger is read again before it is blamed on this operation.
HandleError(w) ==
    /\ pc[w] = "erred"
    /\ lock = Free
    /\ IF Last(cur[w]) \in Unfinished
         THEN LogEvent(cur[w], "failed")
         ELSE UNCHANGED events
    /\ NextOperation(w, cur[w])
    /\ UNCHANGED <<via, order, acquisitions, requests, grants, lock, epoch, crashes>>

\* The process is killed: the kernel drops its lock, its memory is gone.
Crash(w) ==
    /\ pc[w] # "idle"
    /\ crashes < MaxCrashes
    /\ crashes' = crashes + 1
    /\ Goto(w, "idle")
    /\ todo' = [todo EXCEPT ![w] = {}]
    /\ Take(w, NoPlan)
    /\ lock' = IF lock = w THEN Free ELSE lock
    /\ UNCHANGED <<ledgers, grants, epoch>>

Execute(w, op) ==
    \/ ReplayCompleted(w, op)
    \/ RefuseExecution(w, op)
    \/ PassChecks(w, op)

Proceed(w) == SealInterrupted(w) \/ Reconcile(w) \/ BlockUnsettled(w) \/ StartTransfer(w)

Transfer(w) ==
    \/ Proceed(w)
    \/ Request(w)
    \/ \E outcome \in Outcomes : RecordOutcome(w, outcome)
    \/ StageError(w)
    \/ CompleteUnit(w)
    \/ Complete(w)

Work(w) == TickBegin(w) \/ TickScan(w) \/ (\E op \in todo[w] : Execute(w, op)) \/ Transfer(w) \/ HandleError(w)

Operate ==
    \/ \E c \in Keys, label \in Labels : PlanAcquire(c, label)
    \/ \E op \in Plans : \/ AuthorizeByOperator(op)
                         \/ \E g \in Grants : AuthorizeScheduled(op, g) \/ AuthorizeByPolicy(op, g)
    \/ \E g \in Grants : AuthorizeGrant(g) \/ RevokeGrant(g) \/ MoveWindow(g)
    \/ ChangeEnvironment
    \/ \E c \in Keys : \/ SupplyCopy(c)
                      \/ \E outcome \in Outcomes : \/ RoutineAcquire(c, outcome)
                                                 \/ \E by \in Regates : Regate(c, by, outcome)

Next == Operate \/ \E w \in Workers : Work(w) \/ Crash(w)

Spec == Init /\ [][Next]_vars

(***************************************************************************)
(* A worker loops until it is stopped, and fcntl.flock is granted to each  *)
(* waiting process in the end, however often others take it in between:    *)
(* strong fairness on the steps that wait for the lock.  Nothing is        *)
(* assumed of people, of time or of crashes, which the bound ends.         *)
(***************************************************************************)
Waiting(w)  == TickBegin(w) \/ (\E op \in todo[w] : Execute(w, op)) \/ HandleError(w)
Finishing(w) ==
    \/ Proceed(w)
    \/ \E outcome \in Outcomes : RecordOutcome(w, outcome)
    \/ StageError(w)
    \/ CompleteUnit(w)
    \/ Complete(w)

Fairness ==
    \A w \in Workers : SF_vars(Waiting(w)) /\ WF_vars(TickScan(w)) /\ WF_vars(Finishing(w))

FairSpec == Spec /\ Fairness

-----------------------------------------------------------------------------
(***************************************************************************)
(* Properties.                                                             *)
(***************************************************************************)

\* Whatever the order in which workers, their error handlers and the operator
\* append, no operation's rows ever make `_events` raise: a single bad
\* transition would block every operation of the project.
LedgerReadable ==
    \A op \in Plans :
        /\ events[op] # <<>> => events[op][1] = "planned"
        /\ \A i \in 1..(Len(events[op]) - 1) : <<events[op][i], events[op][i + 1]>> \in Permitted

\* Every outcome a campaign recorded stands directly after the acquisition row
\* its plan was frozen against, or after a re-gate that wrote that very row again:
\* the digest of the prior row makes execution a compare-and-append, so no two
\* plans ever record against the same row.
OutcomeChain ==
    \A c \in Keys : \A i \in 1..Len(acquisitions[c]) :
        LET by == acquisitions[c][i].campaign
        IN  by \in Plans =>
                /\ by.key = c
                /\ IF i = 1 THEN by.prior = 0
                   ELSE by.prior \in 1..(i - 1) /\ acquisitions[c][by.prior] = acquisitions[c][i - 1]
                /\ \A j \in 1..Len(acquisitions[c]) :
                       acquisitions[c][j].campaign \in Plans /\ j # i =>
                           acquisitions[c][j].campaign.prior # by.prior

\* The event ledger never claims a unit the acquisition ledger does not hold,
\* through every crash between the two appends.
CompletedHasOutcome ==
    \A op \in Plans : Last(op) \in {"unit_completed", "completed"} => op \in Settled(op.key)

\* A transfer that began, left no outcome and has no worker on it.
Stranded(op) ==
    /\ op \in Unsettled(op.key)
    /\ \A w \in Workers : pc[w] = "fetch" => cur[w] # op

\* "An unsettled physical request blocks automatic retry": no worker, resumed
\* or new, sends another request for it or invents its outcome.
StrandedStaysPut ==
    [][\A op \in Plans : Stranded(op) => Stranded(op)' /\ requests'[op] = requests[op]]_vars

\* No request leaves for an operation whose schedule or policy, or the schedule
\* its policy hangs on, is revoked, or before its window opens, however old the
\* worker's ready list and its look at the grants are: a revocation waits for the
\* lock the transfer holds.  A window may close behind that look.
NoRequestUnlessGranted ==
    [][\A op \in Plans : requests'[op] # requests[op] /\ via[op] \in Grants =>
           Granted(via[op]) /\ window[via[op]] # "early"]_vars

\* Every operation a person authorized ends completed or failed, although
\* workers are killed, environments change and other plans overtake it.
AuthorizedSettles ==
    \A op \in Plans :
        (Last(op) = "authorized" /\ via[op] = Operator) ~> (Last(op) \in {"completed", "failed"})

\* The outcome ledger implements the abstract candidate history.
History == INSTANCE CandidateHistory WITH history <- acquisitions
ImplementsHistory == History!Spec
=============================================================================
