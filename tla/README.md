# Formal models of claimstone

claimstone collects scholarly and web sources for a question, extracts and
reviews claims from them, and refuses to state a verdict that the recorded
evidence does not carry. Its state is a set of append-only JSONL ledgers per
project; everything else is derived by replaying them. What makes the program
hard to get right is not any one function but the discipline around those
ledgers: several processes read and extend them, each may be killed between two
rows, some steps spend money or touch other people's servers, judgements are
made against files that change under them, and nobody may ever edit a row.
These modules model that discipline.

Contents: [inventory](#inventory) · [modules](#modules) ·
[how the models correspond to the code](#how-the-models-correspond-to-the-code) ·
[runs](#runs) · [properties](#properties) · [proofs](#proofs) ·
[findings](#findings) · [not modelled](#not-modelled)

## Inventory

| Part | State it keeps | Operations | What is hard | What makes it correct |
|---|---|---|---|---|
| Ledger store (`store.py`) | ledger files, content-addressed bytes, `.writer.lock` | append, repair, read, store_bytes | kill after any byte; readers without a lock | readers see a prefix; rows never precede their bytes; only a torn row is dropped |
| Scheduler operations (`operations.py`) | `operations.jsonl`: events per frozen plan | plan, authorize, execute, tick | several workers; kill between rows of two ledgers; stale ready lists | the ledger stays readable; an outcome is recorded against the state its plan froze; an interrupted transfer is not repeated |
| Acquisition (`acquire.py`, `resolve.py`) | `acquisitions.jsonl` | should_attempt, run | several campaigns, supplied files and re-gates on one candidate | a held document is not fetched again |
| Advance approvals (`network_schedule.py`, `copy_policy.py`, `retry_policy.py`) | three approval ledgers | plan, authorize, revoke, materialize_due | partial approval; revocation and window against a running materialization; two policies on one candidate | approval in one name, lifetime ceilings, no work under a revoked grant |
| Mandates (`autopilot.py`) | `local_mandates.jsonl` | enable, disable, tick | a pass that dies half way | a restart does not restore the allowance |
| Model queue (`model_call.py`) | requests and results per lane and batch | write, drain, rejudge | answers on disk before the operation ledger knows | no answer is paid for twice |
| Bounded transport (`net.py`, `request_log.py`, `provider_limits.py`) | `requests.jsonl`, shared `starts.jsonl`, per-run counters | get, redirects, robots, provider_slot | counters across restarts and hops | no request beyond the frozen ceiling |
| Supervisor and runtime (`scheduler_supervisor.py`, `worker_runtime.py`) | heartbeat files, a lock per worker key | scan_once, Beacon | two workers, a paused one | one process per key, never a false ALIVE |
| Control server (`control.py`) | sessions, login budget, idempotency keys in memory | login, POST routes | concurrent requests, expiry, eviction | a double click executes once; no more than the limit of wrong passwords |
| Operators and accounts (`operators.py`, `account_service.py`, `auth_events.py`) | operator event ledger | add, grant, revoke, recover | recovery codes, last administrator | nobody acts with a revoked grant |
| Notifications (`notifications.py`, `notify.py`) | outbox with attempts | record, pending, deliver | kill between sending and recording | at least once, bounded attempts, backoff |
| Flows and scope (`flows.py`, `scope.py`) | `flows.jsonl` | create, bind, rebind | binding after data exists | work only under a current binding |
| Periodic dossiers (`periodic*.py`) | dossier ledgers | plan, finalize, export | finalizing twice, stale snapshot | one dossier per window |
| Discovery (`discover.py`, `searchers.py`, `snowball.py`) | `queries.jsonl`, `candidates.jsonl`, hits | run, reclassify | partial searches, duplicates | a failed query is not an empty one |
| Intake and selection (`intake.py`, `population.py`, `source_selection.py`) | decisions on sources | record, replace | optimistic digests | a decision rests on what its author saw |
| Evidence gates (`admissibility.py`, `round_state.py`, `synthesize.py`) | none: functions of the ledgers | collapse, preview, build | denominators | no verdict under the floors |
| Claims and review (`extract.py`, `review.py`, `claimgate.py`, `numbers.py`, `decisions.py`) | claims, reviews, adjudications | build, harvest, gate | stale chunk sets | a quotation is in its source |
| Full text (`fulltext.py`, `normalize.py`, parsers, `chunk.py`) | documents, chunks | classify, parse, chunk | large texts | pure functions |
| Read-only views (`round_state.py`, `portal_state.py`, `journey.py`) | none: functions of the ledgers | steps, cards, tracker | the same question answered by several functions | a step never claims more than the ledgers show; nothing to do means nothing is left |
| Project authoring (`wizard_drafts.py`, `new_project_service.py`, `project_builder.py`) | drafts with revisions | save, publish | concurrent drafts | publish once |
| Exports (`export.py`, `periodic_export.py`) | directories of copies, the rows about them | snapshot, verify, export | a kill between the rename and its row; two exports at once | a package is whole, written once, and cut where its dossier is the last |
| Dashboard, API schema | none | rendering | – | write nothing |
| Command line (`cli.py`), runners, web front end | none | – | – | hold the project lock around a writing stage |

How they interact: every process calls `Store` directly, and the project writer
lock (`flock`, reentrant in a thread) is the only coordination. A person plans
and authorizes operations through the command line or the control server; a
worker or the supervisor ticks, which first lets the policies materialize, then
executes authorized operations one at a time; a mandate's pass holds the lock
for its whole length and plans, authorizes and executes drains itself. An
executing operation holds the lock, writes its event rows to one ledger and its
effects to another, and everyone else reads both whenever they like.

`PROJECT.json` lists the same parts with the files they come from and how far
each is modelled, and under `hazards` what is hard to test in each, at its line.

## Modules

| Module | Models | State |
|---|---|---|
| `Operations` | `operations.py` for the acquire stage, with its workers | events per plan, acquisition rows, request rows, grants and their windows, lock, one program counter per worker |
| `CandidateHistory` | what acquisition promises, without workers, plans' events or locks: transfers, supplied copies, re-judgements | outcomes and attempts per candidate |
| `OperationsProofs` | theorems about `Operations` | – |
| `PaidDrain` | drain stages, mandates and the model queue | rows of each drain, answers of each call, the process that holds the lock |
| `Allowance` | what a paid budget promises its owner | ceiling, reserved, committed per budget |
| `LedgerStore` | `store.py` byte by byte | files, blobs, one program counter per writer |
| `RowLog` | what a ledger is to the holder of the lock | a sequence of rows |
| `Approvals` | schedules, copy and retry policies | operations, grants, windows, what the lock's holder is at |
| `Desk` | `intake.py` and `decisions.py`: files, references, identity answers, purchase offers | intake rows, copies, offers, what each thread of the server is at |
| `Outbox` | `notifications.py` and the notify command | what the ledgers support, events recorded, attempts, the clock, the drain that runs |
| `Fetcher` | the bounded transport of every project of a machine | request and failure rows per project, the shared schedule of starts and its lock, the clock; per process its fetcher's count, robots cache and the request it is at |
| `FetcherProofs` | theorems about `Fetcher` | – |
| `ApprovalsProofs` | theorems about `Approvals` | – |
| `PaidDrainProofs` | theorems about `PaidDrain`, `Allowance` | – |
| `ControlProofs` | theorems about `Accounts`, `Control`, `Authoring` | – |
| `OfficeProofs` | theorems about `Outbox`, `Desk`, `LedgerStore`, `RowLog` | – |
| `SourcesProofs` | theorems about `Seeking`, `Exports` | – |
| `EvidenceProofs` | theorems about `Cascade`, `Screening`, `Claims`, `Round`, `Journey` | – |
| `Accounts` | the ledger of people, `operators.py` | what its rows say of each id, how many there are, whether the last one is torn |
| `Control` | the server in front of it, `control.py`: sessions, login budgets, idempotency keys | extends `Accounts` with sessions, keys, what each thread is at, the clock |
| `Authoring` | wizard drafts to a project on disk | drafts, what each tab was shown, directories, the creation under way |
| `Claims` | documents, chunks, extraction and review queues, the gate | generations of chunks, calls, answers, records and reviews |
| `Round` | a round over `Claims`: copies, floors, registry, profiles, flows, signing | extends `Claims` with candidates, copies, the project's files, the stored profile, flows, verdicts |
| `Journey` | the pages derived from a round: steps, cards, tracker | none: functions of `Round`'s state |
| `Seeking` | how works become candidates: `discover.py`, `population.py`, the classes of `classify.py`, the pages of `searchers.py` | the project's files, frozen populations, rows per candidate, hits, rows of queries, the command under way |
| `Screening` | `source_selection.py` and the import of screening plans | two ledgers of observations; each importer's plan and what it still appends |
| `Cascade` | one source's acquisition: `resolve.py`, `acquire.py`, `fulltext.py`, leads of `web_locator.py` | the candidate, its rows, leads and the policy about their hosts, the acquisition under way |
| `Exports` | `export.py`, `periodic_dossier.py`, `periodic_export.py` | how far the ledgers go, dossiers, directories and the rows about them, the lock, what each process does |

`MC*` modules give the constants small values. `MCOffice`, `MCService`,
`MCEvidence` and `MCSources` compose modules whose states do not touch within one
run and move one *scene* at a time: a scene lets the actions of one part of the system step
and leaves the rest as it began. The scenes of `MCOperations` bound the same
module in different places: few rows with approvals, more rows without.
`MCOperations`, `MCFetcher` and `MCEvidence` serve two configurations each. Extensions carry the composition that matters: `Control`
acts on the ledger of `Accounts`, `Round` holds and judges what `Claims` reads,
`Journey` shows what `Round` keeps, and `MCService` has the command line write
the ledger that the server reads.

## How the models correspond to the code

**A plan is its own identity.** An operation ID is the digest of its frozen
plan, so in the models an operation *is* the record of what is frozen: key,
label, prior acquisition row (`prior`, its position) and environment (`epoch`).
Comparing digests becomes comparing records, and "planned twice" is one
operation, as in the code.

**Grain.** A step is what no other process can see the middle of, or what a kill
can separate. `plan`, `authorize` and the grants hold the lock from first read
to last row and write one row: one action each. `execute` writes several rows
to several ledgers, so each row is an action of its own (`LogStart` inside
`StartTransfer`, `Request`, `RecordOutcome`, `CompleteUnit`, `Complete`), and
`Crash` may fall between any two. The unlocked read of the ready list
(`TickScan`), the entry to `execute` (`Entering`) and the tick's error handler
(`HandleError`) are three separate steps, because in the code the lock is free
between them. So are the checks on entry (`PassChecks`) and what follows from
them (`Proceed`): the lock is kept, but time passes, so a window may close between
the look at it and the requests. `AuthorizeScheduled` in `Operations` is one operation of a
schedule being approved; how a schedule approves several, and itself last, is
`Approvals`.

**Four writers of one ledger.** `acquisitions.jsonl` is appended to by executed
plans (`RecordOutcome`), by routine runs (`RoutineAcquire`), by the intake of a
file somebody supplies (`SupplyCopy`) and by re-gating (`Regate`). Intake asks
whether a copy is needed before it takes the lock, and a copy that was refuted
needs one as well, so its row may follow an acquired one; a re-gate judges what is
held again and may refuse it. A row says whose it is, what came of it and which
attempt it was. What kind of failure it was is left out: it decides when a
candidate may be tried again, which is time and a person's choice here. What the
code freezes of the ledger is the digest of the latest row, and two re-gates of one
candidate may write the same row twice, so `Version` is the place where that row
first stood. `Regate` may judge any candidate that has a row, whether or not its
bytes are still there, and judges one candidate a step: the code's batch holds the
lock throughout.

**What a worker knows.** `todo` is the ready list it read, `cur` the operation
it executes; both are lost in a crash while ledgers stay and the kernel drops
the lock. `RefuseExecution` raises before `started` was written; `StageError`
raises after, and the stage's own handler writes `failed` under the lock;
`BlockUnsettled` is the refusal of an interrupted transfer, in which `started`
exists and `failed` is written by the stage's handler. All of them pass through
`HandleError`, which takes the lock again and rereads.

**Drains.** `PaidDrain` has one process at the lock at a time: a mandate's pass
(`BeginPass`, then per lane `SkipLane` or `DrivePlan`, `DriveAuthorize` and the
execution) or a worker (`WorkerTake`). Calls are (lane, request, reader): a
local model's answer says nothing about a paid one. A plan freezes the first
never attempted calls and the size of the queue it read, which stands for the
digest of the request file.

**Bytes.** A row in `LedgerStore` is three bytes, two of body and the newline;
that tells a missing row, a torn one, one torn just before its newline and a
whole one apart, which are the cases `without_torn_tail` and `read` separate.
`path.write_bytes` is an emptying step followed by bytes; `os.replace` is one
step. A digest may start out with a truncated file under its name, as the
comment in `store_bytes_at` says earlier versions left behind.

**Requests.** In `Fetcher` an address is a host and whether it is robots.txt;
hosts answer anything at any time. `examine` is the top of the loop in `_get`:
`LoadRobots` puts the page aside (`page`) and makes robots.txt the request at
hand, with a chain of its own, and `Finish` either hands a page back or notes
what became of robots.txt and takes the page up again. The cache keeps, as
`robots_notes` does, why rules are missing: `"absent"` when the host answered
without any, `"local"` when nobody was asked. A process is at the slot in three
steps (`TakeSlot` reads the schedule, `Reserve` writes the start, the answer
gives the lock back) and at a request in two (`LogRequest`, `Send`), because a
kill may fall between them. One process per project, as the project lock has it.

**People and the server.** One rule of `operators.py` reads and writes its
ledger under `.operators.lock`: one step of `Accounts`. The server does not hold
that lock around a request, so a request of `Control` is several steps: it
books an attempt, reads the person, verifies the password (slow, unlocked),
and opens the session. The idempotency store is a record per key with the
request it stands for and whether it is still running; dropping the oldest entry
and forgetting by age are steps, and `Restart` forgets everything in memory. A
torn last row of the ledger is read as the code reads it: the next append
merges with it and nobody signs in.

**Threads over one desk.** Routes of intake and decisions take no project lock
around the whole of what they do. In `Desk` a thread reads, then writes each row
in a step of its own, and another thread or a kill may fall between two.

**What is judged.** In `Claims` a text is a set of chunks with the same words
(answers are stored by the digest of the text and the prompt); a reader's output
is a set of records, and what the gate makes of a record is a function of the
gate's version (`Gate`), so that upgrading the code may convert or refuse what
an older version accepted. Second readings answer one annotation exactly: after
an upgrade the annotation is another one and the old review does not count.
`Round` keeps the profile as `synthesize` stores it and works the live one out
from the same state with the same operators (`Preview`), which is what lets a
property compare a stored verdict with what the evidence says now.

**Pages.** `Journey` has no variable. A page is evaluated in one state, which is
the code's own assumption: `portal_state.py` says that its parts "read the same
ledgers at the same moment", although nothing locks them.

**Time.** A UTC window is *early*, *open* or *over*, and only moves forward; the
delay of a retry is a flag that becomes true. `Fetcher`, `Control` and `Outbox`
have clocks that step by one, for intervals, days, expiry and backoff;
`Authoring` counts days because a directory's name carries one.

## Runs

| Run | Instance and bounds | Properties |
|---|---|---|
| `Operations`, scene *approvals* | 2 workers, 1 candidate, 2 labels, 1 policy, 1 re-gate campaign; 2 plans, 1 request each, 1 crash, `max_operations` 1; nothing is planned and only workers record behind 2 acquisition rows; workers and labels symmetric | `LedgerReadable`, `CompletedHasOutcome`, `StrandedStaysPut`, `NoRequestUnlessGranted` |
| scene *histories* | the same without the policy, 3 acquisition rows | `OutcomeChain`, `ImplementsHistory`, and the four above |
| `OperationsLive` | 2 workers, 1 schedule, 1 label, 1 row, 1 change of environment, 1 crash; no symmetry | `AuthorizedSettles` |
| `PaidDrain` | 1 metered mandate and offers of people on the same budget and on a local reader; 2 calls asked for, 2 planned, 2 attempts at each, 1 answer by hand, 1 crash | `CapHolds`, `NoAnswerBoughtTwice`, `ImplementsAllowance` |
| `PaidRetry` | as `PaidDrain` | refutes `NoBlindRetry` |
| `Office`, scene *store* | 2 writers, a ledger and the audit ledger, 4 rows begun, 2 digests, 3 kills | `ReadersSeeWhole`, `ImplementsRowLog` |
| scenes *approvals*, *attempts* | 2 people (symmetric), 1 schedule of 2 discoveries, 1 candidate, 1 copy and 1 retry policy, 2 operations, 1 or 2 rows, 1 crash | `ScheduleIsWhole`, `CeilingsHold`, `OnePolicyAtATime`, `RevocationHolds` |
| scenes *files*, *references*, *offers* | 2 clerks, 2 papers (one is the work, one is not), 2 references (one alike), 1 work, 2 items, 3 offers at 2 prices, 1 transfer, 1 kill | `SuppliedCopies`, `OneLiveOffer` |
| scene *outbox* | 1 lasting subject, 1 passing subject whose count grows to 2, 1 channel, 2 attempts, 1 kill, time 1 | `ToldOnce`, `NothingMissed` |
| `LedgerStoreLost` | the store alone, same bounds | refutes `NothingAcceptedIsLost` |
| `Fetcher` | 1 project, 2 campaigns of 4 requests, 3 hosts of which 1 is outside the plan and 1 metered without interval, 2 redirects, 1 failure per host; any number of kills | `CeilingHolds`, `RobotsHonoured`, `NoRequestToFailedHost`, `GetEnds` |
| `Providers` | 2 projects (symmetric), 1 metered and 1 plain host, campaigns of 2 requests, interval 1, 3 ticks over 2 days, 1 credit a day | `CreditsHold`, `SpacedStarts` |
| `Service`, scene *ledger* | 2 ids, 1 address, 1 Google account, 2 passwords, 4 rows, torn tails | `DoorsApart`, `AdminRemains` |
| scenes *doors*, *people*, *keys* | 2 threads, 2 session tokens, 2 keys, 2 requests; limits 1 (per id), 2 (per address), 1 (keys held); clock 2; restarts | `LoginCarriesProof`, `KeyStandsForOne` |
| scenes *tabs*, *names* | 2 drafts, 2 tabs of one and 1 of the other, 2 names, 2 texts, 4 revisions, 1 change of day, 1 kill, directories made by hand | `OneProjectPerDraft` |
| `Evidence`, scenes *readings*, *reviews*, *upgrade* | 2 documents, 3 chunks over 2 texts, 2 readers (symmetric; in *reviews* both over one document, or either over a text that two share), 1 record, 3 versions of the gate: two conversions and a rejection | `FinalMeansRead`, and the two of `Journey` |
| scenes *copies*, *corpus*, *protocols* | 2 candidates, 3 acquisition rows for one of them (2 in *corpus*), 6 protocols (floor, class floors, gate or partial, separate or counted copies, reworded, renewed), 1 flow | `StandingVerdictHolds`, `DoneIsDone`, `InboxComplete` |
| `RegateErases` | as `Evidence` | refutes `RegateErases` |
| `Sources`, scene *seeking* | 3 works and a blank result, a paged query of 3 results and a single one, 2 per page, 2 pages, 2 rounds, 3 designs, 2 commands, 1 edit | `PopulationIsFrozen`, `QueryRowsAreHonest` |
| scene *screening* | 2 candidates, 2 importers with 2 plans each; any number of kills | `ChainsReplay` |
| scene *cascade* | 3 kinds of candidate, 10 addresses of every kind, pages that name files, themselves and each other, `MAX_FOLLOWED` 2, 1 lead, 2 acquisitions | `NotACrawl` |
| scene *exports* | 2 processes (symmetric), 2 editions of the files, 3 commands, 1 row of evidence, 1 verdict; any number of kills | `PackagesAreWhole` |

Deadlock is checked nowhere: every instance may stop when its bounds are used up
and people do nothing, which is not an error of the program. What has to go on
is a liveness property instead (`AuthorizedSettles`, `GetEnds`).

**Why the bounds are enough.** The interesting cases need two plans of one
candidate (one overtaking the other), two workers (one in another's critical
section, one in its error handler) and one crash (every later crash meets a
state that one crash already produced, since a restart keeps nothing but the
ledgers). One request per plan suffices to tell a transfer that began from one
that did not. Two acquisition rows let a plan find the row it was frozen on, a
newer one of its own and a newer one of somebody else; three, in scene *histories*, let a
re-gate stand between a row and the plan frozen on it, and repeat itself. In `PaidDrain` a budget
that cannot pay for everybody's calls makes the mandate and a person compete for
it, and two requests over two lanes make drains of one call, of two calls and of
overlapping ones. In the store three kills tear a ledger, interrupt its repair
and tear it again. In `Fetcher` four requests are two pages with their hosts'
robots.txt, so a redirect can reach a host whose rules are unread; one failure
is the last one a host may have. In `Providers` two requests are robots.txt and
one priced page, and one credit a day makes two projects compete for it on
either side of midnight. One candidate is enough for two policies to want the
same one; three offers are a first, its successor and one after a decision. A
limit of one attempt with two threads is the case in which two verifications
could overlap; two keys under a limit of one is the one that evicts. Two
documents that share a text are what makes an answer serve two chunks, and three
rows per candidate hold a success, a failure or re-gate after it and one more.
Two rounds and two commands let a reference found under one population be looked
up again under another; two importers with two plans each prepare against a
ledger the other has moved, twice; a page that names a page that names files is
what could make a crawl; and two processes of which one may stop between a rename
and its row are all that a package can meet, since the lock admits one.
Every property is also broken by a plausible bug placed in the model (the
definitions below "Mistake" in each module and the `mutants` of
`PROJECT.json`), so each one's interesting case occurs within the bounds.

**Fairness** is assumed only in `OperationsLive` and `Fetcher`. In `Fetcher` a
process works on and its requests are answered or time out (weakly fair), a
waited-for slot is granted (strongly fair) and time passes; nothing is assumed
of hosts. In `OperationsLive`, `scheduler worker` and the
supervisor loop until stopped, so a worker's own steps are weakly fair; the
kernel grants a waiting `flock` in the end although others take the lock in
between, so the steps that wait for it (`TickBegin`, entry to `execute`,
`HandleError`) are strongly fair as one. A transfer ends in an outcome or an
error because every request has a timeout. Nothing is assumed of people, of
time, of changes of environment or of crashes. `AuthorizedSettles` speaks of
operations authorized by a person: one under a schedule that is revoked or over
leaves the ready list without any event, and stays authorized for good.

## Properties

Operations and money:

- `LedgerReadable` – no order of appends by workers, error handlers and people
  makes `_events` raise, which would block the whole project.
- `OutcomeChain`, `CompletedHasOutcome` – the frozen digest of the prior row
  makes execution a compare-and-append, and a completed unit has its own
  campaign's row.
- `StrandedStaysPut` – a transfer cut short is never resumed nor given an
  invented outcome. `NoRequestUnlessGranted` – nothing leaves under an approval
  that is revoked by then, or before its window, however old the worker's ready
  list and its look at the grants are. That a window which was open at that look
  is still open at the request is not promised, and not so.
- `AuthorizedSettles` – what a person authorized ends completed or failed.
- `ImplementsHistory` – `Operations` refines `CandidateHistory`: a held document is
  not fetched again and a plan records only on the row it was frozen on, while
  people supply copies and gates judge again at any time.
- `CapHolds`, `ImplementsAllowance` – a mandate's cap and a budget's ceiling hold
  for life; `PaidDrain` refines `Allowance`.
- `NoAnswerBoughtTwice` – an answer on disk is not bought again.

What people do beside the operations:

- `ReadersSeeWhole`, `ImplementsRowLog` – what a reader without the lock and the
  next holder of the lock find after any kill, rows and the bytes they name.
- `ScheduleIsWhole`, `CeilingsHold`, `OnePolicyAtATime`, `RevocationHolds` –
  approvals in advance are whole, in one name, bounded for life and revocable.
- `SuppliedCopies` – a file counts as a candidate's copy only where its title was
  found or somebody said so of that very item, over races of threads and kills.
- `OneLiveOffer` – an approved purchase does not carry over to other terms.
- `ToldOnce`, `NothingMissed` – a message is repeated only where an attempt's
  outcome may hide its arrival or a kill hid the attempt, and no event that the
  ledgers support is skipped by a drain that ends, whatever was killed.

The network:

- `CeilingHolds` – over all restarts of a campaign. `RobotsHonoured`,
  `NoRequestToFailedHost` – at every hop, and at the moment of the request.
  `GetEnds` – whatever hosts redirect to.
- `CreditsHold`, `SpacedStarts` – the schedule that projects share, which no
  project lock protects.

The server and its people:

- `DoorsApart` – the lookups by address and by Google account return the first
  match; there is never a second. `AdminRemains` – somebody can always administer.
- `LoginCarriesProof` – a session never speaks for a password that was not shown,
  although the ledger moves between reading, verifying and opening; after its holder
  has changed the password in it, it is stamped with what was written or with
  something newer, never with something older.
- `KeyStandsForOne` – an idempotency key runs one request and replays its answer,
  unless it was dropped by age, by the limit, by a restart or by a handler that
  raised after it wrote.
- `OneProjectPerDraft` – a draft names the project it made, with what its last
  revision renders to; another one only where a kill hid the first.

The evidence:

- `FinalMeansRead` – a profile that is not provisional describes documents read
  to the end, under today's gate, with another reader's review of each claim.
- `StandingVerdictHolds` – a verdict shown as standing is about the evidence there
  is.
- `DoneIsDone` – a step that says "done" is. `InboxComplete` – signing is offered
  exactly when the engine would accept it, and an empty inbox behind a complete
  search means that the verdict stands. Both are about functions that answer the
  same question from different data; `Overlooked` names the two kinds of source
  for which the tracker waits and no card asks (see [findings](#findings)).

Sources and what leaves:

- `PopulationIsFrozen` – every candidate of a round meets the population the round
  declared, whichever command wrote it and whatever became of the files.
- `QueryRowsAreHonest` – what the row of a query says was returned has its hits and
  its candidates, and a whole depth is the whole.
- `ChainsReplay` – importers with old plans leave chains that can be replayed.
- `NotACrawl` – one acquisition follows at most `MAX_FOLLOWED` addresses that no
  plan held. `PackagesAreWhole` – a package is there whole, once, and cut where its
  dossier was the last.

## Proofs

Eight modules hold the theorems; each `EXTENDS` the modules it is about. A theorem
is about the specification of its component (`Spec`, `ApprovalsSpec`,
`ControlSpec`, `AuthoringSpec`, `SeekingSpec`, `ExportsSpec`, `OutboxSpec`,
`DeskSpec`, `StoreSpec`, `RoundSpec`, `ScreeningSpec`, `CascadeSpec`): the same
initial states and actions that the `MC` modules run one scene at a time. The
bounds that keep TLC finite are constants of the theorems like any other.
Assumptions on constants are named in the module that declares them, and TLC
evaluates them in every run. Wherever an invariant was strengthened by hand, the
strengthening was model-checked before it was proved.

### Operations and the network

`OperationsProofs` proves, for any workers, candidates, labels, grants and
bounds (the two named assumptions of `Operations`: bounds are naturals, and the
special values differ from workers, plans and grants):

| Theorem | States |
|---|---|
| `Invariant` | `Spec => []IInv` |
| `TypeCorrect` | `[]TypeOK`, which includes the request ceiling per campaign |
| `Readable` | `[]LedgerReadable` |
| `ChainedOutcomes` | `[]OutcomeChain` |
| `NoSecondTransfer` | `[]NeverRefetched`: no scheduled or routine outcome stands directly after a row that holds the document |
| `CompletedUnits` | `[]CompletedHasOutcome` |
| `StrandedRequests`, `RequestsAreGranted` | the action properties `StrandedStaysPut`, `NoRequestUnlessGranted` |
| `HistoryImplemented` | the refinement `ImplementsHistory`: `Operations` implements `CandidateHistory` |

None of the state properties is inductive by itself. `IInv` adds

- `Locked`: a worker between its checks and its last row holds the lock;
- `Working`: what such a worker knows: its operation is started (or its unit
  completed), nothing changed since its checks, and while it transfers the latest
  row of its candidate is the one its plan was frozen on, since nobody else can
  append;
- `Sanctioned`: nor can anybody revoke what it works under, and a window that has
  opened never becomes early again;
- `Frozen`: every planned operation's prior row exists and had not acquired the
  document, because planning required an eligible candidate and rows are never
  removed;
- `Numbered`: attempts never go back, and only a re-gate repeats its predecessor's
  number;
- `NeverRefetched`: the property of `NoSecondTransfer`.

With four writers the length of a candidate's rows no longer says whether anything
changed; what the code compares is the digest of the latest row, and that could
come back. It does so only where a re-gate writes the very row it found.
`Numbered` rules out the rest: a transfer's row has a number above all before it,
so a row that a transfer followed never becomes the latest again (lemma
`VersionIsFresh`), and no two plans record against one row. `StartTransfer`
establishes that the version is the plan's (lemma `FreshAgainstPrior`), the lock
keeps it until `RecordOutcome` appends, and with `Frozen` the row appended follows
one that was not acquired: `OutcomeChain` and `NeverRefetched`. Lemmas
`LoggedEvent`, `ReadableEvent`, `DataEvent`, `LoggedRow` and `DataRow` state once
what appending to each ledger does; there is one lemma per action, or per group of
actions that touch the same variables. The action properties and the refinement
rest on lemma `Moves`: every step leaves acquisitions and requests alone,
appends a row from outside (`OutsideRows`), or is one of `StartTransfer`, `Request`
and `RecordOutcome`; each of these maps to a step of `CandidateHistory` or to a
stutter.

`FetcherProofs` proves, for any projects, campaigns and hosts and every value of
the limits (assumptions: limits are naturals, a day has a length, sets of hosts
are hosts, `None` is none of them):

| Theorem | States |
|---|---|
| `Invariant`, `TypeCorrect` | `[]IInv`, `[]TypeOK` |
| `WithinCeiling` | `[]CeilingHolds` |
| `WithinDay`, `OneAtATime` | `[]CreditsHold`, `[]OneTransferPerSlot` |
| `RulesHonoured` | `[]RobotsHonoured` |
| `FailedHostsLeftAlone`, `StartsKeepDistance` | the action properties `NoRequestToFailedHost`, `SpacedStarts` |

Its `IInv` says of every process that its fetcher's count is the number of its
campaign's rows (`Counted`), that what was examined of the host still holds
until the request leaves (`Examined`), that it holds the slot from start to
answer (`Holding`), and that what it read of the schedule is still there when it
writes its start (`Informed`). Lemma `Untouched` says once why a step of one
process leaves these of the others alone, `Finished` what the end of a request
leaves, and there is one lemma per action. The action properties follow from
`OnlySendAndReserve`: no other step sends or starts.

### Money and approvals

`ApprovalsProofs`, for any people, discoveries, candidates and grants
(`ApprovalNames`, `ApprovalPlans`, `ApprovalBounds`: names differ, a schedule
is a set of discoveries, ceilings are naturals):

| Theorem | States |
|---|---|
| `Invariant` | `ApprovalsSpec => []IInv` |
| `SchedulesAreWhole`, `WithinCeilings`, `OneAtATime` | `[]ScheduleIsWhole`, `[]CeilingsHold`, `[]OnePolicyAtATime` |
| `RevocationIsFinal` | the action property `RevocationHolds` |

The ceilings are about what is *counted when somebody looks*, rows that follow
later. `Checked` says that what a materialization looked at before its first row
holds until its last, because everybody else waits for the lock; `Approved` says
the same of a person who approves a schedule piece by piece; `Unattached` says
that what nobody authorized hangs on no grant, so that authorizing adds to one
count and takes from none; `Counted` says the ceilings of finite sets, which is
what an inductive step adds to.

`PaidDrainProofs`, for any mandates and terms, offers, budgets and costs
(`TermsAssumption`, `NamesAssumption`, `BoundsAssumption`):

| Theorem | States |
|---|---|
| `TypeCorrect` | types, and that plans are finitely many |
| `CapIsKept` | `[]CapHolds` |
| `AnswersAreBoughtOnce` | `[]NoAnswerBoughtTwice` |
| `NothingAfterAnOverrun` | no row but a failure follows an answer that hid its cost or passed its reservation |
| `AllowanceIsImplemented` | the refinement `ImplementsAllowance`: `PaidDrain` implements `Allowance` |

Calls and cents are sums over operations; the model takes them as sizes of sets of
pairs, so that a sum that grows by one plan is a union with a disjoint set.
`Allowed` ties the pass to the ledger: what it may still plan is what its mandate
has left, and the drain it holds is no larger. `Looked` says that whoever is about
to call saw that the answer was missing, `Formed` what may follow what in a
drain's rows, `OneCeiling` that a budget was always authorized under one ceiling.
For the refinement a step is quiet, logs a row that maps to a stutter, reserves
(`AuthorizationReserves`) or commits inside a reservation (`StartCommits`).

### The server and its people

`ControlProofs` is about `Accounts`, `Control` and `Authoring`, for any people,
threads, tokens, keys, limits and ages, and any drafts, tabs and names
(`AbsentAssumption`, `RequestAssumption`, `SpanAssumption`, `HandsAssumption`,
`TabsAssumption`):

| Theorem | States |
|---|---|
| `LedgerDoors` | `DoorsApart` and `AdminRemains` of the ledger under any rules by any writers |
| `TypeCorrect`, `DoorsStayApart`, `AdminStays` | types, `DoorsApart`, `AdminRemains` with a server in front of it |
| `SessionsCarryProof` | `[]LoginCarriesProof` |
| `KeysStandForOne` | `[]KeyStandsForOne` |
| `ProjectsAreTold` | `AuthoringSpec => []OneProjectPerDraft` |

The invariant behind the sessions is about credentials that are *dated*: a row that
sets one salts it with its own number (`LedgerDated`), so a credential read earlier
is the ledger's exactly as long as nobody set another (`RowKept`, by rule). With
it, `RequestsFit` says of every request what its step knows of its person
(`Knows`), that whoever holds the ledger's credential knows whether a new password
is owed (`Owes`), that it acts for the person of its session (`Bound`), and what a
change of password leaves between its rows: a session stamped with an older
credential (`Changing`), and a ledger that says what was written or something newer
(`Stands`), so that the restamp never goes back; `SessionsHold` says the same of a
session. A new session's token is one that no session and no request
carries: tokens are random.

For the keys, `KeyHolds` says of a key that was never dropped that at most one
thread works under it, that its entries stand for that thread's request, and that
it ran as often as the thread's place says. Entries are found by position in a
list that others grow and shrink; lemmas `Piece`, `OneRemoved` and `Fewer` say what
such a list keeps, and `OneKey` that a step under one key touches no other.

For drafts, `Underway` says that what the creation under way took from its draft is
still so, `Finished` that a created draft's project is on disk and says what the
draft said, `Counted` that projects no row tells of are at most the kills.

### Papers, messages and bytes

`OfficeProofs` is about `Outbox`, `Desk` and `LedgerStore` (`OutboxBounds`,
`UnsetAssumption`, `DeskAssumption`, `AuditAssumption`, `WritersAssumption`,
`RowsAssumption`):

| Theorem | States |
|---|---|
| `OutboxInvariant`, `PeopleAreToldOnce`, `NothingIsMissed` | `[]OutboxInv`, `[]ToldOnce`, the action property `NothingMissed` |
| `DeskInvariant`, `CopiesAreSupplied`, `OffersLiveAlone` | `[]DeskInv`, `[]SuppliedCopies`, `[]OneLiveOffer` |
| `StoreInvariant`, `ReadersAreSafe` | `[]StoreInv`, `[]ReadersSeeWhole` |
| `LedgersAreLogs` | the refinement `ImplementsRowLog`: each ledger implements `RowLog` |

In the outbox, what reached a channel and no attempt accounts for is the message
of the drain under way (`Unwritten`) or of one that was killed (`Told`); attempts
whose outcome may hide an arrival are counted apart (`Doubtful`). At the
desk `Sits` says what a thread knows of its item at each of its steps, `CopyOf`
and `Shown` what an item's rows and copies say of each other. In the store the
invariant is about what a ledger *will be*: `Will(l)` is its file and what the
holder of the lock still owes it. That is lines, each row numbered once and with
its bytes on disk (`Legible`), and it does not change while the bytes are written;
a kill cuts it off within a line. Steps therefore leave it alone, renew it by a
line, or cut it off (`Same`, `Renews`, `CutsOff`), which is also the case
distinction of the refinement.

### From what is found to a verdict

`SourcesProofs` is about `Seeking` and `Exports` (`ServiceAssumption`,
`FactsAssumption`), `EvidenceProofs` about `Cascade`, `Screening` and about
`Claims`, `Round` and `Journey` (`AddressAssumption`, `BatchAssumption`,
`DocumentsAssumption`, `ProtocolAssumption`, `CardsAssumption`):

| Theorem | States |
|---|---|
| `SeekingInvariant`, `OnePopulation`, `QueriesAreHonest` | `[]SeekingInv`, `[]PopulationIsFrozen`, `[]QueryRowsAreHonest` |
| `WholePackages` | `ExportsSpec => []PackagesAreWhole` |
| `NoCrawl` | `CascadeSpec => []NotACrawl` |
| `ObservationsReplay` | `ScreeningSpec => []ChainsReplay` |
| `FinalIsRead`, `StandingHolds` | `RoundSpec => []FinalMeansRead`, `[]StandingVerdictHolds` |
| `DoneIsAlwaysDone`, `InboxIsComplete` | `RoundSpec => []DoneIsDone`, `[]InboxComplete` |

A command of discovery carries the population its round froze (`Working`), and
what it has of an answer is the beginning of it, dealt with up to where it is
(`Answered`). A package's name says where it was cut, and that stays true while
dossiers are added (`Grounded`).

In a cascade no plan names an address from a page (`PlanHasStops`), so until a page
is read for its files there is none on the route; then there are the files of that
one page, which `DepositedFiles` cuts to `MAX_FOLLOWED` (`FewFiles`,
`FilesGoNext`), and asking an address only moves it along (`RouteGoesOn`). The
model selects from sequences by place (`SelectAt`), a recursive function, and
lemma `Selected` says that a selection holds nothing the sequence does not.

Importers read the ledgers, are overtaken, and append what they found new.
`ScreeningInv` says that the ledgers replay, that one importer at most is between
its look under the lock and its last row (`OneWriter`), and that what it still has
to append follows from what is there now (`QueuesFollow`): `WritesFirst` is the
step that takes the first of it off and keeps the rest following.

A round's properties relate what a profile claims to what the ledgers, the files
and the gate say. `EvidenceInv` is about the ledgers alone: they are typed, every
decision was the gate's of that version (`DecidedByGates`), no reader reviewed
himself (`ReviewedByOthers`), a partial profile was signed as supported only
(`PartialIsSupported`). The properties then follow in the state: lemma
`CollapseIsRule` says that the code's fold over acquisition rows is the rule stated
over all of them (a least counterexample in place of an induction), `FinalHolds`,
`SufficientMeets` and `WholeReaches` what a final profile, a sufficient reading and
a whole population come to, and `NothingLeft` that the inbox and the engine agree.

The types, `NoSecondTransfer`, the `OneAtATime` of `FetcherProofs`,
`NothingAfterAnOverrun` and the invariants themselves are proved although no run
spends a property on them.

**Only model-checked**: `AuthorizedSettles` and `GetEnds`, since liveness under
fairness is out of the prover's reach. Every other property of a passing run is
the statement of a theorem. Not proved either is what the theorems do not say: no
theorem is about two components at once beyond what one module extends of another,
and what a function computes (the order of a plan, the split of a rate) is known
only through the properties above. Induction over data was avoided where the code
folds over rows: by least counterexamples (`CollapseIsRule`, `Selected`) or by
stating the rule of a row by its place and not by what came of the rest.

## Findings

1. **A paid call can be repeated without inspection** (`PaidRetry`). `execute`
   looks for `call_started` only in its own operation's rows. A mandate killed
   between `call_started` and the answer freezes another drain once the queue
   has changed, and starts the call again; `scheduler_operations.md:116` and
   `:158-159` say a missing result blocks the retry.
2. **Repairing a torn ledger can lose accepted rows** (`LedgerStoreLost`).
   `write_bytes` empties the file first; a kill before it is written back drops
   rows that readers had accepted, against the docstring at `store.py:203-204`.
3. **A refused re-gate does not erase a supplied copy** (`RegateErases`). The row
   of a re-gate is known by `regated_from`, which copies the earlier row's
   `fetched_at`; for a copy a person supplied that is None, and the refusal is
   read as a failed retry, against the docstring of `collapse`
   (`admissibility.py:43-46`).

Met while modelling, without a run of their own:

- An unsettled request blocks planning, not execution: two plans of one
  candidate frozen before either ran are both executed
  (`operations.py:719`; `scheduler_operations.md:89-91`).
- A robots.txt that was refused locally (outside the plan, an exhausted host, a
  circle) counts as permission (`net.py:375`; `DESIGN_DECISIONS.md:5103`, D139).
- `count` is part of a notification's identity, so a state that only grows is
  told again (`host_breaker_open`, `round_below_floor`); and a kill between a
  message and its attempt row sends "the same occurrence twice", against
  `docs/contracts/notifications.md:37`. So does an attempt after which nobody knows
  whether the message arrived, since all but SENT are tried again alike: TIMEOUT,
  CONNECTION (`notifications.py:416-418`, `:563-571`), the EXCEPTION of a reply that
  cannot be read (`:294`) and a 5xx. `ToldOnce` excepts exactly these.
- A handler that raises after it wrote (a draft's row, then the profile read again:
  `control.py:967-973`) frees its idempotency key (`:608-612`), so the client's
  repetition writes again.
- An acquired row does not close a candidate's history: a supplied copy may follow
  it (`intake.py:392`) and a refused re-gate too (`gate_audit.py:252`), after which
  the candidate is fetched again. A re-gate that finds what it found before writes
  the same row, whose digest a plan frozen before it still accepts.
- A torn last row of the ledger of people merges with the next append
  (`operators.py:67`), after which nobody can sign in. `Accounts` models it.
- Two threads of intake may both accept for one candidate (`intake.py:371`), and
  an identity answer that is interrupted can leave an item REJECTED or
  POSSIBLE_VERSION beside the copy it brought; an upload killed after quarantine
  makes later uploads of the same bytes DUPLICATE.
- A deferred purchase offer can only be declined or superseded.
- A kill between the rename and `mark_created` leaves a draft open and a second
  project possible (`project_builder.py:500`); renaming onto a directory made by
  hand raises without a `create_failed` row.
- Under `supplied_copies: separate`, the default, a candidate whose only rows
  were supplied by people keeps `awaiting_acquire` blocking: no card shows it and
  the round never becomes final. A candidate classified after an UNCLASSIFIED
  attempt is not retried on a routine run and has no card either. These two are
  `Overlooked`.
- The step "annotate" counts readings of the *stored* profile while a round is
  refused, so it can say "done" with newer chunks unread; and the claim of
  `portal_state.py:692-693` that the tracker cannot split a population the floor
  panel judges fails under `separate`.
- A row re-gated takes provenance and date from the latest row, not from the one
  it re-judges (`gate_audit.py:227`); a session is restamped with whatever
  credential the ledger holds by then, so that one which an administrator set in
  between is inherited by the session that it should have ended, without its debt
  of a new password (`control.py:2190-2192`); a partial approval cannot be
  completed by another person (`network_schedule.py:133`).
- What is created is not always what was seen: the digest `create` compares covers
  the protocol, not the project's name, so a page that showed one name creates
  under the name another tab saved since (`new_project_service.py:176-178` against
  line 188; D127 acknowledges it of the description).
- An outage of a service of metadata reads as an answer that names nothing: the
  candidate ends without locations and a routine run does not come back
  (`resolve.py:99`, `acquire.py:308`). A candidate's own wall that a service names
  is ranked with the rest (`resolve.py:307`); PMC addresses that end in `/pdf/`, and
  deposited files and leads on that host, bypass the Europe PMC route; deposited
  files are not compared with addresses already asked.
- A lead keeps the decision of its first observation (`web_locator.py:182`), and a
  decision of a `--policy-file` is fetched too, against the first lines of
  `tools/locate_web_copies.py`.
- Looking up citations again may overwrite a manifest's row, its declared class
  included (`discover.py:315-321`). The total of a paged search is checked per
  page only.
- Identity rows are checked against each question's inventory, so two questions of
  one scope with different inventories block each other.
- An export that was killed, or refused for a changed copy, leaves a directory that
  every later request takes for the export (`export.py:310`), never completed nor
  recorded, against "prints `exists <export_id>` and writes nothing" in
  `docs/contracts/exports.md`; two concurrent ones of one identity may both write
  and both append. A copy selection is read from the live ledgers after they were
  cut. `Exports` models these for flows; its property is about packages.

## Not modelled

- **Stages.** Of `execute`'s stages, acquire and the two drains are modelled row
  by row; a discovery is one step in `Approvals`; normalize, build, harvest and
  synthesize run under the same lock and event rows and appear in `Claims` and
  `Round` as the step they are to everybody else.
- **Acquiring** is one nondeterministic outcome in `Operations` and `Round`; how it
  comes about is `Cascade`, where the transport in turn is a body or a failure.
- **The acquisition ledger's other hands.** `acquire.reuse_cached`, which only
  `tools/prepare_research_round.py` calls, and the classes of failures, which
  decide when a candidate may be tried again.
- **Outbox.** A message an API says it refused (FAILED, REFUSED, RATE_LIMITED, a
  redirect) is taken not to have arrived. An occurrence that the next row of its
  candidate supersedes, or whose policy is revoked, before any drain looked is
  never derived (`notify.py:166`, `:195`): `Cease` lets any subject fall silent, and
  `NothingMissed` speaks of what the ledgers still support when a drain derives.
- **Fetcher.** A host outside the plan stands for every local refusal of a hop
  (malformed, excluded, an address that is not global); rules allow or deny a
  whole host; the pause between requests, routes without a price and the fetcher
  without a ceiling are left out, and credits belong to one provider.
- **Reads of a ledger** are atomic outside the store; that an unlocked reader
  sees a beginning of it is `ReadersSeeWhole`. Losing rows (finding 2) is not
  carried into the other modules: they assume ledgers that only grow.
- `flock` is trusted, and a kill is assumed not to reorder writes that reached
  the file (no power loss: the code does not call `fsync`).
- In `Approvals` the lock is given back between two candidates of one
  materialization, which the code does not do: the model allows more
  interleavings than the program, and the properties hold for all of them.
- In `Round` a person's file is supplied in one step; the race behind it is
  `Desk`'s. In `Journey` there is one literature question, no operation is in
  flight, ledgers are readable, and the step and card about a flow's own binding
  are left out.
- **Mandates of a series** (several flows under one schedule), retry campaigns, the
  windows of a periodic series, and the audit rows beside a population, a near
  match or a candidate known by its DOI.
- **Hosts and texts.** Searchers' protocols, parsing, chunking, the
  quotation and figure gates, address pinning: functions of large data that a
  small instance says nothing about. A model's or a provider's answer is any
  answer.
- **Rendering**: what exports and dossiers say, HTML, the API's schemas and the React client
  keep no state of the engine.
