-------------------------------- MODULE Outbox --------------------------------
(***************************************************************************)
(* Telling people: notifications.py, notify.py and the notify command.     *)
(*                                                                         *)
(* A drain derives events from the ledgers, records each once, and sends   *)
(* what no channel has taken yet.  It holds the project's lock, so no fact *)
(* changes meanwhile, but time passes and it may be killed between any two *)
(* writes, and between a message and the row about it.                     *)
(***************************************************************************)
EXTENDS Naturals, Sequences, FiniteSets

CONSTANTS Lasting,        \* subjects of states: a plan waiting, a card, a round below its floor
          Passing,        \* subjects of occurrences: a failure, a retry, a host's breaker
          Channels,
          MaxAttempts, RetryAfter,
          SendLimit,      \* messages of one drain
          Unset,
          MaxCount,       \* bound: MaxCount[s]: rows that say s
          MaxTime, MaxDrainKills   \* bounds

Subjects == Lasting \cup Passing

ASSUME OutboxBounds == MaxAttempts \in Nat /\ \A s \in Subjects : MaxCount[s] \in Nat
ASSUME UnsetAssumption == Unset \notin Nat

\* The count is part of what identifies an event.
Events == UNION {{s} \X (1..MaxCount[s]) : s \in Subjects}

\* The service says it took the message, or that it did not (a refusal, a rate limit, a
\* redirect).  Or nobody knows: TIMEOUT, CONNECTION (the connection broke before the reply),
\* an EXCEPTION while the reply was read, a 5xx.  All but SENT are tried again alike.
Outcomes == {"SENT", "FAILED", "UNKNOWN"}

VARIABLES
    fact,      \* fact[s]: how many rows of the ledgers have said it, when that began,
               \* and whether they still support it
    started,   \* the watermark of the outbox, or Unset
    recorded,  \* recorded[e]: when event e occurred, or Unset
    tries,     \* tries[<<e, c>>]: attempts to send event e by channel c: outcome and time
    drain,     \* the command that is running
    received,  \* received[<<e, c>>]: messages that arrived
    now,
    drainKills

outbox == <<fact, started, recorded, tries, drain, received, now, drainKills>>

Asleep == [step |-> "asleep"]

-----------------------------------------------------------------------------
(***************************************************************************)
(* What the ledgers say; the stages that write it wait for the lock.       *)
(***************************************************************************)
Silent(n) == [count |-> n, since |-> 0, live |-> FALSE]

Write(s, f) ==
    /\ drain = Asleep /\ fact' = [fact EXCEPT ![s] = f]
    /\ UNCHANGED <<started, recorded, tries, drain, received, now, drainKills>>

\* A state has no time of its own.  A host's breaker keeps the time of its first row, a
\* candidate's next row has its own.
Times(s) == IF s \in Lasting THEN {0}
            ELSE IF fact[s].live THEN {fact[s].since, now} ELSE {now}

Happen(s) ==
    /\ fact[s].count < MaxCount[s]
    /\ \E since \in Times(s) :
           Write(s, [count |-> fact[s].count + 1, since |-> since, live |-> TRUE])

\* A state is over; an occurrence is no longer the latest of its kind, or its policy is
\* revoked.  A state that comes back is the same event, an occurrence another one.
Cease(s) ==
    /\ fact[s].live
    /\ Write(s, Silent(IF s \in Lasting THEN 0 ELSE fact[s].count))

-----------------------------------------------------------------------------
(***************************************************************************)
(* A drain.                                                                *)
(***************************************************************************)
Boundary == IF started = Unset THEN now ELSE started

Current == {e \in Events : fact[e[1]].live /\ fact[e[1]].count = e[2]}

\* Occurrences newer than the last one recorded.
DerivedAfterLast ==
    {e \in Current : \/ e[1] \in Lasting
                     \/ /\ fact[e[1]].since >= Boundary
                        /\ \A f \in Events : recorded[f] # Unset => fact[e[1]].since > recorded[f]}

\* States always, occurrences since the outbox was started.
Derived == {e \in Current : e[1] \in Lasting \/ fact[e[1]].since >= Boundary}

Begin(channel) ==
    /\ drain = Asleep
    /\ drain' = [step |-> "derived", channel |-> channel, events |-> Derived]
    /\ UNCHANGED <<fact, started, recorded, tries, received, now, drainKills>>

Start ==
    /\ drain.step = "derived"
    /\ started' = Boundary
    /\ drain' = [drain EXCEPT !.step = "started"]
    /\ UNCHANGED <<fact, recorded, tries, received, now, drainKills>>

\* A state is dated by the drain.
Record(e) ==
    /\ drain.step = "started" /\ e \in drain.events /\ recorded[e] = Unset
    /\ recorded' = [recorded EXCEPT ![e] = IF e[1] \in Lasting THEN now ELSE fact[e[1]].since]
    /\ UNCHANGED <<fact, started, tries, drain, received, now, drainKills>>

Sent(e, channel) == \E n \in DOMAIN tries[<<e, channel>>] : tries[<<e, channel>>][n].outcome = "SENT"

\* A message that was sent is tried again like one that was not.
PendingAgain(channel) ==
    {e \in Events : /\ recorded[e] # Unset
                    /\ Len(tries[<<e, channel>>]) < MaxAttempts
                    /\ \A n \in DOMAIN tries[<<e, channel>>] : now - tries[<<e, channel>>][n].at >= RetryAfter}

Pending(channel) ==
    {e \in Events : /\ recorded[e] # Unset /\ ~Sent(e, channel)
                    /\ Len(tries[<<e, channel>>]) < MaxAttempts
                    /\ \A n \in DOMAIN tries[<<e, channel>>] : now - tries[<<e, channel>>][n].at >= RetryAfter}

\* The oldest of what is pending, up to the limit; attempts carry the time of this choice.
Choose ==
    /\ drain.step = "started" /\ \A e \in drain.events : recorded[e] # Unset
    /\ \E batch \in SUBSET Pending(drain.channel) :
           LET rest == Pending(drain.channel) \ batch
           IN  /\ rest # {} => Cardinality(batch) = SendLimit
               /\ Cardinality(batch) <= SendLimit
               /\ \A e \in batch, f \in rest : recorded[e] <= recorded[f]
               /\ drain' = [step |-> "sending", channel |-> drain.channel, moment |-> now, batch |-> batch]
    /\ UNCHANGED <<fact, started, recorded, tries, received, now, drainKills>>

Send(e) ==
    /\ drain.step = "sending" /\ e \in drain.batch
    /\ \E outcome \in Outcomes, arrives \in {0, 1} :
           /\ outcome = "SENT" => arrives = 1
           /\ outcome = "FAILED" => arrives = 0
           /\ received' = [received EXCEPT ![<<e, drain.channel>>] = @ + arrives]
           /\ drain' = [step |-> "sent", channel |-> drain.channel, moment |-> drain.moment,
                        batch |-> drain.batch \ {e}, event |-> e, outcome |-> outcome]
    /\ UNCHANGED <<fact, started, recorded, tries, now, drainKills>>

Attempt ==
    /\ drain.step = "sent"
    /\ tries' = [tries EXCEPT ![<<drain.event, drain.channel>>] =
                     Append(@, [outcome |-> drain.outcome, at |-> drain.moment])]
    /\ drain' = [step |-> "sending", channel |-> drain.channel, moment |-> drain.moment,
                 batch |-> drain.batch]
    /\ UNCHANGED <<fact, started, recorded, received, now, drainKills>>

Finish ==
    /\ drain.step = "sending" /\ drain.batch = {}
    /\ drain' = Asleep
    /\ UNCHANGED <<fact, started, recorded, tries, received, now, drainKills>>

KillDrain ==
    /\ drain # Asleep /\ drainKills < MaxDrainKills
    /\ drain' = Asleep /\ drainKills' = drainKills + 1
    /\ UNCHANGED <<fact, started, recorded, tries, received, now>>

Elapse ==
    /\ now < MaxTime /\ now' = now + 1
    /\ UNCHANGED <<fact, started, recorded, tries, drain, received, drainKills>>

OutboxInit ==
    /\ fact = [s \in Subjects |-> Silent(0)]
    /\ started = Unset
    /\ recorded = [e \in Events |-> Unset]
    /\ tries = [p \in Events \X Channels |-> <<>>]
    /\ received = [p \in Events \X Channels |-> 0]
    /\ drain = Asleep /\ now = 0 /\ drainKills = 0

OutboxNext ==
    \/ \E s \in Subjects : Happen(s) \/ Cease(s)
    \/ \E c \in Channels : Begin(c)
    \/ \E e \in Events : Record(e) \/ Send(e)
    \/ Start \/ Choose \/ Attempt \/ Finish \/ KillDrain \/ Elapse

OutboxSpec == OutboxInit /\ [][OutboxNext]_outbox

-----------------------------------------------------------------------------
\* A person is told of one event again by one channel only after an outcome that may hide an
\* arrival, or after a drain was killed between the message and its row; and never more often
\* than the attempts there are, those the kills hid included (notifications.pending, deliver).
ToldOnce ==
    \A e \in Events, c \in Channels :
        LET rows == tries[<<e, c>>]
            unknown == {n \in DOMAIN rows : rows[n].outcome = "UNKNOWN"}
        IN  /\ received[<<e, c>>] <= 1 + Cardinality(unknown) + drainKills
            /\ Len(rows) <= MaxAttempts

\* Whatever drains were killed before, one that ends has recorded all that waits for a person
\* and every occurrence since the outbox was started that the ledgers still support
\* (notify.derive, notifications.record).
NothingMissed ==
    [][Finish => \A s \in Subjects :
           fact[s].live /\ (s \in Lasting \/ fact[s].since >= started)
               => recorded[<<s, fact[s].count>>] # Unset]_outbox
=============================================================================
