----------------------------- MODULE OfficeProofs -----------------------------
(***************************************************************************)
(* What happens beside the operations, for any number of people, threads,  *)
(* works, offers, channels, drains and kills: Outbox, Desk and             *)
(* LedgerStore, each by an inductive invariant of its own.                 *)
(***************************************************************************)
EXTENDS Outbox, Desk, LedgerStore, SequenceTheorems, FiniteSetTheorems, TLAPS

(***************************************************************************)
(* The outbox.  What arrived and no attempt accounts for is a message of   *)
(* the drain under way or one whose drain was killed.                      *)
(***************************************************************************)
Attempts == [outcome: Outcomes, at: Nat]

Drains ==
    {Asleep}
    \union [step: {"derived", "started"}, channel: Channels, events: SUBSET Events]
    \union [step: {"sending"}, channel: Channels, moment: Nat, batch: SUBSET Events]
    \union [step: {"sent"}, channel: Channels, moment: Nat, batch: SUBSET Events,
            event: Events, outcome: Outcomes]

OutboxType ==
    /\ fact \in [Subjects -> [count: Nat, since: Nat, live: BOOLEAN]]
    /\ \A s \in Subjects : fact[s].count <= MaxCount[s] /\ (fact[s].live => fact[s].count > 0)
    /\ started \in Nat \union {Unset}
    /\ recorded \in [Events -> Nat \union {Unset}]
    /\ tries \in [Events \X Channels -> Seq(Attempts)]
    /\ received \in [Events \X Channels -> Nat]
    /\ drain \in Drains
    /\ now \in Nat /\ drainKills \in Nat

Doubtful(rows) == {n \in DOMAIN rows : rows[n].outcome = "UNKNOWN"}
Arrived(rows)  == \E n \in DOMAIN rows : rows[n].outcome = "SENT"
Explained(rows) == Cardinality(Doubtful(rows)) + (IF Arrived(rows) THEN 1 ELSE 0)

\* A message that may have arrived and has no row yet.
Unwritten(d, p) ==
    IF d.step = "sent" /\ p = <<d.event, d.channel>> /\ d.outcome # "FAILED" THEN 1 ELSE 0

Told(p) ==
    /\ Len(tries[p]) <= MaxAttempts
    /\ received[p] <= Explained(tries[p]) + drainKills + Unwritten(drain, p)

MayTry(p) == ~Arrived(tries[p]) /\ Len(tries[p]) < MaxAttempts

Sending(d) ==
    /\ d.step \in {"sending", "sent"} => \A e \in d.batch : MayTry(<<e, d.channel>>)
    /\ d.step = "sent" => d.event \notin d.batch /\ MayTry(<<d.event, d.channel>>)

\* What a drain has derived covers what there is to tell, and so does what it recorded.
Deriving(d) ==
    /\ d.step \in {"derived", "started"} => Derived \subseteq d.events
    /\ d.step \in {"sending", "sent"} => \A e \in Derived : recorded[e] # Unset
    /\ d.step \in {"started", "sending", "sent"} => started # Unset

OutboxInv ==
    /\ OutboxType
    /\ \A p \in Events \X Channels : Told(p)
    /\ Sending(drain)
    /\ Deriving(drain)

-----------------------------------------------------------------------------
LEMMA EventNames ==
    /\ \A e \in Events : \E s \in Subjects : e \in {s} \X (1..MaxCount[s])
    /\ \A s \in Subjects : \A n \in 1..MaxCount[s] : <<s, n>> \in Events
    BY DEF Events

LEMMA DoubtfulFinite ==
    ASSUME NEW rows \in Seq(Attempts)
    PROVE  IsFiniteSet(Doubtful(rows)) /\ Cardinality(Doubtful(rows)) \in Nat
<1>1. IsFiniteSet(1..Len(rows))
    BY FS_Interval
<1>2. Doubtful(rows) \subseteq 1..Len(rows)
    BY DEF Doubtful
<1> QED
    BY <1>1, <1>2, FS_Subset, FS_CardinalityType

\* One more attempt.
LEMMA Tried ==
    ASSUME NEW rows \in Seq(Attempts), NEW row \in Attempts, NEW more, more = Append(rows, row)
    PROVE  /\ more \in Seq(Attempts) /\ Len(more) = Len(rows) + 1
           /\ Arrived(more) <=> Arrived(rows) \/ row.outcome = "SENT"
           /\ Cardinality(Doubtful(more))
                = Cardinality(Doubtful(rows)) + (IF row.outcome = "UNKNOWN" THEN 1 ELSE 0)
<1>1. /\ more \in Seq(Attempts) /\ Len(more) = Len(rows) + 1
      /\ DOMAIN more = 1..Len(rows) + 1 /\ DOMAIN rows = 1..Len(rows) /\ Len(rows) \in Nat
      /\ more[Len(rows) + 1] = row
      /\ \A n \in 1..Len(rows) : more[n] = rows[n]
    OBVIOUS
<1>2. Arrived(more) <=> Arrived(rows) \/ row.outcome = "SENT"
    BY <1>1 DEF Arrived
<1>3. CASE row.outcome = "UNKNOWN"
  <2>1. Doubtful(more) = Doubtful(rows) \union {Len(rows) + 1} /\ Len(rows) + 1 \notin Doubtful(rows)
      BY <1>1, <1>3 DEF Doubtful
  <2> QED
      BY <1>1, <1>2, <1>3, <2>1, DoubtfulFinite, FS_AddElement
<1>4. CASE row.outcome # "UNKNOWN"
  <2>1. Doubtful(more) = Doubtful(rows)
      BY <1>1, <1>4 DEF Doubtful
  <2> QED
      BY <1>1, <1>2, <1>4, <2>1, DoubtfulFinite
<1> QED
    BY <1>3, <1>4

LEMMA OutboxStarts == OutboxInit => OutboxInv
<1> SUFFICES ASSUME OutboxInit PROVE OutboxInv
    OBVIOUS
<1>1. OutboxType
  <2>1. \A s \in Subjects : fact[s].count = 0 /\ ~fact[s].live
      BY DEF OutboxInit, Silent
  <2>2. \A s \in Subjects : fact[s].count <= MaxCount[s] /\ (fact[s].live => fact[s].count > 0)
      BY <2>1, OutboxBounds
  <2> QED
      BY <2>2 DEF OutboxInit, OutboxType, Drains, Silent
<1>2. ASSUME NEW p \in Events \X Channels PROVE Told(p)
  <2>1. tries[p] = <<>> /\ received[p] = 0 /\ drainKills = 0 /\ Len(tries[p]) = 0
      BY DEF OutboxInit
  <2>2. Doubtful(tries[p]) = {} /\ ~Arrived(tries[p])
      BY <2>1 DEF Doubtful, Arrived
  <2>3. Unwritten(drain, p) = 0
      BY DEF OutboxInit, Unwritten, Asleep
  <2>4. Explained(tries[p]) = 0
      BY <2>2, FS_EmptySet DEF Explained
  <2>5. MaxAttempts \in Nat
      BY OutboxBounds
  <2> QED
      BY <2>1, <2>3, <2>4, <2>5 DEF Told
<1>3. Sending(drain) /\ Deriving(drain)
    BY DEF OutboxInit, Sending, Deriving, Asleep
<1> QED
    BY <1>1, <1>2, <1>3 DEF OutboxInv

-----------------------------------------------------------------------------
\* A step that sends nothing and enters no attempt.
LEMMA Untold ==
    ASSUME OutboxInv, UNCHANGED <<tries, received, drainKills>>,
           \/ drain' = drain
           \/ drain.step # "sent" /\ drain'.step # "sent"
    PROVE  \A p \in Events \X Channels : Told(p)'
<1> SUFFICES ASSUME NEW p \in Events \X Channels PROVE Told(p)'
    OBVIOUS
<1>1. Unwritten(drain', p) = Unwritten(drain, p)
    BY DEF Unwritten
<1>2. Told(p)
    BY DEF OutboxInv
<1> QED
    BY <1>1, <1>2 DEF Told, Explained

LEMMA FactMoves ==
    ASSUME OutboxInv, NEW s \in Subjects, Happen(s) \/ Cease(s)
    PROVE  OutboxInv'
<1>1. /\ fact[s] \in [count: Nat, since: Nat, live: BOOLEAN]
      /\ fact[s].count \in Nat /\ fact[s].since \in Nat /\ fact[s].count <= MaxCount[s]
      /\ now \in Nat /\ MaxCount[s] \in Nat
    BY OutboxBounds DEF OutboxInv, OutboxType
<1>2. PICK f \in [count: Nat, since: Nat, live: BOOLEAN] :
        Write(s, f) /\ f.count <= MaxCount[s] /\ (f.live => f.count > 0)
  <2>1. CASE Happen(s)
    <3>1. PICK since \in Times(s) :
            Write(s, [count |-> fact[s].count + 1, since |-> since, live |-> TRUE])
        BY <2>1 DEF Happen
    <3>2. since \in Nat
        BY <1>1 DEF Times
    <3>3. fact[s].count < MaxCount[s]
        BY <2>1 DEF Happen
    <3> DEFINE f == [count |-> fact[s].count + 1, since |-> since, live |-> TRUE]
    <3>4. f \in [count: Nat, since: Nat, live: BOOLEAN] /\ f.count = fact[s].count + 1
        BY <1>1, <3>2
    <3>5. Write(s, f)
        BY <3>1
    <3> HIDE DEF f
    <3> QED
        BY <1>1, <3>3, <3>4, <3>5
  <2>2. CASE Cease(s)
    <3>1. PICK n \in Nat : Write(s, Silent(n)) /\ n <= MaxCount[s]
        BY <1>1, <2>2 DEF Cease
    <3>2. Silent(n) \in [count: Nat, since: Nat, live: BOOLEAN] /\ Silent(n).count = n
          /\ ~Silent(n).live
        BY DEF Silent
    <3> QED
        BY <3>1, <3>2
  <2> QED
      BY <2>1, <2>2
<1>3. /\ drain = Asleep /\ drain' = drain /\ fact' = [fact EXCEPT ![s] = f]
      /\ UNCHANGED <<started, recorded, tries, received, now, drainKills>>
    BY <1>2 DEF Write
<1>4. /\ fact' \in [Subjects -> [count: Nat, since: Nat, live: BOOLEAN]]
      /\ \A t \in Subjects : fact'[t].count <= MaxCount[t] /\ (fact'[t].live => fact'[t].count > 0)
    BY <1>2, <1>3 DEF OutboxInv, OutboxType
<1>5. OutboxType'
    BY <1>3, <1>4 DEF OutboxInv, OutboxType
<1>6. (Sending(drain) /\ Deriving(drain))'
    BY <1>3 DEF Sending, Deriving, Asleep
<1> QED
    BY <1>3, <1>5, <1>6, Untold DEF OutboxInv

LEMMA DrainMoves ==
    ASSUME OutboxInv, (\E c \in Channels : Begin(c)) \/ Start \/ Elapse
    PROVE  OutboxInv'
<1>1. CASE \E c \in Channels : Begin(c)
  <2>1. PICK c \in Channels : Begin(c)
      BY <1>1
  <2>2. Derived \in SUBSET Events
      BY DEF Derived, Current
  <2>3. PICK d \in Drains : d = drain' /\ d.step = "derived" /\ d.events = Derived
      BY <2>1, <2>2 DEF Begin, Drains
  <2>4. OutboxType'
      BY <2>1, <2>3 DEF Begin, OutboxInv, OutboxType
  <2>5. Derived' = Derived
      BY <2>1 DEF Begin, Derived, Current, Boundary
  <2>6. (Sending(drain) /\ Deriving(drain))'
      BY <2>3, <2>5 DEF Sending, Deriving
  <2>7. \A p \in Events \X Channels : Told(p)'
      BY <2>1, <2>3, Untold DEF Begin, Asleep
  <2> QED
      BY <2>4, <2>6, <2>7 DEF OutboxInv
<1>2. CASE Start
  <2>1. PICK d \in Drains : d = drain /\ d.step = "derived"
      BY <1>2 DEF Start, OutboxInv, OutboxType
  <2>2. d \in [step: {"derived", "started"}, channel: Channels, events: SUBSET Events]
      BY <2>1 DEF Drains, Asleep
  <2>3. PICK q \in Drains : /\ q = drain' /\ q.step = "started" /\ q.events = d.events
      BY <1>2, <2>1, <2>2 DEF Start, Drains
  <2>4. Boundary \in Nat /\ started' = Boundary /\ started' # Unset
      BY <1>2, UnsetAssumption DEF Start, Boundary, OutboxInv, OutboxType
  <2>5. OutboxType'
      BY <1>2, <2>3, <2>4 DEF Start, OutboxInv, OutboxType
  <2>6. Derived' = Derived
      BY <1>2, <2>4 DEF Start, Derived, Current, Boundary
  <2>7. (Sending(drain) /\ Deriving(drain))'
      BY <2>1, <2>3, <2>4, <2>6 DEF Sending, Deriving, OutboxInv
  <2>8. \A p \in Events \X Channels : Told(p)'
      BY <1>2, <2>1, <2>3, Untold DEF Start
  <2> QED
      BY <2>5, <2>7, <2>8 DEF OutboxInv
<1>3. CASE Elapse
  <2>1. OutboxType'
      BY <1>3 DEF Elapse, OutboxInv, OutboxType
  <2>2. Derived' \subseteq Derived
    <3> SUFFICES ASSUME NEW e \in Derived' PROVE e \in Derived
        OBVIOUS
    <3>1. PICK s \in Subjects : e \in {s} \X (1..MaxCount[s])
        BY EventNames DEF Derived, Current
    <3>2. fact[s].since \in Nat /\ now \in Nat /\ e[1] = s /\ now' = now + 1 /\ fact' = fact
        BY <1>3, <3>1 DEF Elapse, OutboxInv, OutboxType
    <3>3. Boundary \in Nat /\ Boundary' \in Nat /\ Boundary <= Boundary'
        BY <1>3, <3>2 DEF Boundary, Elapse, OutboxInv, OutboxType
    <3> QED
        BY <3>2, <3>3 DEF Derived, Current
  <2>3. (Sending(drain) /\ Deriving(drain))'
      BY <1>3, <2>2 DEF Elapse, Sending, Deriving, OutboxInv, MayTry
  <2> QED
      BY <1>3, <2>1, <2>3, Untold DEF Elapse, OutboxInv
<1> QED
    BY <1>1, <1>2, <1>3

\* What a step while messages are sent knows.
LEMMA AtSending ==
    ASSUME OutboxInv, NEW d \in Drains, d = drain, d.step \in {"sending", "sent"}
    PROVE  /\ d.channel \in Channels /\ d.moment \in Nat /\ d.batch \in SUBSET Events
           /\ d.step = "sending" => d \in [step: {"sending"}, channel: Channels, moment: Nat, batch: SUBSET Events]
           /\ d.step = "sent" => /\ d.event \in Events /\ d.outcome \in Outcomes
                                 /\ d.event \notin d.batch /\ MayTry(<<d.event, d.channel>>)
           /\ \A e \in d.batch : MayTry(<<e, d.channel>>)
           /\ started # Unset /\ \A e \in Derived : recorded[e] # Unset
    BY DEF OutboxInv, Drains, Asleep, Sending, Deriving

LEMMA Records ==
    ASSUME OutboxInv, NEW e \in Events, Record(e)
    PROVE  OutboxInv'
<1>1. PICK s \in Subjects : e \in {s} \X (1..MaxCount[s])
    BY EventNames
<1>2. e[1] = s /\ fact[s].since \in Nat /\ now \in Nat
    BY <1>1 DEF OutboxInv, OutboxType
<1>3. PICK at \in Nat : recorded' = [recorded EXCEPT ![e] = at]
    BY <1>2 DEF Record
<1>4. OutboxType'
    BY <1>3 DEF Record, OutboxInv, OutboxType
<1>5. Derived' = Derived
    BY DEF Record, Derived, Current, Boundary
<1>6. (Sending(drain) /\ Deriving(drain))'
    BY <1>5 DEF Record, Sending, Deriving, OutboxInv
<1> QED
    BY <1>4, <1>6, Untold DEF Record, OutboxInv

LEMMA Chooses ==
    ASSUME OutboxInv, Choose
    PROVE  OutboxInv'
<1>1. PICK d \in Drains : d = drain /\ d.step = "started"
    BY DEF Choose, OutboxInv, OutboxType
<1>2. d \in [step: {"derived", "started"}, channel: Channels, events: SUBSET Events]
    BY <1>1 DEF Drains, Asleep
<1>3. PICK batch \in SUBSET Pending(d.channel) :
        drain' = [step |-> "sending", channel |-> d.channel, moment |-> now, batch |-> batch]
    BY <1>1 DEF Choose
<1>4. batch \in SUBSET Events /\ now \in Nat
    BY DEF Pending, OutboxInv, OutboxType
<1>5. PICK q \in Drains : /\ q = drain' /\ q.step = "sending" /\ q.channel = d.channel /\ q.batch = batch
    BY <1>2, <1>3, <1>4 DEF Drains
<1>6. \A e \in batch : MayTry(<<e, d.channel>>)
    BY DEF Pending, Sent, MayTry, Arrived
<1>7. OutboxType'
    BY <1>5 DEF Choose, OutboxInv, OutboxType
<1>8. Derived' = Derived /\ Derived \subseteq d.events /\ started # Unset
    BY <1>1 DEF Choose, Derived, Current, Boundary, Deriving, OutboxInv
<1>9. \A e \in d.events : recorded[e] # Unset
    BY <1>1 DEF Choose
<1>10. (Sending(drain) /\ Deriving(drain))'
    BY <1>5, <1>6, <1>8, <1>9 DEF Choose, Sending, Deriving, MayTry
<1> QED
    BY <1>1, <1>5, <1>7, <1>10, Untold DEF Choose, OutboxInv

LEMMA Sends ==
    ASSUME OutboxInv, NEW e \in Events, Send(e)
    PROVE  OutboxInv'
<1>1. PICK d \in Drains : d = drain /\ d.step = "sending"
    BY DEF Send, OutboxInv, OutboxType
<1>2. /\ d \in [step: {"sending"}, channel: Channels, moment: Nat, batch: SUBSET Events]
      /\ e \in d.batch /\ \A f \in d.batch : MayTry(<<f, d.channel>>)
      /\ started # Unset /\ \A f \in Derived : recorded[f] # Unset
    BY <1>1, AtSending DEF Send
<1>3. PICK outcome \in Outcomes, arrives \in {0, 1} :
        /\ outcome = "FAILED" => arrives = 0
        /\ received' = [received EXCEPT ![<<e, d.channel>>] = @ + arrives]
        /\ drain' = [step |-> "sent", channel |-> d.channel, moment |-> d.moment,
                     batch |-> d.batch \ {e}, event |-> e, outcome |-> outcome]
    BY <1>1 DEF Send
<1>4. PICK q \in Drains : /\ q = drain' /\ q.step = "sent" /\ q.channel = d.channel
                          /\ q.batch = d.batch \ {e} /\ q.event = e /\ q.outcome = outcome
    BY <1>2, <1>3 DEF Drains
<1>5. PICK o \in Events \X Channels : o = <<e, d.channel>>
    BY <1>2
<1>6. /\ received[o] \in Nat /\ received' = [received EXCEPT ![o] = received[o] + arrives]
      /\ arrives \in Nat /\ arrives <= Unwritten(q, o)
    BY <1>2, <1>3, <1>4, <1>5 DEF Unwritten, OutboxInv, OutboxType
<1>7. received' \in [Events \X Channels -> Nat]
    BY <1>6 DEF OutboxInv, OutboxType
<1>8. OutboxType'
    BY <1>4, <1>7 DEF Send, OutboxInv, OutboxType
<1>9. Derived' = Derived
    BY DEF Send, Derived, Current, Boundary
<1>10. (Sending(drain) /\ Deriving(drain))'
    BY <1>2, <1>4, <1>9 DEF Send, Sending, Deriving, MayTry
<1>11. ASSUME NEW p \in Events \X Channels
      PROVE  Told(p)'
  <2>1. /\ Told(p) /\ Unwritten(drain, p) = 0 /\ received[p] \in Nat /\ drainKills \in Nat
        /\ Explained(tries[p]) \in Nat
      BY <1>1, DoubtfulFinite DEF Unwritten, Explained, OutboxInv, OutboxType
  <2>2. received'[p] <= received[p] + Unwritten(q, p)
      BY <1>6, <2>1 DEF Unwritten, OutboxInv, OutboxType
  <2>3. Unwritten(q, p) \in Nat /\ received'[p] \in Nat
      BY <1>8 DEF OutboxType, Unwritten
  <2>4. tries' = tries /\ drainKills' = drainKills
      BY DEF Send
  <2> QED
      BY <1>4, <2>1, <2>2, <2>3, <2>4 DEF Told
<1> QED
    BY <1>8, <1>10, <1>11 DEF OutboxInv

LEMMA AttemptIsEntered ==
    ASSUME OutboxInv, Attempt
    PROVE  OutboxInv'
<1>1. PICK d \in Drains : d = drain /\ d.step = "sent"
    BY DEF Attempt, OutboxInv, OutboxType
<1>2. /\ d.channel \in Channels /\ d.moment \in Nat /\ d.batch \in SUBSET Events
      /\ d.event \in Events /\ d.outcome \in Outcomes /\ d.event \notin d.batch
      /\ MayTry(<<d.event, d.channel>>)
      /\ \A e \in d.batch : MayTry(<<e, d.channel>>)
      /\ started # Unset /\ \A f \in Derived : recorded[f] # Unset
    BY <1>1, AtSending
<1>3. PICK row \in Attempts : row = [outcome |-> d.outcome, at |-> d.moment]
    BY <1>2 DEF Attempts
<1>4. PICK p \in Events \X Channels : p = <<d.event, d.channel>>
    BY <1>2
<1>5. tries[p] \in Seq(Attempts)
    BY DEF OutboxInv, OutboxType
<1>6. PICK more : more = Append(tries[p], row)
    OBVIOUS
<1>7. /\ more \in Seq(Attempts) /\ Len(more) = Len(tries[p]) + 1
      /\ Arrived(more) <=> Arrived(tries[p]) \/ row.outcome = "SENT"
      /\ Cardinality(Doubtful(more))
           = Cardinality(Doubtful(tries[p])) + (IF row.outcome = "UNKNOWN" THEN 1 ELSE 0)
    BY <1>5, <1>6, Tried
<1>8. tries' = [tries EXCEPT ![p] = more]
    BY <1>1, <1>3, <1>4, <1>6 DEF Attempt
<1>9. PICK q \in Drains : /\ q = drain' /\ q.step = "sending" /\ q.channel = d.channel
                          /\ q.batch = d.batch
    BY <1>1, <1>2 DEF Attempt, Drains
<1>10. OutboxType'
    BY <1>7, <1>8, <1>9 DEF Attempt, OutboxInv, OutboxType
<1>11. Derived' = Derived
    BY DEF Attempt, Derived, Current, Boundary
<1>12. (Sending(drain) /\ Deriving(drain))'
  <2>1. ASSUME NEW e \in d.batch
        PROVE  MayTry(<<e, d.channel>>)'
    <3>1. <<e, d.channel>> # p /\ <<e, d.channel>> \in Events \X Channels
        BY <1>2, <1>4
    <3>2. tries'[<<e, d.channel>>] = tries[<<e, d.channel>>]
        BY <1>8, <3>1 DEF OutboxInv, OutboxType
    <3> QED
        BY <1>2, <3>2 DEF MayTry
  <2> QED
      BY <1>2, <1>9, <1>11, <2>1 DEF Attempt, Sending, Deriving
<1>13. ASSUME NEW o \in Events \X Channels
       PROVE  Told(o)'
  <2>1. /\ Told(o) /\ received[o] \in Nat /\ drainKills \in Nat
        /\ UNCHANGED <<received, drainKills>> /\ Unwritten(q, o) = 0
      BY <1>9 DEF OutboxInv, OutboxType, Attempt, Unwritten
  <2>2. CASE o = p
    <3>1. tries'[o] = more
        BY <1>8, <2>2 DEF OutboxInv, OutboxType
    <3>2. MayTry(p) /\ Cardinality(Doubtful(tries[p])) \in Nat /\ Len(tries[p]) \in Nat
        BY <1>2, <1>4, <1>5, DoubtfulFinite
    <3>3. row.outcome = d.outcome
        BY <1>3
    <3>4. Unwritten(d, p) = IF d.outcome # "FAILED" THEN 1 ELSE 0
        BY <1>1, <1>4 DEF Unwritten
    <3>5. Len(more) <= MaxAttempts
        BY <1>7, <3>2, OutboxBounds DEF MayTry
    <3>6. Explained(tries[p]) = Cardinality(Doubtful(tries[p]))
        BY <3>2 DEF Explained, MayTry
    <3>7. Explained(more) = Explained(tries[p]) + (IF d.outcome # "FAILED" THEN 1 ELSE 0)
        BY <1>2, <1>7, <3>2, <3>3, <3>6 DEF Explained, MayTry, Outcomes
    <3> HIDE DEF Explained
    <3>8. received[p] <= Explained(tries[p]) + drainKills + (IF d.outcome # "FAILED" THEN 1 ELSE 0)
        BY <1>1, <2>1, <2>2, <3>4 DEF Told
    <3>9. received[p] <= Explained(more) + drainKills + 0
        BY <2>1, <2>2, <3>2, <3>6, <3>7, <3>8
    <3> QED
        BY <1>9, <2>1, <2>2, <3>1, <3>5, <3>9 DEF Told
  <2>3. CASE o # p
    <3>1. tries'[o] = tries[o]
        BY <1>8, <2>3 DEF OutboxInv, OutboxType
    <3>2. Unwritten(d, o) = 0
        BY <1>4, <2>3 DEF Unwritten
    <3> QED
        BY <1>1, <1>9, <2>1, <3>1, <3>2 DEF Told
  <2> QED
      BY <2>2, <2>3
<1> QED
    BY <1>10, <1>12, <1>13 DEF OutboxInv

LEMMA DrainEnds ==
    ASSUME OutboxInv, Finish \/ KillDrain
    PROVE  OutboxInv'
<1>1. /\ drain' = Asleep /\ UNCHANGED <<fact, started, recorded, tries, received, now>>
      /\ \/ drain.step = "sending" /\ drainKills' = drainKills
         \/ drainKills' = drainKills + 1
    BY DEF Finish, KillDrain
<1>2. OutboxType'
    BY <1>1 DEF OutboxInv, OutboxType, Drains
<1>3. (Sending(drain) /\ Deriving(drain))'
    BY <1>1 DEF Sending, Deriving, Asleep
<1>4. ASSUME NEW p \in Events \X Channels
      PROVE  Told(p)'
  <2>1. /\ Told(p) /\ received[p] \in Nat /\ drainKills \in Nat
        /\ Explained(tries[p]) \in Nat
      BY DoubtfulFinite DEF Explained, OutboxInv, OutboxType
  <2>2. Unwritten(drain', p) = 0 /\ Unwritten(drain, p) \in {0, 1}
      BY <1>1 DEF Asleep, Unwritten
  <2>3. drainKills' = drainKills => Unwritten(drain, p) = 0
      BY <1>1, <2>1 DEF Unwritten
  <2> QED
      BY <1>1, <2>1, <2>2, <2>3 DEF Told
<1> QED
    BY <1>2, <1>3, <1>4 DEF OutboxInv

LEMMA OutboxSteps == OutboxInv /\ [OutboxNext]_outbox => OutboxInv'
<1> SUFFICES ASSUME OutboxInv, [OutboxNext]_outbox PROVE OutboxInv'
    OBVIOUS
<1>1. CASE OutboxNext
    BY <1>1, FactMoves, DrainMoves, Records, Chooses, Sends, AttemptIsEntered, DrainEnds
       DEF OutboxNext
<1>2. CASE UNCHANGED outbox
    BY <1>2 DEF outbox, OutboxInv, OutboxType, Told, Sending, Deriving, MayTry, Derived, Current,
                Boundary, Unwritten
<1> QED
    BY <1>1, <1>2

THEOREM OutboxInvariant == OutboxSpec => []OutboxInv
<1> QED
    BY OutboxStarts, OutboxSteps, PTL DEF OutboxSpec

LEMMA Explains ==
    ASSUME OutboxInv
    PROVE  ToldOnce
<1>1. ASSUME NEW e \in Events, NEW c \in Channels
      PROVE  /\ received[<<e, c>>] <= 1 + Cardinality(Doubtful(tries[<<e, c>>])) + drainKills
             /\ Len(tries[<<e, c>>]) <= MaxAttempts
  <2>1. PICK p \in Events \X Channels : p = <<e, c>>
      OBVIOUS
  <2>2. /\ Told(p) /\ received[p] \in Nat /\ drainKills \in Nat
        /\ Cardinality(Doubtful(tries[p])) \in Nat
      BY DoubtfulFinite DEF OutboxInv, OutboxType
  <2>3. Arrived(tries[p]) => Unwritten(drain, p) = 0
    <3>1. PICK d \in Drains : d = drain
        BY DEF OutboxInv, OutboxType
    <3> QED
        BY <3>1, AtSending DEF Unwritten, MayTry
  <2>4. Unwritten(drain, p) \in {0, 1}
      BY DEF Unwritten
  <2> QED
      BY <2>1, <2>2, <2>3, <2>4 DEF Told, Explained
<1> QED
    BY <1>1 DEF ToldOnce, Doubtful

THEOREM PeopleAreToldOnce == OutboxSpec => []ToldOnce
<1> QED
    BY OutboxInvariant, Explains, PTL

THEOREM NothingIsMissed == OutboxSpec => NothingMissed
<1>1. ASSUME OutboxInv, Finish, NEW s \in Subjects,
             fact[s].live, s \in Lasting \/ fact[s].since >= started
      PROVE  recorded[<<s, fact[s].count>>] # Unset
  <2>1. PICK d \in Drains : d = drain /\ d.step = "sending"
      BY <1>1 DEF Finish, OutboxInv, OutboxType
  <2>2. started # Unset /\ \A e \in Derived : recorded[e] # Unset
      BY <1>1, <2>1, AtSending
  <2>3. PICK n \in 1..MaxCount[s] : n = fact[s].count
      BY <1>1, OutboxBounds DEF OutboxInv, OutboxType
  <2>4. PICK e \in Events : e = <<s, n>>
      BY EventNames
  <2>5. e \in Derived
      BY <1>1, <2>2, <2>3, <2>4 DEF Derived, Current, Boundary
  <2> QED
      BY <2>2, <2>3, <2>4, <2>5
<1>2. OutboxInv /\ [OutboxNext]_outbox
        => [Finish => \A s \in Subjects :
              fact[s].live /\ (s \in Lasting \/ fact[s].since >= started)
                  => recorded[<<s, fact[s].count>>] # Unset]_outbox
    BY <1>1
<1> QED
    BY <1>2, OutboxInvariant, PTL DEF OutboxSpec, NothingMissed

-----------------------------------------------------------------------------
(***************************************************************************)
(* The desk.  Items keep what they are, their work and, once they have a   *)
(* row, their bytes; what a thread looked at before a write still holds.   *)
(***************************************************************************)
ItemStates ==
    {"new", "DUPLICATE", "POSSIBLE_VERSION", "REJECTED", "ACCEPTED", "READY", "NEEDS_NEW_ROUND"}

Items == [kind: {"file"}, what: Papers, for: Works, state: ItemStates]
         \union [kind: {"reference"}, what: References, for: Works, state: ItemStates \ {"ACCEPTED"}]

Seats ==
    {AtRest}
    \union [at: {"streamed", "kept", "looked", "identified", "stored", "entered", "said"},
            item: Nat, known: BOOLEAN]
    \union [at: {"confirmed", "identified", "stored", "entered", "said"}, item: Nat]
    \union [at: {"decided"}, item: Nat, to: ItemStates \ {"new", "ACCEPTED"}]
    \union [at: {"offering"}, for: Works, price: Prices]

OfferStates == {"proposed", "approved", "bought_externally", "deferred", "declined", "obsolete"}

OfferRows == [for: Works, price: Prices, state: OfferStates]
CopyRows  == [ok: BOOLEAN, item: Nat]

DeskType ==
    /\ quarantine \subseteq Papers /\ raw \subseteq Papers
    /\ items \in Seq(Items)
    /\ held \in [Works -> Seq(CopyRows)]
    /\ offers \in Seq(OfferRows)
    /\ clerk \in [Clerks -> Seats]

OneAlive == \A i, j \in DOMAIN offers :
    \A w \in Works : i \in Live(w) /\ j \in Live(w) => i = j

Kept(f) == f \in quarantine \union raw

\* What item n is, and that it is what it is taken for.
IsFile(n) == n \in DOMAIN items /\ items[n].kind = "file"
Judgement(n) ==
    \/ Judged[items[n].what][items[n].for] = "same"
    \/ [item |-> n, answer |-> "same_work"] \in answers

InCopies(n) == \E k \in DOMAIN held[items[n].for] : held[items[n].for][k].item = n

Sits(q) ==
    /\ q.at \in {"streamed", "kept", "looked", "identified", "stored", "entered", "said", "confirmed"} =>
         IsFile(q.item)
    /\ q.at = "streamed" /\ q.known => Kept(items[q.item].what)
    /\ q.at \in {"kept", "looked", "identified", "confirmed"} => Kept(items[q.item].what)
    /\ q.at \in {"confirmed"} => [item |-> q.item, answer |-> "same_work"] \in answers
    /\ q.at \in {"identified", "stored"} => Judgement(q.item)
    /\ q.at \in {"stored", "entered", "said"} => items[q.item].what \in raw
    /\ q.at = "entered" => InCopies(q.item)
    /\ q.at = "decided" => q.item \in DOMAIN items /\ items[q.item].state # "new"

\* Every item with a row is kept, and one shown as accepted is a copy.
Shown(n) ==
    items[n].kind = "file" =>
        /\ items[n].state = "ACCEPTED" => InCopies(n)
        /\ items[n].state # "new" => Kept(items[n].what)

CopyOf(w, n) == n # 0 => /\ n \in DOMAIN items /\ items[n].for = w /\ items[n].what \in raw
                         /\ Judgement(n)

DeskInv ==
    /\ DeskType
    /\ OneAlive
    /\ \A t \in Clerks : Sits(clerk[t])
    /\ \A n \in DOMAIN items : Shown(n)
    /\ \A w \in Works : \A k \in DOMAIN held[w] : CopyOf(w, held[w][k].item)


-----------------------------------------------------------------------------
LEMMA RowOf ==
    ASSUME NEW S, NEW s \in Seq(S), NEW n \in DOMAIN s
    PROVE  s[n] \in S
    BY ONLY s \in Seq(S), n \in DOMAIN s

LEMMA RowAdded ==
    ASSUME NEW S, NEW s \in Seq(S), NEW x \in S, NEW more, more = Append(s, x)
    PROVE  /\ more \in Seq(S) /\ DOMAIN s \subseteq DOMAIN more
           /\ \A n \in DOMAIN s : more[n] = s[n]
           /\ Len(s) + 1 \in DOMAIN more /\ more[Len(s) + 1] = x
           /\ \A n \in DOMAIN more : n \in DOMAIN s \/ n = Len(s) + 1
    BY ONLY s \in Seq(S), x \in S, more = Append(s, x)

LEMMA RowReplaced ==
    ASSUME NEW S, NEW s \in Seq(S), NEW n \in DOMAIN s, NEW x \in S,
           NEW more, more = [s EXCEPT ![n] = x]
    PROVE  /\ more \in Seq(S) /\ DOMAIN more = DOMAIN s /\ more[n] = x
           /\ \A m \in DOMAIN s : m # n => more[m] = s[m]
    BY ONLY s \in Seq(S), n \in DOMAIN s, x \in S, more = [s EXCEPT ![n] = x]

\* What no step of the desk takes back.
Growing ==
    /\ \A n \in DOMAIN items :
         /\ n \in DOMAIN items'
         /\ items'[n].kind = items[n].kind /\ items'[n].what = items[n].what
         /\ items'[n].for = items[n].for
         /\ items[n].state # "new" => items'[n].state # "new"
    /\ raw \subseteq raw' /\ answers \subseteq answers'
    /\ quarantine \union raw \subseteq quarantine' \union raw'
    /\ \A w \in Works : \A k \in DOMAIN held[w] : k \in DOMAIN held'[w] /\ held'[w][k] = held[w][k]

LEMMA ItemOf ==
    ASSUME DeskInv, NEW n \in DOMAIN items
    PROVE  /\ items[n] \in Items /\ n \in Nat \ {0} /\ items[n].for \in Works
           /\ items[n].kind \in {"file", "reference"} /\ items[n].state \in ItemStates
           /\ items[n].kind = "file" => items[n].what \in Papers
           /\ items[n].kind = "reference" => items[n].state # "ACCEPTED"
<1>1. items[n] \in Items /\ n \in Nat \ {0}
    BY DEF DeskInv, DeskType
<1> QED
    BY <1>1 DEF Items, ItemStates

LEMMA SeatOf ==
    ASSUME DeskInv, NEW t \in Clerks
    PROVE  clerk[t] \in Seats /\ Sits(clerk[t])
    BY DEF DeskInv, DeskType

LEMMA CopiesStay ==
    ASSUME DeskInv, Growing, NEW n \in DOMAIN items, InCopies(n)
    PROVE  InCopies(n)'
<1>1. items'[n].for = items[n].for /\ items[n].for \in Works
    BY ItemOf DEF Growing
<1> QED
    BY <1>1 DEF Growing, InCopies

LEMMA SitsStays ==
    ASSUME DeskInv, Growing, NEW q, Sits(q)
    PROVE  Sits(q)'
<1>1. \A n \in DOMAIN items :
        /\ n \in DOMAIN items' /\ (IsFile(n) => IsFile(n)')
        /\ items'[n].what = items[n].what
        /\ Kept(items[n].what) => Kept(items[n].what)'
        /\ items[n].what \in raw => items[n].what \in raw'
        /\ Judgement(n) => Judgement(n)'
        /\ items[n].state # "new" => items'[n].state # "new"
    BY DEF Growing, IsFile, Kept, Judgement
<1>2. \A n \in DOMAIN items : InCopies(n) => InCopies(n)'
    BY CopiesStay
<1>3. \A a : a \in answers => a \in answers'
    BY DEF Growing
<1>4. IsFile(q.item) => q.item \in DOMAIN items
    BY DEF IsFile
<1> HIDE DEF InCopies, Judgement, Kept
<1> QED
    BY <1>1, <1>2, <1>3, <1>4 DEF Sits

\* Thread t turns to q, or nobody moves.
LEMMA Seated ==
    ASSUME DeskInv, Growing,
           \/ clerk' = clerk
           \/ \E t \in Clerks : \E q \in Seats : clerk' = [clerk EXCEPT ![t] = q] /\ Sits(q)'
    PROVE  clerk' \in [Clerks -> Seats] /\ \A t \in Clerks : Sits(clerk[t])'
<1>1. CASE clerk' = clerk
  <2>1. ASSUME NEW t \in Clerks
        PROVE  Sits(clerk[t])'
    <3>1. PICK q \in Seats : q = clerk[t] /\ Sits(q)
        BY SeatOf
    <3>2. Sits(q)'
        BY <3>1, SitsStays
    <3> QED
        BY <1>1, <3>1, <3>2
  <2> QED
      BY <1>1, <2>1 DEF DeskInv, DeskType
<1>2. ASSUME NEW t \in Clerks, NEW q \in Seats, clerk' = [clerk EXCEPT ![t] = q], Sits(q)'
      PROVE  clerk' \in [Clerks -> Seats] /\ \A d \in Clerks : Sits(clerk[d])'
  <2>1. clerk' \in [Clerks -> Seats]
      BY <1>2 DEF DeskInv, DeskType
  <2>2. ASSUME NEW d \in Clerks
        PROVE  Sits(clerk[d])'
    <3>1. CASE d = t
        BY <1>2, <3>1 DEF DeskInv, DeskType
    <3>2. CASE d # t
      <4>1. PICK r \in Seats : r = clerk[d] /\ Sits(r)
          BY SeatOf
      <4>2. Sits(r)'
          BY <4>1, SitsStays
      <4>3. clerk'[d] = r
          BY <1>2, <3>2, <4>1 DEF DeskInv, DeskType
      <4> QED
          BY <4>2, <4>3
    <3> QED
        BY <3>1, <3>2
  <2> QED
      BY <2>1, <2>2
<1> QED
    BY <1>1, <1>2

LEMMA ShownStays ==
    ASSUME DeskInv, Growing, NEW n \in DOMAIN items, items'[n].state = items[n].state
    PROVE  Shown(n)'
<1>1. /\ items'[n].kind = items[n].kind /\ items'[n].what = items[n].what
      /\ Kept(items[n].what) => Kept(items[n].what)'
    BY DEF Growing, Kept
<1>2. Shown(n)
    BY DEF DeskInv
<1>3. InCopies(n) => InCopies(n)'
    BY CopiesStay
<1> HIDE DEF InCopies, Kept
<1> QED
    BY <1>1, <1>2, <1>3 DEF Shown

LEMMA CopyStays ==
    ASSUME DeskInv, Growing, NEW w \in Works, NEW n, CopyOf(w, n)
    PROVE  CopyOf(w, n)'
<1>1. n \in DOMAIN items /\ Judgement(n) => Judgement(n)'
    BY DEF Growing, Judgement
<1> QED
    BY <1>1 DEF Growing, CopyOf

LEMMA HeldStays ==
    ASSUME DeskInv, Growing, held' = held
    PROVE  (\A w \in Works : \A k \in DOMAIN held[w] : CopyOf(w, held[w][k].item))'
<1> SUFFICES ASSUME NEW w \in Works, NEW k \in DOMAIN held[w]
             PROVE  CopyOf(w, held[w][k].item)'
    OBVIOUS
<1>1. PICK n : n = held[w][k].item
    OBVIOUS
<1>2. CopyOf(w, n)
    BY <1>1 DEF DeskInv
<1>3. CopyOf(w, n)'
    BY <1>2, CopyStays
<1> QED
    BY <1>1, <1>3

\* A step that leaves items, copies and offers alone.
LEMMA Quietly ==
    ASSUME DeskInv, UNCHANGED <<items, held, offers>>,
           raw \subseteq raw', raw' \subseteq Papers, quarantine' \subseteq Papers,
           quarantine \union raw \subseteq quarantine' \union raw', answers \subseteq answers',
           \/ clerk' = clerk
           \/ \E t \in Clerks : \E q \in Seats : clerk' = [clerk EXCEPT ![t] = q] /\ Sits(q)'
    PROVE  DeskInv'
<1>1. Growing
    BY DEF Growing
<1>2. clerk' \in [Clerks -> Seats] /\ \A t \in Clerks : Sits(clerk[t])'
    BY <1>1, Seated
<1>3. \A n \in DOMAIN items' : Shown(n)'
    BY <1>1, ShownStays
<1>4. (\A w \in Works : \A k \in DOMAIN held[w] : CopyOf(w, held[w][k].item))'
    BY <1>1, HeldStays
<1> QED
    BY <1>2, <1>3, <1>4 DEF DeskInv, DeskType, OneAlive, Live


-----------------------------------------------------------------------------
\* A new item; it has no row yet, or is a reference.
LEMMA ItemComes ==
    ASSUME DeskInv, NEW i \in Items, items' = Append(items, i), i.kind = "file" => i.state = "new",
           UNCHANGED <<quarantine, raw, held, answers, offers>>,
           \/ clerk' = clerk
           \/ \E t \in Clerks : \E q \in Seats : clerk' = [clerk EXCEPT ![t] = q] /\ Sits(q)'
    PROVE  DeskInv'
<1>1. /\ items \in Seq(Items) /\ items' \in Seq(Items) /\ Len(items') = Len(items) + 1
      /\ Len(items) \in Nat
      /\ \A n \in DOMAIN items : n \in DOMAIN items' /\ items'[n] = items[n]
      /\ items'[Len(items) + 1] = i
      /\ \A n \in DOMAIN items' : n \in DOMAIN items \/ n = Len(items) + 1
    BY DEF DeskInv, DeskType
<1>2. Growing
    BY <1>1 DEF Growing
<1>3. clerk' \in [Clerks -> Seats] /\ \A t \in Clerks : Sits(clerk[t])'
    BY <1>2, Seated
<1>4. \A n \in DOMAIN items : Shown(n)'
    BY <1>1, <1>2, ShownStays
<1>5. PICK n : n = Len(items) + 1
    OBVIOUS
<1>6. Shown(n)'
    BY <1>1, <1>5 DEF Shown, InCopies, Kept
<1>7. \A m \in DOMAIN items' : Shown(m)'
    BY <1>1, <1>4, <1>5, <1>6
<1>8. (\A w \in Works : \A k \in DOMAIN held[w] : CopyOf(w, held[w][k].item))'
    BY <1>2, HeldStays
<1>9. OneAlive'
    BY DEF DeskInv, OneAlive, Live
<1> QED
    BY <1>1, <1>3, <1>7, <1>8, <1>9 DEF DeskInv, DeskType

\* An item gets a state.
LEMMA Stated ==
    ASSUME DeskInv, NEW n \in DOMAIN items, NEW s \in ItemStates \ {"new"}, State(n, s),
           s = "ACCEPTED" => IsFile(n) /\ InCopies(n),
           Kept(items[n].what) \/ items[n].state # "new" \/ items[n].kind = "reference",
           UNCHANGED <<quarantine, raw, held, answers, offers>>,
           \E t \in Clerks : \E q \in Seats : clerk' = [clerk EXCEPT ![t] = q] /\ Sits(q)'
    PROVE  DeskInv'
<1>1. items[n] \in Items /\ items \in Seq(Items)
    BY ItemOf DEF DeskInv, DeskType
<1>2. PICK i \in Items : /\ i = [items[n] EXCEPT !.state = s]
                         /\ i.kind = items[n].kind /\ i.what = items[n].what /\ i.for = items[n].for
                         /\ i.state = s
  <2>1. PICK x \in Items : x = items[n]
      BY <1>1
  <2> DEFINE i == [x EXCEPT !.state = s]
  <2>2. CASE x \in [kind: {"file"}, what: Papers, for: Works, state: ItemStates]
    <3>1. i \in Items /\ i.kind = x.kind /\ i.what = x.what /\ i.for = x.for /\ i.state = s
        BY <2>2 DEF Items
    <3> QED
        BY <2>1, <3>1
  <2>3. CASE x \in [kind: {"reference"}, what: References, for: Works,
                    state: ItemStates \ {"ACCEPTED"}]
    <3>1. s # "ACCEPTED"
        BY <2>1, <2>3 DEF IsFile
    <3>2. i \in Items /\ i.kind = x.kind /\ i.what = x.what /\ i.for = x.for /\ i.state = s
        BY <2>3, <3>1 DEF Items
    <3> QED
        BY <2>1, <3>2
  <2> QED
      BY <2>2, <2>3 DEF Items
<1>3. items' = [items EXCEPT ![n] = i]
    BY <1>2 DEF State
<1>4. items' \in Seq(Items) /\ DOMAIN items' = DOMAIN items /\ items'[n] = i
      /\ \A m \in DOMAIN items : m # n => items'[m] = items[m]
    BY <1>1, <1>3
<1>5. Growing
    BY <1>2, <1>4 DEF Growing
<1>6. clerk' \in [Clerks -> Seats] /\ \A t \in Clerks : Sits(clerk[t])'
    BY <1>5, Seated
<1>7. Shown(n)'
  <2>1. Shown(n) /\ (InCopies(n) => InCopies(n)')
      BY <1>5, CopiesStay DEF DeskInv
  <2>2. PICK f : f = items[n].what /\ f = items'[n].what
      BY <1>2, <1>4
  <2>3. Kept(f) => Kept(f)'
      BY DEF Kept
  <2> HIDE DEF InCopies, Kept
  <2>4. IsFile(n) <=> items[n].kind = "file"
      BY DEF IsFile
  <2> QED
      BY <1>2, <1>4, <2>1, <2>2, <2>3, <2>4 DEF Shown
<1>8. \A m \in DOMAIN items : m # n => Shown(m)'
    BY <1>4, <1>5, ShownStays
<1>9. (\A w \in Works : \A k \in DOMAIN held[w] : CopyOf(w, held[w][k].item))'
    BY <1>5, HeldStays
<1> QED
    BY <1>4, <1>6, <1>7, <1>8, <1>9 DEF DeskInv, DeskType, OneAlive, Live

\* Thread t goes on with its item.
LEMMA GoesOn ==
    ASSUME NEW r \in Seats, NEW place,
           \/ r.at \in {"streamed", "kept"} /\ place \in {"kept", "looked"}
           \/ r.at \in {"looked", "confirmed", "identified", "stored", "entered"}
              /\ place \in {"identified", "stored", "entered", "said"}
    PROVE  \E q \in Seats : q = [r EXCEPT !.at = place] /\ q.at = place /\ q.item = r.item
<1> DEFINE q == [r EXCEPT !.at = place]
           Known == [at: {"streamed", "kept", "looked", "identified", "stored", "entered", "said"},
                     item: Nat, known: BOOLEAN]
           Confirmed == [at: {"confirmed", "identified", "stored", "entered", "said"}, item: Nat]
<1>1. r \in Known \/ r \in Confirmed
    BY DEF Seats, AtRest
<1>2. CASE r \in Known
  <2>1. q \in Known /\ q.at = place /\ q.item = r.item
      BY <1>2
  <2> QED
      BY <2>1 DEF Seats
<1>3. CASE r \in Confirmed
  <2>1. place \in {"identified", "stored", "entered", "said"}
      BY <1>3
  <2>2. q \in Confirmed /\ q.at = place /\ q.item = r.item
      BY <1>3, <2>1
  <2> QED
      BY <2>2 DEF Seats
<1> QED
    BY <1>1, <1>2, <1>3

LEMMA RestIsQuiet == AtRest \in Seats /\ Sits(AtRest) /\ Sits(AtRest)'
    BY DEF Seats, AtRest, Sits

LEMMA Uploads ==
    ASSUME DeskInv, NEW t \in Clerks, NEW f \in Papers, NEW w \in Works, Upload(t, f, w)
    PROVE  DeskInv'
<1>1. PICK i \in Items : i = [kind |-> "file", what |-> f, for |-> w, state |-> "new"]
    BY DEF Items, ItemStates
<1>2. PICK known \in BOOLEAN : known <=> f \in quarantine \union raw
    OBVIOUS
<1>3. items \in Seq(Items) /\ Len(items) \in Nat
    BY DEF DeskInv, DeskType
<1>4. PICK n \in Nat : n = Len(items) + 1
    BY <1>3
<1>5. PICK q \in Seats : q = [at |-> "streamed", item |-> n, known |-> known]
    BY DEF Seats
<1>6. clerk' = [clerk EXCEPT ![t] = q]
    BY <1>2, <1>4, <1>5 DEF Upload, Become
<1>7. items' = Append(items, i)
    BY <1>1 DEF Upload
<1>8. n \in DOMAIN items' /\ items'[n] = i
    BY <1>3, <1>4, <1>7
<1>9. IsFile(n)' /\ (known => Kept(items[n].what)')
    BY <1>1, <1>2, <1>8 DEF IsFile, Kept, Upload
<1>10. Sits(q)'
    BY <1>5, <1>8, <1>9 DEF Sits, Kept
<1> QED
    BY <1>1, <1>6, <1>7, <1>10, ItemComes DEF Upload

LEMMA Proposes ==
    ASSUME DeskInv, NEW r \in References, NEW w \in Works, Propose(r, w)
    PROVE  DeskInv'
<1>1. PICK s \in ItemStates \ {"ACCEPTED"} :
        items' = Append(items, [kind |-> "reference", what |-> r, for |-> w, state |-> s])
    BY DeskAssumption DEF Propose, Routed, ItemStates
<1>2. PICK i \in Items : i = [kind |-> "reference", what |-> r, for |-> w, state |-> s]
    BY DEF Items
<1> QED
    BY <1>1, <1>2, ItemComes DEF Propose

LEMMA Keeps ==
    ASSUME DeskInv, NEW t \in Clerks, Keep(t)
    PROVE  DeskInv'
<1>1. PICK r \in Seats : r = clerk[t] /\ Sits(r) /\ r.at = "streamed"
    BY SeatOf DEF Keep, At
<1>2. IsFile(r.item) /\ (r.known => Kept(items[r.item].what)) /\ r.known \in BOOLEAN
    BY <1>1 DEF Sits, Seats, AtRest
<1>3. PICK q \in Seats : q = [r EXCEPT !.at = "kept"] /\ q.at = "kept" /\ q.item = r.item
    BY <1>1, GoesOn
<1>4. clerk' = [clerk EXCEPT ![t] = q]
    BY <1>1, <1>3 DEF Keep, Go, DeskInv, DeskType
<1>5. items[r.item].what \in Papers /\ IsFile(r.item)'
    BY <1>2, ItemOf DEF IsFile, Keep
<1>6. /\ quarantine \subseteq quarantine' /\ quarantine' \subseteq Papers
      /\ items[r.item].what \in quarantine' \union raw
    BY <1>1, <1>2, <1>5 DEF Keep, DeskInv, DeskType, Kept
<1>7. Kept(items[r.item].what)'
    BY <1>6 DEF Kept, Keep
<1>8. Sits(q)'
    BY <1>3, <1>5, <1>7 DEF Sits, Kept
<1> QED
    BY <1>4, <1>6, <1>8, Quietly DEF Keep, DeskInv, DeskType

LEMMA Looks ==
    ASSUME DeskInv, NEW t \in Clerks, Look(t)
    PROVE  DeskInv'
<1>1. PICK r \in Seats : r = clerk[t] /\ Sits(r) /\ r.at = "kept"
    BY SeatOf DEF Look, At
<1>2. IsFile(r.item) /\ Kept(items[r.item].what) /\ r.item \in DOMAIN items
    BY <1>1 DEF Sits, IsFile
<1>3. PICK n \in DOMAIN items : n = r.item
    BY <1>2
<1>4. CASE State(n, "DUPLICATE") /\ Become(t, AtRest)
  <2>1. clerk' = [clerk EXCEPT ![t] = AtRest]
      BY <1>4 DEF Become
  <2> QED
      BY <1>2, <1>3, <1>4, <2>1, RestIsQuiet, Stated DEF Look, ItemStates
<1>5. CASE Go(t, "looked") /\ UNCHANGED items
  <2>1. PICK q \in Seats : q = [r EXCEPT !.at = "looked"] /\ q.at = "looked" /\ q.item = r.item
      BY <1>1, GoesOn
  <2>2. clerk' = [clerk EXCEPT ![t] = q]
      BY <1>1, <1>5, <2>1 DEF Go, DeskInv, DeskType
  <2>3. IsFile(r.item)' /\ Kept(items[r.item].what)'
      BY <1>2, <1>5 DEF IsFile, Kept, Look
  <2>4. Sits(q)'
      BY <2>1, <2>3 DEF Sits, Kept
  <2> QED
      BY <1>5, <2>2, <2>4, Quietly DEF Look, DeskInv, DeskType
<1> QED
    BY <1>1, <1>3, <1>4, <1>5 DEF Look

LEMMA Examines ==
    ASSUME DeskInv, NEW t \in Clerks, Examine(t)
    PROVE  DeskInv'
<1>1. PICK r \in Seats : r = clerk[t] /\ Sits(r) /\ r.at = "looked"
    BY SeatOf DEF Examine, At
<1>2. IsFile(r.item) /\ Kept(items[r.item].what) /\ r.item \in DOMAIN items
    BY <1>1 DEF Sits, IsFile
<1>3. PICK n \in DOMAIN items : n = r.item
    BY <1>2
<1>4. ASSUME NEW s \in {"POSSIBLE_VERSION", "REJECTED"}, State(n, s), Become(t, AtRest)
      PROVE  DeskInv'
  <2>1. clerk' = [clerk EXCEPT ![t] = AtRest]
      BY <1>4 DEF Become
  <2> QED
      BY <1>2, <1>3, <1>4, <2>1, RestIsQuiet, Stated DEF Examine, ItemStates
<1>5. CASE Judged[items[n].what][items[n].for] = "same" /\ Go(t, "identified") /\ UNCHANGED items
  <2>1. PICK q \in Seats : q = [r EXCEPT !.at = "identified"] /\ q.at = "identified" /\ q.item = r.item
      BY <1>1, GoesOn
  <2>2. clerk' = [clerk EXCEPT ![t] = q]
      BY <1>1, <1>5, <2>1 DEF Go, DeskInv, DeskType
  <2>3. IsFile(r.item)' /\ Kept(items[r.item].what)' /\ Judgement(r.item)'
      BY <1>2, <1>3, <1>5 DEF IsFile, Kept, Examine, Judgement
  <2>4. Sits(q)'
      BY <2>1, <2>3 DEF Sits, Kept, Judgement
  <2> QED
      BY <1>5, <2>2, <2>4, Quietly DEF Examine, DeskInv, DeskType
<1> QED
    BY <1>1, <1>3, <1>4, <1>5 DEF Examine

LEMMA Accepts ==
    ASSUME DeskInv, NEW t \in Clerks, Accept(t)
    PROVE  DeskInv'
<1>1. PICK r \in Seats : r = clerk[t] /\ Sits(r) /\ r.at = "identified"
    BY SeatOf DEF Accept, At
<1>2. /\ IsFile(r.item) /\ Kept(items[r.item].what) /\ r.item \in DOMAIN items
      /\ Judgement(r.item)
    BY <1>1 DEF Sits, IsFile
<1>3. PICK n \in DOMAIN items : n = r.item
    BY <1>2
<1>4. CASE State(n, "DUPLICATE") /\ Become(t, AtRest) /\ UNCHANGED raw
  <2>1. clerk' = [clerk EXCEPT ![t] = AtRest]
      BY <1>4 DEF Become
  <2> QED
      BY <1>2, <1>3, <1>4, <2>1, RestIsQuiet, Stated DEF Accept, ItemStates
<1>5. CASE raw' = raw \union {items[n].what} /\ Go(t, "stored") /\ UNCHANGED items
  <2>1. PICK q \in Seats : q = [r EXCEPT !.at = "stored"] /\ q.at = "stored" /\ q.item = r.item
      BY <1>1, GoesOn
  <2>2. clerk' = [clerk EXCEPT ![t] = q]
      BY <1>1, <1>5, <2>1 DEF Go, DeskInv, DeskType
  <2>3. IsFile(r.item)' /\ Judgement(r.item)' /\ items'[r.item].what \in raw'
      BY <1>2, <1>3, <1>5 DEF IsFile, Accept, Judgement
  <2>4. Sits(q)'
      BY <2>1, <2>3 DEF Sits, Judgement
  <2>5. raw \subseteq raw' /\ raw' \subseteq Papers
      BY <1>2, <1>3, <1>5, ItemOf DEF IsFile, DeskInv, DeskType
  <2> QED
      BY <1>5, <2>2, <2>4, <2>5, Quietly DEF Accept, DeskInv, DeskType
<1> QED
    BY <1>1, <1>3, <1>4, <1>5 DEF Accept

LEMMA SaysAccepted ==
    ASSUME DeskInv, NEW t \in Clerks, SayAccepted(t)
    PROVE  DeskInv'
<1>1. PICK r \in Seats : r = clerk[t] /\ Sits(r) /\ r.at = "entered"
    BY SeatOf DEF SayAccepted, At
<1>2. PICK n \in DOMAIN items : n = r.item /\ IsFile(n) /\ items[n].what \in raw /\ InCopies(n)
    BY <1>1 DEF Sits, IsFile
<1>3. PICK q \in Seats : q = [r EXCEPT !.at = "said"] /\ q.at = "said" /\ q.item = n
    BY <1>1, <1>2, GoesOn
<1>4. clerk' = [clerk EXCEPT ![t] = q]
    BY <1>1, <1>3 DEF SayAccepted, Go, DeskInv, DeskType
<1>5. State(n, "ACCEPTED") /\ UNCHANGED <<quarantine, raw, held, answers, offers>>
    BY <1>1, <1>2 DEF SayAccepted
<1>6. IsFile(n)' /\ items'[n].what \in raw'
    BY <1>2, <1>5, ItemOf DEF IsFile, State, DeskInv, DeskType, Items
<1>7. Sits(q)'
    BY <1>3, <1>6 DEF Sits
<1>8. Kept(items[n].what)
    BY <1>2 DEF Kept
<1> QED
    BY <1>2, <1>4, <1>5, <1>7, <1>8, Stated DEF ItemStates

LEMMA Unlinks ==
    ASSUME DeskInv, NEW t \in Clerks, Unlink(t)
    PROVE  DeskInv'
<1>1. PICK r \in Seats : r = clerk[t] /\ Sits(r) /\ r.at = "said"
    BY SeatOf DEF Unlink, At
<1>2. items[r.item].what \in raw
    BY <1>1 DEF Sits
<1>3. quarantine' \subseteq quarantine /\ quarantine \union raw \subseteq quarantine' \union raw'
    BY <1>1, <1>2 DEF Unlink
<1>4. clerk' = [clerk EXCEPT ![t] = AtRest]
    BY DEF Unlink, Become
<1> QED
    BY <1>3, <1>4, RestIsQuiet, Quietly DEF Unlink, DeskInv, DeskType

\* The copy of an item is entered; a stage of another process enters one that is no item's.
LEMMA CopyComes ==
    ASSUME DeskInv, NEW w \in Works, NEW row \in CopyRows,
           held' = [held EXCEPT ![w] = Append(@, row)], CopyOf(w, row.item),
           UNCHANGED <<quarantine, raw, items, answers, offers>>,
           \/ clerk' = clerk
           \/ \E t \in Clerks : \E q \in Seats : clerk' = [clerk EXCEPT ![t] = q] /\ Sits(q)'
    PROVE  DeskInv'
<1>1. PICK s \in Seq(CopyRows) : s = held[w]
    BY DEF DeskInv, DeskType
<1>2. PICK more : more = Append(s, row)
    OBVIOUS
<1>3. /\ more \in Seq(CopyRows)
      /\ DOMAIN s \subseteq DOMAIN more /\ \A k \in DOMAIN s : more[k] = s[k]
      /\ \A k \in DOMAIN more : k \in DOMAIN s \/ more[k] = row
    BY <1>2, RowAdded
<1>4. /\ held' \in [Works -> Seq(CopyRows)] /\ held'[w] = more
      /\ \A v \in Works : v # w => held'[v] = held[v]
    BY <1>1, <1>2, <1>3 DEF DeskInv, DeskType
<1>5. Growing
    BY <1>1, <1>3, <1>4 DEF Growing
<1>6. clerk' \in [Clerks -> Seats] /\ \A t \in Clerks : Sits(clerk[t])'
    BY <1>5, Seated
<1>7. \A n \in DOMAIN items' : Shown(n)'
    BY <1>5, ShownStays
<1>8. ASSUME NEW v \in Works, NEW k \in DOMAIN held'[v]
      PROVE  CopyOf(v, held[v][k].item)'
  <2>1. PICK n : n = held'[v][k].item
      OBVIOUS
  <2>2. CopyOf(v, n)
    <3>1. CASE v = w
        BY <1>1, <1>3, <1>4, <2>1, <3>1 DEF DeskInv
    <3>2. CASE v # w
        BY <1>4, <2>1, <3>2 DEF DeskInv
    <3> QED
        BY <3>1, <3>2
  <2>3. CopyOf(v, n)'
      BY <1>5, <2>2, CopyStays
  <2> QED
      BY <2>1, <2>3
<1> QED
    BY <1>4, <1>6, <1>7, <1>8 DEF DeskInv, DeskType, OneAlive, Live

LEMMA EntersCopy ==
    ASSUME DeskInv, NEW t \in Clerks, EnterCopy(t)
    PROVE  DeskInv'
<1>1. PICK r \in Seats : r = clerk[t] /\ Sits(r) /\ r.at = "stored"
    BY SeatOf DEF EnterCopy, At
<1>2. PICK n \in DOMAIN items : n = r.item /\ IsFile(n) /\ items[n].what \in raw /\ Judgement(n)
    BY <1>1 DEF Sits, IsFile
<1>3. n \in Nat /\ items[n].for \in Works
    BY ItemOf
<1>4. PICK w \in Works : w = items[n].for
    BY <1>3
<1>5. PICK row \in CopyRows : row = [ok |-> TRUE, item |-> n]
    BY <1>3 DEF CopyRows
<1>6. held' = [held EXCEPT ![w] = Append(@, row)] /\ UNCHANGED <<quarantine, raw, items, answers, offers>>
    BY <1>1, <1>2, <1>4, <1>5 DEF EnterCopy
<1>7. CopyOf(w, row.item)
    BY <1>2, <1>4, <1>5 DEF CopyOf
<1>8. PICK q \in Seats : q = [r EXCEPT !.at = "entered"] /\ q.at = "entered" /\ q.item = n
    BY <1>1, <1>2, GoesOn
<1>9. clerk' = [clerk EXCEPT ![t] = q]
    BY <1>1, <1>8 DEF EnterCopy, Go, DeskInv, DeskType
<1>10. InCopies(n)'
  <2>1. PICK s \in Seq(CopyRows) : s = held[w]
      BY DEF DeskInv, DeskType
  <2>2. PICK more : more = Append(s, row)
      OBVIOUS
  <2>3. held'[w] = more
      BY <1>6, <2>1, <2>2 DEF DeskInv, DeskType
  <2>4. Len(s) + 1 \in DOMAIN more /\ more[Len(s) + 1] = row
      BY <2>2, RowAdded
  <2> QED
      BY <1>4, <1>5, <1>6, <2>3, <2>4 DEF InCopies
<1>11. IsFile(n)' /\ items'[n].what \in raw'
    BY <1>2, <1>6 DEF IsFile
<1>12. Sits(q)'
    BY <1>8, <1>10, <1>11 DEF Sits, InCopies
<1> QED
    BY <1>6, <1>7, <1>9, <1>12, CopyComes

LEMMA StageCopies ==
    ASSUME DeskInv, NEW w \in Works, Transfer(w) \/ CheckDocument(w)
    PROVE  DeskInv'
<1>1. ASSUME NEW ok \in BOOLEAN, held' = [held EXCEPT ![w] = Append(@, [ok |-> ok, item |-> 0])], Transfer(w)
      PROVE  DeskInv'
  <2>1. PICK row \in CopyRows : row = [ok |-> ok, item |-> 0]
      BY DEF CopyRows
  <2> QED
      BY <1>1, <2>1, CopyComes DEF Transfer, CopyOf
<1>2. CASE CheckDocument(w)
    BY <1>2, Quietly DEF CheckDocument, DeskInv, DeskType
<1> QED
    BY <1>1, <1>2 DEF Transfer

LEMMA PeopleAnswer ==
    ASSUME DeskInv, NEW t \in Clerks, NEW n \in DOMAIN items, NEW answer \in Answers, Answer(t, n, answer)
    PROVE  DeskInv'
<1>1. /\ answers \subseteq answers' /\ [item |-> n, answer |-> answer] \in answers'
      /\ UNCHANGED <<quarantine, raw, items, held, offers>> /\ items[n].state = "POSSIBLE_VERSION"
    BY DEF Answer
<1>2. n \in Nat /\ Shown(n)
    BY ItemOf DEF DeskInv
<1>3. CASE answer = "not_sure"
  <2>1. ~MakesCopy(items[n].kind, answer)
      BY <1>3 DEF MakesCopy
  <2>2. clerk' = [clerk EXCEPT ![t] = AtRest]
      BY <1>3, <2>1 DEF Answer, Become
  <2> QED
      BY <1>1, <2>2, RestIsQuiet, Quietly DEF DeskInv, DeskType
<1>4. CASE answer # "not_sure" /\ MakesCopy(items[n].kind, answer)
  <2>1. PICK q \in Seats : q = [at |-> "confirmed", item |-> n]
      BY <1>2 DEF Seats
  <2>2. clerk' = [clerk EXCEPT ![t] = q]
      BY <1>4, <2>1 DEF Answer, Become
  <2>3. IsFile(n)' /\ Kept(items[n].what)' /\ [item |-> n, answer |-> "same_work"] \in answers'
      BY <1>1, <1>2, <1>4 DEF MakesCopy, IsFile, Shown, Kept
  <2>4. Sits(q)'
      BY <2>1, <2>3 DEF Sits, Kept
  <2> QED
      BY <1>1, <2>2, <2>4, Quietly DEF DeskInv, DeskType
<1>5. CASE answer # "not_sure" /\ ~MakesCopy(items[n].kind, answer)
  <2>1. PICK to \in ItemStates \ {"new", "ACCEPTED"} : to = Outcome(items[n].kind, answer)
      BY DeskAssumption DEF Outcome, Routed, ItemStates
  <2>2. PICK q \in Seats : q = [at |-> "decided", item |-> n, to |-> to]
      BY <1>2 DEF Seats
  <2>3. clerk' = [clerk EXCEPT ![t] = q]
      BY <1>5, <2>1, <2>2 DEF Answer, Become
  <2>4. n \in DOMAIN items' /\ items'[n].state # "new"
      BY <1>1
  <2>5. Sits(q)'
      BY <2>2, <2>4 DEF Sits
  <2> QED
      BY <1>1, <2>3, <2>5, Quietly DEF DeskInv, DeskType
<1> QED
    BY <1>3, <1>4, <1>5

LEMMA Restates ==
    ASSUME DeskInv, NEW t \in Clerks, Restate(t)
    PROVE  DeskInv'
<1>1. PICK r \in Seats : r = clerk[t] /\ Sits(r) /\ r.at = "decided"
    BY SeatOf DEF Restate, At
<1>2. PICK n \in DOMAIN items : n = r.item /\ items[n].state # "new"
    BY <1>1 DEF Sits
<1>3. PICK s \in ItemStates \ {"new", "ACCEPTED"} : s = r.to
    BY <1>1 DEF Seats, AtRest
<1> QED
    BY <1>1, <1>2, <1>3, RestIsQuiet, Stated DEF Restate, Become

LEMMA Fetches ==
    ASSUME DeskInv, NEW t \in Clerks, Fetch(t)
    PROVE  DeskInv'
<1>1. PICK r \in Seats : r = clerk[t] /\ Sits(r) /\ r.at = "confirmed"
    BY SeatOf DEF Fetch, At
<1>2. CASE Become(t, AtRest)
    BY <1>2, RestIsQuiet, Quietly DEF Become, Fetch, DeskInv, DeskType
<1>3. CASE Go(t, "identified")
  <2>1. PICK q \in Seats : q = [r EXCEPT !.at = "identified"] /\ q.at = "identified" /\ q.item = r.item
      BY <1>1, GoesOn
  <2>2. clerk' = [clerk EXCEPT ![t] = q]
      BY <1>1, <1>3, <2>1 DEF Go, DeskInv, DeskType
  <2>3. IsFile(r.item) /\ Kept(items[r.item].what) /\ Judgement(r.item)
      BY <1>1 DEF Sits, Judgement
  <2>4. UNCHANGED <<quarantine, raw, items, held, answers, offers>>
      BY DEF Fetch
  <2>5. IsFile(r.item)' /\ Kept(items[r.item].what)' /\ Judgement(r.item)'
      BY <2>3, <2>4 DEF IsFile, Kept, Judgement
  <2>6. Sits(q)'
      BY <2>1, <2>5 DEF Sits, Kept, Judgement
  <2> QED
      BY <2>2, <2>4, <2>6, Quietly DEF DeskInv, DeskType
<1> QED
    BY <1>2, <1>3 DEF Fetch

-----------------------------------------------------------------------------
\* Offers change and nothing else the invariant speaks of.
LEMMA OffersMove ==
    ASSUME DeskInv, UNCHANGED <<quarantine, raw, items, held, answers>>,
           offers' \in Seq(OfferRows), OneAlive',
           \/ clerk' = clerk
           \/ \E t \in Clerks : \E q \in Seats : clerk' = [clerk EXCEPT ![t] = q] /\ Sits(q)'
    PROVE  DeskInv'
<1>1. Growing
    BY DEF Growing
<1>2. clerk' \in [Clerks -> Seats] /\ \A t \in Clerks : Sits(clerk[t])'
    BY <1>1, Seated
<1>3. \A n \in DOMAIN items' : Shown(n)'
    BY <1>1, ShownStays
<1>4. (\A w \in Works : \A k \in DOMAIN held[w] : CopyOf(w, held[w][k].item))'
    BY <1>1, HeldStays
<1> QED
    BY <1>2, <1>3, <1>4 DEF DeskInv, DeskType

\* No state an offer gets brings one back to life.
LEMMA OfferGetsState ==
    ASSUME DeskInv, NEW o \in DOMAIN offers, NEW s \in OfferStates,
           offers' = [offers EXCEPT ![o].state = s],
           offers[o].state \in {"obsolete", "declined"} => s \in {"obsolete", "declined"}
    PROVE  offers' \in Seq(OfferRows) /\ OneAlive'
<1>1. PICK x \in OfferRows : x = offers[o]
    BY RowOf DEF DeskInv, DeskType
<1>2. PICK y \in OfferRows : y = [x EXCEPT !.state = s] /\ y.for = x.for /\ y.state = s
  <2> DEFINE y == [x EXCEPT !.state = s]
  <2>1. y \in OfferRows /\ y.for = x.for /\ y.state = s
      BY DEF OfferRows
  <2> QED
      BY <2>1
<1>3. offers' = [offers EXCEPT ![o] = y]
    BY <1>1, <1>2
<1>4. /\ offers' \in Seq(OfferRows)
      /\ DOMAIN offers' = DOMAIN offers /\ offers'[o] = y
      /\ \A p \in DOMAIN offers : p # o => offers'[p] = offers[p]
  <2>1. offers \in Seq(OfferRows)
      BY DEF DeskInv, DeskType
  <2> QED
      BY <1>3, <2>1, RowReplaced
<1>5. \A p \in DOMAIN offers : \A w \in Works : p \in Live(w)' => p \in Live(w)
    BY <1>1, <1>2, <1>4 DEF Live
<1> QED
    BY <1>4, <1>5 DEF OneAlive, DeskInv

LEMMA OffersAreMade ==
    ASSUME DeskInv, NEW t \in Clerks,
           \/ \E w \in Works, price \in Prices : RecordOffer(t, w, price)
           \/ \E o \in DOMAIN offers : Supersede(t, o)
           \/ Offer(t)
    PROVE  DeskInv'
<1>1. ASSUME NEW w \in Works, NEW price \in Prices, RecordOffer(t, w, price)
      PROVE  DeskInv'
  <2>1. PICK q \in Seats : q = [at |-> "offering", for |-> w, price |-> price]
      BY DEF Seats
  <2>2. Sits(q)'
      BY <2>1 DEF Sits
  <2> QED
      BY <1>1, <2>1, <2>2, Quietly DEF RecordOffer, Become, DeskInv, DeskType
<1>2. ASSUME NEW o \in DOMAIN offers, Supersede(t, o)
      PROVE  DeskInv'
  <2>1. offers' \in Seq(OfferRows) /\ OneAlive'
      BY <1>2, OfferGetsState DEF Supersede, OfferStates
  <2> QED
      BY <1>2, <2>1, OffersMove DEF Supersede
<1>3. CASE Offer(t)
  <2>1. PICK r \in Seats : r = clerk[t] /\ r.at = "offering"
      BY <1>3, SeatOf DEF Offer, At
  <2>2. r.for \in Works /\ r.price \in Prices
      BY <2>1 DEF Seats, AtRest
  <2>3. PICK x \in OfferRows :
          x = [for |-> r.for, price |-> r.price, state |-> "proposed"]
      BY <2>2 DEF OfferStates, OfferRows
  <2>4. /\ offers \in Seq(OfferRows)
        /\ offers' = Append(offers, x) /\ Live(r.for) = {}
      BY <1>3, <2>1, <2>3 DEF Offer, DeskInv, DeskType
  <2>5. /\ offers' \in Seq(OfferRows)
        /\ \A p \in DOMAIN offers : p \in DOMAIN offers' /\ offers'[p] = offers[p]
        /\ \A p \in DOMAIN offers' : p \in DOMAIN offers \/ p = Len(offers) + 1
        /\ offers'[Len(offers) + 1] = x
      BY <2>4
  <2>6. ASSUME NEW i \in DOMAIN offers', NEW j \in DOMAIN offers', NEW w \in Works,
               i \in Live(w)', j \in Live(w)'
        PROVE  i = j
    <3>1. CASE w = r.for
        BY <2>4, <2>5, <2>6, <3>1 DEF Live
    <3>2. CASE w # r.for
        BY <2>3, <2>5, <2>6, <3>2 DEF Live, OneAlive, DeskInv
    <3> QED
        BY <3>1, <3>2
  <2>7. OneAlive'
      BY <2>6 DEF OneAlive
  <2>8. clerk' = [clerk EXCEPT ![t] = AtRest]
      BY <1>3 DEF Offer, Become
  <2> QED
      BY <1>3, <2>5, <2>7, <2>8, RestIsQuiet, OffersMove DEF Offer
<1> QED
    BY <1>1, <1>2, <1>3

LEMMA OffersAreDecided ==
    ASSUME DeskInv, NEW o \in DOMAIN offers,
           NEW state \in {"approved", "bought_externally", "deferred", "declined"}, OfferStage(o, state)
    PROVE  DeskInv'
<1>1. offers[o].state \notin {"obsolete", "declined"}
    BY DEF OfferStage, NextByHand, Closed
<1>2. offers' \in Seq(OfferRows) /\ OneAlive'
    BY <1>1, OfferGetsState DEF OfferStage, OfferStates
<1> QED
    BY <1>2, OffersMove DEF OfferStage

LEMMA ServerIsKilled ==
    ASSUME DeskInv, KillServer
    PROVE  DeskInv'
<1>1. Growing
    BY DEF KillServer, Growing
<1>2. clerk' \in [Clerks -> Seats] /\ \A t \in Clerks : Sits(clerk[t])'
    BY RestIsQuiet DEF KillServer, Sits, AtRest
<1>3. \A n \in DOMAIN items' : Shown(n)'
    BY <1>1, ShownStays DEF KillServer
<1>4. (\A w \in Works : \A k \in DOMAIN held[w] : CopyOf(w, held[w][k].item))'
    BY <1>1, HeldStays DEF KillServer
<1> QED
    BY <1>2, <1>3, <1>4 DEF KillServer, DeskInv, DeskType, OneAlive, Live

LEMMA DeskStarts == DeskInit => DeskInv
<1> SUFFICES ASSUME DeskInit PROVE DeskInv
    OBVIOUS
<1>1. clerk \in [Clerks -> Seats] /\ \A t \in Clerks : clerk[t] = AtRest /\ Sits(AtRest)
    BY RestIsQuiet DEF DeskInit
<1> QED
    BY <1>1 DEF DeskInit, DeskInv, DeskType, OneAlive, Sits

LEMMA DeskSteps == DeskInv /\ [DeskNext]_desk => DeskInv'
<1> SUFFICES ASSUME DeskInv, [DeskNext]_desk PROVE DeskInv'
    OBVIOUS
<1>1. ASSUME NEW t \in Clerks, Receiving(t) PROVE DeskInv'
    BY <1>1, Uploads, Keeps, Looks, Examines, Accepts, EntersCopy, SaysAccepted, Unlinks DEF Receiving
<1>2. ASSUME NEW t \in Clerks, Deciding(t) PROVE DeskInv'
    BY <1>2, PeopleAnswer, Restates, Fetches DEF Deciding
<1>3. CASE Buying
    BY <1>3, OffersAreMade, OffersAreDecided DEF Buying
<1>4. CASE UNCHANGED desk
    BY <1>4, Quietly DEF desk, DeskInv, DeskType
<1> QED
    BY <1>1, <1>2, <1>3, <1>4, Proposes, StageCopies, ServerIsKilled DEF DeskNext, Proposing, Staging

\* THE invariant of the desk.
THEOREM DeskInvariant == DeskSpec => []DeskInv
<1> QED
    BY DeskStarts, DeskSteps, PTL DEF DeskSpec

THEOREM CopiesAreSupplied == DeskSpec => []SuppliedCopies
<1>1. DeskInv => SuppliedCopies
    BY DEF DeskInv, SuppliedCopies, CopyOf, Judgement, Shown, InCopies, Kept
<1> QED
    BY <1>1, DeskInvariant, PTL

THEOREM OffersLiveAlone == DeskSpec => []OneLiveOffer
<1>1. ASSUME DeskInv, NEW w \in Works
      PROVE  Cardinality(Live(w)) <= 1
  <2>1. CASE Live(w) = {}
      BY <2>1, FS_EmptySet
  <2>2. ASSUME NEW o \in Live(w)
        PROVE  Cardinality(Live(w)) <= 1
    <3>1. Live(w) = {o}
        BY <1>1, <2>2 DEF DeskInv, OneAlive, Live
    <3> QED
        BY <3>1, FS_Singleton
  <2> QED
      BY <2>1, <2>2
<1>2. DeskInv => OneLiveOffer
    BY <1>1 DEF OneLiveOffer
<1> QED
    BY <1>2, DeskInvariant, PTL

-----------------------------------------------------------------------------
(***************************************************************************)
(* The store.  To the holder of the lock, what a ledger has and what it is *)
(* owed are lines, of which only the last may be unfinished, and only when *)
(* nothing is owed.                                                        *)
(***************************************************************************)
Bytes == Nat \X Nat

Lined(s) ==
    /\ s \in Seq(Bytes)
    /\ \A n \in Nat \ {0} :
         /\ 3 * n - 2 <= Len(s) => \E r \in RowNumbers : s[3 * n - 2] = <<r, 1>>
         /\ 3 * n - 1 <= Len(s) => s[3 * n - 1] = <<s[3 * n - 2][1], 2>>
         /\ 3 * n <= Len(s) => s[3 * n] = NL

Full(s)   == Len(s) \div 3
RowsIn(s) == [n \in 1..Full(s) |-> s[3 * n - 1][1]]

\* Finished rows are numbered, each once, and have their bytes.
Numbered(s) == \A n \in 1..Full(s) : RowsIn(s)[n] \in 1..begun /\ blob[Body[RowsIn(s)[n]]] = "whole"
EachOnce(s) == \A m, n \in 1..Full(s) : RowsIn(s)[m] = RowsIn(s)[n] => m = n

\* Byte i is the first, the second or the last of its line.
LEMMA Thirds ==
    ASSUME NEW i \in Nat \ {0}
    PROVE  \E n \in Nat \ {0} : i = 3 * n - 2 \/ i = 3 * n - 1 \/ i = 3 * n
<1> DEFINE n == (i + 2) \div 3
<1>1. n \in Nat \ {0} /\ (i = 3 * n - 2 \/ i = 3 * n - 1 \/ i = 3 * n)
    OBVIOUS
<1> QED
    BY <1>1

LEMMA Lengths ==
    ASSUME NEW s \in Seq(Bytes)
    PROVE  /\ Len(s) \in Nat /\ Full(s) \in Nat
           /\ 3 * Full(s) <= Len(s) /\ Len(s) < 3 * Full(s) + 3
           /\ \A k \in Nat : 3 * k <= Len(s) => k <= Full(s)
    BY DEF Full

LEMMA LineOf ==
    ASSUME NEW s, Lined(s), NEW n \in Nat \ {0}
    PROVE  /\ 3 * n - 2 <= Len(s) => \E r \in RowNumbers : s[3 * n - 2] = <<r, 1>>
           /\ 3 * n - 1 <= Len(s) => s[3 * n - 1] = <<s[3 * n - 2][1], 2>>
           /\ 3 * n <= Len(s) => s[3 * n] = NL
    BY DEF Lined

LEMMA Triple ==
    ASSUME NEW S, NEW a \in S, NEW b \in S, NEW c \in S, NEW x, x = <<a, b, c>>
    PROVE  x \in Seq(S) /\ Len(x) = 3 /\ x[1] = a /\ x[2] = b /\ x[3] = c
    BY ONLY a \in S, b \in S, c \in S, x = <<a, b, c>>

LEMMA LineEnds ==
    ASSUME NEW s, Lined(s)
    PROVE  Ends(s) = {3 * n : n \in 1..Full(s)}
<1>1. s \in Seq(Bytes) /\ Len(s) \in Nat /\ Full(s) \in Nat
      /\ 3 * Full(s) <= Len(s) /\ Len(s) < 3 * Full(s) + 3
    BY Lengths DEF Lined
<1>2. ASSUME NEW i \in Ends(s)
      PROVE  \E n \in 1..Full(s) : i = 3 * n
  <2>1. i \in 1..Len(s) /\ i \in Nat \ {0} /\ s[i] = NL
      BY <1>1 DEF Ends
  <2>2. PICK n \in Nat \ {0} : i = 3 * n - 2 \/ i = 3 * n - 1 \/ i = 3 * n
      BY <1>1, <2>1, Thirds
  <2>3. i # 3 * n - 2
    <3>1. CASE i = 3 * n - 2
      <4>1. 3 * n - 2 <= Len(s) /\ s[3 * n - 2] = NL
          BY <1>1, <2>1, <3>1
      <4>2. PICK r \in RowNumbers : s[3 * n - 2] = <<r, 1>>
          BY <4>1, LineOf
      <4> QED
          BY <4>1, <4>2 DEF NL
    <3> QED
        BY <3>1
  <2>4. i # 3 * n - 1
    <3>1. CASE i = 3 * n - 1
      <4>1. 3 * n - 1 <= Len(s) /\ s[3 * n - 1] = NL
          BY <1>1, <2>1, <3>1
      <4>2. s[3 * n - 1] = <<s[3 * n - 2][1], 2>>
          BY <4>1, LineOf
      <4> QED
          BY <4>1, <4>2 DEF NL
    <3> QED
        BY <3>1
  <2> QED
      BY <1>1, <2>1, <2>2, <2>3, <2>4
<1>3. ASSUME NEW n \in 1..Full(s)
      PROVE  3 * n \in Ends(s)
    BY <1>1 DEF Ends, Lined
<1> QED
    BY <1>2, <1>3

LEMMA LastLine ==
    ASSUME NEW s, Lined(s)
    PROVE  EndOfRows(s) = 3 * Full(s)
<1>1. Full(s) \in Nat
    BY Lengths DEF Lined
<1>2. Ends(s) = {3 * n : n \in 1..Full(s)}
    BY LineEnds
<1> DEFINE top == 3 * Full(s)
<1>3. top \in Ends(s) \union {0} /\ \A j \in Ends(s) : j <= top
    BY <1>1, <1>2
<1>4. ASSUME NEW i \in Ends(s) \union {0}, \A j \in Ends(s) : j <= i
      PROVE  i = top
  <2>1. CASE Full(s) = 0
      BY <1>2, <1>4, <2>1
  <2>2. CASE Full(s) # 0
    <3>1. top \in Ends(s)
        BY <1>1, <1>2, <2>2
    <3>2. i \in Ends(s)
      <4>1. i # 0
          BY <1>1, <1>4, <2>2, <3>1
      <4> QED
          BY <1>4, <4>1
    <3>3. i \in Nat /\ top \in Nat /\ i <= top /\ top <= i
        BY <1>1, <1>2, <1>3, <1>4, <3>1, <3>2
    <3> QED
        BY <3>3
  <2> QED
      BY <2>1, <2>2
<1> HIDE DEF top
<1> QED
    BY <1>3, <1>4 DEF EndOfRows, top

LEMMA Beginning ==
    ASSUME NEW s, Lined(s), NEW m \in 0..Len(s), NEW t, t = SubSeq(s, 1, m)
    PROVE  /\ Lined(t) /\ Len(t) = m /\ Full(t) <= Full(s)
           /\ \A n \in 1..Full(t) : n \in 1..Full(s) /\ RowsIn(t)[n] = RowsIn(s)[n]
<1>1. s \in Seq(Bytes) /\ Len(s) \in Nat
    BY Lengths DEF Lined
<1>2. t \in Seq(Bytes) /\ Len(t) = m /\ \A i \in 1..m : t[i] = s[i]
    BY <1>1
<1>3. Lined(t)
  <2> SUFFICES ASSUME NEW n \in Nat \ {0}
               PROVE  /\ 3 * n - 2 <= Len(t) => \E r \in RowNumbers : t[3 * n - 2] = <<r, 1>>
                      /\ 3 * n - 1 <= Len(t) => t[3 * n - 1] = <<t[3 * n - 2][1], 2>>
                      /\ 3 * n <= Len(t) => t[3 * n] = NL
      BY <1>2 DEF Lined
  <2> QED
      BY <1>1, <1>2 DEF Lined
<1>4. Full(t) <= Full(s) /\ Full(t) \in Nat /\ Full(s) \in Nat /\ 3 * Full(t) <= m
  <2>1. Full(t) \in Nat /\ 3 * Full(t) <= Len(t) /\ Full(s) \in Nat
      BY <1>1, <1>2, Lengths
  <2>2. \A k \in Nat : 3 * k <= Len(s) => k <= Full(s)
      BY <1>1, Lengths
  <2>3. 3 * Full(t) <= Len(s)
      BY <1>1, <1>2, <2>1
  <2> QED
      BY <1>2, <2>1, <2>2, <2>3
<1>5. ASSUME NEW n \in 1..Full(t)
      PROVE  n \in 1..Full(s) /\ RowsIn(t)[n] = RowsIn(s)[n]
    BY <1>2, <1>4 DEF RowsIn
<1> QED
    BY <1>2, <1>3, <1>4, <1>5

LEMMA Completed ==
    ASSUME NEW s, Lined(s), NEW t, t = Complete(s)
    PROVE  /\ Lined(t) /\ Len(t) = 3 * Full(s) /\ Full(t) = Full(s) /\ RowsIn(t) = RowsIn(s)
           /\ ReadRows(t) = RowsIn(s)
           /\ Torn(s) <=> Len(s) # 3 * Full(s)
           /\ Len(s) = 3 * Full(s) => t = s
<1>1. s \in Seq(Bytes) /\ Len(s) \in Nat /\ Full(s) \in Nat /\ 3 * Full(s) <= Len(s)
    BY Lengths DEF Lined
<1>2. t = SubSeq(s, 1, 3 * Full(s))
    BY LastLine DEF Complete
<1>3. /\ Lined(t) /\ Len(t) = 3 * Full(s)
      /\ \A n \in 1..Full(t) : n \in 1..Full(s) /\ RowsIn(t)[n] = RowsIn(s)[n]
  <2>1. 3 * Full(s) \in 0..Len(s)
      BY <1>1
  <2> QED
      BY <1>2, <2>1, Beginning
<1>4. Full(t) = Full(s)
    BY <1>1, <1>3 DEF Full
<1>5. RowsIn(t) = RowsIn(s)
    BY <1>3, <1>4 DEF RowsIn
<1>6. ReadRows(t) = RowsIn(t)
  <2>1. EndOfRows(t) = 3 * Full(t)
      BY <1>3, LastLine
  <2>2. EndOfRows(t) \div 3 = Full(t)
      BY <1>1, <1>4, <2>1
  <2> QED
      BY <2>2 DEF ReadRows, RowsIn
<1>7. Len(s) = 3 * Full(s) => t = s
  <2>1. t \in Seq(Bytes) /\ \A i \in 1..3 * Full(s) : t[i] = s[i]
      BY <1>1, <1>2
  <2> QED
      BY <1>1, <1>3, <2>1, SeqEqual
<1> QED
    BY <1>3, <1>4, <1>5, <1>6, <1>7 DEF Torn

LEMMA LinedIsReadable ==
    ASSUME NEW s, Lined(s)
    PROVE  Readable(s)
<1>1. s \in Seq(Bytes) /\ Len(s) \in Nat /\ Full(s) \in Nat /\ 3 * Full(s) <= Len(s)
    BY Lengths DEF Lined
<1>2. ASSUME NEW n \in 1..Full(s)
      PROVE  Parses(s, 3 * n)
  <2>1. /\ n \in Nat \ {0} /\ 3 * n <= Len(s) /\ 3 * n - 2 >= 1
        /\ 3 * n - 3 >= 1 => n - 1 \in Nat \ {0} /\ 3 * (n - 1) = 3 * n - 3
      BY <1>1
  <2>2. 3 * n - 3 >= 1 => s[3 * n - 3] = NL
    <3> SUFFICES ASSUME 3 * n - 3 >= 1 PROVE s[3 * n - 3] = NL
        OBVIOUS
    <3>1. PICK m \in Nat \ {0} : m = n - 1
        BY <2>1
    <3>2. 3 * m <= Len(s) /\ 3 * m = 3 * n - 3
        BY <1>1, <2>1, <3>1
    <3> QED
        BY <3>2, LineOf
  <2>3. PICK r \in RowNumbers : s[3 * n - 2] = <<r, 1>>
      BY <1>1, <2>1, LineOf
  <2>4. s[3 * n - 1] = <<s[3 * n - 2][1], 2>>
      BY <1>1, <2>1, LineOf
  <2>5. s[3 * n - 1] = <<r, 2>>
      BY <2>3, <2>4
  <2> QED
      BY <2>1, <2>2, <2>3, <2>5 DEF Parses, StartsRow
<1> QED
    BY <1>2, LineEnds DEF Readable

\* What a reader is given is a sequence.
LEMMA RowsListed ==
    ASSUME NEW s, Lined(s)
    PROVE  /\ RowsIn(s) \in Seq(RowNumbers) /\ Len(RowsIn(s)) = Full(s) /\ Full(s) \in Nat
           /\ \A n \in 1..Full(s) : RowsIn(s)[n] = s[3 * n - 1][1]
<1>1. s \in Seq(Bytes) /\ Len(s) \in Nat /\ Full(s) \in Nat /\ 3 * Full(s) <= Len(s)
    BY Lengths DEF Lined
<1>2. ASSUME NEW n \in 1..Full(s)
      PROVE  s[3 * n - 1][1] \in RowNumbers
  <2>1. n \in Nat \ {0} /\ 3 * n - 2 <= Len(s) /\ 3 * n - 1 <= Len(s)
      BY <1>1
  <2>2. PICK r \in RowNumbers : s[3 * n - 2] = <<r, 1>>
      BY <2>1, LineOf
  <2>3. s[3 * n - 1] = <<s[3 * n - 2][1], 2>>
      BY <2>1, LineOf
  <2> QED
      BY <2>2, <2>3
<1>3. PICK k \in Nat : k = Full(s)
    BY <1>1
<1>4. PICK rows : rows = [n \in 1..k |-> s[3 * n - 1][1]]
    OBVIOUS
<1>5. rows \in Seq(RowNumbers) /\ Len(rows) = k
  <2>1. \A n \in 1..k : s[3 * n - 1][1] \in RowNumbers
      BY <1>2, <1>3
  <2> QED
      BY ONLY k \in Nat, <1>4, <2>1
<1>6. rows = RowsIn(s)
    BY <1>3, <1>4 DEF RowsIn
<1> QED
    BY <1>1, <1>3, <1>4, <1>5, <1>6

\* One more line.
LEMMA LineFollows ==
    ASSUME NEW s, Lined(s), Len(s) = 3 * Full(s), NEW r \in RowNumbers, NEW t, t = s \o Line(r)
    PROVE  Lined(t) /\ Full(t) = Full(s) + 1 /\ Len(t) = 3 * Full(t) /\ RowsIn(t) = Append(RowsIn(s), r)
<1>1. s \in Seq(Bytes) /\ Len(s) \in Nat /\ Full(s) \in Nat
    BY Lengths DEF Lined
<1>2. PICK x \in Seq(Bytes) : /\ x = Line(r) /\ Len(x) = 3
                              /\ x[1] = <<r, 1>> /\ x[2] = <<r, 2>> /\ x[3] = NL
  <2>1. <<r, 1>> \in Bytes /\ <<r, 2>> \in Bytes /\ NL \in Bytes
      BY RowsAssumption DEF RowNumbers, NL, Bytes
  <2>2. PICK x : x = Line(r)
      OBVIOUS
  <2>3. x = << <<r, 1>>, <<r, 2>>, NL >>
      BY <2>2 DEF Line
  <2>4. x \in Seq(Bytes) /\ Len(x) = 3 /\ x[1] = <<r, 1>> /\ x[2] = <<r, 2>> /\ x[3] = NL
      BY <2>1, <2>3, Triple
  <2> QED
      BY <2>2, <2>4
<1>3. /\ t \in Seq(Bytes) /\ Len(t) = Len(s) + 3
      /\ \A i \in 1..Len(s) : t[i] = s[i]
      /\ t[Len(s) + 1] = <<r, 1>> /\ t[Len(s) + 2] = <<r, 2>> /\ t[Len(s) + 3] = NL
  <2>1. t = s \o x
      BY <1>2
  <2>2. /\ t \in Seq(Bytes) /\ Len(t) = Len(s) + Len(x)
        /\ \A i \in 1..Len(s) + Len(x) : t[i] = IF i <= Len(s) THEN s[i] ELSE x[i - Len(s)]
      BY ONLY <1>1, <1>2, <2>1, ConcatProperties
  <2>3. PICK m \in Nat : m = Len(s)
      BY <1>1
  <2>4. Len(t) = m + 3 /\ \A i \in 1..m + 3 : t[i] = IF i <= m THEN s[i] ELSE x[i - m]
      BY ONLY <1>2, <2>2, <2>3
  <2>5. /\ m + 1 \in 1..m + 3 /\ m + 2 \in 1..m + 3 /\ m + 3 \in 1..m + 3
        /\ ~ m + 1 <= m /\ ~ m + 2 <= m /\ ~ m + 3 <= m
        /\ m + 1 - m = 1 /\ m + 2 - m = 2 /\ m + 3 - m = 3
      BY ONLY m \in Nat
  <2>6. t[m + 1] = x[1] /\ t[m + 2] = x[2] /\ t[m + 3] = x[3]
      BY ONLY <2>4, <2>5
  <2>7. \A i \in 1..m : t[i] = s[i]
    <3>1. \A i \in 1..m : i \in 1..m + 3 /\ i <= m
        BY ONLY m \in Nat
    <3> QED
        BY ONLY <2>4, <3>1
  <2> QED
      BY ONLY <1>2, <2>2, <2>3, <2>4, <2>6, <2>7
<1>4. Full(t) = Full(s) + 1 /\ Len(t) = 3 * Full(t)
    BY <1>1, <1>3 DEF Full
<1>5. Lined(t)
  <2> SUFFICES ASSUME NEW n \in Nat \ {0}
               PROVE  /\ 3 * n - 2 <= Len(t) => \E q \in RowNumbers : t[3 * n - 2] = <<q, 1>>
                      /\ 3 * n - 1 <= Len(t) => t[3 * n - 1] = <<t[3 * n - 2][1], 2>>
                      /\ 3 * n <= Len(t) => t[3 * n] = NL
      BY <1>3 DEF Lined
  <2>0. PICK a, b, c \in Nat : a = 3 * n - 2 /\ b = 3 * n - 1 /\ c = 3 * n
      OBVIOUS
  <2>1. CASE n <= Full(s)
    <3>1. a \in 1..Len(s) /\ b \in 1..Len(s) /\ c \in 1..Len(s)
        BY <1>1, <2>0, <2>1
    <3>2. t[c] = s[c] /\ t[b] = s[b] /\ t[a] = s[a]
        BY <1>3, <3>1
    <3>3. /\ \E q \in RowNumbers : s[a] = <<q, 1>>
          /\ s[b] = <<s[a][1], 2>>
          /\ s[c] = NL
      <4>1. 3 * n - 2 <= Len(s) /\ 3 * n - 1 <= Len(s) /\ 3 * n <= Len(s)
          BY <2>0, <3>1
      <4>2. /\ \E q \in RowNumbers : s[3 * n - 2] = <<q, 1>>
            /\ s[3 * n - 1] = <<s[3 * n - 2][1], 2>>
            /\ s[3 * n] = NL
          BY <4>1, LineOf
      <4> QED
          BY <2>0, <4>2
    <3> QED
        BY <2>0, <3>2, <3>3
  <2>2. CASE n = Full(s) + 1
    <3>1. PICK k \in Nat : k = Full(s) /\ Len(s) = 3 * k /\ n = k + 1
        BY <1>1, <2>2
    <3>2. n = k + 1
        BY <3>1
    <3>3. c = 3 * k + 3 /\ b = 3 * k + 2 /\ a = 3 * k + 1
        BY ONLY k \in Nat, a \in Nat, b \in Nat, c \in Nat, <2>0, <3>2
    <3>4. c = Len(s) + 3 /\ b = Len(s) + 2 /\ a = Len(s) + 1
        BY <3>1, <3>3
    <3>5. t[c] = NL /\ t[b] = <<r, 2>> /\ t[a] = <<r, 1>>
        BY <1>3, <3>4
    <3> QED
        BY <2>0, <3>5
  <2>3. CASE n > Full(s) + 1
    <3>1. PICK k \in Nat : k = Full(s) /\ Len(t) = 3 * k + 3 /\ n > k + 1
        BY <1>1, <1>3, <2>3
    <3>2. ~ a <= 3 * k + 3 /\ ~ b <= 3 * k + 3 /\ ~ c <= 3 * k + 3
        BY ONLY k \in Nat, n \in Nat, a \in Nat, b \in Nat, c \in Nat, <2>0, <3>1
    <3> QED
        BY <2>0, <3>1, <3>2
  <2>4. n <= Full(s) \/ n = Full(s) + 1 \/ n > Full(s) + 1
    <3>1. \A k \in Nat : n <= k \/ n = k + 1 \/ n > k + 1
        BY ONLY n \in Nat \ {0}
    <3> QED
        BY <1>1, <3>1
  <2> QED
      BY ONLY <2>1, <2>2, <2>3, <2>4
<1>6. RowsIn(t) = Append(RowsIn(s), r)
  <2>1. /\ RowsIn(s) \in Seq(RowNumbers) /\ Len(RowsIn(s)) = Full(s)
        /\ \A n \in 1..Full(s) : RowsIn(s)[n] = s[3 * n - 1][1]
      BY RowsListed
  <2>2. /\ RowsIn(t) \in Seq(RowNumbers) /\ Len(RowsIn(t)) = Full(s) + 1
        /\ \A n \in 1..Full(s) + 1 : RowsIn(t)[n] = t[3 * n - 1][1]
      BY <1>4, <1>5, RowsListed
  <2>3. PICK more : more = Append(RowsIn(s), r)
      OBVIOUS
  <2>4. /\ more \in Seq(RowNumbers) /\ Len(more) = Full(s) + 1
        /\ \A n \in 1..Full(s) : more[n] = RowsIn(s)[n]
        /\ more[Full(s) + 1] = r
      BY <1>1, <2>1, <2>3, AppendProperties
  <2>5. ASSUME NEW n \in 1..Full(s) + 1
        PROVE  RowsIn(t)[n] = more[n]
    <3>1. PICK b \in Nat : b = 3 * n - 1
        BY <1>1
    <3>2. CASE n \in 1..Full(s)
      <4>1. b \in 1..Len(s)
          BY <1>1, <3>1, <3>2
      <4>2. t[b] = s[b]
          BY <1>3, <4>1
      <4> QED
          BY <2>1, <2>2, <2>4, <3>1, <3>2, <4>2
    <3>3. CASE n = Full(s) + 1
      <4>1. b = Len(s) + 2
          BY <1>1, <3>1, <3>3
      <4>2. t[b] = <<r, 2>>
          BY <1>3, <4>1
      <4>3. RowsIn(t)[n] = t[b][1] /\ more[n] = r
          BY ONLY n \in 1..Full(s) + 1, <2>2, <2>4, <3>1, <3>3
      <4> QED
          BY <4>2, <4>3
    <3> QED
        BY <1>1, <3>2, <3>3
  <2> QED
      BY <2>2, <2>3, <2>4, <2>5, SeqEqual
<1> QED
    BY <1>4, <1>5, <1>6

\* Bounded numbers have a greatest.
LEMMA Greatest ==
    ASSUME NEW T, NEW m \in Nat, T \subseteq 0..m, T # {}
    PROVE  \E x \in T : \A y \in T : y <= x
<1> DEFINE Above(x) == {y \in T : x < y}
           F == {Above(x) : x \in T}
<1>1. IsFiniteSet(T)
  <2>1. T \in SUBSET Nat /\ \A s \in T : s <= m
      OBVIOUS
  <2> QED
      BY <2>1, FS_BoundedSetOfNaturals
<1>2. F \subseteq FiniteSubsetsOf(T) /\ F # {}
  <2>1. \A x \in T : Above(x) \in SUBSET T
      OBVIOUS
  <2>2. \A x \in T : IsFiniteSet(Above(x))
      BY <1>1, <2>1, FS_Subset
  <2> QED
      BY <2>1, <2>2 DEF FiniteSubsetsOf
<1>3. PICK A \in F : \A B \in F : <<B, A>> \notin StrictSubsetOrdering(T)
  <2> HIDE DEF F
  <2> QED
    BY <1>2, FS_StrictSubsetOrderingWellFounded, WFMin
<1>4. PICK x \in T : A = Above(x)
    OBVIOUS
<1>5. ASSUME NEW y \in T PROVE ~ x < y
  <2>1. CASE x < y
    <3>1. Above(y) \in F /\ y \in A /\ y \notin Above(y) /\ A \subseteq T
        BY <1>4, <2>1
    <3>2. Above(y) \subseteq A
      <4>1. ASSUME NEW z \in Above(y) PROVE z \in Above(x)
        <5>1. z \in T /\ y < z /\ x \in Nat /\ y \in Nat /\ z \in Nat
            OBVIOUS
        <5>2. x < z
            BY ONLY <2>1, <5>1
        <5> QED
            BY <5>1, <5>2
      <4> QED
        BY <1>4, <4>1
    <3>3. <<Above(y), A>> \in StrictSubsetOrdering(T)
        BY <3>1, <3>2 DEF StrictSubsetOrdering
    <3> QED
        BY <1>3, <3>1, <3>3
  <2> QED
      BY <2>1
<1> QED
    BY <1>5

LEMMA CompleteTyped ==
    ASSUME NEW s \in Seq(Bytes), NEW t, t = Complete(s)
    PROVE  t \in Seq(Bytes)
<1>1. PICK T : T = Ends(s) \union {0}
    OBVIOUS
<1>2. Len(s) \in Nat /\ T \subseteq 0..Len(s) /\ T # {}
    BY <1>1 DEF Ends
<1>3. \E i \in T : \A j \in T : j <= i
    BY <1>2, Greatest
<1>4. \E i \in Ends(s) \union {0} : \A j \in Ends(s) : j <= i
    BY <1>1, <1>3
<1>5. EndOfRows(s) \in 0..Len(s)
    BY <1>1, <1>2, <1>4 DEF EndOfRows
<1> QED
    BY <1>2, <1>5, SubSeqProperties DEF Complete

\* The first byte of what is to come is the next of what there is.
LEMMA NextByte ==
    ASSUME NEW f \in Seq(Bytes), NEW o \in Seq(Bytes), o # <<>>
    PROVE  /\ Head(o) \in Bytes /\ Tail(o) \in Seq(Bytes) /\ Append(f, Head(o)) \in Seq(Bytes)
           /\ Append(f, Head(o)) \o Tail(o) = f \o o
<1>1. PICK h \in Bytes, u \in Seq(Bytes) : h = Head(o) /\ u = Tail(o)
    BY HeadTailProperties
<1>2. PICK g \in Seq(Bytes) : g = <<h>> /\ Len(g) = 1 /\ g[1] = h
  <2>1. PICK g : g = <<h>>
      OBVIOUS
  <2>2. g \in Seq(Bytes) /\ Len(g) = 1 /\ g[1] = h
      BY ONLY h \in Bytes, <2>1
  <2> QED
      BY <2>1, <2>2
<1>3. g \o u = o
  <2>1. /\ Len(o) \in Nat \ {0} /\ Len(u) = Len(o) - 1 /\ h = o[1]
        /\ \A i \in 1..Len(u) : u[i] = o[i + 1]
      BY <1>1, HeadTailProperties
  <2>2. /\ g \o u \in Seq(Bytes) /\ Len(g \o u) = Len(o)
        /\ \A i \in 1..Len(g) + Len(u) : (g \o u)[i] = IF i <= Len(g) THEN g[i] ELSE u[i - Len(g)]
      BY <1>2, <2>1, ConcatProperties
  <2>3. ASSUME NEW i \in 1..Len(o)
        PROVE  (g \o u)[i] = o[i]
    <3>1. i \in 1..Len(g) + Len(u) /\ (i # 1 => i - 1 \in 1..Len(u) /\ i - 1 + 1 = i /\ ~ i <= 1)
        BY <1>2, <2>1
    <3>2. (g \o u)[i] = IF i <= 1 THEN g[i] ELSE u[i - 1]
        BY <1>2, <2>2, <3>1
    <3>3. CASE i = 1
        BY <1>2, <2>1, <3>2, <3>3
    <3>4. CASE i # 1
      <4>1. (g \o u)[i] = u[i - 1]
          BY <3>1, <3>2, <3>4
      <4>2. u[i - 1] = o[i - 1 + 1]
          BY <2>1, <3>1, <3>4
      <4> QED
          BY <3>1, <3>4, <4>1, <4>2
    <3> QED
        BY <3>3, <3>4
  <2> QED
      BY <2>2, <2>3, SeqEqual
<1>4. Append(f, h) = f \o g /\ Append(f, h) \in Seq(Bytes)
    BY <1>2, AppendIsConcat, AppendProperties
<1>5. (f \o g) \o u = f \o (g \o u)
    BY ConcatAssociative
<1> QED
    BY <1>1, <1>3, <1>4, <1>5

\* The same byte, where more comes after.
LEMMA NextByteOfOld ==
    ASSUME NEW f \in Seq(Bytes), NEW o \in Seq(Bytes), NEW r \in Seq(Bytes), o # <<>>
    PROVE  Append(f, Head(o)) \o (Tail(o) \o r) = f \o (o \o r)
<1>1. PICK g \in Seq(Bytes), u \in Seq(Bytes) : /\ g = Append(f, Head(o)) /\ u = Tail(o)
                                                /\ g \o u = f \o o
    BY NextByte
<1>2. (g \o u) \o r = g \o (u \o r)
    BY ONLY ConcatAssociative, g \in Seq(Bytes), u \in Seq(Bytes), r \in Seq(Bytes)
<1>3. (f \o o) \o r = f \o (o \o r)
    BY ONLY ConcatAssociative, f \in Seq(Bytes), o \in Seq(Bytes), r \in Seq(Bytes)
<1> QED
    BY <1>1, <1>2, <1>3

-----------------------------------------------------------------------------
\* What ledger l will be once the holder of the lock is done with it.
Will(l) == file[l] \o Owed(l)

StoreType ==
    /\ file \in [Ledgers -> Seq(Bytes)]
    /\ blob \in [Digests -> {"absent", "damaged", "whole"}]
    /\ lock \in Writers \union {Free}
    /\ pc \in [Writers -> {"idle", "bytes", "check", "write"}]
    /\ aim \in [Writers -> [ledger : Ledgers, row : 0..MaxBegun]]
    /\ out \in [Writers -> [old : Seq(Bytes), note : Seq(Bytes), row : Seq(Bytes)]]
    /\ begun \in 0..MaxBegun

\* A writer at work holds the lock, and only one that writes has bytes to write.
Alone(w) ==
    /\ pc[w] # "idle" <=> lock = w
    /\ pc[w] # "write" => out[w] = NoBytes

\* The row a writer has begun is in no ledger yet; once past storing its
\* bytes, they are whole.
Coming(w) ==
    /\ pc[w] = "bytes" => aim[w].row # 0
    /\ pc[w] \in {"bytes", "check"} /\ aim[w].row # 0 =>
         /\ aim[w].row <= begun
         /\ \A l \in Ledgers \ {Audit} : \A n \in 1..Full(file[l]) : RowsIn(file[l])[n] # aim[w].row
    /\ pc[w] = "check" /\ aim[w].row # 0 => blob[Body[aim[w].row]] = "whole"

\* What a ledger will be is lines, whole ones when it is being written; its
\* rows are numbered, each once, and have their bytes.
Legible(l) ==
    /\ Lined(Will(l))
    /\ \A w \in Writers : pc[w] = "write" /\ aim[w].ledger = l => Len(Will(l)) = 3 * Full(Will(l))
    /\ Numbered(Will(l))
    /\ EachOnce(Will(l))

StoreInv ==
    /\ StoreType
    /\ \A w \in Writers : Alone(w) /\ Coming(w)
    /\ \A l \in Ledgers \ {Audit} : Legible(l)

Rest == [old : Seq(Bytes), note : Seq(Bytes), row : Seq(Bytes)]

LEMMA LineTyped ==
    ASSUME NEW r \in RowNumbers, NEW x, x = Line(r)
    PROVE  x \in Seq(Bytes) /\ x # <<>>
<1>1. <<r, 1>> \in Bytes /\ <<r, 2>> \in Bytes /\ NL \in Bytes
    BY RowsAssumption DEF RowNumbers, NL, Bytes
<1>2. x = << <<r, 1>>, <<r, 2>>, NL >>
    BY DEF Line
<1>3. x \in Seq(Bytes) /\ Len(x) = 3
    BY <1>1, <1>2, Triple
<1> QED
    BY <1>3

LEMMA ItsTyped ==
    ASSUME NEW r \in 0..MaxBegun, NEW x, x = Its(r)
    PROVE  x \in Seq(Bytes)
<1>1. CASE r = 0
    BY <1>1 DEF Its
<1>2. CASE r # 0
  <2>1. r \in RowNumbers
      BY <1>2, RowsAssumption DEF RowNumbers
  <2> QED
      BY <1>2, <2>1, LineTyped DEF Its
<1> QED
    BY <1>1, <1>2

\* A ledger made clean, and its row after it.
LEMMA Renewed ==
    ASSUME NEW s, Lined(s), NEW r \in 0..MaxBegun, NEW t, t = Complete(s) \o Its(r)
    PROVE  /\ Lined(t) /\ Len(t) = 3 * Full(t)
           /\ RowsIn(t) = IF r = 0 THEN RowsIn(s) ELSE Append(RowsIn(s), r)
<1>1. PICK c : c = Complete(s)
    OBVIOUS
<1>2. Lined(c) /\ Len(c) = 3 * Full(c) /\ RowsIn(c) = RowsIn(s)
    BY <1>1, Completed
<1>3. CASE r = 0
  <2>1. t = c \o <<>>
      BY <1>1, <1>3 DEF Its
  <2>2. c \in Seq(Bytes)
      BY <1>2 DEF Lined
  <2>3. t = c
      BY <2>1, <2>2, ConcatEmptySeq
  <2> QED
      BY <1>2, <1>3, <2>3
<1>4. CASE r # 0
  <2>1. r \in RowNumbers
      BY <1>4, RowsAssumption DEF RowNumbers
  <2>2. t = c \o Line(r)
      BY <1>1, <1>4 DEF Its
  <2> QED
      BY <1>2, <1>4, <2>1, <2>2, LineFollows
<1> QED
    BY <1>3, <1>4

\* What is on disk is a beginning of what will be.
LEMMA OnDiskIsBeginning ==
    ASSUME NEW f \in Seq(Bytes), NEW o \in Seq(Bytes), NEW s, s = f \o o, Lined(s)
    PROVE  /\ Lined(f) /\ Full(f) \in 0..Full(s) /\ Full(s) \in Nat
           /\ RowsIn(f) = SubSeq(RowsIn(s), 1, Full(f))
           /\ \A n \in 1..Full(f) : n \in 1..Full(s) /\ RowsIn(f)[n] = RowsIn(s)[n]
<1>1. /\ s \in Seq(Bytes) /\ Len(s) = Len(f) + Len(o) /\ Len(f) \in Nat /\ Len(o) \in Nat
      /\ \A i \in 1..Len(f) + Len(o) : s[i] = IF i <= Len(f) THEN f[i] ELSE o[i - Len(f)]
    BY ConcatProperties, LenProperties
<1>2. PICK g : g = SubSeq(s, 1, Len(f))
    OBVIOUS
<1>3. g \in Seq(Bytes) /\ Len(g) = Len(f) /\ \A i \in 1..Len(f) : g[i] = f[i]
    BY <1>1, <1>2
<1>4. g = f
    BY <1>3, SeqEqual
<1>5. /\ Lined(f) /\ Full(f) <= Full(s)
      /\ \A n \in 1..Full(f) : n \in 1..Full(s) /\ RowsIn(f)[n] = RowsIn(s)[n]
  <2>1. PICK m \in 0..Len(s) : m = Len(f) /\ g = SubSeq(s, 1, m)
      BY <1>1, <1>2
  <2>2. /\ Lined(g) /\ Full(g) <= Full(s)
        /\ \A n \in 1..Full(g) : n \in 1..Full(s) /\ RowsIn(g)[n] = RowsIn(s)[n]
    <3>1. g = SubSeq(s, 1, m)
        BY <2>1
    <3>2. Lined(g)
        BY ONLY Lined(s), m \in 0..Len(s), <3>1, Beginning
    <3>3. Full(g) <= Full(s)
        BY ONLY Lined(s), m \in 0..Len(s), <3>1, Beginning
    <3>4. ASSUME NEW n \in 1..Full(g) PROVE n \in 1..Full(s) /\ RowsIn(g)[n] = RowsIn(s)[n]
        BY ONLY Lined(s), m \in 0..Len(s), <3>1, Beginning, n \in 1..Full(g)
    <3> QED
        BY <3>2, <3>3, <3>4
  <2> QED
      BY <1>4, <2>2
<1>6. /\ RowsIn(f) \in Seq(RowNumbers) /\ Len(RowsIn(f)) = Full(f) /\ Full(f) \in Nat
      /\ RowsIn(s) \in Seq(RowNumbers) /\ Len(RowsIn(s)) = Full(s) /\ Full(s) \in Nat
    BY <1>5, RowsListed
<1>7. PICK k \in Nat, a, b \in Seq(RowNumbers) : k = Full(f) /\ a = RowsIn(f) /\ b = RowsIn(s)
    BY <1>6
<1>8. a = SubSeq(b, 1, k)
  <2>1. Len(a) = k /\ k <= Len(b) /\ \A n \in 1..k : a[n] = b[n]
      BY <1>5, <1>6, <1>7
  <2>2. PICK c : c = SubSeq(b, 1, k)
      OBVIOUS
  <2>3. c \in Seq(RowNumbers) /\ Len(c) = k /\ \A n \in 1..k : c[n] = b[n]
      BY ONLY b \in Seq(RowNumbers), k \in Nat, <2>1, <2>2
  <2>4. a = c
      BY ONLY a \in Seq(RowNumbers), <2>1, <2>3, SeqEqual
  <2> QED
      BY <2>2, <2>4
<1> QED
    BY <1>5, <1>6, <1>7, <1>8


-----------------------------------------------------------------------------
LEMMA StoreTypes ==
    ASSUME StoreInv
    PROVE  /\ \A l \in Ledgers : file[l] \in Seq(Bytes)
           /\ \A w \in Writers : /\ aim[w].ledger \in Ledgers /\ aim[w].row \in 0..MaxBegun
                                 /\ out[w] \in Rest
                                 /\ out[w].old \in Seq(Bytes) /\ out[w].note \in Seq(Bytes)
                                 /\ out[w].row \in Seq(Bytes)
           /\ lock \in Writers \union {Free} /\ begun \in Nat /\ begun <= MaxBegun /\ MaxBegun \in Nat
    BY RowsAssumption DEF StoreInv, StoreType, Rest

\* Whoever works holds the lock, so nobody else does.
LEMMA OneAtWork ==
    ASSUME StoreInv, NEW w \in Writers, pc[w] # "idle"
    PROVE  lock = w /\ lock # Free /\ \A v \in Writers \ {w} : pc[v] = "idle" /\ out[v] = NoBytes
    BY WritersAssumption DEF StoreInv, Alone

LEMMA NobodyAtWork ==
    ASSUME StoreInv, lock = Free
    PROVE  \A v \in Writers : pc[v] = "idle" /\ out[v] = NoBytes
    BY WritersAssumption DEF StoreInv, Alone

LEMMA NothingAdded ==
    ASSUME NEW f \in Seq(Bytes)
    PROVE  f \o <<>> = f /\ f \o (<<>> \o <<>>) = f /\ <<>> \o f = f
<1>1. f \o <<>> = f /\ <<>> \o f = f
    BY ConcatEmptySeq
<1>2. <<>> \o <<>> = <<>>
  <2>1. <<>> \in Seq(Bytes)
      OBVIOUS
  <2> QED
      BY <2>1, ConcatEmptySeq
<1> QED
    BY <1>1, <1>2

\* A ledger nobody is writing to has what is on disk.
LEMMA AsOnDisk ==
    ASSUME StoreInv, NEW l \in Ledgers,
           \A w \in Writers : pc[w] # "write" \/ aim[w].ledger # l
    PROVE  Will(l) = file[l]
<1>1. file[l] \in Seq(Bytes)
    BY StoreTypes
<1>2. Owed(l) = <<>> \/ Owed(l) = <<>> \o <<>>
    BY StoreTypes DEF Owed, NoBytes, StoreInv, Alone
<1> QED
    BY <1>1, <1>2, NothingAdded DEF Will

\* What a step does to what a ledger will be; the rest follows from this.
Same(s, t)    == t = s
Renews(s, t)  == \E r \in 0..MaxBegun :
                    /\ t = Complete(s) \o Its(r)
                    /\ r # 0 => /\ r <= begun /\ blob[Body[r]] = "whole"
                                /\ \A n \in 1..Full(s) : RowsIn(s)[n] # r
CutsOff(s, t) == \E o \in Seq(Bytes) : t \in Seq(Bytes) /\ s = t \o o

\* What a step leaves of one that looks at all the ledgers.
Later == begun <= begun' /\ \A d \in Digests : blob[d] = "whole" => blob'[d] = "whole"

\* The rows as a step leaves them.
LEMMA RowsThen ==
    ASSUME StoreInv, Later, begun' \in Nat, NEW l \in Ledgers \ {Audit},
           NEW s, s = Will(l), NEW t, t = Will(l)',
           Same(s, t) \/ Renews(s, t) \/ CutsOff(s, t)
    PROVE  /\ Lined(t) /\ Numbered(t)' /\ EachOnce(t)
           /\ Renews(s, t) => Len(t) = 3 * Full(t)
           /\ \/ RowsIn(t) = RowsIn(s)
              \/ \E r \in RowNumbers : /\ \A n \in 1..Full(s) : RowsIn(s)[n] # r
                                       /\ RowsIn(t) = Append(RowsIn(s), r)
              \/ \E n \in 0..Full(s) : RowsIn(t) = SubSeq(RowsIn(s), 1, n)
<1>1. Lined(s) /\ Numbered(s) /\ EachOnce(s)
    BY DEF StoreInv, Legible
<1>2. /\ RowsIn(s) \in Seq(RowNumbers) /\ Len(RowsIn(s)) = Full(s) /\ Full(s) \in Nat
      /\ begun \in Nat /\ begun <= MaxBegun /\ MaxBegun \in Nat
    BY <1>1, RowsListed, StoreTypes
<1>3. ASSUME NEW r \in RowNumbers, r <= begun, blob[Body[r]] = "whole"
      PROVE  r \in 1..begun' /\ blob'[Body[r]] = "whole"
    BY <1>2, <1>3, RowsAssumption DEF Later, RowNumbers
<1>4. ASSUME NEW n \in 1..Full(s)
      PROVE  RowsIn(s)[n] \in 1..begun' /\ blob'[Body[RowsIn(s)[n]]] = "whole"
  <2>1. RowsIn(s)[n] \in 1..begun /\ blob[Body[RowsIn(s)[n]]] = "whole"
      BY <1>1 DEF Numbered
  <2>2. RowsIn(s)[n] \in RowNumbers
      BY <1>2, <2>1 DEF RowNumbers
  <2> QED
      BY <1>2, <1>3, <2>1, <2>2
<1>5. CASE RowsIn(t) = RowsIn(s) /\ Full(t) = Full(s) /\ Lined(t)
  <2>1. Numbered(t)' /\ EachOnce(t)
      BY <1>1, <1>4, <1>5 DEF Numbered, EachOnce
  <2>2. Renews(s, t) => Len(t) = 3 * Full(t)
      BY <1>1, Renewed DEF Renews
  <2> QED
      BY <1>5, <2>1, <2>2
<1>6. CASE Same(s, t)
    BY <1>1, <1>5, <1>6 DEF Same
<1>7. CASE Renews(s, t)
  <2>1. PICK r \in 0..MaxBegun :
            /\ t = Complete(s) \o Its(r)
            /\ r # 0 => /\ r <= begun /\ blob[Body[r]] = "whole"
                        /\ \A n \in 1..Full(s) : RowsIn(s)[n] # r
      BY <1>7 DEF Renews
  <2>2. /\ Lined(t) /\ Len(t) = 3 * Full(t)
        /\ RowsIn(t) = IF r = 0 THEN RowsIn(s) ELSE Append(RowsIn(s), r)
      BY <1>1, <2>1, Renewed
  <2>3. RowsIn(t) \in Seq(RowNumbers) /\ Len(RowsIn(t)) = Full(t) /\ Full(t) \in Nat
      BY <2>2, RowsListed
  <2>4. CASE r = 0
    <3>1. RowsIn(t) = RowsIn(s) /\ Full(t) = Full(s)
        BY <1>2, <2>2, <2>3, <2>4
    <3> QED
        BY <1>5, <2>2, <3>1
  <2>5. CASE r # 0
    <3>1. r \in RowNumbers
        BY <1>2, <2>5 DEF RowNumbers
    <3>2. PICK rows \in Seq(RowNumbers) : rows = RowsIn(s) /\ Len(rows) = Full(s)
        BY <1>2
    <3>3. RowsIn(t) = Append(rows, r)
        BY <2>2, <2>5, <3>2
    <3>4. /\ Len(RowsIn(t)) = Full(s) + 1 /\ RowsIn(t)[Full(s) + 1] = r
          /\ \A n \in 1..Full(s) : RowsIn(t)[n] = RowsIn(s)[n]
        BY <1>2, <3>1, <3>2, <3>3, AppendProperties
    <3>5. Full(t) = Full(s) + 1
        BY <2>3, <3>4
    <3>6. \A n \in 1..Full(t) : n \in 1..Full(s) \/ n = Full(s) + 1
        BY <1>2, <3>5
    <3>7. Numbered(t)'
        BY <1>3, <1>4, <2>1, <2>5, <3>1, <3>4, <3>6 DEF Numbered
    <3>8. EachOnce(t)
        BY <1>1, <2>1, <2>5, <3>4, <3>6 DEF EachOnce
    <3> QED
        BY <2>1, <2>2, <2>5, <3>1, <3>2, <3>3, <3>7, <3>8
  <2> QED
      BY <2>4, <2>5
<1>8. CASE CutsOff(s, t)
  <2>1. PICK o \in Seq(Bytes) : t \in Seq(Bytes) /\ s = t \o o
      BY <1>8 DEF CutsOff
  <2>2. /\ Lined(t) /\ Full(t) \in 0..Full(s)
        /\ RowsIn(t) = SubSeq(RowsIn(s), 1, Full(t))
        /\ \A n \in 1..Full(t) : n \in 1..Full(s) /\ RowsIn(t)[n] = RowsIn(s)[n]
      BY <1>1, <2>1, OnDiskIsBeginning
  <2>3. Numbered(t)'
      BY <1>4, <2>2 DEF Numbered
  <2>4. EachOnce(t)
      BY <1>1, <2>2 DEF EachOnce
  <2>5. Renews(s, t) => Len(t) = 3 * Full(t)
      BY <1>1, Renewed DEF Renews
  <2> QED
      BY <2>2, <2>3, <2>4, <2>5
<1> QED
    BY <1>6, <1>7, <1>8

-----------------------------------------------------------------------------
(***************************************************************************)
(* The steps.  Each says what the ledgers will be after it, and what the   *)
(* writers are.                                                            *)
(***************************************************************************)
WritersAre ==
    /\ StoreType
    /\ \A w \in Writers : Alone(w) /\ Coming(w)

LEMMA BeginAppendStep ==
    ASSUME StoreInv, NEW w \in Writers, NEW k \in Ledgers, BeginAppend(w, k)
    PROVE  /\ WritersAre' /\ Later
           /\ \A l \in Ledgers \ {Audit} : /\ Same(Will(l), Will(l)')
                                           /\ \A v \in Writers : pc'[v] # "write"
<1> USE DEF BeginAppend
<1>1. /\ \A v \in Writers : pc[v] = "idle" /\ out[v] = NoBytes
      /\ begun \in Nat /\ begun + 1 <= MaxBegun /\ MaxBegun \in Nat
    BY NobodyAtWork, StoreTypes
<1>2. Later
    BY <1>1 DEF Later
<1>3. StoreType'
    BY <1>1 DEF StoreInv, StoreType
<1>4. ASSUME NEW v \in Writers
      PROVE  Alone(v)'
    BY <1>1, WritersAssumption DEF StoreInv, StoreType, Alone
<1>5. ASSUME NEW l \in Ledgers \ {Audit}, NEW n \in 1..Full(file[l])
      PROVE  RowsIn(file[l])[n] # begun + 1
  <2>1. Will(l) = file[l]
      BY <1>1, AsOnDisk
  <2>2. Numbered(file[l])
      BY <2>1 DEF StoreInv, Legible
  <2>3. RowsIn(file[l])[n] \in 1..begun
      BY <2>2 DEF Numbered
  <2> QED
      BY <1>1, <2>3
<1>6. ASSUME NEW v \in Writers
      PROVE  Coming(v)'
  <2>1. pc'[v] # "check" /\ (v # w => pc'[v] = "idle")
      BY <1>1 DEF StoreInv, StoreType
  <2>2. aim'[w].row = begun + 1 /\ begun' = begun + 1 /\ begun + 1 # 0
      BY <1>1 DEF StoreInv, StoreType
  <2> QED
      BY <1>1, <1>5, <2>1, <2>2 DEF Coming
<1>7. ASSUME NEW l \in Ledgers \ {Audit}
      PROVE  Same(Will(l), Will(l)')
  <2>1. Will(l) = file[l] /\ file[l] \in Seq(Bytes)
      BY <1>1, AsOnDisk, StoreTypes
  <2>2. out'[lock'] = NoBytes
      BY <1>1
  <2>3. Owed(l)' = <<>> \/ Owed(l)' = <<>> \o <<>>
      BY <2>2 DEF Owed, NoBytes
  <2> QED
      BY <2>1, <2>3, NothingAdded DEF Same, Will
<1>8. \A v \in Writers : pc'[v] # "write"
    BY <1>1 DEF StoreInv, StoreType
<1> QED
    BY <1>2, <1>3, <1>4, <1>6, <1>7, <1>8 DEF WritersAre

LEMMA BeginRepairStep ==
    ASSUME StoreInv, NEW w \in Writers, NEW k \in Ledgers, BeginRepair(w, k)
    PROVE  /\ WritersAre' /\ Later
           /\ \A l \in Ledgers \ {Audit} : /\ Same(Will(l), Will(l)')
                                           /\ \A v \in Writers : pc'[v] # "write"
<1> USE DEF BeginRepair
<1>1. /\ \A v \in Writers : pc[v] = "idle" /\ out[v] = NoBytes
      /\ begun \in Nat /\ MaxBegun \in Nat
    BY NobodyAtWork, StoreTypes
<1>2. Later
    BY <1>1 DEF Later
<1>3. StoreType'
    BY <1>1 DEF StoreInv, StoreType
<1>4. ASSUME NEW v \in Writers
      PROVE  Alone(v)'
    BY <1>1, WritersAssumption DEF StoreInv, StoreType, Alone
<1>6. ASSUME NEW v \in Writers
      PROVE  Coming(v)'
  <2>1. v # w => pc'[v] = "idle"
      BY <1>1 DEF StoreInv, StoreType
  <2>2. aim'[w].row = 0 /\ pc'[w] = "check"
      BY <1>1 DEF StoreInv, StoreType
  <2> QED
      BY <2>1, <2>2 DEF Coming
<1>7. ASSUME NEW l \in Ledgers \ {Audit}
      PROVE  Same(Will(l), Will(l)')
  <2>1. Will(l) = file[l] /\ file[l] \in Seq(Bytes)
      BY <1>1, AsOnDisk, StoreTypes
  <2>2. out'[lock'] = NoBytes
      BY <1>1
  <2>3. Owed(l)' = <<>> \/ Owed(l)' = <<>> \o <<>>
      BY <2>2 DEF Owed, NoBytes
  <2> QED
      BY <2>1, <2>3, NothingAdded DEF Same, Will
<1>8. \A v \in Writers : pc'[v] # "write"
    BY <1>1 DEF StoreInv, StoreType
<1> QED
    BY <1>2, <1>3, <1>4, <1>6, <1>7, <1>8 DEF WritersAre

LEMMA StoreBytesStep ==
    ASSUME StoreInv, NEW w \in Writers, StoreBytes(w)
    PROVE  /\ WritersAre' /\ Later
           /\ \A l \in Ledgers \ {Audit} : /\ Same(Will(l), Will(l)')
                                           /\ \A v \in Writers : pc'[v] # "write"
<1> USE DEF StoreBytes
<1>1. /\ \A v \in Writers \ {w} : pc[v] = "idle" /\ out[v] = NoBytes
      /\ lock = w /\ pc[w] = "bytes" /\ begun \in Nat /\ MaxBegun \in Nat
    BY OneAtWork, StoreTypes
<1>2. Later
    BY <1>1 DEF Later, StoreInv, StoreType
<1>3. StoreType'
    BY <1>1 DEF StoreInv, StoreType
<1>4. ASSUME NEW v \in Writers
      PROVE  Alone(v)'
    BY <1>1 DEF StoreInv, StoreType, Alone
<1>5. Coming(w)'
  <2>1. /\ pc'[w] = "check" /\ aim[w].row # 0 /\ aim[w].row <= begun
        /\ \A l \in Ledgers \ {Audit} : \A n \in 1..Full(file[l]) : RowsIn(file[l])[n] # aim[w].row
      BY <1>1 DEF StoreInv, StoreType, Coming
  <2>2. Body[aim[w].row] \in Digests
    <3>1. aim[w].row \in RowNumbers
        BY <2>1, StoreTypes DEF RowNumbers
    <3> QED
        BY <3>1, RowsAssumption
  <2>3. blob'[Body[aim[w].row]] = "whole"
      BY <2>2 DEF StoreInv, StoreType
  <2> QED
      BY <2>1, <2>3 DEF Coming
<1>6. ASSUME NEW v \in Writers
      PROVE  Coming(v)'
  <2>1. v # w => pc'[v] = "idle"
      BY <1>1 DEF StoreInv, StoreType
  <2> QED
      BY <1>5, <2>1 DEF Coming
<1>7. ASSUME NEW l \in Ledgers \ {Audit}
      PROVE  Same(Will(l), Will(l)')
    BY DEF Same, Will, Owed
<1>8. \A v \in Writers : pc'[v] # "write"
    BY <1>1 DEF StoreInv, StoreType
<1> QED
    BY <1>2, <1>3, <1>4, <1>6, <1>7, <1>8 DEF WritersAre

\* The row of a ledger follows its complete lines, whatever the tail was.
LEMMA EnsureCleanTailStep ==
    ASSUME StoreInv, NEW w \in Writers, EnsureCleanTail(w)
    PROVE  /\ WritersAre' /\ Later
           /\ \A l \in Ledgers \ {Audit} :
                IF l = aim[w].ledger THEN Renews(Will(l), Will(l)')
                ELSE /\ Same(Will(l), Will(l)')
                     /\ \A v \in Writers : pc'[v] = "write" => aim'[v].ledger # l
<1> USE DEF EnsureCleanTail
<1>1. /\ \A v \in Writers \ {w} : pc[v] = "idle" /\ out[v] = NoBytes
      /\ lock = w /\ lock # Free /\ pc[w] = "check" /\ begun \in Nat /\ MaxBegun \in Nat
      /\ begun <= MaxBegun
    BY OneAtWork, StoreTypes
<1>2. Later
    BY <1>1 DEF Later
<1>3. PICK k \in Ledgers, r \in 0..MaxBegun, f \in Seq(Bytes) :
          k = aim[w].ledger /\ r = aim[w].row /\ f = file[k]
    BY StoreTypes
<1>4. PICK c \in Seq(Bytes), m \in Seq(Bytes), i \in Seq(Bytes), note \in BOOLEAN :
          /\ c = IF Torn(f) THEN Complete(f) ELSE <<>>
          /\ note = (Torn(f) /\ k # Audit /\ r # 0)
          /\ m = IF note THEN Line(begun + 1) ELSE <<>>
          /\ i = Its(r)
  <2>1. Complete(f) \in Seq(Bytes) /\ <<>> \in Seq(Bytes) /\ Its(r) \in Seq(Bytes)
      BY CompleteTyped, ItsTyped
  <2>2. begun < MaxBegun => Line(begun + 1) \in Seq(Bytes)
    <3> SUFFICES ASSUME begun < MaxBegun PROVE Line(begun + 1) \in Seq(Bytes)
        OBVIOUS
    <3>1. PICK b \in RowNumbers : b = begun + 1
        BY <1>1 DEF RowNumbers
    <3>2. Line(b) \in Seq(Bytes)
        BY LineTyped
    <3> QED
        BY <3>1, <3>2
  <2>3. Torn(f) /\ k # Audit /\ r # 0 => begun < MaxBegun
      BY <1>3
  <2> QED
      BY <2>1, <2>2, <2>3
<1>5. /\ out' = [out EXCEPT ![w] = [old |-> c, note |-> m, row |-> i]]
      /\ file' = IF Torn(f) THEN [file EXCEPT ![k] = <<>>] ELSE file
      /\ begun' = IF note THEN begun + 1 ELSE begun
      /\ note => begun < MaxBegun
    BY <1>3, <1>4
<1>6. [old |-> c, note |-> m, row |-> i] \in [old : Seq(Bytes), note : Seq(Bytes), row : Seq(Bytes)]
    OBVIOUS
<1>7. StoreType'
  <2>1. file' \in [Ledgers -> Seq(Bytes)]
      BY <1>5 DEF StoreInv, StoreType
  <2>2. out' \in [Writers -> [old : Seq(Bytes), note : Seq(Bytes), row : Seq(Bytes)]]
      BY <1>5, <1>6 DEF StoreInv, StoreType
  <2>3. begun' \in 0..MaxBegun
      BY <1>1, <1>5
  <2> QED
      BY <2>1, <2>2, <2>3 DEF StoreInv, StoreType
<1>8. /\ pc'[w] = "write" /\ \A v \in Writers \ {w} : pc'[v] = "idle" /\ out'[v] = NoBytes
      /\ out'[w] = [old |-> c, note |-> m, row |-> i]
    BY <1>1, <1>5 DEF StoreInv, StoreType
<1>9. ASSUME NEW v \in Writers
      PROVE  Alone(v)' /\ Coming(v)'
    BY <1>1, <1>8 DEF StoreInv, Alone, Coming
<1>10. WritersAre'
    BY <1>7, <1>9 DEF WritersAre
<1>11. ASSUME NEW l \in Ledgers \ {Audit}, l = k
       PROVE  Renews(Will(l), Will(l)')
  <2>1. Will(l) = f /\ Lined(f)
    <3>1. Will(l) = f
        BY <1>1, <1>3, <1>11, AsOnDisk
    <3> QED
        BY <3>1 DEF StoreInv, Legible
  <2>2. Owed(l)' = c \o i
    <3>1. out'[w].old = c /\ out'[w].row = i
        BY <1>8
    <3>2. lock' = w /\ lock' # Free /\ aim'[w].ledger = l
        BY <1>1, <1>3, <1>11
    <3> QED
        BY <3>1, <3>2 DEF Owed
  <2>3. PICK t : t = Will(l)'
      OBVIOUS
  <2>4. t = file'[l] \o (c \o i)
      BY <2>2, <2>3 DEF Will
  <2>5. t = Complete(f) \o i
    <3>1. CASE Torn(f)
      <4>1. file'[l] = <<>> /\ c = Complete(f)
          BY <1>4, <1>5, <1>11, <3>1 DEF StoreInv, StoreType
      <4>2. PICK z \in Seq(Bytes) : z = c \o i
          BY ConcatProperties
      <4>3. t = <<>> \o z
          BY <2>4, <4>1, <4>2
      <4>4. t = z
          BY <4>3, NothingAdded
      <4> QED
          BY <4>1, <4>2, <4>4
    <3>2. CASE ~ Torn(f)
      <4>1. file'[l] = f /\ c = <<>> /\ Complete(f) = f
          BY <1>3, <1>4, <1>5, <1>11, <3>2 DEF Torn
      <4>2. t = f \o (<<>> \o i)
          BY <2>4, <4>1
      <4>3. <<>> \o i = i
          BY NothingAdded
      <4> QED
          BY <4>1, <4>2, <4>3
    <3> QED
        BY <3>1, <3>2
  <2>6. r # 0 => /\ r <= begun /\ blob[Body[r]] = "whole"
                 /\ \A n \in 1..Full(f) : RowsIn(f)[n] # r
      BY <1>1, <1>3, <1>11 DEF StoreInv, Coming
  <2>7. Renews(f, t)
      BY <1>4, <2>5, <2>6 DEF Renews
  <2> QED
      BY <2>1, <2>3, <2>7
<1>12. ASSUME NEW l \in Ledgers \ {Audit}, l # k
       PROVE  /\ Same(Will(l), Will(l)')
              /\ \A v \in Writers : pc'[v] = "write" => aim'[v].ledger # l
  <2>1. file'[l] = file[l]
      BY <1>5, <1>12 DEF StoreInv, StoreType
  <2>2. Owed(l) = <<>> /\ Owed(l)' = <<>>
      BY <1>1, <1>3, <1>12 DEF Owed
  <2>3. Same(Will(l), Will(l)')
      BY <2>1, <2>2 DEF Same, Will
  <2> QED
      BY <1>3, <1>8, <1>12, <2>3
<1> QED
    BY <1>2, <1>3, <1>10, <1>11, <1>12

\* What is left once a byte of a part is written.
LEMMA PartWritten ==
    ASSUME NEW c, NEW m, NEW i, NEW u, NEW q, q = [old |-> c, note |-> m, row |-> i]
    PROVE  /\ [q EXCEPT !["old"] = u] = [old |-> u, note |-> m, row |-> i]
           /\ [q EXCEPT !["note"] = u] = [old |-> c, note |-> u, row |-> i]
           /\ [q EXCEPT !["row"] = u] = [old |-> c, note |-> m, row |-> u]
<1> DEFINE With(p) == [x \in {"old", "note", "row"} |-> IF x = p THEN u ELSE q[x]]
<1>1. /\ DOMAIN q = {"old", "note", "row"}
      /\ q["old"] = c /\ q["note"] = m /\ q["row"] = i
    OBVIOUS
<1>2. ASSUME NEW p \in {"old", "note", "row"}, NEW z, z = [q EXCEPT ![p] = u]
      PROVE  z = With(p)
    BY <1>1, <1>2
<1>3. [q EXCEPT !["old"] = u] = [old |-> u, note |-> m, row |-> i]
  <2>1. PICK y : y = [old |-> u, note |-> m, row |-> i]
      OBVIOUS
  <2>2. y = With("old")
      BY <1>1, <2>1
  <2> QED
      BY <1>2, <2>1, <2>2
<1>4. [q EXCEPT !["note"] = u] = [old |-> c, note |-> u, row |-> i]
  <2>1. PICK y : y = [old |-> c, note |-> u, row |-> i]
      OBVIOUS
  <2>2. y = With("note")
      BY <1>1, <2>1
  <2> QED
      BY <1>2, <2>1, <2>2
<1>5. [q EXCEPT !["row"] = u] = [old |-> c, note |-> m, row |-> u]
  <2>1. PICK y : y = [old |-> c, note |-> m, row |-> u]
      OBVIOUS
  <2>2. y = With("row")
      BY <1>1, <2>1
  <2> QED
      BY <1>2, <2>1, <2>2
<1> QED
    BY <1>3, <1>4, <1>5

\* A byte moves from what is owed to the file.
LEMMA WriteByteStep ==
    ASSUME StoreInv, NEW w \in Writers, WriteByte(w)
    PROVE  /\ WritersAre' /\ Later
           /\ \A l \in Ledgers \ {Audit} :
                /\ Same(Will(l), Will(l)')
                /\ \A v \in Writers : pc'[v] = "write" => pc[v] = "write" /\ aim'[v] = aim[v]
<1>1. /\ \A v \in Writers \ {w} : pc[v] = "idle" /\ out[v] = NoBytes
      /\ lock = w /\ lock # Free /\ pc[w] = "write" /\ out[w] # NoBytes /\ begun \in Nat
      /\ UNCHANGED <<blob, lock, pc, aim, begun>>
    BY OneAtWork, StoreTypes DEF WriteByte
<1>2. PICK k \in Ledgers, c, m, i \in Seq(Bytes) :
          k = aim[w].ledger /\ out[w] = [old |-> c, note |-> m, row |-> i]
  <2>1. PICK q \in [old : Seq(Bytes), note : Seq(Bytes), row : Seq(Bytes)] : q = out[w]
      BY StoreTypes DEF Rest
  <2>2. q = [old |-> q.old, note |-> q.note, row |-> q.row]
      OBVIOUS
  <2> QED
      BY <2>1, <2>2, StoreTypes
<1>3. Later
    BY <1>1 DEF Later
<1>4. \A v \in Writers : pc'[v] = "write" => pc[v] = "write" /\ aim'[v] = aim[v]
    BY <1>1
\* What is left to prove, whichever bytes are first.
<1>5. ASSUME NEW a \in Ledgers, NEW n \in Seq(Bytes), NEW rest \in Rest,
             file' = [file EXCEPT ![a] = n], out' = [out EXCEPT ![w] = rest]
      PROVE  /\ WritersAre'
             /\ out'[w] = rest /\ \A l \in Ledgers : file'[l] = IF l = a THEN n ELSE file[l]
  <2>1. /\ out'[w] = rest /\ \A l \in Ledgers : file'[l] = IF l = a THEN n ELSE file[l]
        /\ \A v \in Writers \ {w} : out'[v] = NoBytes
      BY <1>1, <1>5 DEF StoreInv, StoreType
  <2>2. StoreType'
      BY <1>1, <1>5 DEF StoreInv, StoreType, Rest
  <2>3. ASSUME NEW v \in Writers
        PROVE  Alone(v)' /\ Coming(v)'
      BY <1>1, <2>1 DEF StoreInv, Alone, Coming
  <2> QED
      BY <2>1, <2>2, <2>3 DEF WritersAre
<1>6. Owed(k) = c \o i /\ \A l \in Ledgers : l # k => Owed(l) = <<>> /\ Owed(l)' = <<>>
    BY <1>1, <1>2 DEF Owed
<1>7. CASE c # <<>>
  <2>1. PICK n \in Seq(Bytes), u \in Seq(Bytes) : n = Append(file[k], Head(c)) /\ u = Tail(c)
      BY <1>7, NextByte, StoreTypes
  <2>2. PICK rest \in Rest : rest = [old |-> u, note |-> m, row |-> i]
      BY DEF Rest
  <2>3. file' = [file EXCEPT ![k] = n] /\ out' = [out EXCEPT ![w] = rest]
    <3>1. Part(out[w]) = "old" /\ out[w]["old"] = c
        BY <1>2, <1>7 DEF Part
    <3>2. /\ file' = [file EXCEPT ![k] = Append(@, Head(c))]
          /\ out' = [out EXCEPT ![w] = [@ EXCEPT !["old"] = Tail(c)]]
        BY <1>2, <3>1 DEF WriteByte
    <3>3. [out[w] EXCEPT !["old"] = u] = rest
      <4>1. PICK q : q = out[w] /\ q = [old |-> c, note |-> m, row |-> i]
          BY <1>2
      <4>2. q = [old |-> c, note |-> m, row |-> i]
          BY <4>1
      <4>3. [q EXCEPT !["old"] = u] = [old |-> u, note |-> m, row |-> i]
          BY ONLY <4>2, PartWritten
      <4> QED
          BY <4>1, <4>3, <2>1, <2>2
    <3> QED
        BY <2>1, <3>2, <3>3 DEF StoreInv, StoreType
  <2>4. /\ WritersAre'
        /\ out'[w] = rest /\ \A l \in Ledgers : file'[l] = IF l = k THEN n ELSE file[l]
      BY <1>5, <2>3
  <2>5. Owed(k)' = u \o i
      BY <1>1, <1>2, <2>2, <2>4 DEF Owed
  <2>6. n \o (u \o i) = file[k] \o (c \o i)
    <3>1. PICK f \in Seq(Bytes) : f = file[k]
        BY StoreTypes
    <3>2. Append(f, Head(c)) \o (Tail(c) \o i) = f \o (c \o i)
        BY <1>7, NextByteOfOld
    <3> QED
        BY <2>1, <3>1, <3>2
  <2>7. ASSUME NEW l \in Ledgers \ {Audit}
        PROVE  Same(Will(l), Will(l)')
    <3>1. CASE l = k
        BY <1>6, <2>4, <2>5, <2>6, <3>1 DEF Same, Will
    <3>2. CASE l # k
        BY <1>6, <2>4, <3>2 DEF Same, Will
    <3> QED
        BY <3>1, <3>2
  <2> QED
      BY <1>3, <1>4, <2>4, <2>7
<1>8. CASE c = <<>> /\ m # <<>>
  <2>1. PICK n \in Seq(Bytes), u \in Seq(Bytes) : n = Append(file[Audit], Head(m)) /\ u = Tail(m)
      BY <1>8, NextByte, StoreTypes, AuditAssumption
  <2>2. PICK rest \in Rest : rest = [old |-> c, note |-> u, row |-> i]
      BY DEF Rest
  <2>3. file' = [file EXCEPT ![Audit] = n] /\ out' = [out EXCEPT ![w] = rest]
    <3>1. Part(out[w]) = "note" /\ out[w]["note"] = m
        BY <1>2, <1>8 DEF Part
    <3>2. /\ file' = [file EXCEPT ![Audit] = Append(@, Head(m))]
          /\ out' = [out EXCEPT ![w] = [@ EXCEPT !["note"] = Tail(m)]]
        BY <1>2, <3>1 DEF WriteByte
    <3>3. [out[w] EXCEPT !["note"] = u] = rest
      <4>1. PICK q : q = out[w] /\ q = [old |-> c, note |-> m, row |-> i]
          BY <1>2
      <4>2. q = [old |-> c, note |-> m, row |-> i]
          BY <4>1
      <4>3. [q EXCEPT !["note"] = u] = [old |-> c, note |-> u, row |-> i]
          BY ONLY <4>2, PartWritten
      <4> QED
          BY <4>1, <4>3, <2>1, <2>2
    <3> QED
        BY <2>1, <3>2, <3>3, AuditAssumption DEF StoreInv, StoreType
  <2>4. /\ WritersAre'
        /\ out'[w] = rest /\ \A l \in Ledgers : file'[l] = IF l = Audit THEN n ELSE file[l]
      BY <1>5, <2>3, AuditAssumption
  <2>5. Owed(k)' = c \o i
      BY <1>1, <1>2, <2>2, <2>4 DEF Owed
  <2>6. ASSUME NEW l \in Ledgers \ {Audit}
        PROVE  Same(Will(l), Will(l)')
    <3>1. Owed(l)' = Owed(l)
        BY <1>6, <2>5
    <3> QED
        BY <2>4, <3>1 DEF Same, Will
  <2> QED
      BY <1>3, <1>4, <2>4, <2>6
<1>9. CASE c = <<>> /\ m = <<>>
  <2>1. i # <<>>
      BY <1>1, <1>2, <1>9 DEF NoBytes
  <2>2. PICK n \in Seq(Bytes), u \in Seq(Bytes) : n = Append(file[k], Head(i)) /\ u = Tail(i)
      BY <2>1, NextByte, StoreTypes
  <2>3. PICK rest \in Rest : rest = [old |-> c, note |-> m, row |-> u]
      BY DEF Rest
  <2>4. file' = [file EXCEPT ![k] = n] /\ out' = [out EXCEPT ![w] = rest]
    <3>1. Part(out[w]) = "row" /\ out[w]["row"] = i
        BY <1>2, <1>9 DEF Part
    <3>2. /\ file' = [file EXCEPT ![k] = Append(@, Head(i))]
          /\ out' = [out EXCEPT ![w] = [@ EXCEPT !["row"] = Tail(i)]]
        BY <1>2, <3>1 DEF WriteByte
    <3>3. [out[w] EXCEPT !["row"] = u] = rest
      <4>1. PICK q : q = out[w] /\ q = [old |-> c, note |-> m, row |-> i]
          BY <1>2
      <4>2. q = [old |-> c, note |-> m, row |-> i]
          BY <4>1
      <4>3. [q EXCEPT !["row"] = u] = [old |-> c, note |-> m, row |-> u]
          BY ONLY <4>2, PartWritten
      <4> QED
          BY <4>1, <4>3, <2>2, <2>3
    <3> QED
        BY <2>2, <3>2, <3>3 DEF StoreInv, StoreType
  <2>5. /\ WritersAre'
        /\ out'[w] = rest /\ \A l \in Ledgers : file'[l] = IF l = k THEN n ELSE file[l]
      BY <1>5, <2>4
  <2>6. Owed(k)' = <<>> \o u
      BY <1>1, <1>2, <1>9, <2>3, <2>5 DEF Owed
  <2>7. Owed(k)' = u /\ Owed(k) = i
      BY <1>6, <1>9, <2>6, NothingAdded
  <2>8. n \o u = file[k] \o i
      BY <2>1, <2>2, NextByte, StoreTypes
  <2>9. ASSUME NEW l \in Ledgers \ {Audit}
        PROVE  Same(Will(l), Will(l)')
    <3>1. CASE l = k
        BY <2>5, <2>7, <2>8, <3>1 DEF Same, Will
    <3>2. CASE l # k
        BY <1>6, <2>5, <3>2 DEF Same, Will
    <3> QED
        BY <3>1, <3>2
  <2> QED
      BY <1>3, <1>4, <2>5, <2>9
<1> QED
    BY <1>7, <1>8, <1>9

LEMMA ReturnStep ==
    ASSUME StoreInv, NEW w \in Writers, Return(w)
    PROVE  /\ WritersAre' /\ Later
           /\ \A l \in Ledgers \ {Audit} : /\ Same(Will(l), Will(l)')
                                           /\ \A v \in Writers : pc'[v] # "write"
<1> USE DEF Return
<1>1. /\ \A v \in Writers \ {w} : pc[v] = "idle" /\ out[v] = NoBytes
      /\ lock = w /\ lock # Free /\ pc[w] = "write" /\ out[w] = NoBytes /\ begun \in Nat
    BY OneAtWork, StoreTypes
<1>2. Later
    BY <1>1 DEF Later
<1>3. \A v \in Writers : pc'[v] = "idle"
    BY <1>1 DEF StoreInv, StoreType
<1>4. StoreType'
  <2>1. Nothing \in [ledger : Ledgers, row : 0..MaxBegun]
      BY AuditAssumption, RowsAssumption DEF Nothing
  <2> QED
      BY <2>1 DEF StoreInv, StoreType
<1>5. ASSUME NEW v \in Writers
      PROVE  Alone(v)' /\ Coming(v)'
    BY <1>1, <1>3, WritersAssumption DEF Alone, Coming
<1>6. ASSUME NEW l \in Ledgers \ {Audit}
      PROVE  Same(Will(l), Will(l)')
  <2>1. Owed(l) = <<>> \/ Owed(l) = <<>> \o <<>>
      BY <1>1 DEF Owed, NoBytes
  <2>2. Owed(l)' = <<>>
      BY DEF Owed
  <2> QED
      BY <2>1, <2>2, NothingAdded, StoreTypes DEF Same, Will
<1> QED
    BY <1>2, <1>3, <1>4, <1>5, <1>6 DEF WritersAre

\* A kill leaves what had reached the file.
LEMMA KilledStep ==
    ASSUME StoreInv, NEW w \in Writers, Killed(w)
    PROVE  /\ WritersAre' /\ Later
           /\ \A l \in Ledgers \ {Audit} : /\ CutsOff(Will(l), Will(l)')
                                           /\ \A v \in Writers : pc'[v] # "write"
<1> USE DEF Killed
<1>1. /\ \A v \in Writers \ {w} : pc[v] = "idle" /\ out[v] = NoBytes
      /\ lock = w /\ lock # Free /\ begun \in Nat
    BY OneAtWork, StoreTypes
<1>2. Later
    BY <1>1 DEF Later
<1>3. \A v \in Writers : pc'[v] = "idle" /\ out'[v] = NoBytes
    BY <1>1 DEF StoreInv, StoreType
<1>4. StoreType'
  <2>1. Nothing \in [ledger : Ledgers, row : 0..MaxBegun]
      BY AuditAssumption, RowsAssumption DEF Nothing
  <2>2. NoBytes \in [old : Seq(Bytes), note : Seq(Bytes), row : Seq(Bytes)]
      BY DEF NoBytes
  <2> QED
      BY <2>1, <2>2 DEF StoreInv, StoreType
<1>5. ASSUME NEW v \in Writers
      PROVE  Alone(v)' /\ Coming(v)'
    BY <1>1, <1>3, WritersAssumption DEF Alone, Coming
<1>6. ASSUME NEW l \in Ledgers \ {Audit}
      PROVE  CutsOff(Will(l), Will(l)')
  <2>1. PICK o \in Seq(Bytes) : Will(l) = file[l] \o o
    <3>1. Owed(l) = <<>> \/ (lock = w /\ Owed(l) = out[w].old \o out[w].row)
        BY <1>1 DEF Owed
    <3>2. out[w].old \o out[w].row \in Seq(Bytes)
        BY StoreTypes, ConcatProperties
    <3>3. <<>> \in Seq(Bytes)
        OBVIOUS
    <3> QED
        BY <3>1, <3>2, <3>3 DEF Will
  <2>2. Owed(l)' = <<>>
      BY DEF Owed
  <2>3. Will(l)' = file[l] /\ file[l] \in Seq(Bytes)
      BY <2>2, NothingAdded, StoreTypes DEF Will
  <2> QED
      BY <2>1, <2>3 DEF CutsOff
<1> QED
    BY <1>2, <1>3, <1>4, <1>5, <1>6 DEF WritersAre

\* What the steps come to, for a ledger that is not the audit one.
Settled(l) ==
    \/ Renews(Will(l), Will(l)')
    \/ /\ Same(Will(l), Will(l)') \/ CutsOff(Will(l), Will(l)')
       /\ \A v \in Writers : pc'[v] = "write" /\ aim'[v].ledger = l =>
            pc[v] = "write" /\ aim[v].ledger = l /\ Same(Will(l), Will(l)')

LEMMA StoreSteps ==
    ASSUME StoreInv, StoreNext
    PROVE  WritersAre' /\ Later /\ \A l \in Ledgers \ {Audit} : Settled(l)
<1>1. PICK w \in Writers :
          \/ \E k \in Ledgers : BeginAppend(w, k) \/ BeginRepair(w, k)
          \/ StoreBytes(w) \/ EnsureCleanTail(w) \/ WriteByte(w) \/ Return(w) \/ Killed(w)
    BY DEF StoreNext
<1>2. ASSUME NEW k \in Ledgers, BeginAppend(w, k)
      PROVE  WritersAre' /\ Later /\ \A l \in Ledgers \ {Audit} : Settled(l)
    BY <1>2, BeginAppendStep DEF Settled
<1>3. ASSUME NEW k \in Ledgers, BeginRepair(w, k)
      PROVE  WritersAre' /\ Later /\ \A l \in Ledgers \ {Audit} : Settled(l)
    BY <1>3, BeginRepairStep DEF Settled
<1>4. CASE StoreBytes(w)
    BY <1>4, StoreBytesStep DEF Settled
<1>5. CASE EnsureCleanTail(w)
  <2>1. /\ WritersAre' /\ Later
        /\ \A l \in Ledgers \ {Audit} :
                IF l = aim[w].ledger THEN Renews(Will(l), Will(l)')
                ELSE /\ Same(Will(l), Will(l)')
                     /\ \A v \in Writers : pc'[v] = "write" => aim'[v].ledger # l
      BY <1>5, EnsureCleanTailStep
  <2> QED
      BY <2>1 DEF Settled
<1>6. CASE WriteByte(w)
    BY <1>6, WriteByteStep DEF Settled
<1>7. CASE Return(w)
    BY <1>7, ReturnStep DEF Settled
<1>8. CASE Killed(w)
    BY <1>8, KilledStep DEF Settled
<1> QED
    BY <1>1, <1>2, <1>3, <1>4, <1>5, <1>6, <1>7, <1>8

\* The rows before a step, and after it.
LEMMA ReadersView ==
    ASSUME NEW s, Lined(s)
    PROVE  ReadRows(Complete(s)) = RowsIn(s)
<1>1. PICK c : c = Complete(s)
    OBVIOUS
<1> QED
    BY <1>1, Completed

LEMMA StoreKeeps ==
    ASSUME StoreInv, StoreNext
    PROVE  /\ StoreInv'
           /\ \A l \in Ledgers \ {Audit} : UNCHANGED View(l) \/ Log(l)!Next
<1>1. WritersAre' /\ Later /\ begun' \in Nat
    BY StoreSteps DEF WritersAre, StoreType
<1>2. ASSUME NEW l \in Ledgers \ {Audit}
      PROVE  Legible(l)' /\ (UNCHANGED View(l) \/ Log(l)!Next)
  <2>1. PICK s, t : s = Will(l) /\ t = Will(l)'
      OBVIOUS
  <2>2. Settled(l)
      BY StoreSteps
  <2>3. Same(s, t) \/ Renews(s, t) \/ CutsOff(s, t)
      BY <2>1, <2>2 DEF Settled
  <2>4. /\ Lined(t) /\ Numbered(t)' /\ EachOnce(t)
        /\ Renews(s, t) => Len(t) = 3 * Full(t)
        /\ \/ RowsIn(t) = RowsIn(s)
           \/ \E r \in RowNumbers : /\ \A n \in 1..Full(s) : RowsIn(s)[n] # r
                                    /\ RowsIn(t) = Append(RowsIn(s), r)
           \/ \E n \in 0..Full(s) : RowsIn(t) = SubSeq(RowsIn(s), 1, n)
      BY <1>1, <2>1, <2>3, RowsThen
  <2>5. ASSUME NEW v \in Writers, pc'[v] = "write", aim'[v].ledger = l
        PROVE  Len(t) = 3 * Full(t)
    <3>1. CASE Renews(s, t)
        BY <2>4, <3>1
    <3>2. CASE ~ Renews(s, t)
      <4>1. pc[v] = "write" /\ aim[v].ledger = l /\ t = s
          BY <2>1, <2>2, <2>5, <3>2 DEF Settled, Same
      <4> QED
          BY <2>1, <4>1 DEF StoreInv, Legible
    <3> QED
        BY <3>1, <3>2
  <2>6. Legible(l)'
      BY <2>1, <2>4, <2>5 DEF Legible
  <2>7. Lined(s)
      BY <2>1 DEF StoreInv, Legible
  <2>8. View(l) = RowsIn(s) /\ View(l)' = RowsIn(t) /\ Len(RowsIn(s)) = Full(s)
    <3>1. ReadRows(Complete(s)) = RowsIn(s) /\ ReadRows(Complete(t)) = RowsIn(t)
        BY <2>4, <2>7, ReadersView
    <3> QED
        BY <2>1, <2>7, <3>1, RowsListed DEF View, Will
  <2>9. UNCHANGED View(l) \/ Log(l)!Grow \/ Log(l)!Drop
      BY <2>4, <2>8 DEF Log!Grow, Log!Drop
  <2> QED
      BY <2>6, <2>9 DEF Log!Next
<1> QED
    BY <1>1, <1>2 DEF StoreInv, WritersAre

LEMMA StoreRests ==
    ASSUME StoreInv, UNCHANGED store
    PROVE  StoreInv'
<1>1. /\ file' = file /\ blob' = blob /\ lock' = lock /\ pc' = pc /\ aim' = aim /\ out' = out
      /\ begun' = begun
    BY DEF store, writers
<1>2. \A l \in Ledgers : Will(l)' = Will(l)
    BY <1>1 DEF Will, Owed
<1>3. ASSUME NEW l \in Ledgers \ {Audit}
      PROVE  Legible(l)'
  <2>1. PICK s : s = Will(l)
      OBVIOUS
  <2>2. Numbered(s)' <=> Numbered(s)
      BY <1>1 DEF Numbered
  <2> QED
      BY <1>1, <1>2, <2>1, <2>2 DEF StoreInv, Legible
<1>4. ASSUME NEW w \in Writers
      PROVE  Alone(w)' /\ Coming(w)'
    BY <1>1 DEF StoreInv, Alone, Coming
<1>5. StoreType'
    BY <1>1 DEF StoreInv, StoreType
<1> QED
    BY <1>3, <1>4, <1>5 DEF StoreInv

LEMMA StoreBegins ==
    ASSUME StoreInit
    PROVE  StoreInv /\ \A l \in Ledgers \ {Audit} : Log(l)!Init
<1> USE DEF StoreInit
<1>1. StoreType
  <2>1. Nothing \in [ledger : Ledgers, row : 0..MaxBegun]
      BY AuditAssumption, RowsAssumption DEF Nothing
  <2>2. NoBytes \in [old : Seq(Bytes), note : Seq(Bytes), row : Seq(Bytes)]
      BY DEF NoBytes
  <2> QED
      BY <2>1, <2>2, RowsAssumption DEF StoreType
<1>2. ASSUME NEW w \in Writers
      PROVE  Alone(w) /\ Coming(w)
    BY WritersAssumption DEF Alone, Coming
<1>3. PICK s : s \in Seq(Bytes) /\ s = <<>>
  <2>1. <<>> \in Seq(Bytes)
      OBVIOUS
  <2> QED
      BY <2>1
<1>4. Lined(s) /\ Full(s) = 0 /\ RowsIn(s) = <<>>
    BY <1>3 DEF Lined, Full, RowsIn
<1>5. ASSUME NEW l \in Ledgers \ {Audit}
      PROVE  Legible(l) /\ Log(l)!Init
  <2>1. Will(l) = s
    <3>1. file[l] = <<>> /\ Owed(l) = <<>>
        BY DEF Owed
    <3> QED
        BY <1>3, <3>1, NothingAdded DEF Will
  <2>2. Numbered(s) /\ EachOnce(s)
      BY <1>4 DEF Numbered, EachOnce
  <2>3. Legible(l)
      BY <1>4, <2>1, <2>2 DEF Legible
  <2>4. View(l) = <<>>
      BY <1>4, <2>1, ReadersView DEF View, Will
  <2> QED
      BY <2>3, <2>4 DEF Log!Init
<1> QED
    BY <1>1, <1>2, <1>5 DEF StoreInv

\* The store's invariant holds in every state.
THEOREM StoreInvariant == StoreSpec => []StoreInv
<1>1. StoreInit => StoreInv
    BY StoreBegins
<1>2. StoreInv /\ [StoreNext]_store => StoreInv'
    BY StoreKeeps, StoreRests
<1> QED
    BY <1>1, <1>2, PTL DEF StoreSpec

LEMMA StoreInvSafe ==
    ASSUME StoreInv
    PROVE  ReadersSeeWhole
<1> SUFFICES ASSUME NEW l \in Ledgers \ {Audit}
             PROVE  LET rows == ReadRows(Complete(file[l]))
                    IN  /\ Readable(file[l])
                        /\ Len(rows) <= Len(View(l))
                        /\ rows = SubSeq(View(l), 1, Len(rows))
                        /\ \A n \in 1..Len(rows) : blob[Body[rows[n]]] = "whole"
    BY DEF ReadersSeeWhole
<1>1. PICK f \in Seq(Bytes), s, o \in Seq(Bytes) : f = file[l] /\ s = Will(l) /\ s = f \o o
  <2>1. Owed(l) \in Seq(Bytes)
    <3>1. <<>> \in Seq(Bytes)
        OBVIOUS
    <3>2. \A w \in Writers : out[w].old \o out[w].row \in Seq(Bytes)
        BY StoreTypes, ConcatProperties
    <3> QED
        BY <3>1, <3>2, StoreTypes DEF Owed
  <2>2. file[l] \in Seq(Bytes)
      BY StoreTypes
  <2>3. file[l] \o Owed(l) \in Seq(Bytes)
      BY <2>1, <2>2, ConcatProperties
  <2> QED
      BY <2>1, <2>2, <2>3 DEF Will
<1>2. Lined(s) /\ Numbered(s)
    BY <1>1 DEF StoreInv, Legible
<1>3. /\ Lined(f) /\ Full(f) \in 0..Full(s) /\ Full(s) \in Nat
      /\ RowsIn(f) = SubSeq(RowsIn(s), 1, Full(f))
      /\ \A n \in 1..Full(f) : n \in 1..Full(s) /\ RowsIn(f)[n] = RowsIn(s)[n]
    BY <1>1, <1>2, OnDiskIsBeginning
<1>4. ReadRows(Complete(f)) = RowsIn(f) /\ View(l) = RowsIn(s)
    BY <1>1, <1>2, <1>3, ReadersView DEF View, Will
<1>5. Len(RowsIn(f)) = Full(f) /\ Len(RowsIn(s)) = Full(s)
    BY <1>2, <1>3, RowsListed
<1>6. Readable(f)
    BY <1>3, LinedIsReadable
<1>7. \A n \in 1..Full(f) : blob[Body[RowsIn(f)[n]]] = "whole"
    BY <1>2, <1>3 DEF Numbered
<1> QED
    BY <1>1, <1>3, <1>4, <1>5, <1>6, <1>7

\* A reader that takes no lock never meets damage before the last line and
\* returns only a beginning of what is coming, its bytes whole
\* (Store.append, Store.read_all, Store._ensure_clean_tail).
THEOREM ReadersAreSafe == StoreSpec => []ReadersSeeWhole
<1>1. StoreInv => ReadersSeeWhole
    BY StoreInvSafe
<1> QED
    BY <1>1, StoreInvariant, PTL

\* To the lock's holder a ledger is a log in which no row comes twice and of
\* which only the end may go: the store implements RowLog.
THEOREM LedgersAreLogs == StoreSpec => ImplementsRowLog
<1>1. StoreInit => \A l \in Ledgers \ {Audit} : Log(l)!Init
    BY StoreBegins
<1>2. StoreInv /\ [StoreNext]_store =>
          [\A l \in Ledgers \ {Audit} : UNCHANGED View(l) \/ Log(l)!Next]_store
    BY StoreKeeps
<1> QED
    BY <1>1, <1>2, StoreInvariant, PTL DEF StoreSpec, ImplementsRowLog
=============================================================================
