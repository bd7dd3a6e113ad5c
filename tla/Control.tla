------------------------------- MODULE Control -------------------------------
(***************************************************************************)
(* The control server's own state: claimstone/control.py.                  *)
(*                                                                         *)
(* One thread per request.  Sessions, the login budgets and the            *)
(* idempotency keys live in memory, each behind its own lock; the people   *)
(* live in the ledger of Accounts, which the command line writes too, at   *)
(* any moment.  A request is a few steps: every lock taken, every read of  *)
(* the ledger and every row is one of its own.                             *)
(*                                                                         *)
(* A request looks its session up several times before its handler runs,   *)
(* each time alike and each time refusing alike; the last look is Admit.   *)
(***************************************************************************)
EXTENDS Accounts, Sequences, SequencesExt

CONSTANTS Threads, Tokens, Keys, Requests,
          LoginLimit, AddressLimit, HeldLimit,
          Idle, Absolute, Window, Kept,   \* the four spans of time, in ticks
          MaxClock                        \* bound: ticks

Kinds == {"login", "logout", "others", "password", "person", "post"}

ASSUME RequestAssumption == None \notin Tokens \cup Kinds

ASSUME SpanAssumption == Idle \in Nat /\ Absolute \in Nat /\ HeldLimit \in Nat \ {0}

VARIABLES
    sessions,    \* sessions[k]: the session under cookie k, or NoSession
    failures,    \* failures[i]: times of the booked failures of id i, oldest first
    addressed,   \* the same of the one address every request here comes from
    held,        \* the idempotency keys held, oldest first
    thread,      \* thread[t]: the request thread t serves
    clock,
    ran,         \* history: ran[<<i, key>>], the runs that wrote under i's key: none, one, or more
    forgotten    \* history: whose keys were dropped by age, by the limit, by a restart, or by a
                 \* handler that raised after it wrote

server  == <<sessions, failures, addressed, held, thread>>
control == <<accounts, server, clock, ran, forgotten>>

NoSession == [who |-> None]

\* What a thread knows of its request: the fields a kind of request has no use for stay empty.
Rest == [at |-> "rest", kind |-> None, who |-> None, word |-> None, new |-> None, token |-> None,
         target |-> None, key |-> None, request |-> None, found |-> Nobody, wrote |-> None]

\* A session stamped with the credential the ledger holds when it is created.
SessionStampedNow(i, person, now) ==
    [who |-> i, stamp |-> Stamp(people[i]), must_change |-> person.must_change,
     until |-> now + Idle, dies |-> now + Absolute,
     proof |-> person.credential, changed |-> FALSE]

\* proof: the credential its holder showed last; changed: the holder set it in this session.
Session(i, person, now) ==
    [who |-> i, stamp |-> Stamp(person), must_change |-> person.must_change,
     until |-> now + Idle, dies |-> now + Absolute,
     proof |-> person.credential, changed |-> FALSE]

-----------------------------------------------------------------------------
(***************************************************************************)
(* Sessions, budgets and keys: one locked operation each.                  *)
(***************************************************************************)
Live == {k \in Tokens : sessions[k] # NoSession}

Expired(k) == clock > sessions[k].until \/ clock > sessions[k].dies
Over(k)    == clock >= sessions[k].until \/ clock >= sessions[k].dies

Without(gone) == [k \in Tokens |-> IF k \in gone THEN NoSession ELSE sessions[k]]

\* A new session takes a new token, one that no request carries, and sweeps out the ones that
\* are over.
Carried == {thread[t].token : t \in Threads}

CreateSession(i, person) ==
    LET swept == Without({k \in Live : Over(k)})
    IN  \E k \in Tokens \ Carried :
            /\ sessions[k] = NoSession
            /\ sessions' = [swept EXCEPT ![k] = Session(i, person, clock)]

EndWhere(i, keep) ==
    sessions' = Without({k \in Live : Expired(k) \/ (sessions[k].who = i /\ k # keep)})

\* What counts: the bookings younger than the window.
InWindow(times) == SelectSeq(times, LAMBDA at : at > clock - Window)

Room(times, limit) == Len(InWindow(times)) < limit

Booked(times) == Append(InWindow(times), clock)

\* A success takes back the newest booking, whoever made it.
Forgiven(times) == IF times = <<>> THEN <<>> ELSE Front(times)

\* They stand in the order of their times: those that are too old come first.
Fresher(entries) ==
    LET old == {n \in 1..Len(entries) : entries[n].at + Kept <= clock}
    IN SubSeq(entries, Cardinality(old) + 1, Len(entries))

Found(entries, i, key) == {n \in 1..Len(entries) : entries[n].who = i /\ entries[n].key = key}

\* Room for one more: the oldest entries go, the running ones with the others.
Evicted(entries) ==
    SubSeq(entries, Len(entries) - Min({Len(entries), HeldLimit - 1}) + 1, Len(entries))

KeysOf(entries) == {<<entries[n].who, entries[n].key>> : n \in 1..Len(entries)}

-----------------------------------------------------------------------------
(***************************************************************************)
(* Requests arrive.                                                        *)
(***************************************************************************)
Goto(t, at) == thread' = [thread EXCEPT ![t].at = at]
Answer(t)   == thread' = [thread EXCEPT ![t] = Rest]

Carrying(kind, k) == [Rest EXCEPT !.at = "admit", !.kind = kind, !.token = k]

\* A cookie that names no session is refused at once and changes nothing.
Arrive(t, kinds, ids) ==
    /\ thread[t] = Rest
    /\ \E kind \in kinds :
        \/ /\ kind = "login"
           /\ \E i \in ids, w \in Words :
                  thread' = [thread EXCEPT ![t] =
                      [Rest EXCEPT !.at = "book", !.kind = kind, !.who = i, !.word = w]]
        \/ /\ kind \in {"logout", "others"}
           /\ \E k \in Live :
                  thread' = [thread EXCEPT ![t] = Carrying(kind, k)]
        \/ /\ kind = "password"
           /\ \E k \in Live, w, n \in Words :
                  /\ n # w
                  /\ thread' = [thread EXCEPT ![t] =
                         [Carrying(kind, k) EXCEPT !.word = w, !.new = n]]
        \/ /\ kind = "person"
           /\ \E k \in Live, w \in Words, j \in ids :
                  thread' = [thread EXCEPT ![t] =
                      [Carrying(kind, k) EXCEPT !.word = w, !.target = j]]
        \/ /\ kind = "post"
           /\ \E k \in Live, key \in Keys, r \in Requests :
                  thread' = [thread EXCEPT ![t] =
                      [Carrying(kind, k) EXCEPT !.key = key, !.request = r]]
    /\ UNCHANGED <<accounts, sessions, failures, addressed, held, clock, ran, forgotten>>

\* The session must hold, its person must still be enabled under the credential it was minted
\* under, and a person who owes a new password reaches only the routes that set one.
Accepted(k) ==
    /\ k \in Live /\ ~Expired(k)
    /\ sessions[k].who \in Enabled
    /\ Stamp(people[sessions[k].who]) = sessions[k].stamp

WhileChanging == {"logout", "password"}

Admit(t) ==
    LET q == thread[t]
        k == q.token
    IN  /\ q.at = "admit"
        /\ \/ /\ Readable /\ Accepted(k)
              /\ sessions' = [sessions EXCEPT ![k].until = clock + Idle]
              /\ \/ /\ sessions[k].must_change /\ q.kind \notin WhileChanging
                    /\ Answer(t)
                 \/ /\ ~(sessions[k].must_change /\ q.kind \notin WhileChanging)
                    /\ q.kind = "person" => people[sessions[k].who].role = "admin"
                    /\ thread' = [thread EXCEPT ![t].who = sessions[k].who,
                                                ![t].at = CASE q.kind \in {"password", "person"} -> "book"
                                                            [] q.kind = "post" -> "begin"
                                                            [] OTHER -> "end"]
                 \/ /\ q.kind = "person" /\ people[sessions[k].who].role # "admin"
                    /\ Answer(t)
           \/ /\ Readable /\ ~Accepted(k)
              /\ sessions' = Without({k})
              /\ Answer(t)
           \/ /\ ~Readable
              /\ Answer(t)
              /\ UNCHANGED sessions
        /\ UNCHANGED <<accounts, failures, addressed, held, clock, ran, forgotten>>

EndSession(t) ==
    LET q == thread[t]
    IN  /\ q.at = "end"
        /\ \/ q.kind = "logout" /\ sessions' = Without({q.token})
           \/ q.kind = "others" /\ EndWhere(q.who, q.token)
        /\ Answer(t)
        /\ UNCHANGED <<accounts, failures, addressed, held, clock, ran, forgotten>>

-----------------------------------------------------------------------------
(***************************************************************************)
(* A password is asked: at login, and again before what it protects.  The  *)
(* failure is booked before the password is looked at.                     *)
(***************************************************************************)
Book(t) ==
    LET q == thread[t]
        login == q.kind = "login"
    IN  /\ q.at = "book"
        /\ \/ /\ Room(failures[q.who], LoginLimit)
              /\ login => Room(addressed, AddressLimit)
              /\ failures' = [failures EXCEPT ![q.who] = Booked(@)]
              /\ addressed' = IF login THEN Booked(addressed) ELSE addressed
              /\ Goto(t, "read")
           \/ /\ ~Room(failures[q.who], LoginLimit) \/ (login /\ ~Room(addressed, AddressLimit))
              /\ Answer(t)
              /\ UNCHANGED <<failures, addressed>>
        /\ UNCHANGED <<accounts, sessions, held, clock, ran, forgotten>>

ReadPerson(t) ==
    /\ thread[t].at = "read"
    /\ \/ /\ Readable
          /\ thread' = [thread EXCEPT ![t].at = "verify",
                 ![t].found = IF thread[t].who \in Enabled THEN people[thread[t].who] ELSE Nobody]
       \/ ~Readable /\ Answer(t)
    /\ UNCHANGED <<accounts, sessions, failures, addressed, held, clock, ran, forgotten>>

\* Wrong, unknown, or no free slot to compute in: the booking stays.
VerifyPassword(t) ==
    LET q == thread[t]
        login == q.kind = "login"
    IN  /\ q.at = "verify"
        /\ \/ /\ q.found # Nobody /\ Verify(q.found, q.word)
              /\ failures' = [failures EXCEPT ![q.who] = Forgiven(@)]
              /\ addressed' = IF login THEN Forgiven(addressed) ELSE addressed
              /\ Goto(t, IF login THEN "open" ELSE IF q.kind = "password" THEN "write" ELSE "apply")
           \/ /\ Answer(t)
              /\ UNCHANGED <<failures, addressed>>
        /\ UNCHANGED <<accounts, sessions, held, clock, ran, forgotten>>

OpenSession(t) ==
    /\ thread[t].at = "open"
    /\ CreateSession(thread[t].who, thread[t].found)
    /\ Answer(t)
    /\ UNCHANGED <<accounts, failures, addressed, held, clock, ran, forgotten>>

-----------------------------------------------------------------------------
(***************************************************************************)
(* One's own password: the row, the other sessions, then this session's    *)
(* stamp, read from the ledger as it is by then.                           *)
(***************************************************************************)
WritePassword(t) ==
    LET q == thread[t]
    IN  /\ q.at = "write"
        /\ \/ /\ SetPassword(q.who, q.new, FALSE)
              /\ thread' = [thread EXCEPT ![t].at = "others", ![t].wrote = Fresh(q.new)]
           \/ ~MaySetPassword(q.who) /\ Answer(t) /\ UNCHANGED accounts
        /\ UNCHANGED <<sessions, failures, addressed, held, clock, ran, forgotten>>

EndOthers(t) ==
    /\ thread[t].at = "others"
    /\ EndWhere(thread[t].who, thread[t].token)
    /\ Goto(t, "restamp")
    /\ UNCHANGED <<accounts, failures, addressed, held, clock, ran, forgotten>>

Restamp(t) ==
    LET q == thread[t]
        k == q.token
        cleared == [sessions[k] EXCEPT !.must_change = FALSE]
    IN  /\ q.at = "restamp"
        /\ sessions' = [sessions EXCEPT ![k] =
               IF k \notin Live THEN @
               ELSE IF ~Readable \/ q.who \notin Enabled THEN cleared
               ELSE [cleared EXCEPT !.stamp = Stamp(people[q.who]),
                                    !.proof = q.wrote, !.changed = TRUE]]
        /\ Answer(t)
        /\ UNCHANGED <<accounts, failures, addressed, held, clock, ran, forgotten>>

(***************************************************************************)
(* An administrator acts on a person: the row, then that person's          *)
(* sessions when the row takes the door away.                              *)
(***************************************************************************)
Apply(t) ==
    LET q == thread[t]
        j == q.target
    IN  /\ q.at = "apply"
        /\ \/ \E w \in Words : SetPassword(j, w, TRUE) /\ Goto(t, "revoke")
           \/ DisableOperator(j) /\ Goto(t, "revoke")
           \/ EnableOperator(j) /\ Answer(t)
           \/ \E r \in Roles : SetRole(j, r) /\ Answer(t)
           \/ \E e \in Emails \cup {None} : SetEmail(j, e) /\ Answer(t)
           \/ \E w \in Words, r \in Roles, e \in Emails \cup {None} :
                  AddOperator(j, w, r, e, TRUE) /\ Answer(t)
           \/ Answer(t) /\ UNCHANGED accounts        \* a rule or the body refuses
        /\ UNCHANGED <<sessions, failures, addressed, held, clock, ran, forgotten>>

Revoke(t) ==
    /\ thread[t].at = "revoke"
    /\ EndWhere(thread[t].target, None)
    /\ Answer(t)
    /\ UNCHANGED <<accounts, failures, addressed, held, clock, ran, forgotten>>

-----------------------------------------------------------------------------
(***************************************************************************)
(* A write under an Idempotency-Key.                                       *)
(***************************************************************************)
\* A key that is only marked once its request has succeeded.
BeginKeyUnmarked(t) ==
    LET q    == thread[t]
        kept == Fresher(held)
    IN  /\ q.at = "begin"
        /\ held' = kept
        /\ forgotten' = forgotten \cup (KeysOf(held) \ KeysOf(kept))
        /\ \/ Found(kept, q.who, q.key) # {} /\ Answer(t)
           \/ Found(kept, q.who, q.key) = {} /\ Goto(t, "run")
        /\ UNCHANGED <<accounts, sessions, failures, addressed, clock, ran>>

BeginKey(t) ==
    LET q    == thread[t]
        kept == Fresher(held)
        mine == Found(kept, q.who, q.key)
        room == Evicted(kept)
    IN  /\ q.at = "begin"
        /\ \/ /\ mine # {}          \* a conflict, still running, or replayed
              /\ held' = kept
              /\ Answer(t)
              /\ forgotten' = forgotten \cup (KeysOf(held) \ KeysOf(kept))
           \/ /\ mine = {}
              /\ held' = Append(room, [who |-> q.who, key |-> q.key, request |-> q.request,
                                       at |-> clock, result |-> None])
              /\ forgotten' = forgotten \cup (KeysOf(held) \ KeysOf(room))
              /\ Goto(t, "run")
        /\ UNCHANGED <<accounts, sessions, failures, addressed, clock, ran>>

\* The handler: it is refused, it does what it is asked, or it raises after it wrote, and that
\* frees the key of a write that is done.
Run(t) ==
    LET q == thread[t]
        done == [ran EXCEPT ![<<q.who, q.key>>] = Min({2, @ + 1})]
    IN  /\ q.at = "run"
        /\ \/ Goto(t, "refused") /\ UNCHANGED <<ran, forgotten>>
           \/ Goto(t, "finish") /\ ran' = done /\ UNCHANGED forgotten
           \/ Goto(t, "refused") /\ ran' = done /\ forgotten' = forgotten \cup {<<q.who, q.key>>}
        /\ UNCHANGED <<accounts, sessions, failures, addressed, held, clock>>

\* A success is kept under whatever request the key stands for by now; a refusal frees the key.
FinishKey(t) ==
    LET q    == thread[t]
        mine == Found(held, q.who, q.key)
    IN  /\ \/ /\ q.at = "finish"
              /\ held' = [n \in 1..Len(held) |-> IF n \in mine THEN [held[n] EXCEPT !.result = q.request]
                                                             ELSE held[n]]
           \/ /\ q.at = "refused"
              /\ held' = IF mine = {} THEN held ELSE RemoveAt(held, CHOOSE n \in mine : TRUE)
        /\ Answer(t)
        /\ UNCHANGED <<accounts, sessions, failures, addressed, clock, ran, forgotten>>

-----------------------------------------------------------------------------
\* The command line, another process, writes the same ledger.
CommandLine ==
    /\ \E i \in Ids :
        \/ \E w \in Words : SetPassword(i, w, TRUE)
        \/ DisableOperator(i)
        \/ EnableOperator(i)
        \/ CutRow
    /\ UNCHANGED <<server, clock, ran, forgotten>>

\* A password is verified within seconds; a tick is a good part of the shortest span.
Tick ==
    /\ clock < MaxClock
    /\ \A t \in Threads : thread[t].at \in {"read", "verify"} =>
           \A n \in 1..Len(failures[thread[t].who]) : failures[thread[t].who][n] = clock
    /\ clock' = clock + 1
    /\ UNCHANGED <<accounts, server, ran, forgotten>>

\* Everything in memory goes with the process; the ledger stays.
Restart ==
    /\ \E t \in Threads : thread[t] # Rest
    /\ sessions' = [k \in Tokens |-> NoSession]
    /\ failures' = [i \in Ids |-> <<>>]
    /\ addressed' = <<>>
    /\ held' = <<>>
    /\ thread' = [t \in Threads |-> Rest]
    /\ forgotten' = Ids \X Keys
    /\ UNCHANGED <<accounts, clock, ran>>

ServerInit ==
    /\ failures = [i \in Ids |-> <<>>]
    /\ addressed = <<>>
    /\ held = <<>>
    /\ thread = [t \in Threads |-> Rest]
    /\ clock = 0
    /\ ran = [of \in Ids \X Keys |-> 0]
    /\ forgotten = {}

Serve(t) ==
    \/ Admit(t) \/ EndSession(t)
    \/ Book(t) \/ ReadPerson(t) \/ VerifyPassword(t) \/ OpenSession(t)
    \/ WritePassword(t) \/ EndOthers(t) \/ Restamp(t)
    \/ Apply(t) \/ Revoke(t)
    \/ BeginKey(t) \/ Run(t) \/ FinishKey(t)

\* The server and the ledger it shares: any request by anyone, while the command line does
\* what it likes.
ControlInit ==
    /\ AccountsInit
    /\ sessions = [k \in Tokens |-> NoSession]
    /\ ServerInit

ControlNext ==
    \/ \E t \in Threads : Arrive(t, Kinds, Ids) \/ Serve(t)
    \/ AccountsNext /\ UNCHANGED <<server, clock, ran, forgotten>>
    \/ Tick
    \/ Restart

ControlSpec == ControlInit /\ [][ControlNext]_control

-----------------------------------------------------------------------------
\* A session opened by a login carries the credential whose password was shown, and its debt of
\* a new password, even when the ledger moved between the reading, the verification and the
\* opening: until its holder changes the password in it, it can never answer for another one.
\* A session in which the holder changed the password is stamped with the credential that was
\* written, or with a newer one when another row came in before the restamp
\* (control._account_password reads the ledger again): never with an older one.
LoginCarriesProof ==
    \A k \in Live :
        /\ ~sessions[k].changed =>
              /\ sessions[k].stamp = sessions[k].proof
              /\ Readable /\ Accepted(k) /\ people[sessions[k].who].must_change
                    => sessions[k].must_change
        /\ sessions[k].changed =>
              \/ sessions[k].stamp = sessions[k].proof
              \/ sessions[k].stamp.salt > sessions[k].proof.salt

\* A key that was never dropped, by age, by the limit, by a restart or by a handler that raised
\* after it wrote, ran one request, once, and what it replays is the answer to the request it
\* stands for.
KeyStandsForOne ==
    \A i \in Ids, key \in Keys : <<i, key>> \notin forgotten =>
        /\ ran[<<i, key>>] <= 1
        /\ \A n \in Found(held, i, key) : held[n].result \in {None, held[n].request}
=============================================================================
