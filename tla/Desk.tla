--------------------------------- MODULE Desk ---------------------------------
(***************************************************************************)
(* What people bring to a flow and decide in it: intake.py, decisions.py   *)
(* and their routes in control.py.                                         *)
(*                                                                         *)
(* The control server serves every request in a thread of its own.  A      *)
(* route takes no lock: the rules take the project's writer lock for       *)
(* single appends and short blocks, and read without it in between.  A     *)
(* stage of another process transfers copies meanwhile.  The server may be *)
(* killed at any point.                                                    *)
(***************************************************************************)
EXTENDS Naturals, Sequences, FiniteSets, SequencesExt

CONSTANTS Clerks,       \* threads of the server
          Papers,       \* files, each known by the hash of its bytes
          References,   \* what can be proposed by name
          Works,        \* candidates of the flow
          Judged,       \* Judged[f][w]: "refused", "other" or "same": what the checks say of file f
          Alike,        \* Alike[r]: "DUPLICATE", "POSSIBLE_VERSION" or None: reference r, compared
          OpenRound,    \* the flow names a round that still grows
          Prices,       \* terms an offer may have
          None,
          MaxItems, MaxOffers, MaxTransfers, MaxKills   \* bounds

ASSUME DeskAssumption ==
    OpenRound \in BOOLEAN /\ \A r \in References : Alike[r] \in {"DUPLICATE", "POSSIBLE_VERSION", None}

Answers == {"same_work", "version_of", "different", "not_sure"}
AtRest  == [at |-> "rest"]

VARIABLES
    quarantine, raw,  \* the files whose bytes are held there
    items,            \* intake items: what, for which work, the latest state; "new" before any row
    held,             \* held[w]: rows of w in acquisitions.jsonl: success, and the item it is from
    document,         \* document[w]: the document check of w: None, TRUE or FALSE
    answers,          \* identity decisions: item and answer
    offers,           \* purchase offers: work, terms and the latest state
    clerk,            \* clerk[t]: where thread t stands
    writer,           \* the thread that holds the writer lock, or None
    kills             \* times the server was killed

desk == <<quarantine, raw, items, held, document, answers, offers, clerk, writer, kills>>

At(t, place)    == clerk[t].at = place
Become(t, next) == clerk' = [clerk EXCEPT ![t] = next]
Go(t, place)    == clerk' = [clerk EXCEPT ![t].at = place]

State(n, s) == items' = [items EXCEPT ![n].state = s]

HeldRow(w) == IF held[w] = <<>> THEN [ok |-> FALSE, item |-> 0] ELSE Last(held[w])

\* A copy is held that is confirmed as a document, or awaits that check.
Provided(w) == HeldRow(w).ok /\ document[w] # FALSE

-----------------------------------------------------------------------------
(***************************************************************************)
(* A file for one candidate.                                               *)
(***************************************************************************)
\* The bytes are looked for when the last of them has come; only then are they kept.
Upload(t, f, w) ==
    /\ At(t, "rest") /\ Len(items) < MaxItems
    /\ items' = Append(items, [kind |-> "file", what |-> f, for |-> w, state |-> "new"])
    /\ Become(t, [at |-> "streamed", item |-> Len(items) + 1, known |-> f \in quarantine \cup raw])
    /\ UNCHANGED <<quarantine, raw, held, document, answers, offers, writer, kills>>

Keep(t) ==
    /\ At(t, "streamed")
    /\ quarantine' = IF clerk[t].known THEN quarantine ELSE quarantine \cup {items[clerk[t].item].what}
    /\ Go(t, "kept")
    /\ UNCHANGED <<raw, items, held, document, answers, offers, writer, kills>>

Earlier(f) == {n \in DOMAIN items : items[n].kind = "file" /\ items[n].what = f /\ items[n].state # "new"}

\* Identical bytes add nothing.
Look(t) ==
    LET n == clerk[t].item
    IN  /\ At(t, "kept") /\ writer = None
        /\ IF clerk[t].known \/ Earlier(items[n].what) # {}
           THEN State(n, "DUPLICATE") /\ Become(t, AtRest)
           ELSE Go(t, "looked") /\ UNCHANGED items
        /\ UNCHANGED <<quarantine, raw, held, document, answers, offers, writer, kills>>

Examine(t) ==
    LET n == clerk[t].item
        says == Judged[items[n].what][items[n].for]
    IN  /\ At(t, "looked")
        /\ \/ says = "same" /\ Go(t, "identified") /\ UNCHANGED items
           \/ /\ says # "same" /\ writer = None
              /\ State(n, IF says = "other" THEN "POSSIBLE_VERSION" ELSE "REJECTED")
              /\ Become(t, AtRest)
        /\ UNCHANGED <<quarantine, raw, held, document, answers, offers, writer, kills>>

\* Whether a copy is needed is read without the lock.
Accept(t) ==
    LET n == clerk[t].item
    IN  /\ At(t, "identified")
        /\ \/ /\ Provided(items[n].for) /\ writer = None
              /\ State(n, "DUPLICATE") /\ Become(t, AtRest)
              /\ UNCHANGED raw
           \/ /\ ~Provided(items[n].for)
              /\ raw' = raw \cup {items[n].what}
              /\ Go(t, "stored")
              /\ UNCHANGED items
        /\ UNCHANGED <<quarantine, held, document, answers, offers, writer, kills>>

\* Two rows under the lock: the copy, then how it counts.
EnterCopy(t) ==
    LET n == clerk[t].item
    IN  /\ At(t, "stored") /\ writer = None /\ writer' = t
        /\ held' = [held EXCEPT ![items[n].for] = Append(@, [ok |-> TRUE, item |-> n])]
        /\ Go(t, "entered")
        /\ UNCHANGED <<quarantine, raw, items, document, answers, offers, kills>>

\* COUNTED or REPORTED_SEPARATELY, as the project declares.
SayAccepted(t) ==
    /\ At(t, "entered") /\ writer' = None
    /\ State(clerk[t].item, "ACCEPTED")
    /\ Go(t, "said")
    /\ UNCHANGED <<quarantine, raw, held, document, answers, offers, kills>>

Unlink(t) ==
    /\ At(t, "said")
    /\ quarantine' = quarantine \ {items[clerk[t].item].what}
    /\ Become(t, AtRest)
    /\ UNCHANGED <<raw, items, held, document, answers, offers, writer, kills>>

-----------------------------------------------------------------------------
(***************************************************************************)
(* References, and whose work an item is.                                  *)
(***************************************************************************)
Routed == IF OpenRound THEN "READY" ELSE "NEEDS_NEW_ROUND"

Propose(r, w) ==
    LET again == \E n \in DOMAIN items : items[n].kind = "reference" /\ items[n].what = r
    IN  /\ writer = None /\ Len(items) < MaxItems
        /\ items' = Append(items, [kind |-> "reference", what |-> r, for |-> w, state |->
               IF again THEN "DUPLICATE" ELSE IF Alike[r] = None THEN Routed ELSE Alike[r]])
        /\ UNCHANGED <<quarantine, raw, held, document, answers, offers, clerk, writer, kills>>

\* A version of the work is taken for its copy.
MakesCopyLoosely(kind, answer) == kind = "file" /\ answer \in {"same_work", "version_of"}

MakesCopy(kind, answer) == kind = "file" /\ answer = "same_work"

Outcome(kind, answer) ==
    CASE kind = "file"         -> "REJECTED"
      [] answer = "different"  -> Routed
      [] OTHER                 -> "DUPLICATE"

\* The answer is recorded under the lock; what it does to the item comes after.
Answer(t, n, answer) ==
    /\ At(t, "rest") /\ writer = None
    /\ items[n].state = "POSSIBLE_VERSION"
    /\ answers' = answers \cup {[item |-> n, answer |-> answer]}
    /\ Become(t, CASE answer = "not_sure" -> AtRest
                   [] MakesCopy(items[n].kind, answer) -> [at |-> "confirmed", item |-> n]
                   [] OTHER -> [at |-> "decided", item |-> n, to |-> Outcome(items[n].kind, answer)])
    /\ UNCHANGED <<quarantine, raw, items, held, document, offers, writer, kills>>

Restate(t) ==
    /\ At(t, "decided") /\ writer = None
    /\ State(clerk[t].item, clerk[t].to) /\ Become(t, AtRest)
    /\ UNCHANGED <<quarantine, raw, held, document, answers, offers, writer, kills>>

\* A file that is no longer held ends the request, after its answer was recorded.
Fetch(t) ==
    /\ At(t, "confirmed")
    /\ IF items[clerk[t].item].what \in quarantine THEN Go(t, "identified") ELSE Become(t, AtRest)
    /\ UNCHANGED <<quarantine, raw, items, held, document, answers, offers, writer, kills>>

-----------------------------------------------------------------------------
(***************************************************************************)
(* Purchase offers.  What is bought is bought elsewhere; possession is a   *)
(* file that was accepted, and no state of an offer.                       *)
(***************************************************************************)
Live(w) == {o \in DOMAIN offers : offers[o].for = w /\ offers[o].state \notin {"obsolete", "declined"}}

MayRecord(w, price) ==
    /\ writer = None /\ Len(offers) < MaxOffers
    /\ ~HeldRow(w).ok
    /\ \A o \in Live(w) : offers[o].price # price

RecordOffer(t, w, price) ==
    /\ At(t, "rest") /\ MayRecord(w, price)
    /\ writer' = t
    /\ Become(t, [at |-> "offering", for |-> w, price |-> price])
    /\ UNCHANGED <<quarantine, raw, items, held, document, answers, offers, kills>>

\* Each live offer of the work becomes obsolete, then the new one is recorded.
Supersede(t, o) ==
    /\ At(t, "offering") /\ o \in Live(clerk[t].for)
    /\ offers' = [offers EXCEPT ![o].state = "obsolete"]
    /\ UNCHANGED <<quarantine, raw, items, held, document, answers, clerk, writer, kills>>

Offer(t) ==
    /\ At(t, "offering") /\ Live(clerk[t].for) = {}
    /\ offers' = Append(offers, [for |-> clerk[t].for, price |-> clerk[t].price, state |-> "proposed"])
    /\ writer' = None /\ Become(t, AtRest)
    /\ UNCHANGED <<quarantine, raw, items, held, document, answers, kills>>

NextByHand(state) ==
    CASE state = "proposed" -> {"approved", "declined"}
      [] state = "approved" -> {"bought_externally", "declined"}
      [] OTHER              -> {}

\* Only a decision that was declined or bought is closed.
ClosedButObsolete == {"declined", "bought_externally"}

Closed == {"declined", "obsolete", "bought_externally"}

OfferStage(o, state) ==
    /\ writer = None
    /\ state \in NextByHand(offers[o].state)
           \cup IF offers[o].state \in Closed THEN {} ELSE {"deferred", "declined"}
    /\ offers' = [offers EXCEPT ![o].state = state]
    /\ UNCHANGED <<quarantine, raw, items, held, document, answers, clerk, writer, kills>>

-----------------------------------------------------------------------------
(***************************************************************************)
(* The stages of other processes, and a kill of the server.                *)
(***************************************************************************)
Transfer(w) ==
    /\ writer = None /\ ~HeldRow(w).ok /\ Len(held[w]) < MaxTransfers
    /\ \E ok \in BOOLEAN : held' = [held EXCEPT ![w] = Append(@, [ok |-> ok, item |-> 0])]
    /\ UNCHANGED <<quarantine, raw, items, document, answers, offers, clerk, writer, kills>>

CheckDocument(w) ==
    /\ writer = None /\ HeldRow(w).ok
    /\ \E says \in BOOLEAN : document' = [document EXCEPT ![w] = says]
    /\ UNCHANGED <<quarantine, raw, items, held, answers, offers, clerk, writer, kills>>

KillServer ==
    /\ kills < MaxKills /\ kills' = kills + 1
    /\ \E t \in Clerks : clerk[t] # AtRest
    /\ clerk' = [t \in Clerks |-> AtRest]
    /\ writer' = None
    /\ UNCHANGED <<quarantine, raw, items, held, document, answers, offers>>

DeskInit ==
    /\ quarantine = {} /\ raw = {} /\ items = <<>> /\ answers = {} /\ offers = <<>>
    /\ held = [w \in Works |-> <<>>] /\ document = [w \in Works |-> None]
    /\ clerk = [t \in Clerks |-> AtRest] /\ writer = None /\ kills = 0

Receiving(t) ==
    \/ \E f \in Papers, w \in Works : Upload(t, f, w)
    \/ Keep(t) \/ Look(t) \/ Examine(t) \/ Accept(t) \/ EnterCopy(t) \/ SayAccepted(t) \/ Unlink(t)

Deciding(t) ==
    \/ \E n \in DOMAIN items, answer \in Answers : Answer(t, n, answer)
    \/ Restate(t) \/ Fetch(t)

Proposing == \E r \in References, w \in Works : Propose(r, w)

Buying ==
    \/ \E t \in Clerks :
           \/ \E w \in Works, price \in Prices : RecordOffer(t, w, price)
           \/ \E o \in DOMAIN offers : Supersede(t, o)
           \/ Offer(t)
    \/ \E o \in DOMAIN offers, state \in {"approved", "bought_externally", "deferred", "declined"} :
           OfferStage(o, state)

Staging == \E w \in Works : Transfer(w) \/ CheckDocument(w)

DeskNext == (\E t \in Clerks : Receiving(t) \/ Deciding(t)) \/ Proposing \/ Buying \/ Staging \/ KillServer

DeskSpec == DeskInit /\ [][DeskNext]_desk

-----------------------------------------------------------------------------
\* A supplied file is a candidate's copy only where its title was found or a person answered
\* "the same work" of that very item, an item is shown as accepted only once its copy is on
\* record, and the bytes of every item are kept, over races of threads and kills between any
\* two writes (intake._accept, decisions.resolve_identity).
SuppliedCopies ==
    /\ \A w \in Works : \A k \in DOMAIN held[w] : LET n == held[w][k].item IN
           n # 0 => /\ items[n].for = w /\ items[n].what \in raw
                    /\ \/ Judged[items[n].what][w] = "same"
                       \/ [item |-> n, answer |-> "same_work"] \in answers
    /\ \A n \in DOMAIN items : items[n].kind = "file" =>
           /\ items[n].state = "ACCEPTED" => \E k \in DOMAIN held[items[n].for] : held[items[n].for][k].item = n
           /\ items[n].state # "new" => items[n].what \in quarantine \cup raw

\* A work never has two offers alive: an approval does not carry over to changed terms, whatever
\* was deferred, declined or interrupted before (decisions.record_offer, set_state).
OneLiveOffer == \A w \in Works : Cardinality(Live(w)) <= 1
=============================================================================
