-------------------------------- MODULE Journey --------------------------------
(***************************************************************************)
(* What a person is shown of a round: the pages that round_state.py,       *)
(* portal_state.py and journey.py derive from the ledgers.                 *)
(*                                                                         *)
(* Nothing here is state: a page is a function of Round's variables, read  *)
(* at one moment, for a round with one literature question, no operation   *)
(* in flight and every ledger readable.  The step and the card about the   *)
(* flow's own binding are left out.                                        *)
(***************************************************************************)
EXTENDS Round

ASSUME CardsAssumption == None \notin {"synthesize", "adjudicate"}

-----------------------------------------------------------------------------
(***************************************************************************)
(* The verdict rows that every part of a page is built from.               *)
(***************************************************************************)

\* A drifted registry leaves no row, neither does a round nothing was synthesized for.
HasRow == stored # None /\ ~Drifted(project)

\* The live profile, or the stored one of a round that is refused now: worked out once for a
\* page, whose parts are all about it.
Shown == IF Refused(project) THEN stored ELSE Preview(project)

Signed == HasRow /\ Standing(project)

-----------------------------------------------------------------------------
(***************************************************************************)
(* The steps of the journey.                                               *)
(***************************************************************************)
Final == RoundBlocking(project) = {}

SearchStep ==
    IF Found = {} THEN "not_started"
    ELSE IF "awaiting_discovery" \in RoundBlocking(project) THEN "partial" ELSE "done"

CopiesStep ==
    CASE Found = {}                                     -> "not_started"
      [] Found # {} /\ Final /\ Sufficient(project)     -> "done"
      [] Found # {} /\ Final /\ Refused(project)        -> "blocked"
      [] OTHER                                          -> "partial"

DocumentsStep ==
    IF \A s \in Found : docs[s] \notin Chunks THEN "not_started"
    ELSE IF "awaiting_normalize" \in RoundBlocking(project) THEN "partial" ELSE "done"

\* Readings answered of those the shown profile expects.
AnnotateStep(shown) ==
    IF ~HasRow \/ shown.evidence.chunks = {} THEN "not_started"
    ELSE IF "awaiting_extract" \in shown.blocking THEN "partial" ELSE "done"

ReviewStepOn(reviewed) ==
    CASE reviewed = {}                          -> "not_started"
      [] reviewed # {} /\ reviewed = Accepted   -> "done"
      [] OTHER                                  -> "partial"

\* Mistake: every review on record counts, of whatever annotation and judged however since.
ReviewStepAsGiven == ReviewStepOn({i \in Accepted : StandsAsGiven(i)})

ReviewStep == ReviewStepOn(Reviewed)

ProfilesStep(shown) ==
    CASE Drifted(project) \/ (HasRow /\ Refused(project)) -> "blocked"
      [] ~Drifted(project) /\ ~HasRow                     -> "not_started"
      [] OTHER -> IF Provisional(shown) THEN "partial" ELSE "done"

Pipeline(shown) ==
    LET seen == {SearchStep, CopiesStep, DocumentsStep,
                 AnnotateStep(shown), ReviewStep, ProfilesStep(shown)}
    IN  CASE seen = {"done"}         -> "done"
          [] "blocked" \in seen      -> "blocked"
          [] seen = {"not_started"}  -> "not_started"
          [] OTHER                   -> "partial"

-----------------------------------------------------------------------------
(***************************************************************************)
(* The cards of the inbox.                                                 *)
(***************************************************************************)
WorkCards ==
    {<<"ACQUISITION", s>> : s \in {s \in Found : ~Holds(s) /\ ~Collapse(s).unclassed}}
    \cup {<<"CLASSIFICATION", s>> : s \in {s \in Found : class[s] = None}}
    \cup {<<"NORMALIZE", s>> : s \in Obtained(project) \ Read(project)}

\* Mistake: a signature is offered without a look at whether the stored profile is the live one.
SignCardUnread(shown) ==
    IF ~HasRow \/ Refused(project) \/ Provisional(shown) \/ Signed THEN None ELSE "adjudicate"

\* What may be done about the question: rebuild its profile, sign it, or nothing.
SignCard(shown) ==
    CASE ~HasRow \/ Refused(project)          -> None
      [] HasRow /\ ~Refused(project)
         -> IF Provisional(shown) \/ Signed THEN None
            ELSE IF stored # shown THEN "synthesize" ELSE "adjudicate"

\* What else the inbox names: of the ledgers, the registry and the question.
OtherCards(shown, act) ==
    {card \in {<<"INTEGRITY", "repairs">>} : repaired}
    \cup {card \in {<<"PROTOCOL", "registry">>} : Drifted(project)}
    \cup IF ~HasRow \/ Refused(project) THEN {}
         ELSE {card \in {<<"EXTRACT", "question">>} :
                   shown.blocking \cap {"awaiting_extract", "awaiting_harvest", "awaiting_regate"} # {}}
              \cup {card \in {<<"REVIEW", "question">>} : "awaiting_review" \in shown.blocking}
              \cup {<<"ADJUDICATION", a>> : a \in {act} \ {None}}

\* The state of a source in the tracker, by the rule of copies and its document.
TrackerState(s) ==
    LET row == Collapse(s)
    IN  CASE row.acquired -> IF docs[s] = None THEN "awaiting_normalize"
                             ELSE IF docs[s] \in Chunks THEN "confirmed" ELSE "not_a_document"
          [] ~row.acquired -> IF row.unclassed THEN "unclassified"
                              ELSE IF copies[s] # <<>> THEN "not_obtained" ELSE "not_attempted"

\* The state of the question in the matrix; what was found and what was not wait alike.
DisplayState(shown) ==
    CASE HasRow /\ signed # None /\ ~Signed -> "stale"
      [] Signed                             -> "signed"
      [] ~HasRow                            -> "no_profile"
      [] OTHER -> IF Refused(project) THEN "historical"
                  ELSE IF Provisional(shown) THEN "provisional" ELSE "awaiting_a_person"

-----------------------------------------------------------------------------
\* Sources no card names although they are not settled: a person's copy that the project does
\* not count, and a refusal for want of a class that was given since.
Overlooked ==
    {s \in Found : \/ Holds(s) /\ s \notin Obtained(project)
                   \/ Collapse(s).unclassed /\ class[s] # None}

\* A step that says "done" is: the floors are met by documents read, no copy that counts waits
\* to be looked at, every passage has an answer judged valid, every accepted claim another
\* reader's review of exactly its annotation, and a final profile rests on evidence that holds;
\* a pipeline done to its end leaves a person something to sign, or nothing at all.  "Never
\* claims more progress than the ledgers show" (journey.build).
DoneIsDone ==
    LET shown == Shown IN
    /\ CopiesStep = "done" => FloorsMet(project) /\ Awaiting(project) = {}
    /\ DocumentsStep = "done" => \A s \in Found : docs[s] = None => s \notin Obtained(project)
    /\ AnnotateStep(shown) = "done" /\ ~Refused(project) => \A c \in InScope(Acquired) : Valid(c) # {}
    /\ ReviewStep = "done" => \A i \in Accepted :
           \E r \in Readers \ {ReaderOf(i)} : reviews[i].by = r /\ reviews[i].note = Annotation(i)
                                              /\ second[Call(i, Annotation(i))][r].ok
    /\ ProfilesStep(shown) = "done" => EvidenceHolds(shown.evidence)
    /\ Pipeline(shown) = "done" => FloorsMet(project) /\ (Signed \/ SignCard(shown) # None)

\* The inbox names all there is to do: signing is offered exactly when the engine would accept
\* a signature it does not hold already, a question said to await a person has a card, every
\* source the tracker does not call confirmed is on one, and an empty inbox behind a complete
\* search means that the verdict stands (portal_state.inbox_cards, adjudication_card).
InboxComplete ==
    LET shown == Shown
        act   == SignCard(shown)
        work  == WorkCards
    IN  /\ act = "adjudicate" <=> HasRow /\ ~Signed /\ ~Declined(project, stored, "SUPPORTED")
        /\ DisplayState(shown) = "awaiting_a_person" => act # None
        /\ \A s \in Found \ Overlooked :
               TrackerState(s) = "confirmed" \/ \E card \in work : card[2] = s
        /\ HasRow /\ work \cup OtherCards(shown, act) = {} /\ SearchStep = "done" /\ Overlooked = {} => Signed
=============================================================================
