-------------------------------- MODULE Round --------------------------------
(***************************************************************************)
(* From the evidence of a question to a verdict signed on it:              *)
(* admissibility.py, evidence.py, synthesize.py, flows.py, the registry    *)
(* check of config.py and the signing route of control.py.                 *)
(*                                                                         *)
(* One round, one question.  Candidates are Claims' sources; their copies  *)
(* come from acquisitions, from people and from re-gating.  The project's  *)
(* files are edited by people at any moment; every command and request     *)
(* reads them once, and some act on what they read later.  Calls are asked *)
(* under the first registry only: a later one has no readings yet.  The    *)
(* hash of a profile is the profile.                                       *)
(***************************************************************************)
EXTENDS Claims, Sequences, SequencesExt

CONSTANTS Protocols,   \* what the project's files may say
          First,       \* the protocol the calls were asked under
          MaxCopies    \* bound: rows per candidate

\* Floors are shares in per cent; a class without one has the round's.
ASSUME ProtocolAssumption ==
    \A p \in Protocols :
        /\ p.floor \in 0..100
        /\ \A k \in DOMAIN p.floors : p.floors[k] \in (0..100) \cup {None}

Opinions == {"SUPPORTED", "UNANSWERED_IN_LITERATURE"}
Unfound  == "unfound"
NoCopy   == [acquired |-> FALSE, regated |-> FALSE, supplied |-> FALSE, dated |-> FALSE,
             unclassed |-> FALSE]

VARIABLES
    class,      \* class[s]: of the candidate: Unfound, None (no rule applied) or a class
    copies,     \* copies[s]: its rows in acquisitions.jsonl
    searched,   \* the latest row of every query is ok
    repaired,   \* ledger_repairs.jsonl has a row
    project,    \* the project's files
    registry,   \* registry[v]: the text and date recorded for version v, or None
    flows,      \* protocols that a flow of this round is bound to
    stored,     \* the latest row of profiles.jsonl, or None
    signed,     \* the latest row of adjudications.jsonl, or None
    request     \* a person signing: what was shown, what was loaded, in which flow

round == <<class, copies, searched, repaired, project, registry, flows, stored, signed, request>>

Idle == [step |-> "idle"]

-----------------------------------------------------------------------------
(***************************************************************************)
(* Candidates and the rows about their copies.                             *)
(***************************************************************************)
Found == {s \in Sources : class[s] # Unfound}

Classes == UNION {DOMAIN p.floors : p \in Protocols}

Discover(s) ==
    /\ class[s] = Unfound
    /\ \E k \in Classes \cup {None} : class' = [class EXCEPT ![s] = k]
    /\ UNCHANGED <<copies, searched, repaired, project, registry, flows, stored, signed, request>>

Reclassify(s) ==
    /\ class[s] # Unfound
    /\ \E k \in Classes \ {class[s]} : class' = [class EXCEPT ![s] = k]
    /\ UNCHANGED <<copies, searched, repaired, project, registry, flows, stored, signed, request>>

\* A query fails, or succeeds when it is asked again.
Search ==
    /\ searched' = ~searched
    /\ UNCHANGED <<class, copies, repaired, project, registry, flows, stored, signed, request>>

Latest(s) == IF copies[s] = <<>> THEN NoCopy ELSE Last(copies[s])

AddCopy(s, row) ==
    /\ class[s] # Unfound /\ Len(copies[s]) < MaxCopies
    /\ copies' = [copies EXCEPT ![s] = Append(@, row)]
    /\ UNCHANGED <<class, searched, repaired, project, registry, flows, stored, signed, request>>

\* Transfers look at the latest row alone; a candidate without a class is refused, on record.
Attempt(s) ==
    /\ ~Latest(s).acquired
    /\ \E ok \in BOOLEAN :
           /\ ok => class[s] # None
           /\ AddCopy(s, [NoCopy EXCEPT !.acquired = ok, !.dated = TRUE, !.unclassed = class[s] = None])

\* What one more row does to the one that is held.
Collapsed(held, row) == IF row.regated \/ row.acquired \/ ~held.acquired THEN row ELSE held

\* Of the rows at the places that count, the first one first.
CollapseAt(rows, places) ==
    LET held[n \in 0..Len(rows)] ==
            IF n = 0 THEN NoCopy
            ELSE IF n \in places THEN Collapsed(held[n - 1], rows[n]) ELSE held[n - 1]
    IN held[Len(rows)]

Collapse(s) == CollapseAt(copies[s], DOMAIN copies[s])

Holds(s) == Collapse(s).acquired

\* A person's file: refused while a copy is held that no document check has refuted.
Supply(s) ==
    /\ ~Holds(s) \/ docs[s] = "refuted"
    /\ AddCopy(s, [NoCopy EXCEPT !.acquired = TRUE, !.supplied = TRUE])

\* The bytes of any earlier row, refused ones too, judged again; what the new row says of their
\* origin and date is what the latest row says of its own.
Regate(s) ==
    /\ class[s] # None /\ copies[s] # <<>>
    /\ \E ok \in BOOLEAN :
           AddCopy(s, [NoCopy EXCEPT !.acquired = ok, !.regated = Latest(s).dated,
                                     !.supplied = Latest(s).supplied, !.dated = Latest(s).dated])

Repair ==
    /\ ~repaired /\ repaired' = TRUE
    /\ UNCHANGED <<class, copies, searched, project, registry, flows, stored, signed, request>>

-----------------------------------------------------------------------------
(***************************************************************************)
(* Admission under protocol p.                                             *)
(***************************************************************************)
\* The rows that count: a project may leave out what people supplied.
Rows(s, p) == {n \in DOMAIN copies[s] : p.supplied = "count" \/ ~copies[s][n].supplied}

Obtained(p) == {s \in Found : CollapseAt(copies[s], Rows(s, p)).acquired}
Read(p)     == {s \in Obtained(p) : docs[s] \in Chunks}
Awaiting(p) == {s \in Obtained(p) : docs[s] = None}
Started     == \E s \in Sources : docs[s] # None

\* What counts toward the floor.
Established(p) == IF Started THEN Read(p) ELSE Obtained(p)
Reaches(S, p, floor) == 100 * Cardinality(S \cap Established(p)) >= floor * Cardinality(S)

FloorOf(k, p) == IF k \in DOMAIN p.floors /\ p.floors[k] # None THEN p.floors[k] ELSE p.floor

Below(p) == {k \in Classes \cup {None} : ~Reaches({s \in Found : class[s] = k}, p, FloorOf(k, p))}

Sufficient(p) == Found # {} /\ Reaches(Found, p, p.floor) /\ Below(p) = {}

RoundBlocking(p) ==
    {why \in {"awaiting_discovery", "awaiting_classification", "awaiting_acquire",
              "normalize_not_started", "awaiting_normalize", "ledger_repairs"} :
        \/ why = "awaiting_discovery" /\ ~searched
        \/ why = "awaiting_classification" /\ \E s \in Found : class[s] = None
        \/ why = "awaiting_acquire" /\ \E s \in Found : Rows(s, p) = {}
        \/ why = "normalize_not_started" /\ ~Started
        \/ why = "awaiting_normalize" /\ Started /\ Awaiting(p) # {}
        \/ why = "ledger_repairs" /\ repaired}

-----------------------------------------------------------------------------
(***************************************************************************)
(* Profiles.                                                               *)
(***************************************************************************)
Recorded == {v \in DOMAIN registry : registry[v] # None}

\* An older version, another text of a recorded one, or a new one that is not dated later.
Drifted(p) ==
    \/ \E v \in Recorded : v > p.version
    \/ /\ p.version \in Recorded /\ registry[p.version].text # p.text
    \/ /\ p.version \notin Recorded
       /\ \E v \in Recorded : registry[v].date >= p.date /\ \A w \in Recorded : w <= v

Recording(p) ==
    registry' = IF p.version \in Recorded THEN registry
                ELSE [registry EXCEPT ![p.version] = [text |-> p.text, date |-> p.date]]

Refused(p) == ~Sufficient(p) /\ p.mode # "partial"

Acquired == {s \in Found : Holds(s)}

Heard(p) == p.version = First.version /\ p.text = First.text

\* The live profile: nothing is written for it.
Preview(p) ==
    LET partial == ~Sufficient(p)
        unheard == [claims |-> {}, reviews |-> {}, rejected |-> {}, gates |-> {},
                    chunks |-> InScope(Acquired)]
    IN  [evidence |-> IF Heard(p) THEN Evidence(Acquired) ELSE unheard,
         blocking |-> RoundBlocking(p) \cup
                          IF Heard(p) THEN Blocking(Acquired)
                          ELSE IF InScope(Acquired) # {} THEN {"awaiting_extract"} ELSE {},
         partial  |-> partial,
         below    |-> IF partial THEN Below(p) ELSE {},
         figures  |-> <<Found, Cardinality(Obtained(p)), Cardinality(Read(p)), p.floor>>,
         registry |-> <<p.version, p.text>>,
         gate     |-> gate]

Provisional(profile) == profile.blocking # {}

Build ==
    /\ ~Drifted(project) /\ ~Refused(project)
    /\ stored' = Preview(project)
    /\ Recording(project)
    /\ UNCHANGED <<class, copies, searched, repaired, project, flows, signed, request>>

\* Every command that opens a store records a registry it sees for the first time.
OpenStore ==
    /\ ~Drifted(project) /\ Recording(project)
    /\ UNCHANGED <<class, copies, searched, repaired, project, flows, stored, signed, request>>

EditProject ==
    /\ \E p \in Protocols \ {project} : project' = p
    /\ UNCHANGED <<class, copies, searched, repaired, registry, flows, stored, signed, request>>

CreateFlow ==
    /\ ~Drifted(project) /\ project \notin flows /\ flows' = flows \cup {project}
    /\ UNCHANGED <<class, copies, searched, repaired, project, registry, stored, signed, request>>

-----------------------------------------------------------------------------
(***************************************************************************)
(* Signing.                                                                *)
(***************************************************************************)
Show ==
    /\ request = Idle /\ stored # None
    /\ request' = [step |-> "shown", shown |-> stored]
    /\ UNCHANGED <<class, copies, searched, repaired, project, registry, flows, stored, signed>>

\* The route reads the files once, and the flow must be bound to what they say.
Submit ==
    /\ request.step = "shown" /\ ~Drifted(project) /\ project \in flows
    /\ request' = [step |-> "loaded", shown |-> request.shown, loaded |-> project]
    /\ UNCHANGED <<class, copies, searched, repaired, project, registry, flows, stored, signed>>

\* The refusals of adjudicate.
Declined(p, shown, verdict) ==
    \/ stored = None \/ Provisional(stored) \/ Drifted(p) \/ Refused(p)
    \/ stored # Preview(p) \/ shown # stored
    \/ stored.partial /\ verdict = "UNANSWERED_IN_LITERATURE"

\* From the stored profile to the new row the project's lock is held.
Sign(p, flow) ==
    \E verdict \in Opinions :
        IF Declined(p, request.shown, verdict) THEN UNCHANGED signed
        ELSE signed' = [profile |-> stored, verdict |-> verdict, flow |-> flow]

\* The files a submitted request is judged by.
Judged == request.loaded

Adjudicate ==
    /\ request.step = "loaded"
    /\ Sign(Judged, request.loaded)
    /\ request' = Idle
    /\ UNCHANGED <<class, copies, searched, repaired, project, registry, flows, stored>>

\* The command holds the lock from before it reads the files, and names no flow.
AdjudicateCommand ==
    /\ request.step = "shown" /\ ~Drifted(project)
    /\ Recording(project)
    /\ Sign(project, None)
    /\ request' = Idle
    /\ UNCHANGED <<class, copies, searched, repaired, project, flows, stored>>

\* Without a live profile the signed hash is compared with the stored one.
StandsUnder(p) ==
    /\ signed # None /\ stored # None
    /\ IF Refused(p) THEN signed.profile = stored
                     ELSE ~Provisional(Preview(p)) /\ signed.profile = Preview(p)

\* The verdict is shown as not stale.
Standing(p) ==
    /\ signed # None /\ stored # None /\ ~Refused(p)
    /\ ~Provisional(Preview(p)) /\ signed.profile = Preview(p)

-----------------------------------------------------------------------------
\* Nothing was synthesized yet, or once, under the project as it is.
RoundInit(synthesized) ==
    /\ searched = TRUE /\ repaired = FALSE
    /\ registry = [v \in {p.version : p \in Protocols} |->
                       IF synthesized /\ v = project.version
                       THEN [text |-> project.text, date |-> project.date] ELSE None]
    /\ flows = {} /\ signed = None /\ request = Idle
    /\ stored = IF synthesized THEN Preview(project) ELSE None

Collect(s) == Discover(s) \/ Reclassify(s) \/ Attempt(s) \/ Supply(s) \/ Regate(s)

Judge ==
    \/ Build \/ OpenStore \/ EditProject \/ CreateFlow
    \/ Show \/ Submit \/ Adjudicate \/ AdjudicateCommand

Judging(R) == (\E s \in Acquired : Normalize(s)) \/ Extracting(R) \/ Reviewing \/ UpgradeGate

\* A round from its beginning: whoever searches, copies, reads, reviews, edits the project or signs.
EmptyRound ==
    /\ ClaimsInit
    /\ class = [s \in Sources |-> Unfound] /\ copies = [s \in Sources |-> <<>>]
    /\ project \in Protocols
    /\ RoundInit(FALSE)

RoundNext ==
    \/ Judging(Readers) /\ UNCHANGED round
    \/ UNCHANGED claims /\ ((\E s \in Sources : Collect(s)) \/ Search \/ Repair \/ Judge)

RoundSpec == EmptyRound /\ [][RoundNext]_<<claims, round>>

-----------------------------------------------------------------------------
(***************************************************************************)
(* The rule of copies, said without a fold: the last row that decides is   *)
(* a re-gate or a success, and later failures of retries only replace a    *)
(* row that holds nothing.                                                 *)
(***************************************************************************)
Deciding(rows, places) == {n \in places : rows[n].regated \/ rows[n].acquired}

Rule(rows, places) ==
    LET deciding == Deciding(rows, places)
    IN  IF places = {} THEN NoCopy
        ELSE IF deciding = {} \/ ~rows[Max(deciding)].acquired THEN rows[Max(places)]
        ELSE rows[Max(deciding)]

ReadNow(p) == {s \in Found : docs[s] \in Chunks /\ Rule(copies[s], Rows(s, p)).acquired}

\* The share of S whose documents are held and read is at least the floor.
Covers(S, p, floor) == 100 * Cardinality(S \cap ReadNow(p)) >= floor * Cardinality(S)

FloorsMet(p) ==
    /\ Covers(Found, p, p.floor)
    /\ \A k \in Classes : Covers({s \in Found : class[s] = k}, p, FloorOf(k, p))

\* Some reader's valid answer is decided, record by record, as the gate of today decides.
ChunkRead(c) ==
    \E r \in Valid(c) : \A x \in answers[TextOf[c]][r].said :
        /\ <<c, r, x>> \in Decided
        /\ <<c, r, x>> \in Accepted <=> Gate[gate][x] # None

\* Accepted now, on the annotation of today's gate, which another reader has judged.
ClaimHolds(i, note) ==
    /\ i \in Accepted /\ note = <<i[3], Gate[gate][i[3]]>> /\ Gate[gate][i[3]] # None
    /\ reviews[i] # NoReview /\ reviews[i].by # ReaderOf(i) /\ reviews[i].note = note

EvidenceHolds(evidence) ==
    /\ \A c \in evidence.chunks : c \in Active /\ ChunkRead(c)
    /\ \A claim \in evidence.claims : ClaimHolds(claim[1], claim[2])

\* A profile that is not provisional describes documents read to the end: every active chunk
\* in scope was read and each record decided as today's gate decides it, and every claim rests
\* on a current answer and on another reader's review of exactly that annotation
\* (profile_inputs.collect, evidence.profile, synthesize.preview).
FinalMeansRead ==
    LET live == Preview(project)
    IN  ~Refused(project) /\ ~Provisional(live) => EvidenceHolds(live.evidence)

\* A verdict shown as standing is about the evidence there is: the floors of the project, its
\* classes' included, are met by documents held and read now, or the profile said that it was
\* partial and the verdict is not that nothing was found; and all it rests on still holds
\* (synthesize.verdicts).
StandingVerdictHolds ==
    Standing(project) =>
        /\ FloorsMet(project) \/ (signed.profile.partial /\ signed.verdict = "SUPPORTED")
        /\ EvidenceHolds(signed.profile.evidence)

\* "A re-gate that fails must erase one": after a copy was judged again and refused, and nothing
\* was obtained since, the candidate holds none (the docstring of admissibility.collapse).
RegateErases ==
    [][\A s \in Sources : (Regate(s) /\ ~Last(copies'[s]).acquired) => ~Holds(s)']_<<claims, round>>

=============================================================================
