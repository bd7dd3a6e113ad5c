------------------------------ MODULE Cascade ------------------------------
(***************************************************************************)
(* Where a copy of one source may be and what was obtained there:          *)
(* resolve.py, acquire.py, fulltext.py and the leads of web_locator.py.    *)
(*                                                                         *)
(* An acquisition asks services of metadata for addresses, puts the        *)
(* addresses in an order, and asks one after the other until a body passes *)
(* the gate.  A page that is refused may name the file it stands for.  The *)
(* web locator records leads beside it, each with what the project's       *)
(* policy said of its host at the time.                                    *)
(*                                                                         *)
(* Addresses are what ids.normalize_url tells apart.  The transport        *)
(* (Fetcher) is a response or the class of a failure.                      *)
(***************************************************************************)
EXTENDS Naturals, Sequences, FiniteSets, SequencesExt

CONSTANTS
    Nowhere,     \* no address
    Walls,       \* addresses on a host of KNOWN_WALLS
    Resolver,    \* addresses of doi.org
    Format,      \* Format[u]: 0 ends in .pdf, 1 the designated JATS service, 2 anything else
    Designated,  \* Designated[u]: the JATS address of a PMC article, or Nowhere
    Linked,      \* Linked[u]: the files the page at u links to, in its order
    Candidates,  \* records of a candidate's own address, arXiv address, DOI and title
    Answers,     \* Answers[s]: what service s may name, as sequences of [url, rank]
    Bodies,      \* Bodies[u]: what may come back from u
    Signal,      \* the structural signal the project declares
    MaxFollowed, \* MAX_FOLLOWED
    InPlan,      \* addresses whose host the plan named, for the leads; see CoreInPlan
    CoreInPlan,  \* the plan named the host of CORE
    LeadUrls,    \* addresses the web search may return
    MaxRuns      \* bound: acquisitions of the candidate

Urls == DOMAIN Format

\* Every address there may be is told apart; a wall is an address.
ASSUME AddressAssumption ==
    /\ Nowhere \notin Walls \cup Urls
    /\ \A c \in Candidates : c.url \in Urls \cup {Nowhere} /\ c.arxiv \in Urls \cup {Nowhere}
    /\ DOMAIN Answers = {"title", "unpaywall", "openalex", "core", "wayback"}
    /\ \A s \in DOMAIN Answers : Answers[s] \subseteq Seq([url: Urls, rank: Nat])
    /\ Designated \in [Urls -> Urls \cup {Nowhere}] /\ Linked \in [Urls -> Seq(Urls)]
    /\ LeadUrls \subseteq Urls /\ IsFiniteSet(LeadUrls) /\ MaxFollowed \in Nat

VARIABLES
    candidate,  \* the candidate's row
    history,    \* its rows in acquisitions.jsonl
    policy,     \* policy[u]: what the project's policy says now of u's host
    located,    \* the web was searched for it
    leads,      \* the leads recorded, oldest first
    aged,       \* the latest row is older than the delay between attempts
    work        \* the acquisition under way

cascade == <<candidate, history, policy, located, leads, aged, work>>

Transient == {"TIMEOUT"}
Failures  == Transient \cup {"PAYWALL_403"}
Decisions == {"ALLOWED", "DENIED", "UNCLASSIFIED"}

\* Nothing under way.
Resting == [stage |-> "none", doi |-> FALSE, consulted |-> {}, silent |-> FALSE, found |-> <<>>,
            snapshot |-> <<>>, pending |-> <<>>, followed |-> FALSE, asked |-> <<>>,
            failure |-> "NO_LOCATIONS", shaken |-> FALSE]

Location(url, from, rank) == [url |-> url, from |-> from, rank |-> rank]

\* What s has at these places, in its order.
SelectAt(s, places) ==
    LET chosen[n \in 0..Len(s)] ==
            IF n = 0 THEN <<>>
            ELSE IF n \in places THEN Append(chosen[n - 1], s[n]) ELSE chosen[n - 1]
    IN chosen[Len(s)]

-----------------------------------------------------------------------------
(***************************************************************************)
(* Is what came back a document?                                           *)
(***************************************************************************)

\* Lengths are told apart by the thresholds: 0 below min_text_chars (or min_pdf_bytes), 1
\* below paywall_doubt_chars, 2 below fulltext_chars, 3 above it.
PdfKind(b) ==
    CASE ~b.opens      -> "NOT_TEXT"
      [] ~b.closes     -> "CORRUPT_PDF"
      [] b.length = 0  -> "TOO_SHORT"
      [] OTHER         -> "PDF_FULLTEXT"

Summary(b) == Signal = "reference_list" /\ b.length < 3 /\ ~b.cites

MarkupKind(b) ==
    CASE b.challenge /\ b.length < 2 -> "BOT_CHALLENGE"
      [] b.paywall /\ b.length < 2   -> "LANDING_PAGE_ONLY"
      [] Summary(b)                  -> "ABSTRACT_ONLY"
      [] b.length = 0                -> "TOO_SHORT"
      [] OTHER                       -> "HTML_FULLTEXT"

\* An article has no entities, parses, and has its front, its metadata and its body.
JatsKind(b) ==
    CASE ~b.opens      -> "NOT_TEXT"
      [] b.length = 0  -> "TOO_SHORT"
      [] Summary(b)    -> "ABSTRACT_ONLY"
      [] OTHER         -> "JATS_FULLTEXT"

KindOf(b, u) ==
    CASE b.type = "xml"                      -> JatsKind(b)
      [] b.type = "pdf" \/ Format[u] = 0     -> PdfKind(b)
      [] OTHER                               -> MarkupKind(b)

IsDocument(kind) == kind \in {"PDF_FULLTEXT", "HTML_FULLTEXT", "JATS_FULLTEXT"}

-----------------------------------------------------------------------------
(***************************************************************************)
(* The plan: services are asked in turn, then the addresses are arranged.  *)
(***************************************************************************)
Services == <<"title", "unpaywall", "openalex", "core", "wayback">>

\* A service whose turn comes is asked where it has something to go by.
Wanted(s) ==
    CASE s = "title"   -> ~candidate.doi /\ candidate.titled
      [] s = "core"    -> work.doi /\ CoreInPlan
      [] s = "wayback" -> ~work.doi /\ candidate.arxiv = Nowhere /\ candidate.url # Nowhere
      [] OTHER         -> work.doi

ToConsult == {n \in DOMAIN Services : Services[n] \notin work.consulted /\ Wanted(Services[n])}

OnAWall == candidate.url \in Walls

\* routine runs leave a candidate alone unless its failure passes of itself; a named
\* campaign names the classes it asks for again.
ShouldAttempt(again) ==
    history # <<>> =>
        LET row == Last(history) IN
        /\ ~row.acquired
        /\ row.failure \in again \/ ((row.failure \in Transient \/ row.shaken) /\ aged)

StartCascade(again) ==
    /\ work.stage = "none" /\ Len(history) < MaxRuns
    /\ ShouldAttempt(again)
    /\ work' = [Resting EXCEPT
                  !.stage = "planning", !.doi = candidate.doi,
                  !.found = (IF candidate.arxiv = Nowhere THEN <<>>
                             ELSE <<Location(candidate.arxiv, "arxiv", 2)>>)
                            \o (IF candidate.url = Nowhere \/ OnAWall THEN <<>>
                                ELSE <<Location(candidate.url, "candidate", 3)>>)]
    /\ UNCHANGED <<candidate, history, policy, located, leads, aged>>

\* No answer is an answer that names nothing; the request log alone tells them apart.
Consult ==
    /\ work.stage = "planning"
    /\ \E n \in ToConsult :
         LET s == Services[n]
             Located(answer) == [i \in 1..Len(answer) |-> Location(answer[i].url, s, answer[i].rank)]
         IN /\ \A m \in ToConsult : n <= m
            /\ \E outage \in BOOLEAN : \E answer \in IF outage THEN {<<>>} ELSE Answers[s] :
                 work' = [work EXCEPT
                   !.consulted = @ \cup {s},
                   !.silent    = @ \/ outage,
                   !.doi       = @ \/ (s = "title" /\ answer # <<>>),
                   !.snapshot  = IF s = "wayback" THEN Located(answer) ELSE @,
                   !.found     = IF s \in {"title", "wayback"} THEN @ ELSE @ \o Located(answer)]
    /\ UNCHANGED <<candidate, history, policy, located, leads, aged>>

\* The first of each address.
Distinct(s) == SelectAt(s, {n \in DOMAIN s : \A m \in 1..n - 1 : s[m].url # s[n].url})

\* A PMC article is asked of the designated service, never of the article host.
Rewritten(l) ==
    IF Designated[l.url] = Nowhere THEN l
    ELSE Location(Designated[l.url], "europe-pmc", l.rank)

\* The resolver adds nothing to a candidate that has an address, unless it is that address.
OnlyResolves(l) == l.url \in Resolver /\ candidate.url \notin {Nowhere, l.url}

\* Format outranks the version; equals keep their order.
Preference(l) == 4 * Format[l.url] + l.rank
Ranked(s) ==
    LET Of(p) == SelectAt(s, {n \in DOMAIN s : Preference(s[n]) = p})
    IN Of(0) \o Of(1) \o Of(2) \o Of(3) \o Of(4) \o Of(5)
       \o Of(6) \o Of(7) \o Of(8) \o Of(9) \o Of(10) \o Of(11)

OwnWall == IF OnAWall THEN <<Location(candidate.url, "candidate", 3)>> ELSE <<>>

Kept ==
    LET rewritten == [i \in 1..Len(work.found) |-> Rewritten(work.found[i])]
    IN Distinct(SelectAt(rewritten, {n \in DOMAIN rewritten : ~OnlyResolves(rewritten[n])}))

Planned == Distinct(Ranked(Kept) \o OwnWall \o work.snapshot)

\* The first observation of an address is the one that counts, whatever was decided since.
Offered ==
    LET first == Distinct([i \in 1..Len(leads) |-> Location(leads[i].url, leads[i].decision, 3)])
    IN SelectAt(first, {n \in DOMAIN first : first[n].from = "ALLOWED" /\ first[n].url \in InPlan})

Arrange ==
    /\ work.stage = "planning" /\ ToConsult = {}
    /\ work' = [work EXCEPT
                  !.stage = "asking", !.found = <<>>, !.snapshot = <<>>,
                  !.pending = Planned
                    \o [i \in 1..Len(Offered) |-> Location(Offered[i].url, "web_locator", Offered[i].rank)]]
    /\ UNCHANGED <<candidate, history, policy, located, leads, aged>>

-----------------------------------------------------------------------------
(***************************************************************************)
(* The cascade.                                                            *)
(***************************************************************************)
Row(acquired, failure) ==
    [acquired |-> acquired, failure |-> failure, shaken |-> work.shaken, silent |-> work.silent]

Asking == work.stage = "asking" /\ work.pending # <<>>
Here   == Head(work.pending)

GetFails ==
    /\ Asking
    /\ \E failure \in Failures :
         work' = [work EXCEPT !.pending = Tail(@), !.asked = Append(@, Here), !.failure = failure,
                              !.shaken = @ \/ failure \in Transient]
    /\ UNCHANGED <<candidate, history, policy, located, leads, aged>>

\* Mistake: every refused page is read for its files.
FollowsEvery(b, kind) ==
    kind \in {"LANDING_PAGE_ONLY", "ABSTRACT_ONLY"} /\ b.type = "html"

Follows(b, kind) ==
    /\ ~work.followed
    /\ kind \in {"LANDING_PAGE_ONLY", "ABSTRACT_ONLY"} /\ b.type = "html"

\* In the page's order, itself and repetitions left out.
DepositedFiles(u) ==
    LET files == Distinct([i \in 1..Len(Linked[u]) |-> Location(Linked[u][i], "landing", 3)])
        others == SelectAt(files, {n \in DOMAIN files : files[n].url # u})
    IN SubSeq(others, 1, IF Len(others) < MaxFollowed THEN Len(others) ELSE MaxFollowed)

RefuseBody ==
    /\ Asking
    /\ \E b \in Bodies[Here.url] :
         LET kind  == KindOf(b, Here.url)
             files == IF Follows(b, kind) THEN DepositedFiles(Here.url) ELSE <<>>
         IN /\ ~IsDocument(kind)
            /\ work' = [work EXCEPT !.pending = files \o Tail(@), !.asked = Append(@, Here),
                                    !.failure = kind, !.followed = @ \/ files # <<>>]
    /\ UNCHANGED <<candidate, history, policy, located, leads, aged>>

Obtain ==
    /\ Asking
    /\ \E b \in Bodies[Here.url] : IsDocument(KindOf(b, Here.url))
    /\ history' = Append(history, Row(TRUE, "none"))
    /\ aged' = FALSE
    /\ work' = Resting
    /\ UNCHANGED <<candidate, policy, located, leads>>

GiveUp ==
    /\ work.stage = "asking" /\ work.pending = <<>>
    /\ history' = Append(history, Row(FALSE, work.failure))
    /\ aged' = FALSE
    /\ work' = Resting
    /\ UNCHANGED <<candidate, policy, located, leads>>

\* retry_after_s has passed since the latest row.
Age ==
    /\ work.stage = "none" /\ history # <<>> /\ ~aged
    /\ aged' = TRUE
    /\ UNCHANGED <<candidate, history, policy, located, leads, work>>

-----------------------------------------------------------------------------
(***************************************************************************)
(* The web locator looks up once a work that was not obtained.             *)
(***************************************************************************)
Locate ==
    /\ ~located
    /\ located' = TRUE
    /\ \A i \in 1..Len(history) : ~history[i].acquired
    /\ \E urls \in SUBSET LeadUrls :
         \E order \in SetToSeqs(urls) :
           leads' = [i \in 1..Len(order) |-> [url |-> order[i], decision |-> policy[order[i]]]]
    /\ UNCHANGED <<candidate, history, policy, aged, work>>

EditPolicy ==
    /\ \E u \in LeadUrls : \E d \in Decisions \ {policy[u]} : policy' = [policy EXCEPT ![u] = d]
    /\ UNCHANGED <<candidate, history, located, leads, aged, work>>

CascadeInit(c) ==
    /\ candidate = c /\ history = <<>> /\ located = FALSE /\ leads = <<>> /\ aged = FALSE /\ work = Resting
    /\ policy = [u \in LeadUrls |-> "UNCLASSIFIED"]

CascadeNext ==
    \/ \E again \in {{}, {"NO_LOCATIONS"}} : StartCascade(again)
    \/ Consult \/ Arrange \/ GetFails \/ RefuseBody \/ Obtain \/ GiveUp \/ Age
    \/ Locate \/ EditPolicy

CascadeSpec == (\E c \in Candidates : CascadeInit(c)) /\ [][CascadeNext]_cascade

-----------------------------------------------------------------------------
(***************************************************************************)
(* What is promised of a cascade.                                          *)
(***************************************************************************)
Route == work.asked \o work.pending

(* Reading pages for their links never becomes a crawl: whatever the pages name, and whatever *)
(* the files they name turn out to be, one acquisition asks at most MAX_FOLLOWED addresses    *)
(* that no plan held (acquire.py, the worklist of acquire_one).                               *)
NotACrawl ==
    Cardinality({i \in 1..Len(Route) : Route[i].from = "landing"}) <= MaxFollowed

=============================================================================
