------------------------------ MODULE Fetcher ------------------------------
(***************************************************************************)
(* The bounded transport: claimstone/net.py (Fetcher), request_log.py and  *)
(* provider_limits.py.                                                     *)
(*                                                                         *)
(* A project's process holds one fetcher at a time, opened for a campaign, *)
(* and asks it for pages.  A page costs several physical requests: every   *)
(* redirect is one, and robots.txt of each new host is another, which may  *)
(* be redirected itself.  All of them count against the ceiling of the     *)
(* campaign, against the failures a host may be seen to have, and, for the *)
(* hosts of providers, against a schedule of starts that every project of  *)
(* the machine shares.  The process may be killed anywhere; the ledgers    *)
(* and the shared schedule stay.                                           *)
(***************************************************************************)
EXTENDS Naturals, FiniteSets

CONSTANTS Projects, Campaigns, Hosts,
          InPlan,        \* the hosts a frozen plan allows
          Metered,       \* the hosts of providers, which start through a slot
          Interval,      \* Interval[h]: time between two starts at a metered host
          Credits,       \* Credits[h]: what a page of h costs its provider's day
          DailyCredits,  \* the provider's ceiling for a day
          MaxRequests,   \* the ceiling of a campaign
          MaxFailures,   \* recent failures after which a host is left alone
          MaxRedirects,
          DayLength,
          Destinations,  \* where a redirect may point
          MaxTime,       \* bound: how far the clock goes
          None

Days == 0..MaxTime

ASSUME LimitAssumption ==
    /\ {DailyCredits, MaxRequests, MaxFailures, MaxRedirects, MaxTime} \subseteq Nat
    /\ DayLength \in Nat \ {0}
    /\ Interval \in [Hosts -> Nat]
    /\ Credits \in [Hosts -> Nat]
ASSUME NoneAssumption  == None \notin Projects \union Campaigns \union Nat

\* Two paths tell a host's pages apart: robots.txt and everything else.
Urls == [host : Hosts, robots : BOOLEAN]
ASSUME HostAssumption ==
    InPlan \subseteq Hosts /\ Metered \subseteq Hosts /\ Destinations \subseteq Urls

Page(h)   == [host |-> h, robots |-> FALSE]
Robots(h) == [host |-> h, robots |-> TRUE]
Hops == [url : Urls, chain : SUBSET Urls]

VARIABLES
    started,   \* started[p][c]: request_started rows of campaign c in p's ledger
    failures,  \* failures[p][h]: rows of recent failures of h in p's ledger
    last,      \* last[h]: the latest start at a metered host, in the shared schedule
    spent,     \* spent[d]: credits reserved for day d in the shared schedule
    slot,      \* the project whose process holds the schedule's lock, or None
    now,
    pc,        \* pc[p]: what p's process does
    campaign,  \* campaign[p]: the campaign its fetcher was opened for
    count,     \* count[p]: _physical_requests of that fetcher
    robots,    \* robots[p][h]: what that fetcher knows of h's robots.txt, and why
    url,       \* url[p]: the address it is about to ask or has asked
    chain,     \* chain[p]: the addresses asked so far for the same page
    page,      \* page[p]: the page that waits while its host's robots.txt is read
    seen,      \* seen[p]: the shared schedule as read when the slot was taken
    sent       \* sent[p][c]: requests of campaign c that left the machine

shared  == <<last, spent, slot>>
ledgers == <<started, failures>>
request == <<url, chain, page, robots>>
vars == <<ledgers, shared, now, pc, campaign, count, request, seen, sent>>

\* "absent": the host answered, without rules.  "local": nobody was asked.
Permissive == {"allow", "absent", "local"}
Known == Permissive \union {"deny", "unreachable"}

Unread == [h \in Hosts |-> "unasked"]
Schedule == [last : Nat \union {None}, spent : [Days -> Nat]]

Init ==
    /\ started = [p \in Projects |-> [c \in Campaigns |-> 0]]
    /\ failures = [p \in Projects |-> [h \in Hosts |-> 0]]
    /\ last = [h \in Hosts |-> None]
    /\ spent = [d \in Days |-> 0]
    /\ slot = None
    /\ now = 0
    /\ pc = [p \in Projects |-> "down"]
    /\ campaign = [p \in Projects |-> None]
    /\ count = [p \in Projects |-> 0]
    /\ robots = [p \in Projects |-> Unread]
    /\ url = [p \in Projects |-> None]
    /\ chain = [p \in Projects |-> {}]
    /\ page = [p \in Projects |-> None]
    /\ seen = [p \in Projects |-> None]
    /\ sent = [p \in Projects |-> [c \in Campaigns |-> 0]]

-----------------------------------------------------------------------------
(***************************************************************************)
(* The life of a fetcher.  It starts from what earlier ones of the same    *)
(* campaign recorded, and knows nobody's robots.txt.                       *)
(***************************************************************************)
\* Mistake: a new fetcher counts from nothing.
OpenAfresh(p, c) ==
    /\ pc[p] = "down"
    /\ pc' = [pc EXCEPT ![p] = "idle"]
    /\ campaign' = [campaign EXCEPT ![p] = c]
    /\ UNCHANGED <<ledgers, shared, now, count, request, seen, sent>>

Open(p, c) ==
    /\ pc[p] = "down"
    /\ pc' = [pc EXCEPT ![p] = "idle"]
    /\ campaign' = [campaign EXCEPT ![p] = c]
    /\ count' = [count EXCEPT ![p] = started[p][c]]
    /\ UNCHANGED <<ledgers, shared, now, request, seen, sent>>

Forgotten(p) ==
    /\ pc' = [pc EXCEPT ![p] = "down"]
    /\ campaign' = [campaign EXCEPT ![p] = None]
    /\ count' = [count EXCEPT ![p] = 0]
    /\ robots' = [robots EXCEPT ![p] = Unread]
    /\ url' = [url EXCEPT ![p] = None]
    /\ chain' = [chain EXCEPT ![p] = {}]
    /\ page' = [page EXCEPT ![p] = None]
    /\ seen' = [seen EXCEPT ![p] = None]

Close(p) ==
    /\ pc[p] = "idle"
    /\ Forgotten(p)
    /\ UNCHANGED <<ledgers, shared, now, sent>>

\* The process is killed; the kernel gives its lock back.
Crash(p) ==
    /\ pc[p] \notin {"down", "idle"}
    /\ Forgotten(p)
    /\ slot' = IF slot = p THEN None ELSE slot
    /\ UNCHANGED <<ledgers, last, spent, now, sent>>

Get(p, h) ==
    /\ pc[p] = "idle"
    /\ pc' = [pc EXCEPT ![p] = "examine"]
    /\ url' = [url EXCEPT ![p] = Page(h)]
    /\ UNCHANGED <<ledgers, shared, now, campaign, count, robots, chain, page, seen, sent>>

\* A request is over: the page is handed back, or what became of robots.txt is
\* noted for its host and the page that waited for it is taken up again.
Finish(p, rule) ==
    \/ /\ page[p] = None
       /\ pc' = [pc EXCEPT ![p] = "idle"]
       /\ url' = [url EXCEPT ![p] = None]
       /\ chain' = [chain EXCEPT ![p] = {}]
       /\ UNCHANGED <<page, robots>>
    \/ /\ page[p] # None
       /\ pc' = [pc EXCEPT ![p] = "examine"]
       /\ robots' = [robots EXCEPT ![p][page[p].url.host] = rule]
       /\ url' = [url EXCEPT ![p] = page[p].url]
       /\ chain' = [chain EXCEPT ![p] = page[p].chain]
       /\ page' = [page EXCEPT ![p] = None]

-----------------------------------------------------------------------------
(***************************************************************************)
(* Every hop is examined before it is asked.                               *)
(***************************************************************************)
Welcome(p)   == url[p].host \in InPlan
\* Mistake: failures are looked at before robots.txt is read and not after.
ExhaustedAtFirst(p) ==
    /\ page[p] = None
    /\ robots[p][url[p].host] = "unasked"
    /\ failures[p][url[p].host] >= MaxFailures

Exhausted(p) == failures[p][url[p].host] >= MaxFailures
\* Mistake: robots.txt is itself asked for under the rules of robots.txt.
RobotsKnownOf(p) == robots[p][url[p].host] # "unasked"

RobotsKnown(p) == page[p] # None \/ robots[p][url[p].host] # "unasked"
\* Mistake: the rules are applied to the page asked for, not where it leads.
RobotsAllowFirst(p) ==
    page[p] # None \/ chain[p] # {} \/ robots[p][url[p].host] \in Permissive

RobotsAllow(p) == page[p] # None \/ robots[p][url[p].host] \in Permissive

\* A hop is not followed twice, nor more than so many, nor beyond the ceiling.
Stopped(p) == \/ url[p] \in chain[p]
              \/ Cardinality(chain[p]) > MaxRedirects
              \/ count[p] >= MaxRequests

LoadRobots(p) ==
    /\ pc[p] = "examine"
    /\ Welcome(p)
    /\ ~Exhausted(p)
    /\ ~RobotsKnown(p)
    /\ page' = [page EXCEPT ![p] = [url |-> url[p], chain |-> chain[p]]]
    /\ url' = [url EXCEPT ![p] = Robots(url[p].host)]
    /\ chain' = [chain EXCEPT ![p] = {}]
    /\ UNCHANGED <<ledgers, shared, now, pc, campaign, count, robots, seen, sent>>

Refuse(p) ==
    /\ pc[p] = "examine"
    /\ \/ ~Welcome(p)
       \/ Exhausted(p)
       \/ RobotsKnown(p) /\ (~RobotsAllow(p) \/ Stopped(p))
    /\ Finish(p, "local")
    /\ UNCHANGED <<ledgers, shared, now, campaign, count, seen, sent>>

Accept(p) ==
    /\ pc[p] = "examine"
    /\ Welcome(p)
    /\ RobotsKnown(p)
    /\ RobotsAllow(p)
    /\ ~Exhausted(p)
    /\ ~Stopped(p)
    /\ chain' = [chain EXCEPT ![p] = @ \union {url[p]}]
    /\ pc' = [pc EXCEPT ![p] = "waiting"]
    /\ UNCHANGED <<ledgers, shared, now, campaign, count, robots, url, page, seen, sent>>

-----------------------------------------------------------------------------
(***************************************************************************)
(* The providers' shared schedule.                                         *)
(***************************************************************************)
Today == now \div DayLength
Cost(u) == IF u.robots THEN 0 ELSE Credits[u.host]

\* Mistake: the schedule is read while another project may hold it.
TakeSlotShared(p) ==
    /\ pc[p] = "waiting"
    /\ url[p].host \in Metered
    /\ slot' = p
    /\ seen' = [seen EXCEPT ![p] = [last |-> last[url[p].host], spent |-> spent]]
    /\ pc' = [pc EXCEPT ![p] = "reserving"]
    /\ UNCHANGED <<ledgers, last, spent, now, campaign, count, request, sent>>

TakeSlot(p) ==
    /\ pc[p] = "waiting"
    /\ url[p].host \in Metered
    /\ slot = None
    /\ slot' = p
    /\ seen' = [seen EXCEPT ![p] = [last |-> last[url[p].host], spent |-> spent]]
    /\ pc' = [pc EXCEPT ![p] = "reserving"]
    /\ UNCHANGED <<ledgers, last, spent, now, campaign, count, request, sent>>

\* It has slept until the interval since the start it read is over.
Rested(p) ==
    \/ seen[p].last = None
    \/ seen[p].last # None /\ now >= seen[p].last + Interval[url[p].host]

\* Mistake: the day's credits are compared without those about to be spent.
AffordableSoFar(p) == Cost(url[p]) = 0 \/ seen[p].spent[Today] <= DailyCredits

Affordable(p) ==
    \/ Cost(url[p]) = 0
    \/ seen[p].spent[Today] + Cost(url[p]) <= DailyCredits

Reserve(p) ==
    /\ pc[p] = "reserving"
    /\ Rested(p)
    /\ Affordable(p)
    /\ last' = [last EXCEPT ![url[p].host] = now]
    /\ spent' = [spent EXCEPT ![Today] = @ + Cost(url[p])]
    /\ pc' = [pc EXCEPT ![p] = "starting"]
    /\ UNCHANGED <<ledgers, slot, now, campaign, count, request, seen, sent>>

RefuseCredits(p) ==
    /\ pc[p] = "reserving"
    /\ Rested(p)
    /\ ~Affordable(p)
    /\ slot' = None
    /\ seen' = [seen EXCEPT ![p] = None]
    /\ Finish(p, "local")
    /\ UNCHANGED <<ledgers, last, spent, now, campaign, count, sent>>

-----------------------------------------------------------------------------
(***************************************************************************)
(* The physical request.  It is counted and recorded before it is made.    *)
(***************************************************************************)
LogRequest(p) ==
    /\ \/ pc[p] = "starting"
       \/ pc[p] = "waiting" /\ url[p].host \notin Metered
    /\ count' = [count EXCEPT ![p] = @ + 1]
    /\ started' = [started EXCEPT ![p][campaign[p]] = @ + 1]
    /\ pc' = [pc EXCEPT ![p] = "sending"]
    /\ UNCHANGED <<failures, shared, now, campaign, request, seen, sent>>

Send(p) ==
    /\ pc[p] = "sending"
    /\ sent' = [sent EXCEPT ![p][campaign[p]] = @ + 1]
    /\ pc' = [pc EXCEPT ![p] = "transfer"]
    /\ UNCHANGED <<ledgers, shared, now, campaign, count, request, seen>>

\* The transfer is over, and with it the hold on the slot.
Answered(p) ==
    /\ pc[p] = "transfer"
    /\ slot' = IF slot = p THEN None ELSE slot
    /\ seen' = [seen EXCEPT ![p] = None]
    /\ UNCHANGED <<last, spent, now, campaign, count, sent>>

Redirected(p, u) ==
    /\ Answered(p)
    /\ pc' = [pc EXCEPT ![p] = "examine"]
    /\ url' = [url EXCEPT ![p] = u]
    /\ UNCHANGED <<ledgers, chain, page, robots>>

\* Content, or a refusal that is not held against the host.  For robots.txt:
\* rules that allow or deny, or no rules.
Served(p, rule) ==
    /\ Answered(p)
    /\ Finish(p, rule)
    /\ UNCHANGED ledgers

Recorded(p) ==
    /\ failures' = [failures EXCEPT ![p][url[p].host] = @ + 1]
    /\ UNCHANGED started

\* 403 and 429 are held against the host; robots.txt behind them is absent.
Forbidden(p) ==
    /\ Answered(p)
    /\ Recorded(p)
    /\ Finish(p, "absent")

\* A server error, a timeout or a lost connection.
Failed(p) ==
    /\ Answered(p)
    /\ Recorded(p)
    /\ Finish(p, "unreachable")

-----------------------------------------------------------------------------
Tick ==
    /\ now < MaxTime
    /\ now' = now + 1
    /\ UNCHANGED <<ledgers, shared, pc, campaign, count, request, seen, sent>>

\* A failure becomes older than the fetcher looks back.
Expire(p, h) ==
    /\ failures[p][h] > 0
    /\ failures' = [failures EXCEPT ![p][h] = @ - 1]
    /\ UNCHANGED <<started, shared, now, pc, campaign, count, request, seen, sent>>

\* What the fetcher does by itself, and what must come back from the network.
Work(p) ==
    \/ LoadRobots(p) \/ Refuse(p) \/ Accept(p)
    \/ TakeSlot(p) \/ Reserve(p) \/ RefuseCredits(p)
    \/ LogRequest(p) \/ Send(p)
    \/ \E u \in Destinations : Redirected(p, u)
    \/ \E rule \in {"allow", "deny", "absent"} : Served(p, rule)
    \/ Forbidden(p) \/ Failed(p)

Next ==
    \/ \E p \in Projects :
        \/ \E c \in Campaigns : Open(p, c)
        \/ \E h \in Hosts : Get(p, h) \/ Expire(p, h)
        \/ Work(p)
        \/ Close(p) \/ Crash(p)
    \/ Tick

Spec == Init /\ [][Next]_vars

\* Every request has a timeout, the kernel grants a waited-for lock in the end,
\* and time passes.
FairSpec == /\ Spec
            /\ \A p \in Projects : WF_vars(Work(p)) /\ SF_vars(TakeSlot(p))
            /\ WF_vars(Tick)

-----------------------------------------------------------------------------
(***************************************************************************)
(* Properties.                                                             *)
(***************************************************************************)
Points == {"down", "idle", "examine", "waiting", "reserving", "starting",
           "sending", "transfer"}

TypeOK ==
    /\ started \in [Projects -> [Campaigns -> Nat]]
    /\ failures \in [Projects -> [Hosts -> Nat]]
    /\ last \in [Hosts -> Nat \union {None}]
    /\ spent \in [Days -> Nat]
    /\ slot \in Projects \union {None}
    /\ now \in 0..MaxTime
    /\ pc \in [Projects -> Points]
    /\ campaign \in [Projects -> Campaigns \union {None}]
    /\ count \in [Projects -> Nat]
    /\ robots \in [Projects -> [Hosts -> Known \union {"unasked"}]]
    /\ url \in [Projects -> Urls \union {None}]
    /\ chain \in [Projects -> SUBSET Urls]
    /\ page \in [Projects -> Hops \union {None}]
    /\ seen \in [Projects -> Schedule \union {None}]
    /\ sent \in [Projects -> [Campaigns -> Nat]]
    /\ \A p \in Projects : pc[p] # "down" => campaign[p] \in Campaigns
    /\ \A p \in Projects : pc[p] \notin {"down", "idle"} => url[p] \in Urls

\* Over all the restarts of a campaign no more physical requests leave the
\* machine than its plan froze, robots.txt and redirects included, and none
\* leaves without its row.
CeilingHolds ==
    \A p \in Projects, c \in Campaigns :
        sent[p][c] <= started[p][c] /\ started[p][c] <= MaxRequests

\* No day is promised more of a provider's credits than the day has, however
\* many projects ask at once and whichever of them are killed.
CreditsHold == \A d \in Days : spent[d] <= DailyCredits

\* Only one project of the machine is between its start and its answer at the
\* providers' hosts.
OneTransferPerSlot ==
    \A p, q \in Projects :
        (/\ p # q
         /\ \A r \in {p, q} : pc[r] \in {"starting", "sending", "transfer"}
                              /\ url[r].host \in Metered) => FALSE

\* Two starts at a provider's host, of whatever projects, keep their distance.
SpacedStarts ==
    [][\A p \in Projects : LET h == url[p].host IN
          pc[p] # "starting" /\ pc'[p] = "starting" =>
              last[h] = None \/ last'[h] >= last[h] + Interval[h]]_vars

\* A host that has failed too often is not asked again, not even when reading
\* its robots.txt was what spent the last of its failures.
NoRequestToFailedHost ==
    [][\A p \in Projects : sent'[p] # sent[p] =>
          failures[p][url[p].host] < MaxFailures]_vars

\* Wherever redirects led, a page on its way is one whose own host was asked
\* for its rules in this run and did not deny it.
RobotsHonoured ==
    \A p \in Projects :
        pc[p] \in {"waiting", "reserving", "starting", "sending", "transfer"} =>
            \/ page[p] # None
            \/ robots[p][url[p].host] \in Permissive

\* Whatever hosts answer, redirects in circles and robots.txt that lead to other
\* robots.txt included, asking for a page comes to an end.
GetEnds == \A p \in Projects : pc[p] = "examine" ~> pc[p] \in {"idle", "down"}

=============================================================================
