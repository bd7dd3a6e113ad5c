---------------------------- MODULE FetcherProofs ----------------------------
(***************************************************************************)
(* Proofs about Fetcher, for any projects, campaigns and hosts, and for    *)
(* every value of the limits.                                              *)
(*                                                                         *)
(* The argument: a fetcher's own count is the number of rows its campaign  *)
(* has in the ledger, so a restart neither forgets nor invents requests;   *)
(* what was examined before a request still holds when it leaves, because  *)
(* nobody else records for the same project; and what was read of the      *)
(* shared schedule still holds when the start is written, because nobody   *)
(* else holds its lock.                                                    *)
(***************************************************************************)
EXTENDS Fetcher, TLAPS

Granted   == {"waiting", "reserving", "starting"}
Committed == Granted \union {"sending", "transfer"}

\* A fetcher counts what its campaign recorded, and keeps within the ceiling
\* from the moment a request is accepted until it leaves.
Counted(p) ==
    /\ pc[p] # "down" => count[p] = started[p][campaign[p]]
    /\ pc[p] \in Granted => count[p] < MaxRequests
    /\ pc[p] = "sending" => sent[p][campaign[p]] < started[p][campaign[p]]

\* What was examined of the host still holds.
Examined(p) ==
    /\ pc[p] \in Granted \union {"sending"} => failures[p][url[p].host] < MaxFailures
    /\ pc[p] \in Committed => page[p] # None \/ robots[p][url[p].host] \in Permissive

\* Whoever starts at a provider's host holds the lock until it is answered.
Holding(p) ==
    /\ pc[p] \in {"reserving", "starting"} => slot = p /\ url[p].host \in Metered
    /\ pc[p] \in {"sending", "transfer"} /\ url[p].host \in Metered => slot = p

\* And what it read of the shared schedule is still what is there.
Informed(p) ==
    pc[p] = "reserving" => seen[p].last = last[url[p].host] /\ seen[p].spent = spent

Sound(p) == Counted(p) /\ Examined(p) /\ Holding(p) /\ Informed(p)

IInv == TypeOK /\ CeilingHolds /\ CreditsHold /\ \A p \in Projects : Sound(p)

USE HostAssumption, LimitAssumption, NoneAssumption

\* A process that a step does not touch stays sound when neither the schedule
\* nor a lock it holds is touched.
LEMMA Untouched ==
    ASSUME NEW p \in Projects, Sound(p),
           pc'[p] = pc[p], campaign'[p] = campaign[p], count'[p] = count[p],
           robots'[p] = robots[p], url'[p] = url[p], page'[p] = page[p],
           seen'[p] = seen[p], sent'[p] = sent[p], started'[p] = started[p],
           failures'[p] = failures[p],
           slot = p => slot' = p /\ last' = last /\ spent' = spent
    PROVE  Sound(p)'
  <1>1. Counted(p)'
    BY DEF Sound, Counted
  <1>2. Examined(p)'
    BY DEF Sound, Examined
  <1>3. Holding(p)'
    BY DEF Sound, Holding
  <1>4. Informed(p)'
    BY DEF Sound, Informed, Holding
  <1> QED BY <1>1, <1>2, <1>3, <1>4 DEF Sound

-----------------------------------------------------------------------------
(***************************************************************************)
(* The end of a request.                                                   *)
(***************************************************************************)
\* What is left of a request when it is over.
Ended(p) ==
    /\ pc' \in [Projects -> Points]
    /\ robots' \in [Projects -> [Hosts -> Known \union {"unasked"}]]
    /\ url' \in [Projects -> Urls \union {None}]
    /\ chain' \in [Projects -> SUBSET Urls]
    /\ page' \in [Projects -> Hops \union {None}]
    /\ pc'[p] \in {"idle", "examine"}
    /\ pc'[p] = "examine" => url'[p] \in Urls
    /\ \A q \in Projects \ {p} :
          /\ pc'[q] = pc[q]
          /\ robots'[q] = robots[q]
          /\ url'[q] = url[q]
          /\ page'[q] = page[q]

\* Finish keeps the types, and leaves its process idle or with a page in hand.
LEMMA Finished ==
    ASSUME TypeOK, NEW p \in Projects, pc[p] \notin {"down", "idle"},
           NEW rule \in Known, Finish(p, rule)
    PROVE  Ended(p)
  <1> USE DEF Ended
  <1>1. CASE page[p] = None
    BY <1>1 DEF Finish, TypeOK, Points
  <1>2. CASE page[p] # None
    <2>1. page[p] \in Hops
      BY <1>2 DEF TypeOK
    <2>2. page[p].url \in Urls /\ page[p].chain \in SUBSET Urls
      BY <2>1 DEF Hops
    <2>3. page[p].url.host \in Hosts
      BY <2>2 DEF Urls
    <2>4. /\ pc' = [pc EXCEPT ![p] = "examine"]
          /\ robots' = [robots EXCEPT ![p][page[p].url.host] = rule]
          /\ url' = [url EXCEPT ![p] = page[p].url]
          /\ chain' = [chain EXCEPT ![p] = page[p].chain]
          /\ page' = [page EXCEPT ![p] = None]
      BY <1>2 DEF Finish
    <2>5. robots' \in [Projects -> [Hosts -> Known \union {"unasked"}]]
      BY <2>3, <2>4 DEF TypeOK
    <2> QED BY <2>2, <2>4, <2>5 DEF TypeOK, Points
  <1> QED BY <1>1, <1>2

-----------------------------------------------------------------------------
(***************************************************************************)
(* One lemma per action.                                                   *)
(***************************************************************************)

\* What is left to show of a step of one process.
LEMMA OneProcess ==
    ASSUME IInv, NEW p \in Projects, TypeOK', CeilingHolds', CreditsHold', Sound(p)',
           \A q \in Projects \ {p} :
               /\ pc'[q] = pc[q] /\ campaign'[q] = campaign[q] /\ count'[q] = count[q]
               /\ robots'[q] = robots[q] /\ url'[q] = url[q] /\ page'[q] = page[q]
               /\ seen'[q] = seen[q] /\ sent'[q] = sent[q]
               /\ started'[q] = started[q] /\ failures'[q] = failures[q]
               /\ slot = q => slot' = q /\ last' = last /\ spent' = spent
    PROVE  IInv'
  <1>1. ASSUME NEW q \in Projects PROVE Sound(q)'
    <2>1. CASE q = p
      BY <2>1
    <2>2. CASE q # p
      BY <2>2, Untouched DEF IInv
    <2> QED BY <2>1, <2>2
  <1> QED BY <1>1 DEF IInv

\* A new fetcher counts what its campaign recorded.
LEMMA OpenStep ==
    ASSUME IInv, NEW p \in Projects, NEW c \in Campaigns, Open(p, c)
    PROVE  IInv'
  <1> USE DEF IInv, Open, ledgers, shared, request
  <1>0. Sound(p)
    OBVIOUS
  <1>1. TypeOK'
    BY DEF TypeOK, Points
  <1>2. CeilingHolds'
    BY DEF CeilingHolds
  <1>3. CreditsHold'
    BY DEF CreditsHold
  <1>4. Sound(p)'
    BY <1>0 DEF Sound, Counted, Examined, Holding, Informed, Granted,
       Committed, TypeOK
  <1> QED BY <1>1, <1>2, <1>3, <1>4, OneProcess DEF TypeOK

\* A page is asked for.
LEMMA GetStep ==
    ASSUME IInv, NEW p \in Projects, NEW h \in Hosts, Get(p, h)
    PROVE  IInv'
  <1> USE DEF IInv, Get, ledgers, shared, request
  <1>0. Sound(p)
    OBVIOUS
  <1>1. TypeOK'
    BY DEF TypeOK, Points, Page, Urls
  <1>2. CeilingHolds'
    BY DEF CeilingHolds
  <1>3. CreditsHold'
    BY DEF CreditsHold
  <1>4. Sound(p)'
    BY <1>0 DEF Sound, Counted, Examined, Holding, Informed, Granted,
       Committed, TypeOK, Page, Urls
  <1> QED BY <1>1, <1>2, <1>3, <1>4, OneProcess DEF TypeOK

\* A page waits for its host's robots.txt.
LEMMA LoadRobotsStep ==
    ASSUME IInv, NEW p \in Projects, LoadRobots(p)
    PROVE  IInv'
  <1> USE DEF IInv, LoadRobots, ledgers, shared, request
  <1>0. Sound(p)
    OBVIOUS
  <1>1. TypeOK'
    BY DEF TypeOK, Points, Robots, Urls, Hops
  <1>2. CeilingHolds'
    BY DEF CeilingHolds
  <1>3. CreditsHold'
    BY DEF CreditsHold
  <1>4. Sound(p)'
    BY <1>0 DEF Sound, Counted, Examined, Holding, Informed, Granted,
       Committed, TypeOK, Robots, Urls, Hops
  <1> QED BY <1>1, <1>2, <1>3, <1>4, OneProcess DEF TypeOK

\* A hop has been examined.
LEMMA AcceptStep ==
    ASSUME IInv, NEW p \in Projects, Accept(p)
    PROVE  IInv'
  <1> USE DEF IInv, Accept, ledgers, shared, request
  <1>0. Sound(p)
    OBVIOUS
  <1>1. TypeOK'
    BY DEF TypeOK, Points
  <1>2. CeilingHolds'
    BY DEF CeilingHolds
  <1>3. CreditsHold'
    BY DEF CreditsHold
  <1>4. Sound(p)'
    <2>1. pc'[p] = "waiting" /\ pc[p] = "examine"
      BY DEF TypeOK
    <2>2. ~(count[p] >= MaxRequests) /\ ~(failures[p][url[p].host] >= MaxFailures)
      BY DEF Exhausted, Stopped
    <2>3. url[p].host \in Hosts
      <3>1. url[p] \in Urls
        BY <2>1 DEF TypeOK
      <3> QED BY <3>1 DEF Urls
    <2>4. count[p] \in Nat /\ failures[p][url[p].host] \in Nat
      BY <2>3 DEF TypeOK
    <2>5. count[p] < MaxRequests /\ failures[p][url[p].host] < MaxFailures
      BY <2>2, <2>4
    <2>6. Counted(p)'
      BY <1>0, <2>1, <2>5 DEF Sound, Counted
    <2>7. Examined(p)'
      BY <2>1, <2>5 DEF Examined, RobotsAllow
    <2>8. Holding(p)' /\ Informed(p)'
      BY <2>1 DEF Holding, Informed
    <2> QED BY <2>6, <2>7, <2>8 DEF Sound
  <1> QED BY <1>1, <1>2, <1>3, <1>4, OneProcess DEF TypeOK

\* The shared schedule is read under its lock.
LEMMA TakeSlotStep ==
    ASSUME IInv, NEW p \in Projects, TakeSlot(p)
    PROVE  IInv'
  <1> USE DEF IInv, TakeSlot, ledgers, shared, request
  <1>0. Sound(p)
    OBVIOUS
  <1>1. TypeOK'
    BY DEF TypeOK, Points, Schedule
  <1>2. CeilingHolds'
    BY DEF CeilingHolds
  <1>3. CreditsHold'
    BY DEF CreditsHold
  <1>4. Sound(p)'
    <2>1. Counted(p)'
      BY <1>0 DEF Sound, Counted, Granted, TypeOK
    <2>2. Examined(p)'
      BY <1>0 DEF Sound, Examined, Granted, Committed, TypeOK
    <2>3. Holding(p)'
      BY <1>0 DEF Sound, Holding, Granted, Committed, TypeOK
    <2>4. Informed(p)'
      BY <1>0 DEF Sound, Informed, Granted, Committed, TypeOK, Schedule
    <2> QED BY <2>1, <2>2, <2>3, <2>4 DEF Sound
  <1>5. ASSUME NEW q \in Projects \ {p}
        PROVE  /\ pc'[q] = pc[q] /\ campaign'[q] = campaign[q] /\ count'[q] = count[q]
               /\ robots'[q] = robots[q] /\ url'[q] = url[q] /\ page'[q] = page[q]
               /\ seen'[q] = seen[q] /\ sent'[q] = sent[q]
               /\ started'[q] = started[q] /\ failures'[q] = failures[q]
               /\ slot = q => slot' = q /\ last' = last /\ spent' = spent
    BY NoneAssumption DEF TypeOK
  <1> HIDE DEF IInv, TakeSlot, ledgers, shared, request
  <1> QED BY <1>1, <1>2, <1>3, <1>4, <1>5, OneProcess

\* A start is reserved on what was read.
LEMMA ReserveStep ==
    ASSUME IInv, NEW p \in Projects, Reserve(p)
    PROVE  IInv'
  <1> USE DEF IInv, Reserve, ledgers, shared, request
  <1>0. Sound(p)
    OBVIOUS
  <1>1. TypeOK'
    <2>1. Cost(url[p]) \in Nat
      BY DEF TypeOK, Cost, Urls
    <2>2. last' \in [Hosts -> Nat \union {None}]
      <3>1. now \in Nat /\ last \in [Hosts -> Nat \union {None}]
        BY DEF TypeOK
      <3> QED BY <3>1
    <2>3. ASSUME NEW d \in Days PROVE spent'[d] \in Nat
      BY <2>1 DEF TypeOK
    <2>4. spent' \in [Days -> Nat]
      BY <2>3 DEF TypeOK
    <2> QED BY <2>2, <2>4 DEF TypeOK, Points
  <1>2. CeilingHolds'
    BY DEF CeilingHolds
  <1>3. CreditsHold'
    <2>1. Cost(url[p]) \in Nat
      BY DEF TypeOK, Cost, Urls
    <2>2. seen[p].spent = spent
      BY <1>0 DEF Sound, Informed
    <2>3. ASSUME NEW d \in Days PROVE spent'[d] <= DailyCredits
      <3>1. CASE d # Today \/ Cost(url[p]) = 0
        BY <2>1, <3>1 DEF TypeOK, CreditsHold
      <3>2. CASE d = Today /\ Cost(url[p]) # 0
        BY <2>1, <2>2, <3>2 DEF TypeOK, Affordable
      <3> QED BY <3>1, <3>2
    <2> QED BY <2>3 DEF CreditsHold
  <1>4. Sound(p)'
    BY <1>0 DEF Sound, Counted, Examined, Holding, Informed, Granted,
       Committed, TypeOK
  <1> QED BY <1>1, <1>2, <1>3, <1>4, OneProcess, <1>0 DEF TypeOK, Sound, Holding

\* A request is counted and recorded.
LEMMA LogRequestStep ==
    ASSUME IInv, NEW p \in Projects, LogRequest(p)
    PROVE  IInv'
  <1> USE DEF IInv, LogRequest, ledgers, shared, request
  <1>0. Sound(p)
    OBVIOUS
  <1>1. TypeOK'
    BY DEF TypeOK, Points
  <1>2. CeilingHolds'
    <2>1. count[p] = started[p][campaign[p]] /\ count[p] < MaxRequests /\ campaign[p] \in Campaigns
      BY <1>0 DEF Sound, Counted, Granted, TypeOK
    <2>2. ASSUME NEW q \in Projects, NEW c \in Campaigns
          PROVE  sent[q][c] <= started'[q][c] /\ started'[q][c] <= MaxRequests
      <3>1. CASE q = p /\ c = campaign[p]
        BY <2>1, <3>1 DEF CeilingHolds, TypeOK
      <3>2. CASE q # p \/ c # campaign[p]
        BY <3>2 DEF CeilingHolds, TypeOK
      <3> QED BY <3>1, <3>2
    <2> QED BY <2>2 DEF CeilingHolds
  <1>3. CreditsHold'
    BY DEF CreditsHold
  <1>4. Sound(p)'
    <2>1. campaign[p] \in Campaigns
      BY DEF TypeOK
    <2>2. started'[p][campaign[p]] = started[p][campaign[p]] + 1 /\ count'[p] = count[p] + 1
      BY <2>1 DEF TypeOK
    <2>3. sent[p][campaign[p]] <= started[p][campaign[p]]
      BY <2>1 DEF CeilingHolds
    <2>4. started[p][campaign[p]] \in Nat /\ sent[p][campaign[p]] \in Nat
      BY <2>1 DEF TypeOK
    <2>5. pc'[p] = "sending"
      BY DEF TypeOK
    <2>6. Counted(p)'
      BY <1>0, <2>2, <2>3, <2>4, <2>5 DEF Sound, Counted, Granted
    <2>7. Examined(p)'
      BY <1>0, <2>5 DEF Sound, Examined, Granted, Committed
    <2>8. Holding(p)' /\ Informed(p)'
      BY <1>0, <2>5 DEF Sound, Holding, Informed
    <2> QED BY <2>6, <2>7, <2>8 DEF Sound
  <1> QED BY <1>1, <1>2, <1>3, <1>4, OneProcess DEF TypeOK

\* A request leaves, after its row.
LEMMA SendStep ==
    ASSUME IInv, NEW p \in Projects, Send(p)
    PROVE  IInv'
  <1> USE DEF IInv, Send, ledgers, shared, request
  <1>0. Sound(p)
    OBVIOUS
  <1>1. TypeOK'
    BY DEF TypeOK, Points
  <1>2. CeilingHolds'
    <2>1. sent[p][campaign[p]] < started[p][campaign[p]] /\ campaign[p] \in Campaigns
      BY <1>0 DEF Sound, Counted, TypeOK
    <2>2. ASSUME NEW q \in Projects, NEW c \in Campaigns PROVE sent'[q][c] <= started[q][c]
      <3>1. CASE q = p /\ c = campaign[p]
        BY <2>1, <3>1 DEF TypeOK
      <3>2. CASE q # p \/ c # campaign[p]
        BY <3>2 DEF CeilingHolds, TypeOK
      <3> QED BY <3>1, <3>2
    <2> QED BY <2>2 DEF CeilingHolds
  <1>3. CreditsHold'
    BY DEF CreditsHold
  <1>4. Sound(p)'
    BY <1>0 DEF Sound, Counted, Examined, Holding, Informed, Granted,
       Committed, TypeOK
  <1> QED BY <1>1, <1>2, <1>3, <1>4, OneProcess DEF TypeOK

\* A failure grows old.
LEMMA ExpireStep ==
    ASSUME IInv, NEW p \in Projects, NEW h \in Hosts, Expire(p, h)
    PROVE  IInv'
  <1> USE DEF IInv, Expire, ledgers, shared, request
  <1>0. Sound(p)
    OBVIOUS
  <1>1. TypeOK'
    BY DEF TypeOK, Points
  <1>2. CeilingHolds'
    BY DEF CeilingHolds
  <1>3. CreditsHold'
    BY DEF CreditsHold
  <1>4. Sound(p)'
    BY <1>0 DEF Sound, Counted, Examined, Holding, Informed, Granted,
       Committed, TypeOK
  <1> QED BY <1>1, <1>2, <1>3, <1>4, OneProcess DEF TypeOK

\* A fetcher is closed.
LEMMA CloseStep ==
    ASSUME IInv, NEW p \in Projects, Close(p)
    PROVE  IInv'
  <1> USE DEF IInv, Close, Forgotten, ledgers, shared, request
  <1>0. Sound(p)
    OBVIOUS
  <1>1. TypeOK'
    <2>1. Unread \in [Hosts -> Known \union {"unasked"}]
      BY DEF Unread
    <2> QED BY <2>1 DEF TypeOK, Points
  <1>2. CeilingHolds'
    BY DEF CeilingHolds
  <1>3. CreditsHold'
    BY DEF CreditsHold
  <1>4. Sound(p)'
    BY <1>0 DEF Sound, Counted, Examined, Holding, Informed, Granted,
       Committed, TypeOK
  <1> QED BY <1>1, <1>2, <1>3, <1>4, OneProcess DEF TypeOK

\* A process is killed, and its lock given back.
LEMMA CrashStep ==
    ASSUME IInv, NEW p \in Projects, Crash(p)
    PROVE  IInv'
  <1> USE DEF IInv, Crash, Forgotten, ledgers, shared, request
  <1>0. Sound(p)
    OBVIOUS
  <1>1. TypeOK'
    <2>1. Unread \in [Hosts -> Known \union {"unasked"}]
      BY DEF Unread
    <2> QED BY <2>1 DEF TypeOK, Points
  <1>2. CeilingHolds'
    BY DEF CeilingHolds
  <1>3. CreditsHold'
    BY DEF CreditsHold
  <1>4. Sound(p)'
    BY <1>0 DEF Sound, Counted, Examined, Holding, Informed, Granted,
       Committed, TypeOK
  <1> QED BY <1>1, <1>2, <1>3, <1>4, OneProcess DEF TypeOK

\* A redirect is followed.
LEMMA RedirectedStep ==
    ASSUME IInv, NEW p \in Projects, NEW u \in Destinations, Redirected(p, u)
    PROVE  IInv'
  <1> USE DEF IInv, Redirected, Answered, ledgers, shared, request
  <1>0. Sound(p)
    OBVIOUS
  <1>1. TypeOK'
    BY DEF TypeOK, Points
  <1>2. CeilingHolds'
    BY DEF CeilingHolds
  <1>3. CreditsHold'
    BY DEF CreditsHold
  <1>4. Sound(p)'
    BY <1>0 DEF Sound, Counted, Examined, Holding, Informed, Granted,
       Committed, TypeOK
  <1> QED BY <1>1, <1>2, <1>3, <1>4, OneProcess DEF TypeOK

\* A hop is refused before it is asked.
LEMMA RefuseStep ==
    ASSUME IInv, NEW p \in Projects, Refuse(p)
    PROVE  IInv'
  <1> USE DEF IInv, Refuse, Ended, ledgers, shared, request
  <1>0. Sound(p)
    OBVIOUS
  <1>ended. Ended(p)
    BY Finished DEF Known, Permissive, TypeOK
  <1>1. TypeOK'
    BY <1>ended DEF TypeOK, Points
  <1>2. CeilingHolds'
    BY DEF CeilingHolds
  <1>3. CreditsHold'
    BY DEF CreditsHold
  <1>4. Sound(p)'
    BY <1>0, <1>ended DEF Sound, Counted, Examined, Holding, Informed,
       Granted, Committed, TypeOK
  <1> QED BY <1>1, <1>2, <1>3, <1>4, OneProcess, <1>ended DEF TypeOK

\* The day's credits are used up.
LEMMA RefuseCreditsStep ==
    ASSUME IInv, NEW p \in Projects, RefuseCredits(p)
    PROVE  IInv'
  <1> USE DEF IInv, RefuseCredits, Ended, ledgers, shared, request
  <1>0. Sound(p)
    OBVIOUS
  <1>ended. Ended(p)
    BY Finished DEF Known, Permissive, TypeOK
  <1>1. TypeOK'
    BY <1>ended DEF TypeOK, Points
  <1>2. CeilingHolds'
    BY DEF CeilingHolds
  <1>3. CreditsHold'
    BY DEF CreditsHold
  <1>4. Sound(p)'
    BY <1>0, <1>ended DEF Sound, Counted, Examined, Holding, Informed,
       Granted, Committed, TypeOK
  <1> QED BY <1>1, <1>2, <1>3, <1>4, OneProcess, <1>ended, <1>0 DEF TypeOK, Sound, Holding

\* A host answers.
LEMMA ServedStep ==
    ASSUME IInv, NEW p \in Projects, NEW rule \in {"allow", "deny", "absent"}, Served(p, rule)
    PROVE  IInv'
  <1> USE DEF IInv, Served, Answered, Recorded, Ended, ledgers, shared, request
  <1>0. Sound(p)
    OBVIOUS
  <1>ended. Ended(p)
    BY Finished DEF Known, Permissive, TypeOK
  <1>1. TypeOK'
    BY <1>ended DEF TypeOK, Points
  <1>2. CeilingHolds'
    BY DEF CeilingHolds
  <1>3. CreditsHold'
    BY DEF CreditsHold
  <1>4. Sound(p)'
    BY <1>0, <1>ended DEF Sound, Counted, Examined, Holding, Informed,
       Granted, Committed, TypeOK
  <1> QED BY <1>1, <1>2, <1>3, <1>4, OneProcess, <1>ended DEF TypeOK

\* A host refuses.
LEMMA ForbiddenStep ==
    ASSUME IInv, NEW p \in Projects, Forbidden(p)
    PROVE  IInv'
  <1> USE DEF IInv, Forbidden, Answered, Recorded, Ended, ledgers, shared, request
  <1>0. Sound(p)
    OBVIOUS
  <1>ended. Ended(p)
    BY Finished DEF Known, Permissive, TypeOK
  <1>1. TypeOK'
    <2>1. url[p].host \in Hosts
      <3>1. url[p] \in Urls
        BY DEF TypeOK
      <3> QED BY <3>1 DEF Urls
    <2>2. failures' \in [Projects -> [Hosts -> Nat]]
      BY <2>1 DEF TypeOK
    <2> QED BY <2>2, <1>ended DEF TypeOK, Points
  <1>2. CeilingHolds'
    BY DEF CeilingHolds
  <1>3. CreditsHold'
    BY DEF CreditsHold
  <1>4. Sound(p)'
    BY <1>0, <1>ended DEF Sound, Counted, Examined, Holding, Informed,
       Granted, Committed, TypeOK
  <1> QED BY <1>1, <1>2, <1>3, <1>4, OneProcess, <1>ended DEF TypeOK

\* A host fails.
LEMMA FailedStep ==
    ASSUME IInv, NEW p \in Projects, Failed(p)
    PROVE  IInv'
  <1> USE DEF IInv, Failed, Answered, Recorded, Ended, ledgers, shared, request
  <1>0. Sound(p)
    OBVIOUS
  <1>ended. Ended(p)
    BY Finished DEF Known, Permissive, TypeOK
  <1>1. TypeOK'
    <2>1. url[p].host \in Hosts
      <3>1. url[p] \in Urls
        BY DEF TypeOK
      <3> QED BY <3>1 DEF Urls
    <2>2. failures' \in [Projects -> [Hosts -> Nat]]
      BY <2>1 DEF TypeOK
    <2> QED BY <2>2, <1>ended DEF TypeOK, Points
  <1>2. CeilingHolds'
    BY DEF CeilingHolds
  <1>3. CreditsHold'
    BY DEF CreditsHold
  <1>4. Sound(p)'
    BY <1>0, <1>ended DEF Sound, Counted, Examined, Holding, Informed,
       Granted, Committed, TypeOK
  <1> QED BY <1>1, <1>2, <1>3, <1>4, OneProcess, <1>ended DEF TypeOK

\* Time passes.
LEMMA TickStep ==
    ASSUME IInv, Tick
    PROVE  IInv'
  <1> USE DEF IInv, Tick, ledgers, shared, request
  <1>1. TypeOK'
    BY DEF TypeOK
  <1>2. CeilingHolds' /\ CreditsHold'
    BY DEF CeilingHolds, CreditsHold
  <1>3. ASSUME NEW p \in Projects PROVE Sound(p)'
    BY Untouched
  <1> QED BY <1>1, <1>2, <1>3

\* Nothing happens.
LEMMA StutterStep ==
    ASSUME IInv, UNCHANGED vars
    PROVE  IInv'
  <1> USE DEF IInv, vars, ledgers, shared, request
  <1>1. TypeOK'
    BY DEF TypeOK
  <1>2. CeilingHolds' /\ CreditsHold'
    BY DEF CeilingHolds, CreditsHold
  <1>3. ASSUME NEW p \in Projects PROVE Sound(p)'
    BY Untouched
  <1> QED BY <1>1, <1>2, <1>3

LEMMA InitialState == Init => IInv
  <1> SUFFICES ASSUME Init PROVE IInv
    OBVIOUS
  <1>1. TypeOK
    <2>1. Unread \in [Hosts -> Known \union {"unasked"}]
      BY DEF Unread
    <2> QED BY <2>1 DEF Init, TypeOK, Points, Days
  <1>2. CeilingHolds /\ CreditsHold
    BY DEF Init, CeilingHolds, CreditsHold
  <1>3. ASSUME NEW p \in Projects PROVE Sound(p)
    BY DEF Init, Sound, Counted, Examined, Holding, Informed, Granted, Committed
  <1> QED BY <1>1, <1>2, <1>3 DEF IInv

LEMMA NextStep == IInv /\ [Next]_vars => IInv'
  <1> SUFFICES ASSUME IInv, [Next]_vars PROVE IInv'
    OBVIOUS
  <1>1. CASE UNCHANGED vars
    BY <1>1, StutterStep
  <1>2. CASE Tick
    BY <1>2, TickStep
  <1>3. ASSUME NEW p \in Projects, Work(p) PROVE IInv'
    BY <1>3, LoadRobotsStep, RefuseStep, AcceptStep, TakeSlotStep, ReserveStep,
       RefuseCreditsStep, LogRequestStep, SendStep, RedirectedStep, ServedStep,
       ForbiddenStep, FailedStep DEF Work
  <1>4. ASSUME NEW p \in Projects, ~Work(p),
               \/ \E c \in Campaigns : Open(p, c)
               \/ \E h \in Hosts : Get(p, h) \/ Expire(p, h)
               \/ Close(p) \/ Crash(p)
        PROVE  IInv'
    BY <1>4, OpenStep, GetStep, ExpireStep, CloseStep, CrashStep
  <1> QED BY <1>1, <1>2, <1>3, <1>4 DEF Next

-----------------------------------------------------------------------------
(***************************************************************************)
(* The theorems.                                                           *)
(***************************************************************************)

\* The inductive invariant of every fetcher, ledger and schedule.
THEOREM Invariant == Spec => []IInv
  BY InitialState, NextStep, PTL DEF Spec

\* Every variable keeps its type.
THEOREM TypeCorrect == Spec => []TypeOK
  <1>1. IInv => TypeOK
    BY DEF IInv
  <1> QED BY <1>1, Invariant, PTL

\* No campaign of any project, restarted any number of times, sends more
\* requests than its plan froze or than its ledger shows (net.py, request_log.py).
THEOREM WithinCeiling == Spec => []CeilingHolds
  <1>1. IInv => CeilingHolds
    BY DEF IInv
  <1> QED BY <1>1, Invariant, PTL

\* Any number of projects together stay within a provider's day
\* (provider_limits.py).
THEOREM WithinDay == Spec => []CreditsHold
  <1>1. IInv => CreditsHold
    BY DEF IInv
  <1> QED BY <1>1, Invariant, PTL

\* Any number of projects hold at most one connection to the providers' hosts.
THEOREM OneAtATime == Spec => []OneTransferPerSlot
  <1>1. IInv => OneTransferPerSlot
    BY DEF IInv, OneTransferPerSlot, Sound, Holding
  <1> QED BY <1>1, Invariant, PTL

\* Every page on its way goes to a host whose robots.txt did not deny it.
THEOREM RulesHonoured == Spec => []RobotsHonoured
  <1>1. IInv => RobotsHonoured
    BY DEF IInv, RobotsHonoured, Sound, Examined, Granted, Committed
  <1> QED BY <1>1, Invariant, PTL

-----------------------------------------------------------------------------
(***************************************************************************)
(* What single steps do.                                                   *)
(***************************************************************************)

\* What of a step the two action properties are about.
Quiet(p) == /\ sent'[p] = sent[p]
            /\ pc[p] # "starting" => pc'[p] # "starting"

\* Only Send sends, and only Reserve starts.
LEMMA OnlySendAndReserve ==
    ASSUME TypeOK, Next, NEW p \in Projects
    PROVE  Send(p) \/ Reserve(p) \/ Quiet(p)
  <1> USE DEF Quiet, ledgers, shared, request
  <1>1. CASE Tick
    BY <1>1 DEF Tick
  <1>2. ASSUME NEW q \in Projects, NEW c \in Campaigns, Open(q, c) PROVE Quiet(p)
    BY <1>2 DEF Open, TypeOK
  <1>3. ASSUME NEW q \in Projects, NEW h \in Hosts, Get(q, h) \/ Expire(q, h) PROVE Quiet(p)
    BY <1>3 DEF Get, Expire, TypeOK
  <1>4. ASSUME NEW q \in Projects, Close(q) \/ Crash(q) PROVE Quiet(p)
    BY <1>4 DEF Close, Crash, Forgotten, TypeOK
  <1>5. ASSUME NEW q \in Projects, LoadRobots(q) \/ Accept(q) \/ TakeSlot(q) \/ LogRequest(q)
        PROVE  Quiet(p)
    BY <1>5 DEF LoadRobots, Accept, TakeSlot, LogRequest, TypeOK
  <1>6. ASSUME NEW q \in Projects, NEW rule \in Known, Finish(q, rule), sent' = sent
        PROVE  Quiet(p)
    BY <1>6 DEF Finish, TypeOK
  <1>7. ASSUME NEW q \in Projects, Refuse(q) \/ RefuseCredits(q) \/ Forbidden(q) \/ Failed(q)
        PROVE  Quiet(p)
    BY <1>6, <1>7 DEF Refuse, RefuseCredits, Forbidden, Failed, Answered, Known, Permissive
  <1>8. ASSUME NEW q \in Projects, NEW rule \in {"allow", "deny", "absent"}, Served(q, rule)
        PROVE  Quiet(p)
    BY <1>6, <1>8 DEF Served, Answered, Known, Permissive
  <1>9. ASSUME NEW q \in Projects, NEW u \in Destinations, Redirected(q, u) PROVE Quiet(p)
    BY <1>9 DEF Redirected, Answered, TypeOK
  <1>10. ASSUME NEW q \in Projects, q # p, Send(q) \/ Reserve(q) PROVE Quiet(p)
    BY <1>10 DEF Send, Reserve, TypeOK
  <1> QED BY <1>1, <1>2, <1>3, <1>4, <1>5, <1>7, <1>8, <1>9, <1>10 DEF Next, Work

\* A request leaves only for a host below its limit of recent failures, also
\* when reading its robots.txt was what it failed at (net.py).
THEOREM FailedHostsLeftAlone == Spec => NoRequestToFailedHost
  <1>1. IInv /\ [Next]_vars =>
          [\A p \in Projects : sent'[p] # sent[p] => failures[p][url[p].host] < MaxFailures]_vars
    <2> SUFFICES ASSUME IInv, Next, NEW p \in Projects, sent'[p] # sent[p]
                 PROVE  failures[p][url[p].host] < MaxFailures
      OBVIOUS
    <2>1. Sound(p) /\ TypeOK
      BY DEF IInv
    <2>2. Send(p)
      BY <2>1, OnlySendAndReserve DEF Quiet, Reserve
    <2> QED BY <2>1, <2>2 DEF Sound, Examined, Send
  <1> QED BY <1>1, Invariant, PTL DEF Spec, NoRequestToFailedHost

\* Starts at a provider's host keep their distance, whichever projects they
\* belong to (provider_limits.py).
THEOREM StartsKeepDistance == Spec => SpacedStarts
  <1>1. IInv /\ [Next]_vars =>
          [\A p \in Projects : LET h == url[p].host IN
              pc[p] # "starting" /\ pc'[p] = "starting" =>
                  last[h] = None \/ last'[h] >= last[h] + Interval[h]]_vars
    <2> SUFFICES ASSUME IInv, Next, NEW p \in Projects, pc[p] # "starting", pc'[p] = "starting"
                 PROVE  LET h == url[p].host IN
                          last[h] = None \/ last'[h] >= last[h] + Interval[h]
      OBVIOUS
    <2>1. Sound(p) /\ TypeOK
      BY DEF IInv
    <2>2. Reserve(p)
      BY <2>1, OnlySendAndReserve DEF Quiet, Send, TypeOK
    <2>3. url[p].host \in Hosts
      <3>1. url[p] \in Urls
        BY <2>1, <2>2 DEF TypeOK, Reserve
      <3> QED BY <3>1 DEF Urls
    <2>4. last'[url[p].host] = now /\ Rested(p) /\ seen[p].last = last[url[p].host]
      BY <2>1, <2>2, <2>3 DEF Reserve, Sound, Informed, TypeOK
    <2> QED BY <2>4 DEF Rested
  <1> QED BY <1>1, Invariant, PTL DEF Spec, SpacedStarts
=============================================================================
