---------------------------- MODULE EvidenceProofs ----------------------------
(***************************************************************************)
(* From what was found to verdicts: one acquisition asks few addresses     *)
(* that no plan held (Cascade); the observations of a selection are one on *)
(* another (Screening); and what a round's documents, reviews and verdicts *)
(* show of each other is so (Claims, Round, Journey).                      *)
(***************************************************************************)
EXTENDS Journey, Screening, Cascade, FiniteSetTheorems, SequenceTheorems, TLAPS

LEMMA SomeGreatest ==
    ASSUME NEW T, NEW m \in Nat, T \subseteq 0..m, T # {}
    PROVE  \E x \in T : \A y \in T : y <= x
<1> DEFINE Above(x) == {y \in T : x < y}
           F == {Above(x) : x \in T}
<1>1. IsFiniteSet(T)
  <2>1. T \in SUBSET Nat /\ \A s \in T : s <= m
      OBVIOUS
  <2> QED
      BY <2>1, FS_BoundedSetOfNaturals
<1>2. F \subseteq FiniteSubsetsOf(T) /\ F # {}
  <2>1. \A x \in T : Above(x) \in SUBSET T
      OBVIOUS
  <2>2. \A x \in T : IsFiniteSet(Above(x))
      BY <1>1, <2>1, FS_Subset
  <2> QED
      BY <2>1, <2>2 DEF FiniteSubsetsOf
<1>3. PICK A \in F : \A B \in F : <<B, A>> \notin StrictSubsetOrdering(T)
  <2> HIDE DEF F
  <2> QED
    BY <1>2, FS_StrictSubsetOrderingWellFounded, WFMin
<1>4. PICK x \in T : A = Above(x)
    OBVIOUS
<1>5. ASSUME NEW y \in T PROVE ~ x < y
  <2>1. CASE x < y
    <3>1. Above(y) \in F /\ y \in A /\ y \notin Above(y) /\ A \subseteq T
        BY <1>4, <2>1
    <3>2. Above(y) \subseteq A
      <4>1. ASSUME NEW z \in Above(y) PROVE z \in Above(x)
        <5>1. z \in T /\ y < z /\ x \in Nat /\ y \in Nat /\ z \in Nat
            OBVIOUS
        <5>2. x < z
            BY ONLY <2>1, <5>1
        <5> QED
            BY <5>1, <5>2
      <4> QED
        BY <1>4, <4>1
    <3>3. <<Above(y), A>> \in StrictSubsetOrdering(T)
        BY <3>1, <3>2 DEF StrictSubsetOrdering
    <3> QED
        BY <1>3, <3>1, <3>3
  <2> QED
      BY <2>1
<1> QED
    BY <1>5


LEMMA Least ==
    ASSUME NEW m \in Nat, NEW T, T \subseteq 0..m, T # {}
    PROVE  \E x \in T : \A y \in T : x <= y
<1> DEFINE Far == {m - x : x \in T}
<1>1. Far \subseteq 0..m /\ Far # {}
  <2>1. \A x \in T : m - x \in 0..m
    <3>1. \A x \in 0..m : m - x \in 0..m
        OBVIOUS
    <3> QED
        BY <3>1
  <2> QED
      BY <2>1
<1>2. PICK z \in Far : \A y \in Far : y <= z
    BY <1>1, SomeGreatest
<1>3. PICK x \in T : z = m - x
    OBVIOUS
<1>4. ASSUME NEW y \in T
      PROVE  x <= y
  <2>1. m - y \in Far
      OBVIOUS
  <2>2. m - y <= m - x
      BY <1>2, <1>3, <2>1
  <2>3. x \in 0..m /\ y \in 0..m
      OBVIOUS
  <2> QED
      BY ONLY <2>2, <2>3, m \in Nat
<1> QED
    BY <1>4

LEMMA Greatest ==
    ASSUME NEW m \in Nat, NEW T, T \subseteq 0..m, T # {}
    PROVE  Max(T) \in T /\ \A y \in T : y <= Max(T)
<1>1. PICK x \in T : \A y \in T : y <= x
    BY SomeGreatest
<1>2. \A y \in T : x >= y
  <2>1. ASSUME NEW y \in T
        PROVE  x >= y
    <3>1. y <= x /\ x \in 0..m /\ y \in 0..m
        BY <1>1
    <3> QED
        BY ONLY <3>1, m \in Nat
  <2> QED
      BY <2>1
<1>3. PICK w \in T : w = Max(T) /\ \A y \in T : w >= y
    BY <1>2 DEF Max
<1>4. ASSUME NEW y \in T
      PROVE  y <= w
  <2>1. w >= y /\ w \in 0..m /\ y \in 0..m
      BY <1>3
  <2> QED
      BY ONLY <2>1, m \in Nat
<1> QED
    BY <1>3, <1>4

-----------------------------------------------------------------------------
(***************************************************************************)
(* Selections: what SelectAt takes of a sequence is of that sequence.      *)
(***************************************************************************)

\* The recursion of SelectAt, up to m.
SelectionUpTo(m, f, s, places) ==
    [n \in 0..m |-> IF n = 0 THEN <<>>
                    ELSE IF n \in places THEN Append(f[n - 1], s[n]) ELSE f[n - 1]]

LEMMA SelectionDefined ==
    ASSUME NEW len \in Nat, NEW s, NEW places
    PROVE  \E f : f = SelectionUpTo(len, f, s, places)
<1> DEFINE Missing == {m \in 0..len : ~ \E f : f = SelectionUpTo(m, f, s, places)}
<1>1. ASSUME Missing # {}
      PROVE  FALSE
  <2>1. PICK m \in Missing : \A k \in Missing : m <= k
    <3>1. Missing \subseteq 0..len
        OBVIOUS
    <3> HIDE DEF Missing
    <3> QED
        BY <1>1, <3>1, Least
  <2>2. m \in 0..len /\ ~ \E f : f = SelectionUpTo(m, f, s, places)
      OBVIOUS
  <2>3. CASE m = 0
    <3> DEFINE g == [n \in 0..0 |-> <<>>]
    <3>1. g = SelectionUpTo(0, g, s, places)
      <4>1. \A n \in 0..0 : n = 0
          OBVIOUS
      <4> QED
          BY <4>1 DEF SelectionUpTo
    <3> QED
        BY <2>2, <2>3, <3>1
  <2>4. CASE m # 0
    <3>1. PICK k \in 0..len : k = m - 1 /\ m = k + 1 /\ ~(m <= k)
        BY <2>2, <2>4
    <3>2. k \notin Missing
        BY <2>1, <3>1
    <3>3. PICK f : f = SelectionUpTo(k, f, s, places)
        BY <3>2
    <3> DEFINE last == IF m \in places THEN Append(f[k], s[m]) ELSE f[k]
               g == [n \in 0..m |-> IF n = m THEN last ELSE f[n]]
    <3>4. ASSUME NEW n \in 0..m
          PROVE  g[n] = IF n = 0 THEN <<>>
                        ELSE IF n \in places THEN Append(g[n - 1], s[n]) ELSE g[n - 1]
      <4>1. CASE n = m
        <5>1. n - 1 = k /\ k \in 0..m /\ k # m
            BY <3>1, <4>1
        <5>2. g[n - 1] = f[k]
            BY <5>1
        <5> QED
            BY <2>4, <4>1, <5>2
      <4>2. CASE n # m
        <5>1. n \in 0..k /\ g[n] = f[n]
            BY <3>1, <4>2
        <5>2. f[n] = IF n = 0 THEN <<>>
                     ELSE IF n \in places THEN Append(f[n - 1], s[n]) ELSE f[n - 1]
            BY <3>3, <5>1 DEF SelectionUpTo
        <5>3. CASE n # 0
          <6>1. n - 1 \in 0..m /\ n - 1 # m
              BY <3>1, <5>1, <5>3
          <6>2. g[n - 1] = f[n - 1]
              BY <6>1
          <6> QED
              BY <5>1, <5>2, <6>2
        <5> QED
            BY <5>1, <5>2, <5>3
      <4> QED
          BY <4>1, <4>2
    <3>5. g = [n \in 0..m |-> g[n]]
        OBVIOUS
    <3> HIDE DEF g
    <3>6. g = SelectionUpTo(m, g, s, places)
        BY <3>4, <3>5 DEF SelectionUpTo
    <3> QED
        BY <2>2, <3>6
  <2> QED
      BY <2>3, <2>4
<1>2. len \in 0..len
    OBVIOUS
<1> QED
    BY <1>1, <1>2

LEMMA Selected ==
    ASSUME NEW S, NEW s \in Seq(S), NEW places
    PROVE  SelectAt(s, places) \in Seq(S)
<1>1. PICK len \in Nat : len = Len(s) /\ DOMAIN s = 1..len
    OBVIOUS
<1> DEFINE chosen == CHOOSE f : f = SelectionUpTo(len, f, s, places)
<1>2. chosen = SelectionUpTo(len, chosen, s, places)
    BY SelectionDefined
<1>3. SelectAt(s, places) = chosen[len]
    BY <1>1 DEF SelectAt, SelectionUpTo
<1> HIDE DEF chosen
<1>4. \A n \in 0..len : chosen[n] \in Seq(S)
  <2> DEFINE Bad == {n \in 0..len : chosen[n] \notin Seq(S)}
  <2>1. ASSUME Bad # {}
        PROVE  FALSE
    <3>1. PICK n \in Bad : \A k \in Bad : n <= k
      <4>1. Bad \subseteq 0..len
          OBVIOUS
      <4> HIDE DEF Bad
      <4> QED
          BY <2>1, <4>1, Least
    <3>2. n \in 0..len /\ chosen[n] \notin Seq(S)
        OBVIOUS
    <3>3. chosen[n] = IF n = 0 THEN <<>>
                      ELSE IF n \in places THEN Append(chosen[n - 1], s[n]) ELSE chosen[n - 1]
        BY <1>2, <3>2 DEF SelectionUpTo
    <3>4. n # 0
        BY <3>2, <3>3
    <3>5. n - 1 \in 0..len /\ ~(n <= n - 1) /\ n \in 1..len
        BY <3>2, <3>4
    <3>6. chosen[n - 1] \in Seq(S)
        BY <3>1, <3>5
    <3>7. s[n] \in S
        BY <1>1, <3>5
    <3> QED
        BY <3>2, <3>3, <3>4, <3>6, <3>7
  <2> QED
      BY <2>1
<1> QED
    BY <1>3, <1>4

-----------------------------------------------------------------------------
(***************************************************************************)
(* A cascade: no plan holds an address from a page.                        *)
(***************************************************************************)
Origins == {"arxiv", "candidate", "title", "unpaywall", "openalex", "core", "wayback",
            "europe-pmc", "web_locator"}

Stops == [url: Urls, from: Origins, rank: Nat]
Links == [url: Urls, from: {"landing"}, rank: Nat]

Landings(route) == {i \in 1..Len(route) : route[i].from = "landing"}

WorkTyped ==
    /\ work = [stage |-> work.stage, doi |-> work.doi, consulted |-> work.consulted,
               silent |-> work.silent, found |-> work.found, snapshot |-> work.snapshot,
               pending |-> work.pending, followed |-> work.followed, asked |-> work.asked,
               failure |-> work.failure, shaken |-> work.shaken]
    /\ work.found \in Seq(Stops) /\ work.snapshot \in Seq(Stops)
    /\ work.pending \in Seq(Stops \union Links) /\ work.asked \in Seq(Stops \union Links)
    /\ work.followed \in BOOLEAN

CascadeType ==
    /\ candidate \in Candidates
    /\ policy \in [LeadUrls -> Decisions]
    /\ leads \in Seq([url: Urls, decision: Decisions])

\* Before a page was read for its files no address is from one.
FewLandings ==
    /\ work.stage = "planning" => work.pending = <<>> /\ work.asked = <<>> /\ ~work.followed
    /\ ~work.followed => Landings(Route) = {}
    /\ Cardinality(Landings(Route)) <= MaxFollowed

CascadeInv == CascadeType /\ WorkTyped /\ FewLandings

LEMMA JoinSelected ==
    ASSUME NEW S, NEW s \in Seq(S)
    PROVE  Distinct(s) \in Seq(S) /\ Ranked(s) \in Seq(S)
<1>1. Distinct(s) \in Seq(S)
    BY Selected DEF Distinct
<1> DEFINE Of(p) == SelectAt(s, {n \in DOMAIN s : Preference(s[n]) = p})
<1>2. \A p : Of(p) \in Seq(S)
    BY Selected
<1>3. Ranked(s) = Of(0) \o Of(1) \o Of(2) \o Of(3) \o Of(4) \o Of(5)
                  \o Of(6) \o Of(7) \o Of(8) \o Of(9) \o Of(10) \o Of(11)
    BY DEF Ranked
<1> HIDE DEF Of
<1>4. \A x \in Seq(S), y \in Seq(S) : x \o y \in Seq(S)
    OBVIOUS
<1>5. Of(0) \o Of(1) \o Of(2) \o Of(3) \in Seq(S)
    BY <1>2, <1>4, Zenon
<1>6. Of(0) \o Of(1) \o Of(2) \o Of(3) \o Of(4) \o Of(5) \o Of(6) \o Of(7) \in Seq(S)
    BY <1>2, <1>4, <1>5, Zenon
<1>7. Ranked(s) \in Seq(S)
    BY <1>2, <1>3, <1>4, <1>6, Zenon
<1> QED
    BY <1>1, <1>7

\* The plan names no page's files, whatever services and leads say.
LEMMA PlanHasStops ==
    ASSUME CascadeInv
    PROVE  /\ Planned \in Seq(Stops)
           /\ [i \in 1..Len(Offered) |-> Location(Offered[i].url, "web_locator", Offered[i].rank)]
                  \in Seq(Stops)
<1>1. \A x \in Seq(Stops), y \in Seq(Stops) : x \o y \in Seq(Stops)
    OBVIOUS
<1>2. Kept \in Seq(Stops)
  <2> DEFINE rewritten == [i \in 1..Len(work.found) |-> Rewritten(work.found[i])]
             kept == SelectAt(rewritten, {n \in DOMAIN rewritten : ~OnlyResolves(rewritten[n])})
  <2>1. ASSUME NEW l \in Stops
        PROVE  Rewritten(l) \in Stops
      BY AddressAssumption DEF Rewritten, Location, Stops, Origins
  <2>2. rewritten \in Seq(Stops)
    <3>1. PICK found \in Seq(Stops) : found = work.found
        BY DEF CascadeInv, WorkTyped
    <3>2. \A i \in 1..Len(found) : found[i] \in Stops
        OBVIOUS
    <3>3. [i \in 1..Len(found) |-> Rewritten(found[i])] \in Seq(Stops)
        BY <2>1, <3>2
    <3> QED
        BY <3>1, <3>3
  <2> HIDE DEF rewritten
  <2>3. kept \in Seq(Stops)
      BY <2>2, Selected
  <2>4. Kept = Distinct(kept)
      BY DEF Kept, rewritten
  <2> HIDE DEF kept
  <2> QED
      BY <2>3, <2>4, JoinSelected
<1>3. OwnWall \in Seq(Stops)
  <2>1. CASE OnAWall
    <3>1. candidate.url \in Urls
        BY <2>1, AddressAssumption DEF OnAWall, CascadeInv, CascadeType
    <3>2. Location(candidate.url, "candidate", 3) \in Stops
        BY <3>1 DEF Location, Stops, Origins
    <3> QED
        BY <2>1, <3>2 DEF OwnWall
  <2>2. CASE ~OnAWall
      BY <2>2 DEF OwnWall
  <2> QED
      BY <2>1, <2>2
<1>4. Planned \in Seq(Stops)
  <2>1. Ranked(Kept) \in Seq(Stops) /\ work.snapshot \in Seq(Stops)
      BY <1>2, JoinSelected DEF CascadeInv, WorkTyped
  <2>2. Ranked(Kept) \o OwnWall \o work.snapshot \in Seq(Stops)
      BY <1>1, <1>3, <2>1
  <2> QED
      BY <2>2, JoinSelected DEF Planned
<1>5. [i \in 1..Len(Offered) |-> Location(Offered[i].url, "web_locator", Offered[i].rank)] \in Seq(Stops)
  <2> DEFINE T == [url: Urls, from: Decisions, rank: Nat]
             as == [i \in 1..Len(leads) |-> Location(leads[i].url, leads[i].decision, 3)]
  <2>1. as \in Seq(T)
    <3>1. PICK seen \in Seq([url: Urls, decision: Decisions]) : seen = leads
        BY DEF CascadeInv, CascadeType
    <3>2. ASSUME NEW i \in 1..Len(seen)
          PROVE  Location(seen[i].url, seen[i].decision, 3) \in T
      <4>1. PICK x \in [url: Urls, decision: Decisions] : x = seen[i]
        <5>1. seen[i] \in [url: Urls, decision: Decisions]
            BY ElementOfSeq, Zenon
        <5> QED
            BY <5>1, Zenon
      <4>2. x.url \in Urls /\ x.decision \in Decisions
          OBVIOUS
      <4> QED
          BY <4>1, <4>2 DEF Location
    <3>3. [i \in 1..Len(seen) |-> Location(seen[i].url, seen[i].decision, 3)] \in Seq(T)
        BY <3>2
    <3> QED
        BY <3>1, <3>3
  <2> HIDE DEF as
  <2>2. Offered \in Seq(T)
      BY <2>1, JoinSelected, Selected DEF Offered, as
  <2>3. PICK offers \in Seq(T) : offers = Offered
      BY <2>2
  <2>4. ASSUME NEW i \in 1..Len(offers)
        PROVE  Location(offers[i].url, "web_locator", offers[i].rank) \in Stops
    <3>1. PICK x \in T : x = offers[i]
      <4>1. offers[i] \in T
          BY ElementOfSeq, Zenon
      <4> QED
          BY <4>1, Zenon
    <3>2. x.url \in Urls /\ x.rank \in Nat
        OBVIOUS
    <3> QED
        BY <3>1, <3>2 DEF Location, Stops, Origins
  <2>5. [i \in 1..Len(offers) |-> Location(offers[i].url, "web_locator", offers[i].rank)] \in Seq(Stops)
      BY <2>4
  <2> QED
      BY <2>3, <2>5
<1> QED
    BY <1>4, <1>5

\* The files of a page are no more than may be followed.
LEMMA FewFiles ==
    ASSUME NEW u \in Urls
    PROVE  DepositedFiles(u) \in Seq(Links) /\ Len(DepositedFiles(u)) <= MaxFollowed
<1> DEFINE all == [i \in 1..Len(Linked[u]) |-> Location(Linked[u][i], "landing", 3)]
           files == Distinct(all)
           others == SelectAt(files, {n \in DOMAIN files : files[n].url # u})
<1>1. all \in Seq(Links)
  <2>1. PICK links \in Seq(Urls) : links = Linked[u]
      BY AddressAssumption
  <2>2. \A i \in 1..Len(links) : Location(links[i], "landing", 3) \in Links
      BY DEF Location, Links
  <2>3. [i \in 1..Len(links) |-> Location(links[i], "landing", 3)] \in Seq(Links)
      BY <2>2
  <2> QED
      BY <2>1, <2>3
<1> HIDE DEF all
<1>2. files \in Seq(Links)
    BY <1>1, JoinSelected
<1> HIDE DEF files
<1>3. others \in Seq(Links)
    BY <1>2, Selected
<1>4. DepositedFiles(u) = SubSeq(others, 1, IF Len(others) < MaxFollowed THEN Len(others) ELSE MaxFollowed)
    BY DEF DepositedFiles, all, files
<1> HIDE DEF others
<1>5. PICK n \in Nat : /\ n = IF Len(others) < MaxFollowed THEN Len(others) ELSE MaxFollowed
                       /\ n <= Len(others) /\ n <= MaxFollowed
  <2>1. PICK len \in Nat, most \in Nat : len = Len(others) /\ most = MaxFollowed
      BY <1>3, AddressAssumption
  <2> QED
      BY <2>1
<1>6. \A i \in 1..n : others[i] \in Links
    BY <1>3, <1>5
<1>8. SubSeq(others, 1, n) \in Seq(Links) /\ Len(SubSeq(others, 1, n)) = n
    BY <1>3, <1>5
<1> QED
    BY <1>4, <1>5, <1>8

LEMMA LengthIs ==
    ASSUME NEW S, NEW s \in Seq(S)
    PROVE  \E n \in Nat : n = Len(s)
<1>1. Len(s) \in Nat
    BY LenProperties, Zenon
<1> QED
    BY <1>1, Zenon

LEMMA HeadAndTail ==
    ASSUME NEW S, NEW p \in Seq(S), p # <<>>
    PROVE  /\ Head(p) \in S /\ Tail(p) \in Seq(S) /\ Len(p) = Len(Tail(p)) + 1 /\ p[1] = Head(p)
           /\ \A i \in 1..Len(Tail(p)) : Tail(p)[i] = p[i + 1]
<1>1. /\ Head(p) \in S /\ Tail(p) \in Seq(S) /\ Len(Tail(p)) = Len(p) - 1
      /\ \A i \in 1..Len(Tail(p)) : Tail(p)[i] = p[i + 1]
    BY HeadTailProperties, Zenon
<1>2. PICK n \in Nat : n = Len(Tail(p))
    BY <1>1, LengthIs, Zenon
<1>3. PICK m \in Nat : m = Len(p)
    BY LengthIs, Zenon
<1>4. m = n + 1
  <2>1. n = m - 1
      BY <1>1, <1>2, <1>3, Zenon
  <2> QED
      BY ONLY <2>1, m \in Nat, n \in Nat
<1>5. p[1] = Head(p)
    OBVIOUS
<1>6. Len(Tail(p)) = n /\ Len(p) = n + 1 /\ \A i \in 1..n : Tail(p)[i] = p[i + 1]
    BY <1>1, <1>2, <1>3, <1>4, Zenon
<1> QED
    BY <1>1, <1>2, <1>5, <1>6, Zenon

LEMMA Appended ==
    ASSUME NEW S, NEW a \in Seq(S), NEW h \in S, NEW m \in Nat, Len(a) = m
    PROVE  /\ Append(a, h) \in Seq(S) /\ Len(Append(a, h)) = m + 1
           /\ \A i \in 1..m + 1 : Append(a, h)[i] = IF i <= m THEN a[i] ELSE h
    OBVIOUS

\* Asking the next address moves it along the route.
LEMMA RouteGoesOn ==
    ASSUME NEW S, NEW a \in Seq(S), NEW p \in Seq(S), p # <<>>
    PROVE  Append(a, Head(p)) \o Tail(p) = a \o p
<1>1. /\ Head(p) \in S /\ Tail(p) \in Seq(S) /\ Len(p) = Len(Tail(p)) + 1 /\ p[1] = Head(p)
      /\ \A i \in 1..Len(Tail(p)) : Tail(p)[i] = p[i + 1]
    BY HeadAndTail, Zenon
<1>2. PICK h \in S, t \in Seq(S) : h = Head(p) /\ t = Tail(p)
    BY <1>1, Zenon
<1>3. PICK n \in Nat : /\ h = Head(p) /\ t = Tail(p) /\ Len(t) = n /\ Len(p) = n + 1 /\ p[1] = h
                      /\ \A i \in 1..n : t[i] = p[i + 1]
  <2>1. PICK n \in Nat : n = Len(t)
      BY LengthIs, Zenon
  <2> QED
      BY <1>1, <1>2, <2>1, Zenon
<1>4. PICK m \in Nat : m = Len(a)
    BY LengthIs, Zenon
<1>5. PICK g \in Seq(S) : g = Append(a, h)
  <2>1. Append(a, h) \in Seq(S)
      BY ONLY a \in Seq(S), h \in S
  <2> QED
      BY <2>1, Zenon
<1>6. g \in Seq(S) /\ Len(g) = m + 1 /\ \A i \in 1..m + 1 : g[i] = IF i <= m THEN a[i] ELSE h
  <2>1. Len(a) = m
      BY <1>4
  <2>2. /\ Append(a, h) \in Seq(S) /\ Len(Append(a, h)) = m + 1
        /\ \A i \in 1..m + 1 : Append(a, h)[i] = IF i <= m THEN a[i] ELSE h
      BY ONLY <2>1, Appended, a \in Seq(S), h \in S, m \in Nat
  <2> QED
      BY ONLY <2>2, <1>5
<1>7. PICK l : l = g \o t
    OBVIOUS
<1>8. PICK r : r = a \o p
    OBVIOUS
<1>9. m + 1 \in Nat /\ n + 1 \in Nat /\ (m + 1) + n = m + (n + 1)
    OBVIOUS
<1>10. /\ l \in Seq(S) /\ Len(l) = (m + 1) + n
       /\ \A i \in 1..((m + 1) + n) : l[i] = IF i <= m + 1 THEN g[i] ELSE t[i - (m + 1)]
  <2>1. Len(g) = m + 1 /\ Len(t) = n /\ g \in Seq(S)
      BY <1>3, <1>6, Zenon
  <2>2. /\ g \o t \in Seq(S) /\ Len(g \o t) = (m + 1) + n
        /\ \A i \in 1..((m + 1) + n) : (g \o t)[i] = IF i <= m + 1 THEN g[i] ELSE t[i - (m + 1)]
    <3>1. PICK k \in Nat : k = m + 1
        BY <1>9, Zenon
    <3>2. /\ g \o t \in Seq(S) /\ Len(g \o t) = k + n
          /\ \A i \in 1..(k + n) : (g \o t)[i] = IF i <= k THEN g[i] ELSE t[i - k]
      <4>1. Len(g) = k /\ Len(t) = n /\ g \in Seq(S) /\ t \in Seq(S)
          BY <2>1, <3>1, Zenon
      <4> QED
        <5>1. /\ g \o t \in Seq(S) /\ Len(g \o t) = Len(g) + Len(t)
              /\ \A i \in 1..(Len(g) + Len(t)) : (g \o t)[i] = IF i <= Len(g) THEN g[i] ELSE t[i - Len(g)]
            BY <4>1, ConcatProperties, Zenon
        <5> QED
            BY <4>1, <5>1, Zenon
    <3> QED
        BY ONLY <3>1, <3>2
  <2> QED
      BY ONLY <2>2, <1>7
<1>11. /\ r \in Seq(S) /\ Len(r) = m + (n + 1)
       /\ \A i \in 1..(m + (n + 1)) : r[i] = IF i <= m THEN a[i] ELSE p[i - m]
  <2>1. Len(a) = m /\ Len(p) = n + 1
      BY <1>3, <1>4, Zenon
  <2>2. /\ a \o p \in Seq(S) /\ Len(a \o p) = m + (n + 1)
        /\ \A i \in 1..(m + (n + 1)) : (a \o p)[i] = IF i <= m THEN a[i] ELSE p[i - m]
    <3>1. PICK k \in Nat : k = n + 1
        BY <1>9, Zenon
    <3>2. Len(a) = m /\ Len(p) = k
        BY <2>1, <3>1, Zenon
    <3>3. /\ a \o p \in Seq(S) /\ Len(a \o p) = m + k
          /\ \A i \in 1..(m + k) : (a \o p)[i] = IF i <= m THEN a[i] ELSE p[i - m]
      <4>1. /\ a \o p \in Seq(S) /\ Len(a \o p) = Len(a) + Len(p)
            /\ \A i \in 1..(Len(a) + Len(p)) : (a \o p)[i] = IF i <= Len(a) THEN a[i] ELSE p[i - Len(a)]
          BY ConcatProperties, Zenon
      <4> QED
          BY <3>2, <4>1, Zenon
    <3> QED
        BY ONLY <3>1, <3>3
  <2> QED
      BY ONLY <2>2, <1>8
<1>12. ASSUME NEW i \in 1..(m + (n + 1))
       PROVE  l[i] = r[i]
  <2>1. CASE i <= m
    <3>1. i \in 1..((m + 1) + n) /\ i <= m + 1 /\ i \in 1..m + 1
        BY <2>1
    <3> QED
        BY <1>6, <1>10, <1>11, <2>1, <3>1, Zenon
  <2>2. CASE i = m + 1
    <3>1. i \in 1..((m + 1) + n) /\ i <= m + 1 /\ i \in 1..m + 1 /\ ~(i <= m) /\ i - m = 1
        BY <2>2
    <3> QED
        BY <1>3, <1>6, <1>10, <1>11, <3>1, Zenon
  <2>3. CASE i > m + 1
    <3>1. i \in 1..((m + 1) + n) /\ ~(i <= m + 1) /\ ~(i <= m)
          /\ i - (m + 1) \in 1..n /\ (i - (m + 1)) + 1 = i - m
        BY <2>3
    <3>2. t[i - (m + 1)] = p[i - m]
        BY <1>3, <3>1, Zenon
    <3> QED
        BY <1>10, <1>11, <3>1, <3>2, Zenon
  <2> QED
      BY <2>1, <2>2, <2>3
<1>13. l = r
  <2>1. \A i \in 1..Len(l) : l[i] = r[i]
      BY <1>9, <1>10, <1>12, Zenon
  <2>2. Len(l) = Len(r)
      BY <1>9, <1>10, <1>11, Zenon
  <2> QED
      BY <1>10, <1>11, <2>1, <2>2, SeqEqual, Zenon
<1> QED
    BY <1>3, <1>5, <1>7, <1>8, <1>13, Zenon

\* With a page's files put next, the addresses from pages are those files.
LEMMA FilesGoNext ==
    ASSUME NEW S, NEW a \in Seq(S), NEW p \in Seq(S), NEW f \in Seq(S), p # <<>>,
           Landings(a \o p) = {}
    PROVE  Cardinality(Landings(Append(a, Head(p)) \o (f \o Tail(p)))) <= Len(f)
<1>1. /\ Head(p) \in S /\ Tail(p) \in Seq(S) /\ Len(p) = Len(Tail(p)) + 1 /\ p[1] = Head(p)
      /\ \A i \in 1..Len(Tail(p)) : Tail(p)[i] = p[i + 1]
    BY HeadAndTail, Zenon
<1>2. PICK h \in S, t \in Seq(S) : h = Head(p) /\ t = Tail(p)
    BY <1>1, Zenon
<1>3. PICK n \in Nat : /\ h = Head(p) /\ t = Tail(p) /\ Len(t) = n /\ Len(p) = n + 1 /\ p[1] = h
                      /\ \A i \in 1..n : t[i] = p[i + 1]
  <2>1. PICK n \in Nat : n = Len(t)
      BY LengthIs, Zenon
  <2> QED
      BY <1>1, <1>2, <2>1, Zenon
<1>4. PICK m \in Nat, k \in Nat : m = Len(a) /\ k = Len(f)
  <2>1. PICK m \in Nat : m = Len(a)
      BY LengthIs, Zenon
  <2>2. PICK k \in Nat : k = Len(f)
      BY LengthIs, Zenon
  <2> QED
      BY <2>1, <2>2, Zenon
<1>5. PICK g \in Seq(S) : g = Append(a, h)
  <2>1. Append(a, h) \in Seq(S)
      BY ONLY a \in Seq(S), h \in S
  <2> QED
      BY <2>1, Zenon
<1>6. g \in Seq(S) /\ Len(g) = m + 1 /\ \A i \in 1..m + 1 : g[i] = IF i <= m THEN a[i] ELSE h
  <2>1. Len(a) = m
      BY <1>4
  <2>2. /\ Append(a, h) \in Seq(S) /\ Len(Append(a, h)) = m + 1
        /\ \A i \in 1..m + 1 : Append(a, h)[i] = IF i <= m THEN a[i] ELSE h
      BY ONLY <2>1, Appended, a \in Seq(S), h \in S, m \in Nat
  <2> QED
      BY ONLY <2>2, <1>5
<1> DEFINE new == Append(a, Head(p)) \o (f \o Tail(p))
           old == a \o p
<1>7. PICK e \in Seq(S) : /\ e = f \o t /\ Len(e) = k + n
                         /\ \A i \in 1..(k + n) : e[i] = IF i <= k THEN f[i] ELSE t[i - k]
  <2>1. /\ f \o t \in Seq(S) /\ Len(f \o t) = Len(f) + Len(t)
        /\ \A i \in 1..(Len(f) + Len(t)) : (f \o t)[i] = IF i <= Len(f) THEN f[i] ELSE t[i - Len(f)]
      BY ConcatProperties, Zenon
  <2>2. Len(f) = k /\ Len(t) = n
      BY <1>3, <1>4, Zenon
  <2> QED
      BY <2>1, <2>2, Zenon
<1>8. /\ new \in Seq(S) /\ Len(new) = (m + 1) + (k + n)
      /\ \A i \in 1..((m + 1) + (k + n)) : new[i] = IF i <= m + 1 THEN g[i] ELSE e[i - (m + 1)]
  <2>1. /\ g \o e \in Seq(S) /\ Len(g \o e) = Len(g) + Len(e)
        /\ \A i \in 1..(Len(g) + Len(e)) : (g \o e)[i] = IF i <= Len(g) THEN g[i] ELSE e[i - Len(g)]
      BY ConcatProperties, Zenon
  <2>2. Len(g) = m + 1 /\ Len(e) = k + n
      BY <1>6, <1>7, Zenon
  <2>3. new = g \o e
      BY <1>3, <1>5, <1>7, Zenon
  <2> HIDE DEF new
  <2> QED
      BY <2>1, <2>2, <2>3, Zenon
<1>9. /\ old \in Seq(S) /\ Len(old) = m + (n + 1)
      /\ \A i \in 1..(m + (n + 1)) : old[i] = IF i <= m THEN a[i] ELSE p[i - m]
  <2>1. /\ a \o p \in Seq(S) /\ Len(a \o p) = Len(a) + Len(p)
        /\ \A i \in 1..(Len(a) + Len(p)) : (a \o p)[i] = IF i <= Len(a) THEN a[i] ELSE p[i - Len(a)]
      BY ConcatProperties, Zenon
  <2>2. Len(a) = m /\ Len(p) = n + 1
      BY <1>3, <1>4, Zenon
  <2> QED
      BY <2>1, <2>2, Zenon
<1> HIDE DEF new, old
<1>10. ASSUME NEW i \in 1..((m + 1) + (k + n)), i \notin (m + 2)..(m + 1 + k)
       PROVE  \E j \in 1..(m + (n + 1)) : new[i] = old[j]
  <2>1. CASE i <= m
    <3>1. i \in 1..(m + (n + 1)) /\ i <= m + 1 /\ i \in 1..m + 1
        BY <2>1
    <3>2. new[i] = old[i]
        BY <1>6, <1>8, <1>9, <2>1, <3>1, Zenon
    <3> QED
        BY <3>1, <3>2, Zenon
  <2>2. CASE i = m + 1
    <3>1. i \in 1..(m + (n + 1)) /\ i <= m + 1 /\ i \in 1..m + 1 /\ ~(i <= m) /\ i - m = 1
        BY <2>2
    <3>2. new[i] = old[i]
        BY <1>3, <1>6, <1>8, <1>9, <3>1, Zenon
    <3> QED
        BY <3>1, <3>2, Zenon
  <2>3. CASE i > m + 1 + k
    <3>1. PICK j \in 1..n : i = m + 1 + k + j
      <4>1. i - (m + 1 + k) \in 1..n /\ i = m + 1 + k + (i - (m + 1 + k))
          BY <2>3
      <4> QED
          BY <4>1, Zenon
    <3>2. /\ i - (m + 1) = k + j /\ ~(i <= m + 1) /\ k + j \in 1..(k + n) /\ ~(k + j <= k)
          /\ (k + j) - k = j
        BY <3>1
    <3>3. /\ m + (j + 1) \in 1..(m + (n + 1)) /\ ~(m + (j + 1) <= m) /\ (m + (j + 1)) - m = j + 1
        BY <3>1
    <3>4. new[i] = t[j]
      <4>1. new[i] = e[i - (m + 1)]
          BY <1>8, <3>2, Zenon
      <4>2. e[k + j] = t[(k + j) - k]
          BY <1>7, <3>2, Zenon
      <4> QED
          BY <3>2, <4>1, <4>2, Zenon
    <3>5. old[m + (j + 1)] = p[j + 1]
      <4>1. old[m + (j + 1)] = p[(m + (j + 1)) - m]
          BY <1>9, <3>3, Zenon
      <4> QED
          BY <3>3, <4>1, Zenon
    <3>6. t[j] = p[j + 1]
        BY <1>3, Zenon
    <3> QED
        BY <3>3, <3>4, <3>5, <3>6, Zenon
  <2> QED
      BY <1>10, <2>1, <2>2, <2>3
<1>11. \A j \in 1..(m + (n + 1)) : old[j].from # "landing"
    BY <1>9 DEF Landings, old
<1>12. Landings(new) \subseteq (m + 2)..(m + 1 + k)
    BY <1>8, <1>10, <1>11 DEF Landings
<1>13. IsFiniteSet((m + 2)..(m + 1 + k)) /\ Cardinality((m + 2)..(m + 1 + k)) = k
  <2>1. m + 2 \in Int /\ m + 1 + k \in Int
      OBVIOUS
  <2>2. Cardinality((m + 2)..(m + 1 + k)) = IF m + 2 > m + 1 + k THEN 0 ELSE (m + 1 + k) - (m + 2) + 1
      BY <2>1, FS_Interval
  <2> QED
      BY <2>1, <2>2, FS_Interval
<1>14. Landings(new) \in SUBSET ((m + 2)..(m + 1 + k))
    BY <1>12
<1>15. Cardinality(Landings(new)) <= Cardinality((m + 2)..(m + 1 + k))
    BY <1>13, <1>14, FS_Subset
<1> QED
    BY <1>4, <1>13, <1>15 DEF new

LEMMA NoLandingsCount ==
    ASSUME Landings(Route) = {}
    PROVE  Cardinality(Landings(Route)) <= MaxFollowed
    BY FS_EmptySet, AddressAssumption

LEMMA RestingRoute ==
    ASSUME work' = Resting
    PROVE  WorkTyped' /\ FewLandings'
<1>1. /\ work'.pending = <<>> /\ work'.asked = <<>> /\ work'.found = <<>> /\ work'.snapshot = <<>>
      /\ ~work'.followed /\ work'.followed \in BOOLEAN
    BY DEF Resting
<1>2. WorkTyped'
    BY <1>1 DEF WorkTyped, Resting
<1>3. Landings(Route)' = {}
    BY <1>1 DEF Landings, Route
<1>4. Cardinality(Landings(Route)') <= MaxFollowed
    BY <1>3, FS_EmptySet, AddressAssumption
<1> QED
    BY <1>1, <1>2, <1>3, <1>4 DEF FewLandings

\* A step that is about the plan alone.
LEMMA Plans ==
    ASSUME CascadeInv, work.stage = "planning" \/ work = Resting,
           UNCHANGED <<candidate, policy, leads>>,
           WorkTyped', ~work'.followed, work'.asked = <<>>,
           work'.pending \in Seq(Stops),
           work'.stage = "planning" => work'.pending = <<>>
    PROVE  CascadeInv'
<1>1. CascadeType'
    BY DEF CascadeInv, CascadeType
<1>2. PICK pending \in Seq(Stops) : pending = work'.pending
    OBVIOUS
<1>3. Route' = pending
  <2>1. <<>> \o pending = pending
      BY <1>2
  <2> QED
      BY <1>2, <2>1 DEF Route
<1>4. Landings(pending) = {}
  <2>1. ASSUME NEW i \in 1..Len(pending)
        PROVE  pending[i].from \in Origins
    <3>1. PICK x \in Stops : x = pending[i]
        OBVIOUS
    <3> QED
        BY <3>1 DEF Stops
  <2> QED
      BY <2>1 DEF Landings, Origins
<1>5. Landings(Route)' = {}
    BY <1>3, <1>4 DEF Landings
<1>6. Cardinality(Landings(Route)') <= MaxFollowed
    BY <1>5, FS_EmptySet, AddressAssumption
<1> QED
    BY <1>1, <1>5, <1>6 DEF CascadeInv, FewLandings

LEMMA StartsCascade ==
    ASSUME CascadeInv, NEW again, StartCascade(again)
    PROVE  CascadeInv'
<1> DEFINE found == (IF candidate.arxiv = Nowhere THEN <<>>
                     ELSE <<Location(candidate.arxiv, "arxiv", 2)>>)
                    \o (IF candidate.url = Nowhere \/ OnAWall THEN <<>>
                        ELSE <<Location(candidate.url, "candidate", 3)>>)
<1>1. candidate.url \in Urls \union {Nowhere} /\ candidate.arxiv \in Urls \union {Nowhere}
    BY AddressAssumption DEF CascadeInv, CascadeType
<1>2. found \in Seq(Stops)
  <2>1. candidate.arxiv # Nowhere => <<Location(candidate.arxiv, "arxiv", 2)>> \in Seq(Stops)
    <3>1. candidate.arxiv # Nowhere => Location(candidate.arxiv, "arxiv", 2) \in Stops
        BY <1>1 DEF Location, Stops, Origins
    <3> QED
        BY ONLY <3>1
  <2>2. candidate.url # Nowhere => <<Location(candidate.url, "candidate", 3)>> \in Seq(Stops)
    <3>1. candidate.url # Nowhere => Location(candidate.url, "candidate", 3) \in Stops
        BY <1>1 DEF Location, Stops, Origins
    <3> QED
        BY ONLY <3>1
  <2>0. <<>> \in Seq(Stops)
      OBVIOUS
  <2>3. PICK x \in Seq(Stops) : x = IF candidate.arxiv = Nowhere THEN <<>>
                                    ELSE <<Location(candidate.arxiv, "arxiv", 2)>>
      BY <2>0, <2>1, Zenon
  <2>4. PICK y \in Seq(Stops) : y = IF candidate.url = Nowhere \/ OnAWall THEN <<>>
                                    ELSE <<Location(candidate.url, "candidate", 3)>>
      BY <2>0, <2>2, Zenon
  <2>5. x \o y \in Seq(Stops)
      OBVIOUS
  <2> QED
      BY <2>3, <2>4, <2>5
<1>3. /\ work' = [Resting EXCEPT !.stage = "planning", !.doi = candidate.doi, !.found = found]
      /\ UNCHANGED <<candidate, policy, leads>> /\ work.stage = "none"
    BY DEF StartCascade
<1> HIDE DEF found
<1>4. /\ work'.pending = <<>> /\ work'.asked = <<>> /\ work'.found = found /\ work'.snapshot = <<>>
      /\ work'.followed = FALSE
    BY <1>3 DEF Resting
<1>5. WorkTyped'
  <2>1. work' = [stage |-> "planning", doi |-> candidate.doi, consulted |-> {}, silent |-> FALSE,
                 found |-> found, snapshot |-> <<>>, pending |-> <<>>, followed |-> FALSE,
                 asked |-> <<>>, failure |-> "NO_LOCATIONS", shaken |-> FALSE]
      BY <1>3 DEF Resting
  <2> QED
      BY <1>2, <2>1 DEF WorkTyped
<1>6. Route' = <<>>
    BY <1>4 DEF Route
<1>7. Landings(Route)' = {}
    BY <1>6 DEF Landings
<1>8. Cardinality(Landings(Route)') <= MaxFollowed
    BY <1>7, FS_EmptySet, AddressAssumption
<1>9. CascadeType'
    BY <1>3 DEF CascadeInv, CascadeType
<1> QED
    BY <1>4, <1>5, <1>7, <1>8, <1>9 DEF CascadeInv, FewLandings

LEMMA Consults ==
    ASSUME CascadeInv, Consult
    PROVE  CascadeInv'
<1>1. PICK n \in ToConsult, outage \in BOOLEAN :
        \E answer \in IF outage THEN {<<>>} ELSE Answers[Services[n]] :
          work' = [work EXCEPT
                !.consulted = @ \union {Services[n]},
                !.silent    = @ \/ outage,
                !.doi       = @ \/ (Services[n] = "title" /\ answer # <<>>),
                !.snapshot  = IF Services[n] = "wayback"
                              THEN [i \in 1..Len(answer) |-> Location(answer[i].url, Services[n], answer[i].rank)]
                              ELSE @,
                !.found     = IF Services[n] \in {"title", "wayback"} THEN @
                              ELSE @ \o [i \in 1..Len(answer) |-> Location(answer[i].url, Services[n], answer[i].rank)]]
    BY DEF Consult
<1>0. PICK answer \in IF outage THEN {<<>>} ELSE Answers[Services[n]] :
          work' = [work EXCEPT
                !.consulted = @ \union {Services[n]},
                !.silent    = @ \/ outage,
                !.doi       = @ \/ (Services[n] = "title" /\ answer # <<>>),
                !.snapshot  = IF Services[n] = "wayback"
                              THEN [i \in 1..Len(answer) |-> Location(answer[i].url, Services[n], answer[i].rank)]
                              ELSE @,
                !.found     = IF Services[n] \in {"title", "wayback"} THEN @
                              ELSE @ \o [i \in 1..Len(answer) |-> Location(answer[i].url, Services[n], answer[i].rank)]]
    BY <1>1
<1>2. work.stage = "planning" /\ UNCHANGED <<candidate, policy, leads>>
    BY DEF Consult
<1>3. PICK s \in DOMAIN Answers : s = Services[n]
    BY AddressAssumption DEF ToConsult, Services
<1>4. answer \in Seq([url: Urls, rank: Nat])
  <2>1. Answers[s] \subseteq Seq([url: Urls, rank: Nat])
      BY AddressAssumption
  <2>2. answer = <<>> \/ answer \in Answers[s]
      BY <1>0, <1>3
  <2>3. <<>> \in Seq([url: Urls, rank: Nat])
      OBVIOUS
  <2> QED
      BY <2>1, <2>2, <2>3, Zenon
<1>5. PICK more \in Seq(Stops) :
          more = [i \in 1..Len(answer) |-> Location(answer[i].url, s, answer[i].rank)]
  <2>1. ASSUME NEW i \in 1..Len(answer)
        PROVE  Location(answer[i].url, s, answer[i].rank) \in Stops
    <3>1. PICK x \in [url: Urls, rank: Nat] : x = answer[i]
      <4>1. answer[i] \in [url: Urls, rank: Nat]
          BY <1>4, ElementOfSeq, Zenon
      <4> QED
          BY <4>1, Zenon
    <3>2. x.url \in Urls /\ x.rank \in Nat
        OBVIOUS
    <3>3. s \in Origins
        BY AddressAssumption DEF Origins
    <3> QED
        BY <3>1, <3>2, <3>3 DEF Location, Stops
  <2>2. [i \in 1..Len(answer) |-> Location(answer[i].url, s, answer[i].rank)] \in Seq(Stops)
      BY <1>4, <2>1
  <2> QED
      BY <2>2
<1>6. PICK found, snapshot, consulted, silent, doi :
          /\ found \in Seq(Stops) /\ snapshot \in Seq(Stops)
          /\ work' = [work EXCEPT !.consulted = consulted, !.silent = silent, !.doi = doi,
                                  !.snapshot = snapshot, !.found = found]
  <2>1. work.found \in Seq(Stops) /\ work.snapshot \in Seq(Stops)
      BY DEF CascadeInv, WorkTyped
  <2>2. work.found \o more \in Seq(Stops)
      BY <2>1
  <2>3. work' = [work EXCEPT !.consulted = work.consulted \union {s},
                             !.silent = work.silent \/ outage,
                             !.doi = work.doi \/ (s = "title" /\ answer # <<>>),
                             !.snapshot = IF s = "wayback" THEN more ELSE work.snapshot,
                             !.found = IF s \in {"title", "wayback"} THEN work.found
                                       ELSE work.found \o more]
      BY <1>0, <1>3, <1>5
  <2>4. PICK snapshot \in Seq(Stops) : snapshot = IF s = "wayback" THEN more ELSE work.snapshot
      BY <2>1
  <2>5. PICK found \in Seq(Stops) :
            found = IF s \in {"title", "wayback"} THEN work.found ELSE work.found \o more
      BY <2>1, <2>2
  <2> QED
      BY <2>3, <2>4, <2>5
<1>7. work' = [stage |-> work.stage, doi |-> doi, consulted |-> consulted,
               silent |-> silent, found |-> found, snapshot |-> snapshot,
               pending |-> work.pending, followed |-> work.followed, asked |-> work.asked,
               failure |-> work.failure, shaken |-> work.shaken]
    BY <1>6 DEF CascadeInv, WorkTyped
<1>8. WorkTyped'
  <2>1. work'.found = found /\ work'.snapshot = snapshot /\ work'.pending = work.pending
        /\ work'.asked = work.asked /\ work'.followed = work.followed
      BY <1>7
  <2> QED
      BY <1>6, <1>7, <2>1 DEF CascadeInv, WorkTyped
<1>9. work.pending = <<>> /\ work.asked = <<>> /\ ~work.followed
    BY <1>2 DEF CascadeInv, FewLandings
<1> QED
    BY <1>2, <1>7, <1>8, <1>9, Plans

LEMMA Arranges ==
    ASSUME CascadeInv, Arrange
    PROVE  CascadeInv'
<1>1. PICK arranged \in Seq(Stops) :
          work' = [work EXCEPT !.stage = "asking", !.found = <<>>, !.snapshot = <<>>, !.pending = arranged]
  <2>1. PICK x \in Seq(Stops) : x = Planned
      BY PlanHasStops
  <2>2. PICK y \in Seq(Stops) :
            y = [i \in 1..Len(Offered) |-> Location(Offered[i].url, "web_locator", Offered[i].rank)]
      BY PlanHasStops
  <2>3. x \o y \in Seq(Stops)
      OBVIOUS
  <2> QED
      BY <2>1, <2>2, <2>3 DEF Arrange
<1>2. work.stage = "planning" /\ UNCHANGED <<candidate, policy, leads>>
    BY DEF Arrange
<1>3. work' = [stage |-> "asking", doi |-> work.doi, consulted |-> work.consulted,
               silent |-> work.silent, found |-> <<>>, snapshot |-> <<>>,
               pending |-> arranged, followed |-> work.followed, asked |-> work.asked,
               failure |-> work.failure, shaken |-> work.shaken]
    BY <1>1 DEF CascadeInv, WorkTyped
<1>4. arranged \in Seq(Stops \union Links)
    OBVIOUS
<1>5. WorkTyped'
    BY <1>3, <1>4 DEF CascadeInv, WorkTyped
<1>6. work.asked = <<>> /\ ~work.followed
    BY <1>2 DEF CascadeInv, FewLandings
<1> QED
    BY <1>2, <1>3, <1>5, <1>6, Plans

\* The address at the head was asked, and files may have been put next.
LEMMA Asks ==
    ASSUME CascadeInv, Asking, UNCHANGED <<candidate, policy, leads>>,
           NEW files \in Seq(Links), NEW failure, NEW shaken, NEW followed \in BOOLEAN,
           work' = [work EXCEPT !.pending = files \o Tail(work.pending), !.asked = Append(work.asked, Here),
                                !.failure = failure, !.shaken = shaken, !.followed = followed],
           files = <<>> => followed = work.followed,
           files # <<>> => followed /\ ~work.followed /\ Len(files) <= MaxFollowed
    PROVE  CascadeInv'
<1>1. PICK a \in Seq(Stops \union Links), p \in Seq(Stops \union Links) :
          a = work.asked /\ p = work.pending /\ p # <<>>
    BY DEF CascadeInv, WorkTyped, Asking
<1>2. work' = [stage |-> work.stage, doi |-> work.doi, consulted |-> work.consulted,
               silent |-> work.silent, found |-> work.found, snapshot |-> work.snapshot,
               pending |-> files \o Tail(p), followed |-> followed, asked |-> Append(a, Head(p)),
               failure |-> failure, shaken |-> shaken]
    BY <1>1 DEF CascadeInv, WorkTyped, Here
<1>3. files \in Seq(Stops \union Links) /\ Tail(p) \in Seq(Stops \union Links)
      /\ files \o Tail(p) \in Seq(Stops \union Links) /\ Append(a, Head(p)) \in Seq(Stops \union Links)
  <2>1. files \in Seq(Stops \union Links)
      OBVIOUS
  <2>2. Tail(p) \in Seq(Stops \union Links) /\ Head(p) \in Stops \union Links
      BY <1>1
  <2> QED
      BY <2>1, <2>2
<1>0. /\ work'.found = work.found /\ work'.snapshot = work.snapshot /\ work'.followed = followed
      /\ work'.pending = files \o Tail(p) /\ work'.asked = Append(a, Head(p))
    BY ONLY <1>2
<1>4. WorkTyped'
  <2>1. work' = [stage |-> work'.stage, doi |-> work'.doi, consulted |-> work'.consulted,
                 silent |-> work'.silent, found |-> work'.found, snapshot |-> work'.snapshot,
                 pending |-> work'.pending, followed |-> work'.followed, asked |-> work'.asked,
                 failure |-> work'.failure, shaken |-> work'.shaken]
      BY <1>2
  <2> QED
      BY <1>0, <1>3, <2>1 DEF CascadeInv, WorkTyped
<1>5. CascadeType' /\ work'.stage = "asking"
    BY <1>2 DEF CascadeInv, CascadeType, Asking
<1>6. Route' = Append(a, Head(p)) \o (files \o Tail(p)) /\ Route = a \o p
    BY <1>0, <1>1 DEF Route
<1>7. CASE files = <<>>
  <2>1. files \o Tail(p) = Tail(p)
      BY <1>3, <1>7
  <2>2. Route' = Route
      BY <1>1, <1>6, <2>1, RouteGoesOn
  <2>3. Landings(Route)' = Landings(Route)
      BY <2>2 DEF Landings
  <2> QED
      BY <1>2, <1>4, <1>5, <1>7, <2>3 DEF CascadeInv, FewLandings
<1>8. CASE files # <<>>
  <2>1. Landings(a \o p) = {}
      BY <1>6, <1>8 DEF CascadeInv, FewLandings
  <2>2. Cardinality(Landings(Append(a, Head(p)) \o (files \o Tail(p)))) <= Len(files)
      BY <1>1, <1>3, <2>1, FilesGoNext
  <2>3. PICK n \in Nat : n = Len(files) /\ n <= MaxFollowed
      BY <1>8
  <2>4. Cardinality(Landings(Route)') <= MaxFollowed
    <3>1. Landings(Route)' = Landings(Append(a, Head(p)) \o (files \o Tail(p)))
        BY <1>6 DEF Landings
    <3>2. IsFiniteSet(Landings(Route)')
      <4>1. PICK r \in Seq(Stops \union Links) : r = Route'
        <5>1. \A x \in Seq(Stops \union Links), y \in Seq(Stops \union Links) :
                  x \o y \in Seq(Stops \union Links)
            OBVIOUS
        <5> QED
            BY <1>3, <1>6, <5>1
      <4>2. Landings(r) \in SUBSET (1..Len(r)) /\ Len(r) \in Int /\ 1 \in Int
          BY DEF Landings
      <4>3. IsFiniteSet(Landings(r))
          BY <4>2, FS_Interval, FS_Subset
      <4> QED
          BY <4>1, <4>3 DEF Landings
    <3>3. PICK c \in Nat : c = Cardinality(Landings(Route)')
        BY <3>2, FS_CardinalityType
    <3>4. c <= n
        BY <2>2, <2>3, <3>1, <3>3
    <3> QED
        BY <2>3, <3>3, <3>4, AddressAssumption
  <2> QED
      BY <1>2, <1>4, <1>5, <1>8, <2>4 DEF CascadeInv, FewLandings
<1> QED
    BY <1>7, <1>8

LEMMA Fails ==
    ASSUME CascadeInv, GetFails
    PROVE  CascadeInv'
<1>1. PICK failure \in Failures :
          work' = [work EXCEPT !.pending = Tail(@), !.asked = Append(@, Here), !.failure = failure,
                               !.shaken = @ \/ failure \in Transient]
    BY DEF GetFails
<1>2. Asking /\ UNCHANGED <<candidate, policy, leads>>
    BY DEF GetFails
<1>3. PICK p \in Seq(Stops \union Links) : p = work.pending /\ p # <<>>
    BY <1>2 DEF CascadeInv, WorkTyped, Asking
<1>4. <<>> \o Tail(p) = Tail(p) /\ <<>> \in Seq(Links)
    BY <1>3
<1>5. work' = [work EXCEPT !.pending = <<>> \o Tail(work.pending), !.asked = Append(work.asked, Here),
                           !.failure = failure, !.shaken = work.shaken \/ failure \in Transient,
                           !.followed = work.followed]
  <2>1. work' = [work EXCEPT !.pending = Tail(p), !.asked = Append(work.asked, Here), !.failure = failure,
                             !.shaken = work.shaken \/ failure \in Transient, !.followed = work.followed]
      BY <1>1, <1>3 DEF CascadeInv, WorkTyped
  <2> QED
      BY <1>3, <1>4, <2>1
<1>6. work.followed \in BOOLEAN
    BY DEF CascadeInv, WorkTyped
<1> QED
    BY <1>2, <1>4, <1>5, <1>6, Asks

LEMMA Refuses ==
    ASSUME CascadeInv, RefuseBody
    PROVE  CascadeInv'
<1>7. PICK b \in Bodies[Here.url] :
        work' = [work EXCEPT
            !.pending = (IF Follows(b, KindOf(b, Here.url)) THEN DepositedFiles(Here.url) ELSE <<>>) \o Tail(@),
            !.asked = Append(@, Here), !.failure = KindOf(b, Here.url),
            !.followed = @ \/ (IF Follows(b, KindOf(b, Here.url)) THEN DepositedFiles(Here.url) ELSE <<>>) # <<>>]
    BY DEF RefuseBody
<1>8. PICK kind : kind = KindOf(b, Here.url)
    OBVIOUS
<1>9. PICK files : files = IF Follows(b, KindOf(b, Here.url)) THEN DepositedFiles(Here.url) ELSE <<>>
    OBVIOUS
<1>1. /\ files = IF Follows(b, kind) THEN DepositedFiles(Here.url) ELSE <<>>
      /\ work' = [work EXCEPT !.pending = files \o Tail(@), !.asked = Append(@, Here),
                              !.failure = kind, !.followed = @ \/ files # <<>>]
  <2>1. files = IF Follows(b, kind) THEN DepositedFiles(Here.url) ELSE <<>>
      BY <1>8, <1>9, Zenon
  <2>2. work' = [work EXCEPT !.pending = files \o Tail(@), !.asked = Append(@, Here),
                             !.failure = kind, !.followed = @ \/ files # <<>>]
      BY <1>7, <1>8, <1>9, Zenon
  <2> QED
      BY <2>1, <2>2, Zenon
<1>2. Asking /\ UNCHANGED <<candidate, policy, leads>>
    BY DEF RefuseBody
<1>3. Here.url \in Urls
  <2>1. PICK p \in Seq(Stops \union Links) : p = work.pending /\ p # <<>>
      BY <1>2 DEF CascadeInv, WorkTyped, Asking
  <2>2. Head(p) \in Stops \union Links
      BY <2>1
  <2> QED
      BY <2>1, <2>2 DEF Here, Stops, Links
<1>4. files \in Seq(Links) /\ (files # <<>> => ~work.followed /\ Len(files) <= MaxFollowed)
    BY <1>1, <1>3, FewFiles DEF Follows
<1>5. PICK followed \in BOOLEAN : followed = (work.followed \/ files # <<>>)
    OBVIOUS
<1>11. PICK shaken : shaken = work.shaken
    OBVIOUS
<1>6. work' = [work EXCEPT !.pending = files \o Tail(work.pending), !.asked = Append(work.asked, Here),
                           !.failure = kind, !.shaken = shaken, !.followed = followed]
    BY <1>1, <1>5, <1>11 DEF CascadeInv, WorkTyped
<1>10. /\ files = <<>> => followed = work.followed
       /\ files # <<>> => followed /\ ~work.followed /\ Len(files) <= MaxFollowed
  <2>1. work.followed \in BOOLEAN
      BY DEF CascadeInv, WorkTyped
  <2> QED
      BY <1>4, <1>5, <2>1
<1>12. files \in Seq(Links)
    BY <1>4
<1> QED
    BY ONLY CascadeInv, <1>2, <1>6, <1>10, <1>12, followed \in BOOLEAN, Asks, Zenon

LEMMA WorkRests ==
    ASSUME CascadeInv, work' = work, candidate' = candidate,
           policy' \in [LeadUrls -> Decisions], leads' \in Seq([url: Urls, decision: Decisions])
    PROVE  CascadeInv'
<1>1. Route' = Route
    BY DEF Route
<1>2. Landings(Route)' = Landings(Route)
    BY <1>1 DEF Landings
<1> QED
    BY <1>2 DEF CascadeInv, CascadeType, WorkTyped, FewLandings

LEMMA Locates ==
    ASSUME CascadeInv, Locate
    PROVE  CascadeInv'
<1>1. PICK urls \in SUBSET LeadUrls :
          \E order \in SetToSeqs(urls) :
            leads' = [i \in 1..Len(order) |-> [url |-> order[i], decision |-> policy[order[i]]]]
    BY DEF Locate
<1>0. PICK order \in SetToSeqs(urls) :
          leads' = [i \in 1..Len(order) |-> [url |-> order[i], decision |-> policy[order[i]]]]
    BY <1>1
<1>2. IsFiniteSet(urls)
    BY AddressAssumption, FS_Subset
<1>3. order \in Seq(urls)
  <2>1. order \in [1..Cardinality(urls) -> urls] /\ Cardinality(urls) \in Nat
      BY <1>0, <1>2, FS_CardinalityType DEF SetToSeqs
  <2> QED
      BY <2>1
<1>4. policy \in [LeadUrls -> Decisions]
    BY DEF CascadeInv, CascadeType
<1>5. \A i \in 1..Len(order) : [url |-> order[i], decision |-> policy[order[i]]] \in [url: Urls, decision: Decisions]
  <2>1. ASSUME NEW i \in 1..Len(order)
        PROVE  order[i] \in LeadUrls /\ order[i] \in Urls
    <3>1. order[i] \in urls
        BY <1>3
    <3> QED
        BY <3>1, AddressAssumption
  <2> QED
      BY <1>4, <2>1
<1>6. leads' \in Seq([url: Urls, decision: Decisions])
    BY <1>0, <1>3, <1>5
<1>7. work' = work /\ candidate' = candidate /\ policy' = policy
    BY DEF Locate
<1> QED
    BY <1>4, <1>6, <1>7, WorkRests

LEMMA EditsPolicy ==
    ASSUME CascadeInv, EditPolicy
    PROVE  CascadeInv'
<1>1. work' = work /\ candidate' = candidate /\ leads' = leads
    BY DEF EditPolicy
<1>2. policy' \in [LeadUrls -> Decisions]
    BY DEF EditPolicy, CascadeInv, CascadeType
<1> QED
    BY <1>1, <1>2, WorkRests DEF CascadeInv, CascadeType

LEMMA CascadeStarts ==
    ASSUME NEW c \in Candidates, CascadeInit(c)
    PROVE  CascadeInv
<1>1. CascadeType
    BY DEF CascadeInit, CascadeType, Decisions
<1>2. /\ work = Resting /\ work.pending = <<>> /\ work.asked = <<>>
    BY DEF CascadeInit, Resting
<1>3. WorkTyped
    BY <1>2 DEF WorkTyped, Resting
<1>4. Landings(Route) = {}
    BY <1>2 DEF Landings, Route
<1> QED
    BY <1>1, <1>2, <1>3, <1>4, NoLandingsCount DEF CascadeInv, FewLandings, Resting

LEMMA CascadeSteps == CascadeInv /\ [CascadeNext]_cascade => CascadeInv'
<1> SUFFICES ASSUME CascadeInv, [CascadeNext]_cascade
             PROVE  CascadeInv'
    OBVIOUS
<1>1. CASE UNCHANGED cascade
  <2>1. work' = work /\ candidate' = candidate /\ policy' = policy /\ leads' = leads
      BY <1>1 DEF cascade
  <2> QED
      BY <2>1, WorkRests DEF CascadeInv, CascadeType
<1>2. ASSUME NEW again, StartCascade(again)
      PROVE  CascadeInv'
    BY <1>2, StartsCascade
<1>3. CASE Obtain \/ GiveUp
  <2>1. work' = Resting /\ UNCHANGED <<candidate, policy, leads>>
      BY <1>3 DEF Obtain, GiveUp
  <2> QED
      BY <2>1, RestingRoute DEF CascadeInv, CascadeType
<1>4. CASE Age
  <2>1. work' = work /\ candidate' = candidate /\ policy' = policy /\ leads' = leads
      BY <1>4 DEF Age
  <2> QED
      BY <2>1, WorkRests DEF CascadeInv, CascadeType
<1> QED
    BY <1>1, <1>2, <1>3, <1>4, Consults, Arranges, Fails, Refuses, Locates, EditsPolicy DEF CascadeNext

\* NotACrawl for every value of the constants: one acquisition asks at most MAX_FOLLOWED
\* addresses that no plan held (acquire.py, the worklist of acquire_one).
THEOREM NoCrawl == CascadeSpec => []NotACrawl
<1>1. CascadeInv => NotACrawl
    BY DEF CascadeInv, FewLandings, NotACrawl, Landings
<1>2. (\E c \in Candidates : CascadeInit(c)) => CascadeInv
    BY CascadeStarts
<1>3. CascadeSpec => []CascadeInv
    BY <1>2, CascadeSteps, PTL DEF CascadeSpec
<1> QED
    BY <1>1, <1>3, PTL

-----------------------------------------------------------------------------
(***************************************************************************)
(* The rule of copies.                                                     *)
(***************************************************************************)
Copies == [acquired: BOOLEAN, regated: BOOLEAN, supplied: BOOLEAN, dated: BOOLEAN,
           unclassed: BOOLEAN]

\* What the rule says of the first n rows.
RuleOf(rows, places, n) == Rule(rows, places \intersect (1..n))

\* One more row: as `collapse` takes it.
LEMMA RuleGoesOn ==
    ASSUME NEW rows \in Seq(Copies), NEW places, places \subseteq DOMAIN rows,
           NEW n \in Nat, n + 1 <= Len(rows)
    PROVE  RuleOf(rows, places, n + 1) =
               IF n + 1 \in places THEN Collapsed(RuleOf(rows, places, n), rows[n + 1])
               ELSE RuleOf(rows, places, n)
<1> DEFINE P == places \intersect (1..n)
           Q == places \intersect (1..(n + 1))
           D == Deciding(rows, P)
           E == Deciding(rows, Q)
<1>1. CASE n + 1 \notin places
  <2>1. Q = P
      BY <1>1
  <2> QED
      BY <1>1, <2>1 DEF RuleOf
<1>2. CASE n + 1 \in places
  <2>1. /\ Q = P \union {n + 1} /\ n + 1 \notin P /\ P \subseteq 0..n /\ Q \subseteq 0..(n + 1)
      BY <1>2
  <2>2. /\ D \subseteq P /\ (\A k \in P : k \in D <=> rows[k].regated \/ rows[k].acquired)
        /\ E \subseteq Q /\ (\A k \in Q : k \in E <=> rows[k].regated \/ rows[k].acquired)
      BY DEF Deciding
  <2>3. n + 1 \in Nat /\ Q # {}
    <3>1. n + 1 \in Q
        BY <2>1
    <3> QED
        BY <3>1
  <2> HIDE DEF P, Q, D, E
  <2>4. Max(Q) = n + 1
    <3>1. Max(Q) \in Q /\ n + 1 <= Max(Q)
        BY <2>1, <2>3, Greatest
    <3>2. PICK w \in 0..(n + 1) : w = Max(Q) /\ n + 1 <= w
        BY <2>1, <3>1
    <3>3. w = n + 1
        BY ONLY <3>2, n \in Nat
    <3> QED
        BY <3>2, <3>3
  <2>5. P # {} => Max(P) \in P
      BY <2>1, Greatest
  <2>6. D # {} => Max(D) \in D
      BY <2>1, <2>2, Greatest
  <2>7. CASE rows[n + 1].regated \/ rows[n + 1].acquired
    <3>1. n + 1 \in E /\ E \subseteq 0..(n + 1)
        BY <2>1, <2>2, <2>7
    <3>2. Max(E) = n + 1
      <4>1. Max(E) \in E /\ n + 1 <= Max(E)
          BY <2>3, <3>1, Greatest
      <4>2. PICK w \in 0..(n + 1) : w = Max(E) /\ n + 1 <= w
          BY <3>1, <4>1
      <4>3. w = n + 1
          BY ONLY <4>2, n \in Nat
      <4> QED
          BY <4>2, <4>3
    <3>3. Rule(rows, Q) = rows[n + 1]
        BY <2>3, <2>4, <3>1, <3>2 DEF Rule, E
    <3> QED
        BY <1>2, <2>7, <3>3 DEF RuleOf, Collapsed, Q
  <2>8. CASE ~(rows[n + 1].regated \/ rows[n + 1].acquired)
    <3>1. E = D
        BY <2>1, <2>2, <2>8
    <3>2. Rule(rows, Q) = IF D = {} \/ ~rows[Max(D)].acquired THEN rows[n + 1] ELSE rows[Max(D)]
        BY <2>3, <2>4, <3>1 DEF Rule, E
    <3>3. CASE D = {} \/ ~rows[Max(D)].acquired
      <4>1. ~Rule(rows, P).acquired
        <5>1. CASE P = {}
            BY <5>1 DEF Rule, NoCopy
        <5>2. CASE P # {}
          <6>1. Rule(rows, P) = rows[Max(P)]
              BY <3>3, <5>2 DEF Rule, D
          <6>2. CASE Max(P) \notin D
              BY <2>2, <2>5, <5>2, <6>1, <6>2
          <6>3. CASE Max(P) \in D
            <7>1. Max(D) = Max(P)
              <8>1. Max(D) \in P /\ Max(P) <= Max(D)
                  BY <2>1, <2>2, <6>3, Greatest
              <8>2. Max(P) \in 0..n /\ Max(D) \in 0..n /\ Max(D) <= Max(P)
                  BY <2>1, <8>1, <2>5, Greatest
              <8> QED
                  BY <8>1, <8>2
            <7> QED
                BY <3>3, <6>1, <6>3, <7>1
          <6> QED
              BY <6>2, <6>3
        <5> QED
            BY <5>1, <5>2
      <4> QED
          BY <1>2, <2>8, <3>2, <3>3, <4>1 DEF RuleOf, Collapsed, P, Q
    <3>4. CASE ~(D = {} \/ ~rows[Max(D)].acquired)
      <4>1. P # {} /\ Rule(rows, P) = rows[Max(D)]
          BY <2>2, <3>4 DEF Rule, D
      <4> QED
          BY <1>2, <2>8, <3>2, <3>4, <4>1 DEF RuleOf, Collapsed, P, Q
    <3> QED
        BY <3>3, <3>4
  <2> QED
      BY <2>7, <2>8
<1> QED
    BY <1>1, <1>2

\* Row after row, `collapse` comes to what the rule says.
LEMMA CollapseIsRule ==
    ASSUME NEW rows \in Seq(Copies), NEW places, places \subseteq DOMAIN rows
    PROVE  CollapseAt(rows, places) = Rule(rows, places)
<1>1. PICK m \in Nat : m = Len(rows) /\ DOMAIN rows = 1..m
    OBVIOUS
<1> DEFINE Step(f) == [n \in 0..m |-> IF n = 0 THEN NoCopy
                                      ELSE IF n \in places THEN Collapsed(f[n - 1], rows[n])
                                      ELSE f[n - 1]]
           g == [n \in 0..m |-> RuleOf(rows, places, n)]
           held == CHOOSE f : f = Step(f)
<1>2. g = Step(g)
  <2>1. RuleOf(rows, places, 0) = NoCopy
    <3>1. places \intersect (1..0) = {}
        OBVIOUS
    <3> QED
        BY <3>1 DEF RuleOf, Rule
  <2>2. ASSUME NEW n \in 0..m, n # 0
        PROVE  RuleOf(rows, places, n) = IF n \in places THEN Collapsed(RuleOf(rows, places, n - 1), rows[n])
                                         ELSE RuleOf(rows, places, n - 1)
    <3> HIDE DEF Step, g, held
    <3>1. PICK k \in Nat : k = n - 1 /\ n = k + 1 /\ k + 1 <= m
        BY <2>2
    <3>2. RuleOf(rows, places, k + 1) =
              IF k + 1 \in places THEN Collapsed(RuleOf(rows, places, k), rows[k + 1])
              ELSE RuleOf(rows, places, k)
      <4>1. k + 1 <= Len(rows)
          BY <1>1, <3>1
      <4> QED
          BY ONLY <4>1, rows \in Seq(Copies), places \subseteq DOMAIN rows, k \in Nat, RuleGoesOn, Zenon
    <3> QED
        BY <3>1, <3>2
  <2>3. \A n \in 0..m : n # 0 => n - 1 \in 0..m
      OBVIOUS
  <2> QED
      BY <2>1, <2>2, <2>3
<1>3. held = Step(held)
    BY <1>2
<1> HIDE DEF held
<1>4. \A n \in 0..m : held[n] = g[n]
  <2> DEFINE Apart == {n \in 0..m : held[n] # g[n]}
  <2>1. SUFFICES ASSUME Apart # {}
                 PROVE  FALSE
      OBVIOUS
  <2>2. Apart \subseteq 0..m
      OBVIOUS
  <2>3. PICK n \in Apart : \A k \in Apart : n <= k
      BY <2>1, <2>2, Least
  <2>4. n \in 0..m /\ held[n] # g[n]
      OBVIOUS
  <2>5. n # 0
      BY <1>2, <1>3, <2>4
  <2>6. n - 1 \in 0..m /\ ~(n <= n - 1)
      BY <2>4, <2>5
  <2>7. held[n - 1] = g[n - 1]
      BY <2>3, <2>6
  <2>8. held[n] = Step(held)[n] /\ g[n] = Step(g)[n]
      BY <1>2, <1>3
  <2> HIDE DEF g
  <2>9. Step(held)[n] = Step(g)[n]
      BY <2>4, <2>7
  <2> QED
      BY <2>4, <2>8, <2>9
<1>5. CollapseAt(rows, places) = held[m]
    BY <1>1 DEF CollapseAt, held
<1>6. places \intersect (1..m) = places
    BY <1>1
<1> QED
    BY <1>4, <1>5, <1>6 DEF RuleOf

-----------------------------------------------------------------------------
(***************************************************************************)
(* Screening: what is written goes on from what is there.                  *)
(***************************************************************************)
Numbered(rows) == DOMAIN rows \subseteq Nat

\* The rows at these places are new, differ, and follow on the ledger and one another.
Pending(rows, proposed, places) ==
    /\ places \subseteq DOMAIN proposed
    /\ \A n \in places : \A j \in DOMAIN rows : rows[j] # proposed[n]
    /\ \A n \in places, m \in places : m < n => proposed[m] # proposed[n]
    /\ Follow(rows, proposed, places)

LedgersReplay ==
    /\ screened \in Seq(Range(screened)) /\ related \in Seq(Range(related))
    /\ Replayed(screened) /\ Replayed(related)

\* Whoever holds the lock is alone, and has a plan.
OneWriter ==
    /\ plan = [i \in Importers |-> plan[i]] /\ queue = [i \in Importers |-> queue[i]]
    /\ \A i \in Importers : queue[i] # Nil =>
           /\ i \in checked
           /\ \A j \in Importers \ {i} : queue[j] = Nil

PlansNumbered ==
    /\ \A i \in checked : plan[i] # Nil
    /\ \A i \in Importers : plan[i] # Nil => Numbered(plan[i].screening) /\ Numbered(plan[i].identity)

QueuesFollow ==
    \A i \in Importers : queue[i] # Nil =>
        /\ queue[i] = [screening |-> queue[i].screening, identity |-> queue[i].identity]
        /\ Pending(screened, plan[i].screening, queue[i].screening)
        /\ Pending(related, plan[i].identity, queue[i].identity)

ScreeningInv == LedgersReplay /\ OneWriter /\ PlansNumbered /\ QueuesFollow

\* The latest row of a key, one row more.
LEMMA OneMoreRow ==
    ASSUME NEW S, NEW rows \in Seq(S), NEW r, NEW k
    PROVE  /\ \A m \in 0..Len(rows) : LatestIn(Append(rows, r), m, k) = LatestIn(rows, m, k)
           /\ LatestOf(Append(rows, r), k) = IF r.key = k THEN r ELSE LatestOf(rows, k)
<1> DEFINE more == Append(rows, r)
<1>1. PICK len \in Nat : len = Len(rows) /\ DOMAIN rows = 1..len
    OBVIOUS
<1>2. /\ Len(more) = len + 1 /\ more[len + 1] = r
      /\ \A j \in 1..len : more[j] = rows[j]
    BY <1>1
<1> HIDE DEF more
<1>3. ASSUME NEW m \in 0..len
      PROVE  LatestIn(more, m, k) = LatestIn(rows, m, k)
  <2> DEFINE mine == {j \in 1..m : rows[j].key = k}
  <2>1. mine = {j \in 1..m : more[j].key = k}
      BY <1>2
  <2>2. mine \subseteq 0..m /\ m \in Nat
      OBVIOUS
  <2> HIDE DEF mine
  <2>3. CASE mine = {}
      BY <2>1, <2>3 DEF LatestIn, mine
  <2>4. CASE mine # {}
    <3>1. Max(mine) \in 0..m /\ Max(mine) \in mine
        BY <2>2, <2>4, Greatest
    <3>2. Max(mine) \in 1..len
        BY <3>1 DEF mine
    <3>3. more[Max(mine)] = rows[Max(mine)]
        BY <1>2, <3>2
    <3> QED
        BY <2>1, <2>4, <3>3 DEF LatestIn, mine
  <2> QED
      BY <2>3, <2>4
<1>4. CASE r.key # k
  <2>1. {j \in 1..(len + 1) : more[j].key = k} = {j \in 1..len : more[j].key = k}
      BY <1>2, <1>4
  <2>2. LatestIn(more, len + 1, k) = LatestIn(more, len, k)
      BY <2>1 DEF LatestIn
  <2>3. LatestIn(more, len, k) = LatestIn(rows, len, k)
      BY <1>3
  <2> QED
      BY <1>1, <1>2, <1>3, <1>4, <2>2, <2>3 DEF LatestOf, more
<1>5. CASE r.key = k
  <2> DEFINE mine == {j \in 1..(len + 1) : more[j].key = k}
  <2>1. len + 1 \in mine /\ mine \subseteq 0..(len + 1) /\ len + 1 \in Nat
      BY <1>2, <1>5
  <2> HIDE DEF mine
  <2>2. Max(mine) \in mine /\ len + 1 <= Max(mine)
      BY <2>1, Greatest
  <2>3. PICK w \in 0..(len + 1) : w = Max(mine) /\ len + 1 <= w
      BY <2>1, <2>2
  <2>4. w = len + 1
      BY ONLY <2>3, len \in Nat
  <2>5. LatestIn(more, len + 1, k) = r
      BY <1>2, <2>1, <2>3, <2>4 DEF LatestIn, mine
  <2> QED
      BY <1>1, <1>2, <1>3, <1>5, <2>5 DEF LatestOf, more
<1> QED
    BY <1>4, <1>5

\* A row that continues the ledger keeps it one that can be replayed.
LEMMA ReplayedOn ==
    ASSUME NEW rows, rows \in Seq(Range(rows)), Replayed(rows), NEW r,
           Continues(LatestOf(rows, r.key), r), \A j \in DOMAIN rows : rows[j] # r
    PROVE  /\ Replayed(Append(rows, r))
           /\ Append(rows, r) \in Seq(Range(Append(rows, r)))
<1> DEFINE more == Append(rows, r)
<1>1. PICK len \in Nat : len = Len(rows) /\ DOMAIN rows = 1..len
    OBVIOUS
<1>2. /\ DOMAIN more = 1..(len + 1) /\ more[len + 1] = r /\ Len(more) = len + 1
      /\ \A j \in 1..len : more[j] = rows[j]
    BY <1>1
<1>3. more \in Seq(Range(more))
  <2>1. more = [n \in 1..(len + 1) |-> more[n]]
    <3>1. rows \in Seq(Range(rows) \union {r})
      <4>1. \A n \in 1..len : rows[n] \in Range(rows) \union {r}
          BY <1>1 DEF Range
      <4>2. rows = [n \in 1..len |-> rows[n]]
          BY <1>1
      <4> QED
          BY <4>1, <4>2
    <3>2. more \in Seq(Range(rows) \union {r})
        BY <3>1
    <3> HIDE DEF more
    <3>3. more \in [1..Len(more) -> Range(rows) \union {r}]
        BY <3>2
    <3> QED
        BY <1>2, <3>3
  <2>2. \A n \in 1..(len + 1) : more[n] \in Range(more)
      BY <1>2 DEF Range
  <2> HIDE DEF more
  <2> QED
      BY <2>1, <2>2
<1>4. ASSUME NEW n \in 1..(len + 1)
      PROVE  /\ Continues(LatestIn(more, n - 1, more[n].key), more[n])
             /\ \A m \in 1..n - 1 : more[m] # more[n]
  <2>1. \A m \in 0..len : \A k : LatestIn(more, m, k) = LatestIn(rows, m, k)
      BY <1>1, OneMoreRow
  <2> HIDE DEF more
  <2>2. CASE n \in 1..len
    <3>1. n - 1 \in 0..len /\ more[n] = rows[n] /\ \A m \in 1..n - 1 : more[m] = rows[m]
        BY <1>2, <2>2
    <3> QED
        BY <1>1, <2>1, <2>2, <3>1 DEF Replayed
  <2>3. CASE n = len + 1
    <3>1. n - 1 = len /\ more[n] = r
        BY <1>2, <2>3
    <3>2. LatestIn(more, n - 1, r.key) = LatestOf(rows, r.key)
        BY <1>1, <2>1, <3>1 DEF LatestOf
    <3>3. \A m \in 1..n - 1 : more[m] = rows[m] /\ rows[m] # r
        BY <1>1, <1>2, <3>1
    <3> QED
        BY <3>1, <3>2, <3>3
  <2> QED
      BY <2>2, <2>3
<1> QED
    BY <1>2, <1>3, <1>4 DEF Replayed

\* The first pending row goes out: the others follow on as before.
LEMMA WritesFirst ==
    ASSUME NEW rows, rows \in Seq(Range(rows)), Replayed(rows),
           NEW proposed, Numbered(proposed), NEW places, Pending(rows, proposed, places),
           NEW n \in places, \A m \in places : n <= m
    PROVE  /\ Replayed(Append(rows, proposed[n]))
           /\ Append(rows, proposed[n]) \in Seq(Range(Append(rows, proposed[n])))
           /\ Pending(Append(rows, proposed[n]), proposed, places \ {n})
<1> DEFINE r == proposed[n]
           more == Append(rows, r)
           rest == places \ {n}
<1>1. places \subseteq Nat /\ \A m \in rest : n < m
  <2>1. places \subseteq Nat
      BY DEF Pending, Numbered
  <2>2. ASSUME NEW m \in rest
        PROVE  n < m
    <3>1. n <= m /\ n # m /\ n \in Nat /\ m \in Nat
        BY <2>1
    <3> QED
        BY ONLY <3>1
  <2> QED
      BY <2>1, <2>2
<1>2. {m \in places : m < n /\ proposed[m].key = r.key} = {}
  <2>1. ASSUME NEW m \in places, m < n
        PROVE  FALSE
    <3>1. n <= m /\ m < n /\ n \in Nat /\ m \in Nat
        BY <1>1, <2>1
    <3> QED
        BY ONLY <3>1
  <2> QED
      BY <2>1
<1>3. Continues(LatestOf(rows, r.key), r)
    BY <1>2 DEF Pending, Follow, Before
<1>4. Replayed(more) /\ more \in Seq(Range(more))
    BY <1>3, ReplayedOn DEF Pending
<1>5. \A k : LatestOf(more, k) = IF r.key = k THEN r ELSE LatestOf(rows, k)
    BY OneMoreRow
<1>6. ASSUME NEW m \in rest
      PROVE  Before(more, proposed, rest, m) = Before(rows, proposed, places, m)
  <2> DEFINE k == proposed[m].key
             mine == {j \in places : j < m /\ proposed[j].key = k}
             left == {j \in rest : j < m /\ proposed[j].key = k}
  <2>1. PICK top \in Nat : top = m
      BY <1>1
  <2>2. mine \subseteq 0..top /\ left \subseteq 0..top
    <3>1. \A j \in Nat : j < m => j \in 0..top
        BY <2>1
    <3> QED
        BY <1>1, <3>1
  <2>3. CASE r.key # k
    <3>1. mine = left
        BY <2>3
    <3> QED
        BY <1>5, <2>3, <3>1 DEF Before
  <2>4. CASE r.key = k
    <3>1. n \in mine /\ left = mine \ {n}
        BY <1>1, <2>4
    <3>2. CASE left = {}
      <4>1. mine = {n}
          BY <3>1, <3>2
      <4>2. Max(mine) = n
          BY <2>2, <4>1, Greatest
      <4>3. Before(rows, proposed, places, m) = r
          BY <4>1, <4>2 DEF Before
      <4>4. Before(more, proposed, rest, m) = r
          BY <1>5, <2>4, <3>2 DEF Before
      <4> QED
          BY <4>3, <4>4
    <3>3. CASE left # {}
      <4> HIDE DEF mine, left
      <4>1. /\ Max(left) \in left /\ Max(mine) \in mine
            /\ \A j \in left : j <= Max(left)
            /\ \A j \in mine : j <= Max(mine)
          BY <2>2, <3>1, <3>3, Greatest
      <4>2. PICK a \in 0..top, b \in 0..top : a = Max(left) /\ b = Max(mine)
          BY <2>2, <4>1
      <4>3. a <= b
          BY <3>1, <4>1, <4>2
      <4>4. b # n
        <5>1. a \in rest /\ n < a
            BY <1>1, <4>1, <4>2 DEF left
        <5>2. n \in Nat
            BY <1>1
        <5> QED
            BY ONLY <4>3, <5>1, <5>2, a \in 0..top, b \in 0..top, top \in Nat
      <4>5. b <= a
          BY <3>1, <4>1, <4>2, <4>4
      <4>6. a = b
          BY ONLY <4>3, <4>5, a \in 0..top, b \in 0..top, top \in Nat
      <4>7. mine # {}
          BY <3>1
      <4> QED
          BY <3>3, <4>2, <4>6, <4>7 DEF Before, mine, left
    <3> QED
        BY <3>2, <3>3
  <2> QED
      BY <2>3, <2>4
<1>7. Follow(more, proposed, rest)
    BY <1>6 DEF Pending, Follow
<1>8. ASSUME NEW m \in rest, NEW j \in DOMAIN more
      PROVE  more[j] # proposed[m]
  <2>1. CASE j \in DOMAIN rows
      BY <2>1 DEF Pending
  <2>2. CASE j \notin DOMAIN rows
    <3>1. more[j] = r
        BY <2>2
    <3>2. proposed[n] # proposed[m]
        BY <1>1 DEF Pending
    <3> QED
        BY <3>1, <3>2
  <2> QED
      BY <2>1, <2>2
<1> QED
    BY <1>4, <1>7, <1>8 DEF Pending

\* What one importer does while the ledgers stay as they are.
LEMMA OneImporter ==
    ASSUME ScreeningInv, NEW i \in Importers, NEW p, NEW q,
           screened' = screened, related' = related,
           plan' = [plan EXCEPT ![i] = p], queue' = [queue EXCEPT ![i] = q],
           checked' \ {i} = checked \ {i},
           i \in checked' => p # Nil,
           p # Nil => Numbered(p.screening) /\ Numbered(p.identity),
           q # Nil => /\ i \in checked' /\ \A j \in Importers \ {i} : queue[j] = Nil
                      /\ q = [screening |-> q.screening, identity |-> q.identity]
                      /\ Pending(screened, p.screening, q.screening)
                      /\ Pending(related, p.identity, q.identity)
    PROVE  ScreeningInv'
<1>1. /\ plan'[i] = p /\ queue'[i] = q
      /\ \A j \in Importers \ {i} : plan'[j] = plan[j] /\ queue'[j] = queue[j]
      /\ plan' = [j \in Importers |-> plan'[j]] /\ queue' = [j \in Importers |-> queue'[j]]
    BY DEF ScreeningInv, OneWriter
<1>2. LedgersReplay'
    BY DEF ScreeningInv, LedgersReplay
<1>3. OneWriter'
    BY <1>1 DEF ScreeningInv, OneWriter
<1>4. PlansNumbered'
  <2>1. ASSUME NEW j \in checked'
        PROVE  plan'[j] # Nil
    <3>1. CASE j = i
        BY <1>1, <2>1, <3>1
    <3>2. CASE j # i
      <4>1. j \in checked /\ plan[j] # Nil
          BY <2>1, <3>2 DEF ScreeningInv, PlansNumbered
      <4>2. plan'[j] = plan[j]
          BY <3>2 DEF ScreeningInv, OneWriter
      <4> QED
          BY <4>1, <4>2
    <3> QED
        BY <3>1, <3>2
  <2>2. ASSUME NEW j \in Importers, plan'[j] # Nil
        PROVE  Numbered(plan'[j].screening) /\ Numbered(plan'[j].identity)
      BY <1>1, <2>2 DEF ScreeningInv, PlansNumbered
  <2> QED
      BY <2>1, <2>2 DEF PlansNumbered, Numbered
<1>5. ASSUME NEW j \in Importers, queue'[j] # Nil
      PROVE  /\ queue'[j] = [screening |-> queue'[j].screening, identity |-> queue'[j].identity]
             /\ Pending(screened', plan'[j].screening, queue'[j].screening)
             /\ Pending(related', plan'[j].identity, queue'[j].identity)
  <2>1. CASE j = i
      BY <1>1, <1>5, <2>1
  <2>2. CASE j # i
    <3>1. plan'[j] = plan[j] /\ queue'[j] = queue[j]
        BY <1>1, <2>2
    <3> QED
        BY <1>5, <3>1 DEF ScreeningInv, QueuesFollow
  <2> QED
      BY <2>1, <2>2
<1>6. QueuesFollow'
    BY <1>5 DEF QueuesFollow, Pending, Follow, Before, LatestOf, LatestIn
<1> QED
    BY <1>2, <1>3, <1>4, <1>6 DEF ScreeningInv

\* A plan's rows have numbers for places.
LEMMA PlansHavePlaces ==
    ASSUME NEW by, NEW new \in {FirstPlan(by), ReplacementPlan(by)} \union
                                   {ReadingPlan(by, k) : k \in Range(Batch)}
    PROVE  Numbered(new.screening) /\ Numbered(new.identity)
<1>1. DOMAIN Batch = 1..Len(Batch) /\ Len(Batch) \in Nat
    BY BatchAssumption
<1>2. CASE new = FirstPlan(by)
  <2> DEFINE abstracts == Abstracts(by)
             full == Observation(Refined, "FULLTEXT", by, LatestOf(Abstracts(by), Refined))
             rows == {abstracts[n] : n \in DOMAIN Batch} \union {full}
  <2>1. abstracts \in Seq(rows) /\ <<full>> \in Seq(rows)
    <3>1. abstracts = [n \in 1..Len(Batch) |-> abstracts[n]] /\ \A n \in 1..Len(Batch) : abstracts[n] \in rows
        BY <1>1 DEF Abstracts
    <3> HIDE DEF abstracts, rows
    <3>2. abstracts \in Seq(rows)
        BY <1>1, <3>1
    <3> QED
        BY <3>2 DEF rows
  <2>2. new.screening = abstracts \o <<full>>
      BY <1>2 DEF FirstPlan
  <2> HIDE DEF abstracts, full, rows
  <2>3. Numbered(new.screening)
    <3>1. abstracts \o <<full>> \in Seq(rows)
        BY <2>1
    <3> QED
        BY <2>2, <3>1 DEF Numbered
  <2>4. Numbered(new.identity)
      BY <1>2 DEF FirstPlan, Numbered
  <2> QED
      BY <2>3, <2>4
<1>3. CASE new = ReplacementPlan(by)
    BY <1>1, <1>3 DEF ReplacementPlan, Numbered
<1>4. CASE new \in {ReadingPlan(by, k) : k \in Range(Batch)}
    BY <1>4 DEF ReadingPlan, Numbered
<1> QED
    BY <1>2, <1>3, <1>4

LEMMA BringsOrGoes ==
    ASSUME ScreeningInv, NEW i \in Importers,
           Bring(i) \/ Withdraw(i) \/ Check(i) \/ TakeLock(i) \/ Report(i) \/ KillImport(i)
    PROVE  ScreeningInv'
<1>1. /\ plan = [plan EXCEPT ![i] = plan[i]] /\ queue = [queue EXCEPT ![i] = queue[i]]
      /\ plan[i] # Nil => Numbered(plan[i].screening) /\ Numbered(plan[i].identity)
      /\ i \in checked => plan[i] # Nil
    BY DEF ScreeningInv, OneWriter, PlansNumbered
<1>2. queue[i] # Nil =>
          /\ i \in checked /\ \A j \in Importers \ {i} : queue[j] = Nil
          /\ queue[i] = [screening |-> queue[i].screening, identity |-> queue[i].identity]
          /\ Pending(screened, plan[i].screening, queue[i].screening)
          /\ Pending(related, plan[i].identity, queue[i].identity)
    BY DEF ScreeningInv, OneWriter, QueuesFollow
<1>3. CASE Bring(i)
  <2>1. plan[i] = Nil /\ i \notin checked /\ queue[i] = Nil
      BY <1>1, <1>2, <1>3 DEF Bring
  <2>2. PICK new : /\ plan' = [plan EXCEPT ![i] = new]
                   /\ Numbered(new.screening) /\ Numbered(new.identity)
      BY <1>3, PlansHavePlaces DEF Bring
  <2>3. /\ screened' = screened /\ related' = related /\ checked' = checked
        /\ queue' = [queue EXCEPT ![i] = Nil]
      BY <1>1, <1>3, <2>1 DEF Bring
  <2> QED
      BY <2>1, <2>2, <2>3, OneImporter
<1>4. CASE Withdraw(i)
  <2>1. /\ screened' = screened /\ related' = related /\ checked' = checked \ {i}
        /\ plan' = [plan EXCEPT ![i] = Nil] /\ queue' = [queue EXCEPT ![i] = Nil]
      BY <1>1, <1>4 DEF Withdraw
  <2> QED
      BY <2>1, OneImporter
<1>5. CASE Check(i)
  <2>1. /\ screened' = screened /\ related' = related /\ checked' = checked \union {i}
        /\ plan' = [plan EXCEPT ![i] = plan[i]] /\ queue' = [queue EXCEPT ![i] = queue[i]]
        /\ plan[i] # Nil
      BY <1>1, <1>5 DEF Check
  <2>2. i \in checked' /\ checked' \ {i} = checked \ {i}
      BY <2>1
  <2> QED
      BY <1>1, <1>2, <2>1, <2>2, OneImporter
<1>6. CASE TakeLock(i)
  <2> DEFINE q == [screening |-> New(screened, plan[i].screening),
                   identity  |-> New(related, plan[i].identity)]
  <2>1. /\ screened' = screened /\ related' = related /\ checked' = checked /\ i \in checked
        /\ plan' = [plan EXCEPT ![i] = plan[i]] /\ queue' = [queue EXCEPT ![i] = q]
        /\ \A j \in Importers \ {i} : queue[j] = Nil
      BY <1>1, <1>6 DEF TakeLock
  <2>2. Pending(screened, plan[i].screening, q.screening)
      BY <1>6 DEF TakeLock, Acceptable, Fits, Pending, New
  <2>3. Pending(related, plan[i].identity, q.identity)
      BY <1>6 DEF TakeLock, Acceptable, Fits, Pending, New
  <2>4. q = [screening |-> q.screening, identity |-> q.identity]
      OBVIOUS
  <2> HIDE DEF q
  <2> QED
      BY <1>1, <2>1, <2>2, <2>3, <2>4, OneImporter
<1>7. CASE Report(i)
  <2>1. /\ screened' = screened /\ related' = related /\ checked' = checked \ {i}
        /\ plan' = [plan EXCEPT ![i] = Nil] /\ queue' = [queue EXCEPT ![i] = Nil]
      BY <1>7 DEF Report
  <2> QED
      BY <2>1, OneImporter
<1>8. CASE KillImport(i)
  <2>1. /\ screened' = screened /\ related' = related /\ checked' = checked \ {i}
        /\ plan' = [plan EXCEPT ![i] = plan[i]] /\ queue' = [queue EXCEPT ![i] = Nil]
      BY <1>1, <1>8 DEF KillImport
  <2>2. i \notin checked' /\ checked' \ {i} = checked \ {i}
      BY <2>1
  <2> QED
      BY <1>1, <2>1, <2>2, OneImporter
<1> QED
    BY <1>3, <1>4, <1>5, <1>6, <1>7, <1>8

LEMMA WritesRow ==
    ASSUME ScreeningInv, NEW i \in Importers, WriteScreening(i) \/ WriteIdentity(i)
    PROVE  ScreeningInv'
<1>1. /\ queue[i] # Nil /\ i \in checked
      /\ plan' = plan /\ checked' = checked
    BY DEF WriteScreening, WriteIdentity, ScreeningInv, OneWriter
<1>2. /\ \A j \in Importers \ {i} : queue[j] = Nil
      /\ Numbered(plan[i].screening) /\ Numbered(plan[i].identity)
      /\ queue[i] = [screening |-> queue[i].screening, identity |-> queue[i].identity]
      /\ Pending(screened, plan[i].screening, queue[i].screening)
      /\ Pending(related, plan[i].identity, queue[i].identity)
    BY <1>1 DEF ScreeningInv, OneWriter, PlansNumbered, QueuesFollow
<1>3. PICK q : /\ queue' = [queue EXCEPT ![i] = q]
               /\ q = [screening |-> q.screening, identity |-> q.identity]
               /\ Pending(screened', plan[i].screening, q.screening)
               /\ Pending(related', plan[i].identity, q.identity)
               /\ LedgersReplay'
  <2>1. CASE WriteScreening(i)
    <3>1. PICK n \in queue[i].screening :
              /\ \A m \in queue[i].screening : n <= m
              /\ screened' = Append(screened, plan[i].screening[n])
              /\ queue' = [queue EXCEPT ![i].screening = queue[i].screening \ {n}]
              /\ related' = related
        BY <2>1 DEF WriteScreening
    <3> DEFINE q == [screening |-> queue[i].screening \ {n}, identity |-> queue[i].identity]
    <3>2. queue' = [queue EXCEPT ![i] = q]
      <4>1. [queue[i] EXCEPT !.screening = queue[i].screening \ {n}] = q
          BY <1>2
      <4> QED
          BY <3>1, <4>1 DEF ScreeningInv, OneWriter
    <3>3. /\ Replayed(screened') /\ screened' \in Seq(Range(screened'))
          /\ Pending(screened', plan[i].screening, queue[i].screening \ {n})
        BY <1>2, <3>1, WritesFirst DEF ScreeningInv, LedgersReplay
    <3>4. LedgersReplay'
        BY <3>1, <3>3 DEF ScreeningInv, LedgersReplay
    <3> QED
        BY <1>2, <3>1, <3>2, <3>3, <3>4
  <2>2. CASE WriteIdentity(i)
    <3>1. PICK n \in queue[i].identity :
              /\ \A m \in queue[i].identity : n <= m
              /\ related' = Append(related, plan[i].identity[n])
              /\ queue' = [queue EXCEPT ![i].identity = queue[i].identity \ {n}]
              /\ screened' = screened
        BY <2>2 DEF WriteIdentity
    <3> DEFINE q == [screening |-> queue[i].screening, identity |-> queue[i].identity \ {n}]
    <3>2. queue' = [queue EXCEPT ![i] = q]
      <4>1. [queue[i] EXCEPT !.identity = queue[i].identity \ {n}] = q
          BY <1>2
      <4> QED
          BY <3>1, <4>1 DEF ScreeningInv, OneWriter
    <3>3. /\ Replayed(related') /\ related' \in Seq(Range(related'))
          /\ Pending(related', plan[i].identity, queue[i].identity \ {n})
        BY <1>2, <3>1, WritesFirst DEF ScreeningInv, LedgersReplay
    <3>4. LedgersReplay'
        BY <3>1, <3>3 DEF ScreeningInv, LedgersReplay
    <3> QED
        BY <1>2, <3>1, <3>2, <3>3, <3>4
  <2> QED
      BY <2>1, <2>2
<1>4. /\ queue'[i] = q /\ \A j \in Importers \ {i} : queue'[j] = Nil
      /\ queue' = [j \in Importers |-> queue'[j]]
    BY <1>2, <1>3 DEF ScreeningInv, OneWriter
<1>5. OneWriter'
    BY <1>1, <1>4 DEF ScreeningInv, OneWriter
<1>6. PlansNumbered'
    BY <1>1 DEF ScreeningInv, PlansNumbered
<1>7. ASSUME NEW j \in Importers, queue'[j] # Nil
      PROVE  /\ queue'[j] = [screening |-> queue'[j].screening, identity |-> queue'[j].identity]
             /\ Pending(screened', plan'[j].screening, queue'[j].screening)
             /\ Pending(related', plan'[j].identity, queue'[j].identity)
  <2>1. j = i
      BY <1>4, <1>7
  <2> QED
      BY <1>1, <1>3, <1>4, <2>1
<1>8. QueuesFollow'
    BY <1>7 DEF QueuesFollow, Pending, Follow, Before, LatestOf, LatestIn
<1> QED
    BY <1>3, <1>5, <1>6, <1>8 DEF ScreeningInv

LEMMA ScreeningStarts == ScreeningInit => ScreeningInv
<1>1. ASSUME ScreeningInit
      PROVE  ScreeningInv
  <2>1. /\ screened = <<>> /\ related = <<>> /\ checked = {}
        /\ plan = [i \in Importers |-> Nil] /\ queue = [i \in Importers |-> Nil]
      BY <1>1 DEF ScreeningInit
  <2>2. LedgersReplay
      BY <2>1 DEF LedgersReplay, Replayed
  <2>3. OneWriter /\ PlansNumbered /\ QueuesFollow
      BY <2>1 DEF OneWriter, PlansNumbered, QueuesFollow
  <2> QED
      BY <2>2, <2>3 DEF ScreeningInv
<1> QED
    BY <1>1

LEMMA NobodyImports ==
    ASSUME ScreeningInv, UNCHANGED screening
    PROVE  ScreeningInv'
<1>1. /\ screened' = screened /\ related' = related /\ plan' = plan
      /\ queue' = queue /\ checked' = checked
    BY DEF screening
<1>2. LedgersReplay' /\ OneWriter' /\ PlansNumbered'
    BY <1>1 DEF ScreeningInv, LedgersReplay, OneWriter, PlansNumbered
<1>3. ASSUME NEW j \in Importers, queue'[j] # Nil
      PROVE  /\ queue'[j] = [screening |-> queue'[j].screening, identity |-> queue'[j].identity]
             /\ Pending(screened', plan'[j].screening, queue'[j].screening)
             /\ Pending(related', plan'[j].identity, queue'[j].identity)
    BY <1>1, <1>3 DEF ScreeningInv, QueuesFollow
<1>4. QueuesFollow'
    BY <1>3 DEF QueuesFollow, Pending, Follow, Before, LatestOf, LatestIn
<1> QED
    BY <1>2, <1>4 DEF ScreeningInv

LEMMA ScreeningSteps == ScreeningInv /\ [ScreeningNext]_screening => ScreeningInv'
<1>1. ASSUME ScreeningInv, UNCHANGED screening
      PROVE  ScreeningInv'
    BY <1>1, NobodyImports
<1>2. ASSUME ScreeningInv, NEW i \in Importers,
             \/ Bring(i) \/ Withdraw(i) \/ Check(i) \/ TakeLock(i)
             \/ WriteScreening(i) \/ WriteIdentity(i) \/ Report(i) \/ KillImport(i)
      PROVE  ScreeningInv'
    BY <1>2, BringsOrGoes, WritesRow
<1> QED
    BY <1>1, <1>2 DEF ScreeningNext

\* ChainsReplay for every value of the constants: importers that prepare from old looks, are
\* killed in the middle and try again leave one unforked chain per candidate, each row once
\* (source_selection.py, _replay).
THEOREM ObservationsReplay == ScreeningSpec => []ChainsReplay
<1>1. ScreeningInv => ChainsReplay
    BY DEF ScreeningInv, LedgersReplay, ChainsReplay, Replays, Replayed, Continues, Regresses
<1>2. ScreeningSpec => []ScreeningInv
    BY ScreeningStarts, ScreeningSteps, PTL DEF ScreeningSpec
<1> QED
    BY <1>1, <1>2, PTL

-----------------------------------------------------------------------------
(***************************************************************************)
(* The invariant.                                                          *)
(***************************************************************************)
DecisionRows == [rev: Nat, by: Nat]

\* What stands in the two ledgers is what the gate that decided it makes of the record.
Decides(i, accepted, refused) ==
    /\ accepted.rev > 0 => Gate[accepted.by][i[3]] # None
    /\ refused.rev > 0 => Gate[refused.by][i[3]] = None

LedgersTyped ==
    /\ yes \in [Claimed -> DecisionRows] /\ no \in [Claimed -> DecisionRows]
    /\ gate \in Versions
    /\ copies \in [Sources -> Seq(Copies)]
    /\ project \in Protocols

DecidedByGates == \A i \in Claimed : Decides(i, yes[i], no[i])

\* A review is another reader's.
ReviewedByOthers ==
    /\ reviews = [i \in Claimed |-> reviews[i]]
    /\ \A i \in Claimed : reviews[i] # NoReview => reviews[i].by \in Readers \ {ReaderOf(i)}

\* On a partial profile nobody signed that nothing was found.
PartialIsSupported == signed # None /\ signed.profile.partial => signed.verdict = "SUPPORTED"

EvidenceInv == LedgersTyped /\ DecidedByGates /\ ReviewedByOthers /\ PartialIsSupported

-----------------------------------------------------------------------------
(***************************************************************************)
(* Documents, readings and reviews.                                        *)
(***************************************************************************)
LEMMA InitHolds == EmptyRound => EvidenceInv
<1>1. ASSUME EmptyRound
      PROVE  EvidenceInv
  <2>1. yes = [i \in Claimed |-> NoRow] /\ no = [i \in Claimed |-> NoRow] /\ gate = 1
      BY <1>1 DEF EmptyRound, ClaimsInit, JudgementsInit
  <2>2. NoRow \in DecisionRows /\ NoRow.rev = 0
      BY DEF NoRow, DecisionRows
  <2>3. copies = [s \in Sources |-> <<>>] /\ <<>> \in Seq(Copies) /\ project \in Protocols
      BY <1>1 DEF EmptyRound
  <2>4. LedgersTyped
      BY <2>1, <2>2, <2>3, DocumentsAssumption DEF LedgersTyped
  <2>5. DecidedByGates
      BY <2>1, <2>2 DEF DecidedByGates, Decides
  <2>6. ReviewedByOthers
      BY <1>1 DEF EmptyRound, ClaimsInit, JudgementsInit, ReviewedByOthers
  <2>7. PartialIsSupported
      BY <1>1 DEF EmptyRound, RoundInit, PartialIsSupported
  <2> QED
      BY <2>4, <2>5, <2>6, <2>7 DEF EvidenceInv
<1> QED
    BY <1>1

\* The gate decides a record and says which version decided.
LEMMA Harvests ==
    ASSUME EvidenceInv, NEW j \in Claimed, Harvest(j), UNCHANGED round
    PROVE  EvidenceInv'
<1> DEFINE row == [rev |-> Held(j).rev + 1, by |-> gate]
<1>1. /\ reviews' = reviews /\ gate' = gate
      /\ copies' = copies /\ project' = project /\ signed' = signed
    BY DEF Harvest, round
<1>2. gate \in Nat
    BY DocumentsAssumption DEF EvidenceInv, LedgersTyped
<1>3. Held(j) \in DecisionRows
    BY DEF EvidenceInv, LedgersTyped, Held
<1>4. row \in DecisionRows /\ row.by = gate
    BY <1>2, <1>3 DEF DecisionRows
<1>5. \/ Gate[gate][j[3]] # None /\ yes' = [yes EXCEPT ![j] = row] /\ no' = no
      \/ Gate[gate][j[3]] = None /\ no' = [no EXCEPT ![j] = row] /\ yes' = yes
    BY DEF Harvest
<1> HIDE DEF row
<1>6. LedgersTyped'
    BY <1>1, <1>4, <1>5 DEF EvidenceInv, LedgersTyped
<1>7. DecidedByGates'
  <2>1. ASSUME NEW i \in Claimed
        PROVE  Decides(i, yes'[i], no'[i])
    <3>1. CASE i # j
      <4>1. yes'[i] = yes[i] /\ no'[i] = no[i]
          BY <1>5, <3>1 DEF EvidenceInv, LedgersTyped
      <4> QED
          BY <4>1 DEF EvidenceInv, DecidedByGates
    <3>2. CASE i = j
      <4>1. CASE Gate[gate][j[3]] # None /\ yes' = [yes EXCEPT ![j] = row] /\ no' = no
          BY <1>4, <3>2, <4>1 DEF EvidenceInv, LedgersTyped, DecidedByGates, Decides
      <4>2. CASE Gate[gate][j[3]] = None /\ no' = [no EXCEPT ![j] = row] /\ yes' = yes
          BY <1>4, <3>2, <4>2 DEF EvidenceInv, LedgersTyped, DecidedByGates, Decides
      <4> QED
          BY <1>5, <4>1, <4>2
    <3> QED
        BY <3>1, <3>2
  <2> QED
      BY <2>1 DEF DecidedByGates
<1>8. ReviewedByOthers' /\ PartialIsSupported'
    BY <1>1 DEF EvidenceInv, ReviewedByOthers, PartialIsSupported
<1> QED
    BY <1>6, <1>7, <1>8 DEF EvidenceInv

\* A second reader's verdict becomes a row only where that reader did not make the claim.
LEMMA ReviewHarvests ==
    ASSUME EvidenceInv, NEW r \in Readers, ReviewHarvest(r), UNCHANGED round
    PROVE  EvidenceInv'
<1>1. /\ UNCHANGED <<yes, no, gate>>
      /\ copies' = copies /\ project' = project /\ signed' = signed
    BY DEF ReviewHarvest, round
<1>2. PICK target, row : /\ Eligible(target, r) /\ row.by = r
                         /\ reviews' = [reviews EXCEPT ![target[1]] = row]
    BY DEF ReviewHarvest
<1>3. ReviewedByOthers'
  <2>1. reviews' = [i \in Claimed |-> reviews'[i]]
      BY <1>2 DEF EvidenceInv, ReviewedByOthers
  <2>2. ASSUME NEW i \in Claimed, reviews'[i] # NoReview
        PROVE  reviews'[i].by \in Readers \ {ReaderOf(i)}
    <3>1. CASE i = target[1]
      <4>1. reviews'[i] = row
          BY <1>2, <3>1 DEF EvidenceInv, ReviewedByOthers
      <4> QED
          BY <1>2, <3>1, <4>1 DEF Eligible
    <3>2. CASE i # target[1]
      <4>1. reviews'[i] = reviews[i]
          BY <1>2, <3>2 DEF EvidenceInv, ReviewedByOthers
      <4> QED
          BY <2>2, <4>1 DEF EvidenceInv, ReviewedByOthers
    <3> QED
        BY <3>1, <3>2
  <2> QED
      BY <2>1, <2>2 DEF ReviewedByOthers
<1> QED
    BY <1>1, <1>3 DEF EvidenceInv, LedgersTyped, DecidedByGates, PartialIsSupported

LEMMA JudgingKeeps ==
    ASSUME EvidenceInv, Judging(Readers), UNCHANGED round
    PROVE  EvidenceInv'
<1>1. ASSUME UNCHANGED <<yes, no, reviews>>, gate' \in Versions
      PROVE  EvidenceInv'
    BY <1>1 DEF EvidenceInv, LedgersTyped, DecidedByGates, ReviewedByOthers, PartialIsSupported, round
<1>2. ASSUME NEW s \in Acquired, Normalize(s)
      PROVE  EvidenceInv'
    BY <1>1, <1>2 DEF Normalize, EvidenceInv, LedgersTyped
<1>3. CASE Extracting(Readers)
  <2>1. CASE ExtractBuild
      BY <1>1, <2>1 DEF ExtractBuild, EvidenceInv, LedgersTyped
  <2>2. ASSUME NEW t \in Texts, NEW r \in Readers, Drain(t, r) \/ Rejudge(t, r)
        PROVE  EvidenceInv'
      BY <1>1, <2>2 DEF Drain, Rejudge, EvidenceInv, LedgersTyped
  <2>3. ASSUME NEW i \in Claimed, Harvest(i)
        PROVE  EvidenceInv'
      BY <2>3, Harvests
  <2> QED
      BY <1>3, <2>1, <2>2, <2>3 DEF Extracting
<1>4. CASE Reviewing
  <2>1. CASE ReviewBuild
      BY <1>1, <2>1 DEF ReviewBuild, EvidenceInv, LedgersTyped
  <2>2. ASSUME NEW r \in Readers, ReviewDrain(r) \/ ReviewRejudge(r)
        PROVE  EvidenceInv'
      BY <1>1, <2>2 DEF ReviewDrain, ReviewRejudge, EvidenceInv, LedgersTyped
  <2>3. ASSUME NEW r \in Readers, ReviewHarvest(r)
        PROVE  EvidenceInv'
      BY <2>3, ReviewHarvests
  <2> QED
      BY <1>4, <2>1, <2>2, <2>3 DEF Reviewing
<1>5. CASE UpgradeGate
    BY <1>1, <1>5 DEF UpgradeGate
<1> QED
    BY <1>2, <1>3, <1>4, <1>5 DEF Judging

-----------------------------------------------------------------------------
(***************************************************************************)
(* Copies, profiles and signatures.                                        *)
(***************************************************************************)
LEMMA CopyRows == NoCopy \in Copies
    BY DEF NoCopy, Copies

LEMMA LatestIsCopy ==
    ASSUME EvidenceInv, NEW s \in Sources
    PROVE  Latest(s) \in Copies
<1>1. PICK rows \in Seq(Copies) : rows = copies[s]
    BY DEF EvidenceInv, LedgersTyped
<1>2. CASE rows = <<>>
    BY <1>1, <1>2, CopyRows DEF Latest
<1>3. CASE rows # <<>>
  <2>1. Len(rows) \in DOMAIN rows
      BY <1>3
  <2>2. rows[Len(rows)] \in Copies
      BY <2>1
  <2> QED
      BY <1>1, <1>3, <2>2 DEF Latest, Last
<1> QED
    BY <1>2, <1>3

LEMMA AddsCopy ==
    ASSUME EvidenceInv, NEW s \in Sources, NEW row \in Copies, AddCopy(s, row), UNCHANGED claims
    PROVE  EvidenceInv'
<1>1. copies' \in [Sources -> Seq(Copies)]
  <2>1. copies[s] \in Seq(Copies) /\ copies' = [copies EXCEPT ![s] = Append(copies[s], row)]
      BY DEF AddCopy, EvidenceInv, LedgersTyped
  <2>2. Append(copies[s], row) \in Seq(Copies)
      BY <2>1
  <2> QED
      BY <2>1, <2>2 DEF EvidenceInv, LedgersTyped
<1>2. /\ UNCHANGED <<project, signed>> /\ UNCHANGED <<yes, no, reviews, gate>>
    BY DEF AddCopy, claims
<1> QED
    BY <1>1, <1>2 DEF EvidenceInv, LedgersTyped, DecidedByGates, ReviewedByOthers, PartialIsSupported

LEMMA Collects ==
    ASSUME EvidenceInv, NEW s \in Sources, Collect(s), UNCHANGED claims
    PROVE  EvidenceInv'
<1>1. CASE Discover(s) \/ Reclassify(s)
  <2>1. UNCHANGED <<copies, project, signed, yes, no, reviews, gate>>
      BY <1>1 DEF Discover, Reclassify, claims
  <2> QED
      BY <2>1 DEF EvidenceInv, LedgersTyped, DecidedByGates, ReviewedByOthers, PartialIsSupported
<1>2. CASE Attempt(s)
  <2>1. PICK ok \in BOOLEAN :
            AddCopy(s, [NoCopy EXCEPT !.acquired = ok, !.dated = TRUE, !.unclassed = class[s] = None])
      BY <1>2 DEF Attempt
  <2>2. [NoCopy EXCEPT !.acquired = ok, !.dated = TRUE, !.unclassed = class[s] = None] \in Copies
      BY DEF NoCopy, Copies
  <2> QED
      BY <2>1, <2>2, AddsCopy
<1>3. CASE Supply(s)
  <2>1. [NoCopy EXCEPT !.acquired = TRUE, !.supplied = TRUE] \in Copies
      BY DEF NoCopy, Copies
  <2> QED
      BY <1>3, <2>1, AddsCopy DEF Supply
<1>4. CASE Regate(s)
  <2>1. PICK ok \in BOOLEAN :
            AddCopy(s, [NoCopy EXCEPT !.acquired = ok, !.regated = Latest(s).dated,
                                      !.supplied = Latest(s).supplied, !.dated = Latest(s).dated])
      BY <1>4 DEF Regate
  <2>2. Latest(s).dated \in BOOLEAN /\ Latest(s).supplied \in BOOLEAN
      BY LatestIsCopy DEF Copies
  <2>3. [NoCopy EXCEPT !.acquired = ok, !.regated = Latest(s).dated,
                       !.supplied = Latest(s).supplied, !.dated = Latest(s).dated] \in Copies
      BY <2>2 DEF NoCopy, Copies
  <2> QED
      BY <2>1, <2>3, AddsCopy
<1> QED
    BY <1>1, <1>2, <1>3, <1>4 DEF Collect

\* Who signs a partial profile says that something was found.
LEMMA Signs ==
    ASSUME EvidenceInv, NEW p, NEW flow, Sign(p, flow)
    PROVE  PartialIsSupported'
<1>1. PICK verdict \in Opinions :
          IF Declined(p, request.shown, verdict) THEN UNCHANGED signed
          ELSE signed' = [profile |-> stored, verdict |-> verdict, flow |-> flow]
    BY DEF Sign
<1>2. CASE Declined(p, request.shown, verdict)
    BY <1>1, <1>2 DEF EvidenceInv, PartialIsSupported
<1>3. CASE ~Declined(p, request.shown, verdict)
  <2>1. ~(stored.partial /\ verdict = "UNANSWERED_IN_LITERATURE")
      BY <1>3 DEF Declined
  <2>2. signed'.profile = stored /\ signed'.verdict = verdict
      BY <1>1, <1>3
  <2> QED
      BY <2>1, <2>2 DEF PartialIsSupported, Opinions
<1> QED
    BY <1>2, <1>3

LEMMA RoundKeeps ==
    ASSUME EvidenceInv, UNCHANGED claims, (\E s \in Sources : Collect(s)) \/ Search \/ Repair \/ Judge
    PROVE  EvidenceInv'
<1>1. yes' = yes /\ no' = no /\ reviews' = reviews /\ gate' = gate
    BY DEF claims
<1>2. ASSUME copies' = copies, project' \in Protocols, PartialIsSupported'
      PROVE  EvidenceInv'
    BY <1>1, <1>2 DEF EvidenceInv, LedgersTyped, DecidedByGates, ReviewedByOthers
<1>3. ASSUME UNCHANGED <<copies, project, signed>>
      PROVE  EvidenceInv'
    BY <1>1, <1>3 DEF EvidenceInv, LedgersTyped, DecidedByGates, ReviewedByOthers, PartialIsSupported
<1>4. project \in Protocols /\ PartialIsSupported
    BY DEF EvidenceInv, LedgersTyped
<1>5. ASSUME NEW s \in Sources, Collect(s)
      PROVE  EvidenceInv'
    BY <1>5, Collects
<1>6. CASE Search \/ Repair \/ Build \/ OpenStore \/ CreateFlow \/ Show \/ Submit
    BY <1>3, <1>6 DEF Search, Repair, Build, OpenStore, CreateFlow, Show, Submit
<1>7. CASE EditProject
  <2>1. copies' = copies /\ signed' = signed /\ project' \in Protocols
      BY <1>7 DEF EditProject
  <2> QED
      BY <1>2, <1>4, <2>1 DEF PartialIsSupported
<1>8. CASE Adjudicate
  <2>1. copies' = copies /\ project' = project /\ PartialIsSupported'
      BY <1>8, Signs DEF Adjudicate
  <2> QED
      BY <1>2, <1>4, <2>1
<1>9. CASE AdjudicateCommand
  <2>1. copies' = copies /\ project' = project /\ PartialIsSupported'
      BY <1>9, Signs DEF AdjudicateCommand
  <2> QED
      BY <1>2, <1>4, <2>1
<1> QED
    BY <1>5, <1>6, <1>7, <1>8, <1>9 DEF Judge

LEMMA EvidenceSteps == EvidenceInv /\ [RoundNext]_<<claims, round>> => EvidenceInv'
<1>1. ASSUME EvidenceInv, UNCHANGED <<claims, round>>
      PROVE  EvidenceInv'
    BY <1>1 DEF EvidenceInv, LedgersTyped, DecidedByGates, ReviewedByOthers, PartialIsSupported, claims, round
<1> QED
    BY <1>1, JudgingKeeps, RoundKeeps DEF RoundNext

LEMMA EvidenceAlways == RoundSpec => []EvidenceInv
    BY InitHolds, EvidenceSteps, PTL DEF RoundSpec

-----------------------------------------------------------------------------
(***************************************************************************)
(* What the floors and the refusals say.                                   *)
(***************************************************************************)
LEMMA Unblocked ==
    ASSUME NEW acquired
    PROVE  /\ "awaiting_extract" \notin Blocking(acquired) => \A c \in InScope(acquired) : Valid(c) # {}
           /\ "awaiting_harvest" \notin Blocking(acquired) =>
                  \A c \in InScope(acquired) : Valid(c) # {} => \E r \in Valid(c) : Gated(c, r)
           /\ "awaiting_regate" \notin Blocking(acquired) =>
                  \A i \in Decided : i[1] \in InScope(acquired) => Held(i).by = gate
           /\ "awaiting_review" \notin Blocking(acquired) =>
                  \A i \in Accepted : i[1] \in InScope(acquired) => i \in Reviewed
<1>1. ASSUME "awaiting_extract" \notin Blocking(acquired)
      PROVE  \A c \in InScope(acquired) : Valid(c) # {}
    BY <1>1 DEF Blocking
<1>2. ASSUME "awaiting_harvest" \notin Blocking(acquired)
      PROVE  \A c \in InScope(acquired) : Valid(c) # {} => \E r \in Valid(c) : Gated(c, r)
    BY <1>2 DEF Blocking
<1>3. ASSUME "awaiting_regate" \notin Blocking(acquired)
      PROVE  \A i \in Decided : i[1] \in InScope(acquired) => Held(i).by = gate
    BY <1>3 DEF Blocking
<1>4. ASSUME "awaiting_review" \notin Blocking(acquired)
      PROVE  \A i \in Accepted : i[1] \in InScope(acquired) => i \in Reviewed
    BY <1>4 DEF Blocking
<1> QED
    BY <1>1, <1>2, <1>3, <1>4

LEMMA RoundUnblocked ==
    ASSUME NEW p
    PROVE  /\ "awaiting_classification" \notin RoundBlocking(p) => \A s \in Found : class[s] # None
           /\ "normalize_not_started" \notin RoundBlocking(p) => Started
           /\ "awaiting_normalize" \notin RoundBlocking(p) => ~Started \/ Awaiting(p) = {}
<1>1. ASSUME "awaiting_classification" \notin RoundBlocking(p)
      PROVE  \A s \in Found : class[s] # None
    BY <1>1 DEF RoundBlocking
<1>2. ASSUME "normalize_not_started" \notin RoundBlocking(p)
      PROVE  Started
    BY <1>2 DEF RoundBlocking
<1>3. ASSUME "awaiting_normalize" \notin RoundBlocking(p)
      PROVE  ~Started \/ Awaiting(p) = {}
    BY <1>3 DEF RoundBlocking
<1> QED
    BY <1>1, <1>2, <1>3

\* What counts as read is held by the rule, not by the fold.
LEMMA ReadByRule ==
    ASSUME EvidenceInv, NEW p
    PROVE  Read(p) = ReadNow(p)
<1>1. ASSUME NEW s \in Found
      PROVE  CollapseAt(copies[s], Rows(s, p)) = Rule(copies[s], Rows(s, p))
  <2>1. copies[s] \in Seq(Copies)
      BY DEF EvidenceInv, LedgersTyped, Found
  <2>2. Rows(s, p) \subseteq DOMAIN copies[s]
      BY DEF Rows
  <2> QED
      BY <2>1, <2>2, CollapseIsRule
<1> QED
    BY <1>1 DEF Read, Obtained, ReadNow

\* Once documents were looked at, sufficient means that the floors are met by what was read.
LEMMA SufficientMeets ==
    ASSUME EvidenceInv, NEW p, Started, Sufficient(p)
    PROVE  FloorsMet(p)
<1>1. Established(p) = ReadNow(p)
    BY ReadByRule DEF Established
<1>2. \A S, floor : Reaches(S, p, floor) <=> Covers(S, p, floor)
    BY <1>1 DEF Reaches, Covers
<1>3. Covers(Found, p, p.floor)
    BY <1>2 DEF Sufficient
<1>4. ASSUME NEW k \in Classes
      PROVE  Covers({s \in Found : class[s] = k}, p, FloorOf(k, p))
  <2>1. k \notin Below(p)
      BY DEF Sufficient
  <2>2. Reaches({s \in Found : class[s] = k}, p, FloorOf(k, p))
      BY <2>1 DEF Below
  <2> QED
      BY <1>2, <2>2
<1> QED
    BY <1>3, <1>4 DEF FloorsMet

\* A floor is at most the whole.
LEMMA WholeReaches ==
    ASSUME NEW p, NEW S, IsFiniteSet(S), S \subseteq Established(p), NEW floor \in 0..100
    PROVE  Reaches(S, p, floor)
<1>1. PICK n \in Nat : n = Cardinality(S)
    BY FS_CardinalityType
<1>2. 100 * n >= floor * n
  <2>1. PICK rest \in Nat : rest = 100 - floor /\ 100 = floor + rest
      OBVIOUS
  <2>2. 100 * n = floor * n + rest * n
      BY <2>1
  <2>3. rest * n \in Nat /\ floor * n \in Nat
      BY <2>1
  <2> QED
      BY <2>2, <2>3
<1>3. S \intersect Established(p) = S
    OBVIOUS
<1> QED
    BY <1>1, <1>2, <1>3 DEF Reaches

\* With everything found read, no floor is missed.
LEMMA AllReadSuffices ==
    ASSUME EvidenceInv, Found # {}, Found \subseteq Read(project)
    PROVE  Started /\ Sufficient(project)
<1>1. Started
    BY DocumentsAssumption DEF Read, Started, Found
<1>2. Found \subseteq Established(project)
    BY <1>1 DEF Established
<1>3. IsFiniteSet(Found)
    BY DocumentsAssumption, FS_Subset DEF Found
<1>4. project.floor \in 0..100 /\ \A k : FloorOf(k, project) \in 0..100
    BY ProtocolAssumption DEF EvidenceInv, LedgersTyped, FloorOf
<1>5. Reaches(Found, project, project.floor)
    BY <1>2, <1>3, <1>4, WholeReaches
<1>6. ASSUME NEW k
      PROVE  Reaches({s \in Found : class[s] = k}, project, FloorOf(k, project))
  <2> DEFINE S == {s \in Found : class[s] = k}
  <2>1. S \subseteq Found
      OBVIOUS
  <2>2. IsFiniteSet(S) /\ S \subseteq Established(project)
      BY <1>2, <1>3, <2>1, FS_Subset
  <2> HIDE DEF S
  <2>3. Reaches(S, project, FloorOf(k, project))
      BY <1>4, <2>2, WholeReaches
  <2> QED
      BY <2>3 DEF S
<1> QED
    BY <1>1, <1>5, <1>6 DEF Sufficient, Below

-----------------------------------------------------------------------------
(***************************************************************************)
(* What is final has been read.                                            *)
(***************************************************************************)

\* A decision of today's gate is what today's gate makes of the record.
LEMMA AsTheGate ==
    ASSUME EvidenceInv, NEW i \in Decided, Held(i).by = gate
    PROVE  /\ i \in Accepted <=> Gate[gate][i[3]] # None
           /\ i \in Accepted => yes[i].by = gate
<1>1. /\ i \in Claimed /\ Held(i).rev > 0
      /\ i \in Accepted <=> ~Rejected(i)
    BY DEF Decided, Accepted
<1>2. Decides(i, yes[i], no[i])
    BY <1>1 DEF EvidenceInv, DecidedByGates
<1>3. CASE Rejected(i)
    BY <1>1, <1>2, <1>3 DEF Held, Decides
<1>4. CASE ~Rejected(i)
    BY <1>1, <1>2, <1>4 DEF Held, Decides
<1> QED
    BY <1>3, <1>4

LEMMA EvidenceStands ==
    ASSUME EvidenceInv, Blocking(Acquired) = {}
    PROVE  EvidenceHolds(Evidence(Acquired))
<1> DEFINE chunks == InScope(Acquired)
           live == Evidence(Acquired)
<1>1. live.chunks = chunks /\ live.claims = {<<i, Annotation(i)>> : i \in {j \in Accepted : j[1] \in chunks}}
    BY DEF Evidence
<1>2. /\ \A c \in chunks : \E r \in Valid(c) : Gated(c, r)
      /\ \A i \in Decided : i[1] \in chunks => Held(i).by = gate
      /\ \A i \in Accepted : i[1] \in chunks => i \in Reviewed
    BY Unblocked
<1>3. ASSUME NEW c \in chunks
      PROVE  c \in Active /\ ChunkRead(c)
  <2>1. PICK r \in Valid(c) : Gated(c, r)
      BY <1>2
  <2>2. ASSUME NEW x \in answers[TextOf[c]][r].said
        PROVE  /\ <<c, r, x>> \in Decided
               /\ <<c, r, x>> \in Accepted <=> Gate[gate][x] # None
    <3>1. PICK i \in Decided : i = <<c, r, x>>
        BY <2>1 DEF Gated
    <3>2. i[1] = c /\ i[3] = x
        BY <3>1
    <3>3. Held(i).by = gate
        BY <1>2, <3>2
    <3>4. i \in Accepted <=> Gate[gate][i[3]] # None
        BY <3>3, AsTheGate
    <3> QED
        BY <3>1, <3>2, <3>4
  <2>3. c \in Active
      BY DEF InScope
  <2> QED
      BY <2>2, <2>3 DEF ChunkRead
<1>4. ASSUME NEW i \in Accepted, i[1] \in chunks
      PROVE  ClaimHolds(i, Annotation(i))
  <2>1. i \in Decided /\ i \in Reviewed /\ i \in Claimed /\ Held(i).by = gate
      BY <1>2, <1>4 DEF Accepted, Decided
  <2>2. yes[i].by = gate /\ Gate[gate][i[3]] # None
      BY <2>1, AsTheGate
  <2>3. reviews[i] # NoReview /\ reviews[i].note = Annotation(i)
      BY <2>1 DEF Reviewed, Stands
  <2>4. reviews[i].by # ReaderOf(i)
      BY <2>1, <2>3 DEF EvidenceInv, ReviewedByOthers
  <2> QED
      BY <2>2, <2>3, <2>4 DEF ClaimHolds, Annotation
<1>5. ASSUME NEW claim \in live.claims
      PROVE  ClaimHolds(claim[1], claim[2])
  <2>1. PICK i \in Accepted : i[1] \in chunks /\ claim = <<i, Annotation(i)>>
      BY <1>1
  <2> QED
      BY <1>4, <2>1
<1> QED
    BY <1>1, <1>3, <1>5 DEF EvidenceHolds

LEMMA FinalPreview ==
    ASSUME NEW p, ~Provisional(Preview(p))
    PROVE  /\ RoundBlocking(p) = {}
           /\ Heard(p) => Blocking(Acquired) = {} /\ Preview(p).evidence = Evidence(Acquired)
           /\ ~Heard(p) => Preview(p).evidence.chunks = {} /\ Preview(p).evidence.claims = {}
           /\ Preview(p).partial = ~Sufficient(p)
    BY DEF Provisional, Preview

LEMMA FinalHolds ==
    ASSUME EvidenceInv, NEW p, ~Provisional(Preview(p))
    PROVE  EvidenceHolds(Preview(p).evidence)
<1>1. CASE Heard(p)
    BY <1>1, FinalPreview, EvidenceStands
<1>2. CASE ~Heard(p)
    BY <1>2, FinalPreview DEF EvidenceHolds
<1> QED
    BY <1>1, <1>2

\* FinalMeansRead, whatever the sources, texts, readers, gates, protocols and copies: a profile
\* that is not provisional describes documents read to the end (synthesize.preview).
THEOREM FinalIsRead == RoundSpec => []FinalMeansRead
<1>1. EvidenceInv => FinalMeansRead
    BY FinalHolds DEF FinalMeansRead
<1> QED
    BY <1>1, EvidenceAlways, PTL

\* StandingVerdictHolds for every value of the constants: a verdict shown as standing is about
\* the evidence there is (synthesize.verdicts, control.py's signing route).
THEOREM StandingHolds == RoundSpec => []StandingVerdictHolds
<1>1. ASSUME EvidenceInv, Standing(project)
      PROVE  /\ FloorsMet(project) \/ (signed.profile.partial /\ signed.verdict = "SUPPORTED")
             /\ EvidenceHolds(signed.profile.evidence)
  <2>1. /\ signed # None /\ signed.profile = Preview(project)
        /\ ~Provisional(Preview(project))
      BY <1>1 DEF Standing
  <2>2. EvidenceHolds(signed.profile.evidence)
      BY <1>1, <2>1, FinalHolds
  <2>3. RoundBlocking(project) = {} /\ signed.profile.partial = ~Sufficient(project)
      BY <2>1, FinalPreview
  <2>4. CASE Sufficient(project)
    <3>1. Started
        BY <2>3, RoundUnblocked
    <3> QED
        BY <1>1, <2>2, <2>4, <3>1, SufficientMeets
  <2>5. CASE ~Sufficient(project)
      BY <1>1, <2>1, <2>2, <2>3, <2>5 DEF EvidenceInv, PartialIsSupported
  <2> QED
      BY <2>4, <2>5
<1>2. EvidenceInv => StandingVerdictHolds
    BY <1>1 DEF StandingVerdictHolds
<1> QED
    BY <1>2, EvidenceAlways, PTL

-----------------------------------------------------------------------------
(***************************************************************************)
(* What a person is shown.                                                 *)
(***************************************************************************)
LEMMA StepsAreDone == EvidenceInv => DoneIsDone
<1> SUFFICES ASSUME EvidenceInv
             PROVE  DoneIsDone
    OBVIOUS
<1>1. ASSUME CopiesStep = "done"
      PROVE  FloorsMet(project) /\ Awaiting(project) = {}
  <2>1. RoundBlocking(project) = {} /\ Sufficient(project)
      BY <1>1 DEF CopiesStep, Final
  <2>2. Started /\ Awaiting(project) = {}
      BY <2>1, RoundUnblocked
  <2> QED
      BY <2>1, <2>2, SufficientMeets
<1>2. ASSUME DocumentsStep = "done", NEW s \in Found, docs[s] = None
      PROVE  s \notin Obtained(project)
  <2>1. PICK t \in Found : docs[t] \in Chunks
      BY <1>2 DEF DocumentsStep
  <2>2. "awaiting_normalize" \notin RoundBlocking(project)
      BY <1>2 DEF DocumentsStep
  <2>3. Started
      BY <2>1, DocumentsAssumption DEF Started, Found
  <2>4. Awaiting(project) = {}
      BY <2>2, <2>3, RoundUnblocked
  <2> QED
      BY <1>2, <2>4 DEF Awaiting
<1>3. ASSUME AnnotateStep(Shown) = "done", ~Refused(project)
      PROVE  \A c \in InScope(Acquired) : Valid(c) # {}
  <2>1. Shown = Preview(project)
      BY <1>3 DEF Shown
  <2>2. /\ Preview(project).evidence.chunks # {}
        /\ "awaiting_extract" \notin Preview(project).blocking
      BY <1>3, <2>1 DEF AnnotateStep
  <2>3. CASE Heard(project)
    <3>1. "awaiting_extract" \notin Blocking(Acquired)
        BY <2>2, <2>3 DEF Preview
    <3> QED
        BY <3>1, Unblocked
  <2>4. CASE ~Heard(project)
    <3>1. InScope(Acquired) # {}
        BY <2>2, <2>4 DEF Preview
    <3>2. "awaiting_extract" \in Preview(project).blocking
        BY <2>4, <3>1 DEF Preview
    <3> QED
        BY <2>2, <3>2
  <2> QED
      BY <2>3, <2>4
<1>4. ASSUME ReviewStep = "done", NEW i \in Accepted
      PROVE  \E r \in Readers \ {ReaderOf(i)} : reviews[i].by = r /\ reviews[i].note = Annotation(i)
                                                /\ second[Call(i, Annotation(i))][r].ok
  <2>1. Reviewed = Accepted
      BY <1>4 DEF ReviewStep, ReviewStepOn
  <2>2. Stands(i) /\ i \in Claimed
      BY <2>1 DEF Reviewed, Accepted, Decided
  <2>3. /\ reviews[i] # NoReview /\ reviews[i].note = Annotation(i)
        /\ second[Call(i, Annotation(i))][reviews[i].by] = [verdict |-> reviews[i].verdict, ok |-> TRUE]
      BY <2>2 DEF Stands
  <2>4. reviews[i].by \in Readers \ {ReaderOf(i)}
      BY <2>2, <2>3 DEF EvidenceInv, ReviewedByOthers
  <2> QED
      BY <2>3, <2>4
<1>5. ASSUME ProfilesStep(Shown) = "done"
      PROVE  /\ HasRow /\ ~Refused(project) /\ ~Provisional(Shown)
             /\ EvidenceHolds(Shown.evidence)
  <2>1. HasRow /\ ~Refused(project) /\ ~Provisional(Shown)
      BY <1>5 DEF ProfilesStep, HasRow
  <2>2. Shown = Preview(project)
      BY <2>1 DEF Shown
  <2> QED
      BY <2>1, <2>2, FinalHolds
<1>6. ASSUME Pipeline(Shown) = "done"
      PROVE  FloorsMet(project) /\ (Signed \/ SignCard(Shown) # None)
  <2>1. CopiesStep = "done" /\ ProfilesStep(Shown) = "done"
    <3> DEFINE seen == {SearchStep, CopiesStep, DocumentsStep,
                        AnnotateStep(Shown), ReviewStep, ProfilesStep(Shown)}
    <3>1. seen = {"done"}
        BY <1>6 DEF Pipeline
    <3>2. CopiesStep \in seen /\ ProfilesStep(Shown) \in seen
        OBVIOUS
    <3> QED
        BY <3>1, <3>2
  <2>2. FloorsMet(project)
      BY <1>1, <2>1
  <2>3. HasRow /\ ~Refused(project) /\ ~Provisional(Shown)
      BY <1>5, <2>1
  <2>4. Signed \/ SignCard(Shown) # None
      BY <2>3, CardsAssumption DEF SignCard
  <2> QED
      BY <2>2, <2>4
<1> QED
    BY <1>1, <1>2, <1>3, <1>4, <1>5, <1>6 DEF DoneIsDone

\* DoneIsDone for every value of the constants: a step that says "done" is (journey.build).
THEOREM DoneIsAlwaysDone == RoundSpec => []DoneIsDone
    BY StepsAreDone, EvidenceAlways, PTL

\* An empty inbox: everything found is held, counted and read.
LEMMA NothingLeft ==
    ASSUME EvidenceInv, WorkCards = {}, Overlooked = {}
    PROVE  Found \subseteq Read(project) /\ \A s \in Found : class[s] # None
<1>1. ASSUME NEW s \in Found
      PROVE  class[s] # None /\ s \in Read(project)
  <2>1. class[s] # None
    <3>1. class[s] = None => <<"CLASSIFICATION", s>> \in WorkCards
        BY DEF WorkCards
    <3> QED
        BY <3>1
  <2>2. ~Collapse(s).unclassed
      BY <2>1 DEF Overlooked
  <2>3. Holds(s)
    <3>1. ~Holds(s) => <<"ACQUISITION", s>> \in WorkCards
        BY <2>2 DEF WorkCards
    <3> QED
        BY <3>1
  <2>4. s \in Obtained(project)
      BY <2>3 DEF Overlooked
  <2>5. s \in Read(project)
    <3>1. s \notin Read(project) => <<"NORMALIZE", s>> \in WorkCards
        BY <2>4 DEF WorkCards
    <3> QED
        BY <3>1
  <2> QED
      BY <2>1, <2>5
<1> QED
    BY <1>1

LEMMA InboxHolds == EvidenceInv => InboxComplete
<1> SUFFICES ASSUME EvidenceInv
             PROVE  InboxComplete
    OBVIOUS
<1>1. SignCard(Shown) = "adjudicate" <=> HasRow /\ ~Signed /\ ~Declined(project, stored, "SUPPORTED")
  <2>1. CASE HasRow /\ ~Refused(project)
    <3>1. Shown = Preview(project)
        BY <2>1 DEF Shown
    <3>2. SignCard(Shown) = IF Provisional(Preview(project)) \/ Signed THEN None
                            ELSE IF stored # Preview(project) THEN "synthesize" ELSE "adjudicate"
        BY <2>1, <3>1 DEF SignCard
    <3>3. Declined(project, stored, "SUPPORTED") <=> Provisional(stored) \/ stored # Preview(project)
        BY <2>1 DEF Declined, HasRow
    <3> QED
        BY <2>1, <3>2, <3>3, CardsAssumption
  <2>2. CASE ~(HasRow /\ ~Refused(project))
    <3>1. SignCard(Shown) = None
        BY <2>2 DEF SignCard
    <3>2. Refused(project) => Declined(project, stored, "SUPPORTED")
        BY DEF Declined
    <3> QED
        BY <2>2, <3>1, <3>2, CardsAssumption
  <2> QED
      BY <2>1, <2>2
<1>2. ASSUME DisplayState(Shown) = "awaiting_a_person"
      PROVE  SignCard(Shown) # None
  <2>1. HasRow /\ ~Signed /\ ~Refused(project) /\ ~Provisional(Shown)
      BY <1>2 DEF DisplayState
  <2> QED
      BY <2>1, CardsAssumption DEF SignCard
<1>3. ASSUME NEW s \in Found \ Overlooked, TrackerState(s) # "confirmed"
      PROVE  \E card \in WorkCards : card[2] = s
  <2>1. \A kind : <<kind, s>> \in WorkCards => \E card \in WorkCards : card[2] = s
      OBVIOUS
  <2>2. CASE Holds(s)
    <3>1. s \in Obtained(project)
        BY <2>2 DEF Overlooked
    <3>2. docs[s] \notin Chunks
        BY <1>3, <2>2, DocumentsAssumption DEF TrackerState, Holds
    <3>3. <<"NORMALIZE", s>> \in WorkCards
        BY <3>1, <3>2 DEF WorkCards, Read
    <3> QED
        BY <2>1, <3>3
  <2>3. CASE ~Holds(s) /\ Collapse(s).unclassed
    <3>1. <<"CLASSIFICATION", s>> \in WorkCards
        BY <2>3 DEF Overlooked, WorkCards
    <3> QED
        BY <2>1, <3>1
  <2>4. CASE ~Holds(s) /\ ~Collapse(s).unclassed
    <3>1. <<"ACQUISITION", s>> \in WorkCards
        BY <2>4 DEF WorkCards
    <3> QED
        BY <2>1, <3>1
  <2> QED
      BY <2>2, <2>3, <2>4
<1>4. ASSUME HasRow, WorkCards \union OtherCards(Shown, SignCard(Shown)) = {}, SearchStep = "done",
             Overlooked = {}
      PROVE  Signed
  <2>1. /\ WorkCards = {} /\ OtherCards(Shown, SignCard(Shown)) = {}
        /\ Found # {} /\ "awaiting_discovery" \notin RoundBlocking(project)
      BY <1>4 DEF SearchStep
  <2>2. Found \subseteq Read(project) /\ \A s \in Found : class[s] # None
      BY <1>4, <2>1, NothingLeft
  <2>3. Started /\ Sufficient(project)
      BY <2>1, <2>2, AllReadSuffices
  <2>4. ~Refused(project) /\ Shown = Preview(project)
      BY <2>3 DEF Refused, Shown
  <2>5. ~repaired
    <3>1. repaired => <<"INTEGRITY", "repairs">> \in OtherCards(Shown, SignCard(Shown))
        BY DEF OtherCards
    <3> QED
        BY <2>1, <3>1
  <2>6. ASSUME NEW s \in Found
        PROVE  Rows(s, project) # {}
    <3>1. CollapseAt(copies[s], Rows(s, project)).acquired /\ copies[s] \in Seq(Copies)
        BY <2>2 DEF Read, Obtained, Found, EvidenceInv, LedgersTyped
    <3>2. Rows(s, project) \subseteq DOMAIN copies[s]
        BY DEF Rows
    <3>3. CollapseAt(copies[s], Rows(s, project)) = Rule(copies[s], Rows(s, project))
        BY <3>1, <3>2, CollapseIsRule
    <3> QED
        BY <3>1, <3>3 DEF Rule, NoCopy
  <2>7. Awaiting(project) = {}
      BY <2>2, DocumentsAssumption DEF Awaiting, Obtained, Read
  <2>8. RoundBlocking(project) = {}
      BY <2>1, <2>2, <2>3, <2>5, <2>6, <2>7 DEF RoundBlocking
  <2>9. /\ Preview(project).blocking \intersect {"awaiting_extract", "awaiting_harvest", "awaiting_regate"} = {}
        /\ "awaiting_review" \notin Preview(project).blocking
        /\ SignCard(Shown) = None
    <3>1. /\ Shown.blocking \intersect {"awaiting_extract", "awaiting_harvest", "awaiting_regate"} # {}
             => <<"EXTRACT", "question">> \in OtherCards(Shown, SignCard(Shown))
          /\ "awaiting_review" \in Shown.blocking => <<"REVIEW", "question">> \in OtherCards(Shown, SignCard(Shown))
          /\ SignCard(Shown) # None => <<"ADJUDICATION", SignCard(Shown)>> \in OtherCards(Shown, SignCard(Shown))
        BY <1>4, <2>4 DEF OtherCards
    <3> QED
        BY <2>1, <2>4, <3>1
  <2>10. Preview(project).blocking = {}
    <3>1. Preview(project).blocking \subseteq
              {"awaiting_extract", "awaiting_harvest", "awaiting_regate", "awaiting_review"}
        BY <2>8 DEF Preview, Blocking
    <3> QED
        BY <2>9, <3>1
  <2>11. ~Provisional(Shown)
      BY <2>4, <2>10 DEF Provisional
  <2> QED
      BY <1>4, <2>4, <2>9, <2>11, CardsAssumption DEF SignCard
<1> QED
    BY <1>1, <1>2, <1>3, <1>4 DEF InboxComplete

\* InboxComplete for every value of the constants: nothing there is to do is left unnamed
\* (portal_state.inbox_cards, adjudication_card).
THEOREM InboxIsComplete == RoundSpec => []InboxComplete
    BY InboxHolds, EvidenceAlways, PTL
=============================================================================
