----------------------------- MODULE MCFetcher -----------------------------
(***************************************************************************)
(* Small instances of Fetcher for TLC: one project that follows redirects, *)
(* and two that share the providers' schedule.                             *)
(***************************************************************************)
EXTENDS Fetcher, TLC

CONSTANTS p1, p2, c1, c2, api, site, elsewhere

Anywhere == {Page(api), Page(site), Robots(site), Page(elsewhere)}
NoWait   == [h \in Hosts |-> 0]
OneStep  == [h \in Hosts |-> 1]
ApiCosts == [h \in Hosts |-> IF h = api THEN 1 ELSE 0]
Symmetric == Permutations(Projects)
=============================================================================
