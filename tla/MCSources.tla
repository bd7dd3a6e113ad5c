------------------------------ MODULE MCSources ------------------------------
(***************************************************************************)
(* Small instances for TLC, one scene at a time: how works become          *)
(* candidates, are screened and obtained, and what leaves the project.     *)
(***************************************************************************)
EXTENDS Seeking, Screening, Cascade, Exports, TLC

CONSTANTS e1, e2, Scenes

VARIABLE scene

Symmetric == Permutations({e1, e2})

vars == <<seeking, screening, cascade, exports, scene>>

-----------------------------------------------------------------------------
(***************************************************************************)
(* A search in pages with a blank result and one outside a population, and *)
(* references among the results and beside them.                           *)
(***************************************************************************)
TwoQueries == <<"paged", "single">>
Result(k, facts) == [key |-> k, facts |-> facts]
ServiceResults ==
    ("paged" :> <<Result("w1", "journal"), Result("blank", "journal"), Result("w2", "preprint")>>)
    @@ ("single" :> <<Result("w2", "journal")>>)

CitedTimes   == ("w1" :> 1) @@ ("w3" :> 2)
CitedWorks   == ("w1" :> "preprint") @@ ("w3" :> "journal")

Rule(class, facts) == [class |-> class, facts |-> facts]
Design(population, rules, threshold) ==
    [population |-> population, rules |-> rules, threshold |-> threshold, manifest |-> "w1" :> "declared"]
BothClasses == <<Rule("academic", {"journal"}), Rule("working", {"journal", "preprint"})>>
AllDesigns ==
    {Design(Unbound, BothClasses, 1), Design({"journal"}, BothClasses, 2),
     Design({"preprint", "bare"}, <<Rule("working", {"preprint"})>>, 1)}

ScreeningBatch == <<"k", "l">>

-----------------------------------------------------------------------------
(***************************************************************************)
(* Addresses of every kind; pages that name files, themselves, each other. *)
(***************************************************************************)
AllUrls == {"doi", "own", "free", "preprint", "repo", "file", "pmc", "jats", "snap", "lead"}
UrlFormat ==
    [u \in AllUrls |-> CASE u \in {"own", "preprint", "file"} -> 0 [] u = "jats" -> 1 [] OTHER -> 2]
UrlDesignated == [u \in AllUrls |-> IF u = "pmc" THEN "jats" ELSE "nowhere"]
UrlLinks ==
    [u \in AllUrls |-> CASE u = "repo" -> <<"file", "free", "file">>
                         [] u = "free" -> <<"free", "repo", "file">>
                         [] OTHER -> <<>>]

CandidateRow(url, arxiv, doi, titled) == [url |-> url, arxiv |-> arxiv, doi |-> doi, titled |-> titled]
AllCandidates == {CandidateRow("own", "nowhere", FALSE, TRUE), CandidateRow("free", "preprint", TRUE, TRUE),
                  CandidateRow("doi", "nowhere", TRUE, FALSE)}

Named(url, rank) == [url |-> url, rank |-> rank]
ServiceAnswers ==
    [s \in Range(Services) |->
       CASE s = "title"     -> {<<>>, <<Named("doi", 0)>>}
         [] s = "unpaywall" -> {<<>>, <<Named("pmc", 1), Named("repo", 0)>>, <<Named("doi", 0)>>}
         [] s = "openalex"  -> {<<>>, <<Named("repo", 3)>>}
         [] s = "core"      -> {<<>>, <<Named("file", 0)>>}
         [] s = "wayback"   -> {<<>>, <<Named("snap", 0)>>}]

Body(type, length, opens) ==
    [type |-> type, length |-> length, opens |-> opens, closes |-> TRUE, cites |-> FALSE,
     challenge |-> FALSE, paywall |-> FALSE]
UrlBodies ==
    [u \in AllUrls |->
       CASE UrlFormat[u] = 0 -> {Body("pdf", 3, TRUE), Body("html", 0, FALSE)}
         [] UrlFormat[u] = 1 -> {Body("xml", 3, TRUE)}
         [] OTHER -> {Body("html", 3, TRUE), Body("html", 0, TRUE),
                      [Body("html", 0, TRUE) EXCEPT !.challenge = TRUE]}]

-----------------------------------------------------------------------------
Base == Design(Unbound, BothClasses, 1)

Init ==
    /\ scene \in Scenes
    /\ SeekingInit /\ (scene # "seeking" => design = Base)
    /\ ScreeningInit
    /\ \E c \in IF scene = "cascade" THEN Candidates ELSE {CandidateRow("own", "nowhere", FALSE, TRUE)} :
         CascadeInit(c)
    /\ \E n \in IF scene = "exports" THEN Editions ELSE {"before"} : ExportsInit(n)

Next ==
    /\ UNCHANGED scene
    /\ \/ scene = "seeking" /\ SeekingNext /\ UNCHANGED <<screening, cascade, exports>>
       \/ scene = "screening" /\ ScreeningNext /\ UNCHANGED <<seeking, cascade, exports>>
       \/ scene = "cascade" /\ CascadeNext /\ UNCHANGED <<seeking, screening, exports>>
       \/ scene = "exports" /\ ExportsNext /\ UNCHANGED <<seeking, screening, cascade>>

Spec == Init /\ [][Next]_vars
=============================================================================
