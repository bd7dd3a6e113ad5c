------------------------------ MODULE Authoring ------------------------------
(***************************************************************************)
(* From a wizard's draft to a frozen project: wizard_drafts.py,            *)
(* new_project_service.py and project_builder.py, with their routes in     *)
(* control.py.                                                             *)
(*                                                                         *)
(* Drafts are replayed from a ledger under a lock of their own, which a    *)
(* creation holds from its checks to its last row.  Tabs save, preview and *)
(* create from what they saw last.  The server may be killed while a       *)
(* creation is under way, days pass, and people make directories by hand.  *)
(***************************************************************************)
EXTENDS Naturals, FiniteSets

CONSTANTS Drafts, Tabs,
          DraftOf,       \* DraftOf[t]: the draft tab t has open
          Names,         \* names of projects
          Texts,         \* protocols that can be written
          Blank,         \* nothing there
          Empty, Foreign,  \* a directory without and with files in it, made by hand
          LastDay, MaxRevision, MaxServerKills   \* bounds

\* What the digest of a protocol covers: what is asked and measured, and the day it was frozen.
Protocols == [text : Texts, day : 0..LastDay]

\* Creations under way.
Creations == [draft : Drafts, at : {"staged", "renamed"}, name : Names, protocol : Protocols]

\* What is no project made here: nothing, and what hands put there.
ASSUME HandsAssumption ==
    /\ Blank \notin Names /\ Blank \notin Creations
    /\ {Blank, Empty, Foreign} \cap [draft : Drafts, protocol : Protocols] = {}

ASSUME TabsAssumption == DraftOf \in [Tabs -> Drafts] /\ LastDay \in Nat

VARIABLES
    draft,      \* draft[d]: revision, status, the steps saved, the files overridden, its project
    tab,        \* tab[t]: the revision it saw last, and the preview it shows, or Blank
    dirs,       \* dirs[n]: what is under projects/n: Blank, Empty, Foreign or a project made here
    stored,     \* names with data under store/
    making,     \* the creation that holds the drafts' lock, or Blank
    today,
    serverKills

authoring == <<draft, tab, dirs, stored, making, today, serverKills>>

Open(d)     == draft[d].status = "open"
Saved(d)    == [draft EXCEPT ![d].revision = @ + 1]
Complete(d) == draft[d].name # Blank /\ draft[d].rest
Made(n)     == dirs[n] \notin {Blank, Empty, Foreign}

-----------------------------------------------------------------------------
(***************************************************************************)
(* Saving.  A save names the revision it was based on.                     *)
(***************************************************************************)
\* Mistake: a save does not wait for a creation.
MaySaveUnlocked(t) ==
    LET d == DraftOf[t]
    IN  /\ Open(d)
        /\ tab[t].base = draft[d].revision /\ draft[d].revision < MaxRevision

MaySave(t) ==
    LET d == DraftOf[t]
    IN  /\ making = Blank /\ Open(d)
        /\ tab[t].base = draft[d].revision /\ draft[d].revision < MaxRevision

Save(t, written) ==
    /\ draft' = written
    /\ tab' = [tab EXCEPT ![t].base = @ + 1]
    /\ UNCHANGED <<dirs, stored, making, today, serverKills>>

\* The name and the topics; an empty directory and old data make a name unusable, too.
SaveTopics(t, name, text) ==
    /\ MaySave(t)
    /\ dirs[name] = Blank /\ name \notin stored
    /\ Save(t, [Saved(DraftOf[t]) EXCEPT ![DraftOf[t]].name = name, ![DraftOf[t]].text = text])

\* Questions and sources: two steps, whose content is fixed here.
SaveRest(t) ==
    /\ MaySave(t) /\ ~draft[DraftOf[t]].rest
    /\ Save(t, [Saved(DraftOf[t]) EXCEPT ![DraftOf[t]].rest = TRUE])

\* Files written by hand replace rendered ones; they must say that they are frozen today.
SaveAdvanced(t, files) ==
    /\ MaySave(t)
    /\ files # Blank => Complete(DraftOf[t]) /\ files.day = today
    /\ Save(t, [Saved(DraftOf[t]) EXCEPT ![DraftOf[t]].files = files])

Discard(t) ==
    /\ MaySave(t)
    /\ Save(t, [Saved(DraftOf[t]) EXCEPT ![DraftOf[t]].status = "discarded"])

Resume(t) ==
    /\ tab' = [tab EXCEPT ![t].base = draft[DraftOf[t]].revision]
    /\ UNCHANGED <<draft, dirs, stored, making, today, serverKills>>

-----------------------------------------------------------------------------
(***************************************************************************)
(* Rendering, and creating what was reviewed.                              *)
(***************************************************************************)
Render(d) == IF draft[d].files = Blank THEN [text |-> draft[d].text, day |-> today] ELSE draft[d].files

Renders(d) == Open(d) /\ Complete(d) /\ Render(d).day = today

\* Read without the lock: of one revision, nevertheless.
Preview(t) ==
    LET d == DraftOf[t]
    IN  /\ Renders(d)
        /\ tab' = [tab EXCEPT ![t] = [base |-> draft[d].revision,
                                      shown |-> [name |-> draft[d].name, protocol |-> Render(d)]]]
        /\ UNCHANGED <<draft, dirs, stored, making, today, serverKills>>

AsShown(t) == tab[t].shown # Blank /\ tab[t].shown.protocol = Render(DraftOf[t])

Begin(t) ==
    LET d == DraftOf[t]
    IN  /\ making = Blank /\ Renders(d) /\ AsShown(t)
        /\ IF draft[d].name \in stored \/ dirs[draft[d].name] # Blank
           THEN \* a creation that failed is a row of the draft
                /\ draft[d].revision < MaxRevision
                /\ draft' = Saved(d)
                /\ UNCHANGED making
           ELSE /\ making' = [draft |-> d, at |-> "staged", name |-> draft[d].name,
                                protocol |-> Render(d)]
                /\ UNCHANGED draft
        /\ UNCHANGED <<tab, dirs, stored, today, serverKills>>

\* A rename onto a directory with files in it fails, and is no row of the draft.
Rename ==
    /\ making # Blank /\ making.at = "staged"
    /\ IF dirs[making.name] \in {Blank, Empty}
       THEN /\ dirs' = [dirs EXCEPT ![making.name] =
                            [draft |-> making.draft, protocol |-> making.protocol]]
            /\ making' = [making EXCEPT !.at = "renamed"]
       ELSE making' = Blank /\ UNCHANGED dirs
    /\ UNCHANGED <<draft, tab, stored, today, serverKills>>

MarkCreated ==
    LET d == making.draft
    IN  /\ making # Blank /\ making.at = "renamed"
        /\ draft' = [Saved(d) EXCEPT ![d].status = "created", ![d].project = making.name]
        /\ making' = Blank
        /\ UNCHANGED <<tab, dirs, stored, today, serverKills>>

-----------------------------------------------------------------------------
(***************************************************************************)
(* The world around it.                                                    *)
(***************************************************************************)
KillCreation ==
    /\ making # Blank /\ serverKills < MaxServerKills
    /\ making' = Blank /\ serverKills' = serverKills + 1
    /\ UNCHANGED <<draft, tab, dirs, stored, today>>

\* A directory made by hand, outside any lock.
ByHand(n, content) ==
    /\ dirs[n] = Blank
    /\ dirs' = [dirs EXCEPT ![n] = content]
    /\ UNCHANGED <<draft, tab, stored, making, today, serverKills>>

\* The first command about a project that stands stores data under its name.
Use(n) ==
    /\ dirs[n] = Foreign \/ Made(n)
    /\ stored' = stored \cup {n}
    /\ UNCHANGED <<draft, tab, dirs, making, today, serverKills>>

NextDay ==
    /\ today < LastDay /\ today' = today + 1
    /\ UNCHANGED <<draft, tab, dirs, stored, making, serverKills>>

NewDraft == [revision |-> 1, status |-> "open", name |-> Blank, text |-> Blank, rest |-> FALSE,
             files |-> Blank, project |-> Blank]

AuthoringInit ==
    /\ draft = [d \in Drafts |-> NewDraft]
    /\ tab = [t \in Tabs |-> [base |-> 1, shown |-> Blank]]
    /\ dirs = [n \in Names |-> Blank]
    /\ stored \in SUBSET Names     \* of projects that were moved away
    /\ making = Blank /\ today = 0 /\ serverKills = 0

Editing(t) ==
    \/ \E n \in Names, x \in Texts : SaveTopics(t, n, x)
    \/ \E files \in Protocols \cup {Blank} : SaveAdvanced(t, files)
    \/ SaveRest(t) \/ Discard(t) \/ Resume(t) \/ Preview(t) \/ Begin(t)

Creating == Rename \/ MarkCreated \/ KillCreation

Beside ==
    \/ \E n \in Names : Use(n) \/ \E content \in {Empty, Foreign} : ByHand(n, content)
    \/ NextDay

AuthoringNext == (\E t \in Tabs : Editing(t)) \/ Creating \/ Beside

AuthoringSpec == AuthoringInit /\ [][AuthoringNext]_authoring

-----------------------------------------------------------------------------
\* A draft that says "created" names the project it made, with the protocol its last revision
\* renders to: a save or a discard from another tab came before the creation or was refused.
\* Any other project it made was hidden from it by a kill before the row (create_project,
\* new_project_service.create).
OneProjectPerDraft ==
    \A d \in DOMAIN draft :
        LET made    == {n \in Names : Made(n) /\ dirs[n].draft = d}
            known   == {draft[d].project} \cup IF making = Blank THEN {} ELSE {making.name}
        IN  /\ draft[d].status = "created" =>
                   /\ draft[d].project = draft[d].name /\ draft[d].project \in made
                   /\ dirs[draft[d].project].protocol.text = Render(d).text
            /\ Cardinality(made \ known) <= serverKills

=============================================================================
