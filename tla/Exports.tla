------------------------------ MODULE Exports ------------------------------
(***************************************************************************)
(* What leaves a project: the export of a flow (export.py), and the        *)
(* dossier of a periodic schedule, finalized (periodic_dossier.py) and     *)
(* packaged (periodic_export.py).                                          *)
(*                                                                         *)
(* An export is known by the ledgers' bytes, the project's files and the   *)
(* instruments it was made with.  Exports of flows are made by threads and *)
(* commands that share no lock; dossiers and packages hold the project's   *)
(* writer lock.  Any of them may be killed.                                *)
(*                                                                         *)
(* The bytes of a file are those of its export or a part of them.  Ledgers *)
(* are append-only (LedgerStore) and known by how far they go.             *)
(***************************************************************************)
EXTENDS Naturals, SequencesExt

CONSTANTS
    Exporters,    \* processes and threads
    Editions,     \* what the project's files and the instruments may be
    NoExport,
    MaxEvidence,  \* bound: rows that change what a profile rests on
    MaxVerdicts,  \* bound: verdicts
    MaxCommands   \* bound: commands and requests

VARIABLES
    evidence,   \* rows a profile rests on
    final,      \* final[n]: schedule, rounds and profiles are final under the edition n
    verdicts,   \* verdicts people signed
    edition,    \* the project's files and the instruments
    profiles,   \* the snapshot whose profiles were stored last
    dossiers,   \* periodic_dossiers.jsonl
    files,      \* files[id]: the files in exports/<id>, for the directories there are
    exported,   \* exports.jsonl
    packages,   \* the directories of periodic_exports/ and their files, as in files
    packaged,   \* periodic_exports.jsonl
    writer,     \* who holds the writer lock
    task,       \* task[e]: what e does
    commands    \* commands and requests so far

exports  == <<evidence, final, verdicts, edition, profiles, dossiers, files, exported,
              packages, packaged, writer, task, commands>>
contents == <<evidence, final, verdicts, edition>>
flowPart == <<files, exported>>
dossierPart == <<profiles, dossiers>>
packagePart == <<packages, packaged>>

Unoccupied == [step |-> "none", id |-> NoExport]

\* Verdicts are no part of what a dossier says.
Snapshot(n) == [evidence |-> evidence, edition |-> n]

\* The bytes an export cuts, with the edition of the process that cuts them.
Cut(n, copies) ==
    [rows |-> <<evidence, verdicts, profiles, Len(dossiers)>>, edition |-> n, copies |-> copies]

PackageOf(n) ==
    [rows |-> Cut(n, FALSE).rows, edition |-> n, copies |-> FALSE, dossier |-> Snapshot(n)]

Parts(id) == {"manifest", "outputs"} \cup (IF id.copies THEN {"copies"} ELSE {})

FilesOf(dirs, id) == IF id \in DOMAIN dirs THEN dirs[id] ELSE {}
Complete(dirs, id) == FilesOf(dirs, id) = Parts(id)
Put(dirs, id, parts) == [i \in DOMAIN dirs \cup {id} |-> IF i = id THEN parts ELSE dirs[i]]

Goto(e, step)       == task' = [task EXCEPT ![e].step = step]
Enter(e, step, id)  == task' = [task EXCEPT ![e] = [step |-> step, id |-> id]]
Leave(e)            == task' = [task EXCEPT ![e] = Unoccupied]

-----------------------------------------------------------------------------
(***************************************************************************)
(* What an export is made of goes on moving; a process reads the project's *)
(* files when it starts, and never again.                                  *)
(***************************************************************************)
AddEvidence ==
    /\ writer = NoExport /\ evidence < MaxEvidence
    /\ evidence' = evidence + 1
    /\ final' \in [Editions -> BOOLEAN]
    /\ UNCHANGED <<verdicts, edition, dossierPart, flowPart, packagePart, writer, task, commands>>

SignVerdict ==
    /\ writer = NoExport /\ verdicts < MaxVerdicts /\ profiles = Snapshot(edition)
    /\ verdicts' = verdicts + 1
    /\ UNCHANGED <<evidence, final, edition, dossierPart, flowPart, packagePart, writer, task, commands>>

ChangeFiles ==
    /\ edition' \in Editions \ {edition}
    /\ UNCHANGED <<evidence, final, verdicts, dossierPart, flowPart, packagePart, writer, task, commands>>

Load(e) ==
    /\ task[e] = Unoccupied /\ commands < MaxCommands
    /\ commands' = commands + 1
    /\ Enter(e, "loaded", [edition |-> edition])
    /\ UNCHANGED <<contents, dossierPart, flowPart, packagePart, writer>>

-----------------------------------------------------------------------------
(***************************************************************************)
(* The export of a flow.                                                   *)
(***************************************************************************)
\* The ledgers are cut, and the identity follows; copies are part of it only when asked for.
CutLedgers(e, copies) ==
    /\ task[e].step = "loaded"
    /\ Enter(e, "cut", Cut(task[e].id.edition, copies))
    /\ UNCHANGED <<contents, dossierPart, flowPart, packagePart, writer, commands>>

\* A directory of that name is taken for the export, whatever is in it.
FindExport(e) ==
    /\ task[e].step = "cut" /\ task[e].id \in DOMAIN files
    /\ Leave(e)
    /\ UNCHANGED <<contents, dossierPart, flowPart, packagePart, writer, commands>>

MissExport(e) ==
    /\ task[e].step = "cut" /\ task[e].id \notin DOMAIN files
    /\ Goto(e, "manifest")
    /\ UNCHANGED <<contents, dossierPart, flowPart, packagePart, writer, commands>>

NextStep(step, id) ==
    CASE step = "manifest" -> "outputs"
      [] step = "outputs" /\ id.copies -> "copies"
      [] OTHER -> "record"

WriteFiles(e) ==
    /\ task[e].step \in {"manifest", "outputs", "copies"}
    /\ files' = Put(files, task[e].id, FilesOf(files, task[e].id) \cup {task[e].step})
    /\ Goto(e, NextStep(task[e].step, task[e].id))
    /\ UNCHANGED <<contents, dossierPart, exported, packagePart, writer, commands>>

\* A held copy no longer has the bytes its row recorded.
RefuseCopy(e) ==
    /\ task[e].step = "copies"
    /\ Leave(e)
    /\ UNCHANGED <<contents, dossierPart, flowPart, packagePart, writer, commands>>

RecordExport(e) ==
    /\ task[e].step = "record"
    /\ exported' = exported \cup {task[e].id}
    /\ Leave(e)
    /\ UNCHANGED <<contents, dossierPart, files, packagePart, writer, commands>>

-----------------------------------------------------------------------------
(***************************************************************************)
(* The dossier of a schedule.                                              *)
(***************************************************************************)
Lock(e)    == writer = NoExport /\ writer' = e
Release(e) == writer' = NoExport /\ Leave(e)

UpToDate(n) == dossiers # <<>> /\ Last(dossiers) = Snapshot(n)

\* A mandate's pass or a person asks for it; whoever holds the lock looks again.
StartFinalize(e) ==
    /\ task[e].step = "loaded"
    /\ LET n == task[e].id.edition
       IN /\ final[n] /\ ~UpToDate(n)
          /\ Lock(e)
          /\ Enter(e, IF profiles = Snapshot(n) THEN "dossier" ELSE "profiles", Snapshot(n))
    /\ UNCHANGED <<contents, dossierPart, flowPart, packagePart, commands>>

StoreProfiles(e) ==
    /\ task[e].step = "profiles"
    /\ profiles' = task[e].id
    /\ Goto(e, "dossier")
    /\ UNCHANGED <<contents, dossiers, flowPart, packagePart, writer, commands>>

AppendDossier(e) ==
    /\ task[e].step = "dossier"
    /\ dossiers' = Append(dossiers, task[e].id)
    /\ Release(e)
    /\ UNCHANGED <<contents, profiles, flowPart, packagePart, commands>>

-----------------------------------------------------------------------------
(***************************************************************************)
(* Its package: written aside, renamed into place, then recorded.          *)
(***************************************************************************)
\* Asked for with the dossier that was shown, which must still be the current one; what is
\* there already must verify.
StartPackage(e) ==
    /\ task[e].step = "loaded"
    /\ LET n  == task[e].id.edition
           id == PackageOf(n)
       IN /\ final[n] /\ UpToDate(n)
          /\ id \in DOMAIN packages => Complete(packages, id) /\ n = edition
          /\ Lock(e)
          /\ Enter(e, IF id \in DOMAIN packages THEN "enter" ELSE "package", id)
    /\ UNCHANGED <<contents, dossierPart, flowPart, packagePart, commands>>

\* Mistake: the files are written where they belong, one after the other.
PackageInPlace(e) ==
    /\ task[e].step = "package"
    /\ LET id   == task[e].id
           next == IF "manifest" \in FilesOf(packages, id) THEN Parts(id) ELSE {"manifest"}
       IN /\ packages' = Put(packages, id, next)
          /\ Goto(e, IF next = Parts(id) THEN "enter" ELSE "package")
    /\ UNCHANGED <<contents, dossierPart, flowPart, packaged, writer, commands>>

Package(e) ==
    /\ task[e].step = "package"
    /\ packages' = Put(packages, task[e].id, Parts(task[e].id))
    /\ Goto(e, "enter")
    /\ UNCHANGED <<contents, dossierPart, flowPart, packaged, writer, commands>>

EnterPackage(e) ==
    /\ task[e].step = "enter"
    /\ packaged' = IF task[e].id \in Range(packaged) THEN packaged ELSE Append(packaged, task[e].id)
    /\ Release(e)
    /\ UNCHANGED <<contents, dossierPart, flowPart, packages, commands>>

\* Killed, refused, or nothing to do; a file that is being written may be left without its bytes.
Abandon(e) ==
    /\ task[e] # Unoccupied
    /\ Leave(e)
    /\ writer' = IF writer = e THEN NoExport ELSE writer
    /\ \/ UNCHANGED files
       \/ /\ task[e].step \in {"manifest", "outputs", "copies"}
          /\ files' = Put(files, task[e].id, FilesOf(files, task[e].id) \ {task[e].step})
    /\ UNCHANGED <<contents, dossierPart, exported, packagePart, commands>>

ExportsInit(n) ==
    /\ evidence = 0 /\ final = [i \in Editions |-> FALSE] /\ verdicts = 0 /\ edition = n
    /\ profiles = NoExport /\ dossiers = <<>> /\ files = <<>> /\ exported = {}
    /\ packages = <<>> /\ packaged = <<>>
    /\ writer = NoExport /\ task = [e \in Exporters |-> Unoccupied] /\ commands = 0

ExportsNext ==
    \/ AddEvidence \/ SignVerdict \/ ChangeFiles
    \/ \E e \in Exporters :
         \/ Load(e)
         \/ \E copies \in BOOLEAN : CutLedgers(e, copies)
         \/ FindExport(e) \/ MissExport(e) \/ WriteFiles(e) \/ RefuseCopy(e) \/ RecordExport(e)
         \/ StartFinalize(e) \/ StoreProfiles(e) \/ AppendDossier(e)
         \/ StartPackage(e) \/ Package(e) \/ EnterPackage(e) \/ Abandon(e)

ExportsSpec == (\E n \in Editions : ExportsInit(n)) /\ [][ExportsNext]_exports

-----------------------------------------------------------------------------
(***************************************************************************)
(* What is promised of what leaves.                                        *)
(***************************************************************************)

(* Whoever is killed, and whatever moves while it is made, a package is there whole or not at *)
(* all, has one row at most, and was cut where the dossier it is for is the last finalized    *)
(* and rests on just that evidence (periodic_export.py, create).                              *)
PackagesAreWhole ==
    /\ \A id \in DOMAIN packages :
         /\ Complete(packages, id)
         /\ id.rows[1] = id.dossier.evidence /\ id.dossier = dossiers[id.rows[4]]
    /\ Range(packaged) \subseteq DOMAIN packages
    /\ \A i, j \in DOMAIN packaged : packaged[i] = packaged[j] => i = j

=============================================================================
