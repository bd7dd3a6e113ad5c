----------------------------- MODULE LedgerStore -----------------------------
(***************************************************************************)
(* The append-only ledgers and content-addressed bytes of one project:     *)
(* claimstone/store.py.                                                    *)
(*                                                                         *)
(* A ledger is a file of bytes.  A row is three of them, two of its body   *)
(* and the newline, which is enough to tell a missing row, a torn one, one *)
(* torn just before its newline and a whole one apart.  Writers append     *)
(* under the project writer lock and may be killed after any byte; readers *)
(* take no lock.                                                           *)
(***************************************************************************)
EXTENDS Naturals, Sequences

CONSTANTS Writers, Ledgers, Digests,
          Audit,        \* the ledger of repairs
          Free,
          Body,         \* Body[r]: the digest of the bytes row r is about
          MaxBegun,     \* bound: rows ever begun, audit rows included
          MaxKilled     \* bound: killed writers

ASSUME AuditAssumption == Audit \in Ledgers
ASSUME WritersAssumption == Free \notin Writers

RowNumbers == 1..MaxBegun

ASSUME RowsAssumption == MaxBegun \in Nat /\ Body \in [RowNumbers -> Digests]

NL   == <<0, 0>>
Line(r) == << <<r, 1>>, <<r, 2>>, NL >>

VARIABLES
    file,      \* file[l]: the bytes of ledger l
    blob,      \* blob[d]: the bytes under digest d: "absent", "damaged" or "whole"
    lock,      \* the process that holds the project writer lock, or Free
    pc,        \* pc[w]: where writer w stands
    aim,       \* aim[w]: the ledger and the row it appends, row 0 for a bare repair
    out,       \* out[w]: the bytes it still has to write: rewritten rows and its own row to
               \* the ledger it is at, and between them the audit row of a repair
    begun,     \* rows begun so far
    accepted,  \* accepted[l]: rows whose append returned, oldest first
    killed

writers == <<lock, pc, aim, out>>
store   == <<file, blob, writers, begun, accepted, killed>>

Nothing == [ledger |-> Audit, row |-> 0]
NoBytes == [old |-> <<>>, note |-> <<>>, row |-> <<>>]

StoreInit ==
    /\ file = [l \in Ledgers |-> <<>>]
    \* a writer of an earlier version may have left a truncated file behind
    /\ blob \in [Digests -> {"absent", "damaged"}]
    /\ lock = Free
    /\ pc = [w \in Writers |-> "idle"]
    /\ aim = [w \in Writers |-> Nothing]
    /\ out = [w \in Writers |-> NoBytes]
    /\ begun = 0
    /\ accepted = [l \in Ledgers |-> <<>>]
    /\ killed = 0

-----------------------------------------------------------------------------
(***************************************************************************)
(* Reading.                                                                *)
(***************************************************************************)
Ends(bytes) == {i \in 1..Len(bytes) : bytes[i] = NL}
EndOfRows(bytes) == CHOOSE i \in Ends(bytes) \union {0} : \A j \in Ends(bytes) : j <= i

\* Everything up to the last newline: what follows it was never a row.
Complete(bytes) == SubSeq(bytes, 1, EndOfRows(bytes))
Torn(bytes) == Complete(bytes) # bytes

\* A line parses when it is the two halves of one row's body.
StartsRow(bytes, i) == i - 2 >= 1 /\ (i - 3 >= 1 => bytes[i - 3] = NL)
Parses(bytes, i) == /\ StartsRow(bytes, i)
                    /\ \E r \in RowNumbers : bytes[i - 2] = <<r, 1>> /\ bytes[i - 1] = <<r, 2>>

\* Reader's verdict: damage anywhere but in an unfinished last line raises.
Readable(bytes) == \A i \in Ends(bytes) : Parses(bytes, i)
ReadRows(bytes) == [n \in 1..(EndOfRows(bytes) \div 3) |-> bytes[3 * n - 1][1]]

-----------------------------------------------------------------------------
(***************************************************************************)
(* Writing.                                                                *)
(***************************************************************************)
\* Mistake: an append does not wait for the writer lock.
BeginAppendUnlocked(w, l) ==
    /\ pc[w] = "idle"
    /\ begun < MaxBegun
    /\ begun' = begun + 1
    /\ aim' = [aim EXCEPT ![w] = [ledger |-> l, row |-> begun + 1]]
    /\ lock' = w
    /\ pc' = [pc EXCEPT ![w] = "bytes"]
    /\ UNCHANGED <<file, blob, out, accepted, killed>>

\* A stage stores the bytes of its result, then appends the row about them.
BeginAppend(w, l) ==
    /\ pc[w] = "idle"
    /\ lock = Free
    /\ begun < MaxBegun
    /\ begun' = begun + 1
    /\ aim' = [aim EXCEPT ![w] = [ledger |-> l, row |-> begun + 1]]
    /\ lock' = w
    /\ pc' = [pc EXCEPT ![w] = "bytes"]
    /\ UNCHANGED <<file, blob, out, accepted, killed>>

BeginRepair(w, l) ==
    /\ pc[w] = "idle"
    /\ lock = Free
    /\ Torn(file[l])
    /\ aim' = [aim EXCEPT ![w] = [ledger |-> l, row |-> 0]]
    /\ lock' = w
    /\ pc' = [pc EXCEPT ![w] = "check"]
    /\ UNCHANGED <<file, blob, out, begun, accepted, killed>>

\* Written beside the target and renamed onto it: one step, after whose
\* scratch file a crash leaves the target as it was.
StoreBytes(w) ==
    LET d == Body[aim[w].row]
    IN  /\ pc[w] = "bytes"
        /\ blob' = [blob EXCEPT ![d] = "whole"]
        /\ pc' = [pc EXCEPT ![w] = "check"]
        /\ UNCHANGED <<file, lock, aim, out, begun, accepted, killed>>

Its(r) == IF r = 0 THEN <<>> ELSE Line(r)

\* Mistake: the row is appended after whatever the file ends with.
EnsureCleanTailSkipped(w) ==
    /\ pc[w] = "check"
    /\ out' = [out EXCEPT ![w].row = Its(aim[w].row)]
    /\ pc' = [pc EXCEPT ![w] = "write"]
    /\ UNCHANGED <<file, blob, lock, aim, begun, accepted, killed>>

\* A clean tail: the row follows.  A torn one: the file is emptied, and its
\* complete rows, an audit row of the repair and then the row are written.
EnsureCleanTail(w) ==
    LET l    == aim[w].ledger
        note == Torn(file[l]) /\ l # Audit /\ aim[w].row # 0
    IN  /\ pc[w] = "check"
        /\ note => begun < MaxBegun
        /\ begun' = IF note THEN begun + 1 ELSE begun
        /\ out' = [out EXCEPT ![w] =
               [old  |-> IF Torn(file[l]) THEN Complete(file[l]) ELSE <<>>,
                note |-> IF note THEN Line(begun + 1) ELSE <<>>,
                row  |-> Its(aim[w].row)]]
        /\ file' = IF Torn(file[l]) THEN [file EXCEPT ![l] = <<>>] ELSE file
        /\ pc' = [pc EXCEPT ![w] = "write"]
        /\ UNCHANGED <<blob, lock, aim, accepted, killed>>

Part(bytes) == IF bytes.old # <<>> THEN "old" ELSE IF bytes.note # <<>> THEN "note" ELSE "row"

\* A kill can fall after any byte that reached the file.
WriteByte(w) ==
    LET part == Part(out[w])
        l    == IF part = "note" THEN Audit ELSE aim[w].ledger
    IN  /\ pc[w] = "write"
        /\ out[w] # NoBytes
        /\ file' = [file EXCEPT ![l] = Append(@, Head(out[w][part]))]
        /\ out' = [out EXCEPT ![w][part] = Tail(@)]
        /\ UNCHANGED <<blob, lock, pc, aim, begun, accepted, killed>>

Return(w) ==
    /\ pc[w] = "write"
    /\ out[w] = NoBytes
    /\ accepted' = IF aim[w].row = 0 THEN accepted
                   ELSE [accepted EXCEPT ![aim[w].ledger] = Append(@, aim[w].row)]
    /\ lock' = Free
    /\ pc' = [pc EXCEPT ![w] = "idle"]
    /\ aim' = [aim EXCEPT ![w] = Nothing]
    /\ UNCHANGED <<file, blob, out, begun, killed>>

Killed(w) ==
    /\ pc[w] # "idle"
    /\ killed < MaxKilled
    /\ killed' = killed + 1
    /\ lock' = Free
    /\ pc' = [pc EXCEPT ![w] = "idle"]
    /\ aim' = [aim EXCEPT ![w] = Nothing]
    /\ out' = [out EXCEPT ![w] = NoBytes]
    /\ UNCHANGED <<file, blob, begun, accepted>>

StoreNext ==
    \E w \in Writers :
        \/ \E l \in Ledgers : BeginAppend(w, l) \/ BeginRepair(w, l)
        \/ StoreBytes(w) \/ EnsureCleanTail(w) \/ WriteByte(w) \/ Return(w) \/ Killed(w)

StoreSpec == StoreInit /\ [][StoreNext]_store

-----------------------------------------------------------------------------
(***************************************************************************)
(* Properties.                                                             *)
(***************************************************************************)
\* The rows of a ledger once the present holder of the lock is done with it.
Owed(l) ==
    IF lock # Free /\ aim[lock].ledger = l THEN out[lock].old \o out[lock].row ELSE <<>>
View(l) == ReadRows(Complete(file[l] \o Owed(l)))

\* A reader takes no lock, so it may look after any byte of an append or of a
\* repair: it never meets damage before the last line, what it returns is the
\* beginning of what the lock's holder will leave, and every row it returns has
\* its bytes whole on disk under their digest, although bytes and row are two
\* writes and truncated files may be about.
ReadersSeeWhole ==
    \A l \in Ledgers \ {Audit} :
        LET rows == ReadRows(Complete(file[l]))
        IN  /\ Readable(file[l])
            /\ Len(rows) <= Len(View(l))
            /\ rows = SubSeq(View(l), 1, Len(rows))
            /\ \A n \in 1..Len(rows) : blob[Body[rows[n]]] = "whole"

\* To whoever holds the lock, every ledger but the audit one is a row log:
\* rows in order, none twice, and only the newest ever gone.
Log(l) == INSTANCE RowLog WITH Rows <- RowNumbers, log <- View(l)
ImplementsRowLog ==
    /\ \A l \in Ledgers \ {Audit} : Log(l)!Init
    /\ [][\A l \in Ledgers \ {Audit} : UNCHANGED View(l) \/ Log(l)!Next]_store

\* The module's own claim: repairing "removes only a line no reader ever
\* accepted", so a row whose append returned is there whenever the lock is free.
NothingAcceptedIsLost ==
    lock = Free => \A l \in Ledgers : \A n \in 1..Len(accepted[l]) :
        LET rows == ReadRows(Complete(file[l]))
        IN  \E m \in 1..Len(rows) : rows[m] = accepted[l][n]
=============================================================================
