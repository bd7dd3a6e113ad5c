------------------------------- MODULE RowLog -------------------------------
(***************************************************************************)
(* What an append-only ledger is to the stages that hold the writer lock:  *)
(* a sequence of rows, each appended once, of which only the newest may be *)
(* gone after a crash.                                                     *)
(***************************************************************************)
EXTENDS Naturals, Sequences

CONSTANT Rows
VARIABLE log

Init == log = <<>>

Grow == \E r \in Rows : /\ \A i \in 1..Len(log) : log[i] # r
                        /\ log' = Append(log, r)
Drop == \E n \in 0..Len(log) : log' = SubSeq(log, 1, n)

Next == Grow \/ Drop
Spec == Init /\ [][Next]_log
=============================================================================
