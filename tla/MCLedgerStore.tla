---------------------------- MODULE MCLedgerStore ----------------------------
(***************************************************************************)
(* A small instance of LedgerStore for TLC.                                *)
(***************************************************************************)
EXTENDS LedgerStore, TLC

CONSTANTS w1, w2, main, audit, d1, d2

OddsAndEvens == [r \in RowNumbers |-> IF r % 2 = 1 THEN d1 ELSE d2]
Symmetric == Permutations(Writers)
=============================================================================
