---------------------------- MODULE MCHistoryImport ----------------------------
(* A small instance of HistoryImport for TLC. *)
EXTENDS HistoryImport

CONSTANT c1
=============================================================================
