---------------------------- MODULE MCWorkspace ----------------------------
(***************************************************************************)
(* A plan of four artifacts that the planner cuts into two batches: the    *)
(* first has one pack with a generated page and a tombstone, the second    *)
(* has a pack with the upstream file of two chunks, which may change after *)
(* the analysis, and one with another generated file.  Bytes count the     *)
(* record headers, so the packs are full at 3 and the batches at 5.  The   *)
(* operator may name two directories for the second batch.                 *)
(***************************************************************************)
EXTENDS Workspace

MCOrder == <<"page", "gone", "big", "note">>
MCSize == [big |-> 2, page |-> 1, gone |-> 0, note |-> 1]
MCOrigin == [big |-> "upstream", page |-> "local", gone |-> "delete", note |-> "local"]
MCDestinations == <<{"d1"}, {"d1","d2"}>>
MCPath == [big |-> 1, page |-> 1, gone |-> 1, note |-> 1]
=============================================================================
