-------------------------- MODULE MCImportConflict --------------------------
(***************************************************************************)
(* Two epochs of one source that bring different content for one artifact  *)
(* path, both with uploads that are retried, and state capsules exported   *)
(* meanwhile.                                                              *)
(***************************************************************************)
EXTENDS Capsule, TLC

CONSTANTS e1, e2, b1, b2, p1, p2, a1, a2, u1, u2, t1, t2, s1, s2

MCEpochOf == (b1 :> e1) @@ (b2 :> e2)
MCBatchOf == (p1 :> b1) @@ (p2 :> b2)
MCPackOf == (a1 :> p1) @@ (a2 :> p2)
MCUnitOf == (a1 :> u1) @@ (a2 :> u2)
MCUnitEpoch == (u1 :> e1) @@ (u2 :> e2)
MCPathOf == [x \in Entries |-> "pool"]
MCContentOf == (a1 :> "v1") @@ (a2 :> "v2")
MCPriority == [x \in Entries |-> 10]
MCBase == (e1 :> "c0") @@ (e2 :> "c1")
MCTarget == (e1 :> "c1") @@ (e2 :> "c2")
MCSessionBatch == (s1 :> b1) @@ (s2 :> b2)
MCInitialCursor == "c0"
MCEmptyDisk == [path \in Paths |-> None]

Symmetry == Permutations(Threads)
=============================================================================
