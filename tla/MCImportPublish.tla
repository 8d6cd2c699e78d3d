-------------------------- MODULE MCImportPublish --------------------------
(***************************************************************************)
(* One epoch of two batches that are imported in any order: a unit whose   *)
(* entries are spread over both, with an artifact and two metadata files   *)
(* of different priority, the first of them a tombstone.  The sessions s1  *)
(* and s3 are two request ids for the same batch.                          *)
(***************************************************************************)
EXTENDS Serving, TLC

CONSTANTS e1, b1, b2, p1, p2, a1, m1, m2, u1, t1, t2, s1, s2, s3

MCEpochOf == [b \in Batches |-> e1]
MCBatchOf == [p \in Packs |-> IF p = p1 THEN b1 ELSE b2]
MCPackOf == [x \in Entries |-> IF x = a1 /\ p2 \in Packs THEN p2 ELSE p1]
MCUnitOf == [x \in Entries |-> u1]
MCUnitEpoch == [u \in Units |-> e1]
MCMetadata == {m1, m2} \cap Entries
MCPaths == {"pool", "old", "index"}
MCContents == {"artifact", "stale", "fresh"}
ByEntry(a, b, c) == [x \in Entries |-> ((a1 :> a) @@ (m1 :> b) @@ (m2 :> c))[x]]
MCPathOf == ByEntry("pool", "old", "index")
MCContentOf == ByEntry("artifact", None, "fresh")
MCPriority == ByEntry(10, 10, 100)
MCCursors == {"c0", "c1"}
MCBase == [e \in Epochs |-> "c0"]
MCTarget == [e \in Epochs |-> "c1"]
MCSessionBatch == [s \in Sessions |-> IF s = s2 THEN b2 ELSE b1]
MCInitialCursor == "c0"
MCInitialDisk == ("pool" :> None) @@ ("old" :> "stale") @@ ("index" :> "stale")

Symmetry == Permutations(Threads)
=============================================================================
