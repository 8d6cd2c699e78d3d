----------------------------- MODULE MCTransfer -----------------------------
(***************************************************************************)
(* One epoch of one or two batches, each driven by a client of its own:    *)
(* the unit has a metadata file in the first batch and, when there are     *)
(* two, an artifact in the second.                                         *)
(***************************************************************************)
EXTENDS Transfer, TLC

CONSTANTS e1, b1, b2, p1, p2, a1, m1, u1, s1, s2

MCEpochOf == [b \in Batches |-> e1]
MCBatchOf == [p \in Packs |-> IF p = p1 THEN b1 ELSE b2]
MCPackOf == [x \in Entries |-> IF x = m1 THEN p1 ELSE p2]
MCUnitOf == [x \in Entries |-> u1]
MCUnitEpoch == [u \in Units |-> e1]
MCPaths == {"pool", "index"}
MCContents == {"artifact", "stale", "fresh"}
MCPathOf == [x \in Entries |-> IF x = m1 THEN "index" ELSE "pool"]
MCContentOf == [x \in Entries |-> IF x = m1 THEN "fresh" ELSE "artifact"]
MCPriority == [x \in Entries |-> 10]
MCCursors == {"c0", "c1"}
MCBase == [e \in Epochs |-> "c0"]
MCTarget == [e \in Epochs |-> "c1"]
MCSessionBatch == [s \in Sessions |-> IF s = s1 THEN b1 ELSE b2]
MCInitialCursor == "c0"
MCInitialDisk == ("pool" :> None) @@ ("index" :> "stale")
=============================================================================
