--------------------------- MODULE MCMaintenance ---------------------------
(***************************************************************************)
(* One epoch that brings an artifact and a new index, an inventory, a GC   *)
(* and a second root.  The files that stand in the repository at first are *)
(* not mentioned by its index: an inventory drops them, a GC removes them, *)
(* and the artifact of the epoch may be one of them.                       *)
(***************************************************************************)
EXTENDS Maintenance, TLC

CONSTANTS e1, b1, p1, a1, m1, u1, s1, t1, t2, j1, j2, r1, r2

MCEpochOf == [b \in Batches |-> e1]
MCBatchOf == [p \in Packs |-> b1]
MCPackOf == [x \in Entries |-> p1]
MCUnitOf == [x \in Entries |-> u1]
MCUnitEpoch == [u \in Units |-> e1]
MCMetadata == {m1}
MCPaths == {"pool", "old", "index"}
Served == ("pool" :> "artifact") @@ ("old" :> None) @@ ("index" :> "v0")
ServedOld == ("pool" :> None) @@ ("old" :> "stale") @@ ("index" :> "v0")
MCContents == {"artifact", "stale", "v0", "v1"}
MCPathOf == (a1 :> "pool") @@ (m1 :> "index")
MCContentOf == (a1 :> "artifact") @@ (m1 :> "v1")
MCPriority == [x \in Entries |-> 10]
MCCursors == {"c0", "c1"}
MCBase == [e \in Epochs |-> "c0"]
MCTarget == [e \in Epochs |-> "c1"]
MCSessionBatch == [s \in Sessions |-> b1]
MCInitialCursor == "c0"
MCInitialDisk == [path \in Paths |-> Served[path]]
MCOldDisk == [path \in Paths |-> ServedOld[path]]
MCMentions == ("artifact" :> {}) @@ ("stale" :> {}) @@ ("v0" :> {}) @@ ("v1" :> {"pool"})
MCKinds == (j1 :> {"INVENTORY"}) @@ (j2 :> {"GC"})
MCIndexes == {"index"}
MCElsewhere == [r \in Roots |-> Nothing]

(* The plan was made from a capsule that still listed "old". *)
MCMentionsOld == [MCMentions EXCEPT !["v1"] = {"pool", "old"}]
=============================================================================
