--------------------------- MODULE MCImportChain ---------------------------
(***************************************************************************)
(* Three epochs of one source: e1 and rival start at the same cursor (two  *)
(* workspaces analysed the same capsule), e2 continues e1.  Every epoch    *)
(* rewrites the same index file, and e2 brings a new artifact.             *)
(***************************************************************************)
EXTENDS Serving, TLC

CONSTANTS e1, e2, rival, b1, b2, b3, p1, p2, p3, a2, m1, m2, m3,
          u1, u2, u3, t1, t2, s1, s2, s3

On(S, f) == [x \in S |-> f[x]]
MCEpochOf == On(Batches, (b1 :> e1) @@ (b2 :> e2) @@ (b3 :> rival))
MCBatchOf == On(Packs, (p1 :> b1) @@ (p2 :> b2) @@ (p3 :> b3))
MCPackOf == On(Entries, (m1 :> p1) @@ (a2 :> p2) @@ (m2 :> p2) @@ (m3 :> p3))
MCUnitOf == On(Entries, (m1 :> u1) @@ (a2 :> u2) @@ (m2 :> u2) @@ (m3 :> u3))
MCUnitEpoch == On(Units, (u1 :> e1) @@ (u2 :> e2) @@ (u3 :> rival))
MCMetadata == {m1, m2, m3} \cap Entries
MCPaths == {"pool", "index"}
MCContents == {"artifact", "v0", "v1", "v2", "v3"}
MCPathOf == On(Entries, (m1 :> "index") @@ (a2 :> "pool") @@ (m2 :> "index") @@ (m3 :> "index"))
MCContentOf == On(Entries, (m1 :> "v1") @@ (a2 :> "artifact") @@ (m2 :> "v2") @@ (m3 :> "v3"))
MCPriority == [x \in Entries |-> 10]
MCCursors == {"c0", "c1", "c2"}
MCBase == On(Epochs, (e1 :> "c0") @@ (e2 :> "c1") @@ (rival :> "c0"))
MCTarget == On(Epochs, (e1 :> "c1") @@ (e2 :> "c2") @@ (rival :> "c2"))
MCSessionBatch == On(Sessions, (s1 :> b1) @@ (s2 :> b2) @@ (s3 :> b3))
MCInitialCursor == "c0"
MCInitialDisk == ("pool" :> None) @@ ("index" :> "v0")

Symmetry == Permutations(Threads)
=============================================================================
