----------------------- MODULE ImportPublishProperties -----------------------
(***************************************************************************)
(* What makes the import side of the Mirror Agent correct: the safety and  *)
(* action properties of ImportPublish, the abstract specification it       *)
(* implements, and the inductive invariant the safety rests on.            *)
(***************************************************************************)
EXTENDS ImportPublish

(* imported_count counts every entry of a unit once, however often packs   *)
(* are committed again, by two requests at a time or after a crash: it is  *)
(* the number of the unit's rows in imported_entries (CommitImportedEntry).*)
ExactlyOnceCount ==
    \A u \in Units : unitImported[u] = Cardinality(imported \cap UnitEntries(u))

(* An artifact recorded as imported is in the repository and in the live   *)
(* catalog with its own content, and stays there (Install before the       *)
(* CommitImportedEntry transaction; no path is ever overwritten).          *)
Installed(x) == disk[PathOf[x]] = ContentOf[x] /\ catalog[PathOf[x]] = ContentOf[x]
ImportedIsInstalled == \A x \in imported \cap Artifacts : Installed(x)

(* A unit is served completely before its metadata appears: a step that    *)
(* changes a metadata file of the repository puts there the content of an  *)
(* entry all of whose unit has been imported, with its artifacts in place  *)
(* (the gate of PublishReady, whoever runs it and whenever it was read).   *)
MayAppear(m) ==
    /\ UnitEntries(UnitOf[m]) \subseteq imported
    /\ \A a \in UnitEntries(UnitOf[m]) \cap Artifacts : Installed(a)
MetadataLast ==
    [][\A path \in MetadataPaths : disk'[path] # disk[path] =>
         \E m \in Metadata : /\ PathOf[m] = path
                             /\ ContentOf[m] = disk'[path]
                             /\ MayAppear(m)]_vars

(* An imported batch has all its entries imported, and an epoch is         *)
(* publishable, published or complete only when all its entries are in     *)
(* and all its units are published, although CompleteBatch looks only at   *)
(* pack rows that other sessions may rewrite.                              *)
CompletionIsTotal ==
    /\ \A b \in Batches : batchStatus[b] = "IMPORTED" => BatchEntries(b) \subseteq imported
    /\ \A e \in Epochs : epochStatus[e] \in {"PUBLISHABLE", "PUBLISHED", "COMPLETE"} =>
         /\ EpochEntries(e) \subseteq imported
         /\ \A u \in EpochUnits(e) : unitStatus[u] = "PUBLISHED"

(* The cursor moves only along an epoch, from its base to its target, in   *)
(* the step that completes it with everything imported and published and   *)
(* that frees the source (CompleteEpoch).                                  *)
CursorAdvances ==
    [][cursor' # cursor =>
         \E e \in Epochs : /\ cursor = Base[e] /\ cursor' = Target[e]
                           /\ active = e /\ active' = None
                           /\ EpochEntries(e) \subseteq imported
                           /\ \A u \in EpochUnits(e) : unitStatus[u] = "PUBLISHED"]_vars

(* At most one epoch of the source is open, it is the one the source       *)
(* state names, and it starts at the live cursor: an older or competing    *)
(* bundle can neither join nor overtake it (RegisterImportBundle).         *)
OneOpenEpoch ==
    \A e \in Epochs : epochStatus[e] \notin {"ABSENT", "COMPLETE"} <=>
                      active = e /\ cursor = Base[e]

(* The agent implements MirrorSync: seen from outside it applies one epoch *)
(* after the other, each from its base and only once, and opens a unit     *)
(* only when it holds all of it.                                           *)
Mirror == INSTANCE MirrorSync WITH
    open <- active,
    held <- imported,
    released <- {u \in Units : unitStatus[u] = "PUBLISHED"},
    done <- {e \in Epochs : epochStatus[e] = "COMPLETE"}
MirrorSpec == Mirror!Spec

-----------------------------------------------------------------------------
(***************************************************************************)
(* The inductive invariant.  The status columns are the promises (a pack,  *)
(* a batch, a unit or an epoch that says so is complete); what a handler   *)
(* has read stays true until it acts on it, because imported_entries only  *)
(* grows, an installed artifact is never replaced and a status that was    *)
(* reached is never taken back.                                            *)
(***************************************************************************)
PackDone == \A p \in Packs : packStatus[p] = "IMPORTED" => PackEntries(p) \subseteq imported
BatchDone == \A b \in Batches : batchStatus[b] = "IMPORTED" => BatchEntries(b) \subseteq imported
UnitDone == \A u \in Units : unitStatus[u] = "PUBLISHED" => UnitEntries(u) \subseteq imported
EpochDone ==
    \A e \in Epochs : epochStatus[e] \in {"PUBLISHABLE", "PUBLISHED", "COMPLETE"} =>
        AllBatchesImported(e) /\ AllUnitsPublished(e)
OpenIsActive ==
    \A e \in Epochs : epochStatus[e] \notin {"ABSENT", "COMPLETE"} =>
        active = e /\ cursor = Base[e]

(* What a thread knows where it stands. *)
Walking(t) ==
    th[t].pc \in {"batch", "session", "entry", "insert"} =>
        th[t].p \in Packs /\ PackEntries(th[t].p) \ th[t].todo \subseteq imported
Inserting(t) ==
    At(t, "insert") /\ th[t].x \in Artifacts => disk[PathOf[th[t].x]] = ContentOf[th[t].x]
Listing(t) ==
    th[t].pc \in {"unit", "metadata", "rename", "catalog"} =>
        \A u \in th[t].ready : UnitEntries(u) \subseteq imported
Opening(t) ==
    th[t].pc \in {"metadata", "rename", "catalog"} =>
        /\ th[t].u \in Units
        /\ UnitEntries(th[t].u) \subseteq imported
        /\ th[t].todo \subseteq Metadata \cap UnitEntries(th[t].u)
Placing(t) == th[t].pc \in {"rename", "catalog"} => th[t].x \in th[t].todo
Completing(t) ==
    /\ At(t, "batchDone") => BatchEntries(BatchOfThread(t)) \subseteq imported
    /\ th[t].pc \in {"publishable", "publish", "complete"} =>
         AllBatchesImported(EpochOfThread(t)) /\ AllUnitsPublished(EpochOfThread(t))
ThreadInv(t) ==
    /\ Walking(t)
    /\ Listing(t)
    /\ Opening(t)
    /\ Placing(t)
    /\ Completing(t)

(* The rows and what the threads know of them.  None of this is about the  *)
(* files or the catalog, which maintenance may change too.                 *)
RowsInv ==
    /\ TypeOK
    /\ ExactlyOnceCount
    /\ PackDone
    /\ BatchDone
    /\ UnitDone
    /\ EpochDone
    /\ OpenIsActive
    /\ \A t \in Threads : ThreadInv(t)

(* The rows and the repository together: what Spec preserves step by step. *)
IInv ==
    /\ RowsInv
    /\ ImportedIsInstalled
    /\ \A t \in Threads : Inserting(t)

(* What belongs together: a session has its epoch, its pack rows are those *)
(* of its batch, and a thread works on the pack, entries and units of the  *)
(* session it serves.                                                      *)
SessionRows ==
    /\ \A s \in Sessions : session[s] # "ABSENT" =>
         epochStatus[EpochOf[SessionBatch[s]]] # "ABSENT"
    /\ \A s \in Sessions, p \in Packs : importPack[s][p] # "ABSENT" =>
         session[s] # "ABSENT" /\ BatchOf[p] = SessionBatch[s]
Belonging(t) ==
    /\ ~Resting(t) => session[th[t].s] # "ABSENT"
    /\ th[t].pc \in {"batch", "session", "entry", "insert"} =>
         BatchOf[th[t].p] = BatchOfThread(t) /\ th[t].todo \subseteq PackEntries(th[t].p)
    /\ At(t, "insert") => th[t].x \in th[t].todo
    /\ th[t].pc \in {"unit", "metadata", "rename", "catalog"} =>
         th[t].ready \subseteq EpochUnits(EpochOfThread(t))
    /\ th[t].pc \in {"metadata", "rename", "catalog"} => th[t].u \in EpochUnits(EpochOfThread(t))
Belongs == SessionRows /\ \A t \in Threads : Belonging(t)
=============================================================================
