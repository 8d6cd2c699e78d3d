---------------------------- MODULE CapsuleProofs ----------------------------
(***************************************************************************)
(* A capsule that an epoch can be planned from and registered with holds   *)
(* the live catalog, but for what publishers have changed after their      *)
(* epoch, for any number of epochs, handlers and capsules, if the cursors  *)
(* of the source never come back.                                          *)
(***************************************************************************)
EXTENDS Capsule, ImportPublishRefinement

(* Exports only read: what holds of imports holds beside them. *)
THEOREM ExportsOnlyRead == CapsuleSpec => ServingSpec
<1>1. CapsuleInit => ServingInit
  BY DEF CapsuleInit
<1>2. [CapsuleNext]_cvars => [ServingNext]_svars
  BY DEF CapsuleNext, Export, ExportAgain, cvars
<1> QED BY <1>1, <1>2, PTL DEF CapsuleSpec, ServingSpec

-----------------------------------------------------------------------------
(* With no epoch open the catalog stands still, disturbed files apart.     *)
LEMMA CatalogStandsStill ==
    ASSUME RowsInv, Belongs, [Next]_vars, Witness, active = None,
           NEW path \in Paths, path \notin disturbed'
    PROVE  catalog'[path] = catalog[path]
<1>1. ASSUME NEW t \in Threads, CommitImportedEntry(t), catalog' # catalog
      PROVE  FALSE
  <2>1. At(t, "insert") /\ th[t].x \notin imported
    BY <1>1 DEF CommitImportedEntry, Known
  <2>2. \E e \in Epochs : active = e
    BY <2>1, EntryInHand
  <2> QED BY <2>2, SourceAssumption
<1>2. ASSUME NEW t \in Threads, CatalogMetadata(t), catalog'[path] # catalog[path]
      PROVE  FALSE
  <2>1. At(t, "catalog") /\ Publishing(t) /\ th[t].x \in Metadata
    BY <1>2 DEF CatalogMetadata, Publishing, At, RowsInv, ThreadInv, Opening, Placing
  <2>2. PathOf[th[t].x] = path
    BY <1>2 DEF CatalogMetadata, RowsInv, TypeOK
  <2>3. path \in MetadataPaths /\ th'[t] # th[t]
    BY <1>2, <2>1, <2>2, PublisherMovesOn DEF MetadataPaths, RowsInv
  <2>4. ~Outlived(t)
    BY <1>2, <2>3, WriterIsCurrent
  <2> QED BY <2>1, <2>4, PublisherIsCurrent
<1> QED BY <1>1, <1>2, RepositoryWriters

(* The cursor is read first and only moves up, and it moves whenever an    *)
(* open epoch ends: a catalog that was read while one was open belongs to  *)
(* a cursor that is no longer the live one when none is.                   *)
CapsuleRecords ==
    [read : {{}, {"state"}, {"state", "catalog"}}, cursor : Cursors \cup {None},
     active : Epochs \cup {None}, catalog : [Paths -> ContentOrNone] \cup {<<>>}]
CapsuleInv(rank) ==
    /\ capsule \in CapsuleRecords
    /\ "state" \in capsule.read =>
         capsule.cursor \in Cursors /\ rank[capsule.cursor] <= rank[cursor]
    /\ Complete /\ active = None /\ capsule.cursor = cursor => SameButDisturbed(capsule.catalog)

LEMMA CapsuleStaysExact ==
    ASSUME RowsInv, Belongs, NEW rank, Ascending(rank), ChainInv(rank),
           [Next]_vars, Witness, UNCHANGED capsule, CapsuleInv(rank)
    PROVE  CapsuleInv(rank)'
<1> DEFINE goes == cursor' = cursor /\ (active' = None => active = None)
           done == /\ active \in Epochs
                   /\ cursor = Base[active] /\ cursor' = Target[active]
<1>0. /\ cursor \in Cursors /\ Base \in [Epochs -> Cursors] /\ Target \in [Epochs -> Cursors]
      /\ rank \in [Cursors -> Nat]
  BY SourceAssumption DEF RowsInv, TypeOK, Ascending
<1>1. CASE goes
  <2>1. ASSUME active' = None, NEW path \in Paths, path \notin disturbed'
        PROVE  catalog'[path] = catalog[path] /\ path \notin disturbed
    BY <1>1, <2>1, CatalogStandsStill DEF Witness
  <2> QED BY <1>1, <2>1 DEF CapsuleInv, Complete, SameButDisturbed
<1>2. CASE done
  <2>1. rank[cursor] < rank[cursor'] /\ rank[cursor] \in Nat /\ rank[cursor'] \in Nat
    BY <1>0, <1>2 DEF Ascending
  <2>2. "state" \in capsule.read =>
          rank[capsule.cursor] < rank[cursor'] /\ capsule.cursor # cursor'
    BY <1>0, <2>1 DEF CapsuleInv
  <2> QED BY <1>0, <2>1, <2>2 DEF CapsuleInv, Complete
<1>3. goes \/ done
  BY CompletionStep
<1> QED BY <1>1, <1>2, <1>3

LEMMA ExportTakes ==
    ASSUME TypeOK, NEW rank, Ascending(rank), CapsuleInv(rank), NEW i \in DOMAIN Parts, Export(i)
    PROVE  CapsuleInv(rank)'
<1>0. /\ cursor \in Cursors /\ active \in Epochs \cup {None}
      /\ catalog \in [Paths -> ContentOrNone] /\ rank[cursor] \in Nat
      /\ UNCHANGED <<cursor, active, catalog, disturbed>>
  BY DEF TypeOK, Ascending, Export, svars, vars, source, repository
<1>1. capsule \in CapsuleRecords
  BY DEF CapsuleInv
<1>2. CASE i = 1
  <2>1. "state" \notin capsule.read /\ capsule' = Take("state")
    BY <1>2 DEF Export, Parts
  <2>2. capsule.read = {}
    BY <1>1, <2>1 DEF CapsuleRecords
  <2>3. /\ capsule' \in CapsuleRecords /\ capsule'.read = {"state"}
        /\ capsule'.cursor = cursor
    BY <1>0, <1>1, <2>1, <2>2 DEF Take, CapsuleRecords
  <2> QED BY <1>0, <2>3 DEF CapsuleInv, Complete
<1>3. CASE i = 2
  <2>1. "catalog" \notin capsule.read /\ "state" \in capsule.read /\ capsule' = Take("catalog")
    <3>1. 1 \in 1..(i - 1)
      BY <1>3
    <3> QED BY <1>3, <3>1 DEF Export, Parts
  <2>2. capsule.read = {"state"}
    BY <1>1, <2>1 DEF CapsuleRecords
  <2>3. /\ capsule' \in CapsuleRecords /\ capsule'.read = {"state", "catalog"}
        /\ capsule'.cursor = capsule.cursor /\ capsule'.catalog = catalog
    BY <1>0, <1>1, <2>1, <2>2 DEF Take, CapsuleRecords
  <2> QED BY <1>0, <2>1, <2>3 DEF CapsuleInv, Complete, SameButDisturbed
<1>4. i = 1 \/ i = 2
  BY DEF Parts
<1> QED BY <1>2, <1>3, <1>4

LEMMA CapsuleKeeps ==
    ASSUME RowsInv, Belongs, NEW rank, Ascending(rank), ChainInv(rank),
           [CapsuleNext]_cvars, CapsuleInv(rank)
    PROVE  CapsuleInv(rank)'
<1>1. CASE ServingNext /\ UNCHANGED capsule
  <2>1. [Next]_vars /\ Witness
    BY <1>1, WitnessedStep
  <2> QED BY <1>1, <2>1, CapsuleStaysExact
<1>2. ASSUME NEW i \in DOMAIN Parts, Export(i)
      PROVE  CapsuleInv(rank)'
  BY <1>2, ExportTakes DEF RowsInv
<1>3. CASE ExportAgain
  BY <1>3 DEF ExportAgain, NoCapsule, CapsuleInv, CapsuleRecords, Complete
<1>4. CASE UNCHANGED cvars
  BY <1>4 DEF cvars, svars, vars, source, repository, CapsuleInv, Complete, SameButDisturbed
<1> QED BY <1>1, <1>2, <1>3, <1>4 DEF CapsuleNext

(* A capsule from which an epoch can be planned and registered, because it *)
(* names no active epoch and its cursor is the live one with no epoch      *)
(* open, holds the live catalog, disturbed files apart: the state is read  *)
(* before the catalog, and the check of the base in RegisterImportBundle   *)
(* does the rest.                                                          *)
THEOREM CapsuleIsExact ==
    ASSUME NEW CONSTANT rank, Ascending(rank)
    PROVE  CapsuleSpec => []RegistrableCapsuleIsExact
<1>1. CapsuleInit => CapsuleInv(rank)
  BY DEF CapsuleInit, NoCapsule, CapsuleInv, CapsuleRecords, Complete
<1>2. /\ RowsInv /\ Belongs /\ ChainInv(rank) /\ CapsuleInv(rank)
      /\ [CapsuleNext]_cvars
      => CapsuleInv(rank)'
  BY CapsuleKeeps
<1>3. CapsuleInv(rank) => RegistrableCapsuleIsExact
  BY DEF CapsuleInv, RegistrableCapsuleIsExact
<1> QED
  BY <1>1, <1>2, <1>3, ExportsOnlyRead, ServingIsImporting, RowsInvariant, EverythingBelongs,
     ChainInvariant, PTL
  DEF CapsuleSpec
=============================================================================
