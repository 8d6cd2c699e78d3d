------------------------------ MODULE Analysis ------------------------------
(***************************************************************************)
(* What the ecosystem adapters share.  An analysis compares the upstream   *)
(* registry with the catalog of a state capsule and hands a plan to the    *)
(* client store (ports.PlanSink): publish units with the number of their   *)
(* artifacts, and the artifacts.  Download, transfer and import of a plan  *)
(* have modules of their own; here a committed plan is applied in one step *)
(* to the catalog.                                                         *)
(*                                                                         *)
(* A path is <<name, number>>: <<p, 0>> is the metadata of p (a packument, *)
(* a project page, an index), <<p, n>> its file n.  A content is a         *)
(* revision with the files it lists.                                       *)
(***************************************************************************)
EXTENDS Integers, FiniteSets, Functions, FiniteSetsExt

CONSTANTS
    Adapters,  \* the adapters a source may have: "npm", "pypi", "apt"
    Redeclare  \* may a unit be declared again with another count?  The
               \* store refuses it: FALSE

ASSUME AnalysisAssumption == Redeclare \in BOOLEAN

VARIABLES
    adapter,  \* the adapter of the source, by its type and provider
    step,     \* where the analysis is; "idle" when there is none
    plan,     \* the epoch of the last analysis with its planned rows
    cursor,   \* the cursor of the mirror, 0 for an empty one
    catalog   \* the catalog of the mirror: [path -> content]

anvars == <<adapter, step, plan, cursor, catalog>>

(* A table after rows have been put in it, over those it has at their keys. *)
Put(table, rows) ==
    [key \in DOMAIN rows \cup DOMAIN table |->
        IF key \in DOMAIN rows THEN rows[key] ELSE table[key]]
Row(key, value) == [k \in {key} |-> value]
NoRow == <<>>

NoPlan == [status |-> "none", target |-> 0, required |-> <<>>, artifacts |-> <<>>]
Blob == [rev |-> 0, files |-> {}]

AnalysisInit ==
    /\ adapter \in Adapters
    /\ step = "idle"
    /\ plan = NoPlan
    /\ cursor = 0
    /\ catalog = <<>>

(* Begin, with the target as soon as it is known.  FindOpenEpoch asks for  *)
(* an open epoch of the same capsule only: with a new capsule the operator *)
(* plans anew, whatever became of the last plan.                           *)
Begin(target, next) ==
    /\ step = "idle"
    /\ plan' = [NoPlan EXCEPT !.status = "PLANNED", !.target = target]
    /\ step' = next
    /\ UNCHANGED <<adapter, cursor, catalog>>

(* An artifact is planned when the capsule's catalog does not have it, or  *)
(* has something else at its path; a file that only ever has one content   *)
(* when it is not listed.                                                  *)
NotListed(path, content) == path \notin DOMAIN catalog
Needed(path, content) == path \notin DOMAIN catalog \/ catalog[path] # content
Add(content) == [op |-> "ADD", content |-> content]
Tombstone == [op |-> "DELETE", content |-> Blob]

(* PutPublishUnit: a declaration is repeated only as it was. *)
Declarable(p, unit, n) ==
    unit \in DOMAIN p.required => p.required[unit] = n \/ Redeclare
Declared(p, unit, n) == [p EXCEPT !.required = Put(@, Row(unit, n))]

(* PutArtifact, for all artifacts of a unit. *)
With(p, unit, artifacts) ==
    [p EXCEPT !.artifacts = Put(@, [path \in DOMAIN artifacts |->
                  [op |-> artifacts[path].op, content |-> artifacts[path].content,
                   unit |-> unit]])]

OfUnit(p, unit) == {path \in DOMAIN p.artifacts : p.artifacts[path].unit = unit}

(* Commit counts the rows again: no artifact without its unit, and as many *)
(* of a unit as it has declared.                                           *)
Consistent(p) ==
    /\ \A path \in DOMAIN p.artifacts : p.artifacts[path].unit \in DOMAIN p.required
    /\ \A unit \in DOMAIN p.required : Cardinality(OfUnit(p, unit)) = p.required[unit]

Aborted == plan' = [plan EXCEPT !.status = "FAILED"] /\ step' = "idle"

Commit ==
    /\ IF Consistent(plan)
         THEN plan' = [plan EXCEPT !.status = "COMMITTED"] /\ step' = "idle"
         ELSE Aborted
    /\ UNCHANGED <<adapter, cursor, catalog>>

(* The agent after the import of an epoch. *)
Tombstones(p) == {path \in DOMAIN p.artifacts : p.artifacts[path].op = "DELETE"}
Imported(c, p) ==
    [path \in (DOMAIN c \cup DOMAIN p.artifacts) \ Tombstones(p) |->
        IF path \in DOMAIN p.artifacts THEN p.artifacts[path].content ELSE c[path]]

Import ==
    /\ step = "idle"
    /\ plan.status = "COMMITTED"
    /\ catalog' = Imported(catalog, plan)
    /\ cursor' = plan.target
    /\ plan' = NoPlan
    /\ UNCHANGED <<adapter, step>>
=============================================================================
