------------------------------ MODULE Capsule ------------------------------
(***************************************************************************)
(* The export of a state capsule beside imports.  CapsuleService.Export    *)
(* reads the state of the source (its cursor and its active epoch) and     *)
(* then copies its catalog, in two transactions; the archive they go into  *)
(* is renamed into place when it is whole.  The catalog the capsule holds  *)
(* is what the next epoch is planned against.                              *)
(***************************************************************************)
EXTENDS Serving

VARIABLE
    capsule  \* the capsule: parts read so far, and what was read

cvars == <<svars, capsule>>

NoCapsule == [read |-> {}, cursor |-> None, active |-> None, catalog |-> <<>>]

CapsuleInit == ServingInit /\ capsule = NoCapsule

(* The order in which Export reads the two parts. *)
CatalogFirst == <<"catalog", "state">>
Parts == <<"state", "catalog">>

Take(part) ==
    [capsule EXCEPT
        !.read = @ \cup {part},
        !.cursor = IF part = "state" THEN cursor ELSE @,
        !.active = IF part = "state" THEN active ELSE @,
        !.catalog = IF part = "catalog" THEN catalog ELSE @]

Complete == capsule.read = {"state", "catalog"}

(* GetState, then ExportSource; a capsule that is whole may be followed by *)
(* another one.                                                            *)
Export(i) ==
    /\ Parts[i] \notin capsule.read
    /\ \A j \in 1..(i - 1) : Parts[j] \in capsule.read
    /\ capsule' = Take(Parts[i])
    /\ UNCHANGED svars

ExportAgain ==
    /\ Complete
    /\ capsule' = NoCapsule
    /\ UNCHANGED svars

CapsuleNext ==
    \/ ServingNext /\ UNCHANGED capsule
    \/ \E i \in DOMAIN Parts : Export(i)
    \/ ExportAgain

CapsuleSpec == CapsuleInit /\ [][CapsuleNext]_cvars

-----------------------------------------------------------------------------
(* A capsule is a promise when AnalyzeSource takes it (no active epoch in  *)
(* it) and the agent would register an epoch planned from it (its cursor   *)
(* is the live one, and no epoch is open): then its catalog is the live    *)
(* catalog, although an epoch may have been registered, imported or        *)
(* completed between the two reads or since; but for the files that a      *)
(* publisher has changed after its epoch.                                  *)
SameButDisturbed(listed) ==
    \A path \in Paths : path \in disturbed \/ listed[path] = catalog[path]
RegistrableCapsuleIsExact ==
    Complete /\ capsule.active = None /\ active = None /\ capsule.cursor = cursor
        => SameButDisturbed(capsule.catalog)
=============================================================================
