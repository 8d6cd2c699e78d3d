----------------------------- MODULE Registries -----------------------------
(***************************************************************************)
(* A source with the adapter of its ecosystem and the registry behind it.  *)
(* The adapters share the analysis and the catalog of the mirror; a source *)
(* has one of them (the adapter never changes), so a step is a step of the *)
(* source's adapter, or of the registry it reads, or of the mirror.        *)
(***************************************************************************)
EXTENDS Npm, Pypi, Apt

RegistriesInit == NpmInit /\ PypiInit /\ AptInit

RegistriesNext ==
    \/ NpmNext /\ UNCHANGED <<index, archive>>
    \/ PypiNext /\ UNCHANGED <<registry, archive>>
    \/ AptNext /\ UNCHANGED <<registry, index>>

RegistriesSpec ==
    /\ RegistriesInit
    /\ [][RegistriesNext]_<<anvars, registry, index, archive>>
    /\ NpmFairness /\ PypiFairness /\ AptFairness
=============================================================================
