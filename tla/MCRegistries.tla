---------------------------- MODULE MCRegistries ----------------------------
(***************************************************************************)
(* A source of each kind, with its own registry: npm packages and PyPI     *)
(* projects, and an APT suite of two indexes with three releases, the last *)
(* of which takes a pool file back and brings a new one.                   *)
(***************************************************************************)
EXTENDS Registries

MCRelease == <<[main |-> {1}, src |-> {2}],
               [main |-> {1, 3}, src |-> {2}],
               [main |-> {3}, src |-> {2, 4}]>>
=============================================================================
