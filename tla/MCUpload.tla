------------------------------ MODULE MCUpload ------------------------------
(***************************************************************************)
(* A pack of three chunks, the last one short.                             *)
(***************************************************************************)
EXTENDS Upload

CONSTANTS h1, h2
=============================================================================
