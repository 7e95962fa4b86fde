------------------------------ MODULE MCBuffer ------------------------------
(* A Buffer of a few bytes. *)
EXTENDS Buffer
=============================================================================
