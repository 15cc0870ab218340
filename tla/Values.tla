------------------------------- MODULE Values -------------------------------
(***************************************************************************)
(* The null value, which the modules of the query processor share.         *)
(***************************************************************************)
CONSTANT NULL
=============================================================================
