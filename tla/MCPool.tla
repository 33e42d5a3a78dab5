------------------------------- MODULE MCPool -------------------------------
(***************************************************************************)
(* The model-checking instance of Pool.  It declares no symmetry, which    *)
(* would be unsound for the liveness properties.                           *)
(***************************************************************************)
EXTENDS Pool
=============================================================================
