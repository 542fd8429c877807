-------------------------- MODULE MCUpdateBoundary --------------------------
(* Instance of UpdateBoundary. *)
EXTENDS UpdateBoundary
=============================================================================
