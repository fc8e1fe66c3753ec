------------------------------ MODULE MCEngine ------------------------------
(* Few sessions and descriptors. *)
EXTENDS Engine
=============================================================================
