--------------------------- MODULE MCLocatorLink ---------------------------
(* Few nodes, services and connections. *)
EXTENDS LocatorLink
=============================================================================
