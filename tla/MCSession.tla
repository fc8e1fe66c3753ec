----------------------------- MODULE MCSession -----------------------------
(* The session with one service thread and a few channel ids. *)
EXTENDS Session
=============================================================================
