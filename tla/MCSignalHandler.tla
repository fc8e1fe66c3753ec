-------------------------- MODULE MCSignalHandler --------------------------
(* The signal handler with the signals of the runtime. *)
EXTENDS SignalHandler
=============================================================================
