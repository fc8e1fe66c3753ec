----------------------------- MODULE MCContext -----------------------------
(* One configured and one extra service, of which one is pinned. *)
EXTENDS Context, TLC
CONSTANTS core, app

MCPinned == core :> 9
MCConfigured == <<core>>
=============================================================================
