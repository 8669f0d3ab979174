----------------------------- MODULE MCSSEPump -----------------------------
(* The instances of SSEPump that TLC checks.                                *)
EXTENDS SSEPump
=============================================================================
