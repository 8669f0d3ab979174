---------------------------- MODULE MCIPRotator ----------------------------
(* Instance of IPRotator for TLC.                                           *)
EXTENDS IPRotator
=============================================================================
