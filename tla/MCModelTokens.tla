--------------------------- MODULE MCModelTokens ---------------------------
(* The instances of ModelTokens that TLC checks.                            *)
EXTENDS ModelTokens
=============================================================================
