--------------------------- MODULE MCQwenBroker ----------------------------
(* The instances of QwenBroker that TLC checks.                             *)
EXTENDS QwenBroker
=============================================================================
