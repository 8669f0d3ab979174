--------------------------- MODULE MCVideoStream ----------------------------
(* The instances of VideoStream that TLC checks.                            *)
EXTENDS VideoStream
=============================================================================
