--------------------------- MODULE MCBoardNumbers ---------------------------
(* Instances of BoardNumbers for TLC. *)
EXTENDS BoardNumbers, TLC
MCKeys == 1..3
=============================================================================
