---------------------------- MODULE MCBoardView ----------------------------
(* Instances of BoardView for TLC. *)
EXTENDS BoardView
CONSTANTS r1, r2, rel1, rel2
MCHours == (r1 :> 3) @@ (r2 :> None)
MCSymmetry == Permutations(Releases)
=============================================================================
