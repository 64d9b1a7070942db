------------------------------ MODULE MCOutbox ------------------------------
(* Small instances of Outbox for TLC. *)
EXTENDS Outbox, TLC

CONSTANTS t1, t2, p1, p2, edit

OneTab  == {t1}
TwoTabs == {t1, t2}
OnePage == {p1}
TwoPages == {p1, p2}
OneEdit == {edit}
TabSymmetry == Permutations(TwoTabs)
PageSymmetry == Permutations(TwoPages)

=============================================================================
