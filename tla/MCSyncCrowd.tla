---------------------------- MODULE MCSyncCrowd ----------------------------
(* Two tabs that edit, or a single one on a version that is also locked,       *)
(* unlocked and restored, and on a page that is left and opened again. Of the  *)
(* ids, one is left to an edit that is made again after a conflict.            *)
EXTENDS MCStudioSync

TwoAtWork == \A t \in Tabs : tab[t].life = "open"

Crowd ==
    IF TwoAtWork
    THEN /\ opened' = {} /\ ~frozen' /\ ~restored'
         /\ nextId' > MaxId => \E i \in Ids : origin'[i] # i
    ELSE nextId' <= MaxId /\ Cardinality(late') <= 1

=============================================================================
