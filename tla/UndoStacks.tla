----------------------------- MODULE UndoStacks -----------------------------
(* What the studio's undo promises: two stacks of steps. Undo moves the newest *)
(* step to the redo stack, redo moves it back, a new step empties the redo     *)
(* stack, and only the steps of a page are ever forgotten together.            *)
EXTENDS Sublist, SequencesExt

CONSTANT Limit   \* steps that are remembered

VARIABLES undo, redo,  \* the stacks, their tops last
          pages        \* the pages there are

Newest(s) == SubSeq(s, Len(s) - (IF Len(s) < Limit THEN Len(s) ELSE Limit) + 1, Len(s))
Without(s, p) == Keep(s, {i \in DOMAIN s : s[i].page # p})

\* The stack down to its newest step on a page there is.
Live(s) == LET alive == {i \in DOMAIN s : s[i].page \in pages}
           IN  IF alive = {} THEN <<>> ELSE SubSeq(s, 1, CHOOSE i \in alive : \A j \in alive : j <= i)

Commit == /\ undo' # <<>> /\ undo' = Newest(Append(undo, Last(undo')))
          /\ redo' = <<>> /\ UNCHANGED pages

\* A follow-up of the newest step, while nothing is undone.
Amend == /\ undo # <<>> /\ redo = <<>> /\ undo' # <<>>
         /\ undo' = Append(Front(undo), [Last(undo) EXCEPT !.after = Last(undo').after])
         /\ UNCHANGED <<redo, pages>>

Undo == LET s == Live(undo)
        IN  /\ IF s = <<>> THEN undo' = <<>> /\ UNCHANGED redo
               ELSE undo' = Front(s) /\ redo' = Append(redo, Last(s))
            /\ UNCHANGED pages
Redo == LET s == Live(redo)
        IN  /\ IF s = <<>> THEN redo' = <<>> /\ UNCHANGED undo
               ELSE redo' = Front(s) /\ undo' = Append(undo, Last(s))
            /\ UNCHANGED pages

Forget == \E p \in {s.page : s \in Range(undo \o redo)} :
              undo' = Without(undo, p) /\ redo' = Without(redo, p) /\ UNCHANGED pages

DeletePage == pages' \subseteq pages /\ UNCHANGED <<undo, redo>>

Init == undo = <<>> /\ redo = <<>>

Next == Commit \/ Amend \/ Undo \/ Redo \/ Forget \/ DeletePage

Spec == Init /\ [][Next]_<<undo, redo, pages>>
=============================================================================
