------------------------------ MODULE MCSaves ------------------------------
(* The two pages that save in the background, a form (Autosave) or a diagram   *)
(* (DiagramSave), in one graph of states: they share nothing, and the first    *)
(* state says which of them is open.                                          *)
EXTENDS Autosave

CONSTANTS Editors, DiagramEdits, MaxTrouble, MaxLoads

VARIABLES open, row, ed, made, trouble, loads, unread

diagram == <<row, ed, made, trouble, loads, unread>>

D == INSTANCE DiagramSave WITH server <- row, MaxEdits <- DiagramEdits

ASSUME DiagramAssumption == None \notin D!Diagram \cup D!Sent

SavesInit ==
    /\ Init /\ D!Init
    /\ \/ open = "form" /\ row.doc = {}
       \/ open = "diagram" /\ opts = [enabled |-> TRUE, delay |-> "pause"] /\ value = CHOOSE v \in Values \ Invalid : TRUE

(* Editors are alike: one of them is taken to be the first to open the page.   *)
First        == CHOOSE e \in Editors : TRUE
FirstIsFirst == loads = 0 => \A e \in Editors \ {First} : ~ed'[e].open

FormStep    == open = "form" /\ Next /\ UNCHANGED <<open, diagram>>
DiagramStep == open = "diagram" /\ D!Next /\ FirstIsFirst /\ UNCHANGED <<open, vars>>

(* The fairness of both; what is not open has nothing to do. *)
SavesSpec ==
    /\ SavesInit /\ [][FormStep \/ DiagramStep]_<<open, vars, diagram>>
    /\ Fairness /\ D!Fairness

SavedIsSaved      == D!SavedIsSaved
AcceptedStays     == D!AcceptedStays
EditsArriveOrTell == D!EditsArriveOrTell

(* False of the code: see the README.                                         *)
ImportStays         == D!ImportStays
ReadBeforeSaved     == D!ReadBeforeSaved
UnsavedIsAskedAbout == D!UnsavedIsAskedAbout
AloneWithoutConflict == D!AloneWithoutConflict

=============================================================================
