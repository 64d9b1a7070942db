------------------------------ MODULE MCEdits ------------------------------
(* Edits on their way to a page: the handlers of op batches beside the lock,   *)
(* branches and restores (OpServer), or what the editor makes of a page and    *)
(* what becomes of the ops (PageEditor). The two share nothing and make one    *)
(* graph of states: the first state says which.                               *)
EXTENDS MCOpServer

CONSTANTS Unit, MaxId, MaxEdits, MaxOthers, MaxOpens

VARIABLES side, stored, local, base, queue, past, ids, edits, others, opens,
          onlyMine, gone, rebased, refused

editor == <<stored, local, base, queue, past, ids, edits, others, opens,
            onlyMine, gone, rebased, refused>>

\* Two regions, in the first one a component that was added third.
Drawn == [tree |-> <<1, 2>>, look |-> "plain",
          lists |-> (1 :> <<[id |-> 3, pos |-> 2 * Unit, body |-> "new"]>>) @@ (2 :> <<>>)]

E == INSTANCE PageEditor WITH row <- stored, StartPage <- Drawn

EditsInit == side \in {"handlers", "editor"} /\ Init /\ E!Init

HandlerStep == side = "handlers" /\ Next /\ UNCHANGED <<side, editor>>
EditorStep  == side = "editor" /\ E!Next /\ UNCHANGED <<side, vars>>

EditsSpec == EditsInit /\ [][HandlerStep \/ EditorStep]_<<side, vars, editor>>

FairEditsSpec == EditsSpec /\ \A s \in Slots : SF_vars(Handler(s))

HoldsWhatIsStored   == E!HoldsWhatIsStored
RefusedOnlyWhenGone == E!RefusedOnlyWhenGone
ShowsWhatIsStored   == E!ShowsWhatIsStored
ListsAreSorted      == E!ListsAreSorted
RegionsHaveLists    == E!RegionsHaveLists
LandingIsShown      == E!LandingIsShown

=============================================================================
