------------------------------ MODULE MCPages ------------------------------
(* A page under handlers of op batches that overlap (OpServer), under op      *)
(* batches in turn (PageHistory), or under undo and redo across a shell and a *)
(* page inside it (UndoHistory). The three share nothing and make one graph   *)
(* of states: the first state says which.                                     *)
EXTENDS MCOpServer

CONSTANTS
    r2, FirstPage, OpLists, MaxVersion,                  \* server
    shell, inner, AllPages, First, Shells,               \* studio
    Limit, MaxEdits, MaxSteps, MaxVisits

VARIABLES
    side, page, changed,
    pages, server, copy, known, queue, reloads, view, tl, hook, made, pressed

studio == <<pages, server, copy, known, queue, reloads, view, tl, hook, made, pressed>>

-----------------------------------------------------------------------------
TwoRegions == {r1, r2}

\* create_page gives a page one region or more, no components.
NewPage == [tree |-> TwoRegions, lists |-> [r \in TwoRegions |-> <<>>],
            fields |-> v1, ev |-> [k \in Keys |-> 0], version |-> 0]

(* Handlers: two edits of component c1 that exclude each other, an insert of  *)
(* c2, the removal of what it inserted, and a retry whose base was raised.    *)
ThreeSlots == {s1, s2, s3}
Painted    == [NewPage EXCEPT !.lists[r1] = <<[id |-> c1, val |-> v1]>>]
Requests   == Edits \cup {Request(1, 1, Set(c1, v2)), Request(3, 0, Insert(c2)),
                          Request(4, 1, Remove(c2))}

(* Batches in turn: only a set writes the second value.                       *)
SomeOps    == {o \in Op : o.op \in {"insert", "move"} => o.value = v1}
UpToTwoOps == {<<o>> : o \in SomeOps} \cup {<<o1, o2>> : o1, o2 \in SomeOps}

P == INSTANCE PageHistory WITH InitialPage <- FirstPage, Batches <- OpLists

\* A page is created with component ids of its own, stamped at no later
\* version than its own. None stands for no page, and some steps are
\* remembered (HISTORY_LIMIT).
ASSUME PagesAssumption ==
    /\ FirstPage \in Page /\ OpLists \subseteq Seq(Op)
    /\ \A k \in Keys : FirstPage.ev[k] <= FirstPage.version
    /\ \A from, to \in Regions :
          \A i \in DOMAIN FirstPage.lists[from], j \in DOMAIN FirstPage.lists[to] :
              FirstPage.lists[from][i].id = FirstPage.lists[to][j].id => from = to /\ i = j
    /\ None \notin AllPages /\ Limit \in Nat \ {0}

(* A shell around one page.                                                   *)
TwoPages == {shell, inner}
ShellOf  == (shell :> {}) @@ (inner :> {shell})

U == INSTANCE UndoHistory

-----------------------------------------------------------------------------
PagesInit == side \in {"handlers", "server", "studio"} /\ Init /\ P!Init /\ U!Init

HandlerStep == side = "handlers" /\ Next /\ UNCHANGED <<side, page, changed, studio>>
BatchStep   == side = "server" /\ P!Next /\ UNCHANGED <<side, vars, studio>>
StudioStep  == side = "studio" /\ U!Next /\ UNCHANGED <<side, vars, page, changed>>

PagesSpec == PagesInit /\ [][HandlerStep \/ BatchStep \/ StudioStep]_<<side, vars, page, changed, studio>>

SlotSymmetry == Permutations(ThreeSlots)

UniqueIds            == P!UniqueIds
ConflictsAreExact    == side = "server" => P!ConflictsAreExact
NotAcceptedTwice     == side = "server" => P!NotAcceptedTwice
FollowsCursor        == U!FollowsCursor
TwoStacks            == U!TwoStacks
StepWaits            == U!StepWaits
UndoKeepsOthers      == U!UndoKeepsOthers
ReloadedIsForgotten  == U!ReloadedIsForgotten

=============================================================================
