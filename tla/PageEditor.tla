----------------------------- MODULE PageEditor -----------------------------
(* One page between the editor and its row: what an action does to the page   *)
(* on the screen (model/actions.ts, tree.ts, positions.ts), the ops that the   *)
(* difference becomes (diff.ts), what the server and a rebase make of them     *)
(* (ops.py, its mirror applyOps.ts, useWireframeSync.ts), and what opening the *)
(* page makes of the row (normalizePage). One user, whose edits wait in the    *)
(* outbox, and another one, whose edits land at once.                         *)
(*                                                                           *)
(* A tree is its regions in reading order and their looks, one opaque value;  *)
(* a component has a position and an opaque body. Ids are numbers, handed out *)
(* in turn; 0 stands for the layout tree, and for no region given. A position *)
(* is a number: Unit apart when appended, halved in between.                  *)
EXTENDS Integers, SequencesExt

CONSTANTS
    None,
    Unit,        \* distance of two appended positions; halved by inserts in between
    StartPage,   \* the page as stored at first
    MaxId,       \* bound: ids handed out
    MaxEdits, MaxOthers, MaxOpens   \* bounds: my edits and undos, the other user's, my openings

VARIABLES
    row,      \* the stored page, entity versions, version
    local,    \* the page on the screen, its array order included; None: it crashed
    base,     \* the version local is based on
    queue,    \* my batches of ops that wait
    past,     \* the pages undo goes back to
    ids,      \* ids handed out so far
    edits, others, opens,
    onlyMine, \* since the page was opened nobody else changed it and nothing was refused
    gone,     \* ids the other user removed, and regions that a rebase of mine left out
    rebased,  \* a conflict has been settled by a rebase
    refused   \* the server has refused a batch

vars == <<row, local, base, queue, past, ids, edits, others, opens, onlyMine, gone, rebased, refused>>

Layout == 0
NoneGiven == 0

-----------------------------------------------------------------------------
(* A page *)

List(p, r) == IF r \in DOMAIN p.lists THEN p.lists[r] ELSE <<>>
WithList(p, r, l) == [p EXCEPT !.lists = (r :> l) @@ @]
WithoutList(p, r) == [p EXCEPT !.lists = [x \in DOMAIN @ \ {r} |-> @[x]]]
IdsIn(l) == {l[i].id : i \in DOMAIN l}
Placements(p) == UNION {IdsIn(p.lists[r]) : r \in DOMAIN p.lists}
Home(p, c) == CHOOSE r \in DOMAIN p.lists : c \in IdsIn(p.lists[r])
IndexOf(l, c) == CHOOSE i \in DOMAIN l : l[i].id = c
Find(p, c) == List(p, Home(p, c))[IndexOf(List(p, Home(p, c)), c)]
Take(p, c) == LET l == List(p, Home(p, c)) IN WithList(p, Home(p, c), RemoveAt(l, IndexOf(l, c)))

-----------------------------------------------------------------------------
(* Positions *)

Floor(a) == a - (a % Unit)

\* generateKeyBetween(a, b), which throws unless a < b.
KeyBetween(a, b) ==
    IF a = None /\ b = None THEN 0
    ELSE IF a = None THEN IF b % Unit = 0 THEN b - Unit ELSE Floor(b)
    ELSE IF b = None \/ Floor(a) + Unit < b THEN Floor(a) + Unit
    ELSE IF Floor(a) = Floor(b) THEN (a + b) \div 2
    ELSE (a + Floor(a) + Unit) \div 2

\* Position i of a list, 0 the first: between its neighbours as they stand.
Before(l, i) == IF i = 0 THEN None ELSE l[i].pos
Behind(l, i) == IF i = Len(l) THEN None ELSE l[i + 1].pos
HasKey(l, i) == Before(l, i) = None \/ Behind(l, i) = None \/ Before(l, i) < Behind(l, i)

Reposition(l) == [i \in DOMAIN l |-> [l[i] EXCEPT !.pos = (i - 1) * Unit]]
ByPos(l) ==
    LET order == SetToSortSeq(DOMAIN l, LAMBDA i, j : l[i].pos < l[j].pos \/ (l[i].pos = l[j].pos /\ i < j))
    IN  [k \in DOMAIN l |-> l[order[k]]]
StrictlySorted(l) == \A i \in 2..Len(l) : l[i - 1].pos < l[i].pos

FixList(l) == IF StrictlySorted(ByPos(l)) THEN ByPos(l) ELSE Reposition(ByPos(l))

NormalizePage(p) == [p EXCEPT !.lists = [r \in ToSet(p.tree) |-> FixList(List(p, r))]]

-----------------------------------------------------------------------------
(* Ops *)

KeyOf(op) == IF op.op = "root" THEN Layout ELSE op.cmp

Legal(p, op) ==
    CASE op.op = "root"   -> TRUE
      [] op.op = "insert" -> op.cmp \notin Placements(p) /\ op.region \in ToSet(p.tree)
      [] op.op = "move"   -> op.cmp \in Placements(p) /\ op.region \in ToSet(p.tree) \cup {NoneGiven}
      [] OTHER            -> op.cmp \in Placements(p)

Push(p, r, x) == WithList(p, r, Append(List(p, r), x))

Effect(p, op) ==
    CASE op.op = "root"   -> [p EXCEPT !.tree = op.tree, !.look = op.look]
      [] op.op = "insert" -> Push(p, op.region, op.value)
      [] op.op = "remove" -> Take(p, op.cmp)
      [] op.op = "set"    -> LET r == Home(p, op.cmp)
                                 i == IndexOf(p.lists[r], op.cmp)
                             IN  [p EXCEPT !.lists[r][i].body = op.value]
      [] op.op = "move"   -> Push(Take(p, op.cmp), IF op.region = NoneGiven THEN Home(p, op.cmp) ELSE op.region,
                                  [Find(p, op.cmp) EXCEPT !.pos = op.pos])

\* None when an op raises: the page is left as it was.
ApplyOps(p, ops) ==
    FoldLeft(LAMBDA q, op : IF q = None THEN None ELSE IF Legal(q, op) THEN Effect(q, op) ELSE None, p, ops)

\* What makes component x of region r out of page p.
OpsFor(p, r, x) ==
    IF x.id \notin Placements(p) THEN <<[op |-> "insert", cmp |-> x.id, region |-> r, value |-> x]>>
    ELSE LET was  == Find(p, x.id)
             home == Home(p, x.id)
         IN  (IF home = r /\ was.pos = x.pos THEN <<>>
              ELSE <<[op |-> "move", cmp |-> x.id, pos |-> x.pos, region |-> IF home = r THEN NoneGiven ELSE r]>>)
             \o (IF was.body = x.body THEN <<>> ELSE <<[op |-> "set", cmp |-> x.id, value |-> x.body]>>)

RootOps(p, q) == IF p.tree = q.tree /\ p.look = q.look THEN <<>>
                 ELSE <<[op |-> "root", tree |-> q.tree, look |-> q.look]>>
RemoveOps(p, q) ==
    LET lost == SetToSortSeq(Placements(p) \ Placements(q), <)
    IN  [i \in DOMAIN lost |-> [op |-> "remove", cmp |-> lost[i]]]
PlaceOps(p, q) ==
    FoldLeft(LAMBDA ops, r : ops \o FoldLeft(LAMBDA o, x : o \o OpsFor(p, r, x), <<>>, q.lists[r]),
             <<>>, SetToSortSeq(DOMAIN q.lists, <))

\* Mutant: the tree is set last.
DiffPageRootLast(p, q) == RemoveOps(p, q) \o PlaceOps(p, q) \o RootOps(p, q)
DiffPage(p, q) == RootOps(p, q) \o RemoveOps(p, q) \o PlaceOps(p, q)

-----------------------------------------------------------------------------
(* Actions: the pages each can make of p; none when it does nothing or throws *)

InsertCmp(p, r, i, x) ==
    LET l == List(p, r)
    IN  IF HasKey(l, i)
        THEN {WithList(p, r, InsertAt(l, i + 1, [x EXCEPT !.pos = KeyBetween(Before(l, i), Behind(l, i))]))}
        ELSE {}
AtEnd(p, r, x) == InsertCmp(p, r, Len(List(p, r)), x)

\* A region without a list stands for the first region.
RegionList(p, r) == IF r \in DOMAIN p.lists THEN r ELSE Head(p.tree)

AppendComponent(p, r, new) ==
    UNION {InsertCmp(p, RegionList(p, r), i, [id |-> new, pos |-> 0, body |-> "new"]) :
              i \in 0..Len(List(p, RegionList(p, r)))}

MoveComponent(p, c, delta) ==
    LET j == IndexOf(List(p, Home(p, c)), c) - 1 + delta
    IN  IF j \in 0..Len(List(p, Home(p, c))) - 1 THEN InsertCmp(Take(p, c), Home(p, c), j, Find(p, c)) ELSE {}

ReorderById(p, c, target, before) ==
    IF target = c THEN AtEnd(Take(p, c), Home(p, c), Find(p, c))
    ELSE LET q == Take(p, c)
             i == IndexOf(List(q, Home(q, target)), target)
         IN  InsertCmp(q, Home(q, target), IF before THEN i - 1 ELSE i, Find(p, c))

\* Leaving a canvas, or dropped at a point, its props change too.
MoveToRegion(p, c, r) ==
    IF r \in DOMAIN p.lists \ {Home(p, c)}
    THEN AtEnd(Take(p, c), r, Find(p, c)) \cup AtEnd(Take(p, c), r, [Find(p, c) EXCEPT !.body = "set"])
    ELSE {}

RemoveComponent(p, c) == {Take(p, c)}

\* Its label, shape, layout, elements or props; a size may make its region grow.
SetComponent(p, c) ==
    LET r == Home(p, c)
        q == [p EXCEPT !.lists[r][IndexOf(p.lists[r], c)].body = "set"]
    IN  {q, [q EXCEPT !.look = "styled"]}

SplitRegion(p, r, new, before) ==
    LET at == CHOOSE i \in DOMAIN p.tree : p.tree[i] = r
    IN  {WithList([p EXCEPT !.tree = InsertAt(@, IF before THEN at ELSE at + 1, new)], new, <<>>)}

RemoveRegion(p, r) == IF Len(p.tree) = 1 THEN {} ELSE {WithoutList([p EXCEPT !.tree = Remove(@, r)], r)}

\* A region's label, background or size; its direction, which sets or drops
\* the offsets of what is in it.
StyleRegion(p, r) ==
    LET q == [p EXCEPT !.look = "styled"]
        l == List(p, r)
    IN  {q, IF l = <<>> THEN q ELSE WithList(q, r, [i \in DOMAIN l |-> [l[i] EXCEPT !.body = "set"]])}

\* A pattern of regions a and b, for the page or for region r: its components
\* move to the first one. A region without a list stands for the page.
ApplyPattern(p, r, a, b) ==
    IF r \notin DOMAIN p.lists
    THEN {[p EXCEPT !.tree = <<a, b>>, !.lists = (a :> <<>>) @@ (b :> <<>>)]}
    ELSE LET at == CHOOSE i \in DOMAIN p.tree : p.tree[i] = r
             q  == [p EXCEPT !.tree = SubSeq(@, 1, at - 1) \o <<a, b>> \o SubSeq(@, at + 1, Len(@))]
         IN  {WithoutList(WithList(WithList(q, a, Reposition(p.lists[r])), b, <<>>), r)}

\* What can be pointed at: the components of the regions on the screen.
OnScreen(p) == UNION {IdsIn(List(p, r)) : r \in ToSet(p.tree)}

\* Every page an action makes of p, with the ids it takes.
OnComponents(p) ==
    UNION {RemoveComponent(p, c) \cup SetComponent(p, c) \cup MoveComponent(p, c, 1) \cup MoveComponent(p, c, -1)
           \cup UNION {MoveToRegion(p, c, r) : r \in ToSet(p.tree)}
           \cup UNION {ReorderById(p, c, t, before) : t \in OnScreen(p), before \in BOOLEAN} : c \in OnScreen(p)}
OnRegions(p) == UNION {StyleRegion(p, r) \cup RemoveRegion(p, r) : r \in ToSet(p.tree)}
WithOneId(p, new) == UNION {AppendComponent(p, r, new) \cup SplitRegion(p, r, new, TRUE)
                            \cup SplitRegion(p, r, new, FALSE) : r \in ToSet(p.tree)}
WithTwoIds(p, new) == UNION {ApplyPattern(p, r, new, new + 1) : r \in ToSet(p.tree) \cup {NoneGiven}}

Acts(p) ==
    {[page |-> q, taken |-> 0] : q \in OnComponents(p) \cup OnRegions(p)}
    \cup {[page |-> q, taken |-> 1] : q \in IF ids + 1 <= MaxId THEN WithOneId(p, ids + 1) ELSE {}}
    \cup {[page |-> q, taken |-> 2] : q \in IF ids + 2 <= MaxId THEN WithTwoIds(p, ids + 1) ELSE {}}

-----------------------------------------------------------------------------
(* My editor *)

CommitWith(next, ops) == local' = next /\ queue' = Append(queue, ops)

\* An action, as a step of history.
Commit(next, taken) ==
    LET ops == DiffPage(local, next)
    IN  /\ ops # <<>>
        /\ CommitWith(next, ops)
        /\ past' = Append(past, local)
        /\ ids' = ids + taken

Edit ==
    /\ local # None /\ edits < MaxEdits /\ edits' = edits + 1
    /\ \E act \in Acts(local) : Commit(act.page, act.taken)
    /\ UNCHANGED <<row, base, others, opens, onlyMine, gone, rebased, refused>>

Undo ==
    /\ local # None /\ past # <<>> /\ edits < MaxEdits /\ edits' = edits + 1
    /\ past' = Front(past)
    /\ IF DiffPage(local, Last(past)) = <<>> THEN UNCHANGED <<local, queue>>
       ELSE CommitWith(Last(past), DiffPage(local, Last(past)))
    /\ UNCHANGED <<row, base, ids, others, opens, onlyMine, gone, rebased, refused>>

\* What the page shows once it has arrived: the row normalised, and the ops
\* of that applied to it by sync.commit, a second time.
Migration(p) == DiffPage(p, NormalizePage(p))
Shown(p) == ApplyOps(NormalizePage(p), Migration(p))

\* Opening the page anew, once nothing waits: the other case is StudioSync's.
Open ==
    /\ opens < MaxOpens /\ opens' = opens + 1
    /\ queue = <<>>
    /\ local' = Shown(row.page) /\ base' = row.version
    /\ queue' = IF Migration(row.page) = <<>> THEN <<>> ELSE <<Migration(row.page)>>
    /\ onlyMine' = TRUE
    /\ UNCHANGED <<row, past, ids, edits, others, gone, rebased, refused>>

-----------------------------------------------------------------------------
(* The server; a batch is sent, handled and answered in one step *)

InConflict(ops) == \E i \in DOMAIN ops : ops[i].op # "insert" /\ row.ev[KeyOf(ops[i])] > base

Landed(r, ops) ==
    IF ops = <<>> THEN r
    ELSE [page |-> ApplyOps(r.page, ops), version |-> r.version + 1,
          ev |-> [k \in 0..MaxId |-> IF \E i \in DOMAIN ops : KeyOf(ops[i]) = k THEN r.version + 1 ELSE r.ev[k]]]

Accepted ==
    /\ row' = Landed(row, Head(queue)) /\ base' = row'.version
    /\ queue' = Tail(queue)
    /\ UNCHANGED <<local, past, onlyMine, gone, rebased, refused>>

\* 422: the batch is dropped, and what it did stays on the screen.
Rejected ==
    /\ queue' = Tail(queue) /\ refused' = TRUE /\ onlyMine' = FALSE
    /\ UNCHANGED <<row, local, base, past, gone, rebased>>

\* The dropped batches that still apply, on top of what the server has.
Rebase(p) ==
    FoldLeft(LAMBDA s, b : LET q == ApplyOps(s.page, b)
                           IN  IF q = None THEN s ELSE [page |-> q, queue |-> Append(s.queue, b)],
             [page |-> p, queue |-> <<>>], queue)

Conflicted ==
    LET read  == NormalizePage(row.page)
        fresh == Rebase(read)
    IN  /\ local' = IF local = None THEN None ELSE fresh.page
        /\ base' = row.version /\ queue' = fresh.queue /\ past' = <<>> /\ onlyMine' = FALSE
        /\ gone' = gone \cup (ToSet(read.tree) \ ToSet(fresh.page.tree))
        /\ rebased' = TRUE
        /\ UNCHANGED <<row, refused>>

Send ==
    /\ queue # <<>>
    /\ IF InConflict(Head(queue)) THEN Conflicted
       ELSE IF ApplyOps(row.page, Head(queue)) = None THEN Rejected
       ELSE Accepted
    /\ UNCHANGED <<ids, edits, others, opens>>

\* The other user opens the page, with what that sends, and makes an edit.
Theirs(next, taken) ==
    LET mine == Shown(row.page)
    IN  /\ DiffPage(mine, next) # <<>>
        /\ row' = Landed(Landed(row, Migration(row.page)), DiffPage(mine, next))
        /\ gone' = gone \cup (Placements(mine) \ Placements(next)) \cup (ToSet(mine.tree) \ ToSet(next.tree))
        /\ ids' = ids + taken

Other ==
    /\ others < MaxOthers /\ others' = others + 1
    /\ Shown(row.page) # None
    /\ \E act \in Acts(Shown(row.page)) : Theirs(act.page, act.taken)
    /\ onlyMine' = FALSE
    /\ UNCHANGED <<local, base, queue, past, edits, opens, rebased, refused>>

-----------------------------------------------------------------------------
Init ==
    /\ row = [page |-> StartPage, version |-> 0, ev |-> [k \in 0..MaxId |-> 0]]
    /\ local = NormalizePage(StartPage) /\ base = 0 /\ queue = <<>> /\ past = <<>>
    /\ ids = CHOOSE n \in ToSet(StartPage.tree) \cup Placements(StartPage) :
                 \A m \in ToSet(StartPage.tree) \cup Placements(StartPage) : m <= n
    /\ edits = 0 /\ others = 0 /\ opens = 0
    /\ onlyMine = TRUE /\ gone = {} /\ rebased = FALSE /\ refused = FALSE

Next == Edit \/ Undo \/ Open \/ Send \/ Other

Spec == Init /\ [][Next]_vars

-----------------------------------------------------------------------------
(* What the server has once my batches have landed. *)
Stored == ApplyOps(row.page, FlattenSeq(queue))

(* Every batch that waits applies to the row, and makes of it what the editor *)
(* holds, position by position: the ops of a difference are complete and in   *)
(* an order the server can follow, after any actions, undos and openings. (A  *)
(* rebased page may hold lists its tree has lost, and undo goes back there.)  *)
HoldsWhatIsStored ==
    onlyMine /\ ~rebased /\ local # None =>
        /\ Stored # None
        /\ Stored.tree = local.tree /\ Stored.look = local.look
        /\ \A r \in ToSet(local.tree) : ToSet(List(Stored, r)) = ToSet(List(local, r))

(* The first batch the server refuses as invalid names something the other    *)
(* user has removed, or a region of theirs that a replayed layout left out:   *)
(* what cannot be applied any more is not sent again after a conflict, and    *)
(* no order of actions, undos and openings makes such a batch by itself.      *)
RefusedOnlyWhenGone ==
    [][refused' /\ ~refused =>
          \E i \in DOMAIN Head(queue) :
              LET op == Head(queue)[i]
              IN  KeyOf(op) \in gone \/ (op.op \in {"insert", "move"} /\ op.region \in gone)]_vars

(* "The diff of raw -> normalised applied to the stored document reproduces   *)
(* exactly what the editor shows" (StudioPage.tsx:265-266): false, as its ops *)
(* are applied to the page on the screen too, where they reorder lists, or    *)
(* name components that normalising has removed.                              *)
ShowsWhatIsStored ==
    onlyMine => /\ local # None
                /\ Stored # None
                /\ \A r \in ToSet(local.tree) : List(local, r) = ByPos(List(Stored, r))

(* "A list's array order always equals its pos order" (actions.ts:6-7): false *)
(* of a rebased page too.                                                     *)
ListsAreSorted == local # None => \A r \in DOMAIN local.lists : StrictlySorted(local.lists[r])

(* A region of the page has its list (positions.ts normalizePage): false of a *)
(* split that was rebased, so what is dropped in the region goes to the first *)
(* one, and a pattern dropped there replaces the page.                        *)
RegionsHaveLists == local # None => ToSet(local.tree) \subseteq DOMAIN local.lists

(* What one user adds while another removes its region lands, and is kept:    *)
(* false, as neither op conflicts with the other.                             *)
LandingIsShown == \A c \in Placements(row.page) : Home(row.page, c) \in ToSet(row.page.tree)
=============================================================================
