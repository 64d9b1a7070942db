------------------------------ MODULE PageOps ------------------------------
(***************************************************************************)
(* The op applier for one page (backend/app/studio/ops.py; mirrored in the *)
(* browser by features/studio/model/applyOps.ts): what a batch of ops does *)
(* to a page, and when the whole batch is refused.                         *)
(*                                                                         *)
(* A page is its layout tree, of which only the set of regions matters,    *)
(* one component list per region, its own columns, the version at which    *)
(* each entity last changed and the page version.  A missing list is an    *)
(* empty one; a missing entity version is 0.  What a set writes inside a   *)
(* component, and the pos a move gives it, are one opaque value.           *)
(***************************************************************************)
EXTENDS Sublist

CONSTANTS
    Components,  \* component ids
    Regions,     \* region ids
    Values,      \* values of a component's or the page's settable fields
    NoRegion     \* "no region given" in a move

LayoutKey == "layout"
PageKey   == "page"
Keys      == Components \cup {LayoutKey, PageKey}

Component == [id : Components, val : Values]
Page == [tree : SUBSET Regions, lists : [Regions -> Seq(Component)],
         fields : Values, ev : [Keys -> Nat], version : Nat]

\* One op, by kind: set on a component, on the layout tree or on the page's
\* own columns; insert; remove; move, within the region when none is given.
Op == [op : {"set"}, cmp : Components, value : Values]
      \cup [op : {"root"}, tree : SUBSET Regions]
      \cup [op : {"page"}, value : Values]
      \cup [op : {"insert"}, cmp : Components, value : Values, region : Regions]
      \cup [op : {"remove"}, cmp : Components]
      \cup [op : {"move"}, cmp : Components, value : Values,
            region : Regions \cup {NoRegion}]

-----------------------------------------------------------------------------
(* Where things are *)

\* The places of component c, over every list: those of regions the tree
\* lost are searched too.
Spots(p, c) ==
    {s \in UNION {{r} \X DOMAIN p.lists[r] : r \in Regions} :
        p.lists[s[1]][s[2]].id = c}
Present(p, c) == Spots(p, c) # {}
Spot(p, c)    == CHOOSE s \in Spots(p, c) : TRUE
Without(p, c) ==
    LET s == Spot(p, c)
    IN  [p EXCEPT !.lists[s[1]] = Keep(@, DOMAIN @ \ {s[2]})]
WithLast(p, r, c) == [p EXCEPT !.lists[r] = Append(@, c)]

\* The entity an op is about; an insert is about the component it adds.
KeyOf(op) ==
    IF op.op = "root" THEN LayoutKey
    ELSE IF op.op = "page" THEN PageKey ELSE op.cmp

-----------------------------------------------------------------------------
(* One op *)

\* Mutant: only the lists the tree still shows are searched for the id.
LegalIgnoringInert(p, op) ==
    \/ op.op \in {"root", "page"}
    \/ /\ op.op = "insert"
       /\ \A s \in Spots(p, op.cmp) : s[1] \notin p.tree
       /\ op.region \in p.tree
    \/ op.op \in {"set", "remove"} /\ Present(p, op.cmp)
    \/ /\ op.op = "move" /\ Present(p, op.cmp)
       /\ op.region \in p.tree \cup {NoRegion}

\* The op names things that exist; otherwise it raises OpError.
Legal(p, op) ==
    \/ op.op \in {"root", "page"}
    \/ op.op = "insert" /\ ~Present(p, op.cmp) /\ op.region \in p.tree
    \/ op.op \in {"set", "remove"} /\ Present(p, op.cmp)
    \/ /\ op.op = "move" /\ Present(p, op.cmp)
       /\ op.region \in p.tree \cup {NoRegion}

\* The page after one legal op.  A new tree leaves the lists alone.
Effect(p, op) ==
    CASE op.op = "root"   -> [p EXCEPT !.tree = op.tree]
      [] op.op = "page"   -> [p EXCEPT !.fields = op.value]
      [] op.op = "insert" -> WithLast(p, op.region, [id |-> op.cmp, val |-> op.value])
      [] op.op = "remove" -> Without(p, op.cmp)
      [] op.op = "set"    ->
            LET s == Spot(p, op.cmp) IN [p EXCEPT !.lists[s[1]][s[2]].val = op.value]
      [] op.op = "move"   ->
            LET home == Spot(p, op.cmp)[1]
            IN  WithLast(Without(p, op.cmp),
                         IF op.region = NoRegion THEN home ELSE op.region,
                         [id |-> op.cmp, val |-> op.value])

-----------------------------------------------------------------------------
(* A batch *)

\* The page before op i + 1 of the batch; stuck at the first illegal op.
Stages(p, ops) ==
    LET stage[i \in 0 .. Len(ops)] ==
            IF i = 0 THEN p
            ELSE IF Legal(stage[i - 1], ops[i]) THEN Effect(stage[i - 1], ops[i])
            ELSE stage[i - 1]
    IN  stage

\* Mutant: what the client's own version brought is held against it.
InConflictFromBase(p, ops, base) ==
    \E i \in DOMAIN ops : ops[i].op # "insert" /\ p.ev[KeyOf(ops[i])] >= base

\* An op other than an insert names an entity changed since version base.
InConflict(p, ops, base) ==
    \E i \in DOMAIN ops : ops[i].op # "insert" /\ p.ev[KeyOf(ops[i])] > base

Invalid(p, ops) ==
    \/ ops = <<>>
    \/ \E i \in DOMAIN ops : ~Legal(Stages(p, ops)[i - 1], ops[i])

Touched(ops) == {KeyOf(ops[i]) : i \in DOMAIN ops}

\* The answer apply_batch gives; conflicts are found before any op runs.
Verdict(p, ops, base) ==
    IF ops # <<>> /\ InConflict(p, ops, base) THEN "conflict"
    ELSE IF Invalid(p, ops) THEN "invalid" ELSE "ok"

\* The page an accepted batch makes: all its ops, one version, one stamp.
Applied(p, ops) ==
    LET v == p.version + 1
    IN  [Stages(p, ops)[Len(ops)] EXCEPT
            !.version = v,
            !.ev = [k \in Keys |-> IF k \in Touched(ops) THEN v ELSE p.ev[k]]]

-----------------------------------------------------------------------------
(* Snapshots *)

\* export_page then import_page: the lists the tree shows, as a page that has
\* never been edited; lists the tree lost are not exported.  The export also
\* sorts each list by pos and numbers it anew, which changes no id and no
\* order on screen: pos is data here.
Restored(p) ==
    [p EXCEPT !.lists = [r \in Regions |-> IF r \in p.tree THEN p.lists[r] ELSE <<>>],
              !.ev = [k \in Keys |-> 0], !.version = 0]

\* What an entity is: the columns, the tree, or every copy of a component
\* with the region it is in.
Content(p, k) ==
    CASE k = PageKey   -> {p.fields}
      [] k = LayoutKey -> {p.tree}
      [] OTHER         -> {<<s[1], p.lists[s[1]][s[2]].val>> : s \in Spots(p, k)}

=============================================================================
