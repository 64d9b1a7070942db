---------------------------- MODULE PageHistory ----------------------------
(***************************************************************************)
(* One project_pages row under any sequence of op batches: what the op     *)
(* applier (module PageOps) guarantees about the document and about the    *)
(* entity versions its conflict check relies on.                           *)
(***************************************************************************)
EXTENDS PageOps

CONSTANTS
    InitialPage,  \* the page as it was created
    Batches,      \* the op lists clients may send
    MaxVersion    \* bound: page version

VARIABLES
    page,    \* the row
    changed  \* history: what the n-th accepted batch named or altered

vars == <<page, changed>>

\* What a user means by an op: a component, the layout tree, the page itself.
Named(op) ==
    IF "cmp" \in DOMAIN op THEN op.cmp ELSE IF "tree" \in DOMAIN op THEN "layout" ELSE "page"

Init == page = InitialPage /\ changed = <<>>

\* One batch goes through apply_batch; a refused one changes nothing.
ApplyBatch(ops, base) ==
    /\ page.version < MaxVersion
    /\ Verdict(page, ops, base) = "ok"
    /\ page' = Applied(page, ops)
    /\ changed' = Append(changed, {k \in Keys : \/ \E i \in DOMAIN ops : Named(ops[i]) = k
                                                \/ Content(page', k) # Content(page, k)})

Next == \E ops \in Batches, base \in 0 .. page.version : ApplyBatch(ops, base)

Spec == Init /\ [][Next]_vars

-----------------------------------------------------------------------------
(* Properties *)

\* The row is a page, and no entity claims a version the page has not had.
TypeOK ==
    /\ page \in Page
    /\ \A k \in Keys : page.ev[k] <= page.version

\* A component id names one component, however it was moved, removed and
\* inserted again, and whatever became of the region it is in: ops resolve
\* an id to the first component found, so a second one would be unreachable.
UniqueIds ==
    \A r1, r2 \in Regions :
        \A i \in DOMAIN page.lists[r1], j \in DOMAIN page.lists[r2] :
            page.lists[r1][i].id = page.lists[r2][j].id => r1 = r2 /\ i = j

\* A batch is refused as a conflict exactly when one of its ops, an insert
\* aside, names an entity that a batch accepted after its base named or
\* altered: no change is overwritten unseen, and no edit is dropped for a
\* change to something else or one the client had read.
ConflictsAreExact ==
    \A ops \in Batches \ {<<>>}, base \in InitialPage.version .. page.version :
        Verdict(page, ops, base) = "conflict" <=>
            \E i \in DOMAIN ops, n \in DOMAIN changed :
                /\ ops[i].op # "insert" /\ Named(ops[i]) \in changed[n]
                /\ InitialPage.version + n > base

\* Even without the record of applied batches a batch cannot be applied
\* twice in a row: its own stamps, or its own inserts, stand in its way.
NotAcceptedTwice ==
    \A ops \in Batches, base \in 0 .. page.version :
        Verdict(page, ops, base) = "ok" => Verdict(Applied(page, ops), ops, base) # "ok"

=============================================================================
