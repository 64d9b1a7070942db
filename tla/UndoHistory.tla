---------------------------- MODULE UndoHistory ----------------------------
(* Undo and redo across the pages of a wireframe (model/history.ts), with what *)
(* moves under them: page switches and their fetches (usePageDocument.ts), the *)
(* queue of batches, conflicts and reloads (useWireframeSync.ts), and another  *)
(* user. A document is the set of edits it shows, by number; a deletion is an  *)
(* edit too.                                                                  *)
EXTENDS Sublist, SequencesExt

CONSTANTS AllPages, First,  \* the pages, and the one that is open at first
          Shells,           \* Shells[p]: the pages drawn around p
          Limit, None,
          MaxEdits,         \* bound: edits made, by the user and the other one
          MaxSteps,         \* bound: presses of undo and redo
          MaxVisits         \* bound: page switches

VARIABLES pages,    \* the pages there are
          server,   \* server[p]: the document as it is stored
          copy,     \* copy[p]: the client's, None where it has none
          known,    \* known[p]: the edits of the other user up to the version noted for it
          queue,    \* the batches not yet answered, one in flight at a time
          reloads,  \* after each conflict, until the page is read again: the batches dropped with it
          view,     \* what the studio shows and fetches
          tl,       \* the timeline: its entries, and how many of them are applied
          hook,     \* the rest of usePageHistory's state, and of its effects'
          made,     \* the edits: by whom, on which page
          pressed   \* presses of undo and redo, and visits

doc  == <<pages, server, copy, known, queue, reloads>>
vars == <<doc, view, tl, hook, made, pressed>>

Mine(p)   == {i \in DOMAIN made : made[i] = <<"me", p>>}
Theirs(p) == {i \in DOMAIN made : made[i] = <<"other", p>>}

-----------------------------------------------------------------------------
(* The timeline.                                                              *)
\* Mutant: what was undone stays behind the new step.
PushBefore(t, entry) ==
    [entries |-> SubSeq(t.entries, 1, t.index) \o <<entry>> \o SubSeq(t.entries, t.index + 1, Len(t.entries)),
     index |-> t.index + 1]
Push(t, entry) ==
    LET es == Append(SubSeq(t.entries, 1, t.index), entry)
        kept == IF Len(es) > Limit THEN Tail(es) ELSE es
    IN  [entries |-> kept, index |-> Len(kept)]

\* Mutant: the newest step may be another page's.
CanCoalesceAny(t, p) == t.index > 0 /\ t.index = Len(t.entries)
CanCoalesce(t, p) == t.index > 0 /\ t.index = Len(t.entries) /\ t.entries[t.index].page = p
Coalesce(t, after) == [t EXCEPT !.entries[t.index].after = after]

\* The entry a step takes, 0 or one too many when there is none; those of
\* deleted pages are discarded on the way to it.
Target(t, dir) ==
    LET alive == {i \in DOMAIN t.entries : t.entries[i].page \in pages}
    IN  IF dir = "undo"
        THEN CHOOSE i \in 0 .. t.index : /\ i = 0 \/ i \in alive
                                         /\ \A j \in alive : j <= i \/ j > t.index
        ELSE CHOOSE i \in t.index + 1 .. Len(t.entries) + 1 :
                 /\ i = Len(t.entries) + 1 \/ i \in alive
                 /\ \A j \in alive : j >= i \/ j <= t.index

Step(t, dir) ==
    LET at == Target(t, dir)
        Cut(lo, hi) == SubSeq(t.entries, 1, lo) \o SubSeq(t.entries, hi, Len(t.entries))
    IN  IF dir = "undo"
        THEN [entries |-> Cut(at, t.index + 1), index |-> IF at = 0 THEN 0 ELSE at - 1]
        ELSE [entries |-> Cut(t.index, at), index |-> IF at > Len(t.entries) THEN t.index ELSE t.index + 1]

\* What the step hands back: the page and the document to give it.
NoStep == [dir |-> "undo", page |-> None, target |-> None]
Handed(t, dir) ==
    LET e == t.entries[Target(t, dir)]
    IN  IF Target(t, dir) \notin DOMAIN t.entries THEN NoStep
        ELSE [dir |-> dir, page |-> e.page, target |-> IF dir = "undo" THEN e.before ELSE e.after]

Rollback(t, dir) == [t EXCEPT !.index = IF dir = "undo" THEN @ + 1 ELSE @ - 1]

DropPage(t, p) ==
    [entries |-> Keep(t.entries, {i \in DOMAIN t.entries : t.entries[i].page # p}),
     index |-> t.index - Cardinality({i \in 1 .. t.index : t.entries[i].page = p})]

-----------------------------------------------------------------------------
(* Histories of the model: the pages whose steps describe another document     *)
(* than the one a fetch or a reload has put in its place (replaced), and those *)
(* a conflict had read again whose steps are not dropped yet (stale).          *)
Remembered(t, ps) == {p \in ps : \E i \in DOMAIN t.entries : t.entries[i].page = p}
Replaced(p, d) == Remembered(tl, IF d = copy[p] THEN hook.replaced ELSE hook.replaced \cup {p})

-----------------------------------------------------------------------------
(* The studio. React renders, and runs the effects that depend on what it     *)
(* rendered, before the next event of the user or of the network.             *)
Settled == view.shown = view.active /\ view.fetch = None
Rendered == view.opened = view.active /\ hook.deps = <<view.shown, Settled>>
Quiet == Rendered /\ hook.reset = None
OnScreen == {view.shown} \cup {p \in Shells[view.shown] : copy[p] # None}

\* commitWith: the page takes the document, and the difference is sent.
Adopt(p, next) ==
    /\ copy' = [copy EXCEPT ![p] = next]
    /\ queue' = IF next = copy[p] THEN queue
                ELSE Append(queue, [page |-> p, add |-> next \ copy[p], del |-> copy[p] \ next])

Restore(handed) ==
    IF handed # NoStep /\ handed.page \in OnScreen THEN Adopt(handed.page, handed.target)
    ELSE UNCHANGED <<copy, queue>>

\* An action on a page on screen. soon: within COALESCE_MS of the last one.
CommitOn(p, key, soon) ==
    LET next == copy[p] \cup {Len(made) + 1}
        folds == key # None /\ key = hook.key /\ soon /\ CanCoalesce(tl, p)
    IN  /\ Quiet /\ Settled /\ p \in OnScreen /\ Len(made) < MaxEdits
        /\ made' = Append(made, <<"me", p>>)
        /\ Adopt(p, next)
        /\ tl' = IF folds THEN Coalesce(tl, next) ELSE Push(tl, [page |-> p, before |-> copy[p], after |-> next])
        /\ hook' = [hook EXCEPT !.key = key, !.replaced = Remembered(tl, @)]
        /\ UNCHANGED <<pages, server, known, reloads, view, pressed>>

StepBy(dir) ==
    LET from == IF hook.pending = NoStep THEN tl ELSE Rollback(tl, hook.pending.dir)
        handed == Handed(from, dir)
        waits == handed # NoStep /\ handed.page \notin OnScreen
    IN  /\ Quiet /\ Settled /\ pressed.steps < MaxSteps
        /\ pressed' = [pressed EXCEPT !.steps = @ + 1]
        /\ tl' = Step(from, dir)
        /\ Restore(handed)
        /\ hook' = [hook EXCEPT !.key = None, !.pending = IF waits THEN handed ELSE NoStep]
        /\ view' = IF waits THEN [view EXCEPT !.active = handed.page] ELSE view
        /\ UNCHANGED <<pages, server, known, reloads, made>>

Visit(p) ==
    /\ Quiet /\ p \in pages \ {view.active} /\ pressed.visits < MaxVisits
    /\ pressed' = [pressed EXCEPT !.visits = @ + 1]
    /\ view' = [view EXCEPT !.active = p]
    /\ UNCHANGED <<doc, tl, hook, made>>

\* One render's effects: the pending step, put back or applied; the reset; and
\* the page that was asked for, painted from the cache and fetched.
Render ==
    LET p == hook.pending
        back == p # NoStep /\ p.page # view.shown
        lands == p # NoStep /\ p.page = view.shown /\ Settled
        after == IF back THEN Rollback(tl, p.dir) ELSE tl
    IN  /\ ~Quiet
        /\ Restore(IF lands THEN p ELSE NoStep)
        /\ tl' = IF hook.reset = None THEN after ELSE DropPage(after, hook.reset)
        /\ hook' = [hook EXCEPT !.deps = <<view.shown, Settled>>, !.reset = None,
                                !.pending = IF back \/ lands \/ hook.reset = p.page THEN NoStep ELSE @,
                                !.key = IF hook.reset = None THEN @ ELSE None,
                                !.stale = Remembered(tl', @)]
        /\ view' = IF view.opened = view.active THEN view
                   ELSE [active |-> view.active, opened |-> view.active,
                         shown |-> IF view.active # None /\ copy[view.active] # None THEN view.active
                                   ELSE view.shown,
                         fetch |-> IF view.active = None THEN None
                                   ELSE [page |-> view.active, got |-> None]]
        /\ UNCHANGED <<pages, server, known, reloads, made, pressed>>

DeletePage(p) ==
    /\ Quiet /\ p \in pages /\ pages # {p} /\ p \notin Shells[view.shown]
    /\ pages' = pages \ {p}
    /\ copy' = [copy EXCEPT ![p] = None]
    /\ view' = IF view.active = p THEN [view EXCEPT !.active = None] ELSE view
    /\ UNCHANGED <<server, known, queue, reloads, tl, hook, made, pressed>>

-----------------------------------------------------------------------------
(* Fetches: read by the server at one moment, landing at a later one.         *)
Serve ==
    /\ view.fetch # None /\ view.fetch.got = None /\ view.fetch.page \in pages
    /\ view' = [view EXCEPT !.fetch.got = [doc |-> server[view.fetch.page], theirs |-> Theirs(view.fetch.page)]]
    /\ UNCHANGED <<doc, tl, hook, made, pressed>>

Arrive ==
    LET p == view.fetch.page got == view.fetch.got
    IN  /\ Quiet /\ view.fetch # None /\ got # None
        /\ copy' = [copy EXCEPT ![p] = got.doc]
        /\ known' = [known EXCEPT ![p] = @ \cup got.theirs]
        /\ view' = [view EXCEPT !.shown = p, !.fetch = None]
        /\ hook' = [hook EXCEPT !.replaced = Replaced(p, got.doc)]
        /\ UNCHANGED <<pages, server, queue, reloads, tl, made, pressed>>

FetchFails ==
    /\ Quiet /\ view.fetch # None
    /\ view' = [view EXCEPT !.fetch = None]
    /\ UNCHANGED <<doc, tl, hook, made, pressed>>

\* useHostChain: a shell that is not in the cache is read.
LoadShell(p) ==
    /\ Quiet /\ p \in Shells[view.shown] \cap pages /\ copy[p] = None
    /\ copy' = [copy EXCEPT ![p] = server[p]]
    /\ known' = [known EXCEPT ![p] = Theirs(p)]
    /\ hook' = [hook EXCEPT !.replaced = Replaced(p, server[p])]
    /\ UNCHANGED <<pages, server, queue, reloads, view, tl, made, pressed>>

-----------------------------------------------------------------------------
(* The queue, and what becomes of its first batch.                            *)
Fits(batch, d) == batch.del \subseteq d /\ batch.add \cap d = {}
Applied(batch, d) == (d \ batch.del) \cup batch.add

\* Accepted, or refused: then it is dropped.
Answer ==
    LET b == Head(queue)
        ok == b.page \in pages /\ Fits(b, server[b.page])
    IN  /\ queue # <<>>
        /\ queue' = Tail(queue)
        /\ server' = IF ok THEN [server EXCEPT ![b.page] = Applied(b, @)] ELSE server
        /\ known' = IF ok THEN [known EXCEPT ![b.page] = Theirs(b.page)] ELSE known
        /\ UNCHANGED <<pages, copy, reloads, view, tl, hook, made, pressed>>

\* The other user has changed what the batch changes: it leaves the queue, and
\* so do the later batches of its page; the page is asked for.
Conflict ==
    LET p == Head(queue).page
    IN  /\ queue # <<>> /\ p \in pages /\ Theirs(p) # known[p]
        /\ reloads' = Append(reloads, [page |-> p,
                                      dropped |-> SelectSeq(Tail(queue), LAMBDA b : b.page = p)])
        /\ queue' = SelectSeq(Tail(queue), LAMBDA b : b.page # p)
        /\ known' = [known EXCEPT ![p] = Theirs(p)]
        /\ UNCHANGED <<pages, server, copy, view, tl, hook, made, pressed>>

\* The page is read again, and what can be replayed is. Two reloads may land
\* before one render, and setReset keeps the page of the second.
Reload(i) ==
    LET p == reloads[i].page
        Replay(acc, b) == IF Fits(b, acc.doc)
                          THEN [doc |-> Applied(b, acc.doc), kept |-> Append(acc.kept, b)] ELSE acc
        rebased == FoldLeft(Replay, [doc |-> server[p], kept |-> <<>>], reloads[i].dropped)
    IN  /\ Rendered /\ p \in pages
        /\ reloads' = RemoveAt(reloads, i)
        /\ queue' = queue \o rebased.kept
        /\ known' = [known EXCEPT ![p] = Theirs(p)]
        /\ copy' = IF p \in OnScreen THEN [copy EXCEPT ![p] = rebased.doc] ELSE copy
        /\ hook' = [hook EXCEPT !.reset = p, !.stale = @ \cup {p},
                                !.replaced = IF p \in OnScreen THEN Replaced(p, rebased.doc) ELSE @]
        /\ UNCHANGED <<pages, server, view, tl, made, pressed>>

\* It cannot be read: the page on screen keeps the edits that were dropped.
ReloadFails(i) ==
    /\ Rendered
    /\ reloads' = RemoveAt(reloads, i)
    /\ UNCHANGED <<pages, server, copy, known, queue, view, tl, hook, made, pressed>>

OtherEdits(p) ==
    /\ p \in pages /\ Len(made) < MaxEdits
    /\ made' = Append(made, <<"other", p>>)
    /\ server' = [server EXCEPT ![p] = @ \cup {Len(made')}]
    /\ UNCHANGED <<pages, copy, known, queue, reloads, view, tl, hook, pressed>>

-----------------------------------------------------------------------------
Init ==
    /\ pages = AllPages /\ server = [p \in AllPages |-> {}]
    /\ copy = [p \in AllPages |-> IF p = First THEN {} ELSE None]
    /\ known = [p \in AllPages |-> {}]
    /\ queue = <<>> /\ reloads = <<>>
    /\ view = [active |-> First, opened |-> First, shown |-> First, fetch |-> None]
    /\ tl = [entries |-> <<>>, index |-> 0]
    /\ hook = [key |-> None, pending |-> NoStep, deps |-> <<First, TRUE>>, reset |-> None,
              replaced |-> {}, stale |-> {}]
    /\ made = <<>> /\ pressed = [steps |-> 0, visits |-> 0]

Next ==
    \/ \E p \in AllPages, key \in {None, "label"}, soon \in BOOLEAN : CommitOn(p, key, soon)
    \/ \E dir \in {"undo", "redo"} : StepBy(dir)
    \/ \E p \in AllPages : Visit(p) \/ DeletePage(p) \/ LoadShell(p) \/ OtherEdits(p)
    \/ \E i \in DOMAIN reloads : Reload(i) \/ ReloadFails(i)
    \/ Render \/ Serve \/ Arrive \/ FetchFails \/ Answer \/ Conflict

Spec == Init /\ [][Next]_vars

-----------------------------------------------------------------------------
(* The array and its cursor are two stacks, whatever is undone, dropped,       *)
(* deleted or coalesced on the way.                                           *)
Stacks == INSTANCE UndoStacks WITH
              undo <- SubSeq(tl.entries, 1, tl.index),
              redo <- Reverse(SubSeq(tl.entries, tl.index + 1, Len(tl.entries)))
TwoStacks == Stacks!Spec

(* Undo takes back the user's step and nothing else: between renders, a page  *)
(* shows what its last applied step left and what its next undone one starts  *)
(* from, unless a fetch or a reload put another document there.               *)
FollowsCursor ==
    Quiet => \A i \in DOMAIN tl.entries :
        LET e == tl.entries[i]
            others == {j \in DOMAIN tl.entries : tl.entries[j].page = e.page}
        IN  e.page \in pages \ hook.replaced /\ copy[e.page] # None =>
                /\ i <= tl.index /\ (\A j \in others : j <= i \/ j > tl.index) => copy[e.page] = e.after
                /\ i > tl.index /\ (\A j \in others : j >= i \/ j <= tl.index) => copy[e.page] = e.before

(* A step that waits for its page is not put back while that page opens.      *)
StepWaits == [][hook.pending # NoStep /\ hook'.pending = NoStep => tl' = tl]_vars

(* Undo and redo never take another user's work off a page.                   *)
UndoKeepsOthers == [][pressed'.steps # pressed.steps =>
                          \A p \in AllPages : copy[p] # None => Theirs(p) \cap copy[p] \subseteq copy'[p]]_vars

(* Once a page was read again over a conflict, no step of before is left.     *)
ReloadedIsForgotten == Quiet => hook.stale = {}
=============================================================================
