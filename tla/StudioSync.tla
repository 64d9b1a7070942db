----------------------------- MODULE StudioSync -----------------------------
(***************************************************************************)
(* Editing end to end: the tabs of several people, each with its outbox    *)
(* (module Outbox) and its local copy of the pages, a network that loses   *)
(* and delays, and the server behind it.  The server answers each request  *)
(* in one step, which module OpServer shows its handlers amount to.        *)
(*                                                                         *)
(* The tabs here are on different machines, so no store is shared and      *)
(* nothing is persisted; that part is checked in Outbox alone.             *)
(***************************************************************************)
EXTENDS Outbox, PageOps

CONSTANTS
    InitialPage,  \* every page at the start
    CanDelay,     \* a request may arrive after its sender gave up on it
    CanFreeze,    \* the project owner locks and unlocks the version
    CanReload,    \* people leave a page and come back to it
    CanRestore    \* the wireframe may be restored to its first state, once

ASSUME Switches  == {CanDelay, CanFreeze, CanReload, CanRestore} \subseteq BOOLEAN
ASSUME Documents == InitialPage \in Page /\ Edits \subseteq Seq(Op)
\* Every batch lands at most once, so no page has more versions than this.
ASSUME Enough    == InitialPage.version + MaxId <= MaxVersion
\* An entity is stamped with a version its page had.
ASSUME Stamped   == \A k \in Keys : InitialPage.ev[k] <= InitialPage.version

VARIABLES
    rows,     \* rows[p]: the project_pages row
    kept,     \* kept[id]: base version and answer recorded for a batch
    frozen,   \* the version is locked
    restored, \* the restore happened
    wire,     \* wire[t]: the answer on its way to tab t
    late,     \* requests still on their way after their sender gave up
    view,     \* view[t][p]: the page as tab t shows it
    fetched,  \* page reads on their way back after a conflict
    opened,   \* page reads on their way back to a tab that opens the page
    \* history
    log,      \* the ids of the batches that took effect, in order
    origin,   \* origin[id]: the id under which the edit was made first
    refused,  \* ids whose tab was told that the batch is invalid
    foreign,  \* foreign[t]: <<p, k>> changed by others since t read p
    blind     \* a batch changed something its sender had not seen

server   == <<rows, kept, frozen, restored>>
history  == <<log, origin, refused, foreign, blind>>
shown    == <<view, opened>>
syncVars == <<vars, server, wire, late, shown, fetched, history>>

NoReply == [status |-> "none", version |-> 0]

\* Some of the tabs have the wireframe open; the others do not take part.
SyncInit ==
    /\ \E here \in SUBSET Tabs \ {{}} :
          tab = [t \in Tabs |->
                    [NewOutbox(IF t \in here THEN "open" ELSE "closed") EXCEPT
                        !.known = [p \in Pages |-> InitialPage.version]]]
    /\ store = <<>> /\ io = <<>> /\ nextId = 1 /\ settled = {} /\ missed = FALSE
    /\ rows = [p \in Pages |-> InitialPage]
    /\ kept = [i \in Ids |-> [base |-> 0, reply |-> NoReply]]
    /\ frozen = FALSE /\ restored = FALSE
    /\ wire = [t \in Tabs |-> NoReply] /\ late = {}
    /\ view = [t \in Tabs |-> rows] /\ fetched = {} /\ opened = {}
    /\ log = <<>> /\ origin = [i \in Ids |-> i] /\ refused = {}
    /\ foreign = [t \in Tabs |-> {}] /\ blind = FALSE

-----------------------------------------------------------------------------
(* The server *)

Judged(b) == Verdict(rows[b.page], b.edit, b.base)

\* Mutant: a batch is applied without looking whether it was seen before.
IsNewUnasked(b) == ~frozen

\* The batch reaches the applier: not locked out, and not seen before.
IsNew(b) == ~frozen /\ kept[b.id].reply = NoReply

\* Mutant: a retry is answered without looking at what was answered before.
ReplyAfresh(b) ==
    IF frozen THEN [status |-> "locked", version |-> 0]
    ELSE [status |-> Judged(b),
          version |-> rows[b.page].version + IF Judged(b) = "ok" THEN 1 ELSE 0]

\* The lock is checked first, then the id; the record keeps the payload's
\* hash, and of a payload only the base can differ under one id.
Reply(b) ==
    IF frozen THEN [status |-> "locked", version |-> 0]
    ELSE IF kept[b.id].reply # NoReply
    THEN IF kept[b.id].base = b.base THEN kept[b.id].reply
         ELSE [status |-> "reused", version |-> 0]
    ELSE [status |-> Judged(b),
          version |-> rows[b.page].version + IF Judged(b) = "ok" THEN 1 ELSE 0]

Named(b) == {KeyOf(b.edit[i]) : i \in {j \in DOMAIN b.edit : b.edit[j].op # "insert"}}

\* Tab t's batch takes effect.
TakesEffect(t, b) ==
    /\ rows' = [rows EXCEPT ![b.page] = Applied(@, b.edit)]
    /\ log' = Append(log, b.id)
    /\ blind' = (blind \/ \E k \in Named(b) : <<b.page, k>> \in foreign[t])
    /\ foreign' = [u \in Tabs |->
                      IF u = t THEN foreign[u]
                      ELSE foreign[u] \cup ({b.page} \X Touched(b.edit))]

\* apply_op_batch for one request of tab t.
Process(t, b) ==
    /\ IF IsNew(b) /\ Judged(b) = "ok"
       THEN TakesEffect(t, b) ELSE UNCHANGED <<rows, log, blind, foreign>>
    /\ kept' = IF IsNew(b) /\ Judged(b) # "invalid"
               THEN [kept EXCEPT ![b.id] = [base |-> b.base, reply |-> Reply(b)]]
               ELSE kept
    /\ UNCHANGED <<frozen, restored, origin, refused>>

\* The request of tab t arrives and is answered.
Serve(t) ==
    /\ InFlight(t) /\ wire[t] = NoReply
    /\ Process(t, tab[t].sending)
    /\ wire' = [wire EXCEPT ![t] = Reply(tab[t].sending)]
    /\ UNCHANGED <<vars, late, shown, fetched>>

\* A request its sender gave up on arrives; nobody waits for the answer.
ServeLate(r) ==
    /\ r \in late
    /\ Process(r.tab, r.batch)
    /\ late' = late \ {r}
    /\ UNCHANGED <<vars, wire, shown, fetched>>

Freeze(on) ==
    /\ CanFreeze /\ frozen # on
    /\ frozen' = on
    /\ UNCHANGED <<vars, rows, kept, restored, wire, late, shown, fetched, history>>

\* restore_version: same page ids, version 0, no entity versions.
Restore ==
    /\ CanRestore /\ ~restored /\ ~frozen
    /\ restored' = TRUE
    /\ rows' = [p \in Pages |-> Restored(InitialPage)]
    /\ foreign' = [t \in Tabs |-> Pages \X Keys]
    /\ UNCHANGED <<vars, kept, frozen, wire, late, shown, fetched, log, origin, refused, blind>>

-----------------------------------------------------------------------------
(* The tabs *)

\* The page is on screen and no read of it is on its way: editing is open.
Settled(t, p) == \A o \in opened : <<o.tab, o.at>> # <<t, p>>

\* Mutant: the edit is queued and not shown.
EditUnshown(t, p, e) ==
    /\ Settled(t, p) /\ ~Invalid(view[t][p], e)
    /\ Commit(t, p, e, view[t][p].version)
    /\ UNCHANGED <<server, wire, late, shown, fetched, history>>

\* commit(): the edit is shown at once and queued on the local version.
Edit(t, p, e) ==
    /\ Settled(t, p) /\ ~Invalid(view[t][p], e)
    /\ Commit(t, p, e, view[t][p].version)
    /\ view' = [view EXCEPT ![t][p] = Stages(@, e)[Len(e)]]
    /\ UNCHANGED <<server, wire, late, fetched, opened, history>>

\* The answer reaches the tab.  onApplied only takes over the version.
Deliver(t) ==
    LET r == wire[t]
        p == tab[t].sending.page
    IN  /\ r # NoReply
        /\ CASE r.status = "ok"       -> Acked(t, r.version)
             [] r.status = "conflict" -> Conflicted(t, r.version)
             [] r.status = "locked"   -> LockedOut(t)
             [] OTHER                 -> Rejected(t)
        /\ view' = IF r.status = "ok"
                   THEN [view EXCEPT ![t][p].version = r.version] ELSE view
        /\ wire' = [wire EXCEPT ![t] = NoReply]
        /\ refused' = IF r.status = "invalid" THEN refused \cup {tab[t].sending.id} ELSE refused
        /\ UNCHANGED <<server, late, fetched, opened, log, origin, foreign, blind>>

\* No answer: it was lost, or the request was, or the request is only late.
GiveUp(t) ==
    /\ Failed(t)
    /\ wire' = [wire EXCEPT ![t] = NoReply]
    /\ late' \in {late} \cup
          (IF CanDelay /\ wire[t] = NoReply
           THEN {late \cup {[tab |-> t, batch |-> tab[t].sending]}} ELSE {})
    /\ UNCHANGED <<server, shown, fetched, history>>

RetryNow(t) ==
    /\ Retry(t) /\ UNCHANGED <<server, wire, late, shown, fetched, history>>

\* The version is seen to be unlocked: the studio calls resume().
Unpause(t) ==
    /\ ~frozen /\ Resume(t)
    /\ UNCHANGED <<server, wire, late, shown, fetched, history>>

\* After a conflict: the page is read ...
ReadAfterConflict(t, h) ==
    /\ h \in tab[t].held
    /\ \A f \in fetched : f.tab # t \/ f.held # h
    /\ fetched' = fetched \cup {[tab |-> t, held |-> h, page |-> rows[h.page]]}
    /\ foreign' = [foreign EXCEPT ![t] = {x \in @ : x[1] # h.page}]
    /\ UNCHANGED <<vars, server, wire, late, shown, log, origin, refused, blind>>

\* The dropped batches that still apply to the page read, replayed on it.
Rebased(page, bs) ==
    LET done[i \in 0 .. Len(bs)] ==
            IF i = 0 THEN [page |-> page, again |-> {}]
            ELSE IF Invalid(done[i - 1].page, bs[i].edit) THEN done[i - 1]
            ELSE [page  |-> Stages(done[i - 1].page, bs[i].edit)[Len(bs[i].edit)],
                  again |-> done[i - 1].again \cup {i}]
    IN  done[Len(bs)]

\* ... the local copy becomes that page with those batches on top, and they
\* are requeued under new ids.
Rebase(f) ==
    LET done == Rebased(f.page, f.held.batches)
        t    == f.tab
    IN  /\ f \in fetched
        /\ Refetched(t, f.held, f.page.version, done.again)
        /\ view' = [view EXCEPT ![t][f.held.page] = done.page]
        /\ fetched' = fetched \ {f}
        /\ origin' = [i \in Ids |->
                         IF i \in nextId .. nextId' - 1
                         THEN origin[Keep(f.held.batches, done.again)[i - nextId + 1].id]
                         ELSE origin[i]]
        /\ UNCHANGED <<server, wire, late, opened, log, refused, foreign, blind>>

\* The page is opened again: it is read, while the tab shows its own copy ...
Visit(t, p) ==
    /\ CanReload /\ tab[t].life = "open" /\ Settled(t, p)
    /\ opened' = opened \cup {[tab |-> t, at |-> p, page |-> rows[p]]}
    /\ foreign' = [foreign EXCEPT ![t] = {x \in @ : x[1] # p}]
    /\ UNCHANGED <<vars, server, wire, late, view, fetched, log, origin, refused, blind>>

\* ... and what was read replaces that copy, whatever happened to it since.
Show(o) ==
    /\ o \in opened
    /\ opened' = opened \ {o}
    /\ view' = [view EXCEPT ![o.tab][o.at] = o.page]
    /\ tab' = [tab EXCEPT ![o.tab] = Noted(@, o.at, o.page.version)]
    /\ UNCHANGED <<store, io, nextId, settled, missed, server, wire, late, fetched, history>>

Client(t) ==
    \/ \E p \in Pages : Visit(t, p) \/ \E e \in Edits : Edit(t, p, e)
    \/ Deliver(t) \/ GiveUp(t) \/ RetryNow(t) \/ Unpause(t)
    \/ \E h \in tab[t].held : ReadAfterConflict(t, h)

SyncNext ==
    \/ \E t \in Tabs : Client(t) \/ Serve(t)
    \/ \E r \in late : ServeLate(r)
    \/ \E f \in fetched : Rebase(f)
    \/ \E o \in opened : Show(o)
    \/ \E on \in BOOLEAN : Freeze(on)
    \/ Restore

SyncSpec == SyncInit /\ [][SyncNext]_syncVars

\* Timers fire, requests that keep being sent are served, and answers that
\* keep being sent arrive.
FairSyncSpec ==
    /\ SyncSpec
    /\ \A t \in Tabs : WF_syncVars(RetryNow(t)) /\ SF_syncVars(Serve(t))
                       /\ SF_syncVars(Deliver(t))

-----------------------------------------------------------------------------
(* Properties *)

Document(p)  == <<p.tree, p.lists, p.fields>>
Minted       == 1 .. nextId - 1
HasEffect(i) == \E n \in DOMAIN log : log[n] = i
Quiet(t)     == tab[t].queue = <<>> /\ tab[t].held = {}

\* An edit takes effect at most once: lost answers, retries and duplicates
\* that arrive late included, and also when a conflict made its tab send it
\* again under another id.
EditsLandOnce ==
    \A n, m \in DOMAIN log : n # m => origin[log[n]] # origin[log[m]]

\* The batches of one tab take effect in the order it queued them, with one
\* exception: the server keeps no record of a batch it refused, so a late
\* duplicate of that batch may still take effect after its successors.
BatchesLandInOrder ==
    \A n, m \in DOMAIN log : n < m /\ log[m] \notin refused =>
        \A t \in Tabs : {log[n], log[m]} \subseteq {tab[t].accepted[i] :
                                i \in DOMAIN tab[t].accepted} => log[n] < log[m]

\* A person working alone is never in conflict and never refused, whatever
\* the network loses: every base the outbox picks is one it may use.
NeverAtOddsWithOneself ==
    \A t \in Tabs : wire[t].status \in {"none", "ok"}

\* When nothing is waiting any more, the tab shows what the server has, and
\* the version it holds is the version of what it shows.
ShowsWhatItHolds ==
    \A t \in Tabs, p \in Pages :
        Quiet(t) /\ view[t][p].version = rows[p].version
            => Document(view[t][p]) = Document(rows[p])

\* Every edit lands in the end.
EveryEditLands == \A i \in Ids : i < nextId ~> HasEffect(i)

\* ops.py: "If that entity changed after the base_version the client last
\* saw, the whole batch is rejected": no accepted batch changes an entity
\* that somebody else changed since its sender last read the page.
NoBlindOverwrite == ~blind

\* outbox.ts: "Strict order ... batches cannot land out of sequence": an
\* earlier edit of a tab never takes effect after a later one of that tab.
EditsLandInOrder ==
    \A n, m \in DOMAIN log, t \in Tabs :
        /\ n < m
        /\ {log[n], log[m]} \subseteq {tab[t].accepted[i] : i \in DOMAIN tab[t].accepted}
        => origin[log[n]] <= origin[log[m]]

\* outbox.ts: "batches cannot land out of sequence", without the exception.
BatchesNeverOvertake ==
    \A n, m \in DOMAIN log, t \in Tabs :
        n < m /\ {log[n], log[m]} \subseteq {tab[t].accepted[i] : i \in DOMAIN tab[t].accepted}
            => log[n] < log[m]

\* outbox.ts: "Idempotent retries": the retry of a batch that landed is
\* deduplicated, so the server never calls it another batch.
RetriesAreRecognised == \A t \in Tabs : wire[t].status # "reused"

=============================================================================
