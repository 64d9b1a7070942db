# Ferrous Studio: verification project

Ferrous Studio is a FastAPI + PostgreSQL backend (`src/backend/app`) and a React
single-page application (`src/frontend/app/web/src`) in which several people edit
wireframes, diagrams and a planning board together. This directory holds TLA+ models
of its concurrent core, the TLC configurations that check them, and TLAPS proofs.
Everything here is translated from the code; where a comment, a docstring or a test
of the repository promises something else, a run or a statement shows the difference
(section 4).

1. The system · 2. The modules · 3. What is checked · 4. Where code and comments differ ·
5. What is proved · 6. Abstractions · 7. Not modelled · 8. Plan

## 1. The system

### The editing path, end to end

1. A person edits a page in a browser tab. The action makes a new document, `diff.ts`
   turns the difference into ops, and `useWireframeSync.commit` applies the ops to the
   **local page** at once and puts a batch (id, page, base version, ops) into the tab's
   **outbox**. The step goes on the wireframe's **undo timeline** (`model/history.ts`).
2. The outbox (`sync/outbox.ts`) sends one batch at a time, in order; it rebases the
   head on its first attempt, resends it unchanged on retries, and mirrors its queue to
   **IndexedDB** (`sync/store.ts`) under the key project:wireframe.
3. `apply_op_batch` (`studio/wireframes.py`) checks the version lock, looks the batch id up,
   takes the page row lock, runs the **op applier** (`studio/ops.py`) and commits the page
   together with a record of its answer: 200, or 409 with the entities in conflict.
   A malformed batch is 422, a locked version 423, both unrecorded.
4. The answer comes back (or is lost). After an ACK the tab adopts the version; after a
   409 it drops the later batches of the page, refetches the page, replays what still
   applies and requeues it under new ids; after a 423 it pauses until the version is
   unlocked; after another 4xx the edit is dropped and reported.
5. Beside all that, people save and **restore** versions of a wireframe
   (`restore_version` replaces the page rows), **lock and unlock** a project version, and
   **branch** a project (`create_project_version` copies every page, and the bytes of its
   documents after the commit).

Two other clients save without ops. A form (`core/useAutosave.ts`) sends its whole value
after a pause; a diagram (`DiagramEditorPage.tsx`, `diagrams.py`) sends its whole document
under a version that the server compares. The planning **board** is ordinary requests, each
one transaction (`board/routes.py`, `board/service.py`), and every board page folds the answers
into one shared copy (`boardMutations.ts`, `boardData.tsx`).

### Inventory

| Component | State | Operations | What is hard | What makes it correct |
|---|---|---|---|---|
| Outbox, hook and store (`sync/*`) | queue, in-flight flag, attempt, timer, dirty, locked, known versions; IndexedDB rows | enqueue, requeue, drain, five answers, retry, resume, flush, load, mount, unmount, refetch | one await between reading and removing the head; timers; crashes; transactions that fail; two tabs, one store key | order, nothing lost or doubled, never asleep, retries identical, stored until answered (but for a flush that overtakes the load) |
| Op applier (`ops.py`, `applyOps.ts`) | one page: tree, lists, columns, entity versions | set, insert, remove, move; export, import | regions that left the tree; version arithmetic at the boundary | unique ids, a conflict exactly with what was not seen, nothing accepted twice |
| Op-batch endpoint (`wireframes.py`, `common.py`) | page row, `project_op_batches`, row locks | one transaction per request | READ COMMITTED interleavings, duplicates, deaths, retention | linearizable, at most once, answers true, every request ends |
| Saved versions, restore | `project_versions`, page rows | create, restore | snapshot before lock; versions reset to 0 | a restore is atomic and undoable |
| Page document (`usePageDocument.ts`) | page shown, page cache | open, revisit, adopt | optimistic copy vs. refetch | it shows what the server has |
| Undo history (`model/history.ts`) | timeline, cursor, pending step, coalescing key | push, coalesce, undo, redo, drop a page, reset | a step on another page waits for navigation; conflicts and deletions under it | two stacks; undo meets its own page and step |
| Editor model (`actions.ts`, `crud.ts`, `diff.ts`, `applyOps.ts`, `positions.ts`) | one document | component and region actions, patterns, diff, rebase, normalise | ops applied one by one; keys between keys; regions that come and go | what waits makes of the row what the editor shows; refusals have a reason |
| Board rows (`board/*`) | requirements, sprints, feedback report, history, events | create, patch, claim, archive, close and delete a sprint, triage | reads without locks, one row lock in claims | one claimer; history says what the row says |
| Board numbers (`service.py`) | boards, keys, counters | get-or-create, number, key change | races for the board; a counter read before the lock | numbers unique and without gaps |
| Board pages (`boardMutations.ts`, `boardData.tsx`, `effort.ts`) | the browser's copy | mutate, fold, reload the kinds touched | cascades; figures computed on both sides | the copy settles on the rows; figures agree |
| Project versions, documents (`projects.py`, `versioning.py`, `documents.py`) | version rows, `locked_at`, keys, document rows, bucket | branch, retry, lock, delete, upload, confirm, copy | numbers from MAX; bytes copied after the commit | one version per key; no uploaded row without bytes |
| Autosave (`useAutosave.ts`) | value, saved, in-flight promise, timer, epoch | set, flush, reset, unmount | edits during a save; reset during a save; a form that saves only on flush | saved means saved; an edit arrives or is reported |
| Diagrams (`DiagramEditorPage.tsx`, `diagrams.py`) | document, version, flags; version column | load, edit, save, reload, leave | change during a save; two editors; an import that fails | no stale overwrite; an edit arrives or is reported |
| Agents and tokens (`board/agents.py`, `agent_routes.py`) | agent status, task handle, runs | launch, stop, heartbeat, finish, wake | external launch between read and commit | at most one task per agent |
| Annotations, storage, audit, import, catalogue, personas, use cases, datasets | rows | create, read, update, delete | note numbers under a row lock | unique numbers |
| Slack, GitHub, project agent | rows and external calls | stage, send | messages only after commit | no message for a rolled-back change |
| Accounts (`auth/*`) | users, sessions, invitations | login, refresh, invite, accept | token expiry, double accept | one acceptance per invitation |

`PROJECT.json` lists each of them under `components` with its status, and under `hazards`
what is hard to test in this code, each at its line, with the properties that cover it.

## 2. The modules

| Module | Models | Builds on |
|---|---|---|
| `Sublist` | `Array.filter` on a queue by positions, without recursion | |
| `Outbox` | the Outbox class, the hook that owns it, the IndexedDB store; the server is an environment that may give any answer | `Sublist` |
| `OrderedDelivery` | abstract: a line that is served at the front only | `Sublist` |
| `PageOps` | the op applier on one page: verdict, effect, stamps; snapshots | `Sublist` |
| `PageHistory` | one page under any sequence of batches | `PageOps` |
| `OpService` | abstract: batches take effect one at a time with the answer kept; the applier is a parameter | |
| `OpServer` | `apply_op_batch`, restore, lock and branch, SQL statement by statement | `PageOps`, implements `OpService` |
| `StudioSync` | tabs with outboxes and local pages, a lossy network, the server in atomic steps (justified by `OpServer`) | `Outbox`, `PageOps` |
| `UndoStacks` | abstract: two stacks of steps, of bounded depth together | `Sublist` |
| `UndoHistory` | `HistoryTimeline` and `usePageHistory`, with page switches, fetches, shells, conflicts, reloads, deletions, another user | `Sublist`, implements `UndoStacks` |
| `PageEditor` | the actions, positions, `diffPage`, `applyOps`, the migration on opening and the rebase, between one editor and one row that another user edits too | |
| `Board` | requirements, claims, sprints and the report they were raised from, under concurrent transactions | |
| `BoardNumbers` | get-or-create of a board and the numbering of rows on it, statement by statement | |
| `BoardFigures` | derived statuses and progress figures, as the server and as the pages compute them | |
| `BoardView` | a board, the cascades of its handlers, and the copy a browser keeps | `BoardFigures` |
| `ProjectVersions` | versions, keys, locks, documents and their bytes, requests that die | |
| `Autosave` | `useAutosave` and the server it saves to | |
| `DiagramSave` | diagram editors and the conditional UPDATE | |
| `SublistProofs` | what `Keep`, the filter of a sequence, returns: a sequence, in order, without the removed, additive over concatenation | `Sublist` |
| `PageOpsProofs` | what the op applier does to a page, op by op and as a batch | `SublistProofs` |
| `OutboxProofs`, `BoardNumbersProofs` | theorems and proofs about the module of that name, with its store | `SublistProofs` |
| `PagesProofs` | theorems and proofs about `OpServer`, `PageHistory` and `UndoHistory` | `PageOpsProofs` |
| `ServerProofs` | theorems and proofs about `Board` and `ProjectVersions` | |
| `SavesProofs` | theorems and proofs about `Autosave` and `DiagramSave` | |
| `StudioSyncProofs` | theorems and proofs about the composition, and about one person who works alone | `OutboxProofs`, `PageOpsProofs` |
| `MC*` | small instances for TLC, some of several modules | |

**Compositions.** `StudioSync` composes what interacts: outbox, page, network and server.
`OpServer` composes the handlers with the applier and with what runs beside them. `MCPages`,
`MCEdits`, `MCServer` and `MCSaves` put parts that share nothing into one graph of
states: a variable chosen in the first state says which part runs, so the graph is the
union of theirs and no product; they exist to share a run and say nothing of an
interaction. In such a module, instances of one module must agree on its constants.

### How state and actions correspond to the code

**Outbox.** `tab[t]` is one Outbox object: its fields are the class's fields plus three
history fields (`accepted`, `answered`, `last`); `life` is `loading` until `init()` has
run (the field `ready`), `sending` is the batch of the pending `await transport(batch)`.
Methods are operators on such a record and each ends with the `drain()` the method ends
with (`Drained`); every action is a whole method or callback. `store` is the rows of the
store key; `io` the IndexedDB transactions issued and not yet run, in order; a tab that
dies takes its waiting transactions with it. A transaction runs or fails (`StoreWritten`,
`StoreFails`; `Loaded`, `LoadFails`), and nobody is told of a failure: `flush()` has cleared
`dirty` before it awaits the write, and after a load that rejects `init()` never sets `ready`.
A flush may be issued and run at any time, before the load too: `MaxIo` bounds the writes that wait
beside loads. `missed` (the last write failed) and the field `early` of a write (its outbox had
not loaded) are history. Mutable sharing matters here: the code
raises `baseVersion` on the object in the queue, so the model writes the rebased head
back into the queue.

**PageOps.** A page keeps the set of regions its tree shows, the component list of every
region, its columns as one value, its entity versions and its version. What a `set`
writes inside a component, and the `pos` a move gives it, are one opaque value: the
conflict rule looks at entities only. `Stages` runs a batch op by op as a recursive
function; `Verdict` is conflict before validity, as in `apply_batch`. In `PageHistory`,
`changed` is history: what each accepted batch named (`Named`, by what the op carries, not by
the key `apply_batch` looks up) or altered.

**OpServer.** `proc[s]` is a request handler in one transaction: admitted (lock read),
fresh (id looked up), holding (row lock held, verdict known). Between any two statements
another transaction may commit and the handler may die. `gen` is the incarnation of the
row: a `SELECT ... FOR NO KEY UPDATE` that waited for a row a restore deleted finds
nothing, although the page exists again under the same id. `effects`, `told`, `replaced`
and `agreed` are history.

**StudioSync.** Its server answers each request in one step; that this is what the
interleaved handlers amount to is `OpServer`'s `Linearizable`. The tabs are on different
machines, so nothing is persisted here: the store is checked in `Outbox`. `foreign` and
`blind` are history that says which entities others changed since a tab last read the
page; `refused` says which batches a tab was told are invalid. Some tabs may be closed at the
start; opening a page again (`Visit`) needs an open
tab. `Enough` says that the bound on versions is never what stops a batch.

**UndoHistory.** `tl` is the timeline's array and cursor; `hook.pending`, `hook.key`,
`hook.reset` and `hook.deps` are the refs and effect dependencies of `usePageHistory`, and
`Render` is the render and the effects that follow: React runs them before the next event,
so every other action is enabled only when there is nothing to render (`Rendered`). `view` is what
`usePageDocument` shows and fetches. A conflict (`Conflict`) shifts its batch off the queue,
which is lost with that, and takes out the later batches of the page; `reloads` are the refetches
under way, each with the batches it will replay (`Reload`, in any order) or lose
(`ReloadFails`, after which the page on screen still shows them). A document is the set of edits it shows. `UndoStacks`
maps the entries up to the cursor to the stack of steps done and the rest to the stack of
steps undone.

**PageEditor.** `local` is what the editor shows, `queue` the batches not yet answered, `row`
the page with its entity versions. Each action of `actions.ts` is a set-valued operator:
the pages it can make of a page. `Commit` takes the diff of the two documents, as
`commitOn` does. A position key is a point on an integer grid (`Unit` apart, then halved)
and the rule of `generateKeyBetween` about keys between integer parts is kept. A batch is sent,
handled and answered in one step (`Send`): what may happen in between is `StudioSync`'s.

**Board.** `tx[p]` is a request between its read and its commit: what it read (`was`,
`found`), the fields it will write, whether they are flushed (the row is locked then).
Under READ COMMITTED a flush writes only the fields that changed from what was read
(`Changed`), over the row as it is by then (`Over`). `ranked` is where a requirement's queue position
was given; a PATCH gives one in the backlog too. `met` is history: the requirements, and the report,
that two requests under way at once were both about (`Both`). `member` is the last row of a requirement's sprint history and `told` the last
status its events gave: what the burndown reads.

**BoardNumbers.** `tx[p]` holds the board as the request has loaded it: a later
`with_for_update` select waits for the row but does not refresh the loaded object, so
`seq` is minted from `read`. Uncommitted inserts make others wait as the unique indexes do.

**BoardView.** `db` has the rows the list endpoints return, `view` is `BoardContext`'s data, and
a slot is a call under way or a reload it set off. Each mutation of `boardMutations.ts` names the
kinds it reloads afterwards; the action takes them from there.

**ProjectVersions.** `proj` and `doc` are tables, `bytes` the bucket; `tx[p]` walks through
`create_project_version` and `finish_document_copies`, or through a confirmation or deletion of a
document, and may die at each step. `erased` and `told` are history.

**Autosave, DiagramSave.** A JavaScript callback with the continuations it sets off is an
action. In `Autosave` a flush that finds a save in flight waits for it and then has
nothing left to do, so only the save in flight is kept; `opts` are the form's `enabled` and `delay`,
chosen in the first state; `strayed` is history. In `DiagramSave`
the answer handler calls the save of the last render (`saveRef`), hence `After`. `LoadedUnread` is
an `importXml` that throws: the page has the document's version by then and keeps its graph, with an
error and a Retry; `unread` is history, the edits on which the two differed.

## 3. What is checked

Passing runs:

| Run | Question | Bounds |
|---|---|---|
| `Outbox` | Is the queue discipline right under every order of edits, answers, loads, flushes and crashes? Is a flush that overtakes the load all that loses stored work, does nothing answered stay stored, and does the outbox deliver in order (`OrderedDelivery`)? | 1 tab, 2 pages, 3 ids, versions 0..1, attempts 0..1, 1 write waiting beside loads, any of them failing |
| `Pages` | Handlers: are overlapping duplicates and conflicting batches at most once and truthfully answered? Server: do ids stay unique, is a batch in conflict exactly with what it has not seen? Studio: is the timeline two stacks (`UndoStacks`), and do steps fit the page they are put back on? | 3 handlers, 5 requests under 4 ids, 6 arrivals; 2 regions, 2 components, batches of 1 or 2 ops, version at most 2; a shell and a page, limit 2, 3 edits, 2 presses, 1 visit |
| `Edits` | Handlers beside restores, locks, branches and expiring records: do they linearize (`OpService`), does every request end? Editor: do the ops of every action make of the row what is shown, and is a refusal always about something the other user removed? | 2 handlers, 2 requests, 3 arrivals, 1 restore; 2 regions, 7 ids, 2 edits, 1 edit by the other user, 1 opening, 3 halvings between keys |
| `Sync_alone` | Is a person who works alone never refused, and does everything land and show? | 1 tab, 4 edits of 4 kinds, 4 ids, version at most 4, lost and late messages |
| `Sync_together` | Do edits land at most once and batches in order, across conflicts, requeues, locks, revisits and a restore? | 2 tabs or one (see below), 2 entities, 4 ids, version at most 4, lost and late messages |
| `BoardView` | Do the cascades leave no dangling link, does the browser's copy settle on the rows, do server and pages compute the same counts and hours? | 2 requirements, 2 epics, 1 feature, 2 releases, 1 sprint, 2 statuses, 4 writes, 1 call at a time |
| `Server` | Board: one claimer, history as the row says, bookkeeping right wherever requests kept apart? Versions: one version per key, no uploaded row without bytes? | 2 requests at once of 5, 1 requirement raised from the report, 2 sprints, 3 statuses; 2 requests, 1 file, 1 key, 3 versions of which 1 is locked at a time, 1 death |
| `BoardNumbers` | Are numbers unique and without gaps, is a lost race for the board no failure, does every request end? | 2 requests, 2 projects, 3 keys, 3 numbers, one project whose rows are erased |
| `Saves` | Form: does "saved" mean saved, is an edit saved or reported? Diagram: is nothing saved that could be read overwritten unseen, does an edit arrive or its author learn that it did not? | 3 values of which 1 is invalid, 6 combinations of options, 4 edits, 2 failures; 2 editors, 2 edits, 1 failure (of a save, a load or an import) or save by hand, 3 loads |

Why these bounds are enough to be interesting. *Outbox*: three ids give a batch in flight,
one of its page behind it and one of another page, or a dropped batch and its reissue; two
versions make "known above base" and "not above" both happen; attempts are told apart
only as "first" and "retry", the backoff delay being time; a write and a load may wait together,
in either order, and overlap with every tab action; two pages are symmetric. *Pages*: three handlers let a duplicate overlap its original
while a third changes the page; the server side reaches every pair of ops at every version,
with components in regions that left the tree; a limit of 2 (200 in the code) is exceeded by
the third edit, two presses allow an undo of an undo's page and a redo. *Edits*: two edits and
another user's between them make a conflict with something behind it to replay. *Sync*: a tab
needs two queued batches and a foreign change for every branch of the conflict path.
*BoardView*: two epics and two releases let a requirement inherit one link and hold
another. *Server*: two requests at once are what a race takes, a third has to come before or
after one of them. *BoardNumbers*: two requests may lose to each other by project or by key, and
a third key is left for the loser. *Saves*: a save in flight, an edit during it and another
after it are three edits; one of the two editors, which are alike, is taken to be the first to open the diagram.

`Sync_together` has the action constraint `Crowd`: either two tabs are at work, or one tab
whose version is also locked, whose page is left and reopened, and whose wireframe is restored;
one of the four ids is left to an edit that is made again after a conflict. The two together
exceed what TLC can hold. In `Server` and `Sync_together` requests or tabs are symmetric, in
`Pages` handlers, in `BoardView` releases, in `Outbox` pages; symmetry is not used where liveness is checked.

Each property has a mutant in its module: an operator that changes one mapped definition
as a plausible bug would, under which TLC finds the property violated. Every action and
disjunct fires in some passing run.

**Deadlock** is checked in `Outbox`. In the other models arrivals, edits or versions are
bounded and the system may rightly be idle.

**Fairness.** Nothing is assumed about people.

- `Sync_alone`: the retry timer fires (weak); requests that keep being sent arrive, and so do
  answers (strong fairness of `Serve` and `Deliver`, as the network loses some).
- `Edits` (`EveryRequestEnds`): a handler that can take its next step again and again takes
  it: PostgreSQL queues the waiters of a row lock, hence strong fairness. A handler may also die.
- `BoardNumbers`: statements proceed (weak), and a request that waits for an insert or for the
  board's row is served in the end (strong, for the same reason).
- `Saves`: timers fire, loads and requests are served, answers arrive (weak); failures are free
  but bounded.
- `Outbox_recovery` (by hand): issued transactions complete or fail and armed timers fire (weak), and
  a server that is asked again and again gives a definite answer in the end (strong).

**By hand.** `tlc -config X.cfg M` passes for `Outbox_recovery.cfg` (`MCOutbox`: two writes
waiting, on one page, and every batch is answered in the end, unless the version is locked, the tab
goes away or the load failed). `Pages.cfg` with `NotAcceptedTwice` for its invariants, no properties and
`MaxVersion = 3` passes: it is what stands between a client that was offline past the
retention window and a doubled edit. `Edits.cfg` with three edits passed with 4.4 million states.

## 4. Where code and comments differ

Three runs expect a violation; `PROJECT.json` quotes the lines under `findings`.

| Run | Statement | What the run shows |
|---|---|---|
| `Undo_other_page` | `history.ts:9-13`: an undo of a step on another page navigates there and is applied once the page has loaded | the render that follows the navigation still has the old page; the effect takes it for a page the user went to, and puts the step back: nothing is undone |
| `Editor_reopened` | `StudioPage.tsx:265-266`: the ops that persist the normalisation reproduce what the editor shows | they are applied to the normalised page a second time: a remove op of a pruned component throws in a state updater and the studio goes down |
| `Sync_unseen_change` | `ops.py:27-29`: a batch on an entity changed after the version the client last saw is rejected | an ACK's version covers other people's changes the tab never read |

The trace of `Editor_reopened`: I remove a region, another user, who still has it, moves a
component into it and lands first, my removal of the region lands (a set of the tree does not
conflict with the move), and I open the page again.

Eight further configurations are kept for running by hand and end with a counterexample:

| Configuration | Statement | Counterexample |
|---|---|---|
| `Outbox_tabs_overwrite` | `OnlyEarlyFlushesLose`, so `PersistedUntilAnswered` too | two tabs of one browser share a store key; one tab's flush wipes the other's rows |
| `Outbox_flush_while_loading` | `PersistedUntilAnswered` (`outbox.ts:12-14`, crash safety) | a flush issued before the load wipes rows that the outbox has not read, or has read and not written again |
| `OpServer_races` | `LockedIsFaithful` (`common.py:75-77`) | a batch that passed the lock check commits after the lock |
| the same, with this invariant | `RestoreIsUndoable` (`wireframes.py:899`) | an edit committed between the snapshot and the deletes is in neither |
| the same, with this invariant | `LandedIsNeverRefused` (`wireframes.py:610-611`) | the duplicate of an insert that landed is answered 422 |
| `Sync_lock_retry` | `RetriesAreRecognised` (`outbox.ts:7-9`) | a 423 between attempts resets `attempt`, and the batch is rebased |
| `Sync_requeue_order` | `EditsLandInOrder` (`outbox.ts:5-7`) | a requeued edit lands after one typed later |
| `Sync_restore` | `NoBlindOverwrite` | an edit from before a restore overwrites the restored page |
| `Sync_revisit` | `ShowsWhatItHolds` | a reopened page is shown without an edit that landed during the read, under the version that edit gave it |
| `BoardNumbers_refused` | `NoNumberRefused` (`service.py:122`) | the select under the lock does not refresh a board that was loaded before (no `populate_existing`): the counter is stale, the insert hits the unique constraint and the request is a 500 |

Other statements of the code's comments are written down in the modules and are false of the
code; to see why, name one in the configuration given in place of its properties:

| Statement | With | Counterexample |
|---|---|---|
| `NoStaleRowsEver` (`store.ts`, "Wipe-and-rewrite has no such edge") | `Outbox.cfg` | a write fails after `flush()` has cleared `dirty`: an answered batch stays on disk under a clean outbox until the next write |
| `BacklogUnranked` (`service.py:553-556`) | `Server.cfg` | one PATCH gives a backlog requirement a position (`routes.py:1330-1338`) |
| `DeletedSprintsEmpty` (`routes.py:909-911`), `PositionsAreScoped` (`routes.py:1335`), `OnlyBlockedRemember`, `ResolvedIsStamped`, `ResolvedStays` | `Server.cfg` | a request that read the requirement, or the report, before another one changed it writes afterwards |
| `BatchesNeverOvertake` (`outbox.ts:5-6`) | `Sync_requeue_order.cfg`, `Edits` as `AddOrRename`, `CanDelay` and `CanRestore`, 4 ids and versions | a batch that was refused has no record, so a duplicate of it that arrives late is judged anew, and lands after its successors |
| `NumbersDiffer` (`versioning.py:106-109`) | `Server.cfg` | two branches compute the same MAX |
| `RetriedVersionIsWhole` (`projects.py:274`) | `Server.cfg` | a death between commit and copies; a retry returns the version and finishes nothing |
| `RolledStatusShown` (`boardData.tsx:5-6`) | `BoardView.cfg` | the status of a requirement changes, the epic's rolled-up one is not read again |
| `PercentagesAgree` (`service.py:243-245`) | `BoardView.cfg`, `Moves` with `"ToTest"` | `round` goes to even, `Math.round` up |
| `ClosedSprintsDelivered` (`boardModel.ts:188-190`) | `BoardView.cfg` | the server lets a requirement be put into a closed sprint, which a page that has not seen the closing offers |
| `ViewSettles` | `BoardView.cfg`, two slots | an older reload arrives after a newer answer |
| `ReadBeforeSaved` | `Saves.cfg`, as a PROPERTY | `importXml` throws after the version was adopted (`DiagramEditorPage.tsx:107-115`); Retry, or any edit, saves the graph of before over a document the page never showed |
| `EditsAreAlwaysSavedOrTold` (`useAutosave.ts:1-12`) | `Saves.cfg`, as a PROPERTY | with `delay: null` no timer is armed: an edit stays "pending" until somebody flushes, as `useAutosave.test.tsx:229-239` asserts |
| `ImportStays`, `UnsavedIsAskedAbout`, `SavedIsServer` | `Saves.cfg` | a save before the first load; a change during a save is shown as saved when that one lands; a failed save may have landed |
| `AloneWithoutConflict` (`DiagramEditorPage.tsx:277`) | `Saves.cfg`, one editor | the retry of a save that landed, or a load that a save overtook, is told the diagram "was changed elsewhere" |
| `UndoKeepsOthers` (as a PROPERTY) | `Pages.cfg` | a page that is fetched again shows another user's edit, its steps are not dropped (`history.ts:13-15`), and an undo puts the document of before back |
| `ReloadedIsForgotten` | `Pages.cfg`, 4 edits, no presses | two reloads of two pages batch into one render |
| `ListsAreSorted` (`actions.ts:6-7`), `RegionsHaveLists`, `LandingIsShown` | `Edits.cfg` | a replayed op pushes behind the list; a replayed split has no list; an insert lands in a region the other user removed |

## 5. What is proved

The proofs hold for every value of the constants: any tabs, pages, edits, handlers and
requests, and any bound.

**Outbox** (`OutboxProofs`). From `Bounds` and `NoBatchAssumption`:
`TypeCorrect` (`TypeOK`), `InFlightStaysHead` (`InFlightIsHead`), `NeverAsleep` (`Awake`),
`RetriesStayFrozen` (`RetriesAreFrozen`), `QueuesInOrder` (`QueueIsUnanswered`) and
`OutboxDelivers`: the outbox implements `OrderedDelivery`. The first three invariants are not
inductive one by one:
that a shift removes the answered batch needs that nothing goes before the head while a
batch is in flight, which needs that at most one load is outstanding and only for a tab
that is still loading (`LoadsAwaited`), and that a loading tab sends nothing. `IInv` joins
the type, `InFlightIsHead`, `Awake`, that a failed batch is still the head in the form it
was last sent (`Steady`), and `LoadsAwaited`. The proof has one lemma per operator on an
Outbox record and one step per action.

That a queue is the unanswered part of what was accepted, in the order accepted, takes `OrderInv`
on top of it. A conflict takes batches out of the middle of the queue, so the ids accepted must
be distinct and minted before `nextId`, and those a conflict takes out are answered by the same step;
and a load puts stored rows before the queue, so every row in the store and in every
transaction that waits must be sound, and a load must bring only what its tab has not taken in yet
(`LoadsFresh`, the half that ties the store to the tabs). Every action is then a step of one
outbox (`Works`: it answers a part of the queue and takes ids in at the back, `Yields`), a birth or a death,
or the store's (`StepKinds`). The same analysis gives the refinement: a step serves at the
front, adds at the back, recovers at the front, or is a stutter of the abstract line.
`SublistProofs` has what both need of `Keep`, by way of the least member of a set of
positions.

**The store** (`OutboxProofs`). Two statements tie IndexedDB to the queue, whatever loads and writes fail. Both take
one hypothesis, that a store key has one tab (`OneTab`), which `Outbox_tabs_overwrite` shows to be needed. `CleanIsTidy`
(`NoStaleRows`): nothing answered comes back from the store, unless the last write failed. A clean outbox let nothing
go since its last flush, so what it wrote is in its queue; but the flush may still wait, and a crash may take it, so
`TidyInv` says it of the rows on disk if no transaction waits, and of the last write if one does. `StoreKeeps`
(`OnlyEarlyFlushesLose`): an id leaves the store only once it is answered, or by a write that was issued
before the outbox had loaded (which the code allows), and then an outbox that has loaded by that time still has it in its queue.
A flush replaces all rows, so this needs that the rows on disk, each write behind them, and in the
end the queue hand ids on to the next until they are answered (`HandedOn`, of the writes that are not early, and `Holds`, in
`KeptInv`), and that the queue of a tab that still loads has what it wrote behind its load (`BehindLoad`). That a
transaction fails keeps it, because a failed write leaves what was handed to it where it came from, and a write behind it has it too.

**The editing path end to end** (`StudioSyncProofs`). From the assumptions of `StudioSync`,
`Outbox` and `PageOps`: `LandsOnce` (`EditsLandOnce`) and `LandsInOrder` (`BatchesLandInOrder`), for
any number of tabs and pages, with delays, duplicates, locks, reopened pages and the restore.
Neither is a property of a part: the server drops a duplicate only under the same id, and a tab that
is told conflict queues its later edits again under other ids. `OutboxSteps` first shows that the
composition takes only steps of `Outbox`, so that `IInv` and `OrderInv` hold in it without another
proof. `SyncInv` adds where a batch may be: in the queue of one tab or held by it after a
conflict, never both, and known to the server only if it is or was the head of a queue (`PlaceInv`), so
what a conflict hands back was never sent; the batches that landed or may still land are different
edits (`OriginInv`); the server has a record of what landed (`LogInv`); an answer on its way is about
the batch in flight (`WireInv`); outboxes take in different batches, in the
order of their ids (`TakenInv`); and what was accepted before a batch that was sent is answered (`AnswerInv`). A request that
arrives late is the head of a queue or was answered; if it was answered, the server
has its record, unless it was refused. That last case is the exception in the statement of
`BatchesLandInOrder`; the proof would not go through without it, and section 4 has the counterexample
that TLC then found.
The proof needs of the applier only that it leaves a page's version alone, which is proved of `Stages` by a
least counterexample.

**One person alone** (`StudioSyncProofs`). `NeverAtOdds` (`NeverAtOddsWithOneself`) and `ShowsTheRows`
(`ShowsWhatItHolds`), under `Alone`: one tab, and no lock, reopened page or restore; any number of pages,
ids and versions, any network. This is what `Sync_alone` runs, and it is the statement's own case: with
two people a conflict is right, and a reopened page can show the rows without an edit that landed during the
read (section 4, `Sync_revisit`). It also assumes of the page everything starts from that its entities have
versions the page had (`Stamped`).
The invariant `AloneInv` says that the queue is a path from the rows to what is shown (`Leading`): each batch
that the server does not have yet applies where its turn comes, and together they make the page on
screen. The bases are right because of what `drain()` does with them. Only the head can have made a
version that the outbox does not know (`Knows`); so a first attempt goes out on the version the page has, and a
retry on the base it had before (`Abreast`), which is why retries must not be rebased. A request that
comes late was answered, or is the head itself, and finds its record (`OldNews`). Ops look at a page's document
and not at its versions (`SameStages`), so browser and server make the same page of the same batch.

**Op-batch endpoint** (`PagesProofs`). From `Bounds`, `PageAssumption` and
`PayloadAssumption`, with `Verdict` and `Applied` opaque, so whatever the applier computes:
`HandlersHoldTheRow` is the inductive invariant `HInv`: a handler about to commit has the
row lock, and the page it judged its batch on is still the page (a restore waits for the
same lock). From it `HandlersLinearize`: `Spec => Linearizable`, a refinement of `OpService`
in which a commit is the linearization point and every other handler step stutters.
While no record expires (`~CanExpire`), the invariant `EInv` says that a batch took effect
exactly if its record says so and that no answer contradicts the record; from it
`EffectsAreSingle` (`AtMostOnce`) and `ClientsAreToldTheTruth` (`AnswersAreTrue`: nobody is told
conflict of a batch that took effect, and ok only of one that took effect once). With expiring
records at-most-once is false in general and not claimed.

**Op applier** (`PageOpsProofs`, `PagesProofs`). From `PagesAssumption`, for any first page that is well formed, any list of ops and any regions
and components: `IdsAreUnique` (`UniqueIds`) and `ConflictsTellTheTruth` (`ConflictsAreExact`). `PInv`
is a page of the right type with distinct ids over all its lists, those of regions that left the tree
too, and no entity version above the page's. What one op keeps, `Effect` is shown to keep, by what
`Keep` and an append do to a list; that the stages of a batch keep it is the least stage
that does not (`AppliedFacts`). That an entity's version is the last one
that a batch changed it in is the other half (`Booked`): what an op is about is stamped, and what none of the ops is about is as it
was and is not. So the comparison with the base is neither too lax nor too strict.

**Undo history** (`PagesProofs`). From `PagesAssumption`, for any pages, shells around them and bounds: `CursorIsFollowed`
(`FollowsCursor`). `UInv` says what undo relies on when it puts a snapshot back whole: the steps of one page are
a chain, each starting from what the one before it left, whatever steps of other pages stand between (`Chained`),
and the page shows the link of its chain that the cursor is at (`AtCursor`), unless a fetch or a reload has replaced
its document (a reload shows the page without the batch that was in conflict, and resets its steps). What is discarded on the way to a step, dropped after a conflict or forgotten at the limit keeps
both, because it takes whole pages or the oldest steps (`Thinned`). A step that waits for its page has moved the cursor
and not the page, so the invariant is about the timeline with that step put back (`PutBack`); that
nothing but a render can come in between is `Waiting`.

`UndoIsTwoStacks` (`TwoStacks`) is the refinement: `Done` and `Todo`, the steps up to the cursor and those after
it in reverse, start empty, and every step of `UndoHistory` is a `Commit`, `Amend`, `Undo`, `Redo`, `Forget` or `DeletePage` of
`UndoStacks`, or leaves both alone (`StacksStep`). A press discards the steps of deleted pages between the cursor and
the step it finds and moves one step across (`UndoPops`, `RedoPops`); a step that is put back (`rollback`) is a pop by
the other button (`RollbackPops`), which holds because of `Tops`: a waiting step is still on top of the stack it moved to, and
no reset arrives while it waits. `Tops` also says that the array is never longer than the limit,
which is why the oldest step alone is forgotten. `PagesAssumption` takes the limit to be at least 1 (`HISTORY_LIMIT` is a positive constant).

**Board numbers** (`BoardNumbersProofs`). From `NumberAssumption`. `NumbersAreGapless` is not
inductive: a request mints from the counter it loaded before it had the row. `NInv` adds that a
counter once loaded is never above the committed one (`Sees`), that a board not yet committed is the
only one of its project (`Exclusive`), that the board whose key is changed is committed (`Renames`), and that
the rows of a project that erases none are exactly the numbers given (`Kept`). So a create with a stale counter meets
a number that is taken and is refused, and any other takes the next one: `NumbersHaveNoGap`. An
action property, `NoFirstRequestFails` (`LoserReselects`), follows without it.

**Board** (`ServerProofs`). From `BoardAssumption`, for any requirements, sprints and requests:
`ClaimsWonOnce` (`ClaimWonOnce`), `BurndownIsTheRow` (`BurndownReadsTheRow`) and
`BookkeepingHolds` (`BookkeepingWhereApart`). The first two hold of every requirement and rest on
the row locks: `LockInv` says that no two requests hold one row, that a claim under way holds a row that
nobody has won, and what each kind of request holds between its read and its commit. The
third is about what no lock protects, and holds of each requirement that is not in `met`, beside any number of overlapping
requests about others: that nothing a request has read of it has changed since, and that what it is about to write leaves
the row in order (`Fresh`), because whoever else could change it would have met that request (`Meetings`). `IInv` is
`LockInv` together with that. Of a requirement in `met` the statement is false (section 4).

**Autosave** (`SavesProofs`). From `FormAssumption`. `SettledMeansSaved` and `SavedIsOnServer`
hold of a landing only because of what is known of the save in flight: an abandoned one counts as
strayed once it is served (`AbandonedStrays`), one that is served and counted on is what the server holds
(`ServedIsHeld`), and until it is served the server holds the value last
saved (`UnservedIsNew`); a form that is not enabled sends nothing (`NeverSends`). `AInv` joins
them; from it `SettledIsSaved` and `SavedIsHeld`. A form that was reset during a save and then set back may look
settled while it waits for the abandoned save; the statement excepts that.

**Diagrams** (`SavesProofs`). From `DiagramAssumption`, for any number of editors: `SavedIsThere` (`SavedIsSaved`) and
`OthersAreKept` (`AcceptedStays`). The version in the UPDATE's condition protects others only if the editor whose
version is the diagram's has all of the others' edits on its page. `DInv` says that such an editor
lacks nothing but edits of its own, and edits of a document it was told it could not read (`Lacks`); that this survives a load that arrives while a save is under way
(`Loads`), and the reload after a conflict that another save has overtaken (`Rereads`); and that no
other page shows what it would take off as saved (`Apart`). `SavedIsSaved` says that the server has what the page shows, not
that the page shows all of it: a save that was overtaken by a load may have put more there.

**Versions and documents** (`ServerProofs`). From `VersionsAssumption`, for any requests, keys, files
and deaths: `UploadedIsThere` (`UploadedHasBytes`) from `BytesInv`, and `RetriesAreOne` (`RetriesAgree`)
from `RetryInv`. A request decides before it writes, so `BytesInv` says what is known in between: bytes that a
confirmation has judged good, or a branch has copied, are there unless a delete took them. `RetryInv` has the
unique index on source and key (`MadeOnce`), that a row not yet committed is the only one of its
source and key (`InsertedAlone`), and that a version a caller was answered, or will be, is the
one its key finds, as long as it and its source are there (`VersionsFound`).

**Only model-checked**:

- liveness (`EveryRequestEnds`, `EveryEditLands`, `EditsAreSavedOrTold`, `EditsArriveOrTell`
  and `EveryBatchAnswered`), which is outside the prover's reach;
- `NotAcceptedTwice` of `PageHistory`, and `TypeOK` of `OpServer`;
- all of `PageEditor` and `BoardView`. `BoardView`'s `FiguresAgree` computes sums over sequences, which would take
  induction over data.

## 6. Abstractions to know about

- *Ids.* Batch ids are a counter: `randomUUID()` never repeats.
- *Time.* Backoff, debounce and coalescing delays are not modelled; a timer fires at any time,
  and an edit is within the coalescing window or not.
- *Outbox.* Any answer may come for any batch, so the safety properties do not depend on
  the server. A load that fails leaves an outbox that never sends, has no request and no timer, and still
  takes edits and writes them: `Awake` is about outboxes that have loaded.
- *StudioSync.* A tab has every page open; opening one again is a read (`Visit`) and its
  arrival (`Show`), between which the studio blocks edits (`pageSettled`) and answers may
  still come in. An aborted read is one that has not arrived yet.
- *OpServer.* One page and one restore at a time. Op batches lock page, then project,
  then wireframe row, and so does a restore, so there is no lock cycle to find between
  them; waiting on the project row is not modelled. A lost database connection during a commit
  is `Die` before it or the lost answer of `GiveUp` after it.
- *UndoHistory.* Two reloads may reach React in one render. A page is not deleted while it is the shell of the open one. Whether a batch meets
  another user's change is whether the page was read without it (`Theirs(p) # known[p]`). The
  migration of an old page on arrival is in `PageEditor` instead. The branch of `Render` that applies a
  waiting step is in the code and in the model and never taken, which is the finding.
- *PageEditor.* A document is its regions in reading order, each with an opaque look, and their
  components, each with an opaque body: nesting, collapse and columns are left out. Another user's
  edit opens the page, migrates it and lands in one step. Only components on screen are acted on,
  an action whose key between two keys throws changes nothing, and the page is opened anew only
  when nothing waits (otherwise see `StudioSync`). Redo, the clipboard, elements, what a pattern
  brings along, and the cached shells of `useHostChain` are left out.
- *Board.* History rows and events are ordered by commit; the two selects of a handler that reads one
  row after another are one read; a requirement that is created as Done has no status event. Of a queue position
  only the place it was given in is kept, not the number.
- *BoardNumbers.* Where rows leave the table a number may be given again later; gapless is about the numbers
  given.
- *ProjectVersions.* A version's other children are copied in the same transaction as the row and
  are not modelled; bytes are "good" or "bad".
- *Autosave.* The options do not change while the form is mounted. After unmount nothing is shown; an edit counts as reported by the error shown while
  mounted or by the alert.
- *DiagramSave.* A document is a set of edits, undo and deletion being edits too. An import that throws leaves the
  graph as it was. A reload while a
  debounce timer is pending lets an editor overwrite its own just-saved edits, and leaving the
  page drops the timer with unsaved edits; the properties are stated accordingly.

## 7. Not modelled

- *Agents and tokens*: launching calls an external task service between a read and a commit; two
  launches of one agent keep only the last handle (a listed hazard). In the plan.
- *Annotations*: numbers under a row lock, the pattern of `BoardNumbers`.
- *Paths inside a component*: `setPath` and `_set_path` differ on a path through an array (a listed
  hazard); it needs JSON values, and is better tested than modelled.
- *`crud.ts`, clipboard, free-layout geometry, the Python twin of `positions.ts`, id remapping*: pure and
  sequential.
- *Catalogue, personas, use cases, datasets, import, audit*: single-row operations and validation, with
  nothing to interleave.
- *Slack, GitHub, project agent, accounts*: external calls and standard session handling, outside the
  editing core.
- *Rendering, screenshot editor, onboarding, marketing, and `src/legacy`*: no state that a property here is
  about. They are most of the implementation's lines, which is why the map covers a small share of
  them.

## 8. Plan

Done: everything in section 2. Next, in this order:

1. `Agents`: launch, stop, finish and wake beside an external task service; a launched task is
   tracked, and one that ended is noticed.
2. Invitations, and the note and task numbers of annotations.
3. `StudioSync` with parent shells (`useHostChain`).

Related questions share a run, and a run that a theorem or a larger run subsumes is dropped.
