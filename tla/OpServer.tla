------------------------------ MODULE OpServer ------------------------------
(***************************************************************************)
(* The server side of page editing, at the grain of its SQL statements:    *)
(* apply_op_batch and restore_version (backend/app/studio/wireframes.py),  *)
(* the version lock and create_project_version (projects.py,               *)
(* versioning.py), on one page under READ COMMITTED.                       *)
(*                                                                         *)
(* A request handler is one transaction in a slot.  It reads the project   *)
(* (423 when locked), looks the batch id up, takes the page row lock,      *)
(* applies, and commits page and record together; any other transaction    *)
(* may commit between two of these steps, and the handler may die at any.  *)
(***************************************************************************)
EXTENDS PageOps

CONSTANTS
    Slots,        \* request handlers that may run at the same time
    Payloads,     \* requests clients may send: [id, base, ops]
    InitialPage,  \* the page at the start
    None,         \* "nothing there"
    MaxArrivals,  \* bound: op requests that arrive
    MaxRestores,  \* bound: restores
    CanExpire,    \* records may pass the 24 h retention window
    CanLock       \* people lock, unlock and branch the version

BatchIds == {p.id : p \in Payloads}

\* What project_op_batches keeps of a batch that was answered.
Record == [payload : Payloads, status : {"ok", "conflict"}]

ASSUME Bounds == /\ MaxArrivals \in Nat /\ MaxRestores \in Nat
                 /\ CanExpire \in BOOLEAN /\ CanLock \in BOOLEAN
ASSUME PageAssumption == InitialPage \in Page /\ None \notin Page
ASSUME PayloadAssumption ==
    /\ \A p \in Payloads : p.base \in Nat /\ p.ops \in Seq(Op)
    /\ None \notin Payloads \cup Slots \cup Record

VARIABLES
    row,       \* the project_pages row, as committed
    gen,       \* which incarnation of the row this is; a restore makes one
    locked,    \* projects.locked_at is set
    records,   \* project_op_batches, by client_batch_id
    holder,    \* the slot that has the page row locked
    proc,      \* proc[s]: the handler in slot s
    saved,     \* pages of the saved versions, which are kept for ever
    restorer,  \* a restore between its snapshot and its deletes
    copier,    \* a branch between its reads and its commit
    undo,      \* the last "before_restore" snapshot
    \* history
    arrivals,  \* op requests that arrived
    effects,   \* effects[id]: committed applications of batch id
    told,      \* answers sent: <<id, status>>
    replaced,  \* the page the last restore deleted
    agreed     \* what a branch copied from this version, until it is unlocked

opVars   == <<records, holder, proc, effects, told, arrivals>>
lockVars == <<locked, copier, agreed>>
restVars == <<saved, restorer, undo, replaced, gen>>
vars     == <<row, opVars, lockVars, restVars>>

Idle == [pc |-> "idle", payload |-> None, seen |-> None, gen |-> 0]

Init ==
    /\ row = InitialPage /\ gen = 0 /\ locked = FALSE
    /\ records = [i \in BatchIds |-> None]
    /\ holder = None /\ proc = [s \in Slots |-> Idle]
    /\ saved = {InitialPage}
    /\ restorer = None /\ copier = None /\ undo = None
    /\ arrivals = 0 /\ effects = [i \in BatchIds |-> 0] /\ told = {}
    /\ replaced = None /\ agreed = None

-----------------------------------------------------------------------------
(* apply_op_batch *)

At(s, pc) == proc[s].pc = pc
Sent(s)   == proc[s].payload

\* Mutant: the row lock outlives the transaction.
FinishHolding(s, status) ==
    /\ proc' = [proc EXCEPT ![s] = Idle]
    /\ told' = told \cup {<<Sent(s).id, status>>}
    /\ UNCHANGED holder

\* The handler ends: it answers, and its transaction is over.
Finish(s, status) ==
    /\ proc' = [proc EXCEPT ![s] = Idle]
    /\ told' = told \cup {<<Sent(s).id, status>>}
    /\ holder' = IF holder = s THEN None ELSE holder

\* get_writable_project: one plain SELECT, before anything else.
Arrive(s, p) ==
    /\ At(s, "idle") /\ arrivals < MaxArrivals
    /\ arrivals' = arrivals + 1
    /\ IF locked
       THEN told' = told \cup {<<p.id, "locked">>} /\ UNCHANGED proc
       ELSE /\ proc' = [proc EXCEPT ![s] = [Idle EXCEPT !.pc = "admitted", !.payload = p]]
            /\ UNCHANGED told
    /\ UNCHANGED <<row, records, holder, effects, lockVars, restVars>>

\* Mutant: a retry of a batch that was answered is told it went well.
LookupAlwaysOk(s) ==
    /\ At(s, "admitted")
    /\ IF records[Sent(s).id] = None
       THEN /\ proc' = [proc EXCEPT ![s].pc = "fresh", ![s].gen = gen]
            /\ UNCHANGED <<told, holder>>
       ELSE Finish(s, "ok")
    /\ UNCHANGED <<row, records, effects, arrivals, lockVars, restVars>>

\* A retry of a batch that was answered gets the stored answer; the hash
\* covers everything but the id, so another base is another payload.
Lookup(s) ==
    LET rec == records[Sent(s).id]
    IN  /\ At(s, "admitted")
        /\ IF rec = None
           THEN /\ proc' = [proc EXCEPT ![s].pc = "fresh", ![s].gen = gen]
                /\ UNCHANGED <<told, holder>>
           ELSE Finish(s, IF rec.payload = Sent(s) THEN rec.status ELSE "reused")
        /\ UNCHANGED <<row, records, effects, arrivals, lockVars, restVars>>

\* Mutant: the page is read without waiting for the row lock.
AcquireUnlocked(s) ==
    /\ At(s, "fresh")
    /\ IF Verdict(row, Sent(s).ops, Sent(s).base) = "invalid"
       THEN Finish(s, "invalid")
       ELSE /\ holder' = s
            /\ proc' = [proc EXCEPT ![s].pc = "holding", ![s].seen = row]
            /\ UNCHANGED told
    /\ UNCHANGED <<row, records, effects, arrivals, lockVars, restVars>>

\* Mutant: a malformed batch is recorded like any other.
AcquireInvalid(s) ==
    /\ At(s, "fresh") /\ holder = None
    /\ holder' = s
    /\ proc' = [proc EXCEPT ![s].pc = "holding", ![s].seen = row]
    /\ UNCHANGED <<row, records, effects, told, arrivals, lockVars, restVars>>

\* SELECT ... FOR NO KEY UPDATE waits for the row; the verdict is computed
\* on what it returns.  A malformed batch ends here and releases the lock.
Acquire(s) ==
    /\ At(s, "fresh") /\ holder = None
    /\ IF Verdict(row, Sent(s).ops, Sent(s).base) = "invalid"
       THEN Finish(s, "invalid")
       ELSE /\ holder' = s
            /\ proc' = [proc EXCEPT ![s].pc = "holding", ![s].seen = row]
            /\ UNCHANGED told
    /\ UNCHANGED <<row, records, effects, arrivals, lockVars, restVars>>

\* The row the SELECT waited for was deleted by a restore: 404, although the
\* page is there again under the same id.
RowGone(s) ==
    /\ At(s, "fresh") /\ proc[s].gen # gen
    /\ Finish(s, "gone")
    /\ UNCHANGED <<row, records, effects, arrivals, lockVars, restVars>>

\* Records past the retention window go when another one is written.
Pruned(old) == [i \in BatchIds |-> IF i \in old THEN None ELSE records[i]]
Old(s) == IF CanExpire THEN SUBSET (BatchIds \ {Sent(s).id}) ELSE {{}}

\* Mutant: no unique constraint on (project_id, client_batch_id).
CommitTwice(s) ==
    LET p == Sent(s)
        verdict == Verdict(proc[s].seen, p.ops, p.base)
    IN  /\ At(s, "holding")
        /\ records' = [records EXCEPT ![p.id] = [payload |-> p, status |-> verdict]]
        /\ row' = IF verdict = "ok" THEN Applied(proc[s].seen, p.ops) ELSE row
        /\ effects' = IF verdict = "ok" THEN [effects EXCEPT ![p.id] = @ + 1] ELSE effects
        /\ Finish(s, verdict)
        /\ UNCHANGED <<arrivals, lockVars, restVars>>

\* The page and the record of the answer are written and committed as one.
\* A 409 is recorded too.  Two records for one id violate a unique
\* constraint: the later transaction fails whole, with a 500.
Commit(s) ==
    LET p == Sent(s)
        verdict == Verdict(proc[s].seen, p.ops, p.base)
    IN  /\ At(s, "holding")
        /\ IF records[p.id] # None
           THEN Finish(s, "error") /\ UNCHANGED <<row, records, effects>>
           ELSE /\ \E old \in Old(s) :
                      records' = [Pruned(old) EXCEPT
                                     ![p.id] = [payload |-> p, status |-> verdict]]
                /\ row' = IF verdict = "ok" THEN Applied(proc[s].seen, p.ops) ELSE row
                /\ effects' = IF verdict = "ok"
                              THEN [effects EXCEPT ![p.id] = @ + 1] ELSE effects
                /\ Finish(s, verdict)
        /\ UNCHANGED <<arrivals, lockVars, restVars>>

\* The worker or its connection dies: the transaction rolls back and nobody
\* is told anything.
Die(s) ==
    /\ ~At(s, "idle")
    /\ proc' = [proc EXCEPT ![s] = Idle]
    /\ holder' = IF holder = s THEN None ELSE holder
    /\ UNCHANGED <<row, records, effects, told, arrivals, lockVars, restVars>>

-----------------------------------------------------------------------------
(* The version lock, and branching a version *)

\* POST .../lock
LockProject ==
    /\ CanLock /\ ~locked
    /\ locked' = TRUE
    /\ UNCHANGED <<row, copier, agreed, opVars, restVars>>

\* POST .../unlock
UnlockProject ==
    /\ CanLock /\ locked
    /\ locked' = FALSE /\ agreed' = None
    /\ UNCHANGED <<row, copier, opVars, restVars>>

\* create_project_version reads the pages with plain SELECTs ...
CopyPages ==
    /\ CanLock /\ copier = None
    /\ copier' = row
    /\ UNCHANGED <<row, locked, agreed, opVars, restVars>>

\* ... and commits the copy and, when asked to, the lock on its source.
CommitCopy(lockSource) ==
    /\ copier # None
    /\ copier' = None
    /\ IF lockSource THEN locked' = TRUE /\ agreed' = copier
       ELSE UNCHANGED <<locked, agreed>>
    /\ UNCHANGED <<row, opVars, restVars>>

-----------------------------------------------------------------------------
(* Saved versions *)

\* create_version: the page is saved as it is.
SaveVersion ==
    /\ MaxRestores > 0 /\ ~locked
    /\ saved' = saved \cup {row}
    /\ UNCHANGED <<row, opVars, lockVars, restorer, undo, replaced, gen>>

\* restore_version passes the lock check, reads the version asked for, and
\* reads the pages for the "before_restore" snapshot ...
BeginRestore ==
    /\ gen < MaxRestores /\ ~locked /\ restorer = None
    /\ \E page \in saved : restorer' = [undo |-> row, target |-> page]
    /\ UNCHANGED <<row, opVars, lockVars, saved, undo, replaced, gen>>

\* Mutant: the pages are replaced without waiting for row locks.
FinishRestoreUnlocked ==
    /\ restorer # None
    /\ row' = Restored(restorer.target) /\ gen' = gen + 1
    /\ saved' = saved \cup {restorer.undo}
    /\ undo' = restorer.undo /\ replaced' = row
    /\ restorer' = None
    /\ UNCHANGED <<opVars, lockVars>>

\* ... then deletes them, which waits for row locks, inserts the saved ones
\* under the same ids at version 0, and commits all of it.
FinishRestore ==
    /\ restorer # None /\ holder = None
    /\ row' = Restored(restorer.target) /\ gen' = gen + 1
    /\ saved' = saved \cup {restorer.undo}
    /\ undo' = restorer.undo /\ replaced' = row
    /\ restorer' = None
    /\ UNCHANGED <<opVars, lockVars>>

-----------------------------------------------------------------------------

Handler(s) == Lookup(s) \/ Acquire(s) \/ RowGone(s) \/ Commit(s)

Next ==
    \/ \E s \in Slots : Handler(s) \/ Die(s) \/ \E p \in Payloads : Arrive(s, p)
    \/ LockProject \/ UnlockProject \/ CopyPages
    \/ \E lockSource \in BOOLEAN : CommitCopy(lockSource)
    \/ SaveVersion \/ BeginRestore \/ FinishRestore

Spec == Init /\ [][Next]_vars

\* A handler that can take its next step does.
FairSpec == Spec /\ \A s \in Slots : SF_vars(Handler(s))

-----------------------------------------------------------------------------
(* Properties *)

Proc   == [pc : {"idle", "admitted", "fresh", "holding"},
           payload : Payloads \cup {None}, seen : Page \cup {None}, gen : Nat]

\* Every variable has its type.
TypeOK ==
    /\ row \in Page /\ gen \in Nat /\ locked \in BOOLEAN
    /\ records \in [BatchIds -> Record \cup {None}]
    /\ holder \in Slots \cup {None}
    /\ proc \in [Slots -> Proc]
    /\ saved \subseteq Page
    /\ restorer \in [undo : Page, target : Page] \cup {None}
    /\ copier \in Page \cup {None}
    /\ undo \in Page \cup {None}
    /\ arrivals \in Nat /\ effects \in [BatchIds -> Nat]
    /\ told \subseteq BatchIds \X {"ok", "conflict", "invalid", "reused",
                                   "gone", "error", "locked"}
    /\ replaced \in Page \cup {None} /\ agreed \in Page \cup {None}

\* A batch takes effect at most once however often it is sent and however
\* its duplicates overlap: the lookup is no guard against one in progress,
\* the unique constraint is.
AtMostOnce == \A i \in BatchIds : effects[i] <= 1

\* A client told "conflict" drops its edit, so a batch that took effect must
\* never be answered so, not even to a duplicate that overlapped it.
ConflictMeansNoEffect ==
    \A i \in BatchIds : <<i, "conflict">> \in told => effects[i] = 0

\* And a client told "ok" forgets its edit, so that edit must have landed.
OkMeansEffect ==
    \A i \in BatchIds : <<i, "ok">> \in told => effects[i] = 1

\* What a client is told of a batch is true of the page: it neither drops an
\* edit that landed nor forgets one that did not.
AnswersAreTrue == ConflictMeansNoEffect /\ OkMeansEffect

\* The handlers, for all their interleaving, are the atomic service
\* OpService: no batch is computed on a page another one has replaced.
Service == INSTANCE OpService WITH NoAnswer <- None, answers <- records
Linearizable == Service!Spec

\* Every request is answered: no handler waits for ever for the row lock.
EveryRequestEnds == \A s \in Slots : ~At(s, "idle") ~> At(s, "idle")

\* wireframes.py on idempotency: a retry of a batch that already landed gets
\* the stored answer, so it is never refused.
LandedIsNeverRefused ==
    \A i \in BatchIds : effects[i] > 0 => <<i, "invalid">> \notin told

\* common.py on the lock: the version a branch was taken from stays a
\* faithful record of what was agreed.
Document(p) == <<p.tree, p.lists, p.fields>>
LockedIsFaithful == locked /\ agreed # None => Document(row) = Document(agreed)

\* wireframes.py on restore: the current state becomes an automatic snapshot,
\* so a restore is undoable.
RestoreIsUndoable ==
    undo # None => Document(Restored(undo)) = Document(Restored(replaced))

=============================================================================
