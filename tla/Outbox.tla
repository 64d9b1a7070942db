------------------------------- MODULE Outbox -------------------------------
(***************************************************************************)
(* The studio's outbox (features/studio/sync/outbox.ts), the React hook    *)
(* that owns one (useWireframeSync.ts) and the browser store that persists *)
(* its queue (store.ts).                                                   *)
(*                                                                         *)
(* One record tab[t] is one Outbox object: its fields are the class's      *)
(* fields, an operator on such a record is a method, and every action      *)
(* ends with the drain() the method ends with.  All tabs that edit one     *)
(* wireframe share the rows stored under the key project:wireframe.  The   *)
(* server is the environment here: any answer may come back for the batch  *)
(* in flight.  Module StudioSync puts the real server behind it.           *)
(***************************************************************************)
EXTENDS Sublist

CONSTANTS
    Tabs,        \* browser tabs that have the wireframe open
    Pages,       \* pages of the wireframe
    Edits,       \* what the ops of a batch do; opaque to the outbox
    NoBatch,     \* "no batch", a value that is not a batch
    MaxId,       \* bound: batch ids ever minted
    MaxVersion,  \* bound: page versions
    MaxAttempt,  \* bound: failed attempts told apart
    MaxIo        \* bound: writes to the store waiting

Ids       == 1 .. MaxId
Versions  == 0 .. MaxVersion
Unknown   == -1
Batch     == [id : Ids, page : Pages, base : Versions, edit : Edits]

ASSUME Bounds  == /\ MaxId \in Nat /\ MaxVersion \in Nat
                  /\ MaxAttempt \in Nat \ {0} /\ MaxIo \in Nat
ASSUME NoBatchAssumption == NoBatch \notin Batch

VARIABLES
    tab,     \* tab[t]: the Outbox object of tab t
    store,   \* the rows IndexedDB holds for the wireframe, in seq order
    io,      \* store transactions issued and not yet run, oldest first
    nextId,  \* next batch id: randomUUID() modelled as a counter
    settled, \* history: ids some outbox was answered for
    missed   \* history: the last write failed, and nothing was read since

vars == <<tab, store, io, nextId, settled, missed>>

-----------------------------------------------------------------------------
(* The Outbox object *)

\* A new Outbox; "closed" is a tab that has none.  The last three fields are
\* history: ids this outbox took in, in order; ids it handed to a callback;
\* the batch it sent last.
NewOutbox(life) ==
    [life |-> life, queue |-> <<>>, sending |-> NoBatch, attempt |-> 0,
     timer |-> FALSE, dirty |-> FALSE, locked |-> FALSE,
     known |-> [p \in Pages |-> Unknown], held |-> {},
     accepted |-> <<>>, answered |-> {}, last |-> NoBatch]

OutboxType ==
    [life : {"closed", "loading", "open"}, queue : Seq(Batch),
     sending : Batch \cup {NoBatch}, attempt : 0 .. MaxAttempt,
     timer : BOOLEAN, dirty : BOOLEAN, locked : BOOLEAN,
     known : [Pages -> Versions \cup {Unknown}],
     held : SUBSET [page : Pages, batches : Seq(Batch)],
     accepted : Seq(Ids), answered : SUBSET Ids,
     last : Batch \cup {NoBatch}]

IdsOf(q) == {q[i].id : i \in DOMAIN q}
IdSeq(q) == [i \in DOMAIN q |-> q[i].id]

\* notePageVersion: the known version only rises.
Noted(s, p, v) ==
    IF v > s.known[p] THEN [s EXCEPT !.known[p] = v] ELSE s

\* Mutant: a retry is rebased too.
HeadAlwaysRebased(s) ==
    LET b == Head(s.queue)
    IN  IF s.known[b.page] > b.base THEN [b EXCEPT !.base = s.known[b.page]] ELSE b

\* The head of the queue as drain() sends it: on a first attempt its base is
\* raised to the known version, a retry goes out as it is.
HeadToSend(s) ==
    LET b == Head(s.queue)
    IN  IF s.attempt = 0 /\ s.known[b.page] > b.base
        THEN [b EXCEPT !.base = s.known[b.page]] ELSE b

\* Mutant: drains before init() has restored the persisted queue.
CanDrainWhileLoading(s) ==
    /\ s.life # "closed" /\ ~s.locked
    /\ s.sending = NoBatch /\ ~s.timer /\ s.queue # <<>>

CanDrain(s) ==
    /\ s.life = "open" /\ ~s.locked
    /\ s.sending = NoBatch /\ ~s.timer /\ s.queue # <<>>

\* drain() up to its await: the head is rebased in place and put in flight.
Drained(s) ==
    IF CanDrain(s)
    THEN [s EXCEPT !.queue   = [@ EXCEPT ![1] = HeadToSend(s)],
                   !.sending = HeadToSend(s),
                   !.last    = HeadToSend(s)]
    ELSE s

\* enqueue(), once per batch; one drain after the last is the same as one
\* after each, as only the head is ever sent.
Enqueued(s, bs) ==
    Drained([s EXCEPT !.queue    = @ \o bs,
                      !.accepted = @ \o IdSeq(bs),
                      !.dirty    = @ \/ bs # <<>>])

\* Mutant: the next batch is not sent when an answer comes in.
LandedIdle(s) == [s EXCEPT !.sending = NoBatch]

\* The in-flight request is over and the next one may go out.
Landed(s) == Drained([s EXCEPT !.sending = NoBatch])

\* 2xx: the head leaves the queue and its version becomes known.
AfterAck(s, v) ==
    LET b == s.sending
    IN  Landed(Noted([s EXCEPT !.queue = Tail(@), !.dirty = TRUE,
                               !.attempt = 0, !.answered = @ \cup {b.id}],
                     b.page, v))

\* Mutant: later batches for the page are handed to onConflict and kept.
AfterConflictKeepingRest(s, v) ==
    LET b    == s.sending
        rest == Tail(s.queue)
        drop == Keep(rest, {i \in DOMAIN rest : rest[i].page = b.page})
    IN  Landed(Noted([s EXCEPT !.queue = rest, !.dirty = TRUE, !.attempt = 0,
                               !.held = @ \cup {[page |-> b.page, batches |-> drop]},
                               !.answered = @ \cup {b.id} \cup IdsOf(drop)],
                     b.page, v))

\* 409: the head and every batch for its page leave; the latter are handed
\* to onConflict, which refetches the page before it requeues them.
AfterConflict(s, v) ==
    LET b    == s.sending
        rest == Tail(s.queue)
        same == {i \in DOMAIN rest : rest[i].page = b.page}
        drop == Keep(rest, same)
    IN  Landed(Noted([s EXCEPT !.queue = Keep(rest, DOMAIN rest \ same),
                               !.dirty = TRUE, !.attempt = 0,
                               !.held = @ \cup {[page |-> b.page, batches |-> drop]},
                               !.answered = @ \cup {b.id} \cup IdsOf(drop)],
                     b.page, v))

\* 423: the queue stays and nothing is sent until resume().
AfterLocked(s) == Landed([s EXCEPT !.locked = TRUE, !.attempt = 0])

\* Mutant: the rejected batch stays in the store.
AfterRejectionUnflushed(s) ==
    Landed([s EXCEPT !.queue = Tail(@), !.attempt = 0,
                     !.answered = @ \cup {s.sending.id}])

\* Any other 4xx but 408 and 429: the head is reported and dropped.
AfterRejection(s) ==
    Landed([s EXCEPT !.queue = Tail(@), !.dirty = TRUE, !.attempt = 0,
                     !.answered = @ \cup {s.sending.id}])

\* Mutant: the failed batch goes to the back of the queue.
AfterFailureRotating(s) ==
    Landed([s EXCEPT !.queue = Append(Tail(@), Head(@)), !.timer = TRUE])

\* No answer, 5xx, 408, 429: the head stays and the retry timer is armed.
\* The attempt count saturates, as the backoff it indexes does.
AfterFailure(s) ==
    Landed([s EXCEPT !.attempt = IF @ < MaxAttempt THEN @ + 1 ELSE @,
                     !.timer = TRUE])

\* Mutant: an id is skipped when the ids are minted.
ReissuedSkipping(s, bs) ==
    [i \in DOMAIN bs |-> [bs[i] EXCEPT !.id = nextId + i]]

\* requeue(): the batches again, under new ids and on the known version.
Reissued(s, bs) ==
    [i \in DOMAIN bs |->
        [bs[i] EXCEPT !.id   = nextId + i - 1,
                      !.base = IF s.known[bs[i].page] = Unknown
                               THEN @ ELSE s.known[bs[i].page]]]

-----------------------------------------------------------------------------
(* The store: IndexedDB runs overlapping transactions in creation order *)

\* The field early is history: the outbox that wrote had not loaded the store.
Write(t, rows) == [kind |-> "write", tab |-> t, rows |-> rows,
                   early |-> tab[t].life = "loading"]
Load(t)        == [kind |-> "load", tab |-> t, rows |-> <<>>, early |-> FALSE]
IoType         == [kind : {"write", "load"}, tab : Tabs, rows : Seq(Batch),
                   early : BOOLEAN]

IoWithout(q, Gone(_)) == Keep(q, {i \in DOMAIN q : ~Gone(q[i])})
Room           == Len(SelectSeq(io, LAMBDA x : x.kind = "write")) < MaxIo
FlushTo(q, t)  == IF tab[t].dirty THEN Append(q, Write(t, tab[t].queue)) ELSE q

-----------------------------------------------------------------------------
(* Actions *)

Init == /\ tab = [t \in Tabs |-> NewOutbox("closed")]
        /\ store = <<>> /\ io = <<>> /\ nextId = 1 /\ settled = {}
        /\ missed = FALSE

Update(t, s) == tab' = [tab EXCEPT ![t] = s]

\* The effect mounts: new Outbox, start(), init() issues its load.
Mount(t) ==
    /\ tab[t].life = "closed"
    /\ Update(t, NewOutbox("loading"))
    /\ io' = Append(io, Load(t))
    /\ UNCHANGED <<store, nextId, settled, missed>>

\* commit()/commitWith(): a new batch on the version of the local page.
Commit(t, p, e, v) ==
    /\ tab[t].life # "closed"
    /\ nextId <= MaxId
    /\ Update(t, Enqueued(tab[t],
                    <<[id |-> nextId, page |-> p, base |-> v, edit |-> e]>>))
    /\ nextId' = nextId + 1
    /\ UNCHANGED <<store, io, settled, missed>>

\* A page rendered: its version is noted.
NotePage(t, p, v) ==
    /\ tab[t].life # "closed" /\ v > tab[t].known[p]
    /\ Update(t, Noted(tab[t], p, v))
    /\ UNCHANGED <<store, io, nextId, settled, missed>>

InFlight(t) == tab[t].sending # NoBatch

Answer(t, s) ==
    /\ InFlight(t)
    /\ Update(t, s)
    /\ settled' = settled \cup s.answered
    /\ UNCHANGED <<store, io, nextId, missed>>

Acked(t, v)      == Answer(t, AfterAck(tab[t], v))
Conflicted(t, v) == Answer(t, AfterConflict(tab[t], v))
LockedOut(t)     == Answer(t, AfterLocked(tab[t]))
Rejected(t)      == Answer(t, AfterRejection(tab[t]))
Failed(t)        == Answer(t, AfterFailure(tab[t]))

\* Mutant: the timer fires and nothing is sent.
RetryIdle(t) ==
    /\ tab[t].timer
    /\ Update(t, [tab[t] EXCEPT !.timer = FALSE])
    /\ UNCHANGED <<store, io, nextId, settled, missed>>

\* The backoff ends, or retryNow() / the "online" event cuts it short.
Retry(t) ==
    /\ tab[t].timer
    /\ Update(t, Drained([tab[t] EXCEPT !.timer = FALSE]))
    /\ UNCHANGED <<store, io, nextId, settled, missed>>

\* resume(): a person unlocked the version.
Resume(t) ==
    /\ tab[t].locked
    /\ Update(t, Drained([tab[t] EXCEPT !.locked = FALSE]))
    /\ UNCHANGED <<store, io, nextId, settled, missed>>

\* The refetch after a conflict answers with version v; the dropped batches
\* at positions K still apply to the fresh page and are requeued.
Refetched(t, h, v, K) ==
    LET s == [Noted(tab[t], h.page, v) EXCEPT !.held = @ \ {h}]
        again == Reissued(s, Keep(h.batches, K))
    IN  /\ h \in tab[t].held
        /\ nextId + Len(again) <= MaxId + 1
        /\ Update(t, Enqueued(s, again))
        /\ nextId' = nextId + Len(again)
        /\ UNCHANGED <<store, io, settled, missed>>

\* The refetch fails: the dropped batches are gone, the error is shown.
RefetchFailed(t, h) ==
    /\ h \in tab[t].held
    /\ Update(t, [tab[t] EXCEPT !.held = @ \ {h}])
    /\ UNCHANGED <<store, io, nextId, settled, missed>>

\* flush(): the 2 s interval, visibilitychange or pagehide.
Flush(t) ==
    /\ tab[t].life # "closed" /\ tab[t].dirty /\ Room
    /\ Update(t, [tab[t] EXCEPT !.dirty = FALSE])
    /\ io' = FlushTo(io, t)
    /\ UNCHANGED <<store, nextId, settled, missed>>

\* replaceAll(): one transaction wipes the rows and writes the queue ...
StoreWritten ==
    /\ io # <<>> /\ Head(io).kind = "write"
    /\ store' = Head(io).rows /\ io' = Tail(io) /\ missed' = FALSE
    /\ UNCHANGED <<tab, nextId, settled>>

\* ... or aborts; nobody is told, and flush() has already cleared `dirty`.
StoreFails ==
    /\ io # <<>> /\ Head(io).kind = "write"
    /\ io' = Tail(io) /\ missed' = TRUE
    /\ UNCHANGED <<tab, store, nextId, settled>>

\* Mutant: init() forgets the persisted rows.
LoadedNothing ==
    /\ io # <<>> /\ Head(io).kind = "load"
    /\ LET t == Head(io).tab
       IN  Update(t, Drained([tab[t] EXCEPT !.life = "open"]))
    /\ io' = Tail(io) /\ missed' = FALSE
    /\ UNCHANGED <<store, nextId, settled>>

\* init() resumes: the persisted rows go before what was typed meanwhile.
Loaded ==
    /\ io # <<>> /\ Head(io).kind = "load"
    /\ LET t == Head(io).tab
       IN  Update(t, Drained([tab[t] EXCEPT !.life = "open",
                                            !.queue = store \o @,
                                            !.accepted = IdSeq(store) \o @]))
    /\ io' = Tail(io) /\ missed' = FALSE
    /\ UNCHANGED <<store, nextId, settled>>

\* The load fails: init() ends there, `ready` is never set and nothing is sent.
LoadFails ==
    /\ io # <<>> /\ Head(io).kind = "load"
    /\ io' = Tail(io)
    /\ UNCHANGED <<tab, store, nextId, settled, missed>>

\* The effect's cleanup: flush() is issued, then dispose().
Unmount(t) ==
    /\ tab[t].life # "closed" /\ Room
    /\ Update(t, NewOutbox("closed"))
    /\ io' = LET ForDisposed(x) == x.kind = "load" /\ x.tab = t
             IN  IoWithout(FlushTo(io, t), ForDisposed)
    /\ UNCHANGED <<store, nextId, settled, missed>>

\* The tab dies: memory is gone, so are its transactions that have not run.
Crash(t) ==
    /\ tab[t].life # "closed"
    /\ Update(t, NewOutbox("closed"))
    /\ io' = LET OfDead(x) == x.tab = t IN IoWithout(io, OfDead)
    /\ UNCHANGED <<store, nextId, settled, missed>>

Network(t) ==
    \/ \E v \in Versions : Acked(t, v) \/ Conflicted(t, v)
    \/ LockedOut(t) \/ Rejected(t) \/ Failed(t)

Hook(t) ==
    \/ Mount(t) \/ Unmount(t) \/ Resume(t)
    \/ \E p \in Pages, v \in Versions :
          NotePage(t, p, v) \/ \E e \in Edits : Commit(t, p, e, v)
    \/ \E h \in tab[t].held :
          \/ RefetchFailed(t, h)
          \/ \E v \in Versions, K \in SUBSET DOMAIN h.batches : Refetched(t, h, v, K)

Next ==
    \/ \E t \in Tabs : Network(t) \/ Hook(t) \/ Retry(t) \/ Flush(t) \/ Crash(t)
    \/ StoreWritten \/ StoreFails \/ Loaded \/ LoadFails

Spec == Init /\ [][Next]_vars

\* What the code's scheduling gives: the browser ends issued store
\* transactions and fires armed timers, and every request ends somehow; and a
\* server that answers again and again eventually gives a definite answer.
Definite(t) ==
    \/ \E v \in Versions : Acked(t, v) \/ Conflicted(t, v)
    \/ LockedOut(t) \/ Rejected(t)

Fairness ==
    /\ WF_vars(StoreWritten \/ StoreFails \/ Loaded \/ LoadFails)
    /\ \A t \in Tabs : WF_vars(Retry(t)) /\ SF_vars(Definite(t))

FairSpec == Spec /\ Fairness

-----------------------------------------------------------------------------
(* Properties *)

\* Every variable has its type.
TypeOK ==
    /\ tab \in [Tabs -> OutboxType]
    /\ store \in Seq(Batch)
    /\ io \in Seq(IoType)
    /\ nextId \in 1 .. MaxId + 1
    /\ settled \in SUBSET Ids
    /\ missed \in BOOLEAN

\* The success and failure paths shift queue[0], not the batch the answer is
\* for: whatever was typed, loaded or retried meanwhile, the batch in flight
\* is still the head of the queue, in the form it was sent, and no retry
\* timer runs beside it.
InFlightIsHead ==
    \A t \in Tabs : InFlight(t) =>
        /\ tab[t].queue # <<>> /\ Head(tab[t].queue) = tab[t].sending
        /\ ~tab[t].timer /\ ~tab[t].locked /\ tab[t].life = "open"

\* drain() has no poller behind it: an open, unlocked outbox with work always
\* has a request or a retry timer that will call it again.
Awake ==
    \A t \in Tabs :
        tab[t].life = "open" /\ ~tab[t].locked /\ tab[t].queue # <<>>
            => InFlight(t) \/ tab[t].timer

\* The places of what an outbox took in and has not handed to a callback.
Unanswered(s) == {i \in DOMAIN s.accepted : s.accepted[i] \notin s.answered}

\* Nothing is lost, duplicated or overtaken inside an outbox: its queue is
\* exactly what it took in and has not handed to a callback, in the order it
\* took it in.
QueueIsUnanswered ==
    \A t \in Tabs : IdSeq(tab[t].queue) = Keep(tab[t].accepted, Unanswered(tab[t]))

\* The stale rows store.ts says wipe-and-rewrite avoids: with no transaction
\* waiting, a clean outbox has nothing on disk that is not in its queue, once
\* a write succeeded, whatever was typed, answered, loaded or lost before.
\* When the last write failed the rows stay, and nothing marks the outbox.
NoStaleRows ==
    \A t \in Tabs :
        tab[t].life = "open" /\ ~tab[t].dirty /\ io = <<>> /\ ~missed
            => IdsOf(store) \subseteq IdsOf(tab[t].queue)

\* store.ts: "Wipe-and-rewrite has no such edge", whether the last write
\* succeeded or not.
NoStaleRowsEver ==
    \A t \in Tabs :
        tab[t].life = "open" /\ ~tab[t].dirty /\ io = <<>>
            => IdsOf(store) \subseteq IdsOf(tab[t].queue)

\* Within one run of attempts a batch is resent exactly as it was sent, even
\* when the page's known version rose in between.
RetriesAreFrozen ==
    [][\A t \in Tabs :
          tab[t].attempt > 0 /\ ~InFlight(t) /\ InFlight(t)'
              => tab'[t].sending = tab[t].last]_vars

\* Crash safety as the header of outbox.ts states it: a batch that reached
\* the store leaves it only once it was answered.
PersistedUntilAnswered ==
    [][IdsOf(store) \ IdsOf(store') \subseteq settled']_vars

\* What the code gives of it: only a flush that did not wait for init()
\* takes an unanswered batch off the disk, and an outbox that loaded before
\* that write ran still has the batch in its queue.
OnlyEarlyFlushesLose ==
    [][\A id \in IdsOf(store) \ IdsOf(store') :
          \/ id \in settled'
          \/ /\ Head(io).early
             /\ \A t \in Tabs : tab[t].life = "open" => id \in IdsOf(tab[t].queue)]_vars

\* The load of tab t failed: its outbox never sends.
NeverLoads(t) ==
    /\ tab[t].life = "loading"
    /\ \A i \in DOMAIN io : io[i] # Load(t)

\* Editing never blocks and nothing is stuck: a queued batch is answered in
\* the end, unless the version is locked, the tab goes away or the store
\* could not be loaded.
EveryBatchAnswered ==
    \A t \in Tabs, id \in Ids :
        id \in IdsOf(tab[t].queue)
            ~> \/ id \notin IdsOf(tab[t].queue)
               \/ tab[t].locked \/ tab[t].life = "closed" \/ NeverLoads(t)

\* The outbox is an ordered delivery line (module OrderedDelivery).
Entry(b) == [id |-> b.id, page |-> b.page]
Line == INSTANCE OrderedDelivery WITH
    Clients <- Tabs,
    Entries <- [id : Ids, page : Pages],
    line <- [t \in Tabs |-> [i \in DOMAIN tab[t].queue |-> Entry(tab[t].queue[i])]],
    up   <- [t \in Tabs |-> tab[t].life # "closed"]
DeliversInOrder == Line!Spec

=============================================================================
