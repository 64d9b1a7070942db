---------------------------- MODULE OutboxProofs ----------------------------
(***************************************************************************)
(* Proofs about module Outbox, for any number of tabs, pages and edits.    *)
(*                                                                         *)
(* The success and failure paths of drain() are right because of three     *)
(* facts about one outbox that every method keeps: what is in flight is    *)
(* the head (Flying), an outbox with work is awake (Ready), and a retry is *)
(* about the batch sent last (Steady).  A fourth fact spans the tab and    *)
(* the store: init() loads once, before anything was sent.                 *)
(*                                                                         *)
(* What an outbox has accepted, answered and queued stays in order         *)
(* (OrderInv): ids are accepted once and minted before nextId, stored rows *)
(* and the writes that wait are sound, and a load brings only what its tab *)
(* has not taken in. So the outbox is an ordered line (OutboxDelivers).    *)
(*                                                                         *)
(* With one tab, the store hands on what it holds. A clean outbox let      *)
(* nothing go since its flush, so the rows on disk, or those of the last   *)
(* write that waits, are in its queue, unless the last write failed        *)
(* (TidyInv). A write of an outbox that has loaded has all that is on disk *)
(* or written before it and not answered, and so has the queue of an open  *)
(* outbox, whatever is flushed before the load (KeptInv).                  *)
(***************************************************************************)
EXTENDS Outbox, SublistProofs, SequenceTheorems

\* The batch in flight is the head of the queue and the one sent last.
Flying(s) ==
    s.sending # NoBatch =>
        /\ s.queue # <<>> /\ Head(s.queue) = s.sending /\ s.last = s.sending
        /\ ~s.timer /\ ~s.locked /\ s.life = "open"

\* An open, unlocked outbox with work waits for an answer or a timer.
Ready(s) ==
    s.life = "open" /\ ~s.locked /\ s.queue # <<>>
        => s.sending # NoBatch \/ s.timer

\* After a failed attempt the head is still what was sent.
Steady(s) ==
    s.attempt > 0 => /\ s.life = "open"
                     /\ s.queue # <<>> /\ Head(s.queue) = s.last

Good(s) == s \in OutboxType /\ Flying(s) /\ Ready(s) /\ Steady(s)

\* A retry of s sends what was sent last.
SendsAgain(s, t) ==
    s.attempt > 0 /\ s.sending = NoBatch /\ t.sending # NoBatch
        => t.sending = s.last

-----------------------------------------------------------------------------
(* The methods *)

\* drain() may be called whenever what is in flight is the head.
LEMMA DrainedGood ==
    ASSUME NEW s \in OutboxType, Flying(s), Steady(s)
    PROVE  Good(Drained(s)) /\ Drained(s).life = s.life /\ SendsAgain(s, Drained(s))
<1>1. CASE CanDrain(s)
  <2> DEFINE b == HeadToSend(s)
             q == [s.queue EXCEPT ![1] = b]
  <2>1. s.queue \in Seq(Batch) /\ s.queue # <<>> /\ Head(s.queue) \in Batch
    BY <1>1 DEF CanDrain, OutboxType
  <2>2. b \in Batch
    BY <2>1 DEF HeadToSend, OutboxType, Batch, Unknown, Versions
  <2>3. q \in Seq(Batch) /\ q # <<>> /\ Head(q) = b
    <3>1. 1 \in 1 .. Len(s.queue)
      BY <2>1
    <3>2. q \in Seq(Batch) /\ Len(q) = Len(s.queue) /\ q[1] = b
      BY <2>1, <2>2, <3>1, ExceptSeq
    <3> QED BY <3>1, <3>2
  <2>4. s.attempt > 0 => b = s.last
    BY DEF HeadToSend, Steady
  <2>5. Drained(s) = [s EXCEPT !.queue = q, !.sending = b, !.last = b]
    BY <1>1 DEF Drained
  <2>6. b # NoBatch
    BY <2>2, NoBatchAssumption
  <2>7. s.life = "open" /\ ~s.locked /\ ~s.timer /\ s.sending = NoBatch
    BY <1>1 DEF CanDrain
  <2> HIDE DEF b, q
  <2>8. Drained(s) \in OutboxType
    BY <2>2, <2>3, <2>5 DEF OutboxType
  <2>9. /\ Drained(s).queue = q /\ Drained(s).sending = b /\ Drained(s).last = b
        /\ Drained(s).life = "open" /\ ~Drained(s).timer /\ ~Drained(s).locked
    BY <2>5, <2>7 DEF OutboxType
  <2> QED BY <2>3, <2>4, <2>6, <2>7, <2>8, <2>9 DEF Good, Flying, Ready, Steady, SendsAgain
<1>2. CASE ~CanDrain(s)
  <2>1. Drained(s) = s
    BY <1>2 DEF Drained
  <2>2. Ready(s)
    BY <1>2 DEF CanDrain, Ready
  <2> QED BY <2>1, <2>2 DEF Good, SendsAgain
<1> QED BY <1>1, <1>2

\* notePageVersion() leaves everything but the known versions alone.
LEMMA NotedGood ==
    ASSUME NEW s \in OutboxType, NEW p \in Pages, NEW v \in Versions
    PROVE  /\ Noted(s, p, v) \in OutboxType
           /\ Flying(s) => Flying(Noted(s, p, v))
           /\ Ready(s) => Ready(Noted(s, p, v))
           /\ Steady(s) => Steady(Noted(s, p, v))
           /\ \A f \in {"life", "queue", "sending", "attempt", "timer", "last",
                         "locked", "held", "answered"} : Noted(s, p, v)[f] = s[f]
<1>1. CASE v > s.known[p]
  <2>1. Noted(s, p, v) = [s EXCEPT !.known = [@ EXCEPT ![p] = v]]
    BY <1>1 DEF Noted, OutboxType
  <2>2. [s.known EXCEPT ![p] = v] \in [Pages -> Versions \cup {Unknown}]
    BY DEF OutboxType
  <2>3. Noted(s, p, v) \in OutboxType
    BY <2>1, <2>2 DEF OutboxType
  <2>4. \A f \in {"life", "queue", "sending", "attempt", "timer", "last",
                  "locked", "held", "answered"} : Noted(s, p, v)[f] = s[f]
    BY <2>1 DEF OutboxType
  <2> QED BY <2>3, <2>4 DEF Flying, Ready, Steady
<1>2. CASE ~(v > s.known[p])
  BY <1>2 DEF Noted
<1> QED BY <1>1, <1>2

\* The ids of a queue.
LEMMA IdsOfQueue ==
    ASSUME NEW q \in Seq(Batch)
    PROVE  IdsOf(q) \subseteq Ids /\ IdSeq(q) \in Seq(Ids)
<1>1. Len(q) \in Nat /\ DOMAIN q = 1 .. Len(q)
  OBVIOUS
<1>2. \A i \in 1 .. Len(q) : q[i].id \in Ids
  <2>1. \A i \in 1 .. Len(q) : q[i] \in Batch
    OBVIOUS
  <2> QED BY <2>1 DEF Batch
<1> QED BY <1>1, <1>2 DEF IdsOf, IdSeq

\* enqueue() appends: the head, if there was one, stays.
LEMMA EnqueuedGood ==
    ASSUME NEW s \in OutboxType, Flying(s), Steady(s), NEW bs \in Seq(Batch)
    PROVE  /\ Good(Enqueued(s, bs)) /\ Enqueued(s, bs).life = s.life
           /\ SendsAgain(s, Enqueued(s, bs))
<1> DEFINE q == s.queue \o bs
           a == s.accepted \o IdSeq(bs)
           d == s.dirty \/ bs # <<>>
           e == [s EXCEPT !.queue = q, !.accepted = a, !.dirty = d]
<1>1. s.queue \in Seq(Batch) /\ s.accepted \in Seq(Ids)
  BY DEF OutboxType
<1>2. q \in Seq(Batch) /\ a \in Seq(Ids) /\ d \in BOOLEAN
  BY <1>1, IdsOfQueue, ConcatProperties
<1>3. s.queue # <<>> => q # <<>> /\ Head(q) = Head(s.queue)
  <2>1. SUFFICES ASSUME s.queue # <<>> PROVE q # <<>> /\ Head(q) = Head(s.queue)
    OBVIOUS
  <2>2. Len(s.queue) \in Nat \ {0} /\ Len(bs) \in Nat
    BY <1>1, <2>1, EmptySeq
  <2>3. Len(q) = Len(s.queue) + Len(bs) /\ q[1] = s.queue[1]
    BY <1>1, <2>2, ConcatProperties
  <2> QED BY <1>1, <1>2, <2>1, <2>2, <2>3
<1>4. Enqueued(s, bs) = Drained(e)
  BY DEF Enqueued
<1> HIDE DEF q, a, d
<1>5. /\ e \in OutboxType /\ e.queue = q
      /\ \A f \in {"life", "sending", "attempt", "timer", "last", "locked"} : e[f] = s[f]
  BY <1>2 DEF OutboxType
<1>6. Flying(e) /\ Steady(e)
  BY <1>3, <1>5 DEF Flying, Steady
<1> HIDE DEF e
<1>7. Good(Drained(e)) /\ Drained(e).life = e.life /\ SendsAgain(e, Drained(e))
  BY <1>5, <1>6, DrainedGood
<1> QED BY <1>4, <1>5, <1>7 DEF SendsAgain

\* The tail of a queue that has a head.
LEMMA HeadAndTail ==
    ASSUME NEW s \in OutboxType, Flying(s), s.sending # NoBatch
    PROVE  /\ s.queue \in Seq(Batch) /\ s.queue # <<>> /\ Tail(s.queue) \in Seq(Batch)
           /\ s.sending \in Batch /\ s.sending.page \in Pages /\ s.sending.id \in Ids
BY HeadTailProperties DEF Flying, OutboxType, Batch

\* An answered outbox may drain: nothing is in flight and nothing was tried.
LEMMA LandedGood ==
    ASSUME NEW s \in OutboxType, s.attempt = 0
    PROVE  Good(Landed(s)) /\ Landed(s).life = s.life
<1> DEFINE e == [s EXCEPT !.sending = NoBatch]
<1>1. e \in OutboxType /\ e.sending = NoBatch /\ e.attempt = 0 /\ e.life = s.life
  BY DEF OutboxType
<1>2. Flying(e) /\ Steady(e)
  BY <1>1 DEF Flying, Steady
<1>3. Landed(s) = Drained(e)
  BY DEF Landed
<1> HIDE DEF e
<1> QED BY <1>1, <1>2, <1>3, DrainedGood

-----------------------------------------------------------------------------
(* The answers to a batch in flight *)

\* A bound on attempts has room for none.
LEMMA ZeroAttempts == 0 \in 0 .. MaxAttempt
BY Bounds

\* 2xx keeps an outbox good.
LEMMA AckGood ==
    ASSUME NEW s \in OutboxType, Flying(s), s.sending # NoBatch, NEW v \in Versions
    PROVE  Good(AfterAck(s, v)) /\ AfterAck(s, v).life = s.life
<1> DEFINE e == [s EXCEPT !.queue = Tail(@), !.dirty = TRUE,
                          !.attempt = 0, !.answered = @ \cup {s.sending.id}]
           n == Noted(e, s.sending.page, v)
<1>0. Tail(s.queue) \in Seq(Batch) /\ s.sending.id \in Ids
  BY HeadAndTail
<1>1. e \in OutboxType /\ e.attempt = 0 /\ e.life = s.life
  BY <1>0, ZeroAttempts DEF OutboxType
<1>2. AfterAck(s, v) = Landed(n)
  BY DEF AfterAck
<1> HIDE DEF e
<1>3. n \in OutboxType /\ n.attempt = 0 /\ n.life = s.life
  BY <1>1, HeadAndTail, NotedGood
<1> HIDE DEF n
<1> QED BY <1>2, <1>3, LandedGood

\* 409 keeps an outbox good, and what it hands over is a list of batches.
LEMMA ConflictGood ==
    ASSUME NEW s \in OutboxType, Flying(s), s.sending # NoBatch, NEW v \in Versions
    PROVE  Good(AfterConflict(s, v)) /\ AfterConflict(s, v).life = s.life
<1> DEFINE b    == s.sending
           rest == Tail(s.queue)
           same == {i \in DOMAIN rest : rest[i].page = b.page}
           keep == Keep(rest, DOMAIN rest \ same)
           drop == Keep(rest, same)
           held == s.held \cup {[page |-> b.page, batches |-> drop]}
           done == s.answered \cup {b.id} \cup IdsOf(drop)
           e == [s EXCEPT !.queue = keep, !.dirty = TRUE, !.attempt = 0,
                          !.held = held, !.answered = done]
           n == Noted(e, b.page, v)
<1>1. rest \in Seq(Batch) /\ b.page \in Pages /\ b.id \in Ids
  BY HeadAndTail
<1>2. keep \in Seq(Batch) /\ drop \in Seq(Batch)
  BY <1>1, KeepSeq
<1>3. IdsOf(drop) \subseteq Ids
  BY <1>2, IdsOfQueue
<1>4. AfterConflict(s, v) = Landed(n)
  BY DEF AfterConflict
<1> HIDE DEF b, keep, drop
<1>5. /\ held \in SUBSET [page : Pages, batches : Seq(Batch)]
      /\ done \in SUBSET Ids
  BY <1>1, <1>2, <1>3 DEF OutboxType
<1> HIDE DEF held, done
<1>6. e \in OutboxType /\ e.attempt = 0 /\ e.life = s.life
  BY <1>2, <1>5, ZeroAttempts DEF OutboxType
<1> HIDE DEF e
<1>7. n \in OutboxType /\ n.attempt = 0 /\ n.life = s.life
  BY <1>1, <1>6, NotedGood
<1> HIDE DEF n
<1> QED BY <1>4, <1>7, LandedGood

\* 423 and the other refusals keep an outbox good.
LEMMA RefusalGood ==
    ASSUME NEW s \in OutboxType, Flying(s), s.sending # NoBatch
    PROVE  /\ Good(AfterLocked(s)) /\ AfterLocked(s).life = s.life
           /\ Good(AfterRejection(s)) /\ AfterRejection(s).life = s.life
<1> DEFINE e == [s EXCEPT !.locked = TRUE, !.attempt = 0]
           r == [s EXCEPT !.queue = Tail(@), !.dirty = TRUE, !.attempt = 0,
                          !.answered = @ \cup {s.sending.id}]
<1>0. Tail(s.queue) \in Seq(Batch) /\ s.sending.id \in Ids
  BY HeadAndTail
<1>1. e \in OutboxType /\ e.attempt = 0 /\ e.life = s.life
  BY ZeroAttempts DEF OutboxType
<1>2. r \in OutboxType /\ r.attempt = 0 /\ r.life = s.life
  BY <1>0, ZeroAttempts DEF OutboxType
<1>3. AfterLocked(s) = Landed(e) /\ AfterRejection(s) = Landed(r)
  BY DEF AfterLocked, AfterRejection
<1> HIDE DEF e, r
<1> QED BY <1>1, <1>2, <1>3, LandedGood

\* A failed attempt leaves the batch at the head and arms the timer.
LEMMA FailureGood ==
    ASSUME NEW s \in OutboxType, Flying(s), s.sending # NoBatch
    PROVE  Good(AfterFailure(s)) /\ AfterFailure(s).life = s.life
<1> DEFINE a == IF s.attempt < MaxAttempt THEN s.attempt + 1 ELSE s.attempt
           e == [s EXCEPT !.attempt = a, !.timer = TRUE, !.sending = NoBatch]
<1>1. a \in 0 .. MaxAttempt
  BY Bounds DEF OutboxType
<1>2. AfterFailure(s) = Drained(e)
  BY DEF AfterFailure, Landed, OutboxType
<1> HIDE DEF a
<1>3. /\ e \in OutboxType /\ e.sending = NoBatch /\ e.life = s.life
      /\ e.queue = s.queue /\ e.last = s.last
  BY <1>1 DEF OutboxType
<1>4. Flying(e) /\ Steady(e)
  BY <1>3 DEF Flying, Steady
<1> HIDE DEF e
<1> QED BY <1>2, <1>3, <1>4, DrainedGood

-----------------------------------------------------------------------------
(* The hook's other calls *)

\* A new outbox has nothing to send.
LEMMA NewOutboxGood ==
    ASSUME NEW life \in {"closed", "loading", "open"}
    PROVE  Good(NewOutbox(life)) /\ NewOutbox(life).life = life
<1>1. NewOutbox(life) \in OutboxType
  <2>1. <<>> \in Seq(Batch) /\ <<>> \in Seq(Ids)
    OBVIOUS
  <2>2. [p \in Pages |-> Unknown] \in [Pages -> Versions \cup {Unknown}]
    OBVIOUS
  <2> QED BY <2>1, <2>2, ZeroAttempts DEF NewOutbox, OutboxType
<1>2. /\ NewOutbox(life).sending = NoBatch /\ NewOutbox(life).queue = <<>>
      /\ NewOutbox(life).attempt = 0 /\ NewOutbox(life).life = life
  BY DEF NewOutbox
<1> QED BY <1>1, <1>2 DEF Good, Flying, Ready, Steady

\* The timer fires, or a person unlocks the version.
LEMMA WokenGood ==
    ASSUME NEW s \in OutboxType, Good(s)
    PROVE  LET r == Drained([s EXCEPT !.timer = FALSE])
               u == Drained([s EXCEPT !.locked = FALSE])
           IN  /\ Good(r) /\ r.life = s.life /\ SendsAgain(s, r)
               /\ Good(u) /\ u.life = s.life /\ SendsAgain(s, u)
<1> DEFINE r == [s EXCEPT !.timer = FALSE]
           u == [s EXCEPT !.locked = FALSE]
<1>1. /\ r \in OutboxType /\ ~r.timer
      /\ \A f \in {"life", "queue", "sending", "attempt", "last", "locked"} : r[f] = s[f]
  BY DEF OutboxType
<1>2. /\ u \in OutboxType /\ ~u.locked
      /\ \A f \in {"life", "queue", "sending", "attempt", "last", "timer"} : u[f] = s[f]
  BY DEF OutboxType
<1> HIDE DEF r, u
<1>3. Flying(r) /\ Steady(r) /\ Flying(u) /\ Steady(u)
  BY <1>1, <1>2 DEF Good, Flying, Steady
<1>4. /\ Good(Drained(r)) /\ Drained(r).life = r.life /\ SendsAgain(r, Drained(r))
      /\ Good(Drained(u)) /\ Drained(u).life = u.life /\ SendsAgain(u, Drained(u))
  BY <1>1, <1>2, <1>3, DrainedGood
<1>5. SendsAgain(s, Drained(r)) /\ SendsAgain(s, Drained(u))
  BY <1>1, <1>2, <1>4 DEF SendsAgain
<1> QED BY <1>1, <1>2, <1>4, <1>5 DEF r, u

\* requeue() mints ids that exist, on versions that exist.
LEMMA ReissuedSeq ==
    ASSUME NEW s \in OutboxType, NEW bs \in Seq(Batch),
           nextId \in 1 .. MaxId + 1, nextId + Len(Reissued(s, bs)) <= MaxId + 1
    PROVE  Reissued(s, bs) \in Seq(Batch) /\ Len(Reissued(s, bs)) = Len(bs)
<1>1. Len(bs) \in Nat /\ DOMAIN bs = 1 .. Len(bs)
  OBVIOUS
<1>2. DOMAIN Reissued(s, bs) = 1 .. Len(bs)
  BY <1>1 DEF Reissued
<1>3. Len(Reissued(s, bs)) = Len(bs)
  BY <1>1, <1>2
<1>4. ASSUME NEW i \in 1 .. Len(bs)
      PROVE  Reissued(s, bs)[i] \in Batch
  <2>1. bs[i] \in Batch
    OBVIOUS
  <2>2. nextId + i - 1 \in Ids
    BY <1>1, <1>3, Bounds DEF Ids
  <2>3. s.known[bs[i].page] \in Versions \cup {Unknown}
    BY <2>1 DEF OutboxType, Batch
  <2>4. Reissued(s, bs)[i] =
            [bs[i] EXCEPT !.id = nextId + i - 1,
                          !.base = IF s.known[bs[i].page] = Unknown
                                   THEN @ ELSE s.known[bs[i].page]]
    BY <1>1 DEF Reissued
  <2> QED BY <2>1, <2>2, <2>3, <2>4 DEF Batch
<1>5. Reissued(s, bs) \in [1 .. Len(bs) -> Batch]
  BY <1>1, <1>4 DEF Reissued
<1> QED BY <1>1, <1>3, <1>5, SeqDef

\* What a conflict handed over is requeued behind what is queued.
LEMMA RequeuedGood ==
    ASSUME NEW s \in OutboxType, Good(s), NEW h \in s.held, NEW v \in Versions,
           NEW K \in SUBSET DOMAIN h.batches, nextId \in 1 .. MaxId + 1
    PROVE  LET n == [Noted(s, h.page, v) EXCEPT !.held = @ \ {h}]
               again == Reissued(n, Keep(h.batches, K))
           IN  nextId + Len(again) <= MaxId + 1 =>
                   /\ Len(again) \in Nat
                   /\ Good(Enqueued(n, again)) /\ Enqueued(n, again).life = s.life
                   /\ SendsAgain(s, Enqueued(n, again))
<1> DEFINE m == Noted(s, h.page, v)
           n == [m EXCEPT !.held = @ \ {h}]
           again == Reissued(n, Keep(h.batches, K))
<1>1. h.page \in Pages /\ h.batches \in Seq(Batch)
  BY DEF OutboxType
<1>2. /\ m \in OutboxType
      /\ \A f \in {"life", "queue", "sending", "attempt", "timer", "last", "locked"} :
            m[f] = s[f]
  BY <1>1, NotedGood
<1> HIDE DEF m
<1>3. /\ n \in OutboxType
      /\ \A f \in {"life", "queue", "sending", "attempt", "timer", "last", "locked"} :
            n[f] = s[f]
  BY <1>2 DEF OutboxType
<1>4. Flying(n) /\ Steady(n)
  BY <1>3 DEF Good, Flying, Steady
<1>5. Keep(h.batches, K) \in Seq(Batch)
  BY <1>1, KeepSeq
<1> HIDE DEF n
<1>6. ASSUME nextId + Len(again) <= MaxId + 1
      PROVE  /\ Len(again) \in Nat
             /\ Good(Enqueued(n, again)) /\ Enqueued(n, again).life = s.life
             /\ SendsAgain(s, Enqueued(n, again))
  <2>1. again \in Seq(Batch)
    BY <1>3, <1>5, <1>6, ReissuedSeq
  <2> HIDE DEF again
  <2>2. /\ Good(Enqueued(n, again)) /\ Enqueued(n, again).life = n.life
        /\ SendsAgain(n, Enqueued(n, again))
    BY <1>3, <1>4, <2>1, EnqueuedGood
  <2> QED BY <1>3, <2>1, <2>2 DEF SendsAgain
<1> QED BY <1>6 DEF m, n, again

\* init() puts the stored batches first, before anything was sent.
LEMMA LoadedGood ==
    ASSUME NEW s \in OutboxType, Good(s), s.life = "loading",
           NEW rows \in Seq(Batch)
    PROVE  LET e == [s EXCEPT !.life = "open", !.queue = rows \o @,
                              !.accepted = IdSeq(rows) \o @]
           IN  Good(Drained(e)) /\ Drained(e).life = "open" /\ SendsAgain(s, Drained(e))
<1> DEFINE q == rows \o s.queue
           a == IdSeq(rows) \o s.accepted
           e == [s EXCEPT !.life = "open", !.queue = q, !.accepted = a]
<1>1. s.sending = NoBatch /\ s.attempt = 0
  BY DEF Good, Flying, Steady, OutboxType
<1>2. q \in Seq(Batch) /\ a \in Seq(Ids)
  BY IdsOfQueue, ConcatProperties DEF OutboxType
<1> HIDE DEF q, a
<1>3. e \in OutboxType /\ e.sending = NoBatch /\ e.attempt = 0 /\ e.life = "open"
  BY <1>1, <1>2 DEF OutboxType
<1>4. Flying(e) /\ Steady(e)
  BY <1>3 DEF Flying, Steady
<1> HIDE DEF e
<1>5. Good(Drained(e)) /\ Drained(e).life = "open"
  BY <1>3, <1>4, DrainedGood
<1> QED BY <1>1, <1>5 DEF q, a, e, SendsAgain

-----------------------------------------------------------------------------
(* The store's transactions *)

\* A waiting load is the only one of its tab, and that tab still waits for it.
LoadsAwaited(q, tabs) ==
    \A i \in DOMAIN q : q[i].kind = "load" =>
        /\ tabs[q[i].tab].life = "loading"
        /\ \A j \in DOMAIN q : q[j].kind = "load" /\ q[j].tab = q[i].tab => j = i

\* Every transaction is some tab's.
LEMMA IoTabs == ASSUME NEW q \in Seq(IoType) PROVE \A i \in DOMAIN q : q[i].tab \in Tabs
<1>1. DOMAIN q = 1 .. Len(q)
  OBVIOUS
<1>2. \A i \in 1 .. Len(q) : q[i] \in IoType
  OBVIOUS
<1> QED BY <1>1, <1>2 DEF IoType

\* Dropping transactions keeps the loads that stay awaited.
LEMMA KeepAwaited ==
    ASSUME NEW q \in Seq(IoType), NEW K \in SUBSET DOMAIN q, NEW tabs, NEW tabs2,
           LoadsAwaited(q, tabs),
           \A i \in K : q[i].kind = "load" => tabs2[q[i].tab].life = tabs[q[i].tab].life
    PROVE  Keep(q, K) \in Seq(IoType) /\ LoadsAwaited(Keep(q, K), tabs2)
<1>1. /\ Keep(q, K) \in Seq(IoType) /\ Len(Keep(q, K)) = Cardinality(K)
      /\ \A j \in 1 .. Cardinality(K) : Keep(q, K)[j] = q[Nth(K, j)]
  BY KeepSeq
<1>2. Len(q) \in Nat /\ DOMAIN q = 1 .. Len(q)
  OBVIOUS
<1>3. DOMAIN Keep(q, K) = 1 .. Cardinality(K) /\ Cardinality(K) \in Nat
  BY <1>1
<1>4. \A j \in 1 .. Cardinality(K) : Nth(K, j) \in K
  BY <1>2, NthMember
<1>5. \A i, j \in 1 .. Cardinality(K) : Nth(K, i) = Nth(K, j) => i = j
  <2>1. ASSUME NEW i \in 1 .. Cardinality(K), NEW j \in 1 .. Cardinality(K), i < j
        PROVE  Nth(K, i) # Nth(K, j)
    <3>1. Nth(K, i) < Nth(K, j)
      BY <1>2, <2>1, NthIncreasing
    <3>2. Nth(K, i) \in Int
      BY <1>2, <1>4
    <3> QED BY <3>1, <3>2
  <2> QED BY <1>3, <2>1
<1>6. ASSUME NEW i \in 1 .. Cardinality(K), Keep(q, K)[i].kind = "load"
      PROVE  /\ tabs2[Keep(q, K)[i].tab].life = "loading"
             /\ \A j \in 1 .. Cardinality(K) :
                   Keep(q, K)[j].kind = "load" /\ Keep(q, K)[j].tab = Keep(q, K)[i].tab
                       => j = i
  <2>1. Nth(K, i) \in K /\ Keep(q, K)[i] = q[Nth(K, i)]
    BY <1>1, <1>4
  <2>2. tabs2[Keep(q, K)[i].tab].life = "loading"
    BY <1>6, <2>1 DEF LoadsAwaited
  <2>3. ASSUME NEW j \in 1 .. Cardinality(K),
               Keep(q, K)[j].kind = "load", Keep(q, K)[j].tab = Keep(q, K)[i].tab
        PROVE  j = i
    <3>1. Nth(K, j) \in K /\ Keep(q, K)[j] = q[Nth(K, j)]
      BY <1>1, <1>4
    <3>2. Nth(K, j) = Nth(K, i)
      BY <1>6, <2>1, <2>3, <3>1 DEF LoadsAwaited
    <3> QED BY <1>5, <3>2
  <2> QED BY <2>2, <2>3
<1> QED BY <1>1, <1>3, <1>6 DEF LoadsAwaited

\* A write, or the first load of a tab, may be issued at any time.
LEMMA IssueAwaited ==
    ASSUME NEW q \in Seq(IoType), NEW x \in IoType, NEW tabs, LoadsAwaited(q, tabs),
           x.kind = "load" =>
               /\ tabs[x.tab].life = "loading"
               /\ \A i \in DOMAIN q : q[i].kind = "load" => q[i].tab # x.tab
    PROVE  Append(q, x) \in Seq(IoType) /\ LoadsAwaited(Append(q, x), tabs)
<1>1. Append(q, x) \in Seq(IoType) /\ Len(Append(q, x)) = Len(q) + 1
  OBVIOUS
<1>2. /\ DOMAIN q = 1 .. Len(q) /\ Len(q) \in Nat
      /\ DOMAIN Append(q, x) = 1 .. Len(q) + 1
  BY <1>1
<1>3. \A i \in 1 .. Len(q) + 1 :
          Append(q, x)[i] = IF i = Len(q) + 1 THEN x ELSE q[i]
  OBVIOUS
<1> QED BY <1>1, <1>2, <1>3 DEF LoadsAwaited

\* The oldest transaction runs; the others move up.
LEMMA RunAwaited ==
    ASSUME NEW q \in Seq(IoType), q # <<>>, NEW tabs, LoadsAwaited(q, tabs)
    PROVE  /\ Head(q) \in IoType /\ Tail(q) \in Seq(IoType)
           /\ LoadsAwaited(Tail(q), tabs)
           /\ Head(q).kind = "load" =>
                  /\ tabs[Head(q).tab].life = "loading"
                  /\ \A i \in DOMAIN Tail(q) :
                        Tail(q)[i].kind = "load" => Tail(q)[i].tab # Head(q).tab
<1>1. /\ Head(q) \in IoType /\ Tail(q) \in Seq(IoType) /\ Len(Tail(q)) = Len(q) - 1
      /\ \A i \in 1 .. Len(Tail(q)) : Tail(q)[i] = q[i + 1]
  BY HeadTailProperties
<1>2. /\ Len(q) \in Nat \ {0} /\ DOMAIN q = 1 .. Len(q)
      /\ DOMAIN Tail(q) = 1 .. Len(q) - 1 /\ Head(q) = q[1]
  BY <1>1, EmptySeq
<1>3. \A i \in 1 .. Len(q) - 1 : i + 1 \in 1 .. Len(q) /\ i + 1 # 1 /\ Tail(q)[i] = q[i + 1]
  BY <1>1, <1>2
<1>4. \A i, j \in 1 .. Len(q) - 1 : i + 1 = j + 1 => i = j
  BY <1>2
<1>5. 1 \in 1 .. Len(q)
  BY <1>2
<1> QED BY <1>1, <1>2, <1>3, <1>4, <1>5 DEF LoadsAwaited

-----------------------------------------------------------------------------
(* The inductive invariant *)

IInv ==
    /\ TypeOK
    /\ \A t \in Tabs : Good(tab[t])
    /\ LoadsAwaited(io, tab)

\* What a step may do to the outboxes.
StepOK == \A t \in Tabs : SendsAgain(tab[t], tab'[t])

\* A step of one outbox that stays where it is in its life.
LEMMA UpdateGood ==
    ASSUME IInv, NEW t \in Tabs, NEW s, Update(t, s),
           Good(s), s.life = tab[t].life, SendsAgain(tab[t], s)
    PROVE  /\ tab' \in [Tabs -> OutboxType] /\ \A u \in Tabs : Good(tab'[u])
           /\ StepOK /\ LoadsAwaited(io, tab')
<1>1. tab \in [Tabs -> OutboxType] /\ io \in Seq(IoType) /\ s \in OutboxType
  BY DEF IInv, TypeOK, Good
<1>2. tab' = [tab EXCEPT ![t] = s]
  BY DEF Update
<1>3. \A u \in Tabs : tab'[u] = IF u = t THEN s ELSE tab[u]
  BY <1>1, <1>2
<1>4. tab' \in [Tabs -> OutboxType] /\ \A u \in Tabs : Good(tab'[u])
  BY <1>1, <1>2, <1>3 DEF IInv
<1>5. StepOK
  BY <1>3 DEF StepOK, SendsAgain
<1>6. \A i \in DOMAIN io : io[i].tab \in Tabs
  BY <1>1, IoTabs
<1>7. LoadsAwaited(io, tab')
  BY <1>3, <1>6 DEF IInv, LoadsAwaited
<1> QED BY <1>4, <1>5, <1>7

\* The initial state.
LEMMA InitIInv == Init => IInv
<1>1. SUFFICES ASSUME Init PROVE IInv
  OBVIOUS
<1>2. Good(NewOutbox("closed"))
  BY NewOutboxGood
<1>3. TypeOK
  <2>1. tab \in [Tabs -> OutboxType]
    BY <1>1, <1>2 DEF Init, Good
  <2>2. store \in Seq(Batch) /\ io \in Seq(IoType)
    BY <1>1 DEF Init
  <2>3. nextId \in 1 .. MaxId + 1
    BY <1>1, Bounds DEF Init
  <2> QED BY <1>1, <2>1, <2>2, <2>3 DEF Init, TypeOK
<1>4. \A t \in Tabs : Good(tab[t])
  BY <1>1, <1>2 DEF Init
<1>5. LoadsAwaited(io, tab)
  BY <1>1 DEF Init, LoadsAwaited
<1> QED BY <1>3, <1>4, <1>5 DEF IInv

\* An answer to the batch in flight.
LEMMA AnswerStep ==
    ASSUME IInv, NEW t \in Tabs, NEW s, Answer(t, s),
           Good(s), s.life = tab[t].life
    PROVE  IInv' /\ StepOK
<1>1. SendsAgain(tab[t], s)
  BY DEF Answer, InFlight, SendsAgain
<1>2. Update(t, s)
  BY DEF Answer
<1>3. /\ tab' \in [Tabs -> OutboxType] /\ \A u \in Tabs : Good(tab'[u])
      /\ StepOK /\ LoadsAwaited(io, tab')
  BY <1>1, <1>2, UpdateGood
<1>4. settled' \in SUBSET Ids
  BY DEF Answer, IInv, TypeOK, Good, OutboxType
<1>5. UNCHANGED <<store, io, nextId, missed>>
  BY DEF Answer
<1>6. TypeOK'
  BY <1>3, <1>4, <1>5 DEF IInv, TypeOK
<1> QED BY <1>3, <1>5, <1>6 DEF IInv, LoadsAwaited

\* Any answer the network brings.
LEMMA NetworkStep ==
    ASSUME IInv, NEW t \in Tabs, Network(t)
    PROVE  IInv' /\ StepOK
<1>1. tab[t] \in OutboxType /\ Flying(tab[t])
  BY DEF IInv, Good
<1>2. tab[t].sending # NoBatch
  BY DEF Network, Acked, Conflicted, LockedOut, Rejected, Failed, Answer, InFlight
<1>3. ASSUME NEW v \in Versions, Acked(t, v)
      PROVE  IInv' /\ StepOK
  <2>1. Good(AfterAck(tab[t], v)) /\ AfterAck(tab[t], v).life = tab[t].life
    BY <1>1, <1>2, AckGood
  <2> QED BY <1>3, <2>1, AnswerStep DEF Acked
<1>4. ASSUME NEW v \in Versions, Conflicted(t, v)
      PROVE  IInv' /\ StepOK
  <2>1. Good(AfterConflict(tab[t], v)) /\ AfterConflict(tab[t], v).life = tab[t].life
    BY <1>1, <1>2, ConflictGood
  <2> QED BY <1>4, <2>1, AnswerStep DEF Conflicted
<1>5. ASSUME LockedOut(t) PROVE IInv' /\ StepOK
  <2>1. Good(AfterLocked(tab[t])) /\ AfterLocked(tab[t]).life = tab[t].life
    BY <1>1, <1>2, RefusalGood
  <2> QED BY <1>5, <2>1, AnswerStep DEF LockedOut
<1>6. ASSUME Rejected(t) PROVE IInv' /\ StepOK
  <2>1. Good(AfterRejection(tab[t])) /\ AfterRejection(tab[t]).life = tab[t].life
    BY <1>1, <1>2, RefusalGood
  <2> QED BY <1>6, <2>1, AnswerStep DEF Rejected
<1>7. ASSUME Failed(t) PROVE IInv' /\ StepOK
  <2>1. Good(AfterFailure(tab[t])) /\ AfterFailure(tab[t]).life = tab[t].life
    BY <1>1, <1>2, FailureGood
  <2> QED BY <1>7, <2>1, AnswerStep DEF Failed
<1> QED BY <1>3, <1>4, <1>5, <1>6, <1>7 DEF Network

\* A step of one outbox that touches neither the store nor its transactions.
LEMMA QuietStep ==
    ASSUME IInv, NEW t \in Tabs, NEW s, Update(t, s),
           Good(s), s.life = tab[t].life, SendsAgain(tab[t], s),
           nextId' \in 1 .. MaxId + 1, UNCHANGED <<store, io, settled, missed>>
    PROVE  IInv' /\ StepOK
<1>1. /\ tab' \in [Tabs -> OutboxType] /\ \A u \in Tabs : Good(tab'[u])
      /\ StepOK /\ LoadsAwaited(io, tab')
  BY UpdateGood
<1>2. TypeOK'
  BY <1>1 DEF IInv, TypeOK
<1> QED BY <1>1, <1>2 DEF IInv, LoadsAwaited

\* A tab gets a new outbox while transactions come and go.
LEMMA ReplacedStep ==
    ASSUME IInv, NEW t \in Tabs, NEW life \in {"closed", "loading"},
           Update(t, NewOutbox(life)), UNCHANGED <<store, nextId, settled, missed>>,
           io' \in Seq(IoType), LoadsAwaited(io', tab')
    PROVE  IInv' /\ StepOK
<1>1. Good(NewOutbox(life))
  BY NewOutboxGood
<1>2. tab \in [Tabs -> OutboxType] /\ NewOutbox(life) \in OutboxType
  BY <1>1 DEF IInv, TypeOK, Good
<1>3. tab' \in [Tabs -> OutboxType]
  BY <1>2 DEF Update
<1>4. \A u \in Tabs : tab'[u] = IF u = t THEN NewOutbox(life) ELSE tab[u]
  BY <1>2 DEF Update
<1>5. \A u \in Tabs : Good(tab'[u])
  BY <1>1, <1>4 DEF IInv
<1>6. StepOK
  BY <1>4 DEF StepOK, SendsAgain, NewOutbox
<1>7. TypeOK'
  BY <1>3 DEF IInv, TypeOK
<1> QED BY <1>5, <1>6, <1>7 DEF IInv

\* The queue is written behind the transactions that wait.
LEMMA FlushAwaited ==
    ASSUME IInv, NEW t \in Tabs
    PROVE  FlushTo(io, t) \in Seq(IoType) /\ LoadsAwaited(FlushTo(io, t), tab)
<1>1. io \in Seq(IoType) /\ LoadsAwaited(io, tab)
  BY DEF IInv, TypeOK
<1>2. tab[t].queue \in Seq(Batch)
  BY DEF IInv, TypeOK, OutboxType
<1>3. /\ Write(t, tab[t].queue) \in IoType
      /\ Write(t, tab[t].queue).kind # "load"
  BY <1>2 DEF Write, IoType
<1>4. /\ Append(io, Write(t, tab[t].queue)) \in Seq(IoType)
      /\ LoadsAwaited(Append(io, Write(t, tab[t].queue)), tab)
  BY <1>1, <1>3, IssueAwaited
<1> QED BY <1>1, <1>4 DEF FlushTo

\* A tab opens the wireframe.
LEMMA MountStep ==
    ASSUME IInv, NEW t \in Tabs, Mount(t)
    PROVE  IInv' /\ StepOK
<1>1. /\ Update(t, NewOutbox("loading")) /\ io' = Append(io, Load(t))
      /\ UNCHANGED <<store, nextId, settled, missed>>
  BY DEF Mount
<1>2. io \in Seq(IoType) /\ tab \in [Tabs -> OutboxType]
  BY DEF IInv, TypeOK
<1>3. /\ tab'[t].life = "loading"
      /\ \A u \in Tabs : u # t => tab'[u] = tab[u]
  BY <1>1, <1>2, NewOutboxGood DEF Update
<1>4. \A i \in DOMAIN io : io[i].tab \in Tabs
  BY <1>2, IoTabs
<1>5. \A i \in DOMAIN io : io[i].kind = "load" => io[i].tab # t
  BY DEF Mount, IInv, LoadsAwaited
<1>6. LoadsAwaited(io, tab')
  BY <1>3, <1>4, <1>5 DEF IInv, LoadsAwaited
<1>7. Load(t) \in IoType /\ Load(t).tab = t
  BY DEF Load, IoType
<1>8. io' \in Seq(IoType) /\ LoadsAwaited(io', tab')
  BY <1>1, <1>2, <1>3, <1>5, <1>6, <1>7, IssueAwaited
<1> QED BY <1>1, <1>8, ReplacedStep

\* A tab leaves the wireframe, or dies: its load is never waited for again.
LEMMA LeaveStep ==
    ASSUME IInv, NEW t \in Tabs, Unmount(t) \/ Crash(t)
    PROVE  IInv' /\ StepOK
<1>1. Update(t, NewOutbox("closed")) /\ UNCHANGED <<store, nextId, settled, missed>>
  BY DEF Unmount, Crash
<1>2. \A u \in Tabs : u # t => tab'[u] = tab[u]
  BY <1>1 DEF Update, IInv, TypeOK
<1>3. ASSUME NEW q \in Seq(IoType), LoadsAwaited(q, tab), NEW K \in SUBSET DOMAIN q,
             \A i \in K : q[i].kind = "load" => q[i].tab # t
      PROVE  Keep(q, K) \in Seq(IoType) /\ LoadsAwaited(Keep(q, K), tab')
  <2>1. \A i \in K : q[i].tab \in Tabs
    BY <1>3, IoTabs
  <2>2. \A i \in K : q[i].kind = "load" => tab'[q[i].tab].life = tab[q[i].tab].life
    BY <1>2, <1>3, <2>1
  <2> QED BY <1>3, <2>2, KeepAwaited
<1>4. CASE Unmount(t)
  <2> DEFINE q == FlushTo(io, t)
             K == {i \in DOMAIN q : ~(q[i].kind = "load" /\ q[i].tab = t)}
  <2>1. io' = Keep(q, K)
    BY <1>4 DEF Unmount, IoWithout
  <2>2. q \in Seq(IoType) /\ LoadsAwaited(q, tab)
    BY FlushAwaited
  <2> HIDE DEF q
  <2>3. io' \in Seq(IoType) /\ LoadsAwaited(io', tab')
    BY <1>3, <2>1, <2>2
  <2> QED BY <1>1, <2>3, ReplacedStep
<1>5. CASE Crash(t)
  <2> DEFINE K == {i \in DOMAIN io : ~(io[i].tab = t)}
  <2>1. io' = Keep(io, K)
    BY <1>5 DEF Crash, IoWithout
  <2>2. io \in Seq(IoType) /\ LoadsAwaited(io, tab)
    BY DEF IInv, TypeOK
  <2>3. io' \in Seq(IoType) /\ LoadsAwaited(io', tab')
    BY <1>3, <2>1, <2>2
  <2> QED BY <1>1, <2>3, ReplacedStep
<1> QED BY <1>4, <1>5

\* A new batch is typed.
LEMMA CommitStep ==
    ASSUME IInv, NEW t \in Tabs, NEW p \in Pages, NEW e \in Edits, NEW v \in Versions,
           Commit(t, p, e, v)
    PROVE  IInv' /\ StepOK
<1> DEFINE b  == [id |-> nextId, page |-> p, base |-> v, edit |-> e]
           bs == <<b>>
<1>1. nextId \in Ids /\ nextId' \in 1 .. MaxId + 1
  BY Bounds DEF Commit, IInv, TypeOK, Ids
<1>2. b \in Batch
  BY <1>1 DEF Batch
<1>3. bs \in Seq(Batch)
  BY <1>2
<1>4. Update(t, Enqueued(tab[t], bs)) /\ UNCHANGED <<store, io, settled, missed>>
  BY DEF Commit
<1> HIDE DEF bs
<1>5. tab[t] \in OutboxType /\ Flying(tab[t]) /\ Steady(tab[t])
  BY DEF IInv, Good
<1>6. /\ Good(Enqueued(tab[t], bs)) /\ Enqueued(tab[t], bs).life = tab[t].life
      /\ SendsAgain(tab[t], Enqueued(tab[t], bs))
  BY <1>3, <1>5, EnqueuedGood
<1> QED BY <1>1, <1>4, <1>6, QuietStep

\* A page's version is seen.
LEMMA NotePageStep ==
    ASSUME IInv, NEW t \in Tabs, NEW p \in Pages, NEW v \in Versions, NotePage(t, p, v)
    PROVE  IInv' /\ StepOK
<1>1. Good(tab[t]) /\ tab[t] \in OutboxType
  BY DEF IInv, Good
<1>2. /\ Good(Noted(tab[t], p, v)) /\ Noted(tab[t], p, v).life = tab[t].life
      /\ Noted(tab[t], p, v).sending = tab[t].sending
  BY <1>1, NotedGood DEF Good
<1>3. SendsAgain(tab[t], Noted(tab[t], p, v))
  BY <1>2 DEF SendsAgain
<1>4. /\ Update(t, Noted(tab[t], p, v)) /\ UNCHANGED <<store, io, settled, missed>>
      /\ nextId' \in 1 .. MaxId + 1
  BY DEF NotePage, IInv, TypeOK
<1> QED BY <1>2, <1>3, <1>4, QuietStep

\* The refetch after a conflict ends, well or not.
LEMMA RefetchStep ==
    ASSUME IInv, NEW t \in Tabs, NEW h \in tab[t].held,
           \/ RefetchFailed(t, h)
           \/ \E v \in Versions, K \in SUBSET DOMAIN h.batches : Refetched(t, h, v, K)
    PROVE  IInv' /\ StepOK
<1>1. Good(tab[t]) /\ tab[t] \in OutboxType /\ nextId \in 1 .. MaxId + 1
  BY DEF IInv, Good, TypeOK
<1>2. CASE RefetchFailed(t, h)
  <2> DEFINE s == [tab[t] EXCEPT !.held = @ \ {h}]
  <2>1. /\ s \in OutboxType
        /\ \A f \in {"life", "queue", "sending", "attempt", "timer", "last", "locked"} :
              s[f] = tab[t][f]
    BY <1>1 DEF OutboxType
  <2>2. Update(t, s) /\ UNCHANGED <<store, io, nextId, settled, missed>>
    BY <1>2 DEF RefetchFailed
  <2> HIDE DEF s
  <2>3. Good(s) /\ SendsAgain(tab[t], s)
    BY <1>1, <2>1 DEF Good, Flying, Ready, Steady, SendsAgain
  <2> QED BY <1>1, <2>1, <2>2, <2>3, QuietStep
<1>3. ASSUME NEW v \in Versions, NEW K \in SUBSET DOMAIN h.batches, Refetched(t, h, v, K)
      PROVE  IInv' /\ StepOK
  <2> DEFINE n == [Noted(tab[t], h.page, v) EXCEPT !.held = @ \ {h}]
             again == Reissued(n, Keep(h.batches, K))
             s == Enqueued(n, again)
  <2>1. /\ nextId + Len(again) <= MaxId + 1 /\ nextId' = nextId + Len(again)
        /\ Update(t, s) /\ UNCHANGED <<store, io, settled, missed>>
    BY <1>3 DEF Refetched
  <2>2. /\ Len(again) \in Nat /\ Good(s) /\ s.life = tab[t].life
        /\ SendsAgain(tab[t], s)
    BY <1>1, <2>1, RequeuedGood
  <2> HIDE DEF n, again, s
  <2>3. nextId' \in 1 .. MaxId + 1
    BY <1>1, <2>1, <2>2, Bounds
  <2> QED BY <2>1, <2>2, <2>3, QuietStep
<1> QED BY <1>2, <1>3

\* The hook's effects and calls.
LEMMA HookStep ==
    ASSUME IInv, NEW t \in Tabs, Hook(t)
    PROVE  IInv' /\ StepOK
<1>1. ASSUME Resume(t) PROVE IInv' /\ StepOK
  <2>1. Good(tab[t]) /\ tab[t] \in OutboxType /\ nextId \in 1 .. MaxId + 1
    BY DEF IInv, Good, TypeOK
  <2> DEFINE s == Drained([tab[t] EXCEPT !.locked = FALSE])
  <2>2. Good(s) /\ s.life = tab[t].life /\ SendsAgain(tab[t], s)
    BY <2>1, WokenGood
  <2>3. Update(t, s) /\ UNCHANGED <<store, io, nextId, settled, missed>>
    BY <1>1 DEF Resume
  <2> HIDE DEF s
  <2> QED BY <2>1, <2>2, <2>3, QuietStep
<1> QED BY <1>1, MountStep, LeaveStep, CommitStep, NotePageStep, RefetchStep DEF Hook

\* The retry timer fires.
LEMMA RetryStep ==
    ASSUME IInv, NEW t \in Tabs, Retry(t)
    PROVE  IInv' /\ StepOK
<1>1. Good(tab[t]) /\ tab[t] \in OutboxType /\ nextId \in 1 .. MaxId + 1
  BY DEF IInv, Good, TypeOK
<1> DEFINE s == Drained([tab[t] EXCEPT !.timer = FALSE])
<1>2. Good(s) /\ s.life = tab[t].life /\ SendsAgain(tab[t], s)
  BY <1>1, WokenGood
<1>3. Update(t, s) /\ UNCHANGED <<store, io, nextId, settled, missed>>
  BY DEF Retry
<1> HIDE DEF s
<1> QED BY <1>1, <1>2, <1>3, QuietStep

\* The queue is flushed.
LEMMA FlushStep ==
    ASSUME IInv, NEW t \in Tabs, Flush(t)
    PROVE  IInv' /\ StepOK
<1> DEFINE s == [tab[t] EXCEPT !.dirty = FALSE]
<1>1. Good(tab[t]) /\ tab[t] \in OutboxType
  BY DEF IInv, Good
<1>2. /\ s \in OutboxType
      /\ \A f \in {"life", "queue", "sending", "attempt", "timer", "last", "locked"} :
            s[f] = tab[t][f]
  BY <1>1 DEF OutboxType
<1>3. Update(t, s) /\ io' = FlushTo(io, t) /\ UNCHANGED <<store, nextId, settled, missed>>
  BY DEF Flush
<1> HIDE DEF s
<1>4. Good(s) /\ SendsAgain(tab[t], s)
  BY <1>1, <1>2 DEF Good, Flying, Ready, Steady, SendsAgain
<1>5. /\ tab' \in [Tabs -> OutboxType] /\ \A u \in Tabs : Good(tab'[u]) /\ StepOK
  BY <1>2, <1>3, <1>4, UpdateGood
<1>6. FlushTo(io, t) \in Seq(IoType) /\ LoadsAwaited(FlushTo(io, t), tab)
  BY FlushAwaited
<1>7. \A u \in Tabs : tab'[u].life = tab[u].life
  BY <1>2, <1>3 DEF Update, IInv, TypeOK
<1>8. \A i \in DOMAIN FlushTo(io, t) : FlushTo(io, t)[i].tab \in Tabs
  BY <1>6, IoTabs
<1>9. LoadsAwaited(io', tab')
  BY <1>3, <1>6, <1>7, <1>8 DEF LoadsAwaited
<1>10. TypeOK'
  BY <1>3, <1>5, <1>6 DEF IInv, TypeOK
<1> QED BY <1>5, <1>9, <1>10 DEF IInv

\* The oldest transaction writes.
LEMMA StoreStep ==
    ASSUME IInv, StoreWritten
    PROVE  IInv' /\ StepOK
<1>1. io \in Seq(IoType) /\ LoadsAwaited(io, tab) /\ io # <<>>
  BY DEF IInv, TypeOK, StoreWritten
<1>2. Head(io) \in IoType /\ Tail(io) \in Seq(IoType) /\ LoadsAwaited(Tail(io), tab)
  BY <1>1, RunAwaited
<1>3. /\ store' = Head(io).rows /\ io' = Tail(io) /\ missed' = FALSE
      /\ UNCHANGED <<tab, nextId, settled>>
  BY DEF StoreWritten
<1>4. Head(io).rows \in Seq(Batch)
  BY <1>2 DEF IoType
<1>5. TypeOK'
  BY <1>2, <1>3, <1>4 DEF IInv, TypeOK
<1>6. StepOK
  BY <1>3 DEF StepOK, SendsAgain
<1> QED BY <1>2, <1>3, <1>5, <1>6 DEF IInv, LoadsAwaited

\* The oldest transaction fails.
LEMMA FailStep ==
    ASSUME IInv, StoreFails \/ LoadFails
    PROVE  IInv' /\ StepOK
<1>1. io \in Seq(IoType) /\ LoadsAwaited(io, tab) /\ io # <<>>
  BY DEF IInv, TypeOK, StoreFails, LoadFails
<1>2. Tail(io) \in Seq(IoType) /\ LoadsAwaited(Tail(io), tab)
  BY <1>1, RunAwaited
<1>3. io' = Tail(io) /\ missed' \in BOOLEAN /\ UNCHANGED <<tab, store, nextId, settled>>
  BY DEF StoreFails, LoadFails, IInv, TypeOK
<1>4. TypeOK'
  BY <1>2, <1>3 DEF IInv, TypeOK
<1>5. StepOK
  BY <1>3 DEF StepOK, SendsAgain
<1> QED BY <1>2, <1>3, <1>4, <1>5 DEF IInv, LoadsAwaited

\* The oldest transaction loads.
LEMMA LoadedStep ==
    ASSUME IInv, Loaded
    PROVE  IInv' /\ StepOK
<1> DEFINE t == Head(io).tab
           s == Drained([tab[t] EXCEPT !.life = "open", !.queue = store \o @,
                                       !.accepted = IdSeq(store) \o @])
<1>1. io \in Seq(IoType) /\ LoadsAwaited(io, tab) /\ io # <<>> /\ Head(io).kind = "load"
  BY DEF IInv, TypeOK, Loaded
<1>2. /\ Head(io) \in IoType /\ Tail(io) \in Seq(IoType) /\ LoadsAwaited(Tail(io), tab)
      /\ tab[t].life = "loading"
      /\ \A i \in DOMAIN Tail(io) : Tail(io)[i].kind = "load" => Tail(io)[i].tab # t
  BY <1>1, RunAwaited
<1>3. t \in Tabs
  BY <1>2 DEF IoType
<1>4. Good(tab[t]) /\ tab[t] \in OutboxType /\ store \in Seq(Batch)
  BY <1>3 DEF IInv, Good, TypeOK
<1>5. Good(s) /\ s.life = "open" /\ SendsAgain(tab[t], s)
  BY <1>2, <1>4, LoadedGood
<1>6. /\ tab' = [tab EXCEPT ![t] = s] /\ io' = Tail(io) /\ missed' = FALSE
      /\ UNCHANGED <<store, nextId, settled>>
  BY DEF Loaded, Update
<1> HIDE DEF s
<1>7. tab \in [Tabs -> OutboxType] /\ s \in OutboxType
  BY <1>5 DEF IInv, TypeOK, Good
<1> HIDE DEF t
<1>8. /\ tab' \in [Tabs -> OutboxType]
      /\ \A u \in Tabs : tab'[u] = IF u = t THEN s ELSE tab[u]
  BY <1>3, <1>6, <1>7
<1>9. \A i \in DOMAIN Tail(io) : Tail(io)[i].tab \in Tabs
  BY <1>2, IoTabs
<1>10. LoadsAwaited(io', tab')
  BY <1>2, <1>6, <1>8, <1>9 DEF LoadsAwaited
<1>11. \A u \in Tabs : Good(tab'[u])
  BY <1>5, <1>8 DEF IInv
<1>12. StepOK
  BY <1>5, <1>8 DEF StepOK, SendsAgain
<1>13. TypeOK'
  BY <1>2, <1>6, <1>8 DEF IInv, TypeOK
<1> QED BY <1>10, <1>11, <1>12, <1>13 DEF IInv

\* Every step of the specification keeps the invariant.
LEMMA NextIInv == IInv /\ [Next]_vars => IInv' /\ StepOK
<1>1. SUFFICES ASSUME IInv, [Next]_vars PROVE IInv' /\ StepOK
  OBVIOUS
<1>2. CASE UNCHANGED vars
  <2>1. UNCHANGED <<tab, store, io, nextId, settled, missed>>
    BY <1>2 DEF vars
  <2>2. TypeOK'
    BY <1>1, <2>1 DEF IInv, TypeOK
  <2>3. StepOK
    BY <2>1 DEF StepOK, SendsAgain
  <2> QED BY <1>1, <2>1, <2>2, <2>3 DEF IInv, LoadsAwaited
<1>3. ASSUME NEW t \in Tabs, Network(t) PROVE IInv' /\ StepOK
  BY <1>1, <1>3, NetworkStep
<1>4. ASSUME NEW t \in Tabs, Hook(t) PROVE IInv' /\ StepOK
  BY <1>1, <1>4, HookStep
<1>5. ASSUME NEW t \in Tabs, Retry(t) PROVE IInv' /\ StepOK
  BY <1>1, <1>5, RetryStep
<1>6. ASSUME NEW t \in Tabs, Flush(t) PROVE IInv' /\ StepOK
  BY <1>1, <1>6, FlushStep
<1>7. ASSUME NEW t \in Tabs, Crash(t) PROVE IInv' /\ StepOK
  BY <1>1, <1>7, LeaveStep
<1>8. ASSUME StoreWritten PROVE IInv' /\ StepOK
  BY <1>1, <1>8, StoreStep
<1>9. ASSUME Loaded PROVE IInv' /\ StepOK
  BY <1>1, <1>9, LoadedStep
<1>10. ASSUME StoreFails \/ LoadFails PROVE IInv' /\ StepOK
  BY <1>1, <1>10, FailStep
<1> QED BY <1>1, <1>2, <1>3, <1>4, <1>5, <1>6, <1>7, <1>8, <1>9, <1>10 DEF Next

-----------------------------------------------------------------------------
(* Theorems *)

\* The inductive invariant holds in every reachable state.
THEOREM Invariance == Spec => []IInv
BY InitIInv, NextIInv, PTL DEF Spec

\* Every variable keeps its type; the answer paths of drain() never shift an
\* empty queue, and minted ids stay in range.
THEOREM TypeCorrect == Spec => []TypeOK
<1>1. IInv => TypeOK
  BY DEF IInv
<1> QED BY <1>1, Invariance, PTL

\* However many tabs, pages and edits there are, the batch an answer is for
\* is the head that the answer's handler removes.
THEOREM InFlightStaysHead == Spec => []InFlightIsHead
<1>1. IInv => InFlightIsHead
  BY DEF IInv, Good, Flying, InFlightIsHead, InFlight
<1> QED BY <1>1, Invariance, PTL

\* No interleaving of commits, loads, answers, timers and unlocks leaves an
\* open outbox with work and nothing that will call drain() again.
THEOREM NeverAsleep == Spec => []Awake
<1>1. IInv => Awake
  BY DEF IInv, Good, Ready, Awake, InFlight
<1> QED BY <1>1, Invariance, PTL

\* A retry within a run of attempts is the batch that was sent.
THEOREM RetriesStayFrozen == Spec => RetriesAreFrozen
<1>1. IInv /\ StepOK =>
          \A t \in Tabs : tab[t].attempt > 0 /\ ~InFlight(t) /\ InFlight(t)'
              => tab'[t].sending = tab[t].last
  BY DEF StepOK, SendsAgain, InFlight
<1>2. IInv /\ [Next]_vars =>
          [\A t \in Tabs : tab[t].attempt > 0 /\ ~InFlight(t) /\ InFlight(t)'
              => tab'[t].sending = tab[t].last]_vars
  BY <1>1, NextIInv
<1> QED BY <1>2, Invariance, PTL DEF Spec, RetriesAreFrozen

-----------------------------------------------------------------------------
(* The queue as the specification of its promises sees it *)

\* Two lists put end to end, place by place.
LEMMA ConcatParts ==
    ASSUME NEW S, NEW q \in Seq(S), NEW r \in Seq(S)
    PROVE  /\ q \o r \in Seq(S) /\ Len(q \o r) = Len(q) + Len(r)
           /\ \A i \in 1 .. Len(q) : (q \o r)[i] = q[i]
           /\ \A i \in 1 .. Len(r) : (q \o r)[Len(q) + i] = r[i]
<1>1. /\ q \o r \in Seq(S) /\ Len(q \o r) = Len(q) + Len(r)
      /\ \A i \in 1 .. Len(q) + Len(r) : (q \o r)[i] = IF i <= Len(q) THEN q[i] ELSE r[i - Len(q)]
  BY ConcatProperties
<1>2. Len(q) \in Nat /\ Len(r) \in Nat
  OBVIOUS
<1>3. ASSUME NEW i \in 1 .. Len(q) PROVE (q \o r)[i] = q[i]
  <2>1. i \in 1 .. Len(q) + Len(r) /\ i <= Len(q)
    BY <1>2
  <2> QED BY <1>1, <2>1
<1>4. ASSUME NEW i \in 1 .. Len(r) PROVE (q \o r)[Len(q) + i] = r[i]
  <2>1. Len(q) + i \in 1 .. Len(q) + Len(r) /\ ~(Len(q) + i <= Len(q)) /\ (Len(q) + i) - Len(q) = i
    BY <1>2
  <2> QED BY <1>1, <2>1
<1> QED BY <1>1, <1>3, <1>4

\* A sequence that reads as a concatenation is one.
LEMMA ConcatIs ==
    ASSUME NEW S, NEW q \in Seq(S), NEW r \in Seq(S), NEW c \in Seq(S), Len(c) = Len(q) + Len(r),
           \A i \in 1 .. Len(q) : c[i] = q[i], \A i \in 1 .. Len(r) : c[Len(q) + i] = r[i]
    PROVE  c = q \o r
<1> DEFINE d == q \o r
<1>1. /\ d \in Seq(S) /\ Len(d) = Len(q) + Len(r)
      /\ \A i \in 1 .. Len(q) : d[i] = q[i]
      /\ \A i \in 1 .. Len(r) : d[Len(q) + i] = r[i]
  BY ConcatParts
<1>2. PICK m \in Nat : m = Len(q)
  OBVIOUS
<1>3. PICK n \in Nat : n = Len(r)
  OBVIOUS
<1> HIDE DEF d
<1>4. ASSUME NEW i \in 1 .. m + n PROVE c[i] = d[i]
  <2>1. CASE i <= m
    BY <1>1, <1>2, <2>1
  <2>2. CASE i > m
    <3> DEFINE k == i - m
    <3>1. k \in 1 .. n /\ i = m + k
      BY <2>2
    <3> HIDE DEF k
    <3> QED BY <1>1, <1>2, <1>3, <3>1
  <2> QED BY <2>1, <2>2
<1>5. Len(c) = Len(d) /\ \A i \in 1 .. Len(c) : c[i] = d[i]
  BY <1>1, <1>2, <1>3, <1>4
<1>6. c = d
  BY <1>1, <1>5, SeqEqual
<1> QED BY <1>6 DEF d

Marks(q) == [i \in DOMAIN q |-> Entry(q[i])]

\* Marks keep ids and pages, and nothing else.
LEMMA MarksSeq ==
    ASSUME NEW q \in Seq(Batch)
    PROVE  /\ Marks(q) \in Seq([id : Ids, page : Pages]) /\ Len(Marks(q)) = Len(q)
           /\ DOMAIN Marks(q) = DOMAIN q
           /\ \A i \in DOMAIN q : Marks(q)[i] = Entry(q[i])
           /\ IdSeq(Marks(q)) = IdSeq(q)
<1>1. DOMAIN q = 1 .. Len(q) /\ Len(q) \in Nat
  OBVIOUS
<1>2. \A i \in 1 .. Len(q) : Entry(q[i]) \in [id : Ids, page : Pages] /\ Entry(q[i]).id = q[i].id
  <2>1. \A i \in 1 .. Len(q) : q[i] \in Batch
    OBVIOUS
  <2> QED BY <2>1 DEF Entry, Batch
<1>3. Marks(q) \in Seq([id : Ids, page : Pages]) /\ Len(Marks(q)) = Len(q)
  BY <1>1, <1>2 DEF Marks
<1>4. IdSeq(Marks(q)) = IdSeq(q)
  BY <1>1, <1>2 DEF Marks, IdSeq
<1> QED BY <1>1, <1>3, <1>4 DEF Marks

\* Marks go with concatenation ...
LEMMA MarksConcat ==
    ASSUME NEW q \in Seq(Batch), NEW r \in Seq(Batch)
    PROVE  Marks(q \o r) = Marks(q) \o Marks(r)
<1> DEFINE M == [id : Ids, page : Pages]
           c == q \o r
<1>1. /\ c \in Seq(Batch) /\ Len(c) = Len(q) + Len(r)
      /\ \A i \in 1 .. Len(q) : c[i] = q[i]
      /\ \A i \in 1 .. Len(r) : c[Len(q) + i] = r[i]
  BY ConcatParts
<1>2. Len(q) \in Nat /\ Len(r) \in Nat /\ DOMAIN q = 1 .. Len(q) /\ DOMAIN r = 1 .. Len(r)
  OBVIOUS
<1> HIDE DEF c
<1>3. /\ Marks(q) \in Seq(M) /\ Len(Marks(q)) = Len(q)
      /\ \A i \in 1 .. Len(q) : Marks(q)[i] = Entry(q[i])
  BY <1>2, MarksSeq
<1>4. /\ Marks(r) \in Seq(M) /\ Len(Marks(r)) = Len(r)
      /\ \A i \in 1 .. Len(r) : Marks(r)[i] = Entry(r[i])
  BY <1>2, MarksSeq
<1>5. DOMAIN c = 1 .. Len(q) + Len(r)
  BY <1>1
<1>6. /\ Marks(c) \in Seq(M) /\ Len(Marks(c)) = Len(q) + Len(r)
      /\ \A i \in 1 .. Len(q) + Len(r) : Marks(c)[i] = Entry(c[i])
  BY <1>1, <1>5, MarksSeq
<1>7. \A i \in 1 .. Len(q) : Marks(c)[i] = Marks(q)[i]
  <2> TAKE i \in 1 .. Len(q)
  <2>1. i \in 1 .. Len(q) + Len(r)
    BY <1>2
  <2> QED BY <1>1, <1>3, <1>6, <2>1
<1>8. \A i \in 1 .. Len(r) : Marks(c)[Len(q) + i] = Marks(r)[i]
  <2> TAKE i \in 1 .. Len(r)
  <2>1. Len(q) + i \in 1 .. Len(q) + Len(r)
    BY <1>2
  <2> QED BY <1>1, <1>4, <1>6, <2>1
<1> DEFINE a == Marks(q)  b == Marks(r)  d == Marks(c)
<1> HIDE DEF M
<1>9. /\ a \in Seq(M) /\ b \in Seq(M) /\ d \in Seq(M) /\ Len(d) = Len(a) + Len(b)
      /\ \A i \in 1 .. Len(a) : d[i] = a[i]
      /\ \A i \in 1 .. Len(b) : d[Len(a) + i] = b[i]
  BY <1>3, <1>4, <1>6, <1>7, <1>8
<1> HIDE DEF a, b, d
<1>10. d = a \o b
  BY <1>9, ConcatIs
<1> QED BY <1>10 DEF a, b, d, c

\* ... and with selection.
LEMMA MarksKeep ==
    ASSUME NEW q \in Seq(Batch), NEW K \in SUBSET DOMAIN q
    PROVE  Marks(Keep(q, K)) = Keep(Marks(q), K)
<1>1. /\ Keep(q, K) \in Seq(Batch) /\ Len(Keep(q, K)) = Cardinality(K)
      /\ \A j \in 1 .. Cardinality(K) : Keep(q, K)[j] = q[Nth(K, j)]
  BY KeepSeq
<1>2. Cardinality(K) \in Nat /\ \A j \in 1 .. Cardinality(K) : Nth(K, j) \in DOMAIN q
  BY KeepNth
<1>3. \A i \in DOMAIN q : Marks(q)[i] = Entry(q[i])
  BY MarksSeq
<1>4. DOMAIN Keep(q, K) = 1 .. Cardinality(K)
  BY <1>1, <1>2
<1>5. Marks(Keep(q, K)) = [j \in 1 .. Cardinality(K) |-> Entry(q[Nth(K, j)])]
  BY <1>1, <1>4 DEF Marks
<1>6. Keep(Marks(q), K) = [j \in 1 .. Cardinality(K) |-> Entry(q[Nth(K, j)])]
  BY <1>2, <1>3 DEF Keep
<1> QED BY <1>5, <1>6

\* Ids of a filtered list, and of two lists put end to end.
LEMMA IdSeqKeep ==
    ASSUME NEW M, NEW m \in Seq(M), NEW K \in SUBSET DOMAIN m
    PROVE  IdSeq(Keep(m, K)) = Keep(IdSeq(m), K)
<1>1. /\ Keep(m, K) \in Seq(M) /\ Len(Keep(m, K)) = Cardinality(K)
      /\ \A j \in 1 .. Cardinality(K) : Keep(m, K)[j] = m[Nth(K, j)]
  BY KeepSeq
<1>2. Cardinality(K) \in Nat /\ \A j \in 1 .. Cardinality(K) : Nth(K, j) \in DOMAIN m
  BY KeepNth
<1>4. DOMAIN Keep(m, K) = 1 .. Cardinality(K)
  BY <1>1, <1>2
<1>5. IdSeq(Keep(m, K)) = [j \in 1 .. Cardinality(K) |-> m[Nth(K, j)].id]
  BY <1>1, <1>4 DEF IdSeq
<1>6. Keep(IdSeq(m), K) = [j \in 1 .. Cardinality(K) |-> m[Nth(K, j)].id]
  BY <1>2 DEF Keep, IdSeq
<1> QED BY <1>5, <1>6

\* The ids of a queue, place by place.
LEMMA IdSeqIs ==
    ASSUME NEW q \in Seq(Batch)
    PROVE  /\ IdSeq(q) \in Seq(Ids) /\ Len(IdSeq(q)) = Len(q)
           /\ \A i \in 1 .. Len(q) : IdSeq(q)[i] = q[i].id
<1>1. IdSeq(q) \in Seq(Ids)
  BY IdsOfQueue
<1>2. Len(q) \in Nat /\ DOMAIN q = 1 .. Len(q)
  OBVIOUS
<1> QED BY <1>1, <1>2 DEF IdSeq

\* The ids of the selected batches.
LEMMA KeptIds ==
    ASSUME NEW q \in Seq(Batch), NEW K \in SUBSET DOMAIN q
    PROVE  IdsOf(Keep(q, K)) = {q[k].id : k \in K}
<1> DEFINE t == Keep(q, K)
<1>1. t \in Seq(Batch) /\ Len(t) = Cardinality(K) /\ \A j \in 1 .. Cardinality(K) : t[j] = q[Nth(K, j)]
  BY KeepSeq
<1>2. /\ Cardinality(K) \in Nat /\ \A j \in 1 .. Cardinality(K) : Nth(K, j) \in K
      /\ \A k \in K : \E j \in 1 .. Cardinality(K) : Nth(K, j) = k
  BY KeepNth
<1> HIDE DEF t
<1>3. DOMAIN t = 1 .. Cardinality(K)
  BY <1>1, <1>2
<1>4. IdsOf(t) = {q[k].id : k \in K}
  <2>1. \A j \in 1 .. Cardinality(K) : \E k \in K : t[j].id = q[k].id
    BY <1>1, <1>2
  <2>2. \A k \in K : \E j \in 1 .. Cardinality(K) : t[j].id = q[k].id
    <3> TAKE k \in K
    <3>1. PICK j \in 1 .. Cardinality(K) : Nth(K, j) = k
      BY <1>2
    <3> QED BY <1>1, <3>1
  <2>3. IdsOf(t) = {t[j].id : j \in 1 .. Cardinality(K)}
    BY <1>3 DEF IdsOf
  <2>4. IdsOf(t) \subseteq {q[k].id : k \in K}
    BY <2>1, <2>3
  <2>5. {q[k].id : k \in K} \subseteq IdsOf(t)
    BY <2>2, <2>3
  <2> QED BY <2>4, <2>5
<1> QED BY <1>4 DEF t

\* The ids of a concatenation.
LEMMA IdSeqConcat ==
    ASSUME NEW q \in Seq(Batch), NEW r \in Seq(Batch)
    PROVE  IdSeq(q \o r) = IdSeq(q) \o IdSeq(r)
<1> DEFINE a == IdSeq(q)  b == IdSeq(r)  c == q \o r  d == IdSeq(c)
<1>1. /\ c \in Seq(Batch) /\ Len(c) = Len(q) + Len(r)
      /\ \A i \in 1 .. Len(q) : c[i] = q[i]
      /\ \A i \in 1 .. Len(r) : c[Len(q) + i] = r[i]
  BY ConcatParts
<1>2. Len(q) \in Nat /\ Len(r) \in Nat /\ DOMAIN q = 1 .. Len(q) /\ DOMAIN r = 1 .. Len(r)
  OBVIOUS
<1> HIDE DEF c
<1>3. /\ a \in Seq(Ids) /\ Len(a) = Len(q) /\ \A i \in 1 .. Len(q) : a[i] = q[i].id
  BY IdSeqIs
<1>4. /\ b \in Seq(Ids) /\ Len(b) = Len(r) /\ \A i \in 1 .. Len(r) : b[i] = r[i].id
  BY IdSeqIs
<1>5. DOMAIN c = 1 .. Len(q) + Len(r)
  BY <1>1
<1>6. d \in Seq(Ids) /\ Len(d) = Len(q) + Len(r) /\ \A i \in 1 .. Len(q) + Len(r) : d[i] = c[i].id
  BY <1>1, IdSeqIs
<1> HIDE DEF a, b, d
<1>7. \A i \in 1 .. Len(q) : d[i] = a[i]
  <2> TAKE i \in 1 .. Len(q)
  <2>1. i \in 1 .. Len(q) + Len(r)
    BY <1>2
  <2> QED BY <1>1, <1>3, <1>6, <2>1
<1>8. \A i \in 1 .. Len(r) : d[Len(q) + i] = b[i]
  <2> TAKE i \in 1 .. Len(r)
  <2>1. Len(q) + i \in 1 .. Len(q) + Len(r)
    BY <1>2
  <2> QED BY <1>1, <1>4, <1>6, <2>1
<1>9. /\ Len(d) = Len(a) + Len(b)
      /\ \A i \in 1 .. Len(a) : d[i] = a[i]
      /\ \A i \in 1 .. Len(b) : d[Len(a) + i] = b[i]
  BY <1>3, <1>4, <1>6, <1>7, <1>8
<1>10. d = a \o b
  BY <1>3, <1>4, <1>6, <1>9, ConcatIs
<1> QED BY <1>10 DEF a, b, c, d
-----------------------------------------------------------------------------
(* What a method does to the queue: nothing, more behind, or an answer *)

Stays(s, u) ==
    /\ Marks(u.queue) = Marks(s.queue)
    /\ u.accepted = s.accepted /\ u.answered = s.answered /\ u.life = s.life

Grows(s, u, bs) ==
    /\ Marks(u.queue) = Marks(s.queue) \o Marks(bs)
    /\ u.accepted = s.accepted \o IdSeq(bs) /\ u.answered = s.answered
    /\ u.life = s.life

\* The places outside J are handed over.
Serves(s, u, J) ==
    /\ Marks(u.queue) = Keep(Marks(s.queue), J)
    /\ u.accepted = s.accepted /\ u.life = s.life
    /\ u.answered = s.answered \cup {s.queue[i].id : i \in DOMAIN s.queue \ J}

NotHead(s)    == DOMAIN s.queue \ {1}
OtherPages(s) == {i \in DOMAIN s.queue : s.queue[i].page # Head(s.queue).page}

\* drain() changes the base of the head, not what it is or where it stands.
LEMMA DrainedStays ==
    ASSUME NEW s \in OutboxType
    PROVE  Stays(s, Drained(s))
<1>1. CASE CanDrain(s)
  <2> DEFINE b == HeadToSend(s)
             q == [s.queue EXCEPT ![1] = b]
  <2>1. s.queue \in Seq(Batch) /\ s.queue # <<>> /\ Head(s.queue) \in Batch
    BY <1>1 DEF CanDrain, OutboxType
  <2>2. b \in Batch /\ Entry(b) = Entry(Head(s.queue))
    <3> DEFINE h == Head(s.queue)
               k == s.known[h.page]
    <3>1. b = h \/ (b = [h EXCEPT !.base = k] /\ k > h.base)
      BY DEF HeadToSend
    <3>2. h \in Batch
      BY <2>1
    <3>3. k \in Versions \cup {Unknown}
      BY <3>2 DEF OutboxType, Batch
    <3> HIDE DEF h, k, b
    <3>4. k > h.base => k \in Versions
      BY <3>2, <3>3 DEF Batch, Unknown, Versions
    <3>5. b \in Batch /\ b.id = h.id /\ b.page = h.page
      BY <3>1, <3>2, <3>4 DEF Batch
    <3> QED BY <3>5 DEF Entry, h
  <2>3. Len(s.queue) \in Nat /\ 1 \in 1 .. Len(s.queue) /\ Head(s.queue) = s.queue[1] /\ DOMAIN s.queue = 1 .. Len(s.queue)
    BY <2>1
  <2>4. /\ DOMAIN q = DOMAIN s.queue
        /\ \A i \in DOMAIN s.queue : q[i] = IF i = 1 THEN b ELSE s.queue[i]
    BY <2>3
  <2>5. Drained(s) = [s EXCEPT !.queue = q, !.sending = b, !.last = b]
    BY <1>1 DEF Drained
  <2> HIDE DEF b, q
  <2>6. Marks(q) = Marks(s.queue)
    <3>1. \A i \in DOMAIN s.queue : Entry(q[i]) = Entry(s.queue[i])
      BY <2>2, <2>3, <2>4
    <3> QED BY <2>4, <3>1, Zenon DEF Marks
  <2>7. /\ Drained(s).queue = q /\ Drained(s).accepted = s.accepted
        /\ Drained(s).answered = s.answered /\ Drained(s).life = s.life
    BY <2>5 DEF OutboxType
  <2> QED BY <2>6, <2>7 DEF Stays
<1>2. CASE ~CanDrain(s)
  <2>1. Drained(s) = s
    BY <1>2 DEF Drained
  <2> QED BY <2>1 DEF Stays
<1> QED BY <1>1, <1>2

\* What stays afterwards changes nothing about an effect.
LEMMA ThenStays ==
    ASSUME NEW s, NEW u, NEW w, Stays(u, w)
    PROVE  /\ Stays(s, u) => Stays(s, w)
           /\ \A bs : Grows(s, u, bs) => Grows(s, w, bs)
           /\ \A J : Serves(s, u, J) => Serves(s, w, J)
BY DEF Stays, Grows, Serves

\* Noting a version leaves the queue alone.
LEMMA NotedStays ==
    ASSUME NEW s \in OutboxType, NEW p \in Pages, NEW v \in Versions
    PROVE  Stays(s, Noted(s, p, v)) /\ Noted(s, p, v).accepted = s.accepted
BY DEF OutboxType, Noted, Stays

\* enqueue() appends.
LEMMA EnqueuedGrows ==
    ASSUME NEW s \in OutboxType, NEW bs \in Seq(Batch)
    PROVE  Grows(s, Enqueued(s, bs), bs)
<1> DEFINE q == s.queue \o bs
           a == s.accepted \o IdSeq(bs)
           d == s.dirty \/ bs # <<>>
           e == [s EXCEPT !.queue = q, !.accepted = a, !.dirty = d]
<1>1. s.queue \in Seq(Batch) /\ s.accepted \in Seq(Ids)
  BY DEF OutboxType
<1>2. q \in Seq(Batch) /\ a \in Seq(Ids) /\ d \in BOOLEAN
  BY <1>1, IdsOfQueue, ConcatProperties
<1>3. Marks(q) = Marks(s.queue) \o Marks(bs)
  BY <1>1, MarksConcat
<1>4. Enqueued(s, bs) = Drained(e)
  BY DEF Enqueued
<1> HIDE DEF q, d
<1>5. e \in OutboxType /\ e.queue = q /\ e.accepted = a /\ e.answered = s.answered /\ e.life = s.life
  BY <1>2 DEF OutboxType
<1>6. Grows(s, e, bs)
  BY <1>3, <1>5 DEF Grows
<1> HIDE DEF e
<1>7. Stays(e, Drained(e))
  BY <1>5, DrainedStays
<1> QED BY <1>4, <1>6, <1>7, ThenStays

\* The next batch going out leaves the queue alone.
LEMMA LandedStays ==
    ASSUME NEW s \in OutboxType
    PROVE  Stays(s, Landed(s))
<1> DEFINE e == [s EXCEPT !.sending = NoBatch]
<1>1. e \in OutboxType /\ Stays(s, e)
  BY DEF OutboxType, Stays
<1>2. Landed(s) = Drained(e)
  BY DEF Landed
<1> HIDE DEF e
<1> QED BY <1>1, <1>2, DrainedStays, ThenStays

\* The head is done with: acknowledged, or refused alone.
LEMMA TailServes ==
    ASSUME NEW s \in OutboxType, Flying(s), s.sending # NoBatch, NEW u,
           u.queue = Tail(s.queue), u.accepted = s.accepted, u.life = s.life,
           u.answered = s.answered \cup {s.sending.id}
    PROVE  Serves(s, u, NotHead(s))
<1>1. s.queue \in Seq(Batch) /\ s.queue # <<>> /\ Head(s.queue) = s.sending
  BY HeadAndTail DEF Flying
<1>2. Tail(s.queue) = Keep(s.queue, NotHead(s)) /\ NotHead(s) \in SUBSET DOMAIN s.queue
  BY <1>1, KeepTail DEF NotHead
<1>3. Marks(u.queue) = Keep(Marks(s.queue), NotHead(s))
  BY <1>1, <1>2, MarksKeep
<1>4. DOMAIN s.queue \ NotHead(s) = {1} /\ s.queue[1] = s.sending
  BY <1>1 DEF NotHead
<1> QED BY <1>3, <1>4 DEF Serves

\* 2xx hands over the head.
LEMMA AckServes ==
    ASSUME NEW s \in OutboxType, Flying(s), s.sending # NoBatch, NEW v \in Versions
    PROVE  Serves(s, AfterAck(s, v), NotHead(s))
<1> DEFINE e == [s EXCEPT !.queue = Tail(@), !.dirty = TRUE,
                          !.attempt = 0, !.answered = @ \cup {s.sending.id}]
           n == Noted(e, s.sending.page, v)
<1>0. Tail(s.queue) \in Seq(Batch) /\ s.sending.id \in Ids /\ s.sending.page \in Pages
  BY HeadAndTail
<1>1. /\ e \in OutboxType /\ e.queue = Tail(s.queue) /\ e.accepted = s.accepted
      /\ e.life = s.life /\ e.answered = s.answered \cup {s.sending.id}
  BY <1>0, ZeroAttempts DEF OutboxType
<1>2. AfterAck(s, v) = Landed(n)
  BY DEF AfterAck
<1> HIDE DEF e
<1>3. Serves(s, e, NotHead(s))
  BY <1>1, TailServes
<1>4. n \in OutboxType /\ Stays(e, n)
  BY <1>0, <1>1, NotedGood, NotedStays
<1> HIDE DEF n
<1>5. Stays(n, Landed(n))
  BY <1>4, LandedStays
<1>6. Serves(s, n, NotHead(s))
  BY <1>3, <1>4, ThenStays
<1> QED BY <1>2, <1>5, <1>6, ThenStays

\* A refusal hands over the head; a lock or a failure hands over nothing.
LEMMA RefusalServes ==
    ASSUME NEW s \in OutboxType, Flying(s), s.sending # NoBatch
    PROVE  Serves(s, AfterRejection(s), NotHead(s)) /\ Stays(s, AfterLocked(s)) /\ Stays(s, AfterFailure(s))
<1> DEFINE e == [s EXCEPT !.locked = TRUE, !.attempt = 0]
           r == [s EXCEPT !.queue = Tail(@), !.dirty = TRUE, !.attempt = 0,
                          !.answered = @ \cup {s.sending.id}]
           a == IF s.attempt < MaxAttempt THEN s.attempt + 1 ELSE s.attempt
           f == [s EXCEPT !.attempt = a, !.timer = TRUE]
<1>0. Tail(s.queue) \in Seq(Batch) /\ s.sending.id \in Ids /\ a \in 0 .. MaxAttempt
  BY HeadAndTail, Bounds DEF OutboxType
<1>3. AfterLocked(s) = Landed(e) /\ AfterRejection(s) = Landed(r) /\ AfterFailure(s) = Landed(f)
  BY DEF AfterLocked, AfterRejection, AfterFailure
<1> HIDE DEF a
<1>1. e \in OutboxType /\ Stays(s, e) /\ f \in OutboxType /\ Stays(s, f)
  BY <1>0, ZeroAttempts DEF OutboxType, Stays
<1>2. /\ r \in OutboxType /\ r.queue = Tail(s.queue) /\ r.accepted = s.accepted
      /\ r.life = s.life /\ r.answered = s.answered \cup {s.sending.id}
  BY <1>0, ZeroAttempts DEF OutboxType
<1> HIDE DEF e, r, f
<1>4. Serves(s, r, NotHead(s))
  BY <1>2, TailServes
<1>5. Stays(e, Landed(e)) /\ Stays(r, Landed(r)) /\ Stays(f, Landed(f))
  BY <1>1, <1>2, LandedStays
<1>6. Stays(s, Landed(e)) /\ Stays(s, Landed(f))
  BY <1>1, <1>5, ThenStays
<1>7. Serves(s, Landed(r), NotHead(s))
  BY <1>4, <1>5, ThenStays
<1> QED BY <1>3, <1>6, <1>7

\* 409: the head and all of its page leave; other pages keep their order.
LEMMA ConflictServes ==
    ASSUME NEW s \in OutboxType, Flying(s), s.sending # NoBatch, NEW v \in Versions
    PROVE  Serves(s, AfterConflict(s, v), OtherPages(s))
<1> DEFINE b    == s.sending
           q    == s.queue
           rest == Tail(q)
           same == {i \in DOMAIN rest : rest[i].page = b.page}
           free == DOMAIN rest \ same
           keep == Keep(rest, free)
           drop == Keep(rest, same)
           held == s.held \cup {[page |-> b.page, batches |-> drop]}
           done == s.answered \cup {b.id} \cup IdsOf(drop)
           e == [s EXCEPT !.queue = keep, !.dirty = TRUE, !.attempt = 0,
                          !.held = held, !.answered = done]
           n == Noted(e, b.page, v)
<1>1. rest \in Seq(Batch) /\ b.page \in Pages /\ b.id \in Ids
  BY HeadAndTail
<1>2. keep \in Seq(Batch) /\ drop \in Seq(Batch)
  BY <1>1, KeepSeq
<1>3. IdsOf(drop) \subseteq Ids
  BY <1>2, IdsOfQueue
<1>4. AfterConflict(s, v) = Landed(n)
  BY DEF AfterConflict
<1>5. /\ q \in Seq(Batch) /\ q # <<>> /\ Len(q) \in Nat \ {0} /\ DOMAIN q = 1 .. Len(q)
      /\ q[1] = b /\ Len(rest) = Len(q) - 1 /\ DOMAIN rest = 1 .. Len(q) - 1
      /\ \A i \in 1 .. Len(q) - 1 : rest[i] = q[i + 1]
  <2>1. q \in Seq(Batch) /\ q # <<>> /\ Head(q) = b
    BY HeadAndTail DEF Flying
  <2>2. Len(q) \in Nat \ {0} /\ DOMAIN q = 1 .. Len(q) /\ Head(q) = q[1]
    BY <2>1, EmptySeq
  <2>3. rest \in Seq(Batch) /\ Len(rest) = Len(q) - 1 /\ \A i \in 1 .. Len(rest) : rest[i] = q[i + 1]
    BY <2>1, HeadTailProperties
  <2> HIDE DEF rest, b, q
  <2> QED BY <2>1, <2>2, <2>3
<1>6. /\ same \in SUBSET DOMAIN rest /\ free \in SUBSET DOMAIN rest
      /\ \A i \in DOMAIN rest : i \in same <=> rest[i].page = b.page
      /\ \A i \in DOMAIN rest : i \in free <=> rest[i].page # b.page
  OBVIOUS
<1>7. OtherPages(s) = Shifted(free, 1)
  <2>1. \A i \in DOMAIN q : i \in OtherPages(s) <=> q[i].page # b.page
    BY <1>5 DEF OtherPages
  <2>2. OtherPages(s) \in SUBSET DOMAIN q
    BY DEF OtherPages
  <2> HIDE DEF b, q, rest, same, free
  <2>3. ASSUME NEW i \in OtherPages(s) PROVE i - 1 \in free /\ i = (i - 1) + 1
    <3>1. i \in 1 .. Len(q) /\ q[i].page # b.page
      BY <1>5, <2>1, <2>2
    <3>2. i - 1 \in 1 .. Len(q) - 1 /\ (i - 1) + 1 = i
      BY <1>5, <3>1
    <3>3. rest[i - 1] = q[i]
      BY <1>5, <3>2
    <3> QED BY <1>5, <1>6, <3>1, <3>2, <3>3
  <2>4. ASSUME NEW j \in free PROVE j + 1 \in OtherPages(s)
    <3>1. j \in 1 .. Len(q) - 1 /\ rest[j].page # b.page
      BY <1>5, <1>6
    <3>2. j + 1 \in 1 .. Len(q) /\ rest[j] = q[j + 1]
      BY <1>5, <3>1
    <3> QED BY <1>5, <2>1, <3>1, <3>2
  <2>5. \A j \in free : j + 1 = 1 + j
    BY <1>5, <1>6
  <2>6. \A i \in OtherPages(s) : \E j \in free : i = 1 + j
    BY <2>3, <2>5
  <2> QED BY <2>4, <2>5, <2>6 DEF Shifted
<1>8. {q[i].id : i \in DOMAIN q \ OtherPages(s)} = {b.id} \cup IdsOf(drop)
  <2>1. \A i \in DOMAIN q : i \notin OtherPages(s) <=> q[i].page = b.page
    BY <1>5 DEF OtherPages
  <2>5. IdsOf(drop) = {rest[k].id : k \in same}
    BY <1>1, <1>6, KeptIds
  <2> HIDE DEF b, q, rest, same, drop
  <2>6. ASSUME NEW i \in DOMAIN q, i \notin OtherPages(s)
        PROVE  q[i].id \in {b.id} \cup {rest[k].id : k \in same}
    <3>1. CASE i = 1
      BY <1>5, <3>1
    <3>2. CASE i # 1
      <4>1. i - 1 \in 1 .. Len(q) - 1 /\ (i - 1) + 1 = i
        BY <1>5, <3>2
      <4>2. rest[i - 1] = q[i] /\ q[i].page = b.page
        BY <1>5, <2>1, <2>6, <4>1
      <4> QED BY <1>5, <1>6, <4>1, <4>2
    <3> QED BY <3>1, <3>2
  <2>7. ASSUME NEW k \in same PROVE k + 1 \in DOMAIN q \ OtherPages(s) /\ q[k + 1].id = rest[k].id
    <3>1. k \in 1 .. Len(q) - 1 /\ rest[k].page = b.page
      BY <1>5, <1>6
    <3>2. k + 1 \in 1 .. Len(q) /\ rest[k] = q[k + 1]
      BY <1>5, <3>1
    <3> QED BY <1>5, <2>1, <3>1, <3>2
  <2>8. 1 \in DOMAIN q \ OtherPages(s)
    BY <1>5, <2>1
  <2> QED BY <1>5, <2>5, <2>6, <2>7, <2>8
<1>9. keep = Keep(q, OtherPages(s))
  <2>1. q \in Seq(Batch) /\ q # <<>> /\ free \in SUBSET DOMAIN Tail(q)
    BY <1>5, <1>6
  <2> HIDE DEF q, free
  <2>2. Keep(Tail(q), free) = Keep(q, Shifted(free, 1))
    BY <2>1, KeepOfTail
  <2> QED BY <1>7, <2>2
<1>10. /\ held \in SUBSET [page : Pages, batches : Seq(Batch)]
       /\ done \in SUBSET Ids
  <2> HIDE DEF b, drop
  <2> QED BY <1>1, <1>2, <1>3 DEF OutboxType
<1>11. done = s.answered \cup {q[i].id : i \in DOMAIN q \ OtherPages(s)}
  BY <1>8
<1> HIDE DEF b, keep, drop, held, done, same, free, rest
<1>12. /\ e \in OutboxType /\ e.queue = keep /\ e.accepted = s.accepted
       /\ e.life = s.life /\ e.answered = done
  BY <1>2, <1>10, ZeroAttempts DEF OutboxType
<1> HIDE DEF e
<1>13. Marks(keep) = Keep(Marks(q), OtherPages(s))
  <2>1. OtherPages(s) \in SUBSET DOMAIN q
    BY DEF OtherPages
  <2> QED BY <1>5, <1>9, <2>1, MarksKeep
<1>14. Serves(s, e, OtherPages(s))
  BY <1>11, <1>12, <1>13 DEF Serves
<1>15. n \in OutboxType /\ Stays(e, n)
  BY <1>1, <1>12, NotedGood, NotedStays
<1> HIDE DEF n
<1>16. Stays(n, Landed(n)) /\ Serves(s, n, OtherPages(s))
  BY <1>14, <1>15, LandedStays, ThenStays
<1> QED BY <1>4, <1>16, ThenStays

-----------------------------------------------------------------------------
(* Nothing is lost, duplicated or overtaken in one outbox *)

Distinct(a) == \A i, j \in DOMAIN a : a[i] = a[j] => i = j

\* n is the next id: everything the outbox knows of was minted before.
Ordered(s, n) ==
    /\ IdSeq(s.queue) = Keep(s.accepted, Unanswered(s))
    /\ Distinct(s.accepted)
    /\ \A i \in DOMAIN s.accepted : s.accepted[i] < n
    /\ \A i \in s.answered : i < n
    /\ s.life = "loading" => s.answered = {}

\* Equal marks, equal ids.
LEMMA SameMarksSameIds ==
    ASSUME NEW q \in Seq(Batch), NEW r \in Seq(Batch), Marks(q) = Marks(r)
    PROVE  IdSeq(q) = IdSeq(r)
<1>1. IdSeq(Marks(q)) = IdSeq(q) /\ IdSeq(Marks(r)) = IdSeq(r)
  BY MarksSeq
<1> QED BY <1>1

\* Order is kept when the queue stays ...
LEMMA OrderedStays ==
    ASSUME NEW s \in OutboxType, NEW u \in OutboxType, NEW n, Ordered(s, n), Stays(s, u)
    PROVE  Ordered(u, n)
<1>1. IdSeq(u.queue) = IdSeq(s.queue)
  <2>1. s.queue \in Seq(Batch) /\ u.queue \in Seq(Batch) /\ Marks(u.queue) = Marks(s.queue)
    BY DEF OutboxType, Stays
  <2> QED BY <2>1, SameMarksSameIds
<1>2. Unanswered(u) = Unanswered(s)
  BY DEF Unanswered, Stays
<1> QED BY <1>1, <1>2 DEF Ordered, Stays

\* Ids minted one after the other from n on.
Fresh(bs, n) == \A i \in DOMAIN bs : bs[i].id = n + i - 1

\* ... when it takes in fresh batches at its end ...
LEMMA OrderedGrows ==
    ASSUME NEW s \in OutboxType, NEW u \in OutboxType, NEW n \in Nat, Ordered(s, n),
           NEW bs \in Seq(Batch), Fresh(bs, n), Grows(s, u, bs)
    PROVE  Ordered(u, n + Len(bs))
<1> DEFINE A == s.accepted
           B == IdSeq(bs)
           U == Unanswered(s)
           N == Shifted(DOMAIN B, Len(A))
<1>0. /\ A \in Seq(Ids) /\ B \in Seq(Ids) /\ Len(B) = Len(bs) /\ Len(A) \in Nat /\ Len(bs) \in Nat
      /\ DOMAIN A = 1 .. Len(A) /\ DOMAIN B = 1 .. Len(bs) /\ DOMAIN bs = 1 .. Len(bs)
      /\ \A i \in 1 .. Len(bs) : B[i] = n + i - 1
  <2>1. B \in Seq(Ids) /\ Len(B) = Len(bs) /\ \A i \in 1 .. Len(bs) : B[i] = bs[i].id
    BY IdSeqIs
  <2>2. A \in Seq(Ids)
    BY DEF OutboxType
  <2>3. DOMAIN bs = 1 .. Len(bs) /\ Len(bs) \in Nat
    OBVIOUS
  <2>4. \A i \in 1 .. Len(bs) : bs[i].id = n + i - 1
    BY <2>3 DEF Fresh
  <2> HIDE DEF A, B
  <2>5. Len(A) \in Nat /\ DOMAIN A = 1 .. Len(A) /\ DOMAIN B = 1 .. Len(bs)
    BY <2>1, <2>2
  <2>6. \A i \in 1 .. Len(bs) : B[i] = n + i - 1
    BY <2>1, <2>4
  <2> QED BY <2>1, <2>2, <2>3, <2>5, <2>6
<1>1. /\ s.queue \in Seq(Batch) /\ u.queue \in Seq(Batch) /\ u.accepted = A \o B
      /\ u.answered = s.answered /\ u.life = s.life
  BY DEF OutboxType, Grows
<1>2. IdSeq(u.queue) = IdSeq(s.queue) \o B
  <2>1. s.queue \o bs \in Seq(Batch) /\ Marks(s.queue \o bs) = Marks(s.queue) \o Marks(bs)
    BY <1>1, ConcatParts, MarksConcat
  <2>2. IdSeq(u.queue) = IdSeq(s.queue \o bs)
    BY <1>1, <2>1, SameMarksSameIds DEF Grows
  <2> QED BY <1>1, <2>2, IdSeqConcat
<1> HIDE DEF A, B
<1>3. /\ u.accepted \in Seq(Ids) /\ Len(u.accepted) = Len(A) + Len(bs)
      /\ DOMAIN u.accepted = 1 .. Len(A) + Len(bs)
      /\ \A i \in 1 .. Len(A) : u.accepted[i] = A[i]
      /\ \A i \in 1 .. Len(bs) : u.accepted[Len(A) + i] = B[i]
  <2> DEFINE c == A \o B
  <2>1. /\ c \in Seq(Ids) /\ Len(c) = Len(A) + Len(B)
    BY <1>0, ConcatParts
  <2>2. \A i \in 1 .. Len(B) : c[Len(A) + i] = B[i]
    BY <1>0, ConcatParts
  <2>3. \A i \in 1 .. Len(A) : c[i] = A[i]
    BY <1>0, ConcatParts
  <2> HIDE DEF c
  <2>4. DOMAIN c = 1 .. Len(A) + Len(B)
    BY <2>1
  <2>5. u.accepted = c
    BY <1>1 DEF c
  <2> QED BY <1>0, <2>1, <2>2, <2>3, <2>4, <2>5
<1>4. /\ \A i \in 1 .. Len(A) : A[i] < n /\ A[i] \in Nat
      /\ \A i \in s.answered : i < n /\ i \in Nat
      /\ \A i, j \in 1 .. Len(A) : A[i] = A[j] => i = j
  <2>1. /\ \A i \in 1 .. Len(A) : A[i] < n
        /\ \A i \in s.answered : i < n
        /\ \A i, j \in 1 .. Len(A) : A[i] = A[j] => i = j
    BY <1>0 DEF Ordered, Distinct, A
  <2>2. \A i \in 1 .. Len(A) : A[i] \in Ids
    BY <1>0
  <2>3. s.answered \in SUBSET Ids
    BY DEF OutboxType
  <2>4. \A i \in Ids : i \in Nat
    BY DEF Ids
  <2> QED BY <2>1, <2>2, <2>3, <2>4
<1>5. \A i \in DOMAIN u.accepted :
          \/ i \in 1 .. Len(A)
          \/ \E k \in 1 .. Len(bs) : i = Len(A) + k /\ u.accepted[i] = n + k - 1
  <2> TAKE i \in DOMAIN u.accepted
  <2>1. i \in 1 .. Len(A) + Len(bs)
    BY <1>3
  <2>2. CASE i > Len(A)
    <3>1. i - Len(A) \in 1 .. Len(bs) /\ i = Len(A) + (i - Len(A))
      BY <1>0, <2>1, <2>2
    <3> QED BY <1>0, <1>3, <3>1
  <2> QED BY <1>0, <2>1, <2>2
<1>6. Distinct(u.accepted)
  <2>1. ASSUME NEW i \in DOMAIN u.accepted, NEW j \in DOMAIN u.accepted, u.accepted[i] = u.accepted[j]
        PROVE  i = j
    <3>1. CASE i \in 1 .. Len(A) /\ j \in 1 .. Len(A)
      BY <1>3, <1>4, <2>1, <3>1
    <3>2. ASSUME NEW k \in 1 .. Len(bs), i = Len(A) + k, u.accepted[i] = n + k - 1 PROVE i = j
      <4>1. CASE j \in 1 .. Len(A)
        <5>1. u.accepted[j] < n /\ u.accepted[j] \in Nat
          BY <1>3, <1>4, <4>1
        <5> QED BY <1>0, <2>1, <3>2, <5>1
      <4>2. ASSUME NEW l \in 1 .. Len(bs), j = Len(A) + l, u.accepted[j] = n + l - 1 PROVE i = j
        <5>1. n + k - 1 = n + l - 1 /\ k \in Nat /\ l \in Nat
          BY <1>0, <2>1, <3>2, <4>2
        <5>2. k = l
          BY <5>1
        <5> QED BY <3>2, <4>2, <5>2
      <4> QED BY <1>5, <4>1, <4>2
    <3>3. ASSUME NEW k \in 1 .. Len(bs), j = Len(A) + k, u.accepted[j] = n + k - 1, i \in 1 .. Len(A) PROVE i = j
      <4>1. u.accepted[i] < n /\ u.accepted[i] \in Nat
        BY <1>3, <1>4, <3>3
      <4> QED BY <1>0, <2>1, <3>3, <4>1
    <3> QED BY <1>5, <3>1, <3>2, <3>3
  <2> QED BY <2>1 DEF Distinct
<1>7. Unanswered(u) = U \cup N
  <2>1. ASSUME NEW i \in DOMAIN u.accepted
        PROVE  u.accepted[i] \notin u.answered <=> i \in U \cup N
    <3>1. CASE i \in 1 .. Len(A)
      <4>1. u.accepted[i] = A[i] /\ i \notin N /\ (i \in U <=> A[i] \notin s.answered)
        BY <1>0, <1>3, <3>1 DEF Unanswered, A, Shifted
      <4> QED BY <1>1, <4>1
    <3>2. ASSUME NEW k \in 1 .. Len(bs), i = Len(A) + k, u.accepted[i] = n + k - 1
          PROVE u.accepted[i] \notin u.answered <=> i \in U \cup N
      <4>1. i \in N
        BY <1>0, <3>2 DEF Shifted
      <4>2. u.accepted[i] \notin u.answered
        BY <1>0, <1>1, <1>4, <3>2
      <4> QED BY <4>1, <4>2
    <3> QED BY <1>5, <3>1, <3>2
  <2>2. U \cup N \in SUBSET DOMAIN u.accepted
    <3>1. U \in SUBSET (1 .. Len(A))
      BY <1>0 DEF Unanswered, A
    <3> QED BY <1>0, <1>3, <3>1 DEF Shifted
  <2> HIDE DEF U, N
  <2> QED BY <2>1, <2>2 DEF Unanswered
<1>8. Keep(A \o B, U \cup N) = Keep(A, U) \o B
  <2>1. U \in SUBSET DOMAIN A
    BY DEF Unanswered, A
  <2> DEFINE J == DOMAIN B
  <2>4. A \in Seq(Ids) /\ B \in Seq(Ids) /\ J \in SUBSET DOMAIN B
    BY <1>0
  <2> HIDE DEF U, J
  <2>5. Keep(A \o B, U \cup Shifted(J, Len(A))) = Keep(A, U) \o Keep(B, J)
    <3>1. Joins(A, B, U, J)
      BY <2>1, <2>4, KeepOfConcat
    <3> QED BY <3>1, Zenon DEF Joins
  <2>2. Keep(A \o B, U \cup N) = Keep(A, U) \o Keep(B, DOMAIN B)
    BY <2>5 DEF J
  <2>3. Keep(B, DOMAIN B) = B
    BY <1>0, KeepAll
  <2> QED BY <2>2, <2>3
<1>9. IdSeq(s.queue) = Keep(A, U)
  BY DEF Ordered, A
<1>10. \A i \in DOMAIN u.accepted : u.accepted[i] < n + Len(bs)
  <2> TAKE i \in DOMAIN u.accepted
  <2>1. CASE i \in 1 .. Len(A)
    BY <1>0, <1>3, <1>4, <2>1
  <2>2. ASSUME NEW k \in 1 .. Len(bs), u.accepted[i] = n + k - 1 PROVE u.accepted[i] < n + Len(bs)
    BY <1>0, <2>2
  <2> QED BY <1>5, <2>1, <2>2
<1>11. \A i \in u.answered : i < n + Len(bs)
  BY <1>0, <1>1, <1>4
<1>12. u.life = "loading" => u.answered = {}
  BY <1>1 DEF Ordered
<1> HIDE DEF U, N
<1>13. IdSeq(u.queue) = Keep(u.accepted, Unanswered(u))
  BY <1>1, <1>2, <1>7, <1>8, <1>9
<1> QED BY <1>6, <1>10, <1>11, <1>12, <1>13 DEF Ordered

\* ... and when batches are handed over, whichever they are.
LEMMA OrderedServes ==
    ASSUME NEW s \in OutboxType, NEW u \in OutboxType, NEW n \in Nat, Ordered(s, n),
           NEW J \in SUBSET DOMAIN s.queue, Serves(s, u, J), s.life # "loading"
    PROVE  Ordered(u, n)
<1> DEFINE A == s.accepted
           U == Unanswered(s)
           q == s.queue
           c == Cardinality(U)
<1>1. A \in Seq(Ids) /\ U \in SUBSET DOMAIN A /\ q \in Seq(Batch) /\ u.queue \in Seq(Batch)
  BY DEF OutboxType, Unanswered
<1>2. /\ Marks(q) \in Seq([id : Ids, page : Pages]) /\ DOMAIN Marks(q) = DOMAIN q
      /\ IdSeq(Marks(q)) = IdSeq(q) /\ IdSeq(Marks(u.queue)) = IdSeq(u.queue)
  BY <1>1, MarksSeq
<1>3. IdSeq(u.queue) = Keep(IdSeq(q), J)
  <2> HIDE DEF q
  <2>1. Marks(u.queue) = Keep(Marks(q), J) /\ J \in SUBSET DOMAIN Marks(q)
    BY <1>2 DEF Serves, q
  <2>2. IdSeq(Keep(Marks(q), J)) = Keep(IdSeq(Marks(q)), J)
    BY <1>2, <2>1, IdSeqKeep
  <2> QED BY <1>2, <2>1, <2>2
<1>4. IdSeq(q) = Keep(A, U)
  BY DEF Ordered
<1>5. /\ Len(q) = c /\ c \in Nat
      /\ \A j \in 1 .. c : q[j].id = A[Nth(U, j)]
  <2> HIDE DEF A, U, q
  <2>1. Len(Keep(A, U)) = Cardinality(U) /\ \A j \in 1 .. Cardinality(U) : Keep(A, U)[j] = A[Nth(U, j)]
    BY <1>1, KeepSeq
  <2>2. Cardinality(U) \in Nat
    BY <1>1, KeepNth
  <2>3. Len(IdSeq(q)) = Len(q) /\ \A i \in 1 .. Len(q) : IdSeq(q)[i] = q[i].id
    BY <1>1, IdSeqIs
  <2> QED BY <1>4, <2>1, <2>2, <2>3
<1>6. /\ \A j \in 1 .. c : Nth(U, j) \in U
      /\ \A i, j \in 1 .. c : Nth(U, i) = Nth(U, j) => i = j
      /\ \A k \in U : \E j \in 1 .. c : Nth(U, j) = k
  <2> HIDE DEF A, U
  <2>1. /\ \A j \in 1 .. c : Nth(U, j) \in U
        /\ \A i, j \in 1 .. c : i < j => Nth(U, i) < Nth(U, j)
        /\ \A k \in U : \E j \in 1 .. c : Nth(U, j) = k
    BY <1>1, KeepNth
  <2>2. \A k \in U : k \in Int
    BY <1>1
  <2>3. ASSUME NEW i \in 1 .. c, NEW j \in 1 .. c, Nth(U, i) = Nth(U, j) PROVE i = j
    <3>1. ~(Nth(U, i) < Nth(U, j)) /\ ~(Nth(U, j) < Nth(U, i))
      BY <2>1, <2>2, <2>3
    <3> QED BY <1>5, <2>1, <3>1
  <2> QED BY <2>1, <2>3
<1>7. DOMAIN q = 1 .. c /\ J \in SUBSET (1 .. c)
  <2>1. DOMAIN q = 1 .. Len(q)
    BY <1>1
  <2> QED BY <1>5, <2>1
<1>8. u.answered = s.answered \cup {A[Nth(U, i)] : i \in 1 .. c \ J}
  <2>1. u.answered = s.answered \cup {q[i].id : i \in DOMAIN q \ J}
    BY DEF Serves
  <2> HIDE DEF q, A, U, c
  <2>2. {q[i].id : i \in DOMAIN q \ J} = {A[Nth(U, i)] : i \in 1 .. c \ J}
    BY <1>5, <1>7
  <2> QED BY <2>1, <2>2
<1>9. \A i, j \in DOMAIN A : A[i] = A[j] => i = j
  BY DEF Ordered, Distinct
<1>10. \A i \in DOMAIN A : i \in U <=> A[i] \notin s.answered
  BY DEF Unanswered
<1> HIDE DEF q, A, U, c
<1>11. u.accepted = A /\ u.life = s.life
  BY DEF Serves, A
<1>12. Unanswered(u) = NthOf(U, J)
  <2>1. ASSUME NEW j \in J
        PROVE  Nth(U, j) \in DOMAIN A /\ A[Nth(U, j)] \notin u.answered
    <3>1. j \in 1 .. c /\ Nth(U, j) \in U
      BY <1>6, <1>7
    <3>2. ASSUME NEW i \in 1 .. c \ J, A[Nth(U, j)] = A[Nth(U, i)] PROVE FALSE
      <4>1. Nth(U, i) \in DOMAIN A /\ Nth(U, j) \in DOMAIN A
        BY <1>1, <1>6, <3>1
      <4>2. Nth(U, i) = Nth(U, j)
        BY <1>9, <3>2, <4>1
      <4>3. i = j
        BY <1>6, <3>1, <4>2
      <4> QED BY <4>3
    <3> QED BY <1>1, <1>8, <1>10, <3>1, <3>2
  <2>2. ASSUME NEW k \in DOMAIN A, A[k] \notin u.answered
        PROVE  \E j \in J : k = Nth(U, j)
    <3>1. k \in U
      BY <1>8, <1>10, <2>2
    <3>2. PICK j \in 1 .. c : Nth(U, j) = k
      BY <1>6, <3>1
    <3>3. j \in J
      BY <1>8, <2>2, <3>2
    <3> QED BY <3>2, <3>3
  <2>3. Unanswered(u) = {k \in DOMAIN A : A[k] \notin u.answered}
    BY <1>11 DEF Unanswered
  <2> QED BY <2>1, <2>2, <2>3 DEF NthOf
<1>13. Keep(Keep(A, U), J) = Keep(A, NthOf(U, J))
  <2>1. J \in SUBSET (1 .. Cardinality(U))
    BY <1>7 DEF c
  <2> QED BY <1>1, <2>1, KeepOfKeep
<1>14. IdSeq(u.queue) = Keep(u.accepted, Unanswered(u))
  BY <1>3, <1>4, <1>11, <1>12, <1>13
<1>15. \A i \in u.answered : i < n
  <2>1. \A i \in DOMAIN A : A[i] < n
    BY DEF Ordered, A
  <2>2. \A i \in s.answered : i < n
    BY DEF Ordered
  <2>3. \A j \in 1 .. c : Nth(U, j) \in DOMAIN A
    BY <1>1, <1>6
  <2> QED BY <1>8, <2>1, <2>2, <2>3
<1> QED BY <1>11, <1>14, <1>15 DEF Ordered, A

-----------------------------------------------------------------------------
(* The steps of one outbox *)

Yields(s, u, n, m) ==
    \/ Stays(s, u) /\ m = n
    \/ \E bs \in Seq(Batch) : Grows(s, u, bs) /\ Fresh(bs, n) /\ m = n + Len(bs)
    \/ /\ s.life = "open" /\ s.queue # <<>> /\ m = n
       /\ Serves(s, u, NotHead(s)) \/ Serves(s, u, OtherPages(s))

\* So every effect of a method keeps the order.
LEMMA OrderedEffect ==
    ASSUME NEW s \in OutboxType, NEW u \in OutboxType, NEW n \in Nat, NEW m, Ordered(s, n),
           Yields(s, u, n, m)
    PROVE  Ordered(u, m)
<1>1. CASE Stays(s, u) /\ m = n
  BY <1>1, OrderedStays
<1>2. ASSUME NEW bs \in Seq(Batch), Grows(s, u, bs), Fresh(bs, n), m = n + Len(bs)
      PROVE  Ordered(u, m)
  BY <1>2, OrderedGrows
<1>3. ASSUME NEW J \in SUBSET DOMAIN s.queue, Serves(s, u, J), s.life = "open", m = n
      PROVE  Ordered(u, m)
  BY <1>3, OrderedServes
<1>4. NotHead(s) \in SUBSET DOMAIN s.queue /\ OtherPages(s) \in SUBSET DOMAIN s.queue
  BY DEF NotHead, OtherPages
<1> QED BY <1>1, <1>2, <1>3, <1>4 DEF Yields

\* A closed tab has nothing to do.
Idle(s) ==
    s.life = "closed" => s.queue = <<>> /\ s.held = {} /\ ~s.timer /\ ~s.locked

\* Outbox t takes a step, and only that one.
Works(t) ==
    /\ tab[t].life # "closed" /\ Yields(tab[t], tab'[t], nextId, nextId')
    /\ \A u \in Tabs : u # t => tab'[u] = tab[u]
    /\ store' = store /\ (io' = io \/ io' = FlushTo(io, t))

\* An update with such an effect is a step of that outbox alone.
LEMMA WorksIf ==
    ASSUME IInv, NEW t \in Tabs, NEW s, Update(t, s), tab[t].life # "closed",
           Yields(tab[t], s, nextId, nextId'), store' = store, io' = io \/ io' = FlushTo(io, t)
    PROVE  Works(t)
<1>1. tab'[t] = s /\ \A u \in Tabs : u # t => tab'[u] = tab[u]
  BY DEF Update, IInv, TypeOK
<1> QED BY <1>1 DEF Works

\* Every answer has such an effect.
LEMMA NetworkWorks ==
    ASSUME IInv, NEW t \in Tabs, Network(t)
    PROVE  Works(t)
<1>1. tab[t] \in OutboxType /\ Flying(tab[t])
  BY DEF IInv, Good
<1>2. tab[t].sending # NoBatch
  BY DEF Network, Acked, Conflicted, LockedOut, Rejected, Failed, Answer, InFlight
<1>3. tab[t].life = "open" /\ tab[t].queue # <<>>
  BY <1>1, <1>2 DEF Flying
<1>4. ASSUME NEW s, Answer(t, s), Stays(tab[t], s) \/ Serves(tab[t], s, NotHead(tab[t]))
                                   \/ Serves(tab[t], s, OtherPages(tab[t]))
      PROVE  Works(t)
  <2>1. Update(t, s) /\ nextId' = nextId /\ store' = store /\ io' = io
    BY <1>4 DEF Answer
  <2>2. Yields(tab[t], s, nextId, nextId')
    BY <1>3, <1>4, <2>1 DEF Yields
  <2> QED BY <1>3, <2>1, <2>2, WorksIf
<1>5. ASSUME NEW v \in Versions, Acked(t, v) PROVE Works(t)
  BY <1>1, <1>2, <1>4, <1>5, AckServes DEF Acked
<1>6. ASSUME NEW v \in Versions, Conflicted(t, v) PROVE Works(t)
  BY <1>1, <1>2, <1>4, <1>6, ConflictServes DEF Conflicted
<1>7. LockedOut(t) \/ Rejected(t) \/ Failed(t) => Works(t)
  BY <1>1, <1>2, <1>4, RefusalServes DEF LockedOut, Rejected, Failed
<1> QED BY <1>5, <1>6, <1>7 DEF Network

\* The hook's calls, the timer and the flush.
LEMMA CommitWorks ==
    ASSUME IInv, NEW t \in Tabs, NEW p \in Pages, NEW e \in Edits, NEW v \in Versions,
           Commit(t, p, e, v)
    PROVE  Works(t)
<1> DEFINE b  == [id |-> nextId, page |-> p, base |-> v, edit |-> e]
           bs == <<b>>
<1>1. nextId \in Ids /\ nextId' = nextId + 1
  BY Bounds DEF Commit, IInv, TypeOK, Ids
<1>2. b \in Batch
  BY <1>1 DEF Batch
<1>3. bs \in Seq(Batch) /\ Len(bs) = 1 /\ Fresh(bs, nextId)
  <2>1. b.id = nextId + 1 - 1
    BY <1>1 DEF Ids
  <2> HIDE DEF b
  <2> QED BY <1>2, <2>1 DEF Fresh
<1>4. /\ Update(t, Enqueued(tab[t], bs)) /\ store' = store /\ io' = io
      /\ tab[t].life # "closed"
  BY DEF Commit
<1> HIDE DEF bs
<1>5. tab[t] \in OutboxType
  BY DEF IInv, TypeOK
<1>6. Grows(tab[t], Enqueued(tab[t], bs), bs)
  BY <1>3, <1>5, EnqueuedGrows
<1>7. Yields(tab[t], Enqueued(tab[t], bs), nextId, nextId')
  BY <1>1, <1>3, <1>6 DEF Yields
<1> QED BY <1>4, <1>7, WorksIf

\* So have a timer, a flush, an unlock, a noted version and a failed refetch.
LEMMA QuietWorks ==
    ASSUME IInv, NEW t \in Tabs, Idle(tab[t]),
           \/ Retry(t) \/ Flush(t) \/ Resume(t)
           \/ \E p \in Pages, v \in Versions : NotePage(t, p, v)
           \/ \E h \in tab[t].held : RefetchFailed(t, h)
    PROVE  Works(t)
<1>1. tab[t] \in OutboxType
  BY DEF IInv, TypeOK
<1>2. ASSUME NEW s, Update(t, s), Stays(tab[t], s), tab[t].life # "closed",
             nextId' = nextId, store' = store, io' = io \/ io' = FlushTo(io, t)
      PROVE  Works(t)
  BY <1>2, WorksIf DEF Yields
<1>3. ASSUME Retry(t) PROVE Works(t)
  <2> DEFINE e == [tab[t] EXCEPT !.timer = FALSE]
  <2>1. e \in OutboxType /\ Stays(tab[t], e)
    BY <1>1 DEF OutboxType, Stays
  <2>2. Update(t, Drained(e)) /\ nextId' = nextId /\ store' = store /\ io' = io /\ tab[t].timer
    BY <1>3 DEF Retry
  <2> HIDE DEF e
  <2>3. Stays(tab[t], Drained(e))
    BY <2>1, DrainedStays, ThenStays
  <2>4. tab[t].life # "closed"
    BY <2>2 DEF Idle, NewOutbox
  <2> QED BY <1>2, <2>2, <2>3, <2>4
<1>4. ASSUME Resume(t) PROVE Works(t)
  <2> DEFINE e == [tab[t] EXCEPT !.locked = FALSE]
  <2>1. e \in OutboxType /\ Stays(tab[t], e)
    BY <1>1 DEF OutboxType, Stays
  <2>2. Update(t, Drained(e)) /\ nextId' = nextId /\ store' = store /\ io' = io /\ tab[t].locked
    BY <1>4 DEF Resume
  <2> HIDE DEF e
  <2>3. Stays(tab[t], Drained(e))
    BY <2>1, DrainedStays, ThenStays
  <2>4. tab[t].life # "closed"
    BY <2>2 DEF Idle, NewOutbox
  <2> QED BY <1>2, <2>2, <2>3, <2>4
<1>5. ASSUME Flush(t) PROVE Works(t)
  <2> DEFINE e == [tab[t] EXCEPT !.dirty = FALSE]
  <2>1. Stays(tab[t], e)
    BY <1>1 DEF OutboxType, Stays
  <2>2. Update(t, e) /\ nextId' = nextId /\ store' = store /\ io' = FlushTo(io, t) /\ tab[t].life # "closed"
    BY <1>5 DEF Flush
  <2> QED BY <1>2, <2>1, <2>2
<1>6. ASSUME NEW p \in Pages, NEW v \in Versions, NotePage(t, p, v) PROVE Works(t)
  <2>1. Stays(tab[t], Noted(tab[t], p, v))
    BY <1>1, NotedStays
  <2> QED BY <1>2, <1>6, <2>1 DEF NotePage
<1>7. ASSUME NEW h \in tab[t].held, RefetchFailed(t, h) PROVE Works(t)
  <2> DEFINE e == [tab[t] EXCEPT !.held = @ \ {h}]
  <2>1. Stays(tab[t], e)
    BY <1>1 DEF OutboxType, Stays
  <2>2. Update(t, e) /\ nextId' = nextId /\ store' = store /\ io' = io
    BY <1>7 DEF RefetchFailed
  <2>3. tab[t].life # "closed"
    BY <1>7 DEF Idle, NewOutbox
  <2> QED BY <1>2, <2>1, <2>2, <2>3
<1> QED BY <1>3, <1>4, <1>5, <1>6, <1>7

\* So has a refetch: the batches it requeues are fresh.
LEMMA RefetchedWorks ==
    ASSUME IInv, NEW t \in Tabs, Idle(tab[t]), NEW h \in tab[t].held,
           NEW v \in Versions, NEW K \in SUBSET DOMAIN h.batches, Refetched(t, h, v, K)
    PROVE  Works(t)
<1> DEFINE m == Noted(tab[t], h.page, v)
           n == [m EXCEPT !.held = @ \ {h}]
           kept == Keep(h.batches, K)
           again == Reissued(n, kept)
<1>1. tab[t] \in OutboxType /\ nextId \in 1 .. MaxId + 1
  BY DEF IInv, TypeOK
<1>2. h.page \in Pages /\ h.batches \in Seq(Batch)
  BY <1>1 DEF OutboxType
<1>3. /\ nextId + Len(again) <= MaxId + 1 /\ nextId' = nextId + Len(again)
      /\ Update(t, Enqueued(n, again)) /\ store' = store /\ io' = io
  BY DEF Refetched
<1>4. m \in OutboxType /\ Stays(tab[t], m) /\ m.accepted = tab[t].accepted
  BY <1>1, <1>2, NotedGood, NotedStays
<1> HIDE DEF m
<1>5. n \in OutboxType /\ Stays(m, n)
  BY <1>4 DEF OutboxType, Stays
<1>6. Keep(h.batches, K) \in Seq(Batch)
  BY <1>2, KeepSeq
<1> HIDE DEF n
<1>7. again \in Seq(Batch) /\ Len(again) = Len(kept)
  BY <1>1, <1>3, <1>5, <1>6, ReissuedSeq
<1>8. Fresh(again, nextId)
  <2>1. DOMAIN again = DOMAIN kept
    BY DEF Reissued
  <2>2. \A i \in DOMAIN kept : kept[i] \in Batch
    BY <1>6
  <2> HIDE DEF kept
  <2>3. ASSUME NEW i \in DOMAIN kept PROVE again[i].id = nextId + i - 1
    <3>1. again[i] = [kept[i] EXCEPT !.id = nextId + i - 1,
                                     !.base = IF n.known[kept[i].page] = Unknown
                                              THEN @ ELSE n.known[kept[i].page]]
      BY DEF Reissued
    <3> QED BY <2>2, <3>1 DEF Batch
  <2> QED BY <2>1, <2>3 DEF Fresh
<1> HIDE DEF again
<1>9. Grows(n, Enqueued(n, again), again)
  BY <1>5, <1>7, EnqueuedGrows
<1>10. Grows(tab[t], Enqueued(n, again), again)
  BY <1>4, <1>5, <1>9 DEF Grows, Stays
<1>11. tab[t].life # "closed"
  BY DEF Idle, NewOutbox
<1>12. Yields(tab[t], Enqueued(n, again), nextId, nextId')
  BY <1>3, <1>7, <1>8, <1>10 DEF Yields
<1> QED BY <1>3, <1>11, <1>12, WorksIf

-----------------------------------------------------------------------------
(* The rows on disk, and what a tab typed before they were loaded *)

\* Rows of distinct batches, all minted before n.
SoundRows(rs, n) == Distinct(IdSeq(rs)) /\ \A i \in DOMAIN rs : rs[i].id < n

\* Outbox s took in none of the rows rs.
Apart(s, rs) == \A k \in DOMAIN s.accepted : s.accepted[k] \notin IdsOf(rs)

\* A tab that waits for its load took in nothing that the load can bring:
\* neither a stored row nor one of a write that runs before it.
LoadsFresh(q, rs, tabs) ==
    \A i \in DOMAIN q : q[i].kind = "load" =>
        /\ Apart(tabs[q[i].tab], rs)
        /\ \A j \in 1 .. i - 1 : Apart(tabs[q[i].tab], q[j].rows)

\* Ids are minted upwards, so what was not taken in stays so.
LEMMA EffectMints ==
    ASSUME NEW s \in OutboxType, NEW u \in OutboxType, NEW n \in Nat, NEW m, Yields(s, u, n, m)
    PROVE  /\ m \in Nat /\ n <= m /\ u.life = s.life
           /\ \A rs \in Seq(Batch) : SoundRows(rs, n) /\ Apart(s, rs) => Apart(u, rs)
<1>1. ASSUME NEW bs \in Seq(Batch), Grows(s, u, bs), Fresh(bs, n), m = n + Len(bs)
      PROVE  /\ m \in Nat /\ n <= m /\ u.life = s.life
             /\ \A rs \in Seq(Batch) : SoundRows(rs, n) /\ Apart(s, rs) => Apart(u, rs)
  <2> DEFINE A == s.accepted
             B == IdSeq(bs)
             c == A \o B
  <2>1. A \in Seq(Ids) /\ B \in Seq(Ids) /\ Len(B) = Len(bs) /\ \A i \in 1 .. Len(bs) : B[i] = bs[i].id
    BY IdSeqIs DEF OutboxType
  <2>2. Len(bs) \in Nat /\ DOMAIN bs = 1 .. Len(bs) /\ Len(A) \in Nat /\ DOMAIN A = 1 .. Len(A)
    BY <2>1
  <2>3. \A i \in 1 .. Len(bs) : B[i] = n + i - 1
    BY <1>1, <2>1, <2>2 DEF Fresh
  <2> HIDE DEF A, B
  <2>4. /\ c \in Seq(Ids) /\ Len(c) = Len(A) + Len(bs)
        /\ \A i \in 1 .. Len(A) : c[i] = A[i]
        /\ \A i \in 1 .. Len(bs) : c[Len(A) + i] = B[i]
    <3>1. A \in Seq(Ids) /\ B \in Seq(Ids)
      BY <2>1
    <3>2. /\ c \in Seq(Ids) /\ Len(c) = Len(A) + Len(B)
          /\ \A i \in 1 .. Len(A) : c[i] = A[i]
          /\ \A i \in 1 .. Len(B) : c[Len(A) + i] = B[i]
      BY <3>1, ConcatParts
    <3> HIDE DEF c
    <3> QED BY <2>1, <3>2
  <2>5. u.accepted = c /\ u.life = s.life
    BY <1>1 DEF Grows, A, B
  <2> HIDE DEF c
  <2>6. ASSUME NEW rs \in Seq(Batch), SoundRows(rs, n), Apart(s, rs), NEW k \in DOMAIN c
        PROVE  c[k] \notin IdsOf(rs)
    <3>1. \A i \in DOMAIN rs : rs[i].id < n
      BY <2>6 DEF SoundRows
    <3>2. k \in 1 .. Len(A) + Len(bs)
      BY <2>2, <2>4
    <3>3. CASE k <= Len(A)
      <4>1. k \in DOMAIN A /\ c[k] = A[k]
        BY <2>2, <2>4, <3>2, <3>3
      <4> QED BY <2>6, <4>1 DEF Apart, A
    <3>4. CASE k > Len(A)
      <4>1. PICK i \in 1 .. Len(bs) : k = Len(A) + i
        <5>1. k - Len(A) \in 1 .. Len(bs) /\ k = Len(A) + (k - Len(A))
          BY <2>2, <3>2, <3>4
        <5> QED BY <5>1
      <4>2. c[k] = n + i - 1
        BY <2>3, <2>4, <4>1
      <4>3. ~(c[k] < n)
        BY <2>2, <4>2
      <4> QED BY <3>1, <4>3 DEF IdsOf
    <3> QED BY <2>2, <3>2, <3>3, <3>4
  <2> QED BY <1>1, <2>2, <2>5, <2>6 DEF Apart
<1>2. ASSUME m = n, u.accepted = s.accepted, u.life = s.life
      PROVE  /\ m \in Nat /\ n <= m /\ u.life = s.life
             /\ \A rs \in Seq(Batch) : SoundRows(rs, n) /\ Apart(s, rs) => Apart(u, rs)
  BY <1>2 DEF Apart
<1>3. \/ \E bs \in Seq(Batch) : Grows(s, u, bs) /\ Fresh(bs, n) /\ m = n + Len(bs)
      \/ m = n /\ u.accepted = s.accepted /\ u.life = s.life
  BY DEF Yields, Stays, Serves
<1> QED BY <1>1, <1>2, <1>3

\* Later is as good.
LEMMA Later ==
    ASSUME NEW n \in Nat, NEW m \in Nat, n <= m
    PROVE  /\ \A s \in OutboxType : Ordered(s, n) => Ordered(s, m)
           /\ \A rs \in Seq(Batch) : SoundRows(rs, n) => SoundRows(rs, m)
<1>0. \A i \in Ids : i \in Nat
  BY DEF Ids
<1>1. ASSUME NEW s \in OutboxType, Ordered(s, n) PROVE Ordered(s, m)
  <2>1. s.accepted \in Seq(Ids) /\ s.answered \in SUBSET Ids
    BY DEF OutboxType
  <2>2. \A i \in DOMAIN s.accepted : s.accepted[i] \in Ids
    BY <2>1
  <2>3. /\ \A i \in DOMAIN s.accepted : s.accepted[i] < n
        /\ \A i \in s.answered : i < n
    BY <1>1 DEF Ordered
  <2>4. /\ \A i \in DOMAIN s.accepted : s.accepted[i] < m
        /\ \A i \in s.answered : i < m
    BY <1>0, <2>1, <2>2, <2>3
  <2> QED BY <1>1, <2>4 DEF Ordered
<1>2. ASSUME NEW rs \in Seq(Batch), SoundRows(rs, n) PROVE SoundRows(rs, m)
  <2>1. \A i \in DOMAIN rs : rs[i] \in Batch
    OBVIOUS
  <2>2. \A i \in DOMAIN rs : rs[i].id \in Nat
    BY <1>0, <2>1 DEF Batch
  <2> QED BY <1>2, <2>2 DEF SoundRows
<1> QED BY <1>1, <1>2

\* The queue of an outbox in order is a sound set of rows to write.
LEMMA SoundQueue ==
    ASSUME NEW s \in OutboxType, NEW n \in Nat, Ordered(s, n)
    PROVE  SoundRows(s.queue, n)
<1> DEFINE A == s.accepted
           U == Unanswered(s)
           c == Cardinality(U)
<1>1. A \in Seq(Ids) /\ U \in SUBSET DOMAIN A /\ s.queue \in Seq(Batch)
  BY DEF OutboxType, Unanswered
<1>2. IdSeq(s.queue) = Keep(A, U)
  BY DEF Ordered
<1>3. /\ \A i, j \in DOMAIN A : A[i] = A[j] => i = j
      /\ \A i \in DOMAIN A : A[i] < n
  BY DEF Ordered, Distinct
<1> HIDE DEF A, U
<1>4. /\ c \in Nat /\ \A j \in 1 .. c : Nth(U, j) \in U
      /\ \A i, j \in 1 .. c : i < j => Nth(U, i) < Nth(U, j)
  BY <1>1, KeepNth
<1>5. /\ Keep(A, U) \in Seq(Ids) /\ Len(Keep(A, U)) = c
      /\ \A j \in 1 .. c : Keep(A, U)[j] = A[Nth(U, j)]
  BY <1>1, KeepSeq
<1>6. Len(IdSeq(s.queue)) = Len(s.queue) /\ \A i \in 1 .. Len(s.queue) : IdSeq(s.queue)[i] = s.queue[i].id
  BY <1>1, IdSeqIs
<1>7. DOMAIN s.queue = 1 .. Len(s.queue)
  BY <1>1
<1>8. DOMAIN s.queue = 1 .. c /\ \A i \in 1 .. c : s.queue[i].id = A[Nth(U, i)]
  BY <1>2, <1>5, <1>6, <1>7
<1>9. DOMAIN IdSeq(s.queue) = 1 .. c
  BY <1>2, <1>4, <1>5
<1>10. Distinct(IdSeq(s.queue))
  <2>1. ASSUME NEW i \in 1 .. c, NEW j \in 1 .. c, A[Nth(U, i)] = A[Nth(U, j)]
        PROVE  i = j
    <3>1. Nth(U, i) = Nth(U, j) /\ Nth(U, i) \in Int /\ Nth(U, j) \in Int
      BY <1>1, <1>3, <1>4, <2>1
    <3>2. ~(Nth(U, i) < Nth(U, j)) /\ ~(Nth(U, j) < Nth(U, i))
      BY <3>1
    <3> QED BY <1>4, <3>2
  <2> QED BY <1>2, <1>5, <1>9, <2>1 DEF Distinct
<1>11. \A i \in DOMAIN s.queue : s.queue[i].id < n
  BY <1>1, <1>3, <1>4, <1>8
<1> QED BY <1>10, <1>11 DEF SoundRows

\* init() puts the rows before what was typed, and they have nothing in common.
LEMMA OrderedLoads ==
    ASSUME NEW s \in OutboxType, Good(s), NEW n \in Nat, Ordered(s, n), s.life = "loading",
           NEW rows \in Seq(Batch), SoundRows(rows, n), Apart(s, rows)
    PROVE  LET e == [s EXCEPT !.life = "open", !.queue = rows \o @,
                              !.accepted = IdSeq(rows) \o @]
           IN  e \in OutboxType /\ Ordered(e, n) /\ Ordered(Drained(e), n)
<1> DEFINE A == s.accepted
           R == IdSeq(rows)
           q == rows \o s.queue
           a == R \o A
           e == [s EXCEPT !.life = "open", !.queue = q, !.accepted = a]
<1>1. A \in Seq(Ids) /\ s.queue \in Seq(Batch)
  BY DEF OutboxType
<1>2. /\ R \in Seq(Ids) /\ Len(R) = Len(rows) /\ \A i \in 1 .. Len(rows) : R[i] = rows[i].id
  BY IdSeqIs
<1>3. IdSeq(s.queue) = A
  <2>1. Unanswered(s) = DOMAIN A
    BY DEF Unanswered, Ordered
  <2> HIDE DEF A
  <2>2. IdSeq(s.queue) = Keep(A, DOMAIN A)
    BY <2>1 DEF Ordered, A
  <2>3. Keep(A, DOMAIN A) = A
    BY <1>1, KeepAll
  <2> QED BY <2>2, <2>3
<1>4. q \in Seq(Batch) /\ IdSeq(q) = R \o A
  <2>1. IdSeq(q) = IdSeq(rows) \o IdSeq(s.queue)
    BY <1>1, IdSeqConcat
  <2> QED BY <1>1, <1>3, <2>1, ConcatParts
<1>5. /\ \A i, j \in DOMAIN A : A[i] = A[j] => i = j
      /\ \A i \in DOMAIN A : A[i] < n
      /\ s.answered = {}
  BY DEF Ordered, Distinct
<1>6. /\ \A i, j \in DOMAIN R : R[i] = R[j] => i = j
      /\ \A i \in DOMAIN rows : rows[i].id < n
  BY DEF SoundRows, Distinct
<1>7. \A k \in DOMAIN A : A[k] \notin IdsOf(rows)
  BY DEF Apart
<1>8. /\ Len(rows) \in Nat /\ DOMAIN rows = 1 .. Len(rows) /\ DOMAIN R = 1 .. Len(rows)
      /\ Len(A) \in Nat /\ DOMAIN A = 1 .. Len(A)
  <2> HIDE DEF R, A
  <2> QED BY <1>1, <1>2
<1> HIDE DEF A, R
<1>9. /\ a \in Seq(Ids) /\ Len(a) = Len(rows) + Len(A)
      /\ \A i \in 1 .. Len(rows) : a[i] = R[i]
      /\ \A i \in 1 .. Len(A) : a[Len(rows) + i] = A[i]
  <2>1. R \in Seq(Ids)
    BY <1>2
  <2>2. /\ a \in Seq(Ids) /\ Len(a) = Len(R) + Len(A)
        /\ \A i \in 1 .. Len(R) : a[i] = R[i]
        /\ \A i \in 1 .. Len(A) : a[Len(R) + i] = A[i]
    BY <1>1, <2>1, ConcatParts
  <2> HIDE DEF a
  <2> QED BY <1>2, <2>2
<1> HIDE DEF a, q
<1>10. /\ e \in OutboxType /\ e.queue = q /\ e.accepted = a /\ e.answered = {} /\ e.life = "open"
  BY <1>4, <1>5, <1>9 DEF OutboxType
<1> HIDE DEF e
<1>11. DOMAIN a = 1 .. Len(rows) + Len(A)
  BY <1>9
<1>12. \A k \in DOMAIN a : \/ k \in 1 .. Len(rows) /\ a[k] = R[k] /\ a[k] \in IdsOf(rows)
                           \/ \E i \in 1 .. Len(A) : k = Len(rows) + i /\ a[k] = A[i]
  <2> TAKE k \in DOMAIN a
  <2>1. k \in 1 .. Len(rows) + Len(A)
    BY <1>11
  <2>2. CASE k <= Len(rows)
    <3>1. k \in 1 .. Len(rows)
      BY <1>8, <2>1, <2>2
    <3>2. a[k] = R[k] /\ R[k] = rows[k].id
      BY <1>2, <1>9, <3>1
    <3> QED BY <1>8, <3>1, <3>2 DEF IdsOf
  <2>3. CASE k > Len(rows)
    <3>1. k - Len(rows) \in 1 .. Len(A) /\ k = Len(rows) + (k - Len(rows))
      BY <1>8, <2>1, <2>3
    <3> QED BY <1>9, <3>1
  <2> QED BY <1>8, <2>1, <2>2, <2>3
<1>13. Distinct(a)
  <2>1. ASSUME NEW i \in DOMAIN a, NEW j \in DOMAIN a, a[i] = a[j] PROVE i = j
    <3>1. CASE i \in 1 .. Len(rows) /\ a[i] = R[i] /\ a[i] \in IdsOf(rows)
      <4>1. CASE j \in 1 .. Len(rows) /\ a[j] = R[j]
        BY <1>6, <1>8, <2>1, <3>1, <4>1
      <4>2. ASSUME NEW k \in 1 .. Len(A), a[j] = A[k] PROVE FALSE
        BY <1>7, <1>8, <2>1, <3>1, <4>2
      <4> QED BY <1>12, <4>1, <4>2
    <3>2. ASSUME NEW k \in 1 .. Len(A), i = Len(rows) + k, a[i] = A[k] PROVE i = j
      <4>1. CASE a[j] \in IdsOf(rows)
        BY <1>7, <1>8, <2>1, <3>2, <4>1
      <4>2. ASSUME NEW l \in 1 .. Len(A), j = Len(rows) + l, a[j] = A[l] PROVE i = j
        <5>1. k = l
          BY <1>5, <1>8, <2>1, <3>2, <4>2
        <5> QED BY <3>2, <4>2, <5>1
      <4> QED BY <1>12, <4>1, <4>2
    <3> QED BY <1>12, <3>1, <3>2
  <2> QED BY <2>1 DEF Distinct
<1>14. \A k \in DOMAIN a : a[k] < n
  BY <1>2, <1>5, <1>6, <1>8, <1>12
<1>15. Unanswered(e) = DOMAIN a
  BY <1>10 DEF Unanswered
<1>16. Keep(a, DOMAIN a) = a
  BY <1>9, KeepAll
<1>17. IdSeq(e.queue) = Keep(e.accepted, Unanswered(e))
  BY <1>4, <1>10, <1>15, <1>16 DEF a
<1>18. Ordered(e, n)
  BY <1>10, <1>13, <1>14, <1>17 DEF Ordered
<1>19. Drained(e) \in OutboxType
  BY LoadedGood DEF Good, e, q, a, R, A
<1>20. Ordered(Drained(e), n)
  BY <1>10, <1>18, <1>19, DrainedStays, OrderedStays
<1> QED BY <1>10, <1>18, <1>20 DEF e, q, a, R, A

-----------------------------------------------------------------------------
(* The inductive invariant of the order *)

OrderInv ==
    /\ \A t \in Tabs : Ordered(tab[t], nextId) /\ Idle(tab[t])
    /\ SoundRows(store, nextId)
    /\ \A i \in DOMAIN io : SoundRows(io[i].rows, nextId)
    /\ LoadsFresh(io, store, tab)

\* Every step is a step of one outbox, its birth or death, or the store's.
LEMMA StepKinds ==
    ASSUME IInv, OrderInv, Next
    PROVE  \/ \E t \in Tabs : Works(t) \/ Mount(t) \/ Unmount(t) \/ Crash(t)
           \/ StoreWritten \/ StoreFails \/ Loaded \/ LoadFails
<1>1. \A t \in Tabs : Idle(tab[t])
  BY DEF OrderInv
<1>2. ASSUME NEW t \in Tabs, Hook(t) PROVE Works(t) \/ Mount(t) \/ Unmount(t)
  <2>1. \A p \in Pages, v \in Versions, e \in Edits : Commit(t, p, e, v) => Works(t)
    BY CommitWorks
  <2>2. \A h \in tab[t].held, v \in Versions : \A K \in SUBSET DOMAIN h.batches :
            Refetched(t, h, v, K) => Works(t)
    BY <1>1, RefetchedWorks
  <2>3. \/ Resume(t)
        \/ \E p \in Pages, v \in Versions : NotePage(t, p, v)
        \/ \E h \in tab[t].held : RefetchFailed(t, h)
        => Works(t)
    BY <1>1, QuietWorks
  <2> QED BY <1>2, <2>1, <2>2, <2>3 DEF Hook
<1>3. \A t \in Tabs : Network(t) => Works(t)
  BY NetworkWorks
<1>4. \A t \in Tabs : Retry(t) \/ Flush(t) => Works(t)
  BY <1>1, QuietWorks
<1> QED BY <1>2, <1>3, <1>4 DEF Next

\* The rows of a transaction are a list of batches.
LEMMA IoRows ==
    ASSUME NEW q \in Seq(IoType)
    PROVE  \A i \in DOMAIN q : q[i].rows \in Seq(Batch) /\ q[i].tab \in Tabs
<1>1. \A i \in DOMAIN q : q[i] \in IoType
  OBVIOUS
<1> QED BY <1>1 DEF IoType

\* A transaction issued last runs last.
LEMMA IssueFresh ==
    ASSUME NEW q \in Seq(IoType), NEW x \in IoType, NEW rs, NEW tabs, NEW n,
           LoadsFresh(q, rs, tabs), \A i \in DOMAIN q : SoundRows(q[i].rows, n),
           SoundRows(x.rows, n),
           x.kind = "load" => \A any \in Seq(Batch) : Apart(tabs[x.tab], any), rs \in Seq(Batch)
    PROVE  /\ LoadsFresh(Append(q, x), rs, tabs)
           /\ \A i \in DOMAIN Append(q, x) : SoundRows(Append(q, x)[i].rows, n)
<1>1. /\ DOMAIN q = 1 .. Len(q) /\ Len(q) \in Nat
      /\ DOMAIN Append(q, x) = 1 .. Len(q) + 1
  OBVIOUS
<1>2. \A i \in 1 .. Len(q) + 1 :
          Append(q, x)[i] = IF i = Len(q) + 1 THEN x ELSE q[i]
  OBVIOUS
<1>3. \A i \in DOMAIN q : q[i].rows \in Seq(Batch)
  BY IoRows
<1> DEFINE r == Append(q, x)
<1>4. ASSUME NEW i \in 1 .. Len(q) + 1, r[i].kind = "load"
      PROVE  Apart(tabs[r[i].tab], rs) /\ \A j \in 1 .. i - 1 : Apart(tabs[r[i].tab], r[j].rows)
  <2>1. \A j \in 1 .. i - 1 : j \in DOMAIN q /\ r[j] = q[j]
    BY <1>1, <1>2
  <2> HIDE DEF r
  <2>2. CASE i = Len(q) + 1
    <3>1. r[i] = x
      BY <1>2, <2>2 DEF r
    <3> QED BY <1>3, <1>4, <2>1, <3>1
  <2>3. CASE i # Len(q) + 1
    <3>1. r[i] = q[i] /\ i \in DOMAIN q
      BY <1>1, <1>2, <2>3 DEF r
    <3> QED BY <1>4, <2>1, <3>1 DEF LoadsFresh
  <2> QED BY <2>2, <2>3
<1>5. \A i \in 1 .. Len(q) + 1 : SoundRows(r[i].rows, n)
  BY <1>1, <1>2
<1> HIDE DEF r
<1>6. DOMAIN r = 1 .. Len(q) + 1
  BY <1>1 DEF r
<1>7. LoadsFresh(r, rs, tabs) /\ \A i \in DOMAIN r : SoundRows(r[i].rows, n)
  BY <1>4, <1>5, <1>6 DEF LoadsFresh
<1> QED BY <1>7 DEF r

\* A step of one outbox keeps the order.
LEMMA WorksOrder ==
    ASSUME IInv, IInv', OrderInv, NEW t \in Tabs, Works(t)
    PROVE  OrderInv'
<1> DEFINE n == nextId  m == nextId'
<1>1. /\ n \in Nat /\ tab[t] \in OutboxType /\ tab'[t] \in OutboxType
      /\ store \in Seq(Batch) /\ io \in Seq(IoType)
      /\ \A u \in Tabs : tab[u] \in OutboxType
  BY DEF IInv, TypeOK
<1>2. Yields(tab[t], tab'[t], n, m)
  BY DEF Works
<1>3. /\ m \in Nat /\ n <= m /\ tab'[t].life = tab[t].life
      /\ \A rs \in Seq(Batch) : SoundRows(rs, n) /\ Apart(tab[t], rs) => Apart(tab'[t], rs)
  BY <1>1, <1>2, EffectMints
<1>4. \A u \in Tabs : Ordered(tab'[u], m) /\ Idle(tab'[u])
  <2>1. Ordered(tab[t], n)
    BY DEF OrderInv
  <2>2. Ordered(tab'[t], m)
    BY <1>1, <1>2, <2>1, OrderedEffect
  <2>3. Idle(tab'[t])
    BY <1>3 DEF Works, Idle
  <2>4. \A u \in Tabs : u # t => Ordered(tab[u], m) /\ Idle(tab[u]) /\ tab'[u] = tab[u]
    BY <1>1, <1>3, Later DEF OrderInv, Works
  <2> QED BY <2>2, <2>3, <2>4
<1>5. \A i \in DOMAIN io : io[i].rows \in Seq(Batch) /\ io[i].tab \in Tabs
  BY <1>1, IoRows
<1>6. /\ store' = store /\ SoundRows(store, n)
      /\ \A i \in DOMAIN io : SoundRows(io[i].rows, n)
  BY DEF OrderInv, Works
<1>7. SoundRows(store', m) /\ \A i \in DOMAIN io : SoundRows(io[i].rows, m)
  BY <1>1, <1>3, <1>5, <1>6, Later
<1>8. \A u \in Tabs : u # t => tab'[u] = tab[u]
  BY DEF Works
<1>9. \A u \in Tabs, rs \in Seq(Batch) :
          SoundRows(rs, n) /\ Apart(tab[u], rs) => Apart(tab'[u], rs)
  BY <1>3, <1>8
<1>10. LoadsFresh(io, store, tab')
  <2>1. ASSUME NEW i \in DOMAIN io, io[i].kind = "load"
        PROVE  /\ Apart(tab'[io[i].tab], store)
               /\ \A j \in 1 .. i - 1 : Apart(tab'[io[i].tab], io[j].rows)
    <3>1. /\ Apart(tab[io[i].tab], store)
          /\ \A j \in 1 .. i - 1 : Apart(tab[io[i].tab], io[j].rows)
      BY <2>1 DEF OrderInv, LoadsFresh
    <3>2. \A j \in 1 .. i - 1 : j \in DOMAIN io
      BY <1>1
    <3> QED BY <1>1, <1>5, <1>6, <1>9, <3>1, <3>2
  <2> QED BY <2>1 DEF LoadsFresh
<1>11. ASSUME NEW x \in IoType, x.kind # "load", SoundRows(x.rows, m), io' = Append(io, x)
       PROVE  LoadsFresh(io', store, tab') /\ \A i \in DOMAIN io' : SoundRows(io'[i].rows, m)
  BY <1>1, <1>7, <1>10, <1>11, IssueFresh
<1>12. /\ \A i \in DOMAIN io' : SoundRows(io'[i].rows, m)
       /\ LoadsFresh(io', store, tab')
  <2>1. CASE io' = io
    BY <1>7, <1>10, <2>1
  <2>2. CASE io' = FlushTo(io, t) /\ io' # io
    <3> DEFINE x == Write(t, tab[t].queue)
    <3>1. io' = Append(io, x)
      BY <2>2 DEF FlushTo
    <3>2. tab[t].queue \in Seq(Batch) /\ SoundRows(tab[t].queue, n)
      BY <1>1, SoundQueue DEF OrderInv, OutboxType
    <3>3. SoundRows(tab[t].queue, m)
      BY <1>1, <1>3, <3>2, Later
    <3>4. x \in IoType /\ x.kind # "load" /\ x.rows = tab[t].queue
      BY <3>2 DEF Write, IoType
    <3> HIDE DEF x
    <3> QED BY <1>11, <3>1, <3>3, <3>4
  <2> QED BY <2>1, <2>2 DEF Works
<1> QED BY <1>4, <1>6, <1>7, <1>12 DEF OrderInv

\* A new outbox is in order: it has taken in nothing.
LEMMA NewOrdered ==
    ASSUME NEW life \in {"closed", "loading", "open"}, NEW n \in Nat
    PROVE  /\ Ordered(NewOutbox(life), n)
           /\ \A rs \in Seq(Batch) : Apart(NewOutbox(life), rs)
<1> DEFINE s == NewOutbox(life)
<1>1. s.queue = <<>> /\ s.accepted = <<>> /\ s.answered = {}
  BY DEF NewOutbox
<1>2. <<>> \in Seq(Ids) /\ DOMAIN <<>> = {}
  OBVIOUS
<1> HIDE DEF s
<1>3. IdSeq(s.queue) = <<>>
  BY <1>1, <1>2 DEF IdSeq
<1>4. Keep(s.accepted, Unanswered(s)) = <<>>
  <2>1. Unanswered(s) = DOMAIN s.accepted
    BY <1>1, <1>2 DEF Unanswered
  <2>2. s.accepted \in Seq(Ids)
    BY <1>1, <1>2
  <2>3. Keep(s.accepted, DOMAIN s.accepted) = s.accepted
    BY <2>2, KeepAll
  <2> QED BY <1>1, <2>1, <2>3
<1>5. DOMAIN s.accepted = {}
  BY <1>1, <1>2
<1>6. Ordered(s, n) /\ \A rs \in Seq(Batch) : Apart(s, rs)
  BY <1>1, <1>3, <1>4, <1>5 DEF Ordered, Distinct, Apart
<1> QED BY <1>6 DEF s

\* The initial states are in order.
LEMMA InitOrder == Init => OrderInv
<1>1. SUFFICES ASSUME Init PROVE OrderInv
  OBVIOUS
<1>2. Ordered(NewOutbox("closed"), 1)
  BY NewOrdered
<1>3. SoundRows(<<>>, 1)
  <2>1. DOMAIN <<>> = {} /\ IdSeq(<<>>) = <<>>
    BY DEF IdSeq
  <2> QED BY <2>1 DEF SoundRows, Distinct
<1> QED BY <1>1, <1>2, <1>3 DEF Init, OrderInv, Idle, NewOutbox, LoadsFresh

\* The queue is written behind the transactions that wait.
LEMMA FlushFresh ==
    ASSUME IInv, OrderInv, NEW t \in Tabs
    PROVE  /\ LoadsFresh(FlushTo(io, t), store, tab)
           /\ \A i \in DOMAIN FlushTo(io, t) : SoundRows(FlushTo(io, t)[i].rows, nextId)
<1>1. nextId \in Nat /\ tab[t] \in OutboxType /\ store \in Seq(Batch) /\ io \in Seq(IoType)
  BY DEF IInv, TypeOK
<1> DEFINE x == Write(t, tab[t].queue)
<1>2. tab[t].queue \in Seq(Batch) /\ SoundRows(tab[t].queue, nextId)
  BY <1>1, SoundQueue DEF OrderInv, OutboxType
<1>3. x \in IoType /\ x.kind # "load" /\ x.rows = tab[t].queue
  BY <1>2 DEF Write, IoType
<1>4. FlushTo(io, t) = Append(io, x) \/ FlushTo(io, t) = io
  BY DEF FlushTo
<1> HIDE DEF x
<1>5. /\ LoadsFresh(io, store, tab) /\ \A i \in DOMAIN io : SoundRows(io[i].rows, nextId)
  BY DEF OrderInv
<1>6. /\ LoadsFresh(Append(io, x), store, tab)
      /\ \A i \in DOMAIN Append(io, x) : SoundRows(Append(io, x)[i].rows, nextId)
  BY <1>1, <1>2, <1>3, <1>5, IssueFresh
<1> QED BY <1>4, <1>5, <1>6

\* Dropping transactions leaves the loads that stay as fresh as they were.
LEMMA KeepFresh ==
    ASSUME NEW q \in Seq(IoType), NEW K \in SUBSET DOMAIN q, NEW rs, NEW tabs, NEW tabs2, NEW n,
           LoadsFresh(q, rs, tabs), \A i \in DOMAIN q : SoundRows(q[i].rows, n),
           \A i \in K : q[i].kind = "load" => tabs2[q[i].tab] = tabs[q[i].tab]
    PROVE  /\ LoadsFresh(Keep(q, K), rs, tabs2)
           /\ \A i \in DOMAIN Keep(q, K) : SoundRows(Keep(q, K)[i].rows, n)
<1> DEFINE r == Keep(q, K)
           c == Cardinality(K)
<1>1. r \in Seq(IoType) /\ Len(r) = c /\ \A j \in 1 .. c : r[j] = q[Nth(K, j)]
  BY KeepSeq
<1>2. /\ c \in Nat /\ \A j \in 1 .. c : Nth(K, j) \in K
      /\ \A i, j \in 1 .. c : i < j => Nth(K, i) < Nth(K, j)
  BY KeepNth
<1>3. DOMAIN q = 1 .. Len(q) /\ Len(q) \in Nat
  OBVIOUS
<1> HIDE DEF r, c
<1>4. DOMAIN r = 1 .. c
  BY <1>1, <1>2
<1>5. ASSUME NEW i \in 1 .. c, r[i].kind = "load"
      PROVE  Apart(tabs2[r[i].tab], rs) /\ \A j \in 1 .. i - 1 : Apart(tabs2[r[i].tab], r[j].rows)
  <2>1. r[i] = q[Nth(K, i)] /\ Nth(K, i) \in K /\ Nth(K, i) \in DOMAIN q
    BY <1>1, <1>2
  <2>2. tabs2[r[i].tab] = tabs[r[i].tab]
    BY <1>5, <2>1
  <2>3. /\ Apart(tabs[r[i].tab], rs)
        /\ \A j \in 1 .. Nth(K, i) - 1 : Apart(tabs[r[i].tab], q[j].rows)
    BY <1>5, <2>1 DEF LoadsFresh
  <2>4. ASSUME NEW j \in 1 .. i - 1
        PROVE  r[j] = q[Nth(K, j)] /\ Nth(K, j) \in 1 .. Nth(K, i) - 1
    <3>1. j \in 1 .. c /\ j < i
      BY <1>2
    <3>2. Nth(K, j) < Nth(K, i) /\ Nth(K, j) \in DOMAIN q
      BY <1>2, <3>1
    <3> QED BY <1>1, <1>3, <2>1, <3>1, <3>2
  <2> QED BY <2>2, <2>3, <2>4
<1>6. \A i \in 1 .. c : SoundRows(r[i].rows, n)
  BY <1>1, <1>2
<1> QED BY <1>4, <1>5, <1>6 DEF LoadsFresh, r

\* A tab gets a new outbox, or loses its own.
LEMMA ReplacedOrder ==
    ASSUME IInv, OrderInv, NEW t \in Tabs, NEW life \in {"closed", "loading"},
           Update(t, NewOutbox(life)), UNCHANGED <<store, nextId>>,
           LoadsFresh(io', store, tab'), \A i \in DOMAIN io' : SoundRows(io'[i].rows, nextId)
    PROVE  OrderInv'
<1>1. \A u \in Tabs : tab'[u] = IF u = t THEN NewOutbox(life) ELSE tab[u]
  BY DEF Update, IInv, TypeOK
<1>2. Ordered(NewOutbox(life), nextId) /\ Idle(NewOutbox(life))
  <2>1. nextId \in Nat
    BY DEF IInv, TypeOK
  <2>2. Ordered(NewOutbox(life), nextId)
    BY <2>1, NewOrdered
  <2>3. Idle(NewOutbox(life))
    BY DEF Idle, NewOutbox
  <2> QED BY <2>2, <2>3
<1>3. \A u \in Tabs : Ordered(tab'[u], nextId) /\ Idle(tab'[u])
  BY <1>1, <1>2 DEF OrderInv
<1> QED BY <1>3 DEF OrderInv

\* A new outbox takes in nothing, so its load can bring nothing twice.
LEMMA MountOrder ==
    ASSUME IInv, OrderInv, NEW t \in Tabs, Mount(t)
    PROVE  OrderInv'
<1>1. /\ Update(t, NewOutbox("loading")) /\ io' = Append(io, Load(t))
      /\ UNCHANGED <<store, nextId>> /\ tab[t].life = "closed"
  BY DEF Mount
<1>2. io \in Seq(IoType) /\ nextId \in Nat /\ store \in Seq(Batch)
  BY DEF IInv, TypeOK
<1>3. \A u \in Tabs : tab'[u] = IF u = t THEN NewOutbox("loading") ELSE tab[u]
  BY <1>1 DEF Update, IInv, TypeOK
<1>4. \A i \in DOMAIN io : io[i].rows \in Seq(Batch) /\ io[i].tab \in Tabs
  BY <1>2, IoRows
<1>5. \A i \in DOMAIN io : io[i].kind = "load" => tab'[io[i].tab] = tab[io[i].tab]
  BY <1>1, <1>3, <1>4 DEF IInv, LoadsAwaited
<1>6. LoadsFresh(io, store, tab') /\ \A i \in DOMAIN io : SoundRows(io[i].rows, nextId)
  BY <1>5 DEF OrderInv, LoadsFresh
<1>7. /\ Load(t) \in IoType /\ Load(t).tab = t /\ Load(t).rows = <<>>
  BY DEF Load, IoType
<1>8. SoundRows(<<>>, nextId)
  <2>1. DOMAIN <<>> = {} /\ IdSeq(<<>>) = <<>>
    BY DEF IdSeq
  <2> QED BY <2>1 DEF SoundRows, Distinct
<1>9. \A any \in Seq(Batch) : Apart(tab'[t], any)
  BY <1>2, <1>3, NewOrdered
<1>10. /\ LoadsFresh(io', store, tab')
       /\ \A i \in DOMAIN io' : SoundRows(io'[i].rows, nextId)
  <2> DEFINE x == Load(t)
  <2>1. x \in IoType /\ SoundRows(x.rows, nextId) /\ \A any \in Seq(Batch) : Apart(tab'[x.tab], any)
    BY <1>7, <1>8, <1>9
  <2> HIDE DEF x
  <2>2. /\ LoadsFresh(Append(io, x), store, tab')
        /\ \A i \in DOMAIN Append(io, x) : SoundRows(Append(io, x)[i].rows, nextId)
    BY <1>2, <1>6, <2>1, IssueFresh
  <2> QED BY <1>1, <2>2 DEF x
<1> QED BY <1>1, <1>10, ReplacedOrder

\* An outbox that goes leaves the others in order.
LEMMA LeaveOrder ==
    ASSUME IInv, OrderInv, NEW t \in Tabs, Unmount(t) \/ Crash(t)
    PROVE  OrderInv'
<1>1. Update(t, NewOutbox("closed")) /\ UNCHANGED <<store, nextId>>
  BY DEF Unmount, Crash
<1>2. \A u \in Tabs : u # t => tab'[u] = tab[u]
  BY <1>1 DEF Update, IInv, TypeOK
<1>3. ASSUME NEW q \in Seq(IoType), LoadsFresh(q, store, tab),
             \A i \in DOMAIN q : SoundRows(q[i].rows, nextId),
             NEW K \in SUBSET DOMAIN q, \A i \in K : q[i].kind = "load" => q[i].tab # t,
             io' = Keep(q, K)
      PROVE  OrderInv'
  <2>1. \A i \in K : q[i].tab \in Tabs
    BY <1>3, IoRows
  <2>2. \A i \in K : q[i].kind = "load" => tab'[q[i].tab] = tab[q[i].tab]
    BY <1>2, <1>3, <2>1
  <2>3. LoadsFresh(io', store, tab') /\ \A i \in DOMAIN io' : SoundRows(io'[i].rows, nextId)
    BY <1>3, <2>2, KeepFresh
  <2> QED BY <1>1, <2>3, ReplacedOrder
<1>4. CASE Unmount(t)
  <2> DEFINE q == FlushTo(io, t)
             K == {i \in DOMAIN q : ~(q[i].kind = "load" /\ q[i].tab = t)}
  <2>1. io' = Keep(q, K)
    BY <1>4 DEF Unmount, IoWithout
  <2>2. q \in Seq(IoType)
    BY FlushAwaited
  <2>3. LoadsFresh(q, store, tab) /\ \A i \in DOMAIN q : SoundRows(q[i].rows, nextId)
    BY FlushFresh
  <2> HIDE DEF q
  <2> QED BY <1>3, <2>1, <2>2, <2>3
<1>5. CASE Crash(t)
  <2> DEFINE K == {i \in DOMAIN io : ~(io[i].tab = t)}
  <2>1. io' = Keep(io, K)
    BY <1>5 DEF Crash, IoWithout
  <2>2. io \in Seq(IoType)
    BY DEF IInv, TypeOK
  <2> QED BY <1>3, <2>1, <2>2 DEF OrderInv
<1> QED BY <1>4, <1>5

\* The oldest transaction runs; the loads behind it may bring what it wrote.
LEMMA RunFresh ==
    ASSUME NEW q \in Seq(IoType), q # <<>>, NEW rs, NEW tabs, NEW n, LoadsFresh(q, rs, tabs),
           \A i \in DOMAIN q : SoundRows(q[i].rows, n)
    PROVE  /\ LoadsFresh(Tail(q), rs, tabs) /\ LoadsFresh(Tail(q), Head(q).rows, tabs)
           /\ \A i \in DOMAIN Tail(q) : SoundRows(Tail(q)[i].rows, n)
           /\ SoundRows(Head(q).rows, n)
           /\ Head(q).kind = "load" => Apart(tabs[Head(q).tab], rs)
<1>1. /\ Head(q) \in IoType /\ Tail(q) \in Seq(IoType) /\ Len(Tail(q)) = Len(q) - 1
      /\ \A i \in 1 .. Len(Tail(q)) : Tail(q)[i] = q[i + 1]
  BY HeadTailProperties
<1>2. /\ Len(q) \in Nat \ {0} /\ DOMAIN q = 1 .. Len(q)
      /\ DOMAIN Tail(q) = 1 .. Len(q) - 1 /\ Head(q) = q[1]
  BY <1>1, EmptySeq
<1> DEFINE r == Tail(q)
<1>3. \A i \in DOMAIN r : i + 1 \in DOMAIN q /\ r[i] = q[i + 1]
  BY <1>1, <1>2
<1>4. ASSUME NEW i \in DOMAIN r, r[i].kind = "load"
      PROVE  /\ Apart(tabs[r[i].tab], rs) /\ Apart(tabs[r[i].tab], Head(q).rows)
             /\ \A j \in 1 .. i - 1 : Apart(tabs[r[i].tab], r[j].rows)
  <2>1. /\ Apart(tabs[r[i].tab], rs)
        /\ \A j \in 1 .. (i + 1) - 1 : Apart(tabs[r[i].tab], q[j].rows)
    BY <1>3, <1>4 DEF LoadsFresh
  <2>2. i \in Nat \ {0} /\ i \in 1 .. Len(q) - 1
    BY <1>2
  <2>3. 1 \in 1 .. (i + 1) - 1
    BY <2>2
  <2>4. ASSUME NEW j \in 1 .. i - 1 PROVE j + 1 \in 1 .. (i + 1) - 1 /\ r[j] = q[j + 1]
    BY <1>2, <1>3, <2>2
  <2> HIDE DEF r
  <2> QED BY <1>2, <2>1, <2>3, <2>4
<1>5. \A i \in DOMAIN r : SoundRows(r[i].rows, n)
  BY <1>3
<1>6. 1 \in DOMAIN q
  BY <1>2
<1> HIDE DEF r
<1>7. LoadsFresh(r, rs, tabs) /\ LoadsFresh(r, Head(q).rows, tabs)
  BY <1>4 DEF LoadsFresh
<1> QED BY <1>2, <1>5, <1>6, <1>7 DEF LoadsFresh, r

\* A write brings sound rows.
LEMMA StoreOrder ==
    ASSUME IInv, OrderInv, StoreWritten
    PROVE  OrderInv'
<1>1. io \in Seq(IoType) /\ io # <<>>
  BY DEF IInv, TypeOK, StoreWritten
<1>2. store' = Head(io).rows /\ io' = Tail(io) /\ UNCHANGED <<tab, nextId>>
  BY DEF StoreWritten
<1>3. /\ LoadsFresh(Tail(io), Head(io).rows, tab)
      /\ \A i \in DOMAIN Tail(io) : SoundRows(Tail(io)[i].rows, nextId)
      /\ SoundRows(Head(io).rows, nextId)
  BY <1>1, RunFresh DEF OrderInv
<1> QED BY <1>2, <1>3 DEF OrderInv

\* A transaction that fails is gone.
LEMMA FailOrder ==
    ASSUME IInv, OrderInv, StoreFails \/ LoadFails
    PROVE  OrderInv'
<1>1. io \in Seq(IoType) /\ io # <<>>
  BY DEF IInv, TypeOK, StoreFails, LoadFails
<1>2. io' = Tail(io) /\ UNCHANGED <<tab, store, nextId>>
  BY DEF StoreFails, LoadFails
<1>3. /\ LoadsFresh(Tail(io), store, tab)
      /\ \A i \in DOMAIN Tail(io) : SoundRows(Tail(io)[i].rows, nextId)
  BY <1>1, RunFresh DEF OrderInv
<1> QED BY <1>2, <1>3 DEF OrderInv

\* A load puts the stored rows before what was typed.
LEMMA LoadedOrder ==
    ASSUME IInv, OrderInv, Loaded
    PROVE  OrderInv'
<1> DEFINE t == Head(io).tab
           e == [tab[t] EXCEPT !.life = "open", !.queue = store \o @,
                               !.accepted = IdSeq(store) \o @]
<1>1. io \in Seq(IoType) /\ LoadsAwaited(io, tab) /\ io # <<>> /\ Head(io).kind = "load"
  BY DEF IInv, TypeOK, Loaded
<1>2. /\ Head(io) \in IoType /\ Tail(io) \in Seq(IoType)
      /\ tab[t].life = "loading"
      /\ \A i \in DOMAIN Tail(io) : Tail(io)[i].kind = "load" => Tail(io)[i].tab # t
  BY <1>1, RunAwaited
<1>3. t \in Tabs
  BY <1>2 DEF IoType
<1>4. /\ Good(tab[t]) /\ tab[t] \in OutboxType /\ store \in Seq(Batch)
      /\ nextId \in Nat /\ Ordered(tab[t], nextId) /\ SoundRows(store, nextId)
  BY <1>3 DEF IInv, Good, TypeOK, OrderInv
<1>5. /\ LoadsFresh(Tail(io), store, tab)
      /\ \A i \in DOMAIN Tail(io) : SoundRows(Tail(io)[i].rows, nextId)
      /\ Apart(tab[t], store)
  BY <1>1, RunFresh DEF OrderInv
<1>6. Ordered(Drained(e), nextId)
  BY <1>2, <1>4, <1>5, OrderedLoads
<1>7. Drained(e).life = "open"
  BY <1>2, <1>4, LoadedGood
<1>8. tab' = [tab EXCEPT ![t] = Drained(e)] /\ io' = Tail(io) /\ UNCHANGED <<store, nextId>>
  BY DEF Loaded, Update
<1> HIDE DEF e
<1>9. tab \in [Tabs -> OutboxType]
  BY DEF IInv, TypeOK
<1> HIDE DEF t
<1>10. \A u \in Tabs : tab'[u] = IF u = t THEN Drained(e) ELSE tab[u]
  BY <1>3, <1>8, <1>9
<1>11. \A u \in Tabs : Ordered(tab'[u], nextId) /\ Idle(tab'[u])
  BY <1>6, <1>7, <1>10 DEF OrderInv, Idle
<1>12. \A i \in DOMAIN Tail(io) : Tail(io)[i].tab \in Tabs
  BY <1>2, IoRows
<1>13. LoadsFresh(io', store, tab')
  BY <1>2, <1>5, <1>8, <1>10, <1>12 DEF LoadsFresh
<1> QED BY <1>4, <1>5, <1>8, <1>11, <1>13 DEF OrderInv

\* Every step keeps the order.
LEMMA NextOrder == IInv /\ OrderInv /\ IInv' /\ [Next]_vars => OrderInv'
<1>1. SUFFICES ASSUME IInv, OrderInv, IInv', [Next]_vars PROVE OrderInv'
  OBVIOUS
<1>2. CASE UNCHANGED vars
  BY <1>1, <1>2 DEF vars, OrderInv, LoadsFresh
<1>3. CASE Next
  BY <1>1, <1>3, StepKinds, WorksOrder, MountOrder, LeaveOrder, StoreOrder, FailOrder,
     LoadedOrder
<1> QED BY <1>1, <1>2, <1>3

\* In every tab, whatever it loads, types, sends, is refused and requeues,
\* the queue is what it took in and has not handed to a callback, in the
\* order it took it in: no batch is lost, doubled or overtaken.
THEOREM QueuesInOrder == Spec => []QueueIsUnanswered
<1>1. OrderInv => QueueIsUnanswered
  BY DEF OrderInv, Ordered, QueueIsUnanswered
<1>2. Spec => [](IInv /\ OrderInv)
  BY InitIInv, InitOrder, NextIInv, NextOrder, PTL DEF Spec
<1> QED BY <1>1, <1>2, PTL

-----------------------------------------------------------------------------
(* The outbox is an ordered delivery line *)

Lines == [t \in Tabs |-> Marks(tab[t].queue)]
Ups   == [t \in Tabs |-> tab[t].life # "closed"]

\* One line at a time changes.
OnlyLine(t) ==
    /\ Lines' = [Lines EXCEPT ![t] = Lines'[t]]
    /\ (tab'[t].life = "closed" <=> tab[t].life = "closed") => Ups' = Ups

\* What may become of line m of a client that is up: longer, or served.
Mark == [id : Ids, page : Pages]
Advances(m, k) ==
    \/ k \in Seq(Mark) /\ \E n \in 0 .. Len(k) : SubSeq(k, 1, n) = m
    \/ k \in Seq(Mark) /\ \E n \in 0 .. Len(k) : SubSeq(k, n + 1, Len(k)) = m
    \/ m # <<>> /\ k = Tail(m)
    \/ m # <<>> /\ k = Keep(m, {i \in DOMAIN m : m[i].page # Head(m).page})

\* If only one outbox changes, only its line does.
LEMMA OneLine ==
    ASSUME NEW t \in Tabs, \A u \in Tabs : u # t => tab'[u] = tab[u]
    PROVE  /\ Lines' = [u \in Tabs |-> IF u = t THEN Marks(tab'[t].queue) ELSE Lines[u]]
           /\ Ups' = [u \in Tabs |-> IF u = t THEN tab'[t].life # "closed" ELSE Ups[u]]
           /\ OnlyLine(t)
<1>1. Lines' = [u \in Tabs |-> IF u = t THEN Marks(tab'[t].queue) ELSE Lines[u]]
  BY DEF Lines
<1>2. Ups' = [u \in Tabs |-> IF u = t THEN tab'[t].life # "closed" ELSE Ups[u]]
  BY Zenon DEF Ups
<1>3. Lines' = [Lines EXCEPT ![t] = Lines'[t]]
  BY <1>1 DEF Lines
<1>4. ASSUME tab'[t].life = "closed" <=> tab[t].life = "closed" PROVE Ups' = Ups
  <2>1. \A u \in Tabs : (tab'[u].life # "closed") = (tab[u].life # "closed")
    BY <1>4, Zenon
  <2> QED BY <2>1, Zenon DEF Ups
<1> QED BY <1>1, <1>2, <1>3, <1>4 DEF OnlyLine

\* An abstract step, with the concrete values put in.
LEMMA LineSteps ==
    ASSUME NEW t \in Tabs, OnlyLine(t), tab[t].life # "closed", tab'[t].life # "closed",
           Advances(Marks(tab[t].queue), Marks(tab'[t].queue))
    PROVE  Line!Next
<1> DEFINE m == Marks(tab[t].queue)
           k == Marks(tab'[t].queue)
<1>1. Lines[t] = m /\ Lines'[t] = k /\ Ups[t] = (tab[t].life # "closed")
  BY DEF Lines, Ups
<1>2. Lines' = [Lines EXCEPT ![t] = k] /\ Ups' = Ups
  BY <1>1, Zenon DEF OnlyLine
<1>3. Line!Become(t, Lines'[t]) /\ Line!Become(t, k)
  BY <1>1, <1>2 DEF Line!Become, Lines, Ups, Marks
<1>4. \/ /\ Ups[t] /\ Lines'[t] \in Seq([id : Ids, page : Pages])
         /\ \/ \E n \in 0 .. Len(Lines'[t]) : SubSeq(Lines'[t], 1, n) = Lines[t]
            \/ \E n \in 0 .. Len(Lines'[t]) : SubSeq(Lines'[t], n + 1, Len(Lines'[t])) = Lines[t]
      \/ Lines[t] # <<>> /\ k = Tail(Lines[t])
      \/ /\ Lines[t] # <<>>
         /\ k = Keep(Lines[t], {i \in DOMAIN Lines[t] : Lines[t][i].page # Head(Lines[t]).page})
  BY <1>1 DEF Advances, Mark
<1> HIDE DEF k
<1>5. ASSUME Ups[t], Lines'[t] \in Seq([id : Ids, page : Pages]),
             \E n \in 0 .. Len(Lines'[t]) : SubSeq(Lines'[t], 1, n) = Lines[t]
      PROVE  Line!Grow(t)
  BY <1>3, <1>5, Zenon DEF Line!Grow, Lines, Ups, Marks
<1>6. ASSUME Ups[t], Lines'[t] \in Seq([id : Ids, page : Pages]),
             \E n \in 0 .. Len(Lines'[t]) : SubSeq(Lines'[t], n + 1, Len(Lines'[t])) = Lines[t]
      PROVE  Line!Recover(t)
  BY <1>3, <1>6, Zenon DEF Line!Recover, Lines, Ups, Marks
<1>7. ASSUME Lines[t] # <<>>, k = Tail(Lines[t])
      PROVE  Line!ServeHead(t)
  <2>1. Lines' = [Lines EXCEPT ![t] = Tail(Lines[t])] /\ Ups' = Ups
    BY <1>2, <1>7
  <2> QED BY <1>7, <2>1, Zenon DEF Line!ServeHead, Line!Become, Lines, Ups, Marks
<1>8. ASSUME Lines[t] # <<>>,
             k = Keep(Lines[t], {i \in DOMAIN Lines[t] : Lines[t][i].page # Head(Lines[t]).page})
      PROVE  Line!RefusePage(t)
  <2> DEFINE J == {i \in DOMAIN Lines[t] : Lines[t][i].page # Head(Lines[t]).page}
             r == Line!Keep(Lines[t], J)
  <2>1. Keep(Lines[t], J) = r
    BY Zenon DEF Keep, Nth, Line!Keep, Line!Nth, Cardinality, Line!Cardinality
  <2>2. k = r
    BY <1>8, <2>1
  <2> HIDE DEF r
  <2>3. Lines' = [Lines EXCEPT ![t] = r] /\ Ups' = Ups
    BY <1>2, <2>2
  <2> QED BY <1>8, <2>3, Zenon DEF Line!RefusePage, Line!Become, Lines, Ups, Marks, r
<1> QED BY <1>4, <1>5, <1>6, <1>7, <1>8, Zenon DEF Line!Next

\* A list put behind another, or before it, leaves that one as it was.
LEMMA ConcatAdvances ==
    ASSUME NEW q \in Seq(Mark), NEW r \in Seq(Mark)
    PROVE  Advances(q, q \o r) /\ Advances(r, q \o r)
<1> DEFINE k == q \o r
<1>1. /\ k \in Seq(Mark) /\ Len(k) = Len(q) + Len(r)
      /\ \A i \in 1 .. Len(q) : k[i] = q[i]
      /\ \A i \in 1 .. Len(r) : k[Len(q) + i] = r[i]
  BY ConcatParts
<1>2. PICK a \in Nat, b \in Nat : a = Len(q) /\ b = Len(r)
  OBVIOUS
<1> HIDE DEF k
<1>3. \A i \in 1 .. a + b : k[i] \in Mark
  BY <1>1, <1>2
<1>4. SubSeq(k, 1, a) = q
  <2> DEFINE u == SubSeq(k, 1, a)
  <2>1. \A i \in 1 .. a : k[i] \in Mark
    BY <1>3
  <2>2. /\ u \in Seq(Mark) /\ Len(u) = IF 1 <= a THEN a - 1 + 1 ELSE 0
        /\ \A i \in 1 .. a - 1 + 1 : u[i] = k[1 + i - 1]
    BY <2>1, SubSeqProperties
  <2> HIDE DEF u
  <2>3. Len(u) = a /\ \A i \in 1 .. a : u[i] = q[i]
    BY <1>1, <1>2, <2>2
  <2>4. u = q
    BY <1>2, <2>2, <2>3, SeqEqual
  <2> QED BY <2>4 DEF u
<1>5. SubSeq(k, a + 1, a + b) = r
  <2> DEFINE u == SubSeq(k, a + 1, a + b)
  <2>1. \A i \in a + 1 .. a + b : k[i] \in Mark
    BY <1>3
  <2>2. /\ u \in Seq(Mark) /\ Len(u) = IF a + 1 <= a + b THEN a + b - (a + 1) + 1 ELSE 0
        /\ \A i \in 1 .. a + b - (a + 1) + 1 : u[i] = k[a + 1 + i - 1]
    BY <2>1, SubSeqProperties
  <2> HIDE DEF u
  <2>a. Len(u) = b /\ \A i \in 1 .. b : u[i] = k[a + i]
    <3>1. a + b - (a + 1) + 1 = b /\ \A i \in 1 .. b : a + 1 + i - 1 = a + i
      BY <1>2
    <3>2. \A i \in 1 .. b : u[i] = k[a + i]
      BY <2>2, <3>1
    <3>3. Len(u) = b
      BY <1>2, <2>2
    <3> QED BY <3>2, <3>3
  <2>3. Len(u) = b /\ \A i \in 1 .. b : u[i] = r[i]
    BY <1>1, <1>2, <2>a
  <2>4. u = r
    BY <1>2, <2>2, <2>3, SeqEqual
  <2> QED BY <2>4 DEF u
<1>6. a \in 0 .. Len(k) /\ Len(k) = a + b
  BY <1>1, <1>2
<1> QED BY <1>1, <1>4, <1>5, <1>6 DEF Advances, k

\* What one outbox does to its queue is what its line may do.
LEMMA EffectAdvances ==
    ASSUME NEW s \in OutboxType, NEW u \in OutboxType, NEW n, NEW m, Yields(s, u, n, m)
    PROVE  /\ u.life = s.life
           /\ Marks(u.queue) = Marks(s.queue) \/ Advances(Marks(s.queue), Marks(u.queue))
<1> DEFINE a == Marks(s.queue)
           z == Marks(u.queue)
<1>1. /\ s.queue \in Seq(Batch) /\ a \in Seq(Mark) /\ DOMAIN a = DOMAIN s.queue
      /\ Len(a) = Len(s.queue) /\ \A i \in DOMAIN s.queue : a[i] = Entry(s.queue[i])
  <2>1. s.queue \in Seq(Batch)
    BY DEF OutboxType
  <2> QED BY <2>1, MarksSeq DEF Mark
<1>2. u.life = s.life
  BY DEF Yields, Stays, Grows, Serves
<1>3. ASSUME NEW bs \in Seq(Batch), Grows(s, u, bs)
      PROVE  Advances(a, z)
  <2>1. z = a \o Marks(bs) /\ Marks(bs) \in Seq(Mark)
    BY <1>3, MarksSeq DEF Grows, Mark
  <2> QED BY <1>1, <2>1, ConcatAdvances
<1>4. ASSUME s.queue # <<>>
      PROVE  /\ a # <<>> /\ Keep(a, NotHead(s)) = Tail(a)
             /\ OtherPages(s) = {i \in DOMAIN a : a[i].page # Head(a).page}
  <2>1. a # <<>>
    BY <1>1, <1>4, EmptySeq
  <2>2. Keep(a, NotHead(s)) = Tail(a)
    BY <1>1, <2>1, KeepTail DEF NotHead
  <2>3. 1 \in DOMAIN s.queue /\ Head(a) = a[1] /\ Head(s.queue) = s.queue[1]
    <3>1. Len(s.queue) \in Nat \ {0}
      BY <1>1, <1>4, EmptySeq
    <3> HIDE DEF a
    <3> QED BY <1>1, <2>1, <3>1
  <2>4. \A i \in DOMAIN s.queue : a[i].page = s.queue[i].page
    <3>1. \A b : Entry(b).page = b.page
      BY DEF Entry
    <3> HIDE DEF a
    <3> QED BY <1>1, <3>1
  <2>5. Head(a).page = Head(s.queue).page
    BY <2>3, <2>4
  <2> HIDE DEF a
  <2>6. OtherPages(s) = {i \in DOMAIN a : a[i].page # Head(a).page}
    BY <1>1, <2>4, <2>5 DEF OtherPages
  <2> QED BY <2>1, <2>2, <2>6
<1>5. CASE s.queue # <<>> /\ (Serves(s, u, NotHead(s)) \/ Serves(s, u, OtherPages(s)))
  <2>1. z = Keep(a, NotHead(s)) \/ z = Keep(a, OtherPages(s))
    BY <1>5 DEF Serves
  <2> HIDE DEF a, z
  <2> QED BY <1>2, <1>4, <1>5, <2>1 DEF Advances, a, z
<1>6. CASE Stays(s, u)
  BY <1>2, <1>6 DEF Stays
<1> HIDE DEF a, z
<1> QED BY <1>2, <1>3, <1>5, <1>6 DEF Yields, a, z

\* A load puts what was stored before the line.
LEMMA LoadAdvances ==
    ASSUME NEW s \in OutboxType, NEW rows \in Seq(Batch)
    PROVE  LET e == [s EXCEPT !.life = "open", !.queue = rows \o @,
                              !.accepted = IdSeq(rows) \o @]
           IN  e \in OutboxType => Advances(Marks(s.queue), Marks(Drained(e).queue))
<1> DEFINE e == [s EXCEPT !.life = "open", !.queue = rows \o @,
                          !.accepted = IdSeq(rows) \o @]
<1>1. s.queue \in Seq(Batch) /\ e.queue = rows \o s.queue
  BY DEF OutboxType
<1>2. Marks(e.queue) = Marks(rows) \o Marks(s.queue)
  BY <1>1, MarksConcat
<1>3. Marks(rows) \in Seq(Mark) /\ Marks(s.queue) \in Seq(Mark)
  BY <1>1, MarksSeq DEF Mark
<1>4. Advances(Marks(s.queue), Marks(e.queue))
  BY <1>2, <1>3, ConcatAdvances
<1> HIDE DEF e
<1>5. e \in OutboxType => Marks(Drained(e).queue) = Marks(e.queue)
  BY DrainedStays DEF Stays
<1> QED BY <1>4, <1>5 DEF e

\* A new outbox has an empty line.
LEMMA NewLine ==
    ASSUME NEW life \in {"closed", "loading", "open"}
    PROVE  Marks(NewOutbox(life).queue) = <<>> /\ NewOutbox(life).life = life
BY DEF Marks, NewOutbox

\* Every step of the program is a step of the delivery line or none.
LEMMA LineNext ==
    IInv /\ OrderInv /\ IInv' /\ [Next]_vars => Line!Next \/ (Lines' = Lines /\ Ups' = Ups)
<1>1. SUFFICES ASSUME IInv, OrderInv, IInv', [Next]_vars
               PROVE  Line!Next \/ (Lines' = Lines /\ Ups' = Ups)
  OBVIOUS
<1>2. \A t \in Tabs : tab[t] \in OutboxType /\ tab'[t] \in OutboxType /\ Idle(tab[t])
  BY <1>1 DEF IInv, TypeOK, OrderInv
<1>3. ASSUME tab' = tab PROVE Lines' = Lines /\ Ups' = Ups
  BY <1>3 DEF Lines, Ups
<1>4. ASSUME NEW t \in Tabs, NEW s, Update(t, s)
      PROVE  tab'[t] = s /\ \A u \in Tabs : u # t => tab'[u] = tab[u]
  BY <1>1, <1>4 DEF Update, IInv, TypeOK
<1>5. ASSUME NEW t \in Tabs, Works(t) PROVE Line!Next \/ (Lines' = Lines /\ Ups' = Ups)
  <2>1. /\ tab[t].life # "closed" /\ Yields(tab[t], tab'[t], nextId, nextId')
        /\ \A u \in Tabs : u # t => tab'[u] = tab[u]
    BY <1>5 DEF Works
  <2>2. /\ tab'[t].life = tab[t].life
        /\ \/ Marks(tab'[t].queue) = Marks(tab[t].queue)
           \/ Advances(Marks(tab[t].queue), Marks(tab'[t].queue))
    BY <1>2, <2>1, EffectAdvances
  <2>3. /\ Lines' = [u \in Tabs |-> IF u = t THEN Marks(tab'[t].queue) ELSE Lines[u]]
        /\ OnlyLine(t)
    BY <2>1, OneLine
  <2>4. CASE Marks(tab'[t].queue) = Marks(tab[t].queue)
    <3>1. Lines' = Lines
      BY <2>3, <2>4 DEF Lines
    <3> QED BY <2>2, <2>3, <3>1, Zenon DEF OnlyLine
  <2>5. CASE Advances(Marks(tab[t].queue), Marks(tab'[t].queue))
    BY <2>1, <2>2, <2>3, <2>5, LineSteps
  <2> QED BY <2>2, <2>4, <2>5
<1>6. ASSUME NEW t \in Tabs, Mount(t) PROVE Line!Next
  <2>1. tab[t].life = "closed" /\ Update(t, NewOutbox("loading"))
    BY <1>6 DEF Mount
  <2>2. tab'[t] = NewOutbox("loading") /\ \A u \in Tabs : u # t => tab'[u] = tab[u]
    BY <1>4, <2>1
  <2>3. Marks(tab'[t].queue) = <<>> /\ Marks(tab[t].queue) = <<>> /\ tab'[t].life # "closed"
    <3>1. tab[t].queue = <<>>
      BY <1>2, <2>1 DEF Idle
    <3>2. Marks(tab[t].queue) = <<>>
      BY <3>1 DEF Marks
    <3> QED BY <2>2, <3>2, NewLine
  <2>4. /\ Lines' = [u \in Tabs |-> IF u = t THEN Marks(tab'[t].queue) ELSE Lines[u]]
        /\ Ups' = [u \in Tabs |-> IF u = t THEN tab'[t].life # "closed" ELSE Ups[u]]
    BY <2>2, OneLine
  <2>5. Lines' = Lines
    BY <2>3, <2>4 DEF Lines
  <2>6. ~Ups[t] /\ Ups' = [Ups EXCEPT ![t] = TRUE]
    BY <2>1, <2>3, <2>4, Zenon DEF Ups
  <2>7. Line!Start(t)
    BY <2>5, <2>6, Zenon DEF Line!Start, Lines, Ups, Marks
  <2> QED BY <2>7, Zenon DEF Line!Next
<1>7. ASSUME NEW t \in Tabs, Unmount(t) \/ Crash(t) PROVE Line!Next
  <2>1. tab[t].life # "closed" /\ Update(t, NewOutbox("closed"))
    BY <1>7 DEF Unmount, Crash
  <2>2. tab'[t] = NewOutbox("closed") /\ \A u \in Tabs : u # t => tab'[u] = tab[u]
    BY <1>4, <2>1
  <2>3. Marks(tab'[t].queue) = <<>> /\ tab'[t].life = "closed"
    BY <2>2, NewLine
  <2>4. /\ Lines' = [u \in Tabs |-> IF u = t THEN Marks(tab'[t].queue) ELSE Lines[u]]
        /\ Ups' = [u \in Tabs |-> IF u = t THEN tab'[t].life # "closed" ELSE Ups[u]]
    BY <2>2, OneLine
  <2>5. Lines' = [Lines EXCEPT ![t] = <<>>]
    BY <2>3, <2>4 DEF Lines
  <2>6. Ups[t] /\ Ups' = [Ups EXCEPT ![t] = FALSE]
    BY <2>1, <2>3, <2>4, Zenon DEF Ups
  <2>7. Line!Leave(t)
    BY <2>5, <2>6, Zenon DEF Line!Leave, Lines, Ups, Marks
  <2> QED BY <2>7, Zenon DEF Line!Next
<1>8. ASSUME Loaded PROVE Line!Next
  <2> DEFINE t == Head(io).tab
             e == [tab[t] EXCEPT !.life = "open", !.queue = store \o @,
                                 !.accepted = IdSeq(store) \o @]
  <2>1. io \in Seq(IoType) /\ LoadsAwaited(io, tab) /\ io # <<>> /\ Head(io).kind = "load"
    BY <1>1, <1>8 DEF IInv, TypeOK, Loaded
  <2>2. t \in Tabs /\ tab[t].life = "loading"
    BY <2>1, RunAwaited DEF IoType
  <2>3. /\ Good(tab[t]) /\ store \in Seq(Batch) /\ nextId \in Nat
        /\ Ordered(tab[t], nextId) /\ SoundRows(store, nextId) /\ Apart(tab[t], store)
    <3>1. /\ Good(tab[t]) /\ store \in Seq(Batch) /\ nextId \in Nat
          /\ Ordered(tab[t], nextId) /\ SoundRows(store, nextId)
      BY <1>1, <2>2 DEF IInv, TypeOK, OrderInv
    <3>2. LoadsFresh(io, store, tab) /\ \A i \in DOMAIN io : SoundRows(io[i].rows, nextId)
      BY <1>1 DEF OrderInv
    <3> QED BY <2>1, <3>1, <3>2, RunFresh
  <2>4. Update(t, Drained(e))
    BY <1>8 DEF Loaded
  <2>5. e \in OutboxType
    BY <1>2, <2>2, <2>3, OrderedLoads
  <2>6. Advances(Marks(tab[t].queue), Marks(Drained(e).queue))
    BY <1>2, <2>2, <2>3, <2>5, LoadAdvances
  <2>7. Drained(e).life = "open"
    BY <1>2, <2>2, <2>3, LoadedGood
  <2> HIDE DEF t, e
  <2>8. tab'[t] = Drained(e) /\ \A u \in Tabs : u # t => tab'[u] = tab[u]
    BY <1>4, <2>2, <2>4
  <2>9. OnlyLine(t)
    BY <2>2, <2>8, OneLine
  <2> QED BY <2>2, <2>6, <2>7, <2>8, <2>9, LineSteps
<1>9. CASE UNCHANGED vars \/ StoreWritten \/ StoreFails \/ LoadFails
  BY <1>3, <1>9 DEF vars, StoreWritten, StoreFails, LoadFails
<1> QED BY <1>1, <1>5, <1>6, <1>7, <1>8, <1>9, StepKinds

\* The outbox, store, network, crashes and all, implements the ordered
\* delivery line: an entry joins at the back or is recovered at the front,
\* and only the front is ever served or refused.
THEOREM OutboxDelivers == Spec => DeliversInOrder
<1>1. Init => Line!Init
  <2> SUFFICES ASSUME Init PROVE Line!Init
    OBVIOUS
  <2>1. \A t \in Tabs : tab[t] = NewOutbox("closed")
    BY DEF Init
  <2>2. \A t \in Tabs : Marks(tab[t].queue) = <<>> /\ tab[t].life = "closed"
    BY <2>1, NewLine
  <2>3. Lines = [t \in Tabs |-> <<>>]
    BY <2>2 DEF Lines
  <2>4. Ups = [t \in Tabs |-> FALSE]
    BY <2>2, Zenon DEF Ups
  <2> QED BY <2>3, <2>4, Zenon DEF Line!Init, Lines, Ups, Marks
<1>2. Spec => [](IInv /\ OrderInv)
  BY InitIInv, InitOrder, NextIInv, NextOrder, PTL DEF Spec
<1>3. IInv /\ OrderInv /\ IInv' /\ [Next]_vars =>
          [Line!Next]_<<[t \in Tabs |-> [i \in DOMAIN tab[t].queue |-> Entry(tab[t].queue[i])]],
                        [t \in Tabs |-> tab[t].life # "closed"]>>
  BY LineNext, Zenon DEF Lines, Ups, Marks
<1> QED BY <1>1, <1>2, <1>3, PTL DEF Spec, DeliversInOrder, Line!Spec

-----------------------------------------------------------------------------
(* One tab and its store: what is on disk is never answered and forgotten,  *)
(* nor forgotten before it is answered                                       *)

\* The wireframe is open in one tab only.
OneTab == \A t, u \in Tabs : t = u

\* Sending, landing and noting a version change nothing that is to be flushed.
LEMMA SameDirty ==
    ASSUME NEW s \in OutboxType
    PROVE  /\ Drained(s).dirty = s.dirty /\ Landed(s).dirty = s.dirty
           /\ \A p \in Pages, v \in Versions : Noted(s, p, v).dirty = s.dirty
<1>1. Drained(s).dirty = s.dirty
  BY DEF Drained, OutboxType
<1>2. Landed(s).dirty = s.dirty
  BY DEF Landed, Drained, OutboxType
<1>3. \A p \in Pages, v \in Versions : Noted(s, p, v).dirty = s.dirty
  BY DEF Noted, OutboxType
<1> QED BY <1>1, <1>2, <1>3

\* Marks keep the ids.
LEMMA IdsOfMarks ==
    ASSUME NEW q \in Seq(Batch)
    PROVE  IdsOf(q) = {Marks(q)[i].id : i \in DOMAIN Marks(q)}
<1>1. DOMAIN Marks(q) = DOMAIN q /\ \A i \in DOMAIN q : Marks(q)[i] = Entry(q[i])
  BY MarksSeq
<1>2. \A i \in DOMAIN q : Marks(q)[i].id = q[i].id
  BY <1>1 DEF Entry
<1> QED BY <1>1, <1>2 DEF IdsOf

\* The ids of two lists put end to end.
LEMMA ConcatIds ==
    ASSUME NEW q \in Seq(Batch), NEW r \in Seq(Batch)
    PROVE  IdsOf(q) \subseteq IdsOf(q \o r) /\ IdsOf(r) \subseteq IdsOf(q \o r)
<1> DEFINE c == q \o r
<1>1. /\ c \in Seq(Batch) /\ Len(c) = Len(q) + Len(r)
      /\ \A i \in 1 .. Len(q) : c[i] = q[i]
      /\ \A i \in 1 .. Len(r) : c[Len(q) + i] = r[i]
  BY ConcatParts
<1>2. /\ Len(q) \in Nat /\ Len(r) \in Nat
      /\ DOMAIN q = 1 .. Len(q) /\ DOMAIN r = 1 .. Len(r)
  OBVIOUS
<1> HIDE DEF c
<1>3. DOMAIN c = 1 .. Len(q) + Len(r)
  BY <1>1
<1>4. \A i \in DOMAIN q : i \in DOMAIN c /\ c[i] = q[i]
  BY <1>1, <1>2, <1>3
<1>5. \A i \in DOMAIN r : Len(q) + i \in DOMAIN c /\ c[Len(q) + i] = r[i]
  BY <1>1, <1>2, <1>3
<1> QED BY <1>4, <1>5 DEF IdsOf, c

\* No id leaves the queue but those of gone; and a clean u comes of a clean s
\* and let nothing go at all.
Hands(s, u, gone) ==
    /\ IdsOf(s.queue) \subseteq IdsOf(u.queue) \cup gone
    /\ ~u.dirty => ~s.dirty /\ IdsOf(s.queue) \subseteq IdsOf(u.queue)
    /\ u.life = s.life

\* So do the three effects a method may have.
LEMMA StaysHands ==
    ASSUME NEW s \in OutboxType, NEW u \in OutboxType, Stays(s, u), u.dirty = s.dirty, NEW gone
    PROVE  Hands(s, u, gone)
<1>1. IdsOf(s.queue) = IdsOf(u.queue)
  <2>1. s.queue \in Seq(Batch) /\ u.queue \in Seq(Batch)
    BY DEF OutboxType
  <2>2. Marks(s.queue) = Marks(u.queue)
    BY DEF Stays
  <2>3. IdsOf(s.queue) = {Marks(s.queue)[i].id : i \in DOMAIN Marks(s.queue)}
    BY <2>1, IdsOfMarks
  <2>4. IdsOf(u.queue) = {Marks(u.queue)[i].id : i \in DOMAIN Marks(u.queue)}
    BY <2>1, IdsOfMarks
  <2> QED BY <2>2, <2>3, <2>4
<1> QED BY <1>1 DEF Hands, Stays

\* What joins the queue takes nothing out of it.
LEMMA GrowsHands ==
    ASSUME NEW s \in OutboxType, NEW u \in OutboxType, NEW bs \in Seq(Batch),
           Grows(s, u, bs), ~u.dirty => ~s.dirty, NEW gone
    PROVE  Hands(s, u, gone)
<1>1. s.queue \in Seq(Batch) /\ u.queue \in Seq(Batch)
  BY DEF OutboxType
<1>2. Marks(u.queue) = Marks(s.queue \o bs)
  BY <1>1, MarksConcat DEF Grows
<1>3. s.queue \o bs \in Seq(Batch)
  BY <1>1
<1>4. IdsOf(u.queue) = IdsOf(s.queue \o bs)
  BY <1>1, <1>2, <1>3, IdsOfMarks
<1>5. IdsOf(s.queue) \subseteq IdsOf(u.queue)
  BY <1>1, <1>4, ConcatIds
<1> QED BY <1>5 DEF Hands, Grows

\* What leaves the queue is handed over, and the outbox is dirty.
LEMMA ServesHands ==
    ASSUME NEW s \in OutboxType, NEW u \in OutboxType, NEW J \in SUBSET DOMAIN s.queue,
           Serves(s, u, J), u.dirty
    PROVE  Hands(s, u, u.answered)
<1> DEFINE q == s.queue
<1>1. q \in Seq(Batch) /\ u.queue \in Seq(Batch)
  BY DEF OutboxType
<1>2. Marks(u.queue) = Marks(Keep(q, J)) /\ Keep(q, J) \in Seq(Batch)
  <2> HIDE DEF q
  <2>1. Keep(q, J) \in Seq(Batch) /\ Marks(Keep(q, J)) = Keep(Marks(q), J)
    BY <1>1, KeepSeq, MarksKeep DEF q
  <2>2. Marks(u.queue) = Keep(Marks(q), J)
    BY DEF Serves, q
  <2> QED BY <2>1, <2>2
<1>3. IdsOf(u.queue) = {q[k].id : k \in J}
  <2>1. IdsOf(u.queue) = {Marks(u.queue)[i].id : i \in DOMAIN Marks(u.queue)}
    BY <1>1, IdsOfMarks
  <2> DEFINE k == Keep(q, J)
  <2>2. k \in Seq(Batch) /\ IdsOf(k) = {q[n].id : n \in J} /\ Marks(u.queue) = Marks(k)
    BY <1>1, <1>2, KeptIds
  <2> HIDE DEF k, q
  <2>3. IdsOf(k) = {Marks(k)[i].id : i \in DOMAIN Marks(k)}
    BY <2>2, IdsOfMarks
  <2> QED BY <2>1, <2>2, <2>3
<1>4. \A i \in DOMAIN q \ J : q[i].id \in u.answered
  BY DEF Serves
<1>5. IdsOf(q) \subseteq IdsOf(u.queue) \cup u.answered
  BY <1>3, <1>4 DEF IdsOf
<1> QED BY <1>5 DEF Hands, Serves

\* Outbox t takes a step beside the store.
Acts(t) ==
    /\ tab[t].life # "closed" /\ Hands(tab[t], tab'[t], settled') /\ settled \subseteq settled'
    /\ \A u \in Tabs : u # t => tab'[u] = tab[u]
    /\ store' = store /\ io' = io /\ missed' = missed

\* An update that hands on what the queue has is a step of that outbox alone.
LEMMA ActsIf ==
    ASSUME IInv, NEW t \in Tabs, NEW s, Update(t, s), tab[t].life # "closed",
           Hands(tab[t], s, settled'), settled \subseteq settled', store' = store, io' = io,
           missed' = missed
    PROVE  Acts(t)
<1>1. tab'[t] = s /\ \A u \in Tabs : u # t => tab'[u] = tab[u]
  BY DEF Update, IInv, TypeOK
<1> QED BY <1>1 DEF Acts

\* The answers raise dirty with every batch that leaves.
LEMMA AnsweredHands ==
    ASSUME NEW s \in OutboxType, Flying(s), s.sending # NoBatch
    PROVE  /\ \A v \in Versions : Hands(s, AfterAck(s, v), AfterAck(s, v).answered)
           /\ \A v \in Versions : Hands(s, AfterConflict(s, v), AfterConflict(s, v).answered)
           /\ \A gone : Hands(s, AfterLocked(s), gone) /\ Hands(s, AfterFailure(s), gone)
           /\ Hands(s, AfterRejection(s), AfterRejection(s).answered)
<1>1. NotHead(s) \in SUBSET DOMAIN s.queue /\ OtherPages(s) \in SUBSET DOMAIN s.queue
  BY DEF NotHead, OtherPages
<1>2. s.sending.page \in Pages /\ s.sending.id \in Ids /\ Tail(s.queue) \in Seq(Batch)
  BY HeadAndTail
<1>3. ASSUME NEW v \in Versions PROVE Hands(s, AfterAck(s, v), AfterAck(s, v).answered)
  <2> DEFINE e == [s EXCEPT !.queue = Tail(@), !.dirty = TRUE, !.attempt = 0,
                            !.answered = @ \cup {s.sending.id}]
  <2>1. e \in OutboxType /\ e.dirty
    BY <1>2, ZeroAttempts DEF OutboxType
  <2>2. AfterAck(s, v) = Landed(Noted(e, s.sending.page, v))
    BY DEF AfterAck
  <2> HIDE DEF e
  <2>3. Noted(e, s.sending.page, v) \in OutboxType /\ Noted(e, s.sending.page, v).dirty
    BY <1>2, <2>1, NotedGood, SameDirty
  <2>4. AfterAck(s, v).dirty
    BY <2>2, <2>3, SameDirty
  <2> QED BY <1>1, <2>4, AckServes, AckGood, ServesHands DEF Good
<1>4. ASSUME NEW v \in Versions PROVE Hands(s, AfterConflict(s, v), AfterConflict(s, v).answered)
  <2> DEFINE b    == s.sending
             rest == Tail(s.queue)
             same == {i \in DOMAIN rest : rest[i].page = b.page}
             keep == Keep(rest, DOMAIN rest \ same)
             drop == Keep(rest, same)
             held == s.held \cup {[page |-> b.page, batches |-> drop]}
             done == s.answered \cup {b.id} \cup IdsOf(drop)
             e == [s EXCEPT !.queue = keep, !.dirty = TRUE, !.attempt = 0,
                            !.held = held, !.answered = done]
  <2>1. keep \in Seq(Batch) /\ drop \in Seq(Batch)
    BY <1>2, KeepSeq
  <2>2. IdsOf(drop) \subseteq Ids
    BY <2>1, IdsOfQueue
  <2>3. AfterConflict(s, v) = Landed(Noted(e, b.page, v))
    BY DEF AfterConflict
  <2> HIDE DEF b, keep, drop
  <2>4. /\ held \in SUBSET [page : Pages, batches : Seq(Batch)]
        /\ done \in SUBSET Ids
    BY <1>2, <2>1, <2>2 DEF OutboxType, b
  <2> HIDE DEF held, done
  <2>5. e \in OutboxType /\ e.dirty
    BY <2>1, <2>4, ZeroAttempts DEF OutboxType
  <2> HIDE DEF e
  <2>6. Noted(e, b.page, v) \in OutboxType /\ Noted(e, b.page, v).dirty
    BY <1>2, <2>5, NotedGood, SameDirty DEF b
  <2>7. AfterConflict(s, v).dirty
    BY <2>3, <2>6, SameDirty
  <2> QED BY <1>1, <2>7, ConflictServes, ConflictGood, ServesHands DEF Good
<1>5. Hands(s, AfterRejection(s), AfterRejection(s).answered)
  <2> DEFINE e == [s EXCEPT !.queue = Tail(@), !.dirty = TRUE, !.attempt = 0,
                            !.answered = @ \cup {s.sending.id}]
  <2>1. e \in OutboxType /\ e.dirty
    BY <1>2, ZeroAttempts DEF OutboxType
  <2>2. AfterRejection(s) = Landed(e)
    BY DEF AfterRejection
  <2> HIDE DEF e
  <2>3. AfterRejection(s).dirty
    BY <2>1, <2>2, SameDirty
  <2> QED BY <1>1, <2>3, RefusalServes, RefusalGood, ServesHands DEF Good
<1>6. ASSUME NEW gone PROVE Hands(s, AfterLocked(s), gone) /\ Hands(s, AfterFailure(s), gone)
  <2> DEFINE e == [s EXCEPT !.locked = TRUE, !.attempt = 0]
             a == IF s.attempt < MaxAttempt THEN s.attempt + 1 ELSE s.attempt
             f == [s EXCEPT !.attempt = a, !.timer = TRUE]
  <2>1. e \in OutboxType /\ e.dirty = s.dirty
    BY ZeroAttempts DEF OutboxType
  <2>2. a \in 0 .. MaxAttempt
    BY Bounds DEF OutboxType
  <2>3. AfterLocked(s) = Landed(e) /\ AfterFailure(s) = Landed(f)
    BY DEF AfterLocked, AfterFailure
  <2> HIDE DEF a
  <2>5. f \in OutboxType /\ f.dirty = s.dirty
    BY <2>2 DEF OutboxType
  <2> HIDE DEF e, f
  <2>4. AfterLocked(s).dirty = s.dirty /\ AfterFailure(s).dirty = s.dirty
    BY <2>1, <2>3, <2>5, SameDirty
  <2> QED BY <2>4, RefusalServes, RefusalGood, FailureGood, StaysHands DEF Good
<1> QED BY <1>3, <1>4, <1>5, <1>6

\* So an answer is a step beside the store, and what it drops is settled.
LEMMA NetworkActs ==
    ASSUME IInv, NEW t \in Tabs, Network(t)
    PROVE  Acts(t)
<1>1. tab[t] \in OutboxType /\ Flying(tab[t])
  BY DEF IInv, Good
<1>2. tab[t].sending # NoBatch
  BY DEF Network, Acked, Conflicted, LockedOut, Rejected, Failed, Answer, InFlight
<1>3. tab[t].life = "open"
  BY <1>1, <1>2 DEF Flying
<1>4. ASSUME NEW s, Answer(t, s), Hands(tab[t], s, s.answered) PROVE Acts(t)
  <2>1. /\ Update(t, s) /\ settled' = settled \cup s.answered
        /\ store' = store /\ io' = io /\ missed' = missed
    BY <1>4 DEF Answer
  <2>2. Hands(tab[t], s, settled')
    BY <1>4, <2>1 DEF Hands
  <2> QED BY <1>3, <2>1, <2>2, ActsIf
<1>5. ASSUME NEW v \in Versions, Acked(t, v) PROVE Acts(t)
  BY <1>1, <1>2, <1>4, <1>5, AnsweredHands DEF Acked
<1>6. ASSUME NEW v \in Versions, Conflicted(t, v) PROVE Acts(t)
  BY <1>1, <1>2, <1>4, <1>6, AnsweredHands DEF Conflicted
<1>7. LockedOut(t) => Acts(t)
  BY <1>1, <1>2, <1>4, AnsweredHands DEF LockedOut
<1>8. Failed(t) => Acts(t)
  BY <1>1, <1>2, <1>4, AnsweredHands DEF Failed
<1>9. Rejected(t) => Acts(t)
  BY <1>1, <1>2, <1>4, AnsweredHands DEF Rejected
<1> QED BY <1>5, <1>6, <1>7, <1>8, <1>9 DEF Network

\* What is enqueued makes the outbox dirty.
LEMMA EnqueuedHands ==
    ASSUME NEW s \in OutboxType, Flying(s), Steady(s), NEW bs \in Seq(Batch), NEW gone
    PROVE  Hands(s, Enqueued(s, bs), gone)
<1> DEFINE q == s.queue \o bs
           a == s.accepted \o IdSeq(bs)
           d == s.dirty \/ bs # <<>>
           e == [s EXCEPT !.queue = q, !.accepted = a, !.dirty = d]
<1>1. s.queue \in Seq(Batch) /\ s.accepted \in Seq(Ids)
  BY DEF OutboxType
<1>2. q \in Seq(Batch) /\ a \in Seq(Ids) /\ d \in BOOLEAN /\ (~d => ~s.dirty)
  BY <1>1, IdsOfQueue, ConcatProperties
<1>4. Enqueued(s, bs) = Drained(e)
  BY DEF Enqueued
<1> HIDE DEF q, a, d
<1>3. e \in OutboxType /\ e.dirty = d
  BY <1>2 DEF OutboxType
<1> HIDE DEF e
<1>5. ~Enqueued(s, bs).dirty => ~s.dirty
  BY <1>2, <1>3, <1>4, SameDirty
<1>6. Enqueued(s, bs) \in OutboxType /\ Grows(s, Enqueued(s, bs), bs)
  BY EnqueuedGood, EnqueuedGrows DEF Good
<1> QED BY <1>5, <1>6, GrowsHands

\* The hook's calls and the timer.
LEMMA CommitActs ==
    ASSUME IInv, NEW t \in Tabs, NEW p \in Pages, NEW e \in Edits, NEW v \in Versions,
           Commit(t, p, e, v)
    PROVE  Acts(t)
<1> DEFINE b  == [id |-> nextId, page |-> p, base |-> v, edit |-> e]
           bs == <<b>>
<1>1. nextId \in Ids
  BY Bounds DEF Commit, IInv, TypeOK, Ids
<1>2. b \in Batch
  BY <1>1 DEF Batch
<1>3. bs \in Seq(Batch)
  BY <1>2
<1>4. /\ Update(t, Enqueued(tab[t], bs)) /\ UNCHANGED <<store, io, settled, missed>>
      /\ tab[t].life # "closed"
  BY DEF Commit
<1> HIDE DEF bs
<1>5. tab[t] \in OutboxType /\ Flying(tab[t]) /\ Steady(tab[t])
  BY DEF IInv, Good
<1>6. Hands(tab[t], Enqueued(tab[t], bs), settled')
  BY <1>3, <1>5, EnqueuedHands
<1> QED BY <1>4, <1>6, ActsIf

\* The timer, an unlock, a noted version and a failed refetch.
LEMMA QuietActs ==
    ASSUME IInv, NEW t \in Tabs, Idle(tab[t]),
           \/ Retry(t) \/ Resume(t)
           \/ \E p \in Pages, v \in Versions : NotePage(t, p, v)
           \/ \E h \in tab[t].held : RefetchFailed(t, h)
    PROVE  Acts(t)
<1>1. tab[t] \in OutboxType
  BY DEF IInv, TypeOK
<1>2. ASSUME NEW s \in OutboxType, Update(t, s), Stays(tab[t], s), s.dirty = tab[t].dirty,
             tab[t].life # "closed", UNCHANGED <<store, io, settled, missed>>
      PROVE  Acts(t)
  BY <1>1, <1>2, StaysHands, ActsIf
<1>3. ASSUME Retry(t) PROVE Acts(t)
  <2> DEFINE e == [tab[t] EXCEPT !.timer = FALSE]
  <2>1. e \in OutboxType /\ Stays(tab[t], e) /\ e.dirty = tab[t].dirty
    BY <1>1 DEF OutboxType, Stays
  <2>2. Update(t, Drained(e)) /\ UNCHANGED <<store, io, settled, missed>> /\ tab[t].timer
    BY <1>3 DEF Retry
  <2>3. Drained(e) \in OutboxType
    BY <1>1, WokenGood DEF IInv, Good
  <2> HIDE DEF e
  <2>4. Stays(tab[t], Drained(e)) /\ Drained(e).dirty = tab[t].dirty
    BY <2>1, DrainedStays, ThenStays, SameDirty
  <2>5. tab[t].life # "closed"
    BY <2>2 DEF Idle
  <2> QED BY <1>2, <2>2, <2>3, <2>4, <2>5
<1>4. ASSUME Resume(t) PROVE Acts(t)
  <2> DEFINE e == [tab[t] EXCEPT !.locked = FALSE]
  <2>1. e \in OutboxType /\ Stays(tab[t], e) /\ e.dirty = tab[t].dirty
    BY <1>1 DEF OutboxType, Stays
  <2>2. Update(t, Drained(e)) /\ UNCHANGED <<store, io, settled, missed>> /\ tab[t].locked
    BY <1>4 DEF Resume
  <2>3. Drained(e) \in OutboxType
    BY <1>1, WokenGood DEF IInv, Good
  <2> HIDE DEF e
  <2>4. Stays(tab[t], Drained(e)) /\ Drained(e).dirty = tab[t].dirty
    BY <2>1, DrainedStays, ThenStays, SameDirty
  <2>5. tab[t].life # "closed"
    BY <2>2 DEF Idle
  <2> QED BY <1>2, <2>2, <2>3, <2>4, <2>5
<1>5. ASSUME NEW p \in Pages, NEW v \in Versions, NotePage(t, p, v) PROVE Acts(t)
  <2> DEFINE s == Noted(tab[t], p, v)
  <2>1. s \in OutboxType /\ Stays(tab[t], s) /\ s.dirty = tab[t].dirty
    BY <1>1, NotedStays, NotedGood, SameDirty
  <2>2. Update(t, s) /\ UNCHANGED <<store, io, settled, missed>> /\ tab[t].life # "closed"
    BY <1>5 DEF NotePage
  <2> QED BY <1>2, <2>1, <2>2
<1>6. ASSUME NEW h \in tab[t].held, RefetchFailed(t, h) PROVE Acts(t)
  <2> DEFINE e == [tab[t] EXCEPT !.held = @ \ {h}]
  <2>1. e \in OutboxType /\ Stays(tab[t], e) /\ e.dirty = tab[t].dirty
    BY <1>1 DEF OutboxType, Stays
  <2>2. Update(t, e) /\ UNCHANGED <<store, io, settled, missed>>
    BY <1>6 DEF RefetchFailed
  <2>3. tab[t].life # "closed"
    BY <1>6 DEF Idle
  <2> QED BY <1>2, <2>1, <2>2, <2>3
<1> QED BY <1>3, <1>4, <1>5, <1>6

\* A refetch that requeues.
LEMMA RefetchedActs ==
    ASSUME IInv, NEW t \in Tabs, Idle(tab[t]), NEW h \in tab[t].held,
           NEW v \in Versions, NEW K \in SUBSET DOMAIN h.batches, Refetched(t, h, v, K)
    PROVE  Acts(t)
<1> DEFINE m == Noted(tab[t], h.page, v)
           n == [m EXCEPT !.held = @ \ {h}]
           kept == Keep(h.batches, K)
           again == Reissued(n, kept)
<1>1. tab[t] \in OutboxType /\ nextId \in 1 .. MaxId + 1 /\ Flying(tab[t]) /\ Steady(tab[t])
  BY DEF IInv, TypeOK, Good
<1>2. h.page \in Pages /\ h.batches \in Seq(Batch)
  BY <1>1 DEF OutboxType
<1>3. /\ nextId + Len(again) <= MaxId + 1
      /\ Update(t, Enqueued(n, again)) /\ UNCHANGED <<store, io, settled, missed>>
  BY DEF Refetched
<1>4. /\ m \in OutboxType /\ Stays(tab[t], m) /\ m.dirty = tab[t].dirty
      /\ Flying(m) /\ Steady(m)
  BY <1>1, <1>2, NotedGood, NotedStays, SameDirty
<1> HIDE DEF m
<1>5. /\ n \in OutboxType /\ Stays(m, n) /\ n.dirty = m.dirty
      /\ Flying(n) /\ Steady(n)
  BY <1>4 DEF OutboxType, Stays, Flying, Steady
<1>6. kept \in Seq(Batch)
  BY <1>2, KeepSeq
<1> HIDE DEF n, kept
<1>7. again \in Seq(Batch)
  BY <1>1, <1>3, <1>5, <1>6, ReissuedSeq
<1> HIDE DEF again
<1>8. Hands(n, Enqueued(n, again), settled')
  BY <1>5, <1>7, EnqueuedHands
<1>9. Stays(tab[t], n) /\ n.dirty = tab[t].dirty
  BY <1>4, <1>5, ThenStays
<1>10. Hands(tab[t], n, {})
  BY <1>1, <1>5, <1>9, StaysHands
<1>11. Hands(tab[t], Enqueued(n, again), settled')
  BY <1>8, <1>10 DEF Hands
<1>12. tab[t].life # "closed"
  BY DEF Idle
<1> QED BY <1>3, <1>11, <1>12, ActsIf

\* Every step is one of an outbox beside the store, or one of these.
LEMMA StoreKinds ==
    ASSUME IInv, OrderInv, Next
    PROVE  \/ \E t \in Tabs : Acts(t) \/ Flush(t) \/ Mount(t) \/ Unmount(t) \/ Crash(t)
           \/ StoreWritten \/ StoreFails \/ Loaded \/ LoadFails
<1>1. \A t \in Tabs : Idle(tab[t])
  BY DEF OrderInv
<1>2. ASSUME NEW t \in Tabs, Hook(t) PROVE Acts(t) \/ Mount(t) \/ Unmount(t)
  BY <1>1, <1>2, CommitActs, QuietActs, RefetchedActs DEF Hook
<1>3. ASSUME NEW t \in Tabs, Retry(t) PROVE Acts(t)
  BY <1>1, <1>3, QuietActs
<1> QED BY <1>2, <1>3, NetworkActs DEF Next

\* A load brings every stored row and drops nothing.
LEMMA LoadedHands ==
    ASSUME IInv, OrderInv, Loaded
    PROVE  LET t == Head(io).tab
           IN  /\ t \in Tabs /\ tab[t].life = "loading" /\ tab'[t].life = "open"
               /\ tab'[t].dirty = tab[t].dirty
               /\ IdsOf(store) \subseteq IdsOf(tab'[t].queue)
               /\ IdsOf(tab[t].queue) \subseteq IdsOf(tab'[t].queue)
               /\ \A u \in Tabs : u # t => tab'[u] = tab[u]
<1> DEFINE t == Head(io).tab
           e == [tab[t] EXCEPT !.life = "open", !.queue = store \o @,
                               !.accepted = IdSeq(store) \o @]
<1>1. io \in Seq(IoType) /\ LoadsAwaited(io, tab) /\ io # <<>> /\ Head(io).kind = "load"
  BY DEF IInv, TypeOK, Loaded
<1>2. t \in Tabs /\ tab[t].life = "loading"
  BY <1>1, RunAwaited DEF IoType
<1>3. /\ Good(tab[t]) /\ tab[t] \in OutboxType /\ store \in Seq(Batch) /\ nextId \in Nat
      /\ Ordered(tab[t], nextId) /\ SoundRows(store, nextId) /\ Apart(tab[t], store)
  <2>1. /\ Good(tab[t]) /\ store \in Seq(Batch) /\ nextId \in Nat
        /\ Ordered(tab[t], nextId) /\ SoundRows(store, nextId)
    BY <1>2 DEF IInv, TypeOK, OrderInv
  <2>2. LoadsFresh(io, store, tab) /\ \A i \in DOMAIN io : SoundRows(io[i].rows, nextId)
    BY DEF OrderInv
  <2>3. Apart(tab[t], store)
    BY <1>1, <2>2, RunFresh
  <2> QED BY <2>1, <2>3 DEF Good
<1>4. e \in OutboxType
  BY <1>2, <1>3, OrderedLoads
<1>5. Good(Drained(e)) /\ Drained(e).life = "open"
  BY <1>2, <1>3, LoadedGood
<1>6. tab[t].queue \in Seq(Batch) /\ e.queue = store \o tab[t].queue /\ e.dirty = tab[t].dirty
  BY <1>3 DEF OutboxType
<1>7. Update(t, Drained(e))
  BY DEF Loaded
<1> HIDE DEF t, e
<1>8. tab'[t] = Drained(e) /\ \A u \in Tabs : u # t => tab'[u] = tab[u]
  BY <1>2, <1>7 DEF Update, IInv, TypeOK
<1>9. Drained(e).dirty = tab[t].dirty
  BY <1>4, <1>6, SameDirty
<1>10. Stays(e, Drained(e)) /\ Drained(e) \in OutboxType
  BY <1>4, <1>5, DrainedStays DEF Good
<1>11. Hands(e, Drained(e), {})
  BY <1>4, <1>6, <1>9, <1>10, StaysHands
<1>12. IdsOf(e.queue) \subseteq IdsOf(Drained(e).queue)
  BY <1>11 DEF Hands
<1>13. IdsOf(store) \subseteq IdsOf(e.queue) /\ IdsOf(tab[t].queue) \subseteq IdsOf(e.queue)
  BY <1>3, <1>6, ConcatIds
<1> QED BY <1>2, <1>5, <1>8, <1>9, <1>12, <1>13 DEF t

\* The transaction issued last.
LastOf(q) == q[Len(q)]

\* Running the oldest transaction leaves the last one last.
LEMMA LastRuns ==
    ASSUME NEW q \in Seq(IoType), q # <<>>
    PROVE  /\ Tail(q) = <<>> => LastOf(q) = Head(q)
           /\ Tail(q) # <<>> => LastOf(Tail(q)) = LastOf(q)
<1>1. /\ Len(Tail(q)) = Len(q) - 1 /\ \A i \in 1 .. Len(Tail(q)) : Tail(q)[i] = q[i + 1]
      /\ Tail(q) \in Seq(IoType)
  BY HeadTailProperties
<1>2. Len(q) \in Nat \ {0} /\ Head(q) = q[1]
  BY EmptySeq
<1>3. ASSUME Tail(q) = <<>> PROVE Len(q) = 1
  <2> DEFINE r == Tail(q)
  <2>1. r \in Seq(IoType) /\ r = <<>> /\ Len(r) = Len(q) - 1
    BY <1>1, <1>3
  <2> HIDE DEF r
  <2>2. Len(r) = 0
    BY <2>1, EmptySeq
  <2> QED BY <1>2, <2>1, <2>2
<1>4. Tail(q) # <<>> => Len(Tail(q)) \in Nat \ {0}
  BY <1>1, EmptySeq
<1>5. ASSUME Tail(q) # <<>> PROVE Tail(q)[Len(Tail(q))] = q[Len(q)]
  <2> DEFINE r == Tail(q)
  <2>1. Len(r) \in 1 .. Len(r) /\ Len(r) + 1 = Len(q)
    BY <1>1, <1>2, <1>4, <1>5
  <2>2. \A i \in 1 .. Len(r) : r[i] = q[i + 1]
    BY <1>1
  <2> HIDE DEF r
  <2>3. r[Len(r)] = q[Len(r) + 1]
    BY <2>1, <2>2
  <2> QED BY <2>1, <2>3 DEF r
<1> QED BY <1>2, <1>3, <1>5 DEF LastOf

\* A clean outbox has in its queue what the store will be left with: the
\* rows of the last write, or the stored ones if nothing waits and the last
\* write did not fail.
TidyInv ==
    \A t \in Tabs : tab[t].life # "closed" /\ ~tab[t].dirty =>
        /\ tab[t].life = "open" /\ io = <<>> /\ ~missed
               => IdsOf(store) \subseteq IdsOf(tab[t].queue)
        /\ io # <<>> /\ LastOf(io).kind = "write"
               => IdsOf(LastOf(io).rows) \subseteq IdsOf(tab[t].queue)

\* At first no tab is open.
LEMMA InitTidy == Init => TidyInv
BY DEF Init, TidyInv, NewOutbox

\* With one tab, every step keeps it tidy.
LEMMA NextTidy ==
    ASSUME OneTab
    PROVE  IInv /\ OrderInv /\ TidyInv /\ [Next]_vars => TidyInv'
<1> SUFFICES ASSUME IInv, OrderInv, TidyInv, [Next]_vars PROVE TidyInv'
  OBVIOUS
<1>1. CASE UNCHANGED vars
  BY <1>1 DEF vars, TidyInv
<1>2. ASSUME NEW t \in Tabs, Acts(t) PROVE TidyInv'
  <2>1. /\ io' = io /\ store' = store /\ missed' = missed
        /\ tab[t].life # "closed" /\ Hands(tab[t], tab'[t], settled')
    BY <1>2 DEF Acts
  <2>2. \A u \in Tabs : u = t
    BY DEF OneTab
  <2>3. ASSUME tab'[t].life # "closed", ~tab'[t].dirty
        PROVE  /\ ~tab[t].dirty /\ tab[t].life = tab'[t].life
               /\ IdsOf(tab[t].queue) \subseteq IdsOf(tab'[t].queue)
    BY <2>1, <2>3 DEF Hands
  <2> QED BY <2>1, <2>2, <2>3 DEF TidyInv
<1>3. ASSUME NEW t \in Tabs, Flush(t) PROVE TidyInv'
  <2> DEFINE x == Write(t, tab[t].queue)
  <2>1. /\ io' = Append(io, x) /\ tab' = [tab EXCEPT ![t] = [tab[t] EXCEPT !.dirty = FALSE]]
        /\ io \in Seq(IoType) /\ tab \in [Tabs -> OutboxType]
    BY <1>3 DEF Flush, FlushTo, Update, IInv, TypeOK
  <2>2. tab'[t].queue = tab[t].queue /\ x.kind = "write" /\ x.rows = tab[t].queue
    BY <2>1 DEF OutboxType, Write
  <2> HIDE DEF x
  <2>3. io' # <<>> /\ LastOf(io') = x
    BY <2>1 DEF LastOf
  <2>4. \A u \in Tabs : u = t
    BY DEF OneTab
  <2> QED BY <2>2, <2>3, <2>4 DEF TidyInv
<1>4. ASSUME NEW t \in Tabs, Mount(t) PROVE TidyInv'
  <2> DEFINE x == Load(t)
  <2>1. /\ io' = Append(io, x) /\ io \in Seq(IoType) /\ x.kind = "load"
    BY <1>4 DEF Mount, IInv, TypeOK, Load
  <2> HIDE DEF x
  <2>2. io' # <<>> /\ LastOf(io') = x
    BY <2>1 DEF LastOf
  <2> QED BY <2>1, <2>2 DEF TidyInv
<1>5. ASSUME NEW t \in Tabs, Unmount(t) \/ Crash(t) PROVE TidyInv'
  <2>1. tab'[t] = NewOutbox("closed")
    BY <1>5 DEF Unmount, Crash, Update, IInv, TypeOK
  <2>2. tab'[t].life = "closed"
    BY <2>1, NewOutboxGood
  <2>3. \A u \in Tabs : u = t
    BY DEF OneTab
  <2> QED BY <2>2, <2>3 DEF TidyInv
<1>6. CASE StoreWritten
  <2>1. /\ io # <<>> /\ Head(io).kind = "write" /\ store' = Head(io).rows /\ io' = Tail(io)
        /\ tab' = tab /\ io \in Seq(IoType)
    BY <1>6 DEF StoreWritten, IInv, TypeOK
  <2>2. /\ Tail(io) = <<>> => LastOf(io) = Head(io)
        /\ Tail(io) # <<>> => LastOf(Tail(io)) = LastOf(io)
    BY <2>1, LastRuns
  <2> QED BY <2>1, <2>2 DEF TidyInv
<1>7. CASE Loaded
  <2> DEFINE t == Head(io).tab
  <2>1. io # <<>> /\ store' = store /\ io' = Tail(io) /\ io \in Seq(IoType)
    BY <1>7 DEF Loaded, IInv, TypeOK
  <2>2. Tail(io) # <<>> => LastOf(Tail(io)) = LastOf(io)
    BY <2>1, LastRuns
  <2>3. /\ t \in Tabs /\ tab[t].life = "loading" /\ tab'[t].life = "open"
        /\ tab'[t].dirty = tab[t].dirty
        /\ IdsOf(store) \subseteq IdsOf(tab'[t].queue)
        /\ IdsOf(tab[t].queue) \subseteq IdsOf(tab'[t].queue)
    BY <1>7, LoadedHands
  <2> HIDE DEF t
  <2>4. \A u \in Tabs : u = t
    BY <2>3 DEF OneTab
  <2> QED BY <2>1, <2>2, <2>3, <2>4 DEF TidyInv
<1>8. CASE StoreFails
  <2>1. /\ io # <<>> /\ io' = Tail(io) /\ tab' = tab /\ missed' = TRUE /\ io \in Seq(IoType)
    BY <1>8 DEF StoreFails, IInv, TypeOK
  <2>2. Tail(io) # <<>> => LastOf(Tail(io)) = LastOf(io)
    BY <2>1, LastRuns
  <2> QED BY <2>1, <2>2 DEF TidyInv
<1>9. CASE LoadFails
  <2> DEFINE t == Head(io).tab
  <2>1. /\ io # <<>> /\ io' = Tail(io) /\ tab' = tab /\ io \in Seq(IoType)
        /\ LoadsAwaited(io, tab) /\ Head(io).kind = "load"
    BY <1>9 DEF LoadFails, IInv, TypeOK
  <2>2. t \in Tabs /\ tab[t].life = "loading"
    BY <2>1, RunAwaited DEF IoType
  <2>3. Tail(io) # <<>> => LastOf(Tail(io)) = LastOf(io)
    BY <2>1, LastRuns
  <2> HIDE DEF t
  <2>4. \A u \in Tabs : u = t
    BY <2>2 DEF OneTab
  <2> QED BY <2>1, <2>2, <2>3, <2>4 DEF TidyInv
<1> QED BY <1>1, <1>2, <1>3, <1>4, <1>5, <1>6, <1>7, <1>8, <1>9, StoreKinds

\* With one tab, nothing waiting to be written and the last write not a
\* failed one, a clean outbox has every stored row in its queue, whatever was
\* answered, requeued, loaded, missed or lost with a crash in between: nothing
\* on disk was answered before.
THEOREM CleanIsTidy == ASSUME OneTab PROVE Spec => []NoStaleRows
<1>1. TidyInv => NoStaleRows
  BY DEF TidyInv, NoStaleRows
<1>2. IInv /\ OrderInv /\ TidyInv /\ [Next]_vars => TidyInv'
  BY NextTidy
<1>3. Spec => [](IInv /\ OrderInv)
  BY InitIInv, InitOrder, NextIInv, NextOrder, PTL DEF Spec
<1> QED BY <1>1, <1>2, <1>3, InitTidy, PTL DEF Spec

\* What is not done of the ids a is among the ids b.
Passes(a, done, b) == a \ done \subseteq b

\* A write of an outbox that has loaded hands on what is stored and what the
\* writes before it write, and only writes are before it.
HandedOn(q, rows, done) ==
    \A i \in DOMAIN q : q[i].kind = "write" /\ ~q[i].early =>
        /\ Passes(rows, done, IdsOf(q[i].rows))
        /\ \A j \in DOMAIN q : j < i =>
               q[j].kind = "write" /\ Passes(IdsOf(q[j].rows), done, IdsOf(q[i].rows))

\* The queue has what waits to be written ...
Writes(q, done, ids) ==
    \A i \in DOMAIN q : q[i].kind = "write" /\ Passes(IdsOf(q[i].rows), done, ids)

\* ... or what was written behind the load.
BehindLoad(q, done, ids) ==
    \A i, j \in DOMAIN q : q[i].kind = "load" /\ i < j =>
        q[j].kind = "write" /\ Passes(IdsOf(q[j].rows), done, ids)

\* A write of all that waits is handed on in turn ...
LEMMA IssueHandsOn ==
    ASSUME NEW q \in Seq(IoType), NEW x, NEW rows, NEW done, HandedOn(q, rows, done),
           x.kind = "write" /\ ~x.early =>
               Passes(rows, done, IdsOf(x.rows)) /\ Writes(q, done, IdsOf(x.rows))
    PROVE  /\ HandedOn(Append(q, x), rows, done)
           /\ \A ids : x.kind = "write" /\ IdsOf(x.rows) \subseteq ids =>
                  /\ Writes(q, done, ids) => Writes(Append(q, x), done, ids)
                  /\ BehindLoad(q, done, ids) => BehindLoad(Append(q, x), done, ids)
<1> DEFINE r == Append(q, x)
           n == Len(q)
<1>1. /\ DOMAIN q = 1 .. n /\ n \in Nat /\ DOMAIN r = 1 .. n + 1
      /\ \A i \in 1 .. n : r[i] = q[i]
      /\ r[n + 1] = x
  OBVIOUS
<1> HIDE DEF r, n
<1>2. \A i, j \in 1 .. n + 1 : j < i => j \in DOMAIN q /\ r[j] = q[j]
  BY <1>1
<1>3. \A i \in 1 .. n + 1 : i = n + 1 \/ (i \in DOMAIN q /\ r[i] = q[i])
  BY <1>1
<1>4. ASSUME NEW i \in 1 .. n + 1, r[i].kind = "write", ~r[i].early
      PROVE  /\ Passes(rows, done, IdsOf(r[i].rows))
             /\ \A j \in 1 .. n + 1 : j < i =>
                    r[j].kind = "write" /\ Passes(IdsOf(r[j].rows), done, IdsOf(r[i].rows))
  <2>1. CASE i = n + 1
    BY <1>1, <1>2, <1>4, <2>1 DEF Writes
  <2>2. CASE i \in DOMAIN q /\ r[i] = q[i]
    BY <1>2, <1>4, <2>2 DEF HandedOn
  <2> QED BY <1>3, <2>1, <2>2
<1>5. ASSUME NEW ids, x.kind = "write", IdsOf(x.rows) \subseteq ids, Writes(q, done, ids)
      PROVE  Writes(r, done, ids)
  BY <1>1, <1>3, <1>5 DEF Writes, Passes
<1>6. ASSUME NEW ids, x.kind = "write", IdsOf(x.rows) \subseteq ids, BehindLoad(q, done, ids)
      PROVE  BehindLoad(r, done, ids)
  <2>1. ASSUME NEW i \in 1 .. n + 1, NEW j \in 1 .. n + 1, r[i].kind = "load", i < j
        PROVE  r[j].kind = "write" /\ Passes(IdsOf(r[j].rows), done, ids)
    <3>1. CASE j = n + 1
      BY <1>1, <1>6, <3>1 DEF Passes
    <3>2. CASE j \in DOMAIN q /\ r[j] = q[j]
      BY <1>2, <1>6, <2>1, <3>2 DEF BehindLoad
    <3> QED BY <1>3, <3>1, <3>2
  <2> QED BY <1>1, <2>1 DEF BehindLoad
<1> QED BY <1>1, <1>4, <1>5, <1>6 DEF HandedOn, r

\* ... a transaction that is gone, whether it ran or failed, leaves the rest
\* handed on, on what is stored and on what it wrote ...
LEMMA RunHandsOn ==
    ASSUME NEW q \in Seq(IoType), q # <<>>, NEW rows, NEW done, HandedOn(q, rows, done)
    PROVE  /\ Head(q).kind = "write" /\ ~Head(q).early => Passes(rows, done, IdsOf(Head(q).rows))
           /\ HandedOn(Tail(q), rows, done)
           /\ HandedOn(Tail(q), IdsOf(Head(q).rows), done)
           /\ Head(q).kind = "load" =>
                  \A i \in DOMAIN Tail(q) : Tail(q)[i].kind = "write" => Tail(q)[i].early
           /\ \A ids :
                  /\ Writes(q, done, ids) =>
                         /\ Head(q).kind = "write" /\ Passes(IdsOf(Head(q).rows), done, ids)
                         /\ Writes(Tail(q), done, ids)
                  /\ BehindLoad(q, done, ids) =>
                         /\ BehindLoad(Tail(q), done, ids)
                         /\ Head(q).kind = "load" => Writes(Tail(q), done, ids)
<1> DEFINE r == Tail(q)
<1>1. /\ r \in Seq(IoType) /\ Len(r) = Len(q) - 1
      /\ \A i \in 1 .. Len(r) : r[i] = q[i + 1]
  BY HeadTailProperties
<1>2. Len(q) \in Nat \ {0} /\ Head(q) = q[1] /\ DOMAIN q = 1 .. Len(q) /\ DOMAIN r = 1 .. Len(r)
  BY <1>1, EmptySeq
<1> HIDE DEF r
<1>3. \A i \in DOMAIN r :
          /\ i \in Nat \ {0} /\ i + 1 \in DOMAIN q /\ 1 < i + 1 /\ r[i] = q[i + 1]
          /\ \A j \in DOMAIN r : j < i => j + 1 < i + 1
  BY <1>1, <1>2
<1>4. 1 \in DOMAIN q
  BY <1>2
<1>5. ASSUME NEW i \in DOMAIN r, r[i].kind = "write", ~r[i].early
      PROVE  /\ Passes(rows, done, IdsOf(r[i].rows))
             /\ Passes(IdsOf(Head(q).rows), done, IdsOf(r[i].rows))
             /\ Head(q).kind = "write"
             /\ \A j \in DOMAIN r : j < i =>
                    r[j].kind = "write" /\ Passes(IdsOf(r[j].rows), done, IdsOf(r[i].rows))
  <2>1. /\ Passes(rows, done, IdsOf(r[i].rows))
        /\ \A j \in DOMAIN q : j < i + 1 =>
               q[j].kind = "write" /\ Passes(IdsOf(q[j].rows), done, IdsOf(r[i].rows))
    BY <1>3, <1>5 DEF HandedOn
  <2> QED BY <1>2, <1>3, <1>4, <2>1
<1>6. Head(q).kind = "write" /\ ~Head(q).early => Passes(rows, done, IdsOf(Head(q).rows))
  BY <1>2, <1>4 DEF HandedOn
<1>7. HandedOn(r, rows, done) /\ HandedOn(r, IdsOf(Head(q).rows), done)
  BY <1>5 DEF HandedOn
<1>8. ASSUME Head(q).kind = "load", NEW i \in DOMAIN r, r[i].kind = "write", ~r[i].early
      PROVE  FALSE
  BY <1>5, <1>8
<1>9. ASSUME NEW ids, Writes(q, done, ids)
      PROVE  /\ Head(q).kind = "write" /\ Passes(IdsOf(Head(q).rows), done, ids)
             /\ Writes(r, done, ids)
  BY <1>2, <1>3, <1>4, <1>9 DEF Writes
<1>10. ASSUME NEW ids, BehindLoad(q, done, ids)
       PROVE  BehindLoad(r, done, ids) /\ (Head(q).kind = "load" => Writes(r, done, ids))
  <2>1. ASSUME NEW i \in DOMAIN r, NEW j \in DOMAIN r, r[i].kind = "load", i < j
        PROVE  r[j].kind = "write" /\ Passes(IdsOf(r[j].rows), done, ids)
    BY <1>3, <1>10, <2>1 DEF BehindLoad
  <2>2. ASSUME Head(q).kind = "load", NEW j \in DOMAIN r
        PROVE  r[j].kind = "write" /\ Passes(IdsOf(r[j].rows), done, ids)
    BY <1>2, <1>3, <1>4, <1>10, <2>2 DEF BehindLoad
  <2> QED BY <2>1, <2>2 DEF BehindLoad, Writes
<1> QED BY <1>6, <1>7, <1>8, <1>9, <1>10 DEF r

\* ... and what is kept of the transactions hands on what it did.
LEMMA KeepHandsOn ==
    ASSUME NEW q \in Seq(IoType), NEW K \in SUBSET DOMAIN q, NEW rows, NEW done,
           HandedOn(q, rows, done)
    PROVE  HandedOn(Keep(q, K), rows, done)
<1> DEFINE r == Keep(q, K)
           c == Cardinality(K)
<1>1. r \in Seq(IoType) /\ Len(r) = c /\ \A j \in 1 .. c : r[j] = q[Nth(K, j)]
  BY KeepSeq
<1>2. /\ c \in Nat /\ \A j \in 1 .. c : Nth(K, j) \in K
      /\ \A i, j \in 1 .. c : i < j => Nth(K, i) < Nth(K, j)
  BY KeepNth
<1> HIDE DEF r, c
<1>3. DOMAIN r = 1 .. c
  BY <1>1, <1>2
<1>4. \A i \in 1 .. c : Nth(K, i) \in DOMAIN q /\ r[i] = q[Nth(K, i)]
  BY <1>1, <1>2
<1> QED BY <1>2, <1>3, <1>4 DEF HandedOn, r

\* What the queue of an outbox holds of what is stored and waits.
Holds(s) ==
    /\ s.life = "open" => /\ Passes(IdsOf(store), settled, IdsOf(s.queue))
                          /\ Writes(io, settled, IdsOf(s.queue))
    /\ s.life = "loading" => BehindLoad(io, settled, IdsOf(s.queue))

\* From the stored rows through the writes that wait to the queue, every id
\* is handed on until it is settled, but for the writes issued before a load.
KeptInv ==
    /\ HandedOn(io, IdsOf(store), settled)
    /\ \A t \in Tabs : Holds(tab[t])

\* At first there is nothing to hand on.
LEMMA InitKept == Init => KeptInv
<1> SUFFICES ASSUME Init PROVE KeptInv
  OBVIOUS
<1>1. \A t \in Tabs : tab[t] = NewOutbox("closed")
  BY DEF Init
<1>2. \A t \in Tabs : tab[t].life = "closed"
  BY <1>1, NewOutboxGood
<1>3. DOMAIN io = {}
  BY DEF Init
<1> QED BY <1>2, <1>3 DEF KeptInv, Holds, HandedOn

\* A flush writes the queue: all that is stored or waits, once it is loaded.
LEMMA FlushKept ==
    ASSUME IInv, KeptInv, NEW t \in Tabs, tab[t].life # "closed"
    PROVE  /\ HandedOn(FlushTo(io, t), IdsOf(store), settled)
           /\ tab[t].life = "open"
                  => Writes(FlushTo(io, t), settled, IdsOf(tab[t].queue))
           /\ tab[t].life = "loading"
                  => BehindLoad(FlushTo(io, t), settled, IdsOf(tab[t].queue))
<1> DEFINE x == Write(t, tab[t].queue)
<1>1. io \in Seq(IoType) /\ tab[t].life \in {"closed", "loading", "open"}
  BY DEF IInv, TypeOK, OutboxType
<1>2. HandedOn(io, IdsOf(store), settled) /\ Holds(tab[t])
  BY DEF KeptInv
<1>3. CASE ~tab[t].dirty
  BY <1>2, <1>3 DEF FlushTo, Holds
<1>4. CASE tab[t].dirty
  <2>1. /\ x.kind = "write" /\ x.rows = tab[t].queue /\ FlushTo(io, t) = Append(io, x)
        /\ x.early <=> tab[t].life = "loading"
    BY <1>4 DEF Write, FlushTo
  <2> HIDE DEF x
  <2>2. x.kind = "write" /\ ~x.early =>
            Passes(IdsOf(store), settled, IdsOf(x.rows)) /\ Writes(io, settled, IdsOf(x.rows))
    BY <1>1, <1>2, <2>1 DEF Holds
  <2>3. /\ HandedOn(Append(io, x), IdsOf(store), settled)
        /\ \A ids : x.kind = "write" /\ IdsOf(x.rows) \subseteq ids =>
               /\ Writes(io, settled, ids) => Writes(Append(io, x), settled, ids)
               /\ BehindLoad(io, settled, ids) => BehindLoad(Append(io, x), settled, ids)
    BY <1>1, <1>2, <2>2, IssueHandsOn
  <2> QED BY <1>2, <2>1, <2>3 DEF Holds
<1> QED BY <1>3, <1>4

\* Nothing unanswered leaves the store but for a write issued before a load,
\* and an open outbox still has it.
Persists ==
    \A id \in IdsOf(store) \ IdsOf(store') :
        \/ id \in settled'
        \/ /\ Head(io).early
           /\ \A t \in Tabs : tab[t].life = "open" => id \in IdsOf(tab[t].queue)

\* With one tab, every step hands on what is not settled.
LEMMA NextKept ==
    ASSUME OneTab
    PROVE  IInv /\ OrderInv /\ KeptInv /\ [Next]_vars => KeptInv' /\ Persists
<1> SUFFICES ASSUME IInv, OrderInv, KeptInv, [Next]_vars PROVE KeptInv' /\ Persists
  OBVIOUS
<1>a. /\ io \in Seq(IoType) /\ tab \in [Tabs -> OutboxType]
      /\ HandedOn(io, IdsOf(store), settled)
      /\ \A t \in Tabs : Holds(tab[t]) /\ tab[t].life \in {"closed", "loading", "open"}
  BY DEF IInv, TypeOK, KeptInv, OutboxType
<1>b. ASSUME store' = store PROVE Persists
  BY <1>b DEF Persists
<1>1. CASE UNCHANGED vars
  BY <1>1, <1>b DEF vars, KeptInv, Holds
<1>2. ASSUME NEW t \in Tabs, Acts(t) PROVE KeptInv' /\ Persists
  <2>1. /\ io' = io /\ store' = store /\ settled \subseteq settled'
        /\ IdsOf(tab[t].queue) \subseteq IdsOf(tab'[t].queue) \cup settled'
        /\ tab'[t].life = tab[t].life
    BY <1>2 DEF Acts, Hands
  <2>2. \A u \in Tabs : u = t
    BY DEF OneTab
  <2>3. HandedOn(io, IdsOf(store), settled')
    BY <1>a, <2>1 DEF HandedOn, Passes
  <2>4. ASSUME tab[t].life = "open"
        PROVE  /\ Passes(IdsOf(store), settled', IdsOf(tab'[t].queue))
               /\ Writes(io, settled', IdsOf(tab'[t].queue))
    BY <1>a, <2>1, <2>4 DEF Holds, Writes, Passes
  <2>5. ASSUME tab[t].life = "loading" PROVE BehindLoad(io, settled', IdsOf(tab'[t].queue))
    BY <1>a, <2>1, <2>5 DEF Holds, BehindLoad, Passes
  <2> QED BY <1>b, <2>1, <2>2, <2>3, <2>4, <2>5 DEF KeptInv, Holds
<1>3. ASSUME NEW t \in Tabs, Flush(t) PROVE KeptInv' /\ Persists
  <2>1. /\ io' = FlushTo(io, t) /\ tab' = [tab EXCEPT ![t] = [tab[t] EXCEPT !.dirty = FALSE]]
        /\ store' = store /\ settled' = settled /\ tab[t].life # "closed"
    BY <1>3 DEF Flush, Update
  <2>2. tab'[t].queue = tab[t].queue /\ tab'[t].life = tab[t].life
    BY <1>a, <2>1 DEF OutboxType
  <2>3. /\ HandedOn(FlushTo(io, t), IdsOf(store), settled)
        /\ tab[t].life = "open" => Writes(FlushTo(io, t), settled, IdsOf(tab[t].queue))
        /\ tab[t].life = "loading" => BehindLoad(FlushTo(io, t), settled, IdsOf(tab[t].queue))
    BY <2>1, FlushKept
  <2>4. \A u \in Tabs : u = t
    BY DEF OneTab
  <2> QED BY <1>a, <1>b, <2>1, <2>2, <2>3, <2>4 DEF KeptInv, Holds
<1>4. ASSUME NEW t \in Tabs, Mount(t) PROVE KeptInv' /\ Persists
  <2> DEFINE x == Load(t)
  <2>1. /\ io' = Append(io, x) /\ x.kind = "load" /\ store' = store /\ settled' = settled
        /\ tab'[t] = NewOutbox("loading") /\ tab[t].life = "closed"
    BY <1>a, <1>4 DEF Mount, Load, Update
  <2> HIDE DEF x
  <2>2. HandedOn(Append(io, x), IdsOf(store), settled)
    BY <1>a, <2>1, IssueHandsOn
  <2>3. tab'[t].life = "loading"
    BY <2>1 DEF NewOutbox
  <2>4. \A u \in Tabs : u = t
    BY DEF OneTab
  <2>5. ASSUME NEW i \in DOMAIN io PROVE io[i].kind # "load"
    <3>1. io[i].tab = t
      BY <1>a, <2>4, IoTabs
    <3> QED BY <2>1, <3>1 DEF IInv, LoadsAwaited
  <2>6. BehindLoad(io', settled, IdsOf(tab'[t].queue))
    <3>1. /\ DOMAIN io' = 1 .. Len(io) + 1 /\ DOMAIN io = 1 .. Len(io) /\ Len(io) \in Nat
          /\ \A i \in 1 .. Len(io) : io'[i] = io[i]
      BY <1>a, <2>1
    <3>2. \A i, j \in DOMAIN io' : i < j => i \in DOMAIN io /\ io'[i] = io[i]
      BY <3>1
    <3> QED BY <2>5, <3>2 DEF BehindLoad
  <2> QED BY <1>b, <2>1, <2>2, <2>3, <2>4, <2>6 DEF KeptInv, Holds
<1>5. ASSUME NEW t \in Tabs, Unmount(t) \/ Crash(t) PROVE KeptInv' /\ Persists
  <2>1. /\ tab'[t] = NewOutbox("closed") /\ store' = store /\ settled' = settled
        /\ tab[t].life # "closed"
    BY <1>a, <1>5 DEF Unmount, Crash, Update
  <2>2. tab'[t].life = "closed"
    BY <2>1, NewOutboxGood
  <2>3. HandedOn(io', IdsOf(store), settled)
    <3>1. CASE Unmount(t)
      <4> DEFINE q == FlushTo(io, t)
                 K == {i \in DOMAIN q : ~(q[i].kind = "load" /\ q[i].tab = t)}
      <4>1. io' = Keep(q, K)
        BY <3>1 DEF Unmount, IoWithout
      <4>2. q \in Seq(IoType) /\ HandedOn(q, IdsOf(store), settled)
        BY <2>1, FlushAwaited, FlushKept
      <4> HIDE DEF q
      <4> QED BY <4>1, <4>2, KeepHandsOn
    <3>2. CASE Crash(t)
      <4> DEFINE K == {i \in DOMAIN io : ~(io[i].tab = t)}
      <4>1. io' = Keep(io, K)
        BY <3>2 DEF Crash, IoWithout
      <4> QED BY <1>a, <4>1, KeepHandsOn
    <3> QED BY <1>5, <3>1, <3>2
  <2>4. \A u \in Tabs : u = t
    BY DEF OneTab
  <2> QED BY <1>b, <2>1, <2>2, <2>3, <2>4 DEF KeptInv, Holds
<1>6. CASE StoreWritten
  <2>1. /\ io # <<>> /\ Head(io).kind = "write" /\ store' = Head(io).rows /\ io' = Tail(io)
        /\ tab' = tab /\ settled' = settled
    BY <1>6 DEF StoreWritten
  <2>2. /\ ~Head(io).early => Passes(IdsOf(store), settled, IdsOf(Head(io).rows))
        /\ HandedOn(Tail(io), IdsOf(Head(io).rows), settled)
        /\ \A ids :
               /\ Writes(io, settled, ids) =>
                      /\ Passes(IdsOf(Head(io).rows), settled, ids)
                      /\ Writes(Tail(io), settled, ids)
               /\ BehindLoad(io, settled, ids) => BehindLoad(Tail(io), settled, ids)
    BY <1>a, <2>1, RunHandsOn
  <2>3. \A t \in Tabs : Holds(tab[t])'
    BY <1>a, <2>1, <2>2 DEF Holds
  <2>4. Persists
    <3>1. CASE ~Head(io).early
      BY <2>1, <2>2, <3>1 DEF Persists, Passes
    <3>2. CASE Head(io).early
      BY <1>a, <2>1, <3>2 DEF Persists, Passes, Holds
    <3> QED BY <3>1, <3>2
  <2> QED BY <2>1, <2>2, <2>3, <2>4 DEF KeptInv
<1>7. CASE Loaded
  <2> DEFINE t == Head(io).tab
  <2>1. /\ io # <<>> /\ Head(io).kind = "load" /\ store' = store /\ io' = Tail(io)
        /\ settled' = settled
    BY <1>7 DEF Loaded
  <2>2. /\ t \in Tabs /\ tab[t].life = "loading" /\ tab'[t].life = "open"
        /\ IdsOf(store) \subseteq IdsOf(tab'[t].queue)
        /\ IdsOf(tab[t].queue) \subseteq IdsOf(tab'[t].queue)
    BY <1>7, LoadedHands
  <2> HIDE DEF t
  <2>3. \A u \in Tabs : u = t
    BY <2>2 DEF OneTab
  <2>4. /\ HandedOn(Tail(io), IdsOf(store), settled)
        /\ \A ids : BehindLoad(io, settled, ids) => Writes(Tail(io), settled, ids)
    BY <1>a, <2>1, RunHandsOn
  <2>5. Writes(Tail(io), settled, IdsOf(tab[t].queue))
    BY <1>a, <2>2, <2>4 DEF Holds
  <2>6. /\ Passes(IdsOf(store), settled, IdsOf(tab'[t].queue))
        /\ Writes(Tail(io), settled, IdsOf(tab'[t].queue))
    BY <2>2, <2>5 DEF Writes, Passes
  <2> QED BY <1>b, <2>1, <2>2, <2>3, <2>4, <2>6 DEF KeptInv, Holds
<1>8. CASE StoreFails \/ LoadFails
  <2>1. /\ io # <<>> /\ io' = Tail(io) /\ store' = store /\ tab' = tab /\ settled' = settled
    BY <1>8 DEF StoreFails, LoadFails
  <2>2. /\ HandedOn(Tail(io), IdsOf(store), settled)
        /\ \A ids :
               /\ Writes(io, settled, ids) => Writes(Tail(io), settled, ids)
               /\ BehindLoad(io, settled, ids) => BehindLoad(Tail(io), settled, ids)
    BY <1>a, <2>1, RunHandsOn
  <2>3. \A t \in Tabs : Holds(tab[t])'
    BY <1>a, <2>1, <2>2 DEF Holds
  <2> QED BY <1>b, <2>1, <2>2, <2>3 DEF KeptInv
<1> QED BY <1>1, <1>2, <1>3, <1>4, <1>5, <1>6, <1>7, <1>8, StoreKinds

\* With one tab the store is crash safe but for flushes that do not wait for
\* the load: whatever flush, answer, crash, load and failure come in between,
\* an id leaves it only once it was answered or through such a write, and
\* then an outbox that had loaded still has it in its queue.
THEOREM StoreKeeps == ASSUME OneTab PROVE Spec => OnlyEarlyFlushesLose
<1>1. IInv /\ OrderInv /\ KeptInv /\ [Next]_vars => KeptInv'
  BY NextKept
<1>2. IInv /\ OrderInv /\ KeptInv /\ [Next]_vars =>
          [\A id \in IdsOf(store) \ IdsOf(store') :
              \/ id \in settled'
              \/ /\ Head(io).early
                 /\ \A t \in Tabs : tab[t].life = "open" => id \in IdsOf(tab[t].queue)]_vars
  BY NextKept DEF Persists
<1>3. Spec => [](IInv /\ OrderInv)
  BY InitIInv, InitOrder, NextIInv, NextOrder, PTL DEF Spec
<1> QED BY <1>1, <1>2, <1>3, InitKept, PTL DEF Spec, OnlyEarlyFlushesLose

=============================================================================
