--------------------------- MODULE StudioSyncProofs ---------------------------
(***************************************************************************)
(* Proofs about module StudioSync: an edit takes effect at most once, and  *)
(* the batches of one tab take effect in the order they were queued.       *)
(*                                                                         *)
(* Both follow from where a batch may be at any time.  A batch is in the   *)
(* queue of one tab or held by it after a conflict, never both, and only   *)
(* the head of a queue was ever sent (PlaceInv).  So what a conflict hands *)
(* back never reached the server, and requeueing it under new ids doubles  *)
(* nothing: the batches that took effect or still may are different edits  *)
(* (OriginInv).  The server records what it lands (LogInv), an answer on   *)
(* its way is about the batch in flight (WireInv), and nothing is sent     *)
(* past a batch that is not answered (AnswerInv): what lands now is newer  *)
(* than what landed, unless it was refused before.                         *)
(***************************************************************************)
EXTENDS StudioSync, OutboxProofs, PageOpsProofs

\* A page at a version that the outbox can hold.
Dated(p) == "version" \in DOMAIN p /\ p.version \in Versions

-----------------------------------------------------------------------------
(* Replays in the browser *)

\* f holds the replays of the first n of the batches bs on a page.
Replayed(page, bs, n, f) ==
    f = [i \in 0 .. n |->
            IF i = 0 THEN [page |-> page, again |-> {}]
            ELSE IF Invalid(f[i - 1].page, bs[i].edit) THEN f[i - 1]
            ELSE [page  |-> Stages(f[i - 1].page, bs[i].edit)[Len(bs[i].edit)],
                  again |-> f[i - 1].again \cup {i}]]

\* The replay of dropped batches on a page that was read is defined.
LEMMA ReplaysExist ==
    ASSUME NEW page, NEW bs, NEW n \in Nat
    PROVE  \E f : Replayed(page, bs, n, f)
<1> DEFINE Then(r, i) == IF Invalid(r.page, bs[i].edit) THEN r
                         ELSE [page  |-> Stages(r.page, bs[i].edit)[Len(bs[i].edit)],
                               again |-> r.again \cup {i}]
           zero == [page |-> page, again |-> {}]
           Is(k, f) == f = [i \in 0 .. k |-> IF i = 0 THEN zero ELSE Then(f[i - 1], i)]
           T == {k \in Nat : ~ \E f : Is(k, f)}
<1>0. \A k, f : Is(k, f) <=> Replayed(page, bs, k, f)
  BY Zenon DEF Replayed
<1> HIDE DEF Then, zero
<1>1. SUFFICES ASSUME ~ \E f : Is(n, f) PROVE FALSE
  BY <1>0, Zenon
<1>9. n \in T
  BY <1>1, Zenon
<1>2. PICK k \in T : \A j \in T : k <= j
  <2>1. T \in SUBSET Nat /\ T # {}
    BY <1>9
  <2> HIDE DEF T
  <2> QED BY <2>1, LeastMember
<1>3. Is(0, [i \in 0 .. 0 |-> zero])
  OBVIOUS
<1>4. k # 0
  BY <1>2, <1>3
<1>5. k - 1 \in Nat /\ k - 1 \notin T
  BY <1>2, <1>4
<1>6. PICK f : Is(k - 1, f)
  BY <1>5
<1> DEFINE g == [i \in 0 .. k |-> IF i = k THEN Then(f[k - 1], k) ELSE f[i]]
<1>7. ASSUME NEW i \in 0 .. k
      PROVE  g[i] = IF i = 0 THEN zero ELSE Then(g[i - 1], i)
  <2>1. CASE i = k
    <3>1. g[k] = Then(f[k - 1], k) /\ g[k - 1] = f[k - 1]
      BY <1>4, <1>5
    <3> QED BY <1>4, <2>1, <3>1
  <2>2. CASE i # k
    <3>1. i \in 0 .. k - 1
      BY <1>5, <2>2
    <3>2. g[i] = f[i] /\ (i # 0 => g[i - 1] = f[i - 1])
      BY <1>5, <3>1
    <3> HIDE DEF g
    <3>3. f[i] = IF i = 0 THEN zero ELSE Then(f[i - 1], i)
      BY <1>6, <3>1, Zenon
    <3> QED BY <3>2, <3>3
  <2> QED BY <2>1, <2>2
<1>8. Is(k, g)
  <2>1. g = [i \in 0 .. k |-> g[i]]
    OBVIOUS
  <2> HIDE DEF g
  <2> QED BY <1>7, <2>1, Zenon
<1> QED BY <1>2, <1>8

\* The replay keeps the version of the page that was read, and requeues some
\* of the batches.
LEMMA RebasedIs ==
    ASSUME NEW page, Dated(page), NEW bs \in Seq(Batch)
    PROVE  /\ Dated(Rebased(page, bs).page)
           /\ Rebased(page, bs).again \in SUBSET DOMAIN bs
<1> DEFINE n == Len(bs)
           Fine(r) == SameVersion(page, r.page) /\ r.again \in SUBSET (1 .. n)
<1>1. n \in Nat /\ DOMAIN bs = 1 .. n
  OBVIOUS
<1>2. \E f : Replayed(page, bs, n, f)
  BY <1>1, ReplaysExist
<1>3. PICK f : Replayed(page, bs, n, f) /\ Rebased(page, bs) = f[n]
  BY <1>2, Zenon DEF Rebased, Replayed
<1> DEFINE T == {k \in 0 .. n : ~Fine(f[k])}
<1>4. ASSUME NEW k \in 0 .. n
      PROVE  f[k] = IF k = 0 THEN [page |-> page, again |-> {}]
                    ELSE IF Invalid(f[k - 1].page, bs[k].edit) THEN f[k - 1]
                    ELSE [page  |-> Stages(f[k - 1].page, bs[k].edit)[Len(bs[k].edit)],
                          again |-> f[k - 1].again \cup {k}]
  BY <1>3, Zenon DEF Replayed
<1>5. Fine(f[0])
  <2>1. f[0] = [page |-> page, again |-> {}]
    <3>1. 0 \in 0 .. n
      BY <1>1
    <3> QED BY <1>4, <3>1, Zenon
  <2>2. f[0].page = page /\ f[0].again = {}
    BY <2>1
  <2>3. SameVersion(page, page)
    BY DEF Dated, SameVersion
  <2> QED BY <2>2, <2>3
<1>6. ASSUME NEW k \in 1 .. n, Fine(f[k - 1]) PROVE Fine(f[k])
  <2> DEFINE q == f[k - 1].page
             ops == bs[k].edit
  <2>1. ops \in Seq(Op)
    <3>1. bs[k] \in Batch
      BY <1>1
    <3> QED BY <3>1, Documents DEF Batch
  <2>2. SameVersion(page, q) /\ SameVersion(q, q)
    BY <1>6 DEF SameVersion
  <2>3. f[k] = f[k - 1] \/ f[k] = [page  |-> Stages(q, ops)[Len(ops)],
                                   again |-> f[k - 1].again \cup {k}]
    <3>1. k \in 0 .. n /\ k # 0
      BY <1>1
    <3> QED BY <1>4, <3>1, Zenon
  <2> HIDE DEF q, ops
  <2>4. Len(ops) \in 0 .. Len(ops)
    BY <2>1
  <2>5. SameVersion(q, Stages(q, ops)[Len(ops)])
    BY <2>1, <2>2, <2>4, StagesKeepVersion
  <2>6. SameVersion(page, Stages(q, ops)[Len(ops)])
    BY <2>2, <2>5 DEF SameVersion
  <2>7. f[k - 1].again \cup {k} \in SUBSET (1 .. n)
    BY <1>6
  <2> QED BY <1>6, <2>3, <2>6, <2>7
<1> HIDE DEF Fine
<1>7. T = {}
  <2>1. SUFFICES ASSUME T # {} PROVE FALSE
    OBVIOUS
  <2>2. T \in SUBSET Nat
    BY <1>1
  <2>3. PICK k \in T : \A j \in T : k <= j
    BY <2>1, <2>2, LeastMember
  <2>4. k \in 1 .. n /\ k - 1 \in 0 .. n
    BY <1>1, <1>5, <2>3
  <2>5. k - 1 \notin T
    BY <2>3, <2>4
  <2> QED BY <1>6, <2>3, <2>4, <2>5
<1>8. Fine(f[n])
  BY <1>1, <1>7
<1> QED BY <1>1, <1>3, <1>8 DEF Fine, Dated, SameVersion

-----------------------------------------------------------------------------
(* Where the ids of one outbox are *)

HeldIds(s) == UNION {IdsOf(h.batches) : h \in s.held}
Waiting(s) == IdsOf(s.queue) \cup HeldIds(s)
Behind(s)  == {s.queue[i].id : i \in DOMAIN s.queue \ {1}}
Taken(s)   == {s.accepted[i] : i \in DOMAIN s.accepted}

\* No batch is in two places of one tab.
Parted(s) ==
    /\ IdsOf(s.queue) \cap HeldIds(s) = {}
    /\ \A h, k \in s.held : h # k => IdsOf(h.batches) \cap IdsOf(k.batches) = {}
    /\ \A h \in s.held : Distinct(IdSeq(h.batches))

\* What is answered was taken in, and ids are taken in in rising order.
Rising(s) ==
    /\ s.answered \subseteq Taken(s)
    /\ \A i, j \in DOMAIN s.accepted : i < j => s.accepted[i] < s.accepted[j]

\* h is what a conflict hands over: batches from behind the head.
Dropped(s, u, h) ==
    /\ IdsOf(h.batches) \subseteq Behind(s) \ IdsOf(u.queue)
    /\ Distinct(IdSeq(h.batches))

\* The outbox takes in nothing; what leaves its queue is gone, or held.
Releases(s, u) ==
    /\ IdsOf(u.queue) \subseteq IdsOf(s.queue) /\ Behind(u) \subseteq Behind(s)
    /\ u.accepted = s.accepted /\ u.life = s.life
    /\ u.held = s.held \/ \E h : u.held = s.held \cup {h} /\ Dropped(s, u, h)

\* The outbox takes in the ids from n to m - 1, and may let go what it held.
TakesIn(s, u, n, m) ==
    /\ IdsOf(u.queue) \subseteq IdsOf(s.queue) \cup n .. m - 1
    /\ Behind(u) \subseteq Behind(s) \cup n .. m - 1
    /\ Taken(u) = Taken(s) \cup n .. m - 1
    /\ u.held \subseteq s.held /\ u.answered = s.answered /\ u.life = s.life

\* What is in flight stays in flight.
Undisturbed(s, u) == s.sending # NoBatch => u.sending = s.sending

\* A queue in order: its head is the first unanswered batch taken in.
LEMMA HeadIsFirst ==
    ASSUME NEW s \in OutboxType, NEW n \in Nat, Ordered(s, n), Rising(s)
    PROVE  /\ IdsOf(s.queue) \subseteq Taken(s) /\ IdsOf(s.queue) \cap s.answered = {}
           /\ Distinct(IdSeq(s.queue)) /\ \A i \in IdsOf(s.queue) : i < n
           /\ \A i \in Taken(s) : i < n
           /\ s.queue # <<>> => \A i \in Taken(s) : i < Head(s.queue).id => i \in s.answered
<1> DEFINE A == s.accepted
           U == Unanswered(s)
           c == Cardinality(U)
           q == s.queue
<1>1. A \in Seq(Ids) /\ U \in SUBSET DOMAIN A /\ q \in Seq(Batch)
  BY DEF OutboxType, Unanswered
<1>2. IdSeq(q) = Keep(A, U)
  BY DEF Ordered
<1>3. /\ \A i \in DOMAIN A : i \in U <=> A[i] \notin s.answered
      /\ \A i \in DOMAIN A : A[i] < n
      /\ \A i, j \in DOMAIN A : i < j => A[i] < A[j]
  BY DEF Ordered, Rising, Unanswered
<1>4. SoundRows(q, n)
  BY SoundQueue
<1>5. Taken(s) = {A[i] : i \in DOMAIN A}
  BY DEF Taken
<1> HIDE DEF A, U, q
<1>6. /\ c \in Nat /\ \A j \in 1 .. c : Nth(U, j) \in U
      /\ \A i, j \in 1 .. c : i < j => Nth(U, i) < Nth(U, j)
      /\ \A k \in U : \E j \in 1 .. c : Nth(U, j) = k
  BY <1>1, KeepNth
<1>7. /\ Keep(A, U) \in Seq(Ids) /\ Len(Keep(A, U)) = c
      /\ \A j \in 1 .. c : Keep(A, U)[j] = A[Nth(U, j)]
  BY <1>1, KeepSeq
<1>8. Len(IdSeq(q)) = Len(q) /\ \A i \in 1 .. Len(q) : IdSeq(q)[i] = q[i].id
  BY <1>1, IdSeqIs
<1>9. DOMAIN q = 1 .. Len(q)
  BY <1>1
<1>10. DOMAIN q = 1 .. c /\ \A i \in 1 .. c : q[i].id = A[Nth(U, i)]
  BY <1>2, <1>7, <1>8, <1>9
<1>11. \A i \in DOMAIN q : \E k \in U : q[i].id = A[k]
  BY <1>6, <1>10
<1>12. \A i \in IdsOf(q) : i \in Taken(s) /\ i \notin s.answered /\ i < n
  BY <1>1, <1>3, <1>5, <1>11 DEF IdsOf
<1>13. ASSUME q # <<>>, NEW i \in Taken(s), i < Head(q).id PROVE i \in s.answered
  <2>1. PICK k \in DOMAIN A : i = A[k]
    BY <1>5
  <2>2. SUFFICES ASSUME k \in U PROVE FALSE
    BY <1>3, <2>1
  <2>3. PICK j \in 1 .. c : Nth(U, j) = k
    BY <1>6, <2>2
  <2>4. 1 \in 1 .. c /\ Head(q).id = q[1].id
    BY <1>1, <1>6, <1>10, <1>13, <2>3
  <2>5. Head(q).id = A[Nth(U, 1)] /\ Nth(U, 1) \in DOMAIN A
    BY <1>1, <1>6, <1>10, <2>4
  <2>6. j = 1 \/ Nth(U, 1) < k
    <3>1. j = 1 \/ 1 < j
      OBVIOUS
    <3> QED BY <1>6, <2>3, <2>4, <3>1
  <2>7. A[k] \in Nat /\ A[Nth(U, 1)] \in Nat
    <3>1. A[k] \in Ids /\ A[Nth(U, 1)] \in Ids
      BY <1>1, <2>5
    <3> QED BY <3>1 DEF Ids
  <2>8. ~(A[k] < A[Nth(U, 1)])
    BY <1>3, <2>3, <2>5, <2>6, <2>7
  <2> QED BY <1>13, <2>1, <2>5, <2>8
<1>14. \A i \in Taken(s) : i < n
  BY <1>3, <1>5
<1>15. Distinct(IdSeq(q))
  BY <1>4 DEF SoundRows
<1> QED BY <1>12, <1>13, <1>14, <1>15 DEF q

\* Ids and positions, from the marks of a queue.
IdsAt(m, K) == {m[i].id : i \in K}

\* The ids of a queue, and those behind its head, show in its marks.
LEMMA MarkedIds ==
    ASSUME NEW q \in Seq(Batch), NEW m, m = Marks(q)
    PROVE  /\ IdsOf(q) = IdsAt(m, DOMAIN m)
           /\ IdsAt(q, DOMAIN q \ {1}) = IdsAt(m, DOMAIN m \ {1})
<1>1. DOMAIN m = DOMAIN q /\ \A i \in DOMAIN q : m[i] = Entry(q[i])
  BY MarksSeq
<1>2. \A b : Entry(b).id = b.id
  BY DEF Entry
<1>3. \A i \in DOMAIN q : m[i].id = q[i].id
  BY <1>1, <1>2
<1>4. IdsOf(q) = IdsAt(m, DOMAIN m)
  BY <1>1, <1>3 DEF IdsOf, IdsAt
<1>5. IdsAt(q, DOMAIN q \ {1}) = IdsAt(m, DOMAIN m \ {1})
  BY <1>1, <1>3 DEF IdsAt
<1> QED BY <1>4, <1>5

\* Nothing moved in the queue.
LEMMA StaysIds ==
    ASSUME NEW s \in OutboxType, NEW u \in OutboxType, Stays(s, u)
    PROVE  /\ IdsOf(u.queue) = IdsOf(s.queue) /\ Behind(u) = Behind(s)
           /\ Taken(u) = Taken(s)
<1>1. s.queue \in Seq(Batch) /\ u.queue \in Seq(Batch)
  BY DEF OutboxType
<1>2. PICK m : m = Marks(s.queue) /\ m = Marks(u.queue)
  BY DEF Stays
<1>3. /\ IdsOf(s.queue) = IdsAt(m, DOMAIN m)
      /\ IdsAt(s.queue, DOMAIN s.queue \ {1}) = IdsAt(m, DOMAIN m \ {1})
  BY <1>1, <1>2, MarkedIds
<1>4. /\ IdsOf(u.queue) = IdsAt(m, DOMAIN m)
      /\ IdsAt(u.queue, DOMAIN u.queue \ {1}) = IdsAt(m, DOMAIN m \ {1})
  BY <1>1, <1>2, MarkedIds
<1>5. Behind(s) = IdsAt(s.queue, DOMAIN s.queue \ {1}) /\ Behind(u) = IdsAt(u.queue, DOMAIN u.queue \ {1})
  BY DEF Behind, IdsAt
<1>6. Taken(u) = Taken(s)
  BY DEF Stays, Taken
<1> QED BY <1>3, <1>4, <1>5, <1>6

\* The queue lost its head and perhaps more.
LEMMA ServesIds ==
    ASSUME NEW s \in OutboxType, NEW u \in OutboxType, s.queue # <<>>,
           NEW J \in SUBSET NotHead(s), Serves(s, u, J)
    PROVE  /\ IdsOf(u.queue) = {s.queue[j].id : j \in J}
           /\ Behind(u) \subseteq Behind(s) /\ IdsOf(u.queue) \subseteq Behind(s)
           /\ IdsOf(u.queue) \subseteq IdsOf(s.queue)
           /\ Taken(u) = Taken(s)
<1> DEFINE q == s.queue  k == Keep(q, J)
<1>1. q \in Seq(Batch) /\ u.queue \in Seq(Batch) /\ J \in SUBSET DOMAIN q
  BY DEF OutboxType, NotHead
<1>2. k \in Seq(Batch) /\ Marks(u.queue) = Marks(k)
  BY <1>1, KeepSeq, MarksKeep DEF Serves
<1>3. IdsOf(u.queue) = IdsOf(k)
  <2> HIDE DEF k
  <2>1. PICK m : m = Marks(k) /\ m = Marks(u.queue)
    BY <1>2
  <2>2. IdsOf(k) = IdsAt(m, DOMAIN m)
    BY <1>2, <2>1, MarkedIds
  <2>3. IdsOf(u.queue) = IdsAt(m, DOMAIN m)
    BY <1>1, <2>1, MarkedIds
  <2> QED BY <2>2, <2>3
<1>4. IdsOf(k) = {q[j].id : j \in J}
  BY <1>1, KeptIds
<1>5. Behind(u) \subseteq IdsOf(u.queue)
  BY DEF Behind, IdsOf
<1>6. \A j \in J : j \in DOMAIN q \ {1}
  BY DEF NotHead
<1>7. {q[j].id : j \in J} \subseteq Behind(s)
  BY <1>6 DEF Behind
<1>8. Behind(s) \subseteq IdsOf(q)
  BY DEF Behind, IdsOf
<1>9. Taken(u) = Taken(s)
  BY DEF Serves, Taken
<1> HIDE DEF k
<1> QED BY <1>3, <1>4, <1>5, <1>7, <1>8, <1>9 DEF q

-----------------------------------------------------------------------------
(* What a method does to what is held and in flight *)

\* drain() leaves what is held, and what is in flight, alone.
LEMMA DrainedRest ==
    ASSUME NEW s \in OutboxType
    PROVE  Drained(s).held = s.held /\ Undisturbed(s, Drained(s))
<1>1. CASE CanDrain(s)
  <2> DEFINE b == HeadToSend(s)
             q == [s.queue EXCEPT ![1] = b]
  <2>1. Drained(s) = [s EXCEPT !.queue = q, !.sending = b, !.last = b]
    BY <1>1 DEF Drained
  <2>2. s.sending = NoBatch
    BY <1>1 DEF CanDrain
  <2> HIDE DEF q, b
  <2> QED BY <2>1, <2>2 DEF OutboxType, Undisturbed
<1>2. CASE ~CanDrain(s)
  BY <1>2 DEF Drained, Undisturbed
<1> QED BY <1>1, <1>2

\* The next batch going out changes nothing of what is held.
LEMMA LandedHeld ==
    ASSUME NEW s \in OutboxType
    PROVE  Landed(s).held = s.held
<1> DEFINE e == [s EXCEPT !.sending = NoBatch]
<1>1. e \in OutboxType /\ e.held = s.held
  BY DEF OutboxType
<1>2. Landed(s) = Drained(e)
  BY DEF Landed
<1> HIDE DEF e
<1> QED BY <1>1, <1>2, DrainedRest

\* Noting a page version touches neither what is held nor what is in flight.
LEMMA NotedRest ==
    ASSUME NEW s \in OutboxType, NEW p \in Pages, NEW v \in Versions
    PROVE  Noted(s, p, v).held = s.held /\ Undisturbed(s, Noted(s, p, v))
BY NotedGood DEF Undisturbed

\* A batch that is queued touches neither of them.
LEMMA EnqueuedRest ==
    ASSUME NEW s \in OutboxType, NEW bs \in Seq(Batch)
    PROVE  Enqueued(s, bs).held = s.held /\ Undisturbed(s, Enqueued(s, bs))
<1> DEFINE q == s.queue \o bs
           a == s.accepted \o IdSeq(bs)
           d == s.dirty \/ bs # <<>>
           e == [s EXCEPT !.queue = q, !.accepted = a, !.dirty = d]
<1>1. s.queue \in Seq(Batch) /\ s.accepted \in Seq(Ids)
  BY DEF OutboxType
<1>2. q \in Seq(Batch) /\ a \in Seq(Ids) /\ d \in BOOLEAN
  BY <1>1, IdsOfQueue, ConcatProperties
<1>3. Enqueued(s, bs) = Drained(e)
  BY DEF Enqueued
<1> HIDE DEF q, a, d
<1>4. e \in OutboxType /\ e.held = s.held /\ e.sending = s.sending
  BY <1>2 DEF OutboxType
<1> HIDE DEF e
<1> QED BY <1>3, <1>4, DrainedRest DEF Undisturbed

\* What an answer hands over: the head, and batches behind it.
LEMMA ServesAnswered ==
    ASSUME NEW s \in OutboxType, Flying(s), s.sending # NoBatch, NEW u, NEW J, Serves(s, u, J)
    PROVE  u.answered \subseteq s.answered \cup {s.sending.id} \cup Behind(s)
<1>1. s.queue # <<>> /\ s.queue \in Seq(Batch) /\ s.queue[1] = s.sending
  BY HeadAndTail DEF Flying
<1>2. \A i \in DOMAIN s.queue : s.queue[i].id \in {s.sending.id} \cup Behind(s)
  BY <1>1 DEF Behind
<1> QED BY <1>2 DEF Serves

\* If only the head leaves, only it is answered.
LEMMA HeadOnlyAnswered ==
    ASSUME NEW s \in OutboxType, Flying(s), s.sending # NoBatch, NEW u, Serves(s, u, NotHead(s))
    PROVE  u.answered = s.answered \cup {s.sending.id}
<1>1. s.queue # <<>> /\ s.queue \in Seq(Batch) /\ s.queue[1] = s.sending
  BY HeadAndTail DEF Flying
<1>2. DOMAIN s.queue \ NotHead(s) = {1}
  BY <1>1, EmptySeq DEF NotHead
<1> QED BY <1>1, <1>2 DEF Serves

\* 2xx lets the head go.
LEMMA AckReleases ==
    ASSUME NEW s \in OutboxType, Flying(s), s.sending # NoBatch, NEW v \in Versions
    PROVE  /\ Releases(s, AfterAck(s, v))
           /\ AfterAck(s, v).answered = s.answered \cup {s.sending.id}
<1> DEFINE e == [s EXCEPT !.queue = Tail(@), !.dirty = TRUE,
                          !.attempt = 0, !.answered = @ \cup {s.sending.id}]
           n == Noted(e, s.sending.page, v)
           u == AfterAck(s, v)
<1>0. Tail(s.queue) \in Seq(Batch) /\ s.sending.id \in Ids /\ s.sending.page \in Pages /\ s.queue # <<>>
  BY HeadAndTail
<1>1. e \in OutboxType /\ e.held = s.held
  BY <1>0, ZeroAttempts DEF OutboxType
<1>2. u = Landed(n)
  BY DEF AfterAck
<1>3. u \in OutboxType /\ Serves(s, u, NotHead(s))
  BY AckGood, AckServes DEF Good
<1> HIDE DEF e, u
<1>4. n \in OutboxType /\ n.held = s.held
  BY <1>0, <1>1, NotedGood, NotedRest
<1> HIDE DEF n
<1>5. u.held = s.held
  BY <1>2, <1>4, LandedHeld
<1>6. u.answered = s.answered \cup {s.sending.id}
  BY <1>3, HeadOnlyAnswered
<1>7. IdsOf(u.queue) \subseteq IdsOf(s.queue) /\ Behind(u) \subseteq Behind(s)
  BY <1>0, <1>3, ServesIds
<1>8. u.accepted = s.accepted /\ u.life = s.life
  BY <1>3 DEF Serves
<1>9. Releases(s, u)
  BY <1>5, <1>7, <1>8 DEF Releases
<1> QED BY <1>6, <1>9 DEF u

\* A refusal lets the head go; a lock or a missing answer lets nothing go.
LEMMA RefusalReleases ==
    ASSUME NEW s \in OutboxType, Flying(s), s.sending # NoBatch
    PROVE  /\ Releases(s, AfterRejection(s)) /\ Releases(s, AfterLocked(s))
           /\ Releases(s, AfterFailure(s))
           /\ AfterRejection(s).answered = s.answered \cup {s.sending.id}
           /\ AfterLocked(s).answered = s.answered /\ AfterFailure(s).answered = s.answered
<1> DEFINE e == [s EXCEPT !.locked = TRUE, !.attempt = 0]
           r == [s EXCEPT !.queue = Tail(@), !.dirty = TRUE, !.attempt = 0,
                          !.answered = @ \cup {s.sending.id}]
           a == IF s.attempt < MaxAttempt THEN s.attempt + 1 ELSE s.attempt
           f == [s EXCEPT !.attempt = a, !.timer = TRUE]
<1>0. Tail(s.queue) \in Seq(Batch) /\ s.sending.id \in Ids /\ a \in 0 .. MaxAttempt
  BY HeadAndTail, Bounds DEF OutboxType
<1>1. AfterLocked(s) = Landed(e) /\ AfterRejection(s) = Landed(r) /\ AfterFailure(s) = Landed(f)
  BY DEF AfterLocked, AfterRejection, AfterFailure
<1> HIDE DEF a
<1>2. e \in OutboxType /\ r \in OutboxType /\ f \in OutboxType
  BY <1>0, ZeroAttempts DEF OutboxType
<1>3. e.held = s.held /\ r.held = s.held /\ f.held = s.held
  BY DEF OutboxType
<1> HIDE DEF e, r, f
<1>4. /\ AfterLocked(s).held = s.held /\ AfterRejection(s).held = s.held
      /\ AfterFailure(s).held = s.held
  BY <1>1, <1>2, <1>3, LandedHeld
<1>5. /\ AfterLocked(s) \in OutboxType /\ AfterRejection(s) \in OutboxType
      /\ AfterFailure(s) \in OutboxType
  BY RefusalGood, FailureGood DEF Good
<1>6. /\ Serves(s, AfterRejection(s), NotHead(s)) /\ Stays(s, AfterLocked(s))
      /\ Stays(s, AfterFailure(s))
  BY RefusalServes
<1>7. \A u \in OutboxType : Stays(s, u) /\ u.held = s.held => Releases(s, u) /\ u.answered = s.answered
  <2> TAKE u \in OutboxType
  <2> HAVE Stays(s, u) /\ u.held = s.held
  <2>1. IdsOf(u.queue) = IdsOf(s.queue) /\ Behind(u) = Behind(s)
    BY StaysIds
  <2> QED BY <2>1 DEF Releases, Stays
<1>8. \A u \in OutboxType : Serves(s, u, NotHead(s)) /\ u.held = s.held => Releases(s, u)
  <2> TAKE u \in OutboxType
  <2> HAVE Serves(s, u, NotHead(s)) /\ u.held = s.held
  <2>1. s.queue # <<>>
    BY HeadAndTail
  <2>2. IdsOf(u.queue) \subseteq IdsOf(s.queue) /\ Behind(u) \subseteq Behind(s)
    BY <2>1, ServesIds
  <2> QED BY <2>2 DEF Releases, Serves
<1>9. AfterRejection(s).answered = s.answered \cup {s.sending.id}
  BY <1>6, HeadOnlyAnswered
<1> QED BY <1>4, <1>5, <1>6, <1>7, <1>8, <1>9

\* A part of a sequence of distinct elements has distinct elements.
LEMMA KeepDistinct ==
    ASSUME NEW S, NEW a \in Seq(S), NEW K \in SUBSET DOMAIN a, Distinct(a)
    PROVE  Distinct(Keep(a, K))
<1> DEFINE c == Cardinality(K)
           k == Keep(a, K)
<1>1. /\ c \in Nat /\ \A j \in 1 .. c : Nth(K, j) \in K
      /\ \A i, j \in 1 .. c : i < j => Nth(K, i) < Nth(K, j)
  BY KeepNth
<1>2. k \in Seq(S) /\ Len(k) = c /\ \A j \in 1 .. c : k[j] = a[Nth(K, j)]
  BY KeepSeq
<1> HIDE DEF c, k
<1>3. ASSUME NEW i \in 1 .. c, NEW j \in 1 .. c, k[i] = k[j] PROVE i = j
  <2>1. a[Nth(K, i)] = a[Nth(K, j)] /\ Nth(K, i) \in DOMAIN a /\ Nth(K, j) \in DOMAIN a
    BY <1>1, <1>2, <1>3
  <2>2. Nth(K, i) = Nth(K, j) /\ Nth(K, i) \in Int
    BY <2>1 DEF Distinct
  <2>3. ~(Nth(K, i) < Nth(K, j)) /\ ~(Nth(K, j) < Nth(K, i))
    BY <2>2
  <2>4. ~(i < j) /\ ~(j < i)
    BY <1>1, <2>3
  <2> QED BY <2>4
<1>4. DOMAIN k = 1 .. c
  BY <1>1, <1>2
<1>5. Distinct(k)
  BY <1>3, <1>4 DEF Distinct
<1> QED BY <1>5 DEF k

\* 409 lets the head go and holds what followed it for the same page.
LEMMA ConflictReleases ==
    ASSUME NEW s \in OutboxType, Flying(s), s.sending # NoBatch, NEW v \in Versions,
           Distinct(IdSeq(s.queue))
    PROVE  /\ Releases(s, AfterConflict(s, v))
           /\ AfterConflict(s, v).answered \subseteq s.answered \cup {s.sending.id} \cup Behind(s)
<1> DEFINE b    == s.sending
           q    == s.queue
           rest == Tail(q)
           same == {i \in DOMAIN rest : rest[i].page = b.page}
           S    == Shifted(same, 1)
           drop == Keep(rest, same)
           h    == [page |-> b.page, batches |-> drop]
           e == [s EXCEPT !.queue = Keep(rest, DOMAIN rest \ same), !.dirty = TRUE, !.attempt = 0,
                          !.held = @ \cup {h}, !.answered = @ \cup {b.id} \cup IdsOf(drop)]
           n == Noted(e, b.page, v)
           u == AfterConflict(s, v)
<1>1. rest \in Seq(Batch) /\ b.page \in Pages /\ b.id \in Ids /\ q \in Seq(Batch) /\ q # <<>>
  BY HeadAndTail
<1>2. drop \in Seq(Batch) /\ Keep(rest, DOMAIN rest \ same) \in Seq(Batch)
  BY <1>1, KeepSeq
<1>3. IdsOf(drop) \subseteq Ids
  BY <1>2, IdsOfQueue
<1>4. u = Landed(n)
  BY DEF AfterConflict
<1>5. /\ Len(q) \in Nat \ {0} /\ DOMAIN q = 1 .. Len(q) /\ q[1] = b /\ Head(q) = b
      /\ DOMAIN rest = 1 .. Len(q) - 1
      /\ \A i \in 1 .. Len(q) - 1 : rest[i] = q[i + 1]
  <2>1. Head(q) = b
    BY DEF Flying
  <2>2. Len(q) \in Nat \ {0} /\ DOMAIN q = 1 .. Len(q) /\ Head(q) = q[1]
    BY <1>1, EmptySeq
  <2>3. Len(rest) = Len(q) - 1 /\ \A i \in 1 .. Len(rest) : rest[i] = q[i + 1]
    BY <1>1, HeadTailProperties
  <2> HIDE DEF rest, b, q
  <2> QED BY <1>1, <2>1, <2>2, <2>3
<1>6. same \in SUBSET DOMAIN rest /\ \A i \in same : rest[i].page = b.page
  OBVIOUS
<1>7. \A i \in S : i \in DOMAIN q \ {1} /\ q[i].page = b.page
  <2> HIDE DEF rest, b, q, same
  <2>1. \A j \in same : 1 + j \in 1 .. Len(q) /\ 1 + j # 1 /\ q[1 + j].page = b.page
    <3> TAKE j \in same
    <3>1. j \in 1 .. Len(q) - 1
      BY <1>5, <1>6
    <3>2. rest[j] = q[j + 1] /\ j + 1 = 1 + j
      BY <1>5, <3>1
    <3> QED BY <1>5, <1>6, <3>1, <3>2
  <2> QED BY <1>5, <2>1 DEF Shifted
<1>8. drop = Keep(q, S)
  <2>1. same \in SUBSET DOMAIN Tail(q)
    OBVIOUS
  <2> HIDE DEF same, q
  <2> QED BY <1>1, <2>1, KeepOfTail DEF rest
<1>9. u \in OutboxType /\ Serves(s, u, OtherPages(s))
  BY ConflictGood, ConflictServes DEF Good
<1>10. e \in OutboxType /\ e.held = s.held \cup {h}
  <2>1. h \in [page : Pages, batches : Seq(Batch)]
    BY <1>1, <1>2
  <2>2. s.answered \cup {b.id} \cup IdsOf(drop) \in SUBSET Ids
    BY <1>1, <1>3 DEF OutboxType
  <2>3. s.held \cup {h} \in SUBSET [page : Pages, batches : Seq(Batch)]
    BY <2>1 DEF OutboxType
  <2> HIDE DEF b, drop, h, rest, same
  <2> QED BY <1>2, <2>2, <2>3, ZeroAttempts DEF OutboxType
<1> HIDE DEF u, e
<1>11. n \in OutboxType /\ n.held = s.held \cup {h}
  BY <1>1, <1>10, NotedGood, NotedRest
<1> HIDE DEF n
<1>12. u.held = s.held \cup {h}
  BY <1>4, <1>11, LandedHeld
<1>13. u.answered \subseteq s.answered \cup {s.sending.id} \cup Behind(s)
  BY <1>9, ServesAnswered
<1>14. OtherPages(s) \in SUBSET NotHead(s) /\ \A i \in OtherPages(s) : q[i].page # b.page
  <2>1. \A i \in OtherPages(s) : i \in DOMAIN q /\ q[i].page # b.page
    BY <1>5 DEF OtherPages
  <2> HIDE DEF b
  <2> QED BY <1>5, <2>1 DEF NotHead
<1>15. /\ IdsOf(u.queue) = {q[j].id : j \in OtherPages(s)}
       /\ Behind(u) \subseteq Behind(s) /\ IdsOf(u.queue) \subseteq IdsOf(s.queue)
  <2> HIDE DEF b
  <2> QED BY <1>1, <1>9, <1>14, ServesIds
<1> HIDE DEF b, rest, same, drop, S
<1>16. IdsOf(drop) = {q[k].id : k \in S} /\ Distinct(IdSeq(drop))
  <2>1. S \in SUBSET DOMAIN q
    BY <1>7
  <2> HIDE DEF q
  <2>2. IdsOf(drop) = {q[k].id : k \in S}
    BY <1>1, <1>8, <2>1, KeptIds
  <2>3. IdSeq(drop) = Keep(IdSeq(q), S) /\ IdSeq(q) \in Seq(Ids) /\ DOMAIN IdSeq(q) = DOMAIN q
    <3>1. DOMAIN IdSeq(q) = DOMAIN q
      BY DEF IdSeq
    <3>2. IdSeq(q) \in Seq(Ids)
      BY <1>1, IdsOfQueue
    <3>3. IdSeq(Keep(q, S)) = Keep(IdSeq(q), S)
      BY <1>1, <2>1, IdSeqKeep, Zenon
    <3> QED BY <1>8, <3>1, <3>2, <3>3
  <2>4. Distinct(IdSeq(q))
    BY DEF q
  <2>5. Distinct(Keep(IdSeq(q), S))
    BY <2>1, <2>3, <2>4, KeepDistinct
  <2> QED BY <2>2, <2>3, <2>5
<1>17. \A i, j \in DOMAIN q : q[i].id = q[j].id => i = j
  <2>1. DOMAIN IdSeq(q) = DOMAIN q /\ \A i \in DOMAIN q : IdSeq(q)[i] = q[i].id
    BY DEF IdSeq
  <2> QED BY <2>1 DEF Distinct
<1>18. IdsOf(drop) \subseteq Behind(s) \ IdsOf(u.queue)
  <2>1. ASSUME NEW k \in S PROVE q[k].id \in Behind(s) /\ q[k].id \notin IdsOf(u.queue)
    <3>1. k \in DOMAIN q \ {1} /\ q[k].page = b.page
      BY <1>7
    <3>2. q[k].id \in Behind(s)
      BY <3>1 DEF Behind
    <3>3. ASSUME NEW j \in OtherPages(s), q[j].id = q[k].id PROVE FALSE
      <4>1. j \in DOMAIN q /\ q[j].page # b.page
        BY <1>14 DEF NotHead
      <4> QED BY <1>17, <3>1, <3>3, <4>1
    <3> QED BY <1>15, <3>2, <3>3
  <2> QED BY <1>16, <2>1
<1>19. Dropped(s, u, h)
  BY <1>16, <1>18 DEF Dropped, h
<1>20. u.accepted = s.accepted /\ u.life = s.life
  BY <1>9 DEF Serves
<1>21. Releases(s, u)
  BY <1>12, <1>15, <1>19, <1>20 DEF Releases
<1> QED BY <1>13, <1>21 DEF u

\* Batches typed or requeued enter behind the others.
LEMMA GrowsTakesIn ==
    ASSUME NEW s \in OutboxType, NEW u \in OutboxType, NEW n \in Nat, NEW bs \in Seq(Batch),
           Ordered(s, n), Rising(s), Fresh(bs, n), Grows(s, u, bs), u.held \subseteq s.held
    PROVE  TakesIn(s, u, n, n + Len(bs)) /\ Rising(u)
<1> DEFINE q == s.queue
           c == q \o bs
           A == s.accepted
           B == IdSeq(bs)
           a == A \o B
           N == n .. n + Len(bs) - 1
<1>1. q \in Seq(Batch) /\ u.queue \in Seq(Batch) /\ A \in Seq(Ids) /\ B \in Seq(Ids)
  BY IdsOfQueue DEF OutboxType
<1>2. /\ Len(q) \in Nat /\ Len(bs) \in Nat /\ Len(A) \in Nat
      /\ DOMAIN q = 1 .. Len(q) /\ DOMAIN bs = 1 .. Len(bs) /\ DOMAIN A = 1 .. Len(A)
  BY <1>1
<1>3. /\ c \in Seq(Batch) /\ Len(c) = Len(q) + Len(bs)
      /\ \A i \in 1 .. Len(q) : c[i] = q[i]
      /\ \A i \in 1 .. Len(bs) : c[Len(q) + i] = bs[i]
  BY <1>1, ConcatParts
<1>4. Marks(u.queue) = Marks(c)
  BY <1>1, MarksConcat DEF Grows
<1>5. Len(B) = Len(bs) /\ \A i \in 1 .. Len(bs) : B[i] = bs[i].id
  BY IdSeqIs
<1>6. u.accepted = a /\ u.answered = s.answered /\ u.life = s.life
  BY DEF Grows
<1> HIDE DEF B, c, q, A
<1>7. /\ a \in Seq(Ids) /\ Len(a) = Len(A) + Len(bs)
      /\ \A i \in 1 .. Len(A) : a[i] = A[i]
      /\ \A i \in 1 .. Len(bs) : a[Len(A) + i] = B[i]
  <2>1. /\ a \in Seq(Ids) /\ Len(a) = Len(A) + Len(B)
        /\ \A i \in 1 .. Len(A) : a[i] = A[i]
        /\ \A i \in 1 .. Len(B) : a[Len(A) + i] = B[i]
    BY <1>1, ConcatParts
  <2> QED BY <1>5, <2>1
<1> HIDE DEF a
<1>8. \A i \in 1 .. Len(bs) : bs[i].id = n + i - 1 /\ n + i - 1 \in N
  BY <1>2 DEF Fresh
<1>9. \A x \in N : x - n + 1 \in 1 .. Len(bs) /\ n + (x - n + 1) - 1 = x
  BY <1>2
<1>10. DOMAIN c = 1 .. Len(q) + Len(bs) /\ DOMAIN a = 1 .. Len(A) + Len(bs)
  BY <1>3, <1>7
<1> HIDE DEF N
<1>11. ASSUME NEW i \in DOMAIN c PROVE (i \in DOMAIN q /\ c[i] = q[i]) \/ c[i].id \in N
  <2>1. CASE i <= Len(q)
    BY <1>2, <1>3, <1>10, <2>1
  <2>2. CASE ~(i <= Len(q))
    <3>1. i - Len(q) \in 1 .. Len(bs) /\ Len(q) + (i - Len(q)) = i
      BY <1>2, <1>10, <2>2
    <3>2. c[i] = bs[i - Len(q)]
      BY <1>3, <3>1
    <3> QED BY <1>8, <3>1, <3>2
  <2> QED BY <2>1, <2>2
<1>12. /\ IdsAt(c, DOMAIN c) \subseteq IdsAt(q, DOMAIN q) \cup N
       /\ IdsAt(c, DOMAIN c \ {1}) \subseteq IdsAt(q, DOMAIN q \ {1}) \cup N
  BY <1>11 DEF IdsAt
<1>13. PICK m : m = Marks(c) /\ m = Marks(u.queue)
  BY <1>4
<1>14. IdsOf(u.queue) = IdsAt(m, DOMAIN m) /\ IdsAt(u.queue, DOMAIN u.queue \ {1}) = IdsAt(m, DOMAIN m \ {1})
  BY <1>1, <1>13, MarkedIds
<1>15. IdsOf(c) = IdsAt(m, DOMAIN m) /\ IdsAt(c, DOMAIN c \ {1}) = IdsAt(m, DOMAIN m \ {1})
  BY <1>3, <1>13, MarkedIds
<1>16. /\ \A x : IdsOf(x) = IdsAt(x, DOMAIN x)
       /\ \A x : Behind(x) = IdsAt(x.queue, DOMAIN x.queue \ {1})
  BY DEF IdsOf, Behind, IdsAt
<1>17. IdsOf(u.queue) \subseteq IdsOf(s.queue) \cup N /\ Behind(u) \subseteq Behind(s) \cup N
  BY <1>12, <1>14, <1>15, <1>16 DEF q
<1>18. \A i \in DOMAIN a : (i \in DOMAIN A /\ a[i] = A[i]) \/ (i > Len(A) /\ a[i] = n + (i - Len(A)) - 1 /\ a[i] \in N)
  <2> TAKE i \in DOMAIN a
  <2>1. CASE i <= Len(A)
    BY <1>2, <1>7, <1>10, <2>1
  <2>2. CASE ~(i <= Len(A))
    <3>1. i - Len(A) \in 1 .. Len(bs) /\ Len(A) + (i - Len(A)) = i /\ i > Len(A)
      BY <1>2, <1>10, <2>2
    <3>2. a[i] = bs[i - Len(A)].id
      BY <1>5, <1>7, <3>1
    <3> QED BY <1>8, <3>1, <3>2
  <2> QED BY <2>1, <2>2
<1>19. Taken(u) = Taken(s) \cup N
  <2>1. \A i \in DOMAIN A : i \in DOMAIN a /\ a[i] = A[i]
    BY <1>2, <1>7, <1>10
  <2>2. \A x \in N : \E i \in DOMAIN a : a[i] = x
    <3> TAKE x \in N
    <3> DEFINE k == x - n + 1
    <3>1. k \in 1 .. Len(bs) /\ n + k - 1 = x
      BY <1>9
    <3> HIDE DEF k
    <3>2. Len(A) + k \in DOMAIN a /\ a[Len(A) + k] = bs[k].id
      BY <1>2, <1>5, <1>7, <1>10, <3>1
    <3> QED BY <1>8, <3>1, <3>2
  <2>3. Taken(u) = {a[i] : i \in DOMAIN a} /\ Taken(s) = {A[i] : i \in DOMAIN A}
    BY <1>6 DEF Taken, A
  <2> QED BY <1>18, <2>1, <2>2, <2>3
<1>20. /\ \A i, j \in DOMAIN A : i < j => A[i] < A[j]
       /\ \A i \in DOMAIN A : A[i] < n /\ A[i] \in Nat
  <2>1. \A i \in DOMAIN A : A[i] \in Ids
    BY <1>1
  <2>2. \A i \in Ids : i \in Nat
    BY DEF Ids
  <2> QED BY <2>1, <2>2 DEF Rising, Ordered, A
<1>21. ASSUME NEW i \in DOMAIN a, NEW j \in DOMAIN a, i < j PROVE a[i] < a[j]
  <2>0. i \in Nat /\ j \in Nat
    BY <1>2, <1>10
  <2>1. CASE i \in DOMAIN A /\ a[i] = A[i] /\ j \in DOMAIN A /\ a[j] = A[j]
    BY <1>20, <1>21, <2>1
  <2>2. CASE i \in DOMAIN A /\ a[i] = A[i] /\ j > Len(A) /\ a[j] = n + (j - Len(A)) - 1
    BY <1>2, <1>20, <2>0, <2>2
  <2>3. CASE i > Len(A) /\ a[i] = n + (i - Len(A)) - 1 /\ j > Len(A) /\ a[j] = n + (j - Len(A)) - 1
    BY <1>2, <1>21, <2>0, <2>3
  <2>4. ~(i > Len(A) /\ j \in DOMAIN A)
    BY <1>2, <1>21, <2>0
  <2> QED BY <1>18, <2>1, <2>2, <2>3, <2>4
<1>22. Rising(u)
  BY <1>6, <1>19, <1>21 DEF Rising
<1> QED BY <1>6, <1>17, <1>19, <1>22 DEF TakesIn, N

-----------------------------------------------------------------------------
(* The inductive invariant *)

\* The server remembers the batch.
Recorded(i) == kept[i].reply # NoReply

\* Ids the server has seen, or may still see.
Logged   == {log[n] : n \in DOMAIN log}
OnTheWay == {r.batch.id : r \in late}
Sent     == Logged \cup OnTheWay
Live     == Sent \cup UNION {Waiting(tab[t]) : t \in Tabs}

\* Where a batch may be: in one tab; with the server only if it is or was the
\* head of a queue, so what a conflict hands back was never sent.
PlaceInv ==
    /\ \A t \in Tabs : Parted(tab[t])
    /\ \A t, u \in Tabs : t # u => Waiting(tab[t]) \cap Waiting(tab[u]) = {}
    /\ \A t \in Tabs : (HeldIds(tab[t]) \cup Behind(tab[t])) \cap Sent = {}
    /\ \A i \in Live : i < nextId

\* Tab t is the only one that changes.
OnlyTab(t) == \A u \in Tabs : u # t => tab'[u] = tab[u]

HeadId(s) == IdsOf(s.queue) \ Behind(s)

\* Members of three sets of ids.
LEMMA HeldMember == \A s, x : x \in HeldIds(s) <=> \E h \in s.held : x \in IdsOf(h.batches)
BY DEF HeldIds

\* An edit is live if it was sent or waits in some tab's queue or behind its refetch.
LEMMA LiveMember == \A x : x \in Live <=> x \in Sent \/ \E t \in Tabs : x \in Waiting(tab[t])
BY DEF Live

\* What is behind the head waits in the queue.
LEMMA BehindWaits == \A s : Behind(s) \subseteq IdsOf(s.queue)
BY DEF Behind, IdsOf

\* What is released stays apart.
LEMMA ReleasesParted ==
    ASSUME NEW s, NEW u, Parted(s), Releases(s, u)
    PROVE  /\ Parted(u) /\ Waiting(u) \subseteq Waiting(s)
           /\ HeldIds(u) \cup Behind(u) \subseteq HeldIds(s) \cup Behind(s)
<1>1. IdsOf(u.queue) \subseteq IdsOf(s.queue) /\ Behind(u) \subseteq Behind(s)
  BY DEF Releases
<1>2. CASE u.held = s.held
  <2>1. HeldIds(u) = HeldIds(s)
    BY <1>2 DEF HeldIds
  <2>2. Parted(u)
    BY <1>1, <1>2, <2>1 DEF Parted
  <2> QED BY <1>1, <2>1, <2>2 DEF Waiting
<1>3. ASSUME NEW h, u.held = s.held \cup {h}, Dropped(s, u, h)
      PROVE  /\ Parted(u) /\ Waiting(u) \subseteq Waiting(s)
             /\ HeldIds(u) \cup Behind(u) \subseteq HeldIds(s) \cup Behind(s)
  <2>1. HeldIds(u) = HeldIds(s) \cup IdsOf(h.batches)
    BY <1>3, HeldMember
  <2>2. IdsOf(h.batches) \subseteq Behind(s) \ IdsOf(u.queue) /\ Distinct(IdSeq(h.batches))
    BY <1>3 DEF Dropped
  <2>3. IdsOf(h.batches) \cap HeldIds(s) = {}
    BY <2>2, BehindWaits DEF Parted
  <2>4. \A k \in s.held : IdsOf(k.batches) \cap IdsOf(h.batches) = {}
    BY <2>3, HeldMember
  <2>5. IdsOf(u.queue) \cap HeldIds(u) = {}
    BY <1>1, <2>1, <2>2 DEF Parted
  <2>6. \A g, k \in u.held : g # k => IdsOf(g.batches) \cap IdsOf(k.batches) = {}
    BY <1>3, <2>4 DEF Parted
  <2>7. \A k \in u.held : Distinct(IdSeq(k.batches))
    BY <1>3, <2>2 DEF Parted
  <2>8. Waiting(u) \subseteq Waiting(s)
    BY <1>1, <2>1, <2>2, BehindWaits DEF Waiting
  <2> QED BY <1>1, <2>1, <2>2, <2>5, <2>6, <2>7, <2>8 DEF Parted
<1> QED BY <1>2, <1>3 DEF Releases

\* An outbox releases batches, or its head is sent.
LEMMA PlaceReleases ==
    ASSUME PlaceInv, NEW t \in Tabs, OnlyTab(t), Releases(tab[t], tab'[t]),
           Sent' \subseteq Sent \cup HeadId(tab[t]), nextId' = nextId
    PROVE  PlaceInv' /\ Live' \subseteq Live
<1> DEFINE s == tab[t]  w == tab'[t]
<1>1. Parted(s)
  BY DEF PlaceInv
<1>2. /\ Parted(w) /\ Waiting(w) \subseteq Waiting(s)
      /\ HeldIds(w) \cup Behind(w) \subseteq HeldIds(s) \cup Behind(s)
  BY <1>1, ReleasesParted
<1>3. \A u \in Tabs : u # t => tab'[u] = tab[u]
  BY DEF OnlyTab
<1>4. \A u \in Tabs : Parted(tab'[u]) /\ Waiting(tab'[u]) \subseteq Waiting(tab[u])
  BY <1>2, <1>3 DEF PlaceInv
<1>5. \A u \in Tabs : HeldIds(tab'[u]) \cup Behind(tab'[u]) \subseteq HeldIds(tab[u]) \cup Behind(tab[u])
  BY <1>2, <1>3
<1>6. \A u, v \in Tabs : u # v => Waiting(tab'[u]) \cap Waiting(tab'[v]) = {}
  BY <1>4 DEF PlaceInv
<1>7. HeadId(s) \subseteq Waiting(s) /\ HeadId(s) \cap (HeldIds(s) \cup Behind(s)) = {}
  BY <1>1 DEF HeadId, Waiting, Parted
<1>8. \A u \in Tabs : HeldIds(tab[u]) \cup Behind(tab[u]) \subseteq Waiting(tab[u])
  BY BehindWaits DEF Waiting
<1>9. \A u \in Tabs : HeadId(s) \cap (HeldIds(tab[u]) \cup Behind(tab[u])) = {}
  <2> TAKE u \in Tabs
  <2>1. CASE u = t
    BY <1>7, <2>1
  <2>2. CASE u # t
    <3>1. Waiting(tab[u]) \cap Waiting(tab[t]) = {}
      BY <2>2 DEF PlaceInv
    <3> QED BY <1>7, <1>8, <3>1
  <2> QED BY <2>1, <2>2
<1>10. \A u \in Tabs : (HeldIds(tab'[u]) \cup Behind(tab'[u])) \cap Sent' = {}
  <2> TAKE u \in Tabs
  <2>1. (HeldIds(tab[u]) \cup Behind(tab[u])) \cap Sent = {}
    BY DEF PlaceInv
  <2> QED BY <1>5, <1>9, <2>1
<1>11. Live' \subseteq Live
  <2>1. ASSUME NEW x \in Live' PROVE x \in Live
    <3>1. x \in Sent' \/ \E u \in Tabs : x \in Waiting(tab'[u])
      BY <2>1 DEF Live
    <3> QED BY <1>4, <1>7, <3>1, LiveMember
  <2> QED BY <2>1
<1>12. \A i \in Live' : i < nextId'
  BY <1>11 DEF PlaceInv
<1> QED BY <1>4, <1>6, <1>10, <1>11, <1>12 DEF PlaceInv

\* Two facts about intervals.
LEMMA UpTo == ASSUME NEW n \in Nat, NEW m \in Nat PROVE \A x \in n .. m - 1 : x < m
OBVIOUS

\* The numbers from n up are not below it.
LEMMA From == ASSUME NEW n \in Nat, NEW m \in Nat PROVE \A x \in n .. m - 1 : x \in Int /\ ~(x < n)
OBVIOUS

\* An outbox takes batches in.
LEMMA PlaceTakesIn ==
    ASSUME PlaceInv, NEW t \in Tabs, OnlyTab(t), TakesIn(tab[t], tab'[t], nextId, nextId'),
           Sent' = Sent, nextId \in Nat, nextId' \in Nat, nextId <= nextId',
           \A i \in Live : i \in Nat
    PROVE  /\ PlaceInv' /\ Live' \subseteq Live \cup nextId .. nextId' - 1
           /\ \A h \in tab[t].held : h \notin tab'[t].held => IdsOf(h.batches) \cap Live' = {}
<1> DEFINE s == tab[t]  w == tab'[t]  N == nextId .. nextId' - 1
<1>1. Parted(s)
  BY DEF PlaceInv
<1>2. /\ IdsOf(w.queue) \subseteq IdsOf(s.queue) \cup N /\ Behind(w) \subseteq Behind(s) \cup N
      /\ w.held \subseteq s.held
  BY DEF TakesIn
<1>3. HeldIds(w) \subseteq HeldIds(s)
  BY <1>2, HeldMember
<1>4. Live \cap N = {}
  BY DEF PlaceInv
<1>41. \A x \in N : x < nextId'
  BY UpTo
<1> HIDE DEF N
<1>5. \A u \in Tabs : Waiting(tab[u]) \subseteq Live /\ Sent \subseteq Live
  BY LiveMember
<1>6. /\ HeldIds(s) \subseteq Waiting(s) /\ IdsOf(s.queue) \subseteq Waiting(s)
      /\ Waiting(w) \subseteq Waiting(s) \cup N
  BY <1>2, <1>3 DEF Waiting
<1>7. IdsOf(w.queue) \cap HeldIds(w) = {}
  BY <1>1, <1>2, <1>3, <1>4, <1>5, <1>6 DEF Parted
<1>8. Parted(w)
  BY <1>1, <1>2, <1>7 DEF Parted
<1>9. \A u \in Tabs : u # t => tab'[u] = tab[u]
  BY DEF OnlyTab
<1>10. \A u \in Tabs : Parted(tab'[u])
  BY <1>8, <1>9 DEF PlaceInv
<1>11. \A u \in Tabs : u # t => Waiting(w) \cap Waiting(tab[u]) = {}
  <2> TAKE u \in Tabs
  <2> HAVE u # t
  <2>1. Waiting(s) \cap Waiting(tab[u]) = {}
    BY DEF PlaceInv
  <2> QED BY <1>4, <1>5, <1>6, <2>1
<1>12. \A u, v \in Tabs : u # v => Waiting(tab'[u]) \cap Waiting(tab'[v]) = {}
  <2> TAKE u, v \in Tabs
  <2> HAVE u # v
  <2>1. CASE u # t /\ v # t
    BY <1>9, <2>1 DEF PlaceInv
  <2>2. CASE u = t
    BY <1>9, <1>11, <2>2
  <2>3. CASE v = t
    BY <1>9, <1>11, <2>3
  <2> QED BY <2>1, <2>2, <2>3
<1>13. \A u \in Tabs : (HeldIds(tab'[u]) \cup Behind(tab'[u])) \cap Sent' = {}
  <2> TAKE u \in Tabs
  <2>1. (HeldIds(tab[u]) \cup Behind(tab[u])) \cap Sent = {}
    BY DEF PlaceInv
  <2>2. CASE u = t
    BY <1>2, <1>3, <1>4, <1>5, <2>1, <2>2
  <2>3. CASE u # t
    BY <1>9, <2>1, <2>3
  <2> QED BY <2>2, <2>3
<1>14. \A x \in Live' : x \in Sent \/ x \in Waiting(w) \/ \E u \in Tabs : u # t /\ x \in Waiting(tab[u])
  <2> TAKE x \in Live'
  <2>1. x \in Sent' \/ \E u \in Tabs : x \in Waiting(tab'[u])
    BY DEF Live
  <2> QED BY <1>9, <2>1
<1>15. Live' \subseteq Live \cup N
  BY <1>5, <1>6, <1>14
<1>16. \A i \in Live' : i < nextId'
  <2>1. \A i \in Live : i < nextId
    BY DEF PlaceInv
  <2>2. \A i \in Live : i < nextId'
    BY <2>1
  <2> QED BY <1>15, <1>41, <2>2
<1>17. ASSUME NEW h \in s.held, h \notin w.held, NEW x \in IdsOf(h.batches), x \in Live'
       PROVE  FALSE
  <2>1. x \in HeldIds(s) /\ x \in Waiting(s) /\ x \in Live
    BY <1>5, <1>6, <1>17, HeldMember
  <2>2. x \notin Sent
    BY <2>1 DEF PlaceInv
  <2>3. \A u \in Tabs : u # t => x \notin Waiting(tab[u])
    BY <2>1 DEF PlaceInv
  <2>4. x \in Waiting(w)
    BY <1>14, <1>17, <2>2, <2>3
  <2>5. x \notin IdsOf(s.queue) /\ x \notin N
    BY <1>1, <1>4, <2>1 DEF Parted
  <2>6. x \in HeldIds(w)
    BY <1>2, <2>4, <2>5 DEF Waiting
  <2>7. PICK k \in w.held : x \in IdsOf(k.batches)
    BY <2>6, HeldMember
  <2>8. k \in s.held /\ k # h
    BY <1>2, <1>17, <2>7
  <2> QED BY <1>1, <1>17, <2>7, <2>8 DEF Parted
<1>18. PlaceInv'
  BY <1>10, <1>12, <1>13, <1>16 DEF PlaceInv
<1>19. \A h \in s.held : h \notin w.held => IdsOf(h.batches) \cap Live' = {}
  BY <1>17
<1> QED BY <1>15, <1>18, <1>19 DEF N

\* What may still take effect, or did, are different edits.
OriginInv ==
    /\ \A i, j \in Live : origin[i] = origin[j] => i = j
    /\ \A i \in Ids : IF i < nextId THEN origin[i] < nextId ELSE origin[i] = i

\* A batch that took effect is recorded, and so does so only once.
LogInv == Distinct(log) /\ \A i \in Logged : Recorded(i)

\* An answer on its way is for the batch in flight, and unless it is a lock
\* or a refusal the server remembers the batch.
WireInv ==
    \A t \in Tabs : wire[t] # NoReply =>
        /\ InFlight(t)
        /\ wire[t].status \in {"locked", "invalid"} \/ Recorded(tab[t].sending.id)

\* Outboxes take in different batches, in the order of their ids.
TakenInv ==
    /\ \A t, u \in Tabs : t # u => Taken(tab[t]) \cap Taken(tab[u]) = {}
    /\ \A t \in Tabs : Rising(tab[t])

\* What is answered is recorded, refused or never sent; and nothing is sent
\* past a batch that waits.
AnswerInv ==
    /\ \A t \in Tabs : \A i \in tab[t].answered :
          i \in refused \/ i \notin Sent \/ Recorded(i)
    /\ \A t \in Tabs : \A i \in Taken(tab[t]), j \in Taken(tab[t]) \cap Sent :
          i < j => i \in tab[t].answered

-----------------------------------------------------------------------------
(* The server's part of a step *)

\* The server forgets nothing it recorded.
Remembers == \A j \in Ids : Recorded(j) => Recorded(j)'

\* At most batch i takes effect, and only if it was not seen before.
Landing(i) ==
    /\ Remembers
    /\ \/ log' = log
       \/ log' = Append(log, i) /\ ~Recorded(i) /\ Recorded(i)'

\* At most one batch is logged, one that was not recorded.
LEMMA LogLands ==
    ASSUME LogInv, log \in Seq(Ids), NEW i \in Ids, Landing(i)
    PROVE  LogInv' /\ log' \in Seq(Ids) /\ Logged' \subseteq Logged \cup {i}
<1>1. CASE log' = log
  <2>1. Logged' = Logged
    BY <1>1 DEF Logged
  <2>2. Logged \subseteq Ids
    BY DEF Logged
  <2> QED BY <1>1, <2>1, <2>2 DEF LogInv, Landing, Remembers
<1>2. CASE log' = Append(log, i) /\ ~Recorded(i) /\ Recorded(i)'
  <2> DEFINE n == Len(log)
  <2>1. n \in Nat /\ DOMAIN log = 1 .. n
    OBVIOUS
  <2>2. /\ log' \in Seq(Ids) /\ DOMAIN log' = 1 .. n + 1 /\ log'[n + 1] = i
        /\ \A k \in 1 .. n : log'[k] = log[k]
    BY <1>2
  <2> HIDE DEF n
  <2>3. \A k \in 1 .. n : log[k] \in Logged /\ log[k] \in Ids /\ Recorded(log[k])
    BY <2>1 DEF Logged, LogInv
  <2>4. \A k \in 1 .. n : log[k] # i
    BY <1>2, <2>3
  <2>5. \A k \in 1 .. n + 1 : k \in 1 .. n \/ k = n + 1
    BY <2>1
  <2>6. \A k, m \in 1 .. n : log[k] = log[m] => k = m
    BY <2>1 DEF LogInv, Distinct
  <2>7. \A k, m \in 1 .. n + 1 : log'[k] = log'[m] => k = m
    BY <2>2, <2>4, <2>5, <2>6
  <2>8. Logged' = {log'[k] : k \in 1 .. n + 1}
    BY <2>2 DEF Logged
  <2>9. Logged' \subseteq Logged \cup {i}
    BY <2>2, <2>3, <2>5, <2>8
  <2>10. \A x \in Logged' : Recorded(x)'
    <3>1. \A x \in Logged : x \in Ids /\ Recorded(x)
      BY DEF LogInv, Logged
    <3> QED BY <1>2, <2>9, <3>1 DEF Landing, Remembers
  <2> QED BY <2>2, <2>7, <2>9, <2>10 DEF LogInv, Distinct
<1> QED BY <1>1, <1>2 DEF Landing

\* The log is no longer than there are ids.
LEMMA LogFits ==
    ASSUME NEW a \in Seq(Ids), Distinct(a)
    PROVE  Len(a) \in Nat /\ Len(a) <= MaxId
<1>1. Len(a) \in Nat /\ DOMAIN a = 1 .. Len(a) /\ MaxId \in Nat
  BY Bounds
<1>2. SUFFICES ASSUME MaxId < Len(a) PROVE FALSE
  BY <1>1
<1>3. /\ IsFiniteSet(1 .. Len(a)) /\ Cardinality(1 .. Len(a)) = Len(a)
      /\ IsFiniteSet(1 .. MaxId) /\ Cardinality(1 .. MaxId) = MaxId
  <2>1. \A n \in Nat : IsFiniteSet(1 .. n) /\ Cardinality(1 .. n) = n
    BY FS_Interval
  <2> QED BY <1>1, <2>1
<1>4. a \in [1 .. Len(a) -> 1 .. MaxId]
  BY <1>1 DEF Ids
<1>5. \E x, y \in 1 .. Len(a) : x # y /\ a[x] = a[y]
  BY <1>2, <1>3, <1>4, FS_PigeonHole
<1> QED BY <1>1, <1>5 DEF Distinct

-----------------------------------------------------------------------------
(* What is on the wire *)

\* Answers stay right while what they answer stays in flight.
LEMMA WireKeeps ==
    ASSUME WireInv, Remembers,
           \A u \in Tabs : tab[u].sending # NoBatch => tab[u].sending.id \in Ids,
           \A u \in Tabs : wire'[u] # NoReply =>
               wire'[u] = wire[u] /\ Undisturbed(tab[u], tab'[u])
    PROVE  WireInv'
<1>1. ASSUME NEW u \in Tabs, wire'[u] # NoReply
      PROVE  /\ InFlight(u)'
             /\ wire'[u].status \in {"locked", "invalid"} \/ Recorded(tab[u].sending.id)'
  <2>1. wire[u] # NoReply /\ wire'[u] = wire[u]
    BY <1>1
  <2>2. InFlight(u) /\ (wire[u].status \in {"locked", "invalid"} \/ Recorded(tab[u].sending.id))
    BY <2>1 DEF WireInv
  <2>3. tab'[u].sending = tab[u].sending /\ tab[u].sending.id \in Ids
    BY <1>1, <2>2 DEF InFlight, Undisturbed
  <2> QED BY <2>1, <2>2, <2>3 DEF InFlight, Remembers
<1> QED BY <1>1 DEF WireInv

-----------------------------------------------------------------------------
(* What is taken in and answered *)

\* Everything tab u took in before x is answered, and x itself is not.
Leads(x) ==
    \A u \in Tabs : x \in Taken(tab[u]) =>
        x \notin tab[u].answered /\ \A i \in Taken(tab[u]) : i < x => i \in tab[u].answered

\* What is in flight leads.
LEMMA HeadLeads ==
    ASSUME IInv, OrderInv, TakenInv, NEW t \in Tabs, InFlight(t)
    PROVE  /\ Leads(tab[t].sending.id) /\ tab[t].sending.id \in Ids
           /\ HeadId(tab[t]) = {tab[t].sending.id}
<1> DEFINE s == tab[t]  b == s.sending
<1>1. /\ s \in OutboxType /\ nextId \in Nat /\ Flying(s) /\ s.sending # NoBatch
      /\ Ordered(s, nextId) /\ Rising(s)
  BY DEF IInv, TypeOK, Good, OrderInv, TakenInv, InFlight
<1> HIDE DEF s
<1>2. s.queue \in Seq(Batch) /\ s.queue # <<>> /\ b \in Batch /\ b.id \in Ids /\ Head(s.queue) = b
  BY <1>1, HeadAndTail DEF Flying
<1>3. /\ IdsOf(s.queue) \subseteq Taken(s) /\ IdsOf(s.queue) \cap s.answered = {}
      /\ Distinct(IdSeq(s.queue))
      /\ \A i \in Taken(s) : i < Head(s.queue).id => i \in s.answered
  BY <1>1, <1>2, HeadIsFirst
<1>4. Len(s.queue) \in Nat \ {0} /\ DOMAIN s.queue = 1 .. Len(s.queue) /\ s.queue[1] = b
  BY <1>2, EmptySeq
<1>5. 1 \in DOMAIN s.queue /\ b.id \in IdsOf(s.queue)
  BY <1>4 DEF IdsOf
<1>6. HeadId(s) = {b.id}
  <2>1. DOMAIN IdSeq(s.queue) = DOMAIN s.queue /\ \A i \in DOMAIN s.queue : IdSeq(s.queue)[i] = s.queue[i].id
    BY DEF IdSeq
  <2>2. \A i \in DOMAIN s.queue : i # 1 => s.queue[i].id # b.id
    BY <1>3, <1>4, <1>5, <2>1 DEF Distinct
  <2>3. b.id \notin Behind(s)
    BY <2>2 DEF Behind
  <2>4. \A x \in IdsOf(s.queue) : x = b.id \/ x \in Behind(s)
    BY <1>4 DEF IdsOf, Behind
  <2> QED BY <1>5, <2>3, <2>4 DEF HeadId
<1>7. \A u \in Tabs : u # t => b.id \notin Taken(tab[u])
  BY <1>3, <1>5 DEF TakenInv, s
<1>8. Leads(b.id)
  BY <1>2, <1>3, <1>5, <1>7 DEF Leads, s
<1> QED BY <1>2, <1>6, <1>8 DEF s

\* A batch that leads is sent, or nothing is.
LEMMA AnswerSends ==
    ASSUME AnswerInv, TakenInv, Remembers, refused \subseteq refused',
           \A u \in Tabs : Taken(tab'[u]) = Taken(tab[u]) /\ tab'[u].answered = tab[u].answered,
           \A u \in Tabs : tab[u].answered \subseteq Ids,
           Sent' \subseteq Sent \/ \E x : Leads(x) /\ Sent' \subseteq Sent \cup {x}
    PROVE  AnswerInv'
<1>1. ASSUME NEW u \in Tabs, NEW i \in tab'[u].answered
      PROVE  i \in refused' \/ i \notin Sent' \/ Recorded(i)'
  <2>1. i \in tab[u].answered /\ i \in Taken(tab[u]) /\ i \in Ids
    BY <1>1 DEF TakenInv, Rising
  <2>2. i \in refused \/ i \notin Sent \/ Recorded(i)
    BY <2>1 DEF AnswerInv
  <2>3. i \in Sent' => i \in Sent
    BY <2>1 DEF Leads
  <2> QED BY <2>1, <2>2, <2>3 DEF Remembers
<1>2. ASSUME NEW u \in Tabs, NEW i \in Taken(tab'[u]), NEW j \in Taken(tab'[u]) \cap Sent', i < j
      PROVE  i \in tab'[u].answered
  <2>1. i \in Taken(tab[u]) /\ j \in Taken(tab[u]) /\ tab'[u].answered = tab[u].answered
    OBVIOUS
  <2>2. CASE j \in Sent
    BY <1>2, <2>1, <2>2 DEF AnswerInv
  <2>3. CASE j \notin Sent
    <3>1. Leads(j)
      BY <2>3
    <3> QED BY <1>2, <2>1, <3>1 DEF Leads
  <2> QED BY <2>2, <2>3
<1> QED BY <1>1, <1>2 DEF AnswerInv

\* An answer arrives.
LEMMA AnswerArrives ==
    ASSUME AnswerInv, Remembers, refused \subseteq refused', Sent' = Sent, NEW t \in Tabs, OnlyTab(t),
           Taken(tab'[t]) = Taken(tab[t]), tab[t].answered \subseteq tab'[t].answered,
           \A u \in Tabs : tab[u].answered \subseteq Ids,
           \A i \in tab'[t].answered : i \in tab[t].answered \/ i \in refused' \/ i \notin Sent \/ Recorded(i)'
    PROVE  AnswerInv'
<1>1. ASSUME NEW u \in Tabs, NEW i \in tab'[u].answered
      PROVE  i \in refused' \/ i \notin Sent' \/ Recorded(i)'
  <2>1. i \in tab[u].answered \/ i \in refused' \/ i \notin Sent \/ Recorded(i)'
    BY DEF OnlyTab
  <2>2. i \in tab[u].answered => i \in Ids /\ (i \in refused \/ i \notin Sent \/ Recorded(i))
    BY DEF AnswerInv
  <2> QED BY <2>1, <2>2 DEF Remembers
<1>2. ASSUME NEW u \in Tabs, NEW i \in Taken(tab'[u]), NEW j \in Taken(tab'[u]) \cap Sent', i < j
      PROVE  i \in tab'[u].answered
  <2>1. i \in Taken(tab[u]) /\ j \in Taken(tab[u]) \cap Sent /\ tab[u].answered \subseteq tab'[u].answered
    BY DEF OnlyTab
  <2> QED BY <1>2, <2>1 DEF AnswerInv
<1> QED BY <1>1, <1>2 DEF AnswerInv

\* Batches are taken in.
LEMMA AnswerTakesIn ==
    ASSUME AnswerInv, Remembers, refused' = refused, Sent' = Sent, NEW t \in Tabs, OnlyTab(t),
           nextId \in Nat, nextId' \in Nat, TakesIn(tab[t], tab'[t], nextId, nextId'),
           \A i \in Sent : i < nextId /\ i \in Nat,
           \A u \in Tabs : tab[u].answered \subseteq Ids
    PROVE  AnswerInv'
<1> DEFINE N == nextId .. nextId' - 1
<1>1. ASSUME NEW u \in Tabs, NEW i \in tab'[u].answered
      PROVE  i \in refused' \/ i \notin Sent' \/ Recorded(i)'
  <2>1. i \in tab[u].answered
    BY DEF OnlyTab, TakesIn
  <2>2. i \in Ids /\ (i \in refused \/ i \notin Sent \/ Recorded(i))
    BY <2>1 DEF AnswerInv
  <2> QED BY <2>2 DEF Remembers
<1>2. \A x \in N : x \in Int /\ ~(x < nextId)
  BY From
<1>21. Taken(tab'[t]) = Taken(tab[t]) \cup N
  BY DEF TakesIn
<1> HIDE DEF N
<1>3. ASSUME NEW u \in Tabs, NEW i \in Taken(tab'[u]), NEW j \in Taken(tab'[u]) \cap Sent', i < j
      PROVE  i \in tab'[u].answered
  <2>1. j \in Sent /\ j \in Nat /\ j < nextId
    OBVIOUS
  <2>2. i \notin N /\ j \notin N
    <3>1. j \notin N
      BY <1>2, <2>1
    <3>2. i \in N => i \in Int /\ ~(i < nextId)
      BY <1>2
    <3> QED BY <1>3, <2>1, <3>1, <3>2
  <2>3. i \in Taken(tab[u]) /\ j \in Taken(tab[u])
    BY <1>21, <2>2 DEF OnlyTab
  <2>4. tab'[u].answered = tab[u].answered
    BY DEF OnlyTab, TakesIn
  <2> QED BY <1>3, <2>1, <2>3, <2>4 DEF AnswerInv
<1> QED BY <1>1, <1>3 DEF AnswerInv

\* Outboxes that take in nothing stay apart.
LEMMA TakenKeeps ==
    ASSUME TakenInv, \A u \in Tabs : tab'[u].accepted = tab[u].accepted,
           \A u \in Tabs : tab'[u].answered \subseteq Taken(tab[u])
    PROVE  TakenInv'
<1>1. \A u \in Tabs : Taken(tab'[u]) = Taken(tab[u])
  BY DEF Taken
<1>2. \A u \in Tabs : Rising(tab'[u])
  BY <1>1 DEF TakenInv, Rising
<1> QED BY <1>1, <1>2 DEF TakenInv

\* New ids belong to no other outbox.
LEMMA TakenTakesIn ==
    ASSUME TakenInv, NEW t \in Tabs, OnlyTab(t), Rising(tab'[t]),
           nextId \in Nat, nextId' \in Nat, TakesIn(tab[t], tab'[t], nextId, nextId'),
           \A u \in Tabs : \A i \in Taken(tab[u]) : i < nextId
    PROVE  TakenInv'
<1> DEFINE N == nextId .. nextId' - 1
<1>1. \A u \in Tabs : \A i \in Taken(tab[u]) : i \notin N
  BY From
<1>2. Taken(tab'[t]) = Taken(tab[t]) \cup N
  BY DEF TakesIn
<1> HIDE DEF N
<1>3. \A u \in Tabs : u # t => tab'[u] = tab[u]
  BY DEF OnlyTab
<1>4. ASSUME NEW u \in Tabs, NEW v \in Tabs, u # v PROVE Taken(tab'[u]) \cap Taken(tab'[v]) = {}
  <2>1. Taken(tab[u]) \cap Taken(tab[v]) = {}
    BY <1>4 DEF TakenInv
  <2>2. CASE u # t /\ v # t
    BY <1>3, <2>1, <2>2
  <2>3. CASE u = t /\ v # t
    BY <1>1, <1>2, <1>3, <2>1, <2>3
  <2>4. CASE v = t /\ u # t
    BY <1>1, <1>2, <1>3, <2>1, <2>4
  <2> QED BY <1>4, <2>2, <2>3, <2>4
<1>5. \A u \in Tabs : Rising(tab'[u])
  BY <1>3 DEF TakenInv
<1> QED BY <1>4, <1>5 DEF TakenInv

-----------------------------------------------------------------------------
(* Which edit an id stands for *)

\* Fewer live batches are still different edits.
LEMMA OriginKeeps ==
    ASSUME OriginInv, origin' = origin, nextId' = nextId, Live' \subseteq Live
    PROVE  OriginInv'
BY DEF OriginInv

\* A new edit is its own origin.
LEMMA OriginCommit ==
    ASSUME OriginInv, origin' = origin, origin \in [Ids -> Ids], nextId \in Ids,
           nextId' = nextId + 1, Live \subseteq Ids, \A i \in Live : i < nextId,
           Live' \subseteq Live \cup {nextId}
    PROVE  OriginInv'
<1>0. \A i \in Ids : i \in Nat
  BY DEF Ids
<1>1. \A i \in Live : origin[i] # origin[nextId]
  <2> TAKE i \in Live
  <2>1. i \in Ids /\ i < nextId /\ origin[i] < nextId
    BY DEF OriginInv
  <2>2. origin[nextId] = nextId
    BY <1>0 DEF OriginInv
  <2>3. origin[i] \in Nat
    BY <1>0, <2>1
  <2> QED BY <1>0, <2>1, <2>2, <2>3
<1>2. \A i, j \in Live' : origin[i] = origin[j] => i = j
  BY <1>1 DEF OriginInv
<1>3. ASSUME NEW i \in Ids PROVE IF i < nextId' THEN origin[i] < nextId' ELSE origin[i] = i
  <2>1. i \in Nat /\ nextId \in Nat /\ origin[i] \in Nat
    BY <1>0
  <2>2. IF i < nextId THEN origin[i] < nextId ELSE origin[i] = i
    BY DEF OriginInv
  <2> QED BY <2>1, <2>2
<1> QED BY <1>2, <1>3 DEF OriginInv

\* Requeued batches stand for the edits of the batches they replace, which
\* are gone.
LEMMA OriginRequeue ==
    ASSUME OriginInv, origin \in [Ids -> Ids], nextId \in 1 .. MaxId + 1, Live \subseteq Ids,
           NEW k \in Nat, nextId' = nextId + k, nextId + k <= MaxId + 1,
           NEW ks, \A i \in 1 .. k : ks[i] \in Live /\ ks[i] \notin Live',
           \A i, j \in 1 .. k : ks[i] = ks[j] => i = j, \A i \in Live : i < nextId,
           Live' \subseteq Live \cup nextId .. nextId' - 1,
           origin' = [i \in Ids |-> IF i \in nextId .. nextId' - 1
                                    THEN origin[ks[i - nextId + 1]] ELSE origin[i]]
    PROVE  OriginInv' /\ origin' \in [Ids -> Ids]
<1> DEFINE N == nextId .. nextId' - 1
<1>0. /\ \A i \in Ids : i \in Nat /\ origin[i] \in Ids
      /\ Ids = 1 .. MaxId /\ MaxId \in Nat
  BY Bounds DEF Ids
<1>1. \A i \in N : i - nextId + 1 \in 1 .. k /\ i \in Int
  OBVIOUS
<1>2. \A i, j \in N : i - nextId + 1 = j - nextId + 1 => i = j
  OBVIOUS
<1>3. \A i \in Live : i \notin N
  BY From
<1>4. ASSUME NEW i \in N, i \in Ids PROVE origin'[i] = origin[ks[i - nextId + 1]]
  BY <1>4
<1>5. ASSUME NEW i \in Ids, i \notin N PROVE origin'[i] = origin[i]
  BY <1>5
<1> HIDE DEF N
<1>6. \A i, j \in Live : origin[i] = origin[j] => i = j
  BY DEF OriginInv
<1>7. Live' \subseteq Ids
  <2>1. N \subseteq Ids
    <3>1. \A i \in N : i \in 1 .. MaxId
      BY <1>0 DEF N
    <3> QED BY <1>0, <3>1
  <2> QED BY <2>1 DEF N
<1>8. ASSUME NEW i \in Live', NEW j \in Live', origin'[i] = origin'[j] PROVE i = j
  <2>0. i \in Ids /\ j \in Ids /\ (i \in Live \/ i \in N) /\ (j \in Live \/ j \in N)
    BY <1>7 DEF N
  <2>1. CASE i \in N /\ j \in N
    <3>1. origin[ks[i - nextId + 1]] = origin[ks[j - nextId + 1]]
      BY <1>4, <1>8, <2>0, <2>1
    <3>2. i - nextId + 1 \in 1 .. k /\ j - nextId + 1 \in 1 .. k
      BY <1>1, <2>1
    <3>3. i - nextId + 1 = j - nextId + 1
      BY <1>6, <3>1, <3>2
    <3> QED BY <1>2, <2>1, <3>3
  <2>2. CASE i \in N /\ j \notin N
    <3>1. origin[ks[i - nextId + 1]] = origin[j]
      BY <1>4, <1>5, <1>8, <2>0, <2>2
    <3>2. i - nextId + 1 \in 1 .. k
      BY <1>1, <2>2
    <3>3. ks[i - nextId + 1] = j
      BY <1>6, <2>0, <2>2, <3>1, <3>2
    <3> QED BY <3>2, <3>3
  <2>3. CASE i \notin N /\ j \in N
    <3>1. origin[ks[j - nextId + 1]] = origin[i]
      BY <1>4, <1>5, <1>8, <2>0, <2>3
    <3>2. j - nextId + 1 \in 1 .. k
      BY <1>1, <2>3
    <3>3. ks[j - nextId + 1] = i
      BY <1>6, <2>0, <2>3, <3>1, <3>2
    <3> QED BY <3>2, <3>3
  <2>4. CASE i \notin N /\ j \notin N
    BY <1>5, <1>6, <1>8, <2>0, <2>4
  <2> QED BY <2>1, <2>2, <2>3, <2>4
<1>9. ASSUME NEW i \in Ids
      PROVE  /\ IF i < nextId' THEN origin'[i] < nextId' ELSE origin'[i] = i
             /\ origin'[i] \in Ids
  <2>1. CASE i \in N
    <3> DEFINE x == ks[i - nextId + 1]
    <3>1. x \in Live /\ origin'[i] = origin[x]
      BY <1>1, <1>4, <2>1
    <3> HIDE DEF x
    <3>2. x \in Ids /\ x < nextId /\ origin[x] < nextId /\ origin[x] \in Ids
      BY <1>0, <3>1 DEF OriginInv
    <3>3. origin[x] \in Nat
      BY <1>0, <3>2
    <3>4. i < nextId'
      BY <2>1 DEF N
    <3> QED BY <3>1, <3>2, <3>3, <3>4
  <2>2. CASE i \notin N
    <3>1. origin'[i] = origin[i] /\ origin[i] \in Ids /\ origin[i] \in Nat /\ i \in Nat
      BY <1>0, <1>5, <2>2
    <3>2. IF i < nextId THEN origin[i] < nextId ELSE origin[i] = i
      BY DEF OriginInv
    <3>3. i < nextId \/ ~(i < nextId')
      BY <2>2, <3>1 DEF N
    <3> QED BY <3>1, <3>2, <3>3
  <2> QED BY <2>1, <2>2
<1>10. origin' \in [Ids -> Ids]
  <2>1. DOMAIN origin' = Ids /\ origin' = [i \in Ids |-> origin'[i]]
    OBVIOUS
  <2> QED BY <1>9, <2>1
<1> QED BY <1>8, <1>9, <1>10 DEF OriginInv

-----------------------------------------------------------------------------
(* The order in which batches take effect *)

\* How BatchesLandInOrder writes what an outbox took in.
LEMMA TakenIs == \A s : {s.accepted[i] : i \in DOMAIN s.accepted} = Taken(s)
BY DEF Taken

\* Nothing takes effect, and the order stands.
LEMMA OrderKeeps ==
    ASSUME BatchesLandInOrder, log' = log, refused \subseteq refused',
           \A u \in Tabs : Taken(tab'[u]) \cap Logged \subseteq Taken(tab[u])
    PROVE  BatchesLandInOrder'
<1>1. ASSUME NEW n \in DOMAIN log', NEW m \in DOMAIN log', n < m, log'[m] \notin refused', NEW u \in Tabs,
             {log'[n], log'[m]} \subseteq Taken(tab'[u])
      PROVE  log'[n] < log'[m]
  <2>1. {log[n], log[m]} \subseteq Taken(tab[u]) /\ log[m] \notin refused
    BY <1>1 DEF Logged
  <2> QED BY <1>1, <2>1, TakenIs DEF BatchesLandInOrder
<1> QED BY <1>1, TakenIs DEF BatchesLandInOrder

\* A batch takes effect that was never answered, or was refused.
LEMMA OrderLands ==
    ASSUME BatchesLandInOrder, AnswerInv, LogInv, log \in Seq(Ids), NEW i \in Ids, Landing(i),
           refused' = refused, \A u \in Tabs : Taken(tab'[u]) = Taken(tab[u]),
           i \in Sent \/ Leads(i)
    PROVE  BatchesLandInOrder'
<1>1. CASE log' = log
  BY <1>1, OrderKeeps
<1>2. CASE log' = Append(log, i) /\ ~Recorded(i)
  <2> DEFINE l == Len(log)
  <2>1. l \in Nat /\ DOMAIN log = 1 .. l
    OBVIOUS
  <2>2. /\ DOMAIN log' = 1 .. l + 1 /\ log'[l + 1] = i
        /\ \A k \in 1 .. l : log'[k] = log[k]
    BY <1>2
  <2> HIDE DEF l
  <2>3. ASSUME NEW n \in 1 .. l + 1, NEW m \in 1 .. l + 1, n < m, log'[m] \notin refused, NEW u \in Tabs,
               {log'[n], log'[m]} \subseteq Taken(tab[u])
        PROVE  log'[n] < log'[m]
    <3>1. CASE m \in 1 .. l
      <4>1. n \in 1 .. l /\ log'[n] = log[n] /\ log'[m] = log[m]
        BY <2>1, <2>2, <2>3, <3>1
      <4> QED BY <2>1, <2>3, <3>1, <4>1, TakenIs DEF BatchesLandInOrder
    <3>2. CASE m = l + 1
      <4>1. n \in 1 .. l /\ log'[n] = log[n] /\ log'[m] = i
        BY <2>1, <2>2, <2>3, <3>2
      <4> DEFINE j == log[n]
      <4>2. j \in Logged /\ j \in Sent /\ Recorded(j) /\ j \in Ids /\ j # i
        BY <1>2, <2>1, <4>1 DEF Logged, Sent, LogInv
      <4>3. j \in Taken(tab[u]) /\ i \in Taken(tab[u]) /\ i \notin refused
        BY <2>3, <4>1
      <4> HIDE DEF j
      <4>4. ASSUME i < j PROVE FALSE
        <5>1. i \in tab[u].answered
          BY <4>2, <4>3, <4>4 DEF AnswerInv
        <5>2. i \notin Sent
          BY <1>2, <4>3, <5>1 DEF AnswerInv
        <5> QED BY <4>3, <5>1, <5>2 DEF Leads
      <4>5. i \in Nat /\ j \in Nat
        BY <4>2 DEF Ids
      <4>6. j < i
        BY <4>2, <4>4, <4>5
      <4> QED BY <4>1, <4>6 DEF j
    <3> QED BY <2>1, <3>1, <3>2
  <2> QED BY <2>2, <2>3, TakenIs DEF BatchesLandInOrder
<1> QED BY <1>1, <1>2 DEF Landing

Status    == {"none", "ok", "conflict", "invalid", "locked", "reused"}
ReplyType == [status : Status, version : Versions]

\* Every landing makes one version, so versions stay within bounds.
RowsType ==
    /\ DOMAIN rows = Pages
    /\ \A p \in Pages : Dated(rows[p]) /\ rows[p].version <= InitialPage.version + Len(log)

ViewType ==
    /\ DOMAIN view = Tabs
    /\ \A t \in Tabs : DOMAIN view[t] = Pages
    /\ \A t \in Tabs, p \in Pages : Dated(view[t][p])

KeptType == kept \in [Ids -> [base : Versions, reply : ReplyType]]

\* Requests, answers and page reads on their way.
MailType ==
    /\ wire \in [Tabs -> ReplyType]
    /\ \A r \in late : r.tab \in Tabs /\ r.batch \in Batch
    /\ \A f \in fetched : f.tab \in Tabs /\ Dated(f.page)
    /\ \A o \in opened : /\ o.tab \in Tabs /\ o.at \in Pages /\ Dated(o.page)
                         /\ tab[o.tab].life = "open"

HistoryType == log \in Seq(Ids) /\ origin \in [Ids -> Ids] /\ refused \in SUBSET Ids

SyncType == RowsType /\ ViewType /\ KeptType /\ MailType /\ HistoryType

SyncInv ==
    /\ IInv /\ OrderInv /\ SyncType
    /\ PlaceInv /\ OriginInv /\ LogInv /\ WireInv /\ TakenInv /\ AnswerInv
    /\ BatchesLandInOrder

\* What the proofs below need of the outboxes and the ids.
LEMMA Facts ==
    ASSUME SyncInv
    PROVE  /\ nextId \in 1 .. MaxId + 1 /\ nextId \in Nat /\ DOMAIN tab = Tabs
           /\ \A t \in Tabs : /\ tab[t] \in OutboxType /\ Good(tab[t]) /\ Flying(tab[t])
                              /\ Ordered(tab[t], nextId) /\ Rising(tab[t])
                              /\ Distinct(IdSeq(tab[t].queue)) /\ tab[t].answered \subseteq Ids
                              /\ IdsOf(tab[t].queue) \subseteq Taken(tab[t])
                              /\ \A i \in Taken(tab[t]) : i < nextId
                              /\ tab[t].sending # NoBatch => tab[t].sending.id \in Ids
           /\ Live \subseteq Ids /\ \A i \in Live : i < nextId /\ i \in Nat
           /\ Sent \subseteq Live
<1>1. nextId \in 1 .. MaxId + 1 /\ nextId \in Nat /\ tab \in [Tabs -> OutboxType]
  BY Bounds DEF SyncInv, IInv, TypeOK
<1>2. ASSUME NEW t \in Tabs
      PROVE  /\ tab[t] \in OutboxType /\ Good(tab[t]) /\ Flying(tab[t])
             /\ Ordered(tab[t], nextId) /\ Rising(tab[t])
  BY DEF SyncInv, IInv, OrderInv, TakenInv, Good
<1>3. ASSUME NEW t \in Tabs
      PROVE  /\ Distinct(IdSeq(tab[t].queue)) /\ IdsOf(tab[t].queue) \subseteq Taken(tab[t])
             /\ \A i \in Taken(tab[t]) : i < nextId
             /\ tab[t].sending # NoBatch => tab[t].sending.id \in Ids
             /\ Waiting(tab[t]) \subseteq Ids /\ tab[t].answered \subseteq Ids
  <2> DEFINE s == tab[t]
  <2>1. s \in OutboxType /\ Flying(s) /\ Ordered(s, nextId) /\ Rising(s)
    BY <1>2
  <2> HIDE DEF s
  <2>2. /\ Distinct(IdSeq(s.queue)) /\ IdsOf(s.queue) \subseteq Taken(s)
        /\ \A i \in Taken(s) : i < nextId
    BY <1>1, <2>1, HeadIsFirst
  <2>3. s.sending # NoBatch => s.sending.id \in Ids
    BY <2>1, HeadAndTail
  <2>4. s.answered \subseteq Ids /\ s.queue \in Seq(Batch)
        /\ \A h \in s.held : h.batches \in Seq(Batch)
    BY <2>1 DEF OutboxType
  <2>5. IdsOf(s.queue) \subseteq Ids /\ \A h \in s.held : IdsOf(h.batches) \subseteq Ids
    BY <2>4, IdsOfQueue
  <2>6. Waiting(s) \subseteq Ids
    BY <2>5, HeldMember DEF Waiting
  <2> QED BY <2>2, <2>3, <2>4, <2>6 DEF s
<1>4. Sent \subseteq Ids
  <2>1. Logged \subseteq Ids
    BY DEF Logged, SyncInv, SyncType, HistoryType
  <2>2. OnTheWay \subseteq Ids
    BY DEF OnTheWay, SyncInv, SyncType, MailType, Batch
  <2> QED BY <2>1, <2>2 DEF Sent
<1>5. Live \subseteq Ids
  BY <1>3, <1>4, LiveMember
<1>6. \A i \in Ids : i \in Nat
  BY DEF Ids
<1>7. \A i \in Live : i < nextId
  BY DEF SyncInv, PlaceInv
<1> QED BY <1>1, <1>2, <1>3, <1>5, <1>6, <1>7, LiveMember

-----------------------------------------------------------------------------
(* The server *)

\* One request is processed.
LEMMA ProcessLands ==
    ASSUME SyncType, LogInv, NEW t, NEW b \in Batch, Process(t, b)
    PROVE  /\ Landing(b.id) /\ RowsType' /\ KeptType' /\ Reply(b) \in ReplyType
           /\ refused' = refused /\ origin' = origin
           /\ Reply(b).status \in {"locked", "invalid"} \/ Recorded(b.id)'
<1> DEFINE v == rows[b.page].version
<1>1. /\ b.id \in Ids /\ b.page \in Pages /\ b.base \in Versions /\ b.edit \in Seq(Op)
  BY Documents DEF Batch
<1>2. /\ DOMAIN rows = Pages /\ Dated(rows[b.page]) /\ v \in Versions
      /\ v <= InitialPage.version + Len(log) /\ log \in Seq(Ids)
  BY <1>1 DEF SyncType, RowsType, HistoryType, Dated
<1>3. Judged(b) \in {"conflict", "invalid", "ok"}
  BY DEF Judged, Verdict
<1>4. kept \in [Ids -> [base : Versions, reply : ReplyType]]
  BY DEF SyncType, KeptType
<1>5. InitialPage.version \in Nat /\ MaxId \in Nat /\ MaxVersion \in Nat /\ Len(log) \in Nat
      /\ InitialPage.version + MaxId <= MaxVersion
  BY <1>2, Documents, Bounds, Enough DEF Page
<1>6. IsNew(b) => Reply(b).status = Judged(b) /\ ~Recorded(b.id)
  BY DEF IsNew, Reply, Recorded
<1>7. NoReply.status = "none"
  BY DEF NoReply
<1>71. refused' = refused /\ origin' = origin
  BY DEF Process
<1>8. CASE IsNew(b) /\ Judged(b) # "invalid"
  <2> DEFINE x == [base |-> b.base, reply |-> Reply(b)]
  <2>1. kept' = [kept EXCEPT ![b.id] = x]
    BY <1>8 DEF Process
  <2>2. Reply(b) # NoReply
    BY <1>3, <1>6, <1>7, <1>8
  <2>3. Recorded(b.id)'
    BY <1>1, <1>4, <2>1, <2>2 DEF Recorded
  <2>4. Remembers
    BY <1>4, <2>1, <2>3 DEF Recorded, Remembers
  <2>5. CASE Judged(b) = "ok"
    <3>1. rows' = [rows EXCEPT ![b.page] = Applied(@, b.edit)] /\ log' = Append(log, b.id)
      BY <1>8, <2>5 DEF Process, TakesEffect
    <3>2. Landing(b.id)
      BY <1>6, <1>8, <2>3, <2>4, <3>1 DEF Landing
    <3>3. log' \in Seq(Ids) /\ Distinct(log')
      BY <1>1, <1>2, <3>2, LogLands DEF LogInv
    <3>4. Len(log') = Len(log) + 1
      BY <1>2, <3>1
    <3>5. Len(log) + 1 <= MaxId
      BY <3>3, <3>4, LogFits
    <3>6. v + 1 \in Versions /\ v + 1 <= InitialPage.version + Len(log')
      BY <1>2, <1>5, <3>4, <3>5, SMTT(20) DEF Versions
    <3>7. SameVersion(rows[b.page], rows[b.page])
      BY <1>2 DEF Dated, SameVersion
    <3>8. "version" \in DOMAIN Applied(rows[b.page], b.edit)
          /\ Applied(rows[b.page], b.edit).version = v + 1
      BY <1>1, <3>7, AppliedVersion
    <3>9. RowsType'
      <4>1. DOMAIN rows' = Pages /\ rows'[b.page] = Applied(rows[b.page], b.edit)
            /\ \A p \in Pages : p # b.page => rows'[p] = rows[p]
        BY <1>1, <1>2, <3>1
      <4>2. Dated(rows'[b.page]) /\ rows'[b.page].version <= InitialPage.version + Len(log')
        BY <3>6, <3>8, <4>1 DEF Dated
      <4>3. \A p \in Pages : Dated(rows[p]) /\ rows[p].version <= InitialPage.version + Len(log')
        <5> TAKE p \in Pages
        <5>1. Dated(rows[p]) /\ rows[p].version <= InitialPage.version + Len(log)
          BY DEF SyncType, RowsType
        <5>2. rows[p].version \in Nat
          BY <5>1 DEF Dated, Versions
        <5> QED BY <1>5, <3>4, <5>1, <5>2
      <4> QED BY <4>1, <4>2, <4>3 DEF RowsType
    <3>10. Reply(b) = [status |-> "ok", version |-> v + 1]
      BY <1>8, <2>5 DEF Reply, IsNew
    <3>11. Reply(b) \in ReplyType
      BY <3>6, <3>10 DEF ReplyType, Status
    <3>12. KeptType'
      BY <1>1, <1>4, <2>1, <3>11 DEF KeptType
    <3> QED BY <1>71, <2>3, <3>2, <3>9, <3>11, <3>12
  <2>6. CASE Judged(b) # "ok"
    <3>1. rows' = rows /\ log' = log
      BY <2>6 DEF Process
    <3>2. Reply(b) = [status |-> "conflict", version |-> v + 0]
      BY <1>3, <1>8, <2>6 DEF Reply, IsNew
    <3>3. Reply(b) \in ReplyType
      BY <1>2, <3>2 DEF ReplyType, Status, Versions
    <3>4. KeptType'
      BY <1>1, <1>4, <2>1, <3>3 DEF KeptType
    <3>5. RowsType'
      BY <3>1 DEF SyncType, RowsType
    <3>6. Landing(b.id)
      BY <2>4, <3>1 DEF Landing
    <3> QED BY <1>71, <2>3, <3>3, <3>4, <3>5, <3>6
  <2> QED BY <2>5, <2>6
<1>9. CASE ~(IsNew(b) /\ Judged(b) # "invalid")
  <2>1. rows' = rows /\ log' = log /\ kept' = kept
    BY <1>9 DEF Process
  <2>20. RowsType /\ KeptType
    BY DEF SyncType
  <2>21. RowsType'
    BY <2>1, <2>20 DEF RowsType
  <2>22. KeptType'
    BY <2>1, <2>20 DEF KeptType
  <2>23. Landing(b.id)
    <3>1. Remembers
      BY <2>1 DEF Remembers, Recorded
    <3> QED BY <2>1, <3>1 DEF Landing
  <2>3. Reply(b) \in ReplyType
    <3>1. kept[b.id].reply \in ReplyType
      BY <1>1, <1>4
    <3>2. 0 \in Versions
      BY <1>5 DEF Versions
    <3>3. CASE IsNew(b)
      <4>1. Reply(b) = [status |-> "invalid", version |-> v + 0]
        BY <1>9, <3>3 DEF Reply, IsNew
      <4> QED BY <1>2, <4>1 DEF ReplyType, Status, Versions
    <3>4. CASE ~IsNew(b)
      BY <3>1, <3>2, <3>4 DEF Reply, IsNew, ReplyType, Status
    <3> QED BY <3>3, <3>4
  <2>4. Reply(b).status \in {"locked", "invalid"} \/ Recorded(b.id)
    BY <1>6, <1>9 DEF Reply, IsNew, Recorded
  <2>5. Recorded(b.id) => Recorded(b.id)'
    BY <2>1 DEF Recorded
  <2> QED BY <1>71, <2>21, <2>22, <2>23, <2>3, <2>4, <2>5
<1> QED BY <1>8, <1>9

-----------------------------------------------------------------------------
(* The initial states *)

\* Tabs start with the version of the pages they were given.
Started(life) ==
    [NewOutbox(life) EXCEPT !.known = [p \in Pages |-> InitialPage.version]]

\* A page's first version is one an outbox can hold.
LEMMA InitialDated == Dated(InitialPage) /\ InitialPage.version \in Versions
<1>1. /\ InitialPage.version \in Nat /\ MaxId \in Nat /\ MaxVersion \in Nat
      /\ InitialPage.version + MaxId <= MaxVersion /\ InitialPage \in Page
  BY Documents, Bounds, Enough DEF Page
<1>2. InitialPage.version \in 0 .. MaxVersion
  BY <1>1
<1>3. "version" \in DOMAIN InitialPage
  BY <1>1 DEF Page
<1> QED BY <1>2, <1>3 DEF Dated, Versions

\* A new outbox is good, in order and empty.
LEMMA StartedWell ==
    ASSUME NEW life \in {"closed", "open"}
    PROVE  LET s == Started(life)
           IN  /\ Good(s) /\ Ordered(s, 1) /\ Idle(s) /\ Parted(s) /\ Rising(s)
               /\ Waiting(s) = {} /\ Behind(s) = {} /\ Taken(s) = {} /\ HeldIds(s) = {}
               /\ s.answered = {} /\ s.life # "loading"
<1> DEFINE n == NewOutbox(life)  k == [p \in Pages |-> InitialPage.version]  s == Started(life)
<1>1. Good(n) /\ n.life = life /\ Ordered(n, 1)
  BY NewOutboxGood, NewOrdered
<1>2. n \in OutboxType
  BY <1>1 DEF Good
<1>3. k \in [Pages -> Versions \cup {Unknown}]
  BY InitialDated
<1>4. s = [n EXCEPT !.known = k]
  BY DEF Started
<1>5. /\ n.queue = <<>> /\ n.sending = NoBatch /\ n.attempt = 0 /\ n.held = {}
      /\ n.accepted = <<>> /\ n.answered = {} /\ ~n.timer /\ ~n.locked
  BY DEF NewOutbox
<1> HIDE DEF n, k, s
<1>6. s \in OutboxType
  BY <1>2, <1>3, <1>4 DEF OutboxType
<1>7. /\ s.queue = <<>> /\ s.sending = NoBatch /\ s.attempt = 0 /\ s.held = {} /\ s.life = life
      /\ s.accepted = <<>> /\ s.answered = {} /\ ~s.timer /\ ~s.locked
  BY <1>1, <1>2, <1>4, <1>5 DEF OutboxType
<1>8. Good(s)
  BY <1>6, <1>7 DEF Good, Flying, Ready, Steady
<1>9. Stays(n, s)
  BY <1>1, <1>5, <1>7 DEF Stays
<1>10. Ordered(s, 1)
  BY <1>1, <1>2, <1>6, <1>9, OrderedStays
<1>11. Idle(s)
  BY <1>7 DEF Idle
<1>12. DOMAIN s.queue = {} /\ DOMAIN s.accepted = {}
  BY <1>7
<1>13. IdsOf(s.queue) = {} /\ HeldIds(s) = {} /\ Waiting(s) = {} /\ Behind(s) = {} /\ Taken(s) = {}
  BY <1>7, <1>12 DEF IdsOf, HeldIds, Waiting, Behind, Taken
<1>14. Parted(s) /\ Rising(s)
  BY <1>7, <1>12, <1>13 DEF Parted, Rising
<1> QED BY <1>7, <1>8, <1>10, <1>11, <1>13, <1>14 DEF s

\* The initial states satisfy the invariant.
LEMMA SyncInitInv == SyncInit => SyncInv
<1>1. SUFFICES ASSUME SyncInit PROVE SyncInv
  OBVIOUS
<1> DEFINE W(s) == /\ Good(s) /\ Ordered(s, 1) /\ Idle(s) /\ Parted(s) /\ Rising(s)
                   /\ Waiting(s) = {} /\ Behind(s) = {} /\ Taken(s) = {} /\ HeldIds(s) = {}
                   /\ s.answered = {} /\ s.life # "loading"
<1>2. DOMAIN tab = Tabs /\ \A t \in Tabs : W(tab[t])
  <2>1. W(Started("closed")) /\ W(Started("open"))
    BY StartedWell
  <2> HIDE DEF W
  <2>2. PICK here \in SUBSET Tabs \ {{}} :
            tab = [t \in Tabs |->
                    [NewOutbox(IF t \in here THEN "open" ELSE "closed") EXCEPT
                        !.known = [p \in Pages |-> InitialPage.version]]]
    BY <1>1 DEF SyncInit
  <2>3. \A t \in Tabs : tab[t] = Started("open") \/ tab[t] = Started("closed")
    BY <2>2 DEF Started
  <2>4. \A t \in Tabs : W(tab[t])
    BY <2>1, <2>3
  <2>5. DOMAIN tab = Tabs /\ tab = [t \in Tabs |-> tab[t]]
    BY <2>2
  <2> QED BY <2>4, <2>5
<1>3. tab \in [Tabs -> OutboxType]
  <2>1. tab = [t \in Tabs |-> tab[t]]
    BY <1>1 DEF SyncInit
  <2>2. \A t \in Tabs : tab[t] \in OutboxType
    BY <1>2 DEF Good
  <2> QED BY <2>1, <2>2
<1>4. \A t \in Tabs : W(tab[t])
  BY <1>2
<1>5. IInv
  <2>1. store \in Seq(Batch) /\ io \in Seq(IoType) /\ settled \in SUBSET Ids
    BY <1>1 DEF SyncInit
  <2>4. missed \in BOOLEAN
    BY <1>1, Zenon DEF SyncInit
  <2>2. nextId \in 1 .. MaxId + 1
    BY <1>1, Bounds DEF SyncInit
  <2>3. LoadsAwaited(io, tab)
    BY <1>1 DEF SyncInit, LoadsAwaited
  <2> QED BY <1>3, <1>4, <2>1, <2>2, <2>3, <2>4 DEF IInv, TypeOK
<1>6. OrderInv
  <2>1. SoundRows(<<>>, 1)
    <3>1. DOMAIN <<>> = {} /\ IdSeq(<<>>) = <<>>
      BY DEF IdSeq
    <3> QED BY <3>1 DEF SoundRows, Distinct
  <2>2. store = <<>> /\ io = <<>> /\ nextId = 1
    BY <1>1 DEF SyncInit
  <2> QED BY <1>4, <2>1, <2>2 DEF OrderInv, LoadsFresh
<1> HIDE DEF W
<1>7. /\ rows = [p \in Pages |-> InitialPage] /\ view = [t \in Tabs |-> rows]
      /\ kept = [i \in Ids |-> [base |-> 0, reply |-> NoReply]]
      /\ wire = [t \in Tabs |-> NoReply] /\ late = {} /\ fetched = {} /\ opened = {}
      /\ log = <<>> /\ origin = [i \in Ids |-> i] /\ refused = {} /\ nextId = 1
  BY <1>1 DEF SyncInit
<1>8. 0 \in Versions /\ NoReply \in ReplyType
  <2>1. 0 \in Versions
    BY Bounds DEF Versions
  <2> QED BY <2>1 DEF NoReply, ReplyType, Status
<1>9. SyncType
  <2>1. RowsType
    <3>1. Len(log) = 0 /\ InitialPage.version \in Nat
      BY <1>7, Documents DEF Page
    <3>2. InitialPage.version <= InitialPage.version + Len(log)
      BY <3>1
    <3> QED BY <1>7, <3>2, InitialDated DEF RowsType
  <2>2. ViewType
    BY <1>7, InitialDated DEF ViewType
  <2>3. KeptType
    BY <1>7, <1>8 DEF KeptType
  <2>4. MailType
    BY <1>7, <1>8 DEF MailType
  <2>5. HistoryType
    BY <1>7 DEF HistoryType
  <2> QED BY <2>1, <2>2, <2>3, <2>4, <2>5 DEF SyncType
<1>10. Logged = {} /\ OnTheWay = {} /\ Sent = {}
  BY <1>7 DEF Logged, OnTheWay, Sent
<1>11. /\ \A t \in Tabs : Parted(tab[t]) /\ Rising(tab[t]) /\ tab[t].answered = {}
       /\ \A t \in Tabs : Waiting(tab[t]) = {} /\ Taken(tab[t]) = {}
  BY <1>4 DEF W
<1>12. Live = {}
  BY <1>10, <1>11 DEF Live
<1>13. PlaceInv
  BY <1>10, <1>11, <1>12 DEF PlaceInv
<1>14. OriginInv
  <2>1. \A i \in Ids : i \in Nat /\ ~(i < 1)
    BY DEF Ids
  <2>2. \A i \in Ids : origin[i] = i
    BY <1>7
  <2>3. \A i \in Ids : IF i < nextId THEN origin[i] < nextId ELSE origin[i] = i
    BY <1>7, <2>1, <2>2
  <2> QED BY <1>12, <2>3 DEF OriginInv
<1>15. DOMAIN log = {}
  BY <1>7
<1>16. LogInv /\ BatchesLandInOrder
  BY <1>10, <1>15 DEF LogInv, Distinct, BatchesLandInOrder
<1>17. WireInv
  BY <1>7 DEF WireInv
<1>18. TakenInv /\ AnswerInv
  BY <1>10, <1>11 DEF TakenInv, AnswerInv
<1> QED BY <1>5, <1>6, <1>9, <1>13, <1>14, <1>16, <1>17, <1>18 DEF SyncInv

-----------------------------------------------------------------------------
(* The outboxes take steps of module Outbox *)

\* An edit is a commit of its outbox.
LEMMA EditNext ==
    ASSUME SyncInv, NEW t \in Tabs, NEW p \in Pages, NEW e \in Edits, Edit(t, p, e)
    PROVE  Next
<1> DEFINE v == view[t][p].version
<1>1. v \in Versions
  BY DEF SyncInv, SyncType, ViewType, Dated
<1>2. Commit(t, p, e, v)
  BY DEF Edit
<1> HIDE DEF v
<1> QED BY <1>1, <1>2 DEF Next, Hook

\* A delivered answer is an answer of its outbox.
LEMMA DeliverNext ==
    ASSUME SyncInv, NEW t \in Tabs, Deliver(t)
    PROVE  /\ wire[t] # NoReply /\ wire[t] \in ReplyType /\ InFlight(t) /\ Network(t)
           /\ \/ wire[t].status = "ok" /\ Acked(t, wire[t].version)
              \/ wire[t].status = "conflict" /\ Conflicted(t, wire[t].version)
              \/ wire[t].status = "locked" /\ LockedOut(t)
              \/ wire[t].status \notin {"ok", "conflict", "locked"} /\ Rejected(t)
<1> DEFINE r == wire[t]
<1>1. r # NoReply /\ r \in ReplyType /\ InFlight(t)
  BY DEF SyncInv, SyncType, MailType, WireInv, Deliver
<1>2. r.version \in Versions
  BY <1>1 DEF ReplyType
<1>3. CASE r.status = "ok"
  <2>1. Acked(t, r.version)
    BY <1>3 DEF Deliver
  <2> HIDE DEF r
  <2>2. Network(t)
    BY <1>2, <2>1 DEF Network
  <2> QED BY <1>1, <1>3, <2>1, <2>2 DEF r
<1>4. CASE r.status = "conflict"
  <2>1. Conflicted(t, r.version)
    BY <1>4 DEF Deliver
  <2> HIDE DEF r
  <2>2. Network(t)
    BY <1>2, <2>1 DEF Network
  <2> QED BY <1>1, <1>4, <2>1, <2>2 DEF r
<1>5. CASE r.status = "locked"
  <2>1. LockedOut(t)
    BY <1>5 DEF Deliver
  <2> QED BY <1>1, <1>5, <2>1 DEF Network
<1>6. CASE r.status \notin {"ok", "conflict", "locked"}
  <2>1. Rejected(t)
    BY <1>6 DEF Deliver
  <2> QED BY <1>1, <1>6, <2>1 DEF Network
<1> QED BY <1>3, <1>4, <1>5, <1>6

\* A rebase is what its outbox does after a refetch.
LEMMA RebaseNext ==
    ASSUME SyncInv, NEW f \in fetched, Rebase(f)
    PROVE  /\ f.tab \in Tabs /\ Dated(f.page) /\ f.held \in tab[f.tab].held
           /\ f.held.page \in Pages /\ f.held.batches \in Seq(Batch)
           /\ f.page.version \in Versions
           /\ Dated(Rebased(f.page, f.held.batches).page)
           /\ Rebased(f.page, f.held.batches).again \in SUBSET DOMAIN f.held.batches
           /\ Next
<1> DEFINE t == f.tab  h == f.held  v == f.page.version
           done == Rebased(f.page, f.held.batches)
<1>1. t \in Tabs /\ Dated(f.page) /\ v \in Versions
  BY DEF SyncInv, SyncType, MailType, Dated
<1>2. Refetched(t, h, v, done.again)
  BY DEF Rebase
<1>3. h \in tab[t].held /\ tab[t] \in OutboxType
  BY <1>1, <1>2 DEF Refetched, SyncInv, IInv, TypeOK
<1>4. h.page \in Pages /\ h.batches \in Seq(Batch)
  BY <1>3 DEF OutboxType
<1>5. Dated(done.page) /\ done.again \in SUBSET DOMAIN h.batches
  BY <1>1, <1>4, RebasedIs
<1> DEFINE K == done.again
<1>6. K \in SUBSET DOMAIN h.batches /\ Refetched(t, h, v, K)
  BY <1>2, <1>5
<1> HIDE DEF K, done, t, h, v
<1>7. Next
  BY <1>1, <1>3, <1>6 DEF Next, Hook
<1> QED BY <1>1, <1>3, <1>4, <1>5, <1>7 DEF done, t, h, v

\* Showing a page that was read notes its version, or an older one.
LEMMA ShowNext ==
    ASSUME SyncInv, NEW o \in opened, Show(o)
    PROVE  /\ o.tab \in Tabs /\ o.at \in Pages /\ Dated(o.page) /\ o.page.version \in Versions
           /\ [Next]_vars
<1> DEFINE t == o.tab  p == o.at  v == o.page.version
<1>1. t \in Tabs /\ p \in Pages /\ Dated(o.page) /\ v \in Versions /\ tab[t].life = "open"
  BY DEF SyncInv, SyncType, MailType, Dated
<1>2. tab' = [tab EXCEPT ![t] = Noted(tab[t], p, v)] /\ UNCHANGED <<store, io, nextId, settled, missed>>
  BY DEF Show
<1>3. tab \in [Tabs -> OutboxType]
  BY DEF SyncInv, IInv, TypeOK
<1> HIDE DEF t, p, v
<1>4. CASE v > tab[t].known[p]
  <2>1. NotePage(t, p, v)
    BY <1>1, <1>2, <1>4 DEF NotePage, Update
  <2> QED BY <1>1, <2>1 DEF Next, Hook, t, p, v
<1>5. CASE ~(v > tab[t].known[p])
  <2>1. Noted(tab[t], p, v) = tab[t]
    BY <1>5 DEF Noted
  <2>2. tab' = tab
    BY <1>1, <1>2, <1>3, <2>1
  <2> QED BY <1>1, <1>2, <2>2 DEF vars, t, p, v
<1> QED BY <1>4, <1>5

\* Every step is a step of module Outbox or leaves the outboxes alone.
LEMMA SyncSteps ==
    ASSUME SyncInv, [SyncNext]_syncVars
    PROVE  [Next]_vars /\ IInv' /\ OrderInv'
<1>1. ASSUME NEW t \in Tabs, Client(t) PROVE [Next]_vars
  <2>1. ASSUME NEW p \in Pages, Visit(t, p) PROVE vars' = vars
    BY <2>1 DEF Visit
  <2>2. ASSUME NEW p \in Pages, NEW e \in Edits, Edit(t, p, e) PROVE Next
    BY <2>2, EditNext
  <2>3. ASSUME Deliver(t) PROVE Next
    BY <2>3, DeliverNext DEF Next
  <2>4. ASSUME GiveUp(t) PROVE Next
    BY <2>4 DEF GiveUp, Next, Network
  <2>5. ASSUME RetryNow(t) PROVE Next
    BY <2>5 DEF RetryNow, Next
  <2>6. ASSUME Unpause(t) PROVE Next
    BY <2>6 DEF Unpause, Next, Hook
  <2>7. ASSUME NEW h \in tab[t].held, ReadAfterConflict(t, h) PROVE vars' = vars
    BY <2>7 DEF ReadAfterConflict
  <2> QED BY <1>1, <2>1, <2>2, <2>3, <2>4, <2>5, <2>6, <2>7 DEF Client
<1>2. ASSUME NEW t \in Tabs, Serve(t) PROVE vars' = vars
  BY <1>2 DEF Serve
<1>3. ASSUME NEW r \in late, ServeLate(r) PROVE vars' = vars
  BY <1>3 DEF ServeLate
<1>4. ASSUME NEW on \in BOOLEAN, Freeze(on) PROVE vars' = vars
  BY <1>4 DEF Freeze
<1>5. Restore => vars' = vars
  BY DEF Restore
<1>6. syncVars' = syncVars => vars' = vars
  BY DEF syncVars
<1>7. \A f \in fetched : Rebase(f) => Next
  BY RebaseNext
<1>8. \A o \in opened : Show(o) => [Next]_vars
  BY ShowNext
<1>9. [Next]_vars
  BY <1>1, <1>2, <1>3, <1>4, <1>5, <1>6, <1>7, <1>8 DEF SyncNext
<1>10. IInv /\ OrderInv
  BY DEF SyncInv
<1>11. IInv'
  BY <1>9, <1>10, NextIInv
<1>12. OrderInv'
  BY <1>9, <1>10, <1>11, NextOrder
<1> QED BY <1>9, <1>11, <1>12

-----------------------------------------------------------------------------
(* Steps that leave the outboxes and the batches alone *)

Quietly ==
    /\ tab' = tab /\ nextId' = nextId
    /\ UNCHANGED <<kept, wire, late, log, origin, refused>>

\* Only pages and page reads change.
LEMMA StillStep ==
    ASSUME SyncInv, IInv', OrderInv', SyncType', Quietly
    PROVE  SyncInv'
<1>1. /\ tab' = tab /\ nextId' = nextId /\ kept' = kept /\ wire' = wire /\ late' = late
      /\ log' = log /\ origin' = origin /\ refused' = refused
  BY DEF Quietly
<1>2. Logged' = Logged /\ OnTheWay' = OnTheWay
  BY <1>1 DEF Logged, OnTheWay
<1>3. Sent' = Sent /\ \A i : Recorded(i)' <=> Recorded(i)
  BY <1>1, <1>2 DEF Sent, Recorded
<1>4. Live' = Live
  BY <1>1, <1>3 DEF Live
<1>5. PlaceInv'
  BY <1>1, <1>3, <1>4 DEF SyncInv, PlaceInv
<1>6. OriginInv' /\ LogInv'
  BY <1>1, <1>2, <1>3, <1>4 DEF SyncInv, OriginInv, LogInv
<1>7. WireInv'
  <2>1. WireInv
    BY DEF SyncInv
  <2> QED BY <1>1, <1>3, <2>1 DEF WireInv, InFlight
<1>8. TakenInv'
  BY <1>1 DEF SyncInv, TakenInv
<1>9. AnswerInv'
  BY <1>1, <1>3 DEF SyncInv, AnswerInv
<1>10. BatchesLandInOrder'
  BY <1>1 DEF SyncInv, BatchesLandInOrder
<1> QED BY <1>5, <1>6, <1>7, <1>8, <1>9, <1>10 DEF SyncInv

\* An outbox lets batches go, or what it had in flight may still arrive.
LEMMA ReleaseStep ==
    ASSUME SyncInv, IInv', OrderInv', SyncType', AnswerInv', NEW t \in Tabs, OnlyTab(t),
           Releases(tab[t], tab'[t]), tab'[t].answered \subseteq Taken(tab[t]),
           Sent' \subseteq Sent \cup HeadId(tab[t]), nextId' = nextId,
           kept' = kept, log' = log, origin' = origin, refused \subseteq refused',
           \A u \in Tabs : wire'[u] # NoReply =>
               wire'[u] = wire[u] /\ Undisturbed(tab[u], tab'[u])
    PROVE  SyncInv'
<1>0. PlaceInv /\ OriginInv /\ LogInv /\ WireInv /\ TakenInv /\ BatchesLandInOrder
  BY DEF SyncInv
<1>1. PlaceInv' /\ Live' \subseteq Live
  BY <1>0, PlaceReleases
<1>2. OriginInv'
  BY <1>0, <1>1, OriginKeeps
<1>3. Remembers
  BY DEF Remembers, Recorded
<1>4. LogInv'
  BY <1>0 DEF LogInv, Logged, Recorded
<1>5. \A u \in Tabs : tab[u].sending # NoBatch => tab[u].sending.id \in Ids
  BY Facts
<1>6. WireInv'
  BY <1>0, <1>3, <1>5, WireKeeps
<1>7. /\ \A u \in Tabs : tab'[u].accepted = tab[u].accepted
      /\ \A u \in Tabs : tab'[u].answered \subseteq Taken(tab[u])
  <2>1. \A u \in Tabs : u # t => tab'[u] = tab[u]
    BY DEF OnlyTab
  <2>2. tab'[t].accepted = tab[t].accepted
    BY DEF Releases
  <2>3. \A u \in Tabs : tab[u].answered \subseteq Taken(tab[u])
    BY <1>0 DEF TakenInv, Rising
  <2> QED BY <2>1, <2>2, <2>3
<1>8. TakenInv'
  BY <1>0, <1>7, TakenKeeps
<1>9. \A u \in Tabs : Taken(tab'[u]) = Taken(tab[u])
  BY <1>7 DEF Taken
<1>10. BatchesLandInOrder'
  BY <1>0, <1>9, OrderKeeps
<1> QED BY <1>1, <1>2, <1>4, <1>6, <1>8, <1>10 DEF SyncInv

\* An outbox takes batches in.
LEMMA TakeStep ==
    ASSUME SyncInv, IInv', OrderInv', SyncType', OriginInv', NEW t \in Tabs, OnlyTab(t),
           TakesIn(tab[t], tab'[t], nextId, nextId'), Rising(tab'[t]),
           nextId' \in Nat, nextId <= nextId', Undisturbed(tab[t], tab'[t]),
           UNCHANGED <<kept, wire, late, log, refused>>
    PROVE  SyncInv'
<1>0. PlaceInv /\ LogInv /\ WireInv /\ TakenInv /\ AnswerInv /\ BatchesLandInOrder
  BY DEF SyncInv
<1>1. kept' = kept /\ wire' = wire /\ late' = late /\ log' = log /\ refused' = refused
  OBVIOUS
<1>2. Logged' = Logged /\ Sent' = Sent
  BY <1>1 DEF Sent, Logged, OnTheWay
<1>3. /\ nextId \in Nat /\ Live \subseteq Ids /\ \A i \in Live : i < nextId /\ i \in Nat
      /\ \A u \in Tabs : tab[u].answered \subseteq Ids
      /\ \A u \in Tabs : \A i \in Taken(tab[u]) : i < nextId
      /\ \A u \in Tabs : tab[u].sending # NoBatch => tab[u].sending.id \in Ids
      /\ Sent \subseteq Live
  BY Facts
<1>4. PlaceInv'
  BY <1>0, <1>2, <1>3, PlaceTakesIn
<1>5. Remembers
  BY <1>1 DEF Remembers, Recorded
<1>6. LogInv'
  BY <1>0, <1>1 DEF LogInv, Logged, Recorded
<1>7. WireInv'
  <2>1. \A u \in Tabs : wire'[u] # NoReply => wire'[u] = wire[u] /\ Undisturbed(tab[u], tab'[u])
    BY <1>1 DEF OnlyTab, Undisturbed
  <2> QED BY <1>0, <1>3, <1>5, <2>1, WireKeeps
<1>8. TakenInv'
  BY <1>0, <1>3, TakenTakesIn
<1>9. \A i \in Sent : i < nextId /\ i \in Nat
  BY <1>3
<1>10. AnswerInv'
  BY <1>0, <1>1, <1>2, <1>3, <1>5, <1>9, AnswerTakesIn
<1>11. \A u \in Tabs : Taken(tab'[u]) \cap Logged \subseteq Taken(tab[u])
  <2> DEFINE N == nextId .. nextId' - 1
  <2>1. \A x \in N : ~(x < nextId)
    BY <1>3, From
  <2>2. \A x \in Logged : x < nextId
    BY <1>3 DEF Sent
  <2>3. Taken(tab'[t]) = Taken(tab[t]) \cup N
    BY DEF TakesIn
  <2> HIDE DEF N
  <2> QED BY <2>1, <2>2, <2>3 DEF OnlyTab
<1>12. BatchesLandInOrder'
  BY <1>0, <1>1, <1>11, OrderKeeps
<1> QED BY <1>4, <1>6, <1>7, <1>8, <1>10, <1>12 DEF SyncInv

\* A request arrives: that of the batch in flight in tab t, or a late one.
LEMMA LandStep ==
    ASSUME SyncInv, IInv', OrderInv', SyncType', WireInv', NEW t \in Tabs, NEW i \in Ids,
           Landing(i), i \in Sent \/ (InFlight(t) /\ i = tab[t].sending.id),
           Sent' \subseteq Sent \cup {i}, tab' = tab, nextId' = nextId,
           refused' = refused, origin' = origin
    PROVE  SyncInv'
<1>0. /\ PlaceInv /\ OriginInv /\ LogInv /\ TakenInv /\ AnswerInv /\ BatchesLandInOrder
      /\ IInv /\ OrderInv /\ log \in Seq(Ids)
  BY DEF SyncInv, SyncType, HistoryType
<1>1. /\ i \in Sent \/ Leads(i)
      /\ Sent' \subseteq Sent \cup HeadId(tab[t])
      /\ Sent' \subseteq Sent \/ \E x : Leads(x) /\ Sent' \subseteq Sent \cup {x}
  <2>1. CASE i \in Sent
    BY <2>1
  <2>2. CASE i \notin Sent
    <3>1. InFlight(t) /\ i = tab[t].sending.id
      BY <2>2
    <3>2. Leads(i) /\ HeadId(tab[t]) = {i}
      BY <1>0, <3>1, HeadLeads
    <3> QED BY <3>2
  <2> QED BY <2>1, <2>2
<1>2. OnlyTab(t) /\ Releases(tab[t], tab'[t])
  BY DEF OnlyTab, Releases
<1>3. PlaceInv' /\ Live' \subseteq Live
  BY <1>0, <1>1, <1>2, PlaceReleases
<1>4. OriginInv'
  BY <1>0, <1>3, OriginKeeps
<1>5. LogInv'
  BY <1>0, LogLands
<1>6. TakenInv'
  BY <1>0 DEF TakenInv
<1>7. Remembers
  BY DEF Landing
<1>8. \A u \in Tabs : tab[u].answered \subseteq Ids
  BY Facts
<1>9. AnswerInv'
  BY <1>0, <1>1, <1>7, <1>8, AnswerSends
<1>10. BatchesLandInOrder'
  BY <1>0, <1>1, OrderLands
<1> QED BY <1>3, <1>4, <1>5, <1>6, <1>9, <1>10 DEF SyncInv

\* The lock.
LEMMA FreezeStep ==
    ASSUME SyncInv, IInv', OrderInv', NEW on \in BOOLEAN, Freeze(on)
    PROVE  SyncInv'
<1>1. /\ tab' = tab /\ nextId' = nextId /\ rows' = rows /\ kept' = kept /\ wire' = wire
      /\ late' = late /\ view' = view /\ opened' = opened /\ fetched' = fetched
      /\ log' = log /\ origin' = origin /\ refused' = refused
  BY DEF Freeze, vars, shown, history
<1>2. SyncType
  BY DEF SyncInv
<1>3. RowsType' /\ ViewType'
  BY <1>1, <1>2 DEF SyncType, RowsType, ViewType
<1>4. KeptType' /\ HistoryType'
  BY <1>1, <1>2 DEF SyncType, KeptType, HistoryType
<1>5. MailType'
  BY <1>1, <1>2 DEF SyncType, MailType
<1> QED BY <1>1, <1>3, <1>4, <1>5, StillStep DEF SyncType, Quietly

\* A restore: the pages start again from version 0.
LEMMA RestoreStep ==
    ASSUME SyncInv, IInv', OrderInv', Restore
    PROVE  SyncInv'
<1>1. /\ tab' = tab /\ nextId' = nextId /\ kept' = kept /\ wire' = wire
      /\ late' = late /\ view' = view /\ opened' = opened /\ fetched' = fetched
      /\ log' = log /\ origin' = origin /\ refused' = refused
      /\ rows' = [p \in Pages |-> Restored(InitialPage)]
  BY DEF Restore, vars, shown
<1>2. SyncType
  BY DEF SyncInv
<1>3. RowsType'
  <2>1. Dated(Restored(InitialPage)) /\ Restored(InitialPage).version = 0
    <3>1. 0 \in Versions
      BY Bounds DEF Versions
    <3>2. InitialPage \in Page
      BY Documents
    <3>3. "version" \in DOMAIN Restored(InitialPage) /\ Restored(InitialPage).version = 0
      BY <3>2 DEF Page, Restored
    <3> QED BY <3>1, <3>3 DEF Dated
  <2>2. InitialPage.version \in Nat /\ Len(log) \in Nat
    BY <1>2, Documents DEF Page, SyncType, HistoryType
  <2>3. 0 <= InitialPage.version + Len(log)
    BY <2>2
  <2> QED BY <1>1, <2>1, <2>3 DEF RowsType
<1>4. KeptType' /\ HistoryType' /\ ViewType'
  BY <1>1, <1>2 DEF SyncType, KeptType, HistoryType, ViewType
<1>5. MailType'
  BY <1>1, <1>2 DEF SyncType, MailType
<1> QED BY <1>1, <1>3, <1>4, <1>5, StillStep DEF SyncType, Quietly

\* A page is opened and read.
LEMMA VisitStep ==
    ASSUME SyncInv, IInv', OrderInv', NEW t \in Tabs, NEW p \in Pages, Visit(t, p)
    PROVE  SyncInv'
<1>1. /\ tab' = tab /\ nextId' = nextId /\ rows' = rows /\ kept' = kept /\ wire' = wire
      /\ late' = late /\ view' = view /\ fetched' = fetched
      /\ log' = log /\ origin' = origin /\ refused' = refused
      /\ opened' = opened \cup {[tab |-> t, at |-> p, page |-> rows[p]]}
      /\ tab[t].life = "open"
  BY DEF Visit, vars, server
<1>2. SyncType
  BY DEF SyncInv
<1>3. RowsType' /\ ViewType'
  BY <1>1, <1>2 DEF SyncType, RowsType, ViewType
<1>4. KeptType' /\ HistoryType'
  BY <1>1, <1>2 DEF SyncType, KeptType, HistoryType
<1>5. MailType'
  <2>1. Dated(rows[p])
    BY <1>2 DEF SyncType, RowsType
  <2> QED BY <1>1, <1>2, <2>1 DEF SyncType, MailType
<1> QED BY <1>1, <1>3, <1>4, <1>5, StillStep DEF SyncType, Quietly

\* A page is read after a conflict.
LEMMA ReadStep ==
    ASSUME SyncInv, IInv', OrderInv', NEW t \in Tabs, NEW h \in tab[t].held, ReadAfterConflict(t, h)
    PROVE  SyncInv'
<1>1. /\ tab' = tab /\ nextId' = nextId /\ rows' = rows /\ kept' = kept /\ wire' = wire
      /\ late' = late /\ view' = view /\ opened' = opened
      /\ log' = log /\ origin' = origin /\ refused' = refused
      /\ fetched' = fetched \cup {[tab |-> t, held |-> h, page |-> rows[h.page]]}
  BY DEF ReadAfterConflict, vars, server, shown
<1>2. SyncType /\ tab[t] \in OutboxType
  BY DEF SyncInv, IInv, TypeOK
<1>3. RowsType' /\ ViewType'
  BY <1>1, <1>2 DEF SyncType, RowsType, ViewType
<1>4. KeptType' /\ HistoryType'
  BY <1>1, <1>2 DEF SyncType, KeptType, HistoryType
<1>5. MailType'
  <2>1. h.page \in Pages
    BY <1>2 DEF OutboxType
  <2>2. Dated(rows[h.page])
    BY <1>2, <2>1 DEF SyncType, RowsType
  <2> QED BY <1>1, <1>2, <2>2 DEF SyncType, MailType
<1> QED BY <1>1, <1>3, <1>4, <1>5, StillStep DEF SyncType, Quietly

-----------------------------------------------------------------------------
(* Requests arrive *)

\* The request in flight arrives.
LEMMA ServeStep ==
    ASSUME SyncInv, IInv', OrderInv', NEW t \in Tabs, Serve(t)
    PROVE  SyncInv'
<1>0. PICK b : b = tab[t].sending
  OBVIOUS
<1>1. /\ tab' = tab /\ nextId' = nextId /\ late' = late /\ view' = view /\ opened' = opened
      /\ fetched' = fetched /\ Process(t, b) /\ wire' = [wire EXCEPT ![t] = Reply(b)]
      /\ InFlight(t) /\ b # NoBatch
  BY <1>0 DEF Serve, vars, shown, InFlight
<1>2. /\ SyncType /\ LogInv /\ WireInv /\ log \in Seq(Ids)
      /\ tab[t] \in OutboxType /\ Flying(tab[t])
  BY DEF SyncInv, SyncType, HistoryType, IInv, TypeOK, Good
<1>3. b \in Batch /\ b.id \in Ids
  BY <1>0, <1>1, <1>2, HeadAndTail
<1>4. /\ Landing(b.id) /\ RowsType' /\ KeptType' /\ Reply(b) \in ReplyType
      /\ refused' = refused /\ origin' = origin
      /\ Reply(b).status \in {"locked", "invalid"} \/ Recorded(b.id)'
  BY <1>1, <1>2, <1>3, ProcessLands
<1>5. log' \in Seq(Ids) /\ Logged' \subseteq Logged \cup {b.id}
  BY <1>2, <1>3, <1>4, LogLands
<1>6. SyncType'
  <2>1. ViewType'
    BY <1>1, <1>2 DEF SyncType, ViewType
  <2>2. HistoryType'
    BY <1>2, <1>4, <1>5 DEF SyncType, HistoryType
  <2>3. wire' \in [Tabs -> ReplyType]
    BY <1>1, <1>2, <1>4 DEF SyncType, MailType
  <2>4. MailType'
    BY <1>1, <1>2, <2>3 DEF SyncType, MailType
  <2> QED BY <1>4, <2>1, <2>2, <2>4 DEF SyncType
<1>7. Sent' \subseteq Sent \cup {b.id}
  BY <1>1, <1>5 DEF Sent, OnTheWay
<1>8. WireInv'
  <2>1. ASSUME NEW u \in Tabs, wire'[u] # NoReply
        PROVE  /\ InFlight(u)'
               /\ wire'[u].status \in {"locked", "invalid"} \/ Recorded(tab[u].sending.id)'
    <3>1. CASE u = t
      <4>1. wire'[t] = Reply(b)
        BY <1>1, <1>2 DEF SyncType, MailType
      <4>2. InFlight(t)'
        BY <1>1 DEF InFlight
      <4> QED BY <1>0, <1>1, <1>4, <3>1, <4>1, <4>2
    <3>2. CASE u # t
      <4>1. wire'[u] = wire[u]
        BY <1>1, <1>2, <3>2 DEF SyncType, MailType
      <4>2. InFlight(u) /\ (wire[u].status \in {"locked", "invalid"} \/ Recorded(tab[u].sending.id))
        BY <1>2, <2>1, <4>1 DEF WireInv
      <4>3. tab[u].sending.id \in Ids
        BY <4>2, Facts DEF InFlight
      <4>4. InFlight(u)'
        BY <1>1, <4>2 DEF InFlight
      <4>5. tab' = tab /\ Remembers
        BY <1>1, <1>4 DEF Landing
      <4> QED BY <4>1, <4>2, <4>3, <4>4, <4>5 DEF Remembers
    <3> QED BY <3>1, <3>2
  <2> QED BY <1>1, <2>1 DEF WireInv
<1>9. b.id = tab[t].sending.id
  BY <1>0
<1> QED BY <1>1, <1>3, <1>4, <1>6, <1>7, <1>8, <1>9, LandStep

\* A late request arrives.
LEMMA ServeLateStep ==
    ASSUME SyncInv, IInv', OrderInv', NEW r \in late, ServeLate(r)
    PROVE  SyncInv'
<1> DEFINE b == r.batch  t == r.tab
<1>1. /\ tab' = tab /\ nextId' = nextId /\ wire' = wire /\ view' = view /\ opened' = opened
      /\ fetched' = fetched /\ Process(t, b) /\ late' = late \ {r}
  BY DEF ServeLate, vars, shown
<1>2. SyncType /\ LogInv /\ WireInv /\ log \in Seq(Ids)
  BY DEF SyncInv, SyncType, HistoryType
<1>3. b \in Batch /\ t \in Tabs /\ b.id \in Ids /\ b.id \in Sent
  BY <1>2 DEF SyncType, MailType, Batch, Sent, OnTheWay
<1> HIDE DEF b, t
<1>4. /\ Landing(b.id) /\ RowsType' /\ KeptType'
      /\ refused' = refused /\ origin' = origin
  BY <1>1, <1>2, <1>3, ProcessLands
<1>5. log' \in Seq(Ids) /\ Logged' \subseteq Logged \cup {b.id}
  BY <1>2, <1>3, <1>4, LogLands
<1>6. SyncType'
  <2>1. ViewType'
    BY <1>1, <1>2 DEF SyncType, ViewType
  <2>2. HistoryType'
    BY <1>2, <1>4, <1>5 DEF SyncType, HistoryType
  <2>4. MailType'
    BY <1>1, <1>2 DEF SyncType, MailType
  <2> QED BY <1>4, <2>1, <2>2, <2>4 DEF SyncType
<1>7. Sent' \subseteq Sent \cup {b.id}
  BY <1>1, <1>5 DEF Sent, OnTheWay
<1>8. WireInv'
  <2>1. Remembers
    BY <1>4 DEF Landing
  <2>2. \A u \in Tabs : tab[u].sending # NoBatch => tab[u].sending.id \in Ids
    BY Facts
  <2>3. \A u \in Tabs : wire'[u] = wire[u] /\ Undisturbed(tab[u], tab'[u])
    BY <1>1 DEF Undisturbed
  <2> QED BY <1>2, <2>1, <2>2, <2>3, WireKeeps
<1> QED BY <1>1, <1>3, <1>4, <1>6, <1>7, <1>8, LandStep

\* Mail that was sound stays so while every tab stays in its life.
LEMMA MailKeeps ==
    ASSUME MailType, \A u \in Tabs : tab'[u].life = tab[u].life,
           wire' \in [Tabs -> ReplyType],
           \A r \in late' : r \in late \/ (r.tab \in Tabs /\ r.batch \in Batch),
           fetched' \subseteq fetched, opened' \subseteq opened
    PROVE  MailType'
<1>1. \A r \in late' : r.tab \in Tabs /\ r.batch \in Batch
  BY DEF MailType
<1>2. \A f \in fetched' : f.tab \in Tabs /\ Dated(f.page)
  BY DEF MailType
<1>3. ASSUME NEW o \in opened'
      PROVE  o.tab \in Tabs /\ o.at \in Pages /\ Dated(o.page) /\ tab'[o.tab].life = "open"
  BY DEF MailType
<1> QED BY <1>1, <1>2, <1>3 DEF MailType

\* The local copy of one page is replaced.
LEMMA ViewKeeps ==
    ASSUME ViewType, NEW t \in Tabs, NEW p \in Pages, NEW q, Dated(q),
           view' = [view EXCEPT ![t] = [view[t] EXCEPT ![p] = q]]
    PROVE  ViewType'
<1>1. DOMAIN view' = Tabs /\ \A u \in Tabs : view'[u] = IF u = t THEN [view[t] EXCEPT ![p] = q] ELSE view[u]
  BY DEF ViewType
<1>2. \A u \in Tabs : DOMAIN view'[u] = Pages
  BY <1>1 DEF ViewType
<1>3. ASSUME NEW u \in Tabs, NEW x \in Pages PROVE Dated(view'[u][x])
  <2>1. Dated(view[u][x]) /\ DOMAIN view[u] = Pages
    BY DEF ViewType
  <2>2. CASE u = t /\ x = p
    BY <1>1, <2>1, <2>2
  <2>3. CASE ~(u = t /\ x = p)
    BY <1>1, <2>1, <2>3
  <2> QED BY <2>2, <2>3
<1> QED BY <1>1, <1>2, <1>3 DEF ViewType

\* An outbox is updated, and only that one.
LEMMA Updated ==
    ASSUME IInv, NEW t \in Tabs, NEW s, Update(t, s)
    PROVE  tab'[t] = s /\ OnlyTab(t)
BY DEF Update, IInv, TypeOK, OnlyTab

\* An outbox whose queue stays lets nothing go.
LEMMA StaysReleases ==
    ASSUME NEW s \in OutboxType, NEW u \in OutboxType, Stays(s, u), u.held = s.held
    PROVE  Releases(s, u) /\ u.answered = s.answered
<1>1. /\ IdsOf(u.queue) = IdsOf(s.queue) /\ Behind(u) = Behind(s)
      /\ u.accepted = s.accepted /\ u.life = s.life /\ u.answered = s.answered
  BY StaysIds DEF Stays
<1> QED BY <1>1 DEF Releases

\* Nothing comes in or leaves; something may be sent.
LEMMA TouchStep ==
    ASSUME SyncInv, IInv', OrderInv', NEW t \in Tabs, NEW s \in OutboxType, Update(t, s),
           Stays(tab[t], s), s.held = tab[t].held, Undisturbed(tab[t], s),
           UNCHANGED <<nextId, rows, kept, wire, late, fetched, log, origin, refused>>,
           opened' \subseteq opened, ViewType'
    PROVE  SyncInv'
<1>1. /\ nextId' = nextId /\ rows' = rows /\ kept' = kept /\ wire' = wire
      /\ late' = late /\ fetched' = fetched
      /\ log' = log /\ origin' = origin /\ refused' = refused
  OBVIOUS
<1>2. /\ SyncType /\ TakenInv /\ AnswerInv /\ IInv /\ tab[t] \in OutboxType
  BY DEF SyncInv, IInv, TypeOK
<1>21. ViewType'
  OBVIOUS
<1>3. tab'[t] = s /\ OnlyTab(t)
  BY <1>2, Updated
<1>4. Releases(tab[t], tab'[t]) /\ tab'[t].answered = tab[t].answered
  BY <1>2, <1>3, StaysReleases
<1>5. \A u \in Tabs : tab'[u].life = tab[u].life
  BY <1>3, <1>4 DEF Releases, OnlyTab
<1>6. SyncType'
  <2>0. RowsType /\ KeptType /\ HistoryType
    BY <1>2 DEF SyncType
  <2>1. RowsType'
    BY <1>1, <2>0 DEF RowsType
  <2>4. KeptType' /\ HistoryType'
    BY <1>1, <2>0 DEF KeptType, HistoryType
  <2>2. MailType /\ wire' \in [Tabs -> ReplyType]
    BY <1>1, <1>2 DEF SyncType, MailType
  <2>3. MailType'
    BY <1>1, <1>5, <2>2, MailKeeps
  <2> QED BY <2>1, <2>3, <2>4, <1>21 DEF SyncType
<1>7. Sent' = Sent
  BY <1>1 DEF Sent, Logged, OnTheWay
<1>8. tab'[t].answered \subseteq Taken(tab[t])
  BY <1>2, <1>4 DEF TakenInv, Rising
<1>9. AnswerInv'
  <2>1. Remembers
    BY <1>1 DEF Remembers, Recorded
  <2>2. \A u \in Tabs : tab[u].answered \subseteq Ids
    BY Facts
  <2>3. Taken(tab'[t]) = Taken(tab[t])
    BY <1>4 DEF Releases, Taken
  <2> QED BY <1>1, <1>2, <1>3, <1>4, <1>7, <2>1, <2>2, <2>3, AnswerArrives
<1>10. \A u \in Tabs : Undisturbed(tab[u], tab'[u])
  BY <1>3 DEF OnlyTab, Undisturbed
<1> QED BY <1>1, <1>3, <1>4, <1>6, <1>7, <1>8, <1>9, <1>10, ReleaseStep

\* A timer fires, or the version is unlocked.
LEMMA WakeStep ==
    ASSUME SyncInv, IInv', OrderInv', NEW t \in Tabs, RetryNow(t) \/ Unpause(t)
    PROVE  SyncInv'
<1> DEFINE r == [tab[t] EXCEPT !.timer = FALSE]  l == [tab[t] EXCEPT !.locked = FALSE]
<1>1. /\ UNCHANGED <<nextId, rows, kept, wire, late, view, opened, fetched, log, origin, refused>>
      /\ Update(t, Drained(r)) \/ Update(t, Drained(l))
  BY DEF RetryNow, Unpause, Retry, Resume, server, shown, history
<1>2. tab[t] \in OutboxType /\ Good(tab[t]) /\ SyncType
  BY DEF SyncInv, IInv, TypeOK
<1>3. /\ r \in OutboxType /\ l \in OutboxType
      /\ r.held = tab[t].held /\ l.held = tab[t].held
      /\ r.sending = tab[t].sending /\ l.sending = tab[t].sending
      /\ Stays(tab[t], r) /\ Stays(tab[t], l)
  BY <1>2 DEF OutboxType, Stays
<1>4. Drained(r) \in OutboxType /\ Drained(l) \in OutboxType
  BY <1>2, WokenGood DEF Good
<1> HIDE DEF r, l
<1>5. ASSUME NEW e \in OutboxType, Drained(e) \in OutboxType, e.held = tab[t].held,
             e.sending = tab[t].sending, Stays(tab[t], e), Update(t, Drained(e))
      PROVE  SyncInv'
  <2>1. Drained(e).held = tab[t].held /\ Undisturbed(tab[t], Drained(e))
    BY <1>5, DrainedRest DEF Undisturbed
  <2>2. Stays(tab[t], Drained(e))
    BY <1>5, DrainedStays DEF Stays
  <2>3. ViewType'
    BY <1>1, <1>2 DEF SyncType, ViewType
  <2>4. opened' \subseteq opened
    BY <1>1
  <2> QED BY <1>1, <1>5, <2>1, <2>2, <2>3, <2>4, TouchStep
<1> QED BY <1>1, <1>3, <1>4, <1>5

\* A page that was read replaces the local copy.
LEMMA ShowStep ==
    ASSUME SyncInv, IInv', OrderInv', NEW o \in opened, Show(o)
    PROVE  SyncInv'
<1> DEFINE t == o.tab  p == o.at  v == o.page.version  s == Noted(tab[t], p, v)
<1>1. /\ UNCHANGED <<nextId, rows, kept, wire, late, fetched, log, origin, refused>>
      /\ Update(t, s) /\ opened' \subseteq opened
      /\ view' = [view EXCEPT ![t] = [view[t] EXCEPT ![p] = o.page]]
  BY DEF Show, server, history, Update
<1>2. t \in Tabs /\ p \in Pages /\ Dated(o.page) /\ v \in Versions
  BY ShowNext
<1>3. tab[t] \in OutboxType /\ ViewType
  BY <1>2 DEF SyncInv, SyncType, IInv, TypeOK
<1>4. /\ s \in OutboxType /\ Stays(tab[t], s) /\ s.held = tab[t].held
      /\ Undisturbed(tab[t], s)
  BY <1>2, <1>3, NotedGood, NotedStays, NotedRest
<1> HIDE DEF s
<1>5. ViewType'
  BY <1>1, <1>2, <1>3, ViewKeeps
<1> QED BY <1>1, <1>2, <1>4, <1>5, TouchStep

\* What an answer does to the outbox that waited for it.
LEMMA AnswerIs ==
    ASSUME SyncInv, NEW t \in Tabs, Deliver(t), NEW b, b = tab[t].sending
    PROVE  /\ OnlyTab(t) /\ nextId' = nextId /\ Releases(tab[t], tab'[t])
           /\ b.id \in Ids /\ b.page \in Pages
           /\ tab[t].answered \subseteq tab'[t].answered
           /\ tab'[t].answered \subseteq tab[t].answered \cup {b.id} \cup Behind(tab[t])
           /\ wire[t].status = "locked" => tab'[t].answered = tab[t].answered
<1> DEFINE s == tab[t]
<1>1. /\ s \in OutboxType /\ Flying(s) /\ IInv /\ Distinct(IdSeq(s.queue))
  BY Facts DEF SyncInv
<1>2. PICK r : r = wire[t]
  OBVIOUS
<1>3. /\ r # NoReply /\ r \in ReplyType /\ InFlight(t)
      /\ \/ r.status = "ok" /\ Acked(t, r.version)
         \/ r.status = "conflict" /\ Conflicted(t, r.version)
         \/ r.status = "locked" /\ LockedOut(t)
         \/ r.status \notin {"ok", "conflict", "locked"} /\ Rejected(t)
  BY <1>2, DeliverNext
<1>4. s.sending # NoBatch /\ r.version \in Versions
  BY <1>3 DEF InFlight, ReplyType
<1> DEFINE Right(u) ==
               /\ Releases(s, u) /\ s.answered \subseteq u.answered
               /\ u.answered \subseteq s.answered \cup {b.id} \cup Behind(s)
               /\ r.status = "locked" => u.answered = s.answered
<1>5. b.id \in Ids /\ b.page \in Pages /\ s.sending = b
  BY <1>1, <1>4, HeadAndTail
<1>6. ASSUME NEW u, Answer(t, u), Right(u)
      PROVE  OnlyTab(t) /\ nextId' = nextId /\ Right(tab'[t])
  <2>1. Update(t, u) /\ nextId' = nextId
    BY <1>6 DEF Answer
  <2>2. tab'[t] = u /\ OnlyTab(t)
    BY <1>1, <2>1, Updated
  <2> HIDE DEF Right
  <2> QED BY <1>6, <2>1, <2>2
<1> HIDE DEF s
<1>7. CASE r.status = "ok" /\ Acked(t, r.version)
  <2>1. Releases(s, AfterAck(s, r.version)) /\ AfterAck(s, r.version).answered = s.answered \cup {b.id}
    BY <1>1, <1>4, <1>5, AckReleases
  <2>2. Answer(t, AfterAck(s, r.version)) /\ Right(AfterAck(s, r.version))
    BY <1>7, <2>1 DEF Acked, s
  <2>3. OnlyTab(t) /\ nextId' = nextId /\ Right(tab'[t])
    BY <1>6, <2>2
  <2> QED BY <1>2, <1>5, <2>3 DEF s
<1>8. CASE r.status = "conflict" /\ Conflicted(t, r.version)
  <2> DEFINE u == AfterConflict(s, r.version)
  <2>1. Releases(s, u) /\ u.answered \subseteq s.answered \cup {b.id} \cup Behind(s)
    BY <1>1, <1>4, <1>5, ConflictReleases
  <2>2. s.answered \subseteq u.answered
    BY <1>1, <1>4, ConflictServes DEF Serves
  <2>3. Answer(t, u)
    BY <1>8 DEF Conflicted, s
  <2> HIDE DEF u
  <2>4. Right(u)
    BY <1>8, <2>1, <2>2
  <2>5. OnlyTab(t) /\ nextId' = nextId /\ Right(tab'[t])
    BY <1>6, <2>3, <2>4
  <2> QED BY <1>2, <1>5, <2>5 DEF s
<1>9. CASE r.status = "locked" /\ LockedOut(t)
  <2>1. Releases(s, AfterLocked(s)) /\ AfterLocked(s).answered = s.answered
    BY <1>1, <1>4, RefusalReleases
  <2>2. Answer(t, AfterLocked(s)) /\ Right(AfterLocked(s))
    BY <1>9, <2>1 DEF LockedOut, s
  <2>3. OnlyTab(t) /\ nextId' = nextId /\ Right(tab'[t])
    BY <1>6, <2>2
  <2> QED BY <1>2, <1>5, <2>3 DEF s
<1>10. CASE r.status \notin {"ok", "conflict", "locked"} /\ Rejected(t)
  <2>1. Releases(s, AfterRejection(s)) /\ AfterRejection(s).answered = s.answered \cup {b.id}
    BY <1>1, <1>4, <1>5, RefusalReleases
  <2>2. Answer(t, AfterRejection(s)) /\ Right(AfterRejection(s))
    BY <1>10, <2>1 DEF Rejected, s
  <2>3. OnlyTab(t) /\ nextId' = nextId /\ Right(tab'[t])
    BY <1>6, <2>2
  <2> QED BY <1>2, <1>5, <2>3 DEF s
<1> QED BY <1>3, <1>7, <1>8, <1>9, <1>10

\* An answer arrives.
LEMMA DeliverStep ==
    ASSUME SyncInv, IInv', OrderInv', NEW t \in Tabs, Deliver(t)
    PROVE  SyncInv'
<1>0. PICK b : b = tab[t].sending
  OBVIOUS
<1>1. /\ OnlyTab(t) /\ nextId' = nextId /\ Releases(tab[t], tab'[t])
      /\ b.id \in Ids /\ b.page \in Pages
      /\ tab[t].answered \subseteq tab'[t].answered
      /\ tab'[t].answered \subseteq tab[t].answered \cup {b.id} \cup Behind(tab[t])
      /\ wire[t].status = "locked" => tab'[t].answered = tab[t].answered
  BY <1>0, AnswerIs
<1>2. /\ wire[t] # NoReply /\ wire[t] \in ReplyType /\ InFlight(t)
  BY DeliverNext
<1>3. /\ rows' = rows /\ kept' = kept /\ late' = late /\ fetched' = fetched
      /\ opened' = opened /\ log' = log /\ origin' = origin
      /\ wire' = [wire EXCEPT ![t] = NoReply]
      /\ refused' = IF wire[t].status = "invalid" THEN refused \cup {b.id} ELSE refused
      /\ view' = IF wire[t].status = "ok"
                 THEN [view EXCEPT ![t][b.page].version = wire[t].version] ELSE view
  BY <1>0 DEF Deliver, server
<1>4. /\ SyncType /\ TakenInv /\ AnswerInv /\ WireInv /\ PlaceInv /\ IInv /\ OrderInv
      /\ refused \in SUBSET Ids
  BY DEF SyncInv, SyncType, HistoryType
<1>5. \A u \in Tabs : tab'[u].life = tab[u].life
  BY <1>1 DEF Releases, OnlyTab
<1>6. NoReply \in ReplyType
  <2>1. 0 \in Versions
    BY Bounds DEF Versions
  <2> QED BY <2>1 DEF NoReply, ReplyType, Status
<1>7. SyncType'
  <2>0. RowsType /\ KeptType /\ HistoryType /\ MailType /\ ViewType
    BY <1>4 DEF SyncType
  <2>1. RowsType'
    BY <1>3, <2>0 DEF RowsType
  <2>2. KeptType' /\ HistoryType'
    BY <1>1, <1>3, <2>0 DEF KeptType, HistoryType
  <2>3. wire' \in [Tabs -> ReplyType]
    BY <1>3, <1>6, <2>0 DEF MailType
  <2>4. MailType'
    BY <1>3, <1>5, <2>0, <2>3, MailKeeps
  <2>5. ViewType'
    <3>1. CASE wire[t].status = "ok"
      <4> DEFINE q == [view[t][b.page] EXCEPT !.version = wire[t].version]
      <4>1. wire[t].version \in Versions /\ Dated(view[t][b.page])
        BY <1>1, <1>2, <2>0 DEF ReplyType, ViewType
      <4>2. Dated(q)
        BY <4>1 DEF Dated
      <4>3. view' = [view EXCEPT ![t] = [view[t] EXCEPT ![b.page] = q]]
        BY <1>3, <3>1
      <4> HIDE DEF q
      <4> QED BY <1>1, <2>0, <4>2, <4>3, ViewKeeps
    <3>2. CASE wire[t].status # "ok"
      BY <1>3, <2>0, <3>2 DEF ViewType
    <3> QED BY <3>1, <3>2
  <2> QED BY <2>1, <2>2, <2>4, <2>5 DEF SyncType
<1>8. Sent' = Sent
  BY <1>3 DEF Sent, Logged, OnTheWay
<1>9. tab'[t].answered \subseteq Taken(tab[t])
  <2>1. tab[t].answered \subseteq Taken(tab[t])
    BY <1>4 DEF TakenInv, Rising
  <2>2. Behind(tab[t]) \subseteq Taken(tab[t])
    BY Facts, BehindWaits
  <2>3. b.id \in Taken(tab[t])
    <3>1. HeadId(tab[t]) = {b.id}
      BY <1>0, <1>2, <1>4, HeadLeads
    <3> QED BY <3>1, Facts DEF HeadId
  <2> QED BY <1>1, <2>1, <2>2, <2>3
<1>10. refused \subseteq refused'
  BY <1>3
<1>11. AnswerInv'
  <2>1. Remembers
    BY <1>3 DEF Remembers, Recorded
  <2>2. \A u \in Tabs : tab[u].answered \subseteq Ids
    BY Facts
  <2>3. Taken(tab'[t]) = Taken(tab[t])
    BY <1>1 DEF Releases, Taken
  <2>4. ASSUME NEW i \in tab'[t].answered
        PROVE  i \in tab[t].answered \/ i \in refused' \/ i \notin Sent \/ Recorded(i)'
    <3>1. CASE i \in Behind(tab[t])
      BY <1>4, <3>1 DEF PlaceInv
    <3>2. CASE i = b.id
      <4>1. CASE wire[t].status = "locked"
        BY <1>1, <4>1
      <4>2. CASE wire[t].status = "invalid"
        BY <1>3, <3>2, <4>2
      <4>3. CASE wire[t].status \notin {"locked", "invalid"}
        <5>1. Recorded(b.id)
          BY <1>0, <1>2, <1>4, <4>3 DEF WireInv
        <5> QED BY <1>3, <3>2, <5>1 DEF Recorded
      <4> QED BY <4>1, <4>2, <4>3
    <3> QED BY <1>1, <3>1, <3>2
  <2> QED BY <1>1, <1>4, <1>8, <1>10, <2>1, <2>2, <2>3, <2>4, AnswerArrives
<1>12. \A u \in Tabs : wire'[u] # NoReply =>
          wire'[u] = wire[u] /\ Undisturbed(tab[u], tab'[u])
  <2>1. \A u \in Tabs : wire'[u] = IF u = t THEN NoReply ELSE wire[u]
    BY <1>3, <1>4 DEF SyncType, MailType
  <2> QED BY <1>1, <2>1 DEF OnlyTab, Undisturbed
<1> QED BY <1>1, <1>3, <1>7, <1>8, <1>9, <1>10, <1>11, <1>12, ReleaseStep

\* No answer came.
LEMMA GiveUpStep ==
    ASSUME SyncInv, IInv', OrderInv', NEW t \in Tabs, GiveUp(t)
    PROVE  SyncInv'
<1>0. PICK b : b = tab[t].sending
  OBVIOUS
<1> DEFINE s == tab[t]
<1>1. /\ rows' = rows /\ kept' = kept /\ fetched' = fetched /\ view' = view
      /\ opened' = opened /\ log' = log /\ origin' = origin /\ refused' = refused
      /\ wire' = [wire EXCEPT ![t] = NoReply] /\ nextId' = nextId
      /\ late' = late \/ late' = late \cup {[tab |-> t, batch |-> b]}
      /\ InFlight(t) /\ Update(t, AfterFailure(s))
  BY <1>0 DEF GiveUp, server, shown, history, Failed, Answer
<1>2. /\ SyncType /\ TakenInv /\ AnswerInv /\ IInv /\ OrderInv
      /\ s \in OutboxType /\ Flying(s) /\ s.sending # NoBatch
  BY <1>1 DEF SyncInv, IInv, TypeOK, Good, InFlight
<1>3. tab'[t] = AfterFailure(s) /\ OnlyTab(t)
  BY <1>1, <1>2, Updated
<1>4. Releases(s, AfterFailure(s)) /\ AfterFailure(s).answered = s.answered
  BY <1>2, RefusalReleases
<1>5. b \in Batch /\ b.id \in Ids
  BY <1>0, <1>2, HeadAndTail
<1>6. Releases(tab[t], tab'[t]) /\ tab'[t].answered = tab[t].answered
  BY <1>3, <1>4
<1> HIDE DEF s
<1>7. \A u \in Tabs : tab'[u].life = tab[u].life
  BY <1>3, <1>6 DEF Releases, OnlyTab
<1>8. SyncType'
  <2>0. RowsType /\ KeptType /\ HistoryType /\ MailType /\ ViewType
    BY <1>2 DEF SyncType
  <2>1. RowsType'
    BY <1>1, <2>0 DEF RowsType
  <2>2. KeptType' /\ HistoryType'
    BY <1>1, <2>0 DEF KeptType, HistoryType
  <2>3. NoReply \in ReplyType
    <3>1. 0 \in Versions
      BY Bounds DEF Versions
    <3> QED BY <3>1 DEF NoReply, ReplyType, Status
  <2>4. wire' \in [Tabs -> ReplyType]
    BY <1>1, <2>0, <2>3 DEF MailType
  <2>5. \A r \in late' : r \in late \/ (r.tab \in Tabs /\ r.batch \in Batch)
    BY <1>1, <1>5
  <2>6. MailType'
    BY <1>1, <1>7, <2>0, <2>4, <2>5, MailKeeps
  <2>7. ViewType'
    BY <1>1, <2>0 DEF ViewType
  <2> QED BY <2>1, <2>2, <2>6, <2>7 DEF SyncType
<1>9. Leads(b.id) /\ HeadId(tab[t]) = {b.id}
  BY <1>0, <1>1, <1>2, HeadLeads
<1>10. Sent' \subseteq Sent \cup {b.id}
  <2>1. OnTheWay' \subseteq OnTheWay \cup {b.id}
    BY <1>1 DEF OnTheWay
  <2>2. Logged' = Logged
    BY <1>1 DEF Logged
  <2> QED BY <2>1, <2>2 DEF Sent
<1>11. tab'[t].answered \subseteq Taken(tab[t])
  BY <1>2, <1>6 DEF TakenInv, Rising
<1>12. AnswerInv'
  <2>1. Remembers
    BY <1>1 DEF Remembers, Recorded
  <2>2. \A u \in Tabs : tab[u].answered \subseteq Ids
    BY Facts
  <2>3. \A u \in Tabs : Taken(tab'[u]) = Taken(tab[u]) /\ tab'[u].answered = tab[u].answered
    BY <1>3, <1>6 DEF Releases, Taken, OnlyTab
  <2> QED BY <1>1, <1>2, <1>9, <1>10, <2>1, <2>2, <2>3, AnswerSends
<1>13. \A u \in Tabs : wire'[u] # NoReply =>
          wire'[u] = wire[u] /\ Undisturbed(tab[u], tab'[u])
  <2>1. \A u \in Tabs : wire'[u] = IF u = t THEN NoReply ELSE wire[u]
    BY <1>1, <1>2 DEF SyncType, MailType
  <2> QED BY <1>3, <2>1 DEF OnlyTab, Undisturbed
<1> QED BY <1>1, <1>3, <1>6, <1>8, <1>9, <1>10, <1>11, <1>12, <1>13, ReleaseStep

\* A person edits a page.
LEMMA EditStep ==
    ASSUME SyncInv, IInv', OrderInv', NEW t \in Tabs, NEW p \in Pages, NEW e \in Edits, Edit(t, p, e)
    PROVE  SyncInv'
<1> DEFINE v == view[t][p].version
           bs == <<[id |-> nextId, page |-> p, base |-> v, edit |-> e]>>
           s == tab[t]
           u == Enqueued(s, bs)
<1>1. /\ rows' = rows /\ kept' = kept /\ late' = late /\ fetched' = fetched
      /\ opened' = opened /\ log' = log /\ origin' = origin /\ refused' = refused
      /\ wire' = wire /\ nextId' = nextId + 1 /\ nextId <= MaxId /\ Update(t, u)
      /\ view' = [view EXCEPT ![t] = [view[t] EXCEPT ![p] = Stages(@, e)[Len(e)]]]
  BY DEF Edit, Commit, server, history
<1>2. /\ SyncType /\ PlaceInv /\ OriginInv /\ OrderInv /\ IInv
      /\ Ordered(s, nextId) /\ Rising(s) /\ s \in OutboxType
      /\ nextId \in 1 .. MaxId + 1 /\ nextId \in Nat
  BY Facts DEF SyncInv
<1>3. Dated(view[t][p]) /\ v \in Versions /\ e \in Seq(Op)
  BY <1>2, Documents DEF SyncType, ViewType, Dated
<1>4. nextId \in Ids /\ nextId + 1 \in Nat /\ nextId <= nextId + 1
  BY <1>1, <1>2, Bounds DEF Ids
<1>5. bs \in Seq(Batch) /\ Len(bs) = 1 /\ bs[1].id = nextId /\ DOMAIN bs = {1}
  BY <1>3, <1>4 DEF Batch
<1>6. tab'[t] = u /\ OnlyTab(t)
  BY <1>1, <1>2, Updated
<1> HIDE DEF v, bs
<1>7. u \in OutboxType
  <2>1. tab'[t] \in OutboxType
    BY DEF IInv, TypeOK
  <2> QED BY <1>6, <2>1
<1>8. Grows(s, u, bs) /\ u.held = s.held /\ Undisturbed(s, u)
  BY <1>2, <1>5, EnqueuedGrows, EnqueuedRest
<1>9. Fresh(bs, nextId)
  BY <1>2, <1>5 DEF Fresh
<1> HIDE DEF u
<1>10. TakesIn(s, u, nextId, nextId + 1) /\ Rising(u)
  BY <1>2, <1>5, <1>7, <1>8, <1>9, GrowsTakesIn
<1>11. TakesIn(tab[t], tab'[t], nextId, nextId') /\ Rising(tab'[t]) /\ Undisturbed(tab[t], tab'[t])
  BY <1>1, <1>6, <1>8, <1>10
<1>12. nextId' \in Nat /\ nextId <= nextId'
  BY <1>1, <1>4
<1>13. \A x \in Tabs : tab'[x].life = tab[x].life
  BY <1>6, <1>11 DEF OnlyTab, TakesIn
<1>14. SyncType'
  <2>0. RowsType /\ KeptType /\ HistoryType /\ MailType /\ ViewType
    BY <1>2 DEF SyncType
  <2>1. RowsType'
    BY <1>1, <2>0 DEF RowsType
  <2>2. KeptType' /\ HistoryType'
    BY <1>1, <2>0 DEF KeptType, HistoryType
  <2>3. MailType'
    <3>1. wire' \in [Tabs -> ReplyType]
      BY <1>1, <2>0 DEF MailType
    <3> QED BY <1>1, <1>13, <2>0, <3>1, MailKeeps
  <2>4. ViewType'
    <3> DEFINE q == Stages(view[t][p], e)[Len(e)]
    <3>1. Dated(q)
      <4>1. SameVersion(view[t][p], view[t][p])
        BY <1>3 DEF Dated, SameVersion
      <4>2. Len(e) \in 0 .. Len(e)
        BY <1>3
      <4>3. SameVersion(view[t][p], q)
        BY <1>3, <4>1, <4>2, StagesKeepVersion
      <4> QED BY <1>3, <4>3 DEF Dated, SameVersion
    <3>2. view' = [view EXCEPT ![t] = [view[t] EXCEPT ![p] = q]]
      BY <1>1
    <3> HIDE DEF q
    <3> QED BY <2>0, <3>1, <3>2, ViewKeeps
  <2> QED BY <2>1, <2>2, <2>3, <2>4 DEF SyncType
<1>15. Sent' = Sent
  BY <1>1 DEF Sent, Logged, OnTheWay
<1>16. Live \subseteq Ids /\ \A i \in Live : i < nextId /\ i \in Nat
  BY Facts
<1>17. OriginInv'
  <2>1. Live' \subseteq Live \cup nextId .. nextId' - 1
    BY <1>2, <1>6, <1>11, <1>12, <1>15, <1>16, PlaceTakesIn
  <2>2. nextId .. nextId' - 1 = {nextId}
    BY <1>1, <1>2
  <2>3. Live' \subseteq Live \cup {nextId}
    BY <2>1, <2>2
  <2>4. origin \in [Ids -> Ids]
    BY <1>2 DEF SyncType, HistoryType
  <2> QED BY <1>1, <1>2, <1>4, <1>16, <2>3, <2>4, OriginCommit
<1> QED BY <1>1, <1>6, <1>11, <1>12, <1>14, <1>17, TakeStep

\* Dropped batches are queued again on the page that was read.
LEMMA RebaseStep ==
    ASSUME SyncInv, IInv', OrderInv', NEW f \in fetched, Rebase(f)
    PROVE  SyncInv'
<1>0. PICK t, h, v, K, page : /\ t = f.tab /\ h = f.held /\ v = f.page.version
                              /\ K = Rebased(f.page, f.held.batches).again
                              /\ page = Rebased(f.page, f.held.batches).page
  OBVIOUS
<1> DEFINE bs == Keep(h.batches, K)
           s == tab[t]
           n == [Noted(s, h.page, v) EXCEPT !.held = @ \ {h}]
           again == Reissued(n, bs)
           u == Enqueued(n, again)
<1>1. /\ t \in Tabs /\ h \in s.held /\ h.page \in Pages /\ h.batches \in Seq(Batch)
      /\ v \in Versions /\ Dated(page) /\ K \in SUBSET DOMAIN h.batches
  BY <1>0, RebaseNext
<1>2. /\ rows' = rows /\ kept' = kept /\ late' = late /\ opened' = opened
      /\ wire' = wire /\ log' = log /\ refused' = refused /\ fetched' = fetched \ {f}
      /\ view' = [view EXCEPT ![t] = [view[t] EXCEPT ![h.page] = page]]
      /\ origin' = [i \in Ids |-> IF i \in nextId .. nextId' - 1
                                  THEN origin[bs[i - nextId + 1].id] ELSE origin[i]]
      /\ Refetched(t, h, v, K)
  BY <1>0 DEF Rebase, server
<1>3. /\ nextId + Len(again) <= MaxId + 1 /\ nextId' = nextId + Len(again)
      /\ Update(t, u)
  BY <1>2 DEF Refetched
<1>4. /\ SyncType /\ PlaceInv /\ OriginInv /\ OrderInv /\ IInv
      /\ Ordered(s, nextId) /\ Rising(s) /\ s \in OutboxType
      /\ nextId \in 1 .. MaxId + 1 /\ nextId \in Nat
  BY <1>1, Facts DEF SyncInv
<1>5. tab'[t] = u /\ OnlyTab(t)
  BY <1>1, <1>3, <1>4, Updated
<1>6. u \in OutboxType
  <2>1. tab'[t] \in OutboxType
    BY <1>1 DEF IInv, TypeOK
  <2> QED BY <1>5, <2>1
<1>7. bs \in Seq(Batch)
  BY <1>1, KeepSeq
<1> HIDE DEF bs
<1>8. /\ n \in OutboxType /\ Stays(s, n) /\ n.held = s.held \ {h} /\ n.sending = s.sending
  <2> DEFINE m == Noted(s, h.page, v)
  <2>1. m \in OutboxType /\ Stays(s, m) /\ m.held = s.held /\ m.sending = s.sending
    BY <1>1, <1>4, NotedGood, NotedStays
  <2> HIDE DEF m
  <2>2. n = [m EXCEPT !.held = @ \ {h}]
    BY DEF m
  <2> HIDE DEF n
  <2> QED BY <2>1, <2>2 DEF OutboxType, Stays
<1> HIDE DEF n
<1>9. again \in Seq(Batch) /\ Len(again) = Len(bs) /\ Len(again) \in Nat
  <2>1. again \in Seq(Batch) /\ Len(again) = Len(bs)
    BY <1>3, <1>4, <1>7, <1>8, ReissuedSeq
  <2> QED BY <2>1
<1>10. Fresh(again, nextId)
  <2>1. DOMAIN again = DOMAIN bs
    BY DEF Reissued
  <2>2. \A i \in DOMAIN bs : bs[i] \in Batch
    BY <1>7
  <2>3. ASSUME NEW i \in DOMAIN bs PROVE again[i].id = nextId + i - 1
    <3>1. again[i] = [bs[i] EXCEPT !.id = nextId + i - 1,
                                   !.base = IF n.known[bs[i].page] = Unknown
                                            THEN @ ELSE n.known[bs[i].page]]
      BY DEF Reissued
    <3> QED BY <2>2, <3>1 DEF Batch
  <2> QED BY <2>1, <2>3 DEF Fresh
<1> HIDE DEF again
<1>11. Grows(n, u, again) /\ u.held = n.held /\ Undisturbed(n, u)
  BY <1>8, <1>9, EnqueuedGrows, EnqueuedRest
<1> HIDE DEF u
<1>12. Grows(s, u, again) /\ u.held = s.held \ {h} /\ Undisturbed(s, u)
  BY <1>8, <1>11 DEF Grows, Stays, Undisturbed
<1>13. TakesIn(s, u, nextId, nextId + Len(again)) /\ Rising(u)
  BY <1>4, <1>6, <1>9, <1>10, <1>12, GrowsTakesIn
<1>14. TakesIn(tab[t], tab'[t], nextId, nextId') /\ Rising(tab'[t]) /\ Undisturbed(tab[t], tab'[t])
  BY <1>3, <1>5, <1>12, <1>13
<1>15. nextId' \in Nat /\ nextId <= nextId'
  BY <1>3, <1>4, <1>9
<1>16. \A x \in Tabs : tab'[x].life = tab[x].life
  BY <1>5, <1>14 DEF OnlyTab, TakesIn
<1>17. Sent' = Sent
  BY <1>2 DEF Sent, Logged, OnTheWay
<1>18. Live \subseteq Ids /\ \A i \in Live : i < nextId /\ i \in Nat
  BY Facts
<1>19. /\ Live' \subseteq Live \cup nextId .. nextId' - 1
       /\ \A g \in tab[t].held : g \notin tab'[t].held => IdsOf(g.batches) \cap Live' = {}
  BY <1>1, <1>4, <1>5, <1>14, <1>15, <1>17, <1>18, PlaceTakesIn
<1>20. OriginInv' /\ origin' \in [Ids -> Ids]
  <2> DEFINE k == Len(again)  ks == IdSeq(bs)
  <2>1. k \in Nat /\ DOMAIN bs = 1 .. k /\ \A i \in 1 .. k : ks[i] = bs[i].id
    BY <1>7, <1>9, IdSeqIs
  <2>2. IdsOf(h.batches) \subseteq Live /\ IdsOf(h.batches) \cap Live' = {}
    <3>1. h \notin tab'[t].held
      BY <1>5, <1>12
    <3>2. IdsOf(h.batches) \subseteq Waiting(s)
      BY <1>1, HeldMember DEF Waiting
    <3>3. Waiting(s) \subseteq Live
      BY <1>1, LiveMember
    <3> QED BY <1>1, <1>19, <3>1, <3>2, <3>3
  <2>3. IdsOf(bs) \subseteq IdsOf(h.batches)
    <3>1. IdsOf(bs) = {h.batches[i].id : i \in K}
      BY <1>1, KeptIds DEF bs
    <3> QED BY <1>1, <3>1 DEF IdsOf
  <2>4. Distinct(ks)
    <3>1. Distinct(IdSeq(h.batches)) /\ IdSeq(h.batches) \in Seq(Ids)
      BY <1>1, <1>4, IdSeqIs DEF PlaceInv, Parted
    <3>2. ks = Keep(IdSeq(h.batches), K)
      BY <1>1, IdSeqKeep DEF bs
    <3>3. DOMAIN IdSeq(h.batches) = DOMAIN h.batches
      BY DEF IdSeq
    <3> QED BY <1>1, <3>1, <3>2, <3>3, KeepDistinct
  <2>5. DOMAIN ks = 1 .. k
    BY <2>1 DEF IdSeq
  <2> HIDE DEF ks
  <2>6. \A i \in 1 .. k : ks[i] \in Live /\ ks[i] \notin Live'
    BY <2>1, <2>2, <2>3 DEF IdsOf
  <2>7. \A i, j \in 1 .. k : ks[i] = ks[j] => i = j
    BY <2>4, <2>5 DEF Distinct
  <2>8. origin' = [i \in Ids |-> IF i \in nextId .. nextId' - 1
                                 THEN origin[ks[i - nextId + 1]] ELSE origin[i]]
    <3>1. \A i \in nextId .. nextId' - 1 : i - nextId + 1 \in 1 .. k
      BY <1>3, <1>4, <2>1
    <3> QED BY <1>2, <2>1, <3>1
  <2>9. origin \in [Ids -> Ids]
    BY <1>4 DEF SyncType, HistoryType
  <2>10. nextId' = nextId + k /\ nextId + k <= MaxId + 1
    BY <1>3
  <2> HIDE DEF k
  <2> QED BY <1>4, <1>18, <1>19, <2>1, <2>6, <2>7, <2>8, <2>9, <2>10, OriginRequeue
<1>21. SyncType'
  <2>0. RowsType /\ KeptType /\ HistoryType /\ MailType /\ ViewType
    BY <1>4 DEF SyncType
  <2>1. RowsType'
    BY <1>2, <2>0 DEF RowsType
  <2>2. KeptType' /\ HistoryType'
    BY <1>2, <1>20, <2>0 DEF KeptType, HistoryType
  <2>3. MailType'
    <3>1. wire' \in [Tabs -> ReplyType]
      BY <1>2, <2>0 DEF MailType
    <3> QED BY <1>2, <1>16, <2>0, <3>1, MailKeeps
  <2>4. ViewType'
    BY <1>1, <1>2, <2>0, ViewKeeps
  <2> QED BY <2>1, <2>2, <2>3, <2>4 DEF SyncType
<1> QED BY <1>1, <1>2, <1>5, <1>14, <1>15, <1>20, <1>21, TakeStep

\* Every step keeps the invariant.
LEMMA SyncNextInv == SyncInv /\ [SyncNext]_syncVars => SyncInv'
<1>1. SUFFICES ASSUME SyncInv, [SyncNext]_syncVars PROVE SyncInv'
  OBVIOUS
<1>2. IInv' /\ OrderInv'
  BY <1>1, SyncSteps
<1>3. ASSUME NEW t \in Tabs, Client(t) PROVE SyncInv'
  <2>1. ASSUME NEW p \in Pages PROVE Visit(t, p) => SyncInv'
    BY <1>1, <1>2, VisitStep
  <2>2. ASSUME NEW p \in Pages, NEW e \in Edits PROVE Edit(t, p, e) => SyncInv'
    BY <1>1, <1>2, EditStep
  <2>3. Deliver(t) \/ GiveUp(t) \/ RetryNow(t) \/ Unpause(t) => SyncInv'
    BY <1>1, <1>2, DeliverStep, GiveUpStep, WakeStep
  <2>4. ASSUME NEW h \in tab[t].held PROVE ReadAfterConflict(t, h) => SyncInv'
    BY <1>1, <1>2, ReadStep
  <2> QED BY <1>3, <2>1, <2>2, <2>3, <2>4 DEF Client
<1>4. ASSUME NEW t \in Tabs, Serve(t) PROVE SyncInv'
  BY <1>1, <1>2, <1>4, ServeStep
<1>5. ASSUME NEW r \in late, ServeLate(r) PROVE SyncInv'
  BY <1>1, <1>2, <1>5, ServeLateStep
<1>6. ASSUME NEW f \in fetched, Rebase(f) PROVE SyncInv'
  BY <1>1, <1>2, <1>6, RebaseStep
<1>7. ASSUME NEW o \in opened, Show(o) PROVE SyncInv'
  BY <1>1, <1>2, <1>7, ShowStep
<1>8. ASSUME NEW on \in BOOLEAN, Freeze(on) PROVE SyncInv'
  BY <1>1, <1>2, <1>8, FreezeStep
<1>9. Restore => SyncInv'
  BY <1>1, <1>2, RestoreStep
<1>10. ASSUME UNCHANGED syncVars PROVE SyncInv'
  <2>1. /\ tab' = tab /\ nextId' = nextId /\ rows' = rows /\ kept' = kept /\ wire' = wire
        /\ late' = late /\ view' = view /\ opened' = opened /\ fetched' = fetched
        /\ log' = log /\ origin' = origin /\ refused' = refused
    BY <1>10 DEF syncVars, vars, server, shown, history
  <2>2. RowsType /\ KeptType /\ HistoryType /\ MailType /\ ViewType
    BY <1>1 DEF SyncInv, SyncType
  <2>3. RowsType' /\ ViewType'
    BY <2>1, <2>2 DEF RowsType, ViewType
  <2>4. KeptType' /\ HistoryType'
    BY <2>1, <2>2 DEF KeptType, HistoryType
  <2>5. MailType'
    BY <2>1, <2>2 DEF MailType
  <2> QED BY <1>1, <1>2, <2>1, <2>3, <2>4, <2>5, StillStep DEF SyncType, Quietly
<1> QED BY <1>1, <1>3, <1>4, <1>5, <1>6, <1>7, <1>8, <1>9, <1>10 DEF SyncNext

\* The invariant, in every state the tabs, the network and the server reach.
THEOREM SyncInvariance == SyncSpec => []SyncInv
BY SyncInitInv, SyncNextInv, PTL DEF SyncSpec

\* Any number of people, tabs, pages and edits, with answers lost, requests
\* that arrive after their sender gave up on them, conflicts, locks, a
\* restore and pages opened again: an edit takes effect at most once.
THEOREM LandsOnce == SyncSpec => []EditsLandOnce
<1>1. SyncInv => EditsLandOnce
  <2>1. SUFFICES ASSUME SyncInv, NEW n \in DOMAIN log, NEW m \in DOMAIN log, n # m
                 PROVE  origin[log[n]] # origin[log[m]]
    BY DEF EditsLandOnce
  <2>2. log[n] \in Live /\ log[m] \in Live
    BY LiveMember DEF Sent, Logged
  <2>3. log[n] # log[m]
    BY <2>1 DEF SyncInv, LogInv, Distinct
  <2> QED BY <2>1, <2>2, <2>3 DEF SyncInv, OriginInv
<1> QED BY <1>1, SyncInvariance, PTL

\* The batches of one tab take effect in the order in which they were queued,
\* but for one that was refused and whose duplicate arrives late.
THEOREM LandsInOrder == SyncSpec => []BatchesLandInOrder
<1>1. SyncInv => BatchesLandInOrder
  BY DEF SyncInv
<1> QED BY <1>1, SyncInvariance, PTL

\* The outboxes of the composed system are outboxes as module Outbox specifies
\* them, but for where they start: what is proved of one step there holds here.
THEOREM OutboxSteps == SyncSpec => [][Next]_vars
<1>1. SyncInv /\ [SyncNext]_syncVars => [Next]_vars
  BY SyncSteps
<1> QED BY <1>1, SyncInvariance, PTL DEF SyncSpec

-----------------------------------------------------------------------------
(* One person alone: no answer is ever a conflict or a refusal, and what is   *)
(* on screen when nothing waits is what the server has.                       *)
(*                                                                            *)
(* The queue is a path from the rows to what is shown (Leading): each batch   *)
(* that the server does not have yet applies where its turn comes, and        *)
(* together they make the pages on screen.  The bases are right because of    *)
(* what drain() does with them: only the head can have made a version that    *)
(* the outbox does not know (Knows), so a first attempt goes out on the       *)
(* version the page has and a retry on the base it had before (Abreast),      *)
(* which is why retries are not rebased.  A request that comes late was       *)
(* answered, or is the head itself (OldNews).                                 *)

-----------------------------------------------------------------------------
(* What the queue makes of the rows *)

\* The ids the server remembers.
Done(kp) == {i \in Ids : kp[i].reply # NoReply}

\* d[i] is the pages when the first i batches of q have landed; those in K
\* have done so already.
Path(d, q, K) ==
    \A i \in DOMAIN q :
        /\ q[i].id \notin K => ~Invalid(d[i - 1][q[i].page], q[i].edit)
        /\ \A p \in Pages :
              d[i][p] = IF p = q[i].page /\ q[i].id \notin K
                        THEN After(d[i - 1][p], q[i].edit) ELSE d[i - 1][p]

\* The queue applies to the rows rs, and makes of them what the tab shows.
Leading(rs, q, K, vs) ==
    \E d : /\ Path(d, q, K)
           /\ \A p \in Pages : Same(d[0][p], rs[p]) /\ Same(d[Len(q)][p], vs[p])

\* The same batches, perhaps on other bases.
SameJobs(q, r) ==
    /\ Len(r) = Len(q)
    /\ \A i \in DOMAIN q : r[i].id = q[i].id /\ r[i].page = q[i].page /\ r[i].edit = q[i].edit

\* Bases make no difference.
LEMMA LeadingJobs ==
    ASSUME NEW q \in Seq(Batch), NEW r \in Seq(Batch), SameJobs(q, r),
           NEW rs, NEW K, NEW vs, Leading(rs, q, K, vs)
    PROVE  Leading(rs, r, K, vs)
<1>1. PICK d : /\ Path(d, q, K)
               /\ \A p \in Pages : Same(d[0][p], rs[p]) /\ Same(d[Len(q)][p], vs[p])
  BY DEF Leading
<1>2. DOMAIN r = DOMAIN q /\ Len(r) = Len(q)
  BY DEF SameJobs
<1>3. Path(d, r, K)
  <2> SUFFICES ASSUME NEW i \in DOMAIN r
               PROVE  /\ r[i].id \notin K => ~Invalid(d[i - 1][r[i].page], r[i].edit)
                      /\ \A p \in Pages :
                            d[i][p] = IF p = r[i].page /\ r[i].id \notin K
                                      THEN After(d[i - 1][p], r[i].edit) ELSE d[i - 1][p]
    BY DEF Path
  <2>1. i \in DOMAIN q /\ r[i].id = q[i].id /\ r[i].page = q[i].page /\ r[i].edit = q[i].edit
    BY <1>2 DEF SameJobs
  <2> QED BY <1>1, <2>1, ZenonT(40) DEF Path
<1>4. \A p \in Pages : Same(d[0][p], rs[p]) /\ Same(d[Len(r)][p], vs[p])
  BY <1>1, <1>2
<1> QED BY <1>3, <1>4, Zenon DEF Leading

\* The ops of a batch are ops.
LEMMA EditsAreOps == \A b \in Batch : b.edit \in Seq(Op) /\ b.page \in Pages /\ b.id \in Ids
BY Documents DEF Batch

\* An edit that applies to what is shown is queued and shown.
LEMMA LeadingGrows ==
    ASSUME NEW q \in Seq(Batch), NEW b \in Batch, NEW rs, NEW K, NEW vs, NEW vt,
           Leading(rs, q, K, vs), b.id \notin K, ~Invalid(vs[b.page], b.edit),
           \A p \in Pages : vt[p] = IF p = b.page THEN After(vs[p], b.edit) ELSE vs[p]
    PROVE  Leading(rs, q \o <<b>>, K, vt)
<1> DEFINE n == Len(q)
           r == q \o <<b>>
<1>1. PICK d : /\ Path(d, q, K)
               /\ \A p \in Pages : Same(d[0][p], rs[p]) /\ Same(d[n][p], vs[p])
  BY DEF Leading
<1>2. /\ n \in Nat /\ Len(r) = n + 1 /\ DOMAIN r = 1 .. n + 1 /\ DOMAIN q = 1 .. n
      /\ r[n + 1] = b /\ \A i \in 1 .. n : r[i] = q[i]
  OBVIOUS
<1>3. b.edit \in Seq(Op) /\ b.page \in Pages
  BY EditsAreOps
<1> DEFINE last == [p \in Pages |-> IF p = b.page THEN After(d[n][p], b.edit) ELSE d[n][p]]
           e == [i \in 0 .. n + 1 |-> IF i = n + 1 THEN last ELSE d[i]]
<1>4. e[n + 1] = last /\ \A i \in 0 .. n : e[i] = d[i]
  BY <1>2
<1> HIDE DEF r, e
<1>5. Path(e, r, K)
  <2> SUFFICES ASSUME NEW i \in DOMAIN r
               PROVE  /\ r[i].id \notin K => ~Invalid(e[i - 1][r[i].page], r[i].edit)
                      /\ \A p \in Pages :
                            e[i][p] = IF p = r[i].page /\ r[i].id \notin K
                                      THEN After(e[i - 1][p], r[i].edit) ELSE e[i - 1][p]
    BY DEF Path
  <2>1. CASE i = n + 1
    <3>1. r[i] = b /\ e[i] = last /\ e[i - 1] = d[n]
      <4>1. i - 1 = n /\ n \in 0 .. n
        BY <1>2, <2>1
      <4> QED BY <1>2, <1>4, <2>1, <4>1
    <3>2. Same(vs[b.page], d[n][b.page])
      BY <1>1, <1>3, SameIsEquivalence
    <3>3. ~Invalid(d[n][b.page], b.edit)
      BY <1>3, <3>2, SameBatch
    <3> QED BY <3>1, <3>3
  <2>2. CASE i # n + 1
    <3>1. i \in DOMAIN q /\ r[i] = q[i] /\ e[i] = d[i] /\ e[i - 1] = d[i - 1]
      <4>1. i \in 1 .. n /\ i \in 0 .. n /\ i - 1 \in 0 .. n
        BY <1>2, <2>2
      <4> QED BY <1>2, <1>4, <4>1
    <3>2. /\ q[i].id \notin K => ~Invalid(d[i - 1][q[i].page], q[i].edit)
          /\ \A p \in Pages :
                d[i][p] = IF p = q[i].page /\ q[i].id \notin K
                          THEN After(d[i - 1][p], q[i].edit) ELSE d[i - 1][p]
      BY <1>1, <3>1, Zenon DEF Path
    <3> QED BY <3>1, <3>2, Zenon
  <2> QED BY <2>1, <2>2
<1>6. \A p \in Pages : Same(e[0][p], rs[p]) /\ Same(e[Len(r)][p], vt[p])
  <2> TAKE p \in Pages
  <2>1. Same(e[0][p], rs[p])
    <3>1. e[0] = d[0]
      BY <1>2, <1>4
    <3> QED BY <1>1, <3>1
  <2>2. e[Len(r)] = last /\ Same(d[n][p], vs[p])
    BY <1>1, <1>2, <1>4
  <2>3. p = b.page => Same(After(d[n][p], b.edit), After(vs[p], b.edit))
    BY <1>3, <2>2, SameBatch
  <2> QED BY <2>1, <2>2, <2>3
<1> QED BY <1>5, <1>6, Zenon DEF Leading, r

\* The head lands: it applies to its row, and nothing else that is shown or
\* waits is touched.
LEMMA LeadingLands ==
    ASSUME NEW q \in Seq(Batch), q # <<>>, Distinct(IdSeq(q)), NEW rs, NEW K, NEW vs,
           Leading(rs, q, K, vs), q[1].id \notin K, NEW rt,
           \A p \in Pages : rt[p] = IF p = q[1].page THEN Applied(rs[p], q[1].edit) ELSE rs[p]
    PROVE  ~Invalid(rs[q[1].page], q[1].edit) /\ Leading(rt, q, K \cup {q[1].id}, vs)
<1> DEFINE n == Len(q)
           b == q[1]
           L == K \cup {b.id}
<1>1. PICK d : /\ Path(d, q, K)
               /\ \A p \in Pages : Same(d[0][p], rs[p]) /\ Same(d[n][p], vs[p])
  BY DEF Leading
<1>2. n \in Nat /\ n # 0 /\ DOMAIN q = 1 .. n /\ 1 \in DOMAIN q /\ b \in Batch /\ 1 - 1 = 0
  OBVIOUS
<1>3. b.edit \in Seq(Op) /\ b.page \in Pages
  BY <1>2, EditsAreOps
<1>4. /\ ~Invalid(d[0][b.page], b.edit)
      /\ \A p \in Pages : d[1][p] = IF p = b.page THEN After(d[0][p], b.edit) ELSE d[0][p]
  BY <1>1, <1>2 DEF Path
<1>5. ~Invalid(rs[b.page], b.edit)
  BY <1>1, <1>3, <1>4, SameBatch
<1>6. \A i \in DOMAIN q : i # 1 => q[i].id # b.id
  BY <1>2 DEF Distinct, IdSeq
<1> DEFINE e == [i \in 0 .. n |-> IF i = 0 THEN d[1] ELSE d[i]]
<1>7. e[0] = d[1] /\ \A i \in 1 .. n : e[i] = d[i]
  BY <1>2
<1> HIDE DEF e
<1>8. Path(e, q, L)
  <2> SUFFICES ASSUME NEW i \in DOMAIN q
               PROVE  /\ q[i].id \notin L => ~Invalid(e[i - 1][q[i].page], q[i].edit)
                      /\ \A p \in Pages :
                            e[i][p] = IF p = q[i].page /\ q[i].id \notin L
                                      THEN After(e[i - 1][p], q[i].edit) ELSE e[i - 1][p]
    BY DEF Path
  <2>1. CASE i = 1
    BY <1>2, <1>7, <2>1
  <2>2. CASE i # 1
    <3>1. e[i] = d[i] /\ e[i - 1] = d[i - 1]
      <4>1. i \in 1 .. n /\ i - 1 \in 1 .. n
        BY <1>2, <2>2
      <4> QED BY <1>7, <4>1
    <3>2. q[i].id \notin L <=> q[i].id \notin K
      BY <1>6, <2>2
    <3>3. /\ q[i].id \notin K => ~Invalid(d[i - 1][q[i].page], q[i].edit)
          /\ \A p \in Pages :
                d[i][p] = IF p = q[i].page /\ q[i].id \notin K
                          THEN After(d[i - 1][p], q[i].edit) ELSE d[i - 1][p]
      BY <1>1, Zenon DEF Path
    <3> HIDE DEF L
    <3> QED BY <3>1, <3>2, <3>3, Zenon
  <2> QED BY <2>1, <2>2
<1>9. \A p \in Pages : Same(e[0][p], rt[p]) /\ Same(e[n][p], vs[p])
  <2> TAKE p \in Pages
  <2>1. Same(d[0][p], rs[p]) /\ Same(rs[p], rs[p])
    BY <1>1, SameIsEquivalence
  <2>2. p = b.page => Same(After(d[0][p], b.edit), After(rs[p], b.edit))
    BY <1>3, <2>1, SameBatch
  <2>3. p = b.page => Same(After(rs[p], b.edit), rt[p])
    BY <1>3, <2>1, AppliedIs, SameIsEquivalence
  <2>4. Same(d[1][p], rt[p])
    BY <1>4, <2>1, <2>2, <2>3, SameIsEquivalence
  <2> QED BY <1>1, <1>2, <1>7, <2>4
<1> QED BY <1>5, <1>8, <1>9, Zenon DEF Leading

\* A head that landed leaves.
LEMMA LeadingServed ==
    ASSUME NEW q \in Seq(Batch), q # <<>>, NEW rs, NEW K, NEW vs,
           Leading(rs, q, K, vs), q[1].id \in K
    PROVE  Leading(rs, Tail(q), K, vs)
<1> DEFINE n == Len(q)
           r == Tail(q)
<1>1. PICK d : /\ Path(d, q, K)
               /\ \A p \in Pages : Same(d[0][p], rs[p]) /\ Same(d[n][p], vs[p])
  BY DEF Leading
<1>2. /\ n \in Nat /\ n # 0 /\ DOMAIN q = 1 .. n /\ 1 \in DOMAIN q /\ 1 - 1 = 0
      /\ Len(r) = n - 1 /\ DOMAIN r = 1 .. n - 1 /\ \A i \in 1 .. n - 1 : r[i] = q[i + 1]
  OBVIOUS
<1>3. \A p \in Pages : d[1][p] = d[0][p]
  BY <1>1, <1>2 DEF Path
<1> DEFINE e == [i \in 0 .. n - 1 |-> d[i + 1]]
<1>4. \A i \in 0 .. n - 1 : e[i] = d[i + 1]
  OBVIOUS
<1> HIDE DEF e, r
<1>5. Path(e, r, K)
  <2> SUFFICES ASSUME NEW i \in DOMAIN r
               PROVE  /\ r[i].id \notin K => ~Invalid(e[i - 1][r[i].page], r[i].edit)
                      /\ \A p \in Pages :
                            e[i][p] = IF p = r[i].page /\ r[i].id \notin K
                                      THEN After(e[i - 1][p], r[i].edit) ELSE e[i - 1][p]
    BY DEF Path
  <2>1. /\ i + 1 \in DOMAIN q /\ r[i] = q[i + 1] /\ e[i] = d[i + 1] /\ e[i - 1] = d[i]
        /\ (i + 1) - 1 = i
    <3>1. i \in 0 .. n - 1 /\ i - 1 \in 0 .. n - 1 /\ (i - 1) + 1 = i /\ i + 1 \in 1 .. n /\ (i + 1) - 1 = i
      BY <1>2
    <3> QED BY <1>2, <1>4, <3>1
  <2>2. /\ q[i + 1].id \notin K => ~Invalid(d[(i + 1) - 1][q[i + 1].page], q[i + 1].edit)
        /\ \A p \in Pages :
              d[i + 1][p] = IF p = q[i + 1].page /\ q[i + 1].id \notin K
                            THEN After(d[(i + 1) - 1][p], q[i + 1].edit) ELSE d[(i + 1) - 1][p]
    BY <1>1, <2>1, Zenon DEF Path
  <2> QED BY <2>1, <2>2, Zenon
<1>6. \A p \in Pages : Same(e[0][p], rs[p]) /\ Same(e[Len(r)][p], vs[p])
  <2>1. e[0] = d[1] /\ e[Len(r)] = d[n]
    <3>1. 0 \in 0 .. n - 1 /\ n - 1 \in 0 .. n - 1 /\ 0 + 1 = 1 /\ (n - 1) + 1 = n
      BY <1>2
    <3> QED BY <1>2, <1>4, <3>1
  <2> QED BY <1>1, <1>3, <2>1
<1> QED BY <1>5, <1>6, Zenon DEF Leading, r

\* What is shown may be replaced by pages with the same documents.
LEMMA LeadingShown ==
    ASSUME NEW q, NEW rs, NEW K, NEW vs, NEW vt, Leading(rs, q, K, vs),
           \A p \in Pages : Same(vs[p], vt[p])
    PROVE  Leading(rs, q, K, vt)
<1>1. PICK d : /\ Path(d, q, K)
               /\ \A p \in Pages : Same(d[0][p], rs[p]) /\ Same(d[Len(q)][p], vs[p])
  BY DEF Leading
<1>2. \A p \in Pages : Same(d[0][p], rs[p]) /\ Same(d[Len(q)][p], vt[p])
  BY <1>1, SameIsEquivalence
<1> QED BY <1>1, <1>2, Zenon DEF Leading

-----------------------------------------------------------------------------
(* An outbox that nobody else disturbs *)

\* The head was sent, or is on its way.
Tried(s) == s.queue # <<>> /\ (s.sending # NoBatch \/ s.attempt > 0)

\* The server has the head already.
HeadDone(s, kp) == s.queue # <<>> /\ s.queue[1].id \in Done(kp)

\* The outbox knows every version but the one its own head made.
Knows(s, rs, kp) ==
    \A p \in Pages : rs[p].version <= s.known[p] \/ (HeadDone(s, kp) /\ s.queue[1].page = p)

\* The head goes out on the version the page has, or goes out again as it was.
Abreast(s, rs, kp) ==
    /\ HeadDone(s, kp) => Tried(s)
    /\ Tried(s) =>
         LET b == s.queue[1]
         IN  IF b.id \in Done(kp)
             THEN kp[b.id].base = b.base /\ kp[b.id].reply.version = rs[b.page].version
             ELSE rs[b.page].version <= b.base

\* What is late is answered, or is the head.
OldNews(s, lt) ==
    \A r \in lt : \/ r.batch.id \in s.answered
                  \/ s.queue # <<>> /\ r.batch = s.queue[1] /\ s.attempt > 0

\* The outbox s and the pages vs it shows agree with the rows rs, the answers
\* kp and the late requests lt.
TabRight(s, rs, kp, vs, lt) ==
    /\ s.held = {} /\ ~s.locked
    /\ Leading(rs, s.queue, Done(kp), vs)
    /\ Knows(s, rs, kp) /\ Abreast(s, rs, kp) /\ OldNews(s, lt)

\* Nothing else of an outbox matters.
LEMMA RightAlike ==
    ASSUME NEW s, NEW u, NEW rs, NEW kp, NEW vs, NEW lt, TabRight(s, rs, kp, vs, lt),
           \A f \in {"held", "locked", "queue", "known", "sending", "attempt", "answered"} : u[f] = s[f]
    PROVE  TabRight(u, rs, kp, vs, lt)
<1>1. /\ u.held = s.held /\ u.locked = s.locked /\ u.queue = s.queue /\ u.known = s.known
      /\ u.sending = s.sending /\ u.attempt = s.attempt /\ u.answered = s.answered
  OBVIOUS
<1>2. (Tried(u) <=> Tried(s)) /\ (HeadDone(u, kp) <=> HeadDone(s, kp))
  BY <1>1, Zenon DEF Tried, HeadDone
<1>3. Knows(u, rs, kp) /\ Abreast(u, rs, kp) /\ OldNews(u, lt)
  BY <1>1, <1>2, Zenon DEF TabRight, Knows, Abreast, OldNews
<1> QED BY <1>1, <1>3, Zenon DEF TabRight

\* drain() sends the head on a base that the page has not passed.
LEMMA DrainRight ==
    ASSUME NEW s \in OutboxType, NEW rs, NEW kp, NEW vs, NEW lt, TabRight(s, rs, kp, vs, lt),
           \A p \in Pages : rs[p].version \in Nat
    PROVE  TabRight(Drained(s), rs, kp, vs, lt)
<1>1. CASE ~CanDrain(s)
  BY <1>1 DEF Drained
<1>2. CASE CanDrain(s)
  <2> DEFINE b == HeadToSend(s)
             h == s.queue[1]
             q == [s.queue EXCEPT ![1] = b]
             u == Drained(s)
  <2>1. /\ s.queue \in Seq(Batch) /\ s.queue # <<>> /\ h \in Batch /\ h = Head(s.queue)
        /\ 1 \in DOMAIN s.queue /\ s.sending = NoBatch /\ s.attempt \in Nat
        /\ s.known \in [Pages -> Versions \cup {Unknown}]
    BY <1>2, Bounds DEF CanDrain, OutboxType
  <2>2. /\ b \in Batch /\ b.id = h.id /\ b.page = h.page /\ b.edit = h.edit
        /\ s.attempt > 0 => b = h
        /\ s.attempt = 0 => s.known[h.page] <= b.base
    <3>1. h.base \in Nat /\ h.page \in Pages /\ s.known[h.page] \in Versions \cup {Unknown}
      BY <2>1 DEF Batch, Versions
    <3>2. s.known[h.page] > h.base => s.known[h.page] \in Versions
      BY <3>1 DEF Unknown
    <3>3. s.known[h.page] \in Int
      BY <3>1 DEF Versions, Unknown
    <3>4. CASE s.attempt = 0 /\ s.known[h.page] > h.base
      <4>1. b = [h EXCEPT !.base = s.known[h.page]]
        BY <2>1, <3>4 DEF HeadToSend
      <4> HIDE DEF b, h
      <4> QED BY <2>1, <3>2, <3>3, <3>4, <4>1 DEF Batch
    <3>5. CASE ~(s.attempt = 0 /\ s.known[h.page] > h.base)
      <4>1. b = h
        BY <2>1, <3>5 DEF HeadToSend
      <4> HIDE DEF b, h
      <4> QED BY <2>1, <3>1, <3>3, <3>5, <4>1
    <3> QED BY <3>4, <3>5
  <2>3. u = [s EXCEPT !.queue = q, !.sending = b, !.last = b]
    BY <1>2 DEF Drained
  <2>4. q \in Seq(Batch) /\ Len(q) = Len(s.queue) /\ q[1] = b /\ q # <<>>
        /\ \A i \in DOMAIN s.queue : i # 1 => q[i] = s.queue[i]
    <3> HIDE DEF b
    <3>1. DOMAIN s.queue = 1 .. Len(s.queue)
      BY <2>1
    <3>2. q \in Seq(Batch) /\ Len(q) = Len(s.queue) /\ \A i \in 1 .. Len(s.queue) :
                                        q[i] = IF i = 1 THEN b ELSE s.queue[i]
      BY <2>1, <2>2, <3>1, ExceptSeq
    <3> HIDE DEF q
    <3> QED BY <2>1, <3>1, <3>2
  <2> HIDE DEF b, q, u
  <2>5. /\ u.held = s.held /\ u.locked = s.locked /\ u.queue = q /\ u.known = s.known
        /\ u.sending = b /\ u.attempt = s.attempt /\ u.answered = s.answered
    BY <2>3 DEF OutboxType
  <2>6. Leading(rs, q, Done(kp), vs)
    <3>1. SameJobs(s.queue, q)
      BY <2>2, <2>4 DEF SameJobs
    <3> QED BY <2>1, <2>4, <3>1, LeadingJobs DEF TabRight
  <2>7. HeadDone(u, kp) <=> HeadDone(s, kp)
    BY <2>1, <2>2, <2>4, <2>5, Zenon DEF HeadDone
  <2>8. Knows(u, rs, kp)
    BY <2>2, <2>4, <2>5, <2>7, Zenon DEF TabRight, Knows
  <2>9. OldNews(u, lt)
    BY <2>2, <2>4, <2>5 DEF TabRight, OldNews
  <2>10. Tried(u)
    BY <2>2, <2>4, <2>5, NoBatchAssumption DEF Tried
  <2>11. Abreast(u, rs, kp)
    <3>1. CASE s.attempt > 0
      <4>1. b = h /\ Tried(s)
        BY <2>1, <2>2, <3>1 DEF Tried
      <4>2. u.queue[1] = s.queue[1]
        BY <2>4, <2>5, <4>1
      <4> QED BY <2>7, <2>10, <4>1, <4>2, Zenon DEF TabRight, Abreast
    <3>2. CASE s.attempt = 0
      <4>1. ~Tried(s)
        BY <2>1, <3>2 DEF Tried
      <4>2. ~HeadDone(s, kp)
        BY <4>1 DEF TabRight, Abreast
      <4>3. h.page \in Pages /\ b.base \in Nat /\ s.known[h.page] \in Int
        BY <2>1, <2>2 DEF Batch, Versions, Unknown
      <4>4. rs[h.page].version <= s.known[h.page]
        BY <4>2, <4>3 DEF TabRight, Knows
      <4>5. rs[b.page].version <= b.base
        BY <2>2, <3>2, <4>3, <4>4
      <4>6. b.id \notin Done(kp) /\ u.queue[1] = b
        BY <2>1, <2>2, <2>4, <2>5, <4>2 DEF HeadDone
      <4> QED BY <2>10, <4>5, <4>6, Zenon DEF Abreast
    <3> QED BY <2>1, <3>1, <3>2
  <2> QED BY <2>5, <2>6, <2>8, <2>9, <2>11, Zenon DEF TabRight, u
<1> QED BY <1>1, <1>2

\* What batch b does to the pages on screen.
Displayed(b, vs, vt) ==
    \A p \in Pages : vt[p] = IF p = b.page THEN After(vs[p], b.edit) ELSE vs[p]

\* An edit that applies to what is shown is queued behind the rest.
LEMMA EditRight ==
    ASSUME NEW s \in OutboxType, Flying(s), Steady(s), NEW rs, NEW kp, NEW vs, NEW vt, NEW lt,
           TabRight(s, rs, kp, vs, lt), \A p \in Pages : rs[p].version \in Nat,
           NEW b \in Batch, b.id \notin Done(kp), ~Invalid(vs[b.page], b.edit),
           Displayed(b, vs, vt)
    PROVE  TabRight(Enqueued(s, <<b>>), rs, kp, vt, lt)
<1> DEFINE bs == <<b>>
           q == s.queue \o bs
           a == s.accepted \o IdSeq(bs)
           d == s.dirty \/ bs # <<>>
           e == [s EXCEPT !.queue = q, !.accepted = a, !.dirty = d]
<1>1. /\ s.queue \in Seq(Batch) /\ s.accepted \in Seq(Ids) /\ s.dirty \in BOOLEAN
      /\ bs \in Seq(Batch) /\ s.attempt \in Nat
  BY Bounds DEF OutboxType
<1>2. q \in Seq(Batch) /\ a \in Seq(Ids) /\ d \in BOOLEAN
  <2>1. IdSeq(bs) \in Seq(Ids)
    BY <1>1, IdsOfQueue
  <2> QED BY <1>1, <2>1
<1>3. Enqueued(s, bs) = Drained(e)
  BY DEF Enqueued
<1>4. Leading(rs, q, Done(kp), vt)
  BY <1>1, LeadingGrows DEF TabRight, Displayed
<1>5. /\ q # <<>>
      /\ s.queue = <<>> => q[1] = b
      /\ s.queue # <<>> => q[1] = s.queue[1]
  BY <1>1
<1> HIDE DEF q, a, d, e, bs
<1>6. e \in OutboxType
  BY <1>2 DEF OutboxType, e
<1>7. /\ e.held = s.held /\ e.locked = s.locked /\ e.queue = q /\ e.known = s.known
      /\ e.sending = s.sending /\ e.attempt = s.attempt /\ e.answered = s.answered
  BY DEF OutboxType, e
<1>8. /\ s.queue = <<>> => ~Tried(e) /\ ~HeadDone(e, kp) /\ ~HeadDone(s, kp)
      /\ s.queue # <<>> => /\ e.queue[1] = s.queue[1]
                           /\ Tried(e) <=> Tried(s)
                           /\ HeadDone(e, kp) <=> HeadDone(s, kp)
  <2>1. CASE s.queue = <<>>
    <3>1. s.sending = NoBatch /\ ~(s.attempt > 0)
      BY <2>1 DEF Flying, Steady
    <3> QED BY <1>5, <1>7, <2>1, <3>1 DEF Tried, HeadDone
  <2>2. CASE s.queue # <<>>
    <3>1. e.queue[1] = s.queue[1] /\ e.queue # <<>>
      BY <1>5, <1>7, <2>2, Zenon
    <3> QED BY <1>7, <2>2, <3>1, Zenon DEF Tried, HeadDone
  <2> QED BY <2>1, <2>2, Zenon
<1>9. Knows(e, rs, kp)
  BY <1>7, <1>8, Zenon DEF TabRight, Knows
<1>10. Abreast(e, rs, kp)
  BY <1>8, Zenon DEF TabRight, Abreast
<1>11. OldNews(e, lt)
  BY <1>5, <1>7, <1>8, Zenon DEF TabRight, OldNews
<1>12. TabRight(e, rs, kp, vt, lt)
  BY <1>4, <1>7, <1>9, <1>10, <1>11 DEF TabRight
<1>13. TabRight(Drained(e), rs, kp, vt, lt)
  BY <1>6, <1>12, DrainRight
<1> QED BY <1>3, <1>13 DEF bs

\* The timer fires.
LEMMA WokenRight ==
    ASSUME NEW s \in OutboxType, NEW rs, NEW kp, NEW vs, NEW lt, TabRight(s, rs, kp, vs, lt),
           \A p \in Pages : rs[p].version \in Nat
    PROVE  TabRight(Drained([s EXCEPT !.timer = FALSE]), rs, kp, vs, lt)
<1> DEFINE e == [s EXCEPT !.timer = FALSE]
<1>1. e \in OutboxType
  BY DEF OutboxType
<1>2. \A f \in {"held", "locked", "queue", "known", "sending", "attempt", "answered"} : e[f] = s[f]
  BY DEF OutboxType
<1> HIDE DEF e
<1>3. TabRight(e, rs, kp, vs, lt)
  BY <1>2, RightAlike
<1>4. TabRight(Drained(e), rs, kp, vs, lt)
  BY <1>1, <1>3, DrainRight
<1> QED BY <1>4 DEF e

\* The request fails; it may arrive all the same.
LEMMA FailureRight ==
    ASSUME NEW s \in OutboxType, Flying(s), s.sending # NoBatch, NEW rs, NEW kp, NEW vs, NEW lt, NEW lu,
           TabRight(s, rs, kp, vs, lt), \A r \in lu : r \in lt \/ r.batch = s.sending
    PROVE  TabRight(AfterFailure(s), rs, kp, vs, lu)
<1> DEFINE a == IF s.attempt < MaxAttempt THEN s.attempt + 1 ELSE s.attempt
           u == [s EXCEPT !.attempt = a, !.timer = TRUE, !.sending = NoBatch]
<1>1. s.attempt \in 0 .. MaxAttempt /\ MaxAttempt \in Nat \ {0}
  BY Bounds DEF OutboxType
<1>2. a \in 0 .. MaxAttempt /\ a > 0
  BY <1>1
<1> HIDE DEF a
<1>3. AfterFailure(s) = u
  BY DEF AfterFailure, Landed, Drained, CanDrain, OutboxType, a
<1> HIDE DEF u
<1>4. /\ u.held = s.held /\ u.locked = s.locked /\ u.queue = s.queue /\ u.known = s.known
      /\ u.attempt = a /\ u.answered = s.answered
  BY DEF OutboxType, u
<1>5. s.queue # <<>> /\ s.queue[1] = s.sending
  <2>1. s.queue \in Seq(Batch) /\ s.queue # <<>> /\ Head(s.queue) = s.sending
    BY DEF OutboxType, Flying
  <2> QED BY <2>1
<1>6. Tried(u) /\ Tried(s) /\ (HeadDone(u, kp) <=> HeadDone(s, kp))
  BY <1>2, <1>4, <1>5, Zenon DEF Tried, HeadDone
<1>7. Knows(u, rs, kp) /\ Abreast(u, rs, kp)
  BY <1>4, <1>6, Zenon DEF TabRight, Knows, Abreast
<1>8. OldNews(u, lu)
  BY <1>2, <1>4, <1>5, Zenon DEF TabRight, OldNews
<1> QED BY <1>3, <1>4, <1>7, <1>8, Zenon DEF TabRight

\* 2xx: the version that the head made becomes known.
LEMMA AckRight ==
    ASSUME NEW s \in OutboxType, Flying(s), s.sending # NoBatch, NEW rs, NEW kp, NEW vs, NEW vt, NEW lt,
           TabRight(s, rs, kp, vs, lt), \A p \in Pages : rs[p].version \in Nat,
           NEW v \in Versions, s.sending.id \in Done(kp), kp[s.sending.id].reply.version = v,
           Behind(s) \cap Done(kp) = {}, \A p \in Pages : Same(vs[p], vt[p])
    PROVE  TabRight(AfterAck(s, v), rs, kp, vt, lt)
<1> DEFINE b == s.sending
           e == [s EXCEPT !.queue = Tail(@), !.dirty = TRUE,
                          !.attempt = 0, !.answered = @ \cup {s.sending.id}]
           n == Noted(e, s.sending.page, v)
           u == [n EXCEPT !.sending = NoBatch]
<1>1. /\ s.queue \in Seq(Batch) /\ s.queue # <<>> /\ Tail(s.queue) \in Seq(Batch)
      /\ b \in Batch /\ b.page \in Pages /\ b.id \in Ids /\ s.queue[1] = b
      /\ s.known \in [Pages -> Versions \cup {Unknown}]
  <2>1. /\ s.queue \in Seq(Batch) /\ s.queue # <<>> /\ Tail(s.queue) \in Seq(Batch)
        /\ b \in Batch /\ b.page \in Pages /\ b.id \in Ids
    BY HeadAndTail
  <2>2. Head(s.queue) = b
    BY DEF Flying
  <2> QED BY <2>1, <2>2 DEF OutboxType
<1>2. e \in OutboxType
  BY <1>1, ZeroAttempts DEF OutboxType
<1>3. /\ e.held = s.held /\ e.locked = s.locked /\ e.queue = Tail(s.queue) /\ e.known = s.known
      /\ e.attempt = 0 /\ e.answered = s.answered \cup {b.id}
  BY DEF OutboxType
<1>4. AfterAck(s, v) = Drained(u)
  BY DEF AfterAck, Landed
<1> HIDE DEF e
<1>5. /\ n \in OutboxType
      /\ \A f \in {"queue", "attempt", "locked", "held", "answered"} : n[f] = e[f]
  BY <1>1, <1>2, NotedGood
<1>6. /\ n.known \in [Pages -> Versions \cup {Unknown}]
      /\ \A p \in Pages : n.known[p] = IF p = b.page /\ v > s.known[p] THEN v ELSE s.known[p]
  <2>1. CASE v > s.known[b.page]
    <3>1. n = [e EXCEPT !.known[b.page] = v]
      BY <1>3, <2>1 DEF Noted
    <3>2. n.known = [s.known EXCEPT ![b.page] = v]
      BY <1>2, <1>3, <3>1 DEF OutboxType
    <3> QED BY <1>1, <2>1, <3>2
  <2>2. CASE ~(v > s.known[b.page])
    <3>1. n = e
      BY <1>3, <2>2 DEF Noted
    <3> HIDE DEF n
    <3> QED BY <1>1, <1>3, <2>2, <3>1
  <2> QED BY <2>1, <2>2
<1> HIDE DEF n
<1>7. u \in OutboxType
  BY <1>5 DEF OutboxType
<1>8. /\ u.held = s.held /\ u.locked = s.locked /\ u.queue = Tail(s.queue) /\ u.known = n.known
      /\ u.attempt = 0 /\ u.answered = s.answered \cup {b.id} /\ u.sending = NoBatch
  <2>1. /\ u.held = n.held /\ u.locked = n.locked /\ u.queue = n.queue /\ u.known = n.known
        /\ u.attempt = n.attempt /\ u.answered = n.answered /\ u.sending = NoBatch
    BY <1>5 DEF OutboxType
  <2> HIDE DEF u, b
  <2>2. /\ n.held = e.held /\ n.locked = e.locked /\ n.queue = e.queue
        /\ n.attempt = e.attempt /\ n.answered = e.answered
    BY <1>5
  <2> QED BY <1>3, <2>1, <2>2
<1> HIDE DEF u, b
<1>9. Leading(rs, Tail(s.queue), Done(kp), vt)
  <2>1. Leading(rs, s.queue, Done(kp), vs) /\ s.queue[1].id \in Done(kp)
    BY <1>1 DEF TabRight, b
  <2>2. Leading(rs, Tail(s.queue), Done(kp), vs)
    BY <1>1, <2>1, LeadingServed
  <2> QED BY <2>2, LeadingShown
<1>10. ~Tried(u)
  BY <1>8 DEF Tried
<1>11. ~HeadDone(u, kp)
  <2>1. SUFFICES ASSUME u.queue # <<>> PROVE u.queue[1].id \in Behind(s)
    BY DEF HeadDone
  <2>2. u.queue[1] = s.queue[2] /\ 2 \in DOMAIN s.queue \ {1}
    BY <1>1, <1>8, <2>1
  <2> QED BY <2>2 DEF Behind
<1>12. Knows(u, rs, kp)
  <2> SUFFICES ASSUME NEW p \in Pages PROVE rs[p].version <= u.known[p]
    BY DEF Knows
  <2>1. v \in Nat /\ rs[p].version \in Nat /\ s.known[p] \in Int
    BY <1>1 DEF Versions, Unknown
  <2>2. CASE p = b.page
    <3>1. HeadDone(s, kp)
      BY <1>1 DEF HeadDone, b
    <3>2. rs[p].version = v
      BY <1>1, <2>2, <3>1 DEF TabRight, Abreast, b
    <3> QED BY <1>6, <1>8, <2>1, <2>2, <3>2
  <2>3. CASE p # b.page
    <3>1. rs[p].version <= s.known[p]
      BY <1>1, <2>3 DEF TabRight, Knows
    <3> QED BY <1>6, <1>8, <2>3, <3>1
  <2> QED BY <2>2, <2>3
<1>13. Abreast(u, rs, kp)
  BY <1>10, <1>11 DEF Abreast
<1>14. OldNews(u, lt)
  BY <1>1, <1>8, Zenon DEF TabRight, OldNews
<1>15. TabRight(u, rs, kp, vt, lt)
  BY <1>8, <1>9, <1>12, <1>13, <1>14, Zenon DEF TabRight
<1>16. TabRight(Drained(u), rs, kp, vt, lt)
  BY <1>7, <1>15, DrainRight
<1> QED BY <1>4, <1>16

\* Batch b lands: its page and what is kept for its id change, and no more.
Lands(b, rs, rt, kp, kq) ==
    /\ \A p \in Pages : rt[p] = IF p = b.page THEN Applied(rs[p], b.edit) ELSE rs[p]
    /\ \A i \in Ids : i # b.id => kq[i] = kp[i]
    /\ kq[b.id] = [base |-> b.base, reply |-> [status |-> "ok", version |-> rs[b.page].version + 1]]

\* The head lands: its page is one version further than the outbox knows.
LEMMA LandsRight ==
    ASSUME NEW s \in OutboxType, NEW rs, NEW kp, NEW vs, NEW lt, TabRight(s, rs, kp, vs, lt),
           Tried(s), Distinct(IdSeq(s.queue)), s.queue[1].id \notin Done(kp),
           NEW rt, NEW kq, Lands(s.queue[1], rs, rt, kp, kq),
           NEW lu \in SUBSET lt
    PROVE  TabRight(s, rt, kq, vs, lu) /\ Done(kq) = Done(kp) \cup {s.queue[1].id}
<1> DEFINE b == s.queue[1]
<1>1. /\ s.queue \in Seq(Batch) /\ s.queue # <<>> /\ b \in Batch
      /\ b.page \in Pages /\ b.edit \in Seq(Op) /\ b.id \in Ids
  <2>1. s.queue \in Seq(Batch) /\ s.queue # <<>>
    BY DEF OutboxType, Tried
  <2>2. b \in Batch
    BY <2>1
  <2> QED BY <2>1, <2>2, EditsAreOps
<1>2. /\ kq[b.id].base = b.base /\ kq[b.id].reply.version = rs[b.page].version + 1
      /\ kq[b.id].reply # NoReply
  BY DEF Lands, NoReply
<1>3. Done(kq) = Done(kp) \cup {b.id}
  BY <1>1, <1>2 DEF Lands, Done
<1>4. Leading(rt, s.queue, Done(kq), vs)
  BY <1>1, <1>3, LeadingLands DEF Lands, TabRight
<1>5. rt[b.page].version = rs[b.page].version + 1
  <2>1. Same(rs[b.page], rs[b.page])
    <3>1. Leading(rs, s.queue, Done(kp), vs)
      BY DEF TabRight
    <3> QED BY <1>1, <3>1, SameIsEquivalence DEF Leading
  <2> QED BY <1>1, <2>1, AppliedIs DEF Lands
<1>6. HeadDone(s, kq)
  BY <1>1, <1>3 DEF HeadDone
<1>7. Knows(s, rt, kq)
  <2>1. \A p \in Pages : p # b.page => rt[p] = rs[p] /\ rs[p].version <= s.known[p]
    BY <1>1 DEF Lands, TabRight, Knows, HeadDone
  <2> QED BY <1>6, <2>1 DEF Knows
<1>8. Abreast(s, rt, kq)
  BY <1>1, <1>2, <1>3, <1>5 DEF Abreast
<1>9. OldNews(s, lu)
  BY DEF TabRight, OldNews
<1> QED BY <1>3, <1>4, <1>7, <1>8, <1>9 DEF TabRight

-----------------------------------------------------------------------------
(* One person alone *)

\* One tab has the wireframe open; nobody locks, restores or leaves the page.
Alone == (\A t, u \in Tabs : t = u) /\ ~CanFreeze /\ ~CanReload /\ ~CanRestore

Undisputed == ~frozen /\ fetched = {} /\ opened = {} /\ refused = {}

\* All that the server keeps are acceptances of what it logged.
KeptRight == \A i \in Done(kept) : i \in Logged /\ kept[i].reply.status = "ok"

\* No entity changed after its page.
EvRight == \A p \in Pages : \A k \in Keys : rows[p].ev[k] \in Nat /\ rows[p].ev[k] <= rows[p].version

\* The answer on its way is the one that is kept.
WireRight ==
    \A t \in Tabs : wire[t] # NoReply =>
        tab[t].sending.id \in Done(kept) /\ wire[t] = kept[tab[t].sending.id].reply

TabsRight == \A t \in Tabs : TabRight(tab[t], rows, kept, view[t], late)

AloneInv == Undisputed /\ KeptRight /\ EvRight /\ WireRight /\ TabsRight

\* Every op is about an entity of the page.
LEMMA KeysOfOps == \A op \in Op : KeyOf(op) \in Keys
BY DEF KeyOf, Op, Keys

\* What the proofs below need of the rows and the answers.
LEMMA RowFacts ==
    ASSUME SyncInv
    PROVE  /\ DOMAIN rows = Pages /\ \A p \in Pages : rows[p].version \in Nat
           /\ kept \in [Ids -> [base : Versions, reply : ReplyType]]
           /\ DOMAIN view = Tabs /\ \A t \in Tabs : DOMAIN view[t] = Pages
           /\ wire \in [Tabs -> ReplyType] /\ log \in Seq(Ids)
BY DEF SyncInv, SyncType, RowsType, KeptType, ViewType, MailType, HistoryType, Dated, Versions

\* What the server has was logged, so it is at the head of a queue at most.
LEMMA DoneSent ==
    ASSUME SyncInv, KeptRight
    PROVE  /\ Done(kept) \subseteq Sent /\ nextId \notin Done(kept)
           /\ \A t \in Tabs : Behind(tab[t]) \cap Done(kept) = {}
<1>1. Done(kept) \subseteq Sent
  BY DEF KeptRight, Sent
<1>2. \A i \in Sent : i < nextId /\ i \in Nat
  BY Facts
<1>3. nextId \in Nat
  BY Facts
<1>4. \A t \in Tabs : Behind(tab[t]) \cap Sent = {}
  BY DEF SyncInv, PlaceInv
<1> QED BY <1>1, <1>2, <1>3, <1>4

\* b is the head of an outbox that was sent, or is on its way.
Heads(b, s) == Tried(s) /\ b = s.queue[1]

\* The head is new and taken, or known and answered as before.
LEMMA HeadProcessed ==
    ASSUME SyncInv, AloneInv, NEW t \in Tabs, NEW b, Heads(b, tab[t]),
           Process(t, b)
    PROVE  \/ /\ b.id \in Done(kept) /\ Reply(b) = kept[b.id].reply
              /\ rows' = rows /\ kept' = kept /\ log' = log
           \/ /\ b.id \notin Done(kept)
              /\ Reply(b) = [status |-> "ok", version |-> rows[b.page].version + 1]
              /\ rows' = [rows EXCEPT ![b.page] = Applied(@, b.edit)]
              /\ kept' = [kept EXCEPT ![b.id] = [base |-> b.base, reply |-> Reply(b)]]
              /\ log' = Append(log, b.id)
<1> DEFINE s == tab[t]
<1>1. s \in OutboxType /\ Distinct(IdSeq(s.queue))
  BY Facts
<1>2. b \in Batch /\ s.queue # <<>> /\ s.queue \in Seq(Batch)
  BY <1>1 DEF Heads, Tried, OutboxType
<1>3. b.id \in Ids /\ b.page \in Pages /\ b.edit \in Seq(Op) /\ b.base \in Nat
  BY <1>2, EditsAreOps DEF Batch, Versions
<1>4. TabRight(s, rows, kept, view[t], late)
  BY DEF AloneInv, TabsRight
<1> HIDE DEF s
<1>5. ~frozen
  BY DEF AloneInv, Undisputed
<1>6. CASE b.id \in Done(kept)
  <2>1. kept[b.id].reply # NoReply /\ ~IsNew(b)
    BY <1>6 DEF Done, IsNew
  <2>2. kept[b.id].base = b.base
    <3>1. Abreast(s, rows, kept) /\ Tried(s) /\ s.queue[1] = b
      BY <1>4 DEF TabRight, Heads, s
    <3> QED BY <1>6, <3>1, Zenon DEF Abreast
  <2>3. Reply(b) = kept[b.id].reply
    BY <1>5, <2>1, <2>2 DEF Reply
  <2>4. rows' = rows /\ kept' = kept /\ log' = log
    BY <2>1 DEF Process
  <2> QED BY <1>6, <2>3, <2>4
<1>7. CASE b.id \notin Done(kept)
  <2>1. kept[b.id].reply = NoReply /\ IsNew(b)
    BY <1>3, <1>5, <1>7 DEF Done, IsNew
  <2>2. rows[b.page].version <= b.base
    <3>1. Abreast(s, rows, kept) /\ Tried(s) /\ s.queue[1] = b
      BY <1>4 DEF TabRight, Heads, s
    <3> QED BY <1>7, <3>1, Zenon DEF Abreast
  <2>3. ~InConflict(rows[b.page], b.edit, b.base)
    <3> SUFFICES ASSUME NEW i \in DOMAIN b.edit, rows[b.page].ev[KeyOf(b.edit[i])] > b.base PROVE FALSE
      BY DEF InConflict
    <3>1. KeyOf(b.edit[i]) \in Keys
      BY <1>3, KeysOfOps
    <3>2. /\ rows[b.page].ev[KeyOf(b.edit[i])] \in Nat
          /\ rows[b.page].ev[KeyOf(b.edit[i])] <= rows[b.page].version
      BY <1>3, <3>1 DEF AloneInv, EvRight
    <3>3. rows[b.page].version \in Nat
      BY <1>3, RowFacts
    <3> DEFINE e == rows[b.page].ev[KeyOf(b.edit[i])]  v == rows[b.page].version  w == b.base
    <3>4. e \in Nat /\ v \in Nat /\ w \in Nat /\ e > w /\ e <= v /\ v <= w
      BY <1>3, <2>2, <3>2, <3>3
    <3> HIDE DEF e, v, w
    <3> QED BY <3>4
  <2>4. ~Invalid(rows[b.page], b.edit)
    <3> DEFINE q == s.queue
               rt == [p \in Pages |-> IF p = q[1].page THEN Applied(rows[p], q[1].edit) ELSE rows[p]]
    <3>1. \A p \in Pages : rt[p] = IF p = q[1].page THEN Applied(rows[p], q[1].edit) ELSE rows[p]
      OBVIOUS
    <3>2. /\ q \in Seq(Batch) /\ q # <<>> /\ Distinct(IdSeq(q)) /\ q[1] = b
          /\ Leading(rows, q, Done(kept), view[t]) /\ q[1].id \notin Done(kept)
      BY <1>1, <1>2, <1>4, <1>7 DEF TabRight, Heads, s
    <3> HIDE DEF rt, q
    <3>3. ~Invalid(rows[q[1].page], q[1].edit)
      BY <3>1, <3>2, LeadingLands, ZenonT(40)
    <3> QED BY <3>2, <3>3
  <2>5. Judged(b) = "ok"
    BY <2>3, <2>4 DEF Judged, Verdict
  <2>6. Reply(b) = [status |-> "ok", version |-> rows[b.page].version + 1]
    BY <1>5, <2>1, <2>5 DEF Reply
  <2>7. /\ rows' = [rows EXCEPT ![b.page] = Applied(@, b.edit)]
        /\ log' = Append(log, b.id)
        /\ kept' = [kept EXCEPT ![b.id] = [base |-> b.base, reply |-> Reply(b)]]
    BY <2>1, <2>5 DEF Process, TakesEffect
  <2> QED BY <1>7, <2>6, <2>7
<1> QED BY <1>6, <1>7

\* The request for the head arrives, in time or late.
LEMMA HeadArrives ==
    ASSUME Alone, SyncInv, AloneInv, NEW t \in Tabs, NEW b, Heads(b, tab[t]),
           Process(t, b), UNCHANGED <<tab, view, fetched, opened>>, late' \subseteq late
    PROVE  /\ Undisputed' /\ KeptRight' /\ EvRight' /\ TabsRight'
           /\ \A i \in Done(kept) : i \in Done(kept') /\ kept'[i] = kept[i]
           /\ b.id \in Done(kept') /\ Reply(b) = kept'[b.id].reply
<1> DEFINE s == tab[t]
<1>1. s \in OutboxType /\ Distinct(IdSeq(s.queue))
  BY Facts
<1>2. b \in Batch /\ s.queue # <<>>
  BY <1>1 DEF Heads, Tried, OutboxType
<1>3. b.id \in Ids /\ b.page \in Pages /\ b.edit \in Seq(Op)
  BY <1>2, EditsAreOps
<1>4. TabRight(s, rows, kept, view[t], late) /\ Tried(s) /\ b = s.queue[1]
  BY DEF AloneInv, TabsRight, Heads
<1>5. Undisputed'
  BY DEF AloneInv, Undisputed, Process
<1>6. /\ DOMAIN rows = Pages /\ \A p \in Pages : rows[p].version \in Nat
      /\ kept \in [Ids -> [base : Versions, reply : ReplyType]] /\ log \in Seq(Ids)
  BY RowFacts
<1> HIDE DEF s
<1>7. CASE b.id \in Done(kept)
  <2>1. Reply(b) = kept[b.id].reply /\ rows' = rows /\ kept' = kept /\ log' = log
    BY <1>7, HeadProcessed
  <2>2. KeptRight' /\ EvRight'
    BY <2>1 DEF AloneInv, KeptRight, EvRight, Logged
  <2>3. ASSUME NEW u \in Tabs PROVE TabRight(tab[u], rows, kept, view[u], late')
    <3>1. TabRight(tab[u], rows, kept, view[u], late)
      BY DEF AloneInv, TabsRight
    <3>2. OldNews(tab[u], late')
      BY <3>1 DEF TabRight, OldNews
    <3> QED BY <3>1, <3>2, Zenon DEF TabRight
  <2>4. TabsRight'
    BY <2>1, <2>3 DEF TabsRight
  <2> QED BY <1>5, <1>7, <2>1, <2>2, <2>4
<1>8. CASE b.id \notin Done(kept)
  <2> DEFINE x == [base |-> b.base, reply |-> Reply(b)]
  <2>1. /\ Reply(b) = [status |-> "ok", version |-> rows[b.page].version + 1]
        /\ rows' = [rows EXCEPT ![b.page] = Applied(@, b.edit)]
        /\ kept' = [kept EXCEPT ![b.id] = x] /\ log' = Append(log, b.id)
    BY <1>8, HeadProcessed
  <2>2. kept'[b.id] = x /\ \A i \in Ids : i # b.id => kept'[i] = kept[i]
    BY <1>3, <1>6, <2>1
  <2>3. \A p \in Pages : rows'[p] = IF p = b.page THEN Applied(rows[p], b.edit) ELSE rows[p]
    BY <1>6, <2>1, Zenon
  <2>4. TabRight(s, rows', kept', view[t], late') /\ Done(kept') = Done(kept) \cup {b.id}
    <3>1. kept'[b.id] = [base |-> b.base,
                         reply |-> [status |-> "ok", version |-> rows[b.page].version + 1]]
      BY <2>1, <2>2
    <3>2. late' \in SUBSET late
      OBVIOUS
    <3>3. Lands(b, rows, rows', kept, kept')
      BY <2>2, <2>3, <3>1, Zenon DEF Lands
    <3> QED BY <1>1, <1>4, <1>8, <3>2, <3>3, LandsRight
  <2>5. TabsRight'
    <3>1. \A u \in Tabs : u = t
      BY DEF Alone
    <3>2. tab' = tab /\ view' = view
      OBVIOUS
    <3> QED BY <2>4, <3>1, <3>2 DEF TabsRight, s
  <2>6. EvRight'
    <3> SUFFICES ASSUME NEW p \in Pages, NEW k \in Keys
                 PROVE  rows'[p].ev[k] \in Nat /\ rows'[p].ev[k] <= rows'[p].version
      BY DEF EvRight
    <3>1. rows[p].ev[k] \in Nat /\ rows[p].ev[k] <= rows[p].version /\ rows[p].version \in Nat
      BY <1>6 DEF AloneInv, EvRight
    <3>2. CASE p = b.page
      <4>1. Same(rows[p], rows[p])
        <5>1. Leading(rows, s.queue, Done(kept), view[t])
          BY <1>4 DEF TabRight
        <5> QED BY <5>1, SameIsEquivalence DEF Leading
      <4>2. /\ Applied(rows[p], b.edit).version = rows[p].version + 1
            /\ Applied(rows[p], b.edit).ev[k] = IF k \in Touched(b.edit) THEN rows[p].version + 1
                                                ELSE rows[p].ev[k]
        BY <1>3, <4>1, AppliedIs
      <4>3. rows'[p] = Applied(rows[p], b.edit)
        BY <2>3, <3>2
      <4> QED BY <3>1, <4>2, <4>3
    <3>3. CASE p # b.page
      <4>1. rows'[p] = rows[p]
        BY <2>3, <3>3
      <4> QED BY <3>1, <4>1
    <3> QED BY <3>2, <3>3
  <2>7. KeptRight'
    <3>1. Logged \subseteq Logged' /\ b.id \in Logged'
      <4>1. /\ DOMAIN log' = 1 .. Len(log) + 1 /\ DOMAIN log = 1 .. Len(log) /\ Len(log) \in Nat
            /\ log'[Len(log) + 1] = b.id /\ \A n \in 1 .. Len(log) : log'[n] = log[n]
        BY <1>3, <1>6, <2>1
      <4>2. Len(log) + 1 \in DOMAIN log' /\ DOMAIN log \subseteq DOMAIN log'
        BY <4>1
      <4> QED BY <4>1, <4>2 DEF Logged
    <3>2. kept'[b.id].reply.status = "ok"
      BY <2>1, <2>2
    <3>3. \A i \in Done(kept) : i \in Logged /\ kept[i].reply.status = "ok" /\ i \in Ids
      BY DEF AloneInv, KeptRight, Done
    <3> QED BY <2>2, <2>4, <3>1, <3>2, <3>3 DEF KeptRight
  <2>8. \A i \in Done(kept) : i \in Done(kept') /\ kept'[i] = kept[i]
    <3>1. \A i \in Done(kept) : i \in Ids /\ i # b.id
      BY <1>8 DEF Done
    <3> QED BY <2>2, <2>4, <3>1
  <2> QED BY <1>5, <2>2, <2>4, <2>5, <2>6, <2>7, <2>8
<1> QED BY <1>7, <1>8

\* What is in flight heads its queue.
LEMMA FlightHeads ==
    ASSUME SyncInv, NEW t \in Tabs, InFlight(t)
    PROVE  /\ Heads(tab[t].sending, tab[t]) /\ tab[t].sending \in Batch
           /\ tab[t].sending.id \in Ids /\ tab[t].sending.page \in Pages
<1>1. tab[t] \in OutboxType /\ Flying(tab[t]) /\ tab[t].sending # NoBatch
  BY Facts DEF InFlight
<1>2. /\ tab[t].queue \in Seq(Batch) /\ tab[t].queue # <<>> /\ tab[t].sending \in Batch
      /\ tab[t].sending.id \in Ids /\ tab[t].sending.page \in Pages
  BY <1>1, HeadAndTail
<1>3. tab[t].queue[1] = tab[t].sending
  BY <1>1, <1>2 DEF Flying
<1> QED BY <1>1, <1>2, <1>3 DEF Heads, Tried

\* A request arrives.
LEMMA ServeAlone ==
    ASSUME Alone, SyncInv, AloneInv, NEW t \in Tabs, Serve(t)
    PROVE  AloneInv'
<1> DEFINE b == tab[t].sending
<1>1. /\ InFlight(t) /\ Process(t, b) /\ wire' = [wire EXCEPT ![t] = Reply(b)]
      /\ UNCHANGED <<tab, view, fetched, opened>> /\ late' = late
  BY DEF Serve, vars, shown
<1>2. Heads(b, tab[t])
  BY <1>1, FlightHeads
<1> HIDE DEF b
<1>3. /\ Undisputed' /\ KeptRight' /\ EvRight' /\ TabsRight'
      /\ b.id \in Done(kept') /\ Reply(b) = kept'[b.id].reply
  BY <1>1, <1>2, HeadArrives
<1>4. wire'[t] = Reply(b) /\ tab' = tab /\ \A u \in Tabs : u = t
  BY <1>1, RowFacts DEF Alone
<1>5. WireRight'
  BY <1>3, <1>4 DEF WireRight, b
<1> QED BY <1>3, <1>5 DEF AloneInv

\* A request arrives that its sender gave up on: it is the head still, or
\* what it asked for was answered.
LEMMA LateAlone ==
    ASSUME Alone, SyncInv, AloneInv, NEW r \in late, ServeLate(r)
    PROVE  AloneInv'
<1> DEFINE t == r.tab  b == r.batch
<1>1. /\ Process(t, b) /\ late' = late \ {r} /\ wire' = wire
      /\ UNCHANGED <<tab, view, fetched, opened>>
  BY DEF ServeLate, vars, shown
<1>2. t \in Tabs /\ b \in Batch /\ b.id \in Ids
  BY DEF SyncInv, SyncType, MailType, Batch
<1>3. OldNews(tab[t], late) /\ ~frozen
  BY <1>2 DEF AloneInv, TabsRight, TabRight, Undisputed
<1>4. b.id \in tab[t].answered \/ Heads(b, tab[t])
  BY <1>3 DEF OldNews, Heads, Tried
<1>5. b.id \in Sent
  BY DEF Sent, OnTheWay
<1> HIDE DEF t, b
<1>6. CASE Heads(b, tab[t])
  <2>1. /\ Undisputed' /\ KeptRight' /\ EvRight' /\ TabsRight'
        /\ \A i \in Done(kept) : i \in Done(kept') /\ kept'[i] = kept[i]
    BY <1>1, <1>2, <1>6, HeadArrives
  <2>2. WireRight'
    BY <1>1, <2>1 DEF AloneInv, WireRight
  <2> QED BY <2>1, <2>2 DEF AloneInv
<1>7. CASE b.id \in tab[t].answered
  <2>1. Recorded(b.id)
    BY <1>2, <1>5, <1>7 DEF SyncInv, AnswerInv, AloneInv, Undisputed
  <2>2. ~IsNew(b)
    BY <2>1 DEF IsNew, Recorded
  <2>3. rows' = rows /\ kept' = kept /\ log' = log /\ frozen' = frozen /\ refused' = refused
    BY <1>1, <2>2 DEF Process
  <2>4. Undisputed' /\ KeptRight' /\ EvRight' /\ WireRight'
    BY <1>1, <2>3 DEF AloneInv, Undisputed, KeptRight, EvRight, WireRight, Logged
  <2>5. ASSUME NEW u \in Tabs PROVE TabRight(tab[u], rows, kept, view[u], late')
    <3>1. TabRight(tab[u], rows, kept, view[u], late)
      BY DEF AloneInv, TabsRight
    <3>2. OldNews(tab[u], late')
      BY <1>1, <3>1 DEF TabRight, OldNews
    <3> QED BY <3>1, <3>2, Zenon DEF TabRight
  <2>6. TabsRight'
    BY <1>1, <2>3, <2>5 DEF TabsRight
  <2> QED BY <2>4, <2>6 DEF AloneInv
<1> QED BY <1>4, <1>6, <1>7

\* The tab takes a step and the server none.
LEMMA TabStep ==
    ASSUME Alone, SyncInv, AloneInv, NEW t \in Tabs,
           UNCHANGED <<rows, kept, frozen, fetched, opened, log, refused>>,
           TabRight(tab'[t], rows, kept, view'[t], late'),
           wire'[t] = NoReply \/ (wire' = wire /\ Undisturbed(tab[t], tab'[t]))
    PROVE  AloneInv'
<1>1. \A u \in Tabs : u = t
  BY DEF Alone
<1>2. /\ rows' = rows /\ kept' = kept /\ frozen' = frozen /\ fetched' = fetched
      /\ opened' = opened /\ log' = log /\ refused' = refused
  OBVIOUS
<1>3. Undisputed' /\ KeptRight' /\ EvRight'
  BY <1>2 DEF AloneInv, Undisputed, KeptRight, EvRight, Logged
<1>4. TabsRight'
  BY <1>1, <1>2 DEF TabsRight
<1>5. WireRight'
  <2> SUFFICES ASSUME wire'[t] # NoReply
               PROVE  tab'[t].sending.id \in Done(kept) /\ wire'[t] = kept[tab'[t].sending.id].reply
    BY <1>1, <1>2 DEF WireRight
  <2>1. wire[t] # NoReply /\ wire'[t] = wire[t] /\ Undisturbed(tab[t], tab'[t])
    OBVIOUS
  <2>2. InFlight(t)
    BY <2>1 DEF SyncInv, WireInv
  <2>3. tab'[t].sending = tab[t].sending
    BY <2>1, <2>2 DEF Undisturbed, InFlight
  <2> QED BY <2>1, <2>3 DEF AloneInv, WireRight
<1> QED BY <1>3, <1>4, <1>5 DEF AloneInv

\* An edit.
LEMMA EditAlone ==
    ASSUME Alone, SyncInv, AloneInv, NEW t \in Tabs, NEW p \in Pages, NEW e \in Edits, Edit(t, p, e)
    PROVE  AloneInv'
<1> DEFINE b == [id |-> nextId, page |-> p, base |-> view[t][p].version, edit |-> e]
           s == tab[t]
<1>1. /\ ~Invalid(view[t][p], e) /\ nextId <= MaxId
      /\ tab' = [tab EXCEPT ![t] = Enqueued(s, <<b>>)]
      /\ view' = [view EXCEPT ![t][p] = After(@, e)]
      /\ UNCHANGED <<rows, kept, frozen, wire, late, fetched, opened, log, refused>>
  BY DEF Edit, Commit, Update, After, server, history
<1>2. /\ s \in OutboxType /\ Flying(s) /\ Steady(s) /\ DOMAIN tab = Tabs
      /\ nextId \in 1 .. MaxId + 1
  BY Facts DEF Good
<1>3. b \in Batch
  <2>1. nextId \in Ids
    BY <1>1, <1>2, Bounds DEF Ids
  <2>2. view[t][p].version \in Versions
    BY DEF SyncInv, SyncType, ViewType, Dated
  <2> QED BY <2>1, <2>2 DEF Batch
<1>4. nextId \notin Done(kept)
  BY DoneSent DEF AloneInv
<1>5. b.id = nextId /\ b.page = p /\ b.edit = e
  OBVIOUS
<1>6. /\ DOMAIN view = Tabs /\ DOMAIN view[t] = Pages
      /\ \A x \in Pages : rows[x].version \in Nat
  BY RowFacts
<1>7. tab'[t] = Enqueued(s, <<b>>)
  BY <1>1, <1>2
<1> DEFINE vs == view[t]  vt == view'[t]
<1>8. Displayed(b, vs, vt)
  <2>1. vt = [vs EXCEPT ![p] = After(@, e)]
    BY <1>1, <1>6
  <2> HIDE DEF b, vt, vs
  <2>2. DOMAIN vs = Pages
    BY <1>6 DEF vs
  <2> QED BY <1>5, <2>1, <2>2 DEF Displayed
<1> HIDE DEF b, vt
<1>9. TabRight(s, rows, kept, vs, late)
  BY DEF AloneInv, TabsRight
<1>10. ~Invalid(vs[b.page], b.edit) /\ b.id \notin Done(kept)
  BY <1>1, <1>4, <1>5
<1> HIDE DEF s, vs
<1>11. TabRight(Enqueued(s, <<b>>), rows, kept, vt, late)
  <2>1. s \in OutboxType /\ Flying(s) /\ Steady(s)
    BY <1>2
  <2>2. \A x \in Pages : rows[x].version \in Nat
    BY <1>6
  <2>3. b.id \notin Done(kept)
    BY <1>10
  <2>4. ~Invalid(vs[b.page], b.edit)
    BY <1>10
  <2> QED BY <1>3, <1>8, <1>9, <2>1, <2>2, <2>3, <2>4, EditRight
<1>12. Undisturbed(s, tab'[t])
  <2>1. <<b>> \in Seq(Batch)
    BY <1>3
  <2>2. Undisturbed(s, Enqueued(s, <<b>>))
    BY <1>2, <2>1, EnqueuedRest
  <2> QED BY <1>7, <2>2
<1> QED BY <1>1, <1>7, <1>11, <1>12, TabStep DEF s, vt

\* The retry timer fires.
LEMMA RetryAlone ==
    ASSUME Alone, SyncInv, AloneInv, NEW t \in Tabs, RetryNow(t)
    PROVE  AloneInv'
<1> DEFINE s == tab[t]  e == [s EXCEPT !.timer = FALSE]
<1>1. /\ tab' = [tab EXCEPT ![t] = Drained(e)] /\ view' = view
      /\ UNCHANGED <<rows, kept, frozen, wire, late, fetched, opened, log, refused>>
  BY DEF RetryNow, Retry, Update, server, shown, history
<1>2. s \in OutboxType /\ DOMAIN tab = Tabs /\ e \in OutboxType /\ e.sending = s.sending
  <2>1. s \in OutboxType /\ DOMAIN tab = Tabs
    BY Facts
  <2> QED BY <2>1 DEF OutboxType
<1>3. tab'[t] = Drained(e)
  BY <1>1, <1>2
<1>4. TabRight(s, rows, kept, view[t], late) /\ \A x \in Pages : rows[x].version \in Nat
  BY RowFacts DEF AloneInv, TabsRight
<1> HIDE DEF s
<1>5. TabRight(Drained(e), rows, kept, view[t], late)
  BY <1>2, <1>4, WokenRight
<1> HIDE DEF e
<1>6. Undisturbed(s, tab'[t])
  BY <1>2, <1>3, DrainedRest DEF Undisturbed
<1> QED BY <1>1, <1>3, <1>5, <1>6, TabStep DEF s

\* No answer came.
LEMMA GiveUpAlone ==
    ASSUME Alone, SyncInv, AloneInv, NEW t \in Tabs, GiveUp(t)
    PROVE  AloneInv'
<1> DEFINE s == tab[t]
<1>1. /\ InFlight(t) /\ tab' = [tab EXCEPT ![t] = AfterFailure(s)] /\ view' = view
      /\ wire' = [wire EXCEPT ![t] = NoReply]
      /\ UNCHANGED <<rows, kept, frozen, fetched, opened, log, refused>>
      /\ \A r \in late' : r \in late \/ r.batch = s.sending
  BY DEF GiveUp, Failed, Answer, Update, server, shown, history
<1>2. s \in OutboxType /\ Flying(s) /\ s.sending # NoBatch /\ DOMAIN tab = Tabs
  BY <1>1, Facts DEF InFlight
<1>3. tab'[t] = AfterFailure(s) /\ wire'[t] = NoReply
  BY <1>1, <1>2, RowFacts
<1>4. TabRight(s, rows, kept, view[t], late)
  BY DEF AloneInv, TabsRight
<1> HIDE DEF s
<1>5. TabRight(AfterFailure(s), rows, kept, view[t], late')
  BY <1>1, <1>2, <1>4, FailureRight
<1> QED BY <1>1, <1>3, <1>5, TabStep

\* The answer arrives: it is an acceptance.
LEMMA DeliverAlone ==
    ASSUME Alone, SyncInv, AloneInv, NEW t \in Tabs, Deliver(t)
    PROVE  AloneInv'
<1> DEFINE s == tab[t]  r == wire[t]  b == tab[t].sending  v == wire[t].version
<1>1. r # NoReply /\ r \in ReplyType /\ InFlight(t)
  BY DeliverNext
<1>2. b.id \in Done(kept) /\ r = kept[b.id].reply
  BY <1>1 DEF AloneInv, WireRight
<1>3. r.status = "ok"
  BY <1>2 DEF AloneInv, KeptRight
<1>4. /\ tab' = [tab EXCEPT ![t] = AfterAck(s, v)]
      /\ view' = [view EXCEPT ![t][b.page].version = v]
      /\ wire' = [wire EXCEPT ![t] = NoReply] /\ refused' = refused /\ late' = late
      /\ UNCHANGED <<rows, kept, frozen, fetched, opened, log>>
  BY <1>3 DEF Deliver, Acked, Answer, Update, server
<1>5. s \in OutboxType /\ Flying(s) /\ s.sending # NoBatch /\ DOMAIN tab = Tabs
  BY <1>1, Facts DEF InFlight
<1>6. /\ v \in Versions /\ DOMAIN view = Tabs /\ DOMAIN view[t] = Pages
      /\ \A x \in Pages : rows[x].version \in Nat
  BY <1>1, RowFacts DEF ReplyType
<1>7. tab'[t] = AfterAck(s, v) /\ wire'[t] = NoReply
  BY <1>4, <1>5, RowFacts
<1>8. TabRight(s, rows, kept, view[t], late)
  BY DEF AloneInv, TabsRight
<1> DEFINE vs == view[t]  vt == view'[t]
<1>9. \A x \in Pages : Same(vs[x], vt[x])
  <2> TAKE x \in Pages
  <2>1. Shaped(vs[x])
    BY <1>8 DEF TabRight, Leading, Same
  <2>2. CASE x = b.page
    <3>1. vt[x] = [vs[x] EXCEPT !.version = v]
      BY <1>4, <1>6, <2>2
    <3> HIDE DEF vt, vs, v
    <3> QED BY <2>1, <3>1 DEF Same, Shaped
  <2>3. CASE x # b.page
    <3>1. vt[x] = vs[x]
      BY <1>4, <1>6, <2>3
    <3> QED BY <2>1, <3>1 DEF Same
  <2> QED BY <2>2, <2>3
<1>10. Behind(s) \cap Done(kept) = {}
  BY DoneSent DEF AloneInv
<1>11. s.sending.id \in Done(kept) /\ kept[s.sending.id].reply.version = v
  BY <1>2
<1> HIDE DEF s, r, b, v, vs, vt
<1>12. TabRight(s, rows, kept, vs, late)
  BY <1>8 DEF vs
<1>13. TabRight(AfterAck(s, v), rows, kept, vt, late)
  BY <1>5, <1>6, <1>9, <1>10, <1>11, <1>12, AckRight
<1>14. TabRight(tab'[t], rows, kept, view'[t], late')
  BY <1>4, <1>7, <1>13 DEF vt
<1> QED BY <1>4, <1>7, <1>14, TabStep

\* The initial states.
LEMMA InitAlone == SyncInit => AloneInv
<1>1. SUFFICES ASSUME SyncInit PROVE AloneInv
  OBVIOUS
<1> DEFINE v0 == InitialPage.version
<1>2. /\ rows = [p \in Pages |-> InitialPage] /\ view = [t \in Tabs |-> rows]
      /\ kept = [i \in Ids |-> [base |-> 0, reply |-> NoReply]] /\ ~frozen
      /\ wire = [t \in Tabs |-> NoReply] /\ late = {} /\ fetched = {} /\ opened = {}
      /\ log = <<>> /\ refused = {}
  BY <1>1 DEF SyncInit
<1>3. Done(kept) = {}
  BY <1>2 DEF Done
<1>4. \A t \in Tabs : /\ tab[t].queue = <<>> /\ tab[t].held = {} /\ ~tab[t].locked
                       /\ tab[t].known = [p \in Pages |-> v0]
  <2>1. PICK here \in SUBSET Tabs \ {{}} :
            tab = [t \in Tabs |->
                    [NewOutbox(IF t \in here THEN "open" ELSE "closed") EXCEPT
                        !.known = [p \in Pages |-> InitialPage.version]]]
    BY <1>1 DEF SyncInit
  <2>2. \A t \in Tabs : tab[t] = Started("open") \/ tab[t] = Started("closed")
    BY <2>1 DEF Started
  <2>3. \A life : LET s == Started(life)
                  IN  s.queue = <<>> /\ s.held = {} /\ ~s.locked /\ s.known = [p \in Pages |-> v0]
    BY DEF Started, NewOutbox
  <2> QED BY <2>2, <2>3
<1>5. InitialPage \in Page /\ v0 \in Nat
  BY Documents DEF Page
<1>6. Shaped(InitialPage)
  BY <1>5 DEF Shaped, Page
<1>7. Undisputed /\ KeptRight /\ WireRight
  BY <1>2, <1>3 DEF Undisputed, KeptRight, WireRight
<1>8. EvRight
  BY <1>2, <1>5, Stamped DEF EvRight, Page
<1>9. ASSUME NEW t \in Tabs PROVE TabRight(tab[t], rows, kept, view[t], late)
  <2>1. tab[t].queue = <<>> /\ view[t] = rows /\ \A p \in Pages : rows[p] = InitialPage
    BY <1>2, <1>4
  <2>2. Leading(rows, <<>>, Done(kept), rows)
    <3> DEFINE d == [i \in 0 .. 0 |-> rows]
    <3>1. d[0] = rows /\ Len(<<>>) = 0 /\ DOMAIN <<>> = {}
      OBVIOUS
    <3> HIDE DEF d
    <3>2. Path(d, <<>>, Done(kept))
      BY <3>1 DEF Path
    <3>3. \A p \in Pages : Same(d[0][p], rows[p]) /\ Same(d[Len(<<>>)][p], rows[p])
      BY <1>6, <2>1, <3>1 DEF Same
    <3> QED BY <3>2, <3>3, Zenon DEF Leading
  <2>3. ~Tried(tab[t]) /\ ~HeadDone(tab[t], kept)
    BY <2>1 DEF Tried, HeadDone
  <2>4. Knows(tab[t], rows, kept)
    BY <1>4, <1>5, <2>1 DEF Knows
  <2>5. Abreast(tab[t], rows, kept) /\ OldNews(tab[t], late)
    BY <1>2, <2>3 DEF Abreast, OldNews
  <2> QED BY <1>4, <2>1, <2>2, <2>4, <2>5 DEF TabRight
<1>10. TabsRight
  BY <1>9 DEF TabsRight
<1> QED BY <1>7, <1>8, <1>10 DEF AloneInv

\* Every step of a person alone: conflicts, locks and reads do not come up.
LEMMA NextAlone ==
    ASSUME Alone, SyncInv, AloneInv, [SyncNext]_syncVars
    PROVE  AloneInv'
<1>1. /\ ~CanFreeze /\ ~CanReload /\ ~CanRestore /\ fetched = {} /\ opened = {}
      /\ \A t \in Tabs : tab[t].held = {} /\ ~tab[t].locked
  BY DEF Alone, AloneInv, Undisputed, TabsRight, TabRight
<1>2. ASSUME NEW t \in Tabs, Client(t) PROVE AloneInv'
  <2>1. \A p \in Pages : ~Visit(t, p)
    BY <1>1 DEF Visit
  <2>2. ~Unpause(t)
    BY <1>1 DEF Unpause, Resume
  <2>3. ~ \E h \in tab[t].held : ReadAfterConflict(t, h)
    BY <1>1
  <2>4. \A p \in Pages, e \in Edits : Edit(t, p, e) => AloneInv'
    BY EditAlone
  <2> QED BY <1>2, <2>1, <2>2, <2>3, <2>4, DeliverAlone, GiveUpAlone, RetryAlone DEF Client
<1>3. \A t \in Tabs : Serve(t) => AloneInv'
  BY ServeAlone
<1>4. \A r \in late : ServeLate(r) => AloneInv'
  BY LateAlone
<1>5. /\ ~ \E f \in fetched : Rebase(f)
      /\ ~ \E o \in opened : Show(o)
      /\ ~ \E on \in BOOLEAN : Freeze(on)
      /\ ~Restore
  BY <1>1 DEF Freeze, Restore
<1>6. CASE syncVars' = syncVars
  BY <1>6 DEF syncVars, vars, server, shown, history, AloneInv, Undisputed, KeptRight, EvRight,
              WireRight, TabsRight, Logged
<1> QED BY <1>2, <1>3, <1>4, <1>5, <1>6 DEF SyncNext

\* The invariant gives both properties.
LEMMA AloneGives == AloneInv => NeverAtOddsWithOneself /\ ShowsWhatItHolds
<1>1. SUFFICES ASSUME AloneInv PROVE NeverAtOddsWithOneself /\ ShowsWhatItHolds
  OBVIOUS
<1>2. NeverAtOddsWithOneself
  <2> SUFFICES ASSUME NEW t \in Tabs PROVE wire[t].status \in {"none", "ok"}
    BY DEF NeverAtOddsWithOneself
  <2>1. wire[t] # NoReply => wire[t].status = "ok"
    BY <1>1 DEF AloneInv, WireRight, KeptRight
  <2> QED BY <2>1 DEF NoReply
<1>3. ShowsWhatItHolds
  <2> SUFFICES ASSUME NEW t \in Tabs, NEW p \in Pages, tab[t].queue = <<>>
               PROVE  Document(view[t][p]) = Document(rows[p])
    BY DEF ShowsWhatItHolds, Quiet
  <2>1. Leading(rows, <<>>, Done(kept), view[t])
    BY <1>1 DEF AloneInv, TabsRight, TabRight
  <2>2. PICK d : \A x \in Pages : Same(d[0][x], rows[x]) /\ Same(d[Len(<<>>)][x], view[t][x])
    BY <2>1 DEF Leading
  <2>3. Same(view[t][p], rows[p])
    BY <2>2, SameIsEquivalence
  <2> QED BY <2>3 DEF Same, Document
<1> QED BY <1>2, <1>3

\* A person working alone is never in conflict and never refused, whatever
\* the network loses or delays.
THEOREM NeverAtOdds == ASSUME Alone PROVE SyncSpec => []NeverAtOddsWithOneself
<1>1. SyncInit => SyncInv /\ AloneInv
  BY SyncInitInv, InitAlone
<1>2. SyncInv /\ AloneInv /\ [SyncNext]_syncVars => (SyncInv /\ AloneInv)'
  BY SyncNextInv, NextAlone
<1>3. AloneInv => NeverAtOddsWithOneself
  BY AloneGives
<1> QED BY <1>1, <1>2, <1>3, PTL DEF SyncSpec

\* What such a person has on screen when nothing is waiting is what the
\* server has.
THEOREM ShowsTheRows == ASSUME Alone PROVE SyncSpec => []ShowsWhatItHolds
<1>1. SyncInit => SyncInv /\ AloneInv
  BY SyncInitInv, InitAlone
<1>2. SyncInv /\ AloneInv /\ [SyncNext]_syncVars => (SyncInv /\ AloneInv)'
  BY SyncNextInv, NextAlone
<1>3. AloneInv => ShowsWhatItHolds
  BY AloneGives
<1> QED BY <1>1, <1>2, <1>3, PTL DEF SyncSpec

=============================================================================
