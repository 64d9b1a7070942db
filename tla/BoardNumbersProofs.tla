------------------------- MODULE BoardNumbersProofs -------------------------
(***************************************************************************)
(* Proofs about module BoardNumbers, for any number of requests, projects, *)
(* keys and numbers.                                                       *)
(*                                                                         *)
(* A request mints its number from the counter it has loaded, which may be *)
(* older than the row it then locks. That numbers have no gap rests on the *)
(* rows: a counter once loaded is never above the committed one, and every *)
(* number up to that one is taken, so a create either takes the next       *)
(* number or is refused.                                                   *)
(***************************************************************************)
EXTENDS BoardNumbers, TLAPS

Named   == [at : {"derived", "renaming"}, l : Lineages, key : Keys]
Loading == [at : {"has", "locked"}, l : Lineages, read : Nat, mine : Keys \cup {0}]
Answers == {"none", "no board", "read", "created", "number refused", "renamed", "key refused"}
Request == {Idle} \cup [at : {"missing"}, l : Lineages] \cup Named \cup Loading

\* The variables' types.
Typed ==
    /\ DOMAIN board \subseteq Lineages
    /\ board \in [DOMAIN board -> [key : Keys, seq : Nat]]
    /\ rows \in [Lineages -> SUBSET Nat] /\ given \in [Lineages -> SUBSET Nat]
    /\ tx \in [Requests -> Request] /\ answer \in [Requests -> Answers]

\* A request has a board of its own, not yet committed, or a committed one,
\* with the counter as it is or was.
Sees(t) ==
    t.at \in {"has", "locked"} =>
        IF t.mine = 0 THEN /\ t.l \in DOMAIN board
                           /\ t.l \notin Erasing => t.read <= board[t.l].seq
        ELSE t.l \notin DOMAIN board /\ t.read = 0

\* An uncommitted board is the only one of its lineage.
Owns(t) == t.at \in {"has", "locked"} /\ t.mine # 0
Exclusive == \A p, q \in Requests : p # q /\ Owns(tx[p]) /\ Owns(tx[q]) => tx[p].l # tx[q].l

\* A board whose key is changed is committed.
Renames(t) == t.at = "renaming" => t.l \in DOMAIN board

\* Rows that are stamped and not erased stay in the table.
Kept == \A l \in Lineages \ Erasing : rows[l] = given[l]

NInv ==
    /\ Typed /\ Exclusive /\ Kept /\ NumbersAreGapless
    /\ \A p \in Requests : Sees(tx[p]) /\ Renames(tx[p])

-----------------------------------------------------------------------------
(* Requests *)

\* What a request is, by how far it has got.
LEMMA RequestKinds ==
    ASSUME NEW t \in Request
    PROVE  /\ t.at \in {"derived", "renaming"} => t \in Named
           /\ t.at \in {"has", "locked"} => t \in Loading
           /\ t.at = "missing" => t.l \in Lineages
BY DEF Request, Named, Loading, Idle

\* A step of one request that leaves boards and numbers alone.
LEMMA StepKeeps ==
    ASSUME NInv, NEW p \in Requests, NEW t \in Request, Step(p, t),
           Sees(t), Renames(t), UNCHANGED <<board, rows, given>>,
           answer' \in [Requests -> Answers],
           Owns(t) => \A q \in Requests \ {p} : Owns(tx[q]) => tx[q].l # t.l
    PROVE  NInv'
<1>1. tx' \in [Requests -> Request] /\ tx'[p] = t /\ \A q \in Requests \ {p} : tx'[q] = tx[q]
  BY DEF NInv, Typed, Step
<1>2. Typed'
  BY <1>1 DEF NInv, Typed
<1>3. Exclusive'
  BY <1>1 DEF NInv, Exclusive, Owns
<1>4. Kept' /\ NumbersAreGapless'
  BY DEF NInv, Kept, NumbersAreGapless
<1>5. \A q \in Requests : (Sees(tx[q]) /\ Renames(tx[q]))'
  BY <1>1 DEF NInv, Sees, Renames
<1> QED BY <1>2, <1>3, <1>4, <1>5 DEF NInv

\* A request that ends, whatever it is answered.
LEMMA EndKeeps ==
    ASSUME NInv, NEW p \in Requests, NEW what \in Answers, End(p, what),
           UNCHANGED <<board, rows, given>>
    PROVE  NInv'
<1>1. Idle \in Request /\ Sees(Idle) /\ Renames(Idle) /\ ~Owns(Idle)
  BY DEF Request, Idle, Sees, Renames, Owns
<1>2. answer' \in [Requests -> Answers]
  BY DEF NInv, Typed, End
<1> QED BY <1>1, <1>2, StepKeeps DEF End

\* A committed board that has just been loaded.
LEMMA LoadedNow ==
    ASSUME NInv, NEW l \in DOMAIN board
    PROVE  Has(l, 0) \in Request /\ Sees(Has(l, 0)) /\ Renames(Has(l, 0)) /\ ~Owns(Has(l, 0))
<1>1. l \in Lineages /\ board[l].seq \in Nat
  BY DEF NInv, Typed
<1>2. Has(l, 0) \in Loading /\ Has(l, 0) = [at |-> "has", l |-> l, read |-> board[l].seq, mine |-> 0]
  BY <1>1 DEF Has, Loading
<1> QED BY <1>1, <1>2 DEF Request, Sees, Renames, Owns

-----------------------------------------------------------------------------
(* The statements *)

\* The board's key is looked up.
LEMMA LookupKeeps ==
    ASSUME NInv, NEW p \in Requests, NEW l \in Lineages, Lookup(p, l)
    PROVE  NInv'
<1>1. answer' \in [Requests -> Answers]
  BY DEF NInv, Typed, Lookup, Answers
<1>2. CASE l \in DOMAIN board
  BY <1>1, <1>2, LoadedNow, StepKeeps DEF Lookup
<1>3. CASE l \notin DOMAIN board
  <2> DEFINE t == [at |-> "missing", l |-> l]
  <2>1. t \in Request /\ Sees(t) /\ Renames(t) /\ ~Owns(t)
    BY DEF Request, Sees, Renames, Owns
  <2> QED BY <1>1, <1>3, <2>1, StepKeeps DEF Lookup
<1> QED BY <1>2, <1>3

\* A key is derived for a board without one.
LEMMA DeriveKeyKeeps ==
    ASSUME NInv, NEW p \in Requests, DeriveKey(p)
    PROVE  NInv'
<1>1. PICK k \in Keys : Step(p, [at |-> "derived", l |-> tx[p].l, key |-> k])
  BY DEF DeriveKey
<1> DEFINE t == [at |-> "derived", l |-> tx[p].l, key |-> k]
<1>2. tx[p].l \in Lineages
  BY RequestKinds DEF NInv, Typed, DeriveKey
<1>3. t \in Request /\ Sees(t) /\ Renames(t) /\ ~Owns(t)
  BY <1>2 DEF Request, Named, Sees, Renames, Owns
<1>4. answer' \in [Requests -> Answers] /\ UNCHANGED <<board, rows, given>>
  BY DEF NInv, Typed, DeriveKey
<1> QED BY <1>1, <1>3, <1>4, StepKeeps

\* The winner's board is its own; the loser has the winner's, or ends.
LEMMA InsertBoardKeeps ==
    ASSUME NInv, NEW p \in Requests, InsertBoard(p)
    PROVE  NInv'
<1> DEFINE t == tx[p]
<1>1. t \in Named /\ t.l \in Lineages /\ t.key \in Keys /\ t.key # 0
  BY NumberAssumption, RequestKinds DEF NInv, Typed, InsertBoard, Named
<1>2. UNCHANGED <<board, rows, given>> /\ answer \in [Requests -> Answers]
  BY DEF NInv, Typed, InsertBoard
<1>3. CASE Lost(p) /\ t.l \in DOMAIN board
  BY <1>2, <1>3, LoadedNow, StepKeeps DEF Lost
<1>4. CASE Lost(p) /\ t.l \notin DOMAIN board
  BY <1>2, <1>4, EndKeeps DEF Lost, Answers
<1>5. CASE t.l \notin DOMAIN board /\ Step(p, Has(t.l, t.key)) /\ UNCHANGED answer
  <2> DEFINE u == Has(t.l, t.key)
  <2>1. u = [at |-> "has", l |-> t.l, read |-> 0, mine |-> t.key]
    BY <1>1 DEF Has
  <2>2. u \in Request /\ Sees(u) /\ Renames(u)
    BY <1>1, <1>5, <2>1 DEF Request, Loading, Sees, Renames
  <2>3. \A q \in Requests \ {p} : Owns(tx[q]) => tx[q].l # u.l
    BY <2>1 DEF InsertBoard, InsertWaits, Owns
  <2>4. Step(p, u) /\ UNCHANGED <<board, rows, given>> /\ answer' \in [Requests -> Answers]
    BY <1>2, <1>5
  <2> HIDE DEF u
  <2> QED BY <2>2, <2>3, <2>4, StepKeeps
<1> QED BY <1>3, <1>4, <1>5 DEF InsertBoard

\* The board row is locked and its counter read.
LEMMA LockBoardKeeps ==
    ASSUME NInv, NEW p \in Requests, LockBoard(p)
    PROVE  NInv'
<1> DEFINE u == [tx[p] EXCEPT !.at = "locked"]
<1>1. tx[p] \in Loading
  BY RequestKinds DEF NInv, Typed, LockBoard
<1>2. u \in Loading /\ u.l = tx[p].l /\ u.mine = tx[p].mine /\ u.read = tx[p].read /\ u.at = "locked"
  BY <1>1 DEF Loading
<1>3. Sees(tx[p]) /\ tx[p].at = "has"
  BY DEF NInv, LockBoard
<1>4. u \in Request /\ Sees(u) /\ Renames(u)
  BY <1>2, <1>3 DEF Request, Sees, Renames
<1>5. Owns(u) => \A q \in Requests \ {p} : Owns(tx[q]) => tx[q].l # u.l
  BY <1>2, <1>3 DEF NInv, Exclusive, Owns
<1>6. Step(p, u) /\ UNCHANGED <<board, rows, given>> /\ answer' \in [Requests -> Answers]
  BY DEF NInv, Typed, LockBoard
<1> HIDE DEF u
<1> QED BY <1>4, <1>5, <1>6, StepKeeps

\* The number given is the next one, though the counter may have been stale:
\* were it, the number would be taken.
LEMMA NextNumber ==
    ASSUME NInv, NEW p \in Requests, tx[p].at = "locked",
           tx[p].l \notin Erasing, tx[p].read + 1 \notin rows[tx[p].l]
    PROVE  given[tx[p].l] \cup {tx[p].read + 1} = 1..(tx[p].read + 1)
<1> DEFINE t == tx[p]
<1>1. t \in Loading /\ t.l \in Lineages /\ t.read \in Nat /\ Sees(t)
  BY RequestKinds DEF NInv, Typed, Loading
<1>2. rows[t.l] = given[t.l]
  BY <1>1 DEF NInv, Kept
<1>3. CASE t.mine = 0
  <2>1. t.l \in DOMAIN board /\ t.read <= board[t.l].seq /\ board[t.l].seq \in Nat
    BY <1>1, <1>3 DEF NInv, Typed, Sees
  <2>2. given[t.l] = 1..board[t.l].seq
    BY <1>1, <2>1 DEF NInv, NumbersAreGapless
  <2>3. board[t.l].seq = t.read
    BY <1>1, <1>2, <2>1, <2>2
  <2> QED BY <1>1, <2>2, <2>3
<1>4. CASE t.mine # 0
  <2>1. given[t.l] = {} /\ t.read = 0
    BY <1>1, <1>4 DEF NInv, Sees, NumbersAreGapless
  <2> QED BY <2>1
<1> QED BY <1>3, <1>4

\* A work item gets the next number.
LEMMA CreateKeeps ==
    ASSUME NInv, NEW p \in Requests, Create(p)
    PROVE  NInv'
<1> DEFINE t == tx[p]
           n == t.read + 1
           key == IF t.mine = 0 THEN board[t.l].key ELSE t.mine
<1>1. t.at = "locked" /\ t \in Loading /\ t.l \in Lineages /\ n \in Nat \ {0} /\ t.mine \in Keys \cup {0} /\ Sees(t)
  BY RequestKinds DEF NInv, Typed, Create, Loading
<1>2. CASE n \in rows[t.l] /\ Refused(p, n)
  BY <1>2, EndKeeps DEF Refused, Answers
<1>3. CASE /\ n \notin rows[t.l]
           /\ board' = [l \in DOMAIN board \cup {t.l} |->
                           IF l = t.l THEN [key |-> key, seq |-> n] ELSE board[l]]
           /\ rows' = [rows EXCEPT ![t.l] = @ \cup {n}]
           /\ given' = [given EXCEPT ![t.l] = @ \cup {n}]
           /\ End(p, "created")
  <2>1. key \in Keys
    BY <1>1 DEF NInv, Typed, Sees
  <2>2. /\ DOMAIN board' = DOMAIN board \cup {t.l}
        /\ board'[t.l] = [key |-> key, seq |-> n]
        /\ \A l \in DOMAIN board \ {t.l} : board'[l] = board[l]
    BY <1>3
  <2>3. /\ tx' \in [Requests -> Request] /\ tx'[p] = Idle
        /\ \A q \in Requests \ {p} : tx'[q] = tx[q]
    BY <1>3 DEF NInv, Typed, End, Step, Request
  <2>4. Typed'
    <3>1. DOMAIN board' \subseteq Lineages /\ board' \in [DOMAIN board' -> [key : Keys, seq : Nat]]
      BY <1>1, <1>3, <2>1, <2>2 DEF NInv, Typed
    <3>2. rows' \in [Lineages -> SUBSET Nat] /\ given' \in [Lineages -> SUBSET Nat]
      BY <1>1, <1>3 DEF NInv, Typed
    <3>3. answer' \in [Requests -> Answers]
      BY <1>3 DEF NInv, Typed, End, Answers
    <3> QED BY <2>3, <3>1, <3>2, <3>3 DEF Typed
  <2>5. Exclusive'
    BY <2>3 DEF NInv, Exclusive, Owns, Idle
  <2>6. Kept'
    BY <1>1, <1>3 DEF NInv, Typed, Kept
  <2>7. NumbersAreGapless'
    <3> SUFFICES ASSUME NEW l \in Lineages \ Erasing
                 PROVE  given'[l] = IF l \in DOMAIN board' THEN 1..board'[l].seq ELSE {}
      BY DEF NumbersAreGapless
    <3>1. CASE l = t.l
      BY <1>1, <1>3, <2>2, <3>1, NextNumber DEF NInv, Typed
    <3>2. CASE l # t.l
      BY <1>1, <1>3, <2>2, <3>2 DEF NInv, Typed, NumbersAreGapless
    <3> QED BY <3>1, <3>2
  <2>8. ASSUME NEW q \in Requests PROVE (Sees(tx[q]) /\ Renames(tx[q]))'
    <3>1. CASE q = p
      BY <2>3, <3>1 DEF Sees, Renames, Idle
    <3>2. CASE q # p
      <4>1. tx'[q] = tx[q] /\ Sees(tx[q]) /\ Renames(tx[q]) /\ tx[q] \in Request
        BY <2>3, <3>2 DEF NInv, Typed
      <4>2. Renames(tx[q])'
        BY <2>2, <4>1 DEF Renames
      <4>3. CASE Owns(tx[q])
        <5>1. tx[q].l # t.l
          BY <1>1, <3>2, <4>1, <4>3 DEF NInv, Exclusive, Owns, Sees
        <5> QED BY <2>2, <4>1, <4>2, <4>3, <5>1 DEF Sees, Owns
      <4>4. CASE ~Owns(tx[q]) /\ tx[q].at \in {"has", "locked"}
        <5>1. tx[q].mine = 0 /\ tx[q].l \in DOMAIN board /\ tx[q].read \in Nat
          BY <4>1, <4>4, RequestKinds DEF Owns, Sees, Loading
        <5>2. tx[q].l \notin Erasing => tx[q].read <= board'[tx[q].l].seq
          <6>1. CASE tx[q].l # t.l
            BY <2>2, <4>1, <4>4, <5>1, <6>1 DEF Sees
          <6>2. CASE tx[q].l = t.l /\ t.l \notin Erasing
            <7>1. t.mine = 0
              BY <1>1, <5>1, <6>2 DEF Sees
            <7>2. tx[q].read <= board[t.l].seq /\ board[t.l].seq \in Nat
              BY <4>1, <4>4, <5>1, <6>2 DEF NInv, Typed, Sees
            <7>3. given[t.l] = 1..board[t.l].seq /\ rows[t.l] = given[t.l]
              BY <1>1, <5>1, <6>2 DEF NInv, Kept, NumbersAreGapless
            <7>4. board[t.l].seq < n
              BY <1>1, <1>3, <7>2, <7>3
            <7>5. board'[tx[q].l].seq = n
              BY <2>2, <6>2
            <7> QED BY <1>1, <5>1, <7>2, <7>4, <7>5
          <6> QED BY <6>1, <6>2
        <5> QED BY <2>2, <4>1, <4>2, <5>1, <5>2 DEF Sees
      <4>5. CASE tx[q].at \notin {"has", "locked"}
        BY <4>1, <4>2, <4>5 DEF Sees
      <4> QED BY <4>3, <4>4, <4>5
    <3> QED BY <3>1, <3>2
  <2> QED BY <2>4, <2>5, <2>6, <2>7, <2>8 DEF NInv
<1> QED BY <1>2, <1>3 DEF Create

\* A work item is deleted.
LEMMA DeleteKeeps ==
    ASSUME NInv, NEW l \in Lineages, NEW n \in 1..MaxSeq, Delete(l, n)
    PROVE  NInv'
<1>1. Typed'
  BY DEF NInv, Typed, Delete
<1>2. Kept'
  BY DEF NInv, Typed, Kept, Delete
<1>3. Exclusive' /\ NumbersAreGapless'
  BY DEF NInv, Exclusive, Owns, NumbersAreGapless, Delete
<1>4. \A p \in Requests : (Sees(tx[p]) /\ Renames(tx[p]))'
  BY DEF NInv, Sees, Renames, Delete
<1> QED BY <1>1, <1>2, <1>3, <1>4 DEF NInv

\* A new key is checked.
LEMMA CheckKeyKeeps ==
    ASSUME NInv, NEW p \in Requests, NEW key \in Keys, CheckKey(p, key)
    PROVE  NInv'
<1> DEFINE u == [at |-> "renaming", l |-> tx[p].l, key |-> key]
<1>1. tx[p] \in Loading /\ tx[p].l \in Lineages /\ tx[p].l \in DOMAIN board
  BY RequestKinds DEF NInv, Typed, CheckKey, Sees, Loading
<1>2. u \in Request /\ Sees(u) /\ Renames(u) /\ ~Owns(u)
  BY <1>1 DEF Request, Named, Sees, Renames, Owns
<1>3. Step(p, u) /\ UNCHANGED <<board, rows, given>> /\ answer' \in [Requests -> Answers]
  BY DEF NInv, Typed, CheckKey
<1> HIDE DEF u
<1> QED BY <1>2, <1>3, StepKeeps

\* A new key leaves the counter as it is.
LEMMA SetBoardKeyKeeps ==
    ASSUME NInv, NEW p \in Requests, SetBoardKey(p)
    PROVE  NInv'
<1> DEFINE t == tx[p]
<1>1. t \in Named /\ t.l \in DOMAIN board /\ t.key \in Keys
  <2>1. t \in Request /\ t.at = "renaming" /\ Renames(t)
    BY DEF NInv, Typed, SetBoardKey
  <2>2. t \in Named
    BY <2>1, RequestKinds
  <2> QED BY <2>1, <2>2 DEF Renames, Named
<1>2. UNCHANGED <<rows, given>>
  BY DEF SetBoardKey
<1>3. CASE UNCHANGED board /\ End(p, "key refused")
  BY <1>2, <1>3, EndKeeps DEF Answers
<1>4. CASE board' = [board EXCEPT ![t.l].key = t.key] /\ End(p, "renamed")
  <2>1. /\ DOMAIN board' = DOMAIN board
        /\ board' \in [DOMAIN board -> [key : Keys, seq : Nat]]
        /\ \A l \in DOMAIN board : board'[l].seq = board[l].seq
    BY <1>1, <1>4 DEF NInv, Typed
  <2>2. /\ tx' \in [Requests -> Request] /\ tx'[p] = Idle
        /\ \A q \in Requests \ {p} : tx'[q] = tx[q]
    BY <1>4 DEF NInv, Typed, End, Step, Request
  <2>3. Typed'
    BY <1>2, <1>4, <2>1, <2>2 DEF NInv, Typed, End, Answers
  <2>4. Exclusive'
    BY <2>2 DEF NInv, Exclusive, Owns, Idle
  <2>5. Kept' /\ NumbersAreGapless'
    BY <1>2, <2>1 DEF NInv, Kept, NumbersAreGapless
  <2>6. \A q \in Requests : (Sees(tx[q]) /\ Renames(tx[q]))'
    BY <2>1, <2>2 DEF NInv, Sees, Renames, Idle
  <2> QED BY <2>3, <2>4, <2>5, <2>6 DEF NInv
<1> QED BY <1>3, <1>4 DEF SetBoardKey

-----------------------------------------------------------------------------
(* The specification *)

\* The initial boards satisfy the invariant.
LEMMA InitNInv == Init => NInv
<1> SUFFICES ASSUME Init PROVE NInv
  OBVIOUS
<1>1. Typed
  BY DEF Init, Typed, Request, Answers
<1>2. Exclusive /\ \A p \in Requests : Sees(tx[p]) /\ Renames(tx[p])
  BY DEF Init, Exclusive, Owns, Sees, Renames, Idle
<1>3. Kept /\ NumbersAreGapless
  BY DEF Init, Kept, NumbersAreGapless
<1> QED BY <1>1, <1>2, <1>3 DEF NInv

\* Every step keeps it.
LEMMA NextNInv == NInv /\ [Next]_vars => NInv'
<1> SUFFICES ASSUME NInv, [Next]_vars PROVE NInv'
  OBVIOUS
<1>1. CASE \E p \in Requests, l \in Lineages : Lookup(p, l)
  BY <1>1, LookupKeeps
<1>2. ASSUME NEW p \in Requests, Proceed(p) PROVE NInv'
  <2>1. CASE EndRead(p)
    BY <2>1, EndKeeps DEF EndRead, Answers
  <2> QED BY <1>2, <2>1, DeriveKeyKeeps, InsertBoardKeeps, LockBoardKeeps, CreateKeeps,
             SetBoardKeyKeeps DEF Proceed
<1>3. CASE \E p \in Requests, key \in Keys : CheckKey(p, key)
  BY <1>3, CheckKeyKeeps
<1>4. CASE \E l \in Lineages, n \in 1..MaxSeq : Delete(l, n)
  BY <1>4, DeleteKeeps
<1>5. CASE UNCHANGED vars
  BY <1>5 DEF vars, NInv, Typed, Exclusive, Owns, Kept, NumbersAreGapless, Sees, Renames
<1> QED BY <1>1, <1>2, <1>3, <1>4, <1>5 DEF Next

\* The invariant, in every state of the boards.
THEOREM NumbersInvariance == Spec => []NInv
BY InitNInv, NextNInv, PTL DEF Spec

\* On any board, with any number of requests and however stale the counters
\* they have loaded, no number is given twice and none is left out.
THEOREM NumbersHaveNoGap == Spec => []NumbersAreGapless
<1>1. NInv => NumbersAreGapless
  BY DEF NInv
<1> QED BY <1>1, NumbersInvariance, PTL

\* A request that ends without a board lost its key to another project: the
\* project's own first requests never make each other fail.
LEMMA LosersReselect ==
    ASSUME NInv, [Next]_vars
    PROVE  \A p \in Requests : answer'[p] = "no board" /\ answer[p] # "no board" =>
              \E l \in DOMAIN board \ {tx[p].l} : board[l].key = tx[p].key
<1> SUFFICES ASSUME NEW p \in Requests, answer'[p] = "no board", answer[p] # "no board"
             PROVE  \E l \in DOMAIN board \ {tx[p].l} : board[l].key = tx[p].key
  OBVIOUS
<1>1. answer \in [Requests -> Answers]
  BY DEF NInv, Typed
<1>2. PICK q \in Requests : InsertBoard(q) /\ Lost(q) /\ tx[q].l \notin DOMAIN board
  <2>1. CASE \E q \in Requests, l \in Lineages : Lookup(q, l)
    BY <1>1, <2>1 DEF Lookup
  <2>2. ASSUME NEW q \in Requests, Proceed(q)
        PROVE  InsertBoard(q) /\ Lost(q) /\ tx[q].l \notin DOMAIN board
    <3>1. CASE DeriveKey(q) \/ LockBoard(q)
      BY <3>1 DEF DeriveKey, LockBoard
    <3>2. CASE InsertBoard(q)
      BY <3>2 DEF InsertBoard, Lost
    <3>3. CASE EndRead(q)
      BY <1>1, <3>3 DEF EndRead, End
    <3>4. CASE Create(q)
      BY <1>1, <3>4 DEF Create, Refused, End
    <3>5. CASE SetBoardKey(q)
      BY <1>1, <3>5 DEF SetBoardKey, End
    <3> QED BY <2>2, <3>1, <3>2, <3>3, <3>4, <3>5 DEF Proceed
  <2>3. CASE \E q \in Requests, key \in Keys : CheckKey(q, key)
    BY <2>3 DEF CheckKey
  <2>4. CASE \E l \in Lineages, n \in 1..MaxSeq : Delete(l, n)
    BY <2>4 DEF Delete
  <2>5. CASE UNCHANGED vars
    BY <2>5 DEF vars
  <2> QED BY <2>1, <2>2, <2>3, <2>4, <2>5 DEF Next
<1>3. p = q
  BY <1>1, <1>2 DEF Lost, End
<1>4. tx[p].key \in UsedKeys
  BY <1>2, <1>3 DEF InsertBoard, Lost, End, Step
<1> QED BY <1>2, <1>3, <1>4 DEF UsedKeys

\* Of a project's first requests, in parallel, none fails because another
\* one created the board, whatever other projects do meanwhile.
THEOREM NoFirstRequestFails == Spec => LoserReselects
<1>1. NInv /\ [Next]_vars =>
          [\A p \in Requests : answer'[p] = "no board" /\ answer[p] # "no board" =>
              \E l \in DOMAIN board \ {tx[p].l} : board[l].key = tx[p].key]_vars
  BY LosersReselect
<1> QED BY <1>1, NumbersInvariance, PTL DEF Spec, LoserReselects

=============================================================================
