---------------------------- MODULE PageOpsProofs ----------------------------
(***************************************************************************)
(* Facts about the op applier (module PageOps), for any page and any list  *)
(* of ops: the stages of a batch exist and are the ops one after the       *)
(* other; no op changes a version; ops look at the document of a page      *)
(* only; component ids stay distinct; and a batch leaves alone, and does   *)
(* not stamp, what none of its ops is about.                               *)
(***************************************************************************)
EXTENDS PageOps, SublistProofs

-----------------------------------------------------------------------------
(* What the applier does to a page's version *)

\* f holds the stages of the first n ops on page p.
Staged(p, ops, n, f) ==
    f = [i \in 0 .. n |->
            IF i = 0 THEN p
            ELSE IF Legal(f[i - 1], ops[i]) THEN Effect(f[i - 1], ops[i])
            ELSE f[i - 1]]

SameVersion(p, q) == "version" \in DOMAIN q /\ q.version = p.version

\* No op touches the version.
LEMMA EffectKeepsVersion ==
    ASSUME NEW p, NEW op \in Op, SameVersion(p, p)
    PROVE  SameVersion(p, Effect(p, op))
<1>1. op.op \in {"root", "page", "insert", "remove", "set", "move"}
  BY DEF Op
<1>2. \A q, r, c : SameVersion(p, q) => SameVersion(p, WithLast(q, r, c))
  BY DEF WithLast, SameVersion
<1>3. \A c : SameVersion(p, Without(p, c))
  BY DEF Without, SameVersion
<1>4. CASE op.op = "root"
  BY <1>4 DEF Effect, SameVersion
<1>5. CASE op.op = "page"
  BY <1>5 DEF Effect, SameVersion
<1>6. CASE op.op = "insert"
  BY <1>2, <1>6 DEF Effect
<1>7. CASE op.op = "remove"
  BY <1>3, <1>7 DEF Effect
<1>8. CASE op.op = "set"
  BY <1>8 DEF Effect, SameVersion
<1>9. CASE op.op = "move"
  BY <1>2, <1>3, <1>9 DEF Effect
<1> QED BY <1>1, <1>4, <1>5, <1>6, <1>7, <1>8, <1>9

\* The stages of a batch exist, one op after the other.
LEMMA StagesExist ==
    ASSUME NEW p, NEW ops, NEW n \in Nat
    PROVE  \E f : Staged(p, ops, n, f)
<1> DEFINE T == {k \in Nat : ~ \E f : Staged(p, ops, k, f)}
<1>1. SUFFICES ASSUME T # {} PROVE FALSE
  OBVIOUS
<1>2. PICK k \in T : \A j \in T : k <= j
  BY <1>1, LeastMember
<1>3. Staged(p, ops, 0, [i \in 0 .. 0 |-> p])
  BY DEF Staged
<1>4. k # 0
  BY <1>2, <1>3
<1>5. k - 1 \in Nat /\ k - 1 \notin T
  BY <1>2, <1>4
<1>6. PICK f : Staged(p, ops, k - 1, f)
  BY <1>5
<1> DEFINE x == IF Legal(f[k - 1], ops[k]) THEN Effect(f[k - 1], ops[k]) ELSE f[k - 1]
           g == [i \in 0 .. k |-> IF i = k THEN x ELSE f[i]]
<1>7. ASSUME NEW i \in 0 .. k
      PROVE  g[i] = IF i = 0 THEN p
                    ELSE IF Legal(g[i - 1], ops[i]) THEN Effect(g[i - 1], ops[i]) ELSE g[i - 1]
  <2>1. CASE i = k
    <3>1. g[k] = x /\ g[k - 1] = f[k - 1]
      BY <1>4, <1>5
    <3> QED BY <1>4, <2>1, <3>1
  <2>2. CASE i # k
    <3>1. i \in 0 .. k - 1
      BY <1>5, <2>2
    <3>2. g[i] = f[i] /\ (i # 0 => g[i - 1] = f[i - 1])
      BY <1>5, <3>1
    <3> HIDE DEF g
    <3>3. f[i] = IF i = 0 THEN p
                 ELSE IF Legal(f[i - 1], ops[i]) THEN Effect(f[i - 1], ops[i]) ELSE f[i - 1]
      BY <1>6, <3>1, Zenon DEF Staged
    <3> QED BY <3>2, <3>3
  <2> QED BY <2>1, <2>2
<1>8. Staged(p, ops, k, g)
  <2>1. g = [i \in 0 .. k |-> g[i]]
    OBVIOUS
  <2> HIDE DEF g
  <2> QED BY <1>7, <2>1, Zenon DEF Staged
<1> QED BY <1>2, <1>8

\* Stages is what its recursive definition says.
LEMMA StagesAre ==
    ASSUME NEW p, NEW ops \in Seq(Op)
    PROVE  Staged(p, ops, Len(ops), Stages(p, ops))
<1>1. Len(ops) \in Nat
  OBVIOUS
<1>2. \E f : Staged(p, ops, Len(ops), f)
  BY <1>1, StagesExist
<1> QED BY <1>2, Zenon DEF Stages, Staged

\* Replaying ops in the browser leaves the version of a page alone.
LEMMA StagesKeepVersion ==
    ASSUME NEW p, NEW ops \in Seq(Op), SameVersion(p, p), NEW i \in 0 .. Len(ops)
    PROVE  SameVersion(p, Stages(p, ops)[i])
<1> DEFINE f == Stages(p, ops)
           n == Len(ops)
           T == {k \in 0 .. n : ~SameVersion(p, f[k])}
<1>1. Staged(p, ops, n, f) /\ n \in Nat
  BY StagesAre
<1> HIDE DEF f
<1>2. \A k \in 0 .. n : f[k] = IF k = 0 THEN p
                               ELSE IF Legal(f[k - 1], ops[k]) THEN Effect(f[k - 1], ops[k])
                               ELSE f[k - 1]
  BY <1>1, Zenon DEF Staged
<1>3. SUFFICES ASSUME T # {} PROVE FALSE
  BY DEF f
<1>4. PICK k \in T : \A j \in T : k <= j
  <2>1. T \in SUBSET Nat
    BY <1>1
  <2> QED BY <1>3, <2>1, LeastMember
<1>5. k \in 1 .. n /\ k - 1 \in 0 .. n
  BY <1>1, <1>2, <1>4
<1>6. SameVersion(p, f[k - 1]) /\ ops[k] \in Op
  BY <1>1, <1>4, <1>5
<1>7. f[k] = f[k - 1] \/ f[k] = Effect(f[k - 1], ops[k])
  BY <1>2, <1>5
<1>8. SameVersion(f[k - 1], f[k - 1])
  BY <1>6 DEF SameVersion
<1>9. SameVersion(f[k - 1], Effect(f[k - 1], ops[k]))
  BY <1>6, <1>8, EffectKeepsVersion
<1>10. SameVersion(p, f[k])
  BY <1>6, <1>7, <1>9 DEF SameVersion
<1> QED BY <1>4, <1>10

\* An accepted batch makes the next version of the page.
LEMMA AppliedVersion ==
    ASSUME NEW p, NEW ops \in Seq(Op), SameVersion(p, p)
    PROVE  "version" \in DOMAIN Applied(p, ops) /\ Applied(p, ops).version = p.version + 1
<1> DEFINE q == Stages(p, ops)[Len(ops)]
<1>1. Len(ops) \in 0 .. Len(ops)
  OBVIOUS
<1>2. "version" \in DOMAIN q
  BY <1>1, StagesKeepVersion DEF SameVersion
<1> HIDE DEF q
<1>3. \A v, e : LET a == [q EXCEPT !.version = v, !.ev = e]
                IN  "version" \in DOMAIN a /\ a.version = v
  BY <1>2
<1>4. \E v, e : v = p.version + 1 /\ Applied(p, ops) = [q EXCEPT !.version = v, !.ev = e]
  BY DEF Applied, q
<1> QED BY <1>3, <1>4

-----------------------------------------------------------------------------
(* Ops look at the document only *)

\* Two pages with the same document: tree, lists and columns.  Versions aside,
\* this is all that ops look at.
Shaped(p) == DOMAIN p = {"tree", "lists", "fields", "ev", "version"}
Same(p, q) == /\ Shaped(p) /\ Shaped(q)
              /\ p.tree = q.tree /\ p.lists = q.lists /\ p.fields = q.fields

\* What a batch that applies makes of a page, versions aside.
After(p, ops) == Stages(p, ops)[Len(ops)]

\* Having the same document is an equivalence.
LEMMA SameIsEquivalence ==
    /\ \A p, q : Same(p, q) => Same(q, p) /\ Same(p, p)
    /\ \A p, q, r : Same(p, q) /\ Same(q, r) => Same(p, r)
BY DEF Same

\* Components are found in the same places.
LEMMA SameSpots ==
    ASSUME NEW p, NEW q, Same(p, q), NEW c
    PROVE  Spots(p, c) = Spots(q, c) /\ (Present(p, c) <=> Present(q, c)) /\ Spot(p, c) = Spot(q, c)
<1>1. p.lists = q.lists
  BY DEF Same
<1>2. Spots(p, c) = Spots(q, c)
  BY <1>1, Zenon DEF Spots
<1> QED BY <1>2, Zenon DEF Present, Spot

\* The same ops are legal.
LEMMA SameLegal ==
    ASSUME NEW p, NEW q, Same(p, q), NEW op
    PROVE  Legal(p, op) <=> Legal(q, op)
<1>1. p.tree = q.tree
  BY DEF Same
<1>2. Present(p, op.cmp) <=> Present(q, op.cmp)
  BY SameSpots
<1> QED BY <1>1, <1>2, Zenon DEF Legal

\* Lists that are alike stay so when a component goes.
LEMMA SameWithout ==
    ASSUME NEW p, NEW q, Same(p, q), NEW c
    PROVE  Same(Without(p, c), Without(q, c))
<1>1. Spot(p, c) = Spot(q, c)
  BY SameSpots
<1> DEFINE s == Spot(q, c)
           L(ls) == [ls EXCEPT ![s[1]] = Keep(@, DOMAIN @ \ {s[2]})]
<1>2. /\ Without(p, c) = [p EXCEPT !.lists = L(p.lists)]
      /\ Without(q, c) = [q EXCEPT !.lists = L(q.lists)]
  BY <1>1, Zenon DEF Without
<1> HIDE DEF L
<1>3. L(p.lists) = L(q.lists)
  BY Zenon DEF Same
<1> QED BY <1>2, <1>3 DEF Same, Shaped

\* Lists that are alike stay so when a component comes in last.
LEMMA SameWithLast ==
    ASSUME NEW p, NEW q, Same(p, q), NEW r, NEW c
    PROVE  Same(WithLast(p, r, c), WithLast(q, r, c))
<1> DEFINE L(ls) == [ls EXCEPT ![r] = Append(@, c)]
<1>1. /\ WithLast(p, r, c) = [p EXCEPT !.lists = L(p.lists)]
      /\ WithLast(q, r, c) = [q EXCEPT !.lists = L(q.lists)]
  BY Zenon DEF WithLast
<1> HIDE DEF L
<1>2. L(p.lists) = L(q.lists)
  BY Zenon DEF Same
<1> QED BY <1>1, <1>2 DEF Same, Shaped

\* An op has the same effect on the document.
LEMMA SameEffect ==
    ASSUME NEW p, NEW q, Same(p, q), NEW op \in Op
    PROVE  Same(Effect(p, op), Effect(q, op))
<1>1. op.op \in {"root", "page", "insert", "remove", "set", "move"}
  BY DEF Op
<1>2. CASE op.op = "root"
  BY <1>2 DEF Effect, Same, Shaped
<1>3. CASE op.op = "page"
  BY <1>3 DEF Effect, Same, Shaped
<1>4. CASE op.op = "insert"
  BY <1>4, SameWithLast DEF Effect
<1>5. CASE op.op = "remove"
  BY <1>5, SameWithout DEF Effect
<1>6. CASE op.op = "set"
  <2>1. Spot(p, op.cmp) = Spot(q, op.cmp)
    BY SameSpots
  <2> DEFINE s == Spot(q, op.cmp)
             L(ls) == [ls EXCEPT ![s[1]][s[2]].val = op.value]
  <2>2. /\ Effect(p, op) = [p EXCEPT !.lists[s[1]][s[2]].val = op.value]
        /\ Effect(q, op) = [q EXCEPT !.lists[s[1]][s[2]].val = op.value]
    BY <1>6, <2>1 DEF Effect
  <2>3. /\ Effect(p, op) = [p EXCEPT !.lists = L(p.lists)]
        /\ Effect(q, op) = [q EXCEPT !.lists = L(q.lists)]
    BY <2>2, Zenon
  <2> HIDE DEF L
  <2>4. L(p.lists) = L(q.lists)
    BY Zenon DEF Same
  <2> QED BY <2>3, <2>4 DEF Same, Shaped
<1>7. CASE op.op = "move"
  <2>1. Spot(p, op.cmp) = Spot(q, op.cmp)
    BY SameSpots
  <2> DEFINE r == IF op.region = NoRegion THEN Spot(q, op.cmp)[1] ELSE op.region
             c == [id |-> op.cmp, val |-> op.value]
  <2>2. /\ Effect(p, op) = WithLast(Without(p, op.cmp), r, c)
        /\ Effect(q, op) = WithLast(Without(q, op.cmp), r, c)
    BY <1>7, <2>1 DEF Effect
  <2> QED BY <2>2, SameWithout, SameWithLast
<1> QED BY <1>1, <1>2, <1>3, <1>4, <1>5, <1>6, <1>7

\* So a batch does the same to both, op by op.
LEMMA SameStages ==
    ASSUME NEW p, NEW q, Same(p, q), NEW ops \in Seq(Op)
    PROVE  \A i \in 0 .. Len(ops) : Same(Stages(p, ops)[i], Stages(q, ops)[i])
<1> DEFINE f == Stages(p, ops)
           g == Stages(q, ops)
           n == Len(ops)
           T == {k \in 0 .. n : ~Same(f[k], g[k])}
<1>1. Staged(p, ops, n, f) /\ Staged(q, ops, n, g) /\ n \in Nat
  BY StagesAre
<1> HIDE DEF f, g
<1>2. \A k \in 0 .. n : /\ f[k] = IF k = 0 THEN p
                                 ELSE IF Legal(f[k - 1], ops[k]) THEN Effect(f[k - 1], ops[k])
                                 ELSE f[k - 1]
                        /\ g[k] = IF k = 0 THEN q
                                 ELSE IF Legal(g[k - 1], ops[k]) THEN Effect(g[k - 1], ops[k])
                                 ELSE g[k - 1]
  BY <1>1, Zenon DEF Staged
<1>3. SUFFICES ASSUME T # {} PROVE FALSE
  BY DEF f, g
<1>4. PICK k \in T : \A j \in T : k <= j
  <2>1. T \in SUBSET Nat
    BY <1>1
  <2> QED BY <1>3, <2>1, LeastMember
<1>5. k \in 1 .. n /\ k - 1 \in 0 .. n
  BY <1>1, <1>2, <1>4
<1>6. Same(f[k - 1], g[k - 1]) /\ ops[k] \in Op
  BY <1>1, <1>4, <1>5
<1>7. Legal(f[k - 1], ops[k]) <=> Legal(g[k - 1], ops[k])
  BY <1>6, SameLegal
<1>8. Same(Effect(f[k - 1], ops[k]), Effect(g[k - 1], ops[k]))
  BY <1>6, SameEffect
<1>9. Same(f[k], g[k])
  BY <1>2, <1>5, <1>6, <1>7, <1>8
<1> QED BY <1>4, <1>9

\* A batch is refused on both pages or makes the same document of both.
LEMMA SameBatch ==
    ASSUME NEW p, NEW q, Same(p, q), NEW ops \in Seq(Op)
    PROVE  (Invalid(p, ops) <=> Invalid(q, ops)) /\ Same(After(p, ops), After(q, ops))
<1>1. Len(ops) \in Nat /\ DOMAIN ops = 1 .. Len(ops)
  OBVIOUS
<1>2. \A i \in 0 .. Len(ops) : Same(Stages(p, ops)[i], Stages(q, ops)[i])
  BY SameStages
<1>3. \A i \in DOMAIN ops : Legal(Stages(p, ops)[i - 1], ops[i]) <=> Legal(Stages(q, ops)[i - 1], ops[i])
  <2> TAKE i \in DOMAIN ops
  <2>1. i - 1 \in 0 .. Len(ops)
    BY <1>1
  <2> QED BY <1>2, <2>1, SameLegal
<1>4. Invalid(p, ops) <=> Invalid(q, ops)
  BY <1>3, Zenon DEF Invalid
<1> QED BY <1>1, <1>2, <1>4 DEF After

\* What the server makes of a page has the document that the ops make.
LEMMA AppliedIs ==
    ASSUME NEW p, Same(p, p), NEW ops \in Seq(Op)
    PROVE  /\ Same(Applied(p, ops), After(p, ops))
           /\ Applied(p, ops).version = p.version + 1
           /\ \A k \in Keys : Applied(p, ops).ev[k] = IF k \in Touched(ops) THEN p.version + 1 ELSE p.ev[k]
<1>1. Same(After(p, ops), After(p, ops))
  BY SameBatch
<1> DEFINE v == p.version + 1
           e == [k \in Keys |-> IF k \in Touched(ops) THEN v ELSE p.ev[k]]
<1>2. Applied(p, ops) = [After(p, ops) EXCEPT !.version = v, !.ev = e]
  BY DEF Applied, After
<1> HIDE DEF v, e
<1>3. /\ Same(Applied(p, ops), After(p, ops))
      /\ Applied(p, ops).version = v /\ Applied(p, ops).ev = e
  BY <1>1, <1>2 DEF Same, Shaped
<1> QED BY <1>3, Zenon DEF v, e

-----------------------------------------------------------------------------
(* Components keep their ids *)

\* No two components of a page have one id.
DistinctIds(p) ==
    \A r, t \in Regions :
        \A i \in DOMAIN p.lists[r], j \in DOMAIN p.lists[t] :
            p.lists[r][i].id = p.lists[t][j].id => r = t /\ i = j

\* The lists of q are those of p without what is at s; f says where each member was.
Thins(p, q, s, f) ==
    /\ \A r \in Regions : \A j \in DOMAIN q.lists[r] :
          /\ f[r][j] \in DOMAIN p.lists[r] /\ <<r, f[r][j]>> # s
          /\ q.lists[r][j] = p.lists[r][f[r][j]]
    /\ \A r \in Regions : \A i, j \in DOMAIN q.lists[r] : f[r][i] = f[r][j] => i = j
    /\ \A r \in Regions : \A k \in DOMAIN p.lists[r] :
          <<r, k>> # s => \E j \in DOMAIN q.lists[r] : f[r][j] = k

\* What an op that only changes lists leaves of a page.
SamePage(p, q) ==
    /\ q \in Page /\ q.tree = p.tree /\ q.fields = p.fields /\ q.ev = p.ev /\ q.version = p.version

\* Where a component is found.
LEMMA SpotFacts ==
    ASSUME NEW p, NEW c, Present(p, c)
    PROVE  \E r \in Regions : \E i \in DOMAIN p.lists[r] :
              Spot(p, c) = <<r, i>> /\ p.lists[r][i].id = c
<1>1. Spot(p, c) \in Spots(p, c)
  BY DEF Present, Spot
<1> QED BY <1>1 DEF Spots

\* Other lists of a page.
LEMMA ListsFacts ==
    ASSUME NEW p \in Page, NEW L \in [Regions -> Seq(Component)]
    PROVE  SamePage(p, [p EXCEPT !.lists = L]) /\ [p EXCEPT !.lists = L].lists = L
BY DEF SamePage, Page

\* Taking a component out moves no other out of its region.
LEMMA WithoutFacts ==
    ASSUME NEW p \in Page, NEW c, Present(p, c)
    PROVE  /\ SamePage(p, Without(p, c))
           /\ \E f : Thins(p, Without(p, c), Spot(p, c), f)
<1>0. PICK r \in Regions : \E i \in DOMAIN p.lists[r] : Spot(p, c) = <<r, i>>
  BY SpotFacts
<1>1. PICK i \in DOMAIN p.lists[r] : Spot(p, c) = <<r, i>>
  BY <1>0
<1> DEFINE l == p.lists[r]
           K == DOMAIN l \ {i}
           L == [p.lists EXCEPT ![r] = Keep(l, K)]
           q == Without(p, c)
           f == [t \in Regions |-> IF t = r THEN [j \in 1 .. Cardinality(K) |-> Nth(K, j)]
                                   ELSE [j \in DOMAIN p.lists[t] |-> j]]
<1>2. p.lists \in [Regions -> Seq(Component)] /\ l \in Seq(Component)
  BY DEF Page
<1>3. q = [p EXCEPT !.lists = L]
  BY <1>1 DEF Without
<1>4. K \in SUBSET (DOMAIN l)
  OBVIOUS
<1> HIDE DEF K, q, f
<1>5. /\ Keep(l, K) \in Seq(Component) /\ Len(Keep(l, K)) = Cardinality(K)
      /\ \A j \in 1 .. Cardinality(K) : Keep(l, K)[j] = l[Nth(K, j)]
  BY <1>2, <1>4, KeepSeq
<1>6. /\ \A j \in 1 .. Cardinality(K) : Nth(K, j) \in K
      /\ \A j, k \in 1 .. Cardinality(K) : j < k => Nth(K, j) < Nth(K, k)
      /\ \A k \in K : \E j \in 1 .. Cardinality(K) : Nth(K, j) = k
      /\ Cardinality(K) \in Nat
  BY <1>2, <1>4, KeepNth
<1>7. L \in [Regions -> Seq(Component)]
  BY <1>2, <1>5
<1>8. L[r] = Keep(l, K) /\ \A t \in Regions \ {r} : L[t] = p.lists[t]
  BY <1>2
<1> HIDE DEF L
<1>9. SamePage(p, q) /\ q.lists = L
  BY <1>3, <1>7, ListsFacts
<1>10. DOMAIN L[r] = 1 .. Cardinality(K)
  BY <1>5, <1>8
<1>11. /\ \A j \in DOMAIN L[r] : f[r][j] = Nth(K, j)
       /\ \A t \in Regions \ {r} : \A j \in DOMAIN L[t] : f[t][j] = j
  BY <1>8, <1>10 DEF f
<1>12. \A j \in DOMAIN L[r] : Nth(K, j) \in DOMAIN l /\ Nth(K, j) # i /\ Nth(K, j) \in Int
  <2>1. DOMAIN l \subseteq Int
    BY <1>2
  <2> QED BY <1>6, <1>10, <2>1 DEF K
<1>13. \A j, k \in DOMAIN L[r] : Nth(K, j) = Nth(K, k) => j = k
  BY <1>6, <1>10, <1>12
<1>14. \A k \in DOMAIN l : k # i => \E j \in DOMAIN L[r] : Nth(K, j) = k
  BY <1>6, <1>10 DEF K
<1>15. Thins(p, q, <<r, i>>, f)
  <2>1. ASSUME NEW t \in Regions, NEW j \in DOMAIN L[t]
        PROVE  /\ f[t][j] \in DOMAIN p.lists[t] /\ <<t, f[t][j]>> # <<r, i>>
               /\ L[t][j] = p.lists[t][f[t][j]]
    <3>1. CASE t = r
      BY <1>5, <1>8, <1>10, <1>11, <1>12, <2>1, <3>1
    <3>2. CASE t # r
      BY <1>8, <1>11, <2>1, <3>2
    <3> QED BY <3>1, <3>2
  <2>2. ASSUME NEW t \in Regions, NEW j \in DOMAIN L[t], NEW k \in DOMAIN L[t], f[t][j] = f[t][k]
        PROVE  j = k
    <3>1. CASE t = r
      BY <1>11, <1>13, <2>2, <3>1
    <3>2. CASE t # r
      BY <1>11, <2>2, <3>2
    <3> QED BY <3>1, <3>2
  <2>3. ASSUME NEW t \in Regions, NEW k \in DOMAIN p.lists[t], <<t, k>> # <<r, i>>
        PROVE  \E j \in DOMAIN L[t] : f[t][j] = k
    <3>1. CASE t = r
      BY <1>11, <1>14, <2>3, <3>1
    <3>2. CASE t # r
      BY <1>8, <1>11, <2>3, <3>2
    <3> QED BY <3>1, <3>2
  <2> QED BY <1>9, <2>1, <2>2, <2>3 DEF Thins
<1> QED BY <1>1, <1>9, <1>15 DEF q

\* A component that goes, with ids distinct, is gone, and they stay distinct.
LEMMA WithoutIds ==
    ASSUME NEW p \in Page, NEW c, Present(p, c), DistinctIds(p)
    PROVE  DistinctIds(Without(p, c)) /\ ~Present(Without(p, c), c)
<1> DEFINE q == Without(p, c)
<1>0. PICK r \in Regions : \E i \in DOMAIN p.lists[r] : Spot(p, c) = <<r, i>> /\ p.lists[r][i].id = c
  BY SpotFacts
<1>1. PICK i \in DOMAIN p.lists[r] : Spot(p, c) = <<r, i>> /\ p.lists[r][i].id = c
  BY <1>0
<1>2. PICK f : Thins(p, q, <<r, i>>, f)
  BY <1>1, WithoutFacts
<1> HIDE DEF q
<1>3. DistinctIds(q)
  <2> SUFFICES ASSUME NEW t \in Regions, NEW u \in Regions, NEW j \in DOMAIN q.lists[t],
                      NEW k \in DOMAIN q.lists[u], q.lists[t][j].id = q.lists[u][k].id
               PROVE  t = u /\ j = k
    BY DEF DistinctIds
  <2>1. /\ f[t][j] \in DOMAIN p.lists[t] /\ q.lists[t][j] = p.lists[t][f[t][j]]
        /\ f[u][k] \in DOMAIN p.lists[u] /\ q.lists[u][k] = p.lists[u][f[u][k]]
    BY <1>2 DEF Thins
  <2>2. t = u /\ f[t][j] = f[u][k]
    BY <2>1 DEF DistinctIds
  <2> QED BY <1>2, <2>2 DEF Thins
<1>4. ASSUME NEW t \in Regions, NEW j \in DOMAIN q.lists[t], q.lists[t][j].id = c PROVE FALSE
  <2>1. f[t][j] \in DOMAIN p.lists[t] /\ <<t, f[t][j]>> # <<r, i>> /\ q.lists[t][j] = p.lists[t][f[t][j]]
    BY <1>2 DEF Thins
  <2> QED BY <1>1, <1>4, <2>1 DEF DistinctIds
<1>5. ~Present(q, c)
  BY <1>4 DEF Present, Spots
<1> QED BY <1>3, <1>5 DEF q

\* What is seen of a component: each copy of it, with the region it is in.
Looks(p, k) == {<<s[1], p.lists[s[1]][s[2]].val>> : s \in Spots(p, k)}

\* One copy, by where it is.
LEMMA LooksAre ==
    ASSUME NEW p, NEW k, NEW x
    PROVE  x \in Looks(p, k) <=> \E r \in Regions : \E i \in DOMAIN p.lists[r] :
                                   p.lists[r][i].id = k /\ x = <<r, p.lists[r][i].val>>
<1>1. ASSUME NEW r \in Regions, NEW i \in DOMAIN p.lists[r], p.lists[r][i].id = k
      PROVE  <<r, p.lists[r][i].val>> \in Looks(p, k)
  <2>1. <<r, i>> \in Spots(p, k)
    BY <1>1 DEF Spots
  <2> QED BY <2>1 DEF Looks
<1>2. ASSUME x \in Looks(p, k)
      PROVE  \E r \in Regions : \E i \in DOMAIN p.lists[r] :
                p.lists[r][i].id = k /\ x = <<r, p.lists[r][i].val>>
  <2>1. PICK s \in Spots(p, k) : x = <<s[1], p.lists[s[1]][s[2]].val>>
    BY <1>2 DEF Looks
  <2>2. s[1] \in Regions /\ s[2] \in DOMAIN p.lists[s[1]] /\ p.lists[s[1]][s[2]].id = k
    BY DEF Spots
  <2> QED BY <2>1, <2>2
<1> QED BY <1>1, <1>2

\* A component taken out changes the looks of no other.
LEMMA WithoutLooks ==
    ASSUME NEW p \in Page, NEW c, Present(p, c), NEW k, k # c
    PROVE  Looks(Without(p, c), k) = Looks(p, k)
<1> DEFINE q == Without(p, c)
<1>0. PICK r \in Regions : \E i \in DOMAIN p.lists[r] : Spot(p, c) = <<r, i>> /\ p.lists[r][i].id = c
  BY SpotFacts
<1>1. PICK i \in DOMAIN p.lists[r] : Spot(p, c) = <<r, i>> /\ p.lists[r][i].id = c
  BY <1>0
<1>2. PICK f : Thins(p, q, <<r, i>>, f)
  BY <1>1, WithoutFacts
<1> HIDE DEF q
<1>3. ASSUME NEW x, x \in Looks(q, k) PROVE x \in Looks(p, k)
  <2>0. PICK t \in Regions : \E j \in DOMAIN q.lists[t] : q.lists[t][j].id = k /\ x = <<t, q.lists[t][j].val>>
    BY <1>3, LooksAre
  <2>1. PICK j \in DOMAIN q.lists[t] : q.lists[t][j].id = k /\ x = <<t, q.lists[t][j].val>>
    BY <2>0
  <2>2. f[t][j] \in DOMAIN p.lists[t] /\ q.lists[t][j] = p.lists[t][f[t][j]]
    BY <1>2 DEF Thins
  <2> QED BY <2>1, <2>2, LooksAre
<1>4. ASSUME NEW x, x \in Looks(p, k) PROVE x \in Looks(q, k)
  <2>0. PICK t \in Regions : \E h \in DOMAIN p.lists[t] : p.lists[t][h].id = k /\ x = <<t, p.lists[t][h].val>>
    BY <1>4, LooksAre
  <2>1. PICK h \in DOMAIN p.lists[t] : p.lists[t][h].id = k /\ x = <<t, p.lists[t][h].val>>
    BY <2>0
  <2>2. <<t, h>> # <<r, i>>
    BY <1>1, <2>1
  <2>3. PICK j \in DOMAIN q.lists[t] : f[t][j] = h
    BY <1>2, <2>2 DEF Thins
  <2>4. q.lists[t][j] = p.lists[t][h]
    BY <1>2, <2>3 DEF Thins
  <2> QED BY <2>1, <2>3, <2>4, LooksAre
<1> QED BY <1>3, <1>4 DEF q

\* The lists of q are those of p with c behind the list of r.
Gains(p, q, r, c, n) ==
    /\ \A t \in Regions \ {r} : q.lists[t] = p.lists[t]
    /\ DOMAIN q.lists[r] = DOMAIN p.lists[r] \cup {n} /\ n \notin DOMAIN p.lists[r]
    /\ q.lists[r][n] = c /\ \A i \in DOMAIN p.lists[r] : q.lists[r][i] = p.lists[r][i]

\* A component put last in a region moves no other.
LEMMA WithLastFacts ==
    ASSUME NEW p \in Page, NEW r \in Regions, NEW c \in Component
    PROVE  /\ SamePage(p, WithLast(p, r, c))
           /\ \E n : Gains(p, WithLast(p, r, c), r, c, n)
<1> DEFINE l == p.lists[r]
           L == [p.lists EXCEPT ![r] = Append(l, c)]
           q == WithLast(p, r, c)
           n == Len(l) + 1
<1>1. p.lists \in [Regions -> Seq(Component)] /\ l \in Seq(Component)
  BY DEF Page
<1>2. /\ Append(l, c) \in Seq(Component) /\ DOMAIN Append(l, c) = DOMAIN l \cup {n} /\ n \notin DOMAIN l
      /\ Append(l, c)[n] = c /\ \A i \in DOMAIN l : Append(l, c)[i] = l[i]
  BY <1>1
<1>3. q = [p EXCEPT !.lists = L]
  BY DEF WithLast
<1>4. L \in [Regions -> Seq(Component)] /\ L[r] = Append(l, c) /\ \A t \in Regions \ {r} : L[t] = p.lists[t]
  BY <1>1, <1>2
<1> HIDE DEF L, q, n
<1>5. SamePage(p, q) /\ q.lists = L
  BY <1>3, <1>4, ListsFacts
<1>6. Gains(p, q, r, c, n)
  BY <1>2, <1>4, <1>5 DEF Gains
<1> QED BY <1>5, <1>6 DEF q

\* Ids stay distinct when a new one comes.
LEMMA WithLastIds ==
    ASSUME NEW p \in Page, NEW r \in Regions, NEW c \in Component, DistinctIds(p), ~Present(p, c.id)
    PROVE  DistinctIds(WithLast(p, r, c))
<1> DEFINE q == WithLast(p, r, c)
<1>1. PICK n : Gains(p, q, r, c, n)
  BY WithLastFacts
<1> HIDE DEF q
<1>2. ASSUME NEW t \in Regions, NEW i \in DOMAIN p.lists[t] PROVE p.lists[t][i].id # c.id
  <2>1. <<t, i>> \notin Spots(p, c.id)
    BY DEF Present
  <2> QED BY <2>1 DEF Spots
<1>3. ASSUME NEW t \in Regions, NEW j \in DOMAIN q.lists[t]
      PROVE  \/ t = r /\ j = n /\ q.lists[t][j] = c
             \/ j \in DOMAIN p.lists[t] /\ q.lists[t][j] = p.lists[t][j]
  BY <1>1 DEF Gains
<1>4. DistinctIds(q)
  <2> SUFFICES ASSUME NEW t \in Regions, NEW u \in Regions, NEW j \in DOMAIN q.lists[t],
                      NEW k \in DOMAIN q.lists[u], q.lists[t][j].id = q.lists[u][k].id
               PROVE  t = u /\ j = k
    BY DEF DistinctIds
  <2>1. CASE j \in DOMAIN p.lists[t] /\ q.lists[t][j] = p.lists[t][j]
             /\ k \in DOMAIN p.lists[u] /\ q.lists[u][k] = p.lists[u][k]
    BY <2>1 DEF DistinctIds
  <2> QED BY <1>2, <1>3, <2>1
<1> QED BY <1>4 DEF q

\* A component put last changes the looks of no other.
LEMMA WithLastLooks ==
    ASSUME NEW p \in Page, NEW r \in Regions, NEW c \in Component, NEW k, k # c.id
    PROVE  Looks(WithLast(p, r, c), k) = Looks(p, k)
<1> DEFINE q == WithLast(p, r, c)
<1>1. PICK n : Gains(p, q, r, c, n)
  BY WithLastFacts
<1> HIDE DEF q
<1>2. ASSUME NEW t \in Regions, NEW j \in DOMAIN q.lists[t], q.lists[t][j].id = k
      PROVE  j \in DOMAIN p.lists[t] /\ q.lists[t][j] = p.lists[t][j]
  BY <1>1, <1>2 DEF Gains
<1>3. ASSUME NEW t \in Regions, NEW j \in DOMAIN p.lists[t]
      PROVE  j \in DOMAIN q.lists[t] /\ q.lists[t][j] = p.lists[t][j]
  BY <1>1 DEF Gains
<1>4. ASSUME NEW x PROVE x \in Looks(q, k) <=> x \in Looks(p, k)
  BY <1>2, <1>3, LooksAre
<1> QED BY <1>4 DEF q

\* The page after a set on component c.
Edited(p, c, v) == LET s == Spot(p, c) IN [p EXCEPT !.lists[s[1]][s[2]].val = v]

\* A set moves nothing and changes one component.
LEMMA EditedFacts ==
    ASSUME NEW p \in Page, NEW c, Present(p, c), NEW v \in Values
    PROVE  /\ SamePage(p, Edited(p, c, v))
           /\ \A r \in Regions :
                 /\ DOMAIN Edited(p, c, v).lists[r] = DOMAIN p.lists[r]
                 /\ \A i \in DOMAIN p.lists[r] :
                       /\ Edited(p, c, v).lists[r][i].id = p.lists[r][i].id
                       /\ p.lists[r][i].id # c => Edited(p, c, v).lists[r][i] = p.lists[r][i]
<1>0. PICK r \in Regions : \E i \in DOMAIN p.lists[r] : Spot(p, c) = <<r, i>> /\ p.lists[r][i].id = c
  BY SpotFacts
<1>1. PICK i \in DOMAIN p.lists[r] : Spot(p, c) = <<r, i>> /\ p.lists[r][i].id = c
  BY <1>0
<1> DEFINE l == p.lists[r]
           d == [l[i] EXCEPT !.val = v]
           m == [l EXCEPT ![i] = d]
           L == [p.lists EXCEPT ![r] = m]
           q == Edited(p, c, v)
<1>2. p.lists \in [Regions -> Seq(Component)] /\ l \in Seq(Component) /\ i \in 1 .. Len(l)
  BY DEF Page
<1>3. l[i] \in Component
  BY <1>2
<1>4. d \in Component /\ d.id = l[i].id
  BY <1>3 DEF Component
<1>5. q = [p EXCEPT !.lists = L]
  BY <1>1 DEF Edited
<1> HIDE DEF d
<1>6. m \in Seq(Component) /\ DOMAIN m = DOMAIN l /\ \A j \in DOMAIN l : m[j] = IF j = i THEN d ELSE l[j]
  BY <1>2, <1>4
<1> HIDE DEF m
<1>7. L \in [Regions -> Seq(Component)] /\ L[r] = m /\ \A t \in Regions \ {r} : L[t] = p.lists[t]
  BY <1>2, <1>6
<1> HIDE DEF L, q
<1>8. SamePage(p, q) /\ q.lists = L
  BY <1>5, <1>7, ListsFacts
<1>9. ASSUME NEW t \in Regions
      PROVE  /\ DOMAIN q.lists[t] = DOMAIN p.lists[t]
             /\ \A j \in DOMAIN p.lists[t] :
                   /\ q.lists[t][j].id = p.lists[t][j].id
                   /\ p.lists[t][j].id # c => q.lists[t][j] = p.lists[t][j]
  <2>1. CASE t = r
    BY <1>1, <1>4, <1>6, <1>7, <1>8, <2>1
  <2>2. CASE t # r
    BY <1>7, <1>8, <2>2
  <2> QED BY <2>1, <2>2
<1> QED BY <1>8, <1>9 DEF q

\* Ids stay where they are, and the looks of the others with them.
LEMMA EditedIds ==
    ASSUME NEW p \in Page, NEW c, Present(p, c), NEW v \in Values
    PROVE  /\ DistinctIds(p) => DistinctIds(Edited(p, c, v))
           /\ \A k : k # c => Looks(Edited(p, c, v), k) = Looks(p, k)
<1> DEFINE q == Edited(p, c, v)
<1>1. \A r \in Regions :
         /\ DOMAIN q.lists[r] = DOMAIN p.lists[r]
         /\ \A i \in DOMAIN p.lists[r] :
               /\ q.lists[r][i].id = p.lists[r][i].id
               /\ p.lists[r][i].id # c => q.lists[r][i] = p.lists[r][i]
  BY EditedFacts
<1> HIDE DEF q
<1>2. DistinctIds(p) => DistinctIds(q)
  BY <1>1 DEF DistinctIds
<1>3. ASSUME NEW k, k # c PROVE Looks(q, k) = Looks(p, k)
  <2>1. ASSUME NEW x PROVE x \in Looks(q, k) <=> x \in Looks(p, k)
    BY <1>1, <1>3, LooksAre
  <2> QED BY <2>1
<1> QED BY <1>2, <1>3 DEF q

-----------------------------------------------------------------------------
(* What a batch leaves alone *)

\* A page whose ids are distinct.
Sound(p) == p \in Page /\ DistinctIds(p)

\* A legal op leaves a sound page, and everything that it is not about.
LEMMA EffectFacts ==
    ASSUME NEW p, NEW op \in Op, Sound(p), Legal(p, op)
    PROVE  /\ Sound(Effect(p, op)) /\ Effect(p, op).ev = p.ev /\ Effect(p, op).version = p.version
           /\ op.op # "page" => Effect(p, op).fields = p.fields
           /\ op.op # "root" => Effect(p, op).tree = p.tree
           /\ \A k : op.op \in {"page", "root"} \/ k # op.cmp => Looks(Effect(p, op), k) = Looks(p, k)
<1>0. p \in Page /\ DistinctIds(p)
  BY DEF Sound
<1>1. op.op \in {"root", "page", "insert", "remove", "set", "move"}
  BY DEF Op
<1> DEFINE q == Effect(p, op)
<1>2. CASE op.op = "root"
  <2>1. q = [p EXCEPT !.tree = op.tree] /\ op.tree \in SUBSET Regions
    BY <1>2 DEF Effect, Op
  <2> HIDE DEF q
  <2>2. /\ q \in Page /\ q.lists = p.lists /\ q.ev = p.ev /\ q.version = p.version /\ q.fields = p.fields
    BY <1>0, <2>1 DEF Page
  <2>3. DistinctIds(q) /\ \A k : Looks(q, k) = Looks(p, k)
    BY <1>0, <2>2 DEF DistinctIds, Looks, Spots
  <2> QED BY <1>2, <2>2, <2>3 DEF Sound, q
<1>3. CASE op.op = "page"
  <2>1. q = [p EXCEPT !.fields = op.value] /\ op.value \in Values
    BY <1>3 DEF Effect, Op
  <2> HIDE DEF q
  <2>2. /\ q \in Page /\ q.lists = p.lists /\ q.ev = p.ev /\ q.version = p.version /\ q.tree = p.tree
    BY <1>0, <2>1 DEF Page
  <2>3. DistinctIds(q) /\ \A k : Looks(q, k) = Looks(p, k)
    BY <1>0, <2>2 DEF DistinctIds, Looks, Spots
  <2> QED BY <1>3, <2>2, <2>3 DEF Sound, q
<1>4. CASE op.op = "insert"
  <2> DEFINE c == [id |-> op.cmp, val |-> op.value]
  <2>1. q = WithLast(p, op.region, c) /\ c \in Component /\ c.id = op.cmp
    BY <1>4 DEF Effect, Op, Component
  <2>2. op.region \in Regions /\ ~Present(p, op.cmp)
    BY <1>4 DEF Legal, Op
  <2> HIDE DEF q, c
  <2>3. SamePage(p, q)
    BY <1>0, <2>1, <2>2, WithLastFacts
  <2>4. DistinctIds(q) /\ \A k : k # op.cmp => Looks(q, k) = Looks(p, k)
    BY <1>0, <2>1, <2>2, WithLastIds, WithLastLooks
  <2> QED BY <1>4, <2>3, <2>4 DEF Sound, SamePage, q
<1>5. CASE op.op = "remove"
  <2>1. q = Without(p, op.cmp) /\ Present(p, op.cmp)
    BY <1>5 DEF Effect, Legal
  <2> HIDE DEF q
  <2>2. SamePage(p, q)
    BY <1>0, <2>1, WithoutFacts
  <2>3. DistinctIds(q) /\ \A k : k # op.cmp => Looks(q, k) = Looks(p, k)
    BY <1>0, <2>1, WithoutIds, WithoutLooks
  <2> QED BY <1>5, <2>2, <2>3 DEF Sound, SamePage, q
<1>6. CASE op.op = "set"
  <2>1. q = Edited(p, op.cmp, op.value) /\ Present(p, op.cmp) /\ op.value \in Values
    BY <1>6 DEF Effect, Edited, Legal, Op
  <2> HIDE DEF q
  <2>2. SamePage(p, q)
    BY <1>0, <2>1, EditedFacts
  <2>3. DistinctIds(q) /\ \A k : k # op.cmp => Looks(q, k) = Looks(p, k)
    BY <1>0, <2>1, EditedIds
  <2> QED BY <1>6, <2>2, <2>3 DEF Sound, SamePage, q
<1>7. CASE op.op = "move"
  <2> DEFINE w == Without(p, op.cmp)
             c == [id |-> op.cmp, val |-> op.value]
             r == IF op.region = NoRegion THEN Spot(p, op.cmp)[1] ELSE op.region
  <2>1. q = WithLast(w, r, c) /\ c \in Component /\ c.id = op.cmp /\ Present(p, op.cmp)
    BY <1>7 DEF Effect, Op, Component, Legal
  <2>2. r \in Regions
    <3>1. op.region = NoRegion \/ op.region \in Regions
      BY <1>7 DEF Op
    <3>2. Spot(p, op.cmp)[1] \in Regions
      BY <2>1, SpotFacts
    <3> QED BY <3>1, <3>2
  <2> HIDE DEF q, w, c, r
  <2>3. SamePage(p, w) /\ DistinctIds(w) /\ ~Present(w, op.cmp) /\ \A k : k # op.cmp => Looks(w, k) = Looks(p, k)
    BY <1>0, <2>1, WithoutFacts, WithoutIds, WithoutLooks DEF w
  <2>4. w \in Page
    BY <2>3 DEF SamePage
  <2>5. SamePage(w, q)
    BY <2>1, <2>2, <2>4, WithLastFacts
  <2>6. DistinctIds(q) /\ \A k : k # op.cmp => Looks(q, k) = Looks(w, k)
    BY <2>1, <2>2, <2>3, <2>4, WithLastIds, WithLastLooks
  <2> QED BY <1>7, <2>3, <2>5, <2>6 DEF Sound, SamePage, q
<1> QED BY <1>1, <1>2, <1>3, <1>4, <1>5, <1>6, <1>7

\* What an op is not about looks as before.
LEMMA EffectContent ==
    ASSUME NEW p, NEW op \in Op, Sound(p), Legal(p, op), NEW k, k # KeyOf(op)
    PROVE  Content(Effect(p, op), k) = Content(p, k)
<1>1. \A q : Content(q, k) = IF k = PageKey THEN {q.fields} ELSE IF k = LayoutKey THEN {q.tree} ELSE Looks(q, k)
  BY DEF Content, Looks, PageKey, LayoutKey
<1>2. op.op = "page" => k # PageKey
  BY DEF KeyOf, PageKey, LayoutKey
<1>3. op.op = "root" => k # LayoutKey
  BY DEF KeyOf, PageKey, LayoutKey
<1>4. op.op \in {"page", "root"} \/ k # op.cmp
  BY DEF KeyOf
<1> QED BY <1>1, <1>2, <1>3, <1>4, EffectFacts

\* A sound page at the version the batch found, where what no op is about is as it was.
Stage(p, ops, q) ==
    /\ Sound(q) /\ q.ev = p.ev /\ q.version = p.version
    /\ \A k : k \notin Touched(ops) => Content(q, k) = Content(p, k)

\* So it is with every stage of a batch, however many ops it has.
LEMMA StagesFacts ==
    ASSUME NEW p, NEW ops \in Seq(Op), Sound(p), NEW i \in 0 .. Len(ops)
    PROVE  Stage(p, ops, Stages(p, ops)[i])
<1> DEFINE f == Stages(p, ops)
           n == Len(ops)
           T == {k \in 0 .. n : ~Stage(p, ops, f[k])}
<1>1. Staged(p, ops, n, f) /\ n \in Nat
  BY StagesAre
<1> HIDE DEF f
<1>2. \A k \in 0 .. n : f[k] = IF k = 0 THEN p
                               ELSE IF Legal(f[k - 1], ops[k]) THEN Effect(f[k - 1], ops[k])
                               ELSE f[k - 1]
  BY <1>1, Zenon DEF Staged
<1>3. SUFFICES ASSUME T # {} PROVE FALSE
  BY DEF f
<1>4. PICK k \in T : \A j \in T : k <= j
  <2>1. T \in SUBSET Nat
    BY <1>1
  <2> QED BY <1>3, <2>1, LeastMember
<1>5. Stage(p, ops, p)
  BY DEF Stage
<1>6. k \in 1 .. n /\ k - 1 \in 0 .. n
  BY <1>1, <1>2, <1>4, <1>5
<1>7. Stage(p, ops, f[k - 1]) /\ ops[k] \in Op /\ KeyOf(ops[k]) \in Touched(ops)
  BY <1>1, <1>4, <1>6 DEF Touched
<1>8. ASSUME Legal(f[k - 1], ops[k]) PROVE Stage(p, ops, Effect(f[k - 1], ops[k]))
  <2>1. Sound(f[k - 1])
    BY <1>7 DEF Stage
  <2>2. \A x : x # KeyOf(ops[k]) => Content(Effect(f[k - 1], ops[k]), x) = Content(f[k - 1], x)
    BY <1>7, <1>8, <2>1, EffectContent
  <2>3. /\ Sound(Effect(f[k - 1], ops[k])) /\ Effect(f[k - 1], ops[k]).ev = f[k - 1].ev
        /\ Effect(f[k - 1], ops[k]).version = f[k - 1].version
    BY <1>7, <1>8, <2>1, EffectFacts
  <2> QED BY <1>7, <2>2, <2>3 DEF Stage
<1>9. Stage(p, ops, f[k])
  BY <1>2, <1>6, <1>7, <1>8
<1> QED BY <1>4, <1>9

\* An accepted batch: one version more, a stamp on all it is about, and the rest alone.
LEMMA AppliedFacts ==
    ASSUME NEW p, NEW ops \in Seq(Op), Sound(p)
    PROVE  LET q == Applied(p, ops)
           IN  /\ Sound(q) /\ q.version = p.version + 1
               /\ \A k \in Keys : q.ev[k] = IF k \in Touched(ops) THEN p.version + 1 ELSE p.ev[k]
               /\ \A k : k \notin Touched(ops) => Content(q, k) = Content(p, k)
<1> DEFINE s == Stages(p, ops)[Len(ops)]
           v == p.version + 1
           e == [k \in Keys |-> IF k \in Touched(ops) THEN v ELSE p.ev[k]]
           q == Applied(p, ops)
<1>1. Stage(p, ops, s)
  <2>1. Len(ops) \in 0 .. Len(ops)
    OBVIOUS
  <2> QED BY <2>1, StagesFacts
<1>2. q = [s EXCEPT !.version = v, !.ev = e]
  BY DEF Applied
<1> HIDE DEF s, q
<1>3. v \in Nat /\ e \in [Keys -> Nat]
  BY DEF Sound, Page
<1>4. \A k \in Keys : e[k] = IF k \in Touched(ops) THEN v ELSE p.ev[k]
  OBVIOUS
<1> HIDE DEF v, e
<1>5. /\ q \in Page /\ q.version = v /\ q.ev = e
      /\ q.tree = s.tree /\ q.fields = s.fields /\ q.lists = s.lists
  BY <1>1, <1>2, <1>3 DEF Stage, Sound, Page
<1>6. DistinctIds(q)
  BY <1>1, <1>5 DEF Stage, Sound, DistinctIds
<1>7. \A k : Content(q, k) = Content(s, k)
  BY <1>5 DEF Content, Spots
<1> QED BY <1>1, <1>4, <1>5, <1>6, <1>7 DEF Sound, Stage, q, v

=============================================================================
