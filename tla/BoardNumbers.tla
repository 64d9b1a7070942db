---------------------------- MODULE BoardNumbers ----------------------------
(* Boards and the numbers they give (board/service.py get_or_create_board,    *)
(* _next_seq). A project's board is created by the first request that looks   *)
(* for it, in the request's own transaction, and the rows created on it are   *)
(* numbered by a counter the board keeps. Several requests run at once, each  *)
(* a transaction under READ COMMITTED. The board a request has loaded is not  *)
(* read again when it is selected FOR UPDATE (an object the session holds     *)
(* keeps its attributes): the number is minted from the counter as first read.*)
EXTENDS Naturals

CONSTANTS Requests, Lineages,
          Keys,        \* 1..n: the keys derived from one name, in the order they are tried
          MaxSeq,      \* bound: numbers given on a board
          Erasing      \* lineages whose rows leave the table when deleted (feedback reports);
                       \* elsewhere a deleted row is stamped and keeps its number

ASSUME NumberAssumption == Keys \subseteq Nat \ {0} /\ MaxSeq \in Nat

VARIABLES board,   \* committed boards: key and counter
          rows,    \* the numbers of the rows in the table
          given,   \* every number given
          tx,      \* the requests under way
          answer   \* what each request was last answered

vars == <<board, rows, given, tx, answer>>

Idle == [at |-> "idle"]
Has(l, mine) == [at |-> "has", l |-> l, read |-> IF mine = 0 THEN board[l].seq ELSE 0, mine |-> mine]

UsedKeys == {board[l].key : l \in DOMAIN board}
Free(k) == k \in Keys \ UsedKeys /\ \A j \in Keys \ UsedKeys : k <= j
Step(p, t) == tx' = [tx EXCEPT ![p] = t]
End(p, what) == Step(p, Idle) /\ answer' = [answer EXCEPT ![p] = what]

(* A unique index makes an insert wait for uncommitted rows it may conflict   *)
(* with; FOR UPDATE and UPDATE wait for the requests that hold the row.       *)
InsertWaits(p, l, key) == \E q \in Requests \ {p} : tx[q].at \in {"has", "locked"} /\ tx[q].mine # 0
                                                      /\ (tx[q].l = l \/ tx[q].mine = key)
LockWaits(p, l) == \E q \in Requests \ {p} : tx[q].at = "locked" /\ tx[q].l = l

-----------------------------------------------------------------------------
Lookup(p, l) ==
    /\ tx[p] = Idle
    /\ Step(p, IF l \in DOMAIN board THEN Has(l, 0) ELSE [at |-> "missing", l |-> l])
    /\ answer' = [answer EXCEPT ![p] = "none"]
    /\ UNCHANGED <<board, rows, given>>

DeriveKey(p) ==
    /\ tx[p].at = "missing"
    /\ \E k \in Keys : Free(k) /\ Step(p, [at |-> "derived", l |-> tx[p].l, key |-> k])
    /\ UNCHANGED <<board, rows, given, answer>>

\* Mutant: the loser raises.
LostRaising(p) == End(p, "no board")

(* The insert inside a savepoint: it succeeds, or it loses to the lineage's   *)
(* board, which is selected instead, or to another lineage's key.             *)
Lost(p) ==
    \/ tx[p].l \in DOMAIN board /\ Step(p, Has(tx[p].l, 0)) /\ UNCHANGED answer
    \/ tx[p].l \notin DOMAIN board /\ End(p, "no board")

InsertBoard(p) ==
    LET t == tx[p]
    IN  /\ t.at = "derived" /\ ~InsertWaits(p, t.l, t.key)
        /\ IF t.l \in DOMAIN board \/ t.key \in UsedKeys THEN Lost(p)
           ELSE Step(p, Has(t.l, t.key)) /\ UNCHANGED answer
        /\ UNCHANGED <<board, rows, given>>

(* A GET, or a request refused later, ends without a commit.                  *)
EndRead(p) ==
    /\ tx[p].at = "has"
    /\ End(p, "read")
    /\ UNCHANGED <<board, rows, given>>

LockBoard(p) ==
    /\ tx[p].at = "has" /\ tx[p].read < MaxSeq /\ ~LockWaits(p, tx[p].l)
    /\ Step(p, [tx[p] EXCEPT !.at = "locked"])
    /\ UNCHANGED <<board, rows, given, answer>>

\* Mutant: the counter was committed before the row was refused.
RefusedKeeping(p, n) ==
    board' = [board EXCEPT ![tx[p].l].seq = n] /\ End(p, "number refused") /\ UNCHANGED <<rows, given>>

\* Mutant: the insert is tried again with the same number.
RefusedRetrying(p, n) == UNCHANGED vars

(* The unique constraint on (board, seq) refuses the row: all is rolled back. *)
Refused(p, n) == End(p, "number refused") /\ UNCHANGED <<board, rows, given>>

(* The number, the row and the commit.                                        *)
Create(p) ==
    LET t == tx[p]  n == t.read + 1
        key == IF t.mine = 0 THEN board[t.l].key ELSE t.mine
    IN  /\ t.at = "locked"
        /\ \/ n \in rows[t.l] /\ Refused(p, n)
           \/ /\ n \notin rows[t.l]
              /\ board' = [l \in DOMAIN board \cup {t.l} |->
                              IF l = t.l THEN [key |-> key, seq |-> n] ELSE board[l]]
              /\ rows' = [rows EXCEPT ![t.l] = @ \cup {n}]
              /\ given' = [given EXCEPT ![t.l] = @ \cup {n}]
              /\ End(p, "created")

Delete(l, n) ==
    /\ l \in Erasing /\ n \in rows[l]
    /\ rows' = [rows EXCEPT ![l] = @ \ {n}]
    /\ UNCHANGED <<board, given, tx, answer>>

(* set_board_key: the clash is looked for first, the constraint decides.      *)
CheckKey(p, key) ==
    /\ tx[p].at = "has" /\ tx[p].mine = 0 /\ key \notin UsedKeys
    /\ Step(p, [at |-> "renaming", l |-> tx[p].l, key |-> key])
    /\ UNCHANGED <<board, rows, given, answer>>

SetBoardKey(p) ==
    LET t == tx[p]
    IN  /\ t.at = "renaming" /\ ~LockWaits(p, t.l) /\ ~InsertWaits(p, t.l, t.key)
        /\ \/ \E l \in DOMAIN board \ {t.l} : board[l].key = t.key /\ End(p, "key refused") /\ UNCHANGED board
           \/ /\ \A l \in DOMAIN board \ {t.l} : board[l].key # t.key
              /\ board' = [board EXCEPT ![t.l].key = t.key]
              /\ End(p, "renamed")
        /\ UNCHANGED <<rows, given>>

-----------------------------------------------------------------------------
Init ==
    /\ board = [l \in {} |-> [key |-> 0, seq |-> 0]]
    /\ rows = [l \in Lineages |-> {}] /\ given = [l \in Lineages |-> {}]
    /\ tx = [p \in Requests |-> Idle] /\ answer = [p \in Requests |-> "none"]

Proceed(p) == DeriveKey(p) \/ InsertBoard(p) \/ EndRead(p) \/ LockBoard(p) \/ Create(p) \/ SetBoardKey(p)

Next ==
    \/ \E p \in Requests, l \in Lineages : Lookup(p, l)
    \/ \E p \in Requests : Proceed(p) \/ \E key \in Keys : CheckKey(p, key)
    \/ \E l \in Lineages, n \in 1..MaxSeq : Delete(l, n)

Spec == Init /\ [][Next]_vars

(* A request goes on, and the database wakes those that wait for a row in     *)
(* turn: none is passed over each time the row is let go.                     *)
Fair(p) == WF_vars(Proceed(p)) /\ SF_vars(InsertBoard(p)) /\ SF_vars(SetBoardKey(p))

FairSpec == Spec /\ \A p \in Requests : Fair(p)

-----------------------------------------------------------------------------
TypeOK ==
    /\ DOMAIN board \subseteq Lineages
    /\ \A l \in DOMAIN board : board[l] \in [key : Keys, seq : Nat]
    /\ rows \in [Lineages -> SUBSET (1..MaxSeq)] /\ given \in [Lineages -> SUBSET (1..MaxSeq)]

(* Rows that are only stamped when deleted have the numbers 1 to the counter: *)
(* none is given twice and none is left out, whatever the requests that raced *)
(* for them were answered, so the next create that runs alone gets a fresh    *)
(* one (service.py _next_seq, models.py uq_board_*_seq).                      *)
NumbersAreGapless ==
    \A l \in Lineages \ Erasing : given[l] = IF l \in DOMAIN board THEN 1..board[l].seq ELSE {}

(* Of a project's first requests, in parallel, none fails because another     *)
(* created the board: the loser "just re-selects the winner's row instead of  *)
(* raising" (service.py:53-58). It fails only if another project has the key. *)
LoserReselects ==
    [][\A p \in Requests : answer'[p] = "no board" /\ answer[p] # "no board" =>
          \E l \in DOMAIN board \ {tx[p].l} : board[l].key = tx[p].key]_vars

(* The inserts and row locks requests wait for each other on never leave one  *)
(* waiting for ever.                                                          *)
EveryRequestEnds == \A p \in Requests : tx[p] # Idle ~> tx[p] = Idle

(* "Mint the next per-board, per-entity-type human-id number under a row      *)
(* lock" (service.py:122): concurrent creates wait for each other, and none   *)
(* is refused a number.                                                       *)
NoNumberRefused == \A p \in Requests : answer[p] # "number refused"
=============================================================================
