-------------------------- MODULE ProjectVersions --------------------------
(* The versions of one project and their documents (projects.py,              *)
(* versioning.py, documents.py, storage.py): rows in the database, bytes in a *)
(* bucket, and requests that die between a step in one and a step in the      *)
(* other. Document <<v, f>> is version v's row, and key, of the file f.       *)
EXTENDS Naturals, FiniteSets, FiniteSetsExt, Functions

CONSTANTS Requests, Files, None,
          Keys,          \* the idempotency keys clients make up
          MaxVersions,   \* bound: versions ever made, the project included
          MaxDeaths      \* bound: requests that die

VARIABLES proj,     \* project rows: a version's number, its parent, the key it was made by, its lock
          doc,      \* document rows: "pending" or "uploaded"
          bytes,    \* objects in the bucket: "good", or "bad" where the upload is not what it says
          erased,   \* objects a delete or a rejection took
          home,     \* the version a file's upload was begun in (None: not begun)
          made,     \* how many versions were ever made
          tx,       \* the requests under way
          told,     \* <<source, key, version>>: what callers of create_project_version were answered
          deaths

vars == <<proj, doc, bytes, erased, home, made, tx, told, deaths>>
store == <<proj, doc, bytes, erased, home, made>>

Idle == [at |-> "idle"]
Step(p, t) == tx' = [tx EXCEPT ![p] = t]
End(p) == Step(p, Idle)
Begin(p, t) == tx[p] = Idle /\ Step(p, t) /\ UNCHANGED <<store, told, deaths>>
Writable(v) == v \in DOMAIN proj /\ ~proj[v].locked
Drop(f, S) == Restrict(f, DOMAIN f \ S)

(* f, and g where f says nothing.                                             *)
Over(f, g) == [x \in DOMAIN f \cup DOMAIN g |-> IF x \in DOMAIN f THEN f[x] ELSE g[x]]

-----------------------------------------------------------------------------
(* create_project_version.                                                    *)

(* version_for_key: a replay is answered with the version it made.            *)
Made(s, key) == {v \in DOMAIN proj : proj[v].parent = s /\ proj[v].key = key}

Copying(q) == tx[q].at \in {"new", "numbered", "inserted"}

CreateVersion(p, s, key, lock) ==
    /\ tx[p] = Idle /\ s \in DOMAIN proj
    /\ \/ \E v \in Made(s, key) : told' = told \cup {<<s, key, v>>} /\ UNCHANGED tx
       \/ /\ Made(s, key) = {} /\ made + Cardinality({q \in Requests : Copying(q)}) < MaxVersions
          /\ Step(p, [at |-> "new", s |-> s, key |-> key, lock |-> lock])
          /\ UNCHANGED told
    /\ UNCHANGED <<store, deaths>>

(* next_version_no.                                                           *)
Number(p) ==
    /\ tx[p].at = "new"
    /\ Step(p, [at |-> "numbered", s |-> tx[p].s, key |-> tx[p].key, lock |-> tx[p].lock,
                no |-> 1 + Max({0} \cup {proj[v].no : v \in DOMAIN proj})])
    /\ UNCHANGED <<store, told, deaths>>

\* Mutant: no unique index; the lookup alone recognises a retry.
NoTwin(p, q) == FALSE

Twin(p, q) == tx[q].at = "inserted" /\ tx[q].s = tx[p].s /\ tx[q].key = tx[p].key

(* The row is flushed before the children are read. The unique index on       *)
(* (parent, key) makes it wait for an uncommitted twin and fail beside a      *)
(* committed one; without its parent it fails too.                            *)
Insert(p) ==
    /\ tx[p].at = "numbered" /\ \A q \in Requests : ~Twin(p, q)
    /\ IF tx[p].s \in DOMAIN proj /\ Made(tx[p].s, tx[p].key) = {}
       THEN Step(p, [tx[p] EXCEPT !.at = "inserted"]) ELSE End(p)
    /\ UNCHANGED <<store, told, deaths>>

Uploaded(v) == {f \in Files : <<v, f>> \in DOMAIN doc /\ doc[<<v, f>>] = "uploaded"}

(* The commit: the version, its documents as pending rows, and the lock.      *)
CommitVersion(p) ==
    LET t == tx[p]  v == made + 1
    IN  /\ t.at = "inserted"
        /\ made' = v
        /\ proj' = Over([w \in {v} |-> [no |-> t.no, parent |-> t.s, key |-> t.key, locked |-> FALSE]],
                        [proj EXCEPT ![t.s].locked = @ \/ t.lock])
        /\ doc' = Over([d \in {v} \X Uploaded(t.s) |-> "pending"], doc)
        /\ Step(p, [at |-> "copying", s |-> t.s, key |-> t.key, v |-> v, work |-> Uploaded(t.s), copied |-> {}])
        /\ UNCHANGED <<bytes, erased, home, told, deaths>>

(* finish_document_copies: bytes first, a missing source object is skipped,   *)
(* and the rows whose bytes arrived are marked in one commit.                 *)
CopyObject(p, f) ==
    LET t == tx[p]  there == <<t.s, f>> \in DOMAIN bytes
    IN  /\ t.at = "copying" /\ f \in t.work
        /\ bytes' = IF there THEN Over([d \in {<<t.v, f>>} |-> bytes[<<t.s, f>>]], bytes) ELSE bytes
        /\ Step(p, [t EXCEPT !.work = @ \ {f}, !.copied = IF there THEN @ \cup {f} ELSE @])
        /\ UNCHANGED <<proj, doc, erased, home, made, told, deaths>>

\* Mutant: every row of the version is marked.
ArrivedAll(t) == {<<t.v, f>> : f \in Files} \cap DOMAIN doc

Arrived(t) == {<<t.v, f>> : f \in t.copied} \cap DOMAIN doc

FinishCopies(p) ==
    LET t == tx[p]
    IN  /\ t.at = "copying" /\ t.work = {}
        /\ doc' = Over([d \in Arrived(t) |-> "uploaded"], doc)
        /\ told' = IF t.v \in DOMAIN proj THEN told \cup {<<t.s, t.key, t.v>>} ELSE told
        /\ End(p) /\ UNCHANGED <<proj, bytes, erased, home, made, deaths>>

-----------------------------------------------------------------------------
(* Locks and deletion.                                                        *)

SetLock(v, locked) ==
    /\ v \in DOMAIN proj /\ proj[v].locked # locked
    /\ proj' = [proj EXCEPT ![v].locked = locked]
    /\ UNCHANGED <<doc, bytes, erased, made, home, tx, told, deaths>>

(* delete_project: document rows go with it, children lose their parent, and  *)
(* a child being inserted holds the row. The bytes stay.                      *)
DeleteProject(v) ==
    /\ Writable(v) /\ \A p \in Requests : ~(tx[p].at = "inserted" /\ tx[p].s = v)
    /\ proj' = [w \in DOMAIN proj \ {v} |-> IF proj[w].parent = v THEN [proj[w] EXCEPT !.parent = None] ELSE proj[w]]
    /\ doc' = Drop(doc, {v} \X Files)
    /\ UNCHANGED <<bytes, erased, made, home, tx, told, deaths>>

-----------------------------------------------------------------------------
(* Documents.                                                                 *)

CreateDocument(v, f) ==
    /\ Writable(v) /\ home[f] = None
    /\ doc' = Over([d \in {<<v, f>>} |-> "pending"], doc)
    /\ home' = [home EXCEPT ![f] = v]
    /\ UNCHANGED <<proj, bytes, erased, made, tx, told, deaths>>

(* The browser's PUT to the signed address, whatever became of the row.       *)
Put(f, content) ==
    /\ home[f] # None
    /\ bytes' = Over([d \in {<<home[f], f>>} |-> content], bytes)
    /\ UNCHANGED <<proj, doc, erased, home, made, tx, told, deaths>>

(* confirm_document: judges the object, then marks the row or removes both.   *)
ConfirmDocument(p, v, f) ==
    /\ Writable(v) /\ <<v, f>> \in DOMAIN doc /\ doc[<<v, f>>] = "pending" /\ <<v, f>> \in DOMAIN bytes
    /\ Begin(p, [at |-> "judged", d |-> <<v, f>>, verdict |-> bytes[<<v, f>>]])

Confirmed(p) ==
    /\ tx[p].at = "judged" /\ tx[p].verdict = "good"
    /\ doc' = IF tx[p].d \in DOMAIN doc THEN [doc EXCEPT ![tx[p].d] = "uploaded"] ELSE doc
    /\ End(p) /\ UNCHANGED <<proj, bytes, erased, home, made, told, deaths>>

DeleteDocument(p, v, f) ==
    /\ Writable(v) /\ <<v, f>> \in DOMAIN doc
    /\ Begin(p, [at |-> "judged", d |-> <<v, f>>, verdict |-> "deleted"])

(* delete_object first, for a deletion and for a rejection; then the row.     *)
EraseObject(p) ==
    /\ tx[p].at = "judged" /\ tx[p].verdict # "good"
    /\ bytes' = Drop(bytes, {tx[p].d}) /\ erased' = erased \cup {tx[p].d}
    /\ Step(p, [at |-> "erased", d |-> tx[p].d])
    /\ UNCHANGED <<proj, doc, home, made, told, deaths>>

DeleteRow(p) ==
    /\ tx[p].at = "erased"
    /\ doc' = Drop(doc, {tx[p].d})
    /\ End(p) /\ UNCHANGED <<proj, bytes, erased, home, made, told, deaths>>

-----------------------------------------------------------------------------
(* The process dies, or storage answers an error: what is not committed is    *)
(* undone, and nobody takes up the rest.                                      *)
Die(p) ==
    /\ tx[p] # Idle /\ deaths < MaxDeaths
    /\ deaths' = deaths + 1
    /\ End(p) /\ UNCHANGED <<store, told>>

Init ==
    /\ proj = [v \in {1} |-> [no |-> 1, parent |-> None, key |-> None, locked |-> FALSE]]
    /\ doc = [d \in {} |-> "pending"] /\ bytes = [d \in {} |-> "good"] /\ erased = {}
    /\ home = [f \in Files |-> None] /\ made = 1 /\ tx = [p \in Requests |-> Idle] /\ told = {} /\ deaths = 0

Proceed(p) ==
    \/ Number(p) \/ Insert(p) \/ CommitVersion(p) \/ FinishCopies(p) \/ \E f \in Files : CopyObject(p, f)
    \/ Confirmed(p) \/ EraseObject(p) \/ DeleteRow(p)

Next ==
    \/ \E p \in Requests :
          \/ Proceed(p) \/ Die(p)
          \/ \E v \in 1..MaxVersions :
                \/ \E key \in Keys, lock \in BOOLEAN : CreateVersion(p, v, key, lock)
                \/ \E f \in Files : ConfirmDocument(p, v, f) \/ DeleteDocument(p, v, f)
    \/ \E v \in 1..MaxVersions :
          \/ DeleteProject(v) \/ \E locked \in BOOLEAN : SetLock(v, locked)
          \/ \E f \in Files : CreateDocument(v, f)
    \/ \E f \in Files, content \in {"good", "bad"} : Put(f, content)

Spec == Init /\ [][Next]_vars
FairSpec == Spec /\ \A p \in Requests : WF_vars(Proceed(p))

-----------------------------------------------------------------------------
(* A row marked uploaded has its bytes, unless a delete took them: whatever   *)
(* requests die while documents are copied or confirmed, no row "would        *)
(* presign a download of an object nobody ever wrote" (versioning.py:440-442).*)
UploadedHasBytes == \A d \in DOMAIN doc : doc[d] = "uploaded" => d \in DOMAIN bytes \cup erased

(* However often and however close together a key is sent, the versions its   *)
(* callers are answered are one (projects.py:274-278).                        *)
RetriesAgree ==
    \A a, b \in told : a[1] = b[1] /\ a[2] = b[2] /\ {a[3], b[3]} \subseteq DOMAIN proj => a[3] = b[3]

(* No request waits for ever for another's uncommitted row.                   *)
EveryRequestEnds == \A p \in Requests : tx[p] # Idle ~> tx[p] = Idle

(* versioning.py:106-109: "every version reads as a distinct v-number".       *)
NumbersDiffer == \A v, w \in DOMAIN proj : proj[v].no = proj[w].no => v = w

(* projects.py:274: "payload.key makes this safe to retry". Once nothing is   *)
(* under way, a version somebody was answered has every document whose source *)
(* still has its bytes.                                                       *)
RetriedVersionIsWhole ==
    (\A p \in Requests : tx[p] = Idle) =>
        \A a \in told, f \in Files :
            (<<a[3], f>> \in DOMAIN doc /\ <<a[1], f>> \in DOMAIN bytes) => doc[<<a[3], f>>] = "uploaded"
=============================================================================
