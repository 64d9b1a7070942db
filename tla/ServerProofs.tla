---------------------------- MODULE ServerProofs ----------------------------
(***************************************************************************)
(* Proofs about the parts of the server that MCServer runs, modules Board  *)
(* and ProjectVersions, for any number of requests, requirements, sprints, *)
(* versions, files and keys.                                               *)
(***************************************************************************)
EXTENDS MCServer, TLAPS

-----------------------------------------------------------------------------
(* The work items of a board (Board).                                         *)
(*                                                                            *)
(* A request that has written a requirement keeps its row until it commits,   *)
(* and no other request holds that row: so a claim that found the row         *)
(* NotStarted still finds it so at its commit. What a request writes of a row *)
(* is only what differs from what it read, and sprint history, events and row *)
(* are written by the same commit. The bookkeeping no lock protects needs     *)
(* more: that what a request read of a row is still what the row holds, which *)
(* is so of the rows that no other request under way is about (Meetings).     *)

Fields == {"status", "sprint", "ranked", "from", "archived"}

\* A write of some fields of a row: a partial function from them.
IsWrite(sets) ==
    /\ DOMAIN sets \subseteq Fields
    /\ "status" \in DOMAIN sets => sets["status"] \in WorkStatuses
    /\ "sprint" \in DOMAIN sets => sets["sprint"] \in Sprints \cup {None}
    /\ "ranked" \in DOMAIN sets => sets["ranked"] \in Places
    /\ "from" \in DOMAIN sets => sets["from"] \in WorkStatuses \cup {None}
    /\ "archived" \in DOMAIN sets => sets["archived"] \in BOOLEAN

\* What each kind of request holds while it is under way.
IsPatch(t)   == t.at = "read" /\ t.op = "patch"
IsWritten(t) == t.at = "written"
IsCreate(t)  == t.at = "read" /\ t.op = "create"
IsArchive(t) == t.at = "read" /\ t.op = "archive"
IsEnd(t)     == t.at = "read" /\ t.op \in {"close", "delete"}
IsTriage(t)  == t.at = "read" /\ t.op = "triage"

\* R stands for the requirements that exist.
Holds(t, R) ==
    /\ t = Idle \/ IsPatch(t) \/ IsWritten(t) \/ IsCreate(t) \/ IsArchive(t) \/ IsEnd(t) \/ IsTriage(t)
    /\ IsPatch(t) => t.r \in R /\ t.seen \in Row /\ t.patch \in Patches
    /\ IsWritten(t) => /\ t.r \in R /\ IsWrite(t.sets) /\ t.claim \in BOOLEAN /\ t.follows \in BOOLEAN
                       /\ t.claim => t.sets = [status |-> "InProgress"]
                       /\ t.follows => t.r \in Raised
    /\ IsCreate(t) => t.r \in Reqs /\ t.status \in WorkStatuses /\ t.sprint \in Sprints \cup {None}
    /\ IsArchive(t) => t.r \in R /\ t.archived \in BOOLEAN
    /\ IsEnd(t) => /\ t.s \in Sprints /\ DOMAIN t.found \subseteq R
                   /\ \A r \in DOMAIN t.found : t.found[r] \in Row /\ t.found[r].sprint = t.s
    /\ IsTriage(t) => DOMAIN t.was = {"status", "stamped"}

RowsTyped ==
    /\ DOMAIN req \subseteq Reqs /\ req \in [DOMAIN req -> Row]
    /\ told \in [DOMAIN req -> WorkStatuses \cup {None}]
    /\ member \in [DOMAIN req -> Sprints \cup {None}]
    /\ wins \in [DOMAIN req -> Nat]
    /\ sprint \in [Sprints -> {"open", "closed", "deleted"}]
    /\ DOMAIN report = {"status", "stamped"} /\ report.stamped \in BOOLEAN

RequestsTyped ==
    /\ tx = [p \in Requests |-> tx[p]]
    /\ \A p \in Requests : Holds(tx[p], DOMAIN req)

\* No two requests hold one row.
OneHolder ==
    \A p, q \in Requests :
        IsWritten(tx[p]) /\ IsWritten(tx[q]) /\ tx[p].r = tx[q].r => p = q

\* A claim under way has found a requirement nobody has won, and holds it.
ClaimFound == \A p \in Requests : IsWritten(tx[p]) /\ tx[p].claim => req[tx[p].r].status = "NotStarted"

\* A requirement that has not started has not been won.
WonHasStarted == \A r \in DOMAIN req : /\ wins[r] <= 1
                                       /\ req[r].status = "NotStarted" => wins[r] = 0

RowsRight == RowsTyped /\ WonHasStarted /\ BurndownReadsTheRow
HeldRight == RequestsTyped /\ OneHolder /\ ClaimFound
LockInv   == RowsRight /\ HeldRight

-----------------------------------------------------------------------------
(* Requests and what they are about.                                       *)

\* One row as the bookkeeping should leave it, given the state of the sprints.
InOrder(row, sprints) ==
    /\ row["sprint"] # None => sprints[row["sprint"]] # "deleted"
    /\ row["ranked"] # Unranked => row["ranked"] = row["sprint"]
    /\ row["from"] # None => row["status"] = "Blocked"

\* What the request has read or decided still goes for the rows, but for those in m.
Fresh(t, reqs, sprints, rep, m) ==
    /\ IsPatch(t) /\ t.r \notin m =>
          /\ t.seen = reqs[t.r]
          /\ "sprint" \in DOMAIN t.patch /\ t.patch["sprint"] # None => sprints[t.patch["sprint"]] # "deleted"
    /\ IsWritten(t) => /\ t.r \notin m => InOrder(Over(t.sets, reqs[t.r]), sprints)
                       /\ None \notin m /\ t.follows => rep.status # "Resolved"
    /\ IsCreate(t) /\ t.r \notin m /\ t.sprint # None => sprints[t.sprint] # "deleted"
    /\ IsEnd(t) => /\ \A r \in DOMAIN t.found \ m : t.found[r] = reqs[r]
                   /\ t.op = "delete" => \A r \in DOMAIN reqs \ m : reqs[r].sprint = t.s => r \in DOMAIN t.found
    /\ IsTriage(t) /\ None \notin m => t.was = rep

\* Two requests under way have met in what both are about.
Meetings == \A p, q \in Requests : p # q => Both(tx[p], tx[q]) \subseteq met

AllFresh == \A p \in Requests : Fresh(tx[p], req, sprint, report, met)

RowsInOrder == (\A r \in DOMAIN req \ met : InOrder(req[r], sprint)) /\ (None \notin met => ResolvedIsStamped)

Apart == Meetings /\ AllFresh /\ RowsInOrder

IInv == LockInv /\ Apart

-----------------------------------------------------------------------------
(* Rows and writes.                                                        *)

\* A row with some fields written over it is a row, field by field.
LEMMA OverRow ==
    ASSUME NEW row \in Row, NEW sets, IsWrite(sets)
    PROVE  /\ Over(sets, row) \in Row
           /\ \A f \in Fields : Over(sets, row)[f] = IF f \in DOMAIN sets THEN sets[f] ELSE row[f]
<1>1. DOMAIN row = Fields
  BY DEF Row, Fields
<1>2. Over(sets, row) = [f \in Fields |-> IF f \in DOMAIN sets THEN sets[f] ELSE row[f]]
  <2>1. DOMAIN sets \cup DOMAIN row = Fields
    BY <1>1, Zenon DEF IsWrite
  <2> QED BY <2>1 DEF Over
<1>3. Over(sets, row) \in Row
  BY <1>2 DEF IsWrite, Row, Fields
<1> QED BY <1>2, <1>3

\* The fields that changed, or were given anew, are a write, which makes the old row the new one.
LEMMA ChangedWrite ==
    ASSUME NEW seen \in Row, NEW new \in Row, NEW anew \in SUBSET Fields
    PROVE  /\ IsWrite(Changed(seen, new, anew))
           /\ \A f \in Fields : f \in DOMAIN Changed(seen, new, anew) <=> new[f] # seen[f] \/ f \in anew
           /\ \A f \in DOMAIN Changed(seen, new, anew) : Changed(seen, new, anew)[f] = new[f]
           /\ Over(Changed(seen, new, anew), seen) = new
<1>1. DOMAIN new = Fields /\ DOMAIN seen = Fields
  BY DEF Row, Fields
<1>2. Changed(seen, new, anew) = [f \in {x \in Fields : new[x] # seen[x] \/ x \in anew} |-> new[f]]
  BY <1>1 DEF Changed
<1>3. IsWrite(Changed(seen, new, anew))
  BY <1>2 DEF IsWrite, Row, Fields
<1>4. Over(Changed(seen, new, anew), seen) = [f \in Fields |-> new[f]]
  <2>1. DOMAIN Changed(seen, new, anew) \cup DOMAIN seen = Fields
    BY <1>1, <1>2
  <2> QED BY <1>2, <2>1 DEF Over
<1>5. new = [f \in Fields |-> new[f]]
  BY DEF Row, Fields
<1> QED BY <1>2, <1>3, <1>4, <1>5

\* What a patch sets itself: a position is given where the requirement then is.
Sets(patch) == [f \in DOMAIN patch \ {"ranked"} |-> patch[f]]

\* A patch is a write of status or sprint, and perhaps of a position.
LEMMA PatchWrites ==
    ASSUME NEW patch \in Patches
    PROVE  /\ IsWrite(Sets(patch)) /\ DOMAIN Sets(patch) \subseteq {"status", "sprint"}
           /\ "sprint" \in DOMAIN patch => patch["sprint"] \in Sprints \cup {None}
           /\ "sprint" \in DOMAIN Sets(patch) <=> "sprint" \in DOMAIN patch
           /\ "sprint" \in DOMAIN patch => Sets(patch)["sprint"] = patch["sprint"]
<1>1. CASE patch \in [{"status"} -> Moves]
  BY <1>1, BoardAssumption DEF IsWrite, Fields, Sets
<1>2. CASE patch \in [{"sprint"} -> Sprints \cup {None}]
  BY <1>2 DEF IsWrite, Fields, Sets
<1>3. CASE patch \in [{"ranked"} -> {TRUE}]
  <2>1. DOMAIN patch = {"ranked"}
    BY <1>3
  <2> QED BY <2>1 DEF IsWrite, Fields, Sets
<1>4. CASE patch \in {[sprint |-> x, ranked |-> TRUE] : x \in Sprints}
  <2>1. PICK x \in Sprints : patch = [sprint |-> x, ranked |-> TRUE]
    BY <1>4
  <2>2. DOMAIN patch = {"sprint", "ranked"} /\ patch["sprint"] = x
    BY <2>1
  <2>3. DOMAIN Sets(patch) = {"sprint"} /\ Sets(patch)["sprint"] = x
    BY <2>2 DEF Sets
  <2> QED BY <2>2, <2>3 DEF IsWrite, Fields
<1> QED BY <1>1, <1>2, <1>3, <1>4, Zenon DEF Patches

\* What a patch leaves of a row, in three stages.
Restarted(row, patch) ==
    LET sent == Over(Sets(patch), row)
        entering == "sprint" \in DOMAIN patch /\ patch.sprint \notin {None, row.sprint}
    IN  IF entering /\ row.status # "Done" /\ sent.status # "Done" THEN [sent EXCEPT !.status = "NotStarted"] ELSE sent

Placed(row, patch) ==
    [Restarted(row, patch) EXCEPT
        !.ranked = IF "ranked" \in DOMAIN patch THEN Restarted(row, patch).sprint
                   ELSE IF Restarted(row, patch).sprint # row.sprint THEN Unranked ELSE @]

\* The stages are rows, in the sprint the patch names.
LEMMA PatchStages ==
    ASSUME NEW row \in Row, NEW patch \in Patches
    PROVE  /\ Placed(row, patch) \in Row /\ Patched(row, patch) \in Row
           /\ Placed(row, patch).sprint = IF "sprint" \in DOMAIN patch THEN patch["sprint"] ELSE row.sprint
           /\ Placed(row, patch).from = row.from
           /\ \/ Placed(row, patch).ranked \in {Placed(row, patch).sprint, Unranked}
              \/ Placed(row, patch).ranked = row.ranked /\ Placed(row, patch).sprint = row.sprint
           /\ Patched(row, patch) =
                  IF Placed(row, patch).status = row.status THEN Placed(row, patch)
                  ELSE [Placed(row, patch) EXCEPT !.from = IF Placed(row, patch).status = "Blocked" THEN row.status ELSE None]
<1> DEFINE sent == Over(Sets(patch), row)
           re == Restarted(row, patch)
           pl == Placed(row, patch)
<1>1. /\ IsWrite(Sets(patch)) /\ DOMAIN Sets(patch) \subseteq {"status", "sprint"}
      /\ "sprint" \in DOMAIN patch => Sets(patch)["sprint"] = patch["sprint"] /\ patch["sprint"] \in Sprints \cup {None}
      /\ "sprint" \in DOMAIN Sets(patch) <=> "sprint" \in DOMAIN patch
  BY PatchWrites
<1>2. sent \in Row /\ \A f \in Fields : sent[f] = IF f \in DOMAIN Sets(patch) THEN Sets(patch)[f] ELSE row[f]
  BY <1>1, OverRow
<1>3. /\ sent["sprint"] = IF "sprint" \in DOMAIN patch THEN patch["sprint"] ELSE row["sprint"]
      /\ sent["from"] = row["from"] /\ sent["ranked"] = row["ranked"]
  BY <1>1, <1>2 DEF Fields
<1>4. re \in Row /\ re.sprint = sent.sprint /\ re.ranked = sent.ranked /\ re.from = sent.from
  BY <1>2 DEF Restarted, Row, WorkStatuses
<1> HIDE DEF sent, re
<1>5. /\ pl \in Row /\ pl.sprint = re.sprint /\ pl.from = re.from
      /\ pl.ranked = IF "ranked" \in DOMAIN patch THEN re.sprint
                     ELSE IF re.sprint # row.sprint THEN Unranked ELSE re.ranked
  BY <1>4 DEF Placed, re, Row, Places
<1>6. Patched(row, patch) = IF pl.status = row.status THEN pl
                            ELSE [pl EXCEPT !.from = IF pl.status = "Blocked" THEN row.status ELSE None]
  BY DEF Patched, Placed, Restarted, Sets
<1> HIDE DEF pl
<1>7. [pl EXCEPT !.from = IF pl.status = "Blocked" THEN row.status ELSE None] \in Row
  BY <1>5 DEF Row
<1> QED BY <1>3, <1>4, <1>5, <1>6, <1>7 DEF pl

\* What a patch leaves of a row is a row, in the sprint it names.
LEMMA PatchedRow ==
    ASSUME NEW row \in Row, NEW patch \in Patches
    PROVE  /\ Patched(row, patch) \in Row
           /\ Patched(row, patch).sprint = IF "sprint" \in DOMAIN patch THEN patch["sprint"] ELSE row.sprint
<1> DEFINE pl == Placed(row, patch)
<1>1. /\ pl \in Row /\ Patched(row, patch) \in Row
      /\ pl.sprint = IF "sprint" \in DOMAIN patch THEN patch["sprint"] ELSE row.sprint
      /\ Patched(row, patch) = IF pl.status = row.status THEN pl
                               ELSE [pl EXCEPT !.from = IF pl.status = "Blocked" THEN row.status ELSE None]
  BY PatchStages
<1> HIDE DEF pl
<1>2. Patched(row, patch).sprint = pl.sprint
  BY <1>1 DEF Row
<1> QED BY <1>1, <1>2

\* A patch leaves the bookkeeping of its row right, if the sprint it names is there.
LEMMA PatchedOrder ==
    ASSUME NEW row \in Row, NEW patch \in Patches, NEW sprints, InOrder(row, sprints),
           "sprint" \in DOMAIN patch /\ patch["sprint"] # None => sprints[patch["sprint"]] # "deleted"
    PROVE  InOrder(Patched(row, patch), sprints)
<1> DEFINE pl == Placed(row, patch)
<1>1. /\ pl \in Row
      /\ pl.sprint = IF "sprint" \in DOMAIN patch THEN patch["sprint"] ELSE row.sprint
      /\ pl.from = row.from
      /\ pl.ranked \in {pl.sprint, Unranked} \/ (pl.ranked = row.ranked /\ pl.sprint = row.sprint)
      /\ Patched(row, patch) = IF pl.status = row.status THEN pl
                               ELSE [pl EXCEPT !.from = IF pl.status = "Blocked" THEN row.status ELSE None]
  BY PatchStages
<1> HIDE DEF pl
<1>2. pl.sprint # None => sprints[pl.sprint] # "deleted"
  BY <1>1 DEF InOrder
<1>3. pl.ranked # Unranked => pl.ranked = pl.sprint
  BY <1>1 DEF InOrder
<1>4. ASSUME pl.status = row.status
      PROVE  InOrder(pl, sprints)
  BY <1>1, <1>2, <1>3, <1>4 DEF InOrder
<1>5. ASSUME pl.status # row.status
      PROVE  InOrder([pl EXCEPT !.from = IF pl.status = "Blocked" THEN row.status ELSE None], sprints)
  BY <1>1, <1>2, <1>3 DEF InOrder, Row
<1> QED BY <1>1, <1>4, <1>5

-----------------------------------------------------------------------------
(* Requests and the rows they hold.                                        *)

\* A request that begins, or goes on, without changing a row: what it holds
\* from then on, and whose row it takes.
LEMMA EntersKeeps ==
    ASSUME LockInv, NEW p \in Requests, NEW t, tx' = [tx EXCEPT ![p] = t], UNCHANGED rows,
           Holds(t, DOMAIN req), IsWritten(t) => ~Locked(t.r),
           IsWritten(t) /\ t.claim => req[t.r].status = "NotStarted"
    PROVE  LockInv'
<1>1. RowsRight'
  BY DEF LockInv, RowsRight, rows, RowsTyped, WonHasStarted, BurndownReadsTheRow
<1>2. /\ tx' = [q \in Requests |-> tx'[q]] /\ tx'[p] = t
      /\ \A q \in Requests : q # p => tx'[q] = tx[q]
  BY DEF LockInv, HeldRight, RequestsTyped
<1>3. RequestsTyped'
  BY <1>2 DEF LockInv, HeldRight, RequestsTyped, rows
<1>4. \A q \in Requests : q # p /\ IsWritten(tx[q]) /\ IsWritten(t) => tx[q].r # t.r
  BY DEF Locked, IsWritten
<1>5. OneHolder'
  BY <1>2, <1>4, Zenon DEF LockInv, HeldRight, OneHolder
<1>6. ClaimFound'
  BY <1>2, Zenon DEF LockInv, HeldRight, ClaimFound, rows
<1> QED BY <1>1, <1>3, <1>5, <1>6 DEF LockInv, HeldRight

\* A request that ends having changed rows, but none that another holds.
LEMMA EndKeeps ==
    ASSUME LockInv, NEW p \in Requests, End(p), RowsRight', DOMAIN req \subseteq DOMAIN req',
           \A q \in Requests : q # p /\ IsWritten(tx[q]) => req'[tx[q].r].status = req[tx[q].r].status
    PROVE  LockInv'
<1>1. /\ tx' = [q \in Requests |-> tx'[q]] /\ tx'[p] = Idle
      /\ \A q \in Requests : q # p => tx'[q] = tx[q]
  BY DEF LockInv, HeldRight, RequestsTyped, End
<1>2. \A q \in Requests : Holds(tx'[q], DOMAIN req')
  <2>1. \A t : Holds(t, DOMAIN req) => Holds(t, DOMAIN req')
    BY DEF Holds
  <2>2. Holds(Idle, DOMAIN req')
    BY DEF Holds, Idle, IsPatch, IsWritten, IsCreate, IsArchive, IsEnd, IsTriage
  <2>3. \A q \in Requests : Holds(tx[q], DOMAIN req)
    BY DEF LockInv, HeldRight, RequestsTyped
  <2> QED BY <1>1, <2>1, <2>2, <2>3, Zenon
<1>3. RequestsTyped'
  BY <1>1, <1>2 DEF LockInv, HeldRight, RequestsTyped, End
<1>4. ~IsWritten(tx'[p])
  BY <1>1 DEF IsWritten, Idle
<1>5. OneHolder'
  BY <1>1, <1>4, Zenon DEF LockInv, HeldRight, OneHolder
<1>6. ClaimFound'
  BY <1>1, <1>4, Zenon DEF LockInv, HeldRight, ClaimFound
<1> QED BY <1>3, <1>5, <1>6 DEF LockInv, HeldRight

\* A request that has read its rows and holds their locks breaks nothing.
LEMMA BeginKeeps ==
    ASSUME LockInv, NEW p \in Requests, NEW t, Begin(p, t), Holds(t, DOMAIN req), IsWritten(t) => ~Locked(t.r),
           IsWritten(t) /\ t.claim => req[t.r].status = "NotStarted"
    PROVE  LockInv'
BY EntersKeeps DEF Begin

-----------------------------------------------------------------------------
(* The steps of LockInv.                                                   *)

\* update_requirement starts.
LEMMA UpdateKeeps ==
    ASSUME LockInv, NEW p \in Requests, NEW r \in Reqs, NEW patch \in Patches, UpdateRequirement(p, r, patch)
    PROVE  LockInv'
<1> DEFINE t == [at |-> "read", op |-> "patch", r |-> r, seen |-> req[r], patch |-> patch]
<1>1. Holds(t, DOMAIN req) /\ ~IsWritten(t)
  BY DEF UpdateRequirement, LockInv, RowsRight, RowsTyped, Holds, IsPatch, IsWritten, IsCreate, IsArchive, IsEnd,
         IsTriage
<1>2. Begin(p, t)
  BY DEF UpdateRequirement
<1> QED BY <1>1, <1>2, BeginKeeps

\* A claim starts.
LEMMA ClaimKeeps ==
    ASSUME LockInv, NEW p \in Requests, NEW r \in Reqs, Claim(p, r)
    PROVE  LockInv'
<1> DEFINE t == [at |-> "written", r |-> r, sets |-> [status |-> "InProgress"], claim |-> TRUE,
                 follows |-> Follows(r, "InProgress")]
<1>1. Begin(p, t) /\ r \in DOMAIN req /\ ~Locked(r) /\ req[r].status = "NotStarted"
  BY DEF Claim, Claimable
<1>2. IsWrite([status |-> "InProgress"])
  BY DEF IsWrite, Fields, WorkStatuses
<1>3. Follows(r, "InProgress") \in BOOLEAN /\ (Follows(r, "InProgress") => r \in Raised)
  BY DEF Follows
<1>4. Holds(t, DOMAIN req) /\ t.r = r
  <2> HIDE DEF LockInv
  <2> QED BY <1>1, <1>2, <1>3 DEF Holds, IsPatch, IsWritten, IsCreate, IsArchive, IsEnd, IsTriage
<1> QED BY <1>1, <1>4, BeginKeeps

\* create_requirement starts.
LEMMA BeginCreateKeeps ==
    ASSUME LockInv, NEW p \in Requests, NEW r \in Reqs, NEW status \in Born, NEW s \in Sprints \cup {None},
           CreateRequirement(p, r, status, s)
    PROVE  LockInv'
<1> DEFINE t == [at |-> "read", op |-> "create", r |-> r, status |-> status, sprint |-> s]
<1>1. Holds(t, DOMAIN req) /\ ~IsWritten(t)
  BY BoardAssumption DEF Holds, IsPatch, IsWritten, IsCreate, IsArchive, IsEnd, IsTriage
<1>2. Begin(p, t)
  BY DEF CreateRequirement
<1> QED BY <1>1, <1>2, BeginKeeps

\* archive_requirement starts.
LEMMA BeginArchiveKeeps ==
    ASSUME LockInv, NEW p \in Requests, NEW r \in Reqs, NEW archived \in BOOLEAN, ArchiveRequirement(p, r, archived)
    PROVE  LockInv'
<1> DEFINE t == [at |-> "read", op |-> "archive", r |-> r, archived |-> archived]
<1>1. Holds(t, DOMAIN req) /\ ~IsWritten(t)
  BY DEF ArchiveRequirement, Holds, IsPatch, IsWritten, IsCreate, IsArchive, IsEnd, IsTriage
<1>2. Begin(p, t)
  BY DEF ArchiveRequirement
<1> QED BY <1>1, <1>2, BeginKeeps

\* close_sprint or delete_sprint starts.
LEMMA EndSprintKeeps ==
    ASSUME LockInv, NEW p \in Requests, NEW s \in Sprints, NEW op \in {"close", "delete"}, EndSprint(p, s, op)
    PROVE  LockInv'
<1> DEFINE found == {r \in DOMAIN req : req[r].sprint = s /\ (op = "close" => req[r].status # "Done")}
           t == [at |-> "read", op |-> op, s |-> s, found |-> [r \in found |-> req[r]]]
<1>1. Holds(t, DOMAIN req) /\ ~IsWritten(t)
  BY DEF LockInv, RowsRight, RowsTyped, Holds, IsPatch, IsWritten, IsCreate, IsArchive, IsEnd, IsTriage
<1>2. Begin(p, t)
  BY DEF EndSprint
<1> QED BY <1>1, <1>2, BeginKeeps

\* A feedback update starts.
LEMMA FeedbackKeeps ==
    ASSUME LockInv, NEW p \in Requests, NEW status \in Triage, UpdateFeedback(p, status)
    PROVE  LockInv'
<1> DEFINE t == [at |-> "read", op |-> "triage", was |-> report, status |-> status]
<1>1. Holds(t, DOMAIN req) /\ ~IsWritten(t)
  BY DEF LockInv, RowsRight, RowsTyped, Holds, IsPatch, IsWritten, IsCreate, IsArchive, IsEnd, IsTriage
<1>2. Begin(p, t)
  BY DEF UpdateFeedback
<1> QED BY <1>1, <1>2, BeginKeeps

\* reopen_sprint runs.
LEMMA ReopenKeeps ==
    ASSUME LockInv, NEW p \in Requests, NEW s \in Sprints, ReopenSprint(p, s)
    PROVE  LockInv'
<1>1. RowsRight'
  BY DEF ReopenSprint, LockInv, RowsRight, RowsTyped, WonHasStarted, BurndownReadsTheRow
<1>2. HeldRight'
  BY DEF ReopenSprint, LockInv, HeldRight, RequestsTyped, OneHolder, ClaimFound
<1> QED BY <1>1, <1>2 DEF LockInv

\* The write of a patch waits for the row, and writes what it makes of the row it read.
LEMMA WriteKeeps ==
    ASSUME LockInv, NEW p \in Requests, WriteRequirement(p)
    PROVE  LockInv'
<1> DEFINE t == tx[p]
           new == Patched(t.seen, t.patch)
           w == [at |-> "written", r |-> t.r, claim |-> FALSE,
                 sets |-> Changed(t.seen, new, DOMAIN t.patch \cap {"ranked"}),
                 follows |-> new.status # t.seen.status /\ Follows(t.r, new.status)]
<1>1. t.r \in DOMAIN req /\ t.seen \in Row /\ t.patch \in Patches /\ ~Locked(t.r)
  BY DEF WriteRequirement, LockInv, HeldRight, RequestsTyped, Holds, IsPatch
<1>2. IsWrite(Changed(t.seen, new, DOMAIN t.patch \cap {"ranked"}))
  <2>1. DOMAIN t.patch \cap {"ranked"} \in SUBSET Fields
    BY DEF Fields
  <2> QED BY <1>1, <2>1, PatchedRow, ChangedWrite
<1>3. /\ (new.status # t.seen.status /\ Follows(t.r, new.status)) \in BOOLEAN
      /\ Follows(t.r, new.status) => t.r \in Raised
  BY DEF Follows
<1>4. Holds(w, DOMAIN req) /\ w.r = t.r /\ ~w.claim
  BY <1>1, <1>2, <1>3 DEF Holds, IsPatch, IsWritten, IsCreate, IsArchive, IsEnd, IsTriage
<1>5. tx' = [tx EXCEPT ![p] = w] /\ UNCHANGED rows
  BY DEF WriteRequirement
<1> HIDE DEF w, t
<1> QED BY <1>1, <1>4, <1>5, EntersKeeps

\* The commit of a requirement: row, event and history together, under the lock.
LEMMA CommitKeeps ==
    ASSUME LockInv, NEW p \in Requests, CommitRequirement(p)
    PROVE  LockInv'
<1> DEFINE t == tx[p]
           r == t.r
           row == Over(t.sets, req[r])
<1>1. /\ IsWritten(t) /\ r \in DOMAIN req /\ IsWrite(t.sets)
      /\ t.claim => t.sets = [status |-> "InProgress"]
  BY DEF CommitRequirement, LockInv, HeldRight, RequestsTyped, Holds, IsWritten
<1>2. req[r] \in Row
  BY <1>1 DEF LockInv, RowsRight, RowsTyped
<1>3. /\ row \in Row
      /\ row.status = IF "status" \in DOMAIN t.sets THEN t.sets["status"] ELSE req[r].status
      /\ row.sprint = IF "sprint" \in DOMAIN t.sets THEN t.sets["sprint"] ELSE req[r].sprint
  BY <1>1, <1>2, OverRow DEF Fields
<1>4. req' = [req EXCEPT ![r] = row]
  BY DEF CommitRequirement
<1>5. DOMAIN req' = DOMAIN req
  BY <1>4
<1>6. RowsTyped'
  <2>1. DOMAIN report' = {"status", "stamped"} /\ report'.stamped \in BOOLEAN
    BY DEF CommitRequirement, LockInv, RowsRight, RowsTyped
  <2>2. told' \in [DOMAIN req -> WorkStatuses \cup {None}] /\ member' \in [DOMAIN req -> Sprints \cup {None}]
    BY <1>1 DEF CommitRequirement, LockInv, RowsRight, RowsTyped, IsWrite
  <2>3. wins' \in [DOMAIN req -> Nat]
    <3>1. wins \in [DOMAIN req -> Nat] /\ (\A n \in Nat : n + 1 \in Nat)
      BY DEF LockInv, RowsRight, RowsTyped
    <3>2. wins' = [wins EXCEPT ![r] = @ + 1] \/ wins' = [wins EXCEPT ![r] = 0] \/ wins' = wins
      BY DEF CommitRequirement
    <3> HIDE DEF r, t
    <3> QED BY <1>1, <3>1, <3>2
  <2>4. sprint' = sprint
    BY DEF CommitRequirement
  <2>5. req' \in [DOMAIN req -> Row]
    BY <1>3, <1>4 DEF LockInv, RowsRight, RowsTyped
  <2> QED BY <1>5, <2>1, <2>2, <2>3, <2>4, <2>5 DEF LockInv, RowsRight, RowsTyped
<1>7. \A x \in DOMAIN req : req'[x] = IF x = r THEN row ELSE req[x]
  BY <1>4
<1>8. BurndownReadsTheRow'
  <2>1. \A x \in DOMAIN req : /\ member[x] = req[x].sprint
                              /\ told[x] # None => told[x] = req[x].status
    BY DEF LockInv, RowsRight, BurndownReadsTheRow
  <2>2. /\ DOMAIN told = DOMAIN req /\ DOMAIN member = DOMAIN req
        /\ told' = IF "status" \in DOMAIN t.sets THEN [told EXCEPT ![r] = t.sets["status"]] ELSE told
        /\ member' = IF "sprint" \in DOMAIN t.sets THEN [member EXCEPT ![r] = t.sets["sprint"]] ELSE member
    BY DEF CommitRequirement, LockInv, RowsRight, RowsTyped
  <2> HIDE DEF row, r, t
  <2>3. \A x \in DOMAIN req : member'[x] = req'[x].sprint
    BY <1>1, <1>3, <1>7, <2>1, <2>2
  <2>4. \A x \in DOMAIN req : told'[x] # None => told'[x] = req'[x].status
    BY <1>1, <1>3, <1>7, <2>1, <2>2
  <2> QED BY <1>5, <2>3, <2>4 DEF BurndownReadsTheRow
<1>9. WonHasStarted'
  <2>1. /\ \A x \in DOMAIN req : /\ wins[x] \in Nat /\ wins[x] <= 1
                                 /\ req[x].status = "NotStarted" => wins[x] = 0
        /\ DOMAIN wins = DOMAIN req
    BY DEF LockInv, RowsRight, WonHasStarted, RowsTyped
  <2>2. t.claim => req[r].status = "NotStarted" /\ "status" \in DOMAIN t.sets /\ t.sets["status"] = "InProgress"
    BY <1>1 DEF LockInv, HeldRight, ClaimFound
  <2>3. wins' = IF t.claim THEN [wins EXCEPT ![r] = @ + 1]
                ELSE IF "status" \in DOMAIN t.sets /\ t.sets["status"] = "NotStarted"
                THEN [wins EXCEPT ![r] = 0] ELSE wins
    BY DEF CommitRequirement
  <2> HIDE DEF row, r, t
  <2>4. \A x \in DOMAIN req : /\ wins'[x] <= 1
                              /\ req'[x].status = "NotStarted" => wins'[x] = 0
    BY <1>1, <1>3, <1>7, <2>1, <2>2, <2>3
  <2> QED BY <1>5, <2>4 DEF WonHasStarted
<1>10. \A q \in Requests : q # p /\ IsWritten(tx[q]) => tx[q].r # r /\ tx[q].r \in DOMAIN req
  BY <1>1 DEF LockInv, HeldRight, OneHolder, RequestsTyped, Holds
<1>11. \A q \in Requests : q # p /\ IsWritten(tx[q]) => req'[tx[q].r].status = req[tx[q].r].status
  BY <1>7, <1>10, Zenon
<1>12. End(p)
  BY DEF CommitRequirement
<1> QED BY <1>5, <1>6, <1>8, <1>9, <1>11, <1>12, EndKeeps DEF RowsRight

\* A requirement is created.
LEMMA CreateKeeps ==
    ASSUME LockInv, NEW p \in Requests, Create(p)
    PROVE  LockInv'
<1> DEFINE t == tx[p]
           R == DOMAIN req \cup {t.r}
           row == [status |-> t.status, sprint |-> t.sprint, ranked |-> Unranked, from |-> None, archived |-> FALSE]
<1>1. t.r \in Reqs /\ t.status \in WorkStatuses /\ t.sprint \in Sprints \cup {None}
  BY DEF Create, LockInv, HeldRight, RequestsTyped, Holds, IsCreate
<1>2. row \in Row
  BY <1>1 DEF Row, Places
<1>3. DOMAIN told = DOMAIN req /\ DOMAIN member = DOMAIN req /\ DOMAIN wins = DOMAIN req
  BY DEF LockInv, RowsRight, RowsTyped
<1>4. /\ req' = [x \in R |-> IF x \in DOMAIN req THEN req[x] ELSE row]
      /\ member' = [x \in R |-> IF x \in DOMAIN req THEN member[x] ELSE t.sprint]
      /\ told' = [x \in R |-> IF x \in DOMAIN req THEN told[x] ELSE None]
      /\ wins' = [x \in R |-> IF x \in DOMAIN req THEN wins[x] ELSE 0]
      /\ sprint' = sprint /\ report' = report
  BY <1>3 DEF Create, Over
<1>5. RowsTyped'
  BY <1>1, <1>2, <1>4 DEF LockInv, RowsRight, RowsTyped
<1>6. WonHasStarted' /\ BurndownReadsTheRow'
  <2>1. row.sprint = t.sprint
    OBVIOUS
  <2> HIDE DEF row
  <2> QED BY <1>4, <2>1 DEF LockInv, RowsRight, WonHasStarted, BurndownReadsTheRow
<1>7. \A q \in Requests : q # p /\ IsWritten(tx[q]) => req'[tx[q].r].status = req[tx[q].r].status
  BY <1>4 DEF LockInv, HeldRight, RequestsTyped, Holds
<1>8. End(p) /\ DOMAIN req \subseteq DOMAIN req'
  BY <1>4 DEF Create
<1> QED BY <1>5, <1>6, <1>7, <1>8, EndKeeps DEF RowsRight

\* A requirement is archived.
LEMMA ArchiveKeeps ==
    ASSUME LockInv, NEW p \in Requests, Archive(p)
    PROVE  LockInv'
<1> DEFINE t == tx[p]
<1>1. t.r \in DOMAIN req /\ t.archived \in BOOLEAN
  BY DEF Archive, LockInv, HeldRight, RequestsTyped, Holds, IsArchive
<1>2. \A row \in Row : LET new == [row EXCEPT !.archived = t.archived]
                       IN  new \in Row /\ new.status = row.status /\ new.sprint = row.sprint
  BY <1>1 DEF Row
<1>3. /\ DOMAIN req' = DOMAIN req
      /\ \A x \in DOMAIN req : req'[x] = IF x = t.r THEN [req[x] EXCEPT !.archived = t.archived] ELSE req[x]
      /\ req' = [x \in DOMAIN req |-> req'[x]]
      /\ UNCHANGED <<told, member, wins, sprint, report>>
  BY DEF Archive, LockInv, RowsRight, RowsTyped
<1>4. \A x \in DOMAIN req : req[x] \in Row
  BY DEF LockInv, RowsRight, RowsTyped
<1>5. \A x \in DOMAIN req : req'[x] \in Row /\ req'[x].status = req[x].status /\ req'[x].sprint = req[x].sprint
  BY <1>2, <1>3, <1>4
<1>6. RowsTyped'
  BY <1>3, <1>5 DEF LockInv, RowsRight, RowsTyped
<1>7. WonHasStarted' /\ BurndownReadsTheRow'
  BY <1>3, <1>5 DEF LockInv, RowsRight, WonHasStarted, BurndownReadsTheRow
<1>8. \A q \in Requests : q # p /\ IsWritten(tx[q]) => req'[tx[q].r].status = req[tx[q].r].status
  BY <1>5 DEF LockInv, HeldRight, RequestsTyped, Holds
<1>9. End(p)
  BY DEF Archive
<1> QED BY <1>3, <1>6, <1>7, <1>8, <1>9, EndKeeps DEF RowsRight

\* What a sprint's end makes of a row it found: out of the sprint and out of the queue.
LEMMA ReturnedRow ==
    ASSUME LockInv, NEW t, IsEnd(t), Holds(t, DOMAIN req), NEW r \in DOMAIN req
    PROVE  /\ Returned(t)[r] \in Row /\ Returned(t)[r].status = req[r].status
           /\ Returned(t)[r].sprint = IF r \in DOMAIN t.found THEN None ELSE req[r].sprint
<1>1. req[r] \in Row
  BY DEF LockInv, RowsRight, RowsTyped
<1>2. CASE r \notin DOMAIN t.found
  BY <1>1, <1>2 DEF Returned
<1>3. CASE r \in DOMAIN t.found
  <2> DEFINE new == [t.found[r] EXCEPT !.sprint = None, !.ranked = Unranked]
             sets == Changed(t.found[r], new, {})
  <2>1. t.found[r] \in Row /\ t.found[r].sprint # None
    BY <1>3, BoardAssumption DEF Holds
  <2>2. new \in Row /\ new.sprint = None /\ new.status = t.found[r].status
    BY <2>1 DEF Row, Places
  <2> HIDE DEF new
  <2>3. IsWrite(sets) /\ "sprint" \in DOMAIN sets /\ sets["sprint"] = None /\ "status" \notin DOMAIN sets
    BY <2>1, <2>2, ChangedWrite DEF Fields
  <2> HIDE DEF sets
  <2>4. /\ Over(sets, req[r]) \in Row /\ Over(sets, req[r]).sprint = None
        /\ Over(sets, req[r]).status = req[r].status
    BY <1>1, <2>3, OverRow DEF Fields
  <2>5. Returned(t)[r] = Over(sets, req[r])
    BY <1>3 DEF Returned, sets, new
  <2> QED BY <1>3, <2>4, <2>5
<1> QED BY <1>2, <1>3

\* A sprint ends and its work items are moved out.
LEMMA SprintEndsKeeps ==
    ASSUME LockInv, NEW p \in Requests, SprintEnds(p)
    PROVE  LockInv'
<1> DEFINE t == tx[p]
<1>1. IsEnd(t) /\ Holds(t, DOMAIN req) /\ t.s \in Sprints
  BY DEF SprintEnds, IsEnd, LockInv, HeldRight, RequestsTyped, Holds
<1>2. /\ req' = [r \in DOMAIN req |-> Returned(t)[r]]
      /\ member' = [r \in DOMAIN req |-> IF r \in DOMAIN t.found THEN None ELSE member[r]]
      /\ sprint' = [sprint EXCEPT ![t.s] = IF t.op = "delete" \/ @ = "deleted" THEN "deleted" ELSE "closed"]
      /\ UNCHANGED <<report, told, wins>>
  BY DEF SprintEnds, Returned, Filed
<1>3. \A r \in DOMAIN req : /\ req'[r] \in Row /\ req'[r].status = req[r].status
                            /\ req'[r].sprint = IF r \in DOMAIN t.found THEN None ELSE req[r].sprint
  BY <1>1, <1>2, ReturnedRow
<1>4. RowsTyped'
  BY <1>1, <1>2, <1>3 DEF LockInv, RowsRight, RowsTyped
<1>5. WonHasStarted' /\ BurndownReadsTheRow'
  BY <1>2, <1>3 DEF LockInv, RowsRight, WonHasStarted, BurndownReadsTheRow
<1>6. \A q \in Requests : q # p /\ IsWritten(tx[q]) => req'[tx[q].r].status = req[tx[q].r].status
  BY <1>3 DEF LockInv, HeldRight, RequestsTyped, Holds
<1>7. End(p) /\ DOMAIN req' = DOMAIN req
  BY <1>2 DEF SprintEnds
<1> QED BY <1>4, <1>5, <1>6, <1>7, EndKeeps DEF RowsRight

\* What a triage makes of the report.
LEMMA TriagedReport ==
    ASSUME LockInv, NEW p \in Requests, Triaged(p)
    PROVE  LET t == tx[p]  new == [status |-> t.status, stamped |-> Stamped(t.status)]
           IN  /\ report' = [f \in {"status", "stamped"} |-> IF new[f] # t.was[f] THEN new[f] ELSE report[f]]
               /\ IsTriage(t) /\ DOMAIN t.was = {"status", "stamped"}
<1> DEFINE t == tx[p]
           new == [status |-> t.status, stamped |-> Stamped(t.status)]
<1>1. IsTriage(t) /\ DOMAIN t.was = {"status", "stamped"} /\ DOMAIN report = {"status", "stamped"}
  BY DEF Triaged, LockInv, HeldRight, RequestsTyped, Holds, IsTriage, RowsRight, RowsTyped
<1>2. DOMAIN new = {"status", "stamped"}
  OBVIOUS
<1>3. report' = Over(Changed(t.was, new, {}), report)
  BY DEF Triaged
<1> HIDE DEF t, new
<1>4. DOMAIN Changed(t.was, new, {}) \cup DOMAIN report = {"status", "stamped"}
  BY <1>1, <1>2 DEF Changed
<1>5. report' = [f \in {"status", "stamped"} |-> IF new[f] # t.was[f] THEN new[f] ELSE report[f]]
  BY <1>2, <1>3, <1>4 DEF Over, Changed
<1> QED BY <1>1, <1>5 DEF t, new

\* A feedback item is triaged.
LEMMA TriagedKeeps ==
    ASSUME LockInv, NEW p \in Requests, Triaged(p)
    PROVE  LockInv'
<1>1. DOMAIN report' = {"status", "stamped"} /\ report'.stamped \in BOOLEAN
  <2>1. Stamped(tx[p].status) \in BOOLEAN /\ report["stamped"] \in BOOLEAN
    BY DEF Stamped, LockInv, RowsRight, RowsTyped
  <2> QED BY <2>1, TriagedReport
<1>2. UNCHANGED <<req, sprint, told, member, wins>> /\ End(p)
  BY DEF Triaged
<1>3. RowsRight'
  BY <1>1, <1>2 DEF LockInv, RowsRight, RowsTyped, WonHasStarted, BurndownReadsTheRow
<1> QED BY <1>2, <1>3, EndKeeps

-----------------------------------------------------------------------------
(* Requests and what they are about.                                       *)

\* Two requests are about the same, whichever comes first; one that is over is about nothing.
LEMMA BothSymmetric == ASSUME NEW t, NEW u PROVE Both(t, u) = Both(u, t)
BY DEF Both

\* See BothSymmetric.
LEMMA BothIdle == ASSUME NEW u PROVE Both(Idle, u) = {} /\ Both(u, Idle) = {}
BY DEF Both, Idle, Touched, Minds, Puts, Emptied, Ends, Triages

\* What a request is about, by its kind.
LEMMA About ==
    ASSUME NEW t, NEW R, Holds(t, R)
    PROVE  /\ IsPatch(t) \/ IsWritten(t) \/ IsCreate(t) \/ IsArchive(t) => Touched(t) = {t.r} /\ ~Ends(t) /\ ~Triages(t)
           /\ IsEnd(t) => Touched(t) = DOMAIN t.found /\ Ends(t) /\ ~Triages(t)
           /\ IsTriage(t) => Touched(t) = {} /\ Triages(t) /\ Minds(t) /\ ~Ends(t)
           /\ IsPatch(t) => \A s : Puts(t, s) <=> ("sprint" \in DOMAIN t.patch /\ t.patch["sprint"] = s)
           /\ IsCreate(t) => \A s : Puts(t, s) <=> t.sprint = s
           /\ IsWritten(t) => /\ \A s : Puts(t, s) <=> ("sprint" \in DOMAIN t.sets /\ t.sets["sprint"] = s)
                              /\ t.follows => Minds(t)
BY DEF Holds, IsPatch, IsWritten, IsCreate, IsArchive, IsEnd, IsTriage, Touched, Ends, Triages, Minds, Puts, Idle

\* A row in order stays so while no sprint is deleted under it.
LEMMA OrderStays ==
    ASSUME NEW row, NEW sprints, NEW later, InOrder(row, sprints),
           row["sprint"] # None /\ later[row["sprint"]] = "deleted" => sprints[row["sprint"]] = "deleted"
    PROVE  InOrder(row, later)
BY DEF InOrder

\* A request that begins or goes on with what it holds fresh.
LEMMA ApartEnters ==
    ASSUME LockInv, Apart, NEW p \in Requests, NEW t, tx' = [tx EXCEPT ![p] = t], UNCHANGED rows, met \subseteq met',
           \A q \in Requests : q # p => Both(t, tx[q]) \subseteq met', Fresh(t, req, sprint, report, met')
    PROVE  Apart'
<1>1. /\ tx'[p] = t /\ \A q \in Requests : q # p => tx'[q] = tx[q]
  BY DEF LockInv, HeldRight, RequestsTyped
<1>2. UNCHANGED <<req, sprint, report>>
  BY DEF rows
<1>3. RowsInOrder'
  BY <1>2 DEF Apart, RowsInOrder, ResolvedIsStamped, InOrder
<1>4. \A q \in Requests : Fresh(tx[q], req, sprint, report, met')
  <2> TAKE q \in Requests
  <2>1. Fresh(tx[q], req, sprint, report, met)
    BY DEF Apart, AllFresh
  <2> HIDE DEF Apart, LockInv
  <2> QED BY <2>1 DEF Fresh
<1>5. AllFresh'
  BY <1>1, <1>2, <1>4, Zenon DEF AllFresh
<1>6. \A q \in Requests : q # p => Both(tx[q], t) \subseteq met'
  BY BothSymmetric
<1>7. \A q, r \in Requests : q # r => Both(tx[q], tx[r]) \subseteq met'
  BY DEF Apart, Meetings
<1>8. Meetings'
  <2> SUFFICES ASSUME NEW q \in Requests, NEW r \in Requests, q # r PROVE Both(tx'[q], tx'[r]) \subseteq met'
    BY DEF Meetings, Both, Touched, Minds, Puts, Emptied, Ends, Triages
  <2>1. CASE q = p
    BY <1>1, <2>1
  <2>2. CASE r = p
    BY <1>1, <1>6, <2>2
  <2>3. CASE q # p /\ r # p
    BY <1>1, <1>7, <2>3
  <2> QED BY <2>1, <2>2, <2>3
<1> QED BY <1>3, <1>5, <1>8 DEF Apart

\* A request that ends, with what the others hold still fresh.
LEMMA ApartEnds ==
    ASSUME LockInv, Apart, NEW p \in Requests, End(p), RowsInOrder',
           \A q \in Requests : q # p => Fresh(tx[q], req', sprint', report', met)
    PROVE  Apart'
<1>1. /\ tx'[p] = Idle /\ (\A q \in Requests : q # p => tx'[q] = tx[q]) /\ met' = met
  BY DEF LockInv, HeldRight, RequestsTyped, End
<1>2. Fresh(Idle, req', sprint', report', met')
  BY DEF Fresh, Idle, IsPatch, IsWritten, IsCreate, IsArchive, IsEnd, IsTriage
<1>3. AllFresh'
  BY <1>1, <1>2, Zenon DEF AllFresh
<1>4. Meetings'
  <2> SUFFICES ASSUME NEW q \in Requests, NEW r \in Requests, q # r PROVE Both(tx'[q], tx'[r]) \subseteq met
    BY <1>1 DEF Meetings, Both, Touched, Minds, Puts, Emptied, Ends, Triages
  <2>1. CASE q = p \/ r = p
    BY <1>1, <2>1, BothIdle
  <2>2. CASE q # p /\ r # p
    BY <1>1, <2>2 DEF Apart, Meetings
  <2> QED BY <2>1, <2>2
<1> QED BY <1>3, <1>4 DEF Apart

\* A request that begins.
LEMMA ApartBegins ==
    ASSUME IInv, NEW p \in Requests, NEW t, Begin(p, t), Fresh(t, req, sprint, report, met)
    PROVE  Apart'
<1>1. met \subseteq met' /\ \A q \in Requests : q # p => Both(t, tx[q]) \subseteq met'
  BY DEF Begin
<1>2. Fresh(t, req, sprint, report, met')
  <2>1. met \subseteq met'
    BY <1>1
  <2>2. Fresh(t, req, sprint, report, met)
    OBVIOUS
  <2> HIDE DEF IInv, Begin
  <2> QED BY <2>1, <2>2 DEF Fresh
<1> QED BY <1>1, <1>2, ApartEnters DEF Begin, IInv

\* What another request holds stays fresh, when rows change that it is not about.
LEMMA OthersFresh ==
    ASSUME NEW u, Holds(u, DOMAIN req), Fresh(u, req, sprint, report, met), RowsTyped, sprint' = sprint,
           DOMAIN req \subseteq DOMAIN req', \A r \in Touched(u) \ met : r \in DOMAIN req => req'[r] = req[r],
           IsEnd(u) => \A r \in DOMAIN req' \ met : req'[r].sprint = u.s => r \in DOMAIN req /\ req[r].sprint = u.s,
           None \notin met => /\ IsTriage(u) => report' = report
                              /\ IsWritten(u) /\ u.follows => report'.status # "Resolved"
    PROVE  Fresh(u, req', sprint', report', met)
<1>1. CASE IsPatch(u)
  <2>1. u.r \in DOMAIN req /\ u.r \in Touched(u)
    BY <1>1, About DEF Holds
  <2> QED BY <1>1, <2>1 DEF Fresh, IsPatch, IsWritten, IsCreate, IsArchive, IsEnd, IsTriage
<1>2. CASE IsWritten(u)
  <2>1. u.r \in DOMAIN req /\ u.r \in Touched(u)
    BY <1>2, About DEF Holds
  <2> QED BY <1>2, <2>1 DEF Fresh, IsPatch, IsWritten, IsCreate, IsArchive, IsEnd, IsTriage
<1>3. CASE IsEnd(u)
  <2>1. DOMAIN u.found \subseteq DOMAIN req /\ Touched(u) = DOMAIN u.found
    BY <1>3, About DEF Holds
  <2>2. \A r \in DOMAIN u.found \ met : u.found[r] = req'[r]
    BY <1>3, <2>1 DEF Fresh
  <2>3. u.op = "delete" => \A r \in DOMAIN req' \ met : req'[r].sprint = u.s => r \in DOMAIN u.found
    BY <1>3 DEF Fresh
  <2> QED BY <1>3, <2>2, <2>3 DEF Fresh, IsPatch, IsWritten, IsCreate, IsArchive, IsEnd, IsTriage
<1>4. CASE ~IsPatch(u) /\ ~IsWritten(u) /\ ~IsEnd(u)
  BY <1>4 DEF Fresh
<1> QED BY <1>1, <1>2, <1>3, <1>4

\* What update_requirement reads are the rows as they are.
LEMMA UpdateApart ==
    ASSUME IInv, NEW p \in Requests, NEW r \in Reqs, NEW patch \in Patches, UpdateRequirement(p, r, patch)
    PROVE  Apart'
<1> DEFINE t == [at |-> "read", op |-> "patch", r |-> r, seen |-> req[r], patch |-> patch]
<1>1. Fresh(t, req, sprint, report, met)
  BY DEF UpdateRequirement, Fresh, IsPatch, IsWritten, IsCreate, IsArchive, IsEnd, IsTriage
<1>2. Begin(p, t)
  BY DEF UpdateRequirement
<1> QED BY <1>1, <1>2, ApartBegins

\* So does a claim.
LEMMA ClaimApart ==
    ASSUME IInv, NEW p \in Requests, NEW r \in Reqs, Claim(p, r)
    PROVE  Apart'
<1> DEFINE sets == [status |-> "InProgress"]
           t == [at |-> "written", r |-> r, sets |-> sets, claim |-> TRUE, follows |-> Follows(r, "InProgress")]
<1>1. Begin(p, t) /\ r \in DOMAIN req /\ req[r].status = "NotStarted"
  BY DEF Claim, Claimable
<1>2. req[r] \in Row
  BY <1>1 DEF IInv, LockInv, RowsRight, RowsTyped
<1>3. r \notin met => InOrder(req[r], sprint)
  BY <1>1 DEF IInv, Apart, RowsInOrder
<1>4. IsWrite(sets) /\ DOMAIN sets = {"status"} /\ sets["status"] = "InProgress"
  BY DEF IsWrite, Fields, WorkStatuses
<1> HIDE DEF sets
<1>5. r \notin met => InOrder(Over(sets, req[r]), sprint)
  BY <1>1, <1>2, <1>3, <1>4, OverRow DEF InOrder, Fields
<1>6. Follows(r, "InProgress") => report.status # "Resolved"
  BY DEF Follows, Settled
<1>7. Fresh(t, req, sprint, report, met)
  BY <1>5, <1>6 DEF Fresh, IsPatch, IsWritten, IsCreate, IsArchive, IsEnd, IsTriage
<1> QED BY <1>1, <1>7, ApartBegins

\* So does create_requirement.
LEMMA BeginCreateApart ==
    ASSUME IInv, NEW p \in Requests, NEW r \in Reqs, NEW status \in Born, NEW s \in Sprints \cup {None},
           CreateRequirement(p, r, status, s)
    PROVE  Apart'
<1> DEFINE t == [at |-> "read", op |-> "create", r |-> r, status |-> status, sprint |-> s]
<1>1. Fresh(t, req, sprint, report, met)
  BY DEF CreateRequirement, Fresh, IsPatch, IsWritten, IsCreate, IsArchive, IsEnd, IsTriage
<1>2. Begin(p, t)
  BY DEF CreateRequirement
<1> QED BY <1>1, <1>2, ApartBegins

\* So does archive_requirement.
LEMMA BeginArchiveApart ==
    ASSUME IInv, NEW p \in Requests, NEW r \in Reqs, NEW archived \in BOOLEAN, ArchiveRequirement(p, r, archived)
    PROVE  Apart'
<1> DEFINE t == [at |-> "read", op |-> "archive", r |-> r, archived |-> archived]
<1>1. Fresh(t, req, sprint, report, met)
  BY DEF Fresh, IsPatch, IsWritten, IsCreate, IsArchive, IsEnd, IsTriage
<1>2. Begin(p, t)
  BY DEF ArchiveRequirement
<1> QED BY <1>1, <1>2, ApartBegins

\* So does the end of a sprint.
LEMMA EndSprintApart ==
    ASSUME IInv, NEW p \in Requests, NEW s \in Sprints, NEW op \in {"close", "delete"}, EndSprint(p, s, op)
    PROVE  Apart'
<1> DEFINE found == {r \in DOMAIN req : req[r].sprint = s /\ (op = "close" => req[r].status # "Done")}
           t == [at |-> "read", op |-> op, s |-> s, found |-> [r \in found |-> req[r]]]
<1>1. Fresh(t, req, sprint, report, met)
  BY DEF Fresh, IsPatch, IsWritten, IsCreate, IsArchive, IsEnd, IsTriage
<1>2. Begin(p, t)
  BY DEF EndSprint
<1> QED BY <1>1, <1>2, ApartBegins

\* So does a feedback update.
LEMMA FeedbackApart ==
    ASSUME IInv, NEW p \in Requests, NEW status \in Triage, UpdateFeedback(p, status)
    PROVE  Apart'
<1> DEFINE t == [at |-> "read", op |-> "triage", was |-> report, status |-> status]
<1>1. Fresh(t, req, sprint, report, met)
  BY DEF Fresh, IsPatch, IsWritten, IsCreate, IsArchive, IsEnd, IsTriage
<1>2. Begin(p, t)
  BY DEF UpdateFeedback
<1> QED BY <1>1, <1>2, ApartBegins

\* Reopening deletes no sprint.
LEMMA ReopenApart ==
    ASSUME IInv, NEW p \in Requests, NEW s \in Sprints, ReopenSprint(p, s)
    PROVE  Apart'
<1>1. \A x \in Sprints : sprint'[x] # "deleted" <=> sprint[x] # "deleted"
  BY DEF ReopenSprint, IInv, LockInv, RowsRight, RowsTyped
<1>2. UNCHANGED <<req, report, tx, met>>
  BY DEF ReopenSprint
<1>3. \A row \in Row : InOrder(row, sprint) => InOrder(row, sprint')
  BY <1>1 DEF InOrder, Row
<1>4. \A r \in DOMAIN req : req[r] \in Row
  BY DEF IInv, LockInv, RowsRight, RowsTyped
<1>5. RowsInOrder'
  BY <1>2, <1>3, <1>4 DEF IInv, Apart, RowsInOrder, ResolvedIsStamped
<1>6. ASSUME NEW q \in Requests
      PROVE  Fresh(tx[q], req, sprint', report, met)
  <2> DEFINE t == tx[q]
  <2>1. Fresh(t, req, sprint, report, met) /\ Holds(t, DOMAIN req)
    BY DEF IInv, Apart, AllFresh, LockInv, HeldRight, RequestsTyped
  <2> HIDE DEF t
  <2>2. IsPatch(t) /\ "sprint" \in DOMAIN t.patch /\ t.patch["sprint"] # None => t.patch["sprint"] \in Sprints
    BY <2>1, PatchWrites DEF Holds
  <2>3. IsWritten(t) => Over(t.sets, req[t.r]) \in Row
    BY <1>4, <2>1, OverRow DEF Holds
  <2>4. IsCreate(t) => t.sprint \in Sprints \cup {None}
    BY <2>1 DEF Holds
  <2> QED BY <1>1, <1>3, <2>1, <2>2, <2>3, <2>4 DEF Fresh, t
<1>7. Meetings'
  BY <1>2 DEF IInv, Apart, Meetings, Both, Touched, Minds, Puts, Emptied, Ends, Triages
<1> QED BY <1>2, <1>5, <1>6, <1>7 DEF Apart, AllFresh

\* The write of a patch, which is about what the patch was about.
LEMMA WriteApart ==
    ASSUME IInv, NEW p \in Requests, WriteRequirement(p)
    PROVE  Apart'
<1> DEFINE t == tx[p]
           new == Patched(t.seen, t.patch)
           anew == DOMAIN t.patch \cap {"ranked"}
           sets == Changed(t.seen, new, anew)
           follows == new.status # t.seen.status /\ Follows(t.r, new.status)
           w == [at |-> "written", r |-> t.r, claim |-> FALSE, sets |-> sets, follows |-> follows]
<1>1. IsPatch(t) /\ t.r \in DOMAIN req /\ t.seen \in Row /\ t.patch \in Patches /\ Holds(t, DOMAIN req)
  BY DEF WriteRequirement, IInv, LockInv, HeldRight, RequestsTyped, Holds, IsPatch
<1>2. t.r \notin met => /\ t.seen = req[t.r] /\ InOrder(req[t.r], sprint)
                        /\ "sprint" \in DOMAIN t.patch /\ t.patch["sprint"] # None => sprint[t.patch["sprint"]] # "deleted"
  BY <1>1 DEF IInv, Apart, AllFresh, Fresh, RowsInOrder
<1>3. t.r \notin met => InOrder(new, sprint)
  BY <1>1, <1>2, PatchedOrder
<1>4. new \in Row /\ new.sprint = IF "sprint" \in DOMAIN t.patch THEN t.patch["sprint"] ELSE t.seen.sprint
  BY <1>1, PatchedRow
<1>5. anew \in SUBSET Fields /\ "sprint" \notin anew
  BY DEF Fields
<1>6. follows => report.status # "Resolved"
  BY DEF Follows, Settled
<1>7. tx' = [tx EXCEPT ![p] = w] /\ UNCHANGED rows /\ met' = met
  BY DEF WriteRequirement
<1> HIDE DEF new, follows, anew
<1>8. /\ Over(sets, t.seen) = new
      /\ "sprint" \in DOMAIN sets => "sprint" \in DOMAIN t.patch /\ sets["sprint"] = t.patch["sprint"]
  <2>1. /\ Over(sets, t.seen) = new
        /\ \A f \in Fields : f \in DOMAIN sets <=> new[f] # t.seen[f] \/ f \in anew
        /\ \A f \in DOMAIN sets : sets[f] = new[f]
    BY <1>1, <1>4, <1>5, ChangedWrite
  <2> HIDE DEF sets
  <2> QED BY <1>4, <1>5, <2>1 DEF Fields
<1> HIDE DEF sets, t
<1>9. Fresh(w, req, sprint, report, met)
  <2>1. t.r \notin met => InOrder(Over(sets, req[t.r]), sprint)
    BY <1>2, <1>3, <1>8
  <2> QED BY <1>6, <2>1 DEF Fresh, IsPatch, IsWritten, IsCreate, IsArchive, IsEnd, IsTriage
<1>10. ASSUME NEW q \in Requests, q # p
       PROVE  Both(w, tx[q]) \subseteq met
  <2>1. Both(t, tx[q]) \subseteq met
    BY <1>10 DEF IInv, Apart, Meetings, t
  <2>2. Touched(t) = {t.r} /\ ~Ends(t) /\ ~Triages(t)
    BY <1>1, About
  <2>3. \A s : Puts(t, s) <=> ("sprint" \in DOMAIN t.patch /\ t.patch["sprint"] = s)
    BY <1>1, About
  <2>4. Touched(w) = {t.r} /\ ~Ends(w) /\ ~Triages(w) /\ w.r = t.r
    BY DEF Touched, Ends, Triages, Idle
  <2>5. \A s : Puts(w, s) => Puts(t, s)
    BY <1>8, <2>3 DEF Puts
  <2>6. Minds(w) <=> Minds(t)
    BY <2>2, <2>4 DEF Minds
  <2> HIDE DEF w
  <2> QED BY <2>1, <2>2, <2>4, <2>5, <2>6 DEF Both, Emptied
<1> HIDE DEF w
<1> QED BY <1>7, <1>9, <1>10, ApartEnters DEF IInv

\* Its commit, which books what it wrote.
LEMMA CommitApart ==
    ASSUME IInv, NEW p \in Requests, CommitRequirement(p)
    PROVE  Apart'
<1> DEFINE t == tx[p]
           row == Over(t.sets, req[t.r])
<1>1. IsWritten(t) /\ t.r \in DOMAIN req /\ Holds(t, DOMAIN req) /\ IsWrite(t.sets)
  BY DEF CommitRequirement, IInv, LockInv, HeldRight, RequestsTyped, Holds, IsWritten
<1>2. (t.r \notin met => InOrder(row, sprint)) /\ (None \notin met /\ t.follows => report.status # "Resolved")
  BY <1>1 DEF IInv, Apart, AllFresh, Fresh
<1>3. /\ req' = [req EXCEPT ![t.r] = row] /\ sprint' = sprint /\ End(p)
      /\ report' = IF t.follows THEN [report EXCEPT !.status = "InProgress"] ELSE report
  BY DEF CommitRequirement
<1>4. req[t.r] \in Row /\ RowsTyped /\ RowsInOrder /\ met' = met /\ DOMAIN report = {"status", "stamped"}
  BY <1>1, <1>3 DEF IInv, LockInv, RowsRight, RowsTyped, Apart, End
<1>5. row.sprint = IF "sprint" \in DOMAIN t.sets THEN t.sets["sprint"] ELSE req[t.r].sprint
  BY <1>1, <1>4, OverRow DEF Fields
<1>6. /\ DOMAIN req' = DOMAIN req
      /\ \A r \in DOMAIN req : req'[r] = IF r = t.r THEN row ELSE req[r]
  BY <1>1, <1>3
<1> HIDE DEF row
<1>7. RowsInOrder'
  <2>1. \A r \in DOMAIN req' \ met' : InOrder(req'[r], sprint')
    BY <1>2, <1>3, <1>4, <1>6 DEF RowsInOrder
  <2>2. None \notin met' => ResolvedIsStamped'
    BY <1>2, <1>3, <1>4 DEF RowsInOrder, ResolvedIsStamped
  <2> QED BY <2>1, <2>2 DEF RowsInOrder
<1>8. /\ Touched(t) = {t.r} /\ (t.follows => Minds(t))
      /\ \A s : Puts(t, s) <=> ("sprint" \in DOMAIN t.sets /\ t.sets["sprint"] = s)
  BY <1>1, About
<1>9. ASSUME NEW q \in Requests, q # p
      PROVE  Fresh(tx[q], req', sprint', report', met)
  <2> DEFINE u == tx[q]
  <2>1. Holds(u, DOMAIN req) /\ Fresh(u, req, sprint, report, met) /\ Both(t, u) \subseteq met
    BY <1>9 DEF IInv, LockInv, HeldRight, RequestsTyped, Apart, AllFresh, Meetings
  <2> HIDE DEF u, t
  <2>2. \A r \in Touched(u) \ met : r \in DOMAIN req => req'[r] = req[r]
    BY <1>6, <1>8, <2>1 DEF Both
  <2>3. IsEnd(u) => \A r \in DOMAIN req' \ met : req'[r].sprint = u.s => r \in DOMAIN req /\ req[r].sprint = u.s
    <3> SUFFICES ASSUME IsEnd(u), NEW r \in DOMAIN req' \ met, req'[r].sprint = u.s PROVE r \in DOMAIN req /\ req[r].sprint = u.s
      OBVIOUS
    <3>1. Ends(u)
      BY <2>1, About
    <3>2. Puts(t, u.s) => t.r \in met
      BY <2>1, <3>1 DEF Both, Emptied
    <3> QED BY <1>5, <1>6, <1>8, <3>2
  <2>4. None \notin met => /\ IsTriage(u) => report' = report
                           /\ IsWritten(u) /\ u.follows => report'.status # "Resolved"
    <3>1. IsTriage(u) => Triages(u)
      BY <2>1, About
    <3>2. Triages(u) /\ t.follows => None \in met
      BY <1>8, <2>1 DEF Both
    <3>3. None \notin met /\ IsWritten(u) /\ u.follows => report.status # "Resolved"
      BY <2>1 DEF Fresh
    <3> QED BY <1>3, <1>4, <3>1, <3>2, <3>3
  <2>5. Fresh(u, req', sprint', report', met)
    BY <1>3, <1>4, <1>6, <2>1, <2>2, <2>3, <2>4, OthersFresh
  <2> QED BY <2>5 DEF u
<1> QED BY <1>3, <1>7, <1>9, ApartEnds DEF IInv

\* A creation books the requirement it adds.
LEMMA CreateApart ==
    ASSUME IInv, NEW p \in Requests, Create(p)
    PROVE  Apart'
<1> DEFINE t == tx[p]
           row == [status |-> t.status, sprint |-> t.sprint, ranked |-> Unranked, from |-> None, archived |-> FALSE]
<1>1. IsCreate(t) /\ Holds(t, DOMAIN req) /\ (t.r \notin met /\ t.sprint # None => sprint[t.sprint] # "deleted")
  BY DEF Create, IInv, Apart, AllFresh, Fresh, IsCreate, LockInv, HeldRight, RequestsTyped
<1>2. t.r \notin met => InOrder(row, sprint)
  BY <1>1 DEF InOrder
<1>3. req' = Over(req, [r \in {t.r} |-> row]) /\ sprint' = sprint /\ report' = report /\ End(p)
  BY DEF Create
<1>4. row.sprint = t.sprint
  OBVIOUS
<1> HIDE DEF row
<1>5. DOMAIN req' = DOMAIN req \cup {t.r} /\ \A r \in DOMAIN req' : req'[r] = IF r \in DOMAIN req THEN req[r] ELSE row
  BY <1>3 DEF Over
<1>6. RowsTyped /\ RowsInOrder /\ met' = met
  BY <1>3 DEF IInv, LockInv, RowsRight, Apart, End
<1>7. RowsInOrder'
  BY <1>2, <1>3, <1>5, <1>6 DEF RowsInOrder, ResolvedIsStamped
<1>8. \A s : Puts(t, s) <=> t.sprint = s
  BY <1>1, About
<1>9. ASSUME NEW q \in Requests, q # p
      PROVE  Fresh(tx[q], req', sprint', report', met)
  <2> DEFINE u == tx[q]
  <2>1. Holds(u, DOMAIN req) /\ Fresh(u, req, sprint, report, met) /\ Both(t, u) \subseteq met
    BY <1>9 DEF IInv, LockInv, HeldRight, RequestsTyped, Apart, AllFresh, Meetings
  <2> HIDE DEF u, t
  <2>2. \A r \in Touched(u) \ met : r \in DOMAIN req => req'[r] = req[r]
    BY <1>5
  <2>3. IsEnd(u) => \A r \in DOMAIN req' \ met : req'[r].sprint = u.s => r \in DOMAIN req /\ req[r].sprint = u.s
    <3>1. IsEnd(u) => Ends(u)
      BY <2>1, About
    <3>2. Ends(u) /\ Puts(t, u.s) => t.r \in met
      BY <2>1 DEF Both, Emptied
    <3> QED BY <1>4, <1>5, <1>8, <3>1, <3>2
  <2>4. None \notin met /\ IsWritten(u) /\ u.follows => report'.status # "Resolved"
    BY <1>3, <2>1 DEF Fresh
  <2>5. Fresh(u, req', sprint', report', met)
    BY <1>3, <1>5, <1>6, <2>1, <2>2, <2>3, <2>4, OthersFresh
  <2> QED BY <2>5 DEF u
<1> QED BY <1>3, <1>7, <1>9, ApartEnds DEF IInv

\* An archived requirement is booked out.
LEMMA ArchiveApart ==
    ASSUME IInv, NEW p \in Requests, Archive(p)
    PROVE  Apart'
<1> DEFINE t == tx[p]
<1>1. End(p) /\ met' = met /\ RowsTyped /\ RowsInOrder /\ IsArchive(t) /\ Holds(t, DOMAIN req)
  BY DEF Archive, End, IInv, LockInv, RowsRight, HeldRight, RequestsTyped, Apart, IsArchive
<1>2. \A r \in DOMAIN req : req[r] \in Row
  BY <1>1 DEF RowsTyped
<1>3. \A row \in Row : LET new == [row EXCEPT !.archived = t.archived]
                       IN  new.sprint = row.sprint /\ (InOrder(row, sprint) => InOrder(new, sprint))
  BY DEF Row, InOrder
<1>4. /\ DOMAIN req' = DOMAIN req /\ sprint' = sprint /\ report' = report
      /\ \A r \in DOMAIN req : req'[r] = IF r = t.r THEN [req[r] EXCEPT !.archived = t.archived] ELSE req[r]
  BY DEF Archive
<1>5. RowsInOrder'
  BY <1>1, <1>2, <1>3, <1>4 DEF RowsInOrder, ResolvedIsStamped
<1>6. \A r \in DOMAIN req : req'[r].sprint = req[r].sprint
  BY <1>2, <1>3, <1>4
<1>7. Touched(t) = {t.r}
  BY <1>1, About
<1>8. ASSUME NEW q \in Requests, q # p
      PROVE  Fresh(tx[q], req', sprint', report', met)
  <2> DEFINE u == tx[q]
  <2>1. Holds(u, DOMAIN req) /\ Fresh(u, req, sprint, report, met) /\ Both(t, u) \subseteq met
    BY <1>8 DEF IInv, LockInv, HeldRight, RequestsTyped, Apart, AllFresh, Meetings
  <2> HIDE DEF u, t
  <2>2. \A r \in Touched(u) \ met : r \in DOMAIN req => req'[r] = req[r]
    BY <1>4, <1>7, <2>1 DEF Both
  <2>3. None \notin met /\ IsWritten(u) /\ u.follows => report'.status # "Resolved"
    BY <1>4, <2>1 DEF Fresh
  <2>4. Fresh(u, req', sprint', report', met)
    BY <1>1, <1>4, <1>6, <2>1, <2>2, <2>3, OthersFresh
  <2> QED BY <2>4 DEF u
<1> QED BY <1>1, <1>5, <1>8, ApartEnds DEF IInv

\* The end of a sprint returns the rows no other request is about whole, and leaves none of them in a
\* deleted sprint.
LEMMA SprintEndsApart ==
    ASSUME IInv, NEW p \in Requests, SprintEnds(p)
    PROVE  Apart'
<1> DEFINE t == tx[p]
<1>1. IsEnd(t) /\ Holds(t, DOMAIN req) /\ t.s \in Sprints /\ End(p) /\ met' = met
  BY DEF SprintEnds, IsEnd, IInv, LockInv, HeldRight, RequestsTyped, Holds, End
<1>2. /\ \A r \in DOMAIN t.found \ met : r \in DOMAIN req /\ t.found[r] = req[r]
      /\ t.op = "delete" => \A r \in DOMAIN req \ met : req[r].sprint = t.s => r \in DOMAIN t.found
  BY <1>1 DEF IInv, Apart, AllFresh, Fresh, Holds
<1>3. /\ req' = [r \in DOMAIN req |-> Returned(t)[r]] /\ report' = report
      /\ sprint' = [sprint EXCEPT ![t.s] = IF t.op = "delete" \/ @ = "deleted" THEN "deleted" ELSE "closed"]
  BY DEF SprintEnds, Returned
<1>4. /\ \A r \in DOMAIN req : req[r] \in Row
      /\ \A r \in DOMAIN req \ met : InOrder(req[r], sprint)
  BY DEF IInv, LockInv, RowsRight, RowsTyped, Apart, RowsInOrder
<1>5. \A x \in Sprints : sprint'[x] = "deleted" => sprint[x] = "deleted" \/ (t.op = "delete" /\ x = t.s)
  BY <1>1, <1>3 DEF IInv, LockInv, RowsRight, RowsTyped
<1>6. \A r \in DOMAIN req : req'[r].sprint = IF r \in DOMAIN t.found THEN None ELSE req[r].sprint
  BY <1>1, <1>3, ReturnedRow DEF IInv
<1>7. ASSUME NEW r \in DOMAIN req, r \in DOMAIN t.found \ met
      PROVE  InOrder(req'[r], sprint')
  <2> DEFINE new == [req[r] EXCEPT !.sprint = None, !.ranked = Unranked]
  <2>1. new \in Row /\ InOrder(new, sprint')
    BY <1>4, <1>7 DEF Row, Places, InOrder
  <2>2. req'[r] = Over(Changed(req[r], new, {}), req[r])
    BY <1>2, <1>3, <1>7 DEF Returned
  <2> HIDE DEF new
  <2> QED BY <1>4, <2>1, <2>2, ChangedWrite
<1>8. \A r \in DOMAIN req : r \notin DOMAIN t.found => req'[r] = req[r]
  BY <1>3 DEF Returned
<1>9. ASSUME NEW r \in DOMAIN req \ met, r \notin DOMAIN t.found
      PROVE  InOrder(req'[r], sprint')
  <2>1. req[r].sprint \in Sprints \cup {None}
    BY <1>4 DEF Row
  <2> QED BY <1>2, <1>4, <1>5, <1>8, <1>9, <2>1, OrderStays
<1>10. DOMAIN req' = DOMAIN req
  BY <1>3
<1>11. RowsInOrder'
  BY <1>1, <1>3, <1>7, <1>9, <1>10 DEF IInv, Apart, RowsInOrder, ResolvedIsStamped
<1>12. Touched(t) = DOMAIN t.found /\ Ends(t)
  BY <1>1, About
<1>13. ASSUME NEW q \in Requests, q # p
       PROVE  Fresh(tx[q], req', sprint', report', met)
  <2> DEFINE u == tx[q]
  <2>1. Holds(u, DOMAIN req) /\ Fresh(u, req, sprint, report, met) /\ Both(t, u) \subseteq met
    BY <1>13 DEF IInv, LockInv, HeldRight, RequestsTyped, Apart, AllFresh, Meetings
  <2> SUFFICES Fresh(u, req', sprint', report', met)
    OBVIOUS
  <2> HIDE DEF u, t
  <2>2. \A r \in Touched(u) \ met : r \in DOMAIN req => r \notin DOMAIN t.found /\ req'[r] = req[r]
    BY <1>8, <1>12, <2>1 DEF Both
  <2>3. Puts(u, t.s) => u.r \in met
    BY <1>12, <2>1 DEF Both, Emptied
  <2>4. CASE IsPatch(u)
    <3>1. /\ u.r \in Touched(u) /\ u.r \in DOMAIN req
          /\ \A s : Puts(u, s) <=> ("sprint" \in DOMAIN u.patch /\ u.patch["sprint"] = s)
          /\ "sprint" \in DOMAIN u.patch => u.patch["sprint"] \in Sprints \cup {None}
      BY <2>1, <2>4, About, PatchWrites DEF Holds
    <3>2. u.r \notin met => req'[u.r] = req[u.r]
      BY <2>2, <3>1
    <3>3. u.r \notin met /\ "sprint" \in DOMAIN u.patch /\ u.patch["sprint"] # None => sprint'[u.patch["sprint"]] # "deleted"
      BY <1>5, <2>1, <2>3, <2>4, <3>1 DEF Fresh
    <3> QED BY <2>1, <2>4, <3>2, <3>3 DEF Fresh, IsPatch, IsWritten, IsCreate, IsArchive, IsEnd, IsTriage
  <2>5. CASE IsWritten(u)
    <3> DEFINE row == Over(u.sets, req[u.r])
    <3>1. /\ u.r \in Touched(u) /\ u.r \in DOMAIN req /\ IsWrite(u.sets)
          /\ \A s : Puts(u, s) <=> ("sprint" \in DOMAIN u.sets /\ u.sets["sprint"] = s)
      BY <2>1, <2>5, About DEF Holds
    <3>2. u.r \notin met => req'[u.r] = req[u.r] /\ u.r \notin DOMAIN t.found /\ InOrder(row, sprint)
      BY <2>1, <2>2, <2>5, <3>1 DEF Fresh
    <3>3. /\ row.sprint = IF "sprint" \in DOMAIN u.sets THEN u.sets["sprint"] ELSE req[u.r].sprint
          /\ row.sprint \in Sprints \cup {None}
      <4>1. row \in Row /\ \A f \in Fields : row[f] = IF f \in DOMAIN u.sets THEN u.sets[f] ELSE req[u.r][f]
        BY <1>4, <3>1, OverRow
      <4> HIDE DEF row
      <4> QED BY <4>1 DEF Row, Fields
    <3> HIDE DEF row
    <3>4. u.r \notin met /\ t.op = "delete" => row.sprint # t.s
      BY <1>2, <2>3, <3>1, <3>2, <3>3
    <3>5. u.r \notin met => InOrder(row, sprint')
      BY <1>5, <3>2, <3>3, <3>4, OrderStays
    <3>6. u.r \notin met => InOrder(Over(u.sets, req'[u.r]), sprint')
      BY <3>2, <3>5 DEF row
    <3> QED BY <1>3, <2>1, <2>5, <3>6 DEF Fresh, IsPatch, IsWritten, IsCreate, IsArchive, IsEnd, IsTriage
  <2>6. CASE IsCreate(u)
    <3>1. u.sprint \in Sprints \cup {None} /\ \A s : Puts(u, s) <=> u.sprint = s
      BY <2>1, <2>6, About DEF Holds
    <3>2. u.r \notin met /\ u.sprint # None => sprint'[u.sprint] # "deleted"
      BY <1>5, <2>1, <2>3, <2>6, <3>1 DEF Fresh
    <3> QED BY <2>6, <3>2 DEF Fresh, IsPatch, IsWritten, IsCreate, IsArchive, IsEnd, IsTriage
  <2>7. CASE IsEnd(u)
    <3>1. DOMAIN u.found \subseteq DOMAIN req /\ Touched(u) = DOMAIN u.found /\ u.s \in Sprints
      BY <2>1, <2>7, About DEF Holds
    <3>2. \A r \in DOMAIN u.found \ met : u.found[r] = req'[r]
      BY <2>1, <2>2, <2>7, <3>1 DEF Fresh
    <3>3. u.op = "delete" => \A r \in DOMAIN req' \ met : req'[r].sprint = u.s => r \in DOMAIN u.found
      BY <1>6, <1>10, <2>1, <2>7, <3>1, BoardAssumption DEF Fresh
    <3> QED BY <2>7, <3>2, <3>3 DEF Fresh, IsPatch, IsWritten, IsCreate, IsArchive, IsEnd, IsTriage
  <2>8. CASE ~IsPatch(u) /\ ~IsWritten(u) /\ ~IsCreate(u) /\ ~IsEnd(u)
    BY <1>3, <2>1, <2>8 DEF Fresh
  <2> QED BY <2>4, <2>5, <2>6, <2>7, <2>8
<1> QED BY <1>1, <1>11, <1>13, ApartEnds DEF IInv

\* Triage touches no booked row, and a report nobody else is about.
LEMMA TriagedApart ==
    ASSUME IInv, NEW p \in Requests, Triaged(p)
    PROVE  Apart'
<1> DEFINE t == tx[p]
<1>1. /\ IsTriage(t) /\ Holds(t, DOMAIN req) /\ End(p) /\ UNCHANGED <<req, sprint>> /\ met' = met
      /\ RowsTyped /\ RowsInOrder
  BY DEF Triaged, IsTriage, End, IInv, LockInv, RowsRight, HeldRight, RequestsTyped, Apart
<1>2. None \notin met => t.was = report
  BY <1>1 DEF IInv, Apart, AllFresh, Fresh
<1>3. None \notin met => report'["status"] = t.status /\ report'["stamped"] = Stamped(t.status)
  <2> SUFFICES ASSUME None \notin met PROVE report'["status"] = t.status /\ report'["stamped"] = Stamped(t.status)
    OBVIOUS
  <2> DEFINE new == [status |-> t.status, stamped |-> Stamped(t.status)]
  <2>1. report' = [f \in {"status", "stamped"} |-> IF new[f] # report[f] THEN new[f] ELSE report[f]]
    BY <1>2, TriagedReport DEF IInv
  <2>2. new["status"] = t.status /\ new["stamped"] = Stamped(t.status)
    OBVIOUS
  <2> HIDE DEF new
  <2>3. report'["status"] = new["status"] /\ report'["stamped"] = new["stamped"]
    BY <2>1, Zenon
  <2> QED BY <2>2, <2>3, Zenon
<1>4. RowsInOrder'
  BY <1>1, <1>3 DEF RowsInOrder, ResolvedIsStamped, Stamped
<1>5. Triages(t) /\ Minds(t)
  BY <1>1, About
<1>6. ASSUME NEW q \in Requests, q # p
      PROVE  Fresh(tx[q], req', sprint', report', met)
  <2> DEFINE u == tx[q]
  <2>1. Holds(u, DOMAIN req) /\ Fresh(u, req, sprint, report, met) /\ Both(t, u) \subseteq met
    BY <1>6 DEF IInv, LockInv, HeldRight, RequestsTyped, Apart, AllFresh, Meetings
  <2> HIDE DEF u, t
  <2>2. Minds(u) => None \in met
    BY <1>5, <2>1 DEF Both
  <2>3. IsTriage(u) \/ (IsWritten(u) /\ u.follows) => Minds(u)
    BY <2>1, About
  <2>4. Fresh(u, req', sprint', report', met)
    BY <1>1, <2>1, <2>2, <2>3, OthersFresh
  <2> QED BY <2>4 DEF u
<1> QED BY <1>1, <1>4, <1>6, ApartEnds DEF IInv

-----------------------------------------------------------------------------
\* The initial boards satisfy the invariant.
THEOREM InitIInv == Init => IInv
<1> SUFFICES ASSUME Init PROVE IInv
  OBVIOUS
<1>1. DOMAIN req = {} /\ DOMAIN told = {} /\ DOMAIN member = {} /\ DOMAIN wins = {}
  BY DEF Init
<1>2. /\ req \in [{} -> Row] /\ told \in [{} -> WorkStatuses \cup {None}] /\ wins \in [{} -> Nat]
      /\ member \in [{} -> Sprints \cup {None}]
  BY DEF Init
<1>3. RowsRight
  BY <1>1, <1>2 DEF Init, RowsRight, RowsTyped, WonHasStarted, BurndownReadsTheRow
<1>4. \A p \in Requests : tx[p] = Idle
  BY DEF Init
<1>5. /\ Holds(Idle, DOMAIN req) /\ Fresh(Idle, req, sprint, report, met) /\ ~IsWritten(Idle)
  BY DEF Holds, Fresh, Idle, IsPatch, IsWritten, IsCreate, IsArchive, IsEnd, IsTriage
<1>6. HeldRight
  BY <1>4, <1>5 DEF Init, HeldRight, RequestsTyped, OneHolder, ClaimFound
<1>7. Apart
  <2>1. Meetings
    BY <1>4, BothIdle DEF Meetings
  <2> QED BY <1>1, <1>4, <1>5, <2>1 DEF Init, Apart, AllFresh, RowsInOrder, ResolvedIsStamped
<1> QED BY <1>3, <1>6, <1>7 DEF IInv, LockInv

\* Every step keeps the part of the invariant about locks and claims.
LEMMA NextKeeps == ASSUME LockInv, Next PROVE LockInv'
<1> PICK p \in Requests :
        \/ \E r \in Reqs :
              \/ \E patch \in Patches : UpdateRequirement(p, r, patch)
              \/ Claim(p, r)
              \/ \E status \in Born, s \in Sprints \cup {None} : CreateRequirement(p, r, status, s)
              \/ \E archived \in BOOLEAN : ArchiveRequirement(p, r, archived)
        \/ \E s \in Sprints : ReopenSprint(p, s) \/ \E op \in {"close", "delete"} : EndSprint(p, s, op)
        \/ \E status \in Triage : UpdateFeedback(p, status)
        \/ WriteRequirement(p) \/ CommitRequirement(p) \/ Create(p) \/ Archive(p) \/ SprintEnds(p) \/ Triaged(p)
  BY Zenon DEF Next
<1> QED BY Zenon, UpdateKeeps, ClaimKeeps, BeginCreateKeeps, BeginArchiveKeeps, ReopenKeeps, EndSprintKeeps,
           FeedbackKeeps, WriteKeeps, CommitKeeps, CreateKeeps, ArchiveKeeps, SprintEndsKeeps, TriagedKeeps

\* And the part about the rows that no two requests are about.
LEMMA NextApart == ASSUME IInv, Next PROVE Apart'
<1> PICK p \in Requests :
        \/ \E r \in Reqs :
              \/ \E patch \in Patches : UpdateRequirement(p, r, patch)
              \/ Claim(p, r)
              \/ \E status \in Born, s \in Sprints \cup {None} : CreateRequirement(p, r, status, s)
              \/ \E archived \in BOOLEAN : ArchiveRequirement(p, r, archived)
        \/ \E s \in Sprints : ReopenSprint(p, s) \/ \E op \in {"close", "delete"} : EndSprint(p, s, op)
        \/ \E status \in Triage : UpdateFeedback(p, status)
        \/ WriteRequirement(p) \/ CommitRequirement(p) \/ Create(p) \/ Archive(p) \/ SprintEnds(p) \/ Triaged(p)
  BY Zenon DEF Next
<1> QED BY Zenon, UpdateApart, ClaimApart, BeginCreateApart, BeginArchiveApart, ReopenApart, EndSprintApart,
           FeedbackApart, WriteApart, CommitApart, CreateApart, ArchiveApart, SprintEndsApart, TriagedApart

\* The claim, the burndown and the bookkeeping of what requests are apart on: what
\* every reachable state has, whatever requests are under way.
THEOREM Invariance == Spec => []IInv
<1>1. IInv /\ [Next]_vars => IInv'
  <2> SUFFICES ASSUME IInv, [Next]_vars PROVE IInv'
    OBVIOUS
  <2>1. CASE Next
    BY <2>1, NextKeeps, NextApart DEF IInv
  <2>2. CASE UNCHANGED vars
    <3>1. LockInv'
      BY <2>2 DEF vars, IInv, LockInv, RowsRight, HeldRight, RowsTyped, RequestsTyped, OneHolder, ClaimFound,
                  WonHasStarted, BurndownReadsTheRow
    <3>2. Apart'
      BY <2>2 DEF vars, IInv, Apart, Meetings, AllFresh, RowsInOrder, ResolvedIsStamped, Both, Touched, Minds, Puts,
                  Emptied, Ends, Triages
    <3> QED BY <3>1, <3>2 DEF IInv
  <2> QED BY <2>1, <2>2
<1> QED BY <1>1, InitIInv, PTL DEF Spec

\* Of the agents and people who claim one requirement at the same time, one
\* wins, and the next only once someone gave the requirement back
\* (service.py claim_requirement, agents.py queue_agent_run).
THEOREM ClaimsWonOnce == Spec => []ClaimWonOnce
<1>1. IInv => ClaimWonOnce
  BY DEF IInv, LockInv, RowsRight, RowsTyped, WonHasStarted, ClaimWonOnce
<1> QED BY <1>1, Invariance, PTL

\* However requests interleave, the sprint history and the events the burndown
\* is drawn from end in what the requirement's row holds (service.py sprint_burndown).
THEOREM BurndownIsTheRow == Spec => []BurndownReadsTheRow
<1>1. IInv => BurndownReadsTheRow
  BY DEF IInv, LockInv, RowsRight
<1> QED BY <1>1, Invariance, PTL

\* The bookkeeping that no lock protects (deleted sprints are empty, queue
\* positions stay where they were given, blocked_from goes with its stage and
\* resolved_at with its status) is right, however requests overlap, of every
\* requirement and report that no two requests under way at once were about.
THEOREM BookkeepingHolds == Spec => []BookkeepingWhereApart
<1>1. IInv => BookkeepingWhereApart
  <2> SUFFICES ASSUME IInv PROVE BookkeepingWhereApart
    OBVIOUS
  <2>1. RowsInOrder
    BY DEF IInv, Apart
  <2> QED BY <2>1 DEF RowsInOrder, InOrder, BookkeepingWhereApart, OutOfDeleted, Scoped, Remembers
<1> QED BY <1>1, Invariance, PTL

-----------------------------------------------------------------------------
(* The versions of a project (ProjectVersions).                               *)
(*                                                                            *)
(* What a row marked uploaded is worth rests on what the request that marks   *)
(* it has seen: an object it copied, or judged (BytesInv). What a key is worth*)
(* to a caller who sends it again rests on the unique index: what somebody    *)
(* was or will be answered, the lookup still finds (RetryInv).                *)

(* What a request under way carries, by how far it is.                        *)
Call(c) ==
    \/ c.at \in {"idle", "judged", "erased"}
    \/ c.at = "new" /\ c = [at |-> c.at, s |-> c.s, key |-> c.key, lock |-> c.lock]
    \/ /\ c.at \in {"numbered", "inserted"}
       /\ c = [at |-> c.at, s |-> c.s, key |-> c.key, lock |-> c.lock, no |-> c.no]
    \/ /\ c.at = "copying"
       /\ c = [at |-> c.at, s |-> c.s, key |-> c.key, v |-> c.v, work |-> c.work, copied |-> c.copied]

CallsOK == DOMAIN calls = Requests /\ \A p \in Requests : Call(calls[p])

(* An object that was written: it is there, or a delete took it.              *)
HasBytes(d) == d \in DOMAIN bytes \cup erased

CopiesHaveBytes ==
    \A p \in Requests : calls[p].at = "copying" => \A f \in calls[p].copied : HasBytes(<<calls[p].v, f>>)

VerdictHasBytes ==
    \A p \in Requests : calls[p].at = "judged" /\ calls[p].verdict = "good" => HasBytes(calls[p].d)

BytesInv == CallsOK /\ CopiesHaveBytes /\ VerdictHasBytes /\ UploadedHasBytes

(* A version has a number never given again, and so has its parent.           *)
VersionRow(r) ==
    /\ r = [no |-> r.no, parent |-> r.parent, key |-> r.key, locked |-> r.locked]
    /\ r.parent \in (1..made) \cup {None}

VersionRows ==
    /\ made \in Nat /\ DOMAIN proj \subseteq 1..made
    /\ \A v \in DOMAIN proj : VersionRow(proj[v])

(* What callers were answered, and what those still copying will be.          *)
Copied(p) == <<calls[p].s, calls[p].key, calls[p].v>>
Versions == answered \cup {Copied(p) : p \in {q \in Requests : calls[q].at = "copying"}}

(* As long as it and its source are there, such a version is one the key finds. *)
Found(c) == c[1] \in DOMAIN proj /\ c[3] \in DOMAIN proj => c[3] \in V!Made(c[1], c[2])

VersionsFound == \A c \in Versions : c[1] \in 1..made /\ c[3] \in 1..made /\ Found(c)

Agreed(a, b) == a[1] = b[1] /\ a[2] = b[2] /\ {a[3], b[3]} \subseteq DOMAIN proj => a[3] = b[3]

VersionsAgree == \A a, b \in Versions : Agreed(a, b)

(* The unique index on (parent, key).                                         *)
MadeOnce ==
    \A v, w \in DOMAIN proj :
        /\ proj[v].parent \in DOMAIN proj
        /\ proj[v].parent = proj[w].parent /\ proj[v].key = proj[w].key
        => v = w

SameRetry(p, q) == calls[p].s = calls[q].s /\ calls[p].key = calls[q].key

Unmade(p) == calls[p].s \in DOMAIN proj /\ V!Made(calls[p].s, calls[p].key) = {}

(* An uncommitted row is the only one of its source and key, and holds the source. *)
InsertedAlone ==
    \A p \in Requests : calls[p].at = "inserted" =>
        /\ Unmade(p)
        /\ \A q \in Requests : calls[q].at = "inserted" /\ SameRetry(p, q) => p = q

RetryInv == CallsOK /\ VersionRows /\ VersionsFound /\ VersionsAgree /\ MadeOnce /\ InsertedAlone

-----------------------------------------------------------------------------
(* The requests.                                                              *)

\* V!Step changes one request (every handler of projects.py and documents.py is a request of its own).
LEMMA StepFacts ==
    ASSUME CallsOK, NEW p \in Requests, NEW t, V!Step(p, t)
    PROVE  /\ DOMAIN calls' = Requests /\ calls'[p] = t
           /\ \A q \in Requests : q # p => calls'[q] = calls[q]
BY DEF V!Step, CallsOK

\* A step that puts a request in form keeps them all in form.
LEMMA StepCalls ==
    ASSUME CallsOK, NEW p \in Requests, NEW t, V!Step(p, t), Call(t)
    PROVE  CallsOK'
<1>1. \A q \in Requests : Call(calls'[q])
  BY StepFacts DEF CallsOK
<1> QED BY <1>1, StepFacts DEF CallsOK, Call

CopyDone(c, work, copied) == [c EXCEPT !.work = work, !.copied = copied]

\* A copy done (finish_document_copies) changes nothing else of its request.
LEMMA CopyCall ==
    ASSUME NEW c, c.at = "copying", Call(c), NEW work, NEW copied
    PROVE  LET t == CopyDone(c, work, copied)
           IN  /\ Call(t) /\ t.at = "copying" /\ t.s = c.s /\ t.key = c.key /\ t.v = c.v
               /\ t.work = work /\ t.copied = copied
<1> DEFINE t == [c EXCEPT !.work = work, !.copied = copied]
<1>1. PICK at, s, key, v, w, f : c = [at |-> at, s |-> s, key |-> key, v |-> v, work |-> w, copied |-> f]
  BY DEF Call
<1>2. t \in [at : {at}, s : {s}, key : {key}, v : {v}, work : {work}, copied : {copied}]
  BY <1>1
<1> HIDE DEF t
<1>3. t.at = "copying" /\ t.s = c.s /\ t.key = c.key /\ t.v = c.v /\ t.work = work /\ t.copied = copied
  BY <1>1, <1>2
<1>4. Call(t)
  BY <1>2, <1>3 DEF Call
<1> QED BY <1>3, <1>4 DEF t, CopyDone

\* No request has begun.
LEMMA CallsInit == V!Init => CallsOK
BY DEF V!Init, V!Idle, CallsOK, Call

\* A request that has not begun is in form.
LEMMA IdleCall == Call(V!Idle)
BY DEF V!Idle, Call

\* Every step keeps them in form.
LEMMA CallsNext == ASSUME CallsOK, [V!Next]_V!vars PROVE CallsOK'
<1> USE IdleCall
<1>0. CASE UNCHANGED calls
  BY <1>0 DEF CallsOK, Call
<1>1. ASSUME NEW p \in Requests, V!Number(p) PROVE CallsOK'
  <2> DEFINE t == [at |-> "numbered", s |-> calls[p].s, key |-> calls[p].key, lock |-> calls[p].lock,
                   no |-> 1 + V!Max({0} \cup {proj[v].no : v \in DOMAIN proj})]
  <2>1. V!Step(p, t)
    BY <1>1 DEF V!Number
  <2>2. Call(t)
    BY DEF Call
  <2> QED BY <2>1, <2>2, StepCalls
<1>2. ASSUME NEW p \in Requests, V!Insert(p) PROVE CallsOK'
  <2> DEFINE t == [calls[p] EXCEPT !.at = "inserted"]
  <2>1. V!Step(p, t) \/ V!Step(p, V!Idle)
    BY <1>2 DEF V!Insert, V!End
  <2>2. Call(calls[p]) /\ calls[p].at = "numbered"
    BY <1>2 DEF V!Insert, CallsOK
  <2>3. Call(t)
    BY <2>2 DEF Call
  <2> QED BY <2>1, <2>3, StepCalls
<1>3. ASSUME NEW p \in Requests, V!CommitVersion(p) PROVE CallsOK'
  <2> DEFINE t == [at |-> "copying", s |-> calls[p].s, key |-> calls[p].key, v |-> made + 1,
                   work |-> V!Uploaded(calls[p].s), copied |-> {}]
  <2>1. V!Step(p, t)
    BY <1>3 DEF V!CommitVersion
  <2>2. Call(t)
    BY DEF Call
  <2> QED BY <2>1, <2>2, StepCalls
<1>4. ASSUME NEW p \in Requests, NEW f \in Files, V!CopyObject(p, f) PROVE CallsOK'
  <2> DEFINE there == <<calls[p].s, f>> \in DOMAIN bytes
             copied == IF there THEN calls[p].copied \cup {f} ELSE calls[p].copied
             t == CopyDone(calls[p], calls[p].work \ {f}, copied)
  <2>1. V!Step(p, t)
    BY <1>4 DEF V!CopyObject, CopyDone
  <2>2. Call(calls[p]) /\ calls[p].at = "copying"
    BY <1>4 DEF V!CopyObject, CallsOK
  <2> HIDE DEF copied
  <2>3. Call(t)
    BY <2>2, CopyCall
  <2> QED BY <2>1, <2>3, StepCalls
<1>5. ASSUME NEW p \in Requests,
             V!FinishCopies(p) \/ V!Confirmed(p) \/ V!DeleteRow(p) \/ V!Die(p)
      PROVE  CallsOK'
  BY <1>5, StepCalls DEF V!FinishCopies, V!Confirmed, V!DeleteRow, V!Die, V!End
<1>6. ASSUME NEW p \in Requests, V!EraseObject(p) PROVE CallsOK'
  <2> DEFINE t == [at |-> "erased", d |-> calls[p].d]
  <2>1. V!Step(p, t)
    BY <1>6 DEF V!EraseObject
  <2>2. Call(t)
    BY DEF Call
  <2> QED BY <2>1, <2>2, StepCalls
<1>7. ASSUME NEW p \in Requests, NEW v, NEW key, NEW lock, V!CreateVersion(p, v, key, lock) PROVE CallsOK'
  <2> DEFINE t == [at |-> "new", s |-> v, key |-> key, lock |-> lock]
  <2>1. V!Step(p, t) \/ UNCHANGED calls
    BY <1>7 DEF V!CreateVersion
  <2>2. Call(t)
    BY DEF Call
  <2> QED BY <2>1, <2>2, StepCalls, <1>0
<1>8. ASSUME NEW p \in Requests, NEW v, NEW f, V!ConfirmDocument(p, v, f) PROVE CallsOK'
  <2> DEFINE t == [at |-> "judged", d |-> <<v, f>>, verdict |-> bytes[<<v, f>>]]
  <2>1. V!Step(p, t)
    BY <1>8 DEF V!ConfirmDocument, V!Begin
  <2>2. Call(t)
    BY DEF Call
  <2> QED BY <2>1, <2>2, StepCalls
<1>9. ASSUME NEW p \in Requests, NEW v, NEW f, V!DeleteDocument(p, v, f) PROVE CallsOK'
  <2> DEFINE t == [at |-> "judged", d |-> <<v, f>>, verdict |-> "deleted"]
  <2>1. V!Step(p, t)
    BY <1>9 DEF V!DeleteDocument, V!Begin
  <2>2. Call(t)
    BY DEF Call
  <2> QED BY <2>1, <2>2, StepCalls
<1>10. ASSUME NEW v, \/ V!DeleteProject(v)
                     \/ \E locked \in BOOLEAN : V!SetLock(v, locked)
                     \/ \E f \in Files : V!CreateDocument(v, f)
       PROVE CallsOK'
  BY <1>0, <1>10 DEF V!DeleteProject, V!SetLock, V!CreateDocument
<1>11. ASSUME NEW f \in Files, NEW content, V!Put(f, content) PROVE CallsOK'
  BY <1>0, <1>11 DEF V!Put
<1>12. CASE UNCHANGED V!vars
  BY <1>0, <1>12 DEF V!vars
<1> QED BY <1>1, <1>2, <1>3, <1>4, <1>5, <1>6, <1>7, <1>8, <1>9, <1>10, <1>11, <1>12 DEF V!Next, V!Proceed

-----------------------------------------------------------------------------
(* The bytes of a document.                                                   *)

\* What Over and Drop make of a function (an insert or a delete of rows).
LEMMA OverFacts ==
    ASSUME NEW f, NEW g
    PROVE  /\ DOMAIN V!Over(f, g) = DOMAIN f \cup DOMAIN g
           /\ \A x \in DOMAIN f : V!Over(f, g)[x] = f[x]
           /\ \A x \in DOMAIN g \ DOMAIN f : V!Over(f, g)[x] = g[x]
BY DEF V!Over

\* What is left of a table without some of its rows.
LEMMA DropFacts ==
    ASSUME NEW f, NEW S
    PROVE  /\ DOMAIN V!Drop(f, S) = DOMAIN f \ S
           /\ \A x \in DOMAIN f \ S : V!Drop(f, S)[x] = f[x]
BY DEF V!Drop, V!Restrict

\* Nothing but a delete or a rejection takes an object, and both are remembered (documents.py, storage.py).
LEMMA BytesStay ==
    ASSUME [V!Next]_V!vars, NEW d, HasBytes(d)
    PROVE  HasBytes(d)'
<1>1. ASSUME NEW f, bytes' = V!Over(f, bytes), erased' = erased PROVE HasBytes(d)'
  BY <1>1, OverFacts DEF HasBytes
<1>2. CASE UNCHANGED <<bytes, erased>>
  BY <1>2 DEF HasBytes
<1>3. ASSUME NEW p \in Requests, NEW f, V!CopyObject(p, f) PROVE HasBytes(d)'
  BY <1>1, <1>2, <1>3 DEF V!CopyObject
<1>4. ASSUME NEW f, NEW content, V!Put(f, content) PROVE HasBytes(d)'
  BY <1>1, <1>4 DEF V!Put
<1>5. ASSUME NEW p \in Requests, V!EraseObject(p) PROVE HasBytes(d)'
  <2>1. /\ DOMAIN bytes' = DOMAIN bytes \ {calls[p].d}
        /\ erased' = erased \cup {calls[p].d}
    BY <1>5, DropFacts DEF V!EraseObject
  <2> QED BY <2>1 DEF HasBytes
<1>6. ASSUME NEW p \in Requests,
             \/ V!Number(p) \/ V!Insert(p) \/ V!CommitVersion(p) \/ V!FinishCopies(p)
             \/ V!Confirmed(p) \/ V!DeleteRow(p) \/ V!Die(p)
      PROVE  HasBytes(d)'
  BY <1>2, <1>6 DEF V!Number, V!Insert, V!CommitVersion, V!FinishCopies, V!Confirmed, V!DeleteRow, V!Die, V!store
<1>7. ASSUME NEW p \in Requests, NEW v,
             \/ \E key \in Keys, lock \in BOOLEAN : V!CreateVersion(p, v, key, lock)
             \/ \E f \in Files : V!ConfirmDocument(p, v, f) \/ V!DeleteDocument(p, v, f)
      PROVE  HasBytes(d)'
  BY <1>2, <1>7 DEF V!CreateVersion, V!ConfirmDocument, V!DeleteDocument, V!Begin, V!store
<1>8. ASSUME NEW v,
             \/ V!DeleteProject(v) \/ \E locked \in BOOLEAN : V!SetLock(v, locked)
             \/ \E f \in Files : V!CreateDocument(v, f)
      PROVE  HasBytes(d)'
  BY <1>2, <1>8 DEF V!DeleteProject, V!SetLock, V!CreateDocument
<1>9. CASE UNCHANGED V!vars
  BY <1>2, <1>9 DEF V!vars
<1> QED BY <1>3, <1>4, <1>5, <1>6, <1>7, <1>8, <1>9 DEF V!Next, V!Proceed

\* At first there is no document.
LEMMA BytesInit == V!Init => BytesInv
BY CallsInit DEF V!Init, V!Idle, BytesInv, CopiesHaveBytes, VerdictHasBytes, UploadedHasBytes, V!UploadedHasBytes

\* A copy counts once its object is written (finish_document_copies).
LEMMA CopiesNext ==
    ASSUME BytesInv, [V!Next]_V!vars
    PROVE  CopiesHaveBytes'
<1>1. SUFFICES ASSUME NEW q \in Requests, calls'[q].at = "copying", NEW g \in calls'[q].copied
               PROVE  HasBytes(<<calls[q].v, g>>)'
  BY DEF CopiesHaveBytes
<1>2. CallsOK /\ CallsOK'
  BY CallsNext DEF BytesInv
<1>3. CASE calls'[q] = calls[q]
  <2>1. HasBytes(<<calls[q].v, g>>)
    BY <1>1, <1>3 DEF BytesInv, CopiesHaveBytes
  <2> QED BY <2>1, <1>3, BytesStay
<1>4. ASSUME NEW p \in Requests, NEW f \in Files, V!CopyObject(p, f), calls'[q] # calls[q]
      PROVE  HasBytes(<<calls[q].v, g>>)'
  <2> DEFINE there == <<calls[p].s, f>> \in DOMAIN bytes
             copied == IF there THEN calls[p].copied \cup {f} ELSE calls[p].copied
             t == CopyDone(calls[p], calls[p].work \ {f}, copied)
  <2>1. V!Step(p, t) /\ calls[p].at = "copying"
    BY <1>4 DEF V!CopyObject, CopyDone
  <2>2. p = q /\ calls'[q] = t
    BY <2>1, <1>2, <1>4, StepFacts
  <2>3. Call(calls[p])
    BY <1>2 DEF CallsOK
  <2> HIDE DEF copied
  <2>4. t.v = calls[p].v /\ t.copied = copied
    BY <2>1, <2>3, CopyCall
  <2> HIDE DEF t
  <2>5. CASE g \in calls[q].copied
    <3>1. HasBytes(<<calls[q].v, g>>)
      BY <2>1, <2>2, <2>5 DEF BytesInv, CopiesHaveBytes
    <3> QED BY <3>1, <2>2, <2>4, BytesStay
  <2>6. CASE g = f /\ there
    <3> DEFINE o == [d \in {<<calls[p].v, f>>} |-> bytes[<<calls[p].s, f>>]]
    <3>1. bytes' = V!Over(o, bytes) /\ <<calls[p].v, f>> \in DOMAIN o
      BY <1>4, <2>6 DEF V!CopyObject
    <3> HIDE DEF o
    <3>2. <<calls[p].v, f>> \in DOMAIN bytes'
      BY <3>1, OverFacts
    <3> QED BY <3>2, <2>2, <2>4, <2>6 DEF HasBytes
  <2> QED BY <1>1, <2>2, <2>4, <2>5, <2>6 DEF copied
<1>5. ASSUME NEW p \in Requests, V!CommitVersion(p), calls'[q] # calls[q] PROVE FALSE
  <2> DEFINE t == [at |-> "copying", s |-> calls[p].s, key |-> calls[p].key, v |-> made + 1,
                   work |-> V!Uploaded(calls[p].s), copied |-> {}]
  <2>1. V!Step(p, t)
    BY <1>5 DEF V!CommitVersion
  <2>2. calls'[q] = t
    BY <2>1, <1>2, <1>5, StepFacts
  <2>3. t.copied = {}
    OBVIOUS
  <2> QED BY <1>1, <2>2, <2>3
<1>6. ASSUME NEW p \in Requests, NEW t, V!Step(p, t), t.at # "copying" PROVE calls'[q] = calls[q]
  BY <1>1, <1>2, <1>6, StepFacts
<1>7. ASSUME NEW p \in Requests, V!Number(p) PROVE calls'[q] = calls[q]
  BY <1>6, <1>7 DEF V!Number
<1>8. ASSUME NEW p \in Requests, V!Insert(p) PROVE calls'[q] = calls[q]
  <2>1. Call(calls[p]) /\ calls[p].at = "numbered"
    BY <1>2, <1>8 DEF CallsOK, V!Insert
  <2>2. [calls[p] EXCEPT !.at = "inserted"].at = "inserted"
    BY <2>1 DEF Call
  <2> QED BY <2>2, <1>6, <1>8 DEF V!Insert, V!End, V!Idle
<1>9. ASSUME NEW p \in Requests,
             V!FinishCopies(p) \/ V!Confirmed(p) \/ V!DeleteRow(p) \/ V!Die(p)
      PROVE  calls'[q] = calls[q]
  BY <1>6, <1>9 DEF V!FinishCopies, V!Confirmed, V!DeleteRow, V!Die, V!End, V!Idle
<1>10. ASSUME NEW p \in Requests, V!EraseObject(p) PROVE calls'[q] = calls[q]
  BY <1>6, <1>10 DEF V!EraseObject
<1>11. ASSUME NEW p \in Requests, NEW v, NEW key, NEW lock, V!CreateVersion(p, v, key, lock)
       PROVE  calls'[q] = calls[q]
  BY <1>6, <1>11 DEF V!CreateVersion
<1>12. ASSUME NEW p \in Requests, NEW v, NEW f, V!ConfirmDocument(p, v, f) \/ V!DeleteDocument(p, v, f)
       PROVE  calls'[q] = calls[q]
  BY <1>6, <1>12 DEF V!ConfirmDocument, V!DeleteDocument, V!Begin
<1>13. ASSUME NEW v, \/ V!DeleteProject(v) \/ \E locked \in BOOLEAN : V!SetLock(v, locked)
                     \/ \E f \in Files : V!CreateDocument(v, f)
       PROVE  calls'[q] = calls[q]
  BY <1>13 DEF V!DeleteProject, V!SetLock, V!CreateDocument
<1>14. ASSUME NEW f \in Files, NEW content, V!Put(f, content) PROVE calls'[q] = calls[q]
  BY <1>14 DEF V!Put
<1>15. CASE UNCHANGED V!vars
  BY <1>3, <1>15 DEF V!vars
<1> QED BY <1>3, <1>4, <1>5, <1>7, <1>8, <1>9, <1>10, <1>11, <1>12, <1>13, <1>14, <1>15 DEF V!Next, V!Proceed

\* An object is judged while it is there; a confirmation may come after it is gone (documents.py).
LEMMA VerdictsNext ==
    ASSUME BytesInv, [V!Next]_V!vars
    PROVE  VerdictHasBytes'
<1>1. SUFFICES ASSUME NEW q \in Requests, calls'[q].at = "judged", calls'[q].verdict = "good"
               PROVE  calls'[q].d \in DOMAIN bytes' \cup erased'
  BY DEF VerdictHasBytes, HasBytes
<1>2. CallsOK
  BY DEF BytesInv
<1>3. CASE calls'[q] = calls[q]
  BY <1>1, <1>3, BytesStay DEF BytesInv, VerdictHasBytes, HasBytes
<1>4. ASSUME NEW p \in Requests, NEW t, V!Step(p, t), t.at # "judged" PROVE calls'[q] = calls[q]
  BY <1>1, <1>2, <1>4, StepFacts
<1>5. ASSUME NEW p \in Requests, NEW v, NEW f, V!ConfirmDocument(p, v, f), calls'[q] # calls[q]
      PROVE  calls'[q].d \in DOMAIN bytes' \cup erased'
  <2> DEFINE t == [at |-> "judged", d |-> <<v, f>>, verdict |-> bytes[<<v, f>>]]
  <2>1. V!Step(p, t) /\ <<v, f>> \in DOMAIN bytes
    BY <1>5 DEF V!ConfirmDocument, V!Begin
  <2>2. calls'[q] = t
    BY <2>1, <1>2, <1>5, StepFacts
  <2>3. calls'[q].d = <<v, f>>
    BY <2>2
  <2>4. HasBytes(<<v, f>>)
    BY <2>1 DEF HasBytes
  <2> QED BY <2>3, <2>4, BytesStay DEF HasBytes
<1>6. ASSUME NEW p \in Requests, NEW v, NEW f, V!DeleteDocument(p, v, f), calls'[q] # calls[q] PROVE FALSE
  <2> DEFINE t == [at |-> "judged", d |-> <<v, f>>, verdict |-> "deleted"]
  <2>1. V!Step(p, t)
    BY <1>6 DEF V!DeleteDocument, V!Begin
  <2>2. calls'[q] = t
    BY <2>1, <1>2, <1>6, StepFacts
  <2> QED BY <1>1, <2>2
<1>7. ASSUME NEW p \in Requests, V!Number(p) \/ V!CommitVersion(p) \/ V!EraseObject(p)
      PROVE  calls'[q] = calls[q]
  BY <1>4, <1>7 DEF V!Number, V!CommitVersion, V!EraseObject
<1>8. ASSUME NEW p \in Requests, V!Insert(p) PROVE calls'[q] = calls[q]
  <2>1. Call(calls[p]) /\ calls[p].at = "numbered"
    BY <1>2, <1>8 DEF CallsOK, V!Insert
  <2>2. [calls[p] EXCEPT !.at = "inserted"].at = "inserted"
    BY <2>1 DEF Call
  <2> QED BY <2>2, <1>4, <1>8 DEF V!Insert, V!End, V!Idle
<1>9. ASSUME NEW p \in Requests, NEW f, V!CopyObject(p, f) PROVE calls'[q] = calls[q]
  <2> DEFINE there == <<calls[p].s, f>> \in DOMAIN bytes
             copied == IF there THEN calls[p].copied \cup {f} ELSE calls[p].copied
             t == CopyDone(calls[p], calls[p].work \ {f}, copied)
  <2>1. V!Step(p, t) /\ calls[p].at = "copying"
    BY <1>9 DEF V!CopyObject, CopyDone
  <2>2. Call(calls[p])
    BY <1>2 DEF CallsOK
  <2> HIDE DEF copied
  <2>3. t.at = "copying"
    BY <2>1, <2>2, CopyCall
  <2> QED BY <2>1, <2>3, <1>4
<1>10. ASSUME NEW p \in Requests,
              V!FinishCopies(p) \/ V!Confirmed(p) \/ V!DeleteRow(p) \/ V!Die(p)
       PROVE  calls'[q] = calls[q]
  BY <1>4, <1>10 DEF V!FinishCopies, V!Confirmed, V!DeleteRow, V!Die, V!End, V!Idle
<1>11. ASSUME NEW p \in Requests, NEW v, NEW key, NEW lock, V!CreateVersion(p, v, key, lock)
       PROVE  calls'[q] = calls[q]
  BY <1>4, <1>11 DEF V!CreateVersion
<1>12. ASSUME NEW v, \/ V!DeleteProject(v) \/ \E locked \in BOOLEAN : V!SetLock(v, locked)
                     \/ \E f \in Files : V!CreateDocument(v, f)
       PROVE  calls'[q] = calls[q]
  BY <1>12 DEF V!DeleteProject, V!SetLock, V!CreateDocument
<1>13. ASSUME NEW f \in Files, NEW content, V!Put(f, content) PROVE calls'[q] = calls[q]
  BY <1>13 DEF V!Put
<1>14. CASE UNCHANGED V!vars
  BY <1>3, <1>14 DEF V!vars
<1> QED BY <1>3, <1>5, <1>6, <1>7, <1>8, <1>9, <1>10, <1>11, <1>12, <1>13, <1>14 DEF V!Next, V!Proceed

\* A row is marked uploaded by the request that copied its object, or saw it.
LEMMA UploadedNext ==
    ASSUME BytesInv, [V!Next]_V!vars
    PROVE  UploadedHasBytes'
<1> USE DEF UploadedHasBytes, V!UploadedHasBytes
<1>1. SUFFICES ASSUME NEW d \in DOMAIN doc', doc'[d] = "uploaded"
               PROVE  d \in DOMAIN bytes' \cup erased'
  OBVIOUS
<1>2. CASE d \in DOMAIN doc /\ doc[d] = "uploaded"
  <2>1. HasBytes(d)
    BY <1>2 DEF BytesInv, HasBytes
  <2> QED BY <2>1, BytesStay DEF HasBytes
<1>3. SUFFICES ASSUME ~(d \in DOMAIN doc /\ doc[d] = "uploaded")
               PROVE  d \in DOMAIN bytes' \cup erased'
  BY <1>2
<1>4. ASSUME doc' = doc PROVE FALSE
  BY <1>1, <1>3, <1>4
<1>5. ASSUME NEW S, doc' = V!Drop(doc, S) PROVE FALSE
  <2>1. DOMAIN doc' = DOMAIN doc \ S /\ \A x \in DOMAIN doc \ S : doc'[x] = doc[x]
    BY <1>5, DropFacts
  <2> QED BY <1>1, <1>3, <2>1
<1>6. ASSUME NEW S, doc' = V!Over([x \in S |-> "pending"], doc) PROVE FALSE
  <2> DEFINE o == [x \in S |-> "pending"]
  <2>1. \A x \in DOMAIN o : o[x] = "pending"
    OBVIOUS
  <2>2. doc' = V!Over(o, doc)
    BY <1>6
  <2> HIDE DEF o
  <2>3. /\ DOMAIN doc' = DOMAIN o \cup DOMAIN doc
        /\ \A x \in DOMAIN o : doc'[x] = o[x]
        /\ \A x \in DOMAIN doc \ DOMAIN o : doc'[x] = doc[x]
    BY <2>2 DEF V!Over
  <2> QED BY <1>1, <1>3, <2>1, <2>3
<1>7. ASSUME NEW p \in Requests, V!FinishCopies(p) PROVE d \in DOMAIN bytes' \cup erased'
  <2> DEFINE S == V!Arrived(calls[p])
             o == [x \in S |-> "uploaded"]
  <2>1. doc' = V!Over(o, doc) /\ calls[p].at = "copying" /\ DOMAIN o = S
    BY <1>7 DEF V!FinishCopies
  <2> HIDE DEF o
  <2>2. /\ DOMAIN doc' = DOMAIN o \cup DOMAIN doc
        /\ \A x \in DOMAIN doc \ DOMAIN o : doc'[x] = doc[x]
    BY <2>1 DEF V!Over
  <2>3. d \in S
    BY <1>1, <1>3, <2>1, <2>2
  <2>4. PICK f \in calls[p].copied : d = <<calls[p].v, f>>
    BY <2>3 DEF V!Arrived
  <2>5. HasBytes(d)
    BY <2>1, <2>4 DEF BytesInv, CopiesHaveBytes
  <2> QED BY <2>5, BytesStay DEF HasBytes
<1>8. ASSUME NEW p \in Requests, V!Confirmed(p) PROVE d \in DOMAIN bytes' \cup erased'
  <2>1. d = calls[p].d
    BY <1>1, <1>3, <1>8 DEF V!Confirmed
  <2>2. HasBytes(d)
    BY <1>8, <2>1 DEF V!Confirmed, BytesInv, VerdictHasBytes
  <2> QED BY <2>2, BytesStay DEF HasBytes
<1>9. ASSUME NEW p \in Requests, V!CommitVersion(p) PROVE FALSE
  BY <1>6, <1>9 DEF V!CommitVersion
<1>10. ASSUME NEW p \in Requests,
              \/ V!Number(p) \/ V!Insert(p) \/ V!EraseObject(p) \/ V!Die(p)
              \/ \E f \in Files : V!CopyObject(p, f)
       PROVE  FALSE
  BY <1>4, <1>10 DEF V!Number, V!Insert, V!EraseObject, V!Die, V!CopyObject, V!store
<1>11. ASSUME NEW p \in Requests, V!DeleteRow(p) PROVE FALSE
  BY <1>5, <1>11 DEF V!DeleteRow
<1>12. ASSUME NEW p \in Requests, NEW v,
              \/ \E key \in Keys, lock \in BOOLEAN : V!CreateVersion(p, v, key, lock)
              \/ \E f \in Files : V!ConfirmDocument(p, v, f) \/ V!DeleteDocument(p, v, f)
       PROVE  FALSE
  BY <1>4, <1>12 DEF V!CreateVersion, V!ConfirmDocument, V!DeleteDocument, V!Begin, V!store
<1>13. ASSUME NEW v, V!DeleteProject(v) PROVE FALSE
  BY <1>5, <1>13 DEF V!DeleteProject
<1>14. ASSUME NEW v, \E locked \in BOOLEAN : V!SetLock(v, locked) PROVE FALSE
  BY <1>4, <1>14 DEF V!SetLock
<1>15. ASSUME NEW v, NEW f, V!CreateDocument(v, f) PROVE FALSE
  BY <1>6, <1>15 DEF V!CreateDocument
<1>16. ASSUME NEW f, NEW content, V!Put(f, content) PROVE FALSE
  BY <1>4, <1>16 DEF V!Put
<1>17. CASE UNCHANGED V!vars
  BY <1>4, <1>17 DEF V!vars
<1> QED BY <1>7, <1>8, <1>9, <1>10, <1>11, <1>12, <1>13, <1>14, <1>15, <1>16, <1>17 DEF V!Next, V!Proceed

\* The inductive invariant of documents and their objects.
THEOREM BytesInvariance == V!Spec => []BytesInv
<1>1. ASSUME BytesInv, [V!Next]_V!vars PROVE BytesInv'
  BY <1>1, CallsNext, CopiesNext, VerdictsNext, UploadedNext DEF BytesInv
<1> QED BY <1>1, BytesInit, PTL DEF V!Spec

\* A row marked uploaded has its bytes, unless a delete took them (documents.py, versioning.py:440).
THEOREM UploadedIsThere == V!Spec => []UploadedHasBytes
<1>1. BytesInv => UploadedHasBytes
  BY DEF BytesInv
<1> QED BY <1>1, BytesInvariance, PTL

-----------------------------------------------------------------------------
(* Retries of one key.                                                        *)

\* The start: one project, made by no key.
LEMMA RetryInit == V!Init => RetryInv
<1> SUFFICES ASSUME V!Init PROVE RetryInv
  OBVIOUS
<1>1. /\ DOMAIN proj = {1} /\ proj[1] = [no |-> 1, parent |-> None, key |-> None, locked |-> FALSE]
      /\ made = 1 /\ answered = {} /\ \A p \in Requests : calls[p].at = "idle"
  BY DEF V!Init, V!Idle
<1>2. VersionRows
  BY <1>1 DEF VersionRows, VersionRow
<1>3. Versions = {}
  BY <1>1 DEF Versions
<1>4. VersionsFound /\ VersionsAgree
  BY <1>3 DEF VersionsFound, VersionsAgree
<1>5. MadeOnce /\ InsertedAlone
  BY <1>1 DEF MadeOnce, InsertedAlone
<1> QED BY <1>2, <1>4, <1>5, CallsInit DEF RetryInv

\* Fewer versions to agree on, and the same rows.
LEMMA Narrower ==
    ASSUME RetryInv, UNCHANGED <<proj, made>>, CallsOK', InsertedAlone', Versions' \subseteq Versions
    PROVE  RetryInv'
<1>1. VersionRows'
  BY DEF RetryInv, VersionRows, VersionRow
<1>2. \A s, key : V!Made(s, key)' = V!Made(s, key)
  BY DEF V!Made
<1>3. VersionsFound'
  BY DEF RetryInv, VersionsFound, Found, V!Made
<1>4. VersionsAgree'
  BY DEF RetryInv, VersionsAgree, Agreed
<1>5. MadeOnce'
  BY DEF RetryInv, MadeOnce
<1> QED BY <1>1, <1>3, <1>4, <1>5 DEF RetryInv

\* A step of a request that neither inserts a row nor commits one (projects.py, documents.py).
LEMMA QuietStep ==
    ASSUME RetryInv, NEW p \in Requests, NEW t, V!Step(p, t), Call(t), UNCHANGED <<proj, made>>,
           answered' \subseteq Versions, t.at # "inserted",
           t.at = "copying" => calls[p].at = "copying" /\ <<t.s, t.key, t.v>> = Copied(p)
    PROVE  RetryInv'
<1>1. CallsOK
  BY DEF RetryInv
<1>2. calls'[p] = t /\ \A q \in Requests : q # p => calls'[q] = calls[q]
  BY <1>1, StepFacts
<1>3. CallsOK'
  BY <1>1, StepCalls
<1>4. ASSUME NEW q \in Requests, calls'[q].at = "copying"
      PROVE  <<calls'[q].s, calls'[q].key, calls'[q].v>> \in Versions
  <2>1. CASE q = p
    BY <1>2, <1>4, <2>1 DEF Versions
  <2>2. CASE q # p
    BY <1>2, <1>4, <2>2 DEF Versions, Copied
  <2> QED BY <2>1, <2>2
<1>5. Versions' \subseteq Versions
  BY <1>4 DEF Versions, Copied
<1>6. InsertedAlone'
  <2>1. ASSUME NEW q \in Requests, calls'[q].at = "inserted"
        PROVE  calls[q].at = "inserted" /\ calls'[q] = calls[q]
    BY <1>2, <2>1
  <2>2. ASSUME NEW q \in Requests, calls'[q].at = "inserted" PROVE Unmade(q)'
    <3>1. Unmade(q)
      BY <2>1, <2>2 DEF RetryInv, InsertedAlone
    <3> QED BY <2>1, <2>2, <3>1 DEF Unmade, V!Made
  <2>3. ASSUME NEW q \in Requests, calls'[q].at = "inserted",
               NEW r \in Requests, calls'[r].at = "inserted", SameRetry(q, r)'
        PROVE  q = r
    <3>1. SameRetry(q, r)
      BY <2>1, <2>3 DEF SameRetry
    <3> QED BY <2>1, <2>3, <3>1 DEF RetryInv, InsertedAlone
  <2> QED BY <2>2, <2>3 DEF InsertedAlone
<1> QED BY <1>3, <1>5, <1>6, Narrower

\* No request changes but the rows or the objects of documents.
LEMMA StillStep ==
    ASSUME RetryInv, UNCHANGED <<proj, made, calls, answered>>
    PROVE  RetryInv'
BY DEF RetryInv, CallsOK, Call, VersionRows, VersionRow, VersionsFound, Found, VersionsAgree, Agreed, Versions,
       Copied, MadeOnce, InsertedAlone, Unmade, SameRetry, V!Made

\* version_for_key: what a replay is answered agrees with every earlier answer, as both are found by the key.
LEMMA ReplayStep ==
    ASSUME RetryInv, NEW s \in DOMAIN proj, NEW key, NEW v \in V!Made(s, key),
           UNCHANGED <<proj, made, calls>>, answered' = answered \cup {<<s, key, v>>}
    PROVE  RetryInv'
<1> DEFINE c == <<s, key, v>>
<1>1. Versions' = Versions \cup {c}
  BY DEF Versions, Copied
<1>2. c[1] = s /\ c[2] = key /\ c[3] = v
  OBVIOUS
<1>3. v \in DOMAIN proj /\ proj[v].parent = s /\ proj[v].key = key
  BY DEF V!Made
<1> HIDE DEF c
<1>4. VersionsFound'
  <2>1. \A a \in Versions : a[1] \in 1..made /\ a[3] \in 1..made /\ Found(a)
    BY DEF RetryInv, VersionsFound
  <2>2. c[1] \in 1..made /\ c[3] \in 1..made /\ Found(c)
    BY <1>2, <1>3 DEF RetryInv, VersionRows, Found
  <2>3. \A a \in Versions' : a[1] \in 1..made /\ a[3] \in 1..made /\ Found(a)
    BY <1>1, <2>1, <2>2
  <2> QED BY <2>3 DEF VersionsFound, Found, V!Made
<1>5. ASSUME NEW a \in Versions, a[1] = s, a[2] = key, a[3] \in DOMAIN proj PROVE a[3] = v
  <2>1. a[3] \in V!Made(s, key)
    BY <1>5 DEF RetryInv, VersionsFound, Found
  <2> QED BY <1>3, <2>1 DEF RetryInv, MadeOnce, V!Made
<1>6. VersionsAgree'
  <2>1. \A a, b \in Versions : Agreed(a, b)
    BY DEF RetryInv, VersionsAgree
  <2>2. \A a \in Versions : Agreed(a, c) /\ Agreed(c, a)
    BY <1>2, <1>5 DEF Agreed
  <2>3. Agreed(c, c)
    BY DEF Agreed
  <2>4. \A a, b \in Versions' : Agreed(a, b)
    BY <1>1, <2>1, <2>2, <2>3
  <2> QED BY <2>4 DEF VersionsAgree, Agreed
<1>7. CallsOK' /\ VersionRows' /\ MadeOnce' /\ InsertedAlone'
  BY DEF RetryInv, CallsOK, Call, VersionRows, VersionRow, MadeOnce, InsertedAlone, Unmade, SameRetry, V!Made
<1> QED BY <1>4, <1>6, <1>7 DEF RetryInv

\* The insert that is flushed: the unique index has no other of its source and key, committed or not.
LEMMA InsertStep ==
    ASSUME RetryInv, NEW p \in Requests, V!Insert(p)
    PROVE  RetryInv'
<1>1. CallsOK /\ CallsOK'
  BY CallsNext DEF RetryInv, V!Next, V!Proceed
<1>2. UNCHANGED <<proj, made, answered>> /\ calls[p].at = "numbered" /\ Call(calls[p])
  BY <1>1 DEF V!Insert, V!store, CallsOK
<1>3. CASE V!Step(p, V!Idle)
  BY <1>2, <1>3, IdleCall, QuietStep DEF V!Idle, Versions
<1>4. CASE /\ V!Step(p, [calls[p] EXCEPT !.at = "inserted"])
           /\ calls[p].s \in DOMAIN proj /\ V!Made(calls[p].s, calls[p].key) = {}
  <2> DEFINE t == [calls[p] EXCEPT !.at = "inserted"]
  <2>1. t.at = "inserted" /\ t.s = calls[p].s /\ t.key = calls[p].key
    BY <1>2 DEF Call
  <2>2. calls'[p] = t /\ \A q \in Requests : q # p => calls'[q] = calls[q]
    BY <1>1, <1>4, StepFacts
  <2> HIDE DEF t
  <2>3. Versions' \subseteq Versions
    <3>1. \A q \in Requests : calls'[q].at = "copying" => calls[q].at = "copying" /\ calls'[q] = calls[q]
      BY <2>1, <2>2
    <3> QED BY <1>2, <3>1 DEF Versions, Copied
  <2>4. ASSUME NEW q \in Requests, calls'[q].at = "inserted" PROVE Unmade(q)'
    <3>1. CASE q = p
      <4>1. calls'[q].s = calls[p].s /\ calls'[q].key = calls[p].key
        BY <2>1, <2>2, <3>1
      <4> QED BY <1>2, <1>4, <4>1 DEF Unmade, V!Made
    <3>2. CASE q # p
      <4>1. calls'[q] = calls[q] /\ Unmade(q)
        BY <2>2, <2>4, <3>2 DEF RetryInv, InsertedAlone
      <4> QED BY <1>2, <4>1 DEF Unmade, V!Made
    <3> QED BY <3>1, <3>2
  <2>5. ASSUME NEW q \in Requests, calls[q].at = "inserted" PROVE ~SameRetry(p, q)
    BY <2>5 DEF V!Insert, V!Twin, SameRetry
  <2>6. ASSUME NEW q \in Requests, calls'[q].at = "inserted",
               NEW r \in Requests, calls'[r].at = "inserted", SameRetry(q, r)'
        PROVE  q = r
    <3>1. CASE q # p /\ r # p
      <4>1. calls'[q] = calls[q] /\ calls'[r] = calls[r]
        BY <2>2, <3>1
      <4>2. SameRetry(q, r)
        BY <2>6, <4>1 DEF SameRetry
      <4> QED BY <2>6, <4>1, <4>2 DEF RetryInv, InsertedAlone
    <3>2. CASE q = p /\ r # p
      BY <2>1, <2>2, <2>5, <2>6, <3>2 DEF SameRetry
    <3>3. CASE q # p /\ r = p
      BY <2>1, <2>2, <2>5, <2>6, <3>3 DEF SameRetry
    <3> QED BY <3>1, <3>2, <3>3
  <2>7. InsertedAlone'
    BY <2>4, <2>6 DEF InsertedAlone
  <2> QED BY <1>1, <1>2, <2>3, <2>7, Narrower
<1> QED BY <1>3, <1>4 DEF V!Insert, V!End

\* The commit: the new version is the first of its source and key, and nobody has spoken of its number.
LEMMA CommitStep ==
    ASSUME RetryInv, NEW p \in Requests, V!CommitVersion(p)
    PROVE  RetryInv'
<1> DEFINE s == calls[p].s
           key == calls[p].key
           v == made + 1
           row == [no |-> calls[p].no, parent |-> s, key |-> key, locked |-> FALSE]
           old == [proj EXCEPT ![s].locked = @ \/ calls[p].lock]
           t == [at |-> "copying", s |-> s, key |-> key, v |-> v, work |-> V!Uploaded(s), copied |-> {}]
<1>1. CallsOK /\ CallsOK'
  BY CallsNext DEF RetryInv, V!Next, V!Proceed
<1>2. /\ calls[p].at = "inserted" /\ V!Step(p, t) /\ made' = v /\ answered' = answered
      /\ proj' = V!Over([w \in {v} |-> row], old)
  BY DEF V!CommitVersion
<1>3. s \in DOMAIN proj /\ V!Made(s, key) = {}
  BY <1>2 DEF RetryInv, InsertedAlone, Unmade
<1>4. /\ made \in Nat /\ DOMAIN proj \subseteq 1..made
      /\ \A w \in DOMAIN proj : VersionRow(proj[w])
  BY DEF RetryInv, VersionRows
<1>5. v \notin DOMAIN proj /\ v \notin 1..made /\ v \in Nat /\ s \in 1..made /\ v # None
  BY <1>3, <1>4, VersionsAssumption
<1>6. DOMAIN old = DOMAIN proj
  OBVIOUS
<1>7. ASSUME NEW w \in DOMAIN proj
      PROVE  /\ old[w].parent = proj[w].parent /\ old[w].key = proj[w].key
             /\ old[w] = [no |-> old[w].no, parent |-> old[w].parent, key |-> old[w].key, locked |-> old[w].locked]
  <2>1. PICK no, parent, k, locked : proj[w] = [no |-> no, parent |-> parent, key |-> k, locked |-> locked]
    BY <1>4 DEF VersionRow
  <2>2. CASE w = s
    <3>1. old[w] = [proj[w] EXCEPT !.locked = @ \/ calls[p].lock]
      BY <1>3, <2>2
    <3> QED BY <2>1, <3>1
  <2>3. CASE w # s
    BY <2>1, <2>3
  <2> QED BY <2>2, <2>3
<1>8. DOMAIN proj' = {v} \cup DOMAIN proj /\ proj'[v] = row /\ \A w \in DOMAIN proj : proj'[w] = old[w]
  BY <1>2, <1>5, <1>6 DEF V!Over
<1>9. row.parent = s /\ row.key = key
      /\ row = [no |-> row.no, parent |-> row.parent, key |-> row.key, locked |-> row.locked]
  OBVIOUS
<1>10. t.at = "copying" /\ t.s = s /\ t.key = key /\ t.v = v
  OBVIOUS
<1>11. calls'[p] = t /\ \A q \in Requests : q # p => calls'[q] = calls[q]
  BY <1>1, <1>2, StepFacts
<1> HIDE DEF row, old, t
<1>12. VersionRows'
  <2>1. made' \in Nat /\ DOMAIN proj' \subseteq 1..made'
    BY <1>2, <1>4, <1>5, <1>8
  <2>2. 1..made \subseteq 1..made'
    BY <1>2, <1>4
  <2>3. ASSUME NEW w \in DOMAIN proj'
        PROVE  /\ proj'[w] = [no |-> proj'[w].no, parent |-> proj'[w].parent, key |-> proj'[w].key,
                              locked |-> proj'[w].locked]
               /\ proj'[w].parent \in (1..made') \cup {None}
    <3>1. CASE w = v
      BY <1>5, <1>8, <1>9, <2>2, <3>1
    <3>2. CASE w # v
      <4>1. w \in DOMAIN proj /\ proj'[w] = old[w] /\ proj[w].parent \in (1..made) \cup {None}
        BY <1>4, <1>8, <2>3, <3>2 DEF VersionRow
      <4> QED BY <1>7, <2>2, <4>1
    <3> QED BY <3>1, <3>2
  <2> QED BY <2>1, <2>3 DEF VersionRows, VersionRow
\* The rows other than the new one, and what names them.
<1>13. ASSUME NEW w \in DOMAIN proj
       PROVE  proj'[w].parent = proj[w].parent /\ proj'[w].key = proj[w].key /\ proj[w].parent # v
  BY <1>4, <1>5, <1>7, <1>8 DEF VersionRow
<1> DEFINE c == <<s, key, v>>
<1>14. Versions' = Versions \cup {c}
  <2>1. \A q \in Requests : q # p => (calls'[q].at = "copying") = (calls[q].at = "copying")
    BY <1>11
  <2>2. \A q \in Requests : q # p => <<calls'[q].s, calls'[q].key, calls'[q].v>> = Copied(q)
    BY <1>11 DEF Copied
  <2>3. <<calls'[p].s, calls'[p].key, calls'[p].v>> = c /\ calls'[p].at = "copying" /\ calls[p].at # "copying"
    BY <1>2, <1>10, <1>11
  <2> QED BY <1>2, <2>1, <2>2, <2>3 DEF Versions, Copied
<1>15. c[1] = s /\ c[2] = key /\ c[3] = v
  OBVIOUS
<1> HIDE DEF c
<1>16. ASSUME NEW a \in Versions PROVE a[1] \in 1..made /\ a[3] \in 1..made /\ a[1] # v /\ a[3] # v /\ Found(a)
  BY <1>5 DEF RetryInv, VersionsFound
<1>17. VersionsFound'
  <2>1. ASSUME NEW a \in Versions' PROVE a[1] \in 1..made' /\ a[3] \in 1..made'
    <3>1. a[1] \in 1..v /\ a[3] \in 1..v
      BY <1>4, <1>5, <1>14, <1>15, <1>16
    <3> QED BY <1>2, <3>1
  <2>2. ASSUME NEW a \in Versions', a[1] \in DOMAIN proj', a[3] \in DOMAIN proj'
        PROVE  proj'[a[3]].parent = a[1] /\ proj'[a[3]].key = a[2]
    <3>1. CASE a = c
      BY <1>8, <1>9, <1>15, <3>1
    <3>2. CASE a \in Versions
      <4>1. a[1] \in DOMAIN proj /\ a[3] \in DOMAIN proj
        BY <1>8, <1>16, <2>2, <3>2
      <4>2. proj[a[3]].parent = a[1] /\ proj[a[3]].key = a[2]
        BY <1>16, <3>2, <4>1 DEF Found, V!Made
      <4> QED BY <1>13, <4>1, <4>2
    <3> QED BY <1>14, <3>1, <3>2
  <2> QED BY <2>1, <2>2 DEF VersionsFound, Found, V!Made
<1>18. VersionsAgree'
  <2>1. ASSUME NEW a \in Versions, a[1] = s, a[2] = key PROVE a[3] \notin DOMAIN proj'
    <3>1. a[3] \notin DOMAIN proj
      BY <1>3, <1>16, <2>1 DEF Found
    <3> QED BY <1>8, <1>16, <3>1
  <2>2. ASSUME NEW a \in Versions', NEW b \in Versions', a[1] = b[1], a[2] = b[2],
               a[3] \in DOMAIN proj', b[3] \in DOMAIN proj'
        PROVE  a[3] = b[3]
    <3>1. CASE a \in Versions /\ b \in Versions
      <4>1. a[3] \in DOMAIN proj /\ b[3] \in DOMAIN proj
        BY <1>8, <1>16, <2>2, <3>1
      <4> QED BY <2>2, <3>1, <4>1 DEF RetryInv, VersionsAgree, Agreed
    <3>2. CASE a = c \/ b = c
      BY <1>14, <1>15, <2>1, <2>2, <3>2
    <3> QED BY <1>14, <3>1, <3>2
  <2> QED BY <2>2 DEF VersionsAgree, Agreed
<1>19. MadeOnce'
  <2>1. SUFFICES ASSUME NEW x \in DOMAIN proj', NEW y \in DOMAIN proj', proj'[x].parent \in DOMAIN proj',
                        proj'[x].parent = proj'[y].parent, proj'[x].key = proj'[y].key
                 PROVE  x = y
    BY DEF MadeOnce
  <2>2. ASSUME NEW w \in DOMAIN proj, proj[w].parent = s, proj[w].key = key PROVE FALSE
    BY <1>3, <2>2 DEF V!Made
  <2>3. CASE x \in DOMAIN proj /\ y \in DOMAIN proj
    BY <1>8, <1>13, <2>1, <2>3 DEF RetryInv, MadeOnce
  <2>4. CASE x = v /\ y \in DOMAIN proj
    BY <1>8, <1>9, <1>13, <2>1, <2>2, <2>4
  <2>5. CASE x \in DOMAIN proj /\ y = v
    BY <1>8, <1>9, <1>13, <2>1, <2>2, <2>5
  <2> QED BY <1>8, <2>1, <2>3, <2>4, <2>5
<1>20. InsertedAlone'
  <2>1. ASSUME NEW q \in Requests, calls'[q].at = "inserted"
        PROVE  q # p /\ calls'[q] = calls[q] /\ calls[q].at = "inserted"
    BY <1>10, <1>11, <2>1
  <2>2. ASSUME NEW q \in Requests, calls'[q].at = "inserted" PROVE Unmade(q)'
    <3>1. calls[q].s \in DOMAIN proj /\ V!Made(calls[q].s, calls[q].key) = {} /\ ~SameRetry(p, q)
      BY <1>2, <2>1, <2>2 DEF RetryInv, InsertedAlone, Unmade
    <3>2. ASSUME NEW w \in DOMAIN proj', proj'[w].parent = calls[q].s, proj'[w].key = calls[q].key PROVE FALSE
      <4>1. CASE w = v
        BY <1>8, <1>9, <3>1, <3>2, <4>1 DEF SameRetry
      <4>2. CASE w \in DOMAIN proj
        BY <1>13, <3>1, <3>2, <4>2 DEF V!Made
      <4> QED BY <1>8, <4>1, <4>2
    <3>3. calls'[q].s \in DOMAIN proj' /\ calls'[q].s = calls[q].s /\ calls'[q].key = calls[q].key
      BY <1>8, <2>1, <2>2, <3>1
    <3> QED BY <3>2, <3>3 DEF Unmade, V!Made
  <2>3. ASSUME NEW q \in Requests, calls'[q].at = "inserted",
               NEW r \in Requests, calls'[r].at = "inserted", SameRetry(q, r)'
        PROVE  q = r
    <3>1. SameRetry(q, r)
      BY <2>1, <2>3 DEF SameRetry
    <3> QED BY <2>1, <2>3, <3>1 DEF RetryInv, InsertedAlone
  <2> QED BY <2>2, <2>3 DEF InsertedAlone
<1> QED BY <1>1, <1>12, <1>17, <1>18, <1>19, <1>20 DEF RetryInv

\* Rows that stay and keep their sources, but for those whose source is gone (lock_project, delete_project).
LEMMA RowsStep ==
    ASSUME RetryInv, UNCHANGED <<made, calls, answered>>, DOMAIN proj' \subseteq DOMAIN proj,
           \A w \in DOMAIN proj' :
               /\ VersionRow(proj'[w]) /\ proj'[w].key = proj[w].key
               /\ \/ proj'[w].parent = proj[w].parent
                  \/ proj'[w].parent = None /\ proj[w].parent \notin DOMAIN proj',
           \A p \in Requests : calls[p].at = "inserted" => calls[p].s \in DOMAIN proj'
    PROVE  RetryInv'
<1>1. DOMAIN proj \subseteq 1..made /\ made \in Nat /\ None \notin DOMAIN proj
  BY VersionsAssumption DEF RetryInv, VersionRows
<1>2. Versions' = Versions
  BY DEF Versions, Copied
<1>3. \A s \in DOMAIN proj' : \A w \in DOMAIN proj' : proj'[w].parent = s <=> proj[w].parent = s
  BY <1>1
<1>4. CallsOK'
  BY DEF RetryInv, CallsOK, Call
<1>5. VersionRows'
  BY <1>1 DEF VersionRows, VersionRow
<1>6. VersionsFound'
  BY <1>2, <1>3 DEF RetryInv, VersionsFound, Found, V!Made
<1>7. VersionsAgree'
  BY <1>2 DEF RetryInv, VersionsAgree, Agreed
<1>8. MadeOnce'
  BY <1>3 DEF RetryInv, MadeOnce
<1>9. InsertedAlone'
  <2>1. ASSUME NEW p \in Requests, calls[p].at = "inserted" PROVE Unmade(p)'
    <3>1. calls[p].s \in DOMAIN proj' /\ V!Made(calls[p].s, calls[p].key) = {}
      BY <2>1 DEF RetryInv, InsertedAlone, Unmade
    <3> QED BY <1>3, <3>1 DEF Unmade, V!Made
  <2> QED BY <2>1 DEF RetryInv, InsertedAlone, SameRetry
<1> QED BY <1>4, <1>5, <1>6, <1>7, <1>8, <1>9 DEF RetryInv

\* lock_project, unlock_project: locks are about nothing else.
LEMMA LockStep ==
    ASSUME RetryInv, NEW v, NEW locked, V!SetLock(v, locked)
    PROVE  RetryInv'
<1>1. /\ UNCHANGED <<made, calls, answered>> /\ v \in DOMAIN proj
      /\ proj' = [proj EXCEPT ![v].locked = locked]
  BY DEF V!SetLock
<1>2. DOMAIN proj' = DOMAIN proj
  BY <1>1
<1>3. ASSUME NEW w \in DOMAIN proj
      PROVE  VersionRow(proj'[w]) /\ proj'[w].parent = proj[w].parent /\ proj'[w].key = proj[w].key
  <2>1. VersionRow(proj[w])
    BY DEF RetryInv, VersionRows
  <2>2. PICK no, parent, k, l : proj[w] = [no |-> no, parent |-> parent, key |-> k, locked |-> l]
    BY <2>1 DEF VersionRow
  <2>3. CASE w = v
    <3>1. proj'[w] = [proj[w] EXCEPT !.locked = locked]
      BY <1>1, <2>3
    <3>2. proj'[w] = [no |-> no, parent |-> parent, key |-> k, locked |-> locked]
      BY <2>2, <3>1
    <3> QED BY <2>1, <2>2, <3>2 DEF VersionRow
  <2>4. CASE w # v
    BY <1>1, <2>1, <2>4 DEF VersionRow
  <2> QED BY <2>3, <2>4
<1>4. \A p \in Requests : calls[p].at = "inserted" => calls[p].s \in DOMAIN proj
  BY DEF RetryInv, InsertedAlone, Unmade
<1> QED BY <1>1, <1>2, <1>3, <1>4, RowsStep

\* delete_project: children lose their parent.
LEMMA DeleteStep ==
    ASSUME RetryInv, NEW v, V!DeleteProject(v)
    PROVE  RetryInv'
<1> DEFINE Orphan(w) == IF proj[w].parent = v THEN [proj[w] EXCEPT !.parent = None] ELSE proj[w]
<1>1. /\ UNCHANGED <<made, calls, answered>>
      /\ proj' = [w \in DOMAIN proj \ {v} |-> Orphan(w)]
      /\ \A p \in Requests : calls[p].at = "inserted" => calls[p].s # v
  BY DEF V!DeleteProject
<1>2. DOMAIN proj' = DOMAIN proj \ {v}
  BY <1>1
<1>3. ASSUME NEW w \in DOMAIN proj'
      PROVE  /\ VersionRow(proj'[w]) /\ proj'[w].key = proj[w].key
             /\ \/ proj'[w].parent = proj[w].parent
                \/ proj'[w].parent = None /\ proj[w].parent = v
  <2>1. VersionRow(proj[w]) /\ proj'[w] = Orphan(w)
    BY <1>1, <1>2, <1>3 DEF RetryInv, VersionRows
  <2>2. PICK no, parent, k, l : proj[w] = [no |-> no, parent |-> parent, key |-> k, locked |-> l]
    BY <2>1 DEF VersionRow
  <2>3. CASE proj[w].parent = v
    <3>1. proj'[w] = [no |-> no, parent |-> None, key |-> k, locked |-> l]
      BY <2>1, <2>2, <2>3
    <3> QED BY <2>2, <2>3, <3>1 DEF VersionRow
  <2>4. CASE proj[w].parent # v
    BY <2>1, <2>4
  <2> QED BY <2>3, <2>4
<1>4. \A p \in Requests : calls[p].at = "inserted" => calls[p].s \in DOMAIN proj'
  BY <1>1, <1>2 DEF RetryInv, InsertedAlone, Unmade
<1> HIDE DEF Orphan
<1> QED BY <1>1, <1>2, <1>3, <1>4, RowsStep

\* Every step keeps what a key is worth.
LEMMA RetryNext == ASSUME RetryInv, [V!Next]_V!vars PROVE RetryInv'
<1>1. CallsOK
  BY DEF RetryInv
<1> DEFINE Same == UNCHANGED <<proj, made>> /\ answered' \subseteq Versions
<1>2. ASSUME UNCHANGED <<proj, made, answered>> PROVE Same
  BY <1>2 DEF Versions
<1>3. ASSUME NEW p \in Requests, NEW t, V!Step(p, t), Call(t), Same, t.at \notin {"inserted", "copying"}
      PROVE  RetryInv'
  BY <1>3, QuietStep
<1>4. ASSUME NEW p \in Requests, V!Number(p) PROVE RetryInv'
  <2> DEFINE t == [at |-> "numbered", s |-> calls[p].s, key |-> calls[p].key, lock |-> calls[p].lock,
                   no |-> 1 + V!Max({0} \cup {proj[v].no : v \in DOMAIN proj})]
  <2>1. V!Step(p, t) /\ UNCHANGED <<proj, made, answered>>
    BY <1>4 DEF V!Number, V!store
  <2>2. Call(t) /\ t.at = "numbered"
    BY DEF Call
  <2> HIDE DEF t, Same
  <2> QED BY <1>2, <1>3, <2>1, <2>2
<1>5. ASSUME NEW p \in Requests, V!Insert(p) PROVE RetryInv'
  BY <1>5, InsertStep
<1>6. ASSUME NEW p \in Requests, V!CommitVersion(p) PROVE RetryInv'
  BY <1>6, CommitStep
<1>7. ASSUME NEW p \in Requests, NEW f \in Files, V!CopyObject(p, f) PROVE RetryInv'
  <2> DEFINE there == <<calls[p].s, f>> \in DOMAIN bytes
             copied == IF there THEN calls[p].copied \cup {f} ELSE calls[p].copied
             t == CopyDone(calls[p], calls[p].work \ {f}, copied)
  <2>1. V!Step(p, t) /\ calls[p].at = "copying" /\ UNCHANGED <<proj, made, answered>>
    BY <1>7 DEF V!CopyObject, CopyDone
  <2>2. Call(calls[p])
    BY <1>1 DEF CallsOK
  <2> HIDE DEF copied
  <2>3. Call(t) /\ t.at = "copying" /\ <<t.s, t.key, t.v>> = Copied(p)
    BY <2>1, <2>2, CopyCall DEF Copied
  <2> HIDE DEF t
  <2> QED BY <1>2, <2>1, <2>3, QuietStep
<1>8. ASSUME NEW p \in Requests, V!FinishCopies(p) PROVE RetryInv'
  <2>1. Copied(p) \in Versions
    BY <1>8 DEF V!FinishCopies, Versions
  <2>2. answered' \subseteq answered \cup {Copied(p)}
    BY <1>8 DEF V!FinishCopies, Copied
  <2>3. Same
    BY <1>8, <2>1, <2>2 DEF V!FinishCopies, Versions
  <2>4. V!Step(p, V!Idle)
    BY <1>8 DEF V!FinishCopies, V!End
  <2> HIDE DEF Same
  <2> QED BY <1>3, <2>3, <2>4, IdleCall DEF V!Idle
<1>9. ASSUME NEW p \in Requests, V!Confirmed(p) \/ V!DeleteRow(p) \/ V!Die(p) PROVE RetryInv'
  <2>1. V!Step(p, V!Idle) /\ UNCHANGED <<proj, made, answered>>
    BY <1>9 DEF V!Confirmed, V!DeleteRow, V!Die, V!End, V!store
  <2> HIDE DEF Same
  <2> QED BY <1>2, <1>3, <2>1, IdleCall DEF V!Idle
<1>10. ASSUME NEW p \in Requests, V!EraseObject(p) PROVE RetryInv'
  <2> DEFINE t == [at |-> "erased", d |-> calls[p].d]
  <2>1. V!Step(p, t) /\ UNCHANGED <<proj, made, answered>>
    BY <1>10 DEF V!EraseObject
  <2>2. Call(t) /\ t.at = "erased"
    BY DEF Call
  <2> HIDE DEF t, Same
  <2> QED BY <1>2, <1>3, <2>1, <2>2
<1>11. ASSUME NEW p \in Requests, NEW s, NEW key, NEW lock, V!CreateVersion(p, s, key, lock) PROVE RetryInv'
  <2>1. s \in DOMAIN proj /\ UNCHANGED <<proj, made>>
    BY <1>11 DEF V!CreateVersion, V!store
  <2>2. CASE \E v \in V!Made(s, key) : answered' = answered \cup {<<s, key, v>>} /\ UNCHANGED calls
    BY <2>1, <2>2, ReplayStep
  <2>3. CASE V!Step(p, [at |-> "new", s |-> s, key |-> key, lock |-> lock]) /\ UNCHANGED answered
    <3> DEFINE t == [at |-> "new", s |-> s, key |-> key, lock |-> lock]
    <3>1. Call(t) /\ t.at = "new" /\ V!Step(p, t)
      BY <2>3 DEF Call
    <3> HIDE DEF t, Same
    <3> QED BY <1>2, <1>3, <2>1, <2>3, <3>1
  <2> QED BY <1>11, <2>2, <2>3 DEF V!CreateVersion
<1>12. ASSUME NEW p \in Requests, NEW v, NEW f, V!ConfirmDocument(p, v, f) \/ V!DeleteDocument(p, v, f)
       PROVE  RetryInv'
  <2>1. PICK verdict : /\ V!Step(p, [at |-> "judged", d |-> <<v, f>>, verdict |-> verdict])
                       /\ UNCHANGED <<proj, made, answered>>
    BY <1>12 DEF V!ConfirmDocument, V!DeleteDocument, V!Begin, V!store
  <2> DEFINE t == [at |-> "judged", d |-> <<v, f>>, verdict |-> verdict]
  <2>2. Call(t) /\ t.at = "judged" /\ V!Step(p, t)
    BY <2>1 DEF Call
  <2> HIDE DEF t, Same
  <2> QED BY <1>2, <1>3, <2>1, <2>2
<1>13. ASSUME NEW v, V!DeleteProject(v) PROVE RetryInv'
  BY <1>13, DeleteStep
<1>14. ASSUME NEW v, NEW locked, V!SetLock(v, locked) PROVE RetryInv'
  BY <1>14, LockStep
<1>15. ASSUME \/ \E v, f : V!CreateDocument(v, f)
              \/ \E f, content : V!Put(f, content)
              \/ UNCHANGED V!vars
       PROVE  RetryInv'
  <2>1. UNCHANGED <<proj, made, calls, answered>>
    BY <1>15 DEF V!CreateDocument, V!Put, V!vars
  <2> QED BY <2>1, StillStep
<1> QED BY <1>4, <1>5, <1>6, <1>7, <1>8, <1>9, <1>10, <1>11, <1>12, <1>13, <1>14, <1>15 DEF V!Next, V!Proceed

\* The inductive invariant of versions and the requests that make them.
THEOREM RetryInvariance == V!Spec => []RetryInv
BY RetryInit, RetryNext, PTL DEF V!Spec

\* However often and however close together a key is sent, the versions its callers are answered are one
\* (create_project_version).
THEOREM RetriesAreOne == V!Spec => []RetriesAgree
<1>1. RetryInv => RetriesAgree
  BY DEF RetryInv, VersionsAgree, Agreed, Versions, RetriesAgree, V!RetriesAgree
<1> QED BY <1>1, RetryInvariance, PTL

=============================================================================
