----------------------------- MODULE BoardView -----------------------------
(* A board and the copy of it one browser keeps: where requirements are       *)
(* filed, what the cascades of the delete and close handlers touch            *)
(* (board/routes.py), and how the pages fold answers and reloads into the     *)
(* board they share (boardMutations.ts, boardData.tsx).                       *)
EXTENDS BoardFigures, TLC

CONSTANTS Reqs, Epics, Features, Releases, Sprints,
          Moves,        \* the work statuses a person moves requirements to
          MaxWrites,    \* bound: writes of the session
          Slots         \* bound: calls and reloads under way at once

ASSUME FilesAssumption == /\ Moves \subseteq WorkStatuses
                          /\ None \notin Reqs \cup Epics \cup Features \cup Releases \cup Sprints

VARIABLES db,       \* the rows the server's reads return: a function per kind, deleted rows left out
          view,     \* BoardContext's data
          slot,     \* what each slot waits for: Idle, an answer, or a reload
          writes

vars == <<db, view, slot, writes>>

Kinds == {"requirements", "epics", "features", "releases", "sprints"}
Idle == [waits |-> "nothing"]
Without(f, S) == [x \in DOMAIN f \ S |-> f[x]]
Unlink(rows, field, S) ==   \* rows whose field is in S lose it
    [x \in DOMAIN rows |-> IF rows[x][field] \in S THEN [rows[x] EXCEPT ![field] = None] ELSE rows[x]]

-----------------------------------------------------------------------------
(* What the server's reads answer.                                            *)

Live(d) == [r \in {x \in DOMAIN d.requirements : ~d.requirements[x].archived} |-> d.requirements[r]]
EpicRead(d, e) == [release |-> d.epics[e].release, status |-> EpicStatus(Live(d), d.features, e)]
FeatureRead(d, f) == [epic |-> d.features[f].epic, status |-> FeatureStatus(Live(d), f)]
List(d, kind) ==
    CASE kind = "requirements" -> Live(d)
      [] kind = "epics" -> [e \in DOMAIN d.epics |-> EpicRead(d, e)]
      [] kind = "features" -> [f \in DOMAIN d.features |-> FeatureRead(d, f)]
      [] OTHER -> d[kind]
Read(d, kind, id) == List(d, kind)[id]

-----------------------------------------------------------------------------
(* What the server's writes do to the rows.                                   *)

(* _validate_requirement_refs: every link is on the board, and a feature is   *)
(* the epic's own. "filing" says whether the patch sets an epic or a feature. *)
RefsValid(d, row, filing) ==
    /\ filing => /\ row.feature \in DOMAIN d.features \cup {None}
                 /\ row.epic \in DOMAIN d.epics \cup {None}
                 /\ (row.epic # None /\ row.feature # None) => d.features[row.feature].epic = row.epic
    /\ row.release \in DOMAIN d.releases \cup {None}
    /\ row.sprint \in DOMAIN d.sprints \cup {None}

(* update_requirement: a patch is a function from the fields it sets. Work    *)
(* that enters a sprint unfinished starts again.                              *)
Patched(row, patch) ==
    LET new == patch @@ row
        entering == "sprint" \in DOMAIN patch /\ patch.sprint \notin {None, row.sprint}
    IN  IF entering /\ row.status # "Done" /\ new.status # "Done"
        THEN [new EXCEPT !.status = "NotStarted"] ELSE new
Filing(patch) == \E field \in {"epic", "feature"} \cap DOMAIN patch : patch[field] # None
SetRow(d, r, row) == [d EXCEPT !.requirements = (r :> row) @@ @]

\* Mutant: the links to the epic's features stay.
DeleteEpicRowsOnly(d, e) ==
    [d EXCEPT !.requirements = Unlink(@, "epic", {e}), !.epics = Without(@, {e}),
              !.features = Without(@, {f \in DOMAIN d.features : d.features[f].epic = e})]

DeleteEpicRows(d, e) ==
    LET under == {f \in DOMAIN d.features : d.features[f].epic = e}
    IN  [d EXCEPT !.requirements = Unlink(Unlink(@, "epic", {e}), "feature", under),
                  !.features = Without(@, under), !.epics = Without(@, {e})]
DeleteFeatureRows(d, f) ==
    [d EXCEPT !.requirements = Unlink(@, "feature", {f}), !.features = Without(@, {f})]
DeleteReleaseRows(d, rel) ==
    [d EXCEPT !.requirements = Unlink(@, "release", {rel}), !.epics = Unlink(@, "release", {rel}),
              !.sprints = Unlink(@, "release", {rel}), !.releases = Without(@, {rel})]
(* close_sprint: unfinished work, archived or not, returns to the backlog.    *)
CloseSprintRows(d, s) ==
    [d EXCEPT !.requirements =
                  [r \in DOMAIN @ |-> IF @[r].sprint = s /\ @[r].status # "Done"
                                      THEN [@[r] EXCEPT !.sprint = None] ELSE @[r]],
              !.sprints[s].closed = TRUE]
DeleteSprintRows(d, s) ==
    [d EXCEPT !.requirements = Unlink(@, "sprint", {s}), !.sprints = Without(@, {s})]

-----------------------------------------------------------------------------
(* A call: the server writes and answers in one step; what the page will fold *)
(* into its board when the answer arrives waits in the slot. replace and      *)
(* remove are sets of <<kind, id, row>> and <<kind, id>>.                     *)

Call(s, d, replace, remove, reload) ==
    /\ slot[s] = Idle /\ writes < MaxWrites
    /\ db' = d /\ writes' = writes + 1
    /\ slot' = [slot EXCEPT ![s] = [waits |-> "answer", replace |-> replace, remove |-> remove,
                                    reload |-> reload]]
    /\ UNCHANGED view

CreateRequirement(s, r, links) ==
    LET row == links @@ [status |-> "NotStarted", epic |-> None, feature |-> None, release |-> None,
                         sprint |-> None, archived |-> FALSE]
    IN  /\ r \notin DOMAIN db.requirements /\ RefsValid(db, row, TRUE)
        /\ Call(s, SetRow(db, r, row), {<<"requirements", r, row>>}, {}, {})

PatchRequirement(s, r, patch) ==
    LET row == Patched(db.requirements[r], patch)
    IN  /\ r \in DOMAIN view.requirements \cap DOMAIN Live(db)
        /\ RefsValid(db, row, Filing(patch))
        /\ Call(s, SetRow(db, r, row), {<<"requirements", r, row>>}, {}, {})

ArchiveRequirement(s, r) ==
    /\ r \in DOMAIN view.requirements \cap DOMAIN Live(db)
    /\ Call(s, [db EXCEPT !.requirements[r].archived = TRUE], {}, {<<"requirements", r>>},
            {"epics", "features", "releases"})

RestoreRequirement(s, r) ==
    /\ r \in DOMAIN db.requirements /\ db.requirements[r].archived
    /\ LET d == [db EXCEPT !.requirements[r].archived = FALSE]
       IN  Call(s, d, {<<"requirements", r, d.requirements[r]>>}, {}, {"epics", "features", "releases"})

DeleteRequirement(s, r) ==
    /\ r \in DOMAIN db.requirements /\ db.requirements[r].archived
    /\ Call(s, [db EXCEPT !.requirements = Without(@, {r})], {}, {<<"requirements", r>>}, {})

AssignEpicToRelease(s, e, rel) ==
    LET d == [db EXCEPT !.epics[e].release = rel]
    IN  /\ e \in DOMAIN view.epics \cap DOMAIN db.epics /\ view.epics[e].release # rel
        /\ rel \in DOMAIN db.releases \cup {None}
        /\ Call(s, d, {<<"epics", e, EpicRead(d, e)>>}, {}, {})

\* Mutant: the features deleted with their epic are not fetched.
DeleteEpicAlone(s, e) ==
    /\ e \in DOMAIN view.epics \cap DOMAIN db.epics
    /\ Call(s, DeleteEpicRows(db, e), {}, {<<"epics", e>>}, {"requirements"})

DeleteEpic(s, e) ==
    /\ e \in DOMAIN view.epics \cap DOMAIN db.epics
    /\ Call(s, DeleteEpicRows(db, e), {}, {<<"epics", e>>}, {"features", "requirements"})

DeleteFeature(s, f) ==
    /\ f \in DOMAIN view.features \cap DOMAIN db.features
    /\ Call(s, DeleteFeatureRows(db, f), {}, {<<"features", f>>}, {"requirements"})

DeleteRelease(s, rel) ==
    /\ rel \in DOMAIN view.releases \cap DOMAIN db.releases
    /\ Call(s, DeleteReleaseRows(db, rel), {}, {<<"releases", rel>>}, {"epics", "sprints", "requirements"})

SetSprintClosed(s, sp, closed) ==
    LET d == IF ~closed THEN [db EXCEPT !.sprints[sp].closed = FALSE]
             ELSE IF db.sprints[sp].closed THEN db ELSE CloseSprintRows(db, sp)
    IN  /\ sp \in DOMAIN view.sprints \cap DOMAIN db.sprints /\ view.sprints[sp].closed # closed
        /\ Call(s, d, {<<"sprints", sp, d.sprints[sp]>>}, {}, IF closed THEN {"requirements"} ELSE {})

DeleteSprint(s, sp) ==
    /\ sp \in DOMAIN view.sprints \cap DOMAIN db.sprints
    /\ Call(s, DeleteSprintRows(db, sp), {}, {<<"sprints", sp>>}, {"requirements"})

(* The answer arrives: rows are upserted and dropped, and the kinds a cascade *)
(* touched are fetched again. deleteRelease unlinks the rows it shows itself. *)
Upserted(rows, ps) ==
    [x \in DOMAIN rows \cup {p[2] : p \in ps} |->
        IF \E p \in ps : p[2] = x THEN LET p == CHOOSE q \in ps : q[2] = x IN p[3] ELSE rows[x]]
Folded(v, a) ==
    LET dropped == [k \in Kinds |-> Without(v[k], {p[2] : p \in {q \in a.remove : q[1] = k}})]
        unlinked == IF \E p \in a.remove : p[1] = "releases"
                    THEN LET gone == {p[2] : p \in a.remove}
                         IN  [k \in Kinds |-> IF k \in {"epics", "sprints", "requirements"}
                                              THEN Unlink(dropped[k], "release", gone) ELSE dropped[k]]
                    ELSE dropped
    IN  [k \in Kinds |-> Upserted(unlinked[k], {p \in a.replace : p[1] = k})]

Answer(s) ==
    /\ slot[s].waits = "answer"
    /\ view' = Folded(view, slot[s])
    /\ slot' = [slot EXCEPT ![s] = IF @.reload = {} THEN Idle
                                   ELSE [waits |-> "reload", kinds |-> @.reload, got |-> <<>>]]
    /\ UNCHANGED <<db, writes>>

(* reload: one GET per kind, and the kinds set together when all are in.      *)
Fetch(s, kind) ==
    /\ slot[s].waits = "reload" /\ kind \in slot[s].kinds \ DOMAIN slot[s].got
    /\ slot' = [slot EXCEPT ![s].got = (kind :> List(db, kind)) @@ @]
    /\ UNCHANGED <<db, view, writes>>

Reloaded(s) ==
    /\ slot[s].waits = "reload" /\ slot[s].kinds = DOMAIN slot[s].got
    /\ view' = slot[s].got @@ view
    /\ slot' = [slot EXCEPT ![s] = Idle]
    /\ UNCHANGED <<db, writes>>

-----------------------------------------------------------------------------
(* A board with its plan made and no requirement yet, loaded by the browser.  *)
Init ==
    /\ \E epics \in [Epics -> [release : Releases \cup {None}]],
          features \in [Features -> [epic : Epics]],
          sprints \in [Sprints -> [release : Releases, closed : {FALSE}]] :
          db = [requirements |-> <<>>, epics |-> epics, features |-> features, sprints |-> sprints,
                releases |-> [x \in Releases |-> "planned"]]
    /\ view = [k \in Kinds |-> List(db, k)]
    /\ slot = [s \in Slots |-> Idle]
    /\ writes = 0

Links == UNION {[{"epic"} -> Epics \cup {None}], [{"feature"} -> Features \cup {None}],
                [{"release"} -> Releases \cup {None}], [{"sprint"} -> Sprints \cup {None}]}

Next ==
    \E s \in Slots :
        \/ \E r \in Reqs :
              \/ \E links \in Links : CreateRequirement(s, r, links)
              \/ \E patch \in Links \cup [{"status"} -> Moves] : PatchRequirement(s, r, patch)
              \/ ArchiveRequirement(s, r) \/ RestoreRequirement(s, r) \/ DeleteRequirement(s, r)
        \/ \E e \in Epics : DeleteEpic(s, e) \/ \E rel \in Releases \cup {None} : AssignEpicToRelease(s, e, rel)
        \/ \E f \in Features : DeleteFeature(s, f)
        \/ \E rel \in Releases : DeleteRelease(s, rel)
        \/ \E sp \in Sprints : DeleteSprint(s, sp) \/ \E closed \in BOOLEAN : SetSprintClosed(s, sp, closed)
        \/ Answer(s) \/ Reloaded(s) \/ \E k \in Kinds : Fetch(s, k)

Spec == Init /\ [][Next]_vars

-----------------------------------------------------------------------------
(* Nothing on the board points at something deleted, archived requirements    *)
(* included, and a requirement filed under a feature and an epic is filed     *)
(* under the feature's own epic: the cascades of the delete handlers          *)
(* (routes.py) and _validate_requirement_refs keep it between them.           *)
FiledConsistently ==
    /\ \A r \in DOMAIN db.requirements :
          LET row == db.requirements[r]
          IN  /\ row.epic \in DOMAIN db.epics \cup {None}
              /\ row.feature \in DOMAIN db.features \cup {None}
              /\ row.release \in DOMAIN db.releases \cup {None}
              /\ row.sprint \in DOMAIN db.sprints \cup {None}
              /\ (row.epic # None /\ row.feature # None) => db.features[row.feature].epic = row.epic
    /\ \A f \in DOMAIN db.features : db.features[f].epic \in DOMAIN db.epics
    /\ \A e \in DOMAIN db.epics : db.epics[e].release \in DOMAIN db.releases \cup {None}

Calm == \A s \in Slots : slot[s] = Idle

(* Once the calls and reloads of one person's writes are done, the browser    *)
(* holds the rows the server holds: every kind a handler's cascade touches is *)
(* upserted, dropped or fetched again (boardMutations.ts).                    *)
ViewSettles ==
    Calm => /\ view.requirements = Live(db)
            /\ view.releases = db.releases /\ view.sprints = db.sprints
            /\ DOMAIN view.epics = DOMAIN db.epics
            /\ \A e \in DOMAIN db.epics : view.epics[e].release = db.epics[e].release
            /\ DOMAIN view.features = DOMAIN db.features
            /\ \A f \in DOMAIN db.features : view.features[f].epic = db.features[f].epic

Restricted(rows, S) == [r \in S |-> rows[r]]

(* Then a progress figure the page computes for an epic or a release is the   *)
(* one the server computes (service.py:239-245, effort.ts:1-6).               *)
FiguresAgree ==
    Calm =>
      /\ \A e \in DOMAIN db.epics :
            ClientRollup(Restricted(view.requirements, EpicRequirements(view.requirements, view.features, e)))
              = ProgressRollup(Restricted(Live(db), {r \in DOMAIN Live(db) :
                                    EffectiveEpic(Live(db)[r], db.features) = e}))
      /\ \A rel \in DOMAIN db.releases :
            ClientRollup(Restricted(view.requirements,
                                    ReleaseBacklog(view.requirements, view.epics, view.features, rel)))
              = ProgressRollup(Restricted(Live(db), {r \in DOMAIN Live(db) :
                                    EffectiveRelease(Live(db)[r], db.features, db.epics) = rel}))

(* The status chip of an epic and the progress beside it tell one story.      *)
(* boardData.tsx:5-6 says writes are upserted "so a PATCH never needs a       *)
(* refetch to show"; the status of an epic or a feature is rolled up by the   *)
(* server and no PATCH of a requirement brings it along.                      *)
RolledStatusShown ==
    Calm => /\ \A e \in DOMAIN view.epics : view.epics[e].status = Read(db, "epics", e).status
            /\ \A f \in DOMAIN view.features : view.features[f].status = Read(db, "features", f).status

(* service.py:243-245: "the server-computed figure on a release card and the  *)
(* client-computed one on a sprint card never disagree".                      *)
PercentagesAgree ==
    Calm => LET p == ProgressRollup(Live(db)) IN ServerPct(p) = ClientPct(p)

(* boardModel.ts: "the requirements still tagged to a closed sprint are       *)
(* exactly the ones it delivered".                                            *)
ClosedSprintsDelivered ==
    \A r \in DOMAIN db.requirements :
        LET row == db.requirements[r]
        IN  row.sprint # None /\ db.sprints[row.sprint].closed => row.status = "Done"
=============================================================================
