------------------------------- MODULE Board -------------------------------
(* Requests that change the same requirements of a board at the same time     *)
(* (board/routes.py, board/service.py, board/agents.py). Every request is one *)
(* database transaction under READ COMMITTED: it reads rows, decides from     *)
(* what it read, and writes the fields it changed when it flushes; a row it   *)
(* has written or locked stays locked until it commits.                       *)
EXTENDS Naturals

CONSTANTS Reqs, Sprints, Requests, None,
          Raised,    \* the requirements raised from the feedback report
          Moves,     \* the statuses people set
          Born,      \* the statuses requirements are created with
          Triage,    \* the statuses people give the report
          MaxBegun   \* bound: requests begun

VARIABLES req,       \* requirement rows; DOMAIN req is the requirements created
          sprint,    \* "open", "closed" or "deleted"
          report,    \* the feedback report: its status, and whether resolved_at is stamped
          told,      \* the last status a requirement.updated event gave (None: none yet)
          member,    \* the last row of the requirement's sprint history
          tx,        \* the requests under way
          wins,      \* claims of r since a request last gave it back to NotStarted
          begun,     \* how many requests have begun
          met        \* history: what two requests under way at once were both about,
                     \* requirements and the report (None)

vars == <<req, sprint, report, told, member, tx, wins, begun, met>>
rows == <<req, sprint, report, told, member, wins>>

WorkStatuses == {"NotStarted", "InProgress", "ToTest", "Done", "Blocked"}
Started == {"InProgress", "ToTest", "Done"}
Settled == {"InProgress", "Resolved"}
Idle == [at |-> "idle"]

(* Where a requirement's queue position was given: in a sprint, in the        *)
(* backlog (None), or nowhere.                                                *)
Unranked == "unranked"
Places == Sprints \cup {None, Unranked}

ASSUME BoardAssumption == /\ Raised \subseteq Reqs /\ None \notin Sprints \cup Reqs
                          /\ Unranked \notin Sprints \cup {None}
                          /\ Moves \cup Born \subseteq WorkStatuses

(* f, and g where f says nothing.                                             *)
Over(f, g) == [x \in DOMAIN f \cup DOMAIN g |-> IF x \in DOMAIN f THEN f[x] ELSE g[x]]

-----------------------------------------------------------------------------
(* Beginning a request, and what it holds.                                    *)

(* The requirements that request t read or wrote; those it puts into sprint s *)
(* that another ends; and the report (None), triaged and followed at a time.  *)
Ends(t)    == t.at = "read" /\ t.op \in {"close", "delete"}
Triages(t) == t.at = "read" /\ t.op = "triage"
Touched(t) == IF Ends(t) THEN DOMAIN t.found ELSE IF t = Idle \/ Triages(t) THEN {} ELSE {t.r}
Minds(t)   == Triages(t) \/ Touched(t) \cap Raised # {}
Puts(t, s) == \/ t.at = "read" /\ t.op = "patch" /\ "sprint" \in DOMAIN t.patch /\ t.patch.sprint = s
              \/ t.at = "read" /\ t.op = "create" /\ t.sprint = s
              \/ t.at = "written" /\ "sprint" \in DOMAIN t.sets /\ t.sets.sprint = s
Emptied(t, u) == IF Ends(t) /\ Puts(u, t.s) THEN {u.r} ELSE {}

Both(t, u) == (Touched(t) \cap Touched(u)) \cup Emptied(t, u) \cup Emptied(u, t)
              \cup {x \in {None} : (Triages(t) /\ Minds(u)) \/ (Triages(u) /\ Minds(t))}

Begin(p, t) ==
    /\ tx[p] = Idle /\ begun < MaxBegun
    /\ tx' = [tx EXCEPT ![p] = t]
    /\ begun' = begun + 1
    /\ met' = met \cup UNION {Both(t, tx[q]) : q \in Requests \ {p}}
    /\ UNCHANGED rows

Locked(r) == \E p \in Requests : tx[p].at = "written" /\ tx[p].r = r
End(p) == tx' = [tx EXCEPT ![p] = Idle] /\ UNCHANGED <<begun, met>>

(* The fields of new that differ from what the request read, or were given    *)
(* anew: all it writes.                                                       *)
Changed(seen, new, anew) == [f \in {x \in DOMAIN new : new[x] # seen[x] \/ x \in anew} |-> new[f]]

-----------------------------------------------------------------------------
(* PATCH of a requirement.                                                    *)

(* update_requirement on the row it read; a patch is a function from fields.  *)
(* A position is given where the requirement then is, the backlog included.   *)
Patched(row, patch) ==
    LET sent == Over([f \in DOMAIN patch \ {"ranked"} |-> patch[f]], row)
        entering == "sprint" \in DOMAIN patch /\ patch.sprint \notin {None, row.sprint}
        restarted == IF entering /\ row.status # "Done" /\ sent.status # "Done"
                     THEN [sent EXCEPT !.status = "NotStarted"] ELSE sent
        placed == [restarted EXCEPT !.ranked = IF "ranked" \in DOMAIN patch THEN restarted.sprint
                                               ELSE IF restarted.sprint # row.sprint THEN Unranked ELSE @]
    IN  IF placed.status = row.status THEN placed
        ELSE [placed EXCEPT !.from = IF placed.status = "Blocked" THEN row.status ELSE None]

UpdateRequirement(p, r, patch) ==
    /\ r \in DOMAIN req /\ ~req[r].archived
    /\ "sprint" \in DOMAIN patch /\ patch.sprint # None => sprint[patch.sprint] # "deleted"
    /\ Begin(p, [at |-> "read", op |-> "patch", r |-> r, seen |-> req[r], patch |-> patch])

(* feedback_follows_requirement: what the request decides about the report,   *)
(* from the report as it is when the requirement's change is flushed.         *)
Follows(r, status) == r \in Raised /\ status \in Started /\ report.status \notin Settled

(* The UPDATE of the requirement is flushed before the report is read.        *)
WriteRequirement(p) ==
    LET t == tx[p]  new == Patched(t.seen, t.patch)
    IN  /\ t.at = "read" /\ t.op = "patch" /\ ~Locked(t.r)
        /\ tx' = [tx EXCEPT ![p] = [at |-> "written", r |-> t.r, claim |-> FALSE,
                                    sets |-> Changed(t.seen, new, DOMAIN t.patch \cap {"ranked"}),
                                    follows |-> new.status # t.seen.status /\ Follows(t.r, new.status)]]
        /\ UNCHANGED <<rows, begun, met>>

\* Mutant: the row is read without FOR UPDATE.
ClaimableUnlocked(r) == r \in DOMAIN req /\ ~req[r].archived /\ req[r].status = "NotStarted"

(* claim_requirement and queue_agent_run: SELECT ... FOR UPDATE waits for the *)
(* row and reads it fresh.                                                    *)
Claimable(r) == r \in DOMAIN req /\ ~Locked(r) /\ ~req[r].archived /\ req[r].status = "NotStarted"

Claim(p, r) ==
    /\ Claimable(r)
    /\ Begin(p, [at |-> "written", r |-> r, sets |-> [status |-> "InProgress"], claim |-> TRUE,
                 follows |-> Follows(r, "InProgress")])

CommitRequirement(p) ==
    LET t == tx[p]
    IN  /\ t.at = "written"
        /\ req' = [req EXCEPT ![t.r] = Over(t.sets, @)]
        /\ told' = IF "status" \in DOMAIN t.sets THEN [told EXCEPT ![t.r] = t.sets.status] ELSE told
        /\ member' = IF "sprint" \in DOMAIN t.sets THEN [member EXCEPT ![t.r] = t.sets.sprint] ELSE member
        /\ report' = IF t.follows THEN [report EXCEPT !.status = "InProgress"] ELSE report
        /\ wins' = IF t.claim THEN [wins EXCEPT ![t.r] = @ + 1]
                   ELSE IF "status" \in DOMAIN t.sets /\ t.sets.status = "NotStarted"
                   THEN [wins EXCEPT ![t.r] = 0] ELSE wins
        /\ End(p) /\ UNCHANGED sprint

-----------------------------------------------------------------------------
(* Creating, archiving and restoring.                                         *)

CreateRequirement(p, r, status, s) ==
    /\ r \notin DOMAIN req /\ (s # None => sprint[s] # "deleted")
    /\ \A q \in Requests : tx[q].at = "read" /\ tx[q].op = "create" => tx[q].r # r
    /\ r \in Raised => status = "NotStarted" /\ s = None
    /\ Begin(p, [at |-> "read", op |-> "create", r |-> r, status |-> status, sprint |-> s])

Create(p) ==
    LET t == tx[p]
    IN  /\ t.at = "read" /\ t.op = "create"
        /\ req' = Over(req, [r \in {t.r} |-> [status |-> t.status, sprint |-> t.sprint, ranked |-> Unranked,
                                               from |-> None, archived |-> FALSE]])
        /\ member' = Over(member, [r \in {t.r} |-> t.sprint])
        /\ told' = Over(told, [r \in {t.r} |-> None])
        /\ wins' = Over(wins, [r \in {t.r} |-> 0])
        /\ End(p) /\ UNCHANGED <<sprint, report>>

ArchiveRequirement(p, r, archived) ==
    /\ r \in DOMAIN req /\ req[r].archived # archived
    /\ Begin(p, [at |-> "read", op |-> "archive", r |-> r, archived |-> archived])

Archive(p) ==
    LET t == tx[p]
    IN  /\ t.at = "read" /\ t.op = "archive" /\ ~Locked(t.r)
        /\ req' = [req EXCEPT ![t.r].archived = t.archived]
        /\ End(p) /\ UNCHANGED <<sprint, report, told, member, wins>>

-----------------------------------------------------------------------------
(* Sprints: closing returns the unfinished work the request found in the      *)
(* sprint to the backlog, deleting returns all of it.                         *)

EndSprint(p, s, op) ==
    LET found == {r \in DOMAIN req : req[r].sprint = s /\ (op = "close" => req[r].status # "Done")}
    IN  /\ sprint[s] # "deleted" /\ (op = "close" => sprint[s] = "open")
        /\ Begin(p, [at |-> "read", op |-> op, s |-> s, found |-> [r \in found |-> req[r]]])

\* Mutant: the queue position stays.
ReturnedRanked(t) ==
    [r \in DOMAIN req |-> IF r \in DOMAIN t.found THEN [req[r] EXCEPT !.sprint = None] ELSE req[r]]

Returned(t) ==
    [r \in DOMAIN req |->
        IF r \notin DOMAIN t.found THEN req[r]
        ELSE Over(Changed(t.found[r], [t.found[r] EXCEPT !.sprint = None, !.ranked = Unranked], {}), req[r])]

\* Mutant: the return to the backlog is not in the history.
NotFiled(t) == member

Filed(t) == [r \in DOMAIN req |-> IF r \in DOMAIN t.found THEN None ELSE member[r]]

SprintEnds(p) ==
    LET t == tx[p]
    IN  /\ t.at = "read" /\ t.op \in {"close", "delete"}
        /\ \A r \in DOMAIN t.found : ~Locked(r)
        /\ req' = Returned(t)
        /\ member' = Filed(t)
        /\ sprint' = [sprint EXCEPT ![t.s] = IF t.op = "delete" \/ @ = "deleted" THEN "deleted" ELSE "closed"]
        /\ End(p) /\ UNCHANGED <<report, told, wins>>

ReopenSprint(p, s) ==
    /\ tx[p] = Idle /\ sprint[s] = "closed"
    /\ sprint' = [sprint EXCEPT ![s] = "open"]
    /\ UNCHANGED <<req, report, told, member, tx, wins, begun, met>>

-----------------------------------------------------------------------------
(* Triage of the report.                                                      *)

(* resolution_stamp: what resolved_at holds after a move.                     *)
Stamped(after) == after = "Resolved"

UpdateFeedback(p, status) == Begin(p, [at |-> "read", op |-> "triage", was |-> report, status |-> status])

Triaged(p) ==
    LET t == tx[p]
    IN  /\ t.at = "read" /\ t.op = "triage"
        /\ report' = Over(Changed(t.was, [status |-> t.status, stamped |-> Stamped(t.status)], {}), report)
        /\ End(p) /\ UNCHANGED <<req, sprint, told, member, wins>>

-----------------------------------------------------------------------------
Init ==
    /\ req = <<>> /\ told = <<>> /\ member = <<>> /\ wins = <<>>
    /\ sprint = [s \in Sprints |-> "open"]
    /\ report = [status |-> "New", stamped |-> FALSE]
    /\ tx = [p \in Requests |-> Idle]
    /\ begun = 0 /\ met = {}

Patches == UNION {[{"status"} -> Moves], [{"sprint"} -> Sprints \cup {None}], [{"ranked"} -> {TRUE}],
                  {[sprint |-> s, ranked |-> TRUE] : s \in Sprints}}

Next ==
    \E p \in Requests :
        \/ \E r \in Reqs :
              \/ \E patch \in Patches : UpdateRequirement(p, r, patch)
              \/ Claim(p, r)
              \/ \E status \in Born, s \in Sprints \cup {None} : CreateRequirement(p, r, status, s)
              \/ \E archived \in BOOLEAN : ArchiveRequirement(p, r, archived)
        \/ \E s \in Sprints : ReopenSprint(p, s) \/ \E op \in {"close", "delete"} : EndSprint(p, s, op)
        \/ \E status \in Triage : UpdateFeedback(p, status)
        \/ WriteRequirement(p) \/ CommitRequirement(p) \/ Create(p) \/ Archive(p) \/ SprintEnds(p) \/ Triaged(p)

Spec == Init /\ [][Next]_vars

-----------------------------------------------------------------------------
Row == [status : WorkStatuses, sprint : Sprints \cup {None}, ranked : Places,
        from : WorkStatuses \cup {None}, archived : BOOLEAN]

(* Of the agents and people who claim or queue one requirement at the same    *)
(* time, one wins; the next wins only after someone gave the requirement back *)
(* (service.py claim_requirement, agents.py queue_agent_run).                 *)
ClaimWonOnce == \A r \in DOMAIN wins : wins[r] <= 1

(* The burndown reads a requirement's sprint from its history and its status  *)
(* from its events: however requests interleave, the last of each is what the *)
(* row holds (service.py sprint_burndown).                                    *)
BurndownReadsTheRow ==
    \A r \in DOMAIN req : /\ member[r] = req[r].sprint
                          /\ told[r] # None => told[r] = req[r].status

InSprint(s) == {r \in DOMAIN req : req[r].sprint = s}

(* delete_sprint: "Every requirement in the sprint -- done or not -- goes     *)
(* back to the backlog".                                                      *)
OutOfDeleted(r) == req[r].sprint # None => sprint[req[r].sprint] # "deleted"
DeletedSprintsEmpty == \A r \in DOMAIN req : OutOfDeleted(r)

(* "A queue position is scoped to a sprint: leaving one (or changing sprint)  *)
(* drops it" (routes.py:1335): one given in a sprint, or in the backlog, does *)
(* not go with the requirement.                                               *)
Scoped(r) == req[r].ranked # Unranked => req[r].ranked = req[r].sprint
PositionsAreScoped == \A r \in DOMAIN req : Scoped(r)

(* "A requirement back in the backlog must not still carry" a position        *)
(* (service.py:553-556): a PATCH ranks one there.                             *)
BacklogUnranked == \A r \in DOMAIN req : req[r].ranked # Unranked => req[r].sprint # None

(* blocked_from is the stage a blocked requirement returns to, and nothing    *)
(* once it is not blocked (routes.py:1339-1344).                              *)
Remembers(r) == req[r].from # None => req[r].status = "Blocked"
OnlyBlockedRemember == \A r \in DOMAIN req : Remembers(r)

(* resolved_at is held by resolved reports only (service.py:391-405).         *)
ResolvedIsStamped == report.stamped <=> report.status = "Resolved"

(* The bookkeeping no lock protects is right, however requests overlap, of a  *)
(* requirement that no two of them under way at once both read or wrote, or   *)
(* moved into a sprint that the other ended; and of the report, if nobody     *)
(* triaged it while another triaged it too or was about what it raised.       *)
BookkeepingWhereApart ==
    /\ \A r \in DOMAIN req \ met : OutOfDeleted(r) /\ Scoped(r) /\ Remembers(r)
    /\ None \notin met => ResolvedIsStamped

(* service.py _REPORT_SETTLED: a resolved report is not pulled out of its     *)
(* status by its requirements' progress.                                      *)
ResolvedStays == [][\A p \in Requests : CommitRequirement(p) /\ report.status = "Resolved" => report' = report]_vars
=============================================================================
