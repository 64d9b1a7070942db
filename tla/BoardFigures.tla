---------------------------- MODULE BoardFigures ----------------------------
(* The figures of the project board, which the program computes twice: the    *)
(* server in board/service.py and board/statuses.py, the pages in             *)
(* board/effort.ts and board/boardModel.ts. "rows" is a function from         *)
(* requirement ids to rows with a status, an estimate and their links.        *)
EXTENDS Integers, FiniteSets, FiniteSetsExt

CONSTANTS None, Hours   \* Hours[r]: the estimate of r, a natural number or None

WorkStatuses == {"NotStarted", "InProgress", "ToTest", "Done", "Blocked"}

(* A status' weight in quarters: 1, 0.75 and 0.5 in the code.                 *)
Quarters(status) ==
    CASE status = "Done" -> 4 [] status = "ToTest" -> 3 [] status = "InProgress" -> 2
      [] OTHER -> 0

-----------------------------------------------------------------------------
(* The server.                                                                *)

RollUpStatus(seen) ==
    CASE seen = {} -> "NotStarted"
      [] seen = {"Done"} -> "Done"
      [] seen = {"NotStarted"} -> "NotStarted"
      [] seen \ {"Done"} = {"Blocked"} -> "Blocked"
      [] seen \subseteq {"Done", "ToTest"} -> "ToTest"
      [] OTHER -> "InProgress"

EffectiveEpic(r, features) ==
    IF r.epic # None THEN r.epic
    ELSE IF r.feature \in DOMAIN features THEN features[r.feature].epic ELSE None

EffectiveRelease(r, features, epics) ==
    LET e == EffectiveEpic(r, features)
    IN  IF r.release # None THEN r.release
        ELSE IF e \in DOMAIN epics THEN epics[e].release ELSE None

Sum(S, f) == FoldSet(LAMBDA x, acc : acc + f[x], 0, S)

ProgressRollup(rows) ==
    LET ids == DOMAIN rows
        estimated == {i \in ids : Hours[i] # None}
        With(status) == Cardinality({i \in ids : rows[i].status = status})
    IN  [total |-> Cardinality(ids), done |-> With("Done"),
         in_progress |-> With("InProgress"), to_test |-> With("ToTest"),
         score |-> Sum(ids, [i \in ids |-> Quarters(rows[i].status)]),
         hours |-> Sum(estimated, Hours),
         hours_done |-> Sum(estimated, [i \in estimated |-> Hours[i] * Quarters(rows[i].status)]),
         estimated |-> Cardinality(estimated)]

(* Python's round() takes a tie to the even neighbour.                        *)
RoundPython(num, den) ==
    LET q == num \div den  rest == 2 * (num % den)
    IN  IF rest < den \/ (rest = den /\ q % 2 = 0) THEN q ELSE q + 1

ServerPct(p) == IF p.total = 0 THEN 0 ELSE RoundPython(25 * p.score, p.total)

FeatureStatus(rows, f) == RollUpStatus({rows[r].status : r \in {x \in DOMAIN rows : rows[x].feature = f}})
EpicStatus(rows, features, e) ==
    RollUpStatus({rows[r].status : r \in {x \in DOMAIN rows : EffectiveEpic(rows[x], features) = e}})

-----------------------------------------------------------------------------
(* The pages.                                                                 *)

(* rollup(): one pass over the rows.                                          *)
ClientRollup(rows) ==
    LET step(i, acc) ==
            LET w == Quarters(rows[i].status)
                s == rows[i].status
                counted == [acc EXCEPT !.total = @ + 1, !.score = @ + w,
                                       !.done = IF s = "Done" THEN @ + 1 ELSE @,
                                       !.in_progress = IF s = "InProgress" THEN @ + 1 ELSE @,
                                       !.to_test = IF s = "ToTest" THEN @ + 1 ELSE @]
            IN  IF Hours[i] = None THEN counted
                ELSE [counted EXCEPT !.estimated = @ + 1, !.hours = @ + Hours[i],
                                     !.hours_done = @ + Hours[i] * w]
    IN  FoldSet(step, [total |-> 0, done |-> 0, in_progress |-> 0, to_test |-> 0, score |-> 0,
                       hours |-> 0, hours_done |-> 0, estimated |-> 0], DOMAIN rows)

(* Math.round() takes a tie up.                                               *)
ClientPct(p) == IF p.total = 0 THEN 0 ELSE (50 * p.score + p.total) \div (2 * p.total)

(* effectiveEpicId() and effectiveReleaseId(): over the loaded rows, the      *)
(* feature's epic looked up by id.                                            *)
ClientEpic(r, features) ==
    CASE r.epic # None -> r.epic
      [] r.epic = None /\ r.feature \in DOMAIN features -> features[r.feature].epic
      [] OTHER -> None
\* Mutant: a release is inherited only by what is filed under an epic itself.
ClientReleaseDirect(r, epics, features) ==
    IF r.release # None THEN r.release ELSE IF r.epic \in DOMAIN epics THEN epics[r.epic].release ELSE None

ClientRelease(r, epics, features) ==
    LET e == ClientEpic(r, features)
    IN  CASE r.release # None -> r.release
          [] r.release = None /\ e \in DOMAIN epics -> epics[e].release
          [] OTHER -> None

(* buildIndex(): the rows of an epic and of a release.                        *)
EpicRequirements(rows, features, e) == {r \in DOMAIN rows : ClientEpic(rows[r], features) = e}
ReleaseBacklog(rows, epics, features, rel) ==
    {r \in DOMAIN rows : ClientRelease(rows[r], epics, features) = rel}
=============================================================================
