---------------------------- MODULE PagesProofs ----------------------------
(***************************************************************************)
(* Proofs about a page on the server.  Module OpServer, for any number of  *)
(* handlers, any requests, restores and locks: what the applier does to a  *)
(* page is left opaque, the handlers are right for whatever Verdict and    *)
(* Applied compute.  Module PageHistory, for any op lists: what the        *)
(* applier does to a page, from the lemmas of PageOpsProofs.  And about    *)
(* the timeline of its edits in the studio: module UndoHistory, for any    *)
(* pages, shells around them and bounds.                                   *)
(***************************************************************************)
EXTENDS MCPages, PageOpsProofs

IsProc(p) ==
    /\ p \in [pc : {"idle", "admitted", "fresh", "holding"},
              payload : Payloads \cup {None}, seen : {p.seen}, gen : {p.gen}]
    /\ p.pc # "idle" => p.payload \in Payloads

\* Everything is what it should be, except that pages may be anything.
Shape ==
    /\ records \in [BatchIds -> Record \cup {None}]
    /\ proc = [s \in Slots |-> proc[s]]
    /\ \A s \in Slots : IsProc(proc[s])

\* The row lock: a handler about to commit has it, and the page it computed
\* its verdict on is still the page.
RowLock ==
    \A s \in Slots : At(s, "holding") =>
        /\ holder = s /\ proc[s].seen = row
        /\ Verdict(row, Sent(s).ops, Sent(s).base) # "invalid"

\* A restore goes back to a page that was saved.
Target == restorer # None => restorer.target \in saved

HInv == Shape /\ RowLock /\ Target

\* The applier's three verdicts.
LEMMA VerdictRange ==
    ASSUME NEW p, NEW ops, NEW base
    PROVE  Verdict(p, ops, base) \in {"ok", "conflict", "invalid"}
BY DEF Verdict

\* The id of a request that is being handled.
LEMMA SentPayload ==
    ASSUME Shape, NEW s \in Slots, ~At(s, "idle")
    PROVE  Sent(s) \in Payloads /\ Sent(s).id \in BatchIds
BY DEF Shape, IsProc, At, Sent, BatchIds

\* Handlers other than s are left alone when s starts, waits or ends.
LEMMA OneHandler ==
    ASSUME Shape, NEW s \in Slots, NEW p, IsProc(p), proc' = [proc EXCEPT ![s] = p]
    PROVE  /\ proc' = [u \in Slots |-> proc'[u]]
           /\ \A u \in Slots : IsProc(proc'[u])
           /\ \A u \in Slots : proc'[u] = IF u = s THEN p ELSE proc[u]
<1>1. \A u \in Slots : proc'[u] = IF u = s THEN p ELSE proc[u]
  BY DEF Shape
<1>2. proc' = [u \in Slots |-> proc'[u]]
  BY DEF Shape
<1> QED BY <1>1, <1>2 DEF Shape

\* A slot without a request is well formed.
LEMMA IdleIsProc == IsProc(Idle)
BY DEF IsProc, Idle

-----------------------------------------------------------------------------
(* The row lock *)

\* The initial states satisfy the invariant.
LEMMA InitHInv == Init => HInv
<1>1. SUFFICES ASSUME Init PROVE HInv
  OBVIOUS
<1>2. Shape
  BY <1>1, IdleIsProc DEF Init, Shape
<1>3. RowLock
  BY <1>1 DEF Init, RowLock, At, Idle
<1>4. Target
  BY <1>1 DEF Init, Target
<1> QED BY <1>2, <1>3, <1>4 DEF HInv

\* A handler ends without having changed the page: by an answer or by dying.
LEMMA EndStep ==
    ASSUME HInv, NEW s \in Slots, proc' = [proc EXCEPT ![s] = Idle],
           holder' = (IF holder = s THEN None ELSE holder),
           UNCHANGED <<row, records, saved, restorer>>
    PROVE  HInv'
<1>1. /\ proc' = [u \in Slots |-> proc'[u]] /\ \A u \in Slots : IsProc(proc'[u])
      /\ \A u \in Slots : proc'[u] = IF u = s THEN Idle ELSE proc[u]
  BY IdleIsProc, OneHandler DEF HInv
<1>2. Shape'
  BY <1>1 DEF HInv, Shape
<1>3. RowLock'
  BY <1>1 DEF HInv, RowLock, At, Sent, Idle
<1>4. Target'
  BY DEF HInv, Target
<1> QED BY <1>2, <1>3, <1>4 DEF HInv

\* A handler moves on without taking the lock.
LEMMA MoveStep ==
    ASSUME HInv, NEW s \in Slots, NEW p, IsProc(p), p.pc # "holding",
           ~At(s, "holding"), proc' = [proc EXCEPT ![s] = p],
           UNCHANGED <<row, records, holder, saved, restorer>>
    PROVE  HInv'
<1>1. /\ proc' = [u \in Slots |-> proc'[u]] /\ \A u \in Slots : IsProc(proc'[u])
      /\ \A u \in Slots : proc'[u] = IF u = s THEN p ELSE proc[u]
  BY OneHandler DEF HInv
<1>2. Shape'
  BY <1>1 DEF HInv, Shape
<1>3. RowLock'
  BY <1>1 DEF HInv, RowLock, At, Sent
<1>4. Target'
  BY DEF HInv, Target
<1> QED BY <1>2, <1>3, <1>4 DEF HInv

\* A request arrives.
LEMMA ArriveStep ==
    ASSUME HInv, NEW s \in Slots, NEW p \in Payloads, Arrive(s, p)
    PROVE  HInv'
<1>1. UNCHANGED <<row, records, holder, saved, restorer>>
  BY DEF Arrive, lockVars, restVars
<1>2. CASE locked
  <2>1. UNCHANGED proc
    BY <1>2 DEF Arrive
  <2> QED BY <1>1, <2>1 DEF HInv, Shape, RowLock, Target, At, Sent
<1>3. CASE ~locked
  <2> DEFINE q == [Idle EXCEPT !.pc = "admitted", !.payload = p]
  <2>1. proc' = [proc EXCEPT ![s] = q] /\ ~At(s, "holding")
    BY <1>3 DEF Arrive, At
  <2>2. q \in [pc : {"admitted"}, payload : {p}, seen : {None}, gen : {0}]
    BY DEF Idle
  <2>3. IsProc(q) /\ q.pc # "holding"
    BY <2>2 DEF IsProc
  <2> HIDE DEF q
  <2> QED BY <1>1, <2>1, <2>3, MoveStep
<1> QED BY <1>2, <1>3

\* The id is looked up.
LEMMA LookupStep ==
    ASSUME HInv, NEW s \in Slots, Lookup(s)
    PROVE  HInv'
<1>1. UNCHANGED <<row, records, saved, restorer>> /\ At(s, "admitted")
  BY DEF Lookup, lockVars, restVars
<1>2. CASE records[Sent(s).id] = None
  <2> DEFINE q == [proc[s] EXCEPT !.pc = "fresh", !.gen = gen]
  <2>1. proc' = [proc EXCEPT ![s] = q] /\ UNCHANGED holder
    BY <1>2 DEF Lookup, HInv, Shape
  <2>2. IsProc(proc[s]) /\ proc[s].pc = "admitted"
    BY <1>1 DEF HInv, Shape, At
  <2>3. q \in [pc : {"fresh"}, payload : {proc[s].payload}, seen : {proc[s].seen},
               gen : {gen}]
    BY <2>2 DEF IsProc
  <2>4. IsProc(q) /\ q.pc # "holding" /\ ~At(s, "holding")
    BY <2>2, <2>3 DEF IsProc, At
  <2> HIDE DEF q
  <2> QED BY <1>1, <2>1, <2>4, MoveStep
<1>3. CASE records[Sent(s).id] # None
  <2>1. \E status : Finish(s, status)
    BY <1>3 DEF Lookup
  <2> QED BY <1>1, <2>1, EndStep DEF Finish
<1> QED BY <1>2, <1>3

\* The row lock is granted: nobody holds it, and the page is read under it.
LEMMA AcquireStep ==
    ASSUME HInv, NEW s \in Slots, Acquire(s)
    PROVE  HInv'
<1>1. UNCHANGED <<row, records, saved, restorer>> /\ At(s, "fresh") /\ holder = None
  BY DEF Acquire, lockVars, restVars
<1>2. CASE Verdict(row, Sent(s).ops, Sent(s).base) = "invalid"
  <2>1. Finish(s, "invalid")
    BY <1>2 DEF Acquire
  <2> QED BY <1>1, <2>1, EndStep DEF Finish
<1>3. CASE Verdict(row, Sent(s).ops, Sent(s).base) # "invalid"
  <2> DEFINE q == [proc[s] EXCEPT !.pc = "holding", !.seen = row]
  <2>1. proc' = [proc EXCEPT ![s] = q] /\ holder' = s
    BY <1>3 DEF Acquire, HInv, Shape
  <2>2. IsProc(proc[s]) /\ proc[s].pc = "fresh"
    BY <1>1 DEF HInv, Shape, At
  <2>3. q \in [pc : {"holding"}, payload : {Sent(s)}, seen : {row}, gen : {proc[s].gen}]
    BY <2>2 DEF IsProc, Sent
  <2>4. IsProc(q) /\ q.pc = "holding" /\ q.seen = row /\ q.payload = Sent(s)
    BY <2>2, <2>3 DEF IsProc, Sent
  <2> HIDE DEF q
  <2>5. /\ proc' = [u \in Slots |-> proc'[u]] /\ \A u \in Slots : IsProc(proc'[u])
        /\ \A u \in Slots : proc'[u] = IF u = s THEN q ELSE proc[u]
    BY <2>1, <2>4, OneHandler DEF HInv
  <2>6. \A u \in Slots : ~At(u, "holding")
    BY <1>1, PayloadAssumption DEF HInv, RowLock
  <2>7. RowLock'
    BY <1>1, <1>3, <2>1, <2>4, <2>5, <2>6 DEF RowLock, At, Sent
  <2>8. Shape' /\ Target'
    BY <1>1, <2>5 DEF HInv, Shape, Target
  <2> QED BY <2>7, <2>8 DEF HInv
<1> QED BY <1>2, <1>3

\* The batch whose handler commits, and the record it writes.
LEMMA CommitCases ==
    ASSUME HInv, NEW s \in Slots, Commit(s)
    PROVE  LET p == Sent(s)
               verdict == Verdict(row, p.ops, p.base)
           IN  /\ p \in Payloads /\ p.id \in BatchIds /\ holder = s
               /\ UNCHANGED <<saved, restorer>>
               /\ \/ /\ Finish(s, "error")
                     /\ UNCHANGED <<row, records, effects>>
                  \/ /\ records[p.id] = None /\ verdict \in {"ok", "conflict"}
                     /\ \E old \in Old(s) :
                           records' = [Pruned(old) EXCEPT
                                          ![p.id] = [payload |-> p, status |-> verdict]]
                     /\ row' = IF verdict = "ok" THEN Applied(row, p.ops) ELSE row
                     /\ effects' = IF verdict = "ok"
                                   THEN [effects EXCEPT ![p.id] = @ + 1] ELSE effects
                     /\ Finish(s, verdict)
<1>1. At(s, "holding")
  BY DEF Commit
<1>2. Sent(s) \in Payloads /\ Sent(s).id \in BatchIds
  <2>1. ~At(s, "idle")
    BY <1>1 DEF At
  <2> QED BY <2>1, SentPayload DEF HInv
<1>3. holder = s /\ proc[s].seen = row /\ Verdict(row, Sent(s).ops, Sent(s).base) # "invalid"
  BY <1>1 DEF HInv, RowLock
<1>4. Verdict(row, Sent(s).ops, Sent(s).base) \in {"ok", "conflict"}
  BY <1>3, VerdictRange
<1>5. UNCHANGED <<saved, restorer>>
  BY DEF Commit, restVars
<1>6. CASE records[Sent(s).id] # None
  BY <1>2, <1>3, <1>5, <1>6 DEF Commit
<1>7. CASE records[Sent(s).id] = None
  BY <1>2, <1>3, <1>4, <1>5, <1>7 DEF Commit
<1> QED BY <1>6, <1>7

\* The record that a commit writes.
LEMMA CommitRecords ==
    ASSUME HInv, NEW s \in Slots, Commit(s)
    PROVE  records' \in [BatchIds -> Record \cup {None}]
<1>1. records \in [BatchIds -> Record \cup {None}]
  BY DEF HInv, Shape
<1> DEFINE p == Sent(s)
           verdict == Verdict(row, p.ops, p.base)
<1>2. CASE UNCHANGED records
  BY <1>1, <1>2
<1>3. ASSUME NEW old \in Old(s), p \in Payloads, verdict \in {"ok", "conflict"},
             records' = [Pruned(old) EXCEPT ![p.id] = [payload |-> p, status |-> verdict]]
      PROVE  records' \in [BatchIds -> Record \cup {None}]
  <2>1. Pruned(old) \in [BatchIds -> Record \cup {None}]
    BY <1>1 DEF Pruned
  <2>2. [payload |-> p, status |-> verdict] \in Record
    BY <1>3 DEF Record
  <2> QED BY <1>3, <2>1, <2>2
<1> QED BY <1>2, <1>3, CommitCases

\* Page and record are committed by the handler that has the lock, so no
\* other handler's verdict goes stale.
LEMMA CommitStep ==
    ASSUME HInv, NEW s \in Slots, Commit(s)
    PROVE  HInv'
<1>1. holder = s /\ UNCHANGED <<saved, restorer>>
  BY CommitCases
<1>2. /\ proc' = [proc EXCEPT ![s] = Idle]
  BY CommitCases DEF Finish
<1>3. /\ proc' = [u \in Slots |-> proc'[u]] /\ \A u \in Slots : IsProc(proc'[u])
      /\ \A u \in Slots : proc'[u] = IF u = s THEN Idle ELSE proc[u]
  BY <1>2, IdleIsProc, OneHandler DEF HInv
<1>4. \A u \in Slots : ~At(u, "holding")'
  BY <1>1, <1>3 DEF HInv, RowLock, At, Idle
<1>5. Shape'
  BY <1>3, CommitRecords DEF Shape
<1>6. RowLock' /\ Target'
  BY <1>1, <1>4 DEF HInv, RowLock, Target
<1> QED BY <1>5, <1>6 DEF HInv

\* A handler finds its row gone, or dies.
LEMMA LostStep ==
    ASSUME HInv, NEW s \in Slots, RowGone(s) \/ Die(s)
    PROVE  HInv'
<1>1. UNCHANGED <<row, records, saved, restorer>>
  BY DEF RowGone, Die, lockVars, restVars
<1>2. /\ proc' = [proc EXCEPT ![s] = Idle]
      /\ holder' = IF holder = s THEN None ELSE holder
  BY DEF RowGone, Die, Finish
<1> QED BY <1>1, <1>2, EndStep

\* The pages are replaced while no handler holds the row.
LEMMA RestoreStep ==
    ASSUME HInv, SaveVersion \/ BeginRestore \/ FinishRestore
    PROVE  HInv'
<1>1. UNCHANGED opVars
  BY DEF SaveVersion, BeginRestore, FinishRestore
<1>2. Shape'
  BY <1>1 DEF HInv, Shape, opVars
<1>3. RowLock'
  <2>1. CASE SaveVersion \/ BeginRestore
    BY <1>1, <2>1 DEF HInv, RowLock, At, Sent, opVars, SaveVersion, BeginRestore
  <2>2. CASE FinishRestore
    <3>1. \A u \in Slots : ~At(u, "holding")
      BY <2>2, PayloadAssumption DEF HInv, RowLock, FinishRestore
    <3> QED BY <1>1, <3>1 DEF RowLock, At, opVars
  <2> QED BY <2>1, <2>2
<1>4. Target'
  <2>1. CASE SaveVersion
    BY <2>1 DEF HInv, Target, SaveVersion
  <2>2. CASE BeginRestore
    BY <2>2 DEF BeginRestore, Target
  <2>3. CASE FinishRestore
    BY <2>3 DEF FinishRestore, Target
  <2> QED BY <2>1, <2>2, <2>3
<1> QED BY <1>2, <1>3, <1>4 DEF HInv

\* The version lock and a branch leave pages and handlers alone.
LEMMA LockStep ==
    ASSUME HInv, \/ LockProject \/ UnlockProject \/ CopyPages
                 \/ \E lockSource \in BOOLEAN : CommitCopy(lockSource)
    PROVE  HInv' /\ UNCHANGED <<row, records, saved, effects, told>>
<1>1. UNCHANGED <<row, opVars, restVars>>
  BY DEF LockProject, UnlockProject, CopyPages, CommitCopy
<1> QED BY <1>1 DEF HInv, Shape, RowLock, Target, At, Sent, opVars, restVars

\* Every step keeps it.
LEMMA NextHInv == HInv /\ [Next]_vars => HInv'
<1>1. SUFFICES ASSUME HInv, [Next]_vars PROVE HInv'
  OBVIOUS
<1>2. CASE UNCHANGED vars
  BY <1>1, <1>2 DEF HInv, Shape, RowLock, Target, At, Sent, vars, opVars, restVars
<1>3. ASSUME NEW s \in Slots, Handler(s) \/ Die(s) PROVE HInv'
  BY <1>1, <1>3, LookupStep, AcquireStep, LostStep, CommitStep DEF Handler
<1>4. ASSUME NEW s \in Slots, NEW p \in Payloads, Arrive(s, p) PROVE HInv'
  BY <1>1, <1>4, ArriveStep
<1>5. ASSUME SaveVersion \/ BeginRestore \/ FinishRestore PROVE HInv'
  BY <1>1, <1>5, RestoreStep
<1>6. ASSUME \/ LockProject \/ UnlockProject \/ CopyPages
             \/ \E lockSource \in BOOLEAN : CommitCopy(lockSource)
      PROVE  HInv'
  BY <1>1, <1>6, LockStep
<1> QED BY <1>1, <1>2, <1>3, <1>4, <1>5, <1>6 DEF Next

\* The strengthening is an invariant: every handler about to commit has the
\* row lock, and the page it judged its batch on is still the page.
THEOREM HandlersHoldTheRow == Spec => []HInv
<1>1. Init => HInv
  BY InitHInv
<1>2. HInv /\ [Next]_vars => HInv'
  BY NextHInv
<1> QED BY <1>1, <1>2, PTL DEF Spec

-----------------------------------------------------------------------------
(* The handlers implement the atomic service *)

\* A commit is one atomic answer of the service, or nothing.
LEMMA CommitServes ==
    ASSUME HInv, NEW s \in Slots, Commit(s)
    PROVE  Service!Next \/ UNCHANGED <<row, records, saved>>
<1> DEFINE p == Sent(s)
           verdict == Verdict(row, p.ops, p.base)
<1>1. CASE UNCHANGED <<row, records>>
  BY <1>1, CommitCases
<1>2. ASSUME records[p.id] = None, verdict \in {"ok", "conflict"}, p \in Payloads,
             UNCHANGED saved, NEW old \in Old(s),
             records' = [Pruned(old) EXCEPT ![p.id] = [payload |-> p, status |-> verdict]],
             row' = IF verdict = "ok" THEN Applied(row, p.ops) ELSE row
      PROVE  Service!Next
  <2>1. DOMAIN records = BatchIds
    BY DEF HInv, Shape
  <2>2. old \in SUBSET (DOMAIN records \ {p.id})
    BY <2>1 DEF Old
  <2>3. records' = [i \in DOMAIN records |->
                       IF i = p.id THEN [payload |-> p, status |-> verdict]
                       ELSE IF i \in old THEN None ELSE records[i]]
    BY <1>2, <2>1 DEF Pruned
  <2>4. Service!Answered(p, verdict)
    BY <2>2, <2>3 DEF Service!Answered
  <2>5. CASE verdict = "ok"
    <3>1. Service!Accept(p)
      BY <1>2, <2>4, <2>5 DEF Service!Accept
    <3> QED BY <1>2, <3>1 DEF Service!Next
  <2>6. CASE verdict = "conflict"
    <3>1. row' = row
      BY <1>2, <2>6
    <3>2. Service!Refuse(p)
      BY <1>2, <2>4, <2>6, <3>1 DEF Service!Refuse
    <3> QED BY <1>2, <3>2 DEF Service!Next
  <2> QED BY <1>2, <2>5, <2>6
<1> QED BY <1>1, <1>2, CommitCases

\* Every step is a step of the service or changes nothing it promises.
LEMMA StepServes ==
    HInv /\ [Next]_vars => [Service!Next]_<<row, records, saved>>
<1>1. SUFFICES ASSUME HInv, [Next]_vars
               PROVE  Service!Next \/ UNCHANGED <<row, records, saved>>
  OBVIOUS
<1>2. CASE UNCHANGED vars
  BY <1>2 DEF vars, opVars, restVars
<1>3. ASSUME NEW s \in Slots, Lookup(s) \/ Acquire(s) \/ RowGone(s) \/ Die(s)
      PROVE  UNCHANGED <<row, records, saved>>
  BY <1>3 DEF Lookup, Acquire, RowGone, Die, restVars
<1>4. ASSUME NEW s \in Slots, NEW p \in Payloads, Arrive(s, p)
      PROVE  UNCHANGED <<row, records, saved>>
  BY <1>4 DEF Arrive, restVars
<1>5. ASSUME NEW s \in Slots, Commit(s)
      PROVE  Service!Next \/ UNCHANGED <<row, records, saved>>
  BY <1>1, <1>5, CommitServes
<1>6. CASE SaveVersion
  BY <1>6 DEF SaveVersion, opVars, Service!Next, Service!Save
<1>7. CASE BeginRestore
  BY <1>7 DEF BeginRestore, opVars
<1>8. CASE FinishRestore
  <2>1. restorer.target \in saved /\ saved \subseteq saved'
    BY <1>1, <1>8 DEF HInv, Target, FinishRestore
  <2>2. Service!Replace
    BY <1>8, <2>1 DEF FinishRestore, opVars, Service!Replace
  <2> QED BY <2>2 DEF Service!Next
<1>9. ASSUME \/ LockProject \/ UnlockProject \/ CopyPages
             \/ \E lockSource \in BOOLEAN : CommitCopy(lockSource)
      PROVE  UNCHANGED <<row, records, saved>>
  BY <1>1, <1>9, LockStep
<1> QED BY <1>1, <1>2, <1>3, <1>4, <1>5, <1>6, <1>7, <1>8, <1>9 DEF Next, Handler

\* apply_op_batch is linearizable: for all their interleaving with each other,
\* with deaths, restores, locks and branches, the handlers answer as if each
\* batch ran alone at the moment its transaction commits.
THEOREM HandlersLinearize == Spec => Linearizable
<1>1. Init => Service!Init
  BY PageAssumption DEF Init, Service!Init, BatchIds
<1>2. HInv /\ [Next]_vars => [Service!Next]_<<row, records, saved>>
  BY StepServes
<1> QED BY <1>1, <1>2, HandlersHoldTheRow, PTL DEF Spec, Linearizable, Service!Spec

-----------------------------------------------------------------------------
(* What clients were told, while no record expires *)

Answer(i) == IF records[i] = None THEN "none" ELSE records[i].status

\* A batch took effect exactly if its record says so.
Counted ==
    /\ effects = [i \in BatchIds |-> effects[i]]
    /\ \A i \in BatchIds : effects[i] = IF Answer(i) = "ok" THEN 1 ELSE 0

\* Nobody was told what the record does not say.
Truthful ==
    \A i \in BatchIds : \A status \in {"ok", "conflict"} :
        <<i, status>> \in told => Answer(i) = status

EInv == Counted /\ Truthful

\* The initial states satisfy the invariant of the refinement.
LEMMA InitEInv == Init => EInv
<1>1. SUFFICES ASSUME Init PROVE EInv
  OBVIOUS
<1>2. \A i \in BatchIds : Answer(i) = "none" /\ effects[i] = 0
  BY <1>1 DEF Init, Answer
<1>3. Counted
  BY <1>1, <1>2 DEF Init, Counted
<1>4. Truthful
  BY <1>1 DEF Init, Truthful
<1> QED BY <1>3, <1>4 DEF EInv

\* An answer that the record bears out, or that makes no claim.
LEMMA ToldStep ==
    ASSUME EInv, NEW id, NEW status, UNCHANGED <<records, effects>>,
           told' = told \cup {<<id, status>>},
           status \in {"ok", "conflict"} => Answer(id) = status
    PROVE  EInv'
<1>1. \A i \in BatchIds : Answer(i)' = Answer(i)
  BY DEF Answer
<1>2. Counted'
  BY <1>1 DEF EInv, Counted
<1>3. Truthful'
  BY <1>1 DEF EInv, Truthful
<1> QED BY <1>2, <1>3 DEF EInv

\* Nothing is recorded and nobody is told anything.
LEMMA QuietStep ==
    ASSUME EInv, UNCHANGED <<records, effects, told>>
    PROVE  EInv'
BY DEF EInv, Counted, Truthful, Answer

\* The lookup tells the caller what was recorded.
LEMMA LookupTells ==
    ASSUME HInv, EInv, NEW s \in Slots, Lookup(s)
    PROVE  EInv'
<1>1. UNCHANGED <<records, effects>>
  BY DEF Lookup
<1>2. CASE records[Sent(s).id] = None
  <2>1. UNCHANGED told
    BY <1>2 DEF Lookup
  <2> QED BY <1>1, <2>1, QuietStep
<1>3. CASE records[Sent(s).id] # None
  <2> DEFINE status == IF records[Sent(s).id].payload = Sent(s)
                       THEN records[Sent(s).id].status ELSE "reused"
  <2>1. told' = told \cup {<<Sent(s).id, status>>}
    BY <1>3 DEF Lookup, Finish
  <2>2. status \in {"ok", "conflict"} => Answer(Sent(s).id) = status
    BY <1>3 DEF Answer
  <2> HIDE DEF status
  <2> QED BY <1>1, <2>1, <2>2, ToldStep
<1> QED BY <1>2, <1>3

\* The commit tells the caller what it recorded.
LEMMA CommitTells ==
    ASSUME ~CanExpire, HInv, EInv, NEW s \in Slots, Commit(s)
    PROVE  EInv'
<1> DEFINE p == Sent(s)
           verdict == Verdict(row, p.ops, p.base)
           rec == [payload |-> p, status |-> verdict]
<1>1. ASSUME Finish(s, "error"), UNCHANGED <<records, effects>>
      PROVE  EInv'
  <2>1. told' = told \cup {<<p.id, "error">>}
    BY <1>1 DEF Finish
  <2> QED BY <1>1, <2>1, ToldStep
<1>2. ASSUME p \in Payloads, p.id \in BatchIds,
             records[p.id] = None, verdict \in {"ok", "conflict"}, NEW old \in Old(s),
             records' = [Pruned(old) EXCEPT ![p.id] = rec],
             effects' = IF verdict = "ok" THEN [effects EXCEPT ![p.id] = @ + 1]
                        ELSE effects,
             Finish(s, verdict)
      PROVE  EInv'
  <2>1. rec # None /\ rec.status = verdict
    <3>1. rec \in Record
      BY <1>2 DEF Record
    <3> QED BY <3>1, PayloadAssumption
  <2>2. old = {}
    BY DEF Old
  <2>3. \A i \in BatchIds : records'[i] = IF i = p.id THEN rec ELSE records[i]
    BY <1>2, <2>2 DEF Pruned
  <2> HIDE DEF rec
  <2>4. \A i \in BatchIds : Answer(i)' = IF i = p.id THEN verdict ELSE Answer(i)
    BY <2>1, <2>3 DEF Answer
  <2>5. Answer(p.id) = "none" /\ effects[p.id] = 0
    BY <1>2 DEF Answer, EInv, Counted
  <2>6. told' = told \cup {<<p.id, verdict>>}
    BY <1>2 DEF Finish
  <2> HIDE DEF verdict, p
  <2>7. Truthful'
    <3>1. SUFFICES ASSUME NEW i \in BatchIds, NEW status \in {"ok", "conflict"},
                          <<i, status>> \in told'
                   PROVE  Answer(i)' = status
      BY DEF Truthful
    <3>2. CASE <<i, status>> \in told
      BY <1>2, <2>4, <2>5, <3>2 DEF EInv, Truthful
    <3>3. CASE <<i, status>> = <<p.id, verdict>>
      BY <1>2, <2>4, <3>3
    <3> QED BY <2>6, <3>1, <3>2, <3>3
  <2>8. Counted'
    <3>1. effects' = [i \in BatchIds |-> effects'[i]]
      BY <1>2 DEF EInv, Counted
    <3>2. \A i \in BatchIds :
             effects'[i] = IF i = p.id /\ verdict = "ok" THEN 1 ELSE effects[i]
      BY <1>2, <2>5 DEF EInv, Counted
    <3>3. \A i \in BatchIds : effects'[i] = IF Answer(i)' = "ok" THEN 1 ELSE 0
      BY <1>2, <2>4, <2>5, <3>2 DEF EInv, Counted
    <3> QED BY <3>1, <3>3 DEF Counted
  <2> QED BY <2>7, <2>8 DEF EInv
<1> QED BY <1>1, <1>2, CommitCases

\* Every step keeps the invariant of the refinement.
LEMMA NextEInv ==
    ASSUME ~CanExpire, HInv, EInv, [Next]_vars
    PROVE  EInv'
<1>1. CASE UNCHANGED vars
  BY <1>1, QuietStep DEF vars, opVars
<1>2. ASSUME NEW s \in Slots, NEW p \in Payloads, Arrive(s, p) PROVE EInv'
  <2>1. UNCHANGED <<records, effects>>
    BY <1>2 DEF Arrive
  <2>2. CASE locked
    <3>1. told' = told \cup {<<p.id, "locked">>}
      BY <1>2, <2>2 DEF Arrive
    <3> QED BY <2>1, <3>1, ToldStep
  <2>3. CASE ~locked
    <3>1. UNCHANGED told
      BY <1>2, <2>3 DEF Arrive
    <3> QED BY <2>1, <3>1, QuietStep
  <2> QED BY <2>2, <2>3
<1>3. ASSUME NEW s \in Slots, Acquire(s) \/ RowGone(s) \/ Die(s) PROVE EInv'
  <2>1. UNCHANGED <<records, effects>>
    BY <1>3 DEF Acquire, RowGone, Die
  <2>2. \/ UNCHANGED told
        \/ told' = told \cup {<<Sent(s).id, "invalid">>}
        \/ told' = told \cup {<<Sent(s).id, "gone">>}
    BY <1>3 DEF Acquire, RowGone, Die, Finish
  <2>3. CASE UNCHANGED told
    BY <2>1, <2>3, QuietStep
  <2>4. CASE told' = told \cup {<<Sent(s).id, "invalid">>}
    BY <2>1, <2>4, ToldStep
  <2>5. CASE told' = told \cup {<<Sent(s).id, "gone">>}
    BY <2>1, <2>5, ToldStep
  <2> QED BY <2>2, <2>3, <2>4, <2>5
<1>4. ASSUME NEW s \in Slots, Lookup(s) PROVE EInv'
  BY <1>4, LookupTells
<1>5. ASSUME NEW s \in Slots, Commit(s) PROVE EInv'
  BY <1>5, CommitTells
<1>6. ASSUME SaveVersion \/ BeginRestore \/ FinishRestore PROVE EInv'
  <2>1. UNCHANGED <<records, effects, told>>
    BY <1>6 DEF SaveVersion, BeginRestore, FinishRestore, opVars
  <2> QED BY <2>1, QuietStep
<1>7. ASSUME \/ LockProject \/ UnlockProject \/ CopyPages
             \/ \E lockSource \in BOOLEAN : CommitCopy(lockSource)
      PROVE  EInv'
  BY <1>7, LockStep, QuietStep
<1> QED BY <1>1, <1>2, <1>3, <1>4, <1>5, <1>6, <1>7 DEF Next, Handler

\* While no record expires, the records tell the truth about what took effect
\* and every answer given agrees with them.
THEOREM AnswersAreRecorded == ASSUME ~CanExpire PROVE Spec => []EInv
<1>1. Init => EInv
  BY InitEInv
<1>2. HInv /\ EInv /\ [Next]_vars => EInv'
  BY NextEInv
<1> QED BY <1>1, <1>2, HandlersHoldTheRow, PTL DEF Spec

\* A batch takes effect at most once, however many duplicates of it overlap.
THEOREM EffectsAreSingle == ASSUME ~CanExpire PROVE Spec => []AtMostOnce
<1>1. EInv => AtMostOnce
  BY DEF EInv, Counted, AtMostOnce
<1> QED BY <1>1, AnswersAreRecorded, PTL

\* "conflict" is told of no batch that took effect: an edit the client drops
\* is an edit that is not on the page.
THEOREM ConflictsAreTrue == ASSUME ~CanExpire PROVE Spec => []ConflictMeansNoEffect
<1>1. EInv => ConflictMeansNoEffect
  BY DEF EInv, Counted, Truthful, ConflictMeansNoEffect
<1> QED BY <1>1, AnswersAreRecorded, PTL

\* "ok" is told only of a batch that took effect, exactly once.
THEOREM AcceptsAreTrue == ASSUME ~CanExpire PROVE Spec => []OkMeansEffect
<1>1. EInv => OkMeansEffect
  BY DEF EInv, Counted, Truthful, OkMeansEffect
<1> QED BY <1>1, AnswersAreRecorded, PTL

\* What a client is told of its batch is true of the page.
THEOREM ClientsAreToldTheTruth == ASSUME ~CanExpire PROVE Spec => []AnswersAreTrue
<1>1. ConflictMeansNoEffect /\ OkMeansEffect => AnswersAreTrue
  BY DEF AnswersAreTrue
<1> QED BY <1>1, ConflictsAreTrue, AcceptsAreTrue, PTL

-----------------------------------------------------------------------------
(* What the applier does to a page *)

\* No id names two components, and no entity was changed later than its page.
PInv == Sound(page) /\ \A k \in Keys : page.ev[k] <= page.version

\* PageHistory has an applier of its own by INSTANCE: it finds the same ops legal.
LEMMA SameLegality == ASSUME NEW p, NEW op PROVE P!Legal(p, op) = Legal(p, op)
BY DEF P!Legal, Legal, P!Present, Present, P!Spots, Spots

\* Both appliers, this module's and PageHistory's, count alike.
LEMMA SameCount == ASSUME NEW S PROVE P!Cardinality(S) = Cardinality(S)
BY DEF P!Cardinality, Cardinality, P!IsFiniteSet, IsFiniteSet

\* Both take the same sublist.
LEMMA SameKeep == ASSUME NEW s, NEW S PROVE P!Keep(s, S) = Keep(s, S)
<1>1. \A j : P!Nth(S, j) = Nth(S, j)
  BY SameCount DEF P!Nth, Nth
<1> QED BY <1>1, SameCount DEF P!Keep, Keep

\* Both run an op alike.
LEMMA SameResult == ASSUME NEW p, NEW op PROVE P!Effect(p, op) = Effect(p, op)
<1>1. \A c : P!Spots(p, c) = Spots(p, c)
  BY DEF P!Spots, Spots
<1>2. \A c : P!Spot(p, c) = Spot(p, c)
  BY <1>1 DEF P!Spot, Spot
<1>3. \A c : P!Without(p, c) = Without(p, c)
  BY <1>2, SameKeep DEF P!Without, Without
<1>4. \A q, r, c : P!WithLast(q, r, c) = WithLast(q, r, c)
  BY DEF P!WithLast, WithLast
<1> QED BY <1>2, <1>3, <1>4 DEF P!Effect, Effect

\* Both version the same entities.
LEMMA SameKeys == P!Keys = Keys
BY DEF P!Keys, Keys, P!LayoutKey, LayoutKey, P!PageKey, PageKey

\* Both see the same in an entity.
LEMMA SameContent == ASSUME NEW p, NEW k PROVE P!Content(p, k) = Content(p, k)
<1>1. \A c : P!Spots(p, c) = Spots(p, c)
  BY DEF P!Spots, Spots
<1> QED BY <1>1 DEF P!Content, Content, P!LayoutKey, LayoutKey, P!PageKey, PageKey

\* Both make the same page of a batch.
LEMMA SameApplied == ASSUME NEW p, NEW ops PROVE P!Applied(p, ops) = Applied(p, ops)
<1>1. P!Stages(p, ops) = Stages(p, ops)
  BY SameLegality, SameResult DEF P!Stages, Stages
<1>2. P!Touched(ops) = Touched(ops)
  BY DEF P!Touched, Touched, P!KeyOf, KeyOf, P!LayoutKey, LayoutKey, P!PageKey, PageKey
<1> QED BY <1>1, <1>2, SameKeys DEF P!Applied, Applied

\* Both give the same answer.
LEMMA SameVerdict == ASSUME NEW p, NEW ops, NEW base PROVE P!Verdict(p, ops, base) = Verdict(p, ops, base)
<1>1. P!Stages(p, ops) = Stages(p, ops)
  BY SameLegality, SameResult DEF P!Stages, Stages
<1>2. P!Invalid(p, ops) = Invalid(p, ops)
  BY <1>1, SameLegality DEF P!Invalid, Invalid
<1>3. P!InConflict(p, ops, base) = InConflict(p, ops, base)
  BY DEF P!InConflict, InConflict, P!KeyOf, KeyOf, P!LayoutKey, LayoutKey, P!PageKey, PageKey
<1> QED BY <1>2, <1>3 DEF P!Verdict, Verdict

\* What a user means by an op is the entity the applier books it on.
LEMMA NamedIsBooked == ASSUME NEW op \in Op PROVE P!Named(op) = KeyOf(op) /\ KeyOf(op) \in Keys
BY DEF P!Named, KeyOf, Op, LayoutKey, PageKey, Keys

\* The version of an entity is above base when a batch after base changed it.
ChangedSince(k, base) == \E n \in DOMAIN changed : FirstPage.version + n > base /\ k \in changed[n]

\* The entity versions tell, for every base a client can have, what changed since.
Booked ==
    /\ changed \in Seq(SUBSET Keys)
    /\ page.version = FirstPage.version + Len(changed)
    /\ \A k \in Keys, base \in Nat :
          base >= FirstPage.version => (page.ev[k] > base <=> ChangedSince(k, base))

\* A page is created sound.
LEMMA InitPInv == P!Init => PInv
BY PagesAssumption DEF P!Init, PInv, Sound, DistinctIds

\* At first nothing has changed since it was created.
LEMMA InitBooked == P!Init => Booked
<1> SUFFICES ASSUME P!Init PROVE Booked
  OBVIOUS
<1>1. /\ page = FirstPage /\ changed = <<>> /\ FirstPage.version \in Nat
      /\ \A k \in Keys : FirstPage.ev[k] \in Nat /\ FirstPage.ev[k] <= FirstPage.version
  BY PagesAssumption DEF P!Init, Page
<1>2. \A k \in Keys, base \in Nat : ~ChangedSince(k, base)
  BY <1>1 DEF ChangedSince
<1>3. ASSUME NEW k \in Keys, NEW base \in Nat, base >= FirstPage.version
      PROVE  ~(page.ev[k] > base)
  BY <1>1, <1>3
<1> QED BY <1>1, <1>2, <1>3 DEF Booked

\* The ops that are batched are a sequence of ops.
LEMMA BatchOps == ASSUME NEW ops \in OpLists PROVE ops \in Seq(Op)
BY PagesAssumption

\* One accepted batch: the page stays sound, it stamps what it names, and it
\* alters nothing else.
LEMMA BatchStamps ==
    ASSUME PInv, NEW ops \in Seq(Op), page' = Applied(page, ops)
    PROVE  /\ PInv' /\ page'.version = page.version + 1 /\ Touched(ops) \subseteq Keys
           /\ \A k \in Keys :
                 page'.ev[k] = IF k \in Touched(ops) THEN page.version + 1 ELSE page.ev[k]
           /\ {k \in Keys : \/ \E i \in DOMAIN ops : P!Named(ops[i]) = k
                           \/ Content(page', k) # Content(page, k)} = Touched(ops)
<1>1. /\ Sound(page') /\ page'.version = page.version + 1
      /\ \A k \in Keys : page'.ev[k] = IF k \in Touched(ops) THEN page.version + 1 ELSE page.ev[k]
      /\ \A k : k \notin Touched(ops) => Content(page', k) = Content(page, k)
  BY AppliedFacts DEF PInv
<1>2. page.version \in Nat /\ \A k \in Keys : page.ev[k] \in Nat
  BY DEF PInv, Sound, Page
<1>3. PInv'
  BY <1>1, <1>2 DEF PInv
<1>4. \A i \in DOMAIN ops : P!Named(ops[i]) = KeyOf(ops[i]) /\ KeyOf(ops[i]) \in Keys
  BY NamedIsBooked
<1>5. Touched(ops) \subseteq Keys
  BY <1>4 DEF Touched
<1>6. \A k : (\E i \in DOMAIN ops : P!Named(ops[i]) = k) <=> k \in Touched(ops)
  BY <1>4 DEF Touched
<1>7. {k \in Keys : \/ \E i \in DOMAIN ops : P!Named(ops[i]) = k
                  \/ Content(page', k) # Content(page, k)} = Touched(ops)
  BY <1>1, <1>5, <1>6
<1> QED BY <1>1, <1>3, <1>5, <1>7

\* What an accepted batch does to the page and to its history.
LEMMA BatchIsBooked ==
    ASSUME PInv, NEW ops \in OpLists, NEW base \in 0 .. page.version, P!ApplyBatch(ops, base)
    PROVE  /\ PInv' /\ page'.version = page.version + 1 /\ Touched(ops) \subseteq Keys
           /\ \A k \in Keys :
                 page'.ev[k] = IF k \in Touched(ops) THEN page.version + 1 ELSE page.ev[k]
           /\ changed' = Append(changed, Touched(ops))
<1>1. page' = Applied(page, ops) /\ ops \in Seq(Op)
  BY SameApplied, BatchOps DEF P!ApplyBatch
<1>2. changed' = Append(changed, {k \in Keys : \/ \E i \in DOMAIN ops : P!Named(ops[i]) = k
                                             \/ Content(page', k) # Content(page, k)})
  BY SameKeys, SameContent DEF P!ApplyBatch
<1> QED BY <1>1, <1>2, BatchStamps

\* Every batch keeps the page sound.
LEMMA NextPInv == PInv /\ [P!Next]_P!vars => PInv'
<1>1. CASE UNCHANGED page
  BY <1>1 DEF PInv
<1>2. ASSUME PInv, NEW ops \in OpLists, NEW base \in 0 .. page.version, P!ApplyBatch(ops, base)
      PROVE  PInv'
  BY <1>2, BatchIsBooked
<1> QED BY <1>1, <1>2 DEF P!Next, P!vars

\* Every batch is booked: what it names has changed since every base but its own.
LEMMA NextBooked == PInv /\ Booked /\ [P!Next]_P!vars => Booked'
<1>1. CASE UNCHANGED <<page, changed>>
  BY <1>1 DEF Booked, ChangedSince
<1>2. ASSUME PInv, Booked, NEW ops \in OpLists, NEW base \in 0 .. page.version,
             P!ApplyBatch(ops, base)
      PROVE  Booked'
  <2> DEFINE S == Touched(ops)
             v == FirstPage.version
  <2>1. /\ page'.version = page.version + 1 /\ S \subseteq Keys
        /\ \A k \in Keys : page'.ev[k] = IF k \in S THEN page.version + 1 ELSE page.ev[k]
        /\ changed' = Append(changed, S)
    BY <1>2, BatchIsBooked
  <2>2. /\ changed \in Seq(SUBSET Keys) /\ page.version = v + Len(changed) /\ v \in Nat
        /\ Len(changed) \in Nat
    BY <1>2, PagesAssumption DEF Booked, Page
  <2> HIDE DEF S
  <2>3. /\ changed' \in Seq(SUBSET Keys) /\ Len(changed') = Len(changed) + 1
        /\ DOMAIN changed' = 1 .. Len(changed) + 1 /\ DOMAIN changed = 1 .. Len(changed)
        /\ changed'[Len(changed) + 1] = S
        /\ \A n \in DOMAIN changed : changed'[n] = changed[n]
    BY <2>1, <2>2
  <2> HIDE DEF v
  <2>4. ASSUME NEW k \in Keys, NEW b \in Nat, b >= v
        PROVE  page'.ev[k] > b <=> \E n \in DOMAIN changed' : v + n > b /\ k \in changed'[n]
    <3>1. CASE k \in S
      <4>1. page'.ev[k] = v + (Len(changed) + 1)
        BY <2>1, <2>2, <3>1
      <4>2. CASE v + (Len(changed) + 1) > b
        BY <2>3, <3>1, <4>1, <4>2, <2>2
      <4>3. CASE ~(v + (Len(changed) + 1) > b)
        <5>1. \A n \in 1 .. Len(changed) + 1 : ~(v + n > b)
          BY <4>3, <2>2
        <5> QED BY <5>1, <4>1, <4>3, <2>3
      <4> QED BY <4>2, <4>3
    <3>2. CASE k \notin S
      <4>1. page'.ev[k] = page.ev[k]
        BY <2>1, <3>2
      <4>2. page.ev[k] > b <=> \E n \in DOMAIN changed : v + n > b /\ k \in changed[n]
        BY <1>2, <2>4 DEF Booked, ChangedSince, v
      <4>3. \A n \in DOMAIN changed' :
               k \in changed'[n] => n \in DOMAIN changed /\ changed'[n] = changed[n]
        BY <2>2, <2>3, <3>2
      <4>4. DOMAIN changed \subseteq DOMAIN changed'
        BY <2>2, <2>3
      <4> QED BY <4>1, <4>2, <4>3, <4>4, <2>3
    <3> QED BY <3>1, <3>2
  <2>5. page'.version = v + Len(changed')
    BY <2>1, <2>2, <2>3
  <2> QED BY <2>3, <2>4, <2>5 DEF Booked, ChangedSince, v
<1> QED BY <1>1, <1>2 DEF P!Next, P!vars

\* The invariant of a page: ops find at most one component by its id.
THEOREM PageInvariance == P!Spec => []PInv
<1>1. P!Init => PInv
  BY InitPInv
<1>2. PInv /\ [P!Next]_P!vars => PInv'
  BY NextPInv
<1> QED BY <1>1, <1>2, PTL DEF P!Spec

\* Type correctness: whatever batches are accepted, the row is a page.
THEOREM PageTypeOK == P!Spec => []P!TypeOK
<1>1. PInv => P!TypeOK
  BY DEF PInv, Sound, P!TypeOK, P!Page, Page, P!Component, Component, P!Keys, Keys,
         P!LayoutKey, LayoutKey, P!PageKey, PageKey
<1> QED BY <1>1, PageInvariance, PTL

\* However components are moved, removed and inserted again, in whatever
\* regions the tree shows or has lost, an id names one component.
THEOREM IdsAreUnique == P!Spec => []UniqueIds
<1>1. PInv => UniqueIds
  BY DEF PInv, Sound, DistinctIds, UniqueIds, P!UniqueIds
<1> QED BY <1>1, PageInvariance, PTL

\* The entity versions are a true record of what changed when.
THEOREM ChangesAreBooked == P!Spec => []Booked
<1>1. P!Init => Booked
  BY InitBooked
<1>2. PInv /\ Booked /\ [P!Next]_P!vars => Booked'
  BY NextBooked
<1> QED BY <1>1, <1>2, PageInvariance, PTL DEF P!Spec

\* A batch is told of a conflict exactly when a batch accepted after its base
\* named or altered what one of its ops, an insert aside, names: no change is
\* overwritten unseen, and none is held against a client who had read it.
THEOREM ConflictsTellTheTruth == P!Spec => []ConflictsAreExact
<1>1. ASSUME PInv, Booked, NEW ops \in OpLists \ {<<>>}, NEW base \in FirstPage.version .. page.version
      PROVE  P!Verdict(page, ops, base) = "conflict" <=>
                \E i \in DOMAIN ops, n \in DOMAIN changed :
                    /\ ops[i].op # "insert" /\ P!Named(ops[i]) \in changed[n]
                    /\ FirstPage.version + n > base
  <2>1. Verdict(page, ops, base) = "conflict" <=> InConflict(page, ops, base)
    BY DEF Verdict
  <2>2. \A i \in DOMAIN ops : P!Named(ops[i]) = KeyOf(ops[i]) /\ KeyOf(ops[i]) \in Keys
    BY BatchOps, NamedIsBooked
  <2>3. base \in Nat /\ base >= FirstPage.version
    BY <1>1, PagesAssumption DEF Page
  <2>4. \A i \in DOMAIN ops : page.ev[KeyOf(ops[i])] > base <=> ChangedSince(KeyOf(ops[i]), base)
    BY <1>1, <2>2, <2>3 DEF Booked
  <2> QED BY <2>1, <2>2, <2>4, SameVerdict DEF InConflict, ChangedSince
<1>2. PInv /\ Booked => P!ConflictsAreExact
  BY <1>1 DEF P!ConflictsAreExact
<1>3. PInv /\ Booked => ConflictsAreExact
  BY <1>2 DEF ConflictsAreExact
<1> QED BY <1>3, PageInvariance, ChangesAreBooked, PTL

-----------------------------------------------------------------------------
(* Undo and redo (UndoHistory): a page follows the cursor.                    *)
(*                                                                            *)
(* The steps of one page are a chain, each starting from what the one before  *)
(* it left, whatever steps of other pages stand between; and the page shows   *)
(* the link of the chain that the cursor is at.                               *)

IsStep(e) == e = [page |-> e.page, before |-> e.before, after |-> e.after]

IsTimeline(t) ==
    /\ t = [entries |-> t.entries, index |-> t.index]
    /\ \E S : t.entries \in Seq(S)
    /\ \A i \in DOMAIN t.entries : IsStep(t.entries[i])
    /\ t.index \in 0 .. Len(t.entries)

\* Between two positions there is no step of page p.
Clear(t, p, lo, hi) == \A j \in DOMAIN t.entries : lo < j /\ j < hi => t.entries[j].page # p

Chained(t, p) ==
    \A i, j \in DOMAIN t.entries :
        i < j /\ t.entries[i].page = p /\ t.entries[j].page = p /\ Clear(t, p, i, j)
            => t.entries[i].after = t.entries[j].before

\* The last step of p before the cursor left x, and the first behind it starts from x.
AtCursor(t, p, x) ==
    \A i \in DOMAIN t.entries : t.entries[i].page = p =>
        /\ i <= t.index /\ Clear(t, p, i, t.index + 1) => x = t.entries[i].after
        /\ i > t.index /\ Clear(t, p, t.index, i) => x = t.entries[i].before

Follows(t, p, x) == Chained(t, p) /\ AtCursor(t, p, x)

\* u is t without some steps, none of them of page p, unless they are the
\* oldest ones; and its cursor is where t's was.
LeavesOut(f, t, u, p) ==
    /\ \A j \in DOMAIN u.entries :
          /\ f[j] \in DOMAIN t.entries /\ u.entries[j] = t.entries[f[j]]
          /\ j <= u.index <=> f[j] <= t.index
    /\ \A i, j \in DOMAIN u.entries : i < j => f[i] < f[j]
    /\ \A i \in DOMAIN t.entries :
          t.entries[i].page = p /\ (i > t.index \/ \E j \in DOMAIN u.entries : f[j] < i)
              => \E j \in DOMAIN u.entries : f[j] = i

\* Positions are numbers.
LEMMA Positions ==
    ASSUME NEW t, IsTimeline(t)
    PROVE  /\ DOMAIN t.entries = 1 .. Len(t.entries) /\ Len(t.entries) \in Nat
           /\ t.index \in 0 .. Len(t.entries)
BY DEF IsTimeline

\* A page that follows the cursor of a timeline follows it when others' steps
\* are left out (discarded, dropped), and when old ones are (the limit).
LEMMA Thinned ==
    ASSUME NEW t, NEW u, NEW p, NEW x, NEW f, IsTimeline(t), IsTimeline(u),
           Follows(t, p, x), LeavesOut(f, t, u, p)
    PROVE  Follows(u, p, x)
<1>1. /\ \A j \in DOMAIN u.entries :
            /\ f[j] \in DOMAIN t.entries /\ u.entries[j] = t.entries[f[j]]
            /\ j <= u.index <=> f[j] <= t.index
      /\ \A i, j \in DOMAIN u.entries : i < j => f[i] < f[j]
      /\ \A i \in DOMAIN t.entries :
            t.entries[i].page = p /\ (i > t.index \/ \E j \in DOMAIN u.entries : f[j] < i)
                => \E j \in DOMAIN u.entries : f[j] = i
  BY DEF LeavesOut
<1>2. /\ \A i \in DOMAIN t.entries : i \in Nat
      /\ \A j \in DOMAIN u.entries : j \in Nat
      /\ t.index \in Nat /\ u.index \in Nat
  BY Positions
<1>3. ASSUME NEW i \in DOMAIN u.entries, NEW j \in DOMAIN u.entries, i < j, Clear(u, p, i, j)
      PROVE  Clear(t, p, f[i], f[j])
  <2> SUFFICES ASSUME NEW k \in DOMAIN t.entries, f[i] < k, k < f[j], t.entries[k].page = p
               PROVE  FALSE
    BY DEF Clear
  <2>1. PICK m \in DOMAIN u.entries : f[m] = k
    BY <1>1
  <2>2. i < m /\ m < j
    BY <1>1, <1>2, <2>1
  <2> QED BY <1>1, <1>3, <2>1, <2>2 DEF Clear
<1>4. ASSUME NEW i \in DOMAIN u.entries, i <= u.index, Clear(u, p, i, u.index + 1)
      PROVE  Clear(t, p, f[i], t.index + 1)
  <2> SUFFICES ASSUME NEW k \in DOMAIN t.entries, f[i] < k, k < t.index + 1, t.entries[k].page = p
               PROVE  FALSE
    BY DEF Clear
  <2>1. PICK m \in DOMAIN u.entries : f[m] = k
    BY <1>1
  <2>2. i < m /\ m < u.index + 1
    BY <1>1, <1>2, <2>1
  <2> QED BY <1>1, <1>4, <2>1, <2>2 DEF Clear
<1>5. ASSUME NEW i \in DOMAIN u.entries, i > u.index, Clear(u, p, u.index, i)
      PROVE  Clear(t, p, t.index, f[i])
  <2> SUFFICES ASSUME NEW k \in DOMAIN t.entries, t.index < k, k < f[i], t.entries[k].page = p
               PROVE  FALSE
    BY DEF Clear
  <2>1. PICK m \in DOMAIN u.entries : f[m] = k
    BY <1>1, <1>2
  <2>2. u.index < m /\ m < i
    BY <1>1, <1>2, <2>1
  <2> QED BY <1>1, <1>5, <2>1, <2>2 DEF Clear
<1>6. Chained(u, p)
  <2> SUFFICES ASSUME NEW i \in DOMAIN u.entries, NEW j \in DOMAIN u.entries, i < j,
                      u.entries[i].page = p, u.entries[j].page = p, Clear(u, p, i, j)
               PROVE  u.entries[i].after = u.entries[j].before
    BY DEF Chained
  <2>1. Clear(t, p, f[i], f[j])
    BY <1>3
  <2> QED BY <1>1, <2>1 DEF Follows, Chained
<1>7. AtCursor(u, p, x)
  <2> SUFFICES ASSUME NEW i \in DOMAIN u.entries, u.entries[i].page = p
               PROVE  /\ i <= u.index /\ Clear(u, p, i, u.index + 1) => x = u.entries[i].after
                      /\ i > u.index /\ Clear(u, p, u.index, i) => x = u.entries[i].before
    BY DEF AtCursor
  <2>1. f[i] \in DOMAIN t.entries /\ u.entries[i] = t.entries[f[i]] /\ (i <= u.index <=> f[i] <= t.index)
    BY <1>1
  <2>2. ASSUME i <= u.index, Clear(u, p, i, u.index + 1) PROVE x = u.entries[i].after
    <3>1. Clear(t, p, f[i], t.index + 1)
      BY <1>4, <2>2
    <3> QED BY <2>1, <2>2, <3>1 DEF Follows, AtCursor
  <2>3. ASSUME i > u.index, Clear(u, p, u.index, i) PROVE x = u.entries[i].before
    <3>1. Clear(t, p, t.index, f[i])
      BY <1>5, <2>3
    <3>2. f[i] > t.index
      BY <1>2, <2>1, <2>3
    <3> QED BY <2>1, <3>1, <3>2 DEF Follows, AtCursor
  <2> QED BY <2>2, <2>3
<1> QED BY <1>6, <1>7 DEF Follows

\* The cursor goes back over a step: its page shows what it started from.
LEMMA MovedBack ==
    ASSUME NEW t, NEW p, NEW x, IsTimeline(t), Follows(t, p, x), t.index > 0
    PROVE  LET u == [t EXCEPT !.index = @ - 1]
               e == t.entries[t.index]
           IN  IsTimeline(u) /\ Follows(u, p, IF e.page = p THEN e.before ELSE x)
<1> DEFINE u == [t EXCEPT !.index = @ - 1]
           e == t.entries[t.index]
           y == IF e.page = p THEN e.before ELSE x
<1>1. /\ DOMAIN t.entries = 1 .. Len(t.entries) /\ Len(t.entries) \in Nat
      /\ t.index \in 1 .. Len(t.entries)
  BY Positions
<1>2. u.entries = t.entries /\ u.index = t.index - 1 /\ u = [entries |-> u.entries, index |-> u.index]
  BY DEF IsTimeline
<1>3. IsTimeline(u)
  BY <1>1, <1>2 DEF IsTimeline
<1> HIDE DEF u
<1>4. Chained(u, p)
  BY <1>2 DEF Follows, Chained, Clear
<1>5. AtCursor(u, p, y)
  <2> SUFFICES ASSUME NEW i \in DOMAIN t.entries, t.entries[i].page = p
               PROVE  /\ i <= t.index - 1 /\ Clear(u, p, i, t.index - 1 + 1) => y = t.entries[i].after
                      /\ i > t.index - 1 /\ Clear(u, p, t.index - 1, i) => y = t.entries[i].before
    BY <1>2 DEF AtCursor
  <2>1. ASSUME i <= t.index - 1, Clear(u, p, i, t.index - 1 + 1) PROVE y = t.entries[i].after
    <3>1. Clear(t, p, i, t.index)
      BY <1>1, <1>2, <2>1 DEF Clear
    <3>2. CASE e.page = p
      BY <1>1, <2>1, <3>1, <3>2 DEF Follows, Chained
    <3>3. CASE e.page # p
      <4>1. Clear(t, p, i, t.index + 1)
        BY <1>1, <3>1, <3>3 DEF Clear
      <4> QED BY <1>1, <2>1, <3>3, <4>1 DEF Follows, AtCursor
    <3> QED BY <3>2, <3>3
  <2>2. ASSUME i > t.index - 1, Clear(u, p, t.index - 1, i) PROVE y = t.entries[i].before
    <3>1. CASE i = t.index
      BY <2>2, <3>1
    <3>2. CASE i > t.index
      <4>1. e.page # p
        BY <1>1, <1>2, <2>2, <3>2 DEF Clear
      <4>2. Clear(t, p, t.index, i)
        BY <1>1, <1>2, <2>2 DEF Clear
      <4> QED BY <3>2, <4>1, <4>2 DEF Follows, AtCursor
    <3> QED BY <1>1, <2>2, <3>1, <3>2
  <2> QED BY <2>1, <2>2
<1> QED BY <1>3, <1>4, <1>5 DEF Follows, u

\* The cursor goes on over a step: its page shows what it left.
LEMMA MovedOn ==
    ASSUME NEW t, NEW p, NEW x, IsTimeline(t), Follows(t, p, x), t.index < Len(t.entries)
    PROVE  LET u == [t EXCEPT !.index = @ + 1]
               e == t.entries[t.index + 1]
           IN  IsTimeline(u) /\ Follows(u, p, IF e.page = p THEN e.after ELSE x)
<1> DEFINE u == [t EXCEPT !.index = @ + 1]
           e == t.entries[t.index + 1]
           y == IF e.page = p THEN e.after ELSE x
<1>1. /\ DOMAIN t.entries = 1 .. Len(t.entries) /\ Len(t.entries) \in Nat
      /\ t.index \in 0 .. Len(t.entries) - 1 /\ t.index + 1 \in DOMAIN t.entries
  BY Positions
<1>2. u.entries = t.entries /\ u.index = t.index + 1 /\ u = [entries |-> u.entries, index |-> u.index]
  BY DEF IsTimeline
<1>3. IsTimeline(u)
  BY <1>1, <1>2 DEF IsTimeline
<1> HIDE DEF u
<1>4. Chained(u, p)
  BY <1>2 DEF Follows, Chained, Clear
<1>5. AtCursor(u, p, y)
  <2> SUFFICES ASSUME NEW i \in DOMAIN t.entries, t.entries[i].page = p
               PROVE  /\ i <= t.index + 1 /\ Clear(u, p, i, t.index + 1 + 1) => y = t.entries[i].after
                      /\ i > t.index + 1 /\ Clear(u, p, t.index + 1, i) => y = t.entries[i].before
    BY <1>2 DEF AtCursor
  <2>1. ASSUME i > t.index + 1, Clear(u, p, t.index + 1, i) PROVE y = t.entries[i].before
    <3>1. Clear(t, p, t.index + 1, i)
      BY <1>1, <1>2, <2>1 DEF Clear
    <3>2. CASE e.page = p
      BY <1>1, <2>1, <3>1, <3>2 DEF Follows, Chained
    <3>3. CASE e.page # p
      <4>1. Clear(t, p, t.index, i)
        BY <1>1, <3>1, <3>3 DEF Clear
      <4> QED BY <1>1, <2>1, <3>3, <4>1 DEF Follows, AtCursor
    <3> QED BY <3>2, <3>3
  <2>2. ASSUME i <= t.index + 1, Clear(u, p, i, t.index + 1 + 1) PROVE y = t.entries[i].after
    <3>1. CASE i = t.index + 1
      BY <2>2, <3>1
    <3>2. CASE i <= t.index
      <4>1. e.page # p
        BY <1>1, <1>2, <2>2, <3>2 DEF Clear
      <4>2. Clear(t, p, i, t.index + 1)
        BY <1>1, <1>2, <2>2 DEF Clear
      <4> QED BY <3>2, <4>1, <4>2 DEF Follows, AtCursor
    <3> QED BY <1>1, <2>2, <3>1, <3>2
  <2> QED BY <2>1, <2>2
<1> QED BY <1>3, <1>4, <1>5 DEF Follows, u

\* u is t with step e behind the cursor, and without what was undone.
IsAppended(t, u, e) ==
    /\ IsTimeline(u) /\ u.index = t.index + 1 /\ Len(u.entries) = t.index + 1
    /\ \A i \in 1 .. t.index : u.entries[i] = t.entries[i]
    /\ u.entries[t.index + 1] = e

\* What push() does first.
LEMMA AppendedIs ==
    ASSUME NEW t, NEW e, IsTimeline(t), IsStep(e)
    PROVE  IsAppended(t, [entries |-> Append(SubSeq(t.entries, 1, t.index), e), index |-> t.index + 1], e)
<1> DEFINE n == t.index
           es == Append(SubSeq(t.entries, 1, n), e)
           u == [entries |-> es, index |-> n + 1]
<1>1. /\ DOMAIN t.entries = 1 .. Len(t.entries) /\ Len(t.entries) \in Nat
      /\ n \in 0 .. Len(t.entries)
  BY Positions
<1>2. PICK S : t.entries \in Seq(S)
  BY DEF IsTimeline
<1>3. SubSeq(t.entries, 1, n) \in Seq(S \cup {e}) /\ Len(SubSeq(t.entries, 1, n)) = n
      /\ \A i \in 1 .. n : SubSeq(t.entries, 1, n)[i] = t.entries[i]
  <2>1. t.entries \in Seq(S \cup {e})
    BY <1>2
  <2> QED BY <1>1, <2>1
<1>4. /\ es \in Seq(S \cup {e}) /\ Len(es) = n + 1 /\ DOMAIN es = 1 .. n + 1
      /\ \A i \in 1 .. n : es[i] = t.entries[i]
      /\ es[n + 1] = e
  BY <1>1, <1>3
<1> HIDE DEF es, n
<1>5. u.entries = es /\ u.index = n + 1 /\ u = [entries |-> u.entries, index |-> u.index]
  OBVIOUS
<1>6. \A i \in 1 .. n + 1 : IsStep(es[i])
  <2> SUFFICES ASSUME NEW i \in 1 .. n + 1 PROVE IsStep(es[i])
    OBVIOUS
  <2>1. CASE i = n + 1
    BY <1>4, <2>1
  <2>2. CASE i # n + 1
    <3>1. i \in 1 .. n /\ i \in DOMAIN t.entries
      BY <1>1, <2>2
    <3> QED BY <1>4, <3>1 DEF IsTimeline
  <2> QED BY <2>1, <2>2
<1> HIDE DEF u
<1>7. IsTimeline(u)
  BY <1>1, <1>4, <1>5, <1>6 DEF IsTimeline
<1>8. IsAppended(t, u, e)
  BY <1>4, <1>5, <1>7 DEF IsAppended, n
<1> QED BY <1>8, Zenon DEF u, es, n

\* A step is recorded: its page shows what it left.
LEMMA Appended ==
    ASSUME NEW t, NEW u, NEW e, IsTimeline(t), IsAppended(t, u, e),
           NEW p, NEW x, Follows(t, p, x), e.page = p => e.before = x
    PROVE  Follows(u, p, IF e.page = p THEN e.after ELSE x)
<1> DEFINE n == t.index
           y == IF e.page = p THEN e.after ELSE x
<1>1. /\ DOMAIN t.entries = 1 .. Len(t.entries) /\ Len(t.entries) \in Nat
      /\ n \in 0 .. Len(t.entries)
  BY Positions
<1>2. /\ u.index = n + 1 /\ DOMAIN u.entries = 1 .. n + 1
      /\ \A i \in 1 .. n : u.entries[i] = t.entries[i]
      /\ u.entries[n + 1] = e
  BY Positions DEF IsAppended
<1> HIDE DEF n
<1>3. ASSUME NEW i \in 1 .. n, Clear(u, p, i, n + 1)
      PROVE  Clear(t, p, i, n + 1)
  BY <1>1, <1>2, <1>3 DEF Clear
<1>4. Chained(u, p)
  <2> SUFFICES ASSUME NEW i \in 1 .. n + 1, NEW j \in 1 .. n + 1, i < j,
                      u.entries[i].page = p, u.entries[j].page = p, Clear(u, p, i, j)
               PROVE  u.entries[i].after = u.entries[j].before
    BY <1>2 DEF Chained
  <2>1. i \in 1 .. n /\ u.entries[i] = t.entries[i] /\ i \in DOMAIN t.entries
    BY <1>1, <1>2
  <2>2. CASE j = n + 1
    <3>1. Clear(t, p, i, n + 1)
      BY <1>3, <2>1, <2>2
    <3>2. x = t.entries[i].after
      BY <1>1, <2>1, <3>1 DEF Follows, AtCursor, n
    <3> QED BY <1>2, <2>1, <2>2, <3>2
  <2>3. CASE j # n + 1
    <3>1. j \in 1 .. n /\ u.entries[j] = t.entries[j] /\ j \in DOMAIN t.entries
      BY <1>1, <1>2, <2>3
    <3>2. Clear(t, p, i, j)
      BY <1>1, <1>2, <2>1, <3>1 DEF Clear
    <3> QED BY <2>1, <3>1, <3>2 DEF Follows, Chained
  <2> QED BY <2>2, <2>3
<1>5. AtCursor(u, p, y)
  <2> SUFFICES ASSUME NEW i \in 1 .. n + 1, u.entries[i].page = p, Clear(u, p, i, n + 2)
               PROVE  y = u.entries[i].after
    BY <1>1, <1>2 DEF AtCursor
  <2>1. CASE i = n + 1
    BY <1>2, <2>1
  <2>2. CASE i # n + 1
    <3>1. i \in 1 .. n /\ u.entries[i] = t.entries[i] /\ i \in DOMAIN t.entries
      BY <1>1, <1>2, <2>2
    <3>2. e.page # p
      <4>1. n + 1 \in 1 .. n + 1 /\ i < n + 1 /\ n + 1 < n + 2
        BY <1>1, <3>1
      <4> QED BY <1>2, <2>2, <4>1 DEF Clear
    <3>3. Clear(u, p, i, n + 1)
      BY <1>1, <1>2 DEF Clear
    <3>4. Clear(t, p, i, n + 1)
      BY <1>3, <3>1, <3>3
    <3> QED BY <3>1, <3>2, <3>4, <1>1 DEF Follows, AtCursor, n
  <2> QED BY <2>1, <2>2
<1> QED BY <1>4, <1>5 DEF Follows

\* The oldest step is forgotten.
LEMMA Forgotten ==
    ASSUME NEW t, IsTimeline(t), t.index > 0, t.index = Len(t.entries)
    PROVE  LET u == [entries |-> Tail(t.entries), index |-> Len(Tail(t.entries))]
           IN  IsTimeline(u) /\ \A p, x : Follows(t, p, x) => Follows(u, p, x)
<1> DEFINE es == Tail(t.entries)
           u == [entries |-> es, index |-> Len(es)]
           f == [j \in 1 .. Len(es) |-> j + 1]
<1>1. /\ DOMAIN t.entries = 1 .. Len(t.entries) /\ Len(t.entries) \in Nat
      /\ t.index \in 1 .. Len(t.entries)
  BY Positions
<1>2. PICK S : t.entries \in Seq(S)
  BY DEF IsTimeline
<1>3. es \in Seq(S) /\ Len(es) = Len(t.entries) - 1 /\ DOMAIN es = 1 .. Len(es)
      /\ \A j \in 1 .. Len(es) : es[j] = t.entries[j + 1]
  <2>1. t.entries # <<>>
    BY <1>1, <1>2
  <2> QED BY <1>2, <2>1, HeadTailProperties
<1> HIDE DEF es
<1>5. u.entries = es /\ u.index = Len(es) /\ u = [entries |-> u.entries, index |-> u.index]
  OBVIOUS
<1>8. \A j \in 1 .. Len(es) : IsStep(es[j])
  <2>1. \A j \in 1 .. Len(es) : j + 1 \in DOMAIN t.entries
    BY <1>1, <1>3
  <2> QED BY <1>3, <2>1 DEF IsTimeline
<1> HIDE DEF u
<1>4. IsTimeline(u)
  BY <1>1, <1>3, <1>5, <1>8 DEF IsTimeline
<1>6. ASSUME NEW p, NEW x, Follows(t, p, x) PROVE Follows(u, p, x)
  <2>1. ASSUME NEW j \in DOMAIN u.entries
        PROVE  /\ f[j] \in DOMAIN t.entries /\ u.entries[j] = t.entries[f[j]]
               /\ j <= u.index <=> f[j] <= t.index
    BY <1>1, <1>3, <1>5
  <2>2. \A i, j \in DOMAIN u.entries : i < j => f[i] < f[j]
    BY <1>3, <1>5
  <2>3. ASSUME NEW i \in DOMAIN t.entries, i > t.index \/ \E j \in DOMAIN u.entries : f[j] < i
        PROVE  \E j \in DOMAIN u.entries : f[j] = i
    <3>1. i > 1
      <4>1. CASE i > t.index
        BY <1>1, <4>1
      <4>2. CASE \E j \in DOMAIN u.entries : f[j] < i
        <5>1. PICK j \in 1 .. Len(es) : f[j] < i
          BY <1>3, <1>5, <4>2
        <5> QED BY <1>1, <1>3, <5>1
      <4> QED BY <2>3, <4>1, <4>2
    <3>2. i - 1 \in DOMAIN u.entries /\ f[i - 1] = i
      BY <1>1, <1>3, <1>5, <3>1
    <3> QED BY <3>2
  <2>4. LeavesOut(f, t, u, p)
    BY <2>1, <2>2, <2>3, Zenon DEF LeavesOut
  <2> QED BY <1>4, <1>6, <2>4, Thinned
<1>7. IsTimeline(u) /\ \A p, x : Follows(t, p, x) => Follows(u, p, x)
  BY <1>4, <1>6
<1> QED BY <1>7, Zenon DEF u, es

\* HistoryTimeline.push: the page of the step shows what it left.
LEMMA Pushed ==
    ASSUME NEW t, NEW e, IsTimeline(t), IsStep(e)
    PROVE  /\ IsTimeline(U!Push(t, e))
           /\ \A p, x : Follows(t, p, x) /\ (e.page = p => e.before = x)
                            => Follows(U!Push(t, e), p, IF e.page = p THEN e.after ELSE x)
<1> DEFINE es == Append(SubSeq(t.entries, 1, t.index), e)
           u == [entries |-> es, index |-> t.index + 1]
           v == [entries |-> Tail(u.entries), index |-> Len(Tail(u.entries))]
<1>1. IsAppended(t, u, e)
  BY AppendedIs
<1>2. u.entries = es /\ IsTimeline(u) /\ u.index = Len(u.entries) /\ u.index > 0
  BY <1>1, Positions DEF IsAppended
<1>3. IsTimeline(v) /\ \A p, x : Follows(u, p, x) => Follows(v, p, x)
  <2> HIDE DEF u
  <2> QED BY <1>2, Forgotten
<1>4. U!Push(t, e) \in {u, v}
  BY <1>1, <1>2 DEF U!Push, IsAppended
<1> HIDE DEF v, u
<1>5. ASSUME NEW p, NEW x, Follows(t, p, x), e.page = p => e.before = x
      PROVE  Follows(U!Push(t, e), p, IF e.page = p THEN e.after ELSE x)
  <2>1. Follows(u, p, IF e.page = p THEN e.after ELSE x)
    BY <1>1, <1>5, Appended
  <2> QED BY <1>3, <1>4, <2>1
<1> QED BY <1>2, <1>3, <1>4, <1>5

\* u is t with another result of the newest step, while nothing is undone.
Amends(t, u, next) ==
    /\ t.index > 0 /\ t.index = Len(t.entries) /\ u.index = t.index /\ Len(u.entries) = Len(t.entries)
    /\ \A i \in DOMAIN t.entries :
          /\ u.entries[i].page = t.entries[i].page /\ u.entries[i].before = t.entries[i].before
          /\ u.entries[i].after = IF i = t.index THEN next ELSE t.entries[i].after

\* The newest step leaves something else than it did.
LEMMA Amended ==
    ASSUME NEW t, NEW u, NEW p, NEW x, NEW next, IsTimeline(t), IsTimeline(u), Follows(t, p, x),
           Amends(t, u, next)
    PROVE  Follows(u, p, IF t.entries[t.index].page = p THEN next ELSE x)
<1> DEFINE y == IF t.entries[t.index].page = p THEN next ELSE x
<1>1. /\ DOMAIN t.entries = 1 .. t.index /\ t.index \in Nat \ {0} /\ DOMAIN u.entries = 1 .. t.index
      /\ u.index = t.index
      /\ \A i \in 1 .. t.index :
            /\ u.entries[i].page = t.entries[i].page /\ u.entries[i].before = t.entries[i].before
            /\ u.entries[i].after = IF i = t.index THEN next ELSE t.entries[i].after
  BY Positions DEF Amends
<1>2. Chained(u, p)
  <2> SUFFICES ASSUME NEW i \in 1 .. t.index, NEW j \in 1 .. t.index, i < j,
                      u.entries[i].page = p, u.entries[j].page = p, Clear(u, p, i, j)
               PROVE  u.entries[i].after = u.entries[j].before
    BY <1>1 DEF Chained
  <2>1. Clear(t, p, i, j)
    BY <1>1 DEF Clear
  <2> QED BY <1>1, <2>1 DEF Follows, Chained
<1>3. AtCursor(u, p, y)
  <2> SUFFICES ASSUME NEW i \in 1 .. t.index, u.entries[i].page = p, Clear(u, p, i, t.index + 1)
               PROVE  y = u.entries[i].after
    BY <1>1 DEF AtCursor
  <2>1. CASE i = t.index
    BY <1>1, <2>1
  <2>2. CASE i # t.index
    <3>1. t.entries[t.index].page # p
      BY <1>1, <2>2 DEF Clear
    <3>2. Clear(t, p, i, t.index + 1)
      BY <1>1 DEF Clear
    <3> QED BY <1>1, <2>2, <3>1, <3>2 DEF Follows, AtCursor
  <2> QED BY <2>1, <2>2
<1> QED BY <1>2, <1>3 DEF Follows

\* A follow-up is folded into the newest step.
LEMMA Folded ==
    ASSUME NEW t, NEW q, NEW next, IsTimeline(t), U!CanCoalesce(t, q)
    PROVE  /\ IsTimeline(U!Coalesce(t, next))
           /\ \A p, x : Follows(t, p, x) => Follows(U!Coalesce(t, next), p, IF q = p THEN next ELSE x)
<1> DEFINE e == [t.entries[t.index] EXCEPT !.after = next]
           es == [t.entries EXCEPT ![t.index] = e]
           u == [entries |-> es, index |-> t.index]
<1>1. /\ DOMAIN t.entries = 1 .. t.index /\ t.index \in Nat \ {0} /\ t.index = Len(t.entries)
      /\ t.entries[t.index].page = q
  BY Positions DEF U!CanCoalesce
<1>2. PICK S : t.entries \in Seq(S)
  BY DEF IsTimeline
<1>3. U!Coalesce(t, next) = u
  BY DEF IsTimeline, U!Coalesce
<1>4. e = [page |-> q, before |-> t.entries[t.index].before, after |-> next]
  <2>1. IsStep(t.entries[t.index])
    BY <1>1 DEF IsTimeline
  <2> QED BY <1>1, <2>1 DEF IsStep
<1>5. e.page = q /\ e.before = t.entries[t.index].before /\ e.after = next /\ IsStep(e)
  BY <1>4 DEF IsStep
<1> HIDE DEF e
<1>6. t.entries \in Seq(S \cup {e})
  BY <1>2
<1>7. /\ es \in Seq(S \cup {e}) /\ Len(es) = Len(t.entries) /\ DOMAIN es = 1 .. t.index
      /\ \A i \in 1 .. t.index : es[i] = IF i = t.index THEN e ELSE t.entries[i]
  BY <1>1, <1>6
<1> HIDE DEF es
<1>8. u = [entries |-> u.entries, index |-> u.index] /\ u.entries = es /\ u.index = t.index
  OBVIOUS
<1>9. \A i \in 1 .. t.index : IsStep(es[i])
  BY <1>1, <1>5, <1>7 DEF IsTimeline
<1> HIDE DEF u
<1>10. IsTimeline(u)
  BY <1>1, <1>7, <1>8, <1>9 DEF IsTimeline
<1>11. Amends(t, u, next)
  <2>1. \A i \in 1 .. t.index :
          /\ u.entries[i].page = t.entries[i].page /\ u.entries[i].before = t.entries[i].before
          /\ u.entries[i].after = IF i = t.index THEN next ELSE t.entries[i].after
    BY <1>1, <1>5, <1>7, <1>8
  <2> QED BY <1>1, <1>7, <1>8, <2>1 DEF Amends
<1>12. ASSUME NEW p, NEW x, Follows(t, p, x)
       PROVE  Follows(u, p, IF q = p THEN next ELSE x)
  <2>1. Follows(u, p, IF t.entries[t.index].page = p THEN next ELSE x)
    BY <1>10, <1>11, <1>12, Amended
  <2> QED BY <1>1, <2>1
<1> QED BY <1>3, <1>10, <1>12

\* t without the steps between two positions that have the cursor between them,
\* and the cursor behind the first.
CutAt(t, lo, hi) ==
    [entries |-> SubSeq(t.entries, 1, lo) \o SubSeq(t.entries, hi, Len(t.entries)), index |-> lo]

IsCut(t, u, lo, hi) ==
    LET n == lo + (Len(t.entries) - hi + 1)
    IN  /\ IsTimeline(u) /\ u.index = lo /\ Len(u.entries) = n
        /\ \A j \in 1 .. n : u.entries[j] = t.entries[IF j <= lo THEN j ELSE j - lo + hi - 1]

\* Where the steps behind a cut go.
LEMMA CutPositions ==
    ASSUME NEW lo \in Nat, NEW hi \in Nat, NEW k \in Nat, NEW m \in Nat, lo <= k, k < hi, hi <= m + 1
    PROVE  LET n == lo + (m - hi + 1)
           IN  /\ n \in Nat /\ lo <= n
               /\ \A j \in 1 .. n : j > lo => j - lo + hi - 1 \in 1 .. m /\ j - lo + hi - 1 > k
               /\ \A i \in 1 .. m : i >= hi => /\ i - hi + 1 + lo \in 1 .. n /\ i - hi + 1 + lo > lo
                                            /\ (i - hi + 1 + lo) - lo + hi - 1 = i
OBVIOUS

\* What of t is left when it is cut.
LEMMA CutFacts ==
    ASSUME NEW t, IsTimeline(t), NEW lo \in 0 .. t.index, NEW hi \in t.index + 1 .. Len(t.entries) + 1
    PROVE  IsCut(t, CutAt(t, lo, hi), lo, hi)
<1> DEFINE u == CutAt(t, lo, hi)
           n == lo + (Len(t.entries) - hi + 1)
           a == SubSeq(t.entries, 1, lo)
           b == SubSeq(t.entries, hi, Len(t.entries))
           es == a \o b
<1>1. /\ DOMAIN t.entries = 1 .. Len(t.entries) /\ Len(t.entries) \in Nat
      /\ t.index \in 0 .. Len(t.entries) /\ lo \in Nat /\ hi \in Nat /\ lo < hi
      /\ lo <= Len(t.entries) /\ hi <= Len(t.entries) + 1 /\ hi >= 1 /\ n \in Nat /\ lo <= n
  <2> DEFINE m == Len(t.entries)
             k == t.index
  <2>1. DOMAIN t.entries = 1 .. m /\ m \in Nat /\ k \in 0 .. m
    BY Positions
  <2>2. lo \in 0 .. k /\ hi \in k + 1 .. m + 1
    OBVIOUS
  <2> HIDE DEF m, k
  <2>3. /\ lo \in Nat /\ hi \in Nat /\ lo < hi /\ lo <= m /\ hi <= m + 1 /\ hi >= 1
        /\ lo + (m - hi + 1) \in Nat /\ lo <= lo + (m - hi + 1)
    BY <2>1, <2>2
  <2> QED BY <2>1, <2>3 DEF m, k
<1>2. PICK S : t.entries \in Seq(S)
  BY DEF IsTimeline
<1>3. a \in Seq(S) /\ Len(a) = lo /\ \A j \in 1 .. lo : a[j] = t.entries[j]
  BY <1>1, <1>2
<1>4. /\ b \in Seq(S) /\ Len(b) = Len(t.entries) - hi + 1
      /\ \A j \in 1 .. Len(t.entries) - hi + 1 : b[j] = t.entries[j + hi - 1]
  BY <1>1, <1>2
<1>5. es \in Seq(S) /\ Len(es) = n
      /\ \A j \in 1 .. n : es[j] = IF j <= lo THEN a[j] ELSE b[j - lo]
  <2> HIDE DEF a, b
  <2>a. a \in Seq(S) /\ b \in Seq(S)
    BY <1>3, <1>4
  <2>1. /\ a \o b \in Seq(S) /\ Len(a \o b) = Len(a) + Len(b)
        /\ \A j \in 1 .. Len(a) + Len(b) : (a \o b)[j] = IF j <= Len(a) THEN a[j] ELSE b[j - Len(a)]
    BY <2>a, ConcatProperties
  <2>2. Len(a) + Len(b) = n
    BY <1>1, <1>3, <1>4
  <2> HIDE DEF n
  <2> QED BY <1>3, <2>1, <2>2
<1>6. ASSUME NEW j \in 1 .. n
      PROVE  es[j] = t.entries[IF j <= lo THEN j ELSE j - lo + hi - 1]
  <2> HIDE DEF a, b, es
  <2>1. CASE j <= lo
    <3>1. j \in 1 .. lo
      BY <1>1, <2>1
    <3>2. es[j] = a[j]
      BY <1>5, <2>1
    <3> QED BY <1>3, <2>1, <3>1, <3>2
  <2>2. CASE ~(j <= lo)
    <3>1. j - lo \in 1 .. Len(t.entries) - hi + 1
      BY <1>1, <2>2
    <3>2. es[j] = b[j - lo]
      BY <1>5, <2>2
    <3>3. b[j - lo] = t.entries[(j - lo) + hi - 1]
      BY <1>4, <3>1
    <3> QED BY <2>2, <3>2, <3>3
  <2> QED BY <2>1, <2>2
<1>7. \A j \in 1 .. n : (IF j <= lo THEN j ELSE j - lo + hi - 1) \in DOMAIN t.entries
  BY <1>1
<1>8. u = [entries |-> es, index |-> lo]
  BY DEF CutAt
<1> HIDE DEF es, n, u
<1>9. u.entries = es /\ u.index = lo /\ u = [entries |-> u.entries, index |-> u.index]
  BY <1>8
<1>10. \A j \in 1 .. n : IsStep(es[j])
  BY <1>6, <1>7 DEF IsTimeline
<1>11. IsTimeline(u)
  BY <1>1, <1>5, <1>9, <1>10 DEF IsTimeline
<1>12. /\ IsTimeline(u) /\ u.index = lo /\ Len(u.entries) = n
       /\ \A j \in 1 .. n : u.entries[j] = t.entries[IF j <= lo THEN j ELSE j - lo + hi - 1]
  BY <1>5, <1>6, <1>9, <1>11
<1>13. IsCut(t, u, lo, hi)
  BY <1>12, Zenon DEF n, IsCut
<1> QED BY <1>13, Zenon DEF u

\* A page without a step in between follows the cursor as before.
LEMMA CutFollows ==
    ASSUME NEW t, IsTimeline(t), NEW lo \in 0 .. t.index, NEW hi \in t.index + 1 .. Len(t.entries) + 1,
           NEW p, NEW x, Follows(t, p, x), Clear(t, p, lo, hi)
    PROVE  Follows(CutAt(t, lo, hi), p, x)
<1> DEFINE u == CutAt(t, lo, hi)
           n == lo + (Len(t.entries) - hi + 1)
           f == [j \in 1 .. n |-> IF j <= lo THEN j ELSE j - lo + hi - 1]
<1>1. /\ IsTimeline(u) /\ u.index = lo /\ Len(u.entries) = n
      /\ \A j \in 1 .. n : u.entries[j] = t.entries[IF j <= lo THEN j ELSE j - lo + hi - 1]
  <2>1. IsCut(t, u, lo, hi)
    BY CutFacts
  <2> HIDE DEF u
  <2> QED BY <2>1, Zenon DEF IsCut
<1> HIDE DEF u
<1>2. /\ DOMAIN t.entries = 1 .. Len(t.entries) /\ Len(t.entries) \in Nat
      /\ t.index \in Nat /\ lo \in Nat /\ hi \in Nat /\ lo <= t.index /\ t.index < hi
      /\ t.index <= Len(t.entries) /\ hi <= Len(t.entries) + 1
      /\ n \in Nat /\ n = lo + (Len(t.entries) - hi + 1)
  BY Positions
<1>11. DOMAIN u.entries = 1 .. n /\ u.index = lo
  BY <1>1, Positions
<1>12. /\ \A j \in 1 .. n : j > lo => j - lo + hi - 1 \in 1 .. Len(t.entries) /\ j - lo + hi - 1 > t.index
       /\ \A i \in 1 .. Len(t.entries) : i >= hi => /\ i - hi + 1 + lo \in 1 .. n /\ i - hi + 1 + lo > lo
                                                  /\ (i - hi + 1 + lo) - lo + hi - 1 = i
  BY <1>2, CutPositions
<1>3. \A j \in 1 .. n : f[j] = IF j <= lo THEN j ELSE j - lo + hi - 1
  OBVIOUS
<1> HIDE DEF f, n
<1>4. LeavesOut(f, t, u, p)
  <2>1. ASSUME NEW j \in DOMAIN u.entries
        PROVE  /\ f[j] \in DOMAIN t.entries /\ u.entries[j] = t.entries[f[j]]
               /\ j <= u.index <=> f[j] <= t.index
    <3>1. j \in 1 .. n /\ u.entries[j] = t.entries[f[j]]
      BY <1>1, <1>3, <1>11
    <3>2. CASE j <= lo
      <4>1. f[j] = j
        BY <1>3, <3>1, <3>2
      <4> QED BY <1>2, <1>11, <3>1, <3>2, <4>1
    <3>3. CASE ~(j <= lo)
      <4>1. j > lo
        BY <1>2, <3>1, <3>3
      <4>2. f[j] = j - lo + hi - 1
        BY <1>3, <3>1, <3>3
      <4>3. f[j] \in 1 .. Len(t.entries) /\ f[j] > t.index
        BY <1>12, <3>1, <4>1, <4>2
      <4> QED BY <1>2, <1>11, <3>1, <3>3, <4>3
    <3> QED BY <3>2, <3>3
  <2>2. ASSUME NEW i \in DOMAIN u.entries, NEW j \in DOMAIN u.entries, i < j
        PROVE  f[i] < f[j]
    <3>1. /\ i \in 1 .. n /\ j \in 1 .. n
          /\ f[i] = IF i <= lo THEN i ELSE i - lo + hi - 1
          /\ f[j] = IF j <= lo THEN j ELSE j - lo + hi - 1
      BY <1>3, <1>11
    <3> QED BY <1>2, <2>2, <3>1
  <2>3. ASSUME NEW i \in DOMAIN t.entries, t.entries[i].page = p
        PROVE  \E j \in DOMAIN u.entries : f[j] = i
    <3>a. i \in 1 .. Len(t.entries)
      BY <1>2
    <3>1. i <= lo \/ i >= hi
      <4>1. ~(lo < i /\ i < hi)
        BY <2>3 DEF Clear
      <4> QED BY <1>2, <3>a, <4>1
    <3>2. CASE i <= lo
      <4>1. i \in DOMAIN u.entries /\ f[i] = i
        BY <1>2, <1>3, <1>11, <3>2
      <4> QED BY <4>1
    <3>3. CASE i >= hi
      <4> DEFINE j == i - hi + 1 + lo
      <4>3. j \in 1 .. n /\ j > lo /\ j - lo + hi - 1 = i
        BY <1>12, <3>a, <3>3
      <4>1. j \in 1 .. n /\ ~(j <= lo) /\ j - lo + hi - 1 = i
        BY <1>2, <4>3
      <4> HIDE DEF j
      <4>2. j \in DOMAIN u.entries /\ f[j] = i
        BY <1>3, <1>11, <4>1
      <4> QED BY <4>2
    <3> QED BY <3>1, <3>2, <3>3
  <2> QED BY <2>1, <2>2, <2>3, Zenon DEF LeavesOut
<1>5. Follows(u, p, x)
  BY <1>1, <1>4, Thinned
<1> QED BY <1>5 DEF u

\* The step that was taken is of a page there is, and the cursor is behind it
\* or before it.
Taken(s, dir) ==
    /\ dir = "undo" => s.index < Len(s.entries) /\ s.entries[s.index + 1].page \in pages
    /\ dir = "redo" => s.index > 0 /\ s.entries[s.index].page \in pages

\* What a step does to a timeline, and what it hands back. Put back, it leaves
\* every page as it was.
Steps(t, dir) ==
    LET s == U!Step(t, dir)
        h == U!Handed(t, dir)
    IN  /\ IsTimeline(s) /\ Len(s.entries) <= Len(t.entries)
        /\ \/ /\ h = U!NoStep
              /\ \A p \in pages : \A x : Follows(t, p, x) => Follows(s, p, x)
           \/ /\ h.dir = dir /\ h.page \in pages /\ Taken(s, dir)
              /\ IsTimeline(U!Rollback(s, dir))
              /\ \A p \in pages : \A x : Follows(t, p, x) =>
                    /\ Follows(s, p, IF h.page = p THEN h.target ELSE x)
                    /\ Follows(U!Rollback(s, dir), p, x)

\* The step undo takes is the last before the cursor on a page there is.
LEMMA UndoTarget ==
    ASSUME NEW t, IsTimeline(t)
    PROVE  LET at == U!Target(t, "undo")
           IN  /\ at \in 0 .. t.index
               /\ at = 0 \/ (at \in DOMAIN t.entries /\ t.entries[at].page \in pages)
               /\ \A p \in pages : Clear(t, p, at, t.index + 1)
<1> DEFINE alive == {i \in DOMAIN t.entries : t.entries[i].page \in pages}
           Is(i) == (i = 0 \/ i \in alive) /\ \A j \in alive : j <= i \/ j > t.index
           T == {m \in 0 .. t.index : \A j \in alive : j <= m \/ j > t.index}
<1>1. /\ DOMAIN t.entries = 1 .. Len(t.entries) /\ Len(t.entries) \in Nat
      /\ t.index \in 0 .. Len(t.entries) /\ t.index \in Nat
  BY Positions
<1>2. \A j \in alive : j \in 1 .. Len(t.entries)
  BY <1>1
<1> HIDE DEF alive
<1>3. t.index \in T /\ T \in SUBSET Nat
  BY <1>1, <1>2
<1>4. PICK m \in T : \A k \in T : m <= k
  BY <1>3, LeastMember
<1>5. m \in 0 .. t.index /\ \A j \in alive : j <= m \/ j > t.index
  BY <1>4
<1>6. m = 0 \/ m \in alive
  <2> SUFFICES ASSUME m # 0, m \notin alive PROVE FALSE
    OBVIOUS
  <2>1. m - 1 \in 0 .. t.index
    BY <1>1, <1>5
  <2>2. \A j \in alive : j <= m - 1 \/ j > t.index
    BY <1>1, <1>2, <1>5
  <2>3. m - 1 \in T
    BY <2>1, <2>2
  <2> QED BY <1>4, <1>5, <2>3
<1>7. Is(m)
  BY <1>5, <1>6
<1>8. U!Target(t, "undo") = CHOOSE i \in 0 .. t.index : Is(i)
  BY Zenon DEF U!Target, alive
<1> DEFINE at == U!Target(t, "undo")
<1>9. at \in 0 .. t.index /\ Is(at)
  <2> HIDE DEF Is
  <2> QED BY <1>5, <1>7, <1>8
<1> HIDE DEF at
<1>11. at = 0 \/ (at \in DOMAIN t.entries /\ t.entries[at].page \in pages)
  <2>1. (at = 0 \/ at \in alive)
    BY <1>9
  <2> QED BY <2>1 DEF alive
<1>10. \A p \in pages : Clear(t, p, at, t.index + 1)
  BY <1>1, <1>9 DEF Clear, alive
<1> HIDE DEF Is
<1> QED BY <1>9, <1>10, <1>11 DEF at

\* The step redo takes is the first behind the cursor on a page there is.
LEMMA RedoTarget ==
    ASSUME NEW t, IsTimeline(t)
    PROVE  LET at == U!Target(t, "redo")
           IN  /\ at \in t.index + 1 .. Len(t.entries) + 1
               /\ at = Len(t.entries) + 1 \/ (at \in DOMAIN t.entries /\ t.entries[at].page \in pages)
               /\ \A p \in pages : Clear(t, p, t.index, at)
<1> DEFINE alive == {i \in DOMAIN t.entries : t.entries[i].page \in pages}
           Is(i) == (i = Len(t.entries) + 1 \/ i \in alive) /\ \A j \in alive : j >= i \/ j <= t.index
           T == {m \in t.index + 1 .. Len(t.entries) + 1 : m = Len(t.entries) + 1 \/ m \in alive}
<1>1. /\ DOMAIN t.entries = 1 .. Len(t.entries) /\ Len(t.entries) \in Nat
      /\ t.index \in 0 .. Len(t.entries) /\ t.index \in Nat
  BY Positions
<1>2. \A j \in alive : j \in 1 .. Len(t.entries)
  BY <1>1
<1> HIDE DEF alive
<1>3. Len(t.entries) + 1 \in T /\ T \in SUBSET Nat
  BY <1>1, <1>2
<1>4. PICK m \in T : \A k \in T : m <= k
  BY <1>3, LeastMember
<1>5. m \in t.index + 1 .. Len(t.entries) + 1 /\ (m = Len(t.entries) + 1 \/ m \in alive)
  BY <1>4
<1>6. ASSUME NEW j \in alive PROVE j >= m \/ j <= t.index
  <2>1. CASE j > t.index
    <3>1. j \in T
      BY <1>1, <1>2, <2>1
    <3> QED BY <1>1, <1>2, <1>4, <1>5, <3>1
  <2> QED BY <1>1, <1>2, <2>1
<1>7. Is(m)
  BY <1>5, <1>6
<1>8. U!Target(t, "redo") = CHOOSE i \in t.index + 1 .. Len(t.entries) + 1 : Is(i)
  BY Zenon DEF U!Target, alive
<1> DEFINE at == U!Target(t, "redo")
<1>9. at \in t.index + 1 .. Len(t.entries) + 1 /\ Is(at)
  <2> HIDE DEF Is
  <2> QED BY <1>5, <1>7, <1>8
<1> HIDE DEF at
<1>11. at = Len(t.entries) + 1 \/ (at \in DOMAIN t.entries /\ t.entries[at].page \in pages)
  <2>1. at = Len(t.entries) + 1 \/ at \in alive
    BY <1>9
  <2> QED BY <2>1 DEF alive
<1>10. \A p \in pages : Clear(t, p, t.index, at)
  BY <1>1, <1>9 DEF Clear, alive
<1> HIDE DEF Is
<1> QED BY <1>9, <1>10, <1>11 DEF at

\* Undo (HistoryTimeline.step).
LEMMA Undone ==
    ASSUME NEW t, IsTimeline(t)
    PROVE  Steps(t, "undo")
<1> DEFINE at == U!Target(t, "undo")
           u == CutAt(t, at, t.index + 1)
           s == U!Step(t, "undo")
           h == U!Handed(t, "undo")
           e == t.entries[at]
<1>1. /\ DOMAIN t.entries = 1 .. Len(t.entries) /\ Len(t.entries) \in Nat
      /\ t.index \in 0 .. Len(t.entries) /\ t.index \in Nat /\ t.index + 1 \in t.index + 1 .. Len(t.entries) + 1
  BY Positions
<1>2. /\ at \in 0 .. t.index
      /\ at = 0 \/ (at \in DOMAIN t.entries /\ t.entries[at].page \in pages)
      /\ \A p \in pages : Clear(t, p, at, t.index + 1)
  BY UndoTarget
<1>3. /\ s = [entries |-> u.entries, index |-> IF at = 0 THEN 0 ELSE at - 1]
      /\ h = IF at \notin DOMAIN t.entries THEN U!NoStep ELSE [dir |-> "undo", page |-> e.page, target |-> e.before]
  BY DEF U!Step, U!Handed, CutAt
<1> HIDE DEF at, s, h, e
<1>4. /\ IsTimeline(u) /\ u.index = at /\ Len(u.entries) = at + (Len(t.entries) - (t.index + 1) + 1)
      /\ \A j \in 1 .. at + (Len(t.entries) - (t.index + 1) + 1) :
            u.entries[j] = t.entries[IF j <= at THEN j ELSE j - at + (t.index + 1) - 1]
  <2>1. IsCut(t, u, at, t.index + 1)
    BY <1>1, <1>2, CutFacts
  <2> HIDE DEF u
  <2> QED BY <2>1, Zenon DEF IsCut
<1>5. \A p \in pages : \A x : Follows(t, p, x) => Follows(u, p, x)
  BY <1>1, <1>2, CutFollows
<1> HIDE DEF u
<1>6. u = [entries |-> u.entries, index |-> at]
  BY <1>4 DEF IsTimeline
<1>9. Len(u.entries) <= Len(t.entries)
  BY <1>1, <1>2, <1>4
<1>7. CASE at = 0
  <2>1. s = u /\ h = U!NoStep
    BY <1>1, <1>3, <1>6, <1>7
  <2> QED BY <1>4, <1>5, <1>9, <2>1 DEF Steps, s, h
<1>8. CASE at # 0
  <2>1. at \in DOMAIN t.entries /\ e.page \in pages /\ u.index > 0 /\ at \in 1 .. t.index
    BY <1>1, <1>2, <1>4, <1>8 DEF e
  <2>a. at \in 1 .. at + (Len(t.entries) - (t.index + 1) + 1) /\ at <= at
    BY <1>1, <2>1
  <2>2. u.entries[u.index] = e
    BY <1>4, <2>a DEF e
  <2>3. s = [u EXCEPT !.index = @ - 1]
    BY <1>3, <1>4, <1>6, <1>8
  <2>4. U!Rollback(s, "undo") = u
    BY <1>3, <1>6, <2>1, <1>8 DEF U!Rollback
  <2>5. h.dir = "undo" /\ h.page = e.page /\ h.target = e.before
    BY <1>3, <2>1
  <2>6. ASSUME NEW p \in pages, NEW x, Follows(t, p, x)
        PROVE  IsTimeline(s) /\ Follows(s, p, IF e.page = p THEN e.before ELSE x)
    <3>1. Follows(u, p, x)
      BY <1>5, <2>6
    <3> QED BY <1>4, <2>1, <2>2, <2>3, <3>1, MovedBack
  <2>7. IsTimeline(s)
    BY <1>1, <1>3, <1>4, <1>6, <1>8, <2>1 DEF IsTimeline
  <2>8. s.entries = u.entries /\ s.index + 1 = at /\ s.index < Len(u.entries)
    <3>1. s.entries = u.entries /\ s.index = at - 1
      BY <1>3, <2>1, <1>8
    <3>2. at \in 1 .. t.index /\ Len(u.entries) \in Nat /\ at <= Len(u.entries)
      BY <1>1, <1>4, <2>1
    <3> HIDE DEF at, s, u
    <3> QED BY <1>1, <3>1, <3>2
  <2>9. Taken(s, "undo")
    BY <1>4, <2>1, <2>2, <2>8 DEF Taken
  <2> QED BY <1>4, <1>5, <1>9, <2>1, <2>4, <2>5, <2>6, <2>7, <2>8, <2>9 DEF Steps, s, h
<1> QED BY <1>7, <1>8

\* Redo (HistoryTimeline.step).
LEMMA Redone ==
    ASSUME NEW t, IsTimeline(t)
    PROVE  Steps(t, "redo")
<1> DEFINE at == U!Target(t, "redo")
           u == CutAt(t, t.index, at)
           s == U!Step(t, "redo")
           h == U!Handed(t, "redo")
           e == t.entries[at]
           n == t.index + (Len(t.entries) - at + 1)
<1>1. /\ DOMAIN t.entries = 1 .. Len(t.entries) /\ Len(t.entries) \in Nat
      /\ t.index \in 0 .. Len(t.entries) /\ t.index \in Nat /\ t.index \in 0 .. t.index
  BY Positions
<1>2. /\ at \in t.index + 1 .. Len(t.entries) + 1
      /\ at = Len(t.entries) + 1 \/ (at \in DOMAIN t.entries /\ t.entries[at].page \in pages)
      /\ \A p \in pages : Clear(t, p, t.index, at)
  BY RedoTarget
<1>3. /\ s = [entries |-> u.entries, index |-> IF at > Len(t.entries) THEN t.index ELSE t.index + 1]
      /\ h = IF at \notin DOMAIN t.entries THEN U!NoStep ELSE [dir |-> "redo", page |-> e.page, target |-> e.after]
  BY DEF U!Step, U!Handed, CutAt
<1> HIDE DEF at, s, h, e
<1>4. /\ IsTimeline(u) /\ u.index = t.index /\ Len(u.entries) = n
      /\ \A j \in 1 .. n : u.entries[j] = t.entries[IF j <= t.index THEN j ELSE j - t.index + at - 1]
  <2>1. IsCut(t, u, t.index, at)
    BY <1>1, <1>2, CutFacts
  <2> HIDE DEF u
  <2> QED BY <2>1, Zenon DEF IsCut
<1>5. \A p \in pages : \A x : Follows(t, p, x) => Follows(u, p, x)
  BY <1>1, <1>2, CutFollows
<1> HIDE DEF u
<1>6. u = [entries |-> u.entries, index |-> t.index]
  BY <1>4 DEF IsTimeline
<1>9. Len(u.entries) <= Len(t.entries)
  BY <1>1, <1>2, <1>4
<1>7. CASE at = Len(t.entries) + 1
  <2>1. s = u /\ h = U!NoStep
    BY <1>1, <1>3, <1>6, <1>7
  <2> QED BY <1>4, <1>5, <1>9, <2>1 DEF Steps, s, h
<1>8. CASE at # Len(t.entries) + 1
  <2>1. at \in DOMAIN t.entries /\ e.page \in pages /\ at \in t.index + 1 .. Len(t.entries)
    BY <1>1, <1>2, <1>8 DEF e
  <2>a. t.index + 1 \in 1 .. n /\ (t.index + 1) - t.index + at - 1 = at
    BY <1>1, <2>1
  <2>b. u.entries[t.index + 1] = t.entries[at]
    <3>1. u.entries[t.index + 1] = t.entries[(t.index + 1) - t.index + at - 1]
      <4>1. ~(t.index + 1 <= t.index)
        BY <1>1
      <4> HIDE DEF n
      <4> QED BY <1>4, <2>a, <4>1
    <3> QED BY <2>a, <3>1
  <2>2. u.entries[u.index + 1] = e /\ u.index < Len(u.entries)
    <3>1. u.index < Len(u.entries)
      BY <1>1, <1>4, <2>1
    <3> QED BY <1>4, <2>b, <3>1 DEF e
  <2>3. s = [u EXCEPT !.index = @ + 1]
    BY <1>1, <1>3, <1>4, <1>6, <2>1
  <2>4. U!Rollback(s, "redo") = u
    BY <1>1, <1>3, <1>6, <2>1 DEF U!Rollback
  <2>5. h.dir = "redo" /\ h.page = e.page /\ h.target = e.after
    BY <1>3, <2>1
  <2>6. ASSUME NEW p \in pages, NEW x, Follows(t, p, x)
        PROVE  IsTimeline(s) /\ Follows(s, p, IF e.page = p THEN e.after ELSE x)
    <3>1. Follows(u, p, x)
      BY <1>5, <2>6
    <3> QED BY <1>4, <2>1, <2>2, <2>3, <3>1, MovedOn
  <2>7. IsTimeline(s)
    <3>1. s.entries = u.entries /\ s.index = u.index + 1 /\ s = [entries |-> s.entries, index |-> s.index]
      BY <1>1, <1>3, <1>4, <2>1
    <3> QED BY <1>1, <1>4, <2>2, <3>1 DEF IsTimeline
  <2>8. s.entries = u.entries /\ s.index = u.index + 1 /\ s.index > 0
    BY <1>1, <1>3, <1>4, <2>1
  <2>9. Taken(s, "redo")
    BY <2>1, <2>2, <2>8 DEF Taken
  <2> QED BY <1>4, <1>5, <1>9, <2>1, <2>4, <2>5, <2>6, <2>7, <2>8, <2>9 DEF Steps, s, h
<1> QED BY <1>7, <1>8

\* UndoHistory filters its array as the queues are filtered.
LEMMA SameCountOfSteps == ASSUME NEW S PROVE U!Cardinality(S) = Cardinality(S)
BY Zenon DEF U!Cardinality, Cardinality

LEMMA SameKeepOfSteps == ASSUME NEW s, NEW S PROVE U!Keep(s, S) = Keep(s, S)
<1>1. \A j : U!Nth(S, j) = Nth(S, j)
  BY SameCountOfSteps DEF U!Nth, Nth
<1> QED BY <1>1, SameCountOfSteps DEF U!Keep, Keep

\* The kept steps that were before a cursor are so many, and they come first.
LEMMA KeptBefore ==
    ASSUME NEW n \in Nat, NEW K \in SUBSET (1 .. n), NEW m \in 0 .. n
    PROVE  /\ Cardinality(Below(K, m)) \in 0 .. Cardinality(K)
           /\ Cardinality(Below(K, m)) = m - Cardinality(1 .. m \ K)
           /\ \A j \in 1 .. Cardinality(K) : j <= Cardinality(Below(K, m)) <=> Nth(K, j) <= m
<1>1. /\ \A i \in 0 .. n : IsFiniteSet(Below(K, i)) /\ Cardinality(Below(K, i)) \in Nat
      /\ IsFiniteSet(K) /\ Cardinality(K) \in Nat
  <2>1. IsFiniteSet(K)
    <3>1. IsFiniteSet(1 .. n)
      BY FS_Interval
    <3> QED BY <3>1, FS_Subset
  <2> QED BY <2>1, BelowStep, FS_CardinalityType
<1>2. ASSUME NEW i \in 0 .. n, NEW j \in 0 .. n, i <= j
      PROVE  Cardinality(Below(K, i)) <= Cardinality(Below(K, j))
  <2>1. Below(K, i) \in SUBSET Below(K, j)
    <3> SUFFICES ASSUME NEW k \in Below(K, i) PROVE k \in Below(K, j)
      OBVIOUS
    <3>1. k \in K /\ k \in 1 .. n /\ k <= i
      BY DEF Below
    <3>2. k <= j
      BY <1>2, <3>1
    <3> QED BY <3>1, <3>2 DEF Below
  <2> QED BY <1>1, <2>1, FS_Subset
<1>3. Cardinality(Below(K, m)) \in 0 .. Cardinality(K)
  <2>1. Below(K, m) \in SUBSET K
    BY DEF Below
  <2> QED BY <1>1, <2>1, FS_Subset
<1>4. Cardinality(Below(K, m)) = m - Cardinality(1 .. m \ K)
  <2> DEFINE A == Below(K, m)
             B == 1 .. m \ K
  <2>a. \A k : k \in A <=> k \in K /\ k \in 1 .. m
    <3>1. \A k \in K : k \in Int /\ 1 <= k
      OBVIOUS
    <3>2. \A k \in K : k <= m <=> k \in 1 .. m
      BY <3>1
    <3> QED BY <3>2 DEF Below
  <2>b. \A k : k \in B <=> k \in 1 .. m /\ k \notin K
    OBVIOUS
  <2>1. A \cup B = 1 .. m /\ A \cap B = {}
    <3> HIDE DEF A, B
    <3> QED BY <2>a, <2>b
  <2>2. IsFiniteSet(1 .. m) /\ Cardinality(1 .. m) = m
    BY FS_Interval
  <2>7. B \in SUBSET (1 .. m)
    OBVIOUS
  <2>3. IsFiniteSet(B) /\ Cardinality(B) \in Nat /\ IsFiniteSet(A) /\ Cardinality(A) \in Nat
    <3> HIDE DEF B
    <3>1. IsFiniteSet(B)
      BY <2>2, <2>7, FS_Subset
    <3> QED BY <1>1, <3>1, FS_CardinalityType
  <2> HIDE DEF A, B
  <2>4. Cardinality(A \cup B) = Cardinality(A) + Cardinality(B) - Cardinality(A \cap B)
    BY <2>3, FS_Union
  <2>5. Cardinality(A \cap B) = 0
    BY <2>1, FS_EmptySet
  <2>6. Cardinality(A) = m - Cardinality(B)
    <3>1. m = Cardinality(A) + Cardinality(B) - 0
      BY <2>1, <2>2, <2>4, <2>5
    <3> QED BY <2>3, <3>1
  <2> QED BY <2>6 DEF A, B
<1>5. ASSUME NEW j \in 1 .. Cardinality(K)
      PROVE  j <= Cardinality(Below(K, m)) <=> Nth(K, j) <= m
  <2>1. Nth(K, j) \in K /\ Nth(K, j) \in 1 .. n /\ Cardinality(Below(K, Nth(K, j))) = j
    BY NthMember
  <2>2. CASE Nth(K, j) <= m
    BY <1>2, <2>1, <2>2
  <2>3. CASE ~(Nth(K, j) <= m)
    <3>1. Nth(K, j) - 1 \in 0 .. n /\ m <= Nth(K, j) - 1
      BY <2>1, <2>3
    <3>2. Cardinality(Below(K, m)) <= Cardinality(Below(K, Nth(K, j) - 1))
      BY <1>2, <3>1
    <3>3. Cardinality(Below(K, Nth(K, j))) = Cardinality(Below(K, Nth(K, j) - 1)) + 1
      BY <2>1, BelowStep
    <3>4. Cardinality(Below(K, m)) \in Nat /\ Cardinality(Below(K, Nth(K, j) - 1)) \in Nat
      BY <1>1, <3>1
    <3> QED BY <2>1, <2>3, <3>2, <3>3, <3>4
  <2> QED BY <2>2, <2>3
<1> QED BY <1>3, <1>4, <1>5

\* u is t without the steps of page q: f says where its steps were.
Drops(f, m, t, u, q) ==
    /\ IsTimeline(u) /\ m \in 0 .. Len(t.entries) /\ Len(u.entries) = m
    /\ \A j \in 1 .. m : /\ f[j] \in DOMAIN t.entries /\ t.entries[f[j]].page # q
                         /\ u.entries[j] = t.entries[f[j]]
                         /\ j <= u.index <=> f[j] <= t.index
    /\ \A i, j \in 1 .. m : i < j => f[i] < f[j]
    /\ \A i \in DOMAIN t.entries : t.entries[i].page # q => \E j \in 1 .. m : f[j] = i

\* HistoryTimeline.dropPage.
LEMMA DropIs ==
    ASSUME NEW t, IsTimeline(t), NEW q
    PROVE  \E f, m : Drops(f, m, t, U!DropPage(t, q), q)
<1> DEFINE K == {i \in DOMAIN t.entries : t.entries[i].page # q}
           es == Keep(t.entries, K)
           c == Cardinality(Below(K, t.index))
           u == [entries |-> es, index |-> c]
           f == [j \in 1 .. Cardinality(K) |-> Nth(K, j)]
           m == Cardinality(K)
<1>1. /\ DOMAIN t.entries = 1 .. Len(t.entries) /\ Len(t.entries) \in Nat
      /\ t.index \in 0 .. Len(t.entries)
  BY Positions
<1>2. PICK S : t.entries \in Seq(S)
  BY DEF IsTimeline
<1>3. K \in SUBSET (DOMAIN t.entries) /\ K \in SUBSET (1 .. Len(t.entries))
  BY <1>1
<1>4. {i \in 1 .. t.index : t.entries[i].page = q} = 1 .. t.index \ K
  BY <1>1
<1>5. U!DropPage(t, q) = u
  <2>1. c = t.index - Cardinality(1 .. t.index \ K)
    <3> HIDE DEF K
    <3> QED BY <1>1, <1>3, KeptBefore
  <2>2. U!DropPage(t, q) = [entries |-> U!Keep(t.entries, K),
                            index |-> t.index - U!Cardinality({i \in 1 .. t.index : t.entries[i].page = q})]
    BY DEF U!DropPage
  <2> HIDE DEF K, c
  <2> QED BY <1>4, <2>1, <2>2, SameKeepOfSteps, SameCountOfSteps
<1>6. /\ es \in Seq(S) /\ Len(es) = Cardinality(K) /\ DOMAIN es = 1 .. Cardinality(K)
      /\ \A j \in 1 .. Cardinality(K) : es[j] = t.entries[Nth(K, j)]
  <2> HIDE DEF K
  <2>1. /\ Keep(t.entries, K) \in Seq(S) /\ Len(Keep(t.entries, K)) = Cardinality(K)
        /\ \A j \in 1 .. Cardinality(K) : Keep(t.entries, K)[j] = t.entries[Nth(K, j)]
    BY <1>2, <1>3, KeepSeq
  <2> QED BY <2>1
<1>7. /\ Cardinality(K) \in Nat
      /\ \A j \in 1 .. Cardinality(K) : Nth(K, j) \in K
      /\ \A i, j \in 1 .. Cardinality(K) : i < j => Nth(K, i) < Nth(K, j)
  <2> HIDE DEF K
  <2> QED BY <1>2, <1>3, KeepNth
<1>8. /\ c \in 0 .. Cardinality(K)
      /\ \A j \in 1 .. Cardinality(K) : j <= c <=> Nth(K, j) <= t.index
  <2> HIDE DEF K
  <2> QED BY <1>1, <1>3, KeptBefore
<1>9. \A k \in K : \E j \in 1 .. Cardinality(K) : Nth(K, j) = k
  <2> HIDE DEF K
  <2> QED BY <1>1, <1>3, NthOnto
<1>10. \A i \in DOMAIN t.entries : t.entries[i].page # q => i \in K
  OBVIOUS
<1>11. \A i \in K : t.entries[i].page # q /\ i \in DOMAIN t.entries
  OBVIOUS
<1>12. u.entries = es /\ u.index = c /\ u = [entries |-> u.entries, index |-> u.index]
  OBVIOUS
<1>13. \A j \in 1 .. Cardinality(K) : f[j] = Nth(K, j)
  OBVIOUS
<1>20. m \in 0 .. Len(t.entries)
  <2> HIDE DEF K
  <2>1. IsFiniteSet(1 .. Len(t.entries)) /\ Cardinality(1 .. Len(t.entries)) = Len(t.entries)
    <3>1. \A k \in Nat : IsFiniteSet(1 .. k) /\ Cardinality(1 .. k) = k
      BY FS_Interval
    <3> QED BY <1>1, <3>1, Zenon
  <2>2. Cardinality(K) <= Len(t.entries)
    BY <1>3, <2>1, FS_Subset
  <2> QED BY <1>1, <1>7, <2>2
<1> HIDE DEF K, es, c, u, f
<1>14. IsTimeline(u)
  <2>1. \A j \in DOMAIN u.entries : IsStep(u.entries[j])
    BY <1>6, <1>7, <1>11, <1>12 DEF IsTimeline
  <2> QED BY <1>6, <1>8, <1>12, <2>1 DEF IsTimeline
<1>15. \A j \in 1 .. m : /\ f[j] \in DOMAIN t.entries /\ t.entries[f[j]].page # q
                         /\ u.entries[j] = t.entries[f[j]]
                         /\ j <= u.index <=> f[j] <= t.index
  BY <1>6, <1>7, <1>8, <1>11, <1>12, <1>13
<1>16. \A i, j \in 1 .. m : i < j => f[i] < f[j]
  BY <1>7, <1>13
<1>17. \A i \in DOMAIN t.entries : t.entries[i].page # q => \E j \in 1 .. m : f[j] = i
  BY <1>9, <1>10, <1>13
<1>18. m \in 0 .. Len(t.entries) /\ Len(u.entries) = m
  BY <1>6, <1>12, <1>20
<1> HIDE DEF m
<1>19. Drops(f, m, t, u, q)
  BY <1>14, <1>15, <1>16, <1>17, <1>18, Zenon DEF Drops
<1> QED BY <1>5, <1>19

\* The other pages follow the cursor as before, and the page itself has no
\* steps left.
LEMMA Dropped ==
    ASSUME NEW t, IsTimeline(t), NEW q
    PROVE  /\ IsTimeline(U!DropPage(t, q))
           /\ \A p, x : Follows(t, p, x) => Follows(U!DropPage(t, q), p, x)
<1> DEFINE u == U!DropPage(t, q)
<1>1. PICK f, m : Drops(f, m, t, u, q)
  BY DropIs
<1> HIDE DEF u
<1>2. IsTimeline(u) /\ DOMAIN u.entries = 1 .. m
  BY <1>1, Positions DEF Drops
<1>3. ASSUME NEW p, NEW x, Follows(t, p, x)
      PROVE  Follows(u, p, x)
  <2>1. CASE p = q
    <3>1. \A j \in DOMAIN u.entries : u.entries[j].page # p
      BY <1>1, <1>2, <2>1 DEF Drops
    <3> QED BY <3>1 DEF Follows, Chained, AtCursor
  <2>2. CASE p # q
    <3>1. LeavesOut(f, t, u, p)
      BY <1>1, <1>2, <2>2 DEF Drops, LeavesOut
    <3> QED BY <1>2, <1>3, <3>1, Thinned
  <2> QED BY <2>1, <2>2
<1>4. IsTimeline(u) /\ \A p, x : Follows(t, p, x) => Follows(u, p, x)
  BY <1>2, <1>3
<1> QED BY <1>4 DEF u

-----------------------------------------------------------------------------
\* The timeline as it was before a step that waits for its page was taken.
PutBack == IF hook.pending = U!NoStep THEN tl ELSE U!Rollback(tl, hook.pending.dir)

StudioShape ==
    /\ copy = [p \in AllPages |-> copy[p]] /\ pages \subseteq AllPages
    /\ hook = [key |-> hook.key, pending |-> hook.pending, deps |-> hook.deps, reset |-> hook.reset,
               replaced |-> hook.replaced, stale |-> hook.stale]
    /\ view = [active |-> view.active, opened |-> view.opened, shown |-> view.shown, fetch |-> view.fetch]

\* A step waits for a page that is asked for and not rendered yet.
Waiting == hook.pending # U!NoStep => view.opened # view.active /\ hook.pending.page # view.shown

Following ==
    /\ IsTimeline(PutBack)
    /\ \A p \in pages \ hook.replaced : Follows(PutBack, p, copy[p])

UInv == StudioShape /\ Waiting /\ Following

\* No step waits between renders.
LEMMA NothingWaits ==
    ASSUME UInv, U!Rendered
    PROVE  hook.pending = U!NoStep /\ PutBack = tl
BY DEF UInv, Waiting, U!Rendered, PutBack

\* A page without a step follows any cursor.
LEMMA NoSteps ==
    ASSUME NEW t, NEW p, \A i \in DOMAIN t.entries : t.entries[i].page # p, NEW x
    PROVE  Follows(t, p, x)
BY DEF Follows, Chained, AtCursor

\* A page whose steps are forgotten is not remembered as replaced.
LEMMA StillFollow ==
    ASSUME UInv, U!Rendered, NEW p \in pages \ U!Remembered(tl, hook.replaced)
    PROVE  Follows(tl, p, copy[p])
<1>1. \A q \in pages \ hook.replaced : Follows(tl, q, copy[q])
  BY NothingWaits DEF UInv, Following
<1>2. CASE p \in hook.replaced
  <2>1. \A i \in DOMAIN tl.entries : tl.entries[i].page # p
    BY <1>2 DEF U!Remembered
  <2> QED BY <2>1, NoSteps
<1> QED BY <1>1, <1>2

\* Another document put in the place of a page is noted.
LEMMA ReplacedKeeps ==
    ASSUME UInv, U!Rendered, NEW q, NEW d, copy' = [copy EXCEPT ![q] = d],
           NEW p \in pages \ U!Replaced(q, d)
    PROVE  Follows(tl, p, copy'[p])
<1>1. \A r \in pages \ hook.replaced : Follows(tl, r, copy[r])
  BY NothingWaits DEF UInv, Following
<1>2. CASE \A i \in DOMAIN tl.entries : tl.entries[i].page # p
  BY <1>2, NoSteps
<1>3. CASE \E i \in DOMAIN tl.entries : tl.entries[i].page = p
  <2>1. p \notin IF d = copy[q] THEN hook.replaced ELSE hook.replaced \cup {q}
    BY <1>3 DEF U!Replaced, U!Remembered
  <2>2. p \notin hook.replaced /\ (p = q => d = copy[p])
    BY <2>1
  <2>3. copy'[p] = copy[p]
    BY <2>2 DEF UInv, StudioShape
  <2> QED BY <1>1, <2>2, <2>3
<1> QED BY <1>2, <1>3

\* The studio's first state.
LEMMA UInvInit == U!Init => UInv
<1> SUFFICES ASSUME U!Init PROVE UInv
  OBVIOUS
<1>1. tl.entries = <<>> /\ tl.index = 0 /\ tl = [entries |-> tl.entries, index |-> tl.index]
      /\ hook.pending = U!NoStep
  BY DEF U!Init
<1>2. PutBack = tl /\ DOMAIN tl.entries = {} /\ tl.entries \in Seq({})
  BY <1>1 DEF PutBack
<1>3. IsTimeline(tl)
  BY <1>1, <1>2 DEF IsTimeline
<1>4. Following
  BY <1>2, <1>3, NoSteps DEF Following
<1>5. StudioShape /\ Waiting
  BY <1>1 DEF U!Init, StudioShape, Waiting
<1> QED BY <1>4, <1>5 DEF UInv

\* An action of the user, recorded or folded into the one before.
LEMMA CommitKeeps ==
    ASSUME UInv, NEW p \in AllPages, NEW key, NEW soon, U!CommitOn(p, key, soon)
    PROVE  UInv'
<1> DEFINE next == copy[p] \cup {Len(made) + 1}
           e == [page |-> p, before |-> copy[p], after |-> next]
<1>1. /\ U!Rendered /\ copy' = [copy EXCEPT ![p] = next]
      /\ \/ U!CanCoalesce(tl, p) /\ tl' = U!Coalesce(tl, next)
         \/ tl' = U!Push(tl, e)
      /\ hook' = [hook EXCEPT !.key = key, !.replaced = U!Remembered(tl, hook.replaced)]
      /\ UNCHANGED <<pages, view>>
  BY DEF U!CommitOn, U!Adopt, U!Quiet
<1> HIDE DEF next
<1>2. hook.pending = U!NoStep /\ IsTimeline(tl)
  BY <1>1, NothingWaits DEF UInv, Following
<1>3. StudioShape'
  BY <1>1 DEF UInv, StudioShape
<1>4. hook'.pending = U!NoStep /\ hook'.replaced = U!Remembered(tl, hook.replaced)
  BY <1>1, <1>2 DEF UInv, StudioShape
<1>5. PutBack' = tl' /\ Waiting'
  BY <1>4 DEF PutBack, Waiting
<1>6. \A q \in pages \ hook'.replaced : Follows(tl, q, copy[q]) /\ copy'[q] = IF p = q THEN next ELSE copy[q]
  BY <1>1, <1>4, StillFollow DEF UInv, StudioShape
<1>7. e.page = p /\ e.before = copy[p] /\ e.after = next /\ IsStep(e)
  BY DEF IsStep
<1> HIDE DEF e
<1>8. CASE U!CanCoalesce(tl, p) /\ tl' = U!Coalesce(tl, next)
  <2>1. /\ IsTimeline(tl')
        /\ \A q, x : Follows(tl, q, x) => Follows(tl', q, IF p = q THEN next ELSE x)
    BY <1>2, <1>8, Folded
  <2> QED BY <1>1, <1>3, <1>5, <1>6, <2>1 DEF UInv, Following
<1>9. CASE tl' = U!Push(tl, e)
  <2>1. /\ IsTimeline(tl')
        /\ \A q, x : Follows(tl, q, x) /\ (e.page = q => e.before = x)
                        => Follows(tl', q, IF e.page = q THEN e.after ELSE x)
    BY <1>2, <1>7, <1>9, Pushed
  <2>2. \A q \in pages \ hook'.replaced : Follows(tl', q, copy'[q])
    BY <1>6, <1>7, <2>1
  <2> QED BY <1>1, <1>3, <1>5, <2>1, <2>2 DEF UInv, Following
<1> QED BY <1>1, <1>8, <1>9

\* A press of undo or redo: applied in place, or waiting for its page.
LEMMA StepKeeps ==
    ASSUME UInv, NEW dir \in {"undo", "redo"}, U!StepBy(dir)
    PROVE  UInv'
<1> DEFINE h == U!Handed(tl, dir)
           s == U!Step(tl, dir)
           waits == h # U!NoStep /\ h.page \notin U!OnScreen
<1>1. U!Rendered /\ U!Settled
  BY DEF U!StepBy, U!Quiet
<1>2. /\ hook.pending = U!NoStep /\ IsTimeline(tl)
      /\ \A p \in pages \ hook.replaced : Follows(tl, p, copy[p])
  BY <1>1, NothingWaits DEF UInv, Following
<1>3. /\ tl' = s /\ U!Restore(h)
      /\ hook' = [hook EXCEPT !.key = None, !.pending = IF waits THEN h ELSE U!NoStep]
      /\ view' = IF waits THEN [view EXCEPT !.active = h.page] ELSE view
      /\ UNCHANGED pages
  BY <1>2 DEF U!StepBy
<1>4. Steps(tl, dir)
  BY <1>2, Undone, Redone
<1>5. /\ IsTimeline(s)
      /\ \/ /\ h = U!NoStep
            /\ \A p \in pages : \A x : Follows(tl, p, x) => Follows(s, p, x)
         \/ /\ h.dir = dir /\ h.page \in pages
            /\ IsTimeline(U!Rollback(s, dir))
            /\ \A p \in pages : \A x : Follows(tl, p, x) =>
                  /\ Follows(s, p, IF h.page = p THEN h.target ELSE x)
                  /\ Follows(U!Rollback(s, dir), p, x)
  BY <1>4, Zenon DEF Steps
<1> HIDE DEF h, s
<1>6. /\ hook'.pending = (IF waits THEN h ELSE U!NoStep) /\ hook'.replaced = hook.replaced
      /\ view'.opened = view.opened /\ view'.shown = view.shown
      /\ view'.active = (IF waits THEN h.page ELSE view.active)
  BY <1>3 DEF UInv, StudioShape
<1>7. StudioShape' /\ view.opened = view.active /\ view.shown = view.active
  <2>1. copy' = [p \in AllPages |-> copy'[p]]
    BY <1>3 DEF UInv, StudioShape, U!Restore, U!Adopt
  <2>2. /\ hook' = [key |-> hook'.key, pending |-> hook'.pending, deps |-> hook'.deps, reset |-> hook'.reset,
                    replaced |-> hook'.replaced, stale |-> hook'.stale]
        /\ view' = [active |-> view'.active, opened |-> view'.opened, shown |-> view'.shown,
                    fetch |-> view'.fetch]
    BY <1>3 DEF UInv, StudioShape
  <2> QED BY <1>1, <1>3, <2>1, <2>2 DEF UInv, StudioShape, U!Rendered, U!Settled
<1>8. CASE /\ h = U!NoStep
           /\ \A p \in pages : \A x : Follows(tl, p, x) => Follows(s, p, x)
  <2>1. hook'.pending = U!NoStep /\ copy' = copy
    BY <1>3, <1>6, <1>8 DEF U!Restore
  <2>2. PutBack' = s /\ Waiting'
    BY <1>3, <2>1 DEF PutBack, Waiting
  <2>3. \A p \in pages \ hook'.replaced : Follows(s, p, copy'[p])
    BY <1>2, <1>6, <1>8, <2>1
  <2> QED BY <1>3, <1>5, <1>7, <2>2, <2>3 DEF UInv, Following
<1>9. CASE /\ h.dir = dir /\ h.page \in pages
           /\ IsTimeline(U!Rollback(s, dir))
           /\ \A p \in pages : \A x : Follows(tl, p, x) =>
                 /\ Follows(s, p, IF h.page = p THEN h.target ELSE x)
                 /\ Follows(U!Rollback(s, dir), p, x)
  <2>1. h.page \in AllPages /\ h # U!NoStep
    BY <1>9, PagesAssumption DEF UInv, StudioShape, U!NoStep
  <2>2. CASE h.page \in U!OnScreen
    <3>1. copy' = [copy EXCEPT ![h.page] = h.target] /\ ~waits
      BY <1>3, <2>1, <2>2 DEF U!Restore, U!Adopt
    <3>2. hook'.pending = U!NoStep
      BY <1>6, <3>1
    <3>3. PutBack' = s /\ Waiting'
      BY <1>3, <3>2 DEF PutBack, Waiting
    <3>4. \A p \in pages : copy'[p] = IF h.page = p THEN h.target ELSE copy[p]
      BY <3>1 DEF UInv, StudioShape
    <3>5. \A p \in pages \ hook'.replaced : Follows(s, p, copy'[p])
      BY <1>2, <1>6, <1>9, <3>4
    <3> QED BY <1>3, <1>5, <1>7, <3>3, <3>5 DEF UInv, Following
  <2>3. CASE h.page \notin U!OnScreen
    <3>1. waits /\ copy' = copy
      BY <1>3, <2>1, <2>3 DEF U!Restore
    <3>2. hook'.pending = h /\ view'.active = h.page
      BY <1>6, <3>1
    <3>3. h.page # view.shown
      BY <2>3 DEF U!OnScreen
    <3>4. PutBack' = U!Rollback(s, dir)
      <4>1. tl' = s /\ hook'.pending # U!NoStep /\ hook'.pending.dir = dir
        BY <1>3, <1>9, <2>1, <3>2
      <4> QED BY <4>1 DEF PutBack, U!Rollback
    <3>5. Waiting'
      BY <1>6, <1>7, <3>2, <3>3 DEF Waiting
    <3>6. \A p \in pages \ hook'.replaced : Follows(U!Rollback(s, dir), p, copy'[p])
      BY <1>2, <1>6, <1>9, <3>1
    <3> QED BY <1>3, <1>7, <1>9, <3>4, <3>5, <3>6 DEF UInv, Following
  <2> QED BY <2>2, <2>3
<1> QED BY <1>5, <1>8, <1>9

\* The effects after a render: a step whose page has not come is put back, and
\* the steps of a page that was read again are dropped.
LEMMA RenderKeeps ==
    ASSUME UInv, U!Render
    PROVE  UInv'
<1> DEFINE p == hook.pending
           back == p # U!NoStep /\ p.page # view.shown
           lands == p # U!NoStep /\ p.page = view.shown /\ U!Settled
           after == IF back THEN U!Rollback(tl, p.dir) ELSE tl
<1>1. ~lands /\ (back <=> p # U!NoStep)
  BY DEF UInv, Waiting
<1>2. after = PutBack
  BY <1>1 DEF PutBack
<1>3. /\ U!Restore(IF lands THEN p ELSE U!NoStep)
      /\ tl' = (IF hook.reset = None THEN after ELSE U!DropPage(after, hook.reset))
      /\ hook' = [hook EXCEPT !.deps = <<view.shown, U!Settled>>, !.reset = None,
                              !.pending = IF back \/ lands \/ hook.reset = p.page THEN U!NoStep ELSE @,
                              !.key = IF hook.reset = None THEN @ ELSE None,
                              !.stale = U!Remembered(tl', @)]
      /\ view' = (IF view.opened = view.active THEN view
                  ELSE [active |-> view.active, opened |-> view.active,
                        shown |-> IF view.active # None /\ copy[view.active] # None THEN view.active
                                  ELSE view.shown,
                        fetch |-> IF view.active = None THEN None
                                  ELSE [page |-> view.active, got |-> None]])
      /\ UNCHANGED pages
  BY Zenon DEF U!Render
<1>4. hook'.pending = U!NoStep /\ hook'.replaced = hook.replaced
  <2>1. hook'.pending = IF back \/ lands \/ hook.reset = p.page THEN U!NoStep ELSE p
    BY <1>3 DEF UInv, StudioShape
  <2> QED BY <1>1, <1>3, <2>1 DEF UInv, StudioShape
<1>5. copy' = copy
  BY <1>1, <1>3 DEF U!Restore
<1>6. StudioShape'
  <2>1. /\ hook' = [key |-> hook'.key, pending |-> hook'.pending, deps |-> hook'.deps, reset |-> hook'.reset,
                    replaced |-> hook'.replaced, stale |-> hook'.stale]
        /\ view' = [active |-> view'.active, opened |-> view'.opened, shown |-> view'.shown,
                    fetch |-> view'.fetch]
    BY <1>3 DEF UInv, StudioShape
  <2> QED BY <1>3, <1>5, <2>1 DEF UInv, StudioShape
<1>7. IsTimeline(PutBack) /\ \A q \in pages \ hook.replaced : Follows(PutBack, q, copy[q])
  BY DEF UInv, Following
<1>8. IsTimeline(tl') /\ \A q \in pages \ hook.replaced : Follows(tl', q, copy[q])
  <2> HIDE DEF after
  <2>1. CASE hook.reset = None
    BY <1>2, <1>3, <1>7, <2>1
  <2>2. CASE hook.reset # None
    BY <1>2, <1>3, <1>7, <2>2, Dropped
  <2> QED BY <2>1, <2>2
<1>9. PutBack' = tl' /\ Waiting'
  BY <1>4 DEF PutBack, Waiting
<1> QED BY <1>3, <1>4, <1>5, <1>6, <1>8, <1>9 DEF UInv, Following

\* A fetch, a shell or a reload replaces a document, while no step waits.
LEMMA LandingKeeps ==
    ASSUME UInv, U!Rendered, NEW q, NEW d,
           copy' = [copy EXCEPT ![q] = d], StudioShape', UNCHANGED <<pages, tl>>,
           hook'.pending = hook.pending, hook'.replaced = U!Replaced(q, d)
    PROVE  UInv'
<1>1. hook'.pending = U!NoStep /\ PutBack = tl
  BY NothingWaits
<1>2. PutBack' = tl' /\ Waiting'
  BY <1>1 DEF PutBack, Waiting
<1>3. IsTimeline(tl)
  BY <1>1 DEF UInv, Following
<1>4. \A p \in pages \ hook'.replaced : Follows(tl, p, copy'[p])
  BY ReplacedKeeps
<1> QED BY <1>2, <1>3, <1>4 DEF UInv, Following

\* Everything else leaves the timeline and the pages' documents alone.
LEMMA NothingFollowed ==
    ASSUME UInv, StudioShape', UNCHANGED <<copy, tl>>, pages' \subseteq pages,
           hook'.pending = hook.pending, hook'.replaced = hook.replaced, Waiting'
    PROVE  UInv'
<1>1. PutBack' = PutBack
  BY DEF PutBack
<1> QED BY <1>1 DEF UInv, Following

\* A page is deleted, between renders.
LEMMA DeleteKeeps ==
    ASSUME UInv, NEW p \in AllPages, U!DeletePage(p)
    PROVE  UInv'
<1>1. /\ U!Rendered /\ pages' = pages \ {p} /\ copy' = [copy EXCEPT ![p] = None]
      /\ view' = (IF view.active = p THEN [view EXCEPT !.active = None] ELSE view)
      /\ UNCHANGED <<tl, hook>>
  BY DEF U!DeletePage, U!Quiet
<1>2. hook'.pending = U!NoStep /\ PutBack = tl
  BY <1>1, NothingWaits
<1>3. PutBack' = tl /\ Waiting'
  BY <1>1, <1>2 DEF PutBack, Waiting
<1>4. \A q \in pages' \ hook'.replaced : Follows(tl, q, copy'[q])
  <2>1. \A q \in pages' : copy'[q] = copy[q] /\ q \in pages
    BY <1>1 DEF UInv, StudioShape
  <2> QED BY <1>1, <1>2, <2>1 DEF UInv, Following
<1>5. StudioShape'
  BY <1>1 DEF UInv, StudioShape
<1> QED BY <1>1, <1>2, <1>3, <1>4, <1>5 DEF UInv, Following

\* A page is read again over a conflict.
LEMMA ReloadKeeps ==
    ASSUME UInv, NEW i, NEW p, p = reloads[i].page, U!Reload(i)
    PROVE  UInv'
<1>1. PICK d : /\ U!Rendered /\ UNCHANGED <<pages, view, tl>>
               /\ IF p \in U!OnScreen THEN copy' = [copy EXCEPT ![p] = d] ELSE copy' = copy
               /\ hook' = [hook EXCEPT !.reset = p, !.stale = @ \cup {p},
                              !.replaced = IF p \in U!OnScreen THEN U!Replaced(p, d) ELSE @]
  BY Zenon DEF U!Reload
<1>2. /\ hook'.pending = hook.pending
      /\ hook'.replaced = IF p \in U!OnScreen THEN U!Replaced(p, d) ELSE hook.replaced
  BY <1>1 DEF UInv, StudioShape
<1>3. StudioShape'
  BY <1>1 DEF UInv, StudioShape
<1>4. Waiting'
  BY <1>1, <1>2 DEF UInv, Waiting
<1>5. CASE p \in U!OnScreen
  BY <1>1, <1>2, <1>3, <1>5, LandingKeeps
<1>6. CASE p \notin U!OnScreen
  BY <1>1, <1>2, <1>3, <1>4, <1>6, NothingFollowed
<1> QED BY <1>5, <1>6

\* The page that was asked for arrives, or a shell is read.
LEMMA FetchKeeps ==
    ASSUME UInv, U!Arrive \/ \E p \in AllPages : U!LoadShell(p)
    PROVE  UInv'
<1>1. PICK q, d : /\ U!Rendered /\ UNCHANGED <<pages, tl>>
                  /\ copy' = [copy EXCEPT ![q] = d]
                  /\ hook' = [hook EXCEPT !.replaced = U!Replaced(q, d)]
                  /\ view' = view \/ view' = [view EXCEPT !.shown = q, !.fetch = None]
  <2>1. CASE U!Arrive
    BY <2>1 DEF U!Arrive, U!Quiet
  <2>2. CASE \E p \in AllPages : U!LoadShell(p)
    BY <2>2 DEF U!LoadShell, U!Quiet
  <2> QED BY <2>1, <2>2
<1>2. hook'.pending = hook.pending /\ hook'.replaced = U!Replaced(q, d)
  BY <1>1 DEF UInv, StudioShape
<1>3. StudioShape'
  BY <1>1 DEF UInv, StudioShape
<1> QED BY <1>1, <1>2, <1>3, LandingKeeps

\* Every step of the studio keeps every page at the cursor.
LEMMA UInvStep == UInv /\ [U!Next]_(U!vars) => UInv'
<1> SUFFICES ASSUME UInv, [U!Next]_(U!vars) PROVE UInv'
  OBVIOUS
<1>1. ASSUME NEW p \in AllPages, NEW key, NEW soon, U!CommitOn(p, key, soon) PROVE UInv'
  BY <1>1, CommitKeeps
<1>2. ASSUME NEW dir \in {"undo", "redo"}, U!StepBy(dir) PROVE UInv'
  BY <1>2, StepKeeps
<1>3. ASSUME NEW p \in AllPages, U!DeletePage(p) PROVE UInv'
  BY <1>3, DeleteKeeps
<1>4. ASSUME NEW i \in DOMAIN reloads, U!Reload(i) PROVE UInv'
  BY <1>4, ReloadKeeps
<1>5. CASE U!Arrive \/ \E p \in AllPages : U!LoadShell(p)
  BY <1>5, FetchKeeps
<1>6. CASE U!Render
  BY <1>6, RenderKeeps
<1>7. ASSUME NEW p \in AllPages, U!Visit(p) PROVE UInv'
  <2>1. /\ U!Rendered /\ UNCHANGED <<pages, copy, tl, hook>>
        /\ view' = [view EXCEPT !.active = p]
    BY <1>7 DEF U!Visit, U!doc, U!Quiet
  <2>2. hook'.pending = U!NoStep
    BY <2>1, NothingWaits
  <2>3. StudioShape' /\ Waiting'
    BY <2>1, <2>2 DEF UInv, StudioShape, Waiting
  <2> QED BY <2>1, <2>3, NothingFollowed
<1>8. CASE U!Serve
  <2>1. UNCHANGED <<pages, copy, tl, hook>> /\ \E got : view' = [view EXCEPT !.fetch.got = got]
    BY <1>8 DEF U!Serve, U!doc
  <2>2. StudioShape' /\ Waiting'
    BY <2>1 DEF UInv, StudioShape, Waiting
  <2> QED BY <2>1, <2>2, NothingFollowed
<1>9. CASE U!FetchFails
  <2>1. UNCHANGED <<pages, copy, tl, hook>> /\ view' = [view EXCEPT !.fetch = None]
    BY <1>9 DEF U!FetchFails, U!doc
  <2>2. StudioShape' /\ Waiting'
    BY <2>1 DEF UInv, StudioShape, Waiting
  <2> QED BY <2>1, <2>2, NothingFollowed
<1>10. CASE \/ U!Answer \/ U!Conflict \/ (\E p \in AllPages : U!OtherEdits(p))
            \/ (\E i \in DOMAIN reloads : U!ReloadFails(i)) \/ UNCHANGED U!vars
  <2>1. UNCHANGED <<pages, copy, tl, hook, view>>
    BY <1>10 DEF U!Answer, U!Conflict, U!OtherEdits, U!ReloadFails, U!vars, U!doc
  <2>2. StudioShape' /\ Waiting'
    BY <2>1 DEF UInv, StudioShape, Waiting
  <2> QED BY <2>1, <2>2, NothingFollowed
<1> QED BY <1>1, <1>2, <1>3, <1>4, <1>5, <1>6, <1>7, <1>8, <1>9, <1>10 DEF U!Next

\* UndoHistory: whatever is done, undone, redone, read again, deleted or
\* changed by others, in any order, the steps of each page lead from one to
\* the next, and a page that nothing replaced shows where the cursor stands,
\* once a step that waits for its page is put back.
THEOREM StepsAreChained == U!Spec => []UInv
<1>1. U!Init => UInv
  BY UInvInit
<1>2. UInv /\ [U!Next]_(U!vars) => UInv'
  BY UInvStep
<1> QED BY <1>1, <1>2, PTL DEF U!Spec

\* UndoHistory: between renders, undo takes back what the last applied step of
\* a page did to what the page shows, and redo what the next one did.
THEOREM CursorIsFollowed == U!Spec => []FollowsCursor
<1>1. UInv => FollowsCursor
  <2> SUFFICES ASSUME UInv, U!Rendered, NEW i \in DOMAIN tl.entries, NEW e, e = tl.entries[i],
                      NEW others, others = {j \in DOMAIN tl.entries : tl.entries[j].page = e.page},
                      e.page \in pages \ hook.replaced
               PROVE  /\ i <= tl.index /\ (\A j \in others : j <= i \/ j > tl.index) => copy[e.page] = e.after
                      /\ i > tl.index /\ (\A j \in others : j >= i \/ j <= tl.index) => copy[e.page] = e.before
    BY DEF FollowsCursor, U!FollowsCursor, U!Quiet
  <2>1. IsTimeline(tl) /\ AtCursor(tl, e.page, copy[e.page])
    BY NothingWaits DEF UInv, Following, Follows
  <2>2. DOMAIN tl.entries = 1 .. Len(tl.entries) /\ Len(tl.entries) \in Nat /\ tl.index \in Nat
    BY <2>1, Positions
  <2>3. (\A j \in others : j <= i \/ j > tl.index) => Clear(tl, e.page, i, tl.index + 1)
    BY <2>2 DEF Clear
  <2>4. (\A j \in others : j >= i \/ j <= tl.index) => Clear(tl, e.page, tl.index, i)
    BY <2>2 DEF Clear
  <2> QED BY <2>1, <2>3, <2>4 DEF AtCursor
<1> QED BY <1>1, StepsAreChained, PTL

-----------------------------------------------------------------------------
\* The two stacks of a timeline.
Done(t) == SubSeq(t.entries, 1, t.index)
Todo(t) == U!Reverse(SubSeq(t.entries, t.index + 1, Len(t.entries)))

AreStacks(t, S, a, b) ==
    LET n == Len(t.entries)
    IN  /\ a \in Seq(S) /\ Len(a) = t.index /\ \A i \in 1 .. t.index : a[i] = t.entries[i]
        /\ b \in Seq(S) /\ Len(b) = n - t.index /\ \A i \in 1 .. n - t.index : b[i] = t.entries[n + 1 - i]

\* What is in them.
LEMMA StacksAre ==
    ASSUME NEW t, IsTimeline(t), NEW S, t.entries \in Seq(S)
    PROVE  AreStacks(t, S, Done(t), Todo(t))
<1> DEFINE n == Len(t.entries)
           k == t.index
           r == SubSeq(t.entries, k + 1, n)
<1>1. DOMAIN t.entries = 1 .. n /\ n \in Nat /\ k \in 0 .. n /\ k \in Nat /\ k <= n
  BY Positions
<1>2. \A i \in 1 .. n : t.entries[i] \in S
  BY <1>1
<1>3. Done(t) \in Seq(S) /\ Len(Done(t)) = k /\ \A i \in 1 .. k : Done(t)[i] = t.entries[i]
  BY <1>1, <1>2 DEF Done
<1>4. r \in Seq(S) /\ Len(r) = n - k /\ \A i \in 1 .. n - k : r[i] = t.entries[i + k]
  <2> DEFINE m == k + 1
             es == t.entries
             q == SubSeq(es, m, n)
  <2>1. m \in Int /\ n \in Int /\ \A i \in m .. n : es[i] \in S
    BY <1>1, <1>2
  <2> HIDE DEF es, n, k, m
  <2>2. /\ q \in Seq(S) /\ Len(q) = (IF m <= n THEN n - m + 1 ELSE 0)
        /\ \A i \in 1 .. n - m + 1 : q[i] = es[m + i - 1]
    BY <2>1, SubSeqProperties
  <2>3. n - m + 1 = n - k /\ (IF m <= n THEN n - m + 1 ELSE 0) = n - k
    BY <1>1 DEF m
  <2>4. \A i \in 1 .. n - k : m + i - 1 = i + k
    BY <1>1 DEF m
  <2>5. q = r
    BY DEF es, m
  <2> HIDE DEF q, r
  <2>6. \A i \in 1 .. n - k : q[i] = es[i + k]
    BY <2>2, <2>3, <2>4
  <2> QED BY <2>2, <2>3, <2>5, <2>6 DEF es
<1>5. Todo(t) = [j \in 1 .. Len(r) |-> r[Len(r) - j + 1]]
  BY DEF Todo, U!Reverse
<1> HIDE DEF r, n, k
<1>6. n - k \in Nat
  BY <1>1
<1>7. ASSUME NEW j \in 1 .. n - k
      PROVE  r[Len(r) - j + 1] = t.entries[n + 1 - j] /\ r[Len(r) - j + 1] \in S
  <2>1. (n - k) - j + 1 \in 1 .. n - k /\ ((n - k) - j + 1) + k = n + 1 - j /\ n + 1 - j \in 1 .. n
    BY <1>1
  <2>2. r[(n - k) - j + 1] = t.entries[((n - k) - j + 1) + k]
    BY <1>4, <2>1
  <2> QED BY <1>2, <1>4, <2>1, <2>2
<1>8. Todo(t) = [j \in 1 .. n - k |-> t.entries[n + 1 - j]]
  BY <1>4, <1>5, <1>7
<1>9. Todo(t) \in Seq(S) /\ Len(Todo(t)) = n - k /\ \A i \in 1 .. n - k : Todo(t)[i] = t.entries[n + 1 - i]
  BY <1>4, <1>6, <1>7, <1>8
<1> QED BY <1>3, <1>9, Zenon DEF AreStacks, n, k

\* The cursor goes back: the step on top of one stack goes to the other.
LEMMA CursorBack ==
    ASSUME NEW t, IsTimeline(t), t.index > 0
    PROVE  LET u == [t EXCEPT !.index = @ - 1]
           IN  /\ IsTimeline(u) /\ Done(t) # <<>>
               /\ Done(u) = SubSeq(Done(t), 1, Len(Done(t)) - 1)
               /\ Todo(u) = Append(Todo(t), Done(t)[Len(Done(t))])
<1> DEFINE u == [t EXCEPT !.index = @ - 1]
           n == Len(t.entries)
           k == t.index
           a == Done(t)
           b == Todo(t)
           c == Done(u)
           d == Todo(u)
<1>1. n \in Nat /\ k \in 1 .. n
  BY Positions
<1>2. u.entries = t.entries /\ u.index = k - 1 /\ u = [entries |-> u.entries, index |-> u.index]
  BY DEF IsTimeline
<1>3. IsTimeline(u)
  BY <1>1, <1>2 DEF IsTimeline
<1>4. PICK S : t.entries \in Seq(S)
  BY DEF IsTimeline
<1>5. AreStacks(t, S, a, b) /\ AreStacks(u, S, c, d)
  BY <1>2, <1>3, <1>4, StacksAre
<1> HIDE DEF u, n, k, a, b, c, d
<1>6. /\ a \in Seq(S) /\ Len(a) = k /\ \A i \in 1 .. k : a[i] = t.entries[i]
      /\ b \in Seq(S) /\ Len(b) = n - k /\ \A i \in 1 .. n - k : b[i] = t.entries[n + 1 - i]
  BY <1>5 DEF AreStacks, n, k
<1>7. /\ c \in Seq(S) /\ Len(c) = k - 1 /\ \A i \in 1 .. k - 1 : c[i] = t.entries[i]
      /\ d \in Seq(S) /\ Len(d) = n - (k - 1) /\ \A i \in 1 .. n - (k - 1) : d[i] = t.entries[n + 1 - i]
  BY <1>2, <1>5, Zenon DEF AreStacks, n, k
<1>8. c = SubSeq(a, 1, Len(a) - 1)
  <2> DEFINE s == SubSeq(a, 1, k - 1)
  <2>1. s \in Seq(S) /\ Len(s) = k - 1 /\ \A i \in 1 .. k - 1 : s[i] = a[i]
    BY <1>1, <1>6
  <2> HIDE DEF s
  <2>4. \A i \in 1 .. k - 1 : i \in 1 .. k
    BY <1>1
  <2>2. \A i \in 1 .. k - 1 : c[i] = s[i]
    BY <1>6, <1>7, <2>1, <2>4
  <2>3. c = s
    BY <1>7, <2>1, <2>2, SeqEqual
  <2> QED BY <1>6, <2>3 DEF s
<1>9. d = Append(b, a[Len(a)])
  <2> DEFINE s == Append(b, a[k])
  <2>1. a[k] = t.entries[k] /\ a[k] \in S
    BY <1>1, <1>6
  <2>2. s \in Seq(S) /\ Len(s) = n - k + 1 /\ (\A i \in 1 .. n - k : s[i] = b[i]) /\ s[n - k + 1] = a[k]
    BY <1>1, <1>6, <2>1
  <2> HIDE DEF s
  <2>3. ASSUME NEW i \in 1 .. n - (k - 1) PROVE d[i] = s[i]
    <3>1. CASE i = n - k + 1
      <4>1. n + 1 - i = k
        BY <1>1, <3>1
      <4> QED BY <1>7, <2>1, <2>2, <3>1, <4>1
    <3>2. CASE i # n - k + 1
      <4>1. i \in 1 .. n - k
        BY <1>1, <3>2
      <4> QED BY <1>6, <1>7, <2>2, <4>1
    <3> QED BY <3>1, <3>2
  <2>4. n - (k - 1) = n - k + 1
    BY <1>1
  <2>5. d = s
    BY <1>7, <2>2, <2>3, <2>4, SeqEqual
  <2> QED BY <1>6, <2>5 DEF s
<1>10. a # <<>>
  BY <1>1, <1>6
<1>11. /\ IsTimeline(u) /\ a # <<>> /\ c = SubSeq(a, 1, Len(a) - 1) /\ d = Append(b, a[Len(a)])
  BY <1>3, <1>8, <1>9, <1>10
<1> QED BY <1>11, Zenon DEF u, a, b, c, d

\* The cursor goes on: the other way round.
LEMMA CursorOn ==
    ASSUME NEW t, IsTimeline(t), t.index < Len(t.entries)
    PROVE  LET u == [t EXCEPT !.index = @ + 1]
           IN  /\ IsTimeline(u) /\ Todo(t) # <<>>
               /\ Done(u) = Append(Done(t), Todo(t)[Len(Todo(t))])
               /\ Todo(u) = SubSeq(Todo(t), 1, Len(Todo(t)) - 1)
<1> DEFINE u == [t EXCEPT !.index = @ + 1]
           n == Len(t.entries)
           k == t.index
           a == Done(t)
           b == Todo(t)
           c == Done(u)
           d == Todo(u)
<1>1. n \in Nat /\ k \in 0 .. n - 1
  BY Positions
<1>2. u.entries = t.entries /\ u.index = k + 1 /\ u = [entries |-> u.entries, index |-> u.index]
  BY DEF IsTimeline
<1>3. IsTimeline(u)
  BY <1>1, <1>2 DEF IsTimeline
<1>4. PICK S : t.entries \in Seq(S)
  BY DEF IsTimeline
<1>5. AreStacks(t, S, a, b) /\ AreStacks(u, S, c, d)
  BY <1>2, <1>3, <1>4, StacksAre
<1> HIDE DEF u, n, k, a, b, c, d
<1>6. /\ a \in Seq(S) /\ Len(a) = k /\ \A i \in 1 .. k : a[i] = t.entries[i]
      /\ b \in Seq(S) /\ Len(b) = n - k /\ \A i \in 1 .. n - k : b[i] = t.entries[n + 1 - i]
  BY <1>5 DEF AreStacks, n, k
<1>7. /\ c \in Seq(S) /\ Len(c) = k + 1 /\ \A i \in 1 .. k + 1 : c[i] = t.entries[i]
      /\ d \in Seq(S) /\ Len(d) = n - (k + 1) /\ \A i \in 1 .. n - (k + 1) : d[i] = t.entries[n + 1 - i]
  BY <1>2, <1>5, Zenon DEF AreStacks, n, k
<1>8. d = SubSeq(b, 1, Len(b) - 1)
  <2> DEFINE s == SubSeq(b, 1, n - k - 1)
  <2>1. s \in Seq(S) /\ Len(s) = n - k - 1 /\ \A i \in 1 .. n - k - 1 : s[i] = b[i]
    BY <1>1, <1>6
  <2> HIDE DEF s
  <2>2. n - (k + 1) = n - k - 1 /\ \A i \in 1 .. n - k - 1 : i \in 1 .. n - k
    BY <1>1
  <2>3. \A i \in 1 .. n - k - 1 : d[i] = s[i]
    BY <1>6, <1>7, <2>1, <2>2
  <2>4. d = s
    BY <1>7, <2>1, <2>2, <2>3, SeqEqual
  <2> QED BY <1>6, <2>4 DEF s
<1>9. c = Append(a, b[Len(b)])
  <2> DEFINE s == Append(a, b[n - k])
  <2>1. b[n - k] = t.entries[k + 1] /\ b[n - k] \in S
    <3>1. n - k \in 1 .. n - k /\ n + 1 - (n - k) = k + 1
      BY <1>1
    <3> QED BY <1>6, <3>1
  <2>2. s \in Seq(S) /\ Len(s) = k + 1 /\ (\A i \in 1 .. k : s[i] = a[i]) /\ s[k + 1] = b[n - k]
    BY <1>1, <1>6, <2>1
  <2> HIDE DEF s
  <2>3. ASSUME NEW i \in 1 .. k + 1 PROVE c[i] = s[i]
    <3>1. CASE i = k + 1
      BY <1>7, <2>1, <2>2, <3>1
    <3>2. CASE i # k + 1
      <4>1. i \in 1 .. k
        BY <1>1, <3>2
      <4> QED BY <1>6, <1>7, <2>2, <4>1
    <3> QED BY <3>1, <3>2
  <2>5. c = s
    BY <1>7, <2>2, <2>3, SeqEqual
  <2> QED BY <1>6, <2>5 DEF s
<1>10. b # <<>>
  BY <1>1, <1>6
<1>11. /\ IsTimeline(u) /\ b # <<>> /\ c = Append(a, b[Len(b)]) /\ d = SubSeq(b, 1, Len(b) - 1)
  BY <1>3, <1>8, <1>9, <1>10
<1> QED BY <1>11, Zenon DEF u, a, b, c, d

\* What is left of the stacks when steps beside the cursor are cut out.
LEMMA CutStacks ==
    ASSUME NEW t, IsTimeline(t), NEW lo \in 0 .. t.index, NEW hi \in t.index + 1 .. Len(t.entries) + 1
    PROVE  LET u == CutAt(t, lo, hi)
           IN  /\ IsTimeline(u)
               /\ Done(u) = SubSeq(Done(t), 1, lo)
               /\ Todo(u) = SubSeq(Todo(t), 1, Len(t.entries) - hi + 1)
<1> DEFINE u == CutAt(t, lo, hi)
           n == Len(t.entries)
           k == t.index
           r == n - hi + 1
           a == Done(t)
           b == Todo(t)
           c == Done(u)
           d == Todo(u)
<1>1. n \in Nat /\ k \in 0 .. n
  BY Positions
<1>2. lo \in 0 .. k /\ hi \in k + 1 .. n + 1
  OBVIOUS
<1>3. IsCut(t, u, lo, hi)
  BY CutFacts
<1>4. PICK S : t.entries \in Seq(S)
  BY DEF IsTimeline
<1> HIDE DEF u
<1>5. /\ IsTimeline(u) /\ u.index = lo /\ Len(u.entries) = lo + r
      /\ \A j \in 1 .. lo + r : u.entries[j] = t.entries[IF j <= lo THEN j ELSE j - lo + hi - 1]
  BY <1>3, Zenon DEF IsCut
<1>6. PICK V : u.entries \in Seq(V)
  BY <1>5 DEF IsTimeline
<1>7. t.entries \in Seq(S \cup V) /\ u.entries \in Seq(S \cup V)
  BY <1>4, <1>6
<1>8. AreStacks(t, S \cup V, a, b) /\ AreStacks(u, S \cup V, c, d)
  BY <1>5, <1>7, StacksAre
<1> HIDE DEF n, k, a, b, c, d
<1>9. lo \in Nat /\ hi \in Nat /\ r \in Nat /\ lo <= k /\ r <= n - k /\ k \in Nat /\ k <= n
  BY <1>1, <1>2
<1>10. /\ a \in Seq(S \cup V) /\ Len(a) = k /\ \A i \in 1 .. k : a[i] = t.entries[i]
       /\ b \in Seq(S \cup V) /\ Len(b) = n - k /\ \A i \in 1 .. n - k : b[i] = t.entries[n + 1 - i]
  BY <1>8, Zenon DEF AreStacks, n, k
<1>11. /\ c \in Seq(S \cup V) /\ Len(c) = lo /\ \A i \in 1 .. lo : c[i] = u.entries[i]
       /\ d \in Seq(S \cup V) /\ Len(d) = (lo + r) - lo
       /\ \A i \in 1 .. (lo + r) - lo : d[i] = u.entries[(lo + r) + 1 - i]
  <2> HIDE DEF r
  <2> QED BY <1>5, <1>8, Zenon DEF AreStacks
<1>12. c = SubSeq(a, 1, lo)
  <2> DEFINE s == SubSeq(a, 1, lo)
  <2>1. s \in Seq(S \cup V) /\ Len(s) = lo /\ \A i \in 1 .. lo : s[i] = a[i]
    BY <1>9, <1>10
  <2> HIDE DEF s
  <2>2. \A i \in 1 .. lo : i \in 1 .. k /\ i \in 1 .. lo + r /\ i <= lo
    BY <1>9
  <2>3. \A i \in 1 .. lo : c[i] = s[i]
    BY <1>5, <1>10, <1>11, <2>1, <2>2
  <2> QED BY <1>11, <2>1, <2>3, SeqEqual DEF s
<1>13. d = SubSeq(b, 1, r)
  <2> DEFINE s == SubSeq(b, 1, r)
  <2>1. s \in Seq(S \cup V) /\ Len(s) = r /\ \A i \in 1 .. r : s[i] = b[i]
    <3> HIDE DEF r
    <3> QED BY <1>9, <1>10
  <2>2. (lo + r) - lo = r
    BY <1>9
  <2>3. ASSUME NEW i \in 1 .. r PROVE d[i] = s[i]
    <3> DEFINE j == (lo + r) + 1 - i
    <3>1. /\ i \in 1 .. n - k /\ j \in 1 .. lo + r /\ ~(j <= lo) /\ j - lo + hi - 1 = n + 1 - i
          /\ i \in 1 .. (lo + r) - lo
      BY <1>1, <1>2, <1>9
    <3>2. d[i] = u.entries[j]
      BY <1>11, <3>1
    <3> HIDE DEF j, r
    <3>3. u.entries[j] = t.entries[n + 1 - i]
      BY <1>5, <3>1
    <3> QED BY <1>10, <2>1, <3>1, <3>2, <3>3
  <2> HIDE DEF s, r
  <2>4. d = s
    BY <1>11, <2>1, <2>2, <2>3, SeqEqual
  <2> QED BY <2>4 DEF s
<1>14. IsTimeline(u) /\ c = SubSeq(a, 1, lo) /\ d = SubSeq(b, 1, r)
  BY <1>5, <1>12, <1>13
<1> QED BY <1>14, Zenon DEF u, a, b, c, d, r, n

\* A stack down to the newest step on a page there is.
LEMMA LiveIs ==
    ASSUME NEW S, NEW s \in Seq(S), NEW k \in 0 .. Len(s), k = 0 \/ s[k].page \in pages,
           \A j \in 1 .. Len(s) : j > k => s[j].page \notin pages
    PROVE  U!Stacks!Live(s) = SubSeq(s, 1, k)
<1> DEFINE alive == {i \in DOMAIN s : s[i].page \in pages}
<1>1. DOMAIN s = 1 .. Len(s) /\ Len(s) \in Nat
  OBVIOUS
<1>2. U!Stacks!Live(s) = IF alive = {} THEN <<>>
                         ELSE SubSeq(s, 1, CHOOSE i \in alive : \A j \in alive : j <= i)
  BY DEF U!Stacks!Live
<1>3. \A j \in alive : j \in 1 .. Len(s) /\ j <= k
  BY <1>1
<1>4. k # 0 => k \in alive
  BY <1>1
<1> HIDE DEF alive
<1>5. CASE k = 0
  <2>1. alive = {}
    BY <1>3, <1>5
  <2>2. SubSeq(s, 1, 0) = <<>>
    BY SubSeqEmpty
  <2> QED BY <1>2, <1>5, <2>1, <2>2
<1>6. CASE k # 0
  <2>1. k \in alive /\ \A j \in alive : j <= k
    BY <1>3, <1>4, <1>6
  <2>2. \A i \in alive : (\A j \in alive : j <= i) => i = k
    BY <1>3, <2>1
  <2>3. (CHOOSE i \in alive : \A j \in alive : j <= i) = k
    BY <2>1, <2>2
  <2> QED BY <1>2, <2>1, <2>3
<1> QED BY <1>5, <1>6

\* The actions of the stacks, about a timeline.
LEMMA StackActions ==
    /\ U!Stacks!Undo <=>
          /\ LET s == U!Stacks!Live(Done(tl))
             IN  IF s = <<>> THEN Done(tl') = <<>> /\ Todo(tl') = Todo(tl)
                 ELSE Done(tl') = SubSeq(s, 1, Len(s) - 1) /\ Todo(tl') = Append(Todo(tl), s[Len(s)])
          /\ pages' = pages
    /\ U!Stacks!Redo <=>
          /\ LET s == U!Stacks!Live(Todo(tl))
             IN  IF s = <<>> THEN Todo(tl') = <<>> /\ Done(tl') = Done(tl)
                 ELSE Todo(tl') = SubSeq(s, 1, Len(s) - 1) /\ Done(tl') = Append(Done(tl), s[Len(s)])
          /\ pages' = pages
BY DEF U!Stacks!Undo, U!Stacks!Redo, Done, Todo, U!Stacks!Front, U!Stacks!Last

\* HistoryTimeline.step, as a cut and a move of the cursor.
LEMMA StepIs ==
    ASSUME NEW t, IsTimeline(t)
    PROVE  /\ LET at == U!Target(t, "undo")
                  u == CutAt(t, at, t.index + 1)
              IN  U!Step(t, "undo") = IF at = 0 THEN u ELSE [u EXCEPT !.index = @ - 1]
           /\ LET at == U!Target(t, "redo")
                  u == CutAt(t, t.index, at)
              IN  U!Step(t, "redo") = IF at = Len(t.entries) + 1 THEN u ELSE [u EXCEPT !.index = @ + 1]
<1>1. Len(t.entries) \in Nat /\ U!Target(t, "redo") \in t.index + 1 .. Len(t.entries) + 1 /\ t.index \in Nat
  BY Positions, RedoTarget
<1>2. U!Target(t, "redo") > Len(t.entries) <=> U!Target(t, "redo") = Len(t.entries) + 1
  BY <1>1
<1> QED BY <1>2 DEF U!Step, CutAt

\* Undo takes the newest live step off one stack and puts it on the other.
LEMMA UndoPops ==
    ASSUME IsTimeline(tl), tl' = U!Step(tl, "undo"), pages' = pages
    PROVE  U!Stacks!Undo
<1> DEFINE at == U!Target(tl, "undo")
           u == CutAt(tl, at, tl.index + 1)
           n == Len(tl.entries)
           k == tl.index
           a == Done(tl)
           b == Todo(tl)
           s == SubSeq(a, 1, at)
<1>1. n \in Nat /\ k \in 0 .. n /\ DOMAIN tl.entries = 1 .. n
  BY Positions
<1>2. /\ at \in 0 .. k
      /\ at = 0 \/ (at \in DOMAIN tl.entries /\ tl.entries[at].page \in pages)
      /\ \A p \in pages : Clear(tl, p, at, k + 1)
  BY UndoTarget
<1>3. tl' = IF at = 0 THEN u ELSE [u EXCEPT !.index = @ - 1]
  BY StepIs
<1>4. PICK S : tl.entries \in Seq(S)
  BY DEF IsTimeline
<1>5. /\ a \in Seq(S) /\ Len(a) = k /\ \A i \in 1 .. k : a[i] = tl.entries[i]
      /\ b \in Seq(S) /\ Len(b) = n - k
  BY <1>4, StacksAre DEF AreStacks
<1>6. /\ IsTimeline(u) /\ Done(u) = SubSeq(a, 1, at) /\ Todo(u) = SubSeq(b, 1, n - (k + 1) + 1)
      /\ u.index = at
  <2> HIDE DEF at
  <2>1. k + 1 \in k + 1 .. n + 1
    BY <1>1
  <2> QED BY <1>2, <2>1, CutStacks DEF CutAt
<1> HIDE DEF at, u, n, k, a, b
<1>7. Todo(u) = b
  <2>1. n - (k + 1) + 1 = Len(b)
    BY <1>1, <1>5
  <2> QED BY <1>5, <1>6, <2>1, SubSeqFull
<1>8. U!Stacks!Live(a) = s
  <2>1. at \in 0 .. Len(a) /\ (at = 0 \/ a[at].page \in pages)
    BY <1>1, <1>2, <1>5
  <2>2. ASSUME NEW j \in 1 .. Len(a), j > at PROVE a[j].page \notin pages
    <3>1. j \in DOMAIN tl.entries /\ at < j /\ j < k + 1 /\ a[j] = tl.entries[j]
      BY <1>1, <1>2, <1>5, <2>2
    <3> QED BY <1>2, <3>1 DEF Clear
  <2> QED BY <1>5, <2>1, <2>2, LiveIs
<1>9. CASE at = 0
  <2>1. s = <<>>
    BY <1>9, SubSeqEmpty
  <2>2. tl' = u
    BY <1>3, <1>9
  <2> HIDE DEF s
  <2> QED BY <1>6, <1>7, <1>8, <2>1, <2>2, StackActions DEF a, b, s
<1>10. CASE at # 0
  <2>1. u.index > 0 /\ tl' = [u EXCEPT !.index = @ - 1]
    BY <1>2, <1>3, <1>6, <1>10
  <2>2. s # <<>> /\ Done(tl') = SubSeq(s, 1, Len(s) - 1) /\ Todo(tl') = Append(b, s[Len(s)])
    BY <1>6, <1>7, <2>1, CursorBack
  <2> HIDE DEF s
  <2> QED BY <1>8, <2>2, StackActions DEF a, b
<1> QED BY <1>9, <1>10

\* Redo, the other way round.
LEMMA RedoPops ==
    ASSUME IsTimeline(tl), tl' = U!Step(tl, "redo"), pages' = pages
    PROVE  U!Stacks!Redo
<1> DEFINE at == U!Target(tl, "redo")
           u == CutAt(tl, tl.index, at)
           n == Len(tl.entries)
           k == tl.index
           a == Done(tl)
           b == Todo(tl)
           r == n - at + 1
           s == SubSeq(b, 1, r)
<1>1. n \in Nat /\ k \in 0 .. n /\ DOMAIN tl.entries = 1 .. n /\ k \in Nat
  BY Positions
<1>2. /\ at \in k + 1 .. n + 1
      /\ at = n + 1 \/ (at \in DOMAIN tl.entries /\ tl.entries[at].page \in pages)
      /\ \A p \in pages : Clear(tl, p, k, at)
  BY RedoTarget
<1>3. tl' = IF at = n + 1 THEN u ELSE [u EXCEPT !.index = @ + 1]
  BY StepIs
<1>4. PICK S : tl.entries \in Seq(S)
  BY DEF IsTimeline
<1>5. /\ a \in Seq(S) /\ Len(a) = k
      /\ b \in Seq(S) /\ Len(b) = n - k /\ \A i \in 1 .. n - k : b[i] = tl.entries[n + 1 - i]
  BY <1>4, StacksAre DEF AreStacks
<1>6. IsTimeline(u) /\ Done(u) = SubSeq(a, 1, k) /\ Todo(u) = SubSeq(b, 1, r) /\ u.index = k
  <2> HIDE DEF at
  <2>1. k \in 0 .. k
    BY <1>1
  <2> QED BY <1>2, <2>1, CutStacks DEF CutAt
<1> HIDE DEF at, u, n, k, a, b
<1>7. Done(u) = a
  BY <1>5, <1>6, SubSeqFull
<1>8. r \in 0 .. n - k /\ (r = 0 <=> at = n + 1)
  BY <1>1, <1>2
<1>9. U!Stacks!Live(b) = s
  <2>1. r \in 0 .. Len(b)
    BY <1>5, <1>8
  <2>2. r = 0 \/ b[r].page \in pages
    <3> SUFFICES ASSUME r # 0 PROVE b[r].page \in pages
      OBVIOUS
    <3>1. r \in 1 .. n - k /\ n + 1 - r = at /\ tl.entries[at].page \in pages
      BY <1>1, <1>2, <1>8
    <3> QED BY <1>5, <3>1
  <2>3. ASSUME NEW j \in 1 .. Len(b), j > r PROVE b[j].page \notin pages
    <3>1. j \in 1 .. n - k /\ n + 1 - j \in 1 .. n /\ k < n + 1 - j /\ n + 1 - j < at
      BY <1>1, <1>2, <1>5, <2>3
    <3>2. b[j] = tl.entries[n + 1 - j]
      BY <1>5, <3>1
    <3> QED BY <1>1, <1>2, <3>1, <3>2 DEF Clear
  <2> HIDE DEF r
  <2> QED BY <1>5, <2>1, <2>2, <2>3, LiveIs
<1>10. CASE at = n + 1
  <2>1. s = <<>>
    BY <1>8, <1>10, SubSeqEmpty
  <2>2. tl' = u
    BY <1>3, <1>10
  <2> HIDE DEF s
  <2> QED BY <1>6, <1>7, <1>9, <2>1, <2>2, StackActions DEF a, b, s
<1>11. CASE at # n + 1
  <2>0. IsCut(tl, u, k, at)
    BY <1>1, <1>2, CutFacts DEF u, k, n, at
  <2>1. u.index < Len(u.entries) /\ tl' = [u EXCEPT !.index = @ + 1]
    <3>1. Len(u.entries) = k + (n - at + 1)
      BY <2>0, Zenon DEF IsCut, n
    <3> QED BY <1>1, <1>3, <1>6, <1>8, <1>11, <3>1
  <2>2. s # <<>> /\ Todo(tl') = SubSeq(s, 1, Len(s) - 1) /\ Done(tl') = Append(a, s[Len(s)])
    BY <1>6, <1>7, <2>1, CursorOn
  <2> HIDE DEF s
  <2> QED BY <1>9, <2>2, StackActions DEF a, b
<1> QED BY <1>10, <1>11

\* A step that is put back is the step of the other button.
LEMMA RollbackPops ==
    ASSUME IsTimeline(tl), pages' = pages
    PROVE  /\ /\ tl' = U!Rollback(tl, "undo")
              /\ tl.index < Len(tl.entries) /\ tl.entries[tl.index + 1].page \in pages
              => U!Stacks!Redo /\ IsTimeline(tl')
           /\ /\ tl' = U!Rollback(tl, "redo")
              /\ tl.index > 0 /\ tl.entries[tl.index].page \in pages
              => U!Stacks!Undo /\ IsTimeline(tl')
<1> DEFINE n == Len(tl.entries)
           k == tl.index
           a == Done(tl)
           b == Todo(tl)
<1>1. n \in Nat /\ k \in 0 .. n /\ k \in Nat
  BY Positions
<1>2. PICK S : tl.entries \in Seq(S)
  BY DEF IsTimeline
<1>3. /\ a \in Seq(S) /\ Len(a) = k /\ \A i \in 1 .. k : a[i] = tl.entries[i]
      /\ b \in Seq(S) /\ Len(b) = n - k /\ \A i \in 1 .. n - k : b[i] = tl.entries[n + 1 - i]
  BY <1>2, StacksAre DEF AreStacks
<1>4. ASSUME tl' = U!Rollback(tl, "undo"), k < n, tl.entries[k + 1].page \in pages
      PROVE  U!Stacks!Redo /\ IsTimeline(tl')
  <2>1. tl' = [tl EXCEPT !.index = @ + 1]
    BY <1>4 DEF U!Rollback, IsTimeline
  <2>2. /\ IsTimeline(tl') /\ b # <<>> /\ Done(tl') = Append(a, b[Len(b)])
        /\ Todo(tl') = SubSeq(b, 1, Len(b) - 1)
    BY <1>4, <2>1, CursorOn
  <2> HIDE DEF n, k, a, b
  <2>3. n - k \in 1 .. n - k /\ n + 1 - (n - k) = k + 1 /\ n - k \in 0 .. Len(b)
    BY <1>1, <1>3, <1>4
  <2>4. b[n - k].page \in pages /\ \A j \in 1 .. Len(b) : ~(j > n - k)
    BY <1>1, <1>3, <1>4, <2>3
  <2>5. U!Stacks!Live(b) = SubSeq(b, 1, Len(b))
    BY <1>3, <2>3, <2>4, LiveIs
  <2>6. U!Stacks!Live(b) = b
    BY <1>3, <2>5, SubSeqFull
  <2> QED BY <2>2, <2>6, StackActions DEF a, b
<1>5. ASSUME tl' = U!Rollback(tl, "redo"), k > 0, tl.entries[k].page \in pages
      PROVE  U!Stacks!Undo /\ IsTimeline(tl')
  <2>1. tl' = [tl EXCEPT !.index = @ - 1]
    BY <1>5 DEF U!Rollback, IsTimeline
  <2>2. /\ IsTimeline(tl') /\ a # <<>> /\ Done(tl') = SubSeq(a, 1, Len(a) - 1)
        /\ Todo(tl') = Append(b, a[Len(a)])
    BY <1>5, <2>1, CursorBack
  <2> HIDE DEF n, k, a, b
  <2>4. k \in 0 .. Len(a) /\ a[k].page \in pages /\ \A j \in 1 .. Len(a) : ~(j > k)
    BY <1>1, <1>3, <1>5
  <2>5. U!Stacks!Live(a) = SubSeq(a, 1, Len(a))
    BY <1>3, <2>4, LiveIs
  <2>6. U!Stacks!Live(a) = a
    BY <1>3, <2>5, SubSeqFull
  <2> QED BY <2>2, <2>6, StackActions DEF a, b
<1> QED BY <1>4, <1>5

\* The stacks of a timeline with nothing undone.
LEMMA NothingUndone ==
    ASSUME NEW t, IsTimeline(t), t.index = Len(t.entries)
    PROVE  Done(t) = t.entries /\ Todo(t) = <<>>
<1> DEFINE n == Len(t.entries)
<1>1. PICK S : t.entries \in Seq(S)
  BY DEF IsTimeline
<1>2. n \in Nat
  BY Positions
<1>3. Done(t) = t.entries
  BY <1>1, SubSeqFull DEF Done
<1>4. Todo(t) \in Seq(S) /\ Len(Todo(t)) = n - t.index
  BY <1>1, StacksAre DEF AreStacks
<1>5. n - t.index = 0
  BY <1>2
<1> QED BY <1>3, <1>4, <1>5

\* push() is a new step on the stack, which forgets its oldest at the limit,
\* and empties the other stack.
LEMMA PushCommits ==
    ASSUME IsTimeline(tl), NEW e, IsStep(e), tl' = U!Push(tl, e), pages' = pages,
           Limit \in Nat \ {0}, Len(tl.entries) <= Limit
    PROVE  U!Stacks!Commit /\ IsTimeline(tl') /\ Len(tl'.entries) <= Limit
<1> DEFINE a == Done(tl)
           es == Append(a, e)
           v == [entries |-> es, index |-> tl.index + 1]
           k == tl.index
           kept == tl'.entries
<1>1. IsAppended(tl, v, e)
  BY AppendedIs DEF Done
<1>2. Len(tl.entries) \in Nat /\ k \in 0 .. Len(tl.entries) /\ k \in Nat /\ k <= Limit
  BY Positions
<1>3. IsTimeline(v) /\ v.index = k + 1 /\ v.entries = es /\ Len(es) = k + 1 /\ es[k + 1] = e
  BY <1>1 DEF IsAppended
<1>4. PICK S : es \in Seq(S)
  BY <1>3 DEF IsTimeline
<1>5. tl' = [entries |-> IF Len(es) > Limit THEN Tail(es) ELSE es,
             index |-> Len(IF Len(es) > Limit THEN Tail(es) ELSE es)]
  BY DEF U!Push, Done
<1> HIDE DEF es
<1>6. /\ IsTimeline(tl') /\ tl'.index = Len(kept) /\ Len(kept) \in 1 .. Limit /\ kept[Len(kept)] = e
      /\ kept = SubSeq(es, Len(es) - (IF Len(es) < Limit THEN Len(es) ELSE Limit) + 1, Len(es))
  <2>1. CASE Len(es) > Limit
    <3>1. Len(es) = Limit + 1 /\ k = Limit /\ es # <<>>
      BY <1>2, <1>3, <1>4, <2>1
    <3>2. kept = Tail(es) /\ tl' = [entries |-> Tail(es), index |-> Len(Tail(es))]
      BY <1>5, <2>1
    <3>3. Len(kept) = Limit /\ \A i \in 1 .. Limit : kept[i] = es[i + 1]
      BY <1>4, <3>1, <3>2, HeadTailProperties
    <3>4. kept[Limit] = e
      BY <1>2, <1>3, <3>1, <3>3
    <3>5. IsTimeline(tl')
      <4>1. v.index > 0 /\ v.index = Len(v.entries) /\ v.entries = es
        BY <1>2, <1>3
      <4> HIDE DEF v
      <4> QED BY <1>3, <3>2, <4>1, Forgotten
    <3>6. Len(es) - (IF Len(es) < Limit THEN Len(es) ELSE Limit) + 1 = 2
      BY <3>1
    <3>7. kept = SubSeq(es, 2, Len(es))
      <4>1. Tail(es) = SubSeq(es, 2, Len(es))
        BY <1>4, <3>1
      <4> QED BY <3>2, <4>1
    <3> QED BY <3>1, <3>2, <3>3, <3>4, <3>5, <3>6, <3>7
  <2>2. CASE ~(Len(es) > Limit)
    <3>1. kept = es /\ tl' = v /\ Len(es) <= Limit
      BY <1>2, <1>3, <1>5, <2>2
    <3>2. Len(es) - (IF Len(es) < Limit THEN Len(es) ELSE Limit) + 1 = 1
      BY <1>2, <1>3, <3>1
    <3>3. es = SubSeq(es, 1, Len(es))
      BY <1>4, SubSeqFull
    <3>4. IsTimeline(tl') /\ tl'.index = k + 1
      BY <1>3, <3>1
    <3> HIDE DEF kept
    <3>5. Len(kept) = k + 1 /\ k + 1 \in 1 .. Limit /\ kept[k + 1] = e
      BY <1>2, <1>3, <3>1
    <3> DEFINE m == Len(es) - (IF Len(es) < Limit THEN Len(es) ELSE Limit) + 1
    <3> HIDE DEF m
    <3>6. kept = SubSeq(es, m, Len(es))
      BY <3>1, <3>2, <3>3 DEF m
    <3> QED BY <3>4, <3>5, <3>6 DEF kept, m
  <2> QED BY <2>1, <2>2
<1>7. Done(tl') = kept /\ Todo(tl') = <<>> /\ kept # <<>>
  <2>1. Done(tl') = kept /\ Todo(tl') = <<>>
    BY <1>6, NothingUndone
  <2> HIDE DEF kept
  <2>2. Len(kept) # 0
    BY <1>6
  <2> QED BY <2>1, <2>2
<1>8. /\ Done(tl') # <<>> /\ Todo(tl') = <<>>
      /\ Done(tl') = LET s == Append(a, Done(tl')[Len(Done(tl'))])
                     IN  SubSeq(s, Len(s) - (IF Len(s) < Limit THEN Len(s) ELSE Limit) + 1, Len(s))
  BY <1>6, <1>7 DEF es
<1>9. U!Stacks!Commit
  BY <1>8 DEF U!Stacks!Commit, U!Stacks!Newest, U!Stacks!Last, Done, Todo
<1> QED BY <1>6, <1>9

\* coalesce() is a follow-up of the newest step.
LEMMA CoalesceAmends ==
    ASSUME IsTimeline(tl), NEW q, U!CanCoalesce(tl, q), NEW next, tl' = U!Coalesce(tl, next), pages' = pages
    PROVE  U!Stacks!Amend /\ IsTimeline(tl') /\ Len(tl'.entries) = Len(tl.entries)
<1> DEFINE k == tl.index
           es == tl.entries
           a == Done(tl)
           e == [es[k] EXCEPT !.after = next]
           s == Append(SubSeq(es, 1, Len(es) - 1), e)
<1>1. k = Len(es) /\ k \in Nat \ {0} /\ DOMAIN es = 1 .. k
  BY Positions DEF U!CanCoalesce
<1>2. IsTimeline(tl')
  BY Folded
<1>3. PICK S : es \in Seq(S)
  BY DEF IsTimeline
<1>4. tl' = [entries |-> [es EXCEPT ![k] = e], index |-> k]
  BY DEF U!Coalesce, IsTimeline
<1>5. IsStep(es[k])
  BY <1>1 DEF IsTimeline
<1>6. e.after = next
  BY <1>5 DEF IsStep
<1>7. e = [es[k] EXCEPT !.after = e.after]
  BY <1>6
<1> HIDE DEF e
<1>8. /\ tl'.entries \in Seq(S \cup {e}) /\ Len(tl'.entries) = k /\ tl'.index = k
      /\ \A i \in 1 .. k : tl'.entries[i] = IF i = k THEN e ELSE es[i]
  BY <1>1, <1>3, <1>4
<1>9. s \in Seq(S \cup {e}) /\ Len(s) = k /\ \A i \in 1 .. k : s[i] = IF i = k THEN e ELSE es[i]
  <2> DEFINE f == SubSeq(es, 1, k - 1)
  <2>1. es \in Seq(S \cup {e})
    BY <1>3
  <2>2. f \in Seq(S \cup {e}) /\ Len(f) = k - 1 /\ \A i \in 1 .. k - 1 : f[i] = es[i]
    BY <1>1, <2>1
  <2> HIDE DEF f
  <2>3. /\ Append(f, e) \in Seq(S \cup {e}) /\ Len(Append(f, e)) = k
        /\ \A i \in 1 .. k : Append(f, e)[i] = IF i = k THEN e ELSE f[i]
    BY <1>1, <2>2
  <2>4. s = Append(f, e)
    BY <1>1 DEF f
  <2>5. \A i \in 1 .. k : i # k => i \in 1 .. k - 1
    BY <1>1
  <2> QED BY <2>2, <2>3, <2>4, <2>5
<1>10. tl'.entries = s
  <2> HIDE DEF s
  <2> QED BY <1>8, <1>9, SeqEqual
<1>11. Done(tl) = es /\ Todo(tl) = <<>>
  BY <1>1, NothingUndone
<1>12. Done(tl') = s /\ Todo(tl') = <<>>
  <2> HIDE DEF s
  <2> QED BY <1>2, <1>8, <1>10, NothingUndone
<1>13. s # <<>> /\ es # <<>> /\ s[Len(s)] = e
  <2> HIDE DEF s
  <2> QED BY <1>1, <1>9
<1>14. /\ Done(tl) # <<>> /\ Todo(tl) = <<>> /\ Done(tl') # <<>> /\ Todo(tl') = Todo(tl)
       /\ Done(tl') = Append(SubSeq(Done(tl), 1, Len(Done(tl)) - 1),
                             [Done(tl)[Len(Done(tl))] EXCEPT !.after = Done(tl')[Len(Done(tl'))].after])
  <2>1. es[Len(es)] = es[k]
    BY <1>1
  <2>2. Done(tl')[Len(Done(tl'))] = e
    BY <1>12, <1>13
  <2> QED BY <1>7, <1>11, <1>12, <1>13, <2>1, <2>2
<1>15. U!Stacks!Amend
  BY <1>14 DEF U!Stacks!Amend, U!Stacks!Front, U!Stacks!Last, Done, Todo
<1> QED BY <1>1, <1>2, <1>8, <1>15

\* Steps that are not of page q, of a stack.
Others(s, q) == Keep(s, {i \in DOMAIN s : s[i].page # q})

\* Positions from the other end.
LEMMA Mirrored ==
    ASSUME NEW n \in Nat, NEW k \in 0 .. n, NEW m \in Nat, NEW c \in 0 .. m
    PROVE  /\ \A j \in 1 .. m - c : m + 1 - j \in 1 .. m /\ ~(m + 1 - j <= c)
           /\ \A i, j \in 1 .. m - c : i < j => m + 1 - j < m + 1 - i
           /\ \A x \in 1 .. n : ~(x <= k) => n + 1 - x \in 1 .. n - k /\ n + 1 - (n + 1 - x) = x
           /\ \A x, y \in 1 .. n : x < y => n + 1 - y < n + 1 - x
           /\ \A j \in 1 .. m : ~(j <= c) => m + 1 - j \in 1 .. m - c /\ m + 1 - (m + 1 - j) = j
           /\ \A x \in 1 .. n - k : n + 1 - x \in 1 .. n /\ ~(n + 1 - x <= k) /\ n + 1 - (n + 1 - x) = x
OBVIOUS

\* What is dropped from the timeline is dropped from both stacks.
LEMMA DropStacks ==
    ASSUME NEW t, IsTimeline(t), NEW u, NEW q, NEW f, NEW m, Drops(f, m, t, u, q)
    PROVE  Done(u) = Others(Done(t), q) /\ Todo(u) = Others(Todo(t), q)
<1> DEFINE n == Len(t.entries)
           k == t.index
           c == u.index
           a == Done(t)
           b == Todo(t)
           d == Done(u)
           e == Todo(u)
           A == {i \in DOMAIN a : a[i].page # q}
           B == {i \in DOMAIN b : b[i].page # q}
           g == [j \in 1 .. m - c |-> n + 1 - f[m + 1 - j]]
<1>1. /\ DOMAIN t.entries = 1 .. n /\ n \in Nat /\ k \in 0 .. n
      /\ IsTimeline(u) /\ m \in Nat /\ m <= n /\ Len(u.entries) = m /\ c \in 0 .. m
  BY Positions DEF Drops
<1>2. /\ \A j \in 1 .. m : /\ f[j] \in 1 .. n /\ t.entries[f[j]].page # q
                           /\ u.entries[j] = t.entries[f[j]]
                           /\ j <= c <=> f[j] <= k
      /\ \A i, j \in 1 .. m : i < j => f[i] < f[j]
      /\ \A i \in 1 .. n : t.entries[i].page # q => \E j \in 1 .. m : f[j] = i
  BY <1>1 DEF Drops
<1>3. PICK S : t.entries \in Seq(S)
  BY DEF IsTimeline
<1>4. PICK V : u.entries \in Seq(V)
  BY <1>1 DEF IsTimeline
<1>5. t.entries \in Seq(S \cup V) /\ u.entries \in Seq(S \cup V)
  BY <1>3, <1>4
<1>6. AreStacks(t, S \cup V, a, b) /\ AreStacks(u, S \cup V, d, e)
  BY <1>1, <1>5, StacksAre
<1> HIDE DEF a, b, d, e
<1>7. /\ a \in Seq(S \cup V) /\ Len(a) = k /\ \A i \in 1 .. k : a[i] = t.entries[i]
      /\ b \in Seq(S \cup V) /\ Len(b) = n - k /\ \A i \in 1 .. n - k : b[i] = t.entries[n + 1 - i]
      /\ d \in Seq(S \cup V) /\ Len(d) = c /\ \A i \in 1 .. c : d[i] = u.entries[i]
      /\ e \in Seq(S \cup V) /\ Len(e) = m - c /\ \A i \in 1 .. m - c : e[i] = u.entries[m + 1 - i]
  BY <1>1, <1>6, Zenon DEF AreStacks
<1> HIDE DEF n, k, c
<1>8. DOMAIN a = 1 .. k /\ DOMAIN b = 1 .. n - k
  BY <1>7
<1>9. d = Keep(a, A)
  <2>1. \A j \in 1 .. c : j \in 1 .. m /\ j <= c
    BY <1>1
  <2>2. \A i \in 1 .. k : i \in 1 .. n /\ i <= k
    BY <1>1
  <2>a. \A j \in 1 .. m : j <= c => j \in 1 .. c
    BY <1>1
  <2>b. \A i \in 1 .. n : i <= k => i \in 1 .. k
    BY <1>1
  <2>3. ASSUME NEW j \in 1 .. c PROVE f[j] \in 1 .. k /\ d[j] = a[f[j]] /\ a[f[j]].page # q
    BY <1>2, <1>7, <2>1, <2>b
  <2>4. \A i, j \in 1 .. c : i < j => f[i] < f[j]
    BY <1>2, <2>1
  <2>5. ASSUME NEW i \in 1 .. k, a[i].page # q PROVE \E j \in 1 .. c : f[j] = i
    <3>1. i \in 1 .. n /\ i <= k /\ t.entries[i].page # q
      BY <1>7, <2>2, <2>5
    <3>2. PICK j \in 1 .. m : f[j] = i
      BY <1>2, <3>1
    <3> QED BY <1>2, <2>a, <3>1, <3>2
  <2>6. Lists(f, c, A)
    BY <1>8, <2>3, <2>4, <2>5 DEF Lists
  <2>7. A \in SUBSET (DOMAIN a)
    OBVIOUS
  <2> HIDE DEF A
  <2>8. Lists(f, Len(d), A) /\ \A j \in 1 .. Len(d) : d[j] = a[f[j]]
    BY <1>7, <2>3, <2>6
  <2> QED BY <1>7, <2>7, <2>8, KeepIs
<1>10. e = Keep(b, B)
  <2>1. /\ \A j \in 1 .. m - c : m + 1 - j \in 1 .. m /\ ~(m + 1 - j <= c)
        /\ \A i, j \in 1 .. m - c : i < j => m + 1 - j < m + 1 - i
        /\ \A x \in 1 .. n : ~(x <= k) => n + 1 - x \in 1 .. n - k /\ n + 1 - (n + 1 - x) = x
        /\ \A x, y \in 1 .. n : x < y => n + 1 - y < n + 1 - x
        /\ \A j \in 1 .. m : ~(j <= c) => m + 1 - j \in 1 .. m - c /\ m + 1 - (m + 1 - j) = j
        /\ \A x \in 1 .. n - k : n + 1 - x \in 1 .. n /\ ~(n + 1 - x <= k) /\ n + 1 - (n + 1 - x) = x
    <3>1. n \in Nat /\ k \in 0 .. n /\ m \in Nat /\ c \in 0 .. m
      BY <1>1
    <3> QED BY <3>1, Mirrored, Zenon
  <2>2. \A j \in 1 .. m - c : g[j] = n + 1 - f[m + 1 - j]
    OBVIOUS
  <2> HIDE DEF g
  <2>3. ASSUME NEW j \in 1 .. m - c PROVE g[j] \in 1 .. n - k /\ e[j] = b[g[j]] /\ b[g[j]].page # q
    <3> DEFINE i == m + 1 - j
    <3>1. i \in 1 .. m /\ ~(i <= c) /\ e[j] = u.entries[i] /\ g[j] = n + 1 - f[i]
      BY <1>7, <2>1, <2>2
    <3> HIDE DEF i
    <3>2. f[i] \in 1 .. n /\ ~(f[i] <= k) /\ u.entries[i] = t.entries[f[i]] /\ t.entries[f[i]].page # q
      BY <1>2, <3>1
    <3>3. g[j] \in 1 .. n - k /\ n + 1 - g[j] = f[i]
      BY <2>1, <3>1, <3>2
    <3>4. b[g[j]] = t.entries[f[i]]
      BY <1>7, <3>3
    <3> QED BY <3>1, <3>2, <3>3, <3>4
  <2>4. ASSUME NEW i \in 1 .. m - c, NEW j \in 1 .. m - c, i < j PROVE g[i] < g[j]
    <3>1. m + 1 - i \in 1 .. m /\ m + 1 - j \in 1 .. m /\ m + 1 - j < m + 1 - i
      BY <2>1, <2>4
    <3>2. f[m + 1 - j] < f[m + 1 - i] /\ f[m + 1 - j] \in 1 .. n /\ f[m + 1 - i] \in 1 .. n
      BY <1>2, <3>1
    <3> QED BY <2>1, <2>2, <3>2
  <2>5. ASSUME NEW i \in 1 .. n - k, b[i].page # q PROVE \E j \in 1 .. m - c : g[j] = i
    <3> DEFINE x == n + 1 - i
    <3>1. x \in 1 .. n /\ ~(x <= k) /\ n + 1 - x = i /\ b[i] = t.entries[x]
      BY <1>7, <2>1
    <3> HIDE DEF x
    <3>2. PICK j \in 1 .. m : f[j] = x
      BY <1>2, <2>5, <3>1
    <3>3. ~(j <= c)
      BY <1>2, <3>1, <3>2
    <3>4. m + 1 - j \in 1 .. m - c /\ m + 1 - (m + 1 - j) = j
      BY <2>1, <3>3
    <3>5. g[m + 1 - j] = i
      BY <2>2, <3>1, <3>2, <3>4
    <3> QED BY <3>4, <3>5
  <2>6. Lists(g, m - c, B)
    BY <1>8, <2>3, <2>4, <2>5 DEF Lists
  <2>7. B \in SUBSET (DOMAIN b)
    OBVIOUS
  <2> HIDE DEF B
  <2>8. Lists(g, Len(e), B) /\ \A j \in 1 .. Len(e) : e[j] = b[g[j]]
    BY <1>7, <2>3, <2>6
  <2> QED BY <1>7, <2>7, <2>8, KeepIs
<1> QED BY <1>9, <1>10 DEF Others, a, b, d, e

\* The stacks filter as the timeline does.
LEMMA SameWithoutSteps == ASSUME NEW s, NEW q PROVE U!Stacks!Without(s, q) = Others(s, q)
<1>1. ASSUME NEW S PROVE U!Stacks!Cardinality(S) = Cardinality(S)
  BY Zenon DEF U!Stacks!Cardinality, Cardinality
<1>2. \A S, j : U!Stacks!Nth(S, j) = Nth(S, j)
  BY <1>1 DEF U!Stacks!Nth, Nth
<1> QED BY <1>1, <1>2 DEF U!Stacks!Without, U!Stacks!Keep, Others, Keep

\* dropPage forgets the steps of a page, or there are none.
LEMMA DropForgets ==
    ASSUME IsTimeline(tl), NEW q, tl' = U!DropPage(tl, q), pages' = pages
    PROVE  /\ U!Stacks!Forget \/ (Done(tl') = Done(tl) /\ Todo(tl') = Todo(tl))
           /\ IsTimeline(tl') /\ Len(tl'.entries) <= Len(tl.entries)
<1> DEFINE n == Len(tl.entries)
           k == tl.index
           a == Done(tl)
           b == Todo(tl)
           c == a \o b
<1>1. PICK f, m : Drops(f, m, tl, tl', q)
  BY DropIs
<1>2. IsTimeline(tl') /\ Len(tl'.entries) <= n
  BY <1>1, Positions DEF Drops
<1>3. Done(tl') = Others(a, q) /\ Todo(tl') = Others(b, q)
  BY <1>1, DropStacks
<1>4. n \in Nat /\ k \in 0 .. n /\ DOMAIN tl.entries = 1 .. n
  BY Positions
<1>5. PICK S : tl.entries \in Seq(S)
  BY DEF IsTimeline
<1>6. /\ a \in Seq(S) /\ Len(a) = k /\ \A i \in 1 .. k : a[i] = tl.entries[i]
      /\ b \in Seq(S) /\ Len(b) = n - k /\ \A i \in 1 .. n - k : b[i] = tl.entries[n + 1 - i]
  BY <1>5, StacksAre DEF AreStacks
<1> HIDE DEF a, b, n, k
<1>7. CASE \E i \in DOMAIN tl.entries : tl.entries[i].page = q
  <2>1. PICK i \in 1 .. n : tl.entries[i].page = q
    BY <1>4, <1>7
  <2>2. \E j \in DOMAIN c : c[j].page = q
    <3>1. /\ c \in Seq(S) /\ Len(c) = k + (n - k)
          /\ \A j \in 1 .. k + (n - k) : c[j] = IF j <= k THEN a[j] ELSE b[j - k]
      <4>1. /\ a \o b \in Seq(S) /\ Len(a \o b) = Len(a) + Len(b)
            /\ \A j \in 1 .. Len(a) + Len(b) : (a \o b)[j] = IF j <= Len(a) THEN a[j] ELSE b[j - Len(a)]
        BY <1>6, ConcatProperties
      <4> QED BY <1>6, <4>1
    <3> HIDE DEF c
    <3>2. CASE i <= k
      <4>1. i \in 1 .. k + (n - k) /\ i \in 1 .. k /\ i \in DOMAIN c
        BY <1>4, <3>1, <3>2
      <4>2. c[i].page = q
        BY <1>6, <2>1, <3>1, <3>2, <4>1
      <4> QED BY <4>1, <4>2
    <3>3. CASE ~(i <= k)
      <4> DEFINE j == n + 1 - i
                 l == k + j
      <4>1. j \in 1 .. n - k /\ n + 1 - j = i
        BY <1>4, <3>3
      <4>2. l \in 1 .. k + (n - k) /\ ~(l <= k) /\ l - k = j
        BY <1>4, <4>1
      <4> HIDE DEF j, l
      <4>3. c[l].page = q
        BY <1>6, <2>1, <3>1, <4>1, <4>2
      <4>4. l \in DOMAIN c
        BY <1>4, <3>1, <4>2
      <4> QED BY <4>3, <4>4
    <3> QED BY <3>2, <3>3
  <2>3. \E p \in {s.page : s \in U!Stacks!Range(c)} : p = q
    BY <2>2 DEF U!Stacks!Range
  <2> HIDE DEF c
  <2>4. /\ q \in {s.page : s \in U!Stacks!Range(c)}
        /\ Done(tl') = U!Stacks!Without(a, q) /\ Todo(tl') = U!Stacks!Without(b, q) /\ pages' = pages
    BY <1>3, <2>3, SameWithoutSteps
  <2>5. U!Stacks!Forget
    BY <2>4 DEF U!Stacks!Forget, c, a, b, Done, Todo
  <2> QED BY <1>2, <2>5 DEF n
<1>8. CASE ~ \E i \in DOMAIN tl.entries : tl.entries[i].page = q
  <2>1. \A i \in 1 .. k : i \in DOMAIN tl.entries
    BY <1>4
  <2>2. \A i \in 1 .. n - k : n + 1 - i \in DOMAIN tl.entries
    BY <1>4
  <2>3. {i \in DOMAIN a : a[i].page # q} = DOMAIN a
    BY <1>6, <1>8, <2>1
  <2>4. {i \in DOMAIN b : b[i].page # q} = DOMAIN b
    BY <1>6, <1>8, <2>2
  <2>5. Others(a, q) = a /\ Others(b, q) = b
    BY <1>6, <2>3, <2>4, KeepAll DEF Others
  <2> QED BY <1>2, <1>3, <2>5 DEF n, a, b
<1> QED BY <1>7, <1>8

\* What the refinement needs besides.
Tops ==
    /\ IsTimeline(tl) /\ Len(tl.entries) <= Limit
    /\ hook.pending # U!NoStep =>
          hook.reset = None /\ hook.pending.dir \in {"undo", "redo"} /\ Taken(tl, hook.pending.dir)

\* A step of the stacks, or none.
OnStacks == U!Stacks!Next \/ (Done(tl') = Done(tl) /\ Todo(tl') = Todo(tl) /\ pages' = pages)

\* An action or its fold is a commit, or an amendment.
LEMMA CommitIsCommit ==
    ASSUME UInv, Tops, NEW p, NEW key, NEW soon, U!CommitOn(p, key, soon)
    PROVE  Tops' /\ OnStacks
<1> DEFINE next == copy[p] \cup {Len(made) + 1}
           e == [page |-> p, before |-> copy[p], after |-> next]
<1>1. /\ U!Rendered
      /\ \/ U!CanCoalesce(tl, p) /\ tl' = U!Coalesce(tl, next)
         \/ tl' = U!Push(tl, e)
      /\ hook' = [hook EXCEPT !.key = key, !.replaced = U!Remembered(tl, hook.replaced)]
      /\ pages' = pages
  BY DEF U!CommitOn, U!Adopt, U!Quiet
<1> HIDE DEF next
<1>2. hook'.pending = U!NoStep
  BY <1>1, NothingWaits DEF UInv, StudioShape
<1>3. IsStep(e)
  BY DEF IsStep
<1> HIDE DEF e
<1>4. CASE U!CanCoalesce(tl, p) /\ tl' = U!Coalesce(tl, next)
  <2>1. U!Stacks!Amend /\ IsTimeline(tl') /\ Len(tl'.entries) = Len(tl.entries)
    BY <1>1, <1>4, CoalesceAmends DEF Tops
  <2> QED BY <1>2, <2>1 DEF Tops, OnStacks, U!Stacks!Next
<1>5. CASE tl' = U!Push(tl, e)
  <2>1. U!Stacks!Commit /\ IsTimeline(tl') /\ Len(tl'.entries) <= Limit
    BY <1>1, <1>3, <1>5, PushCommits, PagesAssumption DEF Tops
  <2> QED BY <1>2, <2>1 DEF Tops, OnStacks, U!Stacks!Next
<1> QED BY <1>1, <1>4, <1>5

\* A press is a pop.
LEMMA StepIsPop ==
    ASSUME UInv, Tops, NEW dir \in {"undo", "redo"}, U!StepBy(dir)
    PROVE  Tops' /\ OnStacks
<1> DEFINE h == U!Handed(tl, dir)
           s == U!Step(tl, dir)
           waits == h # U!NoStep /\ h.page \notin U!OnScreen
<1>1. U!Rendered /\ hook.reset = None /\ pages' = pages
  BY DEF U!StepBy, U!Quiet
<1>2. hook.pending = U!NoStep
  BY <1>1, NothingWaits
<1>3. /\ tl' = s
      /\ hook' = [hook EXCEPT !.key = None, !.pending = IF waits THEN h ELSE U!NoStep]
  BY <1>2 DEF U!StepBy
<1>4. Steps(tl, dir) /\ IsTimeline(tl)
  BY Undone, Redone DEF Tops
<1>5. /\ IsTimeline(s) /\ Len(s.entries) <= Len(tl.entries)
      /\ h = U!NoStep \/ (h.dir = dir /\ Taken(s, dir))
  BY <1>4, Zenon DEF Steps
<1>6. OnStacks
  BY <1>1, <1>3, <1>4, UndoPops, RedoPops DEF OnStacks, U!Stacks!Next
<1> HIDE DEF h, s
<1>7. hook'.reset = None /\ hook'.pending \in {h, U!NoStep}
  BY <1>1, <1>3 DEF UInv, StudioShape
<1>8. Len(tl'.entries) <= Limit /\ IsTimeline(tl')
  <2>1. Len(tl'.entries) \in Nat /\ Len(tl.entries) \in Nat /\ Len(tl'.entries) <= Len(tl.entries)
    BY <1>3, <1>4, <1>5, Positions
  <2> QED BY <1>3, <1>5, <2>1, PagesAssumption DEF Tops
<1>9. Taken(s, dir) => Taken(tl, dir)'
  BY <1>1, <1>3 DEF Taken
<1>10. hook'.pending # U!NoStep =>
          hook'.reset = None /\ hook'.pending.dir \in {"undo", "redo"} /\ Taken(tl, hook.pending.dir)'
  <2> SUFFICES ASSUME hook'.pending # U!NoStep
               PROVE  hook'.reset = None /\ hook'.pending.dir \in {"undo", "redo"} /\ Taken(tl, hook.pending.dir)'
    OBVIOUS
  <2>1. hook'.pending = h /\ h.dir = dir /\ Taken(s, dir)
    BY <1>5, <1>7
  <2>2. Taken(tl, hook.pending.dir)'
    BY <1>1, <1>3, <2>1 DEF Taken
  <2> QED BY <1>7, <2>1, <2>2
<1> QED BY <1>6, <1>8, <1>10 DEF Tops

\* A step put back is a pop of the other stack, and a reset forgets a page.
LEMMA RenderIsPop ==
    ASSUME UInv, Tops, U!Render
    PROVE  Tops' /\ OnStacks
<1>1. hook'.pending = U!NoStep /\ pages' = pages
  <2> DEFINE p == hook.pending
             back == p # U!NoStep /\ p.page # view.shown
             lands == p # U!NoStep /\ p.page = view.shown /\ U!Settled
  <2>1. /\ hook' = [hook EXCEPT !.deps = <<view.shown, U!Settled>>, !.reset = None,
                              !.pending = IF back \/ lands \/ hook.reset = p.page THEN U!NoStep ELSE @,
                              !.key = IF hook.reset = None THEN @ ELSE None,
                              !.stale = U!Remembered(tl', @)]
        /\ pages' = pages
    BY Zenon DEF U!Render
  <2>2. hook'.pending = IF back \/ lands \/ hook.reset = p.page THEN U!NoStep ELSE p
    BY <2>1 DEF UInv, StudioShape
  <2> QED BY <2>1, <2>2 DEF UInv, Waiting
<1>2. CASE hook.pending # U!NoStep
  <2>1. /\ hook.pending.page # view.shown /\ hook.reset = None /\ Taken(tl, hook.pending.dir)
        /\ hook.pending.dir \in {"undo", "redo"}
    BY <1>2 DEF UInv, Waiting, Tops
  <2>2. tl' = U!Rollback(tl, hook.pending.dir)
    BY <1>2, <2>1 DEF U!Render
  <2>3. tl'.entries = tl.entries
    BY <2>2 DEF U!Rollback, Tops, IsTimeline
  <2>4. (U!Stacks!Undo \/ U!Stacks!Redo) /\ IsTimeline(tl')
    BY <1>1, <2>1, <2>2, RollbackPops DEF Taken, Tops
  <2> QED BY <1>1, <2>3, <2>4 DEF Tops, OnStacks, U!Stacks!Next
<1>3. CASE hook.pending = U!NoStep
  <2>1. tl' = IF hook.reset = None THEN tl ELSE U!DropPage(tl, hook.reset)
    BY <1>3 DEF U!Render
  <2>2. CASE hook.reset = None
    BY <1>1, <2>1, <2>2 DEF Tops, OnStacks
  <2>3. CASE hook.reset # None
    <3>1. /\ U!Stacks!Forget \/ (Done(tl') = Done(tl) /\ Todo(tl') = Todo(tl))
          /\ IsTimeline(tl') /\ Len(tl'.entries) <= Len(tl.entries)
      BY <1>1, <2>1, <2>3, DropForgets DEF Tops
    <3>2. Len(tl'.entries) <= Limit
      <4>1. Len(tl'.entries) \in Nat /\ Len(tl.entries) \in Nat /\ Len(tl.entries) <= Limit
        BY <3>1, Positions DEF Tops
      <4> QED BY <3>1, <4>1, PagesAssumption
    <3> QED BY <1>1, <3>1, <3>2 DEF Tops, OnStacks, U!Stacks!Next
  <2> QED BY <2>2, <2>3
<1> QED BY <1>2, <1>3

\* Every step of the studio is a step of the stacks, or none of theirs.
LEMMA StacksStep == UInv /\ Tops /\ [U!Next]_(U!vars) => Tops' /\ OnStacks
<1> SUFFICES ASSUME UInv, Tops, [U!Next]_(U!vars) PROVE Tops' /\ OnStacks
  OBVIOUS
<1>1. ASSUME NEW p \in AllPages, NEW key, NEW soon, U!CommitOn(p, key, soon) PROVE Tops' /\ OnStacks
  BY <1>1, CommitIsCommit
<1>2. ASSUME NEW dir \in {"undo", "redo"}, U!StepBy(dir) PROVE Tops' /\ OnStacks
  BY <1>2, StepIsPop
<1>3. CASE U!Render
  BY <1>3, RenderIsPop
<1>4. ASSUME NEW p \in AllPages, U!DeletePage(p) PROVE Tops' /\ OnStacks
  <2>1. U!Rendered /\ pages' = pages \ {p} /\ UNCHANGED <<tl, hook>>
    BY <1>4 DEF U!DeletePage, U!Quiet
  <2>2. hook'.pending = U!NoStep
    BY <2>1, NothingWaits
  <2>3. U!Stacks!DeletePage
    BY <2>1 DEF U!Stacks!DeletePage
  <2> QED BY <2>1, <2>2, <2>3 DEF Tops, OnStacks, U!Stacks!Next
<1>5. ASSUME NEW i \in DOMAIN reloads, U!Reload(i) PROVE Tops' /\ OnStacks
  <2>1. U!Rendered /\ UNCHANGED <<tl, pages>> /\ hook'.pending = hook.pending
    BY <1>5 DEF U!Reload, UInv, StudioShape
  <2>2. hook'.pending = U!NoStep
    BY <2>1, NothingWaits
  <2> QED BY <2>1, <2>2 DEF Tops, OnStacks
<1>6. ASSUME UNCHANGED <<tl, pages>>, hook'.pending = hook.pending, hook'.reset = hook.reset
      PROVE  Tops' /\ OnStacks
  BY <1>6 DEF Tops, OnStacks, Taken
<1>7. CASE U!Arrive \/ \E p \in AllPages : U!LoadShell(p)
  <2>1. UNCHANGED <<tl, pages>> /\ \E r : hook' = [hook EXCEPT !.replaced = r]
    BY <1>7 DEF U!Arrive, U!LoadShell
  <2>2. hook'.pending = hook.pending /\ hook'.reset = hook.reset
    BY <2>1 DEF UInv, StudioShape
  <2> QED BY <1>6, <2>1, <2>2
<1>8. CASE \/ U!Serve \/ U!FetchFails \/ U!Answer \/ U!Conflict \/ UNCHANGED U!vars
           \/ (\E p \in AllPages : U!OtherEdits(p) \/ U!Visit(p))
           \/ \E i \in DOMAIN reloads : U!ReloadFails(i)
  <2>1. UNCHANGED <<tl, pages, hook>>
    BY <1>8 DEF U!Serve, U!FetchFails, U!Answer, U!Conflict, U!OtherEdits, U!Visit,
              U!ReloadFails, U!vars, U!doc
  <2> QED BY <1>6, <2>1
<1> QED BY <1>1, <1>2, <1>3, <1>4, <1>5, <1>7, <1>8 DEF U!Next

\* UndoHistory: the array and its cursor are two stacks (UndoStacks), whatever
\* is undone, discarded, dropped, deleted, coalesced or forgotten at the limit,
\* and a step that is put back is the step of the other button.
THEOREM UndoIsTwoStacks == U!Spec => TwoStacks
<1>1. U!Init => Tops /\ U!Stacks!Init
  <2> SUFFICES ASSUME U!Init PROVE Tops /\ U!Stacks!Init
    OBVIOUS
  <2>1. tl.entries = <<>> /\ tl.index = 0 /\ tl = [entries |-> tl.entries, index |-> tl.index]
        /\ hook.pending = U!NoStep
    BY DEF U!Init
  <2>2. DOMAIN tl.entries = {} /\ tl.entries \in Seq({}) /\ Len(tl.entries) = 0
    BY <2>1
  <2>3. IsTimeline(tl)
    BY <2>1, <2>2 DEF IsTimeline
  <2>4. Done(tl) = <<>> /\ Todo(tl) = <<>>
    BY <2>1, <2>2, <2>3, NothingUndone
  <2>5. U!Stacks!Init
    BY <2>4 DEF U!Stacks!Init, Done, Todo
  <2> QED BY <2>1, <2>2, <2>3, <2>5, PagesAssumption DEF Tops
<1>2. UInv /\ Tops /\ [U!Next]_(U!vars) => Tops' /\ OnStacks
  BY StacksStep
<1>3. OnStacks => [U!Stacks!Next]_<<SubSeq(tl.entries, 1, tl.index),
                                   U!Reverse(SubSeq(tl.entries, tl.index + 1, Len(tl.entries))), pages>>
  BY DEF OnStacks, Done, Todo
<1> QED BY <1>1, <1>2, <1>3, StepsAreChained, PTL DEF U!Spec, TwoStacks, U!TwoStacks, U!Stacks!Spec

=============================================================================
