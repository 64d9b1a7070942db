------------------------------ MODULE Autosave ------------------------------
(* A form that saves as it is filled in (core/useAutosave.ts). JavaScript     *)
(* runs one callback at a time: an action is a call or a callback with the    *)
(* continuations it sets off. A flush that finds a save in flight waits for   *)
(* it, and what the first flush does when the save lands leaves those that    *)
(* waited nothing to do, so only the save in flight is kept.                  *)
EXTENDS Naturals

CONSTANTS Values, Invalid, None,
          MaxEdits, MaxFailures   \* bounds: changes of the value, saves that fail

\* A save under way: its value, whether reset() abandoned it, whether the server has it.
Save == [v : Values, stale : BOOLEAN, served : BOOLEAN]

ASSUME FormAssumption == Invalid \subseteq Values /\ None \notin Save

\* What a form asks of the hook: whether it saves at all (a create form does not),
\* and the pause before a save: AUTOSAVE_DELAY, none (0), or until flush (null).
Options == [enabled : BOOLEAN, delay : {"pause", "none", "flush"}]

VARIABLES opts,                                   \* the form's options
          value, saved, timer, status, mounted,   \* the hook's refs and states
          inflight,    \* the save in flight
          server,      \* what the server holds
          alerted,     \* window.alert has told of a failure
          strayed,     \* a save reached the server that the form does not count on
          edits, failures

form == <<opts, value, saved, timer, status, mounted, inflight, alerted>>
vars == <<form, server, strayed, edits, failures>>

Dirty == opts.enabled /\ value # saved
Show(s) == status' = IF mounted' THEN s ELSE status   \* once unmounted, nothing is shown
Settled == IF status = "idle" THEN "idle" ELSE "saved"

-----------------------------------------------------------------------------
(* A turn of flush's loop with v to save and no save in flight: nothing left, *)
(* a value that is not sent, or the next save.                                *)
Turn(v, known) ==
    \/ (~opts.enabled \/ v = known) /\ Show(Settled) /\ inflight' = None
    \/ /\ opts.enabled /\ v # known
       /\ \/ v \in Invalid /\ Show("invalid") /\ inflight' = None
          \/ /\ v \notin Invalid /\ Show("saving")
             /\ inflight' = [v |-> v, stale |-> FALSE, served |-> FALSE]

Flushed(v) ==
    /\ timer' = FALSE
    /\ IF inflight # None THEN UNCHANGED <<status, inflight>> ELSE Turn(v, saved)

\* Mutant: a value equal to the saved one settles the form, save in flight or not.
BackToSavedHasty(v) == timer' = FALSE /\ Show(Settled) /\ UNCHANGED inflight

BackToSaved(v) ==
    /\ timer' = FALSE /\ UNCHANGED inflight
    /\ IF inflight = None THEN Show(Settled) ELSE UNCHANGED status

Set(v, immediate) ==
    /\ mounted /\ mounted' = mounted /\ edits < MaxEdits /\ v # value
    /\ edits' = edits + 1 /\ value' = v
    /\ \/ ~opts.enabled /\ UNCHANGED <<timer, status, inflight>>
       \/ opts.enabled /\ v = saved /\ BackToSaved(v)
       \/ opts.enabled /\ v # saved /\ (immediate \/ opts.delay = "none") /\ Flushed(v)
       \/ /\ opts.enabled /\ v # saved /\ ~immediate /\ opts.delay # "none"
          /\ Show("pending") /\ timer' = (opts.delay = "pause") /\ UNCHANGED inflight
    /\ UNCHANGED <<opts, saved, server, alerted, strayed, failures>>

Flush ==
    /\ mounted /\ mounted' = mounted
    /\ Flushed(value)
    /\ UNCHANGED <<opts, value, saved, server, alerted, strayed, edits, failures>>

Timer ==
    /\ timer /\ mounted' = mounted
    /\ Flushed(value)
    /\ UNCHANGED <<opts, value, saved, server, alerted, strayed, edits, failures>>

(* The server takes the save in.                                              *)
Serve ==
    /\ inflight # None /\ ~inflight.served
    /\ inflight' = [inflight EXCEPT !.served = TRUE]
    /\ server' = inflight.v
    /\ UNCHANGED <<opts, value, saved, timer, status, mounted, alerted, strayed, edits, failures>>

\* Mutant: the value on the screen is taken for the saved one.
KnownNow == value
Known == IF inflight.stale THEN saved ELSE inflight.v

Landed ==
    /\ inflight # None /\ inflight.served /\ mounted' = mounted
    /\ saved' = Known
    /\ Turn(value, Known)
    /\ UNCHANGED <<opts, value, timer, server, alerted, strayed, edits, failures>>

(* The save fails, before the server took it in or after.                     *)
Failed ==
    /\ inflight # None /\ failures < MaxFailures
    /\ failures' = failures + 1 /\ mounted' = mounted
    /\ inflight' = None
    /\ Show("error") /\ alerted' = (alerted \/ ~mounted)
    /\ strayed' = (strayed \/ inflight.served)
    /\ UNCHANGED <<opts, value, saved, timer, server, edits>>

(* reset: start over from what the server holds.                              *)
Reset ==
    /\ mounted /\ mounted' = mounted /\ edits < MaxEdits
    /\ edits' = edits + 1
    /\ value' = server /\ saved' = server /\ timer' = FALSE /\ Show("idle")
    /\ inflight' = IF inflight = None THEN None ELSE [inflight EXCEPT !.stale = TRUE]
    /\ strayed' = (strayed \/ inflight # None)
    /\ UNCHANGED <<opts, server, alerted, failures>>

\* Mutant: the form is dropped with what it waited to save.
UnmountQuiet == mounted /\ mounted' = FALSE /\ timer' = FALSE
                /\ UNCHANGED <<opts, value, saved, status, inflight, server, alerted, strayed, edits, failures>>

Unmount ==
    /\ mounted /\ mounted' = FALSE
    /\ IF Dirty THEN Flushed(value) ELSE timer' = FALSE /\ UNCHANGED <<status, inflight>>
    /\ UNCHANGED <<opts, value, saved, server, alerted, strayed, edits, failures>>

-----------------------------------------------------------------------------
Init ==
    /\ opts \in Options /\ value \in Values \ Invalid /\ saved = value /\ server = value
    /\ timer = FALSE /\ status = "idle" /\ mounted = TRUE /\ inflight = None
    /\ alerted = FALSE /\ strayed = FALSE /\ edits = 0 /\ failures = 0

Next == \/ \E v \in Values, immediate \in BOOLEAN : Set(v, immediate)
        \/ Flush \/ Timer \/ Serve \/ Landed \/ Failed \/ Reset \/ Unmount

Spec == Init /\ [][Next]_vars

(* Timers fire, the server takes requests in, and answers arrive.             *)
Fairness == WF_vars(Timer) /\ WF_vars(Serve) /\ WF_vars(Landed)
FairSpec == Spec /\ Fairness

-----------------------------------------------------------------------------
(* A form that shows "saved", or nothing, has nothing to save, or waits for a *)
(* save that reset() abandoned; it shows neither during a save of its own.    *)
SettledMeansSaved ==
    mounted /\ status \in {"idle", "saved"} => IF inflight = None THEN ~Dirty ELSE inflight.stale

(* savedRef is "the value last known to be on the server" (useAutosave.ts:    *)
(* 65-66): with no save in flight it is what the server holds, unless a save  *)
(* failed after it was taken in or was abandoned.                             *)
SavedIsOnServer == inflight = None /\ ~strayed => saved = server

(* An edit that is valid is saved, or the form or an alert says that it was   *)
(* not, whether the form stays or goes (useAutosave.ts:1-12). A form that      *)
(* saves only on flush may show it as pending for as long as nobody flushes.   *)
EditsAreSavedOrTold ==
    (Dirty /\ value \notin Invalid) ~>
        \/ ~Dirty \/ value \in Invalid \/ (mounted /\ status = "error") \/ alerted
        \/ opts.delay = "flush" /\ mounted /\ status = "pending"

(* Without that: false of delay: null, as useAutosave.test.tsx:229 wants it.   *)
EditsAreAlwaysSavedOrTold ==
    (Dirty /\ value \notin Invalid) ~>
        (~Dirty \/ value \in Invalid \/ (mounted /\ status = "error") \/ alerted)

(* SavedIsOnServer without its exception: false, as a failed save may have landed.   *)
SavedIsServer == inflight = None => saved = server
=============================================================================
