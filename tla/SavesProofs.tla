---------------------------- MODULE SavesProofs ----------------------------
(***************************************************************************)
(* Proofs about the two pages that save in the background, the form of     *)
(* module Autosave and the diagram of module DiagramSave, for any values,  *)
(* editors, edits, failures and loads.                                     *)
(*                                                                         *)
(* The form: what savedRef says of the server survives a save because of   *)
(* what is known while the save is in flight: until the server has it,     *)
(* nothing has changed there; once it has, the server holds the value that *)
(* savedRef will be set to, unless reset() has abandoned the save.         *)
(*                                                                         *)
(* The diagram: an editor whose version is the diagram's lacks only edits  *)
(* of its own (Lacks), through loads that arrive while a save is under way *)
(* (Loads) and reloads after a conflict that has been overtaken (Rereads). *)
(* What it lacks, and would take off, no other page shows as saved (Apart).*)
(***************************************************************************)
EXTENDS MCSaves, Sequences, TLAPS

-----------------------------------------------------------------------------
(* The form *)

Typed ==
    /\ value \in Values /\ saved \in Values /\ server \in Values
    /\ timer \in BOOLEAN /\ mounted \in BOOLEAN /\ alerted \in BOOLEAN /\ strayed \in BOOLEAN
    /\ inflight \in Save \cup {None}

\* A save that was abandoned is one the form does not count on.
AbandonedStrays == inflight # None /\ inflight.stale => strayed

\* A save of the form's own that the server has taken in is what it holds.
ServedIsHeld == inflight # None /\ inflight.served /\ ~inflight.stale => server = inflight.v

\* Until the server takes the save in, it holds what it held before.
UnservedIsNew == inflight # None /\ ~inflight.served /\ ~strayed => saved = server

\* A form that does not save sends nothing.
NeverSends == ~opts.enabled => inflight = None

AInv ==
    /\ Typed /\ SettledMeansSaved /\ SavedIsOnServer
    /\ AbandonedStrays /\ ServedIsHeld /\ UnservedIsNew /\ NeverSends

-----------------------------------------------------------------------------
\* A save that was just issued.
LEMMA NewSave ==
    ASSUME NEW v \in Values, NEW s, s = [v |-> v, stale |-> FALSE, served |-> FALSE]
    PROVE  s \in Save /\ s # None /\ ~s.stale /\ ~s.served
<1>1. s \in Save
  BY DEF Save
<1>2. s # None
  BY <1>1, FormAssumption
<1> QED BY <1>1, <1>2

\* One turn of flush's loop, after which known is the value last saved.
LEMMA TurnKeeps ==
    ASSUME Typed, mounted' = mounted, UNCHANGED <<opts, server, strayed>>,
           value' \in Values, saved' \in Values, timer' \in BOOLEAN, alerted' = alerted,
           ~strayed => saved' = server, Turn(value', saved')
    PROVE  AInv'
<1> DEFINE new == [v |-> value', stale |-> FALSE, served |-> FALSE]
<1>1. new \in Save /\ new # None /\ ~new.stale /\ ~new.served
  BY NewSave
<1>2. CASE (~opts.enabled \/ value' = saved') /\ inflight' = None
  BY <1>2 DEF Typed, AInv, SettledMeansSaved, Dirty, SavedIsOnServer, AbandonedStrays, ServedIsHeld, UnservedIsNew, NeverSends
<1>3. CASE Show("invalid") /\ inflight' = None
  BY <1>3 DEF Typed, AInv, Show, SettledMeansSaved, SavedIsOnServer, AbandonedStrays, ServedIsHeld, UnservedIsNew, NeverSends
<1>4. CASE opts.enabled /\ Show("saving") /\ inflight' = new
  <2> HIDE DEF new
  <2> QED BY <1>1, <1>4 DEF Typed, AInv, Show, SettledMeansSaved, SavedIsOnServer, AbandonedStrays,
                            ServedIsHeld, UnservedIsNew, NeverSends
<1> QED BY <1>2, <1>3, <1>4 DEF Turn

\* The flush that set, flush, the timer and an unmount end in.
LEMMA FlushedKeeps ==
    ASSUME AInv, mounted' \in BOOLEAN, UNCHANGED <<opts, saved, server, alerted, strayed>>,
           value' \in Values, mounted' => mounted, Flushed(value')
    PROVE  AInv'
<1>1. timer' \in BOOLEAN
  BY DEF Flushed
<1>2. CASE inflight # None
  BY <1>1, <1>2 DEF Flushed, AInv, Typed, SettledMeansSaved, SavedIsOnServer, AbandonedStrays, ServedIsHeld,
                    UnservedIsNew, NeverSends
<1>3. CASE inflight = None /\ mounted' = mounted
  <2>1. Typed /\ saved' \in Values /\ (~strayed => saved' = server)
    BY <1>3 DEF AInv, Typed, SavedIsOnServer
  <2>2. Turn(value', saved')
    BY <1>3 DEF Flushed, Turn
  <2> QED BY <1>1, <1>3, <2>1, <2>2, TurnKeeps
<1>4. CASE inflight = None /\ ~mounted'
  <2> DEFINE new == [v |-> value', stale |-> FALSE, served |-> FALSE]
  <2>1. new \in Save /\ new # None /\ ~new.stale /\ ~new.served
    BY NewSave
  <2>2. inflight' = None \/ (opts.enabled /\ inflight' = new)
    BY <1>4 DEF Flushed, Turn
  <2> HIDE DEF new
  <2> QED BY <1>1, <1>4, <2>1, <2>2 DEF AInv, Typed, SettledMeansSaved, SavedIsOnServer, AbandonedStrays,
                                        ServedIsHeld, UnservedIsNew, NeverSends
<1>5. mounted \in BOOLEAN
  BY DEF AInv, Typed
<1> QED BY <1>2, <1>3, <1>4, <1>5

\* A field changes.
LEMMA SetKeeps ==
    ASSUME AInv, NEW v \in Values, NEW immediate \in BOOLEAN, Set(v, immediate)
    PROVE  AInv'
<1>1. value' = v /\ mounted /\ mounted' /\ mounted' \in BOOLEAN /\ UNCHANGED <<opts, saved, server, alerted, strayed>>
  BY DEF Set, AInv, Typed
<1>2. CASE v = saved /\ BackToSaved(v)
  BY <1>1, <1>2 DEF BackToSaved, AInv, Typed, SettledMeansSaved, Dirty, SavedIsOnServer, AbandonedStrays,
                    ServedIsHeld, UnservedIsNew, NeverSends
<1>3. CASE Flushed(v)
  BY <1>1, <1>3, FlushedKeeps
<1>5. CASE ~opts.enabled /\ UNCHANGED <<timer, status, inflight>>
  BY <1>1, <1>5 DEF AInv, Typed, SettledMeansSaved, Dirty, SavedIsOnServer, AbandonedStrays, ServedIsHeld,
                    UnservedIsNew, NeverSends
<1>4. CASE Show("pending") /\ timer' \in BOOLEAN /\ UNCHANGED inflight
  BY <1>1, <1>4 DEF Show, AInv, Typed, SettledMeansSaved, SavedIsOnServer, AbandonedStrays, ServedIsHeld,
                    UnservedIsNew, NeverSends
<1> QED BY <1>2, <1>3, <1>4, <1>5 DEF Set

\* A save reaches the server.
LEMMA ServeKeeps ==
    ASSUME AInv, Serve
    PROVE  AInv'
<1>1. inflight \in Save /\ inflight # None /\ inflight.v \in Values
  BY DEF AInv, Typed, Serve, Save
<1>2. /\ inflight' \in Save /\ inflight'.served
      /\ inflight'.v = inflight.v /\ inflight'.stale = inflight.stale
  BY <1>1 DEF Serve, Save
<1>3. inflight' # None
  BY <1>2, FormAssumption
<1> QED BY <1>1, <1>2, <1>3 DEF Serve, AInv, Typed, SettledMeansSaved, SavedIsOnServer, AbandonedStrays,
                               ServedIsHeld, UnservedIsNew, NeverSends

\* What is known after a save is what the server holds, or a save strayed.
LEMMA LandedKeeps ==
    ASSUME AInv, Landed
    PROVE  AInv'
<1>1. inflight \in Save /\ inflight.v \in Values
  BY DEF AInv, Typed, Landed, Save
<1>2. Known \in Values
  BY <1>1 DEF AInv, Typed, Known
<1>3. ~strayed => Known = server
  BY DEF AInv, Landed, Known, AbandonedStrays, ServedIsHeld
<1> QED BY <1>2, <1>3, TurnKeeps DEF Landed, AInv, Typed

\* A save fails.
LEMMA FailedKeeps ==
    ASSUME AInv, Failed
    PROVE  AInv'
<1>1. inflight \in Save /\ inflight.served \in BOOLEAN
  BY DEF AInv, Typed, Failed, Save
<1>2. Typed'
  BY <1>1 DEF AInv, Typed, Failed
<1>3. SettledMeansSaved'
  BY DEF Failed, Show, SettledMeansSaved
<1>4. SavedIsOnServer'
  BY <1>1 DEF AInv, Failed, SavedIsOnServer, UnservedIsNew, NeverSends
<1> QED BY <1>2, <1>3, <1>4 DEF AInv, Failed, AbandonedStrays, ServedIsHeld, UnservedIsNew, NeverSends

\* The form is reset.
LEMMA ResetKeeps ==
    ASSUME AInv, Reset
    PROVE  AInv'
<1>1. CASE inflight = None
  BY <1>1 DEF AInv, Typed, Reset, SettledMeansSaved, Dirty, SavedIsOnServer, AbandonedStrays, ServedIsHeld,
              UnservedIsNew, NeverSends
<1>2. CASE inflight # None
  <2>1. inflight' \in Save /\ inflight'.stale /\ strayed'
    BY <1>2 DEF AInv, Typed, Reset, Save
  <2>2. inflight' # None
    BY <2>1, FormAssumption
  <2> QED BY <1>2, <2>1, <2>2 DEF AInv, Typed, Reset, SettledMeansSaved, SavedIsOnServer, AbandonedStrays,
                                  ServedIsHeld, UnservedIsNew, NeverSends
<1> QED BY <1>1, <1>2

\* The form goes away.
LEMMA UnmountKeeps ==
    ASSUME AInv, Unmount
    PROVE  AInv'
<1>1. mounted' = FALSE /\ UNCHANGED <<opts, value, saved, server, alerted, strayed>>
  BY DEF Unmount
<1>2. CASE Flushed(value)
  BY <1>1, <1>2, FlushedKeeps DEF AInv, Typed
<1>3. CASE timer' = FALSE /\ UNCHANGED <<status, inflight>>
  BY <1>1, <1>3 DEF AInv, Typed, SettledMeansSaved, SavedIsOnServer, AbandonedStrays, ServedIsHeld, UnservedIsNew, NeverSends
<1> QED BY <1>2, <1>3 DEF Unmount, Dirty

-----------------------------------------------------------------------------
\* The initial form satisfies the invariant.
LEMMA InitAInv == Init => AInv
BY FormAssumption DEF Init, AInv, Typed, SettledMeansSaved, Dirty, SavedIsOnServer, AbandonedStrays,
                      ServedIsHeld, UnservedIsNew, NeverSends

\* Every step keeps it.
LEMMA NextAInv == AInv /\ [Next]_vars => AInv'
<1> SUFFICES ASSUME AInv, [Next]_vars PROVE AInv'
  OBVIOUS
<1>1. CASE \E v \in Values, immediate \in BOOLEAN : Set(v, immediate)
  BY <1>1, SetKeeps
<1>2. CASE Flush
  BY <1>2, FlushedKeeps DEF Flush, AInv, Typed
<1>3. CASE Timer
  BY <1>3, FlushedKeeps DEF Timer, AInv, Typed
<1>4. CASE UNCHANGED vars
  BY <1>4 DEF vars, form, AInv, Typed, SettledMeansSaved, Dirty, SavedIsOnServer, AbandonedStrays, ServedIsHeld,
              UnservedIsNew, NeverSends
<1> QED BY <1>1, <1>2, <1>3, <1>4, ServeKeeps, LandedKeeps, FailedKeeps, ResetKeeps, UnmountKeeps DEF Next

\* The invariant, in every state of the form.
THEOREM FormInvariance == Spec => []AInv
BY InitAInv, NextAInv, PTL DEF Spec

\* However edits, resets, failures and an unmount fall between the start and
\* the end of a save, a form that looks settled has nothing to save, or still
\* waits for a save that a reset abandoned.
THEOREM SettledIsSaved == Spec => []SettledMeansSaved
<1>1. AInv => SettledMeansSaved
  BY DEF AInv
<1> QED BY <1>1, FormInvariance, PTL

\* What the form takes for saved is on the server, however saves and resets
\* overlap, unless a save strayed.
THEOREM SavedIsHeld == Spec => []SavedIsOnServer
<1>1. AInv => SavedIsOnServer
  BY DEF AInv
<1> QED BY <1>1, FormInvariance, PTL

-----------------------------------------------------------------------------
(* The diagram: types *)

\* The states of an editor: its page is closed, with a request perhaps still on its way, or open.
Docs   == SUBSET Nat
Kinds  == {"clean", "dirty", "saving", "saved", "error", "conflict"}
Closed == [open : {FALSE}, sent : D!Sent \cup {None}]
Opened == [open : {TRUE}, kind : Kinds, got : D!Diagram \cup {None}, doc : Docs, version : Nat,
           err : BOOLEAN, timer : BOOLEAN, sent : D!Sent \cup {None}, again : BOOLEAN]
Page   == Closed \cup Opened

\* The edits of editor e, and those e could not read.
Own(e) == {x \in DOMAIN made : made[x] = e} \cup unread[e]

-----------------------------------------------------------------------------
(* Where an editor is: s is its state, d the diagram. *)

Pending(s)   == s.sent # None /\ s.sent.answer = "none"
Took(s)      == s.sent # None /\ s.sent.answer = "saved"
AtRow(s, d)  == Pending(s) /\ s.sent.version = d.version
Shows(s, d)  == s.open /\ s.version = d.version
Current(s, d) == AtRow(s, d) \/ Shows(s, d) \/ (Took(s) /\ s.sent.version = d.version)
Replacing(s) == s.open /\ s.got # None /\ s.got.xml
Settling(s)  == s.open /\ (s.kind = "saved" \/ Took(s))

\* A diagram: it has xml once it was saved, and before that at most what was imported.
Sound(d, n) == /\ d \in D!Diagram /\ d.doc \subseteq 0..n
               /\ (d.version = 0 <=> ~d.xml) /\ (~d.xml => d.doc \subseteq {0})

\* Versions an editor knows are not above the diagram's; n edits have been made.
Behind(s, d, n) ==
    /\ s.sent # None => /\ s.sent.doc \subseteq 0..n /\ s.sent.version <= d.version
                        /\ s.sent.answer = "saved" => s.sent.version > 0
    /\ s.open => /\ s.doc \subseteq 0..n /\ s.version <= d.version
                 /\ s.kind = "saved" => d.version > 0
                 /\ s.kind \in {"saved", "conflict"} => s.sent = None
                 /\ s.again => s.sent # None
                 /\ s.got # None => /\ Sound(s.got, n) /\ s.got.version <= d.version
                                    /\ s.got.version = d.version => s.got = d

\* An editor that may save over the diagram lacks nothing but edits of its own.
Lacks(s, d, own) ==
    /\ AtRow(s, d) /\ d.version > 0 => d.doc \ s.sent.doc \subseteq own
    /\ s.open /\ Current(s, d) /\ d.version > 0 => d.doc \ s.doc \subseteq own

\* In what follows, loose are the edits that some editor could not read.

\* The page and a request that will be taken in differ by edits of its own, and the import; and the
\* request has all that the page shows, unless a timer runs or a save was asked for meanwhile.
Sends(s, d, own, loose) ==
    s.open /\ AtRow(s, d) =>
        /\ s.sent.doc \ s.doc \subseteq own
        /\ s.doc \ s.sent.doc \subseteq own \cup {0}
        /\ ~s.timer /\ ~s.again => s.doc \ s.sent.doc \subseteq loose

\* A load that arrives after a save was sent brings no more than the save has, and lacks only edits
\* of the editor's own.
Loads(s, d, own, loose) ==
    Replacing(s) /\ Current(s, d) =>
        /\ s.got.doc \ s.doc \subseteq own \cap loose /\ s.got.doc \ d.doc \subseteq own \cap loose
        /\ s.doc \ s.got.doc \subseteq own /\ d.doc \ s.got.doc \subseteq own
        /\ AtRow(s, d) => /\ s.got.doc \ s.sent.doc \subseteq own \cap loose
                          /\ s.sent.doc \ s.got.doc \subseteq own

\* A conflict is or will be shown, although the page may have been brought up to date meanwhile: then
\* it shows all of the diagram.
Refused(s) == \/ s.kind = "conflict"
              \/ Pending(s) /\ s.sent.version # s.version
              \/ s.sent # None /\ s.sent.answer = "conflict"

Rereads(s, d, own, loose) ==
    Shows(s, d) /\ d.version > 0 /\ Refused(s) =>
        d.doc \ s.doc \subseteq own \cap loose /\ s.doc \ d.doc \subseteq own

\* A page that says "saved", or is about to, shows what the diagram has, but for edits since made.
Holds(s, d, own, loose) ==
    Settling(s) =>
        /\ s.doc \ d.doc \subseteq own \cup {0} \cup loose
        /\ ~s.timer /\ ~s.again => s.doc \ d.doc \subseteq loose
        /\ Replacing(s) => s.got.doc \ d.doc \subseteq loose

Good(s, d, own, loose, n) ==
    /\ s \in Page /\ Behind(s, d, n)
    /\ Lacks(s, d, own) /\ Sends(s, d, own, loose) /\ Loads(s, d, own, loose)
    /\ Rereads(s, d, own, loose) /\ Holds(s, d, own, loose)

\* What an editor that may save would take off the diagram, and what it shows or is about to.
Lost(s, d) == {x \in d.doc : \/ AtRow(s, d) /\ x \notin s.sent.doc
                             \/ s.open /\ x \notin s.doc
                             \/ Replacing(s) /\ x \notin s.got.doc}
Shown(s)   == s.doc \cup (IF Replacing(s) THEN s.got.doc ELSE {})

\* What one may take off the diagram is not on a page that shows it as saved.
Apart(f, s, d, loose) ==
    Current(f, d) /\ Settling(s) => Lost(f, d) \cap Shown(s) \subseteq {0} \cup loose

\* A step of an editor that takes no more off, and shows no more, than before.
Follows(s, t, d, loose) ==
    /\ Current(t, d) /\ d.version > 0 => \/ Lost(t, d) \subseteq loose
                                         \/ Current(s, d) /\ Lost(t, d) \subseteq Lost(s, d) \cup loose
    /\ Settling(t) => Settling(s) /\ Shown(t) \cap d.doc \subseteq Shown(s) \cup {0} \cup loose

DInv ==
    /\ made \in Seq(Editors) /\ Sound(row, Len(made))
    /\ ed \in [Editors -> Page] /\ unread \in [Editors -> SUBSET Nat]
    /\ \A e \in Editors : Good(ed[e], row, Own(e), D!Unread, Len(made))
    /\ \A e, f \in Editors : e # f => Apart(ed[f], ed[e], row, D!Unread)

-----------------------------------------------------------------------------
(* The steps of an editor *)

\* Steps that follow one another.
LEMMA FollowsOn ==
    ASSUME NEW s, NEW t, NEW u, NEW d, NEW loose, Follows(s, t, d, loose), Follows(t, u, d, loose)
    PROVE  Follows(s, u, d, loose)
BY DEF Follows

\* A request for what the page shows.
LEMMA NewRequest ==
    ASSUME NEW s \in Opened
    PROVE  LET r == D!Request(s.version, s.doc)
           IN  r \in D!Sent /\ r # None /\ r.version = s.version /\ r.doc = s.doc /\ r.answer = "none"
BY DiagramAssumption DEF D!Request, D!Sent, Opened, Docs

\* A page that sends what it shows, under the version it has.
LEMMA SendingGood ==
    ASSUME NEW s, NEW t, NEW d, NEW own, NEW loose, NEW n \in Nat, s \in Opened, Sound(d, n),
           Behind(s, d, n), Lacks(s, d, own), Loads(s, d, own, loose),
           t \in Opened, t.sent = D!Request(s.version, s.doc), t.kind = "saving",
           t.version = s.version, t.doc = s.doc, t.got = s.got
    PROVE  Good(t, d, own, loose, n) /\ Follows(s, t, d, loose)
<1>1. s \in Opened /\ s.open /\ s.doc \subseteq Nat
  BY DEF Opened, Docs
<1> DEFINE r == D!Request(s.version, s.doc)
<1>2. r \in D!Sent /\ r # None /\ r.version = s.version /\ r.doc = s.doc /\ r.answer = "none"
  BY <1>1, NewRequest
<1> HIDE DEF r
<1>3. t.sent = r /\ t.open /\ t \in Page
  BY DEF r, Opened, Page
<1>4. Behind(t, d, n)
  BY <1>1, <1>2, <1>3 DEF Behind, Opened
<1>5. Lacks(t, d, own) /\ Sends(t, d, own, loose) /\ Holds(t, d, own, loose)
  BY <1>1, <1>2, <1>3 DEF Lacks, Sends, Holds, AtRow, Shows, Current, Pending, Took, Settling
<1>6. Loads(t, d, own, loose)
  BY <1>1, <1>2, <1>3 DEF Loads, AtRow, Shows, Current, Pending, Took, Replacing
<1>7. Rereads(t, d, own, loose)
  BY <1>1, <1>2, <1>3 DEF Rereads, Shows, Refused, Pending
<1>8. Follows(s, t, d, loose)
  BY <1>1, <1>2, <1>3 DEF Follows, Lost, Shown, AtRow, Shows, Current, Pending, Took, Replacing, Settling
<1> QED BY <1>3, <1>4, <1>5, <1>6, <1>7, <1>8 DEF Good

\* doSave.
LEMMA SavingGood ==
    ASSUME NEW s, NEW d, NEW own, NEW loose, NEW n \in Nat, Good(s, d, own, loose, n), Sound(d, n), s.open
    PROVE  LET t == D!Saving([s EXCEPT !.timer = FALSE]) IN Good(t, d, own, loose, n) /\ Follows(s, t, d, loose)
<1> DEFINE t == D!Saving([s EXCEPT !.timer = FALSE])
<1>1. s \in Opened
  BY DEF Good, Page, Closed
<1>2. CASE s.kind = "conflict"
  <2>1. t = [s EXCEPT !.timer = FALSE] /\ s.sent = None
    BY <1>1, <1>2 DEF D!Saving, Opened, Good, Behind
  <2>2. t \in Page /\ Behind(t, d, n)
    BY <1>1, <1>2, <2>1 DEF Good, Page, Opened, Behind
  <2>3. Lacks(t, d, own) /\ Sends(t, d, own, loose) /\ Holds(t, d, own, loose)
    BY <1>1, <1>2, <2>1 DEF Good, Opened, Lacks, Sends, Holds, AtRow, Shows, Current, Pending, Took, Settling
  <2>4. Loads(t, d, own, loose) /\ Rereads(t, d, own, loose)
    BY <1>1, <1>2, <2>1 DEF Good, Opened, Loads, Rereads, AtRow, Shows, Current, Pending, Took, Replacing, Refused
  <2>5. Follows(s, t, d, loose)
    BY <1>1, <1>2, <2>1 DEF Opened, Follows, Lost, Shown, AtRow, Shows, Current, Pending, Took, Replacing, Settling
  <2> QED BY <2>2, <2>3, <2>4, <2>5 DEF Good
<1>3. CASE s.kind # "conflict" /\ s.sent # None
  <2>1. t = [s EXCEPT !.timer = FALSE, !.again = TRUE]
    BY <1>1, <1>3 DEF D!Saving, Opened
  <2>2. Good(t, d, own, loose, n)
    BY <1>1, <1>3, <2>1 DEF Good, Page, Opened, Behind, Lacks, Sends, Loads, Rereads, Holds,
           AtRow, Shows, Current, Pending, Took, Replacing, Settling, Refused
  <2>3. Follows(s, t, d, loose)
    BY <1>1, <1>3, <2>1 DEF Opened, Follows, Lost, Shown, AtRow, Shows, Current, Pending, Took, Replacing, Settling
  <2> QED BY <2>2, <2>3
<1>4. CASE s.kind # "conflict" /\ s.sent = None
  <2> DEFINE r == D!Request(s.version, s.doc)
  <2>1. r \in D!Sent
    BY <1>1, NewRequest
  <2>2. t = [[s EXCEPT !.timer = FALSE] EXCEPT !.kind = "saving", !.sent = r]
    BY <1>1, <1>4 DEF D!Saving, Opened
  <2> HIDE DEF t, r
  <2>3. t \in Opened /\ t.sent = r /\ t.kind = "saving" /\ t.version = s.version /\ t.doc = s.doc /\ t.got = s.got
    BY <1>1, <2>1, <2>2 DEF Opened, Kinds
  <2> QED BY <1>1, <2>3, SendingGood DEF r, t, Good
<1> QED BY <1>2, <1>3, <1>4

\* A change of the model.
LEMMA EditGood ==
    ASSUME NEW s, NEW d, NEW own, NEW loose, NEW n \in Nat, Good(s, d, own, loose, n), Sound(d, n), s.open
    PROVE  LET t == [s EXCEPT !.doc = @ \cup {n + 1}, !.timer = (s.kind # "conflict"),
                              !.kind = IF @ = "conflict" THEN @ ELSE "dirty"]
           IN  Good(t, d, own \cup {n + 1}, loose, n + 1) /\ Follows(s, t, d, loose)
<1> DEFINE t == [s EXCEPT !.doc = @ \cup {n + 1}, !.timer = (s.kind # "conflict"),
                          !.kind = IF @ = "conflict" THEN @ ELSE "dirty"]
<1>1. s \in Opened /\ s.doc \subseteq 0..n /\ d.doc \subseteq 0..n
  BY DEF Good, Page, Closed, Behind, Sound
<1>2. /\ t.open /\ t.kind = (IF s.kind = "conflict" THEN "conflict" ELSE "dirty") /\ t.got = s.got
      /\ t.doc = s.doc \cup {n + 1} /\ t.version = s.version
      /\ t.timer = (s.kind # "conflict") /\ t.sent = s.sent /\ t.again = s.again
  BY <1>1 DEF Opened
<1>a. s.doc \cup {n + 1} \in Docs /\ t.kind \in Kinds /\ t.timer \in BOOLEAN
  BY <1>1, <1>2 DEF Opened, Docs, Kinds
<1>b. t \in Opened
  BY <1>1, <1>a DEF Opened
<1> HIDE DEF t
<1>3. Behind(t, d, n + 1)
  BY <1>1, <1>2 DEF Good, Behind, Opened, Sound
<1>4. Lacks(t, d, own \cup {n + 1}) /\ Sends(t, d, own \cup {n + 1}, loose) /\ Holds(t, d, own \cup {n + 1}, loose)
  BY <1>1, <1>2 DEF Good, Behind, Lacks, Sends, Holds, AtRow, Shows, Current, Pending, Took, Settling, Replacing
<1>5. Loads(t, d, own \cup {n + 1}, loose)
  BY <1>1, <1>2 DEF Good, Loads, AtRow, Shows, Current, Pending, Took, Replacing
<1>6. Rereads(t, d, own \cup {n + 1}, loose)
  BY <1>1, <1>2 DEF Good, Rereads, Shows, Refused, Pending
<1>7. Follows(s, t, d, loose)
  BY <1>1, <1>2 DEF Follows, Lost, Shown, AtRow, Shows, Current, Pending, Took, Replacing, Settling
<1> QED BY <1>b, <1>3, <1>4, <1>5, <1>6, <1>7 DEF Good, Page, t

\* More edits of others.
LEMMA MoreGood ==
    ASSUME NEW s, NEW d, NEW own, NEW loose, NEW n \in Nat, Good(s, d, own, loose, n)
    PROVE  Good(s, d, own, loose, n + 1)
<1>1. \A S : S \subseteq 0..n => S \subseteq 0..(n + 1)
  OBVIOUS
<1>2. Behind(s, d, n + 1)
  BY <1>1 DEF Good, Behind, Sound
<1> QED BY <1>2 DEF Good

\* A load that arrives.
LEMMA LoadedGood ==
    ASSUME NEW s, NEW d, NEW own, NEW loose, NEW n \in Nat, Good(s, d, own, loose, n), Sound(d, n), s.open, s.got # None
    PROVE  LET doc  == IF s.got.xml THEN s.got.doc ELSE s.doc \cup s.got.doc
               read == [s EXCEPT !.got = None, !.version = s.got.version, !.doc = doc]
               t    == IF ~s.got.xml /\ s.got.doc # {} THEN D!Saving(read) ELSE read
           IN  Good(t, d, own, loose, n) /\ Follows(s, t, d, loose)
<1> DEFINE doc  == IF s.got.xml THEN s.got.doc ELSE s.doc \cup s.got.doc
           read == [s EXCEPT !.got = None, !.version = s.got.version, !.doc = doc]
           t    == IF ~s.got.xml /\ s.got.doc # {} THEN D!Saving(read) ELSE read
<1>1. s \in Opened /\ s.got \in D!Diagram /\ Sound(s.got, n) /\ d \in D!Diagram
  BY DEF Good, Page, Closed, Behind, Sound
<1>2. /\ read.open /\ read.kind = s.kind /\ read.got = None /\ read.doc = doc /\ read.version = s.got.version
      /\ read.timer = s.timer /\ read.sent = s.sent /\ read.again = s.again /\ read \in Opened
  BY <1>1 DEF Opened, D!Diagram, Docs
<1> HIDE DEF read
<1>3. Behind(read, d, n)
  BY <1>1, <1>2 DEF Good, Behind, Sound
<1>4. CASE s.got.xml
  <2>1. doc = s.got.doc /\ s.got.version > 0
    BY <1>1, <1>4 DEF Sound, D!Diagram
  <2>2. s.got.version = d.version => s.got = d
    BY DEF Good, Behind
  <2>3. Lacks(read, d, own)
    BY <1>1, <1>2, <1>4, <2>1, <2>2 DEF Good, Lacks, Loads, AtRow, Shows, Current, Pending, Took, Replacing
  <2>4. Sends(read, d, own, loose) /\ Loads(read, d, own, loose)
    BY <1>1, <1>2, <1>4, <2>1, <2>2 DEF Good, Sends, Loads, AtRow, Shows, Current, Pending, Took, Replacing
  <2>5. Holds(read, d, own, loose)
    BY <1>1, <1>2, <1>4, <2>1 DEF Good, Holds, Took, Settling, Replacing
  <2>6. Rereads(read, d, own, loose)
    BY <1>1, <1>2, <2>1, <2>2 DEF Rereads, Shows
  <2>7. Follows(s, read, d, loose)
    BY <1>1, <1>2, <1>4, <2>1, <2>2 DEF Follows, Lost, Shown, AtRow, Shows, Current, Pending, Took, Replacing, Settling
  <2> QED BY <1>2, <1>3, <1>4, <2>3, <2>4, <2>5, <2>6, <2>7 DEF Good, Page, read
<1>5. CASE ~s.got.xml
  <2>1. doc = s.doc \cup s.got.doc /\ s.got.version = 0 /\ s.got.doc \subseteq {0}
    BY <1>1, <1>5 DEF Sound, D!Diagram
  <2>2. Lacks(read, d, own) /\ Rereads(read, d, own, loose) /\ Loads(read, d, own, loose)
    BY <1>1, <1>2, <2>1 DEF Good, Lacks, Rereads, Loads, AtRow, Shows, Current, Pending, Took, Replacing
  <2>3. Follows(s, read, d, loose)
    BY <1>1, <1>2, <1>5, <2>1 DEF Follows, Lost, Shown, AtRow, Shows, Current, Pending, Took, Replacing, Settling
  <2>4. CASE s.got.doc = {} \/ s.kind = "conflict"
    <3>1. t = read
      BY <1>2, <2>4 DEF D!Saving
    <3>2. Sends(read, d, own, loose) /\ Holds(read, d, own, loose)
      BY <1>1, <1>2, <2>1, <2>4 DEF Good, Behind, Sends, Holds, AtRow, Pending, Took, Settling, Replacing
    <3> QED BY <1>2, <1>3, <2>2, <2>3, <3>1, <3>2 DEF Good, Page, read
  <2>5. CASE s.got.doc # {} /\ s.kind # "conflict" /\ s.sent = None
    <3>1. t = [read EXCEPT !.kind = "saving", !.sent = D!Request(read.version, read.doc)]
      BY <1>2, <1>5, <2>5 DEF D!Saving
    <3>2. D!Request(read.version, read.doc) \in D!Sent
      BY <1>2, NewRequest
    <3> DEFINE r == D!Request(read.version, read.doc)
    <3> HIDE DEF t, r
    <3>3. /\ t \in Opened /\ t.sent = r /\ t.kind = "saving" /\ t.version = read.version
          /\ t.doc = read.doc /\ t.got = read.got
      BY <1>2, <3>1, <3>2 DEF Opened, Kinds, r
    <3>4. Good(t, d, own, loose, n) /\ Follows(read, t, d, loose)
      BY <1>2, <1>3, <2>2, <3>3, SendingGood DEF r
    <3> QED BY <2>3, <3>4, FollowsOn DEF t, read
  <2>6. CASE s.got.doc # {} /\ s.kind # "conflict" /\ s.sent # None
    <3>1. t = [read EXCEPT !.again = TRUE]
      BY <1>2, <1>5, <2>6 DEF D!Saving
    <3> HIDE DEF t
    <3>2. /\ t \in Opened /\ t.sent = s.sent /\ t.kind = s.kind /\ t.version = read.version
          /\ t.doc = read.doc /\ t.got = None /\ t.again /\ t.open /\ t.timer = s.timer
      BY <1>2, <3>1 DEF Opened
    <3>3. Behind(t, d, n) /\ Lacks(t, d, own) /\ Rereads(t, d, own, loose) /\ Loads(t, d, own, loose)
      BY <1>2, <1>3, <2>2, <2>6, <3>2 DEF Behind, Lacks, Rereads, Loads, AtRow, Shows, Current, Pending, Took, Replacing, Refused
    <3>4. Sends(t, d, own, loose) /\ Holds(t, d, own, loose)
      BY <1>2, <2>1, <3>2 DEF Good, Sends, Holds, AtRow, Pending, Took, Settling, Replacing
    <3>5. Follows(read, t, d, loose)
      BY <1>2, <3>2 DEF Follows, Lost, Shown, AtRow, Shows, Current, Pending, Took, Replacing, Settling
    <3> QED BY <2>3, <3>2, <3>3, <3>4, <3>5, FollowsOn DEF t, read, Good, Page
  <2> QED BY <2>4, <2>5, <2>6
<1> QED BY <1>4, <1>5

\* What the answer handler does of s, whose request is over.
LEMMA AfterGood ==
    ASSUME NEW s \in Opened, NEW d, NEW own, NEW loose, NEW n \in Nat, Sound(d, n), s.sent # None,
           NEW s0, s0 \in Opened, Good(s0, d, own, loose, n),
           s.doc = s0.doc, s.got = s0.got, s.timer = s0.timer, s.again = s0.again,
           s.version <= d.version, s.version = s0.version \/ (Took(s0) /\ s.version = s0.sent.version),
           s.kind = "saved" => Took(s0), s.kind = "conflict" => Rereads(s, d, own, loose)
    PROVE  Good(D!After(s), d, own, loose, n) /\ Follows(s0, D!After(s), d, loose)
<1> DEFINE t == D!After(s)
           u == [s EXCEPT !.sent = None, !.again = FALSE]
<1>1. s.open /\ s0.open
  BY DEF Opened
<1>2. /\ u \in Opened /\ u.open /\ u.kind = s.kind /\ u.got = s.got /\ u.doc = s.doc /\ u.version = s.version
      /\ u.timer = s.timer /\ u.sent = None /\ u.again = FALSE
  BY DEF Opened
<1> HIDE DEF u
<1>3. Behind(u, d, n)
  <2>1. s0.sent # None => s0.sent.version \in Nat
    BY DEF Opened, D!Sent
  <2>2. d.version \in Nat
    BY DEF Sound, D!Diagram
  <2> QED BY <1>1, <1>2, <2>1, <2>2 DEF Good, Behind, Took
<1>4. ~AtRow(u, d) /\ ~Took(u) /\ (Current(u, d) => Current(s0, d)) /\ (Replacing(u) => Replacing(s0))
  BY <1>1, <1>2 DEF AtRow, Pending, Took, Shows, Current, Replacing
<1>5. Lacks(u, d, own) /\ Loads(u, d, own, loose)
  BY <1>1, <1>2, <1>4 DEF Good, Lacks, Loads
<1>6. Follows(s0, u, d, loose)
  BY <1>1, <1>2, <1>4 DEF Follows, Lost, Shown, AtRow, Shows, Current, Pending, Took, Replacing, Settling
<1>7. CASE ~s.again
  <2>1. t = u
    BY <1>2, <1>7 DEF D!After, u, Opened
  <2>2. Rereads(u, d, own, loose)
    BY <1>1, <1>2 DEF Rereads, Shows, Refused, Pending
  <2>3. Sends(u, d, own, loose) /\ Holds(u, d, own, loose)
    BY <1>1, <1>2, <1>4, <1>7 DEF Good, Sends, Holds, Settling
  <2> QED BY <1>2, <1>3, <1>5, <1>6, <2>1, <2>2, <2>3 DEF Good, Page
<1>8. CASE s.again
  <2> DEFINE r == D!Request(s.version, s.doc)
  <2>1. r \in D!Sent
    BY NewRequest
  <2>2. t = [s EXCEPT !.again = FALSE, !.kind = "saving", !.sent = r]
    BY <1>8 DEF D!After
  <2> HIDE DEF r, t
  <2>3. /\ t \in Opened /\ t.sent = r /\ t.kind = "saving" /\ t.version = u.version
        /\ t.doc = u.doc /\ t.got = u.got
    BY <1>2, <2>1, <2>2 DEF Opened, Kinds
  <2>4. Good(t, d, own, loose, n) /\ Follows(u, t, d, loose)
    BY <1>2, <1>3, <1>5, <2>3, SendingGood DEF r
  <2> QED BY <1>6, <2>4, FollowsOn DEF t
<1> QED BY <1>7, <1>8

\* The answer.
LEMMA AnswerGood ==
    ASSUME NEW s, NEW d, NEW own, NEW loose, NEW n \in Nat, Good(s, d, own, loose, n), Sound(d, n), s.open,
           s.sent # None, s.sent.answer # "none"
    PROVE  LET t == D!After(D!Answered(s)) IN Good(t, d, own, loose, n) /\ Follows(s, t, d, loose)
<1> DEFINE a == D!Answered(s)
<1>1. s \in Opened /\ s.sent \in D!Sent
  BY DEF Good, Page, Closed, Opened
<1>2. CASE s.sent.answer = "saved"
  <2>1. a = [s EXCEPT !.kind = "saved", !.version = s.sent.version]
    BY <1>2 DEF D!Answered
  <2> HIDE DEF a
  <2>2. /\ a \in Opened /\ a.kind = "saved" /\ a.version = s.sent.version /\ a.doc = s.doc /\ a.got = s.got
        /\ a.timer = s.timer /\ a.again = s.again /\ a.sent = s.sent
    BY <1>1, <2>1 DEF Opened, Kinds, D!Sent
  <2>3. a.version <= d.version /\ Took(s)
    BY <1>2, <2>2 DEF Good, Behind, Took
  <2> QED BY <1>1, <2>2, <2>3, AfterGood DEF a
<1>3. CASE s.sent.answer # "saved"
  <2>1. a = [s EXCEPT !.kind = "conflict"]
    BY <1>3 DEF D!Answered
  <2> HIDE DEF a
  <2>2. /\ a \in Opened /\ a.kind = "conflict" /\ a.version = s.version /\ a.doc = s.doc /\ a.got = s.got
        /\ a.timer = s.timer /\ a.again = s.again /\ a.sent = s.sent /\ a.open
    BY <1>1, <2>1 DEF Opened, Kinds
  <2>3. a.version <= d.version
    BY <1>1, <2>2 DEF Good, Behind, Opened
  <2>4. Rereads(a, d, own, loose)
    BY <1>1, <1>3, <2>2 DEF Good, Rereads, Shows, Refused, D!Sent, Opened
  <2> QED BY <1>1, <2>2, <2>3, <2>4, AfterGood DEF a
<1> QED BY <1>2, <1>3

\* A request that fails.
LEMMA FailGood ==
    ASSUME NEW s, NEW d, NEW own, NEW loose, NEW n \in Nat, Good(s, d, own, loose, n), Sound(d, n), s.open, s.sent # None
    PROVE  LET t == D!After([s EXCEPT !.kind = "error"]) IN Good(t, d, own, loose, n) /\ Follows(s, t, d, loose)
<1> DEFINE a == [s EXCEPT !.kind = "error"]
<1>1. s \in Opened
  BY DEF Good, Page, Closed
<1>2. /\ a \in Opened /\ a.kind = "error" /\ a.version = s.version /\ a.doc = s.doc /\ a.got = s.got
      /\ a.timer = s.timer /\ a.again = s.again /\ a.sent = s.sent /\ a.version <= d.version
  BY <1>1 DEF Opened, Kinds, Good, Behind
<1> HIDE DEF a
<1> QED BY <1>1, <1>2, AfterGood DEF a

\* A page that is opened.
LEMMA OpenGood ==
    ASSUME NEW s, NEW d, NEW own, NEW loose, NEW n \in Nat, Sound(d, n)
    PROVE  LET t == [open |-> TRUE, kind |-> "clean", got |-> d, doc |-> {}, version |-> 0,
                     err |-> FALSE, timer |-> FALSE, sent |-> None, again |-> FALSE]
           IN  Good(t, d, own, loose, n) /\ Follows(s, t, d, loose)
<1> DEFINE t == [open |-> TRUE, kind |-> "clean", got |-> d, doc |-> {}, version |-> 0,
                 err |-> FALSE, timer |-> FALSE, sent |-> None, again |-> FALSE]
<1>1. d \in D!Diagram /\ d.version \in Nat /\ d.version >= 0
  BY DEF Sound, D!Diagram
<1>2. /\ t.open /\ t.kind = "clean" /\ t.got = d /\ t.doc = {} /\ t.version = 0
      /\ t.timer = FALSE /\ t.sent = None /\ t.again = FALSE /\ t \in Opened
  BY <1>1 DEF Opened, Kinds, Docs
<1> HIDE DEF t
<1>3. Behind(t, d, n)
  BY <1>1, <1>2 DEF Behind
<1>4. /\ Lacks(t, d, own) /\ Sends(t, d, own, loose) /\ Loads(t, d, own, loose) /\ Rereads(t, d, own, loose)
      /\ Holds(t, d, own, loose) /\ Follows(s, t, d, loose)
  BY <1>1, <1>2 DEF Sound, Lacks, Sends, Loads, Rereads, Holds, Follows, AtRow, Shows, Current, Pending,
                    Took, Replacing, Settling, Refused
<1> QED BY <1>2, <1>3, <1>4 DEF t, Good, Page

\* A page that is reloaded after a conflict.
LEMMA ReloadGood ==
    ASSUME NEW s, NEW d, NEW own, NEW loose, NEW n \in Nat, Good(s, d, own, loose, n), Sound(d, n), s.open, s.kind = "conflict"
    PROVE  LET t == [s EXCEPT !.kind = "clean", !.got = d, !.err = FALSE]
           IN  Good(t, d, own, loose, n) /\ Follows(s, t, d, loose)
<1> DEFINE t == [s EXCEPT !.kind = "clean", !.got = d, !.err = FALSE]
<1>1. s \in Opened /\ d \in D!Diagram /\ s.sent = None
  BY DEF Good, Page, Closed, Sound, Behind
<1>2. /\ t.open /\ t.kind = "clean" /\ t.got = d /\ t.doc = s.doc /\ t.version = s.version
      /\ t.timer = s.timer /\ t.sent = None /\ t.again = s.again /\ t \in Opened
  BY <1>1 DEF Opened, Kinds
<1> HIDE DEF t
<1>3. Behind(t, d, n)
  BY <1>1, <1>2 DEF Good, Behind, D!Diagram
<1>4. /\ Lacks(t, d, own) /\ Sends(t, d, own, loose) /\ Rereads(t, d, own, loose) /\ Holds(t, d, own, loose)
  BY <1>1, <1>2 DEF Good, Lacks, Sends, Rereads, Holds, AtRow, Shows, Current, Pending, Took, Settling, Refused
<1>5. Loads(t, d, own, loose)
  BY <1>1, <1>2 DEF Good, Loads, Rereads, Sound, D!Diagram, AtRow, Shows, Current, Pending, Took, Replacing, Refused
<1>6. Follows(s, t, d, loose)
  BY <1>1, <1>2 DEF Follows, Lost, Shown, AtRow, Shows, Current, Pending, Took, Replacing, Settling
<1> QED BY <1>2, <1>3, <1>4, <1>5, <1>6 DEF t, Good, Page

\* What is said of more edits of its own, and more that could not be read.
LEMMA WiderGood ==
    ASSUME NEW s, NEW d, NEW own, NEW loose, NEW n \in Nat, Good(s, d, own, loose, n),
           NEW more, own \subseteq more, NEW wide, loose \subseteq wide
    PROVE  Good(s, d, more, wide, n)
<1>1. Lacks(s, d, more) /\ Sends(s, d, more, wide) /\ Rereads(s, d, more, wide)
  BY DEF Good, Lacks, Sends, Rereads
<1>2. Loads(s, d, more, wide)
  BY DEF Good, Loads
<1>3. Holds(s, d, more, wide)
  BY DEF Good, Holds
<1> QED BY <1>1, <1>2, <1>3 DEF Good

\* A load whose document cannot be read: the page goes on as it is, under that document's version.
LEMMA UnreadGood ==
    ASSUME NEW s, NEW d, NEW own, NEW loose, NEW n \in Nat, Good(s, d, own, loose, n), Sound(d, n), s.open,
           s.got # None, s.got.xml, s.got.doc \ s.doc \subseteq own \cap loose, s.doc \ s.got.doc \subseteq own \cap loose
    PROVE  LET t == [s EXCEPT !.got = None, !.version = s.got.version, !.kind = "error"]
           IN  Good(t, d, own, loose, n) /\ Follows(s, t, d, loose)
<1> DEFINE t == [s EXCEPT !.got = None, !.version = s.got.version, !.kind = "error"]
<1>1. s \in Opened /\ s.got \in D!Diagram /\ Sound(s.got, n) /\ d \in D!Diagram
  BY DEF Good, Page, Closed, Behind, Sound
<1>2. /\ t.open /\ t.kind = "error" /\ t.got = None /\ t.doc = s.doc /\ t.version = s.got.version
      /\ t.timer = s.timer /\ t.sent = s.sent /\ t.again = s.again /\ t \in Opened
  BY <1>1 DEF Opened, D!Diagram, Kinds
<1> HIDE DEF t
<1>3. Behind(t, d, n)
  BY <1>1, <1>2 DEF Good, Behind, Sound
<1>4. s.got.version = d.version => s.got = d
  BY DEF Good, Behind
<1>5. Lacks(t, d, own)
  BY <1>1, <1>2, <1>4 DEF Good, Lacks, AtRow, Shows, Current, Pending, Took
<1>6. Sends(t, d, own, loose) /\ Loads(t, d, own, loose) /\ Holds(t, d, own, loose)
  BY <1>1, <1>2 DEF Good, Sends, Loads, Holds, AtRow, Pending, Took, Replacing, Settling
<1>7. Rereads(t, d, own, loose)
  BY <1>1, <1>2, <1>4 DEF Rereads, Shows
<1>8. Follows(s, t, d, loose)
  BY <1>1, <1>2, <1>4 DEF Follows, Lost, Shown, AtRow, Shows, Current, Pending, Took, Replacing, Settling
<1> QED BY <1>2, <1>3, <1>5, <1>6, <1>7, <1>8 DEF Good, Page, t

\* A load that fails.
LEMMA LoadFailsGood ==
    ASSUME NEW s, NEW d, NEW own, NEW loose, NEW n \in Nat, Good(s, d, own, loose, n), s.open
    PROVE  LET t == [s EXCEPT !.got = None, !.err = TRUE] IN Good(t, d, own, loose, n) /\ Follows(s, t, d, loose)
<1> DEFINE t == [s EXCEPT !.got = None, !.err = TRUE]
<1>1. s \in Opened
  BY DEF Good, Page, Closed
<1>2. /\ t.open /\ t.kind = s.kind /\ t.got = None /\ t.doc = s.doc /\ t.version = s.version
      /\ t.timer = s.timer /\ t.sent = s.sent /\ t.again = s.again /\ t \in Opened
  BY <1>1 DEF Opened
<1> HIDE DEF t
<1>3. Behind(t, d, n)
  BY <1>1, <1>2 DEF Good, Behind
<1>4. Lacks(t, d, own) /\ Sends(t, d, own, loose) /\ Rereads(t, d, own, loose)
  BY <1>1, <1>2 DEF Good, Lacks, Sends, Rereads, AtRow, Shows, Current, Pending, Took, Refused
<1>5. Loads(t, d, own, loose) /\ Holds(t, d, own, loose)
  BY <1>1, <1>2 DEF Good, Loads, Holds, Took, Replacing, Settling
<1>6. Follows(s, t, d, loose)
  BY <1>1, <1>2 DEF Follows, Lost, Shown, AtRow, Shows, Current, Pending, Took, Replacing, Settling
<1> QED BY <1>2, <1>3, <1>4, <1>5, <1>6 DEF t, Good, Page

\* A page that is left.
LEMMA AwayGood ==
    ASSUME NEW s, NEW d, NEW own, NEW loose, NEW n \in Nat, Good(s, d, own, loose, n), s.open
    PROVE  LET t == D!Away(s.sent) IN Good(t, d, own, loose, n) /\ Follows(s, t, d, loose)
<1> DEFINE t == D!Away(s.sent)
<1>1. s \in Opened
  BY DEF Good, Page, Closed
<1>2. t.open = FALSE /\ t.sent = s.sent /\ t \in Closed
  BY <1>1 DEF D!Away, Closed, Opened
<1> HIDE DEF t
<1>3. /\ Behind(t, d, n) /\ Lacks(t, d, own) /\ Sends(t, d, own, loose) /\ Rereads(t, d, own, loose)
      /\ Holds(t, d, own, loose) /\ Loads(t, d, own, loose)
  BY <1>1, <1>2 DEF Good, Behind, Lacks, Sends, Rereads, Holds, Loads, AtRow, Shows, Current, Pending, Took,
                    Replacing, Settling, Refused
<1>4. Follows(s, t, d, loose)
  BY <1>1, <1>2 DEF Follows, Lost, Shown, AtRow, Shows, Current, Pending, Took, Replacing, Settling
<1> QED BY <1>2, <1>3, <1>4 DEF t, Good, Page

-----------------------------------------------------------------------------
(* The server's steps *)

\* The diagram after the save of s.
TakenAs(s, d) == [version |-> d.version + 1, doc |-> s.sent.doc, xml |-> TRUE]
Told(s, answer, v) == [s EXCEPT !.sent = [s.sent EXCEPT !.answer = answer, !.version = v]]
Taken(s, d)   == Told(s, "saved", d.version + 1)

\* Fields of an editor whose request is answered.
LEMMA Answering ==
    ASSUME NEW s \in Page, s.sent # None, NEW answer \in {"saved", "conflict"}, NEW v \in Nat
    PROVE  LET t == Told(s, answer, v)
           IN  /\ t \in Page /\ t.open = s.open /\ t.sent # None
               /\ t.sent.answer = answer /\ t.sent.version = v /\ t.sent.doc = s.sent.doc
               /\ s.open => /\ t.kind = s.kind /\ t.got = s.got /\ t.doc = s.doc /\ t.version = s.version
                            /\ t.timer = s.timer /\ t.again = s.again
<1> DEFINE r == [s.sent EXCEPT !.answer = answer, !.version = v]
           t == [s EXCEPT !.sent = r]
<1>1. s.sent \in D!Sent
  BY DEF Page, Closed, Opened
<1>2. r \in D!Sent /\ r.answer = answer /\ r.version = v /\ r.doc = s.sent.doc
  BY <1>1 DEF D!Sent
<1>3. r # None
  BY <1>2, DiagramAssumption
<1> HIDE DEF r
<1>4. t \in Page /\ t.open = s.open /\ t.sent = r
  BY <1>2 DEF Page, Closed, Opened
<1>5. s.open => /\ t.kind = s.kind /\ t.got = s.got /\ t.doc = s.doc /\ t.version = s.version
                /\ t.timer = s.timer /\ t.again = s.again
  BY DEF Page, Closed, Opened
<1> QED BY <1>2, <1>3, <1>4, <1>5 DEF r, Told

\* A save that is taken in, for the editor it came from.
LEMMA TakenGood ==
    ASSUME NEW s, NEW d, NEW own, NEW loose, NEW n \in Nat, Good(s, d, own, loose, n), Sound(d, n), AtRow(s, d)
    PROVE  /\ Sound(TakenAs(s, d), n) /\ Good(Taken(s, d), TakenAs(s, d), own, loose, n)
           /\ Lost(Taken(s, d), TakenAs(s, d)) \subseteq own
           /\ Lost(Taken(s, d), TakenAs(s, d)) \cap d.doc \subseteq Lost(s, d)
<1> DEFINE t == Taken(s, d)
           d2 == TakenAs(s, d)
<1>1. s \in Page /\ s.sent # None /\ s.sent \in D!Sent /\ d \in D!Diagram /\ d.version \in Nat
  BY DEF Good, AtRow, Pending, Page, Closed, Opened, Sound, D!Diagram
<1>2. /\ d2.version = d.version + 1 /\ d2.doc = s.sent.doc /\ d2.xml = TRUE /\ d2 \in D!Diagram
      /\ Sound(d2, n)
  BY <1>1 DEF TakenAs, D!Diagram, D!Sent, Sound, Good, Behind
<1>3. /\ t \in Page /\ t.open = s.open /\ t.sent # None
      /\ t.sent.answer = "saved" /\ t.sent.version = d.version + 1 /\ t.sent.doc = s.sent.doc
      /\ s.open => /\ t.kind = s.kind /\ t.got = s.got /\ t.doc = s.doc /\ t.version = s.version
                   /\ t.timer = s.timer /\ t.again = s.again
  <2>1. d.version + 1 \in Nat /\ "saved" \in {"saved", "conflict"}
    BY <1>1
  <2> QED BY <1>1, <2>1, Answering DEF Taken
<1> HIDE DEF t, d2
<1>4. s.open => s.version \in Nat /\ s.version <= d.version /\ (s.got # None => s.got.version \in Nat)
  BY <1>1 DEF Good, Behind, Page, Opened, Closed, Sound, D!Diagram
<1>5. s.open => s.kind \notin {"saved", "conflict"}
  BY <1>1 DEF Good, Behind
<1>6. Behind(t, d2, n)
  <2>1. s.sent.doc \subseteq 0..n
    BY <1>1 DEF Good, Behind
  <2>2. s.open => /\ s.doc \subseteq 0..n /\ s.version <= d2.version
                  /\ s.got # None => Sound(s.got, n) /\ s.got.version <= d2.version /\ s.got.version # d2.version
    BY <1>1, <1>2, <1>4 DEF Good, Behind
  <2> QED BY <1>1, <1>2, <1>3, <1>5, <2>1, <2>2 DEF Behind
<1>7. Current(s, d) /\ Current(t, d2) /\ ~AtRow(t, d2) /\ ~Shows(t, d2) /\ (Replacing(t) <=> Replacing(s))
  BY <1>1, <1>2, <1>3, <1>4 DEF Current, AtRow, Pending, Took, Shows, Replacing
<1>8. Lacks(t, d2, own) /\ Sends(t, d2, own, loose) /\ Rereads(t, d2, own, loose)
  BY <1>2, <1>3, <1>7 DEF Good, Lacks, Sends, Rereads
<1>9. Loads(t, d2, own, loose)
  BY <1>2, <1>3, <1>7 DEF Good, Loads, Replacing
<1>10. Holds(t, d2, own, loose)
  BY <1>2, <1>3, <1>7 DEF Good, Holds, Sends, Loads, Settling, Replacing
<1>11. Lost(t, d2) \subseteq own
  BY <1>2, <1>3, <1>7 DEF Good, Lost, Sends, Loads, Replacing
<1>12. Lost(t, d2) \cap d.doc \subseteq Lost(s, d)
  BY <1>2, <1>3, <1>7 DEF Lost, Replacing
<1> QED BY <1>2, <1>3, <1>6, <1>8, <1>9, <1>10, <1>11, <1>12 DEF Good, t, d2

\* For another editor.
LEMMA OthersTaken ==
    ASSUME NEW s, NEW d, NEW own, NEW loose, NEW n \in Nat, Good(s, d, own, loose, n), Sound(d, n), AtRow(s, d),
           NEW g, NEW theirs, Good(g, d, theirs, loose, n), Apart(s, g, d, loose), own \cap theirs \subseteq loose, 0 \in own => 0 \in loose
    PROVE  /\ Good(g, TakenAs(s, d), theirs, loose, n) /\ ~Current(g, TakenAs(s, d))
           /\ Apart(Taken(s, d), g, TakenAs(s, d), loose)
<1> DEFINE t == Taken(s, d)
           d2 == TakenAs(s, d)
<1>1. /\ Lost(t, d2) \subseteq own /\ Lost(t, d2) \cap d.doc \subseteq Lost(s, d)
      /\ d2.version = d.version + 1 /\ d2.doc = s.sent.doc /\ d.version \in Nat
  BY TakenGood DEF TakenAs, Sound, D!Diagram
<1>2. /\ g.open => g.version \in Nat /\ g.version <= d.version /\ (g.got # None => g.got.version \in Nat)
      /\ g.sent # None => g.sent.version \in Nat /\ g.sent.version <= d.version
  BY DEF Good, Behind, Page, Opened, Closed, Sound, D!Diagram, D!Sent
<1> HIDE DEF t, d2
<1>3. ~Current(g, d2) /\ ~AtRow(g, d2) /\ ~Shows(g, d2)
  BY <1>1, <1>2 DEF Current, AtRow, Pending, Took, Shows
<1>4. Behind(g, d2, n)
  BY <1>1, <1>2 DEF Good, Behind
<1>5. Lacks(g, d2, theirs) /\ Sends(g, d2, theirs, loose) /\ Loads(g, d2, theirs, loose) /\ Rereads(g, d2, theirs, loose)
  BY <1>3 DEF Lacks, Sends, Loads, Rereads
<1>6. Settling(g) => \A x \in Shown(g) \cap d.doc : x \in d2.doc \cup loose
  <2> SUFFICES ASSUME Settling(g), NEW x \in Shown(g) \cap d.doc, x \notin d2.doc, x \notin loose PROVE FALSE
    OBVIOUS
  <2>1. d.version > 0
    BY <1>1, <1>2 DEF Settling, Took, Good, Behind
  <2>2. x \in own
    BY <1>1, <2>1 DEF Good, Lacks
  <2> QED BY <1>1, <2>2 DEF Apart, Current, Lost
<1>7. Holds(g, d2, theirs, loose)
  <2> SUFFICES ASSUME Settling(g) PROVE Holds(g, d2, theirs, loose)
    BY DEF Holds
  <2> QED BY <1>6 DEF Good, Holds, Shown
<1>8. Apart(t, g, d2, loose)
  <2> SUFFICES ASSUME Settling(g), NEW x \in Lost(t, d2) \cap Shown(g), x # 0, x \notin loose PROVE FALSE
    BY DEF Apart
  <2>1. x \notin d.doc
    BY <1>1 DEF Apart, Current
  <2> QED BY <1>1, <2>1 DEF Good, Holds, Shown
<1> QED BY <1>3, <1>4, <1>5, <1>7, <1>8 DEF Good, t, d2

\* A save under a version that is not the diagram's.
LEMMA RefusedGood ==
    ASSUME NEW s, NEW d, NEW own, NEW loose, NEW n \in Nat, Good(s, d, own, loose, n), Sound(d, n), Pending(s), ~AtRow(s, d)
    PROVE  LET t == Told(s, "conflict", d.version) IN Good(t, d, own, loose, n) /\ Follows(s, t, d, loose)
<1> DEFINE t == Told(s, "conflict", d.version)
<1>1. s \in Page /\ s.sent # None /\ s.sent.answer = "none" /\ d.version \in Nat
  BY DEF Good, Pending, Sound, D!Diagram
<1>2. /\ t \in Page /\ t.open = s.open /\ t.sent # None
      /\ t.sent.answer = "conflict" /\ t.sent.version = d.version /\ t.sent.doc = s.sent.doc
      /\ s.open => /\ t.kind = s.kind /\ t.got = s.got /\ t.doc = s.doc /\ t.version = s.version
                   /\ t.timer = s.timer /\ t.again = s.again
  <2>1. "conflict" \in {"saved", "conflict"}
    OBVIOUS
  <2> QED BY <1>1, <2>1, Answering
<1> HIDE DEF t
<1>3. Behind(t, d, n)
  BY <1>1, <1>2 DEF Good, Behind
<1>4. /\ ~AtRow(t, d) /\ ~Took(t) /\ (Shows(t, d) <=> Shows(s, d)) /\ (Current(t, d) => Current(s, d))
      /\ (Replacing(t) <=> Replacing(s)) /\ (Settling(t) => Settling(s))
  BY <1>1, <1>2 DEF AtRow, Pending, Took, Shows, Current, Replacing, Settling
<1>5. Lacks(t, d, own) /\ Sends(t, d, own, loose) /\ Holds(t, d, own, loose)
  BY <1>2, <1>4 DEF Good, Lacks, Sends, Holds, Settling
<1>6. Loads(t, d, own, loose)
  BY <1>2, <1>4 DEF Good, Loads, Replacing
<1>7. Rereads(t, d, own, loose)
  BY <1>1, <1>2, <1>4 DEF Good, Rereads, Refused, Pending, AtRow, Shows
<1>8. Follows(s, t, d, loose)
  BY <1>2, <1>4 DEF Follows, Lost, Shown, Settling, Replacing
<1> QED BY <1>2, <1>3, <1>5, <1>6, <1>7, <1>8 DEF Good, t

-----------------------------------------------------------------------------
(* The invariant *)

\* Edits are of one editor each, and the import is nobody's, but for those that could not be read.
LEMMA OwnApart ==
    ASSUME made \in Seq(Editors), NEW e \in Editors, NEW f \in Editors, e # f
    PROVE  Own(e) \cap Own(f) \subseteq D!Unread /\ (0 \in Own(e) => 0 \in D!Unread)
<1>1. unread[e] \subseteq D!Unread /\ unread[f] \subseteq D!Unread
  BY DEF D!Unread
<1> QED BY <1>1 DEF Own

\* A page that settles has been saved once.
LEMMA SettlingSaved ==
    ASSUME NEW s, NEW d, NEW own, NEW loose, NEW n \in Nat, Good(s, d, own, loose, n), Sound(d, n), Settling(s)
    PROVE  d.version > 0
<1>1. d.version \in Nat /\ (s.sent # None => s.sent.version \in Nat)
  BY DEF Sound, D!Diagram, D!Sent, Good, Page, Closed, Opened
<1> QED BY <1>1 DEF Good, Behind, Settling, Took

\* A step of one editor, by which more edits may be made and found unreadable.
LEMMA EditorStep ==
    ASSUME DInv, NEW e \in Editors, NEW t, NEW loose, NEW wide, loose = D!Unread, wide = D!Unread', loose \subseteq wide,
           Follows(ed[e], t, row, wide), Good(t, row, Own(e)', wide, Len(made')),
           ed' = [ed EXCEPT ![e] = t], row' = row, made' \in Seq(Editors), Sound(row, Len(made')),
           unread' \in [Editors -> SUBSET Nat],
           \A f \in Editors : f # e => Good(ed[f], row, Own(f)', wide, Len(made'))
    PROVE  DInv'
<1>1. ed'[e] = t /\ \A f \in Editors : f # e => ed'[f] = ed[f]
  BY DEF DInv
<1>2. ed' \in [Editors -> Page]
  BY DEF DInv, Good
<1>3. \A f \in Editors : Good(ed'[f], row, Own(f)', wide, Len(made'))
  BY <1>1
<1>4. ASSUME NEW f \in Editors, NEW g \in Editors, f # g
      PROVE  Apart(ed'[f], ed'[g], row, wide)
  <2>1. Apart(ed[f], ed[g], row, loose)
    BY <1>4 DEF DInv
  <2>2. Apart(ed[f], ed[g], row, wide)
    BY <2>1 DEF Apart
  <2>3. CASE f = e
    <3>1. Settling(ed[g]) => row.version > 0
      <4>1. Len(made) \in Nat /\ Good(ed[g], row, Own(g), loose, Len(made)) /\ Sound(row, Len(made))
        BY DEF DInv
      <4> QED BY <4>1, SettlingSaved
    <3>2. Apart(t, ed[g], row, wide)
      BY <2>2, <2>3, <3>1 DEF Apart, Follows
    <3> QED BY <1>1, <1>4, <2>3, <3>2
  <2>4. CASE g = e
    <3>1. Apart(ed[f], t, row, wide)
      <4> SUFFICES ASSUME Current(ed[f], row), Settling(t), NEW x \in Lost(ed[f], row) \cap Shown(t),
                          x # 0, x \notin wide
                   PROVE  FALSE
        BY DEF Apart
      <4>1. x \in row.doc
        BY DEF Lost
      <4>2. Settling(ed[e]) /\ x \in Shown(ed[e])
        BY <4>1 DEF Follows
      <4> QED BY <2>2, <2>4, <4>2 DEF Apart
    <3> QED BY <1>1, <1>4, <2>4, <3>1
  <2> QED BY <1>1, <2>2, <2>3, <2>4
<1> QED BY <1>2, <1>3, <1>4 DEF DInv

\* The same, when nothing is edited and all is read.
LEMMA QuietStep ==
    ASSUME DInv, NEW e \in Editors, NEW t, Follows(ed[e], t, row, D!Unread), Good(t, row, Own(e), D!Unread, Len(made)),
           ed' = [ed EXCEPT ![e] = t], row' = row, made' = made, unread' = unread
    PROVE  DInv'
<1>1. D!Unread' = D!Unread /\ \A f \in Editors : Own(f)' = Own(f)
  BY DEF Own, D!Unread
<1>2. /\ made' \in Seq(Editors) /\ Len(made') = Len(made) /\ Sound(row, Len(made'))
      /\ unread' \in [Editors -> SUBSET Nat]
      /\ \A f \in Editors : Good(ed[f], row, Own(f)', D!Unread', Len(made'))
  BY <1>1 DEF DInv
<1>3. Good(t, row, Own(e)', D!Unread', Len(made'))
  BY <1>1, <1>2
<1> QED BY <1>1, <1>2, <1>3, EditorStep

\* A save that is taken in.
LEMMA TakenStep ==
    ASSUME DInv, NEW e \in Editors, AtRow(ed[e], row), row' = TakenAs(ed[e], row),
           ed' = [ed EXCEPT ![e] = Taken(ed[e], row)], made' = made,
           unread' = unread
    PROVE  DInv'
<1>1. /\ Len(made) \in Nat /\ Sound(row, Len(made)) /\ made \in Seq(Editors) /\ ed \in [Editors -> Page]
      /\ unread \in [Editors -> SUBSET Nat]
      /\ \A f \in Editors : Good(ed[f], row, Own(f), D!Unread, Len(made))
      /\ \A f, g \in Editors : f # g => Apart(ed[f], ed[g], row, D!Unread)
  BY DEF DInv
<1>2. ed'[e] = Taken(ed[e], row) /\ \A f \in Editors : f # e => ed'[f] = ed[f]
  BY <1>1
<1>3. D!Unread' = D!Unread /\ \A f \in Editors : Own(f)' = Own(f)
  BY DEF Own, D!Unread
<1>4. Sound(row', Len(made)) /\ Good(ed'[e], row', Own(e), D!Unread, Len(made))
  BY <1>1, <1>2, TakenGood
<1>5. ASSUME NEW f \in Editors, f # e
      PROVE  /\ Good(ed'[f], row', Own(f), D!Unread, Len(made)) /\ ~Current(ed'[f], row')
             /\ Apart(ed'[e], ed'[f], row', D!Unread)
  <2>1. Own(e) \cap Own(f) \subseteq D!Unread /\ (0 \in Own(e) => 0 \in D!Unread)
    BY <1>1, <1>5, OwnApart
  <2>2. Good(ed[e], row, Own(e), D!Unread, Len(made)) /\ Good(ed[f], row, Own(f), D!Unread, Len(made)) /\ Apart(ed[e], ed[f], row, D!Unread)
    BY <1>1, <1>5
  <2> QED BY <1>1, <1>2, <1>5, <2>1, <2>2, OthersTaken
<1>6. ed' \in [Editors -> Page]
  BY <1>1, <1>4, <1>2 DEF Good
<1>7. ASSUME NEW f \in Editors, NEW g \in Editors, f # g PROVE Apart(ed'[f], ed'[g], row', D!Unread)
  BY <1>5, <1>7 DEF Apart
<1> QED BY <1>1, <1>3, <1>4, <1>5, <1>6, <1>7 DEF DInv

\* The first states satisfy the invariant.
LEMMA DiagramInit == D!Init => DInv
<1> SUFFICES ASSUME D!Init PROVE DInv
  OBVIOUS
<1>1. made = <<>> /\ made \in Seq(Editors) /\ Len(made) = 0
  BY DEF D!Init
<1>2. Sound(row, 0)
  <2>1. row.version = 0 /\ row.doc \subseteq {0} /\ row.xml = FALSE /\ row \in D!Diagram
    <3>1. row \in [version : {0}, doc : {{}, {0}}, xml : {FALSE}]
      BY DEF D!Init, D!Imported
    <3>2. row.version = 0 /\ row.doc \in {{}, {0}} /\ row.xml = FALSE
      BY <3>1
    <3>3. \A x \in {{}, {0}} : x \subseteq {0} /\ x \in SUBSET Nat
      OBVIOUS
    <3>4. row \in D!Diagram
      BY <3>1, <3>3 DEF D!Diagram
    <3> QED BY <3>2, <3>3, <3>4
  <2> QED BY <2>1 DEF Sound
<1>3. ASSUME NEW e \in Editors
      PROVE  /\ ed[e] \in Page /\ ~ed[e].open /\ ed[e].sent = None
             /\ Good(ed[e], row, Own(e), D!Unread, 0)
  <2>1. ed[e] = [open |-> FALSE, sent |-> None]
    BY DEF D!Init, D!Away
  <2>2. ed[e] \in Page /\ ~ed[e].open /\ ed[e].sent = None
    BY <2>1 DEF Page, Closed
  <2> QED BY <2>2 DEF Good, Behind, Lacks, Sends, Loads, Rereads, Holds, AtRow, Shows, Pending, Replacing, Settling
<1>4. \A e, f \in Editors : Apart(ed[f], ed[e], row, D!Unread)
  BY <1>3 DEF Apart, Settling
<1>5. ed \in [Editors -> Page]
  <2>1. ed = [e \in Editors |-> D!Away(None)]
    BY DEF D!Init
  <2> QED BY <1>3, <2>1
<1>6. unread \in [Editors -> SUBSET Nat]
  BY DEF D!Init
<1> QED BY <1>1, <1>2, <1>3, <1>4, <1>5, <1>6 DEF DInv

\* Every step keeps it, by one of the lemmas above.
LEMMA DiagramNext == DInv /\ [D!Next]_D!vars => DInv'
<1> SUFFICES ASSUME DInv, [D!Next]_D!vars PROVE DInv'
  OBVIOUS
<1>1. CASE UNCHANGED D!vars
  <2>1. D!Unread' = D!Unread /\ \A e \in Editors : Own(e)' = Own(e)
    BY <1>1 DEF D!vars, Own, D!Unread
  <2> QED BY <1>1, <2>1 DEF D!vars, DInv
<1>2. ASSUME NEW e \in Editors,
             \/ D!OpenPage(e) \/ D!Reload(e) \/ D!Loaded(e) \/ D!LoadedUnread(e) \/ D!LoadFails(e) \/ D!Edit(e)
             \/ D!Timer(e) \/ D!SaveNow(e) \/ D!SaveDiagram(e) \/ D!Answer(e) \/ D!Fail(e) \/ D!ClosePage(e)
      PROVE  DInv'
  <2>1. /\ Len(made) \in Nat /\ Sound(row, Len(made)) /\ made \in Seq(Editors) /\ ed \in [Editors -> Page]
        /\ Good(ed[e], row, Own(e), D!Unread, Len(made))
    BY DEF DInv
  <2>2. CASE D!OpenPage(e)
    BY <2>1, <2>2, OpenGood, QuietStep DEF D!OpenPage
  <2>3. CASE D!Reload(e)
    <3>1. ed' = [ed EXCEPT ![e] = [ed[e] EXCEPT !.kind = "clean", !.got = row, !.err = FALSE]]
      BY <2>1, <2>3 DEF D!Reload
    <3> QED BY <2>1, <2>3, <3>1, ReloadGood, QuietStep DEF D!Reload, D!Open
  <2>4. CASE D!Loaded(e)
    BY <2>1, <2>4, LoadedGood, QuietStep DEF D!Loaded, D!Open
  <2>5. CASE D!Edit(e)
    <3>1. DEFINE n == Len(made)
                 t == [ed[e] EXCEPT !.doc = @ \cup {n + 1}, !.timer = (ed[e].kind # "conflict"),
                                    !.kind = IF @ = "conflict" THEN @ ELSE "dirty"]
    <3>2. made' = Append(made, e) /\ made' \in Seq(Editors) /\ Len(made') = n + 1 /\ row' = row
      BY <2>1, <2>5 DEF D!Edit
    <3>3. ed' = [ed EXCEPT ![e] = t]
      BY <2>1, <2>5, <3>2 DEF D!Edit
    <3>4. /\ Own(e)' = Own(e) \cup {n + 1} /\ (\A f \in Editors : f # e => Own(f)' = Own(f))
          /\ D!Unread' = D!Unread /\ unread' = unread /\ unread \in [Editors -> SUBSET Nat]
      BY <2>1, <2>5, <3>2 DEF Own, D!Unread, D!Edit, DInv
    <3>5. Good(t, row, Own(e)', D!Unread, Len(made')) /\ Follows(ed[e], t, row, D!Unread)
      <4>1. ed[e].open
        BY <2>5 DEF D!Edit, D!Open
      <4>2. Good(t, row, Own(e) \cup {n + 1}, D!Unread, n + 1) /\ Follows(ed[e], t, row, D!Unread)
        BY <2>1, <4>1, EditGood
      <4> QED BY <3>2, <3>4, <4>2
    <3>6. \A f \in Editors : f # e => Good(ed[f], row, Own(f)', D!Unread, Len(made'))
      BY <2>1, <3>2, <3>4, MoreGood DEF DInv
    <3>7. Sound(row, Len(made'))
      BY <2>1, <3>2 DEF Sound
    <3> QED BY <3>2, <3>3, <3>4, <3>5, <3>6, <3>7, EditorStep
  <2>6. CASE D!Timer(e) \/ D!SaveNow(e)
    <3>1. ed' = [ed EXCEPT ![e] = D!Saving([ed[e] EXCEPT !.timer = FALSE])]
      BY <2>1, <2>6 DEF D!Timer, D!SaveNow, D!Save
    <3> QED BY <2>1, <2>6, <3>1, SavingGood, QuietStep DEF D!Timer, D!SaveNow, D!Open
  <2>7. CASE D!SaveDiagram(e)
    <3>1. Pending(ed[e]) /\ made' = made /\ unread' = unread
      BY <2>7 DEF D!SaveDiagram, Pending
    <3>2. CASE D!Accepts(ed[e].sent)
      <4>1. AtRow(ed[e], row)
        BY <3>1, <3>2 DEF D!Accepts, AtRow
      <4>2. row' = TakenAs(ed[e], row)
        BY <2>7, <3>2 DEF D!SaveDiagram, TakenAs
      <4>3. ed' = [ed EXCEPT ![e] = Taken(ed[e], row)]
        BY <2>1, <2>7, <3>2, <4>2 DEF D!SaveDiagram, Taken, Told, TakenAs
      <4> QED BY <3>1, <4>1, <4>2, <4>3, TakenStep
    <3>3. CASE ~D!Accepts(ed[e].sent)
      <4>1. ~AtRow(ed[e], row)
        BY <3>3 DEF D!Accepts, AtRow
      <4>2. row' = row /\ ed' = [ed EXCEPT ![e] = Told(ed[e], "conflict", row.version)]
        BY <2>1, <2>7, <3>3 DEF D!SaveDiagram, Told
      <4> QED BY <2>1, <3>1, <4>1, <4>2, RefusedGood, QuietStep
    <3> QED BY <3>2, <3>3
  <2>8. CASE D!Answer(e)
    BY <2>1, <2>8, AnswerGood, QuietStep DEF D!Answer, D!Open
  <2>9. CASE D!Fail(e)
    <3>1. ed' = [ed EXCEPT ![e] = D!After([ed[e] EXCEPT !.kind = "error"])]
      BY <2>1, <2>9 DEF D!Fail
    <3> QED BY <2>1, <2>9, <3>1, FailGood, QuietStep DEF D!Fail, D!Open
  <2>10. CASE D!ClosePage(e)
    BY <2>1, <2>10, AwayGood, QuietStep DEF D!ClosePage, D!Open
  <2>11. CASE D!LoadedUnread(e)
    <3> DEFINE s == ed[e]
               t == [s EXCEPT !.got = None, !.version = s.got.version, !.kind = "error"]
               odd == (s.got.doc \ s.doc) \cup (s.doc \ s.got.doc)
    <3>1. /\ s.open /\ s.got # None /\ s.got.xml /\ ed' = [ed EXCEPT ![e] = t]
          /\ row' = row /\ made' = made /\ unread \in [Editors -> SUBSET Nat]
          /\ unread' = [unread EXCEPT ![e] = unread[e] \cup odd]
      BY <2>11 DEF D!LoadedUnread, D!Open, DInv
    <3>2. odd \subseteq Nat
      BY <2>1, <3>1 DEF Page, Opened, Closed, D!Diagram, Docs
    <3> HIDE DEF s, t, odd
    <3>3. /\ unread'[e] = unread[e] \cup odd /\ unread' \in [Editors -> SUBSET Nat]
          /\ \A f \in Editors : unread[f] \subseteq unread'[f]
      BY <3>1, <3>2
    <3>4. D!Unread \subseteq D!Unread' /\ odd \subseteq D!Unread'
      BY <3>3 DEF D!Unread
    <3>5. odd \subseteq Own(e)' /\ \A f \in Editors : Own(f) \subseteq Own(f)'
      BY <3>1, <3>3 DEF Own
    <3>6. \A f \in Editors : Good(ed[f], row, Own(f)', D!Unread', Len(made))
      <4> TAKE f \in Editors
      <4>1. Good(ed[f], row, Own(f), D!Unread, Len(made))
        BY DEF DInv
      <4> QED BY <2>1, <3>4, <3>5, <4>1, WiderGood
    <3>7. Good(t, row, Own(e)', D!Unread', Len(made)) /\ Follows(ed[e], t, row, D!Unread')
      <4>1. Good(s, row, Own(e)', D!Unread', Len(made))
        BY <3>6 DEF s
      <4>2. s.got.doc \ s.doc \subseteq Own(e)' \cap D!Unread' /\ s.doc \ s.got.doc \subseteq Own(e)' \cap D!Unread'
        BY <3>4, <3>5 DEF odd
      <4> QED BY <2>1, <3>1, <4>1, <4>2, UnreadGood DEF s, t
    <3> QED BY <2>1, <3>1, <3>3, <3>4, <3>6, <3>7, EditorStep
  <2>12. CASE D!LoadFails(e)
    <3>1. ed' = [ed EXCEPT ![e] = [ed[e] EXCEPT !.got = None, !.err = TRUE]]
      BY <2>1, <2>12 DEF D!LoadFails
    <3> QED BY <2>1, <2>12, <3>1, LoadFailsGood, QuietStep DEF D!LoadFails, D!Open
  <2> QED BY <1>2, <2>2, <2>3, <2>4, <2>5, <2>6, <2>7, <2>8, <2>9, <2>10, <2>11, <2>12
<1> QED BY <1>1, <1>2 DEF D!Next

\* The invariant: what editors know of the diagram, on their pages and in their requests, holds
\* through every step of a page, of the network and of the handler.
THEOREM DiagramInvariance == D!Spec => []DInv
BY DiagramInit, DiagramNext, PTL DEF D!Spec

\* Every edit on a page that shows "Saved" (DiagramEditorPage) is on the server, once no timer runs and no
\* load is under way, for any number of editors; but for edits that some editor could not read. (The
\* server may have more: edits this page took off while it loaded.)
THEOREM SavedIsThere == D!Spec => []SavedIsSaved
<1>1. DInv => SavedIsSaved
  <2> SUFFICES ASSUME DInv, NEW e \in Editors, ed[e].open, ed[e].kind = "saved", ~ed[e].timer
               PROVE  ed[e].doc \subseteq row.doc \cup D!Unread
    BY DEF SavedIsSaved, D!SavedIsSaved, D!Open
  <2>1. Good(ed[e], row, Own(e), D!Unread, Len(made))
    BY DEF DInv
  <2> QED BY <2>1 DEF Good, Behind, Holds, Settling
<1> QED BY <1>1, DiagramInvariance, PTL

\* A save that is accepted (the conditional UPDATE of save_diagram) takes off the diagram nothing but
\* edits of the editor that saves, and edits it was told it could not read.
THEOREM OthersAreKept == D!Spec => AcceptedStays
<1> DEFINE Kept == row.version > 0 /\ row' # row =>
                     \E e \in Editors : /\ ed'[e].sent # ed[e].sent
                                        /\ \A x \in row.doc \ row'.doc :
                                              x \in unread[e] \/ (x # D!Imported /\ made[x] = e)
<1>1. DInv /\ [D!Next]_D!vars => [Kept]_D!vars
  <2> SUFFICES ASSUME DInv, D!Next, row.version > 0, row' # row PROVE Kept
    OBVIOUS
  <2>1. PICK e \in Editors : D!SaveDiagram(e)
    BY DEF D!Next, D!OpenPage, D!Reload, D!Loaded, D!LoadedUnread, D!LoadFails, D!Edit, D!Timer, D!SaveNow,
           D!Answer, D!Fail, D!ClosePage
  <2>2. /\ Good(ed[e], row, Own(e), D!Unread, Len(made)) /\ ed \in [Editors -> Page] /\ made \in Seq(Editors)
        /\ AtRow(ed[e], row) /\ row'.doc = ed[e].sent.doc
        /\ ed' = [ed EXCEPT ![e].sent = [ed[e].sent EXCEPT !.answer = "saved", !.version = row'.version]]
    BY <2>1 DEF DInv, D!SaveDiagram, D!Accepts, AtRow, Pending
  <2>3. ed'[e].sent # ed[e].sent
    <3>1. ed[e] \in Page /\ ed[e].sent \in D!Sent /\ ed[e].sent.answer = "none"
      BY <2>2 DEF AtRow, Pending, Page, Closed, Opened
    <3> DEFINE r == [ed[e].sent EXCEPT !.answer = "saved", !.version = row'.version]
    <3>2. r.answer = "saved"
      BY <3>1 DEF D!Sent
    <3>3. ed'[e].sent = r
      BY <2>2, <3>1 DEF Page, Closed, Opened
    <3> QED BY <3>1, <3>2, <3>3
  <2>4. \A x \in row.doc \ row'.doc : x \in unread[e] \/ (x # D!Imported /\ made[x] = e)
    BY <2>2 DEF Good, Lacks, Own, D!Imported
  <2> QED BY <2>3, <2>4
<1> QED BY <1>1, DiagramInvariance, PTL DEF D!Spec, AcceptedStays, D!AcceptedStays

=============================================================================
