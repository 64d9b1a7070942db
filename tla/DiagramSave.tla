---------------------------- MODULE DiagramSave ----------------------------
(* A diagram, saved whole by the editors that have it open                    *)
(* (DiagramEditorPage.tsx) under a version the server checks (diagrams.py). A *)
(* document is the set of edits it holds, by number; undo and deletion are     *)
(* edits too.                                                                 *)
EXTENDS Naturals, Sequences

CONSTANTS Editors, None,
          MaxEdits,    \* bound: edits made
          MaxTrouble,  \* bound: requests and imports that fail, saves asked for by hand
          MaxLoads     \* bound: loads and reloads of the page

VARIABLES server,   \* the row: its version, its document, and whether it has xml
          ed,       \* the editors
          made,     \* whose the edits made so far are
          trouble,  \* requests and imports that failed and saves asked for by hand
          loads,    \* loads and reloads
          unread    \* history, unread[e]: the edits on which e's page and a document differed that
                    \* could not be put into its graph

vars == <<server, ed, made, trouble, loads, unread>>

\* What the server has of a diagram, and a save under way: the version it names
\* or is answered, what it saves, and the answer.
Diagram == [version : Nat, doc : SUBSET Nat, xml : BOOLEAN]
Sent    == [version : Nat, doc : SUBSET Nat, answer : {"none", "saved", "conflict"}]

Imported == 0   \* what an import put in the diagram's model, without xml
Away(sent) == [open |-> FALSE, sent |-> sent]
Open(e) == ed[e].open

-----------------------------------------------------------------------------
(* Opening and reloading: a GET, then its document goes into the graph: xml   *)
(* replaces what is there; a model imported without xml is added to it, and   *)
(* saved at once.                                                             *)
OpenPage(e) ==
    /\ ~Open(e) /\ loads < MaxLoads /\ (ed[e].sent # None => ed[e].sent.answer # "none")
    /\ loads' = loads + 1
    /\ ed' = [ed EXCEPT ![e] = [open |-> TRUE, kind |-> "clean", got |-> server, doc |-> {}, version |-> 0,
                                err |-> FALSE, timer |-> FALSE, sent |-> None, again |-> FALSE]]
    /\ UNCHANGED <<server, made, trouble, unread>>

Reload(e) ==
    /\ Open(e) /\ ed[e].kind = "conflict" /\ loads < MaxLoads
    /\ loads' = loads + 1
    /\ ed' = [ed EXCEPT ![e].kind = "clean", ![e].got = server, ![e].err = FALSE]
    /\ UNCHANGED <<server, made, trouble, unread>>

Request(version, doc) == [version |-> version, doc |-> doc, answer |-> "none"]

(* doSave: nothing after a conflict, one save at a time, again afterwards.    *)
Saving(s) ==
    IF s.kind = "conflict" THEN s
    ELSE IF s.sent # None THEN [s EXCEPT !.again = TRUE]
    ELSE [s EXCEPT !.kind = "saving", !.sent = Request(s.version, s.doc)]

Loaded(e) ==
    LET got == ed[e].got
        doc == IF got.xml THEN got.doc ELSE ed[e].doc \cup got.doc
        read == [ed[e] EXCEPT !.got = None, !.version = got.version, !.doc = doc]
    IN  /\ Open(e) /\ got # None
        /\ ed' = [ed EXCEPT ![e] = IF ~got.xml /\ got.doc # {} THEN Saving(read) ELSE read]
        /\ UNCHANGED <<server, made, trouble, loads, unread>>

(* The xml cannot be read: the version is the document's by then, and the     *)
(* graph is as it was, with an error and its Retry.                           *)
LoadedUnread(e) ==
    LET got == ed[e].got
    IN  /\ Open(e) /\ got # None /\ got.xml /\ trouble < MaxTrouble /\ trouble' = trouble + 1
        /\ ed' = [ed EXCEPT ![e].got = None, ![e].version = got.version, ![e].kind = "error"]
        /\ unread' = [unread EXCEPT ![e] = @ \cup (got.doc \ ed[e].doc) \cup (ed[e].doc \ got.doc)]
        /\ UNCHANGED <<server, made, loads>>

(* The GET fails: the page shows an error, and goes on as it is.               *)
LoadFails(e) ==
    /\ Open(e) /\ ed[e].got # None /\ trouble < MaxTrouble /\ trouble' = trouble + 1
    /\ ed' = [ed EXCEPT ![e].got = None, ![e].err = TRUE]
    /\ UNCHANGED <<server, made, loads, unread>>

(* A change of the model, which nothing holds back while the document loads,  *)
(* arms the timer anew, unless there is a conflict to settle.                 *)
Edit(e) ==
    /\ Open(e) /\ Len(made) < MaxEdits /\ made' = Append(made, e)
    /\ ed' = [ed EXCEPT ![e].doc = @ \cup {Len(made')}, ![e].timer = (ed[e].kind # "conflict"),
                        ![e].kind = IF @ = "conflict" THEN @ ELSE "dirty"]
    /\ UNCHANGED <<server, trouble, loads, unread>>

Save(e) == ed' = [ed EXCEPT ![e] = Saving([@ EXCEPT !.timer = FALSE])]

Timer(e) == Open(e) /\ ed[e].timer /\ Save(e) /\ UNCHANGED <<server, made, trouble, loads, unread>>

(* Ctrl+S, Retry.                                                             *)
SaveNow(e) ==
    /\ Open(e) /\ trouble < MaxTrouble /\ trouble' = trouble + 1
    /\ Save(e) /\ UNCHANGED <<server, made, loads, unread>>

-----------------------------------------------------------------------------
(* save_diagram: a conditional UPDATE, and the version as it is when it found *)
(* no row at the client's.                                                    *)
\* Mutant: the version is not in the WHERE clause.
AcceptsAny(r) == TRUE
Accepts(r) == r.version = server.version

SaveDiagram(e) ==
    LET r == ed[e].sent
    IN  /\ r # None /\ r.answer = "none"
        /\ IF Accepts(r)
           THEN /\ server' = [version |-> server.version + 1, doc |-> r.doc, xml |-> TRUE]
                /\ ed' = [ed EXCEPT ![e].sent = [r EXCEPT !.answer = "saved", !.version = server'.version]]
           ELSE /\ ed' = [ed EXCEPT ![e].sent = [r EXCEPT !.answer = "conflict", !.version = server.version]]
                /\ UNCHANGED server
        /\ UNCHANGED <<made, trouble, loads, unread>>

(* The answer, and the save that was asked for meanwhile: saveRef is the kind *)
(* of the last render, so it goes out even after a conflict.                  *)
\* Mutant: the save asked for meanwhile is forgotten.
AfterDropping(s) == [s EXCEPT !.sent = None, !.again = FALSE]
After(s) == IF s.again THEN [s EXCEPT !.again = FALSE, !.kind = "saving", !.sent = Request(s.version, s.doc)]
            ELSE [s EXCEPT !.sent = None]

Answered(s) == IF s.sent.answer = "saved" THEN [s EXCEPT !.kind = "saved", !.version = s.sent.version]
               ELSE [s EXCEPT !.kind = "conflict"]

Answer(e) ==
    /\ Open(e) /\ ed[e].sent # None /\ ed[e].sent.answer # "none"
    /\ ed' = [ed EXCEPT ![e] = After(Answered(@))]
    /\ UNCHANGED <<server, made, trouble, loads, unread>>

(* The request fails, before the server took it in or after.                  *)
Fail(e) ==
    /\ Open(e) /\ ed[e].sent # None /\ trouble < MaxTrouble /\ trouble' = trouble + 1
    /\ ed' = [ed EXCEPT ![e] = After([@ EXCEPT !.kind = "error"])]
    /\ UNCHANGED <<server, made, loads, unread>>

(* Leaving drops the timer with what it waited to save; a request goes on.    *)
ClosePage(e) ==
    /\ Open(e)
    /\ ed' = [ed EXCEPT ![e] = Away(@.sent)]
    /\ UNCHANGED <<server, made, trouble, loads, unread>>

-----------------------------------------------------------------------------
Init ==
    /\ server \in [version : {0}, doc : {{}, {Imported}}, xml : {FALSE}]
    /\ ed = [e \in Editors |-> Away(None)]
    /\ made = <<>> /\ trouble = 0 /\ loads = 0
    /\ unread = [e \in Editors |-> {}]

Next == \E e \in Editors :
            \/ OpenPage(e) \/ Reload(e) \/ Loaded(e) \/ LoadedUnread(e) \/ LoadFails(e) \/ Edit(e)
            \/ Timer(e) \/ SaveNow(e) \/ SaveDiagram(e) \/ Answer(e) \/ Fail(e) \/ ClosePage(e)

Spec == Init /\ [][Next]_vars

(* Documents load, timers fire, and requests are answered.                    *)
Fairness == \A e \in Editors : WF_vars(Loaded(e)) /\ WF_vars(Timer(e)) /\ WF_vars(SaveDiagram(e)) /\ WF_vars(Answer(e))
FairSpec == Spec /\ Fairness

-----------------------------------------------------------------------------
(* A save that is accepted takes off nothing but edits of its own editor,     *)
(* however loads, saves and answers interleave, and edits of a document that   *)
(* editor was told could not be read. (An editor may overwrite its own: a      *)
(* timer that fires between Reload and the load it started saves edits which   *)
(* that load then takes off the page.)                                        *)
AcceptedStays ==
    [][server.version > 0 /\ server' # server =>
          \E e \in Editors : /\ ed'[e].sent # ed[e].sent
                             /\ \A x \in server.doc \ server'.doc :
                                   x \in unread[e] \/ (x # Imported /\ made[x] = e)]_vars

(* The same without the exception: false, as a page whose import failed has    *)
(* the version of what it could not read, and saves over it.                   *)
ReadBeforeSaved ==
    [][server.version > 0 /\ server' # server =>
          \E e \in Editors : /\ ed'[e].sent # ed[e].sent
                             /\ \A x \in server.doc \ server'.doc : x # Imported /\ made[x] = e]_vars

(* Of an import, too: false, as Ctrl+S and the palette work while the     *)
(* document loads, and a page that has loaded nothing is at version 0 too.    *)
ImportStays == [][server.doc \subseteq server'.doc]_vars

(* The edits that one editor or another could not read.                       *)
Unread == UNION {unread[e] : e \in Editors}

(* An edit reaches the server, or the page shows that it does not: an error   *)
(* with its Retry, a conflict, which a reload ends by giving the edit up, or   *)
(* the error of a reload that failed, after which the edit is still there.     *)
(* (One who could not read it may then take it off.)                          *)
EditsArriveOrTell ==
    \A e \in Editors, x \in 1..MaxEdits :
        (Open(e) /\ x \in ed[e].doc) ~>
            \/ x \in server.doc \cup Unread \/ ~Open(e) \/ x \notin ed[e].doc
            \/ ed[e].kind \in {"error", "conflict"} \/ ed[e].err

(* "Saved" is shown of a page whose every edit the server has, once no timer   *)
(* runs and no load is under way; but for edits that an editor could not read. *)
SavedIsSaved ==
    \A e \in Editors : (Open(e) /\ ed[e].kind = "saved" /\ ~ed[e].timer /\ ed[e].got = None)
                          => ed[e].doc \subseteq server.doc \cup Unread

(* "This diagram was changed elsewhere" (DiagramEditorPage.tsx:277): false of *)
(* the retry of a save that landed, and of a load that a save overtook.       *)
AloneWithoutConflict == \A e \in Editors : Editors = {e} /\ Open(e) => ed[e].kind # "conflict"

(* Closing the tab asks first only while "dirty" or "saving"; a change made   *)
(* while a save was under way is shown as "saved" when that save lands.       *)
UnsavedIsAskedAbout ==
    \A e \in Editors : (Open(e) /\ ed[e].got = None /\ ~(ed[e].doc \subseteq server.doc))
                          => ed[e].kind \in {"dirty", "saving", "error", "conflict"}
=============================================================================
