----------------------------- MODULE OpService -----------------------------
(***************************************************************************)
(* What the op-batch endpoint promises: batches on a page take effect one  *)
(* at a time, each against the page as it is at that moment, together with *)
(* the answer that is kept for it; an id that has an answer never takes    *)
(* effect again.  A restore replaces the page by one that was saved.       *)
(* What a batch does to a page is a parameter: the promise is the same for *)
(* every applier.                                                          *)
(***************************************************************************)
CONSTANTS Page,              \* the pages
          Verdict(_, _, _),  \* of a page, operations and a base version
          Applied(_, _),     \* the page after operations
          Restored(_),       \* the page after a restore of a saved page
          Payloads,          \* [id, base, ops]: the requests
          NoAnswer           \* no answer is kept for an id

VARIABLES row,     \* the page
          answers, \* answers[id]: the payload answered and the status
          saved    \* pages that were saved

Init == /\ row \in Page /\ saved \subseteq Page
        /\ \A p \in Payloads : answers[p.id] = NoAnswer

\* The answer to p is kept; answers past the retention window may go.
Answered(p, status) ==
    \E old \in SUBSET (DOMAIN answers \ {p.id}) :
        answers' = [i \in DOMAIN answers |->
                        IF i = p.id THEN [payload |-> p, status |-> status]
                        ELSE IF i \in old THEN NoAnswer ELSE answers[i]]

Accept(p) ==
    /\ answers[p.id] = NoAnswer
    /\ Verdict(row, p.ops, p.base) = "ok"
    /\ row' = Applied(row, p.ops)
    /\ Answered(p, "ok")
    /\ UNCHANGED saved

Refuse(p) ==
    /\ answers[p.id] = NoAnswer
    /\ Verdict(row, p.ops, p.base) = "conflict"
    /\ Answered(p, "conflict")
    /\ UNCHANGED <<row, saved>>

Save ==
    /\ saved' = saved \cup {row}
    /\ UNCHANGED <<row, answers>>

\* A page like the one replaced is saved too.
Replace ==
    /\ \E page \in saved : row' = Restored(page)
    /\ saved \subseteq saved'
    /\ UNCHANGED answers

Next == Save \/ Replace \/ \E p \in Payloads : Accept(p) \/ Refuse(p)

Spec == Init /\ [][Next]_<<row, answers, saved>>

=============================================================================
