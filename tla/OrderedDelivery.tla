-------------------------- MODULE OrderedDelivery --------------------------
(***************************************************************************)
(* What the outbox promises, without saying how: each client has a line of *)
(* entries.  An entry joins at the back, recovered entries join at the     *)
(* front, and only the front is served: it leaves alone, or takes     *)
(* every entry of its page with it.  Nothing else ever leaves the line, so *)
(* no entry is served before one that stood ahead of it.                   *)
(***************************************************************************)
EXTENDS Sublist

CONSTANTS Clients, Entries

VARIABLES
    line,  \* line[c]: the entries of client c, the next one first
    up     \* up[c]: the client is there

Init == /\ line = [c \in Clients |-> <<>>]
        /\ up = [c \in Clients |-> FALSE]

Become(c, q) == line' = [line EXCEPT ![c] = q] /\ UNCHANGED up

Start(c) == /\ ~up[c] /\ up' = [up EXCEPT ![c] = TRUE]
            /\ UNCHANGED line

\* The client leaves, and its line with it.
Leave(c) == /\ up[c] /\ up' = [up EXCEPT ![c] = FALSE]
            /\ line' = [line EXCEPT ![c] = <<>>]

\* New entries join at the back; recovered ones go before them.
Grow(c) ==
    /\ up[c] /\ line'[c] \in Seq(Entries)
    /\ \E n \in 0 .. Len(line'[c]) : SubSeq(line'[c], 1, n) = line[c]
    /\ Become(c, line'[c])
Recover(c) ==
    /\ up[c] /\ line'[c] \in Seq(Entries)
    /\ \E n \in 0 .. Len(line'[c]) : SubSeq(line'[c], n + 1, Len(line'[c])) = line[c]
    /\ Become(c, line'[c])

\* The head is done with.
ServeHead(c)   == line[c] # <<>> /\ Become(c, Tail(line[c]))

\* The head is refused and every entry of its page leaves with it.
RefusePage(c) ==
    LET others == {i \in DOMAIN line[c] : line[c][i].page # Head(line[c]).page}
    IN  line[c] # <<>> /\ Become(c, Keep(line[c], others))

Next == \E c \in Clients :
    \/ Start(c) \/ Leave(c) \/ ServeHead(c) \/ RefusePage(c) \/ Grow(c) \/ Recover(c)

Spec == Init /\ [][Next]_<<line, up>>

=============================================================================
