---------------------------- MODULE MCOpServer ----------------------------
(* One page with a component c1, and the requests clients may send. *)
EXTENDS OpServer, TLC

CONSTANTS s1, s2, s3, c1, c2, r1, v1, v2

TwoSlots      == {s1, s2}
TwoComponents == {c1, c2}
OneRegion     == {r1}
TwoValues     == {v1, v2}

StartPage == [tree |-> OneRegion,
              lists |-> [r \in OneRegion |-> <<[id |-> c1, val |-> v1]>>],
              fields |-> v1, ev |-> [k \in Keys |-> 0], version |-> 0]

Set(c, v)  == [op |-> "set", cmp |-> c, value |-> v]
Insert(c)  == [op |-> "insert", cmp |-> c, value |-> v1, region |-> r1]
Remove(c)  == [op |-> "remove", cmp |-> c]
Request(id, base, op) == [id |-> id, base |-> base, ops |-> <<op>>]

\* Two edits of one component that exclude each other.
Edits == {Request(1, 0, Set(c1, v2)), Request(2, 0, Remove(c1))}

\* An insert alone.
OneInsert == {Request(3, 0, Insert(c2))}

=============================================================================
