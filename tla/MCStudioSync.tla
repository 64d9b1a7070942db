---------------------------- MODULE MCStudioSync ----------------------------
(* One page with a component c1 in its only region, and a few edits. *)
EXTENDS StudioSync, TLC

CONSTANTS t1, t2, pg, c1, c2, r1, v1, v2, v3

OneTab  == {t1}
TwoTabs == {t1, t2}
OnePage == {pg}
TwoComponents == {c1, c2}
OneRegion     == {r1}
Colours       == {v1, v2, v3}
TabSymmetry   == Permutations(TwoTabs)

StartPage == [tree |-> OneRegion,
              lists |-> [r \in OneRegion |-> <<[id |-> c1, val |-> v1]>>],
              fields |-> v1, ev |-> [k \in Keys |-> 0], version |-> 0]

Paint(v)  == <<[op |-> "set", cmp |-> c1, value |-> v]>>
Rename(v) == <<[op |-> "page", value |-> v]>>
Add       == <<[op |-> "insert", cmp |-> c2, value |-> v1, region |-> r1]>>
Delete    == <<[op |-> "remove", cmp |-> c1]>>

\* One component set to two values, deleted; another inserted.
SoloEdits == {Paint(v2), Paint(v3), Add, Delete}
\* Two entities of one page.
DuoEdits  == {Paint(v2), Rename(v2)}
OneEdit   == {Paint(v2)}
\* An insert that is refused while another user's is there.
AddOrRename == {Add, Rename(v2)}

=============================================================================
