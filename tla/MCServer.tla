------------------------------ MODULE MCServer ------------------------------
(* Two parts of the server that share no row, the work items of a board        *)
(* (Board) and the versions of a project (ProjectVersions), in one graph of    *)
(* states: the first state says which of them the requests are for.           *)
EXTENDS Board, TLC

CONSTANTS q1, q2, Files, Keys, MaxVersions, MaxDeaths

VARIABLES about, proj, doc, bytes, erased, home, made, calls, answered, deaths

versions == <<proj, doc, bytes, erased, home, made, calls, answered, deaths>>

V == INSTANCE ProjectVersions WITH tx <- calls, told <- answered

(* A version's parent is a version or None, and versions are numbers.         *)
ASSUME VersionsAssumption == None \notin Nat

ServerInit == about \in {"board", "versions"} /\ Init /\ V!Init

(* Bound: versions locked at a time.                                          *)
OneLocked == \A v, w \in DOMAIN proj' : proj'[v].locked /\ proj'[w].locked => v = w

BoardStep   == about = "board" /\ Next /\ UNCHANGED <<about, versions>>
VersionStep == about = "versions" /\ V!Next /\ OneLocked /\ UNCHANGED <<about, vars>>

ServerSpec == ServerInit /\ [][BoardStep \/ VersionStep]_<<about, vars, versions>>

UploadedHasBytes == V!UploadedHasBytes
RetriesAgree     == V!RetriesAgree

(* False of the code: see the README.                                         *)
NumbersDiffer         == V!NumbersDiffer
RetriedVersionIsWhole == V!RetriedVersionIsWhole

RequestSymmetry == Permutations({q1, q2})

=============================================================================
