SPECIFICATION Spec
CONSTANTS
  None = None
  r1 = r1
  r2 = r2
  rel1 = rel1
  rel2 = rel2
  Reqs = {r1, r2}
  Epics = {e1, e2}
  Features = {f1}
  Releases = {rel1, rel2}
  Sprints = {s1}
  Moves = {"InProgress", "Done"}
  MaxWrites = 4
  Slots = {c1}
  Hours <- MCHours
SYMMETRY MCSymmetry
CHECK_DEADLOCK FALSE
INVARIANTS
  FiledConsistently
  ViewSettles
  FiguresAgree
