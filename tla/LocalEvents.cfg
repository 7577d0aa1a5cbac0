SPECIFICATION Spec
CONSTANTS
  u1 = u1  u2 = u2
  c1 = c1  c2 = c2
  r1 = r1  r2 = r2
  None = None
  Absent = Absent
  User = {u1, u2}
  Channel = {c1, c2}
  Role = {r1, r2}
  Scale = 2
  MaxMs = 1
  MaxChanges = 3
SYMMETRY Symmetry
INVARIANTS TypeOK RowsAreReal RefusedOnlyNearBaseline
CHECK_DEADLOCK FALSE
