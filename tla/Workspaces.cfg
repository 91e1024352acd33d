SPECIFICATION Spec
CONSTANTS
  Users = {u1}
  Businesses = {w1, w2}
  Browsers = {b1, b2}
  Requests = {r1, r2}
  None = None
  Keep = Keep
INVARIANTS TypeOK AnsweredWorkspaceIsUsed
SYMMETRY Symmetry
