SPECIFICATION Spec
CONSTANTS
  Users = {u1}
  Tokens = {t1}
  Passwords = {p1, p2}
  Workers = {w1, w2}
  None = None
SYMMETRY Symmetry
INVARIANT SingleUse
