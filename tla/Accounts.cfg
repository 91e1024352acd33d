SPECIFICATION Spec
CONSTANTS
  Users = {u1, u2}
  Tokens = {t1, t2}
  Passwords = {p1, p2}
  Workers = {w1, w2, w3}
  None = None
SYMMETRY Symmetry
INVARIANTS TypeOK OneRegistrationPerEmail ConflictMeansAccount GoneOnceUsed UsesBounded
PROPERTY ReplacedByItsToken
