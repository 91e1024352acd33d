SPECIFICATION Spec
CONSTANTS
  Users = {u1, u2}
  Businesses = {b1}
  Workers = {w1, w2}
  Nobody = Nobody
  NoBusiness = NoBusiness
  RoleInputs = {"owner", "admin"}
  StatusInputs <- GuardedStatuses
SYMMETRY Symmetry
INVARIANT EveryBusinessHasOwner
