SPECIFICATION Spec
CONSTANTS
  Users = {u1, u2}
  Businesses = {b1}
  Workers = {w1}
  Nobody = Nobody
  NoBusiness = NoBusiness
  RoleInputs = {"owner", "admin"}
  StatusInputs <- AllStatuses
SYMMETRY Symmetry
INVARIANT EveryBusinessHasOwner
