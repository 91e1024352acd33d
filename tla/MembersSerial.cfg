SPECIFICATION Spec
CONSTANTS
  Users = {u1, u2, u3}
  Businesses = {b1}
  Workers = {w1}
  Nobody = Nobody
  NoBusiness = NoBusiness
  RoleInputs = {"owner", "admin", "staff"}
  StatusInputs <- AllStatuses
SYMMETRY Symmetry
PROPERTIES OwnerGrantedByOwner OwnerLossOnlyBySuspension RefusedKeepsStatus
