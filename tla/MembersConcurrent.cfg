SPECIFICATION Spec
CONSTANTS
  Users = {u1, u2}
  Businesses = {b1, b2}
  Workers = {w1, w2}
  Nobody = Nobody
  NoBusiness = NoBusiness
  RoleInputs = {"admin"}
  StatusInputs = {"active", "removed", "bogus"}
SYMMETRY Symmetry
INVARIANTS TypeOK WorkspaceWasJoined
PROPERTIES StaleDecisionsAreRefused RemovalOutlivesStaleRequests FirstJoinNeedsManager ImplementsRoster
