SPECIFICATION Spec
CONSTANTS
  Skipping = {}
  Starters = {p1}
  Users = {u1}
  LegacyRoles = {"owner"}
  None = None
  Nobody = Nobody
  Install = TRUE
  MaxKills = 0
CHECK_DEADLOCK FALSE
INVARIANT SomeStarterSucceeds
