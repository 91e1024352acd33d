SPECIFICATION StartUpSpec
CONSTANTS
  Starters = {p1, p2, w1}
  Skipping = {w1}
  Users = {u1}
  LegacyRoles = {"user", "unset"}
  None = None
  Nobody = Nobody
  Install = FALSE
  MaxKills = 2
  Retries = 2
  MaxOutages = 1
CHECK_DEADLOCK FALSE
INVARIANTS StartUpTypeOK MarksAreTrue MembershipsSurvive SomeStarterSucceeds SomeoneCanMove UpMeansMigrated ReadyHasDatabase
PROPERTIES ImplementsVersions EveryStartEnds EveryoneComesUp
