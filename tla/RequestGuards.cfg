SPECIFICATION GuardsSpec
CONSTANTS
  Tokens = {t1}
  Workers = {w1, w2}
  Processes = {w1, w2}
  NoToken = NoToken
  Sub = 3
  Lifetime = 3
  Horizon = 13
  Nobody = Nobody
  Roles = {"admin", "staff"}
  Permissions = {"members", "leads"}
  Releases = {"old", "new"}
  Grants <- MCGrants
INVARIANTS GuardsTypeOK CachedAsGranted
PROPERTIES RevokedUntilLastSecond SeedsWholeTables
