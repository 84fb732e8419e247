SPECIFICATION Spec
CONSTANTS
  c1 = c1
  c2 = c2
  Callers <- MCCallers
  Users = {"u1", "u2"}
  FirstUsers = {"u1"}
  Bits = {0, 1, 2}
  BotBit = 1
  FirstRoles <- MCFirstRoles
  FirstMask = {0, 2}
  NewMask = {0}
  RoleChanges <- MCRoleChanges
  ActorMasks = {{1}}
  Scenes <- MCScenes
  MaxFailures = 1
  Identities = {"i1", "i2"}
  Providers = {"discord", "google"}
  ProviderOf <- MCProviderOf
  EmailOf <- MCEmailOf
  FirstAccounts <- MCFirstAccounts
  NoProvider = "none"
  Fingerprints = {"f1"}
  McpBit = 2
  Window = 2
  Limits <- MCLimits
  FirstAgents = 1
  MaxTime = 3
  MaxRestarts = 1
SYMMETRY MCSymmetry
INVARIANTS
  RolesAreSound
  EveryAccountHasAnIdentifier
  OldKeysStayOld
  LimitsAreKept
  SwitchedOffStaysOff
  TokensFollowGrants
\* No call is left once those of the scene have ended.
CHECK_DEADLOCK FALSE
