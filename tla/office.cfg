CONSTANTS
  Tabs = {"t1", "t2"}
  Owner = "t1"
  Admins = {"t2"}
  Slugs = {"a", "b"}
  ContentScenes <- MCContentScenes
  MaxAwaited = 2
  MaxFaults = 1
  Desks = {"d1", "d2"}
  PageScenes <- MCPageScenes
  MaxRuns = 2
  Clerks = {"c1", "c2"}
  OfficeScenes <- MCOfficeScenes
  Years = {2028, 2029}
  Assignments = {1, 2}
  Products = {1, 2}
  Ledgers = {1, 2}
  SettingKeys = {1, 2}
INIT Init
NEXT Next
INVARIANTS
  HistoryIsKept
  EditsStayOnTheirPage
  ShownFollowsTheAddress
  OwnEditsAreKept
  RestingPageShowsTheTable
  PeriodsFollowEachOther
  ChecksHold
  CacheFollowsTable
\* Users, callers and requests may all be done.
CHECK_DEADLOCK FALSE
