SPECIFICATION Spec
CONSTANTS
  r1 = r1
  r2 = r2
  Routes <- MCRoutes
  Sends = {1, 2}
  Configs <- MCConfigs
  Cooldown = 2
  Requote = 1
  Blacklist = 3
  BackoffUnit = 2
  BackoffCap = 3
  RetainWindow = 2
  DedupCap = 1
  NumPolls = 1
  MaxFailures = 2
  MaxClock = 3
  None = None
PROPERTY BlacklistHonoured
CHECK_DEADLOCK FALSE
