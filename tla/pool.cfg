SPECIFICATION PoolSpec
CONSTANTS
  Bots = {1, 2}
  Pool = {1, 2}
  Deploys = {o1, o2}
  NoDeploy = NoDeploy
  Orch = {o1, o2}
  Stops = {s1, s2}
  Scripted = {o1}
  Updates = {}
  ClientsDisconnect = TRUE
  BusMayClose = TRUE
  NoBot = NoBot
  StopsTimeOut = FALSE
  CarefulStops = TRUE
  MayRestart = FALSE
SYMMETRY AlikeStops
CHECK_DEADLOCK FALSE
INVARIANTS PoolTypeOK ConfirmedRunsItsOwn IdleBotsAreIdle
PROPERTIES LeaseContract KeptUntilStopped

