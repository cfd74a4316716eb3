SPECIFICATION PoolSpec
CONSTANTS
  Bots = {1, 2}
  Pool = {1}
  Deploys = {o1, o2, h1}
  NoDeploy = NoDeploy
  Orch = {o1, o2}
  Stops = {}
  Scripted = {h1}
  Updates = {}
  ClientsDisconnect = TRUE
  BusMayClose = FALSE
  NoBot = NoBot
  StopsTimeOut = FALSE
  CarefulStops = FALSE
  MayRestart = TRUE
CHECK_DEADLOCK FALSE
INVARIANTS ExclusiveBooking RunningReportHolds OrphansOnlyByLoss
