SPECIFICATION FairSpec
CONSTANTS
  Bots = {1}
  Pool = {1}
  Deploys = {o1, h1}
  NoDeploy = NoDeploy
  Orch = {o1}
  Stops = {s1}
  Scripted = {o1, h1}
  Updates = {"bootstrapping", "idle", "running", "failed"}
  ClientsDisconnect = FALSE
  BusMayClose = FALSE
  NoBot = NoBot
CHECK_DEADLOCK FALSE
INVARIANTS TypeOK HeldByLiveTask
PROPERTIES RequestAnswered StopMovesOn SilentBotNoticed
