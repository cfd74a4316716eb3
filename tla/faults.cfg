SPECIFICATION Spec
CONSTANTS
  Bots = {1}
  Pool = {}
  Deploys = {o1, h1}
  NoDeploy = NoDeploy
  Orch = {o1}
  Stops = {s1, s2}
  Scripted = {h1}
  Updates = {"bootstrapping", "failed"}
  ClientsDisconnect = TRUE
  BusMayClose = TRUE
  NoBot = NoBot
SYMMETRY AlikeStops
CHECK_DEADLOCK FALSE
INVARIANTS OrphansOnlyByLoss AssignmentMatchesStatus
PROPERTY FeedContract
