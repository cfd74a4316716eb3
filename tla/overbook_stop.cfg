SPECIFICATION Spec
CONSTANTS
  Bots = {1}
  Pool = {1}
  Deploys = {o1, o2}
  NoDeploy = NoDeploy
  Orch = {o1, o2}
  Stops = {s1}
  Scripted = {}
  Updates = {}
  ClientsDisconnect = FALSE
  BusMayClose = FALSE
  NoBot = NoBot
CHECK_DEADLOCK FALSE
INVARIANT ExclusiveBooking
