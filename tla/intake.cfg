SPECIFICATION FairSpec
CONSTANTS
  Requests = {r1, r2, r3, r4, bad}
  Valid = {r1, r2, r3, r4}
  Capacity = 2
  Bots = {warmbot}
  RingSize = 2
  MaxLines = 4
INVARIANTS TypeOK EachSpawnedOnce LatestLogs
PROPERTY ListenerGoesOn
