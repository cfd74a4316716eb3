SPECIFICATION FairSpec
CONSTANTS
  a = a
  b = b
  p = p
  q = q
  r = r
  Bots = {a}
  Polls = {p, q}
  Target <- MCTarget
  Expected <- MCExpected
  Droppable = {}
  MaxStamp = 2
  DistinctStamps = FALSE
  BusMayClose = TRUE
  Nobody = Nobody
CHECK_DEADLOCK FALSE
INVARIANT WaiterInformed
PROPERTY PollEnds
