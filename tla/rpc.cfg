SPECIFICATION Spec
CONSTANTS
  a = a
  b = b
  p = p
  q = q
  r = r
  Bots = {a, b}
  Polls = {p, q}
  Target <- MCTarget
  Expected <- MCExpected
  Droppable = {q}
  MaxStamp = 3
  DistinctStamps = TRUE
  BusMayClose = FALSE
  Nobody = Nobody
CHECK_DEADLOCK FALSE
INVARIANTS TypeOK ConfirmedWasTrue PendingHasWaiter
PROPERTY PollContract
