SPECIFICATION Spec
CONSTANTS
  Part <- MCPart
  Dotted <- MCDotted
  R2Prefixes <- MCR2Prefixes
  Buckets <- MCBuckets
  Requested <- MCRequested
CHECK_DEADLOCK FALSE
INVARIANTS HydratesAsDocumented StaysInBots
