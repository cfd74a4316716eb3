SPECIFICATION Spec
CONSTANTS
  Bots = {w1, w2}
  NoBot = NoBot
  Orch = {"o1", "o2"}
  Http = {}
  ProfileOf <- MCSharedProfileOf
  ProfileTree <- MCProfileTree
  ScriptOf <- MCScriptOf
  ControllersOf <- MCControllersOf
  NoScript = NoScript
  R2Modes = {TRUE}
  Stashes <- EmptyStash
  Confs <- EmptyConf
  Overlap = TRUE
SYMMETRY Alike
CHECK_DEADLOCK FALSE
INVARIANT StartedComplete
