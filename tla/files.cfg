SPECIFICATION Spec
CONSTANTS
  Bots = {w1, w2}
  NoBot = NoBot
  Orch = {"o1", "o2"}
  Http = {"h1"}
  ProfileOf <- MCProfileOf
  ProfileTree <- MCProfileTree
  ScriptOf <- MCScriptOf
  ControllersOf <- MCControllersOf
  NoScript = NoScript
  R2Modes = {TRUE, FALSE}
  Stashes <- MCStashes
  Confs <- UsedConf
  Overlap = FALSE
SYMMETRY Alike
CHECK_DEADLOCK FALSE
INVARIANTS TypeOK StartedComplete StartedUnderOwnName DirectoriesMirrored LeftoversExplained
