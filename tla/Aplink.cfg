SPECIFICATION Spec
CONSTANTS
  AbccCmds = 1
  ApplCmds = 1
  ReadMaps = 2
  WriteMaps = 1
  Lens = {1, 3}
  Fails = TRUE
INVARIANTS TypeOK CommandsBalanced PoolsSuffice LengthsAgree RemapGuarded
PROPERTIES StartupCompletes CommandAnswered
