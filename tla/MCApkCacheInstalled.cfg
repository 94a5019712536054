SPECIFICATION CaSpec
CHECK_DEADLOCK FALSE
CONSTANTS
  CaProc = {p1}
  CaInputs <- McCacheCommands
  CaMaxAge = 1
  CaMaxTime = 4
  CaMaxVer = 2
  CaMaxRuns = 2
  CaMaxFaults = 0
  CaTmpfs = TRUE
  CaTmpfile = FALSE
INVARIANT
  CaNonRepositoryListed
