\* The old version has the file under both names of a merged directory.
CONSTANTS
  Pkg <- MCPkg NameOf <- MCNameOf Origin <- MCOrigin Data <- MCPkg
  Path <- FixPath Ships <- TwiceShips Content <- FixContent Loc <- FixLoc Protected = {"cfg"}
  Prio <- MCNoPrio FlagSets <- NoFlags OverlaySets <- NoOverlay
  Reinstalls = FALSE FaultKinds = {} Retry = FALSE
  MaxChanges = 1 MaxCommits = 2 MaxEdits = 0 MaxFaults = 0 MaxCrashes = 0
  None = None NoOrigin = NoOrigin Overlay = Overlay NoEntry = NoEntry
  Absent = Absent Gone = Gone User = User
SPECIFICATION Spec
CHECK_DEADLOCK FALSE
INVARIANT OwnedFilesPresent
