\* Reinstallations, a failure and a crash on a root with a merged directory.
CONSTANTS
  Pkg <- MCPkg NameOf <- MCNameOf Origin <- MCOrigin Data <- MCPkg
  Path <- FixPath Ships <- FixShips Content <- FixContent Loc <- FixLoc Protected = {"cfg"}
  Prio <- MCNoPrio FlagSets <- NoFlags OverlaySets <- NoOverlay
  Reinstalls = TRUE FaultKinds = {"archive", "apknew"} Retry = TRUE
  MaxChanges = 2 MaxCommits = 3 MaxEdits = 2 MaxFaults = 1 MaxCrashes = 1
  None = None NoOrigin = NoOrigin Overlay = Overlay NoEntry = NoEntry
  Absent = Absent Gone = Gone User = User
SPECIFICATION Spec
CHECK_DEADLOCK FALSE
INVARIANTS OwnedFilesPresent NoLitter
