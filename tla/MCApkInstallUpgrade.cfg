\* Two runs of up to two changes, with an overlay, two edits and one failure.
CONSTANTS
  Pkg <- MCPkg NameOf <- MCNameOf Origin <- MCOrigin Data <- MCPkg
  Path <- MCPath Ships <- MCShips Content <- MCContent Loc <- MCLoc Protected = {"cfg"}
  Prio <- MCPrio FlagSets <- AllFlags OverlaySets <- BinOverlay
  Reinstalls = FALSE FaultKinds = {"archive", "extract", "special", "commit"} Retry = FALSE
  MaxChanges = 2 MaxCommits = 2 MaxEdits = 2 MaxFaults = 1 MaxCrashes = 0
  None = None NoOrigin = NoOrigin Overlay = Overlay NoEntry = NoEntry
  Absent = Absent Gone = Gone User = User
SPECIFICATION Spec
CHECK_DEADLOCK FALSE
INVARIANT Ownership
PROPERTY LocalChangesKept
