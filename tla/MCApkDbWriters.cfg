SPECIFICATION Spec
CONSTANTS
  Proc = {p1, p2, p3}
  Creator = {p3}
  Waiter = {p1, p2}
  Nested = {p2}
  Name = {"self", "app"}
  Self = "self"
  Needs <- Needs1
  Avail <- Avail1
  Worlds = {{"self"}}
  Commands <- WriterCommands
  p1 = p1
  p2 = p2
  p3 = p3
  MaxVer = 2
  Fresh = TRUE
  InitdbAlone = TRUE
  MaxFaults = 1
  MaxCrashes = 1
  None = None
INVARIANTS
  OneWriter
  CommitDurable
  DbMatchesRoot
PROPERTIES
  BrokenSticky
  Termination
CHECK_DEADLOCK FALSE
