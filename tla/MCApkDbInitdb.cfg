SPECIFICATION Spec
CONSTANTS
  Proc = {p1, p2}
  Creator = {p1, p2}
  Waiter = {}
  Nested = {}
  Name = {"self", "app"}
  Self = "self"
  Needs <- Needs1
  Avail <- Avail1
  Worlds = {{"self"}}
  Commands <- InitdbCommands
  p1 = p1
  p2 = p2
  p3 = p3
  MaxVer = 2
  Fresh = TRUE
  InitdbAlone = FALSE
  MaxFaults = 0
  MaxCrashes = 0
  None = None
INVARIANTS
  OneWriter
CHECK_DEADLOCK FALSE
