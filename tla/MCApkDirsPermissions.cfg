SPECIFICATION Spec
CONSTANTS
  a1 = a1  a2 = a2  b = b  c = c
  usr = usr  bin = bin  lib = lib  root = root
  m755 = m755  m700 = m700
  Pkg = {a1, a2, b, c}
  NameOf <- MCNameOf
  NameRank <- MCNameRank
  Origin <- MCOrigin
  Prio <- NoPrio
  Dir = {root, usr, bin, lib}
  Root = root
  Parent <- MCParent
  DirsOf <- MCDirsOf
  Acl <- SharedAcl
  DefaultAcl = m755
  UserAcl = mUser
  Reinstalls = FALSE
  MaxChanges = 1
  MaxCommits = 2
  MaxEdits = 0
  MaxFaults = 0
  None = None
  NoOrigin = NoOrigin
  Absent = Absent
  Poison = Poison
CHECK_DEADLOCK FALSE
INVARIANTS
  PermissionsCurrent
