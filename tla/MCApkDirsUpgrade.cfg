SPECIFICATION Spec
CONSTANTS
  a1 = a1  a2 = a2  b = b  c = c
  usr = usr  bin = bin  lib = lib  root = root
  m755 = m755  m700 = m700
  Pkg = {a1, a2, b, c}
  NameOf <- MCNameOf
  NameRank <- MCNameRank
  Origin <- MCOrigin
  Prio <- Second
  Dir = {root, usr, bin, lib}
  Root = root
  Parent <- MCParent
  DirsOf <- MCDirsOf
  Acl <- MCAcl
  DefaultAcl = m755
  UserAcl = mUser
  Reinstalls = TRUE
  MaxChanges = 2
  MaxCommits = 2
  MaxEdits = 1
  MaxFaults = 1
  None = None
  NoOrigin = NoOrigin
  Absent = Absent
  Poison = Poison
CHECK_DEADLOCK FALSE
INVARIANTS
  RefsExact
  OwnerHolds
  ListSound
PROPERTY
  DirectoriesKept
