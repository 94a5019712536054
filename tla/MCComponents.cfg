SPECIFICATION Spec
CHECK_DEADLOCK FALSE
CONSTANTS
  AfProc = {a, b}
  AfChunks = 2
  AfMaxFaults = 2
  SvNames <- McSvNames
  SvPool <- McPool
  SvScenarios <- McScenarios
  SvMaxCount = 9
  IsLen = 5
  IsBufSize = 5
  IsSync = 2
  IsTokens = {3}
  IsSizes = {3}
  IsShort = {1}
  IsMaxErr = 1
  IsMaxCalls = 2
  LfHosts = {"a", "b"}
  LfNetrc = {"a"}
  LfBodies = {2}
  LfUrls <- McUrls
  LfMaxRedirect = 2
  LfCaches <- McCaches
  LfGlobalLimit = 2
  LfHostLimit = 1
  LfMaxConn = 3
  LfMaxReq = 2
  LfMaxFail = 1
  LfReadSize = 3
  p1 = p1
  p2 = p2
  CaProc = {p1, p2}
  CaInputs <- McCommands
  CaMaxAge = 1
  CaMaxTime = 3
  CaMaxVer = 2
  CaMaxRuns = 2
  CaMaxFaults = 1
  CaTmpfs = TRUE
  CaTmpfile = FALSE
  OsPid = {1, 2}
  OsBuffer = 3
  OsLen = 3
  OsSizes = {1, 2}
  OsMaxOpens = 2
  OsMaxFaults = 1
  ExArchives <- McArchives
  ExRequests <- McRequests
  ExChunk = 2
  ExOut = 2
  UnImages <- McImages
  UnVd = 1
  UnFree = 5
  TrBlock = 4
  TrArchives <- McTars
  TrReads = {0, 1, 4, 9}
  PkTrees <- McTrees
  PkCompat = {2}
  PkKeys = {"k"}
  PkSizes = {2}
  PkMaxSigns = 1
  PkMaxFaults = 1
  AdBase = 4
  AdShort = 1
  AdNumFields = 3
  AdNumCompare = 2
  AdFirstAlloc = 8
  AdClients <- McClients
  VeTexts <- McTexts
  VeWord = 100
  VwArgs <- McArgs
  VwVirtuals <- McVirtuals
  VwNames <- McWorldNames
  VwRepoTags = {"t1", "t2", "t3"}
  VwMaxTags = 3
  VwMaxRuns = 3
  AuScenarios <- McAudits
  AuMaxVanish = 1
  IxFiles = {"a", "b"}
  IxRepos <- McRepos
  IxBroken = {"broken"}
  IxMaxTime = 2
  IxMaxRaces = 1
  PrPrograms <- McPrograms
  PrPipe = 2
  PrBuf = 4
  PrReadSize = 2
  PrMaxNoPipe = 1
  PrMaxNoFork = 1
  IdNames = {"root", "a", "b"}
  IdNobody = 9
  IdHash <- McHash
  IdBuckets = 2
  IdFiles <- McIdFiles
  IdMaxChanges = 1
  LbMaxRuns = 3
  LbMaxTime = 2
  LbMaxFaults = 1
  LbUsers <- McLbUsers
  UkMaxRuns = 2
  UkMaxFaults = 2
  YmDocs <- McYmDocs
  YmLong = 4
  YmMaxBlock = 7
  YmMaxNesting = 6
INVARIANTS
  AfCorrect ErCorrect LfCorrect OsCorrect ExCorrect UnCorrect TrCorrect PkCorrect AdCorrect
  VeCorrect AuCorrect IxCorrect PrCorrect IdCorrect  UkCorrect YmCorrect
PROPERTIES
  SvCorrect IsCorrect CaCorrect ComponentsEnd
