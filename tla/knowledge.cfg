SPECIFICATION KnowledgeSpec
CONSTANTS
  NumCalls = 3
  Batches = 1
  MaxFaults = 1
  MaxRestarts = 1
  NumJobs = 2
  NumPeople = 2
  MaxTroubles = 1
  KbChunks = {"c1", "c2"}
  KbFiles = {"f1", "f2"}
  FileOf <- McFileOf
  Ents <- McEnts
  FlushAt = 2
  MaxBuilds = 2
  MaxBreaks = 1
  Nodes = {"a", "b", "c", "x"}
  Folders = {"a", "b", "c"}
  Root = "root"
  Unborn = "unborn"
  Gone = "gone"
  NumTreeCalls = 3
  MaxDepth = 4
INVARIANT
  ClaimHeld
INVARIANT
  IndexedSearchable
INVARIANT
  DeletedUnfindable
INVARIANT
  OneRun
INVARIANT
  TaskServed
INVARIANT
  LastWord
INVARIANT
  TagsReachFile
INVARIANT
  FlaggedFindable
INVARIANT
  NothingLeft
INVARIANT
  RoundsShrink
INVARIANT
  TreeSound
INVARIANT
  FolderGoesWhole
PROPERTY
  ImplementsFileClaims
PROPERTY
  ClaimsEnd
PROPERTY
  BuildEnds
CHECK_DEADLOCK FALSE
