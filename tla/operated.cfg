SPECIFICATION OperationSpec
CONSTANTS
  Route = Route
  Entities <- RouteOnly
  NoEntity = NoEntity
  Files = {2}
  KindOf <- RouteKind
  FilesOf <- RouteFile
  ModelOf <- RouteModel
  Shapes = {a}
  Absent = Absent
  MaxCommits = 2
  Services = {"orders"}
  Links <- RouteLinks
  NamesLike <- OwnNameOnly
  RealLLM = FALSE
  MaxRuns = 5
  ManifestSets <- RouteManifest
  OwnerOf <- RouteOwner
  NameOf <- RoutesName
  IdRank <- RouteRank
  Uses = {}
  Spellings = {}
  Parameters = {"{}"}
  Words = {"v1", "charge"}
  Runtime = Runtime
  MaxExtracts = 2
  ExtractFirst = FALSE
  InOrder = FALSE
  Sessions = {p}
  MaxSyncs = 5
  SyncWhenIngested = FALSE
  MaxCrashes = 1
CHECK_DEADLOCK FALSE
PROPERTIES
  EveryCommitIngested
  EveryChangeTold
  ImplementsChangeLog
