SPECIFICATION DigestSpec
CONSTANTS
  Route = Route
  Entities <- RouteOnly
  NoEntity = NoEntity
  Files = {2, 4}
  KindOf <- RouteKind
  FilesOf <- RouteFile
  ModelOf <- RouteModel
  Shapes = {a, b}
  Absent = Absent
  MaxCommits = 3
  Services = {"web-pay", "web_pay"}
  Links <- Consumers
  NamesLike <- NameAsPattern
  RealLLM = FALSE
  MaxRuns = 1
  ManifestSets <- ConsumerManifest
  OwnerOf <- RouteOwner
  NameOf <- RoutesName
  IdRank <- RouteRank
  Uses <- Calls
  Spellings = {}
  Parameters <- AnyParameter
  Words = {"v1", "charge"}
  Runtime = Runtime
  MaxExtracts = 1
  ExtractFirst = TRUE
  InOrder = TRUE
  MaxDigests = 1
SYMMETRY ShapeSymmetry
CHECK_DEADLOCK FALSE
INVARIANTS
  ImpactSpeaks
  ImpactSilent
  NotesExact
PROPERTIES
  ImpactTellsLatest
