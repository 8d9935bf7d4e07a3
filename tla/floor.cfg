SPECIFICATION Spec
CONSTANTS
  Route = Route
  Model = Model
  Entities <- RouteOnly
  NoEntity = NoEntity
  Files = {2, 4}
  KindOf <- RouteKind
  FilesOf <- RouteFile
  ModelOf <- RouteModel
  Shapes = {a, b}
  Absent = Absent
  MaxCommits = 2
  Services = {"orders", "payments"}
  Links <- AnyLinks
  NamesLike <- OwnNameOnly
  RealLLM = FALSE
  MaxRuns = 2
  ManifestSets <- AnyManifest
  OwnerOf <- RouteOwner
  NameOf <- ParameterName
  IdRank <- RouteRank
  Uses <- Calls
  Spellings <- ShortSpellings
  Parameters <- AnyParameter
  Words = {"v1", "charge"}
  Runtime = Runtime
  MaxExtracts = 2
  ExtractFirst = TRUE
  InOrder = FALSE
SYMMETRY ShapeSymmetry
CHECK_DEADLOCK FALSE
INVARIANTS
  TypeOK
  ManifestFloorFlagsBreaks
  BreakingSound
  BoundsBookendTimeline
  CodeEdgesAreUses
PROPERTIES
  EdgesOnlyImprove
  CodeUsesResolved
  SpellingsFindRoute
