SPECIFICATION Spec
CONSTANTS
  PromoteKinds = {"signature_change", "removed"}
  FoldKinds = {"modified", "behavior_note"}
  DropKinds = {"internal"}
  PromoteAddedIfInbound = TRUE
  RequireNoInboundToDrop = TRUE
  TokenCap = 30
  KeepOnOverflow = {"origin", "latest", "unresolved_breaking"}
  SummaryLengths = {15}
  MaxEvents = 4
INVARIANTS
  TypeOK
  BreakingKeptWhenRoom
  SummaryTellsTimeline
  SummaryNearCap
  ChurnLeavesNoTrace
PROPERTIES
  ContractFactsPersist
