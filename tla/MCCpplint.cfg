SPECIFICATION Spec
CONSTANTS
  ErrorCategories <- MCErrorCategories
  LegacyCategories <- MCLegacyCategories
  GlobalSuppressions <- MCGlobalSuppressions
  Nolint <- MCNolint
  DefaultFilters <- MCDefaultFilters
  Flaw <- MCFlaw
  Header <- MCHeader
  Uses <- MCUses
  Words <- MCWords
  MacroNames <- MCMacroNames
  TestNames <- MCTestNames
  TestLikeNames <- MCTestLikeNames
  NormalTrigger = 2
  TestTrigger = 3
  DefaultLineLength = 3
  IsInput <- MCIsInput
CHECK_DEADLOCK FALSE
INVARIANTS
  ReportedExactly
  CodeIsElided
  ExpressionsClose
  ExpressionsReverse
  FirstBranchCounts
  BracesCounted
  IncludeOrderExact
  IncludesRemembered
  BranchesForgotten
  LongFunctionsReported
