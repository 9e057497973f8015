SPECIFICATION FairProbeSpec
CONSTANTS
  Policies <- MCPolicies
  MaxHistory = 6
  Jobs <- SomeJobs
  Responses <- SomeResponses
  Texts <- SomeTexts
  Includes <- SomeIncludes
  Patterns <- Expressions
  Matches <- SomeMatches
  Paths <- SomePaths
  Trees <- SomeTrees
  Nesting = 4
  Depth <- SomeDepth
  NaN = NaN
  NotJson = NotJson
  None = None
  DaysLeft <- SomeDays
INVARIANTS
  CountersMatchHistory
  StatusMatchesHistory
  VerdictMatchesAnswer
PROPERTIES
  ProbesEnd
CHECK_DEADLOCK FALSE
