SPECIFICATION Spec
CONSTANTS
  MaxMessages = 10
  MinimumTokensToInit = 3
  MinimumTokensBetweenUpdates = 2
  ToolCallsBetweenUpdates = 2
  CompactTokens = 5
  MinimumRecentMessages = 1
  Answers = {"plain", "tools"}
  Faults = {"model_error", "io_error", "slow", "crash"}
CHECK_DEADLOCK FALSE
INVARIANTS
  TypeOK
  SummaryCoversBoundary
  RecentTurnsStay
  ExtractedAtMostOnce
  NothingForgotten
  EveryAnswerExtracted
