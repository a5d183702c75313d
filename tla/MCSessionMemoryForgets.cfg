SPECIFICATION Spec
CONSTANTS
  MaxMessages = 10
  MinimumTokensToInit = 3
  MinimumTokensBetweenUpdates = 2
  ToolCallsBetweenUpdates = 3
  CompactTokens = 5
  MinimumRecentMessages = 2
  Answers = {"plain", "tools"}
  Faults = {}
CHECK_DEADLOCK FALSE
INVARIANT NothingForgotten
