SPECIFICATION Spec
CONSTANTS
  Skills = {}
  SkillBudget = 0
  SnipTokens = 2
  KeepRecent = 1
  SummaryTokens = 3
  MaxResultTokens = 2
  MaxHistory = 4
  MaxBoundaries = 2
CHECK_DEADLOCK FALSE
INVARIANT RecentTailStays
