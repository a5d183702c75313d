SPECIFICATION Spec
CONSTANTS
  MaxMessages = 3
  Pushers = 1
  MaxIterations = 3
  MaxTaskID = 4
  Contents = {"a", "b"}
  MaxAdds = 2
  WorkingBudget = 1
  TopK = 1
  MemoryCalls = {"c1", "c2"}
  Journals = {"j1", "j2"}
  Entries = {"f1"}
  MaxRecalls = 2
  Descriptions = {"d", "x"}
  Deviant = {"x"}
  MaxItems = 2
  MaxToolCalls = 3
  MaxQueries = 2
  RecentLimit = 3
  Collections = {"k1", "k2"}
  Pages = {"p1", "p2"}
  Expired = {}
  Texts = {"t", "u"}
  Phrase = {"t"}
  Readers <- ReadersOfPages
  Questions <- GoldenQuestions
  RetrievalLimit = 1
  MaxEdits = 2
  Facts = {"f", "g"}
  Scopes <- UserScopes
  Callers = {"c1", "c2"}
  MemoryKeys = {"k1"}
  Route <- RouteToPolicy
  LayerWriters = {"w1", "w2"}
  MaxWrites = 2
  Skills = {"s1", "s2"}
  SkillBudget = 1
  SnipTokens = 0
  KeepRecent = 1
  SummaryTokens = 3
  MaxResultTokens = 2
  MaxHistory = 4
  MaxBoundaries = 2
  SupportQueries = {"q1", "q2"}
  MaxTurns = 5
  TriggerTokens = 4
  TargetTokens = 4
  PreserveRecent = 1
  MaxRecentErrors = 1
  ContextBudget = 3
  SupportingMax = 1
  MaxCandidates = 3
  BeamSize = 2
  MaxDepth = 2
  NSim = 3
  ForestSize = 2
  MaxOptions = 2
  FullReward = 6
  Explanations = {"e1", "e2"}
  MaxHypotheses = 2
  MaxEvidence = 2
  MaxRounds = 2
  Versions = {"v1", "v2"}
  SkillTenants = {"t1"}
  SkillRuns = {"r1", "r2"}
  MinimumSamples = 1
  Window = 1
  MaxEvents = 1
  MaxClock = 2
  MaxClaims = 3
  MaxSteps = 2
  Threshold = 1
  Sure = 2
  Batch = 2
  CompareWindow = 2
  MaxLessons = 1
  MaxTraces = 7
  MaxUses = 1
  MaxCritiques = 3
  QualityThreshold = 2
  Perfect = 2
  MaxOutput = 3
  MaxRequests = 3
  Tools = {"lookup", "notice", "extra"}
  AllowedTools = {"lookup", "notice"}
  Risk <- RiskOfCall
  AutoApprove = {"low"}
  RequireHuman = {"high", "critical"}
  MaxToolRounds = 2
  Candidates <- ProposedMemories
  Slug <- SlugOfTopic
  TopicWriters = {"w1", "w2"}
  MaxUpserts = 2
  MaxRecalled = 1
  Messages = {"m1", "m2", "m3", "m4", "m5"}
  Derived = {"m4"}
  TooLong = {"m5"}
  MaxLines = 4
  StateKeys = {"k1", "k2"}
  ToolCalls = {"x", "y", "z"}
  RefsOf <- RefsOfCall
  OutputsOf <- OutputsOfCall
  GivenBy <- FieldsOfResult
  SaaSTenants = {"t42", "tenant-locked"}
  LockedTenants = {"tenant-locked"}
  Flags = {"smart_search", "security_enforcement"}
  SecurityFlags = {"security_enforcement"}
  Operators = {"o1", "o2"}
  MaxEffects = 1
  Decisions <- LabelledDecisions
  TaskSamples <- LabelledTasks
  MaxDecisions = 3
  MaxSamples = 2
  StoredTexts <- RowsOfMem0
  SearchRequests <- SearchesOfMem0
  MaxStored = 2
  DefaultTopK = 1
  DraftEntries <- DraftedFailures
  RecallRequests <- RecallsBeforeTool
  MaxEntries = 2
  DefaultRecallK = 1
  ScoreThreshold = 35
  EntryValues <- LayerEntries
  BudgetOverrides <- ConfiguredBudgets
  DefaultBudgets <- BudgetsOfLayers
  EntryKeys = {"l1", "l2", "l3"}
  Perishable = {"l1"}
  MaxAssemblies = 2
  Objects <- RepliedObjects
  Proses <- ProseAround
  Fences = {"none", "block", "open", "inline"}
  MaxFiles = 2
  MaxRows = 1
  MaxTableSize = 2
  ImageTokens = 3
INVARIANTS TypeOK AnswerIsComplete OutcomeTellsThePolicy VerdictIsAcyclic NothingIsForgotten
  StoresKeepUp OnlyReviewedIsUsed UrgentFirst LoopsKeepScore ResultsAddUp AnswersAreGrounded
PROPERTIES EveryMessageAnswered
CHECK_DEADLOCK FALSE
