SPECIFICATION FairSpec
CONSTANTS
  Calls = {c1, c2}
  Hooks = {h1, h2}
  Inputs <- PlainInputs
  Buffer = 1
  Hosts = {"terminal", "headless"}
CHECK_DEADLOCK FALSE
INVARIANTS
  TypeOK
  OneAnswer
  EndedIsNotPending
  HookAnswerCounts
  StricterNeverMilder
PROPERTIES
  ImplementsFirstAnswer
  EveryCallReturns
