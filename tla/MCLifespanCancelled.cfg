SPECIFICATION SupportSpec
CONSTANTS
  Pieces = {"lifespan"}
  LastDay = 3
  RetainDays = 1
  MaxLogRows = 2
  MaxSetBacks = 1
  MaxStarts = 2
  Ids = {1, 2, 3, 4, 5}
  Attr <- MCAttr
  Filters <- MCFilters
  Limit = 1
  Fanout = 2
  Batches = {{2, 3}, {2, 4, 5}}
  MaxChanges = 2
  SweepDirs = {1, 2}
  Interval = 1
  Delays = {1, 2}
  MaxSleep = 2
  EvictAfter = 4
  DailyBudget = 1
  DayLength = 4
  ActivityMax = 1
  MaxTime = 4
  Answers = {"no_session", "unreachable", "messages", "wrong_fields", "alien"}
  MaxBroken = 0
INVARIANTS
  EveryExitCleansUp
CHECK_DEADLOCK FALSE
