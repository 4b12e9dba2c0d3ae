SPECIFICATION Spec
CONSTANTS
  MaxRequests = 4
  Slots = {1, 2}
  MaxSessions = 1
  MaxScenarios = 2
  MaxRuns = 1
  KpiReports <- MCKpiReports
  Registries <- MCRegistries
  Questions <- MCQuestions
  HitLists <- MCHitLists
  RankReplies <- MCRankReplies
  MemoSize = 2
  TopK = 2
  MinScore = 20
INVARIANTS
  TypeOK
  NoOrphans
  AnswersAreCurrent
  RankedOnce
PROPERTIES
  NothingComesBack
CHECK_DEADLOCK FALSE
