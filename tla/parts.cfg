SPECIFICATION PartsSpec
CONSTANTS
  Thread = {a, b, t}
  Actor = {a, b}
  Site = {c, d}
  Way = w1
  None = None
  Drift = 2
  Pick <- LowestFree
INVARIANTS ThreeShareSafely LockExclusion NoWakeupLost KillsOwnOnly InterruptsRestored NothingSharedByMistake TransactionFits RunsAsParsed ProgramOrderKept AnswersMatchRequests NothingIsStuck GamesAreSolved
PROPERTY ImplementsTty
SYMMETRY Alike
CHECK_DEADLOCK FALSE
