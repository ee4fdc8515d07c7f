SPECIFICATION FairSessionSpec
CONSTANTS
  ReturnValues = {0, 5, 256}
  Causes = {0, 7}
  MaxLog = 2
  MaxHandlers = 2
INVARIANTS
  SessionTypeOK
  ReportMatchesLog
  OneOutcome
  DamageIsLogged
  PassIsEarned
  JudgedByResult
PROPERTIES
  ReturnedFinishes
  RunnerEnds
