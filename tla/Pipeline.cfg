SPECIFICATION Spec
CONSTANTS
  NotADict = NotADict
  NoOnFail = NoOnFail
INVARIANTS
  ProceedsOnlyReleased
  EvidenceSurvives
  AuditIsFailClosed
  

  
CHECK_DEADLOCK FALSE
