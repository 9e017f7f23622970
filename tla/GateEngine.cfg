SPECIFICATION MCSpec
CONSTANTS
  Validators = {v1, v2}
  Default = Default
  NotADict = NotADict
  NoOnFail = NoOnFail
  Texts = {"ALLOW", "warn", "BLOCK", "bogus"}
  MaxResults = 3
INVARIANTS
  DecisionIsVerdict
  ErrorIsNeverReleased
  RelaxedOnlyByPolicy
  WorseIsNeverReleasedMore
CHECK_DEADLOCK FALSE
