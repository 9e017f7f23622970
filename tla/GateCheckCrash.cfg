SPECIFICATION MCSpec
CONSTANTS
  listed = listed
  unlisted = unlisted
  NoRule = NoRule
  Unhashable = Unhashable
  Absent = Absent
  BareString = BareString
  Default = Default
  NotADict = NotADict
  NoOnFail = NoOnFail
  Rules <- MCRules
  Words <- MCWords
  Calls <- MCCalls
  Registries <- MCRegistries
  Reports <- MCReports
  Injections = {}
  Validators <- Named
  Texts = {"ALLOW", "warn", "BLOCK", "bogus"}
  Requests <- MCRequests
  PolicyFiles <- MCPolicyFiles
  Reasons = {1, 2}
  MaxFindings = 2
INVARIANTS
  CrashedMeansError
CHECK_DEADLOCK FALSE
