SPECIFICATION MCSpec
CONSTANTS
  spec = spec
  registry = registry
  other = other
  ruleset = ruleset
  rego = rego
  rego2 = rego2
  extra = extra
  Absent = Absent
  NoFile = NoFile
  Contents = {1, 2}
  Files <- MCFiles
  Calls <- MCCalls
  MaxChanges = 2
INVARIANTS
  ReleaseNamesWhatWasRead
  PolicyHashNamesRego
CHECK_DEADLOCK FALSE
