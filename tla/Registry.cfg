SPECIFICATION MCSpec
CONSTANTS
  NoId = NoId
  MalformedEntry = MalformedEntry
  RuleIds = {govRule, apiRule}
  GovIds = {govRule}
  Bodies = {b1, b2}
  Paths = {p1, p2}
  MaxPaths = 2
  MaxEntries = 2
INVARIANTS
  SourceDefinesRule
PROPERTIES
  NeverRebound
  MergeSpec
CHECK_DEADLOCK FALSE
