SPECIFICATION MCSpec
CONSTANTS
  listed = listed
  unlisted = unlisted
  NoRule = NoRule
  Unhashable = Unhashable
  Absent = Absent
  BareString = BareString
  Rules <- MCRules
  Words <- MCWords
  Calls <- MCCalls
  Registries <- MCRegistries
  Reports <- MCReports
  Injections = {}
  Listings <- MCListings
  MaxFindings = 2
INVARIANTS
  NothingEscapesTheDomains
CHECK_DEADLOCK FALSE
