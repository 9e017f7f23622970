SPECIFICATION MCSpec
CONSTANTS
  listed = listed
  unlisted = unlisted
  NoRule = NoRule
  Unhashable = Unhashable
  Absent = Absent
  BareString = BareString
  Rules <- MCRules
  Words <- MCWords
  Calls <- MCCalls
  Registries <- MCRegistries
  Reports <- MCReports
  Injections <- MCInjections
  Listings <- MCListings
  MaxFindings = 2
INVARIANTS
  RegistryCannotDowngradeCritical
CHECK_DEADLOCK FALSE
