SPECIFICATION CallSpec
CONSTANTS
  NoRule = NoRule
  Unhashable = Unhashable
  Absent = Absent
  BareString = BareString
  Unresolved = Unresolved
  Rules <- MCRules
  Words <- MCWords
  Prefixed <- MCPrefixed
  Namespace <- MCNamespace
  Length <- MCLength
  Matches <- MCMatches
  IsDateTime <- MCIsDateTime
  JsonValues <- MCJsonValues
  JsonSchemas <- MCJsonSchemas
  RecursionLimit <- MCRecursionLimit
  PythonEqual <- MCPythonEqual
  Inputs <- MCInputs
INVARIANTS
  SpectralLosesNothing
  OpaLosesNothing
  AcceptsExactlyValid
  OnlyGapsAreErrors
  SchemaFailuresBlock
  CommandAgreesWithDomain
  PassedCheckoutIsClean
  CleanScansAreComplete
CHECK_DEADLOCK FALSE
