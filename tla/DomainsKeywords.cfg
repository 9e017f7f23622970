SPECIFICATION CallSpec
CONSTANTS
  NoRule = NoRule
  Unhashable = Unhashable
  Absent = Absent
  BareString = BareString
  Unresolved = Unresolved
  Rules <- MCRules
  Words <- MCWords
  Prefixed <- MCPrefixed
  Namespace <- MCNamespace
  Length <- MCLength
  Matches <- MCMatches
  IsDateTime <- MCIsDateTime
  JsonValues <- MCJsonValues
  JsonSchemas <- MCJsonSchemas
  RecursionLimit <- MCRecursionLimit
  PythonEqual <- MCPythonEqual
  Inputs <- MCInputs
INVARIANTS
  UnknownKeywordsRaise
CHECK_DEADLOCK FALSE
