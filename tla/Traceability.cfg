SPECIFICATION MCSpec
CONSTANTS
  r1 = r1
  r2 = r2
  q1 = q1
  q2 = q2
  NoId = NoId
  NoRule = NoRule
  Unhashable = Unhashable
  Absent = Absent
  BareString = BareString
  Rules <- MCRules
  Words <- MCWords
  Requirements <- MCRequirements
INVARIANTS
  
  OnlyBlockersAreMandatory
  MandatoryIsTraced
CHECK_DEADLOCK FALSE
