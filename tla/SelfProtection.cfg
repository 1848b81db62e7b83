SPECIFICATION Spec
CONSTANTS
  text = text
  table1 = table1
  t1 = t1
  t2 = t2
  c1 = c1
  MaxChecks = 2
  Regions <- MCRegions
  TypeOf <- MCTypeOf
  Contents <- MCContents
  Sum <- MCSum
  Registrars <- MCRegistrars
  Checkers <- MCCheckers
SYMMETRY Symmetry
INVARIANTS TypeOK SlotsAccounted RefsFollowLock
PROPERTY VerdictIsRight
CHECK_DEADLOCK FALSE
