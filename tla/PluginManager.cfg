\* One plugin driven by two controllers and walked by one event, and another
\* that competes for its name, or for the one place the limit leaves.
SPECIFICATION Spec
CONSTANTS
  MaxPlugins  = 1
  Plugins     = {p1, p2}
  Names       = {n1, n2}
  Driven      = {p1}
  Controllers = {c1, c2}
  Walkers     = {w1}
SYMMETRY MCSymmetry
INVARIANTS
  TypeOK
  RegistryConsistent
  LimitOvershoot
  SerialControlIsSafe
  StateTellsTheTruth
\* A walker that dies inside plugin_list_lock stops everything.
CHECK_DEADLOCK FALSE
