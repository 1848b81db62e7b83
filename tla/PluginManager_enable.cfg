\* One plugin and one controller: no race, only an order of calls.
SPECIFICATION Spec
CONSTANTS
  MaxPlugins  = 1
  Plugins     = {p1}
  Names       = {n1}
  Driven      = {p1}
  Controllers = {c1}
  Walkers     = {}
PROPERTY EnableMakesActive
CHECK_DEADLOCK FALSE
