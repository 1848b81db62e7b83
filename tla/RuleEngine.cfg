\* Two rules, with or without a custom action, built, added, found, changed and
\* removed while two evaluators run and statistics are reset.
SPECIFICATION MCSpec
CONSTANTS
  Rules          = {r1, r2}
  Priorities     = {1, 2}
  Conditions    <- MCConditions
  Events        <- MCEvents
  Word           = 256
  Evaluators     = {e1, e2}
  MaxConditions  = 1
  MaxEvaluations = 2
SYMMETRY MCSymmetry
INVARIANTS
  TypeOK
  SetInOrder
  FirstMatchWins
  HitsBalance
  HitRuleLives
\* The bounds stop the system, and so does a bad access.
CHECK_DEADLOCK FALSE
