SPECIFICATION Spec
CONSTANTS
  MaxSubscribers = 2
  Nodes          = {n1, n2, n3}
  Names          = {a, b}
  Subscribers    = {s1, s2}
  Dispatchers    = {d1, d2}
  Masks          <- MCMasks
  Types          <- MCTypes
INVARIANT CallbackOutsideLockIsSafe
CHECK_DEADLOCK FALSE
