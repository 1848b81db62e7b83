\* A list of two subscribers that two racing calls can make three, two
\* dispatches, unsubscription and teardown at any moment.
SPECIFICATION Spec
CONSTANTS
  MaxSubscribers = 2
  Nodes          = {n1, n2, n3, n4}
  Names          = {a, b}
  Subscribers    = {s1, s2}
  Dispatchers    = {d1, d2}
  Masks          <- MCMasks
  Types          <- MCTypes
SYMMETRY MCSymmetry
INVARIANTS
  SubscriberListConsistent
  CountOvershoot
PROPERTY CalledExactlyOnce
\* A dispatch that dies inside the lock stops everything.
CHECK_DEADLOCK FALSE
