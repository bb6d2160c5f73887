SPECIFICATION RuntimeSpec
CONSTANTS
  Threads = {t1}
  Callbacks = {cb, asking}
  Requesting = {asking}
  MaxChecks = 2
  NULL = NULL
  Users = {t1}
  Geoms = {g1, g2, g3}
  Owner = Owner
  NONE = NONE
INVARIANTS OperationsTerminated NoSpuriousInterrupt RequestNotLost
INVARIANTS FactoryOutlivesGeometries FreedWhenUnused
PROPERTY DueIsServed
CHECK_DEADLOCK FALSE
