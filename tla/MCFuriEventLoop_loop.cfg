SPECIFICATION Spec
CONSTANTS
  Objects = {q1, q2}
  Items = {i1, i2}
  Kinds <- AllKinds
  Capacity = 1
  Actors = {task}
  Loop = loop
  CustomEvents = {e1}
  Callbacks = {f1}
  MaxPending = 2
  UserOps <- SafetyOps
  Nil = Nil
SYMMETRY Symmetry
INVARIANTS TypeOK RegistrySound WaitingSound ItemAliveWhileProcessed NoLostWakeup LevelNotLost AnnouncementsNotLost
PROPERTIES DeliverySafety
CHECK_DEADLOCK FALSE
