SPECIFICATION FairSpec
CONSTANTS
  Objects = {q1, q2}
  Items = {i1, i2}
  Kinds <- LevelIn
  Capacity = 1
  Actors = {task}
  Loop = loop
  CustomEvents = {e1}
  Callbacks = {f1}
  MaxPending = 1
  UserOps <- ServedOps
  Nil = Nil
PROPERTIES DeliveryPromise AnnouncementsServed
CHECK_DEADLOCK FALSE
