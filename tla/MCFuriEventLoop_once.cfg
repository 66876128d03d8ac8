SPECIFICATION FairSpec
CONSTANTS
  Objects = {q1}
  Items = {i1, i2}
  Kinds <- OnceEdge
  Capacity = 1
  Actors = {task}
  Loop = loop
  CustomEvents = {}
  Callbacks = {}
  MaxPending = 0
  UserOps <- OnceOps
  Nil = Nil
PROPERTIES OnceEventOccurs
CHECK_DEADLOCK FALSE
