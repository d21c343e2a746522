SPECIFICATION FairSpec
CONSTANTS
  Threads = {t1, t2}
  MainThread = t1
  NoThread = NoThread
  Objects = {o1}
  NoObject = NoObject
  Orphan = Orphan
  Addresses = {a1}
  NoAddress = NoAddress
  EmptyTuple = empty
  Tuples = {empty}
  NoTuple = NoTuple
PROPERTY CallsReturn
CHECK_DEADLOCK FALSE
