SPECIFICATION Spec
CONSTANTS
  Threads = {t1, t2, t3}
  NoThread = noThread
  Objects = {}
  NoObject = noObject
  Orphan = orphan
  Addresses = {}
  Tuples = {}
  MainThread = t1
  Managers = {m1, m2}
  NoManager = noManager
  WithCallback = {m1}
  MaxNesting = 2
INVARIANTS IInv InsideUp LeftDown
