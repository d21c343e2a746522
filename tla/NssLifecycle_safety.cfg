SPECIFICATION Spec
CONSTANTS
  Threads = {t1, t2}
  MainThread = t1
  NoThread = NoThread
  Objects = {o1, o2}
  NoObject = NoObject
  Orphan = Orphan
  Addresses = {a1, a2}
  NoAddress = NoAddress
  EmptyTuple = empty
  Tuples = {empty, p1, p2}
  NoTuple = NoTuple
INVARIANTS IInv GilBalance RegistrationCurrent ArmedStaysListed NoLeakedContext LocksOrdered
PROPERTIES ShutdownOutcome CallsAdvance ClosesOnlyOwn LifetimeSpec
SYMMETRY Symmetry
CHECK_DEADLOCK FALSE
