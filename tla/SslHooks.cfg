SPECIFICATION Spec
CONSTANTS
  Threads = {t1, t2}
  NoThread = NoThread
  Objects = {o1, o2}
  NoObject = NoObject
  Descriptors = {d1, d2}
  NoFd = NoFd
  Tags = {c1}
  NoTag = NoTag
  Pins = {p1}
  NoPin = NoPin
  Hook = {"auth"}
  Passwords = {}
  Rules = {"keep", "alone"}
INVARIANTS
  IInv
  HooksAlive
  PinsAlive
  AuthRespected
SYMMETRY Symmetry
CHECK_DEADLOCK FALSE
