SPECIFICATION FairSpec
CONSTANTS
  Threads = {t1, t2}
  NoThread = NoThread
  Objects = {o1}
  NoObject = NoObject
  Descriptors = {d1}
  NoFd = NoFd
  Tags = {c1, c2}
  NoTag = NoTag
  Pins = {}
  NoPin = NoPin
  Hook = {"client", "handshake"}
  Passwords = {"None", "callable"}
  Rules = {"keep", "alone"}
INVARIANTS
  TypeOK
  OwnDataUnlessTorn
  GilBalance
PROPERTIES
  HandshakeEnds
  HandshakeAdvances
CONSTRAINT OneHook
CHECK_DEADLOCK FALSE
