SPECIFICATION Spec
CONSTANTS
  Body <- MCBody
  Objects <- MCObjects
  KnownLeaks <- MCKnownLeaks
  KnownFaults <- MCKnownFaults
  Mutes <- MCMutes
  Facts <- MCFacts
INVARIANTS
  NothingLost
  NothingReleasedTwice
  
  GilHeld
  IInv
  DInv
