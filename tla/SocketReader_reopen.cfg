SPECIFICATION FairSpec
CONSTANTS
  Newline = nl
  Byte = {nl, x}
  ALLOC_INCREMENT = 2
  MaxBytes = 4
  MaxSize = 3
  MaxRefs = 1
INVARIANT NoOldBytes
CHECK_DEADLOCK FALSE
