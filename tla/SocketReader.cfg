SPECIFICATION FairSpec
CONSTANTS
  Newline = nl
  Byte = {nl, x}
  ALLOC_INCREMENT = 2
  MaxBytes = 4
  MaxSize = 3
  MaxRefs = 1
INVARIANTS IInv BufferFits
PROPERTIES StreamSpec ReadlineResult ReadlinesResult ReadingAdvances EofEndsCalls LineArrives
CHECK_DEADLOCK FALSE
