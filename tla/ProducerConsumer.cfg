CONSTANTS
  Runs = {1, 2}
  N = 2
  Loops = 3
  MaxBadInputs = 1
SPECIFICATION Spec
INVARIANT SemaphoresCount
PROPERTIES
  BufferSpec
  EverythingConsumed
\* the program ends
CHECK_DEADLOCK FALSE
