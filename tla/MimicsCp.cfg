CONSTANTS
  N = 0
  Attempts = 0
  MaxCounter = 1
  MaxRows = 1
  MCWork = {0, 1, 2, 3, 5}
  ProcessFiles <- MCFiles
  cyclesPerBurst = 2
  BUFFER_SIZE_1 = 4
  BUFFER_SIZE_2 = 2
  Sources <- Contents
  Destinations <- Olds
  Characters = {"1", "2", "x", "y", "z", "o", "A", "B", "X", "Y", "Z"}
  Letters = {"a", "q"}
  MaxLine = 0
  Lists = {}
SPECIFICATION ExercisesSpec
INVARIANT MimicsCp
\* the programs end
CHECK_DEADLOCK FALSE
