CONSTANTS
  N = 2
  Attempts = 11
  MaxCounter = 1
  MaxRows = 3
  MCWork = {0, 1, 2, 3, 5}
  ProcessFiles <- MCFiles
  cyclesPerBurst = 2
  BUFFER_SIZE_1 = 4
  BUFFER_SIZE_2 = 2
  Sources <- Contents
  Destinations <- Olds
  Characters = {"1", "2", "x", "y", "z", "o", "A", "B", "X", "Y", "Z"}
  Letters = {"a", "q"}
  MaxLine = 4
  Lists <- Numbers
SPECIFICATION ExercisesSpec
INVARIANTS
  MutualExclusion Ledger EvenTurns CompletionOrder
  CopiedInTurns 
PROPERTIES
  EveryoneExits StrictPriority RunsToTheEnd EndsUnlessDirectory RunsWhatWasTyped
\* every one of the programs ends
CHECK_DEADLOCK FALSE
