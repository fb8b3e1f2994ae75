CONSTANTS
  Batches <- MCBatches
  Modes <- MCModes
  Stop = Stop
  MaxLength = 4
  Queues <- MCQueues
  Runs = {r1, r2}
  NoRun = NoRun
SPECIFICATION AssignmentSpec
INVARIANTS
  TypeOK
  OneHomePerProcess
  Lockstep
  StopsWhenAllComplete
  ClockAndSwitches
  TimesCoverWork
  RecordedResults
  Selected
  OthersKeepOrder
PROPERTIES
  PolicyRespected
  QueueKeepsOrder
  AllComplete
  BatchSpec
  NobodyLeftOver
  StuckOnlyIfCPULost
\* a selection returns, and of a start-up a scheduler may stay in accept
CHECK_DEADLOCK FALSE
