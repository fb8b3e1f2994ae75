CONSTANTS
  Batches <- RecordedBatches
  Modes <- RecordedModes
  Stop = Stop
SPECIFICATION Spec
INVARIANT PlottedFigures
