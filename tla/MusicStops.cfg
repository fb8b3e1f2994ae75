SPECIFICATION Spec
CONSTANTS
  NumberOfSongs = 2
  Duration <- MCTwoDuration
  MaxCommands = 1
PROPERTY StopsWhenCounted
