CONSTANTS
  NumberOfSongs = 3
  Duration <- MCDuration
  MaxCommands = 2
  Names = {"a", "b"}
  MaxSongs = 2
  MaxSeconds = 3
  MaxRuns = 3
SPECIFICATION MusicSpec
INVARIANTS NeverOverplayed SkipsOnlyUnheard ToldCurrent TimesKept
