SPECIFICATION Spec
CONSTANTS
  NUM_OF_THREADS = 3
  Missing = Missing
  Lines <- MCLines
  Answers <- MCAnswers
INVARIANTS NothingLost CrashesOnlyOnEmpty VerdictIsRight
