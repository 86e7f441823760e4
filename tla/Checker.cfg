SPECIFICATION CheckerSpec
CONSTANTS
  Partitions = {"k1", "k2"}
  Searched = "k1"
  Width = 2
  History <- MCHistory
  MaxOperations = 3
  MaxTime = 2
CHECK_DEADLOCK FALSE
INVARIANTS ListIsRest LongestIsLongest CollectorInv ResultCorrect NoRaceOnLongest AnswerCorrect
PROPERTIES ImplementsCheckParallel Returns GoroutinesEnd
