SPECIFICATION LogsSpec
CONSTANTS
  Server = {s1, s2, s3}
  Command = {c1, c2}
  Nil = Nil
  SnapShotInterval = 0
  MaxTerm = 4
  MaxIndex = 2
  MaxRestarts = 0
SYMMETRY Symmetry
VIEW View
INVARIANTS LeaderCompleteness StateMachineSafety LogMatching
PROPERTIES ImplementsReplicatedLog
CHECK_DEADLOCK FALSE
