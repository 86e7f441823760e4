SPECIFICATION ElectedSpec
CONSTANTS
  Server = {s1, s2}
  Command = {c1, c2}
  Nil = Nil
  SnapShotInterval = 0
  MaxTerm = 2
  MaxIndex = 2
  MaxRestarts = 1
SYMMETRY Symmetry
VIEW View
ACTION_CONSTRAINT EagerSend
INVARIANTS MatchIsDurable NoPanic
PROPERTIES ProgressKept ImplementsReplicatedLog
CHECK_DEADLOCK FALSE
