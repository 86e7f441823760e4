SPECIFICATION LaggingSpec
CONSTANTS
  Server = {s1, s2, s3}
  Command = {c1}
  Nil = Nil
  SnapShotInterval = 2
  MaxTerm = 3
  MaxIndex = 2
  MaxRestarts = 1
SYMMETRY Symmetry
VIEW View
ACTION_CONSTRAINT EagerSend
INVARIANTS AppliedInOrder
CHECK_DEADLOCK FALSE
