SPECIFICATION StaleTailSpec
CONSTANTS
  Server = {s1, s2, s3}
  Command = {c1, c2}
  Nil = Nil
  SnapShotInterval = 2
  MaxTerm = 2
  MaxIndex = 3
  MaxRestarts = 0
SYMMETRY Symmetry
VIEW View
ACTION_CONSTRAINT EagerSend
INVARIANTS CommandsAgree
CHECK_DEADLOCK FALSE
