SPECIFICATION CatchUpSpec
CONSTANTS
  Server = {s1, s2, s3}
  Command = {c1}
  Nil = Nil
  SnapShotInterval = 2
  MaxTerm = 3
  MaxIndex = 2
  MaxRestarts = 0
CHECK_DEADLOCK FALSE
PROPERTIES AcceptedIsApplied SnapshotInstalled
