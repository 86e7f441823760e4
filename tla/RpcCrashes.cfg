SPECIFICATION FairSpec
CONSTANTS
  Server = {s1, s2}
  Call = {c1}
  MaxBoots = 3
  End <- MCEnd
CHECK_DEADLOCK FALSE
INVARIANTS
  RpcInv
  PositiveReplyPersisted
  EndsFollowConnected
PROPERTIES
  CallsReturn
  HandlersEnd
