SPECIFICATION FairSpec
CONSTANTS
  Names = {"p1","p2","f"}
  Req <- One
  Nodes = {"n1"}
  Jobs = {"j"}
  JobOf <- Owner
  Alloc <- Room
  MaxUid = 2
  ChannelCap = 1
  BatchNum = 2
  Scenarios <- All
INVARIANTS TypeOK NodeAccounting NoOvercommit AgreesWhenSettled
PROPERTIES BindSettles
CHECK_DEADLOCK FALSE
