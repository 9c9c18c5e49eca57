SPECIFICATION Spec
CONSTANTS
  Roles = {"host", "client"}
  MaxFrames = 3
  MaxMgmt = 3
  RetryLimit = 2
INVARIANTS SentIntact CmdIsLast MgmtInOrder ReplyIntact
PROPERTY Drains
CHECK_DEADLOCK FALSE
