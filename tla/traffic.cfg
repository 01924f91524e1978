SPECIFICATION FairSpec
CONSTANTS
  Tag = {a}
  Replies <- MCReplies
  Value <- MCValue
  NoValue = NoValue
  Base = 2
  Name <- MCName
  Amounts = {4}
  MaxMoved = 8
  MaxRestarts = 2
  MaxFailures = 1
INVARIANTS
  TypeOK
  DecodesWhatWasSent
  NeverOvercounts
  ExactUntilRestart
PROPERTIES
  EventuallyCounted
CHECK_DEADLOCK FALSE
