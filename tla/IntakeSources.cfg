SPECIFICATION FairSpec
CONSTANTS
  m1 = m1
  Messages <- OneMessage
  Sorts = {"delegated", "owner_call", "application"}
  Second = 2
  Lookback = 2
  OwnerWait = 1
  Delays = {0, 2}
  Stamps = {TRUE}
  SendTimes = {1}
  EditTimes = {3}
  StartTimes = {0, 3}
  CommandTimes = {3}
  MaxTime = 4
  MaxStarts = 2
  MaxFailures = 1
INVARIANTS TypeOK NothingSlipsPast
PROPERTIES LedgerKept VersionsMoveForward EventuallyRecorded
CHECK_DEADLOCK FALSE
