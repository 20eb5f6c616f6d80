\* The commands of the owner about one work item, as a message or typed, with crashes.
SPECIFICATION Spec

CONSTANTS
  w1 = w1
  k1 = k1
  d1 = d1
  a1 = a1
  Earlier = Earlier
  NoLease = NoLease
  NoItem = NoItem
  NoKey = NoKey
  Works <- OneWork
  Workers <- OneWorker
  Drafts <- OneDraft
  Commands <- None
  Asks <- OneAsk
  Given <- EveryKind
  MaxRetries = 2
  MaxOwnerRetries = 1
  MaxGeneration = 2
  MaxSessions = 3
  Scopes <- FourScopes

INVARIANT TypeOK AppliedOnce AnswersAreTrue NoDeadEnd
PROPERTY AcknowledgedRests
CHECK_DEADLOCK FALSE
