\* A draft requested again after its approval row was settled.
SPECIFICATION Spec
CONSTANTS
  w1 = w1  w2 = w2  k1 = k1  k2 = k2  d1 = d1  d2 = d2  c1 = c1
  NoLease = NoLease  NoItem = NoItem  NoKey = NoKey  NoWork = NoWork
  Works <- OneWork
  Workers <- OneWorker
  Drafts <- RiskyDraft
  Commands <- None
  Delegated <- OneWork
  Private <- None
  Risky <- RiskyDraft
  Outcomes <- ReplyOrApproval
  ShellApproval = FALSE
  Investigates = FALSE
  PolicyMayChange = TRUE
  MaxRetries = 2
  MaxOwnerRetries = 2
  MaxGeneration = 2
  MaxSessions = 2
  MaxCommands = 2
\* The system stops once the bounds on sessions and commands are spent.
CHECK_DEADLOCK FALSE
INVARIANTS AwaitingHasAction
