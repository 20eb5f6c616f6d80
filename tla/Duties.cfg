SPECIFICATION Spec
CONSTANTS
    q1 = q1
    w1 = w1
    w2 = w2
    Requests = {q1}
    Workers = {w1, w2}
    MaxAttempts = 2
    MaxCrashes = 1
    MaxBase = 1
    Configured = {}
    MaxTold = 1
    EditedTo = {"open", "fixed"}
    MaxEdits = 2
    MaxStarts = 2
    MaxFailures = 1
    Runs = {"first", "second"}
    MaxWrites = 2
    Kinds = {"coding_question", "resource_handoff"}
    MaxTurns <- TurnsOf
    MaxToolCalls = 7
    MaxRepeatedCalls = 2
    MaxNoProgress = 2
    MaxTerminalOnlyAttempts = 1
    MaxVersions = 1
    Targets <- AllTargets
    MaxChat = 2
    MaxChanges = 1
INVARIANTS
    TypeOK
    NoneForgotten
    ReconciledOnce
    BaselineIsSilent
    WrittenOnce
    NothingOutdatedCited
    CorrectionIsOffered
    CallsRestOnEvidence
    SilencedForCause
    AdmittedOnlyIfOpen
PROPERTIES
    RecordedIsRemoved
    OwnerHears
    ClosedStaysClosed
\* The daemon may be down, a request answered or a run over with nothing left to do.
CHECK_DEADLOCK FALSE
