SPECIFICATION Spec
CONSTANTS
    i1 = i1
    Items = {i1}
    MaxDeaths = 1
    MaxRuns = 2
INVARIANTS
    OneSender
    ClosedByNotice
    OfflineAfterOnline
PROPERTIES
    NeverReplayed
    RequirementsAreMet
\* Every session may be over.
CHECK_DEADLOCK FALSE
