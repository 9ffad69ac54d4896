\* Every course of the runbooks, with a crash, control commands and resumes in between.
SPECIFICATION FairSpec
CONSTANTS
    None = none
    Node = {"a", "k"}
    Config <- MCConfig
    Runbooks <- MCRunbooks
    CriticAnswer = {"pass", "bare", "fail", "hint", "odd", "extra", "text", "list"}
    MaxCrashes = 1
    MaxCommands = 2
INVARIANTS
    TypeOK
    CompletedThroughGates
    StagesInOrder
    SnapshotDecidesAlike
    SessionBounded
    RetryNeedsHeadroom
    Progress
    Budgets
PROPERTIES
    RunRests
CHECK_DEADLOCK FALSE
