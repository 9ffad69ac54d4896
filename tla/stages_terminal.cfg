\* Fails: a command given by another process takes the run state from the latest checkpoint, and
\* a run that failed by an exception has none that says so.
SPECIFICATION FairSpec
CONSTANTS
    None = none
    Node = {"a", "k"}
    Config <- MCConfig
    Runbooks <- MCRunbooks
    CriticAnswer = {"pass", "bare", "fail", "hint", "odd", "extra", "text", "list"}
    MaxCrashes = 1
    MaxCommands = 2
PROPERTY
    TerminalIsFinal
CHECK_DEADLOCK FALSE
