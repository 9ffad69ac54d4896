\* Fails: the checkpoint after CONTROL keeps no gate snapshot, so a stage that passed fails its
\* gate after a resume.
SPECIFICATION Spec
CONSTANTS
    None = none
    Node = {"a", "k"}
    Config <- MCConfig
    Runbooks <- MCRunbooks
    CriticAnswer = {"pass", "bare", "fail", "hint", "odd", "extra", "text", "list"}
    MaxCrashes = 1
    MaxCommands = 2
INVARIANT
    ResumeDecidesAlike
CHECK_DEADLOCK FALSE
