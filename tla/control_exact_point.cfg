\* Fails: the checkpoint of the pause command hides the one that says what was pending.
SPECIFICATION FairSpec
CONSTANTS
    None = none
    p1 = p1
    p2 = p2
    Process = {p1}
    Starter = p1
    Stages = 2
    Batches = 2
    Commands = {"pause", "continue"}
    Limits <- PauseAndContinue
PROPERTY
    OnlyPendingExecuted
CHECK_DEADLOCK FALSE
