\* Worker and controller of one process, restarted after a crash or an exit, or two processes.
SPECIFICATION FairSpec
CONSTANTS
    None = none
    p1 = p1
    p2 = p2
    Process = {p1, p2}
    Starter = p1
    Stages = 2
    Batches = 2
    Commands = {"pause", "continue", "stop", "stopNow", "revise"}
    Limits <- MCLimits
INVARIANTS
    TypeOK
    Positions
    RequestHeeded
    CheckpointNeverAhead
    CompletedRanEverything
PROPERTIES
    ThreadsReturn
CHECK_DEADLOCK FALSE
