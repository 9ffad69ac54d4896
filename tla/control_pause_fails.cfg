\* Fails: the command has moved the run to PAUSED before the worker tries the same transition.
SPECIFICATION Spec
CONSTANTS
    None = none
    p1 = p1
    p2 = p2
    Process = {p1}
    Starter = p1
    Stages = 2
    Batches = 2
    Commands = {"pause"}
    Limits <- OnePause
INVARIANT
    PauseNeverFails
CHECK_DEADLOCK FALSE
