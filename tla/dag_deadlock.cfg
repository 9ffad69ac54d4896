\* Every schedule of the small graphs, without fairness: a deadlock is a finite run.
SPECIFICATION Spec
CONSTANTS
    None = none
    Label = {"true", "false"}
    Node = {1, 2, 3, 4}
    Graphs <- MCGraphs
    MaxParallel = 2
    MaxInterrupts = 1
INVARIANTS
    NoSpuriousDeadlock
CHECK_DEADLOCK FALSE
