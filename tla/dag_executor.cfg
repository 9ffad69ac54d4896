\* Every schedule of every small graph, with one pause and resume.
SPECIFICATION FairSpec
CONSTANTS
    None = none
    Label = {"true", "false"}
    Node = {1, 2, 3, 4}
    Graphs <- MCGraphs
    MaxParallel = 2
    MaxInterrupts = 1
INVARIANTS
    TypeOK
    Bookkeeping
    AtMostOnce
    PrunedNeverRuns
    Confluent
    OrderIsTopological
PROPERTIES
    ImplementsDataflow
    ExecuteReturns
CHECK_DEADLOCK FALSE
