\* Two threads; two processes with two crashes or failed writes; two executions of two nodes; three
\* lines typed; every setting of up to three retries.
CONSTANTS
    t1 = t1
    t2 = t2
    one = one
    two = two
    none = none
    NoOne = NoOne
    Thread = {t1, t2}
    Script <- MCScript
    Length <- MCLength
    ChunkMax = 3
    ChunkOverlap = 1
    Process = {1, 2}
    Migrations = 2
    Repeatable = {1}
    MaxFaults = 2
    Graph <- MCGraph
    MaxAttempts = 2
    MaxLines = 3
    MaxLoops = 2
    Config <- MCConfig

SPECIFICATION Spec

INVARIANTS
    TypeOK
    TraceKept
    WholeOrCrashed
    ReplaySame
    CommandsHeard
    Attempts
    ReturnsFinalStatus
    OnlyTransientRetried
PROPERTIES
    CallsEnd
CHECK_DEADLOCK FALSE
