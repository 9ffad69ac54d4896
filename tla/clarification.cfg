\* Every course of a clarification: two revise commands, one interrupt, another process.
CONSTANTS
    None = None
    Blank = Blank
    u1 = u1
    p1 = p1
    p2 = p2
    b1 = b1
    w1 = w1
    Url <- MCUrl
    Path <- MCPath
    Basename <- MCBasename
    Word <- MCWord
    Request <- MCRequest
    Reply <- MCReply
    ModelGraph <- MCModelGraph
    Answers <- MCAnswers
    Sentence <- MCSentence
    Patch <- MCPatch
    MaxRevisions = 2
    MaxInterrupts = 1

SPECIFICATION Spec

INVARIANTS
    TypeOK
    SourcesRead
    QuestionsAreOpen
    KnownFieldAskedOnlyIfErased
PROPERTIES
    PlanningEnds
CHECK_DEADLOCK FALSE
