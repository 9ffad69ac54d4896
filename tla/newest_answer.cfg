\* Fails: of two answers to the same field the older one is planned with.
CONSTANTS
    None = None
    Blank = Blank
    u1 = u1
    p1 = p1
    p2 = p2
    b1 = b1
    w1 = w1
    Url <- MCUrl
    Path <- MCPath
    Basename <- MCBasename
    Word <- MCWord
    Request <- OneRequest
    Reply <- OneReply
    ModelGraph <- MCModelGraph
    Answers <- MCAnswers
    Sentence <- MCSentence
    Patch <- TwoPatches
    MaxRevisions = 2
    MaxInterrupts = 1

SPECIFICATION Spec

PROPERTY
    NewestAnswerWins
CHECK_DEADLOCK FALSE
