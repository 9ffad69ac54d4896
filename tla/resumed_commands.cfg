\* A session that resumes a run or continues a paused one, with two lines typed.
CONSTANTS
    MaxLines = 2
    MaxLoops = 2
SPECIFICATION LineSpec
INVARIANT
    LoopsListen
CHECK_DEADLOCK FALSE
