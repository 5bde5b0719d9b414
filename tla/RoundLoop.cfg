CONSTANTS
    run = run
    write = write
    shell = shell
    fs = fs
    Calls = {run, write}
    Tools = {shell, fs}
    ToolOf <- MCToolOf
    Writes = {write}
    Replies <- MCReplies
    RunCall = run
    Limit = 1
    Params <- MCParams
    MaxSteers = 1
    MaxSpent = 1
SPECIFICATION FairSpec
INVARIANTS
    RoundsBounded
    FailuresStated
    AnswerAnnounced
    EveryTurnBilled
    ClientTold
PROPERTIES
    TurnEnds
    TurnAdvances
CHECK_DEADLOCK FALSE
