SPECIFICATION FairSpec
CONSTANTS
    Pids = {"p1", "p2", "p3"}
    Root = "p1"
    Pipes = {1, 2, 3, 4}
    MaxFds = 2
    Commands = {2, 3}
    Tails = {"end"}
    ChildrenExec = TRUE
    Kills = TRUE
    ReuseKilled = FALSE
INVARIANTS
    TypeOK
    ToldListens
    NobodyAborts
    FifoGoesWithItsProcess
PROPERTIES
    EveryImageListens
    MailboxSpec
CHECK_DEADLOCK FALSE
