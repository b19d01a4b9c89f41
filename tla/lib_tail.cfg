SPECIFICATION Spec
CONSTANTS
    Pids = {"p1", "p2"}
    Root = "p1"
    Pipes = {1, 2, 3}
    MaxFds = 2
    Commands = {2, 3}
    Tails = {"end", "digit"}
    ChildrenExec = TRUE
    Kills = FALSE
    ReuseKilled = FALSE
PROPERTIES
    MailboxSpec
CHECK_DEADLOCK FALSE
