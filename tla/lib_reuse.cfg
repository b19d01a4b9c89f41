SPECIFICATION Spec
CONSTANTS
    Pids = {"p1", "p2", "p3"}
    Root = "p1"
    Pipes = {1, 2, 3, 4, 5}
    MaxFds = 3
    Commands = {2, 3}
    Tails = {"end"}
    ChildrenExec = TRUE
    Kills = TRUE
    ReuseKilled = TRUE
PROPERTIES
    MailboxSpec
CHECK_DEADLOCK FALSE
