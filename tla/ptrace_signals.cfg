SPECIFICATION FairSpec
CONSTANTS
    Pids = {"p1", "p2"}
    Root = "p1"
    Calls = {"other", "rt_sigaction", "rt_sigreturn", "fork", "exit"}
    Signals = {"USR1", "STOP"}
    Kills = FALSE
    MaxCalls = 4
    MaxSignals = 2
    LoadLib = FALSE
    Unnamed = {}
    Replacements = {"other"}
CHECK_DEADLOCK FALSE
INVARIANTS
    TypeOK
    InsideKernelAgrees
    ReturningAgrees
PROPERTIES
    CallbackOrder
    StartTracingReturns
