SPECIFICATION Spec
CONSTANTS
    Pids = {"p1", "p2"}
    Root = "p1"
    Calls = {"fork", "exit"}
    Signals = {}
    Kills = TRUE
    MaxCalls = 2
    MaxSignals = 1
    LoadLib = FALSE
    Unnamed = {}
    Replacements = {}
CHECK_DEADLOCK FALSE
INVARIANT NewbornHasStopped
