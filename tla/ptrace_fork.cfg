SPECIFICATION FairSpec
CONSTANTS
    Pids = {"p1", "p2", "p3"}
    Root = "p1"
    Calls = {"fork", "vfork", "clone", "exec", "exit"}
    Signals = {}
    Kills = FALSE
    MaxCalls = 4
    MaxSignals = 0
    LoadLib = FALSE
    Unnamed = {}
    Replacements = {}
CHECK_DEADLOCK FALSE
INVARIANTS
    ProcessListTracksTracees
PROPERTIES
    CallbackOrder
    StartTracingReturns
