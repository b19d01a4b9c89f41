SPECIFICATION FairSpec
CONSTANTS
    Pids = {"p1", "p2"}
    Root = "p1"
    Calls = {"other", "rt_sigaction", "kill0", "rt_sigreturn", "fork", "exec", "statx", "exit"}
    Signals = {}
    Kills = TRUE
    MaxCalls = 4
    MaxSignals = 2
    LoadLib = TRUE
    Unnamed = {"statx"}
    Replacements = {"other"}
CHECK_DEADLOCK FALSE
INVARIANTS
    InsideKernelAgrees
    ThrowsHaveTheirReason
    DestructorKillsTheRest
    HandlersAreThere
    HandshakeKillsNobody
PROPERTIES
    CallbackOrder
    EveryStopIsAnswered
