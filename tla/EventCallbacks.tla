--------------------------- MODULE EventCallbacks ---------------------------
(***************************************************************************)
(* What a class derived from Ptrace::EventCallbacks (src/Ptrace.h) sees,   *)
(* whatever the scheduling of the tracees: for every pid one onStart, then *)
(* onSyscallEnter and onSyscallExit in turn, the fork and exec events only *)
(* between the two, signals only outside, and one onExit or onTerminate,   *)
(* after which the pid may start again as another process.  When the       *)
(* tracer gives up no callback follows.                                    *)
(***************************************************************************)
CONSTANT Pids

VARIABLES
    phase,  \* of each pid: "unknown", "user", "kernel" or "lost"
    event   \* the last callback, with the pid it was called for

Called(cb, p) == [cb |-> cb, pid |-> p]

Init ==
    /\ phase = [p \in Pids |-> "unknown"]
    /\ event = Called("none", "none")

Step(p, cb, from, to) ==
    /\ phase[p] \in from
    /\ phase' = [phase EXCEPT ![p] = to]
    /\ event' = Called(cb, p)

GiveUp ==
    /\ phase' = [p \in Pids |-> "lost"]
    /\ UNCHANGED event

Next ==
    \/ GiveUp
    \/ \E p \in Pids :
        \/ Step(p, "onStart", {"unknown"}, "user")
        \/ Step(p, "onSyscallEnter", {"user"}, "kernel")
        \/ Step(p, "onSyscallExit", {"kernel"}, "user")
        \/ Step(p, "onSignal", {"user"}, "user")
        \/ \E cb \in {"onFork", "onVFork", "onVForkDone", "onClone", "onExec"} :
              Step(p, cb, {"kernel"}, "kernel")
        \/ Step(p, "onExit", {"kernel"}, "unknown")
        \/ Step(p, "onTerminate", {"user", "kernel"}, "unknown")

Spec == Init /\ [][Next]_<<phase, event>>
=============================================================================
