------------------------------- MODULE Ptrace -------------------------------
(***************************************************************************)
(* The tracer of src/Ptrace.{h,cxx} and src/Process.h: the loop of         *)
(* startTracing, which waits for a status of any tracee, dispatches it to  *)
(* a handler, and lets the tracee go on.  Every handler is two steps: what *)
(* it does up to its last ptrace request, and that request, so that a      *)
(* tracee may be killed before either.  A request for a tracee that is not *)
(* stopped fails, SAFE_SYSCALL throws, and startTracing is left.           *)
(***************************************************************************)
EXTENDS Tracees

CONSTANTS
    LoadLib,        \* the constructor's load_lib
    Unnamed,        \* calls whose number is not below MAX_SYSCALL_NUM
    Replacements    \* the calls onSyscallEnter may put in place of others

ASSUME PtraceAssumption ==
    /\ Root \in Pids /\ "none" \notin Pids \union Calls
    /\ Unnamed \subseteq Calls
    /\ Replacements \subseteq Calls \ (Unnamed \union {"rt_sigreturn", "kill0"})
    /\ Kills \in BOOLEAN /\ LoadLib \in BOOLEAN
    /\ MaxCalls \in Nat /\ MaxSignals \in Nat

VARIABLES
    process_list_,              \* the pids that have an entry
    in_kernel_,                 \* and the fields of their TracedProcess
    returning_from_signal_,
    has_user_signal_handlers_,
    pc,                         \* where startTracing is
    waited,                     \* pid and status waitpid returned
    inject,                     \* the signal the last request passes on
    event                       \* the last callback and its pid

entries == <<process_list_, in_kernel_, returning_from_signal_, has_user_signal_handlers_>>
vars == <<kernel, entries, pc, waited, inject, event>>

Called(cb, p) == [cb |-> cb, pid |-> p]
Callback(cb) == event' = Called(cb, waited.pid)

Thrown == {"system_error", "out_of_range"}

Init ==
    /\ KernelInit
    /\ process_list_ = {}
    /\ in_kernel_ = [p \in Pids |-> FALSE]
    /\ returning_from_signal_ = [p \in Pids |-> FALSE]
    /\ has_user_signal_handlers_ = [p \in Pids |-> FALSE]
    /\ pc = "waitpid"
    /\ waited = [pid |-> Root, status |-> NoStop]
    /\ inject = "none"
    /\ event = Called("none", "none")

-----------------------------------------------------------------------------
(* startTracing.                                                           *)

Waitpid(p) ==
    /\ pc = "waitpid"
    /\ p \in Waitable
    /\ Reap(p)
    /\ waited' = [pid |-> p, status |-> stop[p]]
    /\ pc' = "handle"
    /\ UNCHANGED <<entries, inject, event>>

\* ECHILD: no tracee is left.
NoTraceeLeft ==
    /\ pc = "waitpid"
    /\ \A p \in Pids : mode[p] = "none"
    /\ pc' = "returned"
    /\ UNCHANGED <<kernel, entries, waited, inject, event>>

\* The guard all handlers share: the status startTracing dispatches on.
Handling(kinds) ==
    /\ pc = "handle"
    /\ waited.status.kind \in kinds
    /\ waited.pid \in process_list_

\* ptrace finds the tracee only while it is stopped; SIGKILL ends that.
Traceable == Stopped(waited.pid)

Throw(what) ==
    /\ pc' = what
    /\ UNCHANGED <<kernel, waited, inject, event>>

\* Fault: the handler returns without its last request.
ThenContinueForgets(sig) ==
    /\ pc' = "waitpid"
    /\ inject' = sig
    /\ UNCHANGED <<kernel, waited>>

ThenContinue(sig) ==
    /\ pc' = "continue"
    /\ inject' = sig
    /\ UNCHANGED <<kernel, waited>>

-----------------------------------------------------------------------------
(* handleExitedProcess and handleTerminatedProcess.                        *)

\* Fault: the entry of a dead process is kept.
EraseKeepsEntry(p) == UNCHANGED entries

Erase(p) ==
    /\ process_list_' = process_list_ \ {p}
    /\ UNCHANGED <<in_kernel_, returning_from_signal_, has_user_signal_handlers_>>

HandleDeath(kind, cb) ==
    /\ Handling({kind})
    /\ Erase(waited.pid)
    /\ Callback(cb)
    /\ pc' = "waitpid"
    /\ UNCHANGED <<kernel, waited, inject>>

HandleExited == HandleDeath("exited", "onExit")
HandleTerminated == HandleDeath("terminated", "onTerminate")

-----------------------------------------------------------------------------
(* handleSyscalledProcess.                                                 *)

\* Fault: the return from a signal is not taken for the exit of a call.
ToggleUnlessReturning ==
    in_kernel_' = [in_kernel_ EXCEPT ![waited.pid] =
                     IF returning_from_signal_[waited.pid] THEN @ ELSE ~@]

ToggleKernelUser ==
    in_kernel_' = [in_kernel_ EXCEPT ![waited.pid] = ~@]

\* Fault: the name is asked for while the process returns from a signal.
LogThrowsAlways ==
    IF ~Traceable THEN "system_error"
    ELSE IF OrigRax(waited.pid) \in Unnamed \union {"none"} THEN "out_of_range"
    ELSE "nothing"

\* The log line: the name of the call, unless the process is returning from a
\* signal; getSyscall throws for a dead tracee and toString for a number that
\* is not in the table.
LogThrows ==
    LET p == waited.pid IN
    IF returning_from_signal_[p] THEN "nothing"
    ELSE IF ~Traceable THEN "system_error"
    ELSE IF OrigRax(p) \in Unnamed \union {"none"} THEN "out_of_range"
    ELSE "nothing"

\* Fault: the flag follows the call there was before the callback.
ReturningBeforeCallback(p, inside, rax) ==
    IF inside THEN OrigRax(p) = "rt_sigreturn"
    ELSE returning_from_signal_[p] /\ rax # "none"

\* startingReturnFromSignal and finishingReturnFromSignal, on the orig_rax
\* there is after the callback.
Returning(p, inside, rax) ==
    IF inside /\ rax = "rt_sigreturn" THEN TRUE
    ELSE IF ~inside /\ returning_from_signal_[p] /\ rax = "none" THEN FALSE
    ELSE returning_from_signal_[p]

\* Fault: the exit of an exec counts as well.
HandshakeAtExec(p, inside, rax) == LoadLib /\ ~inside /\ rax \in {"kill0", "exec"}

\* The tracee library's constructor ends with kill(getpid(), 0).
Handshake(p, inside, rax) == LoadLib /\ ~inside /\ rax = "kill0"

\* The callback may replace the call on entry, exit apart, and may ask for a
\* signal, which counts as one sent.
CallbackReplaces(p, inside, rax) ==
    /\ rax # OrigRax(p) => inside /\ OrigRax(p) # "exit" /\ rax \in Replacements
    /\ call' = [call EXCEPT ![p] = IF inside THEN rax ELSE @]

CallbackAsksFor(sig) ==
    \/ sig = "none" /\ UNCHANGED sent
    \/ sig \in Signals /\ sent < MaxSignals /\ sent' = sent + 1

SyscallCallback(p, inside) ==
    /\ Callback(IF inside THEN "onSyscallEnter" ELSE "onSyscallExit")
    /\ \E rax \in Calls \union {"none"}, sig \in Signals \union {"none"} :
         /\ CallbackReplaces(p, inside, rax)
         /\ CallbackAsksFor(sig)
         /\ returning_from_signal_' =
               [returning_from_signal_ EXCEPT ![p] = Returning(p, inside, rax)]
         /\ has_user_signal_handlers_' =
               [has_user_signal_handlers_ EXCEPT ![p] = @ \/ Handshake(p, inside, rax)]
         /\ inject' = IF Handshake(p, inside, rax) THEN "USR2" ELSE sig
    /\ pc' = "continue"
    /\ UNCHANGED <<mode, stop, at, pending, handles, frames, parent, calls,
                   process_list_, waited>>

HandleSyscalled ==
    /\ Handling({"enter", "exit"})
    /\ LogThrows = "nothing" /\ Traceable
    /\ ToggleKernelUser
    /\ SyscallCallback(waited.pid, ~in_kernel_[waited.pid])

\* Without the log line the first request of a dead tracee follows the
\* callback, and throws as the last one would.
HandleSyscalledOfTheDead ==
    /\ Handling({"enter", "exit"})
    /\ LogThrows = "nothing" /\ ~Traceable
    /\ ToggleKernelUser
    /\ Callback(IF in_kernel_[waited.pid] THEN "onSyscallExit" ELSE "onSyscallEnter")
    /\ ThenContinue("none")
    /\ UNCHANGED <<process_list_, returning_from_signal_, has_user_signal_handlers_>>

SyscalledThrows ==
    /\ Handling({"enter", "exit"})
    /\ LogThrows # "nothing"
    /\ ToggleKernelUser
    /\ Throw(LogThrows)
    /\ UNCHANGED <<process_list_, returning_from_signal_, has_user_signal_handlers_>>

-----------------------------------------------------------------------------
(* handleSignaledProcess and handleTrappedProcess.                         *)

\* The log line reads orig_rax before the callback is made.
HandleSignaled ==
    /\ Handling({"signal"})
    /\ waited.status.what # "TRAP"
    /\ UNCHANGED entries
    /\ \/ Traceable /\ Callback("onSignal") /\ ThenContinue(waited.status.what)
       \/ ~Traceable /\ Throw("system_error")

EventCallback(what) ==
    CASE what = "fork" -> "onFork"
      [] what = "exec" -> "onExec"
      [] what = "clone" -> "onClone"
      [] what = "vfork" -> "onVFork"
      [] what = "vfork_done" -> "onVForkDone"
      [] OTHER -> "onSignal"

\* Fault: the new image is taken to have the old one's handlers.
HandlersAfterEventKept(p, what) == has_user_signal_handlers_[p]

HandlersAfterEvent(p, what) == what # "exec" /\ has_user_signal_handlers_[p]

\* Fault: the event's bits are passed on with the signal.
TrapSignalWithEvent(status) == status.what

\* What handleTrappedProcess passes on: signal_num, the event's bits left out.
TrapSignal(status) == "TRAP"

HandleTrapped ==
    /\ Handling({"event", "signal"})
    /\ waited.status.kind = "signal" => waited.status.what = "TRAP"
    /\ has_user_signal_handlers_' =
          [has_user_signal_handlers_ EXCEPT
             ![waited.pid] = HandlersAfterEvent(waited.pid, waited.status.what)]
    /\ Callback(EventCallback(waited.status.what))
    /\ ThenContinue(TrapSignal(waited.status))
    /\ UNCHANGED <<process_list_, in_kernel_, returning_from_signal_>>

-----------------------------------------------------------------------------
(* handleNewBornProcess.                                                   *)

\* Fault: a child is taken to be inside the fork its parent is in.
InKernelAtBirthOfFork == TRUE

\* The constructor of TracedProcess.
InKernelAtBirth == FALSE

\* A fresh TracedProcess.  PTRACE_SETOPTIONS fails for a dead tracee as the
\* PTRACE_SYSCALL after it does, and the tracee's options never change again.
HandleNewBorn ==
    /\ pc = "handle"
    /\ waited.pid \notin process_list_
    /\ process_list_' = process_list_ \union {waited.pid}
    /\ in_kernel_' = [in_kernel_ EXCEPT ![waited.pid] = InKernelAtBirth]
    /\ returning_from_signal_' = [returning_from_signal_ EXCEPT ![waited.pid] = FALSE]
    /\ has_user_signal_handlers_' = [has_user_signal_handlers_ EXCEPT ![waited.pid] = FALSE]
    /\ Callback("onStart")
    /\ ThenContinue("none")

-----------------------------------------------------------------------------
(* The last request of a handler, PTRACE_SYSCALL with the signal to pass.  *)

Resume ==
    /\ pc = "continue"
    /\ Traceable
    /\ Continue(waited.pid, inject)
    /\ pc' = "waitpid"
    /\ inject' = "none"
    /\ UNCHANGED <<entries, waited, event>>

ResumeThrows ==
    /\ pc = "continue"
    /\ ~Traceable
    /\ Throw("system_error")
    /\ UNCHANGED entries

\* Fault: PTRACE_KILL, which only a stopped tracee heeds.
DoomedIfStopped == {p \in process_list_ : Stopped(p)}

\* The destructor.
Doomed == {p \in process_list_ : Alive(p)}

Destroy ==
    /\ pc \in Thrown \union {"returned"}
    /\ Die(Doomed, Stop("terminated", "KILL"))
    /\ pc' = "destroyed"
    /\ UNCHANGED <<call, pending, handles, frames, calls, sent, entries, waited, inject, event>>

Tracer ==
    \/ \E p \in Pids : Waitpid(p)
    \/ NoTraceeLeft
    \/ HandleExited
    \/ HandleTerminated
    \/ HandleSyscalled
    \/ HandleSyscalledOfTheDead
    \/ SyscalledThrows
    \/ HandleSignaled
    \/ HandleTrapped
    \/ HandleNewBorn
    \/ Resume
    \/ ResumeThrows
    \/ Destroy

Tracing == pc # "destroyed"

Environment(A) == A /\ Tracing /\ UNCHANGED <<entries, pc, waited, inject, event>>

Next ==
    \/ Tracer
    \/ \E p \in Pids : Environment(TraceeStep(p))
    \/ \E p \in Pids : Environment(Send(p))
    \/ \E p \in Pids : Environment(Kill(p))

Spec == Init /\ [][Next]_vars

\* startTracing runs on, and so does every tracee: a tracee that is not
\* stopped finishes its call, takes its signals and, when it has made all the
\* calls it was going to, exits.
Fairness ==
    /\ WF_vars(Tracer)
    /\ \A p \in Pids : WF_vars(Environment(TraceeStep(p)))

FairSpec == Spec /\ Fairness

-----------------------------------------------------------------------------
(* Properties.                                                             *)

Kinds == {"none", "enter", "exit", "event", "signal", "exited", "terminated"}
Statuses == [kind : Kinds, what : Forks \union AllSignals \union
                                  {"none", "exec", "vfork_done", "KILL"}]

TypeOK ==
    /\ mode \in [Pids -> {"none", "run", "stop", "held", "dead"}]
    /\ stop \in [Pids -> Statuses]
    /\ call \in [Pids -> Calls \union {"none"}]
    /\ at \in [Pids -> {"user", "entered", "performed", "vfork", "child_gone", "stopping"}]
    /\ pending \in [Pids -> SUBSET AllSignals]
    /\ handles \in [Pids -> BOOLEAN]
    /\ frames \in [Pids -> Nat]
    /\ parent \in [Pids -> Pids \union {"none"}]
    /\ calls \in 0 .. MaxCalls
    /\ sent \in 0 .. MaxSignals
    /\ process_list_ \in SUBSET Pids
    /\ in_kernel_ \in [Pids -> BOOLEAN]
    /\ returning_from_signal_ \in [Pids -> BOOLEAN]
    /\ has_user_signal_handlers_ \in [Pids -> BOOLEAN]
    /\ pc \in {"waitpid", "handle", "continue", "returned", "destroyed"} \union Thrown
    /\ waited \in [pid : Pids, status : Statuses]
    /\ inject \in AllSignals \union {"none"}
    /\ event.pid \in Pids \union {"none"}

\* A call whose entry the tracer has handled and whose exit it has not.
Between(p) == call[p] # "none" /\ stop[p].kind # "enter"

\* in_kernel_, which is only ever toggled, says on which side of the kernel
\* the tracee is whenever the tracer waits: no fork, exec, signal, killed call
\* or reused pid makes the tracer miss a stop or count one twice.
InsideKernelAgrees ==
    pc = "waitpid" =>
        \A p \in process_list_ : Alive(p) => (in_kernel_[p] <=> Between(p))

\* returning_from_signal_ is set exactly inside rt_sigreturn, so that the log
\* line of handleSyscalledProcess never asks for the name of orig_rax = -1 and
\* leaves out no other call.
ReturningAgrees ==
    pc = "waitpid" =>
        \A p \in process_list_ :
            Alive(p) => (returning_from_signal_[p] <=> Between(p) /\ call[p] = "rt_sigreturn")

\* process_list_ follows the processes there are: an entry never outlives its
\* process, and a process without one has not run yet.  A reused pid that
\* found its predecessor's entry would get its flags and no onStart.
ProcessListTracksTracees ==
    pc = "waitpid" =>
        /\ \A p \in process_list_ : mode[p] # "none"
        /\ \A p \in Pids \ process_list_ : Alive(p) => at[p] = "user"

\* A process the tracer takes to have signal handlers has them, unless the
\* tracer is yet to hear of its execve (TracedProcess::hasUserSignalHandlers).
HandlersAreThere ==
    pc = "waitpid" =>
        \A p \in process_list_ :
            has_user_signal_handlers_[p] /\ Alive(p)
                => handles[p] \/ stop[p] = Stop("event", "exec")

\* The SIGUSR2 that answers the handshake finds its handler in every tracee,
\* forked or executed, whoever else is killed meanwhile.  Nobody but the tracer
\* sends SIGUSR2: the property speaks of runs where "USR2" is not in Signals.
HandshakeKillsNobody == \A p \in Pids : stop[p] # Stop("terminated", "USR2")

\* There are two ways for startTracing to be left by an exception, and no
\* third: a request of SAFE_SYSCALL fails only when the tracee being handled
\* has been killed with SIGKILL, and Syscall::toString throws only when that
\* tracee is in a call the table has no number for, never for the orig_rax of
\* -1 that rt_sigreturn leaves.
ThrowsHaveTheirReason ==
    /\ pc = "system_error" =>
         Stop("terminated", "KILL") \in {waited.status, stop[waited.pid]}
    /\ pc = "out_of_range" => call[waited.pid] \in Unnamed

\* What is alive after the destructor has never run under the tracer: it was
\* forked and its first stop not yet waited for.
DestructorKillsTheRest ==
    pc = "destroyed" => \A p \in Pids : Alive(p) => at[p] = "user" /\ p \notin process_list_

\* handleNewBornProcess, "after the newborn has stopped": a status for a pid
\* without an entry is the first stop of a live process.
NewbornHasStopped ==
    pc = "handle" /\ waited.pid \notin process_list_ => waited.status.kind = "signal"

\* No stop is forgotten: a stopped tracee goes on or dies, unless the tracer
\* has given up.
EveryStopIsAnswered ==
    \A p \in Pids :
        Stopped(p) ~> (~Stopped(p) \/ pc \in Thrown \union {"destroyed"})

\* startTracing returns when its tracees are programs that end, none of them is
\* killed and every call they make has a name (Kills FALSE, Unnamed empty: else
\* an exception ends it, see ThrowsHaveTheirReason).
StartTracingReturns == <>(pc = "returned")

\* To a class derived from EventCallbacks the tracer is EventCallbacks.
phase ==
    [p \in Pids |-> IF pc \in Thrown \union {"destroyed"} THEN "lost"
                    ELSE IF p \notin process_list_ THEN "unknown"
                    ELSE IF in_kernel_[p] THEN "kernel"
                    ELSE "user"]
callbacks == INSTANCE EventCallbacks WITH Pids <- Pids, phase <- phase, event <- event
CallbackOrder == callbacks!Spec
=============================================================================
