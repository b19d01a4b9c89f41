------------------------------- MODULE Tracees -------------------------------
(***************************************************************************)
(* The traced processes and the kernel's side of ptrace, as far as         *)
(* src/Ptrace.cxx relies on them.  None of this is code of the repository: *)
(* it is what waitpid, ptrace and the handlers' comments assume of Linux.  *)
(*                                                                         *)
(* A process is single threaded.  It runs in user mode, enters a call,     *)
(* stops there, performs it, may stop at an event, stops again on the way  *)
(* out, and takes its pending signals before it is in user mode again.  At *)
(* any moment it may be killed.  Its pid may be used again once reaped.    *)
(***************************************************************************)
EXTENDS Integers, FiniteSets

CONSTANTS
    Pids,           \* the pids there are
    Root,           \* the process the constructor of Ptrace forks
    Calls,          \* the system calls tracees make
    Signals,        \* the signals they are sent, SIGKILL apart
    Kills,          \* TRUE: a SIGKILL may come
    MaxCalls,       \* bound on the calls made, exit not counted
    MaxSignals      \* bound on the signals sent

VARIABLES
    mode,       \* "none": no such process; "run"; "stop", and "held" once waitpid
                \* has reported the stop; "dead" until waitpid has reported it
    stop,       \* why it stopped, or how it died
    call,       \* the call it is in (orig_rax), "none" in user mode
    at,         \* how far that call is
    pending,    \* signals not yet taken
    handles,    \* TRUE: its image has handlers for SIGUSR1 and SIGUSR2
    frames,     \* the handlers it is in
    parent,     \* the process that waits in vfork for it, or none
    calls, sent \* how many there have been

kernel == <<mode, stop, call, at, pending, handles, frames, parent, calls, sent>>

\* Members of Calls whose effect matters; every other one is an ordinary call.
Forks == {"fork", "vfork", "clone"}
AllSignals == Signals \union {"STOP", "TRAP", "USR2"}
Handled == {"USR1", "USR2"}

Stop(kind, what) == [kind |-> kind, what |-> what]
NoStop == Stop("none", "none")

-----------------------------------------------------------------------------
\* The root has executed its program and has execve's SIGTRAP coming.
KernelInit ==
    /\ mode = [p \in Pids |-> IF p = Root THEN "run" ELSE "none"]
    /\ stop = [p \in Pids |-> NoStop]
    /\ call = [p \in Pids |-> "none"]
    /\ at = [p \in Pids |-> "user"]
    /\ pending = [p \in Pids |-> IF p = Root THEN {"TRAP"} ELSE {}]
    /\ handles = [p \in Pids |-> FALSE]
    /\ frames = [p \in Pids |-> 0]
    /\ parent = [p \in Pids |-> "none"]
    /\ calls = 0
    /\ sent = 0

StopAt(p, why) ==
    /\ mode' = [mode EXCEPT ![p] = "stop"]
    /\ stop' = [stop EXCEPT ![p] = why]

\* Death also lets a vfork parent go on.
Die(S, how) ==
    /\ mode' = [p \in Pids |-> IF p \in S THEN "dead" ELSE mode[p]]
    /\ stop' = [p \in Pids |-> IF p \in S THEN how ELSE stop[p]]
    /\ parent' = [p \in Pids |->
                    IF p \in S \/ parent[p] \in S THEN "none" ELSE parent[p]]
    /\ at' = [p \in Pids |->
                IF at[p] = "vfork" /\ \E c \in S : parent[c] = p THEN "child_gone" ELSE at[p]]

Stopped(p) == mode[p] \in {"stop", "held"}
Alive(p) == mode[p] = "run" \/ Stopped(p)

-----------------------------------------------------------------------------
(* Steps of a running process.                                             *)

\* In user mode with nothing pending it calls; it returns from a signal
\* handler only when it is in one, and the library's constructor calls kill
\* with signal 0 only after it has installed its handlers.
EnterSyscall(p, c) ==
    /\ mode[p] = "run" /\ at[p] = "user" /\ pending[p] = {}
    /\ c # "exit" => calls < MaxCalls
    /\ c = "rt_sigreturn" => frames[p] > 0
    /\ c = "kill0" => handles[p]
    /\ calls' = IF c = "exit" THEN calls ELSE calls + 1
    /\ StopAt(p, Stop("enter", "none"))
    /\ call' = [call EXCEPT ![p] = c]
    /\ at' = [at EXCEPT ![p] = "entered"]
    /\ UNCHANGED <<pending, handles, frames, parent, sent>>

\* A call without a ptrace event of its own.
RunSyscall(p) ==
    /\ mode[p] = "run" /\ at[p] = "entered"
    /\ \/ call[p] \notin Forks \union {"exec", "exit"}
       \/ call[p] \in Forks /\ \A q \in Pids : mode[q] # "none"
    /\ frames' = [frames EXCEPT ![p] = IF call[p] = "rt_sigreturn" THEN @ - 1 ELSE @]
    /\ handles' = [handles EXCEPT ![p] = @ \/ call[p] = "rt_sigaction"]
    /\ StopAt(p, Stop("exit", "none"))
    /\ UNCHANGED <<call, at, pending, parent, calls, sent>>

\* The child is traced from birth: it owes a SIGSTOP, and nothing else.
Fork(p, c) ==
    /\ mode[p] = "run" /\ at[p] = "entered" /\ call[p] \in Forks
    /\ mode[c] = "none"
    /\ mode' = [mode EXCEPT ![p] = "stop", ![c] = "run"]
    /\ stop' = [stop EXCEPT ![p] = Stop("event", call[p]), ![c] = NoStop]
    /\ at' = [at EXCEPT ![p] = IF call[p] = "vfork" THEN "vfork" ELSE "performed",
                        ![c] = "user"]
    /\ call' = [call EXCEPT ![c] = "none"]
    /\ pending' = [pending EXCEPT ![c] = {"STOP"}]
    /\ handles' = [handles EXCEPT ![c] = handles[p]]
    /\ frames' = [frames EXCEPT ![c] = frames[p]]
    /\ parent' = [parent EXCEPT ![c] = IF call[p] = "vfork" THEN p ELSE "none"]
    /\ UNCHANGED <<calls, sent>>

Exec(p) ==
    /\ mode[p] = "run" /\ at[p] = "entered" /\ call[p] = "exec"
    /\ StopAt(p, Stop("event", "exec"))
    /\ at' = [q \in Pids |-> IF q = p THEN "performed"
                             ELSE IF at[q] = "vfork" /\ parent[p] = q THEN "child_gone"
                             ELSE at[q]]
    /\ parent' = [parent EXCEPT ![p] = "none"]
    /\ handles' = [handles EXCEPT ![p] = FALSE]
    /\ frames' = [frames EXCEPT ![p] = 0]
    /\ UNCHANGED <<call, pending, calls, sent>>

VForkDone(p) ==
    /\ mode[p] = "run" /\ at[p] = "child_gone"
    /\ StopAt(p, Stop("event", "vfork_done"))
    /\ at' = [at EXCEPT ![p] = "performed"]
    /\ UNCHANGED <<call, pending, handles, frames, parent, calls, sent>>

LeaveSyscall(p) ==
    /\ mode[p] = "run" /\ at[p] = "performed"
    /\ StopAt(p, Stop("exit", "none"))
    /\ UNCHANGED <<call, at, pending, handles, frames, parent, calls, sent>>

Exit(p) ==
    /\ mode[p] = "run" /\ at[p] = "entered" /\ call[p] = "exit"
    /\ Die({p}, Stop("exited", "none"))
    /\ UNCHANGED <<call, pending, handles, frames, calls, sent>>

\* Signals are taken on the way to user mode, SIGSTOP, the one with the
\* highest number, after the others.
TakeSignal(p) ==
    /\ mode[p] = "run" /\ at[p] = "user"
    /\ \E s \in pending[p] :
         /\ s = "STOP" => pending[p] = {"STOP"}
         /\ StopAt(p, Stop("signal", s))
         /\ pending' = [pending EXCEPT ![p] = @ \ {s}]
    /\ UNCHANGED <<call, at, handles, frames, parent, calls, sent>>

\* A group stop: a SIGSTOP that was let through stops the process again.
GroupStop(p) ==
    /\ mode[p] = "run" /\ at[p] = "stopping"
    /\ StopAt(p, Stop("signal", "STOP"))
    /\ UNCHANGED <<call, at, pending, handles, frames, parent, calls, sent>>

TraceeStep(p) ==
    \/ \E c \in Calls : EnterSyscall(p, c)
    \/ RunSyscall(p)
    \/ \E c \in Pids : Fork(p, c)
    \/ Exec(p)
    \/ VForkDone(p)
    \/ LeaveSyscall(p)
    \/ Exit(p)
    \/ TakeSignal(p)
    \/ GroupStop(p)

\* Somebody sends p a signal; SIGKILL takes effect whatever p is doing.
Send(p) ==
    /\ Alive(p) /\ sent < MaxSignals
    /\ \E s \in Signals \ pending[p] :
         pending' = [pending EXCEPT ![p] = @ \union {s}]
    /\ sent' = sent + 1
    /\ UNCHANGED <<mode, stop, call, at, handles, frames, parent, calls>>

Kill(p) ==
    /\ Kills /\ Alive(p) /\ sent < MaxSignals
    /\ Die({p}, Stop("terminated", "KILL"))
    /\ sent' = sent + 1
    /\ UNCHANGED <<call, pending, handles, frames, calls>>

-----------------------------------------------------------------------------
(* What the tracer asks of the kernel.                                     *)

\* waitpid(-1, &status, __WALL): any stop or death, once; the dead are reaped.
Waitable == {p \in Pids : mode[p] \in {"stop", "dead"}}

Reap(p) ==
    /\ mode' = [mode EXCEPT ![p] = IF @ = "dead" THEN "none" ELSE "held"]
    /\ UNCHANGED <<stop, call, at, pending, handles, frames, parent, calls, sent>>

\* PTRACE_PEEKUSER of orig_rax: rt_sigreturn has cleared it by its exit stop.
OrigRax(p) ==
    IF call[p] = "rt_sigreturn" /\ stop[p].kind = "exit" THEN "none" ELSE call[p]

\* PTRACE_SYSCALL with a signal, or "none".  At a call's stops the signal is
\* sent; at a signal's stop it is what the process takes; elsewhere it is
\* ignored.
Continue(p, sig) ==
    LET kind == stop[p].kind IN
    \/ /\ kind \in {"enter", "exit"}
       /\ mode' = [mode EXCEPT ![p] = "run"]
       /\ stop' = [stop EXCEPT ![p] = NoStop]
       /\ pending' = [pending EXCEPT ![p] = @ \union ({sig} \ {"none"})]
       /\ call' = [call EXCEPT ![p] = IF kind = "exit" THEN "none" ELSE @]
       /\ at' = [at EXCEPT ![p] = IF kind = "exit" THEN "user" ELSE @]
       /\ UNCHANGED <<handles, frames, parent, calls, sent>>
    \/ /\ \/ kind = "event"
          \/ kind = "signal" /\ sig = "none"
          \/ at[p] = "stopping"
       /\ mode' = [mode EXCEPT ![p] = "run"]
       /\ stop' = [stop EXCEPT ![p] = NoStop]
       /\ at' = [at EXCEPT ![p] = IF @ = "stopping" THEN "user" ELSE @]
       /\ UNCHANGED <<call, pending, handles, frames, parent, calls, sent>>
    \/ /\ kind = "signal" /\ sig = "STOP" /\ at[p] # "stopping"
       /\ mode' = [mode EXCEPT ![p] = "run"]
       /\ stop' = [stop EXCEPT ![p] = NoStop]
       /\ at' = [at EXCEPT ![p] = "stopping"]
       /\ UNCHANGED <<call, pending, handles, frames, parent, calls, sent>>
    \/ /\ kind = "signal" /\ sig \in Handled /\ handles[p] /\ at[p] # "stopping"
       /\ mode' = [mode EXCEPT ![p] = "run"]
       /\ stop' = [stop EXCEPT ![p] = NoStop]
       /\ frames' = [frames EXCEPT ![p] = @ + 1]
       /\ UNCHANGED <<call, at, pending, handles, parent, calls, sent>>
    \/ /\ kind = "signal" /\ sig \notin {"none", "STOP"} /\ at[p] # "stopping"
       /\ ~(sig \in Handled /\ handles[p])
       /\ Die({p}, Stop("terminated", sig))
       /\ UNCHANGED <<call, pending, handles, frames, calls, sent>>
=============================================================================
