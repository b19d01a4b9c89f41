----------------------------- MODULE TraceeLib -----------------------------
(***************************************************************************)
(* The library that is preloaded into every tracee (src/TraceeLib) and the *)
(* tracer's half of its protocol.  The constructor of an image installs    *)
(* two handlers and calls kill(getpid(), 0); the tracer answers that call  *)
(* with SIGUSR2, whose handler makes the FIFO of the process; from then on *)
(* a callback of the tracer may write a command to the FIFO and inject     *)
(* SIGUSR1, whose handler reads it and serves it; the destructor removes   *)
(* the FIFO again.                                                         *)
(*                                                                         *)
(* Tracees run concurrently, one system call at a time.  A tracee that     *)
(* stops waits for the tracer, so that what the tracer does at a stop is   *)
(* one step with the call it follows.  That the tracer gets every stop and *)
(* knows which one it is, is what module Ptrace is about.                  *)
(***************************************************************************)
EXTENDS Fifos

CONSTANTS
    Root,           \* the first tracee
    Commands,       \* the commands the callback sends
    Tails,          \* what follows a message in the buffer it is read into
    ChildrenExec,   \* TRUE: a forked child does nothing before it executes
    Kills,          \* TRUE: a SIGKILL may come
    ReuseKilled     \* TRUE: so may a new process with the pid of a killed one

ASSUME TraceeLibAssumption ==
    /\ Root \in Pids /\ "" \notin Pids
    /\ Commands \subseteq 0 .. 3
    /\ Tails \subseteq {"end", "digit", "digits"}
    /\ ChildrenExec \in BOOLEAN /\ Kills \in BOOLEAN /\ ReuseKilled \in BOOLEAN

VARIABLES
    at,             \* where each tracee is
    handlers,       \* it has the handlers of SIGUSR1 and SIGUSR2
    fifo_fd,        \* the globals of its image
    fifo_path,
    test_member_,
    has_user_signal_handlers_   \* the tracer's flag for it

image == <<handlers, fifo_fd, fifo_path, test_member_>>
vars == <<files, image, at, has_user_signal_handlers_>>

Dead == {"exited", "killed", "aborted"}
Alive(p) == at[p] \notin Dead \union {"none"}

\* One system call further.
Go(p, from, to) == at[p] = from /\ at' = [at EXCEPT ![p] = to]

\* execve: descriptors outlive the image, handlers and globals do not.
NewImage(p) ==
    /\ handlers' = [handlers EXCEPT ![p] = FALSE]
    /\ fifo_fd' = [fifo_fd EXCEPT ![p] = 0]
    /\ fifo_path' = [fifo_path EXCEPT ![p] = ""]
    /\ test_member_' = [test_member_ EXCEPT ![p] = 0]

Init ==
    /\ FilesInit
    /\ at = [p \in Pids |-> IF p = Root THEN "begin" ELSE "none"]
    /\ handlers = [p \in Pids |-> FALSE]
    /\ fifo_fd = [p \in Pids |-> 0]
    /\ fifo_path = [p \in Pids |-> ""]
    /\ test_member_ = [p \in Pids |-> 0]
    /\ has_user_signal_handlers_ = [p \in Pids |-> FALSE]

\* The end of a process, whatever it was doing: its descriptors are closed.
End(p, from, how) ==
    /\ Go(p, from, how)
    /\ CloseAll(p)
    /\ UNCHANGED <<image, has_user_signal_handlers_>>

\* TRACEE_SAFE_SYSCALL: a call that fails throws, nobody catches, the process
\* aborts.
SafeSyscall(p, from, succeeds, Effect) ==
    IF succeeds THEN Effect ELSE End(p, from, "aborted")

\* A signal without a handler is deadly.
Handled(p, from, Handler) ==
    IF handlers[p] THEN Handler ELSE End(p, from, "killed")

-----------------------------------------------------------------------------
(* tracee_begin and the tracer's answer to it.                             *)

SetUserSignals(p) ==
    /\ Go(p, "begin", "handshake")
    /\ handlers' = [handlers EXCEPT ![p] = TRUE]
    /\ UNCHANGED <<files, fifo_fd, fifo_path, test_member_, has_user_signal_handlers_>>

\* Fault: the flag is set and no signal is injected.
AnswerForgotten == "main"

Answer == "create_fifo"

\* kill(_, 0), by the constructor or by the program: the tracer sets its flag
\* and injects SIGUSR2.
Handshake(p, from) ==
    /\ Go(p, from, Answer)
    /\ has_user_signal_handlers_' = [has_user_signal_handlers_ EXCEPT ![p] = TRUE]
    /\ UNCHANGED <<files, image>>

-----------------------------------------------------------------------------
(* create_fifo, the handler of SIGUSR2.                                    *)

\* Fault: the FIFO is made whether it is there or not.
AfterAccessAlways(exists) == "mkfifo"

AfterAccess(exists) == IF exists THEN "open" ELSE "mkfifo"

CreateFifo(p) ==
    /\ at[p] = "create_fifo"
    /\ Handled(p, "create_fifo",
          /\ Go(p, "create_fifo", AfterAccess(Exists(p)))
          /\ fifo_path' = [fifo_path EXCEPT ![p] = p]
          /\ UNCHANGED <<files, handlers, fifo_fd, test_member_, has_user_signal_handlers_>>)

MakeFifo(p) ==
    /\ at[p] = "mkfifo"
    /\ SafeSyscall(p, "mkfifo", ~Exists(fifo_path[p]),
          /\ Go(p, "mkfifo", "open")
          /\ Mkfifo(fifo_path[p])
          /\ UNCHANGED <<image, has_user_signal_handlers_>>)

\* A descriptor there is already is taken for the right one.
OpenFifo(p) ==
    /\ at[p] = "open"
    /\ \/ /\ fifo_fd[p] # 0
          /\ Go(p, "open", "main")
          /\ UNCHANGED <<files, image, has_user_signal_handlers_>>
       \/ /\ fifo_fd[p] = 0
          /\ SafeSyscall(p, "open", Exists(fifo_path[p]) /\ Closed(p) # {},
                /\ Go(p, "open", "main")
                /\ fifo_fd' = [fifo_fd EXCEPT ![p] = FreeFd(p)]
                /\ Open(p, fifo_path[p])
                /\ UNCHANGED <<handlers, fifo_path, test_member_, has_user_signal_handlers_>>)

-----------------------------------------------------------------------------
(* Messages.  The tracer looks at the exit from every mmap, those of the   *)
(* loader and of a child that has not executed anything yet included.      *)

MaySend(p) == has_user_signal_handlers_[p]

\* SendMessageCallback::onSyscallExit, which injects SIGUSR1; without a FIFO
\* there is neither a message nor a signal.
SendMessage(p) ==
    /\ at[p] \in {"begin", "handshake", "main"}
    /\ MaySend(p) /\ Exists(p)
    /\ Go(p, at[p], "allocate")
    /\ \E command \in Commands : Post(p, command)
    /\ UNCHANGED <<image, has_user_signal_handlers_>>

\* A message is one digit.  Several make a number from 10 on, which is no
\* command, unless all but the last are 0.
Number(digits) ==
    IF \A k \in 1 .. Len(digits) - 1 : digits[k] = 0 THEN digits[Len(digits)] ELSE 10

\* stoi, of all the messages read and what the stack holds after them; of too
\* many digits it throws.
Parsed(read, tail) ==
    CASE tail = "digits" -> {}
      [] tail = "digit" -> {Number(Append(read, digit)) : digit \in 0 .. 9}
      [] OTHER -> {Number(read)}

\* Fault: the member is set to the command.
ServedAsCommand(command, member) == IF command \in {2, 3} THEN command ELSE member

\* Fault: the first case of the switch has lost its break.
ServedFallsThrough(command, member) == IF command \in {2, 3} THEN 0 ELSE member

\* The switch of serveRequest, over the commands of TraceeServer.
Served(command, member) ==
    CASE command = 2 -> 1
      [] command = 3 -> 0
      [] OTHER -> member

\* allocate_handler and serveRequest.  The read takes all there is, and fails
\* when there is nothing or no descriptor.
Contents(p) == IF IsOpen(p, fifo_fd[p]) THEN pipe[fds[p][fifo_fd[p]]] ELSE <<>>

ServeRequest(p) ==
    /\ at[p] = "allocate"
    /\ \E tail \in Tails :
         Handled(p, "allocate",
           SafeSyscall(p, "allocate", Contents(p) # <<>> /\ Parsed(Contents(p), tail) # {},
             /\ Go(p, "allocate", "main")
             /\ \E command \in Parsed(Contents(p), tail) :
                  test_member_' = [test_member_ EXCEPT ![p] = Served(command, @)]
             /\ Drain(fds[p][fifo_fd[p]])
             /\ UNCHANGED <<handlers, fifo_fd, fifo_path, has_user_signal_handlers_>>))

-----------------------------------------------------------------------------
(* tracee_end.                                                             *)

AccessFifo(p) ==
    /\ Go(p, "end", IF Exists(fifo_path[p]) THEN "close" ELSE "exit")
    /\ UNCHANGED <<files, image, has_user_signal_handlers_>>

\* Fault: the destructor closes its FIFO and leaves it where it is.
AfterCloseDone == "exit"

AfterClose == "unlink"

\* fstat and close, of the process's own descriptor.
CloseFifo(p) ==
    /\ at[p] = "close"
    /\ SafeSyscall(p, "close", IsOpen(p, fifo_fd[p]),
          /\ Go(p, "close", AfterClose)
          /\ Close(p, fifo_fd[p])
          /\ UNCHANGED <<image, has_user_signal_handlers_>>)

UnlinkFifo(p) ==
    /\ at[p] = "unlink"
    /\ SafeSyscall(p, "unlink", Exists(fifo_path[p]),
          /\ Go(p, "unlink", "exit")
          /\ Unlink(fifo_path[p])
          /\ UNCHANGED <<image, has_user_signal_handlers_>>)

-----------------------------------------------------------------------------
(* The program, and the tracer's bookkeeping of processes.                 *)

\* A child of a fork works with the globals of its parent until it executes.
Inherited(p) == fifo_path[p] # p

\* What programs do, apart from executing another one.
Acts(p) == at[p] = "main" /\ (ChildrenExec => ~Inherited(p))

Kill0(p) ==
    /\ Acts(p)
    /\ Handshake(p, "main")

\* The limit on descriptors is not reached: bounds the images of a process.
Fork(p, c) ==
    /\ Acts(p) /\ Closed(p) # {}
    /\ at[c] = "none"
    /\ at' = [at EXCEPT ![c] = "main"]
    /\ handlers' = [handlers EXCEPT ![c] = handlers[p]]
    /\ fifo_fd' = [fifo_fd EXCEPT ![c] = fifo_fd[p]]
    /\ fifo_path' = [fifo_path EXCEPT ![c] = fifo_path[p]]
    /\ test_member_' = [test_member_ EXCEPT ![c] = test_member_[p]]
    /\ CopyFds(p, c)
    /\ UNCHANGED has_user_signal_handlers_

\* Fault: the flag of the image before is kept.
HandlersAfterExecKept(flag) == flag

\* Ptrace::handleTrappedProcess.
HandlersAfterExec(flag) == FALSE

Exec(p) ==
    /\ Closed(p) # {}
    /\ Go(p, "main", "begin")
    /\ NewImage(p)
    /\ has_user_signal_handlers_' =
          [has_user_signal_handlers_ EXCEPT ![p] = HandlersAfterExec(@)]
    /\ UNCHANGED files

CallExit(p) ==
    /\ Acts(p)
    /\ Go(p, "main", "end")
    /\ UNCHANGED <<files, image, has_user_signal_handlers_>>

Exit(p) == End(p, "exit", "exited")

Kill(p) ==
    /\ Kills /\ Alive(p)
    /\ End(p, at[p], "killed")

\* The tracer erases its entry, the pid may be used again.
Reap(p) ==
    /\ at[p] \in Dead /\ (at[p] = "killed" => ReuseKilled)
    /\ Go(p, at[p], "none")
    /\ NewImage(p)
    /\ has_user_signal_handlers_' = [has_user_signal_handlers_ EXCEPT ![p] = FALSE]
    /\ UNCHANGED files

\* The library's code, which runs on until it is done.
LibStep(p) ==
    \/ SetUserSignals(p)
    \/ Handshake(p, "handshake")
    \/ CreateFifo(p)
    \/ MakeFifo(p)
    \/ OpenFifo(p)
    \/ ServeRequest(p)
    \/ AccessFifo(p)
    \/ CloseFifo(p)
    \/ UnlinkFifo(p)
    \/ Exit(p)

Next ==
    \E p \in Pids :
        \/ LibStep(p)
        \/ SendMessage(p)
        \/ Kill0(p)
        \/ \E c \in Pids : Fork(p, c)
        \/ Exec(p)
        \/ CallExit(p)
        \/ Kill(p)
        \/ Reap(p)

Spec == Init /\ [][Next]_vars

\* A process that is inside the library is scheduled, and the tracer answers
\* every stop of it (Ptrace!EveryStopIsAnswered).  Programs owe nothing.
FairSpec == Spec /\ \A p \in Pids : WF_vars(LibStep(p))

-----------------------------------------------------------------------------
(* Properties.                                                             *)

Positions == {"begin", "handshake", "create_fifo", "mkfifo", "open", "main",
              "allocate", "end", "close", "unlink", "exit", "none"} \union Dead

\* Everything keeps its type; test_member_ is a truth value
\* (assertTestMember, deassertTestMember) whatever is read from the FIFO.
TypeOK ==
    /\ dir \in [Pids -> Pipes \union {NoPipe}]
    /\ pipe \in [Pipes -> Seq(Commands)]
    /\ fds \in [Pids -> [Fds -> Pipes \union {NoPipe}]]
    /\ at \in [Pids -> Positions]
    /\ handlers \in [Pids -> BOOLEAN]
    /\ fifo_fd \in [Pids -> Fds \union {0}]
    /\ fifo_path \in [Pids -> Pids \union {""}]
    /\ test_member_ \in [Pids -> {0, 1}]
    /\ has_user_signal_handlers_ \in [Pids -> BOOLEAN]

Listens(p) == Exists(p) /\ IsOpen(p, fifo_fd[p]) /\ fds[p][fifo_fd[p]] = dir[p]

\* A tracee the tracer takes for one with handlers, which is what decides
\* whether it is sent messages (tracee_lib_fifo_test.cxx:33), has its FIFO
\* open, under its own name, whenever it is in the program's code.  A fork
\* copies fifo_fd, an execve forgets it and not the descriptor, an exit
\* removes a name that may be another's.
ToldListens ==
    \A p \in Pids :
        at[p] \in {"main", "allocate"} /\ has_user_signal_handlers_[p] => Listens(p)

\* No system call of the library fails: TRACEE_SAFE_SYSCALL throws with nobody
\* to catch, and the tests want no SIGABRT.  It takes forked children that
\* execute first, and a buffer in which stoi does not overflow ("digits" is not
\* among Tails), which serveRequest does not see to.
NobodyAborts == \A p \in Pids : at[p] # "aborted"

\* A FIFO is there only as long as its process, a killed one apart: the
\* destructor of the last image removes what the first one made, and no other
\* process makes or keeps it.
FifoGoesWithItsProcess ==
    \A p \in Pids : Exists(p) => at[p] \notin {"none", "exit", "exited", "aborted"}

\* Every image that runs the constructor comes to have its FIFO open, unless
\* it is killed; the bound Pipes is never what it waits for.
EveryImageListens ==
    \A p \in Pids : at[p] = "begin" ~> Listens(p) \/ ~Alive(p)

\* The channel is a mailbox: what a handler is about to read is the one
\* command its process was sent, and test_member_ is what the commands make it.
\* It is one only under three conditions which the library does not establish:
\* a forked child executes before it does anything else (ChildrenExec), the pid
\* of a killed process is not used again (~ReuseKilled), and what the stack
\* holds after the message ends it, for serveRequest does not terminate its
\* buffer (Tails \subseteq {"end"}).
alive == {p \in Pids : Alive(p)}
box == [p \in Pids |-> IF at[p] = "allocate" THEN Contents(p) ELSE <<>>]
member == [p \in Pids |-> IF Alive(p) THEN test_member_[p] ELSE 0]

mailbox == INSTANCE Mailbox
    WITH Pids <- Pids, Commands <- Commands, alive <- alive, box <- box, member <- member

MailboxSpec == mailbox!Spec
=============================================================================
