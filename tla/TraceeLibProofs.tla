-------------------------- MODULE TraceeLibProofs --------------------------
(***************************************************************************)
(* Proofs about the message channel of module TraceeLib, for any number of *)
(* tracees, descriptors and images, in every interleaving, with SIGKILL at *)
(* any moment.                                                             *)
(***************************************************************************)
EXTENDS TraceeLib, SequenceTheorems, TLAPS

\* What is true of a process wherever it is.  Before its handshake it has no
\* handler the tracer knows of; from create_fifo on it either has no FIFO open
\* in this image or the right one; and in the program's code it is either the
\* child of a fork, which the tracer knows nothing of, or it listens.
Opening(p) == fifo_fd[p] = 0 /\ Closed(p) # {}

Where(p) ==
    /\ at[p] \in {"none", "begin", "handshake"} =>
          fifo_fd[p] = 0 /\ fifo_path[p] = "" /\ ~has_user_signal_handlers_[p]
    /\ at[p] \in {"begin", "handshake"} => Closed(p) # {}
    /\ at[p] \notin {"none", "begin", "exited", "killed"} => handlers[p]
    /\ at[p] \in {"create_fifo", "mkfifo", "open", "allocate", "end", "close"} =>
          has_user_signal_handlers_[p]
    /\ at[p] \in {"mkfifo", "open", "allocate", "end", "close", "unlink"} =>
          fifo_path[p] = p
    /\ at[p] \in {"create_fifo", "open"} => Opening(p) \/ Listens(p)
    /\ at[p] = "mkfifo" => Opening(p) /\ ~Exists(p)
    /\ at[p] \in {"open", "unlink"} => Exists(p)
    /\ at[p] = "main" =>
          \/ fifo_path[p] = p /\ has_user_signal_handlers_[p] /\ Listens(p)
          \/ fifo_path[p] # p /\ ~has_user_signal_handlers_[p]
    /\ at[p] \in {"allocate", "end", "close"} => Listens(p)
    /\ at[p] = "allocate" => Contents(p) # <<>>
    /\ at[p] # "aborted"

\* A pipe has one name.
OneName == \A p, q \in Pids : p # q /\ Exists(p) => dir[p] # dir[q]

IInv ==
    /\ TypeOK
    /\ OneName
    /\ \A p \in Pids : Where(p)

-----------------------------------------------------------------------------
(* Types.                                                                  *)

\* What the calls of module Fifos leave of the types.
Files ==
    /\ dir \in [Pids -> Pipes \union {NoPipe}]
    /\ pipe \in [Pipes -> Seq(Commands)]
    /\ fds \in [Pids -> [Fds -> Pipes \union {NoPipe}]]

LEMMA EmptySeqTyped == <<>> \in Seq(Commands)
OBVIOUS

LEMMA ClosingTyped ==
    ASSUME Files, NEW table \in [Pids -> [Fds -> Pipes \union {NoPipe}]],
           Descriptors(table), UNCHANGED dir
    PROVE  Files'
BY EmptySeqTyped DEF Files, Descriptors

LEMMA CloseAllTyped ==
    ASSUME Files, NEW p \in Pids, CloseAll(p)
    PROVE  Files'
<1>1. [fds EXCEPT ![p] = [fd \in Fds |-> NoPipe]] \in [Pids -> [Fds -> Pipes \union {NoPipe}]]
  BY DEF Files
<1>2. QED
  BY <1>1, ClosingTyped DEF CloseAll

LEMMA EndTyped ==
    ASSUME TypeOK, NEW p \in Pids, NEW from, NEW how \in Dead, End(p, from, how)
    PROVE  TypeOK'
<1>1. Files'
  BY CloseAllTyped DEF TypeOK, Files, End
<1>2. at' \in [Pids -> Positions]
  BY DEF TypeOK, End, Go, Positions
<1>3. QED
  BY <1>1, <1>2 DEF TypeOK, Files, End, image

LEMMA LibStepTyped ==
    ASSUME TypeOK, NEW p \in Pids, LibStep(p)
    PROVE  TypeOK'
<1> USE DEF Positions, Go, files, image
<1>1. CASE SetUserSignals(p)
  BY <1>1 DEF TypeOK, SetUserSignals
<1>2. CASE Handshake(p, "handshake")
  BY <1>2 DEF TypeOK, Handshake, Answer
<1>3. CASE CreateFifo(p)
  <2>1. CASE End(p, "create_fifo", "killed")
    BY <2>1, EndTyped DEF Dead
  <2>2. CASE ~End(p, "create_fifo", "killed")
    BY <1>3, <2>2, ZenonT(60) DEF TypeOK, CreateFifo, Handled, AfterAccess
  <2>3. QED
    BY <2>1, <2>2
<1>4. CASE MakeFifo(p)
  <2>1. CASE End(p, "mkfifo", "aborted")
    BY <2>1, EndTyped DEF Dead
  <2>2. CASE ~End(p, "mkfifo", "aborted")
    <3>1. Mkfifo(fifo_path[p]) /\ Go(p, "mkfifo", "open")
          /\ UNCHANGED <<image, has_user_signal_handlers_>>
      BY <1>4, <2>2 DEF MakeFifo, SafeSyscall
    <3>2. PICK i \in Fresh : dir' = [dir EXCEPT ![fifo_path[p]] = i]
      BY <3>1 DEF Mkfifo
    <3>3. i \in Pipes
      BY <3>2 DEF Fresh
    <3>4. QED
      BY <3>1, <3>2, <3>3, ZenonT(60) DEF TypeOK, Mkfifo
  <2>3. QED
    BY <2>1, <2>2
<1>5. CASE OpenFifo(p)
  <2>1. CASE End(p, "open", "aborted")
    BY <2>1, EndTyped DEF Dead
  <2>2. CASE fifo_fd[p] # 0
    BY <1>5, <2>2 DEF TypeOK, OpenFifo
  <2>3. CASE fifo_fd[p] = 0 /\ ~End(p, "open", "aborted")
    <3>1. /\ Exists(fifo_path[p]) /\ Closed(p) # {}
          /\ Go(p, "open", "main")
          /\ fifo_fd' = [fifo_fd EXCEPT ![p] = FreeFd(p)]
          /\ Open(p, fifo_path[p])
          /\ UNCHANGED <<handlers, fifo_path, test_member_, has_user_signal_handlers_>>
      BY <1>5, <2>3 DEF OpenFifo, SafeSyscall
    <3>2. FreeFd(p) \in Fds
      BY <3>1 DEF FreeFd, Closed
    <3>3. dir[fifo_path[p]] \in Pipes \union {NoPipe}
      BY <3>1 DEF Exists, TypeOK
    <3>4. QED
      BY <3>1, <3>2, <3>3 DEF TypeOK, Open
  <2>4. QED
    BY <2>1, <2>2, <2>3
<1>6. CASE ServeRequest(p)
  <2>1. CASE End(p, "allocate", "killed") \/ End(p, "allocate", "aborted")
    BY <2>1, EndTyped DEF Dead
  <2>2. CASE ~(End(p, "allocate", "killed") \/ End(p, "allocate", "aborted"))
    <3>1. PICK tail \in Tails :
            /\ Contents(p) # <<>>
            /\ Go(p, "allocate", "main")
            /\ \E command \in Parsed(Contents(p), tail) :
                 test_member_' = [test_member_ EXCEPT ![p] = Served(command, @)]
            /\ Drain(fds[p][fifo_fd[p]])
            /\ UNCHANGED <<handlers, fifo_fd, fifo_path, has_user_signal_handlers_>>
      BY <1>6, <2>2 DEF ServeRequest, SafeSyscall, Handled
    <3>2. test_member_' \in [Pids -> {0, 1}]
      BY <3>1 DEF TypeOK, Served
    <3>3. pipe' \in [Pipes -> Seq(Commands)]
      BY <3>1, EmptySeqTyped DEF TypeOK, Drain
    <3>4. QED
      BY <3>1, <3>2, <3>3 DEF TypeOK, Drain
  <2>3. QED
    BY <2>1, <2>2
<1>7. CASE AccessFifo(p)
  BY <1>7 DEF TypeOK, AccessFifo
<1>8. CASE CloseFifo(p)
  <2>1. CASE End(p, "close", "aborted")
    BY <2>1, EndTyped DEF Dead
  <2>2. CASE ~End(p, "close", "aborted")
    <3>1. /\ Go(p, "close", AfterClose)
          /\ Close(p, fifo_fd[p])
          /\ UNCHANGED <<image, has_user_signal_handlers_>>
      BY <1>8, <2>2 DEF CloseFifo, SafeSyscall
    <3>2. [fds EXCEPT ![p][fifo_fd[p]] = NoPipe] \in [Pids -> [Fds -> Pipes \union {NoPipe}]]
      BY DEF TypeOK
    <3>3. Files'
      BY <3>1, <3>2, ClosingTyped DEF Close, TypeOK, Files
    <3>4. QED
      BY <3>1, <3>3 DEF TypeOK, Files, AfterClose
  <2>3. QED
    BY <2>1, <2>2
<1>9. CASE UnlinkFifo(p)
  <2>1. CASE End(p, "unlink", "aborted")
    BY <2>1, EndTyped DEF Dead
  <2>2. CASE ~End(p, "unlink", "aborted")
    BY <1>9, <2>2 DEF TypeOK, UnlinkFifo, SafeSyscall, Unlink
  <2>3. QED
    BY <2>1, <2>2
<1>10. CASE Exit(p)
  BY <1>10, EndTyped DEF Exit, Dead
<1>11. QED
  BY <1>1, <1>2, <1>3, <1>4, <1>5, <1>6, <1>7, <1>8, <1>9, <1>10 DEF LibStep

LEMMA StepTyped ==
    ASSUME TypeOK, [Next]_vars
    PROVE  TypeOK'
<1> USE DEF Positions, Go, files, image
<1>1. ASSUME NEW p \in Pids, SendMessage(p)
      PROVE  TypeOK'
  <2>1. PICK command \in Commands : Post(p, command)
    BY <1>1 DEF SendMessage
  <2>2. \A i \in Pipes : Append(pipe[i], command) \in Seq(Commands)
    BY AppendProperties DEF TypeOK
  <2>3. QED
    <3>1. pipe' \in [Pipes -> Seq(Commands)]
      BY <2>1, <2>2 DEF TypeOK, Post
    <3>2. QED
      BY <1>1, <2>1, <3>1 DEF TypeOK, SendMessage, Post
<1>2. ASSUME NEW p \in Pids, Kill0(p)
      PROVE  TypeOK'
  BY <1>2 DEF TypeOK, Kill0, Handshake, Answer
<1>3. ASSUME NEW p \in Pids, NEW c \in Pids, Fork(p, c)
      PROVE  TypeOK'
  BY <1>3 DEF TypeOK, Fork, CopyFds
<1>4. ASSUME NEW p \in Pids, Exec(p)
      PROVE  TypeOK'
  BY <1>4 DEF TypeOK, Exec, NewImage, HandlersAfterExec
<1>5. ASSUME NEW p \in Pids, CallExit(p)
      PROVE  TypeOK'
  BY <1>5 DEF TypeOK, CallExit
<1>6. ASSUME NEW p \in Pids, Kill(p)
      PROVE  TypeOK'
  BY <1>6, EndTyped DEF Kill, Dead
<1>7. ASSUME NEW p \in Pids, Reap(p)
      PROVE  TypeOK'
  BY <1>7 DEF TypeOK, Reap, NewImage
<1>8. CASE UNCHANGED vars
  BY <1>8 DEF TypeOK, vars
<1>9. QED
  BY <1>1, <1>2, <1>3, <1>4, <1>5, <1>6, <1>7, <1>8, LibStepTyped DEF Next

-----------------------------------------------------------------------------
(* What others do leaves a process where it is.                            *)

\* Nothing of q's own changes but, perhaps, what is in its FIFO.
Untouched(q) ==
    /\ at'[q] = at[q] /\ handlers'[q] = handlers[q]
    /\ fifo_fd'[q] = fifo_fd[q] /\ fifo_path'[q] = fifo_path[q]
    /\ has_user_signal_handlers_'[q] = has_user_signal_handlers_[q]
    /\ fds'[q] = fds[q] /\ dir'[q] = dir[q]

LEMMA Bystander ==
    ASSUME NEW q \in Pids, Where(q), Untouched(q),
           at[q] = "allocate" => Contents(q)' # <<>>
    PROVE  Where(q)'
BY DEF Where, Untouched, Opening, Closed, Listens, Exists, IsOpen

\* A message stays in its FIFO while the addressee has it open, whoever else
\* closes it.
LEMMA ClosingKeepsMessages ==
    ASSUME TypeOK, NEW q \in Pids, Listens(q), Untouched(q),
           NEW table, Descriptors(table)
    PROVE  Contents(q)' = Contents(q)
<1>1. fifo_fd[q] \in Fds /\ fds[q][fifo_fd[q]] \in Pipes
  BY DEF TypeOK, Listens, IsOpen, Closed
<1>2. Holds(table, fds[q][fifo_fd[q]])
  BY <1>1 DEF Untouched, Descriptors, Holds
<1>3. QED
  BY <1>1, <1>2 DEF Descriptors, Contents, Untouched, IsOpen, Closed

LEMMA EndKeeps ==
    ASSUME IInv, NEW p \in Pids, NEW from, NEW how \in {"exited", "killed"},
           End(p, from, how)
    PROVE  IInv'
<1>1. TypeOK'
  BY EndTyped DEF IInv, Dead
<1>2. OneName'
  BY DEF IInv, OneName, Exists, End, CloseAll
<1>3. Where(p)'
  BY DEF IInv, TypeOK, Where, End, Go
<1>4. ASSUME NEW q \in Pids \ {p}
      PROVE  Where(q)'
  <2>1. Untouched(q)
    BY DEF Untouched, End, Go, CloseAll, Descriptors, image, IInv, TypeOK
  <2>2. at[q] = "allocate" => Contents(q)' # <<>>
    BY <2>1, ClosingKeepsMessages DEF End, CloseAll, IInv, Where
  <2>3. QED
    BY <2>1, <2>2, Bystander DEF IInv
<1>5. QED
  BY <1>1, <1>2, <1>3, <1>4 DEF IInv

\* A step that touches neither names nor pipes nor another process.
Quiet(p) ==
    /\ UNCHANGED <<dir, pipe>>
    /\ \A q \in Pids \ {p} : Untouched(q)

LEMMA OwnStepKeeps ==
    ASSUME IInv, TypeOK', NEW p \in Pids, Where(p)', Quiet(p)
    PROVE  IInv'
<1> USE DEF Quiet
<1>1. OneName'
  BY DEF IInv, OneName, Exists
<1>2. ASSUME NEW q \in Pids \ {p}
      PROVE  Where(q)'
  <2>1. Contents(q)' = Contents(q)
    BY DEF Contents, Untouched, IsOpen, Closed
  <2>2. QED
    BY <2>1, Bystander DEF IInv, Where
<1>3. QED
  BY <1>1, <1>2 DEF IInv

-----------------------------------------------------------------------------
(* The steps of the library.                                               *)

\* Most steps are quiet, and come from and go to where nothing is waiting.
LEMMA QuietSteps ==
    ASSUME IInv, NEW p \in Pids,
           \/ SetUserSignals(p)
           \/ Handshake(p, "handshake")
           \/ CreateFifo(p)
           \/ OpenFifo(p)
           \/ AccessFifo(p)
           \/ Kill0(p)
           \/ \E q \in Pids : Fork(q, p)
           \/ Exec(p)
           \/ CallExit(p)
           \/ Reap(p)
    PROVE  /\ Quiet(p)
           /\ at[p] # "allocate" /\ at'[p] # "allocate"
           /\ at[p] = "killed" => ReuseKilled
           /\ at'[p] \in {"none", "exit", "exited", "aborted"} =>
                 ~Exists(p) \/ at[p] \in Dead
<1> USE DEF Quiet, Untouched, Go, files, image
<1>t. TypeOK /\ Where(p)
  BY DEF IInv
<1>1. CASE SetUserSignals(p)
  BY <1>t, <1>1 DEF TypeOK, SetUserSignals
<1>2. CASE Handshake(p, "handshake")
  BY <1>t, <1>2 DEF TypeOK, Handshake, Answer
<1>3. CASE CreateFifo(p)
  BY <1>t, <1>3, ZenonT(60) DEF TypeOK, Where, CreateFifo, Handled, AfterAccess
<1>4. CASE OpenFifo(p)
  <2>1. fifo_fd[p] = 0 => Exists(fifo_path[p]) /\ Closed(p) # {}
    BY <1>t, <1>4, FifosAssumption DEF Where, OpenFifo, Listens, IsOpen, Fds, Opening
  <2>2. QED
    BY <1>t, <1>4, <2>1 DEF TypeOK, OpenFifo, SafeSyscall, Open
<1>5. CASE AccessFifo(p)
  BY <1>t, <1>5 DEF TypeOK, Where, AccessFifo
<1>6. CASE Kill0(p)
  BY <1>t, <1>6 DEF TypeOK, Kill0, Handshake, Answer
<1>7. ASSUME NEW q \in Pids, Fork(q, p)
      PROVE  /\ Quiet(p)
             /\ at[p] = "none" /\ at'[p] = "main"
  <2>1. /\ UNCHANGED <<dir, pipe, has_user_signal_handlers_>>
        /\ at[p] = "none" /\ at'[p] = "main"
    BY <1>t, <1>7 DEF TypeOK, Fork, CopyFds
  <2>2. ASSUME NEW r \in Pids \ {p}
        PROVE  Untouched(r)
    <3>1. at'[r] = at[r] /\ fifo_fd'[r] = fifo_fd[r] /\ fifo_path'[r] = fifo_path[r]
      BY <1>t, <1>7 DEF TypeOK, Fork
    <3>2. handlers'[r] = handlers[r]
      BY <1>t, <1>7 DEF TypeOK, Fork
    <3>3. fds'[r] = fds[r]
      BY <1>t, <1>7 DEF TypeOK, Fork, CopyFds
    <3>4. QED
      BY <2>1, <3>1, <3>2, <3>3
  <2>3. QED
    BY <2>1, <2>2
<1>8. CASE Exec(p)
  BY <1>t, <1>8 DEF TypeOK, Exec, NewImage
<1>9. CASE CallExit(p)
  BY <1>t, <1>9 DEF TypeOK, CallExit
<1>10. CASE Reap(p)
  BY <1>t, <1>10 DEF TypeOK, Reap, NewImage, Dead
<1>11. QED
  BY <1>1, <1>2, <1>3, <1>4, <1>5, <1>6, <1>7, <1>8, <1>9, <1>10

LEMMA MakeFifoKeeps ==
    ASSUME IInv, TypeOK', NEW p \in Pids, MakeFifo(p)
    PROVE  IInv'
<1>1. /\ at[p] = "mkfifo" /\ fifo_path[p] = p /\ ~Exists(p) /\ Opening(p)
      /\ has_user_signal_handlers_[p] /\ handlers[p]
  BY DEF IInv, Where, MakeFifo
<1>2. /\ at' = [at EXCEPT ![p] = "open"]
      /\ Mkfifo(p)
      /\ UNCHANGED <<image, has_user_signal_handlers_>>
  BY <1>1 DEF MakeFifo, SafeSyscall, Go
<1>3. PICK i \in Fresh : dir' = [dir EXCEPT ![p] = i]
  BY <1>2 DEF Mkfifo
<1>4. i \in Pipes /\ i # NoPipe /\ \A q \in Pids : dir[q] # i
  BY <1>3, FifosAssumption DEF Fresh
<1>5. OneName'
  BY <1>3, <1>4 DEF IInv, TypeOK, OneName, Exists
<1>6. Where(p)'
  <2>1. at'[p] = "open" /\ dir'[p] = i
    BY <1>2, <1>3 DEF IInv, TypeOK
  <2>2. Exists(p)' /\ Opening(p)'
    BY <1>1, <1>2, <1>4, <2>1 DEF Exists, Opening, Closed, Mkfifo, image
  <2>3. QED
    BY <1>1, <1>2, <2>1, <2>2 DEF Where, image
<1>7. ASSUME NEW q \in Pids \ {p}
      PROVE  Where(q)'
  <2>1. Untouched(q)
    BY <1>2, <1>3 DEF IInv, TypeOK, Untouched, Mkfifo, image
  <2>2. Contents(q)' = Contents(q)
    BY <1>2, <2>1 DEF Contents, Untouched, IsOpen, Closed, Mkfifo
  <2>3. QED
    BY <2>1, <2>2, Bystander DEF IInv, Where
<1>8. QED
  BY <1>5, <1>6, <1>7 DEF IInv

LEMMA OpenFifoKeeps ==
    ASSUME IInv, TypeOK', NEW p \in Pids, OpenFifo(p)
    PROVE  IInv'
<1>1. /\ at[p] = "open" /\ fifo_path[p] = p /\ Exists(p)
      /\ Opening(p) \/ Listens(p)
      /\ has_user_signal_handlers_[p] /\ handlers[p]
  BY DEF IInv, Where, OpenFifo
<1>2. fifo_fd[p] = 0 => Closed(p) # {}
  BY <1>1, FifosAssumption DEF Listens, IsOpen, Fds, Opening
<1> DEFINE Rest == UNCHANGED <<dir, pipe, handlers, fifo_path, has_user_signal_handlers_>>
<1>3. at' = [at EXCEPT ![p] = "main"] /\ Rest
  <2>1. CASE fifo_fd[p] # 0
    BY <2>1 DEF OpenFifo, Go, files, image
  <2>2. CASE fifo_fd[p] = 0
    BY <1>1, <1>2, <2>2 DEF OpenFifo, SafeSyscall, Go, Open
  <2>3. QED
    BY <2>1, <2>2
<1>4. Listens(p)'
  <2>1. CASE fifo_fd[p] # 0
    BY <1>1, <1>3, <2>1 DEF OpenFifo, Listens, Opening, Exists, IsOpen, Closed, files, image
  <2>2. CASE fifo_fd[p] = 0
    <3>1. Closed(p) # {}
      BY <1>2, <2>2
    <3>2. /\ fifo_fd' = [fifo_fd EXCEPT ![p] = FreeFd(p)]
          /\ fds' = [fds EXCEPT ![p][FreeFd(p)] = dir[p]]
      BY <1>1, <2>2, <3>1 DEF OpenFifo, SafeSyscall, Open
    <3>3. FreeFd(p) \in Fds
      BY <3>1 DEF FreeFd, Closed
    <3>4. fifo_fd'[p] = FreeFd(p) /\ fds'[p][FreeFd(p)] = dir[p]
      BY <3>2, <3>3, ZenonT(60) DEF IInv, TypeOK
    <3>5. QED
      BY <1>1, <1>3, <3>3, <3>4 DEF Listens, Exists, IsOpen, Closed
  <2>3. QED
    BY <2>1, <2>2
<1>5. Where(p)'
  BY <1>1, <1>3, <1>4 DEF IInv, TypeOK, Where
<1>6. QED
  BY <1>5, OwnStepKeeps, QuietSteps

LEMMA ServeRequestKeeps ==
    ASSUME IInv, TypeOK', "digits" \notin Tails, NEW p \in Pids, ServeRequest(p)
    PROVE  IInv'
<1>1. /\ at[p] = "allocate" /\ handlers[p] /\ Listens(p) /\ Contents(p) # <<>>
      /\ fifo_path[p] = p /\ has_user_signal_handlers_[p]
  BY DEF IInv, Where, ServeRequest
<1>2. \A tail \in Tails : Parsed(Contents(p), tail) # {}
  BY DEF Parsed
<1>3. /\ at' = [at EXCEPT ![p] = "main"]
      /\ Drain(fds[p][fifo_fd[p]])
      /\ UNCHANGED <<handlers, fifo_fd, fifo_path, has_user_signal_handlers_>>
  BY <1>1, <1>2 DEF ServeRequest, Handled, SafeSyscall, Go
<1>4. fds[p][fifo_fd[p]] = dir[p]
  BY <1>1 DEF Listens
<1>5. OneName'
  BY <1>3 DEF IInv, OneName, Exists, Drain
<1>6. Where(p)'
  <2>1. at'[p] = "main"
    BY <1>3 DEF IInv, TypeOK
  <2>2. Listens(p)'
    BY <1>1, <1>3 DEF Drain, Listens, Exists, IsOpen, Closed
  <2>3. QED
    BY <1>1, <1>3, <2>1, <2>2 DEF Where
<1>7. ASSUME NEW q \in Pids \ {p}
      PROVE  Where(q)'
  <2>1. Untouched(q)
    BY <1>3 DEF IInv, TypeOK, Untouched, Drain
  <2>2. ASSUME at[q] = "allocate"
        PROVE  Contents(q)' = Contents(q)
    <3>1. fds[q][fifo_fd[q]] = dir[q] /\ dir[q] # dir[p]
      BY <2>2 DEF IInv, Where, OneName, Listens
    <3>2. QED
      BY <1>3, <1>4, <2>1, <3>1 DEF Contents, Drain, Untouched, IsOpen, Closed, IInv, TypeOK
  <2>3. QED
    BY <2>1, <2>2, Bystander DEF IInv, Where
<1>8. QED
  BY <1>5, <1>6, <1>7 DEF IInv

LEMMA CloseFifoKeeps ==
    ASSUME IInv, TypeOK', NEW p \in Pids, CloseFifo(p)
    PROVE  IInv'
<1>1. /\ at[p] = "close" /\ handlers[p] /\ Listens(p) /\ fifo_path[p] = p
  BY DEF IInv, Where, CloseFifo
<1>2. /\ at' = [at EXCEPT ![p] = "unlink"]
      /\ Close(p, fifo_fd[p])
      /\ UNCHANGED <<image, has_user_signal_handlers_>>
  BY <1>1 DEF CloseFifo, SafeSyscall, Listens, Go, AfterClose
<1>3. OneName'
  BY <1>2 DEF IInv, OneName, Exists, Close
<1>4. Where(p)'
  <2>1. at'[p] = "unlink"
    BY <1>2 DEF IInv, TypeOK
  <2>2. Exists(p)'
    BY <1>1, <1>2 DEF Listens, Exists, Close
  <2>3. QED
    BY <1>1, <1>2, <2>1, <2>2 DEF Where, image
<1>5. ASSUME NEW q \in Pids \ {p}
      PROVE  Where(q)'
  <2>1. Untouched(q)
    BY <1>2 DEF IInv, TypeOK, Untouched, Close, Descriptors, image
  <2>2. at[q] = "allocate" => Contents(q)' # <<>>
    BY <1>2, <2>1, ClosingKeepsMessages DEF Close, IInv, Where
  <2>3. QED
    BY <2>1, <2>2, Bystander DEF IInv
<1>6. QED
  BY <1>3, <1>4, <1>5 DEF IInv

LEMMA UnlinkFifoKeeps ==
    ASSUME IInv, TypeOK', NEW p \in Pids, UnlinkFifo(p)
    PROVE  IInv'
<1>1. /\ at[p] = "unlink" /\ handlers[p] /\ Exists(p) /\ fifo_path[p] = p
  BY DEF IInv, Where, UnlinkFifo
<1>2. /\ at' = [at EXCEPT ![p] = "exit"]
      /\ Unlink(p)
      /\ UNCHANGED <<image, has_user_signal_handlers_>>
  BY <1>1 DEF UnlinkFifo, SafeSyscall, Go
<1>3. OneName'
  BY <1>2 DEF IInv, TypeOK, OneName, Exists, Unlink
<1>4. Where(p)'
  <2>1. at'[p] = "exit"
    BY <1>2 DEF IInv, TypeOK
  <2>2. QED
    BY <1>1, <1>2, <2>1 DEF Where, image
<1>5. ASSUME NEW q \in Pids \ {p}
      PROVE  Where(q)'
  <2>1. Untouched(q)
    BY <1>2 DEF IInv, TypeOK, Untouched, Unlink, image
  <2>2. Contents(q)' = Contents(q)
    BY <1>2, <2>1 DEF Contents, Untouched, IsOpen, Closed, Unlink
  <2>3. QED
    BY <2>1, <2>2, Bystander DEF IInv, Where
<1>6. QED
  BY <1>3, <1>4, <1>5 DEF IInv

LEMMA LibStepKeeps ==
    ASSUME IInv, TypeOK', "digits" \notin Tails, NEW p \in Pids, LibStep(p)
    PROVE  IInv'
<1> USE DEF Go, files, image
<1>t. TypeOK /\ Where(p)
  BY DEF IInv
<1>1. CASE SetUserSignals(p)
  <2>1. Where(p)'
    BY <1>t, <1>1, ZenonT(60) DEF TypeOK, Where, SetUserSignals, Closed
  <2>2. QED
    BY <1>1, <2>1, OwnStepKeeps, QuietSteps
<1>2. CASE Handshake(p, "handshake")
  <2>1. Where(p)'
    BY <1>t, <1>2, ZenonT(60) DEF TypeOK, Where, Handshake, Answer, Closed, Opening
  <2>2. QED
    BY <1>2, <2>1, OwnStepKeeps, QuietSteps
<1>3. CASE CreateFifo(p)
  <2>1. /\ at[p] = "create_fifo" /\ handlers[p] /\ has_user_signal_handlers_[p]
        /\ Opening(p) \/ Listens(p)
    BY <1>t, <1>3 DEF Where, CreateFifo
  <2>2. /\ at' = [at EXCEPT ![p] = IF Exists(p) THEN "open" ELSE "mkfifo"]
        /\ fifo_path' = [fifo_path EXCEPT ![p] = p]
        /\ UNCHANGED <<files, handlers, fifo_fd, test_member_, has_user_signal_handlers_>>
    BY <1>3, <2>1 DEF CreateFifo, Handled, AfterAccess
  <2>3. at'[p] = (IF Exists(p) THEN "open" ELSE "mkfifo") /\ fifo_path'[p] = p
    BY <1>t, <2>2 DEF TypeOK
  <2>4. Where(p)'
    <3>1. /\ Opening(p)' <=> Opening(p)
          /\ Listens(p)' <=> Listens(p)
          /\ Exists(p)' <=> Exists(p)
      BY <2>2 DEF Opening, Listens, Exists, IsOpen, Closed
    <3>2. /\ at'[p] \in {"open", "mkfifo"}
          /\ handlers'[p] /\ has_user_signal_handlers_'[p] /\ fifo_path'[p] = p
      BY <2>1, <2>2, <2>3
    <3>3. at'[p] = "open" => (Opening(p)' \/ Listens(p)') /\ Exists(p)'
      BY <2>1, <2>3, <3>1
    <3>4. at'[p] = "mkfifo" => Opening(p)' /\ ~Exists(p)'
      BY <2>1, <2>3, <3>1 DEF Listens
    <3>5. QED
      BY <3>2, <3>3, <3>4 DEF Where
  <2>5. QED
    BY <1>3, <2>4, OwnStepKeeps, QuietSteps
<1>4. CASE AccessFifo(p)
  <2>1. Where(p)'
    BY <1>t, <1>4 DEF TypeOK, Where, AccessFifo, Listens, Exists, IsOpen, Closed
  <2>2. QED
    BY <1>4, <2>1, OwnStepKeeps, QuietSteps
<1>5. CASE Exit(p)
  BY <1>5, EndKeeps DEF Exit
<1>6. QED
  BY <1>1, <1>2, <1>3, <1>4, <1>5, MakeFifoKeeps, OpenFifoKeeps, ServeRequestKeeps,
     CloseFifoKeeps, UnlinkFifoKeeps DEF LibStep

-----------------------------------------------------------------------------
(* The steps of the program and the tracer.                                *)

LEMMA SendMessageKeeps ==
    ASSUME IInv, TypeOK', NEW p \in Pids, SendMessage(p)
    PROVE  IInv'
<1>1. /\ at[p] = "main" /\ handlers[p] /\ Listens(p) /\ fifo_path[p] = p
      /\ has_user_signal_handlers_[p]
  BY DEF IInv, Where, SendMessage, MaySend
<1>2. PICK command \in Commands : Post(p, command)
  BY DEF SendMessage
<1>3. /\ at' = [at EXCEPT ![p] = "allocate"]
      /\ UNCHANGED <<image, has_user_signal_handlers_, dir, fds>>
  BY <1>1, <1>2 DEF SendMessage, Go, Post
<1>4. /\ fifo_fd[p] \in Fds /\ fds[p][fifo_fd[p]] = dir[p] /\ dir[p] \in Pipes
      /\ Exists(p)
  BY <1>1 DEF IInv, TypeOK, Listens, Exists, IsOpen
<1>5. pipe' = [pipe EXCEPT ![dir[p]] = Append(@, command)]
  BY <1>2, <1>4 DEF Post, Holds
<1>6. \A i \in Pipes : Append(pipe[i], command) # <<>>
  <2>1. \A i \in Pipes : pipe[i] \in Seq(Commands)
    BY DEF IInv, TypeOK
  <2>2. QED
    BY <2>1, AppendProperties
<1>7. OneName'
  BY <1>3 DEF IInv, OneName, Exists
<1>8. \A i \in Pipes : pipe[i] # <<>> => pipe'[i] # <<>>
  BY <1>5, <1>6 DEF IInv, TypeOK
<1>9. Where(p)'
  <2>1. at'[p] = "allocate"
    BY <1>3 DEF IInv, TypeOK
  <2>2. Listens(p)'
    BY <1>1, <1>3 DEF Listens, Exists, IsOpen, Closed, image
  <2>3. Contents(p)' = pipe'[dir[p]]
    BY <1>3, <1>4, <2>2 DEF Contents, Listens, image
  <2>4. pipe'[dir[p]] # <<>>
    BY <1>4, <1>5, <1>6 DEF IInv, TypeOK
  <2>5. QED
    BY <1>1, <1>3, <2>1, <2>2, <2>3, <2>4 DEF Where, image
<1>10. ASSUME NEW q \in Pids \ {p}
       PROVE  Where(q)'
  <2>1. Untouched(q)
    BY <1>3 DEF IInv, TypeOK, Untouched, image
  <2>2. ASSUME at[q] = "allocate"
        PROVE  Contents(q)' # <<>>
    <3>1. Listens(q) /\ Contents(q) # <<>>
      BY <2>2 DEF IInv, Where
    <3>2. fifo_fd[q] \in Fds /\ fds[q][fifo_fd[q]] \in Pipes
      BY <3>1 DEF IInv, TypeOK, Listens, IsOpen, Closed
    <3>3. QED
      BY <1>8, <2>1, <3>1, <3>2 DEF Contents, Untouched, IsOpen, Closed
  <2>3. QED
    BY <2>1, <2>2, Bystander DEF IInv
<1>11. QED
  BY <1>7, <1>9, <1>10 DEF IInv

LEMMA ForkKeeps ==
    ASSUME IInv, TypeOK', ChildrenExec, NEW p \in Pids, NEW c \in Pids, Fork(p, c)
    PROVE  IInv'
<1>1. /\ at[p] = "main" /\ fifo_path[p] = p /\ at[c] = "none" /\ c # p
      /\ Closed(p) # {} /\ handlers[p] /\ ~has_user_signal_handlers_[c]
  BY DEF IInv, Where, Fork, Acts, Inherited
<1>2. /\ at'[c] = "main" /\ handlers'[c] /\ fifo_path'[c] # c
      /\ ~has_user_signal_handlers_'[c]
  BY <1>1, ZenonT(60) DEF IInv, TypeOK, Fork
<1>3. Where(c)'
  BY <1>2 DEF Where
<1>4. QED
  BY <1>3, OwnStepKeeps, QuietSteps

LEMMA StepKeeps ==
    ASSUME IInv, ChildrenExec, "digits" \notin Tails, [Next]_vars
    PROVE  IInv'
<1>t. TypeOK /\ TypeOK'
  BY StepTyped DEF IInv
<1>1. ASSUME NEW p \in Pids, Kill0(p)
      PROVE  IInv'
  <2>1. /\ at[p] = "main" /\ Listens(p) /\ handlers[p]
    BY <1>1 DEF IInv, Where, Kill0, Acts, Inherited
  <2>2. /\ at' = [at EXCEPT ![p] = "create_fifo"]
        /\ has_user_signal_handlers_' = [has_user_signal_handlers_ EXCEPT ![p] = TRUE]
        /\ UNCHANGED <<files, image>>
    BY <1>1 DEF Kill0, Handshake, Go, Answer
  <2>3. at'[p] = "create_fifo" /\ has_user_signal_handlers_'[p]
    BY <1>t, <2>2 DEF TypeOK
  <2>4. Listens(p)'
    BY <2>1, <2>2 DEF Listens, Exists, IsOpen, Closed, files, image
  <2>5. Where(p)'
    BY <2>1, <2>2, <2>3, <2>4 DEF Where, image
  <2>6. QED
    BY <1>t, <1>1, <2>5, OwnStepKeeps, QuietSteps
<1>2. ASSUME NEW p \in Pids, Exec(p)
      PROVE  IInv'
  <2>1. Where(p)'
    BY <1>t, <1>2 DEF TypeOK, Where, Exec, Go, NewImage, HandlersAfterExec, Closed, files
  <2>2. QED
    BY <1>t, <1>2, <2>1, OwnStepKeeps, QuietSteps
<1>3. ASSUME NEW p \in Pids, CallExit(p)
      PROVE  IInv'
  <2>1. at[p] = "main" /\ fifo_path[p] = p /\ Where(p)
    BY <1>3 DEF IInv, CallExit, Acts, Inherited
  <2>2. at'[p] = "end"
    BY <1>t, <1>3 DEF TypeOK, CallExit, Go
  <2>3. Where(p)'
    BY <1>3, <2>1, <2>2 DEF Where, CallExit, Listens, Exists, IsOpen, Closed, files, image
  <2>4. QED
    BY <1>t, <1>3, <2>3, OwnStepKeeps, QuietSteps
<1>4. ASSUME NEW p \in Pids, Kill(p)
      PROVE  IInv'
  BY <1>4, EndKeeps DEF Kill
<1>5. ASSUME NEW p \in Pids, Reap(p)
      PROVE  IInv'
  <2>1. Where(p)'
    BY <1>t, <1>5 DEF TypeOK, Where, Reap, Go, NewImage
  <2>2. QED
    BY <1>t, <1>5, <2>1, OwnStepKeeps, QuietSteps
<1>6. CASE UNCHANGED vars
  <2>1. OneName'
    BY <1>6 DEF vars, files, IInv, OneName, Exists
  <2>2. ASSUME NEW p \in Pids
        PROVE  Where(p)'
    <3>1. Untouched(p)
      BY <1>6 DEF vars, files, image, Untouched
    <3>2. Contents(p)' = Contents(p)
      BY <1>6 DEF vars, files, image, Contents, IsOpen, Closed
    <3>3. QED
      BY <3>1, <3>2, Bystander DEF IInv, Where
  <2>3. QED
    BY <1>t, <2>1, <2>2 DEF IInv
<1>7. QED
  BY <1>t, <1>1, <1>2, <1>3, <1>4, <1>5, <1>6, LibStepKeeps, SendMessageKeeps, ForkKeeps
     DEF Next

LEMMA InitTyped == Init => TypeOK
<1> SUFFICES ASSUME Init
             PROVE  TypeOK
  OBVIOUS
<1>1. /\ dir \in [Pids -> Pipes \union {NoPipe}]
      /\ fds \in [Pids -> [Fds -> Pipes \union {NoPipe}]]
  BY DEF Init, FilesInit
<1>2. pipe \in [Pipes -> Seq(Commands)]
  BY EmptySeqTyped DEF Init, FilesInit
<1>3. at \in [Pids -> Positions]
  BY DEF Init, Positions
<1>4. QED
  BY <1>1, <1>2, <1>3 DEF Init, TypeOK

LEMMA InitIInv == Init => IInv
<1> SUFFICES ASSUME Init
             PROVE  IInv
  OBVIOUS
<1>1. OneName
  BY DEF Init, FilesInit, OneName, Exists
<1>2. ASSUME NEW p \in Pids
      PROVE  Where(p)
  <2>1. 1 \in Fds
    BY FifosAssumption DEF Fds
  <2>2. 1 \in Closed(p)
    BY <2>1 DEF Init, FilesInit, Closed
  <2>3. QED
    BY <2>2 DEF Init, Where
<1>3. QED
  BY <1>1, <1>2, InitTyped DEF IInv

-----------------------------------------------------------------------------
(* Theorems.                                                               *)

\* Type correctness, test_member_ a truth value included, whatever children,
\* signals and the rest of the message buffer do.
THEOREM TypeCorrect == Spec => []TypeOK
<1>1. Init => TypeOK
  BY InitTyped
<1>2. TypeOK /\ [Next]_vars => TypeOK'
  BY StepTyped
<1>3. QED
  BY <1>1, <1>2, PTL DEF Spec

\* If forked children execute before they do anything else, and what follows
\* a message in the buffer is not a long run of digits, a tracee the tracer
\* may send messages has its FIFO open (create_fifo, tracee_begin, tracee_end).
THEOREM ToldTraceesListen ==
    ASSUME ChildrenExec, "digits" \notin Tails
    PROVE  Spec => []ToldListens
<1>1. IInv /\ [Next]_vars => IInv'
  BY StepKeeps
<1>2. IInv => ToldListens
  BY DEF IInv, Where, ToldListens
<1>3. QED
  BY InitIInv, <1>1, <1>2, PTL DEF Spec

\* And under the same conditions no call of the library fails.
THEOREM NoCallFails ==
    ASSUME ChildrenExec, "digits" \notin Tails
    PROVE  Spec => []NobodyAborts
<1>1. IInv /\ [Next]_vars => IInv'
  BY StepKeeps
<1>2. IInv => NobodyAborts
  BY DEF IInv, Where, NobodyAborts
<1>3. QED
  BY InitIInv, <1>1, <1>2, PTL DEF Spec

-----------------------------------------------------------------------------
(* The channel as a mailbox.                                               *)

\* A tracee in the handler of SIGUSR1 has one message, and a pipe has none but
\* that of such a tracee, or of one that was killed there.
OneMessage == \A p \in Pids : at[p] = "allocate" => Len(Contents(p)) = 1

Owned ==
    \A i \in Pipes : pipe[i] # <<>> =>
        \E p \in Pids : dir[p] = i /\ at[p] \in {"allocate", "killed"}

Clean == FifoGoesWithItsProcess /\ OneMessage /\ Owned

MInv == IInv /\ Clean

LEMMA EmptyingKeepsOwned ==
    ASSUME Owned,
           \A i \in Pipes : pipe'[i] # <<>> => pipe[i] # <<>>,
           \A p \in Pids : dir[p] \in Pipes /\ at[p] \in {"allocate", "killed"} =>
                           dir'[p] = dir[p] /\ at'[p] \in {"allocate", "killed"}
    PROVE  Owned'
BY DEF Owned

LEMMA QuietKeepsClean ==
    ASSUME MInv, NEW p \in Pids, Quiet(p),
           at[p] \notin {"allocate", "killed"}, at'[p] # "allocate",
           at'[p] \in {"none", "exit", "exited", "aborted"} => ~Exists(p)
    PROVE  Clean'
<1> USE DEF MInv, Clean, Quiet, Untouched
<1>1. FifoGoesWithItsProcess'
  BY DEF FifoGoesWithItsProcess, Exists
<1>2. OneMessage'
  BY DEF OneMessage, Contents, IsOpen, Closed
<1>3. Owned'
  BY EmptyingKeepsOwned
<1>4. QED
  BY <1>1, <1>2, <1>3

LEMMA QuietStepKeepsClean ==
    ASSUME MInv, ~ReuseKilled, NEW p \in Pids,
           \/ SetUserSignals(p)
           \/ Handshake(p, "handshake")
           \/ CreateFifo(p)
           \/ OpenFifo(p)
           \/ AccessFifo(p)
           \/ Kill0(p)
           \/ \E q \in Pids : Fork(q, p)
           \/ Exec(p)
           \/ CallExit(p)
           \/ Reap(p)
    PROVE  Clean'
<1>1. /\ Quiet(p)
      /\ at[p] # "allocate" /\ at'[p] # "allocate"
      /\ at[p] # "killed"
      /\ at'[p] \in {"none", "exit", "exited", "aborted"} =>
            ~Exists(p) \/ at[p] \in Dead
  BY QuietSteps DEF MInv
<1>2. at[p] \in Dead \ {"killed"} => ~Exists(p)
  BY DEF MInv, Clean, FifoGoesWithItsProcess, Dead
<1>3. QED
  BY <1>1, <1>2, QuietKeepsClean

LEMMA EndKeepsClean ==
    ASSUME MInv, NEW p \in Pids, NEW from, NEW how \in {"exited", "killed"},
           from = "exit" \/ how = "killed",
           End(p, from, how)
    PROVE  Clean'
<1>t. TypeOK /\ Owned /\ OneMessage /\ FifoGoesWithItsProcess
  BY DEF MInv, IInv, Clean
<1>1. /\ at[p] = from /\ at' = [at EXCEPT ![p] = how]
      /\ CloseAll(p)
      /\ UNCHANGED <<image, has_user_signal_handlers_, dir>>
  BY DEF End, Go, CloseAll
<1>2. FifoGoesWithItsProcess'
  BY <1>t, <1>1 DEF TypeOK, FifoGoesWithItsProcess, Exists
<1>3. ASSUME NEW q \in Pids, at'[q] = "allocate"
      PROVE  Len(Contents(q)') = 1
  <2>1. q # p /\ at[q] = "allocate" /\ Untouched(q)
    BY <1>t, <1>1, <1>3 DEF TypeOK, Untouched, CloseAll, Descriptors, image
  <2>2. Listens(q)
    BY <2>1 DEF MInv, IInv, Where
  <2>3. QED
    BY <1>t, <1>1, <2>1, <2>2, ClosingKeepsMessages DEF CloseAll, OneMessage
<1>4. Owned'
  <2>1. \A i \in Pipes : pipe'[i] # <<>> => pipe[i] # <<>>
    BY <1>1 DEF CloseAll, Descriptors
  <2>2. \A q \in Pids : at[q] \in {"allocate", "killed"} => at'[q] \in {"allocate", "killed"}
    BY <1>t, <1>1 DEF TypeOK
  <2>3. QED
    BY <1>t, <1>1, <2>1, <2>2, EmptyingKeepsOwned
<1>5. QED
  BY <1>2, <1>3, <1>4 DEF Clean, OneMessage

LEMMA MakeFifoKeepsClean ==
    ASSUME MInv, NEW p \in Pids, MakeFifo(p)
    PROVE  Clean'
<1>t. TypeOK /\ Owned /\ OneMessage /\ FifoGoesWithItsProcess
  BY DEF MInv, IInv, Clean
<1>1. /\ at[p] = "mkfifo" /\ at' = [at EXCEPT ![p] = "open"]
      /\ UNCHANGED <<image, has_user_signal_handlers_, pipe, fds>>
      /\ \E i \in Fresh : dir' = [dir EXCEPT ![p] = i]
  BY DEF MInv, IInv, Where, MakeFifo, SafeSyscall, Go, Mkfifo
<1>2. \A q \in Pids \ {p} : at'[q] = at[q] /\ dir'[q] = dir[q]
  BY <1>t, <1>1 DEF TypeOK
<1>3. at'[p] = "open"
  BY <1>t, <1>1 DEF TypeOK
<1>4. FifoGoesWithItsProcess'
  BY <1>t, <1>2, <1>3 DEF FifoGoesWithItsProcess, Exists
<1>5. OneMessage'
  BY <1>t, <1>1, <1>2, <1>3 DEF OneMessage, Contents, IsOpen, Closed, image
<1>6. Owned'
  BY <1>t, <1>1, <1>2, EmptyingKeepsOwned
<1>7. QED
  BY <1>4, <1>5, <1>6 DEF Clean

LEMMA ServeRequestKeepsClean ==
    ASSUME MInv, "digits" \notin Tails, NEW p \in Pids, ServeRequest(p)
    PROVE  Clean'
<1>t. TypeOK /\ Owned /\ OneMessage /\ FifoGoesWithItsProcess /\ OneName
  BY DEF MInv, IInv, Clean
<1>1. /\ at[p] = "allocate" /\ Listens(p)
      /\ at' = [at EXCEPT ![p] = "main"]
      /\ pipe' = [pipe EXCEPT ![dir[p]] = <<>>]
      /\ UNCHANGED <<handlers, fifo_fd, fifo_path, has_user_signal_handlers_, dir, fds>>
  <2>1. at[p] = "allocate" /\ handlers[p] /\ Listens(p) /\ Contents(p) # <<>>
    BY DEF MInv, IInv, Where, ServeRequest
  <2>2. \A tail \in Tails : Parsed(Contents(p), tail) # {}
    BY DEF Parsed
  <2>3. QED
    BY <2>1, <2>2 DEF ServeRequest, Handled, SafeSyscall, Go, Drain, Listens
<1>2. \A q \in Pids \ {p} : at'[q] = at[q]
  BY <1>t, <1>1 DEF TypeOK
<1>3. at'[p] = "main"
  BY <1>t, <1>1 DEF TypeOK
<1>4. FifoGoesWithItsProcess'
  BY <1>t, <1>1, <1>2, <1>3 DEF FifoGoesWithItsProcess, Exists
<1>5. ASSUME NEW q \in Pids, at'[q] = "allocate"
      PROVE  Len(Contents(q)') = 1
  <2>1. q # p /\ at[q] = "allocate"
    BY <1>2, <1>3, <1>5
  <2>2. fds[q][fifo_fd[q]] = dir[q] /\ dir[q] # dir[p]
    BY <1>t, <1>1, <2>1 DEF MInv, IInv, Where, OneName, Listens
  <2>3. Contents(q)' = Contents(q)
    BY <1>t, <1>1, <2>2 DEF TypeOK, Contents, IsOpen, Closed
  <2>4. QED
    BY <1>t, <2>1, <2>3 DEF OneMessage
<1>6. ASSUME NEW i \in Pipes, pipe'[i] # <<>>
      PROVE  \E q \in Pids : dir'[q] = i /\ at'[q] \in {"allocate", "killed"}
  <2>1. i # dir[p] /\ pipe[i] # <<>>
    BY <1>t, <1>1, <1>6 DEF TypeOK
  <2>2. PICK q \in Pids : dir[q] = i /\ at[q] \in {"allocate", "killed"}
    BY <1>t, <2>1 DEF Owned
  <2>3. QED
    BY <1>1, <1>2, <2>1, <2>2
<1>7. QED
  BY <1>4, <1>5, <1>6 DEF Clean, OneMessage, Owned

LEMMA CloseFifoKeepsClean ==
    ASSUME MInv, NEW p \in Pids, CloseFifo(p)
    PROVE  Clean'
<1>t. TypeOK /\ Owned /\ OneMessage /\ FifoGoesWithItsProcess
  BY DEF MInv, IInv, Clean
<1>1. /\ at[p] = "close" /\ at' = [at EXCEPT ![p] = "unlink"]
      /\ Close(p, fifo_fd[p])
      /\ UNCHANGED <<image, has_user_signal_handlers_, dir>>
  BY DEF MInv, IInv, Where, CloseFifo, SafeSyscall, Listens, Go, AfterClose, Close
<1>2. FifoGoesWithItsProcess'
  BY <1>t, <1>1 DEF TypeOK, FifoGoesWithItsProcess, Exists
<1>3. ASSUME NEW q \in Pids, at'[q] = "allocate"
      PROVE  Len(Contents(q)') = 1
  <2>1. q # p /\ at[q] = "allocate" /\ Untouched(q)
    BY <1>t, <1>1, <1>3 DEF TypeOK, Untouched, Close, Descriptors, image
  <2>2. Listens(q)
    BY <2>1 DEF MInv, IInv, Where
  <2>3. QED
    BY <1>t, <1>1, <2>1, <2>2, ClosingKeepsMessages DEF Close, OneMessage
<1>4. Owned'
  <2>1. \A i \in Pipes : pipe'[i] # <<>> => pipe[i] # <<>>
    BY <1>1 DEF Close, Descriptors
  <2>2. \A q \in Pids : at[q] \in {"allocate", "killed"} => at'[q] \in {"allocate", "killed"}
    BY <1>t, <1>1 DEF TypeOK
  <2>3. QED
    BY <1>t, <1>1, <2>1, <2>2, EmptyingKeepsOwned
<1>5. QED
  BY <1>2, <1>3, <1>4 DEF Clean, OneMessage

LEMMA UnlinkFifoKeepsClean ==
    ASSUME MInv, NEW p \in Pids, UnlinkFifo(p)
    PROVE  Clean'
<1>t. TypeOK /\ Owned /\ OneMessage /\ FifoGoesWithItsProcess
  BY DEF MInv, IInv, Clean
<1>1. /\ at[p] = "unlink" /\ at' = [at EXCEPT ![p] = "exit"]
      /\ dir' = [dir EXCEPT ![p] = NoPipe]
      /\ UNCHANGED <<image, has_user_signal_handlers_, pipe, fds>>
  BY DEF MInv, IInv, Where, UnlinkFifo, SafeSyscall, Go, Unlink
<1>2. \A q \in Pids \ {p} : at'[q] = at[q] /\ dir'[q] = dir[q]
  BY <1>t, <1>1 DEF TypeOK
<1>3. at'[p] = "exit" /\ dir'[p] = NoPipe
  BY <1>t, <1>1 DEF TypeOK
<1>4. FifoGoesWithItsProcess'
  BY <1>t, <1>2, <1>3 DEF FifoGoesWithItsProcess, Exists
<1>5. OneMessage'
  BY <1>t, <1>1, <1>2, <1>3 DEF OneMessage, Contents, IsOpen, Closed, image
<1>6. Owned'
  BY <1>t, <1>1, <1>2, EmptyingKeepsOwned
<1>7. QED
  BY <1>4, <1>5, <1>6 DEF Clean

LEMMA SendMessageIsSend ==
    ASSUME MInv, NEW p \in Pids, SendMessage(p)
    PROVE  /\ at[p] = "main" /\ at' = [at EXCEPT ![p] = "allocate"]
           /\ UNCHANGED <<image, has_user_signal_handlers_, dir, fds>>
           /\ Contents(p) = <<>>
           /\ \E command \in Commands :
                 /\ Contents(p)' = <<command>>
                 /\ pipe' = [pipe EXCEPT ![dir[p]] = <<command>>]
<1>t. TypeOK /\ Owned /\ OneName
  BY DEF MInv, IInv, Clean
<1>1. /\ at[p] = "main" /\ Listens(p)
  BY DEF MInv, IInv, Where, SendMessage, MaySend
<1>2. PICK command \in Commands : Post(p, command)
  BY DEF SendMessage
<1>3. /\ at' = [at EXCEPT ![p] = "allocate"]
      /\ UNCHANGED <<image, has_user_signal_handlers_, dir, fds>>
  BY <1>1, <1>2 DEF SendMessage, Go, Post
<1>4. /\ fifo_fd[p] \in Fds /\ fds[p][fifo_fd[p]] = dir[p] /\ dir[p] \in Pipes
      /\ Exists(p)
  BY <1>t, <1>1 DEF TypeOK, Listens, Exists, IsOpen
<1>5. pipe[dir[p]] = <<>>
  BY <1>t, <1>1, <1>4 DEF Owned, OneName
<1>6. pipe' = [pipe EXCEPT ![dir[p]] = <<command>>]
  <2>1. pipe' = [pipe EXCEPT ![dir[p]] = Append(@, command)]
    BY <1>2, <1>4 DEF Post, Holds
  <2>2. Append(<<>>, command) = <<command>>
    OBVIOUS
  <2>3. QED
    BY <1>5, <2>1, <2>2
<1>7. Contents(p) = pipe[dir[p]] /\ Contents(p)' = pipe'[dir[p]]
  BY <1>1, <1>3, <1>4 DEF Contents, Listens, image, IsOpen, Closed
<1>8. Contents(p)' = <<command>>
  BY <1>t, <1>4, <1>6, <1>7 DEF TypeOK
<1>9. QED
  BY <1>1, <1>3, <1>5, <1>6, <1>7, <1>8

LEMMA SendMessageKeepsClean ==
    ASSUME MInv, NEW p \in Pids, SendMessage(p)
    PROVE  Clean'
<1>t. TypeOK /\ Owned /\ OneMessage /\ FifoGoesWithItsProcess /\ OneName
  BY DEF MInv, IInv, Clean
<1>1. PICK command \in Commands :
        /\ at[p] = "main" /\ at' = [at EXCEPT ![p] = "allocate"]
        /\ UNCHANGED <<image, has_user_signal_handlers_, dir, fds>>
        /\ Contents(p)' = <<command>>
        /\ pipe' = [pipe EXCEPT ![dir[p]] = <<command>>]
  BY SendMessageIsSend
<1>2. \A q \in Pids \ {p} : at'[q] = at[q]
  BY <1>t, <1>1 DEF TypeOK
<1>3. at'[p] = "allocate"
  BY <1>t, <1>1 DEF TypeOK
<1>4. FifoGoesWithItsProcess'
  BY <1>t, <1>1, <1>2, <1>3 DEF FifoGoesWithItsProcess, Exists
<1>5. ASSUME NEW q \in Pids, at'[q] = "allocate"
      PROVE  Len(Contents(q)') = 1
  <2>1. CASE q = p
    BY <1>1, <2>1
  <2>2. CASE q # p
    <3>1. fds[q][fifo_fd[q]] = dir[q] /\ dir[q] # dir[p] /\ at[q] = "allocate"
      BY <1>t, <1>2, <1>5, <2>2 DEF MInv, IInv, Where, OneName, Listens
    <3>2. Contents(q)' = Contents(q)
      BY <1>t, <1>1, <3>1 DEF TypeOK, Contents, IsOpen, Closed, image
    <3>3. QED
      BY <1>t, <3>1, <3>2 DEF OneMessage
  <2>3. QED
    BY <2>1, <2>2
<1>6. ASSUME NEW i \in Pipes, pipe'[i] # <<>>
      PROVE  \E q \in Pids : dir'[q] = i /\ at'[q] \in {"allocate", "killed"}
  <2>1. CASE i = dir[p]
    BY <1>1, <1>3, <2>1
  <2>2. CASE i # dir[p]
    <3>1. PICK q \in Pids : dir[q] = i /\ at[q] \in {"allocate", "killed"}
      BY <1>t, <1>1, <1>6, <2>2 DEF TypeOK, Owned
    <3>2. QED
      BY <1>1, <1>2, <2>2, <3>1
  <2>3. QED
    BY <2>1, <2>2
<1>7. QED
  BY <1>4, <1>5, <1>6 DEF Clean, OneMessage, Owned

LEMMA StepKeepsClean ==
    ASSUME MInv, ~ReuseKilled, "digits" \notin Tails, [Next]_vars
    PROVE  Clean'
<1>1. ASSUME NEW p \in Pids, Exit(p) \/ Kill(p)
      PROVE  Clean'
  BY <1>1, EndKeepsClean DEF Exit, Kill
<1>2. CASE UNCHANGED vars
  BY <1>2 DEF MInv, vars, files, image, Clean, FifoGoesWithItsProcess, Exists, OneMessage,
     Contents, IsOpen, Closed, Owned
<1>3. QED
  BY <1>1, <1>2, QuietStepKeepsClean, MakeFifoKeepsClean, ServeRequestKeepsClean,
     CloseFifoKeepsClean, UnlinkFifoKeepsClean, SendMessageKeepsClean DEF Next, LibStep

LEMMA InitClean == Init => Clean
<1> SUFFICES ASSUME Init
             PROVE  Clean
  OBVIOUS
<1>1. FifoGoesWithItsProcess
  BY DEF Init, FilesInit, FifoGoesWithItsProcess, Exists
<1>2. OneMessage
  BY DEF Init, OneMessage
<1>3. Owned
  BY DEF Init, FilesInit, Owned
<1>4. QED
  BY <1>1, <1>2, <1>3 DEF Clean

\* If moreover the pid of a killed tracee is not given to a new one, a FIFO is
\* there only as long as its process, or until SIGKILL (tracee_end).
THEOREM FifosGo ==
    ASSUME ChildrenExec, "digits" \notin Tails, ~ReuseKilled
    PROVE  Spec => []FifoGoesWithItsProcess
<1>1. Init => MInv
  BY InitIInv, InitClean DEF MInv
<1>2. MInv /\ [Next]_vars => MInv'
  BY StepKeeps, StepKeepsClean DEF MInv
<1>3. MInv => FifoGoesWithItsProcess
  BY DEF MInv, Clean
<1>4. QED
  BY <1>1, <1>2, <1>3, PTL DEF Spec

-----------------------------------------------------------------------------
(* The refinement.                                                         *)

\* Only p's own entries of the mailbox may have changed.
Mine(p) ==
    \A q \in Pids \ {p} :
        /\ at'[q] = at[q] /\ test_member_'[q] = test_member_[q]
        /\ at[q] = "allocate" => Contents(q)' = Contents(q)

LEMMA QuietIsMine ==
    ASSUME NEW p \in Pids, Quiet(p),
           \A q \in Pids \ {p} : test_member_'[q] = test_member_[q]
    PROVE  Mine(p)
BY DEF Quiet, Untouched, Mine, Contents, IsOpen, Closed

LEMMA StutterRefines ==
    ASSUME NEW p \in Pids, Mine(p),
           at[p] # "allocate", at'[p] # "allocate",
           \/ Alive(p) /\ Alive(p)' /\ test_member_'[p] = test_member_[p]
           \/ ~Alive(p) /\ ~Alive(p)'
    PROVE  UNCHANGED mailbox!vars
<1>1. alive' = alive
  BY DEF alive, Mine, Alive
<1>2. box' = box
  BY DEF box, Mine
<1>3. member' = member
  BY DEF member, Mine, Alive
<1>4. QED
  BY <1>1, <1>2, <1>3 DEF mailbox!vars

LEMMA EndRefines ==
    ASSUME MInv, NEW p \in Pids, NEW from, NEW how \in {"exited", "killed"},
           End(p, from, how)
    PROVE  mailbox!Die(p)
<1>t. TypeOK
  BY DEF MInv, IInv
<1>1. /\ at' = [at EXCEPT ![p] = how]
      /\ CloseAll(p)
      /\ UNCHANGED <<image, has_user_signal_handlers_, dir>>
  BY DEF End, Go, CloseAll
<1>2. at'[p] = how
  BY <1>t, <1>1 DEF TypeOK
<1>3. Mine(p)
  <2>1. ASSUME NEW q \in Pids \ {p}
        PROVE  at'[q] = at[q] /\ test_member_'[q] = test_member_[q]
    BY <1>t, <1>1 DEF TypeOK, image
  <2>2. ASSUME NEW q \in Pids \ {p}, at[q] = "allocate"
        PROVE  Contents(q)' = Contents(q)
    <3>1. Untouched(q)
      BY <1>t, <1>1 DEF TypeOK, Untouched, CloseAll, Descriptors, image
    <3>2. Listens(q)
      BY <2>2 DEF MInv, IInv, Where
    <3>3. QED
      BY <1>t, <1>1, <3>1, <3>2, ClosingKeepsMessages DEF CloseAll
  <2>3. QED
    BY <2>1, <2>2 DEF Mine
<1>4. alive' = alive \ {p}
  BY <1>2, <1>3 DEF alive, Alive, Dead, Mine
<1>5. box' = [box EXCEPT ![p] = <<>>]
  BY <1>2, <1>3 DEF box, Mine
<1>6. member' = [member EXCEPT ![p] = 0]
  BY <1>2, <1>3 DEF member, Alive, Dead, Mine
<1>7. QED
  BY <1>4, <1>5, <1>6 DEF mailbox!Die

LEMMA SendRefines ==
    ASSUME MInv, NEW p \in Pids, SendMessage(p)
    PROVE  \E command \in Commands : mailbox!Send(p, command)
<1>t. TypeOK /\ OneName
  BY DEF MInv, IInv
<1>1. PICK command \in Commands :
        /\ at[p] = "main" /\ at' = [at EXCEPT ![p] = "allocate"]
        /\ UNCHANGED <<image, has_user_signal_handlers_, dir, fds>>
        /\ Contents(p)' = <<command>>
        /\ pipe' = [pipe EXCEPT ![dir[p]] = <<command>>]
  BY SendMessageIsSend
<1>2. at'[p] = "allocate"
  BY <1>t, <1>1 DEF TypeOK
<1>3. Mine(p)
  <2>1. ASSUME NEW q \in Pids \ {p}
        PROVE  at'[q] = at[q] /\ test_member_'[q] = test_member_[q]
    BY <1>t, <1>1 DEF TypeOK, image
  <2>2. ASSUME NEW q \in Pids \ {p}, at[q] = "allocate"
        PROVE  Contents(q)' = Contents(q)
    <3>1. fds[q][fifo_fd[q]] = dir[q] /\ dir[q] # dir[p]
      BY <1>t, <2>2 DEF MInv, IInv, Where, OneName, Listens
    <3>2. QED
      BY <1>t, <1>1, <3>1 DEF TypeOK, Contents, IsOpen, Closed, image
  <2>3. QED
    BY <2>1, <2>2 DEF Mine
<1>4. p \in alive /\ alive' = alive
  BY <1>1, <1>2, <1>3 DEF alive, Alive, Dead, Mine
<1>5. box[p] = <<>> /\ box' = [box EXCEPT ![p] = <<command>>]
  BY <1>1, <1>2, <1>3 DEF box, Mine
<1>6. member' = member
  BY <1>1, <1>2, <1>3 DEF member, Alive, Dead, Mine, image
<1>7. QED
  BY <1>4, <1>5, <1>6 DEF mailbox!Send

\* A message that ends where it ends is its command.
LEMMA OneDigit ==
    ASSUME NEW digits \in Seq(Commands), Len(digits) = 1
    PROVE  Number(digits) = Head(digits)
<1>1. \A k \in 1 .. Len(digits) - 1 : digits[k] = 0
  OBVIOUS
<1>2. digits[Len(digits)] = Head(digits)
  OBVIOUS
<1>3. QED
  BY <1>1, <1>2, Zenon DEF Number

LEMMA ServeRefines ==
    ASSUME MInv, Tails \subseteq {"end"}, NEW p \in Pids, ServeRequest(p)
    PROVE  mailbox!Serve(p)
<1>t. TypeOK /\ OneName
  BY DEF MInv, IInv
<1>1. at[p] = "allocate" /\ handlers[p] /\ Listens(p) /\ Contents(p) # <<>>
      /\ Len(Contents(p)) = 1
  BY DEF MInv, IInv, Where, ServeRequest, Clean, OneMessage
<1> DEFINE command == Head(Contents(p))
<1>2. \A tail \in Tails : Parsed(Contents(p), tail) = {command}
  <2>1. Number(Contents(p)) = command
    <3>1. Contents(p) \in Seq(Commands)
      BY <1>t, <1>1 DEF TypeOK, Contents, Listens, Exists, IsOpen, Closed
    <3>2. QED
      BY <1>1, <3>1, OneDigit
  <2>2. QED
    BY <2>1 DEF Parsed
<1>3. /\ at' = [at EXCEPT ![p] = "main"]
      /\ test_member_' = [test_member_ EXCEPT ![p] = Served(command, @)]
      /\ pipe' = [pipe EXCEPT ![dir[p]] = <<>>]
      /\ UNCHANGED <<handlers, fifo_fd, fifo_path, has_user_signal_handlers_, dir, fds>>
  <2>1. PICK tail \in Tails :
          /\ Go(p, "allocate", "main")
          /\ \E c \in Parsed(Contents(p), tail) :
               test_member_' = [test_member_ EXCEPT ![p] = Served(c, @)]
          /\ Drain(fds[p][fifo_fd[p]])
          /\ UNCHANGED <<handlers, fifo_fd, fifo_path, has_user_signal_handlers_>>
    BY <1>1, <1>2 DEF ServeRequest, Handled, SafeSyscall
  <2>2. QED
    BY <1>1, <1>2, <2>1 DEF Go, Drain, Listens
<1>4. at'[p] = "main" /\ test_member_'[p] = Served(command, test_member_[p])
  BY <1>t, <1>3 DEF TypeOK
<1>5. Mine(p)
  <2>1. ASSUME NEW q \in Pids \ {p}
        PROVE  at'[q] = at[q] /\ test_member_'[q] = test_member_[q]
    BY <1>t, <1>3 DEF TypeOK
  <2>2. ASSUME NEW q \in Pids \ {p}, at[q] = "allocate"
        PROVE  Contents(q)' = Contents(q)
    <3>1. fds[q][fifo_fd[q]] = dir[q] /\ dir[q] # dir[p]
      BY <1>t, <2>2, ZenonT(60) DEF MInv, IInv, Where, OneName, Listens
    <3>2. QED
      BY <1>t, <1>3, <3>1 DEF TypeOK, Contents, IsOpen, Closed
  <2>3. QED
    BY <2>1, <2>2 DEF Mine
<1>6. p \in alive /\ alive' = alive
  BY <1>1, <1>4, <1>5 DEF alive, Alive, Dead, Mine
<1>7. box[p] = Contents(p) /\ box' = [box EXCEPT ![p] = <<>>]
  BY <1>1, <1>4, <1>5 DEF box, Mine
<1>8. Served(command, test_member_[p]) = mailbox!Effect(command, test_member_[p])
  BY DEF Served, mailbox!Effect, mailbox!ASSERT_TEST_MEMBER, mailbox!DEASSERT_TEST_MEMBER
<1>9. member[p] = test_member_[p]
  BY <1>6 DEF member, alive
<1>10. member' = [member EXCEPT ![p] = Served(command, test_member_[p])]
  BY <1>4, <1>5, <1>6 DEF member, alive, Alive, Mine
<1>11. QED
  BY <1>1, <1>6, <1>7, <1>8, <1>9, <1>10 DEF mailbox!Serve

LEMMA QuietStepRefines ==
    ASSUME MInv, NEW p \in Pids,
           \/ SetUserSignals(p)
           \/ Handshake(p, "handshake")
           \/ CreateFifo(p)
           \/ OpenFifo(p)
           \/ AccessFifo(p)
           \/ Kill0(p)
           \/ CallExit(p)
           \/ Reap(p)
    PROVE  UNCHANGED mailbox!vars
<1>t. TypeOK /\ Where(p)
  BY DEF MInv, IInv
<1>1. Quiet(p) /\ at[p] # "allocate" /\ at'[p] # "allocate"
  BY QuietSteps DEF MInv
<1>2. CASE Reap(p)
  <2>1. ~Alive(p) /\ ~Alive(p)'
    BY <1>t, <1>2 DEF TypeOK, Reap, Go, Alive
  <2>2. \A q \in Pids \ {p} : test_member_'[q] = test_member_[q]
    BY <1>t, <1>2 DEF TypeOK, Reap, NewImage
  <2>3. QED
    BY <1>1, <2>1, <2>2, QuietIsMine, StutterRefines
<1>3. CASE ~Reap(p)
  <2>1. CreateFifo(p) => handlers[p]
    BY <1>t DEF Where, CreateFifo
  <2>2. at[p] = "open" /\ fifo_fd[p] = 0 => Exists(fifo_path[p]) /\ Closed(p) # {}
    BY <1>t, FifosAssumption DEF Where, Listens, IsOpen, Fds, Opening
  <2>3. UNCHANGED test_member_
    BY <1>3, <2>1, <2>2 DEF SetUserSignals, Handshake, CreateFifo, Handled, OpenFifo,
       SafeSyscall, AccessFifo, Kill0, CallExit, image
  <2>4. Alive(p) /\ Alive(p)'
    BY <1>t, <1>3, <2>1, <2>2 DEF TypeOK, SetUserSignals, Handshake, Answer, CreateFifo,
       Handled, AfterAccess, OpenFifo, SafeSyscall, AccessFifo, Kill0, Acts, CallExit, Go,
       Alive, Dead
  <2>5. QED
    BY <1>1, <2>3, <2>4, QuietIsMine, StutterRefines
<1>4. QED
  BY <1>2, <1>3

LEMMA ForkRefines ==
    ASSUME MInv, NEW p \in Pids, NEW c \in Pids, Fork(p, c)
    PROVE  mailbox!Clone(p, c)
<1>t. TypeOK
  BY DEF MInv, IInv
<1>1. /\ at[p] = "main" /\ at[c] = "none" /\ at'[c] = "main"
      /\ test_member_'[c] = test_member_[p]
  BY <1>t DEF TypeOK, Fork, Acts
<1>2. Quiet(c)
  BY QuietSteps DEF MInv
<1>3. \A q \in Pids \ {c} : test_member_'[q] = test_member_[q]
  BY <1>t DEF TypeOK, Fork
<1>4. Mine(c)
  BY <1>2, <1>3, QuietIsMine
<1>5. p \in alive /\ c \notin alive /\ alive' = alive \union {c}
  BY <1>1, <1>4 DEF alive, Alive, Dead, Mine
<1>6. box' = box
  BY <1>1, <1>4 DEF box, Mine
<1>7. member' = [member EXCEPT ![c] = member[p]]
  BY <1>1, <1>4, <1>5 DEF member, alive, Alive, Dead, Mine
<1>8. QED
  BY <1>5, <1>6, <1>7 DEF mailbox!Clone

LEMMA ExecRefines ==
    ASSUME MInv, NEW p \in Pids, Exec(p)
    PROVE  mailbox!Renew(p)
<1>t. TypeOK
  BY DEF MInv, IInv
<1>1. at[p] = "main" /\ at'[p] = "begin" /\ test_member_'[p] = 0
  BY <1>t DEF TypeOK, Exec, Go, NewImage
<1>2. Quiet(p)
  BY QuietSteps DEF MInv
<1>3. \A q \in Pids \ {p} : test_member_'[q] = test_member_[q]
  BY <1>t DEF TypeOK, Exec, NewImage
<1>4. Mine(p)
  BY <1>2, <1>3, QuietIsMine
<1>5. p \in alive /\ alive' = alive
  BY <1>1, <1>4 DEF alive, Alive, Dead, Mine
<1>6. box[p] = <<>> /\ box' = box
  BY <1>1, <1>4 DEF box, Mine
<1>7. member' = [member EXCEPT ![p] = 0]
  BY <1>1, <1>4 DEF member, Alive, Dead, Mine
<1>8. QED
  BY <1>5, <1>6, <1>7 DEF mailbox!Renew

\* Making, closing and removing a FIFO is nothing to the mailbox.
LEMMA FifoStepRefines ==
    ASSUME MInv, NEW p \in Pids, MakeFifo(p) \/ CloseFifo(p) \/ UnlinkFifo(p)
    PROVE  UNCHANGED mailbox!vars
<1>t. TypeOK
  BY DEF MInv, IInv
<1>1. /\ at[p] \in {"mkfifo", "close", "unlink"}
      /\ \E to \in {"open", "unlink", "exit"} : at' = [at EXCEPT ![p] = to]
      /\ UNCHANGED <<image, has_user_signal_handlers_>>
  BY DEF MInv, IInv, Where, MakeFifo, CloseFifo, UnlinkFifo, SafeSyscall, Go, Listens,
     AfterClose
<1>2. at'[p] \in {"open", "unlink", "exit"}
  BY <1>t, <1>1 DEF TypeOK
<1>3. \A q \in Pids \ {p} : at'[q] = at[q]
  BY <1>t, <1>1 DEF TypeOK
<1>4. ASSUME NEW q \in Pids \ {p}, at[q] = "allocate"
      PROVE  Contents(q)' = Contents(q)
  <2>1. CASE CloseFifo(p)
    <3>1. Close(p, fifo_fd[p])
      BY <2>1 DEF MInv, IInv, Where, CloseFifo, SafeSyscall, Listens
    <3>2. Untouched(q)
      BY <1>t, <1>1, <1>3, <3>1 DEF TypeOK, Untouched, Close, Descriptors, image
    <3>3. Listens(q)
      BY <1>4 DEF MInv, IInv, Where
    <3>4. QED
      BY <1>t, <3>1, <3>2, <3>3, ClosingKeepsMessages DEF Close
  <2>2. CASE MakeFifo(p) \/ UnlinkFifo(p)
    <3>1. UNCHANGED <<pipe, fds>>
      BY <2>2 DEF MInv, IInv, Where, MakeFifo, Mkfifo, UnlinkFifo, Unlink, SafeSyscall
    <3>2. QED
      BY <1>1, <3>1 DEF Contents, IsOpen, Closed, image
  <2>3. QED
    BY <2>1, <2>2
<1>5. Mine(p)
  BY <1>1, <1>3, <1>4 DEF Mine, image
<1>6. Alive(p) /\ Alive(p)' /\ test_member_'[p] = test_member_[p]
  BY <1>1, <1>2 DEF Alive, Dead, image
<1>7. QED
  BY <1>1, <1>2, <1>5, <1>6, StutterRefines

LEMMA InitRefines == Init => mailbox!Init
<1> SUFFICES ASSUME Init
             PROVE  mailbox!Init
  OBVIOUS
<1>1. alive \in SUBSET Pids
  BY DEF alive
<1>2. box = [p \in Pids |-> <<>>]
  BY DEF Init, box
<1>3. member = [p \in Pids |-> 0]
  BY DEF Init, member
<1>4. QED
  BY <1>1, <1>2, <1>3 DEF mailbox!Init

LEMMA StepRefines ==
    ASSUME MInv, Tails \subseteq {"end"}, [Next]_vars
    PROVE  [mailbox!Next]_mailbox!vars
<1>1. ASSUME NEW p \in Pids, Exit(p) \/ Kill(p)
      PROVE  mailbox!Die(p)
  BY <1>1, EndRefines DEF Exit, Kill
<1>2. CASE UNCHANGED vars
  BY <1>2 DEF vars, files, image, mailbox!vars, alive, box, member, Alive, Contents,
     IsOpen, Closed
<1>3. QED
  BY <1>1, <1>2, QuietStepRefines, FifoStepRefines, SendRefines, ServeRefines, ForkRefines,
     ExecRefines DEF Next, LibStep, mailbox!Next

\* If forked children execute before anything else, no killed process's pid is
\* used again, and a message ends where its digits end, which serveRequest's
\* unterminated buffer leaves to chance, then FIFOs, signals and descriptors
\* together are a mailbox: every message is read once, whole, by the process it
\* was sent to, and only death loses one.
THEOREM ChannelIsMailbox ==
    ASSUME ChildrenExec, Tails \subseteq {"end"}, ~ReuseKilled
    PROVE  Spec => MailboxSpec
<1>1. Init => MInv
  BY InitIInv, InitClean DEF MInv
<1>2. "digits" \notin Tails
  OBVIOUS
<1>3. MInv /\ [Next]_vars => MInv'
  BY <1>2, StepKeeps, StepKeepsClean DEF MInv
<1>4. MInv /\ [Next]_vars => [mailbox!Next]_mailbox!vars
  BY StepRefines
<1>5. QED
  BY <1>1, <1>3, <1>4, InitRefines, PTL DEF Spec, MailboxSpec, mailbox!Spec
=============================================================================
