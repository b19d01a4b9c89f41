---------------------------- MODULE PtraceProofs ----------------------------
(***************************************************************************)
(* Proofs about Ptrace, for every set of processes, calls and signals and  *)
(* every bound on their number, SIGKILL at any moment included.            *)
(***************************************************************************)
EXTENDS Ptrace, TLAPS

-----------------------------------------------------------------------------
(* The inductive invariant.                                                *)

KILL == Stop("terminated", "KILL")
Deaths == {"exited", "terminated"}
Events == Forks \union {"exec", "vfork_done"}
Killed(p) == mode[p] = "dead" /\ stop[p] = KILL

\* What the kernel's fields of a process have to do with one another.
StopShape(p) ==
    \/ stop[p] = Stop("enter", "none") /\ at[p] = "entered"
    \/ stop[p] = Stop("exit", "none") /\ at[p] \in {"entered", "performed"}
    \/ /\ stop[p].kind = "event" /\ stop[p].what \in Events
       /\ at[p] \in {"performed", "vfork", "child_gone"}
    \/ /\ stop[p].kind = "signal" /\ stop[p].what \in AllSignals
       /\ at[p] \in {"user", "stopping"}

Shape(p) ==
    /\ mode[p] = "run" => stop[p] = NoStop
    /\ Stopped(p) => StopShape(p)
    /\ mode[p] = "dead" => stop[p].kind \in Deaths
    /\ Alive(p) =>
         /\ call[p] = "none" <=> at[p] \in {"user", "stopping"}
         /\ call[p] = "kill0" => handles[p]
         /\ call[p] = "rt_sigreturn" /\ stop[p].kind # "exit" => frames[p] > 0

\* A process that was never let go on.
Newborn(p) ==
    /\ Alive(p) => at[p] = "user"
    /\ mode[p] = "run" => pending[p] # {}
    /\ mode[p] = "dead" => stop[p] = KILL

\* The process whose entry it was is gone; its pid may be another one's.
Reaped(p) == pc = "handle" /\ waited.pid = p /\ waited.status.kind \in Deaths

\* The last request for it is still to be made.
Unfinished(p) == pc = "continue" /\ waited.pid = p

\* What in_kernel_ says: ahead of the process between a handler's two steps.
Inside(p) ==
    IF Unfinished(p) /\ stop[p].kind \in {"enter", "exit"}
    THEN stop[p].kind = "enter"
    ELSE Between(p)

Followed(p) ==
    /\ mode[p] = "none" =>
         /\ Unfinished(p) /\ ~in_kernel_[p]
         /\ ~returning_from_signal_[p] /\ ~has_user_signal_handlers_[p]
    /\ Alive(p) =>
         /\ in_kernel_[p] <=> Inside(p)
         /\ returning_from_signal_[p] <=> in_kernel_[p] /\ call[p] = "rt_sigreturn"
         /\ has_user_signal_handlers_[p] =>
              handles[p] \/ (stop[p] = Stop("event", "exec") /\ ~Unfinished(p))
    /\ mode[p] = "dead" /\ stop[p].kind = "exited" => in_kernel_[p]

Known(p) ==
    /\ p \notin process_list_ => Newborn(p)
    /\ p \in process_list_ /\ pc \in {"waitpid", "handle", "continue"} =>
         IF Reaped(p) THEN Newborn(p) ELSE Followed(p)

\* What a handler knows of the status it is called with.
Handles ==
    LET p == waited.pid
        status == waited.status
    IN  /\ status.kind \in {"enter", "exit", "event", "signal"} \union Deaths
        /\ status.kind = "event" => status.what \in Events
        /\ status.kind = "signal" => status.what \in AllSignals
        /\ status.kind \notin Deaths =>
             (mode[p] = "held" /\ stop[p] = status) \/ Killed(p)
        /\ p \in process_list_ =>
             /\ status.kind \in {"enter", "signal"} => ~in_kernel_[p]
             /\ status.kind \in {"exit", "event", "exited"} => in_kernel_[p]
        /\ p \notin process_list_ => status.kind = "signal" \/ status = KILL

\* And what its last request finds.
Continues ==
    LET p == waited.pid
    IN  /\ p \in process_list_
        /\ mode[p] = "held" \/ Killed(p) \/ (waited.status = KILL /\ Newborn(p))

Waits ==
    /\ pc = "handle" => Handles
    /\ pc = "continue" => Continues
    /\ pc = "destroyed" => \A p \in process_list_ : ~Alive(p)

IInv ==
    /\ TypeOK
    /\ \A p \in Pids : Shape(p) /\ Known(p)
    /\ Waits

-----------------------------------------------------------------------------
(* Steps of the environment.                                               *)

tracer == <<entries, pc, waited, inject, event>>

\* All that happens to q is that the child it waits for is gone.
Untouched(q) ==
    /\ mode'[q] = mode[q] /\ stop'[q] = stop[q] /\ call'[q] = call[q]
    /\ pending'[q] = pending[q] /\ handles'[q] = handles[q] /\ frames'[q] = frames[q]
    /\ at'[q] = at[q] \/ (at[q] = "vfork" /\ at'[q] = "child_gone")

LEMMA UntouchedKeeps ==
    ASSUME NEW q \in Pids, Shape(q), Known(q), Untouched(q), UNCHANGED tracer
    PROVE  Shape(q)' /\ Known(q)'
<1>1. Shape(q)'
  BY DEF Shape, StopShape, Stopped, Alive, Untouched
<1>2. /\ Newborn(q) => Newborn(q)'
      /\ Reaped(q)' <=> Reaped(q)
      /\ Followed(q) => Followed(q)'
  BY DEF Newborn, Reaped, Followed, Inside, Between, Unfinished, Stopped, Alive,
         Untouched, tracer, entries
<1>. QED  BY <1>1, <1>2 DEF Known, tracer, entries

\* A running process is not the one a handler is busy with, unless it has got
\* the pid of a dead one.
LEMMA RunningIsNotHandled ==
    ASSUME IInv, NEW p \in Pids, mode[p] = "run", waited.pid = p
    PROVE  /\ pc = "handle" => waited.status.kind \in Deaths
           /\ pc = "continue" => waited.status = KILL /\ Newborn(p)
BY DEF IInv, Waits, Handles, Continues, Killed

\* One that has been let go on has an entry, which is right about it.
LEMMA GrownUp ==
    ASSUME IInv, NEW p \in Pids, mode[p] = "run", ~Newborn(p)
    PROVE  /\ p \in process_list_
           /\ ~Reaped(p) /\ ~Unfinished(p)
           /\ pc \in {"waitpid", "handle", "continue"} => Followed(p)
<1>1. p \in process_list_  BY DEF IInv, Known
<1>2. ~Unfinished(p)  BY RunningIsNotHandled DEF Unfinished
<1>3. ~Reaped(p)  BY <1>1 DEF IInv, Known, Reaped
<1>. QED  BY <1>1, <1>2, <1>3 DEF IInv, Known

\* What is left to show of a step of a running process.
LEMMA RunningKeeps ==
    ASSUME IInv, NEW p \in Pids, mode[p] = "run", Tracing, UNCHANGED tracer,
           TypeOK', Shape(p)', Known(p)', Newborn(p) => Newborn(p)',
           \A q \in Pids \ {p} : Untouched(q)
    PROVE  IInv'
<1>1. ASSUME NEW q \in Pids  PROVE Shape(q)' /\ Known(q)'
  BY <1>1, UntouchedKeeps DEF IInv
<1>2. pc = "handle" => Handles'
  <2>1. SUFFICES ASSUME pc = "handle"  PROVE Handles'  OBVIOUS
  <2>2. Handles  BY <2>1 DEF IInv, Waits
  <2>3. CASE waited.pid = p
    BY <2>1, <2>2, <2>3, RunningIsNotHandled DEF Handles, tracer, entries
  <2>4. CASE waited.pid # p
    <3>1. Untouched(waited.pid)  BY <2>4 DEF IInv, TypeOK
    <3>. QED  BY <2>2, <3>1 DEF Handles, Killed, Untouched, tracer, entries
  <2>. QED  BY <2>3, <2>4
<1>3. pc = "continue" => Continues'
  <2>1. SUFFICES ASSUME pc = "continue"  PROVE Continues'  OBVIOUS
  <2>2. Continues  BY <2>1 DEF IInv, Waits
  <2>3. CASE waited.pid = p
    BY <2>1, <2>2, <2>3, RunningIsNotHandled DEF Continues, tracer, entries
  <2>4. CASE waited.pid # p
    <3>1. Untouched(waited.pid)  BY <2>4 DEF IInv, TypeOK
    <3>. QED
      BY <2>2, <3>1 DEF Continues, Killed, Newborn, Stopped, Alive, Untouched, tracer, entries
  <2>. QED  BY <2>3, <2>4
<1>. QED  BY <1>1, <1>2, <1>3 DEF IInv, Waits, Tracing, tracer

\* A step of a process that has been let go on before: p is then followed.
LEMMA GrownUpKeeps ==
    ASSUME IInv, NEW p \in Pids, mode[p] = "run", ~Newborn(p), Tracing, UNCHANGED tracer,
           TypeOK', Shape(p)', \A q \in Pids \ {p} : Untouched(q),
           mode'[p] # "none",
           Alive(p)' =>
             /\ Between(p) <=> Between(p)'
             /\ Between(p)' /\ call'[p] = "rt_sigreturn" <=> Between(p) /\ call[p] = "rt_sigreturn"
             /\ handles[p] => handles'[p] \/ stop'[p] = Stop("event", "exec"),
           mode'[p] = "dead" /\ stop'[p].kind = "exited" => Between(p)
    PROVE  IInv'
<1>1. /\ p \in process_list_ /\ ~Reaped(p) /\ ~Unfinished(p)
      /\ pc \in {"waitpid", "handle", "continue"} => Followed(p)
  BY GrownUp
<1>2. stop[p] = NoStop  BY DEF IInv, Shape
<1>3. ~Unfinished(p)' /\ ~Reaped(p)' /\ process_list_' = process_list_ /\ pc' = pc
      /\ in_kernel_' = in_kernel_ /\ returning_from_signal_' = returning_from_signal_
      /\ has_user_signal_handlers_' = has_user_signal_handlers_
  BY <1>1 DEF tracer, entries, Unfinished, Reaped
<1>4. Followed(p) => Followed(p)'
  BY <1>1, <1>2, <1>3 DEF Followed, Inside, Stop, NoStop, Alive, Unfinished
<1>5. Known(p)'  BY <1>1, <1>3, <1>4 DEF Known
<1>. QED  BY <1>5, RunningKeeps

LEMMA EnterSyscallKeeps ==
    ASSUME IInv, Tracing, UNCHANGED tracer, NEW p \in Pids, NEW c \in Calls, EnterSyscall(p, c)
    PROVE  IInv'
<1>. USE DEF EnterSyscall, StopAt
<1>1. TypeOK /\ Shape(p)  BY DEF IInv
<1>2. ~Newborn(p)  BY DEF Newborn
<1>3. TypeOK'
  BY <1>1, PtraceAssumption DEF TypeOK, tracer, entries, Statuses, Kinds, Stop
<1>4. Shape(p)'
  BY <1>1, PtraceAssumption DEF TypeOK, Shape, StopShape, Stopped, Alive, Stop, NoStop
<1>5. \A q \in Pids \ {p} : Untouched(q)  BY <1>1 DEF TypeOK, Untouched
<1>6. mode'[p] = "stop" /\ ~Between(p)' /\ ~Between(p) /\ handles' = handles
  BY <1>1 DEF TypeOK, Between, Shape, Alive, Stop
<1>. QED  BY <1>2, <1>3, <1>4, <1>5, <1>6, GrownUpKeeps

LEMMA RunSyscallKeeps ==
    ASSUME IInv, Tracing, UNCHANGED tracer, NEW p \in Pids, RunSyscall(p)
    PROVE  IInv'
<1>. USE DEF RunSyscall, StopAt
<1>1. TypeOK /\ Shape(p)  BY DEF IInv
<1>2. ~Newborn(p) /\ stop[p] = NoStop  BY <1>1 DEF Newborn, Alive, Shape
<1>3. TypeOK'
  <2>1. call[p] = "rt_sigreturn" => frames[p] > 0  BY <1>1, <1>2 DEF Shape, Alive, Stop, NoStop
  <2>2. frames' \in [Pids -> Nat]  BY <1>1, <2>1 DEF TypeOK
  <2>. QED  BY <1>1, <2>2 DEF TypeOK, tracer, entries, Statuses, Kinds, Stop
<1>4. Shape(p)'
  BY <1>1, <1>2 DEF TypeOK, Shape, StopShape, Stopped, Alive, Stop, NoStop
<1>5. \A q \in Pids \ {p} : Untouched(q)  BY <1>1 DEF TypeOK, Untouched
<1>6. /\ mode'[p] = "stop" /\ stop'[p] = Stop("exit", "none")
      /\ call' = call /\ (handles[p] => handles'[p])
  BY <1>1 DEF TypeOK
<1>7. Between(p)' <=> Between(p)  BY <1>2, <1>6 DEF Between, Stop, NoStop
<1>. QED  BY <1>2, <1>3, <1>4, <1>5, <1>6, <1>7, GrownUpKeeps

LEMMA ExecKeeps ==
    ASSUME IInv, Tracing, UNCHANGED tracer, NEW p \in Pids, Exec(p)
    PROVE  IInv'
<1>. USE DEF Exec, StopAt
<1>1. TypeOK /\ Shape(p)  BY DEF IInv
<1>2. ~Newborn(p) /\ stop[p] = NoStop  BY <1>1 DEF Newborn, Alive, Shape
<1>3. TypeOK'
  BY <1>1 DEF TypeOK, tracer, entries, Statuses, Kinds, Stop
<1>4. Shape(p)'
  BY <1>1, <1>2 DEF TypeOK, Shape, StopShape, Stopped, Alive, Stop, NoStop, Events
<1>5. \A q \in Pids \ {p} : Untouched(q)  BY <1>1 DEF TypeOK, Untouched
<1>6. mode'[p] = "stop" /\ stop'[p] = Stop("event", "exec") /\ call' = call
  BY <1>1 DEF TypeOK
<1>7. Between(p)' <=> Between(p)  BY <1>2, <1>6 DEF Between, Stop, NoStop
<1>. QED  BY <1>2, <1>3, <1>4, <1>5, <1>6, <1>7, GrownUpKeeps

LEMMA VForkDoneKeeps ==
    ASSUME IInv, Tracing, UNCHANGED tracer, NEW p \in Pids, VForkDone(p)
    PROVE  IInv'
<1>. USE DEF VForkDone, StopAt
<1>1. TypeOK /\ Shape(p)  BY DEF IInv
<1>2. ~Newborn(p) /\ stop[p] = NoStop  BY <1>1 DEF Newborn, Alive, Shape
<1>3. TypeOK'
  BY <1>1 DEF TypeOK, tracer, entries, Statuses, Kinds, Stop
<1>4. Shape(p)'
  BY <1>1, <1>2 DEF TypeOK, Shape, StopShape, Stopped, Alive, Stop, NoStop, Events
<1>5. \A q \in Pids \ {p} : Untouched(q)  BY <1>1 DEF TypeOK, Untouched
<1>6. mode'[p] = "stop" /\ stop'[p] = Stop("event", "vfork_done") /\ call' = call
  BY <1>1 DEF TypeOK
<1>7. Between(p)' <=> Between(p)  BY <1>2, <1>6 DEF Between, Stop, NoStop
<1>. QED  BY <1>2, <1>3, <1>4, <1>5, <1>6, <1>7, GrownUpKeeps

LEMMA LeaveSyscallKeeps ==
    ASSUME IInv, Tracing, UNCHANGED tracer, NEW p \in Pids, LeaveSyscall(p)
    PROVE  IInv'
<1>. USE DEF LeaveSyscall, StopAt
<1>1. TypeOK /\ Shape(p)  BY DEF IInv
<1>2. ~Newborn(p) /\ stop[p] = NoStop  BY <1>1 DEF Newborn, Alive, Shape
<1>3. TypeOK'
  BY <1>1 DEF TypeOK, tracer, entries, Statuses, Kinds, Stop
<1>4. Shape(p)'
  BY <1>1, <1>2 DEF TypeOK, Shape, StopShape, Stopped, Alive, Stop, NoStop
<1>5. \A q \in Pids \ {p} : Untouched(q)  BY <1>1 DEF TypeOK, Untouched
<1>6. mode'[p] = "stop" /\ stop'[p] = Stop("exit", "none") /\ call' = call
  BY <1>1 DEF TypeOK
<1>7. Between(p)' <=> Between(p)  BY <1>2, <1>6 DEF Between, Stop, NoStop
<1>. QED  BY <1>2, <1>3, <1>4, <1>5, <1>6, <1>7, GrownUpKeeps

LEMMA ExitKeeps ==
    ASSUME IInv, Tracing, UNCHANGED tracer, NEW p \in Pids, Exit(p)
    PROVE  IInv'
<1>. USE DEF Exit, Die
<1>1. TypeOK /\ Shape(p)  BY DEF IInv
<1>2. ~Newborn(p) /\ stop[p] = NoStop  BY <1>1 DEF Newborn, Alive, Shape
<1>3. TypeOK'
  BY <1>1 DEF TypeOK, tracer, entries, Statuses, Kinds, Stop
<1>4. mode'[p] = "dead" /\ stop'[p] = Stop("exited", "none")
  OBVIOUS
<1>5. Shape(p)'  BY <1>4 DEF Shape, Stopped, Alive, Stop, Deaths
<1>6. \A q \in Pids \ {p} : Untouched(q)  BY <1>1 DEF TypeOK, Untouched
<1>7. Between(p)
  BY <1>1, <1>2 DEF Between, Shape, Alive, Stop, NoStop
<1>8. ~Alive(p)'  BY <1>4 DEF Alive, Stopped
<1>. QED  BY <1>2, <1>3, <1>4, <1>5, <1>6, <1>7, <1>8, GrownUpKeeps

\* The one step of a process that was never let go on.
LEMMA TakeSignalKeeps ==
    ASSUME IInv, Tracing, UNCHANGED tracer, NEW p \in Pids, TakeSignal(p)
    PROVE  IInv'
<1>. USE DEF TakeSignal, StopAt
<1>1. TypeOK /\ Shape(p) /\ Known(p)  BY DEF IInv
<1>2. stop[p] = NoStop  BY <1>1 DEF Shape
<1>3. TypeOK'
  BY <1>1 DEF TypeOK, tracer, entries, Statuses, Kinds, Stop
<1>4. PICK s \in AllSignals : /\ mode' = [mode EXCEPT ![p] = "stop"]
                              /\ stop' = [stop EXCEPT ![p] = Stop("signal", s)]
  BY <1>1 DEF TypeOK
<1>5. /\ mode'[p] = "stop" /\ stop'[p] = Stop("signal", s)
      /\ call' = call /\ at' = at /\ handles' = handles
  BY <1>1, <1>4 DEF TypeOK
<1>6. Shape(p)'
  BY <1>1, <1>2, <1>5 DEF Shape, StopShape, Stopped, Alive, Stop, NoStop
<1>7. \A q \in Pids \ {p} : Untouched(q)  BY <1>1 DEF TypeOK, Untouched
<1>8. Between(p)' <=> Between(p)  BY <1>2, <1>5 DEF Between, Stop, NoStop
<1>9. CASE ~Newborn(p)
  BY <1>3, <1>5, <1>6, <1>7, <1>8, <1>9, GrownUpKeeps DEF Stop
<1>10. CASE Newborn(p)
  <2>1. Newborn(p)'  BY <1>5, <1>10 DEF Newborn, Alive, Stopped
  <2>2. Known(p)'
    BY <1>1, <1>2, <1>5, <1>8, <2>1
    DEF Known, Reaped, Followed, Inside, Unfinished, Alive, Stopped, tracer, entries, Stop, NoStop
  <2>. QED  BY <1>3, <1>6, <1>7, <2>1, <2>2, RunningKeeps
<1>. QED  BY <1>9, <1>10

LEMMA GroupStopKeeps ==
    ASSUME IInv, Tracing, UNCHANGED tracer, NEW p \in Pids, GroupStop(p)
    PROVE  IInv'
<1>. USE DEF GroupStop, StopAt
<1>1. TypeOK /\ Shape(p)  BY DEF IInv
<1>2. ~Newborn(p) /\ stop[p] = NoStop  BY <1>1 DEF Newborn, Alive, Shape
<1>3. TypeOK'
  BY <1>1 DEF TypeOK, tracer, entries, Statuses, Kinds, Stop, AllSignals
<1>4. Shape(p)'
  BY <1>1, <1>2 DEF TypeOK, Shape, StopShape, Stopped, Alive, Stop, NoStop, AllSignals
<1>5. \A q \in Pids \ {p} : Untouched(q)  BY <1>1 DEF TypeOK, Untouched
<1>6. mode'[p] = "stop" /\ stop'[p] = Stop("signal", "STOP") /\ call' = call
  BY <1>1 DEF TypeOK
<1>7. Between(p)' <=> Between(p)  BY <1>2, <1>6 DEF Between, Stop, NoStop
<1>. QED  BY <1>2, <1>3, <1>4, <1>5, <1>6, <1>7, GrownUpKeeps

\* A fork touches two processes: the child's pid was nobody's.
LEMMA ForkKeeps ==
    ASSUME IInv, Tracing, UNCHANGED tracer, NEW p \in Pids, NEW c \in Pids, Fork(p, c)
    PROVE  IInv'
<1>. USE DEF Fork
<1>1. TypeOK /\ Shape(p) /\ Known(p) /\ Shape(c) /\ Known(c)  BY DEF IInv
<1>2. ~Newborn(p) /\ stop[p] = NoStop /\ p # c  BY <1>1 DEF Newborn, Alive, Shape
<1>3. TypeOK'
  <2>1. stop' \in [Pids -> Statuses]
    <3>1. {Stop("event", call[p]), NoStop} \subseteq Statuses
      BY DEF Statuses, Kinds, Stop, NoStop, Forks
    <3>. QED  BY <1>1, <3>1 DEF TypeOK
  <2>2. pending' \in [Pids -> SUBSET AllSignals]  BY <1>1 DEF TypeOK, AllSignals
  <2>3. parent' \in [Pids -> Pids \union {"none"}]  BY <1>1 DEF TypeOK
  <2>. QED  BY <1>1, <2>1, <2>2, <2>3 DEF TypeOK, tracer, entries
<1>4. /\ mode'[p] = "stop" /\ stop'[p] = Stop("event", call[p]) /\ call'[p] = call[p]
      /\ at'[p] \in {"performed", "vfork"} /\ handles'[p] = handles[p] /\ frames'[p] = frames[p]
  BY <1>1, <1>2 DEF TypeOK
<1>5. /\ mode'[c] = "run" /\ stop'[c] = NoStop /\ call'[c] = "none" /\ at'[c] = "user"
      /\ pending'[c] = {"STOP"}
  BY <1>1, <1>2 DEF TypeOK
<1>6. /\ p \in process_list_ /\ ~Reaped(p) /\ ~Unfinished(p)
      /\ pc \in {"waitpid", "handle", "continue"} => Followed(p)
  BY <1>2, GrownUp
<1>7. Shape(p)'
  BY <1>1, <1>2, <1>4 DEF Shape, StopShape, Stopped, Alive, Stop, NoStop, Events, Forks
<1>8. Between(p)' <=> Between(p)  BY <1>2, <1>4 DEF Between, Stop, NoStop
<1>9. Known(p)'
  BY <1>2, <1>4, <1>6, <1>8
  DEF Known, Reaped, Followed, Inside, Unfinished, Alive, Stopped, Stop, NoStop, tracer, entries
<1>10. Shape(c)' /\ Newborn(c)'
  BY <1>5 DEF Shape, Newborn, Stopped, Alive
<1>11. Known(c)'
  BY <1>1, <1>5, <1>10
  DEF Known, Reaped, Followed, Inside, Between, Unfinished, Alive, Stopped, Stop, NoStop, tracer, entries
<1>12. ASSUME NEW q \in Pids \ {p, c}  PROVE Untouched(q)
  BY <1>1, <1>12 DEF TypeOK, Untouched
<1>13. ASSUME NEW q \in Pids  PROVE Shape(q)' /\ Known(q)'
  <2>1. CASE q \in {p, c}  BY <2>1, <1>7, <1>9, <1>10, <1>11
  <2>2. CASE q \notin {p, c}  BY <2>2, <1>12, UntouchedKeeps DEF IInv
  <2>. QED  BY <2>1, <2>2
<1>14. pc = "handle" => Handles'
  <2>1. SUFFICES ASSUME pc = "handle", Handles  PROVE Handles'  BY DEF IInv, Waits
  <2>2. CASE waited.pid \in {p, c}
    <3>1. waited.status.kind \in Deaths
      BY <2>1, <2>2 DEF Handles, Killed
    <3>. QED  BY <2>1, <3>1 DEF Handles, tracer, entries
  <2>3. CASE waited.pid \notin {p, c}
    <3>1. Untouched(waited.pid)  BY <2>3, <1>12 DEF IInv, TypeOK
    <3>. QED  BY <2>1, <3>1 DEF Handles, Killed, Untouched, tracer, entries
  <2>. QED  BY <2>2, <2>3
<1>15. pc = "continue" => Continues'
  <2>1. SUFFICES ASSUME pc = "continue", Continues  PROVE Continues'  BY DEF IInv, Waits
  <2>2. waited.pid # p  BY <2>1, <1>6 DEF Unfinished
  <2>3. CASE waited.pid = c
    BY <2>1, <2>3, <1>10 DEF Continues, Killed, tracer, entries
  <2>4. CASE waited.pid # c
    <3>1. Untouched(waited.pid)  BY <2>2, <2>4, <1>12 DEF IInv, TypeOK
    <3>. QED
      BY <2>1, <3>1 DEF Continues, Killed, Newborn, Stopped, Alive, Untouched, tracer, entries
  <2>. QED  BY <2>3, <2>4
<1>. QED  BY <1>3, <1>13, <1>14, <1>15 DEF IInv, Waits, Tracing, tracer

LEMMA SendKeeps ==
    ASSUME IInv, Tracing, UNCHANGED tracer, NEW p \in Pids, Send(p)
    PROVE  IInv'
<1>. USE DEF Send
<1>1. TypeOK /\ Shape(p) /\ Known(p)  BY DEF IInv
<1>2. TypeOK'
  BY <1>1, PtraceAssumption DEF TypeOK, tracer, entries, AllSignals
<1>3. ASSUME NEW q \in Pids, mode[q] = "run", pending[q] # {}  PROVE pending'[q] # {}
  BY <1>1, <1>3 DEF TypeOK
<1>4. ASSUME NEW q \in Pids  PROVE Newborn(q) => Newborn(q)'
  BY <1>3 DEF Newborn, Alive, Stopped
<1>5. ASSUME NEW q \in Pids  PROVE Shape(q)' /\ Known(q)'
  <2>1. Shape(q) /\ Known(q)  BY DEF IInv
  <2>2. Shape(q)'  BY <2>1 DEF Shape, StopShape, Stopped, Alive
  <2>3. Followed(q) => Followed(q)'
    BY DEF Followed, Inside, Between, Unfinished, Stopped, Alive, tracer, entries
  <2>. QED  BY <2>1, <2>2, <2>3, <1>4 DEF Known, Reaped, tracer, entries
<1>6. waited.pid \in Pids  BY <1>1 DEF TypeOK
<1>7. Waits'
  BY <1>4, <1>6
  DEF IInv, Waits, Handles, Continues, Killed, Alive, Stopped, tracer, entries
<1>. QED  BY <1>2, <1>5, <1>7 DEF IInv

LEMMA KillKeeps ==
    ASSUME IInv, Tracing, UNCHANGED tracer, NEW p \in Pids, Kill(p)
    PROVE  IInv'
<1>. USE DEF Kill, Die
<1>1. TypeOK /\ Shape(p) /\ Known(p)  BY DEF IInv
<1>2. TypeOK'
  BY <1>1, PtraceAssumption DEF TypeOK, tracer, entries, Statuses, Kinds, Stop
<1>3. Killed(p)'  BY DEF Killed, KILL
<1>4. Shape(p)' /\ Newborn(p)'
  BY <1>3 DEF Killed, KILL, Shape, Newborn, Stopped, Alive, Stop, Deaths
<1>5. Known(p)'
  BY <1>3, <1>4, <1>1 DEF Killed, KILL, Known, Reaped, Followed, Alive, Stopped, Stop, tracer, entries
<1>6. ASSUME NEW q \in Pids \ {p}  PROVE Untouched(q)
  BY <1>1, <1>6 DEF TypeOK, Untouched
<1>7. ASSUME NEW q \in Pids  PROVE Shape(q)' /\ Known(q)'
  <2>1. CASE q = p  BY <2>1, <1>4, <1>5
  <2>2. CASE q # p  BY <2>2, <1>6, UntouchedKeeps DEF IInv
  <2>. QED  BY <2>1, <2>2
<1>8. pc = "handle" => Handles'
  <2>1. SUFFICES ASSUME pc = "handle", Handles  PROVE Handles'  BY DEF IInv, Waits
  <2>2. CASE waited.pid = p
    BY <2>1, <2>2, <1>3 DEF Handles, tracer, entries
  <2>3. CASE waited.pid # p
    <3>1. Untouched(waited.pid)  BY <2>3, <1>6 DEF IInv, TypeOK
    <3>. QED  BY <2>1, <3>1 DEF Handles, Killed, Untouched, tracer, entries
  <2>. QED  BY <2>2, <2>3
<1>9. pc = "continue" => Continues'
  <2>1. SUFFICES ASSUME pc = "continue", Continues  PROVE Continues'  BY DEF IInv, Waits
  <2>2. CASE waited.pid = p
    BY <2>1, <2>2, <1>3 DEF Continues, tracer, entries
  <2>3. CASE waited.pid # p
    <3>1. Untouched(waited.pid)  BY <2>3, <1>6 DEF IInv, TypeOK
    <3>. QED
      BY <2>1, <3>1 DEF Continues, Killed, Newborn, Stopped, Alive, Untouched, tracer, entries
  <2>. QED  BY <2>2, <2>3
<1>. QED  BY <1>2, <1>7, <1>8, <1>9 DEF IInv, Waits, Tracing, tracer
-----------------------------------------------------------------------------
(* Steps of the tracer.                                                    *)

Busy == {"waitpid", "handle", "continue"}

\* A process that is not the one the tracer is handling.
LEMMA BystanderKeeps ==
    ASSUME NEW q \in Pids, Shape(q), Known(q), Untouched(q), pc \in Busy,
           waited.pid # q \/ pc = "waitpid", waited'.pid # q,
           q \in process_list_' <=> q \in process_list_,
           in_kernel_'[q] = in_kernel_[q],
           returning_from_signal_'[q] = returning_from_signal_[q],
           has_user_signal_handlers_'[q] = has_user_signal_handlers_[q]
    PROVE  Shape(q)' /\ Known(q)'
<1>1. Shape(q)'
  BY DEF Shape, StopShape, Stopped, Alive, Untouched
<1>2. ~Reaped(q) /\ ~Unfinished(q) /\ ~Reaped(q)' /\ ~Unfinished(q)'
  BY DEF Reaped, Unfinished
<1>3. Newborn(q) => Newborn(q)'
  BY DEF Newborn, Stopped, Alive, Untouched
<1>4. Followed(q) => Followed(q)'
  BY <1>2 DEF Followed, Inside, Between, Stopped, Alive, Untouched
<1>. QED  BY <1>1, <1>2, <1>3, <1>4 DEF Known, Busy

\* Once the tracer has left its loop only the processes without an entry matter.
LEMMA LeavingKeeps ==
    ASSUME IInv, UNCHANGED kernel, UNCHANGED process_list_, TypeOK',
           pc' \in Thrown \union {"returned"}
    PROVE  IInv'
<1>1. ASSUME NEW q \in Pids  PROVE Shape(q)' /\ Known(q)'
  <2>1. Shape(q)'  BY DEF IInv, Shape, StopShape, Stopped, Alive, kernel
  <2>2. Newborn(q) => Newborn(q)'  BY DEF Newborn, Stopped, Alive, kernel
  <2>. QED  BY <2>1, <2>2 DEF IInv, Known, Thrown
<1>. QED  BY <1>1 DEF IInv, Waits, Thrown

LEMMA WaitpidKeeps ==
    ASSUME IInv, NEW p \in Pids, Waitpid(p)
    PROVE  IInv'
<1>. USE DEF Waitpid, Waitable, Reap
<1>1. TypeOK /\ Shape(p) /\ Known(p)  BY DEF IInv
<1>2. TypeOK'  BY <1>1 DEF TypeOK, entries
<1>3. /\ mode[p] \in {"stop", "dead"}
      /\ mode'[p] = IF mode[p] = "dead" THEN "none" ELSE "held"
      /\ waited'.pid = p /\ waited'.status = stop[p]
  BY <1>1 DEF TypeOK
<1>4. ASSUME NEW q \in Pids \ {p}  PROVE Shape(q)' /\ Known(q)'
  BY <1>1, <1>3, BystanderKeeps DEF IInv, TypeOK, Untouched, entries, Busy
<1>5. CASE mode[p] = "dead"
  <2>1. Shape(p)' /\ Known(p)'
    BY <1>1, <1>3, <1>5 DEF Shape, Known, Reaped, Newborn, Stopped, Alive, entries
  <2>2. Handles'
    BY <1>1, <1>3, <1>5
    DEF Shape, Known, Reaped, Followed, Newborn, Handles, Deaths, KILL, Stop, entries
  <2>. QED  BY <1>2, <1>4, <2>1, <2>2 DEF IInv, Waits
<1>6. CASE mode[p] = "stop"
  <2>1. StopShape(p) /\ stop[p].kind \notin Deaths
    BY <1>1, <1>6 DEF Shape, StopShape, Stopped, Stop, Deaths
  <2>2. Shape(p)'
    BY <1>1, <1>3, <1>6 DEF Shape, StopShape, Stopped, Alive
  <2>3. Known(p)'
    BY <1>1, <1>3, <1>6, <2>1
    DEF Known, Reaped, Followed, Inside, Between, Unfinished, Newborn, Stopped, Alive, entries
  <2>4. Handles'
    <3>1. ~Reaped(p) /\ ~Unfinished(p)  BY DEF Reaped, Unfinished
    <3>2. p \notin process_list_ => stop[p].kind = "signal"
      BY <1>1, <1>6, <2>1 DEF Known, Newborn, StopShape, Alive, Stopped
    <3>3. p \in process_list_ => (in_kernel_[p] <=> Between(p))
      BY <1>1, <1>6, <3>1 DEF Known, Followed, Inside, Alive, Stopped
    <3>4. Between(p) <=> stop[p].kind \in {"exit", "event"}
      BY <1>1, <1>6, <2>1 DEF Between, Shape, StopShape, Alive, Stopped, Stop
    <3>. QED
      BY <1>3, <1>6, <2>1, <3>2, <3>3, <3>4 DEF Handles, StopShape, Deaths, Stop, entries
  <2>. QED  BY <1>2, <1>4, <2>2, <2>3, <2>4 DEF IInv, Waits
<1>. QED  BY <1>3, <1>5, <1>6

LEMMA NoTraceeLeftKeeps ==
    ASSUME IInv, NoTraceeLeft
    PROVE  IInv'
<1>1. TypeOK'  BY DEF NoTraceeLeft, IInv, TypeOK, kernel, entries
<1>. QED  BY <1>1, LeavingKeeps DEF NoTraceeLeft, entries

LEMMA HandleDeathKeeps ==
    ASSUME IInv, NEW kind \in Deaths, NEW cb, HandleDeath(kind, cb)
    PROVE  IInv'
<1>. USE DEF HandleDeath, Handling, Erase
<1>1. TypeOK'  BY DEF IInv, TypeOK, kernel, Callback, Called
<1>2. ASSUME NEW q \in Pids  PROVE Shape(q)' /\ Known(q)'
  <2>1. Shape(q) /\ Known(q)  BY DEF IInv
  <2>2. CASE q = waited.pid
    <3>1. Newborn(q)  BY <2>1, <2>2 DEF Known, Reaped
    <3>. QED
      BY <2>1, <2>2, <3>1 DEF Known, Newborn, Shape, StopShape, Stopped, Alive, kernel
  <2>3. CASE q # waited.pid
    BY <2>1, <2>3, BystanderKeeps DEF Busy, Untouched, kernel
  <2>. QED  BY <2>2, <2>3
<1>. QED  BY <1>1, <1>2 DEF IInv, Waits

\* What a handler shares with the others that end in a request.
LEMMA HandlingKeeps ==
    ASSUME IInv, pc = "handle", pc' = "continue", UNCHANGED <<mode, waited>>, TypeOK',
           \A q \in Pids \ {waited.pid} :
             /\ Untouched(q)
             /\ q \in process_list_' <=> q \in process_list_
             /\ in_kernel_'[q] = in_kernel_[q]
             /\ returning_from_signal_'[q] = returning_from_signal_[q]
             /\ has_user_signal_handlers_'[q] = has_user_signal_handlers_[q],
           Shape(waited.pid)', Followed(waited.pid)', waited.pid \in process_list_', Continues'
    PROVE  IInv'
<1>1. waited.pid \in Pids  BY DEF IInv, TypeOK
<1>2. Known(waited.pid)'  BY DEF Known, Reaped
<1>3. ASSUME NEW q \in Pids  PROVE Shape(q)' /\ Known(q)'
  BY <1>2, BystanderKeeps DEF IInv, Busy
<1>. QED  BY <1>3 DEF IInv, Waits

LEMMA HandleSyscalledKeeps ==
    ASSUME IInv, HandleSyscalled
    PROVE  IInv'
<1>. DEFINE p == waited.pid
            inside == ~in_kernel_[p]
<1>. USE DEF HandleSyscalled, Handling, ToggleKernelUser, SyscallCallback, CallbackReplaces
<1>1. TypeOK /\ p \in Pids /\ Shape(p) /\ Known(p) /\ Handles
  BY DEF IInv, TypeOK, Waits
<1>2. /\ mode[p] = "held" /\ stop[p] = waited.status
      /\ stop[p].kind \in {"enter", "exit"} /\ inside <=> stop[p].kind = "enter"
      /\ p \in process_list_
  BY <1>1 DEF Handles, Traceable, Stopped, Killed, Deaths
<1>3. Followed(p) /\ ~Unfinished(p)
  BY <1>1, <1>2 DEF Known, Reaped, Unfinished, Deaths
<1>4. /\ handles[p] <=> handles[p] \/ stop[p] = Stop("event", "exec")
      /\ has_user_signal_handlers_[p] => handles[p]
      /\ returning_from_signal_[p] <=> in_kernel_[p] /\ call[p] = "rt_sigreturn"
  BY <1>2, <1>3 DEF Followed, Alive, Stopped, Stop
<1>5. stop[p].kind = "enter" => call[p] # "none" /\ at[p] = "entered"
  BY <1>1, <1>2 DEF Shape, StopShape, Stopped, Alive, Stop
<1>6. PICK rax \in Calls \union {"none"}, sig \in Signals \union {"none"} :
        /\ CallbackReplaces(p, inside, rax)
        /\ CallbackAsksFor(sig)
        /\ returning_from_signal_' =
              [returning_from_signal_ EXCEPT ![p] = Returning(p, inside, rax)]
        /\ has_user_signal_handlers_' =
              [has_user_signal_handlers_ EXCEPT ![p] = @ \/ Handshake(p, inside, rax)]
        /\ inject' = IF Handshake(p, inside, rax) THEN "USR2" ELSE sig
  OBVIOUS
<1>7. TypeOK'
  <2>1. call' \in [Pids -> Calls \union {"none"}]  BY <1>1, <1>6 DEF TypeOK
  <2>2. sent' \in 0 .. MaxSignals
    BY <1>1, <1>6, PtraceAssumption DEF TypeOK, CallbackAsksFor
  <2>3. /\ in_kernel_' \in [Pids -> BOOLEAN]
        /\ returning_from_signal_' \in [Pids -> BOOLEAN]
        /\ has_user_signal_handlers_' \in [Pids -> BOOLEAN]
    BY <1>1, <1>6 DEF TypeOK, Returning, Handshake
  <2>4. inject' \in AllSignals \union {"none"}  BY <1>6 DEF AllSignals
  <2>5. event'.pid \in Pids \union {"none"}  BY <1>1 DEF Callback, Called
  <2>. QED  BY <1>1, <2>1, <2>2, <2>3, <2>4, <2>5 DEF TypeOK
<1>8. /\ in_kernel_'[p] = inside
      /\ returning_from_signal_'[p] = Returning(p, inside, rax)
      /\ has_user_signal_handlers_'[p] =
           (has_user_signal_handlers_[p] \/ Handshake(p, inside, rax))
      /\ call'[p] = IF inside THEN rax ELSE call[p]
  BY <1>1, <1>6 DEF TypeOK
<1>9. Handshake(p, inside, rax) => handles[p]
  BY <1>1, <1>2, <1>6 DEF Handshake, OrigRax, Shape, Alive, Stopped
<1>10. returning_from_signal_'[p] <=> in_kernel_'[p] /\ call'[p] = "rt_sigreturn"
  <2>1. CASE inside
    <3>1. ~returning_from_signal_[p]  BY <1>4, <2>1
    <3>. QED  BY <1>8, <2>1, <3>1 DEF Returning
  <2>2. CASE ~inside
    <3>1. ~in_kernel_'[p] /\ stop[p].kind = "exit"  BY <1>2, <1>8, <2>2
    <3>2. rax = OrigRax(p)  BY <1>6, <2>2
    <3>3. returning_from_signal_[p] => rax = "none"  BY <1>4, <3>1, <3>2 DEF OrigRax
    <3>4. ~Returning(p, inside, rax)
      BY <2>2, <3>3 DEF Returning
    <3>. QED  BY <1>8, <3>1, <3>4
  <2>. QED  BY <2>1, <2>2
<1>11. Shape(p)'
  <2>1. inside => call'[p] # "none" /\ (call'[p] = "kill0" => handles[p])
                  /\ (call'[p] = "rt_sigreturn" => call[p] = "rt_sigreturn")
    BY <1>1, <1>2, <1>5, <1>6, <1>8, PtraceAssumption DEF OrigRax, Shape, Alive, Stopped
  <2>. QED
    BY <1>1, <1>2, <1>5, <1>8, <2>1 DEF Shape, StopShape, Stopped, Alive
<1>12. Followed(p)'
  BY <1>2, <1>4, <1>8, <1>9, <1>10 DEF Followed, Inside, Unfinished, Alive, Stopped
<1>13. Continues'  BY <1>2 DEF Continues
<1>14. \A q \in Pids \ {p} :
         /\ Untouched(q)
         /\ q \in process_list_' <=> q \in process_list_
         /\ in_kernel_'[q] = in_kernel_[q]
         /\ returning_from_signal_'[q] = returning_from_signal_[q]
         /\ has_user_signal_handlers_'[q] = has_user_signal_handlers_[q]
  BY <1>1, <1>6 DEF TypeOK, Untouched
<1>. QED  BY <1>2, <1>7, <1>11, <1>12, <1>13, <1>14, HandlingKeeps

LEMMA HandleSyscalledOfTheDeadKeeps ==
    ASSUME IInv, HandleSyscalledOfTheDead
    PROVE  IInv'
<1>. DEFINE p == waited.pid
<1>. USE DEF HandleSyscalledOfTheDead, Handling, ToggleKernelUser, ThenContinue
<1>1. TypeOK /\ p \in Pids /\ Shape(p) /\ Handles  BY DEF IInv, TypeOK, Waits
<1>2. Killed(p) /\ p \in process_list_
  BY <1>1 DEF Handles, Traceable, Stopped, Deaths
<1>3. TypeOK'  BY <1>1 DEF TypeOK, kernel, Callback, Called
<1>4. Killed(p)'  BY <1>2 DEF Killed, kernel
<1>5. Shape(p)' /\ Followed(p)' /\ Continues'
  BY <1>2, <1>4 DEF Shape, Followed, Continues, Killed, KILL, Stop, Stopped, Alive, Deaths
<1>6. \A q \in Pids \ {p} :
         /\ Untouched(q)
         /\ q \in process_list_' <=> q \in process_list_
         /\ in_kernel_'[q] = in_kernel_[q]
         /\ returning_from_signal_'[q] = returning_from_signal_[q]
         /\ has_user_signal_handlers_'[q] = has_user_signal_handlers_[q]
  BY <1>1 DEF TypeOK, Untouched, kernel
<1>. QED  BY <1>2, <1>3, <1>5, <1>6, HandlingKeeps DEF kernel

LEMMA SyscalledThrowsKeeps ==
    ASSUME IInv, SyscalledThrows
    PROVE  IInv'
<1>. USE DEF SyscalledThrows, Handling, ToggleKernelUser, Throw
<1>1. pc' \in Thrown  BY DEF LogThrows, Thrown
<1>2. TypeOK'  BY <1>1 DEF IInv, TypeOK, kernel
<1>. QED  BY <1>1, <1>2, LeavingKeeps

LEMMA HandleSignaledKeeps ==
    ASSUME IInv, HandleSignaled
    PROVE  IInv'
<1>. DEFINE p == waited.pid
<1>. USE DEF HandleSignaled, Handling
<1>1. TypeOK /\ p \in Pids /\ Shape(p) /\ Known(p) /\ Handles  BY DEF IInv, TypeOK, Waits
<1>2. CASE Throw("system_error")
  <2>1. TypeOK'  BY <1>1, <1>2 DEF TypeOK, Throw, Thrown, kernel, entries
  <2>. QED  BY <1>2, <2>1, LeavingKeeps DEF Throw, Thrown, entries
<1>3. CASE Traceable /\ Callback("onSignal") /\ ThenContinue(waited.status.what)
  <2>. USE DEF ThenContinue
  <2>1. TypeOK'  BY <1>1, <1>3 DEF Handles, TypeOK, kernel, entries, Callback, Called
  <2>2. mode[p] = "held" /\ stop[p].kind = "signal" /\ p \in process_list_
    BY <1>1, <1>3 DEF Handles, Traceable, Stopped, Killed, Deaths
  <2>3. Followed(p) /\ ~Unfinished(p)
    BY <1>1, <2>2 DEF Known, Reaped, Unfinished, Deaths
  <2>4. Shape(p)' /\ Continues'
    BY <1>1, <1>3, <2>2 DEF Shape, StopShape, Stopped, Alive, Continues, kernel, entries
  <2>5. Followed(p)'
    BY <1>3, <2>2, <2>3 DEF Followed, Inside, Between, Unfinished, Stopped, Alive, Stop, kernel, entries
  <2>. QED
    BY <1>3, <2>1, <2>2, <2>4, <2>5, HandlingKeeps DEF Untouched, kernel, entries
<1>. QED  BY <1>2, <1>3

LEMMA HandleTrappedKeeps ==
    ASSUME IInv, HandleTrapped
    PROVE  IInv'
<1>. DEFINE p == waited.pid
<1>. USE DEF HandleTrapped, Handling, ThenContinue, HandlersAfterEvent
<1>1. TypeOK /\ p \in Pids /\ Shape(p) /\ Known(p) /\ Handles  BY DEF IInv, TypeOK, Waits
<1>2. TypeOK'
  <2>1. has_user_signal_handlers_' \in [Pids -> BOOLEAN]  BY <1>1 DEF TypeOK
  <2>. QED  BY <1>1, <2>1 DEF TypeOK, kernel, Callback, Called, TrapSignal, AllSignals
<1>3. (mode[p] = "held" /\ stop[p] = waited.status) \/ Killed(p)
  BY <1>1 DEF Handles, Deaths
<1>4. Followed(p) /\ ~Unfinished(p) /\ p \in process_list_
  BY <1>1 DEF Known, Reaped, Unfinished, Deaths
<1>5. Shape(p)'
  BY <1>1 DEF Shape, StopShape, Stopped, Alive, kernel
<1>6. Followed(p)'
  BY <1>1, <1>3, <1>4
  DEF TypeOK, Followed, Inside, Between, Unfinished, Killed, KILL, Stopped, Alive, Stop, kernel
<1>7. Continues'
  BY <1>3, <1>4 DEF Continues, Killed, kernel
<1>8. \A q \in Pids \ {p} :
         /\ Untouched(q)
         /\ q \in process_list_' <=> q \in process_list_
         /\ in_kernel_'[q] = in_kernel_[q]
         /\ returning_from_signal_'[q] = returning_from_signal_[q]
         /\ has_user_signal_handlers_'[q] = has_user_signal_handlers_[q]
  BY <1>1 DEF TypeOK, Untouched, kernel
<1>. QED  BY <1>2, <1>4, <1>5, <1>6, <1>7, <1>8, HandlingKeeps DEF kernel

LEMMA HandleNewBornKeeps ==
    ASSUME IInv, HandleNewBorn
    PROVE  IInv'
<1>. DEFINE p == waited.pid
<1>. USE DEF HandleNewBorn, ThenContinue, InKernelAtBirth
<1>1. TypeOK /\ p \in Pids /\ Shape(p) /\ Newborn(p) /\ Handles
  BY DEF IInv, TypeOK, Waits, Known
<1>2. TypeOK'  BY <1>1 DEF TypeOK, kernel, Callback, Called
<1>3. /\ p \in process_list_' /\ ~in_kernel_'[p]
      /\ ~returning_from_signal_'[p] /\ ~has_user_signal_handlers_'[p]
  BY <1>1 DEF TypeOK
<1>4. Shape(p)' /\ Newborn(p)'
  BY <1>1 DEF Shape, StopShape, Newborn, Stopped, Alive, kernel
<1>5. Followed(p)'
  <2>1. Unfinished(p)'  BY DEF Unfinished
  <2>. QED
    BY <1>3, <1>4, <2>1
    DEF Followed, Inside, Between, Shape, StopShape, Newborn, Unfinished, Stopped, Alive, KILL, Stop, NoStop
<1>6. Continues'
  BY <1>1, <1>3, <1>4 DEF Handles, Continues, Killed, KILL, Stop, Deaths, kernel
<1>7. \A q \in Pids \ {p} :
         /\ Untouched(q)
         /\ q \in process_list_' <=> q \in process_list_
         /\ in_kernel_'[q] = in_kernel_[q]
         /\ returning_from_signal_'[q] = returning_from_signal_[q]
         /\ has_user_signal_handlers_'[q] = has_user_signal_handlers_[q]
  BY <1>1 DEF TypeOK, Untouched, kernel
<1>. QED  BY <1>2, <1>3, <1>4, <1>5, <1>6, <1>7, HandlingKeeps DEF kernel
\* The five ways PTRACE_SYSCALL lets a stopped process go on.
LEMMA ResumeKeeps ==
    ASSUME IInv, Resume
    PROVE  IInv'
<1>. DEFINE p == waited.pid
            kind == stop[p].kind
<1>1. /\ TypeOK /\ p \in Pids /\ Shape(p) /\ Known(p) /\ Continues
      /\ pc = "continue" /\ pc' = "waitpid" /\ inject' = "none" /\ Stopped(p)
      /\ UNCHANGED <<entries, waited, event>> /\ Continue(p, inject)
  BY DEF IInv, TypeOK, Waits, Resume, Traceable
<1>2. p \in process_list_ /\ Unfinished(p) /\ Followed(p) /\ StopShape(p)
  BY <1>1 DEF Continues, Known, Unfinished, Reaped, Shape
<1>3. SUFFICES TypeOK' /\ Shape(p)' /\ Followed(p)' /\ (\A q \in Pids \ {p} : Untouched(q))
  <2>1. ASSUME NEW q \in Pids, Shape(p)' /\ Followed(p)',
               \A r \in Pids \ {p} : Untouched(r)
        PROVE  Shape(q)' /\ Known(q)'
    <3>1. CASE q = p  BY <2>1, <3>1, <1>1, <1>2 DEF Known, Reaped, entries
    <3>2. CASE q # p
      <4>1. Shape(q) /\ Known(q) /\ Untouched(q)  BY <2>1, <3>2 DEF IInv
      <4>2. Shape(q)'  BY <4>1 DEF Shape, StopShape, Stopped, Alive, Untouched
      <4>3. /\ Newborn(q) => Newborn(q)'
            /\ ~Unfinished(q) /\ ~Unfinished(q)' /\ ~Reaped(q) /\ ~Reaped(q)'
        BY <1>1, <4>1, <3>2 DEF Newborn, Unfinished, Reaped, Stopped, Alive, Untouched
      <4>4. Followed(q) => Followed(q)'
        BY <1>1, <4>1, <4>3 DEF Followed, Inside, Between, Stopped, Alive, Untouched, entries
      <4>. QED  BY <1>1, <4>1, <4>2, <4>3, <4>4 DEF Known, entries
    <3>. QED  BY <3>1, <3>2
  <2>. QED  BY <1>1, <2>1 DEF IInv, Waits
<1>4. /\ in_kernel_' = in_kernel_ /\ returning_from_signal_' = returning_from_signal_
      /\ has_user_signal_handlers_' = has_user_signal_handlers_ /\ ~Unfinished(p)'
  BY <1>1 DEF entries, Unfinished
<1>5. /\ in_kernel_[p] <=> kind = "enter" \/ (kind = "event" /\ call[p] # "none")
      /\ returning_from_signal_[p] <=> in_kernel_[p] /\ call[p] = "rt_sigreturn"
      /\ has_user_signal_handlers_[p] => handles[p]
      /\ kind \in {"enter", "event"} => call[p] # "none"
      /\ call[p] = "rt_sigreturn" /\ kind # "exit" => frames[p] > 0
      /\ call[p] = "kill0" => handles[p]
      /\ call[p] = "none" <=> at[p] \in {"user", "stopping"}
  BY <1>1, <1>2 DEF Followed, Inside, Between, Shape, StopShape, Alive, Stopped, Stop
\* Two of the conclusions for all the cases in which p runs on.
<1>6. ASSUME mode' = [mode EXCEPT ![p] = "run"], stop' = [stop EXCEPT ![p] = NoStop],
             handles' = handles, frames' \in [Pids -> Nat], frames'[p] >= frames[p],
             (call'[p] = call[p] /\ kind # "exit") \/ (call'[p] = "none" /\ kind = "exit"),
             call'[p] = "none" <=> at'[p] \in {"user", "stopping"}
      PROVE  Shape(p)' /\ Followed(p)'
  <2>1. mode'[p] = "run" /\ stop'[p] = NoStop  BY <1>1, <1>6 DEF TypeOK
  <2>2. Shape(p)'
    BY <1>1, <1>5, <1>6, <2>1 DEF TypeOK, Shape, Stopped, Alive, NoStop, Stop
  <2>3. Between(p)' <=> in_kernel_[p]
    BY <1>1, <1>2, <1>5, <1>6, <2>1 DEF Between, StopShape, NoStop, Stop
  <2>4. Between(p)' /\ call'[p] = "rt_sigreturn" <=> in_kernel_[p] /\ call[p] = "rt_sigreturn"
    BY <1>5, <1>6, <2>3 DEF Between
  <2>5. Followed(p)'
    BY <1>1, <1>4, <1>5, <1>6, <2>1, <2>3, <2>4 DEF Followed, Inside, Stopped, Alive
  <2>. QED  BY <2>2, <2>5
<1>. USE DEF Continue
<1>7. NoStop \in Statuses  BY DEF NoStop, Stop, Statuses, Kinds
<1>8. CASE /\ kind \in {"enter", "exit"}
           /\ mode' = [mode EXCEPT ![p] = "run"]
           /\ stop' = [stop EXCEPT ![p] = NoStop]
           /\ pending' = [pending EXCEPT ![p] = @ \union ({inject} \ {"none"})]
           /\ call' = [call EXCEPT ![p] = IF kind = "exit" THEN "none" ELSE @]
           /\ at' = [at EXCEPT ![p] = IF kind = "exit" THEN "user" ELSE @]
           /\ UNCHANGED <<handles, frames, parent, calls, sent>>
  <2>1. TypeOK'
    <3>1. pending' \in [Pids -> SUBSET AllSignals]  BY <1>1, <1>8 DEF TypeOK
    <3>. QED  BY <1>1, <1>7, <1>8, <3>1 DEF TypeOK, entries
  <2>2. \A q \in Pids \ {p} : Untouched(q)  BY <1>1, <1>8 DEF TypeOK, Untouched
  <2>3. Shape(p)' /\ Followed(p)'
    <3>1. /\ call'[p] = IF kind = "exit" THEN "none" ELSE call[p]
          /\ at'[p] = IF kind = "exit" THEN "user" ELSE at[p]
          /\ frames'[p] >= frames[p] /\ frames' \in [Pids -> Nat]
      BY <1>1, <1>8 DEF TypeOK
    <3>. QED  BY <1>5, <1>6, <1>8, <3>1
  <2>. QED  BY <2>1, <2>2, <2>3
<1>9. CASE /\ \/ kind = "event"
              \/ kind = "signal" /\ inject = "none"
              \/ at[p] = "stopping"
           /\ mode' = [mode EXCEPT ![p] = "run"]
           /\ stop' = [stop EXCEPT ![p] = NoStop]
           /\ at' = [at EXCEPT ![p] = IF @ = "stopping" THEN "user" ELSE @]
           /\ UNCHANGED <<call, pending, handles, frames, parent, calls, sent>>
  <2>1. TypeOK'  BY <1>1, <1>7, <1>9 DEF TypeOK, entries
  <2>2. \A q \in Pids \ {p} : Untouched(q)  BY <1>1, <1>9 DEF TypeOK, Untouched
  <2>3. Shape(p)' /\ Followed(p)'
    <3>1. /\ call'[p] = call[p] /\ kind # "exit"
          /\ at'[p] = IF at[p] = "stopping" THEN "user" ELSE at[p]
          /\ frames'[p] >= frames[p] /\ frames' \in [Pids -> Nat]
      BY <1>1, <1>2, <1>9 DEF TypeOK, StopShape, Stop
    <3>. QED  BY <1>5, <1>6, <1>9, <3>1
  <2>. QED  BY <2>1, <2>2, <2>3
<1>10. CASE /\ kind = "signal" /\ inject = "STOP" /\ at[p] # "stopping"
            /\ mode' = [mode EXCEPT ![p] = "run"]
            /\ stop' = [stop EXCEPT ![p] = NoStop]
            /\ at' = [at EXCEPT ![p] = "stopping"]
            /\ UNCHANGED <<call, pending, handles, frames, parent, calls, sent>>
  <2>1. TypeOK'  BY <1>1, <1>7, <1>10 DEF TypeOK, entries
  <2>2. \A q \in Pids \ {p} : Untouched(q)  BY <1>1, <1>10 DEF TypeOK, Untouched
  <2>3. Shape(p)' /\ Followed(p)'
    <3>1. /\ call'[p] = call[p] /\ call[p] = "none" /\ at'[p] = "stopping"
          /\ frames'[p] >= frames[p] /\ frames' \in [Pids -> Nat]
      BY <1>1, <1>2, <1>5, <1>10 DEF TypeOK, StopShape, Stop
    <3>. QED  BY <1>6, <1>10, <3>1
  <2>. QED  BY <2>1, <2>2, <2>3
<1>11. CASE /\ kind = "signal" /\ inject \in Handled /\ handles[p] /\ at[p] # "stopping"
            /\ mode' = [mode EXCEPT ![p] = "run"]
            /\ stop' = [stop EXCEPT ![p] = NoStop]
            /\ frames' = [frames EXCEPT ![p] = @ + 1]
            /\ UNCHANGED <<call, at, pending, handles, parent, calls, sent>>
  <2>1. frames'[p] >= frames[p] /\ frames' \in [Pids -> Nat]
    BY <1>1, <1>11 DEF TypeOK
  <2>2. TypeOK'  BY <1>1, <1>7, <1>11, <2>1 DEF TypeOK, entries
  <2>3. \A q \in Pids \ {p} : Untouched(q)  BY <1>1, <1>11 DEF TypeOK, Untouched
  <2>4. Shape(p)' /\ Followed(p)'  BY <1>5, <1>6, <1>11, <2>1
  <2>. QED  BY <2>2, <2>3, <2>4
<1>12. CASE /\ kind = "signal" /\ inject \notin {"none", "STOP"} /\ at[p] # "stopping"
            /\ Die({p}, Stop("terminated", inject))
            /\ UNCHANGED <<call, pending, handles, frames, calls, sent>>
  <2>. USE DEF Die
  <2>1. TypeOK'
    <3>1. Stop("terminated", inject) \in Statuses
      BY <1>1 DEF TypeOK, Statuses, Kinds, Stop
    <3>2. stop' \in [Pids -> Statuses]  BY <1>1, <1>12, <3>1 DEF TypeOK
    <3>3. /\ mode' \in [Pids -> {"none", "run", "stop", "held", "dead"}]
          /\ parent' \in [Pids -> Pids \union {"none"}]
          /\ at' \in [Pids -> {"user", "entered", "performed", "vfork", "child_gone", "stopping"}]
      BY <1>1, <1>12 DEF TypeOK
    <3>. QED  BY <1>1, <1>12, <3>2, <3>3 DEF TypeOK, entries
  <2>2. \A q \in Pids \ {p} : Untouched(q)  BY <1>1, <1>12 DEF TypeOK, Untouched
  <2>3. mode'[p] = "dead" /\ stop'[p].kind = "terminated"  BY <1>1, <1>12 DEF Stop
  <2>4. Shape(p)' /\ Followed(p)'
    BY <1>1, <2>3 DEF Shape, Followed, Stopped, Alive, Deaths
  <2>. QED  BY <2>1, <2>2, <2>4
<1>. QED  BY <1>1, <1>8, <1>9, <1>10, <1>11, <1>12

LEMMA ResumeThrowsKeeps ==
    ASSUME IInv, ResumeThrows
    PROVE  IInv'
<1>. USE DEF ResumeThrows, Throw
<1>1. pc' \in Thrown  BY DEF Thrown
<1>2. TypeOK'  BY <1>1 DEF IInv, TypeOK, kernel, entries
<1>. QED  BY <1>1, <1>2, LeavingKeeps DEF entries

LEMMA DestroyKeeps ==
    ASSUME IInv, Destroy
    PROVE  IInv'
<1>. USE DEF Destroy, Die, Doomed
<1>1. TypeOK  BY DEF IInv
<1>2. TypeOK'
  BY <1>1 DEF TypeOK, Statuses, Kinds, Stop, entries
<1>3. ASSUME NEW q \in Pids \ Doomed  PROVE Untouched(q)
  BY <1>1, <1>3 DEF TypeOK, Untouched
<1>4. ASSUME NEW q \in Doomed  PROVE q \in Pids /\ mode'[q] = "dead" /\ stop'[q] = KILL
  BY <1>1, <1>4 DEF TypeOK, KILL
<1>5. ASSUME NEW q \in Pids  PROVE Shape(q)' /\ Known(q)'
  <2>1. Shape(q) /\ Known(q)  BY DEF IInv
  <2>2. CASE q \in Doomed
    BY <1>4, <2>2 DEF Shape, Known, KILL, Stop, Stopped, Alive, Deaths, entries
  <2>3. CASE q \notin Doomed
    BY <1>3, <2>1, <2>3
    DEF Shape, StopShape, Known, Newborn, Untouched, Stopped, Alive, entries
  <2>. QED  BY <2>2, <2>3
<1>6. \A q \in process_list_' : ~Alive(q)'
  <2>1. SUFFICES ASSUME NEW q \in process_list_  PROVE ~Alive(q)'  BY DEF entries
  <2>2. q \in Pids  BY <1>1 DEF TypeOK
  <2>3. CASE q \in Doomed  BY <1>4, <2>3 DEF Alive, Stopped
  <2>4. CASE q \notin Doomed  BY <1>3, <2>2, <2>4 DEF Untouched, Alive, Stopped
  <2>. QED  BY <2>3, <2>4
<1>. QED  BY <1>2, <1>5, <1>6 DEF IInv, Waits

-----------------------------------------------------------------------------
(* The invariant holds.                                                    *)

LEMMA InitHolds ==
    ASSUME Init
    PROVE  IInv
<1>. USE DEF Init, KernelInit
<1>1. TypeOK
  BY PtraceAssumption DEF TypeOK, Statuses, Kinds, Stop, NoStop, AllSignals, Called
<1>2. ASSUME NEW p \in Pids  PROVE Shape(p) /\ Known(p)
  BY DEF Shape, Known, Newborn, Stopped, Alive
<1>. QED  BY <1>1, <1>2 DEF IInv, Waits

LEMMA StutterKeeps ==
    ASSUME IInv, UNCHANGED vars
    PROVE  IInv'
<1>. USE DEF vars, kernel, entries
<1>1. TypeOK'  BY DEF IInv, TypeOK
<1>2. ASSUME NEW p \in Pids
      PROVE  Shape(p)' /\ Known(p)' /\ (Newborn(p) => Newborn(p)')
  BY DEF IInv, Shape, StopShape, Known, Newborn, Reaped, Followed, Inside, Between, Unfinished,
         Stopped, Alive
<1>3. Waits'
  BY <1>2 DEF IInv, TypeOK, Waits, Handles, Continues, Killed, Alive, Stopped
<1>. QED  BY <1>1, <1>2, <1>3 DEF IInv

LEMMA TraceeStepKeeps ==
    ASSUME IInv, NEW p \in Pids, Environment(TraceeStep(p))
    PROVE  IInv'
BY EnterSyscallKeeps, RunSyscallKeeps, ForkKeeps, ExecKeeps, VForkDoneKeeps, LeaveSyscallKeeps,
   ExitKeeps, TakeSignalKeeps, GroupStopKeeps DEF Environment, TraceeStep, tracer

LEMMA TracerKeeps ==
    ASSUME IInv, Tracer
    PROVE  IInv'
<1>1. ASSUME HandleExited \/ HandleTerminated  PROVE IInv'
  BY <1>1, HandleDeathKeeps DEF HandleExited, HandleTerminated, Deaths
<1>. QED
  BY <1>1, WaitpidKeeps, NoTraceeLeftKeeps, HandleSyscalledKeeps, HandleSyscalledOfTheDeadKeeps,
     SyscalledThrowsKeeps, HandleSignaledKeeps, HandleTrappedKeeps, HandleNewBornKeeps,
     ResumeKeeps, ResumeThrowsKeeps, DestroyKeeps DEF Tracer

LEMMA StepKeeps ==
    ASSUME IInv, [Next]_vars
    PROVE  IInv'
<1>1. ASSUME NEW p \in Pids, Environment(Send(p))  PROVE IInv'
  BY <1>1, SendKeeps DEF Environment, tracer
<1>2. ASSUME NEW p \in Pids, Environment(Kill(p))  PROVE IInv'
  BY <1>2, KillKeeps DEF Environment, tracer
<1>. QED  BY <1>1, <1>2, TracerKeeps, TraceeStepKeeps, StutterKeeps DEF Next

LEMMA Invariance == Spec => []IInv
<1>1. Init => IInv  BY InitHolds
<1>2. IInv /\ [Next]_vars => IInv'  BY StepKeeps
<1>. QED  BY <1>1, <1>2, PTL DEF Spec
-----------------------------------------------------------------------------
(* What follows from it.                                                   *)

LEMMA Loop ==
    ASSUME IInv, pc = "waitpid", NEW p \in process_list_
    PROVE  p \in Pids /\ Followed(p) /\ ~Unfinished(p)
BY DEF IInv, TypeOK, Known, Reaped, Unfinished

\* The fields of the tracer and the fields of the processes keep to their types,
\* the tracees' frames among them, which only a handler's return takes away.
THEOREM TypeCorrect == Spec => []TypeOK
<1>1. IInv => TypeOK  BY DEF IInv
<1>. QED  BY <1>1, Invariance, PTL

\* Toggling in_kernel_ at every system call stop never gets out of step with the
\* process, whoever is forked, executed, signalled or killed in between.
THEOREM InKernelIsRight == Spec => []InsideKernelAgrees
<1>1. IInv => InsideKernelAgrees
  BY Loop DEF InsideKernelAgrees, Followed, Inside
<1>. QED  BY <1>1, Invariance, PTL

\* The tracer takes a process to return from a signal exactly while it is inside
\* rt_sigreturn, whatever call onSyscallEnter puts in place of another.
THEOREM ReturningIsRight == Spec => []ReturningAgrees
<1>1. IInv => ReturningAgrees
  BY Loop DEF ReturningAgrees, Followed, Inside
<1>. QED  BY <1>1, Invariance, PTL

\* No entry outlives its process, and no process runs without one, pids that are
\* used again included.
THEOREM EntriesAreRight == Spec => []ProcessListTracksTracees
<1>1. ASSUME IInv, pc = "waitpid", NEW p \in Pids \ process_list_, Alive(p)
      PROVE  at[p] = "user"
  BY <1>1 DEF IInv, Known, Newborn
<1>2. IInv => ProcessListTracksTracees
  BY <1>1, Loop DEF ProcessListTracksTracees, Followed
<1>. QED  BY <1>2, Invariance, PTL

\* A process said to have signal handlers has them, or has an execve to report.
THEOREM HandlersAreRight == Spec => []HandlersAreThere
<1>1. IInv => HandlersAreThere
  BY Loop DEF HandlersAreThere, Followed
<1>. QED  BY <1>1, Invariance, PTL

\* The destructor leaves alive only what it was never told of.
THEOREM DestructorIsThorough == Spec => []DestructorKillsTheRest
<1>1. ASSUME IInv, pc = "destroyed", NEW p \in Pids, Alive(p)
      PROVE  at[p] = "user" /\ p \notin process_list_
  BY <1>1 DEF IInv, Waits, Known, Newborn
<1>2. IInv => DestructorKillsTheRest
  BY <1>1 DEF DestructorKillsTheRest
<1>. QED  BY <1>2, Invariance, PTL

-----------------------------------------------------------------------------
(* The tracer is EventCallbacks to the class derived from it.              *)

Lost == Thrown \union {"destroyed"}

\* A callback is a step of the process it is made for.
LEMMA CallbackIsStep ==
    ASSUME IInv, NEW cb, NEW to \in {"unknown", "user", "kernel"},
           pc \notin Lost, pc' \notin Lost, Callback(cb),
           \A q \in Pids \ {waited.pid} :
             /\ q \in process_list_' <=> q \in process_list_
             /\ in_kernel_'[q] = in_kernel_[q],
           waited.pid \in process_list_' <=> to # "unknown",
           to # "unknown" => (in_kernel_'[waited.pid] <=> to = "kernel")
    PROVE  /\ waited.pid \in Pids
           /\ phase' = [phase EXCEPT ![waited.pid] = to]
           /\ event' = callbacks!Called(cb, waited.pid)
           /\ phase[waited.pid] =
                IF waited.pid \notin process_list_ THEN "unknown"
                ELSE IF in_kernel_[waited.pid] THEN "kernel" ELSE "user"
<1>1. waited.pid \in Pids  BY DEF IInv, TypeOK
<1>2. ASSUME NEW q \in Pids
      PROVE  phase'[q] = IF q = waited.pid THEN to ELSE phase[q]
  BY <1>2 DEF phase, Lost
<1>3. phase' = [phase EXCEPT ![waited.pid] = to]
  BY <1>2, ZenonT(60) DEF phase
<1>. QED  BY <1>1, <1>3 DEF phase, Lost, Callback, Called, callbacks!Called

LEMMA PhaseStays ==
    ASSUME pc' \in Lost <=> pc \in Lost, UNCHANGED <<process_list_, in_kernel_>>
    PROVE  UNCHANGED phase
BY DEF phase, Lost

LEMMA GivesUp ==
    ASSUME pc' \in Lost, UNCHANGED event
    PROVE  callbacks!GiveUp
BY DEF phase, Lost, callbacks!GiveUp

LEMMA HandlerIsStep ==
    ASSUME IInv, Tracer, pc = "handle"
    PROVE  callbacks!Next
<1>. DEFINE p == waited.pid
<1>. USE DEF Handling, callbacks!Next, callbacks!Step
<1>1. TypeOK /\ p \in Pids /\ Handles /\ pc \notin Lost
  BY DEF IInv, TypeOK, Waits, Lost, Thrown
<1>2. CASE HandleExited
  <2>1. in_kernel_[p] /\ p \in process_list_
    BY <1>1, <1>2 DEF HandleExited, HandleDeath, Handles
  <2>. QED
    BY <1>1, <1>2, <2>1, CallbackIsStep DEF HandleExited, HandleDeath, Erase, Lost, Thrown
<1>3. CASE HandleTerminated
  BY <1>1, <1>3, CallbackIsStep DEF HandleTerminated, HandleDeath, Erase, Lost, Thrown
<1>4. CASE HandleSyscalled \/ HandleSyscalledOfTheDead
  <2>1. /\ in_kernel_' = [in_kernel_ EXCEPT ![p] = ~in_kernel_[p]]
        /\ pc' = "continue" /\ UNCHANGED process_list_ /\ p \in process_list_
        /\ Callback(IF in_kernel_[p] THEN "onSyscallExit" ELSE "onSyscallEnter")
    BY <1>4 DEF HandleSyscalled, HandleSyscalledOfTheDead, ToggleKernelUser, SyscallCallback,
                ThenContinue, Callback
  <2>2. CASE in_kernel_[p]
    BY <1>1, <2>1, <2>2, CallbackIsStep DEF TypeOK, Lost, Thrown
  <2>3. CASE ~in_kernel_[p]
    BY <1>1, <2>1, <2>3, CallbackIsStep DEF TypeOK, Lost, Thrown
  <2>. QED  BY <2>2, <2>3
<1>5. CASE SyscalledThrows
  BY <1>5, GivesUp DEF SyscalledThrows, Throw, LogThrows, Lost, Thrown
<1>6. CASE HandleSignaled
  <2>1. CASE Throw("system_error")
    BY <2>1, GivesUp DEF Throw, Lost, Thrown
  <2>2. CASE Callback("onSignal") /\ ThenContinue(waited.status.what)
    <3>1. ~in_kernel_[p] /\ p \in process_list_  BY <1>1, <1>6 DEF HandleSignaled, Handles
    <3>. QED
      BY <1>1, <1>6, <2>2, <3>1, CallbackIsStep
      DEF HandleSignaled, ThenContinue, Lost, Thrown, entries
  <2>. QED  BY <1>6, <2>1, <2>2 DEF HandleSignaled
<1>7. CASE HandleTrapped
  <2>1. /\ UNCHANGED <<process_list_, in_kernel_>> /\ pc' = "continue" /\ p \in process_list_
        /\ Callback(EventCallback(waited.status.what))
    BY <1>7 DEF HandleTrapped, ThenContinue
  <2>2. CASE waited.status.kind = "event"
    <3>1. in_kernel_[p]  BY <1>1, <2>1, <2>2 DEF Handles
    <3>2. EventCallback(waited.status.what) \in
            {"onFork", "onVFork", "onVForkDone", "onClone", "onExec"}
      BY <1>1, <2>2 DEF Handles, EventCallback, Events, Forks
    <3>. QED  BY <1>1, <2>1, <3>1, <3>2, CallbackIsStep DEF Lost, Thrown
  <2>3. CASE waited.status.kind = "signal"
    <3>1. ~in_kernel_[p]  BY <1>1, <2>1, <2>3 DEF Handles
    <3>2. EventCallback(waited.status.what) = "onSignal"
      BY <1>7, <2>3 DEF HandleTrapped, EventCallback
    <3>. QED  BY <1>1, <2>1, <3>1, <3>2, CallbackIsStep DEF Lost, Thrown
  <2>. QED  BY <1>7, <2>2, <2>3 DEF HandleTrapped
<1>8. CASE HandleNewBorn
  BY <1>1, <1>8, CallbackIsStep
  DEF HandleNewBorn, ThenContinue, InKernelAtBirth, TypeOK, Lost, Thrown
<1>. QED
  BY <1>2, <1>3, <1>4, <1>5, <1>6, <1>7, <1>8
  DEF Tracer, Waitpid, NoTraceeLeft, Resume, ResumeThrows, Destroy, Thrown

\* Every step of the tracer is a step of EventCallbacks or none of its business:
\* calls are entered and left in turn, events come inside them, signals outside.
THEOREM TracerIsEventCallbacks == Spec => CallbackOrder
<1>1. Init => callbacks!Init
  BY DEF Init, phase, Thrown, Called, callbacks!Init, callbacks!Called
<1>2. ASSUME IInv, [Next]_vars  PROVE [callbacks!Next]_<<phase, event>>
  <2>1. CASE Tracer
    <3>1. CASE pc = "handle"  BY <1>2, <2>1, <3>1, HandlerIsStep
    <3>2. CASE (\E p \in Pids : Waitpid(p)) \/ NoTraceeLeft \/ Resume
      BY <3>2, PhaseStays DEF Waitpid, NoTraceeLeft, Resume, entries, Lost, Thrown
    <3>3. CASE ResumeThrows
      BY <3>3, GivesUp DEF ResumeThrows, Throw, Lost, Thrown, callbacks!Next
    <3>4. CASE Destroy
      BY <3>4, GivesUp DEF Destroy, Lost, callbacks!Next
    <3>. QED
      BY <2>1, <3>1, <3>2, <3>3, <3>4
      DEF Tracer, HandleExited, HandleTerminated, HandleDeath, HandleSyscalled,
          HandleSyscalledOfTheDead, SyscalledThrows, HandleSignaled, HandleTrapped,
          HandleNewBorn, Handling
  <2>2. CASE UNCHANGED <<entries, pc, event>>
    BY <2>2, PhaseStays DEF entries
  <2>. QED  BY <1>2, <2>1, <2>2 DEF Next, Environment, vars
<1>. QED  BY <1>1, <1>2, Invariance, PTL DEF Spec, CallbackOrder, callbacks!Spec
-----------------------------------------------------------------------------
(* What makes the tracer give up.                                          *)

\* The process whose call had no name is still in that call, or has died in it.
Nameless(p) == call[p] \in Unnamed /\ mode[p] \in {"held", "dead"}

Excused ==
    /\ pc = "system_error" => waited.status = KILL \/ Killed(waited.pid)
    /\ pc = "out_of_range" => Nameless(waited.pid)

\* The name of orig_rax is there to be logged, unless the call has none.
LEMMA NameIsKnown ==
    ASSUME IInv, Handling({"enter", "exit"}), LogThrows # "nothing"
    PROVE  \/ LogThrows = "system_error" /\ Killed(waited.pid)
           \/ LogThrows = "out_of_range" /\ Nameless(waited.pid)
<1>. DEFINE p == waited.pid
<1>1. /\ TypeOK /\ p \in Pids /\ p \in process_list_ /\ Shape(p) /\ Known(p) /\ Handles
      /\ pc = "handle" /\ waited.status.kind \in {"enter", "exit"} /\ ~returning_from_signal_[p]
  BY DEF IInv, TypeOK, Waits, Handling, LogThrows
<1>2. CASE Traceable
  <2>1. mode[p] = "held" /\ stop[p].kind \in {"enter", "exit"}
        /\ (stop[p].kind = "exit" => in_kernel_[p])
    BY <1>1, <1>2 DEF Handles, Traceable, Stopped, Killed, Deaths
  <2>2. Followed(p)  BY <1>1 DEF Known, Reaped, Deaths
  <2>3. call[p] # "none"
    BY <1>1, <2>1 DEF Shape, StopShape, Stopped, Alive, Stop
  <2>4. OrigRax(p) # "none"
    BY <1>1, <2>1, <2>2, <2>3 DEF Followed, OrigRax, Stopped, Alive
  <2>5. LogThrows = "out_of_range" /\ OrigRax(p) \in Unnamed
    BY <1>1, <1>2, <2>4 DEF LogThrows
  <2>6. call[p] \in Unnamed
    BY <2>4, <2>5 DEF OrigRax
  <2>. QED  BY <2>1, <2>5, <2>6 DEF Nameless
<1>3. CASE ~Traceable
  BY <1>1, <1>3 DEF LogThrows, Handles, Traceable, Stopped, Deaths
<1>. QED  BY <1>2, <1>3

\* An exception leaves startTracing only because the tracee it was busy with has
\* been killed with SIGKILL or has made a call that has no name; none comes from
\* the orig_rax of -1, and none from what any other tracee does.
THEOREM ThrowsAreExcused == Spec => []ThrowsHaveTheirReason
<1>1. Init => Excused  BY DEF Init, Excused, Thrown
<1>2. ASSUME IInv, Excused, [Next]_vars  PROVE Excused'
  <2>1. CASE SyscalledThrows
    BY <1>2, <2>1, NameIsKnown DEF SyscalledThrows, Throw, Excused, Nameless, Killed, kernel
  <2>2. CASE HandleSignaled
    <3>1. CASE ~Traceable /\ Throw("system_error")
      <4>1. Killed(waited.pid)
        BY <1>2, <2>2, <3>1
        DEF IInv, Waits, HandleSignaled, Handling, Handles, Traceable, Stopped, Deaths
      <4>. QED  BY <3>1, <4>1 DEF Throw, Excused, Killed, kernel
    <3>2. CASE ThenContinue(waited.status.what)
      BY <3>2 DEF ThenContinue, Excused, Thrown
    <3>. QED  BY <2>2, <3>1, <3>2 DEF HandleSignaled
  <2>3. CASE ResumeThrows
    <3>1. waited.status = KILL \/ Killed(waited.pid)
      BY <1>2, <2>3 DEF IInv, Waits, Continues, ResumeThrows, Traceable, Stopped
    <3>. QED  BY <2>3, <3>1 DEF ResumeThrows, Throw, Excused, Killed, kernel
  <2>4. CASE Tracer /\ ~SyscalledThrows /\ ~HandleSignaled /\ ~ResumeThrows
    BY <2>4
    DEF Tracer, Waitpid, NoTraceeLeft, HandleExited, HandleTerminated, HandleDeath,
        HandleSyscalled, SyscallCallback, HandleSyscalledOfTheDead, HandleTrapped,
        HandleNewBorn, ThenContinue, Resume, Destroy, Excused, Thrown
  <2>5. CASE UNCHANGED vars
    BY <1>2, <2>5 DEF vars, kernel, Excused, Nameless, Killed
  <2>6. ASSUME NEW q \in Pids,
               Environment(TraceeStep(q)) \/ Environment(Send(q)) \/ Environment(Kill(q))
        PROVE  Excused'
    <3>1. UNCHANGED <<pc, waited>> /\ waited.pid \in Pids /\ TypeOK
      BY <1>2, <2>6 DEF Environment, IInv, TypeOK
    <3>2. ASSUME Killed(waited.pid)  PROVE Killed(waited.pid)'
      BY <2>6, <3>1, <3>2
      DEF Environment, TraceeStep, EnterSyscall, RunSyscall, Fork, Exec, VForkDone, LeaveSyscall,
          Exit, TakeSignal, GroupStop, Send, Kill, StopAt, Die, Killed, Alive, Stopped, TypeOK
    <3>3. ASSUME Nameless(waited.pid)  PROVE Nameless(waited.pid)'
      BY <2>6, <3>1, <3>3
      DEF Environment, TraceeStep, EnterSyscall, RunSyscall, Fork, Exec, VForkDone, LeaveSyscall,
          Exit, TakeSignal, GroupStop, Send, Kill, StopAt, Die, Nameless, Alive, Stopped, TypeOK
    <3>. QED  BY <1>2, <3>1, <3>2, <3>3 DEF Excused
  <2>. QED  BY <1>2, <2>1, <2>2, <2>3, <2>4, <2>5, <2>6 DEF Next
<1>3. Excused => ThrowsHaveTheirReason
  BY DEF Excused, ThrowsHaveTheirReason, Nameless, Killed, KILL
<1>. QED  BY <1>1, <1>2, <1>3, Invariance, PTL DEF Spec

-----------------------------------------------------------------------------
(* The handshake.                                                          *)

\* A SIGUSR2 on its way finds its handler, for only an execve takes it away and
\* the process makes none before it has taken the signal.
Answered(p) ==
    /\ stop[p] # Stop("terminated", "USR2")
    /\ Alive(p) =>
         /\ "USR2" \in pending[p] => handles[p] /\ at[p] \in {"user", "stopping"}
         /\ stop[p] = Stop("signal", "USR2") => handles[p]

Handshaken ==
    pc = "continue" /\ inject = "USR2" =>
        \/ Killed(waited.pid)
        \/ /\ mode[waited.pid] = "held" /\ handles[waited.pid]
           /\ stop[waited.pid].kind # "enter"

Answers == Handshaken /\ \A p \in Pids : Answered(p)

LEMMA TraceeAnswers ==
    ASSUME IInv, Answers, NEW p \in Pids, TraceeStep(p), Tracing, UNCHANGED tracer
    PROVE  Answers'
<1>1. TypeOK /\ Shape(p) /\ Answered(p) /\ waited.pid \in Pids  BY DEF IInv, TypeOK, Answers
<1>2. mode[p] = "run" /\ stop[p] = NoStop
  BY <1>1 DEF TraceeStep, EnterSyscall, RunSyscall, Fork, Exec, VForkDone, LeaveSyscall, Exit,
              TakeSignal, GroupStop, Shape
<1>3. ASSUME NEW q \in Pids \ {p}, mode[q] # "none"  PROVE Untouched(q)
  BY <1>1, <1>3 DEF TypeOK, Untouched, TraceeStep, EnterSyscall, RunSyscall, Fork, Exec, VForkDone,
                    LeaveSyscall, Exit, TakeSignal, GroupStop, StopAt, Die
<1>4. ASSUME NEW q \in Pids, q # p  PROVE Answered(q)'
  <2>1. CASE Untouched(q)
    BY <1>4, <2>1 DEF Answers, Answered, Untouched, Alive, Stopped
  <2>2. CASE \E c \in Pids : Fork(p, c)
    <3>1. PICK c \in Pids : Fork(p, c)  BY <2>2
    <3>2. CASE q = c
      <4>1. mode'[q] = "run" /\ stop'[q] = NoStop /\ pending'[q] = {"STOP"}
        BY <1>1, <1>4, <3>1, <3>2 DEF Fork, TypeOK
      <4>. QED  BY <4>1 DEF Answered, NoStop, Stop
    <3>3. CASE q # c
      <4>1. Untouched(q)  BY <1>1, <1>4, <3>1, <3>3 DEF Fork, TypeOK, Untouched
      <4>. QED  BY <1>4, <4>1 DEF Answers, Answered, Untouched, Alive, Stopped
    <3>. QED  BY <3>2, <3>3
  <2>3. CASE ~\E c \in Pids : Fork(p, c)
    <3>1. Untouched(q)
      BY <1>1, <1>4, <2>3
      DEF TypeOK, Untouched, TraceeStep, EnterSyscall, RunSyscall, Exec, VForkDone,
          LeaveSyscall, Exit, TakeSignal, GroupStop, StopAt, Die
    <3>. QED  BY <1>4, <3>1 DEF Answers, Answered, Untouched, Alive, Stopped
  <2>. QED  BY <2>2, <2>3
<1>5. Answered(p)'
  <2>1. CASE TakeSignal(p)
    <3>1. PICK s \in pending[p] : /\ stop' = [stop EXCEPT ![p] = Stop("signal", s)]
                                  /\ pending' = [pending EXCEPT ![p] = @ \ {s}]
      BY <2>1 DEF TakeSignal, StopAt
    <3>2. /\ stop'[p] = Stop("signal", s) /\ pending'[p] = pending[p] \ {s}
          /\ handles' = handles /\ at' = at
      BY <1>1, <2>1, <3>1 DEF TypeOK, TakeSignal
    <3>. QED  BY <1>1, <1>2, <3>1, <3>2 DEF Answered, Alive, Stop
  <2>2. CASE \E c \in Calls : EnterSyscall(p, c)
    BY <1>1, <2>2 DEF EnterSyscall, StopAt, TypeOK, Answered, Stop
  <2>3. CASE Exit(p)
    BY <1>1, <2>3 DEF Exit, Die, TypeOK, Answered, Alive, Stopped, Stop
  <2>4. CASE GroupStop(p)
    BY <1>1, <1>2, <2>4 DEF GroupStop, StopAt, TypeOK, Answered, Alive, Stop
  <2>5. CASE RunSyscall(p) \/ (\E c \in Pids : Fork(p, c)) \/ Exec(p) \/ VForkDone(p) \/ LeaveSyscall(p)
    <3>1. at[p] \notin {"user", "stopping"}
      BY <2>5 DEF RunSyscall, Fork, Exec, VForkDone, LeaveSyscall
    <3>2. "USR2" \notin pending[p]  BY <1>1, <1>2, <3>1 DEF Answered, Alive
    <3>3. pending'[p] = pending[p]
      BY <1>1, <1>2, <2>5 DEF RunSyscall, Fork, Exec, VForkDone, LeaveSyscall, TypeOK
    <3>4. stop'[p].kind \in {"exit", "event"}
      BY <1>1, <1>2, <2>5 DEF RunSyscall, Fork, Exec, VForkDone, LeaveSyscall, StopAt, TypeOK, Stop
    <3>. QED  BY <3>2, <3>3, <3>4 DEF Answered, Stop
  <2>. QED  BY <2>1, <2>2, <2>3, <2>4, <2>5 DEF TraceeStep
<1>6. Handshaken'
  <2>1. SUFFICES ASSUME pc = "continue", inject = "USR2"  PROVE Handshaken'
    BY DEF Handshaken, tracer
  <2>2. waited.pid # p /\ mode[waited.pid] # "none"
    BY <1>2, <2>1 DEF Answers, Handshaken, Killed
  <2>3. Untouched(waited.pid)  BY <1>1, <1>3, <2>2
  <2>. QED  BY <2>1, <2>3 DEF Answers, Handshaken, Killed, Untouched, tracer
<1>. QED  BY <1>4, <1>5, <1>6 DEF Answers
LEMMA OthersAnswer ==
    ASSUME IInv, Answers, "USR2" \notin Signals, NEW p \in Pids, Send(p) \/ Kill(p), UNCHANGED tracer
    PROVE  Answers'
<1>1. TypeOK /\ waited.pid \in Pids  BY DEF IInv, TypeOK
<1>2. CASE Send(p)
  <2>1. \A q \in Pids : "USR2" \in pending'[q] => "USR2" \in pending[q]
    BY <1>1, <1>2 DEF Send, TypeOK
  <2>. QED
    BY <1>2, <2>1 DEF Send, Answers, Answered, Handshaken, Killed, Alive, Stopped, tracer
<1>3. CASE Kill(p)
  <2>1. mode'[p] = "dead" /\ stop'[p] = KILL  BY <1>3 DEF Kill, Die, KILL
  <2>2. ASSUME NEW q \in Pids \ {p}  PROVE Untouched(q)
    BY <1>1, <1>3, <2>2 DEF Kill, Die, TypeOK, Untouched
  <2>3. ASSUME NEW q \in Pids  PROVE Answered(q)'
    <3>1. CASE q = p  BY <2>1, <3>1 DEF Answered, KILL, Stop, Alive, Stopped
    <3>2. CASE q # p
      <4>1. Answered(q) /\ Untouched(q)  BY <2>2, <3>2 DEF Answers
      <4>. QED  BY <4>1 DEF Answered, Untouched, Alive, Stopped
    <3>. QED  BY <3>1, <3>2
  <2>4. Handshaken'
    <3>1. CASE waited.pid = p  BY <2>1, <3>1 DEF Handshaken, Killed, tracer
    <3>2. CASE waited.pid # p
      <4>1. Untouched(waited.pid)  BY <1>1, <2>2, <3>2
      <4>. QED  BY <4>1 DEF Answers, Handshaken, Killed, Untouched, tracer
    <3>. QED  BY <3>1, <3>2
  <2>. QED  BY <2>3, <2>4 DEF Answers
<1>. QED  BY <1>2, <1>3

\* The request that passes the signal on.
LEMMA ResumeAnswers ==
    ASSUME IInv, Answers, Resume
    PROVE  Answers'
<1>. DEFINE p == waited.pid
<1>1. /\ TypeOK /\ p \in Pids /\ Stopped(p) /\ Shape(p) /\ Answered(p) /\ Handshaken
      /\ pc = "continue" /\ pc' = "waitpid" /\ waited' = waited /\ Continue(p, inject)
  BY DEF IInv, TypeOK, Resume, Traceable, Answers
<1>2. ASSUME NEW q \in Pids \ {p}  PROVE Untouched(q)
  BY <1>1, <1>2 DEF Continue, Die, TypeOK, Untouched
<1>3. inject = "USR2" => handles[p] /\ stop[p].kind # "enter"
  BY <1>1 DEF Handshaken, Killed, Stopped
<1>4. Answered(p)'
  <2>1. CASE stop[p].kind \in {"enter", "exit"}
    <3>1. /\ stop'[p] = NoStop /\ handles' = handles
          /\ pending'[p] = pending[p] \union ({inject} \ {"none"})
          /\ at'[p] = IF stop[p].kind = "exit" THEN "user" ELSE at[p]
      BY <1>1, <2>1 DEF Continue, TypeOK, Stop, Shape, StopShape
    <3>. QED  BY <1>1, <1>3, <2>1, <3>1 DEF Answered, Alive, NoStop, Stop
  <2>2. CASE stop[p].kind \notin {"enter", "exit"}
    <3>1. /\ \/ mode' = [mode EXCEPT ![p] = "run"] /\ stop' = [stop EXCEPT ![p] = NoStop]
             \/ Die({p}, Stop("terminated", inject)) /\ ~(inject \in Handled /\ handles[p])
          /\ handles' = handles /\ pending' = pending
      BY <1>1, <2>2 DEF Continue
    <3>2. \/ mode'[p] = "run" /\ stop'[p] = NoStop
          \/ mode'[p] = "dead" /\ stop'[p] = Stop("terminated", inject) /\ inject # "USR2"
      BY <1>1, <1>3, <3>1 DEF Die, TypeOK, Handled
    <3>3. "USR2" \in pending[p] => handles[p] /\ at[p] \in {"user", "stopping"}
      BY <1>1 DEF Answered, Alive
    <3>4. mode'[p] = "run" /\ at[p] \in {"user", "stopping"} => at'[p] \in {"user", "stopping"}
      BY <1>1, <2>2 DEF Continue, Die, TypeOK
    <3>. QED  BY <1>1, <3>1, <3>2, <3>3, <3>4 DEF Answered, Alive, Stopped, NoStop, Stop
  <2>. QED  BY <2>1, <2>2
<1>5. ASSUME NEW q \in Pids  PROVE Answered(q)'
  <2>1. CASE q = p  BY <1>1, <1>4, <2>1
  <2>2. CASE q # p
    <3>1. Answered(q) /\ Untouched(q)  BY <1>2, <2>2 DEF Answers
    <3>. QED  BY <3>1 DEF Answered, Untouched, Alive, Stopped
  <2>. QED  BY <2>1, <2>2
<1>. QED  BY <1>1, <1>5 DEF Answers, Handshaken

LEMMA HandlerAnswers ==
    ASSUME IInv, Answers, "USR2" \notin Signals, Tracer, ~Resume
    PROVE  Answers'
<1>. DEFINE p == waited.pid
<1>1. TypeOK /\ p \in Pids /\ Shape(p)  BY DEF IInv, TypeOK
<1>2. ASSUME NEW q \in Pids  PROVE Answered(q)'
  <2>1. Answered(q)  BY DEF Answers
  <2>2. CASE UNCHANGED <<stop, handles, pending, at>> /\ (Alive(q)' => Alive(q))
    BY <2>1, <2>2 DEF Answered
  <2>3. CASE Destroy
    BY <1>1, <2>1, <2>3 DEF Destroy, Die, TypeOK, Answered, Alive, Stopped, Stop
  <2>4. CASE \E r \in Pids : Waitpid(r)
    <3>1. PICK r \in Pids : Waitpid(r)  BY <2>4
    <3>2. Alive(q)' => Alive(q)
      BY <1>1, <3>1 DEF Waitpid, Waitable, Reap, TypeOK, Alive, Stopped
    <3>. QED  BY <2>2, <3>1, <3>2 DEF Waitpid, Reap
  <2>5. CASE Tracer /\ ~Destroy /\ ~Resume /\ ~\E r \in Pids : Waitpid(r)
    <3>1. UNCHANGED <<mode, stop, handles, pending, at>>
      BY <2>5
      DEF Tracer, NoTraceeLeft, HandleExited, HandleTerminated, HandleDeath, HandleSyscalled,
          SyscallCallback, HandleSyscalledOfTheDead, SyscalledThrows, Throw, HandleSignaled,
          HandleTrapped, HandleNewBorn, ThenContinue, ResumeThrows, kernel
    <3>. QED  BY <2>2, <3>1 DEF Alive, Stopped
  <2>. QED  BY <2>3, <2>4, <2>5
<1>3. Handshaken'
  <2>1. CASE HandleSyscalled
    <3>1. PICK rax \in Calls \union {"none"}, sig \in Signals \union {"none"} :
            /\ CallbackReplaces(p, ~in_kernel_[p], rax)
            /\ inject' = IF Handshake(p, ~in_kernel_[p], rax) THEN "USR2" ELSE sig
      BY <2>1 DEF HandleSyscalled, SyscallCallback
    <3>2. SUFFICES ASSUME inject' = "USR2"
                   PROVE  mode[p] = "held" /\ handles[p] /\ stop[p].kind # "enter"
      BY <2>1 DEF HandleSyscalled, SyscallCallback, Handshaken
    <3>3. Handshake(p, ~in_kernel_[p], rax)  BY <3>1, <3>2
    <3>4. /\ mode[p] = "held" /\ stop[p] = waited.status /\ in_kernel_[p]
          /\ stop[p].kind # "enter"
      BY <2>1, <3>3
      DEF IInv, Waits, Handles, Handshake, HandleSyscalled, Handling, Traceable, Stopped, Killed, Deaths
    <3>5. call[p] = "kill0"
      BY <3>1, <3>3, <3>4 DEF CallbackReplaces, Handshake, OrigRax
    <3>. QED  BY <1>1, <3>4, <3>5 DEF Shape, Alive, Stopped
  <2>2. CASE HandleSignaled
    <3>1. SUFFICES ASSUME Traceable, ThenContinue(waited.status.what), waited.status.what = "USR2"
                   PROVE  Handshaken'
      BY <2>2 DEF HandleSignaled, ThenContinue, Throw, Thrown, Handshaken
    <3>2. mode[p] = "held" /\ stop[p] = waited.status /\ stop[p].kind = "signal"
      BY <2>2, <3>1
      DEF HandleSignaled, Handling, IInv, Waits, Handles, Traceable, Stopped, Killed, Deaths
    <3>3. stop[p] = Stop("signal", "USR2")
      BY <1>1, <3>1, <3>2 DEF TypeOK, Statuses, Stop
    <3>. QED
      BY <1>1, <3>1, <3>2, <3>3
      DEF Answers, Answered, Handshaken, ThenContinue, Alive, Stopped, kernel
  <2>3. CASE Tracer /\ ~HandleSyscalled /\ ~HandleSignaled /\ ~Resume
    BY <2>3
    DEF Tracer, Waitpid, NoTraceeLeft, HandleExited, HandleTerminated, HandleDeath,
        HandleSyscalledOfTheDead, SyscalledThrows, Throw, LogThrows, HandleTrapped, TrapSignal,
        HandleNewBorn, ThenContinue, ResumeThrows, Destroy, Handshaken
  <2>. QED  BY <2>1, <2>2, <2>3
<1>. QED  BY <1>2, <1>3 DEF Answers

\* The tracer never kills a tracee with the SIGUSR2 that answers the handshake:
\* whatever fork, exec, signal or SIGKILL comes between, the handler is there.
THEOREM HandshakeIsSafe == "USR2" \notin Signals => (Spec => []HandshakeKillsNobody)
<1>. SUFFICES ASSUME "USR2" \notin Signals  PROVE Spec => []HandshakeKillsNobody
  OBVIOUS
<1>1. Init => Answers
  BY DEF Init, KernelInit, Answers, Answered, Handshaken, NoStop, Stop
<1>2. ASSUME IInv, Answers, [Next]_vars  PROVE Answers'
  <2>1. CASE Tracer  BY <1>2, <2>1, ResumeAnswers, HandlerAnswers
  <2>2. CASE \E p \in Pids : Environment(TraceeStep(p))
    BY <1>2, <2>2, TraceeAnswers DEF Environment, tracer
  <2>3. CASE \E p \in Pids : Environment(Send(p)) \/ Environment(Kill(p))
    BY <1>2, <2>3, OthersAnswer DEF Environment, tracer
  <2>4. CASE UNCHANGED vars
    BY <1>2, <2>4 DEF vars, kernel, Answers, Answered, Handshaken, Killed, Alive, Stopped
  <2>. QED  BY <1>2, <2>1, <2>2, <2>3, <2>4 DEF Next
<1>3. Answers => HandshakeKillsNobody  BY DEF Answers, Answered, HandshakeKillsNobody
<1>. QED  BY <1>1, <1>2, <1>3, Invariance, PTL DEF Spec
=============================================================================
