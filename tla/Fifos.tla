------------------------------- MODULE Fifos -------------------------------
(***************************************************************************)
(* The part of the kernel the message channel of the tracee library needs: *)
(* named pipes under /tmp/ptrace_fifo, one name for each pid, and the      *)
(* descriptors processes have open on them.  None of it is code of the     *)
(* repository.  A pipe lives on without its name while somebody has it     *)
(* open, and loses what is in it when nobody has.                          *)
(***************************************************************************)
EXTENDS Naturals, Sequences, FiniteSets

CONSTANTS
    Pids,       \* the pids there are; a FIFO is named after one
    Pipes,      \* pipes, with and without a name
    MaxFds      \* how many descriptors a process may have (RLIMIT_NOFILE)

NoPipe == 0
Fds == 1 .. MaxFds          \* 0 is standard input and never a FIFO's

ASSUME FifosAssumption ==
    /\ Pipes \subseteq Nat \ {NoPipe}
    /\ MaxFds \in Nat \ {0}

VARIABLES
    dir,        \* the pipe that has the name of a pid, or NoPipe
    pipe,       \* the messages in each pipe
    fds         \* of each process: the pipe each descriptor is open on

files == <<dir, pipe, fds>>

Exists(path) == path \in Pids /\ dir[path] # NoPipe     \* access(path, F_OK)

Holds(table, i) == \E p \in Pids, fd \in Fds : table[p][fd] = i
Fresh == {i \in Pipes : ~Holds(fds, i) /\ \A p \in Pids : dir[p] # i}
Closed(p) == {fd \in Fds : fds[p][fd] = NoPipe}
IsOpen(p, fd) == fd \in Fds \ Closed(p)

FilesInit ==
    /\ dir = [p \in Pids |-> NoPipe]
    /\ pipe = [i \in Pipes |-> <<>>]
    /\ fds = [p \in Pids |-> [fd \in Fds |-> NoPipe]]

\* A pipe nobody has open any more is empty.
Descriptors(table) ==
    /\ fds' = table
    /\ pipe' = [i \in Pipes |-> IF Holds(table, i) THEN pipe[i] ELSE <<>>]

Mkfifo(path) ==
    /\ Fresh # {}
    /\ dir' = [dir EXCEPT ![path] = CHOOSE i \in Fresh : TRUE]
    /\ UNCHANGED <<pipe, fds>>

\* open takes a descriptor that is free; which one makes no difference here.
FreeFd(p) == CHOOSE fd \in Closed(p) : TRUE

Open(p, path) ==
    /\ fds' = [fds EXCEPT ![p][FreeFd(p)] = dir[path]]
    /\ UNCHANGED <<dir, pipe>>

Close(p, fd) ==
    /\ Descriptors([fds EXCEPT ![p][fd] = NoPipe])
    /\ UNCHANGED dir

Unlink(path) ==
    /\ dir' = [dir EXCEPT ![path] = NoPipe]
    /\ UNCHANGED <<pipe, fds>>

\* open, write and close by a process that has nothing else open: what was
\* written stays only if another one has the pipe open.
Post(path, message) ==
    /\ pipe' = [pipe EXCEPT ![dir[path]] =
                  IF Holds(fds, dir[path]) THEN Append(@, message) ELSE @]
    /\ UNCHANGED <<dir, fds>>

Drain(i) ==
    /\ pipe' = [pipe EXCEPT ![i] = <<>>]
    /\ UNCHANGED <<dir, fds>>

CloseAll(p) ==
    /\ Descriptors([fds EXCEPT ![p] = [fd \in Fds |-> NoPipe]])
    /\ UNCHANGED dir

CopyFds(p, c) ==
    /\ fds' = [fds EXCEPT ![c] = fds[p]]
    /\ UNCHANGED <<dir, pipe>>
=============================================================================
