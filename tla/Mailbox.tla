------------------------------ MODULE Mailbox ------------------------------
(***************************************************************************)
(* What the tracer and the tracee library promise each other about         *)
(* messages, with no FIFO, signal or descriptor: a tracee has at most one  *)
(* message waiting, serves the one it was sent and no other, and a message *)
(* is lost only with its tracee.  The library keeps this promise only to   *)
(* programs whose forked children execute first, when no killed process's  *)
(* pid comes back and nothing on the stack runs on from a message (see     *)
(* MailboxSpec of TraceeLib).  Commands are those of                       *)
(* src/TraceeLib/tracee_server.h.                                          *)
(***************************************************************************)
EXTENDS Naturals, Sequences

CONSTANTS Pids, Commands

VARIABLES
    alive,      \* the tracees there are
    box,        \* of each tracee: the message it is about to serve, or none
    member      \* and its test_member_

vars == <<alive, box, member>>

ASSERT_TEST_MEMBER == 2
DEASSERT_TEST_MEMBER == 3

Init ==
    /\ alive \in SUBSET Pids
    /\ box = [p \in Pids |-> <<>>]
    /\ member = [p \in Pids |-> 0]

Send(p, command) ==
    /\ p \in alive
    /\ box[p] = <<>>
    /\ box' = [box EXCEPT ![p] = <<command>>]
    /\ UNCHANGED <<alive, member>>

Effect(command, value) ==
    CASE command = ASSERT_TEST_MEMBER -> 1
      [] command = DEASSERT_TEST_MEMBER -> 0
      [] OTHER -> value

Serve(p) ==
    /\ p \in alive
    /\ box[p] # <<>>
    /\ member' = [member EXCEPT ![p] = Effect(Head(box[p]), @)]
    /\ box' = [box EXCEPT ![p] = <<>>]
    /\ UNCHANGED alive

\* execve: a new server object.
Renew(p) ==
    /\ p \in alive
    /\ box[p] = <<>>
    /\ member' = [member EXCEPT ![p] = 0]
    /\ UNCHANGED <<alive, box>>

\* fork: the child has its parent's server object, and no message.
Clone(p, c) ==
    /\ p \in alive /\ c \notin alive
    /\ alive' = alive \union {c}
    /\ member' = [member EXCEPT ![c] = member[p]]
    /\ UNCHANGED box

Die(p) ==
    /\ alive' = alive \ {p}
    /\ box' = [box EXCEPT ![p] = <<>>]
    /\ member' = [member EXCEPT ![p] = 0]

Next ==
    \E p \in Pids :
        \/ \E command \in Commands : Send(p, command)
        \/ Serve(p)
        \/ Renew(p)
        \/ \E c \in Pids : Clone(p, c)
        \/ Die(p)

Spec == Init /\ [][Next]_vars
=============================================================================
