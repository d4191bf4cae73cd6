----------------------------- MODULE SocketPair -----------------------------
(***************************************************************************)
(* Two processes on a socket pair that both send a message and then        *)
(* receive one, again and again: socket_comm.c and socket_comm.py.  The    *)
(* socket counts data in pieces, what the kernel moves at once: a message  *)
(* of socket_comm.c (at most 1024 bytes) is one piece, one of              *)
(* socket_comm.py may be several.                                          *)
(*                                                                         *)
(* Sources: src/send/send_recv_python_c/socket_comm.c, socket_comm.py      *)
(***************************************************************************)
EXTENDS Integers

CONSTANTS
  num_messages,
  Setups  \* [program : {"c", "py"}, msg_size : pieces, capacity : pieces a socket
          \*  holds, may_die : whether one process may be killed from outside]

ASSUME RoundsAssumption == num_messages \in Nat
ASSUME SetupsAssumption ==
  \A s \in Setups : /\ s.program \in {"c", "py"} /\ s.may_die \in BOOLEAN
                    /\ s.msg_size \in Nat \ {0} /\ s.capacity \in Nat \ {0}
                    /\ s.program = "c" => s.msg_size = 1

VARIABLES
  setup,
  at,      \* where each process is
  rounds,  \* messages it has received, as it counts them
  left,    \* pieces of its message it has still to send
  unread,  \* pieces it has sent that the other has not received
  reset,   \* its socket has an error pending: the other closed without reading all
  short,   \* history: it took part of a message, or nothing, for a message
  victim   \* the process killed from outside, if any

vars == <<setup, at, rounds, left, unread, reset, short, victim>>

Sides == {"parent", "child"}
Other(p) == IF p = "parent" THEN "child" ELSE "parent"
Ended == {"exited", "killed"}

\* Mutant: each process keeps the other's end open as well.
ClosedNever(p) == p \notin Sides

\* Each process closed the other's end when it started, so a socket goes with
\* the process that owns it.
Closed(p) == at[p] \in {"wait"} \cup Ended

Goto(p, place) == at' = [at EXCEPT ![p] = place]

Init ==
  /\ setup \in Setups /\ victim = "none"
  /\ at = [p \in Sides |-> IF num_messages > 0 THEN "send" ELSE "close"]
  /\ rounds = [p \in Sides |-> 0]
  /\ left = [p \in Sides |-> setup.msg_size]
  /\ unread = [p \in Sides |-> 0]
  /\ reset = [p \in Sides |-> FALSE] /\ short = [p \in Sides |-> FALSE]

\* Mutant: one round more.
LoopFromOneMore(p, n) ==
  /\ rounds' = [rounds EXCEPT ![p] = n]
  /\ left' = [left EXCEPT ![p] = setup.msg_size]
  /\ Goto(p, IF n <= num_messages THEN "send" ELSE "close")

\* for (i = 0; i < num_messages; i++)
LoopFrom(p, n) ==
  /\ rounds' = [rounds EXCEPT ![p] = n]
  /\ left' = [left EXCEPT ![p] = setup.msg_size]
  /\ Goto(p, IF n < num_messages THEN "send" ELSE "close")

\* A socket goes: what was not read is lost, and the other side is told.
Hangup(p) ==
  /\ unread' = [unread EXCEPT ![Other(p)] = 0]
  /\ reset' = [reset EXCEPT ![Other(p)] = @ \/ unread[Other(p)] > 0]

Die(p) == Goto(p, "killed") /\ Hangup(p) /\ UNCHANGED <<rounds, left, short>>

-----------------------------------------------------------------------------
\* send() and sendall(): piece after piece, waiting for room.
Send(p) ==
  /\ at[p] = "send" /\ ~Closed(Other(p)) /\ unread[p] < setup.capacity
  /\ unread' = [unread EXCEPT ![p] = @ + 1]
  /\ left' = [left EXCEPT ![p] = @ - 1]
  /\ IF left[p] = 1 THEN Goto(p, "recv") ELSE UNCHANGED at
  /\ UNCHANGED <<rounds, reset, short>>

\* The other side has gone: SIGPIPE kills the C program, BrokenPipeError ends
\* the loop of the Python one.
SendFails(p) ==
  /\ at[p] = "send" /\ Closed(Other(p))
  /\ IF setup.program = "c" THEN Die(p)
     ELSE Goto(p, "close") /\ UNCHANGED <<rounds, left, unread, reset, short>>

\* Mutant: recv() takes whatever is there.
RecvAll(p) ==
  /\ at[p] = "recv" /\ unread[Other(p)] > 0
  /\ unread' = [unread EXCEPT ![Other(p)] = 0]
  /\ LoopFrom(p, rounds[p] + 1)
  /\ UNCHANGED <<short, reset>>

\* Mutant: the non-blocking recv() that socket_comm.py:40 has commented out.
RecvDontWait(p) ==
  LET there == unread[Other(p)]
      taken == IF there < setup.msg_size THEN there ELSE setup.msg_size
  IN /\ at[p] = "recv"
     /\ unread' = [unread EXCEPT ![Other(p)] = @ - taken]
     /\ short' = [short EXCEPT ![p] = @ \/ taken < setup.msg_size]
     /\ LoopFrom(p, rounds[p] + 1)
     /\ UNCHANGED reset

\* recv() takes what is there, up to a message; its result is not looked at.
Recv(p) ==
  LET there == unread[Other(p)]
      taken == IF there < setup.msg_size THEN there ELSE setup.msg_size
  IN /\ at[p] = "recv" /\ there > 0
     /\ unread' = [unread EXCEPT ![Other(p)] = @ - taken]
     /\ short' = [short EXCEPT ![p] = @ \/ taken < setup.msg_size]
     /\ LoopFrom(p, rounds[p] + 1)
     /\ UNCHANGED reset

\* Nothing there and the other side gone: no data, or once ECONNRESET, which
\* Python raises as an exception nobody catches.
RecvEnds(p) ==
  /\ at[p] = "recv" /\ unread[Other(p)] = 0 /\ Closed(Other(p))
  /\ IF reset[p] /\ setup.program = "py"
       THEN Die(p)
       ELSE /\ reset' = [reset EXCEPT ![p] = FALSE]
            /\ LoopFrom(p, rounds[p] + 1)
            /\ short' = [short EXCEPT ![p] = TRUE]
            /\ UNCHANGED unread

Close(p) ==
  /\ at[p] = "close" /\ Goto(p, IF p = "parent" THEN "wait" ELSE "exited")
  /\ Hangup(p)
  /\ UNCHANGED <<rounds, left, short>>

\* wait(NULL): the parent leaves after the child.
Wait ==
  /\ at["parent"] = "wait" /\ at["child"] \in Ended /\ Goto("parent", "exited")
  /\ UNCHANGED <<rounds, left, unread, reset, short>>

Step(p) ==
  /\ \/ Send(p) \/ SendFails(p) \/ Recv(p) \/ RecvEnds(p) \/ Close(p)
     \/ p = "parent" /\ Wait
  /\ UNCHANGED <<setup, victim>>

\* Somebody kills one of them.
Kill(p) ==
  /\ setup.may_die /\ victim = "none" /\ at[p] \notin Ended
  /\ victim' = p /\ Die(p) /\ UNCHANGED setup

Next == \E p \in Sides : Step(p) \/ Kill(p)
Spec == Init /\ [][Next]_vars
\* A process that can go on does: the scheduler runs both.
FairSpec == Spec /\ \A p \in Sides : WF_vars(Step(p))

-----------------------------------------------------------------------------
\* Every variable keeps its type; a process counts no more than num_messages.
TypeOK ==
  /\ setup \in Setups /\ victim \in Sides \cup {"none"}
  /\ at \in [Sides -> {"send", "recv", "close", "wait"} \cup Ended]
  /\ rounds \in [Sides -> 0 .. num_messages]
  /\ left \in [Sides -> 0 .. setup.msg_size]
  /\ unread \in [Sides -> 0 .. setup.capacity]
  /\ reset \in [Sides -> BOOLEAN] /\ short \in [Sides -> BOOLEAN]

WholeMessages == setup.msg_size = 1
Fits == setup.msg_size <= setup.capacity

\* With messages of one piece the two processes are never more than a round
\* apart, whatever becomes of either (the loops of socket_comm.c:15 and :33),
\* until one of them is killed.
InStep ==
  WholeMessages /\ victim = "none" =>
    \A p \in Sides : rounds[p] <= rounds[Other(p)] + 1

\* A process that leaves its loop has had all its messages, each of them whole,
\* and leaves none of the other's unread: with messages of one piece, as long as
\* nobody is killed.  (Larger messages may be taken for several: the program
\* does not look at what recv returns.)
LeavesComplete ==
  WholeMessages /\ victim = "none" =>
    \A p \in Sides : /\ ~short[p] /\ ~reset[p]
                     /\ at[p] \notin {"send", "recv"} => rounds[p] = num_messages

\* Whatever the size of the messages, neither SIGPIPE nor an error of recv ends
\* a process unless the other was killed: who leaves early has sent all the
\* pieces the other can still ask for (socket_comm.py:18-30, :38-50).
OnlyTheSurvivorSuffers ==
  \A p \in Sides : at[p] = "killed" => victim # "none"

\* What the three invariants rest on; each of the parts is inductive after the
\* one before it.

\* In the loop there are messages left to receive, in send() pieces left to send.
InLoop(p) == at[p] \in {"send", "recv"}

LoopInv ==
  \A p \in Sides : /\ InLoop(p) => rounds[p] < num_messages
                   /\ at[p] = "send" => left[p] > 0

\* The messages, or the pieces, that p has sent.
SentMessages(p) == IF at[p] = "recv" THEN rounds[p] + 1 ELSE rounds[p]
SentPieces(p) ==
  rounds[p] * setup.msg_size + (CASE at[p] = "send" -> setup.msg_size - left[p]
                                  [] at[p] = "recv" -> setup.msg_size
                                  [] OTHER -> 0)

\* Messages of one piece: what was sent was received or is there, and who is out
\* of the loop has gone through all of it.
WholeInv ==
  WholeMessages /\ victim = "none" =>
    \A p \in Sides :
      /\ ~short[p] /\ ~reset[p]
      /\ ~InLoop(p) => at[p] # "killed" /\ rounds[p] = num_messages
      /\ unread[p] = SentMessages(p) - rounds[Other(p)]

\* Messages of any size: who is still in the loop finds at least the pieces that
\* were sent to it, less a message for each that it took.
FlowInv ==
  victim = "none" =>
    \A p \in Sides :
      /\ at[p] # "killed"
      /\ InLoop(p) =>
           /\ unread[Other(p)] >= SentPieces(Other(p)) - rounds[p] * setup.msg_size
           /\ ~InLoop(Other(p)) => rounds[Other(p)] = num_messages

\* Messages that fit: both processes end, even when one is killed at any point,
\* and the parent does not wait for ever (socket_comm.c:79, socket_comm.py:75).
\* Messages that do not fit: both stay in their first send, waiting for the
\* other to receive (socket_comm.py:18 and :38), unless one is killed.
Blocked == \A p \in Sides : at[p] = "send" /\ unread[p] = setup.capacity /\ rounds[p] = 0
BothEndOrBlock ==
  /\ Fits ~> \A p \in Sides : at[p] \in Ended
  /\ ~Fits ~> [](Blocked \/ victim # "none")
=============================================================================
