----------------------------- MODULE SendBench -----------------------------
(***************************************************************************)
(* send_bench: in every round the parent forks a child that serves a       *)
(* socket under a fixed name; two pipes tell the parent that the child     *)
(* listens, and the child that the parent is done.  What is sent over the  *)
(* socket never blocks (MSG_DONTWAIT) and its failure is only reported.    *)
(* Processes may be killed at any point; the user starts the program again *)
(* when the parent is gone.  Children are numbered as they are forked.     *)
(*                                                                         *)
(* Source: src/send/send.c.  External: pipes, sockets and signals.         *)
(***************************************************************************)
EXTENDS Integers

CONSTANTS
  num_runs,   \* rounds of a start
  MaxStarts,  \* bound: how often the program is started
  MaxKills,   \* bound: processes killed from outside
  Killable    \* what may be killed: subset of {"parent", "child"}

ASSUME BenchAssumption ==
  /\ {num_runs, MaxStarts, MaxKills} \subseteq Nat /\ num_runs > 0 /\ MaxStarts > 0
  /\ Killable \subseteq {"parent", "child"}

Children == 1 .. num_runs * MaxStarts
NoChild == 0

VARIABLES
  parent,     \* where the parent of the present start is
  l, starts,  \* its round, the starts so far
  last,       \* the youngest child
  child,      \* where each child is
  listening,  \* the children with a listening socket
  sock,       \* the child whose socket the name is, even if it is gone
  queue,      \* the children whose socket somebody is connected to
  ready,      \* pipe 1: the children that wrote their byte
  release,    \* pipe 2: the children that have a byte to read
  reached,    \* the child whose socket the parent of a round reached
  clean,      \* history: nobody and nothing was left when the round began
  killed, kills \* history: the processes killed, among them children; their number

pipes == <<ready, release>>
server == <<listening, sock, queue>>
history == <<clean, killed, kills>>
vars == <<parent, l, starts, last, child, server, pipes, reached, history>>

Gone == {"none", "exited", "killed"}
ParentGone == parent \in {"done", "killed"}
Alive(c) == child[c] \notin Gone
\* Children whose parent has gone: all but the one of the present round.
Orphans == {c \in Children : Alive(c) /\ (c # last \/ ParentGone \/ parent = "fork")}
At(c, place) == child' = [child EXCEPT ![c] = place]

Init ==
  /\ parent = "fork" /\ l = 0 /\ starts = 1 /\ last = NoChild
  /\ child = [c \in Children |-> "none"]
  /\ listening = {} /\ sock = NoChild /\ queue = {} /\ ready = {} /\ release = {}
  /\ reached = [c \in Children |-> NoChild] /\ clean = [c \in Children |-> FALSE]
  /\ killed = {} /\ kills = 0

-----------------------------------------------------------------------------
\* The child.

Bind(c) ==
  /\ child[c] = "bind" /\ At(c, "listen")
  /\ sock' = IF sock = NoChild THEN c ELSE sock  \* else: failed to bind
  /\ UNCHANGED <<parent, l, starts, last, listening, queue, pipes, reached, history>>

\* A socket without a name cannot listen.
Listen(c) ==
  /\ child[c] = "listen" /\ At(c, "tell")
  /\ listening' = IF sock = c THEN listening \cup {c} ELSE listening
  /\ UNCHANGED <<parent, l, starts, last, sock, queue, pipes, reached, history>>

\* The byte for the parent: SIGPIPE when it has gone.
Tell(c) ==
  /\ child[c] = "tell"
  /\ IF c \in Orphans
       THEN At(c, "killed") /\ listening' = listening \ {c} /\ UNCHANGED ready
       ELSE At(c, "accept") /\ ready' = ready \cup {c} /\ UNCHANGED listening
  /\ UNCHANGED <<parent, l, starts, last, sock, queue, release, reached, history>>

\* Fails at once when the socket does not listen.
Accept(c) ==
  /\ child[c] = "accept" /\ (c \in listening => c \in queue)
  /\ At(c, "read")
  /\ UNCHANGED <<parent, l, starts, last, server, pipes, reached, history>>

\* Mutant: the child keeps the write end of pipe 2 open and never sees its end.
ReadReleaseByteOnly(c) ==
  /\ child[c] = "read" /\ c \in release
  /\ At(c, "remove")
  /\ UNCHANGED <<parent, l, starts, last, server, pipes, reached, history>>

\* The byte of the parent, or the end of the pipe.
ReadRelease(c) ==
  /\ child[c] = "read" /\ (c \in release \/ c \in Orphans)
  /\ At(c, "remove")
  /\ UNCHANGED <<parent, l, starts, last, server, pipes, reached, history>>

\* Mutant: the name stays.
RemoveSockNot(c) ==
  /\ child[c] = "remove" /\ At(c, "exit")
  /\ UNCHANGED <<parent, l, starts, last, server, pipes, reached, history>>

\* remove takes the name away, whosever it is.
RemoveSock(c) ==
  /\ child[c] = "remove" /\ At(c, "exit") /\ sock' = NoChild
  /\ UNCHANGED <<parent, l, starts, last, listening, queue, pipes, reached, history>>

ChildExit(c) ==
  /\ child[c] = "exit" /\ At(c, "exited") /\ listening' = listening \ {c}
  /\ UNCHANGED <<parent, l, starts, last, sock, queue, pipes, reached, history>>

ChildStep(c) ==
  \/ Bind(c) \/ Listen(c) \/ Tell(c) \/ Accept(c)
  \/ ReadRelease(c) \/ RemoveSock(c) \/ ChildExit(c)

-----------------------------------------------------------------------------
\* The parent.

\* pipe, pipe and fork, or the loop is over.
Fork ==
  /\ parent = "fork"
  /\ IF l < num_runs
       THEN /\ parent' = "read" /\ last' = last + 1 /\ At(last + 1, "bind")
            /\ clean' = [clean EXCEPT ![last + 1] = sock = NoChild /\ Orphans = {}]
       ELSE parent' = "done" /\ UNCHANGED <<last, child, clean>>
  /\ UNCHANGED <<l, starts, server, pipes, reached, killed, kills>>

ForkFails ==
  /\ parent = "fork" /\ l < num_runs /\ parent' = "done"
  /\ UNCHANGED <<l, starts, last, child, server, pipes, reached, history>>

\* Mutants: the parent does not wait for the child's update; it keeps the write
\* end of pipe 1 open and never sees its end.
ReadReadyNot ==
  /\ parent = "read"
  /\ parent' = "connect"
  /\ UNCHANGED <<l, starts, last, child, server, pipes, reached, history>>

ReadReadyByteOnly ==
  /\ parent = "read" /\ last \in ready
  /\ parent' = "connect"
  /\ UNCHANGED <<l, starts, last, child, server, pipes, reached, history>>

\* The byte of the child, or the end of the pipe.
ReadReady ==
  /\ parent = "read" /\ (last \in ready \/ ~Alive(last))
  /\ parent' = "connect"
  /\ UNCHANGED <<l, starts, last, child, server, pipes, reached, history>>

\* Refused when there is no name, or nobody listens behind it.
Connect ==
  /\ parent = "connect" /\ parent' = "send"
  /\ LET answered == sock \in listening
     IN /\ queue' = IF answered THEN queue \cup {sock} ELSE queue
        /\ reached' = [reached EXCEPT ![last] = IF answered THEN sock ELSE NoChild]
  /\ UNCHANGED <<l, starts, last, child, listening, sock, pipes, history>>

\* Two sends whose result is only reported, then the byte for the child; SIGPIPE
\* when the peer of the connection or the reader of the pipe has gone.
SendAndRelease ==
  /\ parent = "send"
  /\ IF Alive(last) /\ (reached[last] # NoChild => Alive(reached[last]))
       THEN parent' = "wait" /\ release' = release \cup {last}
       ELSE parent' = "killed" /\ UNCHANGED release
  /\ UNCHANGED <<l, starts, last, child, server, ready, reached, history>>

Wait ==
  /\ parent = "wait" /\ ~Alive(last)
  /\ parent' = "fork" /\ l' = l + 1
  /\ UNCHANGED <<starts, last, child, server, pipes, reached, history>>

ParentStep == Fork \/ ReadReady \/ Connect \/ SendAndRelease \/ Wait

-----------------------------------------------------------------------------
\* The outside.

KillChild(c) ==
  /\ "child" \in Killable /\ kills < MaxKills /\ Alive(c)
  /\ At(c, "killed") /\ listening' = listening \ {c}
  /\ killed' = killed \cup {c} /\ kills' = kills + 1
  /\ UNCHANGED <<parent, l, starts, last, sock, queue, pipes, reached, clean>>

KillParent ==
  /\ "parent" \in Killable /\ kills < MaxKills /\ ~ParentGone
  /\ parent' = "killed" /\ killed' = killed \cup {NoChild} /\ kills' = kills + 1
  /\ UNCHANGED <<l, starts, last, child, server, pipes, reached, clean>>

StartAgain ==
  /\ ParentGone /\ starts < MaxStarts
  /\ parent' = "fork" /\ l' = 0 /\ starts' = starts + 1
  /\ UNCHANGED <<last, child, server, pipes, reached, history>>

Next ==
  \/ ParentStep \/ ForkFails \/ KillParent \/ StartAgain
  \/ \E c \in Children : ChildStep(c) \/ KillChild(c)

Spec == Init /\ [][Next]_vars
FairSpec == Spec /\ WF_vars(ParentStep) /\ \A c \in Children : WF_vars(ChildStep(c))

-----------------------------------------------------------------------------
\* A round that begins with no name in the way and nobody left over, and whose
\* child lives, is measured over a connection to that child: the parent connects
\* only when the child listens (send.c:85, :114).
CleanRoundConnects ==
  parent \in {"send", "wait"} /\ clean[last] /\ last \notin killed => reached[last] = last

\* Without orphans, nobody connects to or unnames the socket of another round,
\* and a round whose child is not killed leaves no name behind, not even one it
\* found there (send.c:98): the next round is clean again.
RoundsHeal ==
  NoChild \notin killed =>
    /\ \A c \in Children : reached[c] \in {NoChild, c}
    /\ parent = "fork" /\ last # NoChild /\ child[last] = "exited" => sock = NoChild

\* While parents are not killed, every start ends, whatever becomes of the
\* children: no name that is in the way and no death of a child leaves the
\* parent waiting (send.c:114, :154).
EveryStartEnds == [](NoChild \notin killed) => []<>ParentGone

\* A child whose parent was killed ends as well, unless it waits for a connection
\* that nobody makes (send.c:89, :95).
OrphansEnd ==
  \A c \in Children :
    c \in Orphans ~> \/ ~Alive(c)
                     \/ child[c] = "accept" /\ c \in listening \ queue
-----------------------------------------------------------------------------
\* What the safety properties rest on.
InRound == parent \in {"read", "connect", "send", "wait"}
Serving == {"bind", "listen", "tell", "accept", "read"}  \* not yet released
Places == Serving \cup {"remove", "exit"} \cup Gone

\* There is a number left for each round to come, and a child that has not been
\* forked has left no trace; only the living listen.
ChildrenInv ==
  /\ parent \in {"fork", "done", "killed"} \/ InRound
  /\ l \in 0 .. num_runs /\ starts \in 1 .. MaxStarts /\ last \in Nat
  /\ InRound => l < num_runs /\ last > 0 /\ last <= (starts - 1) * num_runs + l + 1
  /\ parent = "fork" => last <= (starts - 1) * num_runs + l
  /\ last <= starts * num_runs
  /\ child \in [Children -> Places]
  /\ clean \in [Children -> BOOLEAN] /\ reached \in [Children -> Children \cup {NoChild}]
  /\ sock \in 0 .. last
  /\ \A c \in Children : c > last => child[c] = "none" /\ c \notin ready \cup release
  /\ \A c \in listening : c \in Children /\ Alive(c)

\* In a clean round there is only its child, the name is the child's as soon as
\* there is one, and the child does not go on before it is released.
CleanInv ==
  InRound /\ clean[last] /\ last \notin killed =>
    /\ \A c \in Children : Alive(c) => c = last
    /\ child[last] = "bind" => sock = NoChild
    /\ child[last] \in {"listen", "tell", "accept", "read"} => sock = last
    /\ child[last] \in {"tell", "accept", "read"} => last \in listening
    /\ parent # "wait" => child[last] \in Serving /\ last \notin release
    /\ last \in ready => child[last] \notin {"bind", "listen", "tell"}
    /\ parent = "connect" => last \in ready
    /\ parent \in {"send", "wait"} => reached[last] = last

\* While no parent is killed, only the child of the present round lives.
HealInv ==
  /\ RoundsHeal
  /\ NoChild \notin killed =>
       /\ \A c \in Children : Alive(c) => c = last /\ InRound
       /\ last # NoChild /\ child[last] \in {"exit", "exited"} => sock = NoChild
=============================================================================
