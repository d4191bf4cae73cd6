------------------------------ MODULE IpcSystem ------------------------------
(***************************************************************************)
(* The IPC server and its clients composed over the shared workspace, with *)
(* the properties of the protocol they follow together.                    *)
(*                                                                         *)
(* Sources: src/shmem_ipc/server.c, ipc.c, server_killer.c                 *)
(***************************************************************************)
EXTENDS WorkspaceServer, WorkspaceClient

vars == <<workspaceVars, serverVars, clientVars>>

Init == WorkspaceInit /\ ServerInit /\ ClientInit

Next ==
  \/ \E t \in Threads : ThreadStep(t) /\ UNCHANGED clientVars
  \/ CloseWorkspace /\ UNCHANGED clientVars
  \/ \E p \in Processes : ProcessStep(p) /\ UNCHANGED serverVars

Spec == Init /\ [][Next]_vars

\* The kernel schedules every runnable thread and process; a process that has
\* started a call of the library goes on, and server_killer, when its turn keeps
\* coming, connects.  No fairness on whether a client connects, asks or leaves.
Fairness ==
  /\ \A t \in Threads : WF_vars(ThreadStep(t) /\ UNCHANGED clientVars)
  /\ WF_vars(CloseWorkspace /\ UNCHANGED clientVars)
  /\ \A p \in Processes : WF_vars(Proceed(p) /\ UNCHANGED serverVars)
  /\ \A k \in Killers : SF_vars((Connect(k) \/ ConnectRefused(k)) /\ UNCHANGED serverVars)

FairSpec == Spec /\ Fairness

-----------------------------------------------------------------------------
\* Type correctness of the workspace, the server and the processes.
TypeOK == WorkspaceTypeOK /\ ServerTypeOK /\ ClientTypeOK

\* No two threads are between the try-lock and the unlock of one slot, and a
\* lock is taken exactly while a thread is there (server.c:23-37, 91).
LockExclusion ==
  /\ \A t, u \in Threads :
       t # u /\ Holding(t) /\ Holding(u) => idx[t] # idx[u]
  /\ \A s \in Slots : locks[s] <=> \E t \in Threads : Holding(t) /\ idx[t] = s

\* A slot belongs to one process at a time: what ipc_get_job_buffer hands out
\* is not in anyone else's hands (ipc.c:83-92, 117-122).
SlotOwnership ==
  \A p, q \in Processes : p # q /\ Owns(p) /\ Owns(q) => slot[p] # slot[q]

\* What the code keeps of it without any order among its callers: a slot comes into two
\* hands only if one process saw it free between another's test and store of line 86 to
\* 88, or between the two spans of another's memset (ipc.c:86-88, 121).
SharedOnlyIfContested ==
  \A p, q \in Processes :
    p # q /\ Owns(p) /\ Owns(q) /\ slot[p] = slot[q] => slot[p] \in contested

\* A process that sees JOB_COMPLETED in a slot nobody contested has had the job it
\* submitted carried out once, not zero times and not twice (server.c:24, 41-90;
\* ipc.c:97-109).
ExactlyOnce ==
  \A p \in Processes :
    Awaiting(p) /\ Buffer(p).status = JOB_COMPLETED /\ slot[p] \notin contested
    => execs[slot[p]] = 1

\* Once the process that has an uncontested slot may see JOB_COMPLETED no thread is
\* working on its buffer any more, so that it can be reused or wiped at once
\* (server.c:90-91, ipc.c:121).
AnswerFinal ==
  \A t \in Threads : Serving(t) /\ idx[t] \notin contested => Job(t).status = JOB_REQUESTED

-----------------------------------------------------------------------------
\* What SharedOnlyIfContested, ExactlyOnce and AnswerFinal rest on; together they are
\* inductive.

\* Two processes have one slot in their hands, or are about to, only if it is contested.
Holds(p) == Owns(p) \/ cpc[p] = "claim"

HoldersAlone ==
  \A p, q \in Processes :
    p # q /\ Holds(p) /\ Holds(q) /\ slot[p] = slot[q] => slot[p] \in contested

\* What a process holds is a slot, and if it is uncontested one at the stage that the
\* place of the process says.
StageOfHolder(p) ==
  /\ cpc[p] \in {"claim", "clear_rest"} => Buffer(p).status = JOB_NO_REQUEST
  /\ cpc[p] \in {"ready", "filled", "leaving"} =>
       Buffer(p).status \in {JOB_BUFFER_IN_USE, JOB_COMPLETED}
  /\ Awaiting(p) => Buffer(p).status \in {JOB_REQUESTED, JOB_COMPLETED}
  /\ cpc[p] \in {"clear", "clear_head"} => Buffer(p).status = JOB_COMPLETED

StageOfOwner ==
  \A p \in Processes :
    /\ Holds(p) => slot[p] \in Slots
    /\ slot[p] \notin contested => StageOfHolder(p)

\* The thread has counted the job and not yet marked it completed.
Executing(t) == tpc[t] \in {"borrow", "write", "complete"}

\* A job submitted in an uncontested slot has been carried out once if a thread is past
\* the switch with it, and not at all otherwise, whether its owner is still there or not.
ExecutionCount ==
  \A s \in Slots \ contested :
    job_buffers[s].status = JOB_REQUESTED =>
      execs[s] = IF \E t \in Threads : Executing(t) /\ idx[t] = s THEN 1 ELSE 0

\* The inductive invariant of sessions: who holds a slot, at which stage its buffer is
\* and how often its job was carried out always fit in a slot that nobody contested,
\* whatever happens in the others (ipc.c, server.c).
SessionInv ==
  /\ HoldersAlone
  /\ StageOfOwner
  /\ AnswerFinal
  /\ ExecutionCount
  /\ ExactlyOnce

\* With serial sessions nobody contests a slot.
ComingOrGoing(p) == Connecting(p) \/ Leaving(p)

OneComesOrGoes ==
  \A p, q \in Processes : p # q /\ ComingOrGoing(p) => ~ComingOrGoing(q)

SerialInv == OneComesOrGoes /\ contested = {}

-----------------------------------------------------------------------------
\* A write that was carried out for a client went to the file that the client's
\* descriptor denotes, through whatever was cached (server.c:47-64, 73-85).
WriteReachesOwnFile ==
  \A p \in Clients :
    /\ cpc[p] = "wait"
    /\ Buffer(p).status = JOB_COMPLETED
    /\ reached[slot[p]] # NoFile
    => reached[slot[p]] = open_files[p][Buffer(p).arg1]

\* What the code keeps of it in every build: a write goes astray only in a slot that was
\* contested, or that was given back without telling the server (ipc.c:118).
WriteAstrayOnlyIfUntold ==
  \A p \in Clients :
    /\ cpc[p] = "wait"
    /\ Buffer(p).status = JOB_COMPLETED
    /\ reached[slot[p]] # NoFile
    /\ slot[p] \notin contested \cup untold
    => reached[slot[p]] = open_files[p][Buffer(p).arg1]

\* A slot that can be claimed names no owner and no job any more.  Its other bytes are
\* wiped unless a client died on the way, and nothing borrowed is left registered for it
\* unless it was given back without telling the server (server.c:82-85, ipc.c:118-121).
FreeSlotForgotten ==
  \A s \in Slots \ contested :
    job_buffers[s].status = JOB_NO_REQUEST /\ (\A p \in Processes : Leaving(p) => slot[p] # s) =>
      /\ job_buffers[s].pid = NoPid /\ job_buffers[s].cmd = CMD_NONE
      /\ \/ job_buffers[s].arg1 = 0 /\ job_buffers[s].response = 0
         \/ \E p \in Processes : cpc[p] = "dead" /\ slot[p] = s
      /\ registered_fds[s] = EmptyRow \/ s \in untold

\* The life of a buffer: claimed while free, submitted by its owner, completed
\* while submitted, wiped when completed.
StageChanges == {<<JOB_NO_REQUEST, JOB_BUFFER_IN_USE>>,
                 <<JOB_BUFFER_IN_USE, JOB_REQUESTED>>, <<JOB_COMPLETED, JOB_REQUESTED>>,
                 <<JOB_REQUESTED, JOB_COMPLETED>>, <<JOB_COMPLETED, JOB_NO_REQUEST>>}

StageStep ==
  \A s \in Slots \ contested :
    job_buffers'[s].status # job_buffers[s].status =>
      <<job_buffers[s].status, job_buffers'[s].status>> \in StageChanges

\* No step makes any other change of stage in a slot nobody contested, whoever makes it
\* and whatever that process believed about the buffer before (ipc.c:86-121, server.c:90).
StageOrder == [][StageStep]_vars

\* A client is told of a successful write whose bytes went nowhere, the response
\* being that of an earlier job, only if its descriptor could not be borrowed and is not
\* registered: in no build once the server has a file for it (server.c:49-64).
StaleAnswerOnlyUnborrowed ==
  \A p \in Clients :
    /\ cpc[p] = "wait"
    /\ Buffer(p).cmd = CMD_WRITE
    /\ Buffer(p).status = JOB_COMPLETED
    /\ Buffer(p).response = 1
    /\ reached[slot[p]] = NoFile
    /\ slot[p] \notin contested
    => registered_fds[slot[p]][Buffer(p).arg1] = NoFile

\* What WriteAstrayOnlyIfUntold, StaleAnswerOnlyUnborrowed and FreeSlotForgotten rest on;
\* with SessionInv each of FileInv and WipeInv is inductive.

\* The job in the buffer is the one its owner described, for its own descriptors.
JobIsOwn ==
  \A p \in Processes : slot[p] \notin contested =>
    /\ cpc[p] \in {"filled", "wait"} =>
         IF p \in Clients
           THEN Buffer(p).pid = p /\ Buffer(p).cmd \in {CMD_WRITE, CMD_CLOSE}
           ELSE Buffer(p).cmd = CMD_KILL_SERVER
    /\ cpc[p] \in {"leaving", "leavewait"} =>
         Buffer(p).cmd = CMD_DISCONNECT \/ slot[p] \in untold

\* In case CMD_WRITE the locals of the thread agree with the buffer.
Writing(t) == tpc[t] \in {"borrow", "write"}

WritingAsAsked ==
  \A t \in Threads :
    Writing(t) /\ idx[t] \notin contested =>
      /\ Job(t).cmd = CMD_WRITE
      /\ clientfd[t] = Job(t).arg1
      /\ registered_fds[idx[t]][clientfd[t]] = NoFile <=> tpc[t] = "borrow"

\* What is registered for a client is the file that its descriptor denotes.
RowOfOwner ==
  \A p \in Clients : Owns(p) /\ slot[p] \notin contested \cup untold =>
    \A fd \in AllFds : registered_fds[slot[p]][fd] \in {NoFile, open_files[p][fd]}

\* Nothing is registered for what was closed, nor in a row that was given up.
RowForgotten ==
  /\ \A p \in Processes : slot[p] \notin contested =>
       /\ cpc[p] = "wait" /\ Buffer(p).cmd = CMD_CLOSE /\ execs[slot[p]] = 1 =>
            registered_fds[slot[p]][Buffer(p).arg1] = NoFile
       /\ \/ cpc[p] = "leavewait" /\ execs[slot[p]] = 1
          \/ cpc[p] \in {"clear", "clear_head"}
          => registered_fds[slot[p]] = EmptyRow \/ slot[p] \in untold
  /\ \A s \in Slots \ contested :
       job_buffers[s].status = JOB_NO_REQUEST => registered_fds[s] = EmptyRow \/ s \in untold

\* What a write did is what its client is told, from the end of the write on.
WriteRecorded ==
  \A p \in Clients : cpc[p] = "wait" /\ slot[p] \notin contested =>
    /\ reached[slot[p]] # NoFile =>
         /\ Buffer(p).cmd = CMD_WRITE
         /\ reached[slot[p]] = open_files[p][Buffer(p).arg1] \/ slot[p] \in untold
    /\ /\ Buffer(p).cmd = CMD_WRITE /\ execs[slot[p]] = 1
       /\ \A t \in Threads : Writing(t) => idx[t] # slot[p]
       /\ Buffer(p).response = 1 /\ reached[slot[p]] = NoFile
       => registered_fds[slot[p]][Buffer(p).arg1] = NoFile

\* Buffers, borrowed files and descriptor tables always fit (server.c:41-85).
FileInv == JobIsOwn /\ WritingAsAsked /\ RowOfOwner /\ RowForgotten /\ WriteRecorded

\* A wipe in progress has cleared its first span, and finished ones all (ipc.c:121).
WipeInv ==
  /\ \A p \in Processes : slot[p] \notin contested =>
       /\ cpc[p] = "clear_rest" => Buffer(p).pid = NoPid /\ Buffer(p).cmd = CMD_NONE
       /\ cpc[p] = "clear_head" => Buffer(p).arg1 = 0 /\ Buffer(p).response = 0
  /\ FreeSlotForgotten

\* Not that some job is pending for ever while none gets completed any more: either
\* again and again nothing is pending, or again and again a pending job is completed.  The
\* polling of the threads never goes round without serving anyone (server.c:20-39, 88-92).
Complete ==
  \E s \in Slots : /\ job_buffers[s].status = JOB_REQUESTED
                  /\ job_buffers'[s].status = JOB_COMPLETED

SomeoneIsServed ==
  \/ []<>(\A s \in Slots : job_buffers[s].status # JOB_REQUESTED)
  \/ []<><<Complete>>_vars

\* A process whose rivals stop asking gets its answer, wherever its slot is and
\* wherever the threads are polling when they stop (server.c:22-39).
AnsweredOnceOthersRest ==
  \A p \in Processes :
    (<>[](\A q \in Processes \ {p} : ~Awaiting(q))) => (Awaiting(p) ~> ~Awaiting(p))

\* server_killer, started with the number of server threads, ends the server:
\* every thread returns and main closes the workspace, provided the clients wait
\* for nothing from some point on (server_killer.c:8-17, server.c:130-134).
ServerStopsOnceClientsRest ==
  (<>[](\A c \in Clients : ~Awaiting(c))) => <>~linked

-----------------------------------------------------------------------------
\* The code keeps the promise of JobService: a process is in session while it
\* owns a slot, and its job is answered when its buffer says completed.
ServicePhase(p) ==
  CASE Awaiting(p) /\ Buffer(p).status = JOB_COMPLETED -> "answered"
    [] Awaiting(p) /\ Buffer(p).status # JOB_COMPLETED -> "pending"
    [] Owns(p) /\ ~Awaiting(p) -> "ready"
    [] OTHER -> "away"

\* The job that a waiting process submitted, and how often it was carried out.
ServicePerformed(p) == IF Awaiting(p) THEN execs[slot[p]] ELSE 0

phase == [p \in Processes |-> ServicePhase(p)]
performed == [p \in Processes |-> ServicePerformed(p)]

Service == INSTANCE JobService WITH
  Users <- Processes, Seats <- Slots, Mortal <- MayCrash

\* IpcSystem implements JobService under this mapping (server.c, ipc.c).
ImplementsJobService == Service!ServiceSpec
=============================================================================
