------------------------------ MODULE Workspace ------------------------------
(***************************************************************************)
(* What the IPC server, its clients and the kernel share: the workspace_t  *)
(* in the shared memory object "sym_server_shm" (an array of job request   *)
(* buffers), the descriptor tables of the client processes, and whether    *)
(* the object's name is still linked.                                      *)
(*                                                                         *)
(* Sources: src/shmem_ipc/ipc.h, src/shmem_ipc/ipc.c                       *)
(***************************************************************************)
EXTENDS Integers

CONSTANTS
  MaxJobBuffers,  \* MAX_JOB_BUFFERS (7 in the code, smaller for TLC)
  Threads,        \* the server's workspace threads
  Clients,        \* client processes, connecting through ipc.so
  Killers,        \* running server_killer processes
  Fds,            \* descriptor numbers a client opens, besides its stdin
  Files,          \* open files that descriptors can denote
  Terminal,       \* the file behind every client's descriptor 0
  NoFile,         \* what a closed descriptor denotes
  NoPid           \* the pid of a blank buffer

Processes == Clients \cup Killers

ASSUME BuffersAssumption == MaxJobBuffers \in Nat \ {0}
ASSUME ProcessAssumption == /\ Clients \cap Killers = {}
                            /\ NoPid \notin Clients \cup Killers
ASSUME FdAssumption == Fds \subseteq Nat \ {0}
ASSUME FileAssumption == Terminal \in Files /\ NoFile \notin Files

\* Stages of a job (ipc.h).  JOB_PICKEDUP is declared there and never stored.
JOB_NO_REQUEST    == 0
JOB_BUFFER_IN_USE == 1
JOB_REQUESTED     == 2
JOB_COMPLETED     == 4
Statuses == {JOB_NO_REQUEST, JOB_BUFFER_IN_USE, JOB_REQUESTED, JOB_COMPLETED}

\* Commands (ipc.h); 0 is what a zeroed buffer holds.
CMD_KILL_SERVER == -1
CMD_DISCONNECT  == -2
CMD_NONE        == 0
CMD_WRITE       == 1
CMD_OPEN        == 2
CMD_CLOSE       == 3
Commands == {CMD_KILL_SERVER, CMD_DISCONNECT, CMD_NONE, CMD_WRITE, CMD_OPEN, CMD_CLOSE}

\* A response is abstracted to its sign: bytes written, an untouched zero, an error.
Responses == {-1, 0, 1}

Slots == 0 .. MaxJobBuffers - 1
AllFds == Fds \cup {0}
FileOrNone == Files \cup {NoFile}

\* The buffer contents belong to one write and are not told apart from arg1.
JobRequestBuffer ==
  [pid : Processes \cup {NoPid}, cmd : Commands, arg1 : AllFds,
   response : Responses, status : Statuses]

BlankBuffer ==
  [pid |-> NoPid, cmd |-> CMD_NONE, arg1 |-> 0, response |-> 0, status |-> JOB_NO_REQUEST]

VARIABLES
  job_buffers,  \* workspace->job_buffers
  open_files,   \* the kernel's descriptor table of every process
  linked,       \* does the name sym_server_shm still resolve?
  execs,        \* history: how often the job submitted last in a slot was carried out (up to 2)
  reached       \* history: the file the job submitted last in a slot was written to

workspaceVars == <<job_buffers, open_files, linked, execs, reached>>

WorkspaceTypeOK ==
  /\ job_buffers \in [Slots -> JobRequestBuffer]
  /\ open_files \in [Processes -> [AllFds -> FileOrNone]]
  /\ linked \in BOOLEAN
  /\ execs \in [Slots -> 0 .. 2]
  /\ reached \in [Slots -> FileOrNone]

StdinOnly == [fd \in AllFds |-> IF fd = 0 THEN Terminal ELSE NoFile]
NothingOpen == [fd \in AllFds |-> NoFile]

\* The server has run ipc_connect_server to its end: created, sized, mapped, zeroed.
WorkspaceInit ==
  /\ job_buffers = [s \in Slots |-> BlankBuffer]
  /\ open_files = [p \in Processes |-> StdinOnly]
  /\ linked = TRUE
  /\ execs = [s \in Slots |-> 0]
  /\ reached = [s \in Slots |-> NoFile]

\* A plain store to the status field of a buffer.
SetStatus(s, value) == job_buffers' = [job_buffers EXCEPT ![s].status = value]
=============================================================================
