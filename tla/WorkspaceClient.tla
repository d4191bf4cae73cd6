--------------------------- MODULE WorkspaceClient ---------------------------
(***************************************************************************)
(* The processes on the other side of the workspace: clients, which claim  *)
(* a slot, submit jobs in it and give it back, and server_killer, which    *)
(* claims a new slot for every CMD_KILL_SERVER it submits.                 *)
(*                                                                         *)
(* Sources: src/shmem_ipc/ipc.c, src/shmem_ipc/server_killer.c and the     *)
(* client written out in src/ipc_demo/ipc_demo.ipynb.                      *)
(***************************************************************************)
EXTENDS Workspace

CONSTANTS
  Kills,             \* the argument of server_killer
  SerialSessions,    \* TRUE: the environment lets one process at a time come or go
  DisconnectStored,  \* does the build keep the store in ipc.c:118?  subset of BOOLEAN
  ClearStatusFirst,  \* does the build's memset reach status before arg1?  subset of BOOLEAN
  MayCrash           \* the clients that may die at any point

ASSUME KillsAssumption == Kills \in Nat
ASSUME EnvironmentAssumption ==
  /\ SerialSessions \in BOOLEAN
  /\ DisconnectStored \in (SUBSET BOOLEAN) \ {{}}
  /\ ClearStatusFirst \in (SUBSET BOOLEAN) \ {{}}
  /\ MayCrash \subseteq Clients

VARIABLES
  cpc,    \* where each process is
  slot,   \* the i of ipc_get_job_buffer, then the slot it returned
  kills,  \* the kills each server_killer has still to send
  contested,  \* history: slots seen free by one while another was claiming or wiping them
  untold      \* history: slots given back without a CMD_DISCONNECT in memory

marks == <<contested, untold>>
clientVars == <<cpc, slot, kills, marks>>

ClientPcs == {"idle", "scan", "claim", "ready", "filled", "wait",
              "leaving", "leavewait", "clear", "clear_rest", "clear_head",
              "done", "failed", "dead"}

ClientTypeOK ==
  /\ cpc \in [Processes -> ClientPcs]
  /\ slot \in [Processes -> 0 .. MaxJobBuffers]
  /\ kills \in [Killers -> 0 .. Kills]
  /\ contested \subseteq 0 .. MaxJobBuffers /\ untold \subseteq 0 .. MaxJobBuffers

ClientInit ==
  /\ cpc = [p \in Processes |-> "idle"]
  /\ slot = [p \in Processes |-> 0]
  /\ kills = [k \in Killers |-> Kills]
  /\ contested = {} /\ untold = {}

Connecting(p) == cpc[p] \in {"scan", "claim"}
Leaving(p) == cpc[p] \in {"leaving", "leavewait", "clear", "clear_rest", "clear_head"}
Awaiting(p) == cpc[p] \in {"wait", "leavewait"}
Owns(p) == cpc[p] \in {"ready", "filled", "wait"} \/ Leaving(p)

GotoP(p, label) == cpc' = [cpc EXCEPT ![p] = label]
Buffer(p) == job_buffers[slot[p]]

\* When a process may call ipc_get_job_buffer or disconnect_job_buffer.
SessionsAllow(p) ==
  SerialSessions => \A q \in Processes \ {p} : ~Connecting(q) /\ ~Leaving(q)

-----------------------------------------------------------------------------
\* ipc_get_job_buffer: shm_open needs the name; then the scan starts at slot 0.
Connect(p) ==
  /\ cpc[p] = "idle"
  /\ p \in Killers => kills[p] > 0
  /\ linked
  /\ SessionsAllow(p)
  /\ slot' = [slot EXCEPT ![p] = 0]
  /\ GotoP(p, "scan")
  /\ UNCHANGED <<kills, marks, workspaceVars>>

\* No name: ipc_get_job_buffer returns NULL.  A client goes on without the server.
ConnectRefused(p) ==
  /\ cpc[p] = "idle"
  /\ p \in Killers => kills[p] > 0
  /\ ~linked
  /\ GotoP(p, "failed")
  /\ UNCHANGED <<slot, kills, marks, workspaceVars>>

\* History: p sees its slot free, but another process saw it free before and has not yet
\* stored its claim, or has freed it and not yet wiped the rest.
Contest(p) ==
  contested' = IF \E q \in Processes \ {p} : cpc[q] \in {"claim", "clear_rest"} /\ slot[q] = slot[p]
                 THEN contested \cup {slot[p]} ELSE contested

\* Mutant: a slot whose last job is answered passes for free.
SeeIdle(p) ==
  /\ cpc[p] = "scan"
  /\ slot[p] < MaxJobBuffers
  /\ Buffer(p).status \in {JOB_NO_REQUEST, JOB_COMPLETED}
  /\ GotoP(p, "claim")
  /\ Contest(p)
  /\ UNCHANGED <<slot, kills, untold, workspaceVars>>

\* The test of line 86; the store of line 88 is a step of its own.
SeeFree(p) ==
  /\ cpc[p] = "scan"
  /\ slot[p] < MaxJobBuffers
  /\ Buffer(p).status = JOB_NO_REQUEST
  /\ GotoP(p, "claim")
  /\ Contest(p)
  /\ UNCHANGED <<slot, kills, untold, workspaceVars>>

SeeTaken(p) ==
  /\ cpc[p] = "scan"
  /\ slot[p] < MaxJobBuffers
  /\ Buffer(p).status # JOB_NO_REQUEST
  /\ slot' = [slot EXCEPT ![p] = @ + 1]
  /\ UNCHANGED <<cpc, kills, marks, workspaceVars>>

\* No free slot: NULL.  A client may try again later, server_killer exits with -1.
NoneFree(p) ==
  /\ cpc[p] = "scan"
  /\ slot[p] = MaxJobBuffers
  /\ slot' = [slot EXCEPT ![p] = 0]
  /\ GotoP(p, IF p \in Killers THEN "failed" ELSE "idle")
  /\ UNCHANGED <<kills, marks, workspaceVars>>

\* Mutant: the slot is returned and not marked in use.
ClaimUnstored(p) ==
  /\ cpc[p] = "claim"
  /\ GotoP(p, "ready")
  /\ UNCHANGED <<slot, kills, marks, workspaceVars>>

Claim(p) ==
  /\ cpc[p] = "claim"
  /\ SetStatus(slot[p], JOB_BUFFER_IN_USE)
  /\ GotoP(p, "ready")
  /\ UNCHANGED <<slot, kills, marks, open_files, linked, execs, reached>>

-----------------------------------------------------------------------------
\* The client opens a file by itself: CMD_OPEN is not served.
OpenFile(p) ==
  /\ p \in Clients
  /\ cpc[p] = "ready"
  /\ \E fd \in Fds, f \in Files :
       /\ open_files[p][fd] = NoFile
       /\ open_files' = [open_files EXCEPT ![p][fd] = f]
  /\ UNCHANGED <<clientVars, job_buffers, linked, execs, reached>>

\* The client describes a job; pid is set with the first one.
FillJob(p) ==
  /\ p \in Clients
  /\ cpc[p] = "ready"
  /\ \E cmd \in {CMD_WRITE, CMD_CLOSE}, fd \in Fds :
       /\ open_files[p][fd] # NoFile
       /\ job_buffers' = [job_buffers EXCEPT ![slot[p]] =
                            [@ EXCEPT !.pid = p, !.cmd = cmd, !.arg1 = fd]]
  /\ GotoP(p, "filled")
  /\ UNCHANGED <<slot, kills, marks, open_files, linked, execs, reached>>

\* server_killer stores nothing but the command.
FillKill(k) ==
  /\ k \in Killers
  /\ cpc[k] = "ready"
  /\ job_buffers' = [job_buffers EXCEPT ![slot[k]].cmd = CMD_KILL_SERVER]
  /\ GotoP(k, "filled")
  /\ UNCHANGED <<slot, kills, marks, open_files, linked, execs, reached>>

\* The history of a slot starts afresh with a job and ends with its answer.
NewHistory(p) ==
  /\ execs' = [execs EXCEPT ![slot[p]] = 0]
  /\ reached' = [reached EXCEPT ![slot[p]] = NoFile]

\* submit_job_request
Submitted(p) ==
  /\ SetStatus(slot[p], JOB_REQUESTED)
  /\ NewHistory(p)
  /\ UNCHANGED <<slot, kills, marks, open_files, linked>>

Submit(p) ==
  /\ cpc[p] = "filled"
  /\ Submitted(p)
  /\ GotoP(p, "wait")

\* wait_for_job_completion leaves its loop; after a CMD_CLOSE the client closes too.
ClientAnswered(p) ==
  /\ p \in Clients
  /\ cpc[p] = "wait"
  /\ Buffer(p).status = JOB_COMPLETED
  /\ open_files' = IF Buffer(p).cmd = CMD_CLOSE
                     THEN [open_files EXCEPT ![p][Buffer(p).arg1] = NoFile]
                     ELSE open_files
  /\ GotoP(p, "ready")
  /\ NewHistory(p)
  /\ UNCHANGED <<slot, kills, marks, job_buffers, linked>>

\* server_killer's loop: the slot is never given back, the next kill takes another.
KillAnswered(k) ==
  /\ k \in Killers
  /\ cpc[k] = "wait"
  /\ Buffer(k).status = JOB_COMPLETED
  /\ kills' = [kills EXCEPT ![k] = @ - 1]
  /\ GotoP(k, IF kills[k] = 1 THEN "done" ELSE "idle")
  /\ NewHistory(k)
  /\ UNCHANGED <<slot, marks, job_buffers, open_files, linked>>

-----------------------------------------------------------------------------
\* disconnect_job_buffer.  The store of CMD_DISCONNECT is dead for a compiler
\* that sees the memset below it: whether it happens is the build's choice.
Disconnect(p) ==
  /\ p \in Clients
  /\ cpc[p] = "ready"
  /\ SessionsAllow(p)
  /\ \/ /\ TRUE \in DisconnectStored
        /\ job_buffers' = [job_buffers EXCEPT ![slot[p]].cmd = CMD_DISCONNECT]
        /\ UNCHANGED untold
     \/ /\ FALSE \in DisconnectStored
        /\ untold' = untold \cup {slot[p]}
        /\ UNCHANGED job_buffers
  /\ GotoP(p, "leaving")
  /\ UNCHANGED <<slot, kills, contested, open_files, linked, execs, reached>>

SubmitDisconnect(p) ==
  /\ cpc[p] = "leaving"
  /\ Submitted(p)
  /\ GotoP(p, "leavewait")

\* Mutant: the buffer is wiped without waiting for the server.
DisconnectUnawaited(p) ==
  /\ cpc[p] = "leavewait"
  /\ GotoP(p, "clear")
  /\ NewHistory(p)
  /\ UNCHANGED <<slot, kills, marks, job_buffers, open_files, linked>>

DisconnectAnswered(p) ==
  /\ cpc[p] = "leavewait"
  /\ Buffer(p).status = JOB_COMPLETED
  /\ GotoP(p, "clear")
  /\ NewHistory(p)
  /\ UNCHANGED <<slot, kills, marks, job_buffers, open_files, linked>>

\* memset of the buffer: two spans, in the order the build clears them.
ZeroHead(b) == [b EXCEPT !.pid = NoPid, !.cmd = CMD_NONE, !.status = JOB_NO_REQUEST]
ZeroRest(b) == [b EXCEPT !.arg1 = 0, !.response = 0]

ClearBegins(p) ==
  /\ cpc[p] = "clear"
  /\ \E statusFirst \in ClearStatusFirst :
       IF statusFirst
         THEN /\ job_buffers' = [job_buffers EXCEPT ![slot[p]] = ZeroHead(@)]
              /\ GotoP(p, "clear_rest")
         ELSE /\ job_buffers' = [job_buffers EXCEPT ![slot[p]] = ZeroRest(@)]
              /\ GotoP(p, "clear_head")
  /\ UNCHANGED <<slot, kills, marks, open_files, linked, execs, reached>>

\* The client's process ends; another one takes its place.
ClearEnds(p) ==
  /\ \/ /\ cpc[p] = "clear_rest"
        /\ job_buffers' = [job_buffers EXCEPT ![slot[p]] = ZeroRest(@)]
     \/ /\ cpc[p] = "clear_head"
        /\ job_buffers' = [job_buffers EXCEPT ![slot[p]] = ZeroHead(@)]
  /\ open_files' = [open_files EXCEPT ![p] = StdinOnly]
  /\ slot' = [slot EXCEPT ![p] = 0]
  /\ GotoP(p, "idle")
  /\ UNCHANGED <<kills, marks, linked, execs, reached>>

\* A client dies where it stands: its descriptors go, its slot stays as it is.
Crash(p) ==
  /\ p \in MayCrash
  /\ cpc[p] # "dead"
  /\ open_files' = [open_files EXCEPT ![p] = NothingOpen]
  /\ GotoP(p, "dead")
  /\ UNCHANGED <<slot, kills, marks, job_buffers, linked, execs, reached>>

ScanStep(p) == SeeFree(p) \/ SeeTaken(p) \/ NoneFree(p)

\* What a process does once it has started something, without a choice of its own.
Proceed(p) ==
  \/ ScanStep(p) \/ Claim(p) \/ FillKill(p) \/ Submit(p)
  \/ ClientAnswered(p) \/ KillAnswered(p)
  \/ SubmitDisconnect(p) \/ DisconnectAnswered(p) \/ ClearBegins(p) \/ ClearEnds(p)

ProcessStep(p) ==
  \/ Connect(p) \/ ConnectRefused(p) \/ OpenFile(p) \/ FillJob(p) \/ Disconnect(p)
  \/ Proceed(p) \/ Crash(p)
=============================================================================
