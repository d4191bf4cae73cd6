--------------------------- MODULE WorkspaceServer ---------------------------
(***************************************************************************)
(* The IPC server: every thread runs workspace_thread, which polls the     *)
(* slots round robin under one try-lock per slot, carries out the job it   *)
(* finds, marks it completed and releases the slot; main joins the threads *)
(* and closes the shared memory object.                                    *)
(*                                                                         *)
(* Source: src/shmem_ipc/server.c                                          *)
(***************************************************************************)
EXTENDS Workspace

VARIABLES
  tpc,             \* where each thread is in workspace_thread
  idx,             \* its local idx
  clientfd,        \* its local clientfd, 0 outside case CMD_WRITE
  locks,           \* the spin locks, TRUE when taken
  bShouldExit,     \* set by CMD_KILL_SERVER
  registered_fds   \* per slot and client descriptor: the borrowed file, or NoFile (0)

serverVars == <<tpc, idx, clientfd, locks, bShouldExit, registered_fds>>

ThreadPcs == {"loop", "trylock", "check", "skip", "switch", "borrow", "write",
              "complete", "unlock", "exited"}

ServerTypeOK ==
  /\ tpc \in [Threads -> ThreadPcs]
  /\ idx \in [Threads -> Slots]
  /\ clientfd \in [Threads -> AllFds]
  /\ locks \in [Slots -> BOOLEAN]
  /\ bShouldExit \in BOOLEAN
  /\ registered_fds \in [Slots -> [AllFds -> FileOrNone]]

EmptyRow == [fd \in AllFds |-> NoFile]

ServerInit ==
  /\ tpc = [t \in Threads |-> "loop"]
  /\ idx = [t \in Threads |-> 0]
  /\ clientfd = [t \in Threads |-> 0]
  /\ locks = [s \in Slots |-> FALSE]
  /\ bShouldExit = FALSE
  /\ registered_fds = [s \in Slots |-> EmptyRow]

Holding(t) == tpc[t] \in {"check", "skip", "switch", "borrow", "write", "complete", "unlock"}
Serving(t) == tpc[t] \in {"switch", "borrow", "write", "complete"}

Goto(t, label) == tpc' = [tpc EXCEPT ![t] = label]
Job(t) == job_buffers[idx[t]]
\* Mutants: idx never wraps; idx wraps before the last slot.
NextIndexUnwrapped(i) == i + 1
NextIndexShort(i) == IF i + 2 >= MaxJobBuffers THEN 0 ELSE i + 1

NextIndex(i) == IF i + 1 = MaxJobBuffers THEN 0 ELSE i + 1
Advance(t) == idx' = [idx EXCEPT ![t] = NextIndex(idx[t])]

-----------------------------------------------------------------------------
\* while (!bShouldExit): tested only between two jobs, never while polling.
LoopTest(t) ==
  /\ tpc[t] = "loop"
  /\ Goto(t, IF bShouldExit THEN "exited" ELSE "trylock")
  /\ UNCHANGED <<idx, clientfd, locks, bShouldExit, registered_fds, workspaceVars>>

\* Mutant: the result of the try-lock is ignored.
TryLockUntested(t) ==
  /\ tpc[t] = "trylock"
  /\ locks' = [locks EXCEPT ![idx[t]] = TRUE]
  /\ Goto(t, "check")
  /\ UNCHANGED <<idx, clientfd, bShouldExit, registered_fds, workspaceVars>>

TryLock(t) ==
  /\ tpc[t] = "trylock"
  /\ ~locks[idx[t]]
  /\ locks' = [locks EXCEPT ![idx[t]] = TRUE]
  /\ Goto(t, "check")
  /\ UNCHANGED <<idx, clientfd, bShouldExit, registered_fds, workspaceVars>>

TryLockFails(t) ==
  /\ tpc[t] = "trylock"
  /\ locks[idx[t]]
  /\ Advance(t)
  /\ UNCHANGED <<tpc, clientfd, locks, bShouldExit, registered_fds, workspaceVars>>

\* Mutant: any claimed slot counts as one with a job.
CheckStatusLoose(t) ==
  /\ tpc[t] = "check"
  /\ Goto(t, IF Job(t).status # JOB_NO_REQUEST THEN "switch" ELSE "skip")
  /\ UNCHANGED <<idx, clientfd, locks, bShouldExit, registered_fds, workspaceVars>>

CheckStatus(t) ==
  /\ tpc[t] = "check"
  /\ Goto(t, IF Job(t).status = JOB_REQUESTED THEN "switch" ELSE "skip")
  /\ UNCHANGED <<idx, clientfd, locks, bShouldExit, registered_fds, workspaceVars>>

\* Mutant: the lock of a slot without a job is kept.
SkipSlotLocked(t) ==
  /\ tpc[t] = "skip"
  /\ Advance(t)
  /\ Goto(t, "trylock")
  /\ UNCHANGED <<clientfd, locks, bShouldExit, registered_fds, workspaceVars>>

SkipSlot(t) ==
  /\ tpc[t] = "skip"
  /\ locks' = [locks EXCEPT ![idx[t]] = FALSE]
  /\ Advance(t)
  /\ Goto(t, "trylock")
  /\ UNCHANGED <<clientfd, bShouldExit, registered_fds, workspaceVars>>

-----------------------------------------------------------------------------
\* switch (job_buffer->cmd).  The history variable counts the execution.
CountExecution(t) ==
  execs' = [execs EXCEPT ![idx[t]] = IF @ = 2 THEN 2 ELSE @ + 1]

SwitchWrite(t) ==
  /\ tpc[t] = "switch"
  /\ Job(t).cmd = CMD_WRITE
  /\ clientfd' = [clientfd EXCEPT ![t] = Job(t).arg1]
  /\ Goto(t, IF registered_fds[idx[t]][Job(t).arg1] = NoFile THEN "borrow" ELSE "write")
  /\ CountExecution(t)
  /\ UNCHANGED <<idx, locks, bShouldExit, registered_fds, job_buffers, open_files, linked, reached>>

\* Mutant: CMD_CLOSE leaves the borrowed file registered.
SwitchCloseKept(t) ==
  /\ tpc[t] = "switch"
  /\ Job(t).cmd = CMD_CLOSE
  /\ Goto(t, "complete")
  /\ CountExecution(t)
  /\ UNCHANGED <<idx, clientfd, locks, bShouldExit, registered_fds,
                 job_buffers, open_files, linked, reached>>

SwitchClose(t) ==
  /\ tpc[t] = "switch"
  /\ Job(t).cmd = CMD_CLOSE
  /\ registered_fds' = [registered_fds EXCEPT ![idx[t]][Job(t).arg1] = NoFile]
  /\ Goto(t, "complete")
  /\ CountExecution(t)
  /\ UNCHANGED <<idx, clientfd, locks, bShouldExit, job_buffers, open_files, linked, reached>>

SwitchKill(t) ==
  /\ tpc[t] = "switch"
  /\ Job(t).cmd = CMD_KILL_SERVER
  /\ bShouldExit' = TRUE
  /\ Goto(t, "complete")
  /\ CountExecution(t)
  /\ UNCHANGED <<idx, clientfd, locks, registered_fds, job_buffers, open_files, linked, reached>>

\* Mutant: CMD_DISCONNECT leaves the borrowed files registered.
SwitchDisconnectKept(t) ==
  /\ tpc[t] = "switch"
  /\ Job(t).cmd = CMD_DISCONNECT
  /\ Goto(t, "complete")
  /\ CountExecution(t)
  /\ UNCHANGED <<idx, clientfd, locks, bShouldExit, registered_fds,
                 job_buffers, open_files, linked, reached>>

SwitchDisconnect(t) ==
  /\ tpc[t] = "switch"
  /\ Job(t).cmd = CMD_DISCONNECT
  /\ registered_fds' = [registered_fds EXCEPT ![idx[t]] = EmptyRow]
  /\ Goto(t, "complete")
  /\ CountExecution(t)
  /\ UNCHANGED <<idx, clientfd, locks, bShouldExit, job_buffers, open_files, linked, reached>>

\* default: CMD_OPEN and a blank command change nothing.
SwitchDefault(t) ==
  /\ tpc[t] = "switch"
  /\ Job(t).cmd \in {CMD_NONE, CMD_OPEN}
  /\ Goto(t, "complete")
  /\ CountExecution(t)
  /\ UNCHANGED <<idx, clientfd, locks, bShouldExit, registered_fds,
                 job_buffers, open_files, linked, reached>>

\* The end of case CMD_WRITE, where clientfd goes out of scope.
EndWrite(t) ==
  /\ clientfd' = [clientfd EXCEPT ![t] = 0]
  /\ Goto(t, "complete")

\* pidfd_open and pidfd_getfd on the pid and arg1 the buffer holds NOW.
Borrow(t) ==
  /\ tpc[t] = "borrow"
  /\ Job(t).pid \in Processes
  /\ LET borrowed_fd == open_files[Job(t).pid][Job(t).arg1]
     IN /\ borrowed_fd # NoFile
        /\ registered_fds' = [registered_fds EXCEPT ![idx[t]][clientfd[t]] = borrowed_fd]
  /\ Goto(t, "write")
  /\ UNCHANGED <<idx, clientfd, locks, bShouldExit, workspaceVars>>

\* Mutant: the row is filled before the error is looked at.
BorrowFailsCached(t) ==
  /\ tpc[t] = "borrow"
  /\ EndWrite(t)
  /\ registered_fds' = [registered_fds EXCEPT ![idx[t]][clientfd[t]] = Terminal]
  /\ UNCHANGED <<idx, locks, bShouldExit, workspaceVars>>

\* borrowed_fd == -1: no such process or descriptor, no permission, or no
\* descriptor left in the server.  The case breaks without storing a response.
BorrowFails(t) ==
  /\ tpc[t] = "borrow"
  /\ EndWrite(t)
  /\ UNCHANGED <<idx, locks, bShouldExit, registered_fds, workspaceVars>>

\* Mutant: the write answers at once, and is marked completed again below.
WriteAnswersEarly(t) ==
  /\ tpc[t] = "write"
  /\ \E result \in {-1, 1} :
       /\ job_buffers' = [job_buffers EXCEPT ![idx[t]].response = result,
                                             ![idx[t]].status = JOB_COMPLETED]
       /\ reached' = IF result = 1
                       THEN [reached EXCEPT ![idx[t]] = registered_fds[idx[t]][clientfd[t]]]
                       ELSE reached
  /\ EndWrite(t)
  /\ UNCHANGED <<idx, locks, bShouldExit, registered_fds, open_files, linked, execs>>

\* write() to the registered descriptor; the kernel may refuse it.
Write(t) ==
  /\ tpc[t] = "write"
  /\ \E result \in {-1, 1} :
       /\ job_buffers' = [job_buffers EXCEPT ![idx[t]].response = result]
       /\ reached' = IF result = 1
                       THEN [reached EXCEPT ![idx[t]] = registered_fds[idx[t]][clientfd[t]]]
                       ELSE reached
  /\ EndWrite(t)
  /\ UNCHANGED <<idx, locks, bShouldExit, registered_fds, open_files, linked, execs>>

MarkJobCompleted(t) ==
  /\ tpc[t] = "complete"
  /\ SetStatus(idx[t], JOB_COMPLETED)
  /\ Goto(t, "unlock")
  /\ UNCHANGED <<idx, clientfd, locks, bShouldExit, registered_fds, open_files, linked, execs, reached>>

\* idx stays: the slot just served is the first one polled again.
Unlock(t) ==
  /\ tpc[t] = "unlock"
  /\ locks' = [locks EXCEPT ![idx[t]] = FALSE]
  /\ Goto(t, "loop")
  /\ UNCHANGED <<idx, clientfd, bShouldExit, registered_fds, workspaceVars>>

Switch(t) == \/ SwitchWrite(t) \/ SwitchClose(t) \/ SwitchKill(t)
             \/ SwitchDisconnect(t) \/ SwitchDefault(t)

ThreadStep(t) ==
  \/ LoopTest(t) \/ TryLock(t) \/ TryLockFails(t) \/ CheckStatus(t) \/ SkipSlot(t)
  \/ Switch(t) \/ Borrow(t) \/ BorrowFails(t) \/ Write(t)
  \/ MarkJobCompleted(t) \/ Unlock(t)

\* main, after the last pthread_join: ipc_close unlinks the object.
CloseWorkspace ==
  /\ linked
  /\ \A t \in Threads : tpc[t] = "exited"
  /\ linked' = FALSE
  /\ UNCHANGED <<serverVars, job_buffers, open_files, execs, reached>>
=============================================================================
