-------------------------- MODULE IpcSessionProofs --------------------------
(***************************************************************************)
(* Safety of IpcSystem for any number of slots, threads, clients and       *)
(* server_killers and for every build: types are kept and the threads      *)
(* exclude each other; and in a slot that nobody contested there is one    *)
(* owner, and an answer comes after one execution.                         *)
(***************************************************************************)
EXTENDS IpcSystem, TLAPS

-----------------------------------------------------------------------------
\* Type correctness: the server, the processes, and the count of kills.

\* The index a thread polls next is a slot (server.c:28-31).
LEMMA NextIndexIsSlot ==
  ASSUME NEW i \in Slots
  PROVE  NextIndex(i) \in Slots
  BY BuffersAssumption DEF NextIndex, Slots

\* Storing a stage in any buffer keeps the type of the workspace (ipc.h:23-32).
LEMMA SetStatusType ==
  ASSUME job_buffers \in [Slots -> JobRequestBuffer],
         NEW s, NEW value \in Statuses, SetStatus(s, value)
  PROVE  job_buffers' \in [Slots -> JobRequestBuffer]
<1>1. \A b \in JobRequestBuffer : [b EXCEPT !.status = value] \in JobRequestBuffer
  BY DEF JobRequestBuffer
<1>2. job_buffers' = [job_buffers EXCEPT ![s] = [job_buffers[s] EXCEPT !.status = value]]
  BY DEF SetStatus
<1>3. QED
  BY <1>1, <1>2

\* Replacing a whole buffer by another one keeps it too.
LEMMA ReplaceBufferType ==
  ASSUME job_buffers \in [Slots -> JobRequestBuffer], NEW s, NEW b,
         s \in Slots => b \in JobRequestBuffer,
         job_buffers' = [job_buffers EXCEPT ![s] = b]
  PROVE  job_buffers' \in [Slots -> JobRequestBuffer]
  OBVIOUS

\* The server starts with a zeroed workspace and free locks.
LEMMA InitTypeOK == Init => TypeOK
<1> SUFFICES ASSUME Init PROVE TypeOK
  OBVIOUS
<1>1. BlankBuffer \in JobRequestBuffer
  BY DEF BlankBuffer, JobRequestBuffer, Statuses, Commands, Responses, AllFds,
         JOB_NO_REQUEST, CMD_NONE
<1>2. StdinOnly \in [AllFds -> FileOrNone] /\ EmptyRow \in [AllFds -> FileOrNone]
  BY FileAssumption DEF StdinOnly, EmptyRow, FileOrNone
<1>3. WorkspaceTypeOK
  BY <1>1, <1>2 DEF Init, WorkspaceInit, WorkspaceTypeOK, FileOrNone
<1>4. ServerTypeOK
  <2>1. 0 \in Slots
    BY BuffersAssumption DEF Slots
  <2>2. QED
    BY <1>2, <2>1 DEF Init, ServerInit, ServerTypeOK, ThreadPcs, AllFds
<1>5. ClientTypeOK
  BY BuffersAssumption, KillsAssumption DEF Init, ClientInit, ClientTypeOK, ClientPcs
<1>6. QED
  BY <1>3, <1>4, <1>5 DEF TypeOK

\* A thread keeps the types: it moves along its loop, takes and releases locks,
\* caches borrowed files, and stores responses and stages.
LEMMA ThreadStepTypeOK ==
  ASSUME TypeOK, NEW t \in Threads, ThreadStep(t), UNCHANGED clientVars
  PROVE  TypeOK'
<1> USE DEF TypeOK, WorkspaceTypeOK, ServerTypeOK, ClientTypeOK, workspaceVars, clientVars, marks,
            Goto, ThreadPcs
<1>1. CASE LoopTest(t)
  BY <1>1 DEF LoopTest
<1>2. CASE TryLock(t)
  BY <1>2 DEF TryLock
<1>3. CASE TryLockFails(t)
  BY <1>3, NextIndexIsSlot DEF TryLockFails, Advance
<1>4. CASE CheckStatus(t)
  BY <1>4 DEF CheckStatus
<1>5. CASE SkipSlot(t)
  BY <1>5, NextIndexIsSlot DEF SkipSlot, Advance
<1>6. CASE Switch(t)
  <2>1. execs' \in [Slots -> 0 .. 2]
    <3>1. CountExecution(t)
      BY <1>6 DEF Switch, SwitchWrite, SwitchClose, SwitchKill, SwitchDisconnect, SwitchDefault
    <3>2. execs[idx[t]] \in 0 .. 2
      OBVIOUS
    <3>3. (IF execs[idx[t]] = 2 THEN 2 ELSE execs[idx[t]] + 1) \in 0 .. 2
      BY <3>2
    <3>4. QED
      BY <3>1, <3>3 DEF CountExecution
  <2>2. CASE SwitchWrite(t)
    BY <2>1, <2>2 DEF SwitchWrite, Job, JobRequestBuffer
  <2>3. CASE SwitchClose(t)
    BY <2>1, <2>3 DEF SwitchClose, FileOrNone
  <2>4. CASE SwitchKill(t)
    BY <2>1, <2>4 DEF SwitchKill
  <2>5. CASE SwitchDisconnect(t)
    BY <2>1, <2>5 DEF SwitchDisconnect, EmptyRow, FileOrNone
  <2>6. CASE SwitchDefault(t)
    BY <2>1, <2>6 DEF SwitchDefault
  <2>7. QED
    BY <1>6, <2>2, <2>3, <2>4, <2>5, <2>6 DEF Switch
<1>7. CASE Borrow(t)
  BY <1>7 DEF Borrow, Job, JobRequestBuffer
<1>8. CASE BorrowFails(t)
  BY <1>8 DEF BorrowFails, EndWrite, AllFds
<1>9. CASE Write(t)
  <2>1. PICK result \in {-1, 1} :
          job_buffers' = [job_buffers EXCEPT ![idx[t]] = [Job(t) EXCEPT !.response = result]]
    BY <1>9 DEF Write, Job
  <2>2. job_buffers' \in [Slots -> JobRequestBuffer]
    <3>1. Job(t) \in JobRequestBuffer
      BY DEF Job
    <3>2. [Job(t) EXCEPT !.response = result] \in JobRequestBuffer
      BY <3>1 DEF JobRequestBuffer, Responses
    <3>3. QED
      BY <2>1, <3>2, ReplaceBufferType
  <2>3. reached' \in [Slots -> FileOrNone]
    BY <1>9 DEF Write
  <2>4. clientfd' \in [Threads -> AllFds] /\ tpc' \in [Threads -> ThreadPcs]
    BY <1>9 DEF Write, EndWrite, AllFds
  <2>5. QED
    BY <1>9, <2>2, <2>3, <2>4 DEF Write
<1>10. CASE MarkJobCompleted(t)
  <2>1. job_buffers' \in [Slots -> JobRequestBuffer]
    BY <1>10, SetStatusType DEF MarkJobCompleted, Statuses
  <2>2. QED
    BY <1>10, <2>1 DEF MarkJobCompleted
<1>11. CASE Unlock(t)
  BY <1>11 DEF Unlock
<1>12. QED
  BY <1>1, <1>2, <1>3, <1>4, <1>5, <1>6, <1>7, <1>8, <1>9, <1>10, <1>11 DEF ThreadStep

\* A server_killer in its loop has a kill left to send (server_killer.c:8), which
\* is what keeps the counter of kills from falling below zero.
KillsLeft ==
  \A k \in Killers : Connecting(k) \/ cpc[k] \in {"ready", "filled", "wait"} => kills[k] > 0

\* A process keeps the types: it scans, claims, fills, submits, collects,
\* disconnects and wipes, or dies.
LEMMA ProcessStepTypeOK ==
  ASSUME TypeOK, KillsLeft, NEW p \in Processes, ProcessStep(p), UNCHANGED serverVars
  PROVE  TypeOK'
<1> USE DEF TypeOK, WorkspaceTypeOK, ServerTypeOK, ClientTypeOK, workspaceVars, serverVars, marks,
            GotoP, ClientPcs
<1>a. NoFile \in FileOrNone /\ Terminal \in FileOrNone
  BY FileAssumption DEF FileOrNone
<1>b. 0 \in 0 .. MaxJobBuffers
  BY BuffersAssumption
<1>c. execs' \in [Slots -> 0 .. 2] /\ reached' \in [Slots -> FileOrNone]
  <2>1. CASE NewHistory(p)
    <3>1. execs' = [execs EXCEPT ![slot[p]] = 0] /\ reached' = [reached EXCEPT ![slot[p]] = NoFile]
      BY <2>1 DEF NewHistory
    <3>2. QED
      <4>1. execs' \in [Slots -> 0 .. 2]
        <5>1. 0 \in 0 .. 2
          OBVIOUS
        <5>2. QED
          BY <3>1, <5>1, Zenon
      <4>2. reached' \in [Slots -> FileOrNone]
        BY <1>a, <3>1
      <4>3. QED
        BY <4>1, <4>2
  <2>2. CASE UNCHANGED <<execs, reached>>
    BY <2>2
  <2>3. QED
    BY <2>1, <2>2 DEF ProcessStep, Proceed, ScanStep, Connect, ConnectRefused, OpenFile, FillJob,
       Disconnect, Crash, SeeFree, SeeTaken, NoneFree, Claim, FillKill, Submit, ClientAnswered,
       KillAnswered, SubmitDisconnect, DisconnectAnswered, ClearBegins, ClearEnds, Submitted
<1>d. slot[p] \in Slots => ZeroHead(Buffer(p)) \in JobRequestBuffer /\ ZeroRest(Buffer(p)) \in JobRequestBuffer
  <2>1. SUFFICES ASSUME slot[p] \in Slots
                 PROVE  /\ ZeroHead(Buffer(p)) \in JobRequestBuffer
                        /\ ZeroRest(Buffer(p)) \in JobRequestBuffer
    OBVIOUS
  <2>2. Buffer(p) \in JobRequestBuffer
    BY <2>1 DEF Buffer
  <2>3. ZeroHead(Buffer(p)) \in JobRequestBuffer
    BY <2>2 DEF ZeroHead, JobRequestBuffer, Commands, Statuses
  <2>4. ZeroRest(Buffer(p)) \in JobRequestBuffer
    BY <2>2 DEF ZeroRest, JobRequestBuffer, AllFds, Responses
  <2>5. QED
    BY <2>3, <2>4
<1>1. CASE Connect(p)
  BY <1>1, <1>b DEF Connect
<1>2. CASE ConnectRefused(p)
  BY <1>2 DEF ConnectRefused
<1>3. CASE OpenFile(p)
  <2>1. PICK fd \in Fds, f \in Files : open_files' = [open_files EXCEPT ![p][fd] = f]
    BY <1>3 DEF OpenFile
  <2>2. open_files' \in [Processes -> [AllFds -> FileOrNone]]
    BY <2>1 DEF FileOrNone
  <2>3. QED
    BY <1>3, <2>2 DEF OpenFile, clientVars
<1>4. CASE FillJob(p)
  <2>1. PICK cmd \in {CMD_WRITE, CMD_CLOSE}, fd \in Fds :
          job_buffers' = [job_buffers EXCEPT ![slot[p]] =
                            [job_buffers[slot[p]] EXCEPT !.pid = p, !.cmd = cmd, !.arg1 = fd]]
    BY <1>4 DEF FillJob
  <2>2. slot[p] \in Slots =>
          [job_buffers[slot[p]] EXCEPT !.pid = p, !.cmd = cmd, !.arg1 = fd] \in JobRequestBuffer
    <3>1. SUFFICES ASSUME slot[p] \in Slots
                   PROVE  [job_buffers[slot[p]] EXCEPT !.pid = p, !.cmd = cmd, !.arg1 = fd]
                            \in JobRequestBuffer
      OBVIOUS
    <3>2. job_buffers[slot[p]] \in JobRequestBuffer
      BY <3>1
    <3>3. cmd \in Commands /\ fd \in AllFds
      BY DEF Commands, AllFds
    <3>4. QED
      BY <3>2, <3>3 DEF JobRequestBuffer
  <2>3. job_buffers' \in [Slots -> JobRequestBuffer]
    BY <2>1, <2>2, ReplaceBufferType
  <2>4. QED
    BY <1>4, <2>3 DEF FillJob
<1>5. CASE Disconnect(p)
  <2>1. slot[p] \in Slots => [job_buffers[slot[p]] EXCEPT !.cmd = CMD_DISCONNECT] \in JobRequestBuffer
    BY DEF JobRequestBuffer, Commands
  <2>2. \/ job_buffers' = [job_buffers EXCEPT ![slot[p]] =
                             [job_buffers[slot[p]] EXCEPT !.cmd = CMD_DISCONNECT]]
        \/ job_buffers' = job_buffers
    BY <1>5 DEF Disconnect
  <2>3. job_buffers' \in [Slots -> JobRequestBuffer]
    BY <2>1, <2>2, ReplaceBufferType
  <2>4. QED
    BY <1>5, <2>3 DEF Disconnect
<1>6. CASE Crash(p)
  <2>1. NothingOpen \in [AllFds -> FileOrNone]
    BY <1>a DEF NothingOpen
  <2>2. QED
    BY <1>6, <2>1 DEF Crash
<1>7. CASE ScanStep(p)
  <2>1. CASE SeeFree(p)
    BY <2>1 DEF SeeFree, Contest
  <2>2. CASE SeeTaken(p)
    <3>1. slot[p] + 1 \in 0 .. MaxJobBuffers
      BY <2>2, BuffersAssumption DEF SeeTaken
    <3>2. QED
      BY <2>2, <3>1 DEF SeeTaken
  <2>3. CASE NoneFree(p)
    BY <2>3, <1>b DEF NoneFree
  <2>4. QED
    BY <1>7, <2>1, <2>2, <2>3 DEF ScanStep
<1>8. CASE Claim(p)
  BY <1>8, SetStatusType DEF Claim, Statuses
<1>9. CASE FillKill(p)
  <2>1. slot[p] \in Slots => [job_buffers[slot[p]] EXCEPT !.cmd = CMD_KILL_SERVER] \in JobRequestBuffer
    BY DEF JobRequestBuffer, Commands
  <2>2. job_buffers' = [job_buffers EXCEPT ![slot[p]] =
                          [job_buffers[slot[p]] EXCEPT !.cmd = CMD_KILL_SERVER]]
    BY <1>9 DEF FillKill
  <2>3. job_buffers' \in [Slots -> JobRequestBuffer]
    BY <2>1, <2>2, ReplaceBufferType
  <2>4. QED
    BY <1>9, <2>3 DEF FillKill
<1>10. CASE Submit(p) \/ SubmitDisconnect(p)
  <2>1. job_buffers' \in [Slots -> JobRequestBuffer]
    BY <1>10, SetStatusType DEF Submit, SubmitDisconnect, Submitted, Statuses
  <2>2. QED
    BY <1>10, <1>c, <2>1 DEF Submit, SubmitDisconnect, Submitted
<1>11. CASE ClientAnswered(p)
  BY <1>11, <1>a, <1>c DEF ClientAnswered
<1>12. CASE KillAnswered(p)
  <2>1. kills' \in [Killers -> 0 .. Kills]
    <3>1. kills[p] \in 0 .. Kills /\ kills[p] > 0
      BY <1>12 DEF KillAnswered, KillsLeft
    <3>2. kills[p] - 1 \in 0 .. Kills
      BY <3>1, KillsAssumption
    <3>3. QED
      BY <1>12, <3>2 DEF KillAnswered
  <2>2. QED
    BY <1>12, <1>c, <2>1 DEF KillAnswered
<1>13. CASE DisconnectAnswered(p)
  BY <1>13, <1>c DEF DisconnectAnswered
<1>14. CASE ClearBegins(p)
  <2>1. \/ job_buffers' = [job_buffers EXCEPT ![slot[p]] = ZeroHead(Buffer(p))]
        \/ job_buffers' = [job_buffers EXCEPT ![slot[p]] = ZeroRest(Buffer(p))]
    BY <1>14 DEF ClearBegins, Buffer
  <2>2. job_buffers' \in [Slots -> JobRequestBuffer]
    BY <2>1, <1>d, ReplaceBufferType
  <2>3. QED
    BY <1>14, <2>2 DEF ClearBegins
<1>15. CASE ClearEnds(p)
  <2>1. \/ job_buffers' = [job_buffers EXCEPT ![slot[p]] = ZeroHead(Buffer(p))]
        \/ job_buffers' = [job_buffers EXCEPT ![slot[p]] = ZeroRest(Buffer(p))]
    BY <1>15 DEF ClearEnds, Buffer
  <2>2. job_buffers' \in [Slots -> JobRequestBuffer]
    BY <2>1, <1>d, ReplaceBufferType
  <2>3. StdinOnly \in [AllFds -> FileOrNone]
    BY <1>a DEF StdinOnly
  <2>4. QED
    BY <1>15, <1>b, <2>2, <2>3 DEF ClearEnds
<1>16. QED
  BY <1>1, <1>2, <1>3, <1>4, <1>5, <1>6, <1>7, <1>8, <1>9, <1>10, <1>11, <1>12, <1>13, <1>14,
     <1>15 DEF ProcessStep, Proceed

\* Threads touch neither a process nor its count; a process enters its loop with
\* kills left and leaves it when it has counted the last one down.
LEMMA StepKillsLeft ==
  ASSUME TypeOK, KillsLeft, [Next]_vars
  PROVE  KillsLeft'
<1> USE DEF KillsLeft, Connecting, TypeOK, ClientTypeOK, Processes
<1>1. CASE UNCHANGED clientVars
  BY <1>1 DEF clientVars
<1>2. ASSUME NEW p \in Processes, ProcessStep(p) PROVE KillsLeft'
  <2> USE <1>2 DEF GotoP
  <2>1. CASE Connect(p)
    BY <2>1 DEF Connect
  <2>2. CASE Proceed(p)
    <3>1. CASE KillAnswered(p)
      <4>1. kills[p] = 1 => cpc'[p] = "done"
        BY <3>1 DEF KillAnswered
      <4>2. kills[p] # 1 => cpc'[p] = "idle"
        BY <3>1 DEF KillAnswered
      <4>3. \A k \in Killers \ {p} : cpc'[k] = cpc[k] /\ kills'[k] = kills[k]
        BY <3>1 DEF KillAnswered
      <4>4. QED
        BY <4>1, <4>2, <4>3
    <3>2. CASE ClientAnswered(p)
      <4>1. p \notin Killers
        BY <3>2, ProcessAssumption DEF ClientAnswered
      <4>2. QED
        BY <3>2, <4>1 DEF ClientAnswered
    <3>3. CASE ScanStep(p)
      BY <3>3 DEF ScanStep, SeeFree, SeeTaken, NoneFree
    <3>4. CASE Claim(p) \/ FillKill(p)
      BY <3>4 DEF Claim, FillKill
    <3>5. CASE Submit(p)
      BY <3>5 DEF Submit, Submitted
    <3>6. CASE SubmitDisconnect(p) \/ DisconnectAnswered(p)
      BY <3>6 DEF SubmitDisconnect, Submitted, DisconnectAnswered
    <3>7. CASE ClearBegins(p)
      BY <3>7 DEF ClearBegins
    <3>8. CASE ClearEnds(p)
      BY <3>8 DEF ClearEnds
    <3>9. QED
      BY <2>2, <3>1, <3>2, <3>3, <3>4, <3>5, <3>6, <3>7, <3>8 DEF Proceed
  <2>3. CASE ConnectRefused(p) \/ Disconnect(p) \/ Crash(p)
    BY <2>3 DEF ConnectRefused, Disconnect, Crash
  <2>4. CASE OpenFile(p)
    BY <2>4 DEF OpenFile, clientVars
  <2>fill. CASE FillJob(p)
    <3>1. p \notin Killers
      BY <2>fill, ProcessAssumption DEF FillJob
    <3>2. QED
      BY <2>fill, <3>1 DEF FillJob
  <2> QED
    BY <2>1, <2>2, <2>3, <2>4, <2>fill DEF ProcessStep
<1>3. QED
  BY <1>1, <1>2 DEF Next, vars

\* Every step keeps the types.
LEMMA StepTypeOK ==
  ASSUME TypeOK, KillsLeft, [Next]_vars
  PROVE  TypeOK'
<1>1. ASSUME NEW t \in Threads, ThreadStep(t), UNCHANGED clientVars PROVE TypeOK'
  BY <1>1, ThreadStepTypeOK
<1>2. ASSUME CloseWorkspace, UNCHANGED clientVars PROVE TypeOK'
  BY <1>2 DEF CloseWorkspace, serverVars, clientVars, marks, TypeOK, WorkspaceTypeOK, ServerTypeOK,
              ClientTypeOK
<1>3. ASSUME NEW p \in Processes, ProcessStep(p), UNCHANGED serverVars PROVE TypeOK'
  BY <1>3, ProcessStepTypeOK
<1>4. CASE UNCHANGED vars
  BY <1>4 DEF vars, workspaceVars, serverVars, clientVars, marks, TypeOK, WorkspaceTypeOK,
              ServerTypeOK, ClientTypeOK
<1>5. QED
  BY <1>1, <1>2, <1>3, <1>4 DEF Next

\* Every variable of the workspace, the server and the processes keeps its type,
\* in every build and with any number of processes (server.c, ipc.c).
THEOREM TypeCorrectness == Spec => [](TypeOK /\ KillsLeft)
<1>1. Init => TypeOK /\ KillsLeft
  BY InitTypeOK DEF Init, ClientInit, KillsLeft, Connecting, Processes
<1>2. TypeOK /\ KillsLeft /\ [Next]_vars => (TypeOK /\ KillsLeft)'
  BY StepTypeOK, StepKillsLeft
<1>3. QED
  BY <1>1, <1>2, PTL DEF Spec

-----------------------------------------------------------------------------
\* Mutual exclusion of the threads.

\* Processes take no part in the locking of the threads (server.c:11).
LEMMA LocksUntouched ==
  ASSUME LockExclusion, UNCHANGED <<tpc, idx, locks>>
  PROVE  LockExclusion'
  BY DEF LockExclusion, Holding

\* Between the try-lock and the unlock a thread keeps its slot (server.c:24-91).
LEMMA HolderMovesOn ==
  ASSUME TypeOK, LockExclusion, NEW t \in Threads, Holding(t),
         UNCHANGED <<idx, locks>>, NEW label, Goto(t, label),
         label \in {"check", "skip", "switch", "borrow", "write", "complete", "unlock"}
  PROVE  LockExclusion'
<1>1. \A u \in Threads : Holding(u)' <=> Holding(u)
  BY DEF Goto, Holding, TypeOK, ServerTypeOK
<1>2. QED
  BY <1>1 DEF LockExclusion

\* A thread that holds no lock may move and poll elsewhere.
LEMMA OutsiderMovesOn ==
  ASSUME TypeOK, LockExclusion, NEW t \in Threads, ~Holding(t),
         UNCHANGED locks, tpc' \in [Threads -> ThreadPcs],
         \A u \in Threads \ {t} : tpc'[u] = tpc[u] /\ idx'[u] = idx[u],
         ~Holding(t)'
  PROVE  LockExclusion'
<1>1. \A u \in Threads : Holding(u)' <=> Holding(u)
  BY DEF Holding
<1>2. \A u \in Threads : Holding(u) => idx'[u] = idx[u]
  OBVIOUS
<1>3. QED
  BY <1>1, <1>2 DEF LockExclusion

\* Releasing: the thread leaves its slot and the slot's lock opens (server.c:27, 91).
LEMMA HolderReleases ==
  ASSUME TypeOK, LockExclusion, NEW t \in Threads, Holding(t),
         locks' = [locks EXCEPT ![idx[t]] = FALSE],
         \A u \in Threads \ {t} : tpc'[u] = tpc[u] /\ idx'[u] = idx[u],
         ~Holding(t)'
  PROVE  LockExclusion'
<1>1. \A u \in Threads \ {t} : (Holding(u)' <=> Holding(u)) /\ idx'[u] = idx[u]
  BY DEF Holding
<1>2. \A u \in Threads \ {t} : Holding(u) => idx[u] # idx[t]
  BY DEF LockExclusion
<1>3. \A s \in Slots : locks'[s] <=> locks[s] /\ s # idx[t]
  BY DEF TypeOK, ServerTypeOK
<1>4. \A s \in Slots : locks'[s] <=> \E u \in Threads : Holding(u)' /\ idx'[u] = s
  BY <1>1, <1>2, <1>3 DEF LockExclusion
<1>5. \A u, v \in Threads : u # v /\ Holding(u)' /\ Holding(v)' => idx'[u] # idx'[v]
  BY <1>1 DEF LockExclusion
<1>6. QED
  BY <1>4, <1>5 DEF LockExclusion

\* Taking: the lock was open, so no other thread is at the slot (server.c:23).
LEMMA TryLockExcludes ==
  ASSUME TypeOK, LockExclusion, NEW t \in Threads, TryLock(t)
  PROVE  LockExclusion'
<1> USE DEF TypeOK, ServerTypeOK
<1>1. Holding(t)' /\ ~Holding(t) /\ UNCHANGED idx
  BY DEF TryLock, Holding, Goto
<1>2. \A u \in Threads \ {t} : Holding(u)' <=> Holding(u)
  BY DEF TryLock, Holding, Goto
<1>3. \A u \in Threads \ {t} : Holding(u) => idx[u] # idx[t]
  BY DEF TryLock, LockExclusion
<1>4. \A s \in Slots : locks'[s] <=> locks[s] \/ s = idx[t]
  BY DEF TryLock
<1>5. \A s \in Slots : locks'[s] <=> \E u \in Threads : Holding(u)' /\ idx'[u] = s
  BY <1>1, <1>2, <1>4 DEF LockExclusion
<1>6. \A u, v \in Threads : u # v /\ Holding(u)' /\ Holding(v)' => idx'[u] # idx'[v]
  BY <1>1, <1>2, <1>3 DEF LockExclusion
<1>7. QED
  BY <1>5, <1>6 DEF LockExclusion

\* Every step of the system keeps the threads apart.
LEMMA StepLockExclusion ==
  ASSUME TypeOK, KillsLeft, LockExclusion, [Next]_vars
  PROVE  LockExclusion'
<1> USE DEF TypeOK, ServerTypeOK
<1>t. TypeOK'
  BY StepTypeOK
<1>1. ASSUME NEW t \in Threads, ThreadStep(t) PROVE LockExclusion'
  <2>1. CASE LoopTest(t)
    BY <2>1, <1>t, OutsiderMovesOn DEF LoopTest, Holding, Goto
  <2>2. CASE TryLock(t)
    BY <2>2, TryLockExcludes
  <2>3. CASE TryLockFails(t)
    BY <2>3, <1>t, OutsiderMovesOn DEF TryLockFails, Holding, Advance
  <2>4. CASE CheckStatus(t)
    BY <2>4, HolderMovesOn DEF CheckStatus, Holding
  <2>5. CASE SkipSlot(t)
    BY <2>5, HolderReleases DEF SkipSlot, Holding, Goto, Advance
  <2>6. CASE Switch(t)
    BY <2>6, HolderMovesOn DEF Switch, SwitchWrite, SwitchClose, SwitchKill, SwitchDisconnect,
                               SwitchDefault, Holding
  <2>7. CASE Borrow(t)
    BY <2>7, HolderMovesOn DEF Borrow, Holding
  <2>8. CASE BorrowFails(t) \/ Write(t)
    BY <2>8, HolderMovesOn DEF BorrowFails, Write, EndWrite, Holding
  <2>9. CASE MarkJobCompleted(t)
    BY <2>9, HolderMovesOn DEF MarkJobCompleted, Holding
  <2>10. CASE Unlock(t)
    BY <2>10, HolderReleases DEF Unlock, Holding, Goto
  <2>11. QED
    BY <1>1, <2>1, <2>2, <2>3, <2>4, <2>5, <2>6, <2>7, <2>8, <2>9, <2>10 DEF ThreadStep
<1>2. CASE UNCHANGED serverVars
  BY <1>2, LocksUntouched DEF serverVars
<1>3. QED
  BY <1>1, <1>2 DEF Next, vars, CloseWorkspace

\* No two threads are ever at work on one slot, whatever clients do to the
\* shared memory meanwhile: the locks are private to the server (server.c:11, 23-37, 91).
THEOREM ThreadsExclude == Spec => []LockExclusion
<1>1. Init => LockExclusion
  BY DEF Init, ServerInit, LockExclusion, Holding
<1>2. TypeOK /\ KillsLeft /\ LockExclusion /\ [Next]_vars => LockExclusion'
  BY StepLockExclusion
<1>3. QED
  BY <1>1, <1>2, TypeCorrectness, PTL DEF Spec

-----------------------------------------------------------------------------
\* Sessions.

Stage(s) == job_buffers[s].status

\* Reading a stage after storing it, or after any other store (ipc.h:31).
LEMMA StageStored ==
  ASSUME TypeOK, NEW s, NEW value, SetStatus(s, value), NEW r \in Slots
  PROVE  Stage(r)' = IF r = s THEN value ELSE Stage(r)
<1>1. /\ job_buffers' = [job_buffers EXCEPT ![s] = [job_buffers[s] EXCEPT !.status = value]]
      /\ job_buffers \in [Slots -> JobRequestBuffer]
  BY DEF SetStatus, TypeOK, WorkspaceTypeOK
<1>2. r = s => job_buffers'[r] = [job_buffers[r] EXCEPT !.status = value]
  BY <1>1
<1>3. r # s => job_buffers'[r] = job_buffers[r]
  BY <1>1
<1>4. job_buffers[r] \in JobRequestBuffer
  BY <1>1
<1>5. QED
  BY <1>2, <1>3, <1>4 DEF Stage, JobRequestBuffer

\* A stored buffer has its own stage, the others keep theirs.
LEMMA StageReplaced ==
  ASSUME TypeOK, NEW s, NEW b, job_buffers' = [job_buffers EXCEPT ![s] = b], NEW r \in Slots
  PROVE  Stage(r)' = IF r = s THEN b.status ELSE Stage(r)
  BY DEF Stage, TypeOK, WorkspaceTypeOK

\* A step that moves no process and stores no stage keeps what SessionInv says of
\* processes alone.
LEMMA OwnersUntouched ==
  ASSUME SessionInv, UNCHANGED clientVars, \A s \in Slots : Stage(s)' = Stage(s)
  PROVE  HoldersAlone' /\ StageOfOwner'
<1>1. /\ \A p \in Processes : (Holds(p)' <=> Holds(p)) /\ (Owns(p)' <=> Owns(p))
      /\ UNCHANGED <<cpc, slot, contested>>
  BY DEF clientVars, marks, Holds, Leaving, Owns
<1>2. ASSUME NEW p \in Processes, slot[p] \notin contested
      PROVE  StageOfHolder(p)'
  <2>1. CASE Holds(p)
    <3>1. slot[p] \in Slots /\ StageOfHolder(p)
      BY <1>2, <2>1 DEF SessionInv, StageOfOwner
    <3>2. Buffer(p)'.status = Buffer(p).status
      BY <1>1, <3>1 DEF Buffer, Stage
    <3>3. QED
      BY <1>1, <3>1, <3>2 DEF StageOfHolder, Awaiting
  <2>2. CASE ~Holds(p)
    BY <1>1, <2>2 DEF StageOfHolder, Holds, Owns, Leaving, Awaiting
  <2>3. QED
    BY <2>1, <2>2
<1>3. StageOfOwner'
  BY <1>1, <1>2 DEF SessionInv, StageOfOwner
<1>4. QED
  BY <1>1, <1>3 DEF SessionInv, HoldersAlone

\* A thread keeps the invariant: it serves only what is submitted, counts it once
\* and completes it last (server.c:20-92).
LEMMA ThreadStepSessionInv ==
  ASSUME TypeOK, LockExclusion, SessionInv, NEW t \in Threads, ThreadStep(t), UNCHANGED clientVars
  PROVE  SessionInv'
<1> USE DEF TypeOK, ServerTypeOK, WorkspaceTypeOK, Goto
<1>f. /\ UNCHANGED <<cpc, slot, contested>>
      /\ \A u \in Threads \ {t} : tpc'[u] = tpc[u] /\ idx'[u] = idx[u]
  BY DEF clientVars, marks, ThreadStep, LoopTest, TryLock, TryLockFails, CheckStatus, SkipSlot, Switch,
     SwitchWrite, SwitchClose, SwitchKill, SwitchDisconnect, SwitchDefault, Borrow, BorrowFails,
     EndWrite, Write, MarkJobCompleted, Unlock, Advance
<1>1. ASSUME LoopTest(t) \/ TryLock(t) \/ TryLockFails(t) \/ SkipSlot(t) \/ Unlock(t)
      PROVE  SessionInv'
  <2>1. UNCHANGED <<job_buffers, execs>> /\ ~Serving(t)' /\ ~Serving(t)
    BY <1>1 DEF LoopTest, TryLock, TryLockFails, SkipSlot, Unlock, Advance, workspaceVars, Serving
  <2>2. AnswerFinal'
    BY <1>f, <2>1 DEF SessionInv, AnswerFinal, Serving, Job
  <2>3. ~Executing(t)' /\ ~Executing(t)
    BY <2>1 DEF Serving, Executing
  <2>4. ExecutionCount'
    <3>1. \A u \in Threads : /\ Executing(u)' <=> Executing(u)
                             /\ Executing(u) => idx'[u] = idx[u]
      BY <1>f, <2>3 DEF Executing
    <3>2. QED
      BY <1>f, <2>1, <3>1 DEF SessionInv, ExecutionCount
  <2>5. ExactlyOnce'
    BY <1>f, <2>1 DEF SessionInv, ExactlyOnce, Awaiting, Buffer
  <2>6. QED
    BY <2>1, <2>2, <2>4, <2>5, OwnersUntouched DEF SessionInv, Stage
<1>2. ASSUME CheckStatus(t) PROVE SessionInv'
  <2>1. UNCHANGED <<job_buffers, execs, idx>> /\ ~Executing(t)' /\ ~Executing(t)
    BY <1>2 DEF CheckStatus, workspaceVars, Executing
  <2>2. AnswerFinal'
    BY <1>2, <1>f, <2>1 DEF SessionInv, AnswerFinal, Serving, Job, CheckStatus
  <2>3. ExecutionCount'
    <3>1. \A u \in Threads : Executing(u)' <=> Executing(u)
      BY <1>f, <2>1 DEF Executing
    <3>2. QED
      BY <1>f, <2>1, <3>1 DEF SessionInv, ExecutionCount
  <2>4. ExactlyOnce'
    BY <1>f, <2>1 DEF SessionInv, ExactlyOnce, Awaiting, Buffer
  <2>5. QED
    BY <2>1, <2>2, <2>3, <2>4, OwnersUntouched DEF SessionInv, Stage
<1>3. ASSUME Switch(t) PROVE SessionInv'
  <2>1. /\ UNCHANGED <<job_buffers, idx>>
        /\ CountExecution(t)
        /\ tpc[t] = "switch"
        /\ Executing(t)'
    BY <1>3 DEF Switch, SwitchWrite, SwitchClose, SwitchKill, SwitchDisconnect, SwitchDefault, Executing
  <2>2. idx[t] \notin contested => Job(t).status = JOB_REQUESTED
    BY <2>1 DEF SessionInv, AnswerFinal, Serving
  <2>3. \A u \in Threads \ {t} : Executing(u) => idx[u] # idx[t]
    BY <2>1 DEF LockExclusion, Holding, Executing
  <2>4. idx[t] \notin contested => execs'[idx[t]] = 1
    <3>1. ~Executing(t)
      BY <2>1 DEF Executing
    <3>2. idx[t] \notin contested => execs[idx[t]] = 0
      BY <2>2, <2>3, <3>1 DEF SessionInv, ExecutionCount, Job
    <3>3. QED
      BY <2>1, <3>2 DEF CountExecution
  <2>5. \A s \in Slots : s # idx[t] => execs'[s] = execs[s]
    BY <2>1 DEF CountExecution
  <2>6. AnswerFinal'
    BY <1>f, <2>1, <2>2 DEF SessionInv, AnswerFinal, Serving, Job
  <2>7. ExecutionCount'
    <3>1. \A u \in Threads \ {t} : Executing(u)' <=> Executing(u)
      BY <1>f DEF Executing
    <3>2. \A s \in Slots : s # idx[t] =>
            ((\E u \in Threads : Executing(u)' /\ idx'[u] = s)
               <=> (\E u \in Threads : Executing(u) /\ idx[u] = s))
      BY <2>1, <3>1
    <3>3. QED
      BY <1>f, <2>1, <2>4, <2>5, <3>2 DEF SessionInv, ExecutionCount
  <2>8. ExactlyOnce'
    <3>1. \A p \in Processes : Awaiting(p) => slot[p] \in Slots
      BY DEF SessionInv, StageOfOwner, Holds, Awaiting, Owns, Leaving
    <3>2. JOB_REQUESTED # JOB_COMPLETED
      BY DEF JOB_REQUESTED, JOB_COMPLETED
    <3>3. QED
      BY <1>f, <2>1, <2>2, <2>5, <3>1, <3>2 DEF SessionInv, ExactlyOnce, Awaiting, Buffer, Job
  <2>9. QED
    BY <1>f, <2>1, <2>6, <2>7, <2>8, OwnersUntouched DEF SessionInv, Stage
<1>4. ASSUME Borrow(t) \/ BorrowFails(t) \/ Write(t) PROVE SessionInv'
  <2>1. UNCHANGED <<idx, execs>> /\ Executing(t)' /\ Executing(t)
    BY <1>4 DEF Borrow, BorrowFails, Write, EndWrite, workspaceVars, Executing
  <2>2. \A s \in Slots : Stage(s)' = Stage(s)
    <3>1. CASE Write(t)
      <4>1. PICK result \in {-1, 1} :
              job_buffers' = [job_buffers EXCEPT ![idx[t]] = [job_buffers[idx[t]] EXCEPT !.response = result]]
        BY <3>1 DEF Write
      <4>2. [job_buffers[idx[t]] EXCEPT !.response = result].status = job_buffers[idx[t]].status
        BY DEF JobRequestBuffer
      <4>3. QED
        BY <4>1, <4>2, StageReplaced DEF Stage
    <3>2. CASE UNCHANGED job_buffers
      BY <3>2 DEF Stage
    <3>3. QED
      BY <1>4, <3>1, <3>2 DEF Borrow, BorrowFails, workspaceVars
  <2>3. AnswerFinal'
    BY <1>f, <2>1, <2>2 DEF SessionInv, AnswerFinal, Serving, Executing, Job, Stage
  <2>4. ExecutionCount'
    BY <1>f, <2>1, <2>2 DEF SessionInv, ExecutionCount, Executing, Stage
  <2>5. ExactlyOnce'
    BY <1>f, <2>1, <2>2 DEF SessionInv, ExactlyOnce, StageOfOwner, Holds, Awaiting, Owns, Leaving,
       Buffer, Stage
  <2>6. QED
    BY <2>2, <2>3, <2>4, <2>5, OwnersUntouched DEF SessionInv
<1>5. ASSUME MarkJobCompleted(t) PROVE SessionInv'
  <2>1. /\ tpc[t] = "complete"
        /\ UNCHANGED <<idx, execs>>
        /\ ~Serving(t)' /\ ~Executing(t)' /\ Executing(t) /\ Serving(t)
    BY <1>5 DEF MarkJobCompleted, Serving, Executing
  <2>2. \A s \in Slots : Stage(s)' = IF s = idx[t] THEN JOB_COMPLETED ELSE Stage(s)
    BY <1>5, StageStored DEF MarkJobCompleted
  <2>3. idx[t] \notin contested => Stage(idx[t]) = JOB_REQUESTED /\ execs[idx[t]] = 1
    BY <2>1 DEF SessionInv, AnswerFinal, ExecutionCount, Job, Stage
  <2>4. \A u \in Threads \ {t} : Serving(u) => idx[u] # idx[t]
    BY <2>1 DEF LockExclusion, Holding, Serving
  <2>5. AnswerFinal'
    BY <1>f, <2>1, <2>2, <2>4 DEF SessionInv, AnswerFinal, Serving, Job, Stage
  <2>6. ExecutionCount'
    <3>1. \A s \in Slots : Stage(s)' = JOB_REQUESTED => s # idx[t] /\ Stage(s) = JOB_REQUESTED
      BY <2>2 DEF JOB_COMPLETED, JOB_REQUESTED
    <3>2. \A s \in Slots : s # idx[t] =>
            ((\E u \in Threads : Executing(u)' /\ idx'[u] = s)
               <=> (\E u \in Threads : Executing(u) /\ idx[u] = s))
      BY <1>f, <2>1 DEF Executing
    <3>3. QED
      BY <1>f, <2>1, <3>1, <3>2 DEF SessionInv, ExecutionCount, Stage
  <2>7. \A p \in Processes : (Holds(p)' <=> Holds(p)) /\ (Holds(p) => slot[p] \in Slots)
    BY <1>f DEF SessionInv, StageOfOwner, Holds, Owns, Leaving
  <2>8. ExactlyOnce'
    BY <1>f, <2>1, <2>2, <2>3, <2>7
       DEF SessionInv, ExactlyOnce, Holds, Awaiting, Owns, Leaving, Buffer, Stage
  <2>9. ASSUME NEW p \in Processes, slot[p] \notin contested PROVE StageOfHolder(p)'
    <3>1. StageOfHolder(p)
      BY <2>9 DEF SessionInv, StageOfOwner
    <3>2. CASE ~Holds(p)
      BY <1>f, <3>2 DEF StageOfHolder, Holds, Owns, Leaving, Awaiting
    <3>3. CASE Holds(p) /\ slot[p] = idx[t]
      <4>1. Awaiting(p)
        BY <2>3, <2>9, <3>1, <3>3 DEF StageOfHolder, Holds, Owns, Leaving, Awaiting, Buffer, Stage,
           JOB_NO_REQUEST, JOB_BUFFER_IN_USE, JOB_REQUESTED, JOB_COMPLETED
      <4>2. Buffer(p)'.status = JOB_COMPLETED
        BY <1>f, <2>2, <2>7, <3>3 DEF Buffer, Stage
      <4>3. QED
        BY <1>f, <4>1, <4>2 DEF StageOfHolder, Awaiting
    <3>4. CASE Holds(p) /\ slot[p] # idx[t]
      <4>1. Buffer(p)'.status = Buffer(p).status
        BY <1>f, <2>2, <2>7, <3>4 DEF Buffer, Stage
      <4>2. QED
        BY <1>f, <3>1, <4>1 DEF StageOfHolder, Awaiting
    <3>5. QED
      BY <3>2, <3>3, <3>4
  <2>10. StageOfOwner' /\ HoldersAlone'
    BY <1>f, <2>7, <2>9 DEF SessionInv, StageOfOwner, HoldersAlone
  <2>11. QED
    BY <2>5, <2>6, <2>8, <2>10 DEF SessionInv
<1>6. QED
  BY <1>1, <1>2, <1>3, <1>4, <1>5 DEF ThreadStep

-----------------------------------------------------------------------------
\* A slot that nobody contested and that one process holds is in no other's hands.
LEMMA SlotIsMine ==
  ASSUME SessionInv, NEW p \in Processes, Holds(p)
  PROVE  /\ slot[p] \in Slots
         /\ slot[p] \notin contested =>
              \A q \in Processes \ {p} : Holds(q) => slot[q] # slot[p]
  BY DEF SessionInv, StageOfOwner, HoldersAlone

\* No step of a process forgets that a slot was contested, or given back untold.
LEMMA MarksGrow ==
  ASSUME NEW p \in Processes, ProcessStep(p)
  PROVE  contested \subseteq contested' /\ untold \subseteq untold'
<1>1. CASE SeeFree(p)
  BY <1>1 DEF SeeFree, Contest
<1>2. CASE Disconnect(p)
  BY <1>2 DEF Disconnect
<1>3. CASE ~SeeFree(p) /\ ~Disconnect(p)
  BY <1>3 DEF ProcessStep, Proceed, ScanStep, Connect, ConnectRefused, OpenFile, FillJob, Crash,
     SeeTaken, NoneFree, Claim, FillKill, Submit, Submitted, ClientAnswered, KillAnswered,
     SubmitDisconnect, DisconnectAnswered, ClearBegins, ClearEnds, clientVars, marks
<1>4. QED
  BY <1>1, <1>2, <1>3

\* Who sees a slot free that nobody contested before, and that is not contested now, is
\* the only one to hold it: an owner's slot is not free, except within its memset, and
\* who claims or wipes it contests it (ipc.c:86-88, 121).
LEMMA SeenFreeIsMine ==
  ASSUME TypeOK, SessionInv, NEW p \in Processes, SeeFree(p),
         NEW q \in Processes \ {p}, Holds(q), slot[q] = slot[p]
  PROVE  slot[p] \in contested'
<1>1. CASE cpc[q] \in {"claim", "clear_rest"}
  BY <1>1 DEF SeeFree, Contest
<1>2. CASE cpc[q] \notin {"claim", "clear_rest"} /\ slot[p] \notin contested
  <2>1. StageOfHolder(q) /\ Buffer(q).status = JOB_NO_REQUEST
    BY <1>2 DEF SessionInv, StageOfOwner, SeeFree, Buffer
  <2>2. QED
    BY <1>2, <2>1 DEF StageOfHolder, Holds, Owns, Leaving, Awaiting,
       JOB_NO_REQUEST, JOB_BUFFER_IN_USE, JOB_REQUESTED, JOB_COMPLETED
<1>3. QED
  BY <1>1, <1>2 DEF SeeFree, Contest

\* A step of a process stores a stage in no slot but its own (ipc.c:86-121).
LEMMA OnlyOwnStage ==
  ASSUME TypeOK, NEW p \in Processes, ProcessStep(p)
  PROVE  \A s \in Slots : s # slot[p] => Stage(s)' = Stage(s) /\ execs'[s] = execs[s]
<1>1. \A s \in Slots : s # slot[p] => job_buffers'[s] = job_buffers[s]
  BY DEF TypeOK, WorkspaceTypeOK, ProcessStep, Proceed, ScanStep, Connect, ConnectRefused, OpenFile,
     FillJob, Disconnect, Crash, SeeFree, SeeTaken, NoneFree, Claim, FillKill, Submit, Submitted,
     ClientAnswered, KillAnswered, SubmitDisconnect, DisconnectAnswered, ClearBegins, ClearEnds,
     SetStatus, workspaceVars
<1>2. \A s \in Slots : s # slot[p] => execs'[s] = execs[s]
  BY DEF TypeOK, WorkspaceTypeOK, ProcessStep, Proceed, ScanStep, Connect, ConnectRefused, OpenFile,
     FillJob, Disconnect, Crash, SeeFree, SeeTaken, NoneFree, Claim, FillKill, Submit, Submitted,
     ClientAnswered, KillAnswered, SubmitDisconnect, DisconnectAnswered, ClearBegins, ClearEnds,
     NewHistory, workspaceVars
<1>3. QED
  BY <1>1, <1>2 DEF Stage

\* A process moves itself and nobody else.
LEMMA OnlyOwnPlace ==
  ASSUME TypeOK, NEW p \in Processes, ProcessStep(p)
  PROVE  \A q \in Processes \ {p} : cpc'[q] = cpc[q] /\ slot'[q] = slot[q]
  BY DEF TypeOK, ClientTypeOK, ProcessStep, Proceed, ScanStep, Connect, ConnectRefused, OpenFile,
     FillJob, Disconnect, Crash, SeeFree, SeeTaken, NoneFree, Claim, FillKill, Submit, Submitted,
     ClientAnswered, KillAnswered, SubmitDisconnect, DisconnectAnswered, ClearBegins, ClearEnds,
     GotoP, clientVars

\* The stage a step leaves behind in a slot named before the step.
NewStage(s) == job_buffers'[s].status

\* The stages that fit p's new place.
NewPlaceFits(p) ==
  /\ cpc'[p] \in {"claim", "clear_rest"} => NewStage(slot'[p]) = JOB_NO_REQUEST
  /\ cpc'[p] \in {"ready", "filled", "leaving"} =>
       NewStage(slot'[p]) \in {JOB_BUFFER_IN_USE, JOB_COMPLETED}
  /\ Awaiting(p)' => NewStage(slot'[p]) \in {JOB_REQUESTED, JOB_COMPLETED}
  /\ cpc'[p] \in {"clear", "clear_head"} => NewStage(slot'[p]) = JOB_COMPLETED

\* When p's stores go to its own slot and not under a thread that serves it, the
\* invariant holds again as soon as p's own new place fits.
LEMMA OwnPlaceSuffices ==
  ASSUME TypeOK, SessionInv, UNCHANGED serverVars,
         NEW p \in Processes, ProcessStep(p),
         slot[p] \in Slots \ contested =>
           \/ NewStage(slot[p]) = Stage(slot[p]) /\ execs'[slot[p]] = execs[slot[p]]
           \/ /\ Holds(p) /\ Stage(slot[p]) # JOB_REQUESTED
              /\ NewStage(slot[p]) = JOB_REQUESTED => execs'[slot[p]] = 0,
         Holds(p)' => /\ slot'[p] = slot[p] /\ slot[p] \in Slots
                      /\ Holds(p) \/ SeeFree(p),
         Holds(p)' /\ slot[p] \notin contested =>
           /\ NewPlaceFits(p)
           /\ Awaiting(p)' /\ NewStage(slot[p]) = JOB_COMPLETED => execs'[slot[p]] = 1
  PROVE  SessionInv'
<1>i. HoldersAlone /\ StageOfOwner /\ AnswerFinal /\ ExecutionCount /\ ExactlyOnce
  BY DEF SessionInv
<1>t. UNCHANGED <<tpc, idx>>
  BY DEF serverVars
<1>g. contested \subseteq contested'
  BY MarksGrow
<1>0. \A q \in Processes \ {p} : cpc'[q] = cpc[q] /\ slot'[q] = slot[q]
  BY OnlyOwnPlace
<1>1. \A q \in Processes \ {p} : (Holds(q)' <=> Holds(q)) /\ (Awaiting(q)' <=> Awaiting(q))
  BY <1>0 DEF Holds, Owns, Awaiting, Leaving
<1>2. \A s \in Slots : s # slot[p] => NewStage(s) = Stage(s) /\ execs'[s] = execs[s]
  BY OnlyOwnStage DEF Stage, NewStage
<1>3. ASSUME NEW q \in Processes \ {p}, Holds(q), slot[q] \notin contested
      PROVE  /\ slot[q] \in Slots
             /\ NewStage(slot[q]) = Stage(slot[q])
             /\ execs'[slot[q]] = execs[slot[q]]
  <2>1. slot[q] \in Slots
    BY <1>3, SlotIsMine
  <2>2. CASE slot[q] = slot[p] /\ Holds(p)
    BY <1>3, <2>2, SlotIsMine
  <2>3. CASE slot[q] = slot[p] /\ ~Holds(p)
    BY <1>3, <2>1, <2>3
  <2>4. CASE slot[q] # slot[p]
    BY <1>2, <2>1, <2>4
  <2>5. QED
    BY <2>1, <2>2, <2>3, <2>4
<1>4. HoldersAlone'
  <2>1. ASSUME NEW q \in Processes \ {p}, Holds(p)', Holds(q)', slot'[q] = slot'[p]
        PROVE  slot'[p] \in contested'
    <3>1. slot'[p] = slot[p] /\ slot[q] = slot[p] /\ Holds(q)
      BY <1>0, <1>1, <2>1
    <3>2. CASE Holds(p)
      BY <1>g, <1>i, <3>1, <3>2 DEF HoldersAlone
    <3>3. CASE SeeFree(p)
      BY <3>1, <3>3, SeenFreeIsMine
    <3>4. QED
      BY <2>1, <3>2, <3>3
  <2>2. ASSUME NEW q \in Processes \ {p}, NEW u \in Processes \ {p}, q # u,
               Holds(q)', Holds(u)', slot'[q] = slot'[u]
        PROVE  slot'[q] \in contested'
    BY <1>g, <1>i, <1>0, <1>1, <2>2 DEF HoldersAlone
  <2>3. QED
    BY <2>1, <2>2 DEF HoldersAlone
<1>5. StageOfOwner'
  <2>0. \A q \in Processes : Buffer(q)'.status = NewStage(slot'[q])
    BY DEF NewStage, Buffer
  <2>1. ASSUME NEW q \in Processes PROVE Holds(q)' => slot'[q] \in Slots
    BY <1>0, <1>1, <1>i, <2>1 DEF StageOfOwner
  <2>2. ASSUME NEW q \in Processes, slot'[q] \notin contested' PROVE StageOfHolder(q)'
    <3>1. CASE ~Holds(q)'
      BY <3>1 DEF StageOfHolder, Holds, Owns, Leaving, Awaiting
    <3>2. CASE q = p /\ Holds(q)'
      BY <1>g, <2>0, <2>2, <3>2 DEF StageOfHolder, NewPlaceFits
    <3>3. CASE q # p /\ Holds(q)'
      <4>1. Holds(q) /\ slot[q] \notin contested
        BY <1>0, <1>1, <1>g, <2>2, <3>3
      <4>2. Buffer(q)'.status = Buffer(q).status
        BY <1>0, <1>3, <2>0, <3>3, <4>1 DEF Stage, Buffer
      <4>3. QED
        BY <1>0, <1>1, <1>i, <3>3, <4>1, <4>2 DEF StageOfOwner, StageOfHolder
    <3>4. QED
      BY <3>1, <3>2, <3>3
  <2>3. QED
    BY <2>1, <2>2 DEF StageOfOwner
<1>7. AnswerFinal'
  <2>1. \A t \in Threads : Serving(t) /\ idx[t] \notin contested =>
          Stage(idx[t]) = JOB_REQUESTED /\ idx[t] \in Slots
    BY <1>i DEF AnswerFinal, Job, Stage, TypeOK, ServerTypeOK
  <2>2. ASSUME NEW t \in Threads, Serving(t), idx[t] \notin contested'
        PROVE  NewStage(idx[t]) = JOB_REQUESTED
    <3>1. CASE idx[t] = slot[p]
      BY <1>g, <2>1, <2>2, <3>1
    <3>2. CASE idx[t] # slot[p]
      BY <1>2, <1>g, <2>1, <2>2, <3>2
    <3>3. QED
      BY <3>1, <3>2
  <2>3. QED
    BY <1>t, <2>2 DEF AnswerFinal, Serving, Job, NewStage
<1>8. ExecutionCount'
  <2>1. \A t \in Threads : Executing(t) /\ idx[t] \notin contested =>
          Stage(idx[t]) = JOB_REQUESTED /\ idx[t] \in Slots
    BY <1>i DEF AnswerFinal, Job, Stage, TypeOK, ServerTypeOK, Serving, Executing
  <2>2. ASSUME NEW s \in Slots \ contested', NewStage(s) = JOB_REQUESTED
        PROVE  execs'[s] = IF \E t \in Threads : Executing(t) /\ idx[t] = s THEN 1 ELSE 0
    <3>0. s \notin contested
      BY <1>g
    <3>1. CASE NewStage(s) = Stage(s) /\ execs'[s] = execs[s]
      BY <1>i, <2>2, <3>0, <3>1 DEF ExecutionCount, Stage
    <3>2. CASE s = slot[p] /\ Stage(s) # JOB_REQUESTED /\ execs'[s] = 0
      BY <2>1, <3>0, <3>2
    <3>3. QED
      <4>1. CASE s = slot[p]
        BY <2>2, <3>0, <3>1, <3>2, <4>1
      <4>2. CASE s # slot[p]
        BY <1>2, <3>1, <4>2
      <4>3. QED
        BY <4>1, <4>2
  <2>3. QED
    BY <1>t, <2>2 DEF ExecutionCount, Executing, NewStage
<1>9. ExactlyOnce'
  <2>1. \A q \in Processes : (Awaiting(q) => Holds(q)) /\ (Awaiting(q)' => Holds(q)')
    BY DEF Awaiting, Holds, Owns, Leaving
  <2>2. ASSUME NEW q \in Processes \ {p}, Awaiting(q)', slot'[q] \notin contested',
               NewStage(slot'[q]) = JOB_COMPLETED
        PROVE  execs'[slot'[q]] = 1
    <3>1. /\ slot'[q] = slot[q] /\ Awaiting(q) /\ slot[q] \notin contested
          /\ NewStage(slot[q]) = Stage(slot[q]) /\ execs'[slot[q]] = execs[slot[q]]
      BY <1>0, <1>1, <1>3, <1>g, <2>1, <2>2
    <3>2. QED
      BY <1>i, <2>2, <3>1 DEF ExactlyOnce, Stage, Buffer
  <2>3. Awaiting(p)' /\ NewStage(slot'[p]) = JOB_COMPLETED /\ slot'[p] \notin contested' =>
          execs'[slot'[p]] = 1
    BY <1>g, <2>1
  <2>4. QED
    BY <2>2, <2>3 DEF ExactlyOnce, NewStage, Buffer
<1>10. QED
  BY <1>4, <1>5, <1>7, <1>8, <1>9 DEF SessionInv

\* A process keeps the invariant: it scans without storing, claims what it saw
\* free, submits, collects and wipes only in its own slot (ipc.c:76-122).
LEMMA ProcessStepSessionInv ==
  ASSUME TypeOK, SessionInv, UNCHANGED serverVars, NEW p \in Processes, ProcessStep(p)
  PROVE  SessionInv'
<1> USE DEF GotoP
<1>t. /\ cpc \in [Processes -> ClientPcs] /\ slot \in [Processes -> 0 .. MaxJobBuffers]
      /\ job_buffers \in [Slots -> JobRequestBuffer] /\ execs \in [Slots -> 0 .. 2]
  BY DEF TypeOK, ClientTypeOK, WorkspaceTypeOK
<1>m. Holds(p) => slot[p] \in Slots
  BY DEF SessionInv, StageOfOwner
<1>o. slot[p] \notin contested =>
        /\ cpc[p] = "claim" \/ cpc[p] = "clear_rest" => Stage(slot[p]) = JOB_NO_REQUEST
        /\ cpc[p] \in {"ready", "filled", "leaving"} =>
             Stage(slot[p]) \in {JOB_BUFFER_IN_USE, JOB_COMPLETED}
        /\ cpc[p] \in {"clear", "clear_head"} => Stage(slot[p]) = JOB_COMPLETED
  BY DEF SessionInv, StageOfOwner, StageOfHolder, Stage, Buffer
<1>n. /\ JOB_REQUESTED # JOB_NO_REQUEST /\ JOB_REQUESTED # JOB_BUFFER_IN_USE
      /\ JOB_REQUESTED # JOB_COMPLETED /\ JOB_COMPLETED # JOB_NO_REQUEST
      /\ JOB_BUFFER_IN_USE # JOB_COMPLETED
  BY DEF JOB_REQUESTED, JOB_NO_REQUEST, JOB_BUFFER_IN_USE, JOB_COMPLETED
<1> USE <1>t DEF Holds, Owns, Awaiting, Leaving, NewPlaceFits
<1>1. CASE Connect(p)
  <2>1. cpc'[p] = "scan" /\ UNCHANGED <<job_buffers, execs>>
    BY <1>1 DEF Connect, workspaceVars
  <2>2. QED
    BY <2>1, OwnPlaceSuffices DEF Stage, NewStage
<1>2. CASE ConnectRefused(p) \/ Crash(p)
  <2>1. cpc'[p] \in {"failed", "dead"} /\ UNCHANGED <<job_buffers, execs>>
    BY <1>2 DEF ConnectRefused, Crash, workspaceVars
  <2>2. QED
    BY <2>1, OwnPlaceSuffices DEF Stage, NewStage
<1>3. CASE OpenFile(p)
  <2>1. cpc' = cpc /\ slot' = slot /\ cpc[p] = "ready" /\ UNCHANGED <<job_buffers, execs>>
    BY <1>3 DEF OpenFile, clientVars
  <2>2. QED
    BY <2>1, <1>m, <1>o, OwnPlaceSuffices DEF Stage, NewStage
<1>4. CASE FillJob(p) \/ FillKill(p) \/ Disconnect(p)
  <2>1. /\ cpc[p] = "ready" /\ slot' = slot /\ UNCHANGED execs
        /\ cpc'[p] = "filled" \/ (Disconnect(p) /\ cpc'[p] = "leaving")
    <3>1. CASE FillJob(p)
      BY <3>1 DEF FillJob
    <3>2. CASE FillKill(p)
      BY <3>2 DEF FillKill
    <3>3. CASE Disconnect(p)
      BY <3>3 DEF Disconnect
    <3>4. QED
      BY <1>4, <3>1, <3>2, <3>3
  <2>2. slot[p] \in Slots
    BY <2>1, <1>m
  <2>3. NewStage(slot[p]) = Stage(slot[p])
    <3>1. job_buffers[slot[p]] \in JobRequestBuffer
      BY <2>2
    <3>2. CASE FillJob(p)
      <4>1. PICK cmd \in {CMD_WRITE, CMD_CLOSE}, fd \in Fds :
              job_buffers'[slot[p]] = [job_buffers[slot[p]] EXCEPT !.pid = p, !.cmd = cmd, !.arg1 = fd]
        BY <2>2, <3>2 DEF FillJob
      <4>2. QED
        BY <3>1, <4>1 DEF Stage, NewStage, JobRequestBuffer
    <3>3. CASE FillKill(p)
      <4>1. job_buffers'[slot[p]] = [job_buffers[slot[p]] EXCEPT !.cmd = CMD_KILL_SERVER]
        BY <2>2, <3>3 DEF FillKill
      <4>2. QED
        BY <3>1, <4>1 DEF Stage, NewStage, JobRequestBuffer
    <3>4. CASE Disconnect(p)
      <4>1. job_buffers'[slot[p]] \in {[job_buffers[slot[p]] EXCEPT !.cmd = CMD_DISCONNECT],
                                       job_buffers[slot[p]]}
        BY <2>2, <3>4 DEF Disconnect
      <4>2. QED
        BY <3>1, <4>1 DEF Stage, NewStage, JobRequestBuffer
    <3>5. QED
      BY <1>4, <3>2, <3>3, <3>4
  <2>4. QED
    BY <2>1, <2>2, <2>3, <1>o, OwnPlaceSuffices
<1>5. CASE ScanStep(p)
  <2>1. cpc[p] = "scan" /\ UNCHANGED <<job_buffers, execs>>
    BY <1>5 DEF ScanStep, SeeFree, SeeTaken, NoneFree, workspaceVars
  <2>2. cpc'[p] \in {"scan", "idle", "failed"} \/ (SeeFree(p) /\ cpc'[p] = "claim")
    BY <1>5, <2>1 DEF ScanStep, SeeFree, SeeTaken, NoneFree
  <2>3. SeeFree(p) => /\ slot' = slot /\ slot[p] \in Slots
                      /\ Stage(slot[p]) = JOB_NO_REQUEST
    BY BuffersAssumption DEF SeeFree, Stage, Buffer, Slots
  <2>4. QED
    BY <2>1, <2>2, <2>3, OwnPlaceSuffices DEF Stage, NewStage
<1>6. CASE Claim(p)
  <2>1. cpc[p] = "claim" /\ cpc'[p] = "ready" /\ slot' = slot /\ UNCHANGED execs
    BY <1>6 DEF Claim
  <2>2. NewStage(slot[p]) = JOB_BUFFER_IN_USE
    BY <1>6, <1>m, <2>1, StageStored DEF Claim, Stage, NewStage
  <2>3. QED
    BY <2>1, <2>2, <1>m, <1>o, <1>n, OwnPlaceSuffices
<1>7. CASE Submit(p) \/ SubmitDisconnect(p)
  <2>1. /\ slot' = slot
        /\ \/ cpc[p] = "filled" /\ cpc'[p] = "wait"
           \/ cpc[p] = "leaving" /\ cpc'[p] = "leavewait"
    <3>1. CASE Submit(p)
      BY <3>1 DEF Submit, Submitted
    <3>2. CASE SubmitDisconnect(p)
      BY <3>2 DEF SubmitDisconnect, Submitted
    <3>3. QED
      BY <1>7, <3>1, <3>2
  <2>2. NewStage(slot[p]) = JOB_REQUESTED /\ execs'[slot[p]] = 0
    BY <1>7, <1>m, <2>1, StageStored DEF Submit, SubmitDisconnect, Submitted, NewHistory, Stage, NewStage
  <2>3. QED
    BY <2>1, <2>2, <1>m, <1>o, <1>n, OwnPlaceSuffices
<1>8. CASE ClientAnswered(p) \/ KillAnswered(p) \/ DisconnectAnswered(p)
  <2>1. /\ slot' = slot /\ UNCHANGED job_buffers /\ Stage(slot[p]) = JOB_COMPLETED
        /\ \/ cpc[p] = "wait" /\ cpc'[p] \in {"ready", "idle", "done"}
           \/ cpc[p] = "leavewait" /\ cpc'[p] = "clear"
    BY <1>8 DEF ClientAnswered, KillAnswered, DisconnectAnswered, Stage, Buffer
  <2>2. QED
    BY <2>1, <1>m, <1>n, OwnPlaceSuffices DEF Stage, NewStage
<1>9. CASE ClearBegins(p) \/ ClearEnds(p)
  <2>0. slot[p] \in Slots /\ Buffer(p) \in JobRequestBuffer
    BY <1>9, <1>m DEF ClearBegins, ClearEnds, Buffer
  <2>1. /\ UNCHANGED execs
        /\ \/ /\ cpc[p] = "clear" /\ cpc'[p] = "clear_rest" /\ slot' = slot
              /\ job_buffers'[slot[p]] = ZeroHead(Buffer(p))
           \/ /\ cpc[p] = "clear" /\ cpc'[p] = "clear_head" /\ slot' = slot
              /\ job_buffers'[slot[p]] = ZeroRest(Buffer(p))
           \/ /\ cpc[p] = "clear_rest" /\ cpc'[p] = "idle"
              /\ job_buffers'[slot[p]] = ZeroRest(Buffer(p))
           \/ /\ cpc[p] = "clear_head" /\ cpc'[p] = "idle"
              /\ job_buffers'[slot[p]] = ZeroHead(Buffer(p))
    BY <1>9, <2>0 DEF ClearBegins, ClearEnds, Buffer
  <2>2. ZeroHead(Buffer(p)).status = JOB_NO_REQUEST /\ ZeroRest(Buffer(p)).status = Stage(slot[p])
    BY <2>0 DEF ZeroHead, ZeroRest, Buffer, Stage, JobRequestBuffer
  <2>3. QED
    BY <2>0, <2>1, <2>2, <1>o, <1>n, OwnPlaceSuffices DEF NewStage
<1>10. QED
  BY <1>1, <1>2, <1>3, <1>4, <1>5, <1>6, <1>7, <1>8, <1>9 DEF ProcessStep, Proceed

\* Every step keeps the session invariant.
LEMMA StepSessionInv ==
  ASSUME TypeOK, LockExclusion, SessionInv, [Next]_vars
  PROVE  SessionInv'
<1>1. ASSUME NEW t \in Threads, ThreadStep(t), UNCHANGED clientVars PROVE SessionInv'
  BY <1>1, ThreadStepSessionInv
<1>2. ASSUME NEW p \in Processes, ProcessStep(p), UNCHANGED serverVars PROVE SessionInv'
  BY <1>2, ProcessStepSessionInv
<1>3. CASE UNCHANGED <<job_buffers, execs, cpc, slot, contested, tpc, idx>>
  BY <1>3 DEF SessionInv, HoldersAlone, StageOfOwner, StageOfHolder, AnswerFinal, ExecutionCount,
     ExactlyOnce, Holds, Leaving, Owns, Awaiting, Serving, Executing, Job, Buffer
<1>4. QED
  BY <1>1, <1>2, <1>3 DEF Next, vars, CloseWorkspace, workspaceVars, serverVars, clientVars, marks

\* Owners, stages and executions fit at all times in every slot that nobody contested:
\* in every build, with any clients crashing, and whatever goes on in the slots that
\* were contested (ipc.c:76-122, server.c:15-95).
THEOREM SessionsConsistent == Spec => []SessionInv
<1>1. Init => SessionInv
  BY DEF Init, ClientInit, ServerInit, WorkspaceInit, SessionInv, HoldersAlone, StageOfOwner,
     StageOfHolder, AnswerFinal, ExecutionCount, ExactlyOnce, Holds, Leaving, Owns, Awaiting,
     Serving, BlankBuffer, JOB_NO_REQUEST, JOB_REQUESTED
<1>2. TypeOK /\ LockExclusion /\ SessionInv /\ [Next]_vars => SessionInv'
  BY StepSessionInv
<1>3. QED
  BY <1>1, <1>2, TypeCorrectness, ThreadsExclude, PTL DEF Spec

\* A slot comes into two hands only by the race of ipc.c:86-88 or within the memset of
\* ipc.c:121, with any number of processes and in any order of their calls.
THEOREM OwnersAreAlone == Spec => []SharedOnlyIfContested
<1>1. SessionInv => SharedOnlyIfContested
  BY DEF SessionInv, HoldersAlone, SharedOnlyIfContested, Holds
<1>2. QED
  BY <1>1, SessionsConsistent, PTL

\* In a slot nobody contested wait_for_job_completion returns after one execution of
\* the job (ipc.c:105-109).
THEOREM AnswersFollowOneExecution == Spec => []ExactlyOnce
  BY SessionsConsistent, PTL DEF SessionInv

\* When it returns there, no thread is at work on the buffer any more: the client may
\* reuse or wipe it (server.c:24, 90).
THEOREM AnswersAreFinal == Spec => []AnswerFinal
  BY SessionsConsistent, PTL DEF SessionInv

-----------------------------------------------------------------------------
\* Where a step stores, for the proofs about what is stored.

\* A thread changes files and jobs only in the slot that it serves (server.c:24-91).
LEMMA ThreadElsewhere ==
  ASSUME TypeOK, NEW t \in Threads, ThreadStep(t)
  PROVE  /\ UNCHANGED open_files
         /\ \A u \in Threads \ {t} : tpc'[u] = tpc[u] /\ idx'[u] = idx[u] /\ clientfd'[u] = clientfd[u]
         /\ \A s \in Slots \ {idx[t]} :
              /\ job_buffers'[s] = job_buffers[s] /\ execs'[s] = execs[s]
              /\ reached'[s] = reached[s] /\ registered_fds'[s] = registered_fds[s]
         /\ Serving(t) => idx' = idx
         /\ ~Serving(t) => UNCHANGED <<job_buffers, execs, reached, registered_fds>>
<1> USE DEF TypeOK, ServerTypeOK, WorkspaceTypeOK, workspaceVars, Goto, Serving
<1>1. CASE LoopTest(t) \/ TryLock(t) \/ TryLockFails(t) \/ CheckStatus(t) \/ SkipSlot(t) \/ Unlock(t)
  BY <1>1 DEF LoopTest, TryLock, TryLockFails, CheckStatus, SkipSlot, Unlock, Advance
<1>2. CASE Switch(t)
  BY <1>2 DEF Switch, SwitchWrite, SwitchClose, SwitchKill, SwitchDisconnect, SwitchDefault, CountExecution
<1>3. CASE Borrow(t) \/ BorrowFails(t)
  BY <1>3 DEF Borrow, BorrowFails, EndWrite
<1>4. CASE Write(t)
  BY <1>4 DEF Write, EndWrite
<1>5. CASE MarkJobCompleted(t)
  BY <1>5 DEF MarkJobCompleted, SetStatus
<1>6. QED
  BY <1>1, <1>2, <1>3, <1>4, <1>5 DEF ThreadStep

\* A process changes its own descriptors, and jobs only in a slot that is its own
\* or that it claims, never while the job is submitted (ipc.c:76-122).
LEMMA ProcessElsewhere ==
  ASSUME TypeOK, SessionInv, NEW p \in Processes, ProcessStep(p)
  PROVE  /\ \A q \in Processes \ {p} : open_files'[q] = open_files[q]
         /\ \A s \in Slots \ {slot[p]} :
              /\ job_buffers'[s] = job_buffers[s] /\ execs'[s] = execs[s]
              /\ reached'[s] = reached[s]
         /\ ~Holds(p) => UNCHANGED <<job_buffers, execs, reached>>
         /\ Buffer(p).status = JOB_REQUESTED /\ slot[p] \notin contested => UNCHANGED job_buffers
<1> USE DEF TypeOK, WorkspaceTypeOK, workspaceVars, Holds
<1>1. CASE Connect(p) \/ ConnectRefused(p) \/ ScanStep(p)
  BY <1>1 DEF Connect, ConnectRefused, ScanStep, SeeFree, SeeTaken, NoneFree
<1>2. CASE OpenFile(p) \/ Crash(p)
  BY <1>2 DEF OpenFile, Crash
<1>3. CASE FillJob(p) \/ FillKill(p) \/ Disconnect(p)
  <2>1. cpc[p] = "ready" /\ UNCHANGED <<open_files, execs, reached>>
    <3>1. CASE FillJob(p)
      BY <3>1 DEF FillJob
    <3>2. CASE FillKill(p)
      BY <3>2 DEF FillKill
    <3>3. CASE Disconnect(p)
      BY <3>3 DEF Disconnect
    <3>4. QED
      BY <1>3, <3>1, <3>2, <3>3
  <2>2. \A s \in Slots \ {slot[p]} : job_buffers'[s] = job_buffers[s]
    BY <1>3 DEF FillJob, FillKill, Disconnect
  <2>3. Owns(p) /\ (slot[p] \notin contested => Buffer(p).status # JOB_REQUESTED)
    BY <2>1 DEF Owns, SessionInv, StageOfOwner, StageOfHolder,
       JOB_REQUESTED, JOB_COMPLETED, JOB_BUFFER_IN_USE
  <2>4. QED
    BY <2>1, <2>2, <2>3
<1>4. CASE Claim(p) \/ Submit(p) \/ SubmitDisconnect(p)
  <2>1. /\ Holds(p) /\ UNCHANGED open_files
        /\ slot[p] \notin contested => Buffer(p).status # JOB_REQUESTED
    BY <1>4 DEF Claim, Submit, SubmitDisconnect, Submitted, Owns, Leaving, SessionInv, StageOfOwner,
       StageOfHolder, JOB_REQUESTED, JOB_COMPLETED, JOB_BUFFER_IN_USE, JOB_NO_REQUEST
  <2>2. \A s \in Slots \ {slot[p]} :
          job_buffers'[s] = job_buffers[s] /\ execs'[s] = execs[s] /\ reached'[s] = reached[s]
    BY <1>4 DEF Claim, Submit, SubmitDisconnect, Submitted, NewHistory, SetStatus
  <2>3. QED
    BY <2>1, <2>2
<1>5. CASE ClientAnswered(p) \/ KillAnswered(p) \/ DisconnectAnswered(p)
  BY <1>5 DEF ClientAnswered, KillAnswered, DisconnectAnswered, NewHistory, Owns, Leaving
<1>6. CASE ClearBegins(p) \/ ClearEnds(p)
  <2>1. /\ Owns(p) /\ UNCHANGED <<execs, reached>>
        /\ \A q \in Processes \ {p} : open_files'[q] = open_files[q]
    BY <1>6 DEF ClearBegins, ClearEnds, Owns, Leaving
  <2>2. slot[p] \notin contested => Buffer(p).status # JOB_REQUESTED
    BY <1>6 DEF ClearBegins, ClearEnds, SessionInv, StageOfOwner, StageOfHolder,
       JOB_REQUESTED, JOB_COMPLETED, JOB_NO_REQUEST
  <2>3. \A s \in Slots \ {slot[p]} : job_buffers'[s] = job_buffers[s]
    BY <1>6 DEF ClearBegins, ClearEnds
  <2>4. QED
    BY <2>1, <2>2, <2>3
<1>7. QED
  BY <1>1, <1>2, <1>3, <1>4, <1>5, <1>6 DEF ProcessStep, Proceed
=============================================================================
