---------------------------- MODULE IpcFileProofs ----------------------------
(***************************************************************************)
(* The files behind the protocol of IpcSystem, for any number of slots,    *)
(* threads, clients, server_killers and descriptors and in every build: in *)
(* a slot that nobody contested a write reaches the file of the client     *)
(* that asked for it and a slot that is free again remembers nothing,      *)
(* but where a slot was given back without telling the server.             *)
(***************************************************************************)
EXTENDS IpcSessionProofs

-----------------------------------------------------------------------------
\* What FileInv says of one process and its slot, if nobody contested it.
SlotFits(p) ==
  /\ cpc[p] \in {"filled", "wait"} =>
       IF p \in Clients
         THEN Buffer(p).pid = p /\ Buffer(p).cmd \in {CMD_WRITE, CMD_CLOSE}
         ELSE Buffer(p).cmd = CMD_KILL_SERVER
  /\ cpc[p] \in {"leaving", "leavewait"} => Buffer(p).cmd = CMD_DISCONNECT \/ slot[p] \in untold
  /\ p \in Clients /\ Owns(p) /\ slot[p] \notin untold =>
       \A fd \in AllFds : registered_fds[slot[p]][fd] \in {NoFile, open_files[p][fd]}
  /\ cpc[p] = "wait" /\ Buffer(p).cmd = CMD_CLOSE /\ execs[slot[p]] = 1 =>
       registered_fds[slot[p]][Buffer(p).arg1] = NoFile
  /\ cpc[p] = "leavewait" /\ execs[slot[p]] = 1 =>
       registered_fds[slot[p]] = EmptyRow \/ slot[p] \in untold
  /\ cpc[p] \in {"clear", "clear_head"} =>
       registered_fds[slot[p]] = EmptyRow \/ slot[p] \in untold
  /\ p \in Clients /\ cpc[p] = "wait" /\ reached[slot[p]] # NoFile =>
       /\ Buffer(p).cmd = CMD_WRITE
       /\ reached[slot[p]] = open_files[p][Buffer(p).arg1] \/ slot[p] \in untold
  /\ /\ p \in Clients /\ cpc[p] = "wait" /\ Buffer(p).cmd = CMD_WRITE /\ execs[slot[p]] = 1
     /\ \A t \in Threads : Writing(t) => idx[t] # slot[p]
     /\ Buffer(p).response = 1 /\ reached[slot[p]] = NoFile
     => registered_fds[slot[p]][Buffer(p).arg1] = NoFile

FilesFit(p) == slot[p] \notin contested => SlotFits(p)

FreeRows ==
  \A s \in Slots \ contested :
    job_buffers[s].status = JOB_NO_REQUEST => registered_fds[s] = EmptyRow \/ s \in untold

AllFit == (\A p \in Processes : FilesFit(p)) /\ WritingAsAsked /\ FreeRows

\* The invariant sorted by process: a step is looked at from each one's side.
LEMMA FileInvByProcess == FileInv <=> AllFit
<1>1. \A p \in Clients : p \in Processes
  BY DEF Processes
<1>2. ASSUME FileInv, NEW p \in Processes PROVE FilesFit(p)
  BY <1>2 DEF FileInv, JobIsOwn, RowOfOwner, RowForgotten, WriteRecorded, FilesFit, SlotFits
<1>3. ASSUME \A p \in Processes : FilesFit(p) PROVE JobIsOwn /\ RowOfOwner /\ WriteRecorded
  BY <1>1, <1>3 DEF JobIsOwn, RowOfOwner, WriteRecorded, FilesFit, SlotFits
<1>4. ASSUME \A p \in Processes : FilesFit(p), FreeRows PROVE RowForgotten
  BY <1>4 DEF RowForgotten, FreeRows, FilesFit, SlotFits
<1>5. FileInv => WritingAsAsked /\ FreeRows
  BY DEF FileInv, RowForgotten, FreeRows
<1>6. QED
  BY <1>2, <1>3, <1>4, <1>5 DEF FileInv, AllFit

\* What a process sees of its slot: all but the status of the buffer.
Seen(p) == <<Buffer(p).pid, Buffer(p).cmd, Buffer(p).arg1, Buffer(p).response,
             execs[slot[p]], reached[slot[p]], registered_fds[slot[p]], open_files[p]>>

\* A step that changes nothing of what a process sees, and after which a thread
\* still writes in its slot if one did, leaves it fitting.
LEMMA FilesKept ==
  ASSUME NEW p, SlotFits(p), cpc'[p] = cpc[p], slot'[p] = slot[p], Seen(p)' = Seen(p),
         untold \subseteq untold',
         \A t \in Threads : Writing(t) /\ idx[t] = slot[p] =>
           \E u \in Threads : Writing(u)' /\ idx'[u] = slot[p]
  PROVE  SlotFits(p)'
<1>1. /\ Buffer(p).pid' = Buffer(p).pid /\ Buffer(p).cmd' = Buffer(p).cmd
      /\ Buffer(p).arg1' = Buffer(p).arg1 /\ Buffer(p).response' = Buffer(p).response
      /\ execs'[slot[p]] = execs[slot[p]] /\ reached'[slot[p]] = reached[slot[p]]
      /\ registered_fds'[slot[p]] = registered_fds[slot[p]] /\ open_files'[p] = open_files[p]
  BY DEF Seen
<1>2. Owns(p)' <=> Owns(p)
  BY DEF Owns, Leaving
<1>3. (\A t \in Threads : Writing(t)' => idx'[t] # slot[p]) =>
        (\A t \in Threads : Writing(t) => idx[t] # slot[p])
  OBVIOUS
<1>4. QED
  BY <1>1, <1>2, <1>3 DEF SlotFits
-----------------------------------------------------------------------------
\* The process whose submitted job a thread serves waits for it, with the command
\* that the thread finds (server.c:24, 41).
LEMMA ServedOwner ==
  ASSUME TypeOK, SessionInv, NEW p \in Processes, SlotFits(p), Owns(p), slot[p] \notin contested,
         NEW t \in Threads, Serving(t), idx[t] = slot[p]
  PROVE  /\ Buffer(p) = Job(t)
         /\ cpc[p] = "wait" \/ cpc[p] = "leavewait"
         /\ cpc[p] = "leavewait" => Job(t).cmd = CMD_DISCONNECT \/ slot[p] \in untold
         /\ cpc[p] = "wait" /\ p \in Clients => Job(t).pid = p /\ Job(t).cmd \in {CMD_WRITE, CMD_CLOSE}
         /\ cpc[p] = "wait" /\ p \notin Clients => Job(t).cmd = CMD_KILL_SERVER
<1>1. Buffer(p) = Job(t)
  BY DEF Buffer, Job
<1>2. Buffer(p).status = JOB_REQUESTED
  BY <1>1 DEF SessionInv, AnswerFinal
<1>3. Awaiting(p)
  BY <1>2 DEF SessionInv, StageOfOwner, StageOfHolder, Owns, Leaving, Awaiting,
     JOB_NO_REQUEST, JOB_BUFFER_IN_USE, JOB_REQUESTED, JOB_COMPLETED
<1>4. QED
  BY <1>1, <1>3 DEF Awaiting, SlotFits

\* Processes whose slot the thread is not at keep fitting.
LEMMA ThreadKeepsOthers ==
  ASSUME TypeOK, SessionInv, NEW t \in Threads, ThreadStep(t), UNCHANGED clientVars,
         NEW p \in Processes, SlotFits(p), Owns(p), ~Serving(t) \/ slot[p] # idx[t]
  PROVE  SlotFits(p)'
<1>1. slot[p] \in Slots
  BY SlotIsMine DEF Holds
<1>2. UNCHANGED <<cpc, slot, untold>>
  BY DEF clientVars, marks
<1>3. Seen(p)' = Seen(p)
  BY <1>1, <1>2, ThreadElsewhere DEF Seen, Buffer
<1>4. \A u \in Threads : Writing(u) /\ idx[u] = slot[p] => Writing(u)' /\ idx'[u] = slot[p]
  BY ThreadElsewhere DEF Writing, Serving
<1>5. QED
  BY <1>2, <1>3, <1>4, FilesKept

\* The process whose job a thread serves keeps fitting, whatever the job is
\* (server.c:41-90).
LEMMA ThreadKeepsServed ==
  ASSUME TypeOK, SessionInv, WritingAsAsked, NEW t \in Threads, ThreadStep(t), UNCHANGED clientVars,
         NEW p \in Processes, SlotFits(p), Owns(p), slot[p] \notin contested,
         Serving(t), slot[p] = idx[t]
  PROVE  SlotFits(p)'
<1>t. /\ tpc \in [Threads -> ThreadPcs] /\ clientfd \in [Threads -> AllFds]
      /\ registered_fds \in [Slots -> [AllFds -> FileOrNone]]
      /\ job_buffers \in [Slots -> JobRequestBuffer] /\ execs \in [Slots -> 0 .. 2]
      /\ reached \in [Slots -> FileOrNone] /\ open_files \in [Processes -> [AllFds -> FileOrNone]]
      /\ idx[t] \in Slots /\ Job(t) \in JobRequestBuffer /\ Job(t).arg1 \in AllFds
  BY DEF TypeOK, ServerTypeOK, WorkspaceTypeOK, Job, JobRequestBuffer
<1>u. UNCHANGED <<cpc, slot, open_files, untold>> /\ idx' = idx /\ (Owns(p)' <=> Owns(p))
  BY ThreadElsewhere DEF clientVars, marks, Owns, Leaving
<1>b. Buffer(p) = Job(t) /\ Buffer(p)' = job_buffers'[idx[t]] /\ Job(t) = job_buffers[idx[t]]
  BY <1>u DEF Buffer, Job
<1>0. CASE cpc[p] = "leavewait" /\ slot[p] \in untold
  BY <1>0, <1>u DEF SlotFits
<1> SUFFICES ASSUME ~(cpc[p] = "leavewait" /\ slot[p] \in untold) PROVE SlotFits(p)'
  BY <1>0
<1>c. /\ cpc[p] = "wait" \/ (cpc[p] = "leavewait" /\ Job(t).cmd = CMD_DISCONNECT)
      /\ cpc[p] = "wait" /\ p \in Clients => Job(t).pid = p /\ Job(t).cmd \in {CMD_WRITE, CMD_CLOSE}
      /\ cpc[p] = "wait" /\ p \notin Clients => Job(t).cmd = CMD_KILL_SERVER
  BY ServedOwner
<1>d. CMD_WRITE # CMD_CLOSE /\ CMD_WRITE # CMD_DISCONNECT /\ CMD_WRITE # CMD_KILL_SERVER
      /\ CMD_CLOSE # CMD_DISCONNECT /\ CMD_CLOSE # CMD_KILL_SERVER /\ CMD_DISCONNECT # CMD_KILL_SERVER
      /\ CMD_WRITE \notin {CMD_NONE, CMD_OPEN} /\ CMD_CLOSE \notin {CMD_NONE, CMD_OPEN}
      /\ CMD_DISCONNECT \notin {CMD_NONE, CMD_OPEN} /\ CMD_KILL_SERVER \notin {CMD_NONE, CMD_OPEN}
  BY DEF CMD_WRITE, CMD_CLOSE, CMD_DISCONNECT, CMD_KILL_SERVER, CMD_NONE, CMD_OPEN
<1>1. CASE SwitchWrite(t)
  <2>1. Job(t).cmd = CMD_WRITE /\ UNCHANGED <<job_buffers, registered_fds, reached>> /\ Writing(t)'
    BY <1>1, <1>t DEF SwitchWrite, Goto, Writing
  <2>2. \E u \in Threads : Writing(u)' /\ idx'[u] = slot[p]
    BY <2>1, <1>u
  <2>3. QED
    BY <2>1, <2>2, <1>b, <1>c, <1>d, <1>u DEF SlotFits
<1>2. CASE SwitchClose(t)
  <2>1. Job(t).cmd = CMD_CLOSE /\ UNCHANGED <<job_buffers, reached>>
    BY <1>2 DEF SwitchClose
  <2>2. \A fd \in AllFds :
          registered_fds'[idx[t]][fd] = IF fd = Job(t).arg1 THEN NoFile ELSE registered_fds[idx[t]][fd]
    BY <1>2, <1>t DEF SwitchClose
  <2>3. QED
    BY <2>1, <2>2, <1>b, <1>c, <1>d, <1>t, <1>u DEF SlotFits
<1>3. CASE SwitchKill(t) \/ SwitchDefault(t)
  <2>1. Job(t).cmd \in {CMD_KILL_SERVER, CMD_NONE, CMD_OPEN} /\ UNCHANGED <<job_buffers, registered_fds, reached>>
    BY <1>3 DEF SwitchKill, SwitchDefault
  <2>2. QED
    BY <2>1, <1>b, <1>c, <1>d, <1>u DEF SlotFits
<1>4. CASE SwitchDisconnect(t)
  <2>1. /\ Job(t).cmd = CMD_DISCONNECT /\ UNCHANGED <<job_buffers, reached>>
        /\ registered_fds'[idx[t]] = EmptyRow
    BY <1>4, <1>t DEF SwitchDisconnect
  <2>2. cpc[p] = "leavewait"
    BY <2>1, <1>c, <1>d
  <2>3. QED
    BY <2>1, <2>2, <1>b, <1>u DEF SlotFits, EmptyRow
<1>5. CASE Borrow(t)
  <2>1. /\ tpc[t] = "borrow" /\ UNCHANGED <<job_buffers, execs, reached>> /\ Writing(t)'
        /\ \A fd \in AllFds :
             registered_fds'[idx[t]][fd] =
               IF fd = clientfd[t] THEN open_files[Job(t).pid][Job(t).arg1] ELSE registered_fds[idx[t]][fd]
    BY <1>5, <1>t DEF Borrow, Goto, Writing, workspaceVars
  <2>2. Job(t).cmd = CMD_WRITE /\ clientfd[t] = Job(t).arg1
    BY <2>1 DEF WritingAsAsked, Writing
  <2>3. cpc[p] = "wait" /\ p \in Clients /\ Job(t).pid = p
    BY <2>2, <1>c, <1>d
  <2>4. \E u \in Threads : Writing(u)' /\ idx'[u] = slot[p]
    BY <2>1, <1>u
  <2>5. QED
    BY <2>1, <2>2, <2>3, <2>4, <1>b, <1>d, <1>u DEF SlotFits
<1>6. CASE BorrowFails(t)
  <2>1. tpc[t] = "borrow" /\ UNCHANGED <<job_buffers, registered_fds, execs, reached>>
    BY <1>6 DEF BorrowFails, workspaceVars
  <2>2. /\ Job(t).cmd = CMD_WRITE
        /\ registered_fds[idx[t]][Job(t).arg1] = NoFile
    BY <2>1 DEF WritingAsAsked, Writing
  <2>3. QED
    BY <2>1, <2>2, <1>b, <1>c, <1>d, <1>u DEF SlotFits
<1>7. CASE Write(t)
  <2>1. PICK result \in {-1, 1} :
          /\ job_buffers' = [job_buffers EXCEPT ![idx[t]].response = result]
          /\ reached' = IF result = 1
                          THEN [reached EXCEPT ![idx[t]] = registered_fds[idx[t]][clientfd[t]]]
                          ELSE reached
    BY <1>7 DEF Write
  <2>2. tpc[t] = "write" /\ UNCHANGED <<registered_fds, execs>>
    BY <1>7 DEF Write
  <2>3. /\ Job(t).cmd = CMD_WRITE /\ clientfd[t] = Job(t).arg1
        /\ registered_fds[idx[t]][Job(t).arg1] # NoFile
    BY <2>2 DEF WritingAsAsked, Writing
  <2>4. /\ Buffer(p)'.pid = Job(t).pid /\ Buffer(p)'.cmd = Job(t).cmd
        /\ Buffer(p)'.arg1 = Job(t).arg1 /\ Buffer(p)'.response = result
    <3>1. Buffer(p)' = [Job(t) EXCEPT !.response = result]
      BY <2>1, <1>t, <1>b
    <3>2. QED
      BY <3>1, <1>t DEF JobRequestBuffer
  <2>5. reached'[idx[t]] = IF result = 1 THEN registered_fds[idx[t]][Job(t).arg1] ELSE reached[idx[t]]
    BY <2>1, <2>3, <1>t
  <2>6. cpc[p] = "wait" /\ p \in Clients
    BY <2>3, <1>c, <1>d
  <2>7. registered_fds[idx[t]][Job(t).arg1] = open_files[p][Job(t).arg1] \/ slot[p] \in untold
    BY <2>3, <2>6, <1>t DEF SlotFits
  <2>8. -1 # 1
    OBVIOUS
  <2>9. QED
    BY <2>2, <2>3, <2>4, <2>5, <2>6, <2>7, <2>8, <1>b, <1>d, <1>t, <1>u DEF SlotFits
<1>8. CASE MarkJobCompleted(t)
  <2>1. UNCHANGED <<registered_fds, execs, reached>> /\ ~Writing(t)
    BY <1>8 DEF MarkJobCompleted, Writing
  <2>2. Buffer(p)' = [Job(t) EXCEPT !.status = JOB_COMPLETED]
    BY <1>8, <1>t, <1>b DEF MarkJobCompleted, SetStatus
  <2>3. Seen(p)' = Seen(p)
    BY <2>1, <2>2, <1>t, <1>b, <1>u DEF Seen, JobRequestBuffer
  <2>4. \A u \in Threads : Writing(u) /\ idx[u] = slot[p] => Writing(u)' /\ idx'[u] = slot[p]
    BY <2>1, ThreadElsewhere DEF Writing
  <2>5. QED
    BY <2>3, <2>4, <1>u, FilesKept
<1>9. QED
  BY <1>1, <1>2, <1>3, <1>4, <1>5, <1>6, <1>7, <1>8
     DEF ThreadStep, Switch, Serving, LoopTest, TryLock, TryLockFails, CheckStatus, SkipSlot, Unlock

\* A thread keeps the locals of every writing thread, its own included, in
\* agreement with the buffer (server.c:43-64).
LEMMA ThreadKeepsWriting ==
  ASSUME TypeOK, LockExclusion, WritingAsAsked, NEW t \in Threads, ThreadStep(t),
         UNCHANGED contested
  PROVE  WritingAsAsked'
<1>t. /\ tpc \in [Threads -> ThreadPcs] /\ idx \in [Threads -> Slots]
      /\ clientfd \in [Threads -> AllFds]
      /\ registered_fds \in [Slots -> [AllFds -> FileOrNone]]
      /\ job_buffers \in [Slots -> JobRequestBuffer]
      /\ Job(t) \in JobRequestBuffer /\ Job(t).arg1 \in AllFds
  BY DEF TypeOK, ServerTypeOK, WorkspaceTypeOK, Job, JobRequestBuffer
<1>1. ASSUME NEW u \in Threads \ {t}, Writing(u)', idx'[u] \notin contested
      PROVE  /\ Job(u)'.cmd = CMD_WRITE
             /\ clientfd'[u] = Job(u)'.arg1
             /\ registered_fds'[idx'[u]][clientfd'[u]] = NoFile <=> tpc'[u] = "borrow"
  <2>1. tpc'[u] = tpc[u] /\ idx'[u] = idx[u] /\ clientfd'[u] = clientfd[u] /\ Writing(u)
    BY <1>1, ThreadElsewhere DEF Writing
  <2>2. Serving(t) => idx[u] # idx[t]
    BY <2>1 DEF LockExclusion, Holding, Serving, Writing
  <2>3. job_buffers'[idx[u]] = job_buffers[idx[u]] /\ registered_fds'[idx[u]] = registered_fds[idx[u]]
    BY <2>2, <1>t, ThreadElsewhere
  <2>4. QED
    BY <1>1, <2>1, <2>3 DEF WritingAsAsked, Job
<1>2. ASSUME Writing(t)', idx'[t] \notin contested
      PROVE  /\ Job(t)'.cmd = CMD_WRITE
             /\ clientfd'[t] = Job(t)'.arg1
             /\ registered_fds'[idx'[t]][clientfd'[t]] = NoFile <=> tpc'[t] = "borrow"
  <2>1. SwitchWrite(t) \/ Borrow(t)
    BY <1>2, <1>t DEF ThreadStep, LoopTest, TryLock, TryLockFails, CheckStatus, SkipSlot, Switch,
       SwitchClose, SwitchKill, SwitchDisconnect, SwitchDefault, BorrowFails, Write,
       MarkJobCompleted, Unlock, EndWrite, Goto, Writing
  <2>2. CASE SwitchWrite(t)
    BY <2>2, <1>t DEF SwitchWrite, Goto, Job
  <2>3. CASE Borrow(t)
    <3>1. /\ tpc[t] = "borrow" /\ tpc'[t] = "write" /\ UNCHANGED <<idx, clientfd, job_buffers>>
          /\ registered_fds'[idx[t]][clientfd[t]] # NoFile
      BY <2>3, <1>t DEF Borrow, Goto, workspaceVars
    <3>2. QED
      BY <1>2, <3>1 DEF WritingAsAsked, Writing, Job
  <2>4. QED
    BY <2>1, <2>2, <2>3
<1>3. QED
  BY <1>1, <1>2 DEF WritingAsAsked

\* A thread registers files only for a job, thus never in the row of a free slot.
LEMMA ThreadKeepsFreeRows ==
  ASSUME TypeOK, SessionInv, FreeRows, NEW t \in Threads, ThreadStep(t), UNCHANGED marks
  PROVE  FreeRows'
<1>1. CASE ~Serving(t)
  BY <1>1, ThreadElsewhere DEF FreeRows, marks
<1>2. CASE Serving(t) /\ idx[t] \notin contested
  <2>1. job_buffers[idx[t]].status = JOB_REQUESTED /\ idx[t] \in Slots /\ job_buffers[idx[t]] \in JobRequestBuffer
    BY <1>2 DEF SessionInv, AnswerFinal, Job, TypeOK, ServerTypeOK, WorkspaceTypeOK
  <2>2. job_buffers'[idx[t]].status # JOB_NO_REQUEST
    <3>1. CASE UNCHANGED job_buffers
      BY <2>1, <3>1 DEF JOB_REQUESTED, JOB_NO_REQUEST
    <3>2. CASE Write(t)
      <4>1. PICK result : job_buffers' = [job_buffers EXCEPT ![idx[t]].response = result]
        BY <3>2 DEF Write
      <4>2. job_buffers'[idx[t]] = [job_buffers[idx[t]] EXCEPT !.response = result]
        BY <2>1, <4>1 DEF TypeOK, WorkspaceTypeOK
      <4>3. QED
        BY <2>1, <4>2 DEF JobRequestBuffer, JOB_REQUESTED, JOB_NO_REQUEST
    <3>3. CASE MarkJobCompleted(t)
      BY <2>1, <3>3, StageStored DEF MarkJobCompleted, Stage, JOB_COMPLETED, JOB_NO_REQUEST
    <3>4. QED
      BY <1>2, <3>1, <3>2, <3>3 DEF ThreadStep, LoopTest, TryLock, TryLockFails, CheckStatus, SkipSlot,
         Switch, SwitchWrite, SwitchClose, SwitchKill, SwitchDisconnect, SwitchDefault, Borrow,
         BorrowFails, Unlock, workspaceVars
  <2>3. QED
    BY <2>2, ThreadElsewhere DEF FreeRows, marks
<1>3. CASE idx[t] \in contested
  BY <1>3, ThreadElsewhere DEF FreeRows, marks
<1>4. QED
  BY <1>1, <1>2, <1>3

\* A step of a thread, seen from every process.
LEMMA ThreadStepFileInv ==
  ASSUME TypeOK, LockExclusion, SessionInv, FileInv,
         NEW t \in Threads, ThreadStep(t), UNCHANGED clientVars
  PROVE  FileInv'
<1>1. (\A p \in Processes : FilesFit(p)) /\ WritingAsAsked /\ FreeRows
  BY FileInvByProcess DEF AllFit
<1>2. ASSUME NEW p \in Processes PROVE FilesFit(p)'
  <2>1. UNCHANGED <<cpc, slot, contested>>
    BY DEF clientVars, marks
  <2>2. CASE slot[p] \in contested
    BY <2>1, <2>2 DEF FilesFit
  <2>3. CASE ~Owns(p)
    <3>1. ~Owns(p)'
      BY <2>1, <2>3 DEF Owns, Leaving
    <3>2. QED
      BY <3>1 DEF FilesFit, SlotFits, Owns, Leaving
  <2>4. CASE Owns(p) /\ slot[p] \notin contested
    <3>1. SlotFits(p)
      BY <1>1, <2>4 DEF FilesFit
    <3>2. SlotFits(p)'
      BY <1>1, <2>4, <3>1, ThreadKeepsOthers, ThreadKeepsServed
    <3>3. QED
      BY <3>2 DEF FilesFit
  <2>5. QED
    BY <2>2, <2>3, <2>4
<1>3. FreeRows' /\ WritingAsAsked'
  BY <1>1, ThreadKeepsFreeRows, ThreadKeepsWriting DEF clientVars, marks
<1>4. AllFit'
  BY <1>2, <1>3 DEF AllFit
<1>5. QED
  BY <1>4, FileInvByProcess, PTL

-----------------------------------------------------------------------------
\* The processes that do not move keep fitting.
LEMMA ProcessKeepsOthers ==
  ASSUME TypeOK, SessionInv, NEW p \in Processes, ProcessStep(p), UNCHANGED serverVars,
         NEW q \in Processes \ {p}, FilesFit(q)
  PROVE  FilesFit(q)'
<1>1. cpc'[q] = cpc[q] /\ slot'[q] = slot[q] /\ open_files'[q] = open_files[q]
  BY OnlyOwnPlace, ProcessElsewhere
<1>2. CASE ~Owns(q)
  <2>1. ~Owns(q)'
    BY <1>1, <1>2 DEF Owns, Leaving
  <2>2. QED
    BY <2>1 DEF FilesFit, SlotFits, Owns, Leaving
<1>3. CASE slot[q] \in contested
  BY <1>1, <1>3, MarksGrow DEF FilesFit
<1>4. CASE Owns(q) /\ slot[q] \notin contested
  <2>1. slot[q] \in Slots /\ (Holds(p) => slot[q] # slot[p])
    BY <1>4, SlotIsMine DEF Holds
  <2>2. /\ job_buffers'[slot[q]] = job_buffers[slot[q]]
        /\ execs'[slot[q]] = execs[slot[q]] /\ reached'[slot[q]] = reached[slot[q]]
    BY <2>1, ProcessElsewhere
  <2>3. UNCHANGED <<tpc, idx, registered_fds>>
    BY DEF serverVars
  <2>4. Seen(q)' = Seen(q)
    BY <1>1, <2>2, <2>3 DEF Seen, Buffer
  <2>5. \A t \in Threads : Writing(t) /\ idx[t] = slot[q] => Writing(t)' /\ idx'[t] = slot[q]
    BY <2>3 DEF Writing
  <2>6. QED
    BY <1>1, <1>4, <2>4, <2>5, FilesKept, MarksGrow DEF FilesFit
<1>5. QED
  BY <1>2, <1>3, <1>4

\* No process stores under a thread that writes.
LEMMA ProcessKeepsWriting ==
  ASSUME TypeOK, SessionInv, WritingAsAsked, NEW p \in Processes, ProcessStep(p), UNCHANGED serverVars
  PROVE  WritingAsAsked'
<1>1. UNCHANGED <<tpc, idx, clientfd, registered_fds>>
  BY DEF serverVars
<1>2. ASSUME NEW t \in Threads, Writing(t), idx[t] \notin contested PROVE Job(t)' = Job(t)
  <2>1. Job(t).status = JOB_REQUESTED /\ idx[t] \in Slots
    BY <1>2 DEF SessionInv, AnswerFinal, Serving, Writing, TypeOK, ServerTypeOK
  <2>2. CASE idx[t] = slot[p]
    BY <1>1, <1>2, <2>1, <2>2, ProcessElsewhere DEF Job, Buffer
  <2>3. CASE idx[t] # slot[p]
    BY <1>1, <2>1, <2>3, ProcessElsewhere DEF Job
  <2>4. QED
    BY <2>2, <2>3
<1>3. QED
  BY <1>1, <1>2, MarksGrow DEF WritingAsAsked, Writing

\* The process that moves fits in its new place, and leaves no row behind with a
\* buffer that it frees (ipc.c:76-122).
LEMMA ProcessFits ==
  ASSUME TypeOK, SessionInv, FreeRows, UNCHANGED serverVars,
         NEW p \in Processes, ProcessStep(p), slot[p] \notin contested, SlotFits(p)
  PROVE  SlotFits(p)' /\ FreeRows'
<1>t. /\ cpc \in [Processes -> ClientPcs] /\ slot \in [Processes -> 0 .. MaxJobBuffers]
      /\ job_buffers \in [Slots -> JobRequestBuffer] /\ execs \in [Slots -> 0 .. 2]
      /\ reached \in [Slots -> FileOrNone] /\ open_files \in [Processes -> [AllFds -> FileOrNone]]
      /\ registered_fds \in [Slots -> [AllFds -> FileOrNone]]
  BY DEF TypeOK, ClientTypeOK, WorkspaceTypeOK, ServerTypeOK
<1>r. registered_fds' = registered_fds
  BY DEF serverVars
<1>g. untold \subseteq untold' /\ contested \subseteq contested'
  BY MarksGrow
<1>m. Owns(p) \/ cpc[p] = "claim" => slot[p] \in Slots /\ Buffer(p) \in JobRequestBuffer
  BY <1>t, SlotIsMine DEF Holds, Buffer
<1>e. \A fd \in AllFds : EmptyRow[fd] = NoFile
  BY DEF EmptyRow
<1>d. CMD_WRITE # CMD_CLOSE /\ CMD_DISCONNECT # CMD_CLOSE /\ 1 # 0
  BY DEF CMD_WRITE, CMD_CLOSE, CMD_DISCONNECT
<1>f. (slot[p] \in Slots /\ NewStage(slot[p]) = JOB_NO_REQUEST =>
         \/ Stage(slot[p]) = JOB_NO_REQUEST
         \/ registered_fds[slot[p]] = EmptyRow
         \/ slot[p] \in untold) => FreeRows'
  BY <1>r, <1>g, ProcessElsewhere DEF FreeRows, NewStage, Stage
<1> USE <1>g DEF GotoP
<1>1. CASE Connect(p) \/ ConnectRefused(p) \/ ScanStep(p) \/ Crash(p)
  <2>1. cpc'[p] \in {"scan", "claim", "idle", "failed", "dead"} /\ UNCHANGED job_buffers
    <3>1. CASE Connect(p) \/ ConnectRefused(p) \/ Crash(p)
      BY <3>1, <1>t DEF Connect, ConnectRefused, Crash, workspaceVars
    <3>2. CASE ScanStep(p)
      BY <3>2, <1>t DEF ScanStep, SeeFree, SeeTaken, NoneFree, workspaceVars
    <3>3. QED
      BY <1>1, <3>1, <3>2
  <2>2. ~Owns(p)'
    BY <2>1 DEF Owns, Leaving
  <2>3. QED
    BY <2>1, <2>2, <1>f DEF SlotFits, Owns, Leaving, Stage, NewStage
<1>2. CASE Claim(p)
  <2>1. cpc[p] = "claim" /\ cpc'[p] = "ready" /\ slot' = slot
    BY <1>2, <1>t DEF Claim
  <2>2. registered_fds[slot[p]] = EmptyRow \/ slot[p] \in untold
    BY <2>1, <1>m DEF SessionInv, StageOfOwner, StageOfHolder, FreeRows, Buffer
  <2>3. QED
    BY <2>1, <2>2, <1>e, <1>f, <1>r DEF SlotFits
<1>3. CASE OpenFile(p)
  <2>1. PICK fd \in Fds, f \in Files :
          open_files[p][fd] = NoFile /\ open_files' = [open_files EXCEPT ![p][fd] = f]
    BY <1>3 DEF OpenFile
  <2>2. cpc' = cpc /\ slot' = slot /\ cpc[p] = "ready" /\ Owns(p) /\ p \in Clients /\ UNCHANGED job_buffers
    BY <1>3 DEF OpenFile, clientVars, Owns
  <2>3. slot[p] \notin untold =>
          \A g \in AllFds : registered_fds[slot[p]][g] \in {NoFile, open_files'[p][g]}
    <3>1. \A g \in AllFds : g # fd => open_files'[p][g] = open_files[p][g]
      BY <2>1, <1>t
    <3>2. slot[p] \notin untold => registered_fds[slot[p]][fd] = NoFile
      BY <2>1, <2>2 DEF SlotFits, AllFds
    <3>3. QED
      BY <2>2, <3>1, <3>2 DEF SlotFits
  <2>4. QED
    BY <2>2, <2>3, <1>f, <1>r DEF SlotFits, Stage, NewStage
<1>4. CASE FillJob(p)
  <2>1. cpc[p] = "ready" /\ cpc'[p] = "filled" /\ slot' = slot /\ open_files' = open_files /\ p \in Clients
    BY <1>4, <1>t DEF FillJob
  <2>2. Owns(p) /\ slot[p] \in Slots /\ job_buffers[slot[p]] \in JobRequestBuffer
    BY <2>1, <1>m DEF Owns, Buffer
  <2>3. PICK cmd \in {CMD_WRITE, CMD_CLOSE}, fd \in Fds :
          job_buffers'[slot[p]] = [job_buffers[slot[p]] EXCEPT !.pid = p, !.cmd = cmd, !.arg1 = fd]
    BY <1>4, <2>2, <1>t DEF FillJob
  <2>4. /\ job_buffers'[slot[p]].pid = p /\ job_buffers'[slot[p]].cmd = cmd
        /\ NewStage(slot[p]) = Stage(slot[p])
    BY <2>2, <2>3 DEF JobRequestBuffer, Stage, NewStage
  <2>5. Buffer(p)' = job_buffers'[slot[p]]
    BY <2>1 DEF Buffer
  <2>6. QED
    BY <2>1, <2>2, <2>4, <2>5, <1>f, <1>r DEF SlotFits
<1>5. CASE FillKill(p)
  <2>1. cpc[p] = "ready" /\ cpc'[p] = "filled" /\ slot' = slot /\ p \notin Clients
    BY <1>5, <1>t, ProcessAssumption DEF FillKill
  <2>2. slot[p] \in Slots /\ job_buffers[slot[p]] \in JobRequestBuffer
    BY <2>1, <1>m DEF Owns, Buffer
  <2>3. job_buffers'[slot[p]] = [job_buffers[slot[p]] EXCEPT !.cmd = CMD_KILL_SERVER]
    BY <1>5, <2>2, <1>t DEF FillKill
  <2>4. job_buffers'[slot[p]].cmd = CMD_KILL_SERVER /\ NewStage(slot[p]) = Stage(slot[p])
    BY <2>2, <2>3 DEF JobRequestBuffer, Stage, NewStage
  <2>5. Buffer(p)' = job_buffers'[slot[p]]
    BY <2>1 DEF Buffer
  <2>6. QED
    BY <2>1, <2>4, <2>5, <1>f DEF SlotFits
<1>6. CASE Disconnect(p)
  <2>1. cpc[p] = "ready" /\ cpc'[p] = "leaving" /\ slot' = slot /\ open_files' = open_files
    BY <1>6, <1>t DEF Disconnect
  <2>2. Owns(p) /\ slot[p] \in Slots /\ job_buffers[slot[p]] \in JobRequestBuffer
    BY <2>1, <1>m DEF Owns, Buffer
  <2>3. \/ job_buffers'[slot[p]] = [job_buffers[slot[p]] EXCEPT !.cmd = CMD_DISCONNECT]
        \/ job_buffers' = job_buffers /\ slot[p] \in untold'
    BY <1>6, <2>2, <1>t DEF Disconnect
  <2>4. /\ job_buffers'[slot[p]].cmd = CMD_DISCONNECT \/ slot[p] \in untold'
        /\ NewStage(slot[p]) = Stage(slot[p])
    BY <2>2, <2>3 DEF JobRequestBuffer, Stage, NewStage
  <2>5. Buffer(p)' = job_buffers'[slot[p]]
    BY <2>1 DEF Buffer
  <2>6. QED
    BY <2>1, <2>2, <2>4, <2>5, <1>f, <1>r DEF SlotFits
<1>7. CASE Submit(p) \/ SubmitDisconnect(p)
  <2>1. /\ slot' = slot /\ open_files' = open_files
        /\ \/ cpc[p] = "filled" /\ cpc'[p] = "wait"
           \/ cpc[p] = "leaving" /\ cpc'[p] = "leavewait"
    BY <1>7, <1>t DEF Submit, SubmitDisconnect, Submitted
  <2>2. Owns(p) /\ slot[p] \in Slots /\ job_buffers[slot[p]] \in JobRequestBuffer
    BY <2>1, <1>m DEF Owns, Leaving, Buffer
  <2>3. /\ job_buffers'[slot[p]] = [job_buffers[slot[p]] EXCEPT !.status = JOB_REQUESTED]
        /\ execs'[slot[p]] = 0 /\ reached'[slot[p]] = NoFile
    BY <1>7, <2>2, <1>t DEF Submit, SubmitDisconnect, Submitted, SetStatus, NewHistory
  <2>4. /\ Buffer(p)'.pid = Buffer(p).pid /\ Buffer(p)'.cmd = Buffer(p).cmd
        /\ NewStage(slot[p]) = JOB_REQUESTED
    BY <2>1, <2>2, <2>3 DEF Buffer, NewStage, JobRequestBuffer
  <2>5. FreeRows'
    BY <2>4, <1>f DEF JOB_REQUESTED, JOB_NO_REQUEST
  <2>6. QED
    BY <2>1, <2>2, <2>3, <2>4, <2>5, <1>d, <1>r DEF SlotFits
<1>8. CASE ClientAnswered(p)
  <2>1. /\ cpc[p] = "wait" /\ cpc'[p] = "ready" /\ slot' = slot /\ UNCHANGED job_buffers /\ p \in Clients
        /\ Buffer(p).status = JOB_COMPLETED
        /\ open_files' = IF Buffer(p).cmd = CMD_CLOSE
                           THEN [open_files EXCEPT ![p][Buffer(p).arg1] = NoFile] ELSE open_files
    BY <1>8, <1>t DEF ClientAnswered
  <2>2. Owns(p) /\ execs[slot[p]] = 1
    BY <2>1 DEF SessionInv, ExactlyOnce, Awaiting, Owns
  <2>3. slot[p] \notin untold =>
          \A fd \in AllFds : registered_fds[slot[p]][fd] \in {NoFile, open_files'[p][fd]}
    <3>1. CASE Buffer(p).cmd = CMD_CLOSE
      <4>1. \A fd \in AllFds : fd # Buffer(p).arg1 => open_files'[p][fd] = open_files[p][fd]
        BY <2>1, <3>1, <1>t
      <4>2. registered_fds[slot[p]][Buffer(p).arg1] = NoFile
        BY <2>1, <2>2, <3>1 DEF SlotFits
      <4>3. QED
        BY <2>1, <2>2, <4>1, <4>2 DEF SlotFits
    <3>2. CASE Buffer(p).cmd # CMD_CLOSE
      BY <2>1, <2>2, <3>2 DEF SlotFits
    <3>3. QED
      BY <3>1, <3>2
  <2>4. QED
    BY <2>1, <2>2, <2>3, <1>f, <1>r DEF SlotFits, Stage, NewStage
<1>9. CASE KillAnswered(p)
  <2>1. cpc'[p] \in {"idle", "done"} /\ UNCHANGED job_buffers
    BY <1>9, <1>t DEF KillAnswered
  <2>2. QED
    BY <2>1, <1>f DEF SlotFits, Owns, Leaving, Stage, NewStage
<1>10. CASE DisconnectAnswered(p)
  <2>1. /\ cpc[p] = "leavewait" /\ cpc'[p] = "clear" /\ slot' = slot /\ UNCHANGED job_buffers
        /\ Buffer(p).status = JOB_COMPLETED
    BY <1>10, <1>t DEF DisconnectAnswered
  <2>2. registered_fds[slot[p]] = EmptyRow \/ slot[p] \in untold
    BY <2>1 DEF SessionInv, ExactlyOnce, Awaiting, SlotFits
  <2>3. QED
    BY <2>1, <2>2, <1>e, <1>f, <1>r DEF SlotFits
<1>11. CASE ClearBegins(p)
  <2>1. cpc[p] = "clear" /\ cpc'[p] \in {"clear_rest", "clear_head"} /\ slot' = slot
    BY <1>11, <1>t DEF ClearBegins
  <2>2. registered_fds[slot[p]] = EmptyRow \/ slot[p] \in untold
    BY <2>1 DEF SlotFits
  <2>3. QED
    BY <2>1, <2>2, <1>e, <1>f, <1>r DEF SlotFits
<1>12. CASE ClearEnds(p)
  <2>1. cpc[p] \in {"clear_rest", "clear_head"} /\ cpc'[p] = "idle"
    BY <1>12, <1>t DEF ClearEnds
  <2>2. registered_fds[slot[p]] = EmptyRow \/ slot[p] \in untold
    <3>1. slot[p] \in Slots
      BY <2>1, <1>m DEF Owns, Leaving
    <3>2. CASE cpc[p] = "clear_rest"
      BY <3>1, <3>2 DEF SessionInv, StageOfOwner, StageOfHolder, FreeRows, Buffer
    <3>3. CASE cpc[p] = "clear_head"
      BY <3>3 DEF SlotFits
    <3>4. QED
      BY <2>1, <3>2, <3>3
  <2>3. QED
    BY <2>1, <2>2, <1>f DEF SlotFits, Owns, Leaving
<1>13. QED
  BY <1>1, <1>2, <1>3, <1>4, <1>5, <1>6, <1>7, <1>8, <1>9, <1>10, <1>11, <1>12 DEF ProcessStep, Proceed

\* A process in a contested slot spoils at most what is not spoken of any more.
LEMMA ContestedProcessFits ==
  ASSUME TypeOK, SessionInv, FreeRows, UNCHANGED serverVars,
         NEW p \in Processes, ProcessStep(p), slot[p] \in contested
  PROVE  FilesFit(p)' /\ FreeRows'
<1>1. FreeRows'
  BY ProcessElsewhere, MarksGrow DEF FreeRows, serverVars
<1>2. CASE slot'[p] = slot[p]
  BY <1>1, <1>2, MarksGrow DEF FilesFit
<1>3. CASE slot'[p] # slot[p]
  <2>1. ~Owns(p)'
    BY <1>3 DEF TypeOK, ClientTypeOK, ProcessStep, Proceed, ScanStep, Connect, ConnectRefused,
       OpenFile, FillJob, Disconnect, Crash, SeeFree, SeeTaken, NoneFree, Claim, FillKill, Submit,
       Submitted, ClientAnswered, KillAnswered, SubmitDisconnect, DisconnectAnswered, ClearBegins,
       ClearEnds, GotoP, clientVars, Owns, Leaving
  <2>2. QED
    BY <1>1, <2>1 DEF FilesFit, SlotFits, Owns, Leaving
<1>4. QED
  BY <1>2, <1>3

\* A step of a process, seen from itself and from the others.
LEMMA ProcessStepFileInv ==
  ASSUME TypeOK, SessionInv, FileInv,
         NEW p \in Processes, ProcessStep(p), UNCHANGED serverVars
  PROVE  FileInv'
<1>1. (\A q \in Processes : FilesFit(q)) /\ WritingAsAsked /\ FreeRows
  BY FileInvByProcess DEF AllFit
<1>2. FilesFit(p)' /\ FreeRows'
  BY <1>1, ProcessFits, ContestedProcessFits DEF FilesFit
<1>3. \A q \in Processes \ {p} : FilesFit(q)'
  BY <1>1, ProcessKeepsOthers
<1>4. WritingAsAsked'
  BY <1>1, ProcessKeepsWriting
<1>5. AllFit'
  BY <1>2, <1>3, <1>4 DEF AllFit
<1>6. QED
  BY <1>5, FileInvByProcess, PTL

\* Every step.
LEMMA StepFileInv ==
  ASSUME TypeOK, LockExclusion, SessionInv, FileInv, [Next]_vars
  PROVE  FileInv'
<1>1. ASSUME NEW t \in Threads, ThreadStep(t), UNCHANGED clientVars PROVE FileInv'
  BY <1>1, ThreadStepFileInv
<1>2. ASSUME NEW p \in Processes, ProcessStep(p), UNCHANGED serverVars PROVE FileInv'
  BY <1>2, ProcessStepFileInv
<1>3. CASE UNCHANGED <<job_buffers, open_files, execs, reached, serverVars, clientVars>>
  <2>1. UNCHANGED <<job_buffers, open_files, execs, reached, tpc, idx, clientfd, registered_fds,
                   cpc, slot, contested, untold>>
    BY <1>3 DEF serverVars, clientVars, marks
  <2>2. JobIsOwn' /\ RowOfOwner' /\ RowForgotten'
    BY <2>1 DEF FileInv, JobIsOwn, RowOfOwner, RowForgotten, Buffer, Owns, Leaving
  <2>3. WritingAsAsked' /\ WriteRecorded'
    BY <2>1 DEF FileInv, WritingAsAsked, WriteRecorded, Writing, Job, Buffer
  <2>4. QED
    BY <2>2, <2>3 DEF FileInv
<1>4. QED
  BY <1>1, <1>2, <1>3 DEF Next, vars, CloseWorkspace, workspaceVars

\* In slots that nobody contested jobs, borrowed files and descriptor tables fit at all
\* times, in every build and with any clients crashing; of a slot given back untold what
\* still fits is kept apart from what does not (server.c:41-85).
THEOREM FilesConsistent == Spec => []FileInv
<1>1. Init => FileInv
  BY FileAssumption DEF Init, ClientInit, ServerInit, WorkspaceInit, FileInv, JobIsOwn, WritingAsAsked, Writing,
     RowOfOwner, RowForgotten, WriteRecorded, Owns, Leaving, Processes
<1>2. TypeOK /\ LockExclusion /\ SessionInv /\ FileInv /\ [Next]_vars => FileInv'
  BY StepFileInv
<1>3. QED
  BY <1>1, <1>2, TypeCorrectness, ThreadsExclude, SessionsConsistent, PTL DEF Spec

\* In every build a write goes to the file of the client that asked for it, whatever was
\* cached for earlier uses of the descriptor number or for owners that told the server
\* of their leave; it goes astray only where one did not, or two came in together
\* (server.c:47-64, 73-85, ipc.c:86-88, 118).
THEOREM WritesReachOwnFiles == Spec => []WriteAstrayOnlyIfUntold
<1>1. FileInv => WriteAstrayOnlyIfUntold
  BY DEF FileInv, WriteRecorded, WriteAstrayOnlyIfUntold
<1>2. QED
  BY <1>1, FilesConsistent, PTL

\* The break without a response (server.c:52) misleads a client only while nothing
\* is registered for its descriptor, in every build and whatever is cached for others.
THEOREM StaleAnswersAreUnborrowed == Spec => []StaleAnswerOnlyUnborrowed
<1>1. ASSUME SessionInv, FileInv, NEW p \in Clients, cpc[p] = "wait", Buffer(p).status = JOB_COMPLETED,
             slot[p] \notin contested
      PROVE  /\ execs[slot[p]] = 1
             /\ \A t \in Threads : Writing(t) => idx[t] # slot[p]
  <2>1. execs[slot[p]] = 1
    BY <1>1 DEF SessionInv, ExactlyOnce, Awaiting, Processes
  <2>2. ASSUME NEW t \in Threads, Writing(t), idx[t] = slot[p] PROVE FALSE
    BY <1>1, <2>2 DEF SessionInv, AnswerFinal, Serving, Writing, Job, Buffer, JOB_REQUESTED, JOB_COMPLETED
  <2>3. QED
    BY <2>1, <2>2
<1>2. SessionInv /\ FileInv => StaleAnswerOnlyUnborrowed
  BY <1>1 DEF FileInv, WriteRecorded, StaleAnswerOnlyUnborrowed
<1>3. QED
  BY <1>2, FilesConsistent, SessionsConsistent, PTL

-----------------------------------------------------------------------------
\* Threads store nothing in a slot that is free or being wiped.
LEMMA ThreadStepWipeInv ==
  ASSUME TypeOK, SessionInv, WipeInv, NEW t \in Threads, ThreadStep(t), UNCHANGED clientVars
  PROVE  WipeInv'
<1>1. UNCHANGED <<cpc, slot, contested, untold>>
  BY DEF clientVars, marks
<1>2. ASSUME NEW s \in Slots \ contested, Stage(s) # JOB_REQUESTED
      PROVE  job_buffers'[s] = job_buffers[s] /\ registered_fds'[s] = registered_fds[s]
  <2>1. Serving(t) => idx[t] # s
    BY <1>2 DEF SessionInv, AnswerFinal, Job, Stage
  <2>2. QED
    BY <2>1, ThreadElsewhere
<1>3. ASSUME NEW p \in Processes, cpc[p] \in {"clear_rest", "clear_head"}, slot[p] \notin contested
      PROVE  Buffer(p)' = Buffer(p)
  <2>1. slot[p] \in Slots /\ Stage(slot[p]) # JOB_REQUESTED
    BY <1>3 DEF SessionInv, StageOfOwner, StageOfHolder, Holds, Owns, Leaving, Buffer, Stage,
       JOB_REQUESTED, JOB_NO_REQUEST, JOB_COMPLETED
  <2>2. QED
    BY <1>1, <1>2, <1>3, <2>1 DEF Buffer
<1>4. ASSUME NEW s \in Slots, NewStage(s) = JOB_NO_REQUEST PROVE Stage(s) # JOB_REQUESTED
  <2>1. CASE Serving(t) /\ idx[t] = s
    <3>1. NewStage(s) \in {Stage(s), JOB_COMPLETED}
      <4>1. CASE MarkJobCompleted(t)
        BY <2>1, <4>1, StageStored DEF MarkJobCompleted, NewStage, Stage
      <4>2. CASE Write(t)
        <5>1. PICK result : job_buffers' = [job_buffers EXCEPT ![idx[t]] = [job_buffers[idx[t]] EXCEPT !.response = result]]
          BY <4>2 DEF Write
        <5>2. [job_buffers[idx[t]] EXCEPT !.response = result].status = job_buffers[idx[t]].status
          BY <2>1 DEF TypeOK, WorkspaceTypeOK, JobRequestBuffer
        <5>3. QED
          BY <2>1, <5>1, <5>2, StageReplaced DEF Stage, NewStage
      <4>3. CASE UNCHANGED job_buffers
        BY <4>3 DEF NewStage, Stage
      <4>4. QED
        BY <2>1, <4>1, <4>2, <4>3 DEF ThreadStep, LoopTest, TryLock, TryLockFails, CheckStatus, SkipSlot,
           Switch, SwitchWrite, SwitchClose, SwitchKill, SwitchDisconnect, SwitchDefault, Borrow,
           BorrowFails, Unlock, workspaceVars
    <3>2. QED
      BY <1>4, <3>1 DEF JOB_COMPLETED, JOB_NO_REQUEST, JOB_REQUESTED
  <2>2. CASE ~(Serving(t) /\ idx[t] = s)
    BY <1>4, <2>2, ThreadElsewhere DEF Stage, NewStage, JOB_NO_REQUEST, JOB_REQUESTED
  <2>3. QED
    BY <2>1, <2>2
<1>5. FreeSlotForgotten'
  <2>1. ASSUME NEW s \in Slots \ contested, NewStage(s) = JOB_NO_REQUEST
        PROVE  job_buffers'[s] = job_buffers[s] /\ registered_fds'[s] = registered_fds[s]
    BY <1>2, <1>4, <2>1
  <2>2. \A p \in Processes : Leaving(p)' <=> Leaving(p)
    BY <1>1 DEF Leaving
  <2>3. QED
    BY <1>1, <2>1, <2>2 DEF WipeInv, FreeSlotForgotten, NewStage
<1>6. QED
  BY <1>1, <1>3, <1>5 DEF WipeInv

\* What each of the two spans of the memset leaves of a buffer (ipc.c:121).
LEMMA BothSpansWiped ==
  ASSUME NEW b \in JobRequestBuffer
  PROVE  /\ ZeroHead(b) = [pid |-> NoPid, cmd |-> CMD_NONE, arg1 |-> b.arg1,
                           response |-> b.response, status |-> JOB_NO_REQUEST]
         /\ ZeroRest(b) = [pid |-> b.pid, cmd |-> b.cmd, arg1 |-> 0, response |-> 0,
                           status |-> b.status]
<1>1. ASSUME NEW c \in JobRequestBuffer
      PROVE  c = [pid |-> c.pid, cmd |-> c.cmd, arg1 |-> c.arg1, response |-> c.response, status |-> c.status]
  BY DEF JobRequestBuffer
<1>2. /\ ZeroHead(b) \in JobRequestBuffer
      /\ ZeroHead(b).pid = NoPid /\ ZeroHead(b).cmd = CMD_NONE /\ ZeroHead(b).arg1 = b.arg1
      /\ ZeroHead(b).response = b.response /\ ZeroHead(b).status = JOB_NO_REQUEST
  BY DEF ZeroHead, JobRequestBuffer, Commands, Statuses
<1>3. /\ ZeroRest(b) \in JobRequestBuffer
      /\ ZeroRest(b).pid = b.pid /\ ZeroRest(b).cmd = b.cmd /\ ZeroRest(b).arg1 = 0
      /\ ZeroRest(b).response = 0 /\ ZeroRest(b).status = b.status
  BY DEF ZeroRest, JobRequestBuffer, AllFds, Responses
<1>4. QED
  BY <1>1, <1>2, <1>3

\* A process that frees its slot has wiped all of it, one that dies between the spans of
\* the memset the first, and the slots it does not hold stay as they are (ipc.c:121).
LEMMA ProcessStepWipeInv ==
  ASSUME TypeOK, SessionInv, FileInv, WipeInv,
         NEW p \in Processes, ProcessStep(p), UNCHANGED serverVars
  PROVE  WipeInv'
<1>t. /\ cpc \in [Processes -> ClientPcs] /\ slot \in [Processes -> 0 .. MaxJobBuffers]
      /\ job_buffers \in [Slots -> JobRequestBuffer]
  BY DEF TypeOK, ClientTypeOK, WorkspaceTypeOK
<1>r. registered_fds' = registered_fds
  BY DEF serverVars
<1>o. \A q \in Processes \ {p} : cpc'[q] = cpc[q] /\ slot'[q] = slot[q]
  BY OnlyOwnPlace
<1>g. contested \subseteq contested' /\ untold \subseteq untold'
  BY MarksGrow
<1>1. ASSUME NEW q \in Processes \ {p}, cpc[q] \in {"clear_rest", "clear_head"}, slot[q] \notin contested
      PROVE  Buffer(q)' = Buffer(q)
  <2>1. slot[q] \in Slots /\ (Holds(p) => slot[q] # slot[p])
    BY <1>1, SlotIsMine DEF Holds, Owns, Leaving
  <2>2. QED
    BY <1>o, <2>1, ProcessElsewhere DEF Buffer
<1>2. ASSUME ClearBegins(p)
      PROVE  /\ Leaving(p) /\ Leaving(p)' /\ slot'[p] = slot[p]
             /\ cpc'[p] = "clear_rest" => Buffer(p)'.pid = NoPid /\ Buffer(p)'.cmd = CMD_NONE
             /\ cpc'[p] = "clear_head" => Buffer(p)'.arg1 = 0 /\ Buffer(p)'.response = 0
  <2>1. cpc[p] = "clear" /\ slot[p] \in Slots /\ slot' = slot
    BY <1>2, SlotIsMine DEF ClearBegins, Holds, Owns, Leaving
  <2>2. \/ cpc'[p] = "clear_rest" /\ Buffer(p)' = ZeroHead(Buffer(p))
        \/ cpc'[p] = "clear_head" /\ Buffer(p)' = ZeroRest(Buffer(p))
    BY <1>2, <1>t, <2>1 DEF ClearBegins, GotoP, Buffer
  <2>3. /\ ZeroHead(Buffer(p)).pid = NoPid /\ ZeroHead(Buffer(p)).cmd = CMD_NONE
        /\ ZeroRest(Buffer(p)).arg1 = 0 /\ ZeroRest(Buffer(p)).response = 0
    BY <1>t, <2>1 DEF ZeroHead, ZeroRest, Buffer, JobRequestBuffer
  <2>4. QED
    BY <2>1, <2>2, <2>3 DEF Leaving
<1>3. ASSUME ClearEnds(p), slot[p] \notin contested
      PROVE  /\ slot[p] \in Slots
             /\ job_buffers'[slot[p]] = BlankBuffer
             /\ registered_fds[slot[p]] = EmptyRow \/ slot[p] \in untold
  <2>1. /\ cpc[p] \in {"clear_rest", "clear_head"} /\ slot[p] \in Slots
        /\ Buffer(p) \in JobRequestBuffer
    BY <1>3, <1>t, SlotIsMine DEF ClearEnds, Holds, Owns, Leaving, Buffer
  <2>2. CASE cpc[p] = "clear_rest"
    <3>1. job_buffers'[slot[p]] = ZeroRest(Buffer(p))
      BY <1>3, <1>t, <2>1, <2>2 DEF ClearEnds, Buffer
    <3>2. Buffer(p).pid = NoPid /\ Buffer(p).cmd = CMD_NONE /\ Buffer(p).status = JOB_NO_REQUEST
      BY <1>3, <2>2 DEF WipeInv, SessionInv, StageOfOwner, StageOfHolder
    <3>3. ZeroRest(Buffer(p)) = BlankBuffer
      BY <2>1, <3>2, BothSpansWiped DEF BlankBuffer
    <3>4. registered_fds[slot[p]] = EmptyRow \/ slot[p] \in untold
      BY <1>3, <2>1, <3>2 DEF FileInv, RowForgotten, Buffer
    <3>5. QED
      BY <2>1, <3>1, <3>3, <3>4
  <2>3. CASE cpc[p] = "clear_head"
    <3>1. job_buffers'[slot[p]] = ZeroHead(Buffer(p))
      BY <1>3, <1>t, <2>1, <2>3 DEF ClearEnds, Buffer
    <3>2. Buffer(p).arg1 = 0 /\ Buffer(p).response = 0
      BY <1>3, <2>3 DEF WipeInv
    <3>3. ZeroHead(Buffer(p)) = BlankBuffer
      BY <2>1, <3>2, BothSpansWiped DEF BlankBuffer
    <3>4. registered_fds[slot[p]] = EmptyRow \/ slot[p] \in untold
      BY <1>3, <2>3 DEF FileInv, RowForgotten
    <3>5. QED
      BY <2>1, <3>1, <3>3, <3>4
  <2>4. QED
    BY <2>1, <2>2, <2>3
\* Other steps of p begin or go on leaving, or do not leave, and free nothing.
<1>4. ASSUME ~ClearBegins(p), ~ClearEnds(p), ~Crash(p)
      PROVE  /\ cpc'[p] \notin {"clear_rest", "clear_head"}
             /\ Leaving(p) => Leaving(p)' /\ slot'[p] = slot[p]
             /\ slot[p] \in Slots \ contested /\ NewStage(slot[p]) = JOB_NO_REQUEST =>
                  job_buffers'[slot[p]] = job_buffers[slot[p]]
  <2>1. CASE Connect(p) \/ ConnectRefused(p) \/ OpenFile(p)
    BY <2>1, <1>t DEF Connect, ConnectRefused, OpenFile, GotoP, Leaving, workspaceVars, clientVars
  <2>2. CASE ScanStep(p)
    BY <2>2, <1>t DEF ScanStep, SeeFree, SeeTaken, NoneFree, GotoP, Leaving, workspaceVars
  <2>3. CASE ClientAnswered(p) \/ KillAnswered(p) \/ DisconnectAnswered(p)
    BY <2>3, <1>t DEF ClientAnswered, KillAnswered, DisconnectAnswered, GotoP, Leaving
  <2>4. CASE Claim(p) \/ Submit(p) \/ SubmitDisconnect(p)
    <3>1. slot' = slot /\ cpc'[p] \in {"ready", "wait", "leavewait"} /\ (Leaving(p) => Leaving(p)')
      BY <2>4, <1>t DEF Claim, Submit, SubmitDisconnect, Submitted, GotoP, Leaving
    <3>2. slot[p] \in Slots => NewStage(slot[p]) \in {JOB_BUFFER_IN_USE, JOB_REQUESTED}
      BY <2>4, StageStored DEF Claim, Submit, SubmitDisconnect, Submitted, Stage, NewStage
    <3>3. QED
      BY <3>1, <3>2 DEF JOB_BUFFER_IN_USE, JOB_REQUESTED, JOB_NO_REQUEST
  <2>5. CASE FillJob(p) \/ FillKill(p) \/ Disconnect(p)
    <3>1. cpc[p] = "ready" /\ slot' = slot /\ cpc'[p] \in {"filled", "leaving"}
      <4>1. CASE FillJob(p)
        BY <4>1, <1>t DEF FillJob, GotoP
      <4>2. CASE FillKill(p)
        BY <4>2, <1>t DEF FillKill, GotoP
      <4>3. CASE Disconnect(p)
        BY <4>3, <1>t DEF Disconnect, GotoP
      <4>4. QED
        BY <2>5, <4>1, <4>2, <4>3
    <3>2. /\ slot[p] \in Slots /\ job_buffers[slot[p]] \in JobRequestBuffer
          /\ slot[p] \notin contested => Stage(slot[p]) \in {JOB_BUFFER_IN_USE, JOB_COMPLETED}
      BY <1>t, <3>1, SlotIsMine DEF SessionInv, StageOfOwner, StageOfHolder, Holds, Owns, Buffer, Stage
    <3>3. NewStage(slot[p]) = Stage(slot[p])
      <4>1. CASE FillJob(p)
        <5>1. PICK cmd \in {CMD_WRITE, CMD_CLOSE}, fd \in Fds :
                job_buffers'[slot[p]] = [job_buffers[slot[p]] EXCEPT !.pid = p, !.cmd = cmd, !.arg1 = fd]
          BY <1>t, <3>2, <4>1 DEF FillJob
        <5>2. QED
          BY <3>2, <5>1 DEF JobRequestBuffer, Stage, NewStage
      <4>2. CASE FillKill(p)
        <5>1. job_buffers'[slot[p]] = [job_buffers[slot[p]] EXCEPT !.cmd = CMD_KILL_SERVER]
          BY <1>t, <3>2, <4>2 DEF FillKill
        <5>2. QED
          BY <3>2, <5>1 DEF JobRequestBuffer, Stage, NewStage
      <4>3. CASE Disconnect(p)
        <5>1. job_buffers'[slot[p]] \in {[job_buffers[slot[p]] EXCEPT !.cmd = CMD_DISCONNECT], job_buffers[slot[p]]}
          BY <1>t, <3>2, <4>3 DEF Disconnect
        <5>2. QED
          BY <3>2, <5>1 DEF JobRequestBuffer, Stage, NewStage
      <4>4. QED
        BY <2>5, <4>1, <4>2, <4>3
    <3>4. QED
      BY <3>1, <3>2, <3>3 DEF Leaving, JOB_BUFFER_IN_USE, JOB_COMPLETED, JOB_NO_REQUEST
  <2>6. QED
    BY <1>4, <2>1, <2>2, <2>3, <2>4, <2>5 DEF ProcessStep, Proceed
\* Who dies while leaving leaves a slot that is not free, or the second span unwiped.
<1>c. ASSUME Crash(p)
      PROVE  /\ cpc'[p] = "dead" /\ slot' = slot /\ job_buffers' = job_buffers
             /\ Leaving(p) /\ slot[p] \notin contested /\ Stage(slot[p]) = JOB_NO_REQUEST =>
                  /\ Buffer(p).pid = NoPid /\ Buffer(p).cmd = CMD_NONE
                  /\ registered_fds[slot[p]] = EmptyRow \/ slot[p] \in untold
  <2>1. cpc'[p] = "dead" /\ slot' = slot /\ job_buffers' = job_buffers
    BY <1>c, <1>t DEF Crash, GotoP
  <2>2. ASSUME Leaving(p), slot[p] \notin contested, Stage(slot[p]) = JOB_NO_REQUEST
        PROVE  /\ Buffer(p).pid = NoPid /\ Buffer(p).cmd = CMD_NONE
               /\ registered_fds[slot[p]] = EmptyRow \/ slot[p] \in untold
    <3>1. cpc[p] = "clear_rest" /\ slot[p] \in Slots
      BY <2>2 DEF SessionInv, StageOfOwner, StageOfHolder, Awaiting, Holds, Owns, Leaving, Stage, Buffer,
         JOB_NO_REQUEST, JOB_BUFFER_IN_USE, JOB_REQUESTED, JOB_COMPLETED
    <3>2. QED
      BY <2>2, <3>1 DEF WipeInv, FileInv, RowForgotten, Stage
  <2>3. QED
    BY <2>1, <2>2
<1>5. ASSUME NEW q \in Processes, slot'[q] \notin contested'
      PROVE  /\ cpc'[q] = "clear_rest" => Buffer(q)'.pid = NoPid /\ Buffer(q)'.cmd = CMD_NONE
             /\ cpc'[q] = "clear_head" => Buffer(q)'.arg1 = 0 /\ Buffer(q)'.response = 0
  <2>1. CASE q = p
    <3>1. ClearEnds(p) => cpc'[p] = "idle"
      BY <1>t DEF ClearEnds, GotoP
    <3>2. QED
      BY <1>2, <1>4, <1>c, <2>1, <3>1
  <2>2. CASE q # p
    <3>1. cpc'[q] = cpc[q] /\ slot[q] \notin contested
      BY <1>5, <1>g, <1>o, <2>2
    <3>2. cpc[q] \in {"clear_rest", "clear_head"} => Buffer(q)' = Buffer(q)
      BY <1>1, <2>2, <3>1
    <3>3. QED
      BY <3>1, <3>2 DEF WipeInv
  <2>3. QED
    BY <2>1, <2>2
<1>6. FreeSlotForgotten'
  <2>1. SUFFICES ASSUME NEW s \in Slots \ contested', NewStage(s) = JOB_NO_REQUEST,
                        \A q \in Processes : Leaving(q)' => slot'[q] # s
                 PROVE  /\ job_buffers'[s].pid = NoPid /\ job_buffers'[s].cmd = CMD_NONE
                        /\ \/ job_buffers'[s].arg1 = 0 /\ job_buffers'[s].response = 0
                           \/ \E q \in Processes : cpc'[q] = "dead" /\ slot'[q] = s
                        /\ registered_fds'[s] = EmptyRow \/ s \in untold'
    BY DEF FreeSlotForgotten, NewStage
  <2>2. s \notin contested /\ \A q \in Processes \ {p} : Leaving(q) => slot[q] # s
    BY <1>g, <1>o, <2>1 DEF Leaving
  <2>3. CASE ClearEnds(p) /\ s = slot[p]
    BY <1>3, <1>g, <1>r, <2>2, <2>3 DEF BlankBuffer
  <2>4. CASE Crash(p) /\ Leaving(p) /\ s = slot[p]
    BY <1>c, <1>g, <1>r, <2>1, <2>2, <2>4 DEF NewStage, Stage, Buffer
  <2>5. CASE ~(ClearEnds(p) /\ s = slot[p]) /\ ~(Crash(p) /\ Leaving(p) /\ s = slot[p])
    <3>1. Leaving(p) => slot[p] # s
      BY <1>2, <1>4, <2>1, <2>5
    <3>2. job_buffers'[s] = job_buffers[s]
      <4>1. CASE s # slot[p]
        BY <4>1, ProcessElsewhere
      <4>2. CASE s = slot[p]
        BY <1>2, <1>4, <1>c, <2>1, <2>2, <2>5, <3>1, <4>2
      <4>3. QED
        BY <4>1, <4>2
    <3>3. \A q \in Processes : cpc[q] = "dead" => cpc'[q] = "dead" /\ slot'[q] = slot[q]
      <4>1. cpc[p] # "dead"
        BY DEF ProcessStep, Proceed, ScanStep, Connect, ConnectRefused, OpenFile, FillJob, Disconnect,
           Crash, SeeFree, SeeTaken, NoneFree, Claim, FillKill, Submit, ClientAnswered, KillAnswered,
           SubmitDisconnect, DisconnectAnswered, ClearBegins, ClearEnds
      <4>2. QED
        BY <1>o, <4>1
    <3>4. QED
      BY <1>g, <1>r, <2>1, <2>2, <3>1, <3>2, <3>3 DEF WipeInv, FreeSlotForgotten, NewStage
  <2>6. QED
    BY <2>3, <2>4, <2>5
<1>7. QED
  BY <1>5, <1>6 DEF WipeInv

\* A slot that can be claimed again names neither owner nor job, in every build; bytes of
\* its last owner are left only by a death within the memset, and borrowed files only
\* where the server was not told of the leave (server.c:82, ipc.c:118-121).
THEOREM FreeSlotsForget == Spec => []FreeSlotForgotten
<1>1. Init => WipeInv
  BY DEF Init, ClientInit, ServerInit, WorkspaceInit, WipeInv, FreeSlotForgotten, BlankBuffer
<1>2. TypeOK /\ SessionInv /\ FileInv /\ WipeInv /\ [Next]_vars => WipeInv'
  <2> SUFFICES ASSUME TypeOK, SessionInv, FileInv, WipeInv, [Next]_vars PROVE WipeInv'
    OBVIOUS
  <2>1. ASSUME NEW t \in Threads, ThreadStep(t), UNCHANGED clientVars PROVE WipeInv'
    BY <2>1, ThreadStepWipeInv
  <2>2. ASSUME NEW p \in Processes, ProcessStep(p), UNCHANGED serverVars PROVE WipeInv'
    BY <2>2, ProcessStepWipeInv
  <2>3. CASE UNCHANGED <<job_buffers, registered_fds, cpc, slot, contested, untold>>
    BY <2>3 DEF WipeInv, FreeSlotForgotten, Buffer, Leaving
  <2>4. QED
    BY <2>1, <2>2, <2>3 DEF Next, vars, CloseWorkspace, workspaceVars, serverVars, clientVars, marks
<1>3. WipeInv => FreeSlotForgotten
  BY DEF WipeInv
<1>4. QED
  BY <1>1, <1>2, <1>3, TypeCorrectness, SessionsConsistent, FilesConsistent, PTL DEF Spec
=============================================================================
