-------------------------- MODULE IpcServiceProofs --------------------------
(***************************************************************************)
(* What IpcSystem promises its users, for any constants: a buffer that     *)
(* nobody contested goes through its stages in order, and where processes  *)
(* come and go one at a time the code implements JobService.               *)
(***************************************************************************)
EXTENDS IpcSessionProofs

-----------------------------------------------------------------------------
\* The life of a buffer.

\* A step that stores a stage in slot r only, and there in order, is in order.
LEMMA OneStageStored ==
  ASSUME NEW r \in Slots,
         \A s \in Slots \ {r} : NewStage(s) = Stage(s),
         r \notin contested /\ NewStage(r) # Stage(r) => <<Stage(r), NewStage(r)>> \in StageChanges
  PROVE  StageStep
  BY DEF StageStep, Stage, NewStage

\* A step that stores no status changes no stage.
LEMMA NoStageStored ==
  ASSUME \A s \in Slots : NewStage(s) = Stage(s)
  PROVE  StageStep
  BY DEF StageStep, Stage, NewStage

\* The stages that replacing the buffer of slot r leaves behind.
LEMMA NewStages ==
  ASSUME job_buffers \in [Slots -> JobRequestBuffer],
         NEW r \in Slots, NEW b, job_buffers' = [job_buffers EXCEPT ![r] = b]
  PROVE  NewStage(r) = b.status /\ \A s \in Slots \ {r} : NewStage(s) = Stage(s)
  BY DEF NewStage, Stage

\* A stored status is the new stage of that buffer and of no other.
LEMMA NewStageSet ==
  ASSUME job_buffers \in [Slots -> JobRequestBuffer],
         NEW r \in Slots, NEW value, SetStatus(r, value)
  PROVE  NewStage(r) = value /\ \A s \in Slots \ {r} : NewStage(s) = Stage(s)
<1>1. job_buffers[r] \in JobRequestBuffer
  OBVIOUS
<1>2. job_buffers' = [job_buffers EXCEPT ![r] = [job_buffers[r] EXCEPT !.status = value]]
  BY DEF SetStatus
<1>3. [job_buffers[r] EXCEPT !.status = value].status = value
  BY <1>1 DEF JobRequestBuffer
<1>4. QED
  BY <1>2, <1>3, NewStages

\* A thread stores one stage: JOB_COMPLETED, in a buffer that is submitted (server.c:90).
LEMMA ThreadStagesInOrder ==
  ASSUME TypeOK, SessionInv, NEW t \in Threads, ThreadStep(t)
  PROVE  StageStep
<1>t. job_buffers \in [Slots -> JobRequestBuffer]
  BY DEF TypeOK, WorkspaceTypeOK
<1>r. PICK r \in Slots : r = idx[t]
  BY DEF TypeOK, ServerTypeOK
<1>1. ASSUME MarkJobCompleted(t) PROVE StageStep
  <2>1. SetStatus(r, JOB_COMPLETED)
    BY <1>1, <1>r DEF MarkJobCompleted
  <2>2. r \notin contested => Stage(r) = JOB_REQUESTED
    BY <1>1, <1>r DEF MarkJobCompleted, SessionInv, AnswerFinal, Serving, Job, Stage
  <2>3. NewStage(r) = JOB_COMPLETED /\ \A s \in Slots \ {r} : NewStage(s) = Stage(s)
    BY <1>t, <2>1, NewStageSet
  <2>4. <<JOB_REQUESTED, JOB_COMPLETED>> \in StageChanges
    BY DEF StageChanges
  <2>5. QED
    BY <2>2, <2>3, <2>4, OneStageStored
<1>2. ASSUME Write(t) PROVE StageStep
  <2>1. PICK result \in {-1, 1} :
          job_buffers' = [job_buffers EXCEPT ![r].response = result]
    BY <1>2, <1>r DEF Write
  <2>2. \A s \in Slots : job_buffers'[s].status = job_buffers[s].status
    BY <1>t, <2>1 DEF JobRequestBuffer
  <2>3. QED
    BY <2>2, NoStageStored DEF Stage, NewStage
<1>3. ASSUME UNCHANGED job_buffers PROVE StageStep
  BY <1>3, NoStageStored DEF Stage, NewStage
<1>4. QED
  BY <1>1, <1>2, <1>3 DEF ThreadStep, LoopTest, TryLock, TryLockFails, CheckStatus, SkipSlot,
     Switch, SwitchWrite, SwitchClose, SwitchKill, SwitchDisconnect, SwitchDefault, Borrow,
     BorrowFails, Unlock, workspaceVars

\* A process stores a stage in its own slot only, after the one its place says (ipc.c:76-122).
LEMMA ProcessStagesInOrder ==
  ASSUME TypeOK, SessionInv, NEW p \in Processes, ProcessStep(p)
  PROVE  StageStep
<1>t. job_buffers \in [Slots -> JobRequestBuffer]
  BY DEF TypeOK, WorkspaceTypeOK
<1>s. Holds(p) => slot[p] \in Slots
  BY SlotIsMine
<1> USE DEF Holds, Owns, Leaving, Awaiting
<1>1. ASSUME Claim(p) PROVE StageStep
  <2>1. PICK r \in Slots : r = slot[p]
    BY <1>1, <1>s DEF Claim
  <2>2. /\ r \notin contested => Stage(r) = JOB_NO_REQUEST
        /\ SetStatus(r, JOB_BUFFER_IN_USE)
    BY <1>1, <2>1 DEF Claim, SessionInv, StageOfOwner, StageOfHolder, Buffer, Stage
  <2>3. NewStage(r) = JOB_BUFFER_IN_USE /\ \A s \in Slots \ {r} : NewStage(s) = Stage(s)
    BY <1>t, <2>2, NewStageSet
  <2>4. <<JOB_NO_REQUEST, JOB_BUFFER_IN_USE>> \in StageChanges
    BY DEF StageChanges
  <2>5. QED
    BY <2>2, <2>3, <2>4, OneStageStored
<1>2. ASSUME Submit(p) \/ SubmitDisconnect(p) PROVE StageStep
  <2>1. PICK r \in Slots : r = slot[p]
    BY <1>2, <1>s DEF Submit, SubmitDisconnect
  <2>2. SetStatus(r, JOB_REQUESTED)
    BY <1>2, <2>1 DEF Submit, SubmitDisconnect, Submitted
  <2>3. r \notin contested => Stage(r) \in {JOB_BUFFER_IN_USE, JOB_COMPLETED}
    BY <1>2, <2>1 DEF Submit, SubmitDisconnect, SessionInv, StageOfOwner, StageOfHolder, Buffer, Stage
  <2>4. NewStage(r) = JOB_REQUESTED /\ \A s \in Slots \ {r} : NewStage(s) = Stage(s)
    BY <1>t, <2>2, NewStageSet
  <2>5. {<<JOB_BUFFER_IN_USE, JOB_REQUESTED>>, <<JOB_COMPLETED, JOB_REQUESTED>>} \subseteq StageChanges
    BY DEF StageChanges
  <2>6. QED
    BY <2>3, <2>4, <2>5, OneStageStored
<1>3. ASSUME ClearBegins(p) \/ ClearEnds(p) PROVE StageStep
  <2>1. PICK r \in Slots : r = slot[p]
    BY <1>3, <1>s DEF ClearBegins, ClearEnds
  <2>2. r \notin contested => Stage(r) \in {JOB_COMPLETED, JOB_NO_REQUEST}
    BY <1>3, <2>1 DEF ClearBegins, ClearEnds, SessionInv, StageOfOwner, StageOfHolder, Buffer, Stage
  <2>3. PICK b \in {ZeroHead(job_buffers[r]), ZeroRest(job_buffers[r])} :
          job_buffers' = [job_buffers EXCEPT ![r] = b]
    BY <1>3, <2>1 DEF ClearBegins, ClearEnds
  <2>4. b.status \in {JOB_NO_REQUEST, Stage(r)}
    BY <1>t, <2>3 DEF ZeroHead, ZeroRest, Stage, JobRequestBuffer
  <2>5. NewStage(r) = b.status /\ \A s \in Slots \ {r} : NewStage(s) = Stage(s)
    BY <1>t, <2>3, NewStages
  <2>6. <<JOB_COMPLETED, JOB_NO_REQUEST>> \in StageChanges
    BY DEF StageChanges
  <2>7. QED
    BY <2>2, <2>4, <2>5, <2>6, OneStageStored
<1>4. ASSUME FillJob(p) \/ FillKill(p) \/ Disconnect(p) PROVE StageStep
  <2>1. PICK r \in Slots : r = slot[p]
    BY <1>4, <1>s DEF FillJob, FillKill, Disconnect
  <2>2. \E b : /\ job_buffers' = [job_buffers EXCEPT ![r] = b]
               /\ b.status = job_buffers[r].status
    <3>1. job_buffers[r] \in JobRequestBuffer /\ job_buffers = [job_buffers EXCEPT ![r] = @]
      BY <1>t
    <3>2. CASE FillJob(p)
      <4>1. PICK cmd \in {CMD_WRITE, CMD_CLOSE}, fd \in Fds :
              job_buffers' = [job_buffers EXCEPT ![r] =
                [job_buffers[r] EXCEPT !.pid = p, !.cmd = cmd, !.arg1 = fd]]
        BY <3>2, <2>1 DEF FillJob
      <4>2. [job_buffers[r] EXCEPT !.pid = p, !.cmd = cmd, !.arg1 = fd].status = job_buffers[r].status
        BY <3>1 DEF JobRequestBuffer
      <4>3. QED
        BY <4>1, <4>2
    <3>3. CASE FillKill(p)
      <4>1. job_buffers' = [job_buffers EXCEPT ![r] = [job_buffers[r] EXCEPT !.cmd = CMD_KILL_SERVER]]
        BY <3>3, <2>1 DEF FillKill
      <4>2. [job_buffers[r] EXCEPT !.cmd = CMD_KILL_SERVER].status = job_buffers[r].status
        BY <3>1 DEF JobRequestBuffer
      <4>3. QED
        BY <4>1, <4>2
    <3>4. CASE Disconnect(p)
      BY <3>1, <3>4, <2>1 DEF Disconnect, JobRequestBuffer
    <3>5. QED
      BY <1>4, <3>2, <3>3, <3>4
  <2>3. QED
    BY <1>t, <2>2, NewStages, OneStageStored DEF Stage
<1>5. ASSUME UNCHANGED job_buffers PROVE StageStep
  BY <1>5, NoStageStored DEF Stage, NewStage
<1>6. QED
  BY <1>1, <1>2, <1>3, <1>4, <1>5 DEF ProcessStep, Proceed, ScanStep, Connect, ConnectRefused,
     SeeFree, SeeTaken, NoneFree, OpenFile, ClientAnswered, KillAnswered, DisconnectAnswered,
     Crash, workspaceVars

\* A buffer that nobody contested goes through its stages in the one order the protocol
\* knows, whoever stores them and in any order of their calls (ipc.c:86-121, server.c:90).
THEOREM StagesInOrder == Spec => StageOrder
<1>1. TypeOK /\ SessionInv /\ [Next]_vars => [StageStep]_vars
  BY ThreadStagesInOrder, ProcessStagesInOrder, NoStageStored
  DEF Next, CloseWorkspace, Stage, NewStage
<1>2. QED
  BY <1>1, TypeCorrectness, SessionsConsistent, PTL DEF Spec, StageOrder

-----------------------------------------------------------------------------
\* One process comes or goes at a time.

\* A step of a process lets it come or go only while no other does, and so contests no
\* slot (ipc.c:86, 118).
LEMMA ProcessStepSerialInv ==
  ASSUME TypeOK, SerialSessions, SerialInv, NEW p \in Processes, ProcessStep(p)
  PROVE  SerialInv'
<1> USE DEF SerialInv, OneComesOrGoes, ComingOrGoing
<1>t. cpc \in [Processes -> ClientPcs]
  BY DEF TypeOK, ClientTypeOK
<1>0. \A q \in Processes \ {p} : (ComingOrGoing(q)' <=> ComingOrGoing(q))
  BY OnlyOwnPlace DEF Connecting, Leaving
<1>1. CASE Connect(p) \/ Disconnect(p)
  <2>1. UNCHANGED contested
    BY <1>1 DEF Connect, Disconnect, marks
  <2>2. \A q \in Processes \ {p} : ~ComingOrGoing(q)
    BY <1>1 DEF Connect, Disconnect, SessionsAllow
  <2>3. \A q, u \in Processes : q # u /\ ComingOrGoing(q)' => ~ComingOrGoing(u)'
    BY <1>0, <2>2
  <2>4. QED
    BY <2>1, <2>3
<1>2. CASE ~Connect(p) /\ ~Disconnect(p)
  <2>1. ComingOrGoing(p)' => ComingOrGoing(p)
    <3>1. CASE ScanStep(p) \/ Claim(p) \/ SubmitDisconnect(p) \/ DisconnectAnswered(p)
               \/ ClearBegins(p) \/ ClearEnds(p)
      BY <3>1 DEF ScanStep, SeeFree, SeeTaken, NoneFree, Claim, SubmitDisconnect,
         DisconnectAnswered, ClearBegins, ClearEnds, Connecting, Leaving
    <3>2. CASE ConnectRefused(p) \/ OpenFile(p) \/ FillJob(p) \/ FillKill(p) \/ Submit(p)
               \/ ClientAnswered(p) \/ KillAnswered(p) \/ Crash(p)
      <4>1. cpc'[p] \in {"failed", "ready", "filled", "wait", "idle", "done", "dead"}
        BY <1>t, <3>2 DEF ConnectRefused, OpenFile, FillJob, FillKill, Submit, ClientAnswered,
           KillAnswered, Crash, GotoP, clientVars
      <4>2. QED
        BY <4>1 DEF Connecting, Leaving
    <3>3. QED
      BY <1>2, <3>1, <3>2 DEF ProcessStep, Proceed
  <2>2. contested' = {}
    <3>1. CASE SeeFree(p)
      BY <3>1 DEF SeeFree, Contest, Connecting, Leaving
    <3>2. CASE ~SeeFree(p)
      BY <1>2, <3>2 DEF ProcessStep, Proceed, ScanStep, SeeTaken, NoneFree, ConnectRefused,
         OpenFile, FillJob, Crash, Claim, FillKill, Submit, Submitted, ClientAnswered, KillAnswered,
         SubmitDisconnect, DisconnectAnswered, ClearBegins, ClearEnds, clientVars, marks
    <3>3. QED
      BY <3>1, <3>2
  <2>3. \A q, u \in Processes : q # u /\ ComingOrGoing(q)' => ~ComingOrGoing(u)'
    BY <1>0, <2>1
  <2>4. QED
    BY <2>2, <2>3
<1>3. QED
  BY <1>1, <1>2

\* With serial sessions no slot is ever contested: the hypothesis is about the callers,
\* who come and go one at a time, and does what the code leaves to them (ipc.c:83-92).
THEOREM SerialSessionsContestNothing ==
  ASSUME SerialSessions
  PROVE  Spec => []SerialInv
<1>1. Init => SerialInv
  BY DEF Init, ClientInit, SerialInv, OneComesOrGoes, ComingOrGoing, Connecting, Leaving
<1>2. TypeOK /\ SerialInv /\ [Next]_vars => SerialInv'
  <2>1. ASSUME TypeOK, SerialInv, NEW p \in Processes, ProcessStep(p) PROVE SerialInv'
    BY <2>1, ProcessStepSerialInv
  <2>2. ASSUME SerialInv, UNCHANGED clientVars PROVE SerialInv'
    BY <2>2 DEF SerialInv, OneComesOrGoes, ComingOrGoing, Connecting, Leaving, clientVars, marks
  <2>3. QED
    BY <2>1, <2>2 DEF Next, vars
<1>3. QED
  BY <1>1, <1>2, TypeCorrectness, PTL DEF Spec

-----------------------------------------------------------------------------
\* The steps of the service.

\* What the service is told of one user changes with that user's entry alone.
LEMMA OneUserMoves ==
  ASSUME NEW p \in Processes,
         \A q \in Processes \ {p} :
           ServicePhase(q)' = ServicePhase(q) /\ ServicePerformed(q)' = ServicePerformed(q)
  PROVE  /\ phase' = [phase EXCEPT ![p] = ServicePhase(p)']
         /\ performed' = [performed EXCEPT ![p] = ServicePerformed(p)']
  BY DEF phase, performed

\* A step that no user of the service notices is a stutter,
LEMMA NoUserMoves ==
  ASSUME \A q \in Processes :
           ServicePhase(q)' = ServicePhase(q) /\ ServicePerformed(q)' = ServicePerformed(q)
  PROVE  UNCHANGED Service!serviceVars
  BY DEF phase, performed, Service!serviceVars

\* and one that a single user takes is a step of the service.
LEMMA UserStep ==
  ASSUME NEW p \in Processes,
         \/ Service!Arrive(p) \/ Service!Request(p) \/ Service!Perform(p) \/ Service!Answer(p)
         \/ Service!Collect(p) \/ Service!Leave(p) \/ Service!Vanish(p)
         \/ UNCHANGED Service!serviceVars
  PROVE  [Service!ServiceNext]_Service!serviceVars
  BY DEF Service!ServiceNext

\* In session are those who own a slot, and each of them has one of its own.
LEMMA SessionsOwnSlots ==
  ASSUME NEW p \in Processes
  PROVE  ServicePhase(p) # "away" <=> Owns(p)
  BY DEF ServicePhase, Awaiting, Owns, Leaving

\* A process that claims is let in: the others in session occupy other slots than
\* the one it has found free, and each has its own (ipc.c:86-89).
LEMMA RoomForOneMore ==
  ASSUME SessionInv, contested = {}, NEW p \in Processes, cpc[p] = "claim"
  PROVE  Service!Seated(Service!InSession \cup {p})
<1> DEFINE Let == Service!InSession \cup {p}
           seat == [q \in Let |-> slot[q]]
<1>1. \A q \in Let : q \in Processes /\ (q = p \/ Owns(q))
  BY SessionsOwnSlots DEF Service!InSession, phase
<1>2. \A q \in Let : slot[q] \in Slots
  BY <1>1, SlotIsMine DEF Holds
<1>4. \A q, r \in Let : q # r => slot[q] # slot[r]
  BY <1>1 DEF SessionInv, HoldersAlone, Holds
<1>5. seat \in [Let -> Slots] /\ \A q, r \in Let : q # r => seat[q] # seat[r]
  BY <1>2, <1>4
<1>6. QED
  BY <1>5 DEF Service!Seated

\* The service sees nothing of the processes that do not move.
LEMMA ProcessMovesItself ==
  ASSUME TypeOK, SessionInv, contested = {}, NEW p \in Processes, ProcessStep(p), UNCHANGED serverVars,
         NEW q \in Processes \ {p}
  PROVE  ServicePhase(q)' = ServicePhase(q) /\ ServicePerformed(q)' = ServicePerformed(q)
<1>1. cpc'[q] = cpc[q] /\ slot'[q] = slot[q]
  BY OnlyOwnPlace
<1>2. CASE ~Owns(q)
  BY <1>1, <1>2 DEF ServicePhase, ServicePerformed, Awaiting, Owns, Leaving
<1>3. CASE Owns(q)
  <2>1. slot[q] \in Slots /\ (Holds(p) => slot[q] # slot[p])
    BY <1>3, SlotIsMine DEF Holds
  <2>2. job_buffers'[slot[q]] = job_buffers[slot[q]] /\ execs'[slot[q]] = execs[slot[q]]
    BY <2>1, ProcessElsewhere
  <2>3. QED
    BY <1>1, <2>2 DEF ServicePhase, ServicePerformed, Awaiting, Owns, Leaving, Buffer
<1>4. QED
  BY <1>2, <1>3

\* What a process is to the service, by its place and the stage of its slot.
LEMMA PhaseOfPlace ==
  ASSUME NEW p \in Processes
  PROVE  /\ cpc[p] \in {"ready", "filled", "leaving", "clear", "clear_rest", "clear_head"} =>
              phase[p] = "ready" /\ performed[p] = 0
         /\ cpc[p] \in {"idle", "scan", "claim", "done", "failed", "dead"} =>
              phase[p] = "away" /\ performed[p] = 0
         /\ Awaiting(p) /\ Stage(slot[p]) = JOB_REQUESTED =>
              phase[p] = "pending" /\ performed[p] = execs[slot[p]]
         /\ Awaiting(p) /\ Stage(slot[p]) = JOB_COMPLETED =>
              phase[p] = "answered" /\ performed[p] = execs[slot[p]]
  BY DEF phase, performed, ServicePhase, ServicePerformed, Awaiting, Owns, Leaving, Stage, Buffer,
         JOB_REQUESTED, JOB_COMPLETED

\* The phase after a step, for who awaits an answer: the stage decides,
LEMMA NewPhaseOfPlace ==
  ASSUME NEW p \in Processes, UNCHANGED slot
  PROVE  /\ Awaiting(p)' /\ NewStage(slot[p]) = JOB_REQUESTED =>
              phase'[p] = "pending" /\ performed'[p] = execs'[slot[p]]
         /\ Awaiting(p)' /\ NewStage(slot[p]) = JOB_COMPLETED =>
              phase'[p] = "answered" /\ performed'[p] = execs'[slot[p]]
  BY DEF phase, performed, ServicePhase, ServicePerformed, Awaiting, Owns, Leaving, NewStage, Buffer,
         JOB_REQUESTED, JOB_COMPLETED

\* and for everyone else: the place decides.
LEMMA NewPhaseOutside ==
  ASSUME NEW p \in Processes
  PROVE  /\ cpc'[p] \in {"ready", "filled", "leaving", "clear", "clear_rest", "clear_head"} =>
              phase'[p] = "ready" /\ performed'[p] = 0
         /\ cpc'[p] \in {"idle", "scan", "claim", "done", "failed", "dead"} =>
              phase'[p] = "away" /\ performed'[p] = 0
  BY DEF phase, performed, ServicePhase, ServicePerformed, Awaiting, Owns, Leaving

\* Every step of a process is one of its user's, or none that the service sees:
\* claiming arrives, submitting requests, collecting takes the answer, the end of
\* the wipe leaves (ipc.c:76-122, server_killer.c:8-17).
LEMMA ProcessStepServed ==
  ASSUME TypeOK, SessionInv, contested = {}, NEW p \in Processes, ProcessStep(p), UNCHANGED serverVars
  PROVE  [Service!ServiceNext]_Service!serviceVars
<1>t. /\ cpc \in [Processes -> ClientPcs] /\ slot \in [Processes -> 0 .. MaxJobBuffers]
      /\ job_buffers \in [Slots -> JobRequestBuffer] /\ execs \in [Slots -> 0 .. 2]
  BY DEF TypeOK, ClientTypeOK, WorkspaceTypeOK
<1>m. Owns(p) => slot[p] \in Slots
  BY SlotIsMine DEF Holds
<1>f. /\ phase' = [phase EXCEPT ![p] = phase'[p]]
      /\ performed' = [performed EXCEPT ![p] = performed'[p]]
  BY ProcessMovesItself DEF phase, performed
<1>s. phase'[p] = phase[p] /\ performed'[p] = performed[p] => UNCHANGED Service!serviceVars
  BY <1>f DEF Service!serviceVars, phase, performed
<1>p. phase'[p] = phase[p] => UNCHANGED phase
  BY <1>f DEF phase
<1>q. performed'[p] = performed[p] => UNCHANGED performed
  BY <1>f DEF performed
<1> USE DEF GotoP
<1>1. CASE Connect(p) \/ ConnectRefused(p) \/ ScanStep(p)
  <2>1. /\ cpc[p] \in {"idle", "scan"}
        /\ cpc'[p] \in {"scan", "claim", "failed", "idle"}
    <3>1. CASE Connect(p) \/ ConnectRefused(p)
      BY <1>t, <3>1 DEF Connect, ConnectRefused
    <3>2. CASE ScanStep(p)
      BY <1>t, <3>2 DEF ScanStep, SeeFree, SeeTaken, NoneFree
    <3>3. QED
      BY <1>1, <3>1, <3>2
  <2>2. QED
    BY <2>1, <1>s, PhaseOfPlace, NewPhaseOutside
<1>2. CASE OpenFile(p)
  <2>1. cpc[p] = "ready" /\ cpc'[p] = "ready"
    BY <1>2 DEF OpenFile, clientVars
  <2>2. QED
    BY <2>1, <1>s, PhaseOfPlace, NewPhaseOutside
<1>3. CASE FillJob(p) \/ FillKill(p) \/ Disconnect(p) \/ ClearBegins(p)
  <2>1. cpc[p] \in {"ready", "clear"} /\ cpc'[p] \in {"filled", "leaving", "clear_rest", "clear_head"}
    <3>1. CASE FillJob(p)
      BY <1>t, <3>1 DEF FillJob
    <3>2. CASE FillKill(p)
      BY <1>t, <3>2 DEF FillKill
    <3>3. CASE Disconnect(p)
      BY <1>t, <3>3 DEF Disconnect
    <3>4. CASE ClearBegins(p)
      BY <1>t, <3>4 DEF ClearBegins
    <3>5. QED
      BY <1>3, <3>1, <3>2, <3>3, <3>4
  <2>2. QED
    BY <2>1, <1>s, PhaseOfPlace, NewPhaseOutside
<1>4. CASE Claim(p)
  <2>1. cpc[p] = "claim" /\ cpc'[p] = "ready"
    BY <1>4, <1>t DEF Claim
  <2>2. phase[p] = "away" /\ phase'[p] = "ready" /\ performed'[p] = performed[p]
    BY <2>1, PhaseOfPlace, NewPhaseOutside
  <2>3. Service!Arrive(p)
    BY <2>1, <2>2, <1>f, <1>q, RoomForOneMore DEF Service!Arrive
  <2>4. QED
    BY <2>3, UserStep
<1>5. CASE Submit(p) \/ SubmitDisconnect(p)
  <2>1. /\ UNCHANGED slot
        /\ \/ cpc[p] = "filled" /\ cpc'[p] = "wait"
           \/ cpc[p] = "leaving" /\ cpc'[p] = "leavewait"
    BY <1>5, <1>t DEF Submit, SubmitDisconnect, Submitted
  <2>2. slot[p] \in Slots /\ Awaiting(p)'
    BY <2>1, <1>m DEF Owns, Leaving, Awaiting
  <2>3. NewStage(slot[p]) = JOB_REQUESTED /\ execs'[slot[p]] = 0
    BY <1>5, <1>t, <2>2, StageStored DEF Submit, SubmitDisconnect, Submitted, NewHistory, Stage, NewStage
  <2>4. phase[p] = "ready" /\ phase'[p] = "pending" /\ performed'[p] = performed[p]
    BY <2>1, <2>2, <2>3, PhaseOfPlace, NewPhaseOfPlace
  <2>5. Service!Request(p)
    BY <2>4, <1>f, <1>q DEF Service!Request
  <2>6. QED
    BY <2>5, UserStep
<1>6. CASE ClientAnswered(p) \/ KillAnswered(p) \/ DisconnectAnswered(p)
  <2>1. /\ Awaiting(p) /\ Stage(slot[p]) = JOB_COMPLETED
        /\ cpc'[p] \in {"ready", "clear", "done", "idle"}
    BY <1>6, <1>t DEF ClientAnswered, KillAnswered, DisconnectAnswered, Awaiting, Stage, Buffer
  <2>2. phase[p] = "answered" /\ phase'[p] \in {"ready", "away"} /\ performed'[p] = 0
    BY <2>1, PhaseOfPlace, NewPhaseOutside
  <2>3. Service!Collect(p)
    BY <2>2, <1>f DEF Service!Collect
  <2>4. QED
    BY <2>3, UserStep
<1>7. CASE ClearEnds(p)
  <2>1. cpc[p] \in {"clear_rest", "clear_head"} /\ cpc'[p] = "idle"
    BY <1>7, <1>t DEF ClearEnds
  <2>2. phase[p] = "ready" /\ phase'[p] = "away" /\ performed'[p] = performed[p]
    BY <2>1, PhaseOfPlace, NewPhaseOutside
  <2>3. Service!Leave(p)
    BY <2>2, <1>f, <1>q DEF Service!Leave
  <2>4. QED
    BY <2>3, UserStep
<1>8. CASE Crash(p)
  <2>1. p \in MayCrash /\ cpc'[p] = "dead"
    BY <1>8, <1>t DEF Crash
  <2>2. phase'[p] = "away" /\ performed'[p] = 0
    BY <2>1, NewPhaseOutside
  <2>3. Service!Vanish(p)
    BY <2>1, <2>2, <1>f DEF Service!Vanish
  <2>4. QED
    BY <2>3, UserStep
<1>9. QED
  BY <1>1, <1>2, <1>3, <1>4, <1>5, <1>6, <1>7, <1>8 DEF ProcessStep, Proceed

-----------------------------------------------------------------------------
\* A thread changes what the service knows of no one but the process whose job it
\* carries out (server.c:24-91).
LEMMA ThreadMovesServed ==
  ASSUME TypeOK, SessionInv, NEW t \in Threads, ThreadStep(t), UNCHANGED clientVars,
         NEW q \in Processes, ~Awaiting(q) \/ slot[q] # idx[t]
  PROVE  ServicePhase(q)' = ServicePhase(q) /\ ServicePerformed(q)' = ServicePerformed(q)
<1>1. UNCHANGED <<cpc, slot>>
  BY DEF clientVars
<1>2. CASE ~Awaiting(q)
  BY <1>1, <1>2 DEF ServicePhase, ServicePerformed, Awaiting, Owns, Leaving
<1>3. CASE Awaiting(q) /\ slot[q] # idx[t]
  <2>1. slot[q] \in Slots
    BY <1>3, SlotIsMine DEF Holds, Awaiting, Owns, Leaving
  <2>2. job_buffers'[slot[q]] = job_buffers[slot[q]] /\ execs'[slot[q]] = execs[slot[q]]
    BY <1>3, <2>1, ThreadElsewhere
  <2>3. QED
    BY <1>1, <2>2 DEF ServicePhase, ServicePerformed, Awaiting, Owns, Leaving, Buffer
<1>4. QED
  BY <1>2, <1>3

\* Only the switch and mark_job_completed tell the service anything (server.c:41, 90).
LEMMA ThreadQuiet ==
  ASSUME TypeOK, NEW t \in Threads, ThreadStep(t), ~Switch(t), ~MarkJobCompleted(t)
  PROVE  UNCHANGED execs /\ \A s \in Slots : NewStage(s) = Stage(s)
<1>1. CASE Write(t)
  <2>1. PICK result \in {-1, 1} : job_buffers' = [job_buffers EXCEPT ![idx[t]].response = result]
    BY <1>1 DEF Write
  <2>2. \A s \in Slots : job_buffers'[s].status = job_buffers[s].status
    BY <2>1 DEF TypeOK, WorkspaceTypeOK, JobRequestBuffer
  <2>3. QED
    BY <1>1, <2>2 DEF Write, Stage, NewStage
<1>2. CASE UNCHANGED workspaceVars
  BY <1>2 DEF workspaceVars, Stage, NewStage
<1>3. QED
  BY <1>1, <1>2 DEF ThreadStep, LoopTest, TryLock, TryLockFails, CheckStatus, SkipSlot, Borrow,
     BorrowFails, Unlock

\* A step of a thread is none that the service sees, the execution of the job of one
\* user, or the answer to it; nothing at all for a job whose owner has died.
LEMMA ThreadStepServed ==
  ASSUME TypeOK, LockExclusion, SessionInv, contested = {},
         NEW t \in Threads, ThreadStep(t), UNCHANGED clientVars
  PROVE  [Service!ServiceNext]_Service!serviceVars
<1>t. /\ idx[t] \in Slots /\ tpc \in [Threads -> ThreadPcs]
      /\ job_buffers \in [Slots -> JobRequestBuffer] /\ execs \in [Slots -> 0 .. 2]
  BY DEF TypeOK, ServerTypeOK, WorkspaceTypeOK
<1>u. UNCHANGED <<cpc, slot>> /\ \A q \in Processes : Awaiting(q)' <=> Awaiting(q)
  BY DEF clientVars, Awaiting
<1>1. CASE ~Switch(t) /\ ~MarkJobCompleted(t)
  <2>1. UNCHANGED execs /\ \A s \in Slots : NewStage(s) = Stage(s)
    BY <1>1, ThreadQuiet
  <2>2. \A q \in Processes : Awaiting(q) => slot[q] \in Slots
    BY SlotIsMine DEF Holds, Awaiting, Owns, Leaving
  <2>3. \A q \in Processes :
          ServicePhase(q)' = ServicePhase(q) /\ ServicePerformed(q)' = ServicePerformed(q)
    BY <1>u, <2>1, <2>2 DEF ServicePhase, ServicePerformed, Awaiting, Owns, Leaving, Buffer, Stage, NewStage
  <2>4. QED
    BY <2>3, NoUserMoves
<1>2. CASE \A q \in Processes : ~Awaiting(q) \/ slot[q] # idx[t]
  BY <1>2, ThreadMovesServed, NoUserMoves
<1>3. ASSUME NEW p \in Processes, Awaiting(p), slot[p] = idx[t], Switch(t) \/ MarkJobCompleted(t)
      PROVE  [Service!ServiceNext]_Service!serviceVars
  <2>1. \A q \in Processes \ {p} : ~Awaiting(q) \/ slot[q] # idx[t]
    BY <1>3, SlotIsMine DEF Holds, Awaiting, Owns, Leaving
  <2>2. /\ phase' = [phase EXCEPT ![p] = phase'[p]]
        /\ performed' = [performed EXCEPT ![p] = performed'[p]]
    BY <2>1, ThreadMovesServed DEF phase, performed
  <2>3. Stage(slot[p]) = JOB_REQUESTED /\ Serving(t)
    BY <1>3 DEF SessionInv, AnswerFinal, Job, Stage, Serving, Switch, SwitchWrite, SwitchClose,
       SwitchKill, SwitchDisconnect, SwitchDefault, MarkJobCompleted
  <2>4. phase[p] = "pending" /\ performed[p] = execs[slot[p]]
    BY <1>3, <2>3, PhaseOfPlace
  <2>5. CASE Switch(t)
    <3>1. tpc[t] = "switch" /\ UNCHANGED job_buffers /\ CountExecution(t)
      BY <2>5 DEF Switch, SwitchWrite, SwitchClose, SwitchKill, SwitchDisconnect, SwitchDefault
    <3>2. \A u \in Threads : Executing(u) => idx[u] # idx[t]
      BY <3>1 DEF LockExclusion, Holding, Executing
    <3>3. execs[slot[p]] = 0 /\ execs'[slot[p]] = 1
      BY <1>3, <1>t, <2>3, <3>1, <3>2 DEF SessionInv, ExecutionCount, Stage, CountExecution
    <3>4. phase'[p] = phase[p] /\ performed'[p] = 1
      BY <1>3, <1>u, <2>3, <2>4, <3>1, <3>3, NewPhaseOfPlace DEF Stage, NewStage
    <3>5. UNCHANGED phase
      BY <2>2, <3>4 DEF phase
    <3>6. Service!Perform(p)
      BY <2>2, <2>4, <3>3, <3>4, <3>5 DEF Service!Perform
    <3>7. QED
      BY <3>6, UserStep
  <2>6. CASE MarkJobCompleted(t)
    <3>1. tpc[t] = "complete" /\ UNCHANGED execs /\ NewStage(slot[p]) = JOB_COMPLETED
      BY <1>3, <1>t, <2>6, StageStored DEF MarkJobCompleted, Stage, NewStage
    <3>2. execs[slot[p]] = 1
      BY <1>3, <1>t, <2>3, <3>1 DEF SessionInv, ExecutionCount, Executing, Stage
    <3>3. phase'[p] = "answered" /\ performed'[p] = performed[p]
      BY <1>3, <1>u, <2>4, <3>1, NewPhaseOfPlace
    <3>4. UNCHANGED performed
      BY <2>2, <3>3 DEF performed
    <3>5. Service!Answer(p)
      BY <2>2, <2>4, <3>2, <3>3, <3>4 DEF Service!Answer
    <3>6. QED
      BY <3>5, UserStep
  <2>7. QED
    BY <1>3, <2>5, <2>6
<1>4. QED
  BY <1>1, <1>2, <1>3

\* Where processes come and go one at a time the code keeps the promise of JobService:
\* whoever is in session has a slot of its own, and every job it submits is carried out
\* once and then answered, in every build and with any clients crashing (server.c, ipc.c).
THEOREM ServiceImplemented ==
  ASSUME SerialSessions
  PROVE  Spec => ImplementsJobService
<1>1. Init => Service!ServiceInit
  BY DEF Init, ClientInit, Service!ServiceInit, phase, performed, ServicePhase, ServicePerformed,
     Awaiting, Owns, Leaving
<1>2. /\ TypeOK /\ LockExclusion /\ SessionInv /\ SerialInv
      /\ [Next]_vars
      => [Service!ServiceNext]_Service!serviceVars
  <2>1. ASSUME NEW t \in Threads, TypeOK, LockExclusion, SessionInv, contested = {},
               ThreadStep(t), UNCHANGED clientVars
        PROVE  [Service!ServiceNext]_Service!serviceVars
    BY <2>1, ThreadStepServed
  <2>2. ASSUME NEW p \in Processes, TypeOK, SessionInv, contested = {},
               ProcessStep(p), UNCHANGED serverVars
        PROVE  [Service!ServiceNext]_Service!serviceVars
    BY <2>2, ProcessStepServed
  <2>3. ASSUME UNCHANGED <<job_buffers, execs, cpc, slot>>
        PROVE  [Service!ServiceNext]_Service!serviceVars
    BY <2>3, NoUserMoves DEF ServicePhase, ServicePerformed, Awaiting, Owns, Leaving, Buffer
  <2>4. QED
    BY <2>1, <2>2, <2>3 DEF SerialInv, Next, vars, CloseWorkspace, workspaceVars, serverVars, clientVars
<1>3. QED
  BY <1>1, <1>2, TypeCorrectness, ThreadsExclude, SessionsConsistent, SerialSessionsContestNothing, PTL
     DEF Spec, ImplementsJobService, Service!ServiceSpec
=============================================================================
