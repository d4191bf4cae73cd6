\* Two clients that come and go as they like, two threads, and a memset that clears
\* status first: locks, owners and executions.
SPECIFICATION Spec
CONSTANTS
  MaxJobBuffers = 2
  Threads = {t1, t2}
  Clients = {c1, c2}
  Killers = {}
  Fds = {1}
  Files = {tty}
  Terminal = tty
  NoFile = NoFile
  NoPid = NoPid
  Kills = 0
  SerialSessions = FALSE
  DisconnectStored = {TRUE}
  ClearStatusFirst = {TRUE}
  MayCrash = {}
SYMMETRY Interchangeable
INVARIANTS
  TypeOK
  LockExclusion
  SharedOnlyIfContested
  ExactlyOnce
  AnswerFinal
PROPERTIES
  StageOrder
CHECK_DEADLOCK TRUE
