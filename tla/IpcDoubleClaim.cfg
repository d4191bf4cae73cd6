\* Two clients connect at the same time.
SPECIFICATION Spec
CONSTANTS
  MaxJobBuffers = 2
  Threads = {t1, t2}
  Clients = {c1, c2}
  Killers = {}
  Fds = {1}
  Files = {f1, tty}
  Terminal = tty
  NoFile = NoFile
  NoPid = NoPid
  Kills = 0
  SerialSessions = FALSE
  DisconnectStored = {TRUE}
  ClearStatusFirst = {FALSE}
  MayCrash = {}
INVARIANTS
  SlotOwnership
CHECK_DEADLOCK TRUE
