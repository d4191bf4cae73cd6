\* The build of the Makefile: CMD_DISCONNECT never reaches the server.
SPECIFICATION Spec
CONSTANTS
  MaxJobBuffers = 2
  Threads = {t1}
  Clients = {c1, c2}
  Killers = {}
  Fds = {1}
  Files = {f1, f2, tty}
  Terminal = tty
  NoFile = NoFile
  NoPid = NoPid
  Kills = 0
  SerialSessions = TRUE
  DisconnectStored = {FALSE}
  ClearStatusFirst = {FALSE}
  MayCrash = {}
INVARIANTS
  WriteReachesOwnFile
CHECK_DEADLOCK TRUE
