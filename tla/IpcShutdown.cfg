\* server_killer with the number of threads, and a client that may still be at work.
\* The system stops when the server is shut down.
SPECIFICATION FairSpec
CONSTANTS
  MaxJobBuffers = 3
  Threads = {t1, t2}
  Clients = {c1}
  Killers = {k}
  Fds = {1}
  Files = {f1, tty}
  Terminal = tty
  NoFile = NoFile
  NoPid = NoPid
  Kills = 2
  SerialSessions = TRUE
  DisconnectStored = {TRUE}
  ClearStatusFirst = {FALSE}
  MayCrash = {}
INVARIANTS
  WriteAstrayOnlyIfUntold
PROPERTIES
  ServerStopsOnceClientsRest
CHECK_DEADLOCK FALSE
