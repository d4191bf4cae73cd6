\* Two clients, one thread, no shutdown: the server serves.
SPECIFICATION FairSpec
CONSTANTS
  MaxJobBuffers = 2
  Threads = {t1}
  Clients = {c1, c2}
  Killers = {}
  Fds = {1}
  Files = {tty}
  Terminal = tty
  NoFile = NoFile
  NoPid = NoPid
  Kills = 0
  SerialSessions = TRUE
  DisconnectStored = {TRUE}
  ClearStatusFirst = {FALSE}
  MayCrash = {}
PROPERTIES
  SomeoneIsServed
  AnsweredOnceOthersRest
CHECK_DEADLOCK TRUE
