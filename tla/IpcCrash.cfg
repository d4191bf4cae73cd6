\* Either build and either order of the memset, a client that may die at any point, and
\* sessions that begin and end one at a time.
SPECIFICATION Spec
CONSTANTS
  MaxJobBuffers = 2
  Threads = {t1}
  Clients = {c1, c2}
  Killers = {}
  Fds = {1}
  Files = {tty}
  Terminal = tty
  NoFile = NoFile
  NoPid = NoPid
  Kills = 0
  SerialSessions = TRUE
  DisconnectStored = {TRUE, FALSE}
  ClearStatusFirst = {TRUE, FALSE}
  MayCrash = {c1}
INVARIANTS
  SessionInv
  FreeSlotForgotten
  StaleAnswerOnlyUnborrowed
PROPERTIES
  ImplementsJobService
CHECK_DEADLOCK TRUE
