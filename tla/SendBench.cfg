\* Two starts of two rounds each, two processes of which may be killed.
SPECIFICATION FairSpec
CONSTANTS
  num_runs = 2
  MaxStarts = 2
  MaxKills = 2
  Killable = {"parent", "child"}
INVARIANTS
  CleanRoundConnects
  RoundsHeal
PROPERTIES
  EveryStartEnds
  OrphansEnd
CHECK_DEADLOCK FALSE
