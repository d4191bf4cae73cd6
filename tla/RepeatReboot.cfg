\* Three runs, and a machine that goes down up to five times.
SPECIFICATION FairSpec
CONSTANTS
  num_runs = 3
  MaxReboots = 5
  Absent = Absent
  Empty = Empty
INVARIANTS
  TypeOK
  FileTellsRuns
  RepeatedOnlyIfInterrupted
PROPERTIES
  StartedCompletes
CHECK_DEADLOCK FALSE
