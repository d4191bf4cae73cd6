\* The four walks over an address space with one large page.
SPECIFICATION FairSpec
CONSTANTS
  NUM_ENTRIES = 2
  PAGE_SIZE = 2
  Large <- OneLarge
  Paged = {1, 4, 5, 9}
  Walkers = {"pt_walker", "v1", "v2", "user"}
  WalkLimit = 16
  Vmas <- TwoAreas
  PageLimits = {0, 1, 2}
INVARIANTS
  TypeOK
  OnlyTablesRead
  OnTheWay
  NothingMissed
  NothingInvented
  CountsAgree
PROPERTIES
  WalkEnds
CHECK_DEADLOCK FALSE
