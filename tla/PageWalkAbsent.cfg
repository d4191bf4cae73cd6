\* Version 2 of walkmod's walk, as init_module calls it.
SPECIFICATION Spec
CONSTANTS
  NUM_ENTRIES = 2
  PAGE_SIZE = 2
  Large <- NoLarge
  Paged = {1, 4}
  Walkers = {"v2"}
  WalkLimit = 16
  Vmas <- TwoAreas
  PageLimits = {0}
INVARIANTS
  PresentIsTested
CHECK_DEADLOCK FALSE
