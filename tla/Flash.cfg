\* Four sectors of two pages, the image fills the two in the middle.
\* The bounds on runs and reads stop the model, so a stop is no deadlock.
SPECIFICATION LiveSpec
CONSTANTS
  Sectors = 4
  SectorPages = 2
  Base = 2
  Size = 4
  Retries = 2
  MaxRuns = 3
  MaxReads = 3
  MaxWeak = 3
INVARIANTS
  
  
  CalmRunSucceeds
PROPERTIES
  RunEnds
CHECK_DEADLOCK FALSE
