SPECIFICATION FairSpec
CONSTANTS
  MaxKeys = 5
  MaxPending = 2
INVARIANTS
  TypeOK
  Bounded
  HandleHeld
  SweepCancelsNothing
PROPERTIES
  OldestCancelled
  FinishedReaped
