SPECIFICATION FairSpec
CONSTANTS
  MaxSamples = 5
  QueueSize = 2
INVARIANTS
  TypeOK
  NoLostWakeup
PROPERTIES
  SampleEndsWait
  Refines
