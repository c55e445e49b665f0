CONSTANTS
  MaxRecordings = 2
  MaxFiles = 3
SPECIFICATION FairSpec
INVARIANTS
  TypeOK
  StopFinishes
  
  MixedOnlyWhenReplaced
  AudioDiesOnlyIfDisturbed
PROPERTIES
  StopRecoderReturns
CHECK_DEADLOCK FALSE
