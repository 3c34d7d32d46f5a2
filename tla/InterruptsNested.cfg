CONSTANTS
  PROCESS_NUM = 3
  TERM_MAX = 2
  MaxNested = 1
  KeyInLaunch = FALSE
SPECIFICATION FairSpec
INVARIANTS TypeOK ServiceHasOwner
PROPERTIES EveryInterruptIsServed
