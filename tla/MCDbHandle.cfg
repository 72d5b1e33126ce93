SPECIFICATION FairSpec
CONSTANTS
  Thread = {t1, t2, t3}
  Closer = {t1, t2}
  MaxReopens = 3
INVARIANTS IInv NoUseAfterClose OpenHandleIsLive
PROPERTY LockReleased
CHECK_DEADLOCK FALSE
