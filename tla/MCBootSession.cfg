CONSTANTS
  Targets = {t1, t2}
  Seconds = 2
  None = None

SPECIFICATION FairSpec

INVARIANTS
  SetupIsClean
  NoSecondAttempt
  BootsSavedSettings
  MarkerRecoverable
  RecoveryMenuIsReal
  SilentExitIsClean
PROPERTY
  AttemptEnds
