SPECIFICATION FairSpec
CONSTANTS
  Jobs = {j1, j2}
  Reads = {r1, r2}
  Tries = {t1}
  Watcher = w
  NoOp = NoOp
INVARIANTS
  TypeOK
  OneOperationPerSwitch
  BusyFlagIsFaithful
  PermitIsNeverLost
  QueuedCountIsExact
PROPERTIES
  ImplementsTurnstile
  BusyFlagClears
  NobodyWaitsForever
