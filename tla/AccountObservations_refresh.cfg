SPECIFICATION MCSpec
CONSTANTS
  None = None
  Refreshers = {w, g}
  Worker = w
  Consumers = {c}
  Ttl = 2
  Interval = 2
  MaxAge = 0
  MaxStale = 2
  Backoff = 1
  MaxWait = 1
  MaxFaults = 2
INVARIANTS
  NotOlderThanSaid
  ConsentHolds
PROPERTIES
  FailuresLoseNothing
  RefreshedAgain
