SPECIFICATION FairSpec
CONSTANTS
  direct = direct
  queued = queued
  Observers = {direct, queued}
  Queued = {queued}
  Once = {direct, queued}
  Emitting = {direct, queued}
  t1 = t1
  t2 = t2
  Threads = {t1, t2}
  MaxEvents = 3
INVARIANTS
  TypeOK
  ReachesItsAudience
  CalledInOrder
  OnceIsLastCall
PROPERTIES
  EveryoneIsCalled
  EveryEmitReturns
CHECK_DEADLOCK FALSE
