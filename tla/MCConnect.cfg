SPECIFICATION Spec
CONSTANTS
  t1 = t1
  t2 = t2
  Threads = {t1, t2}
  MaxFd = 1
  MaxAddrs = 2
  Params <- SmallParams
INVARIANTS
  TypeOK
  NoSocketLeaked
  ClosesAreSound
  ResultMatchesSession
PROPERTIES
  ConnectReturns
