SPECIFICATION FairSpec
CONSTANTS
  Paths = {foo, bar}
  TimerIds = {t1, t2, t3}
  NoTimer = NoTimer
  Readers = {r}
  Owner = Owner
  NoOne = NoOne
  MaxEdits = 2
  MaxReads = 1
  foo = foo
  bar = bar
  r = r
  t1 = t1
  t2 = t2
  t3 = t3
INVARIANTS TypeOK NoUseAfterClose LastChangeNoticed
PROPERTIES StableReads StopReturns CatchesUp
