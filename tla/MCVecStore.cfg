SPECIFICATION Spec
CONSTANTS
  Procs = {p1, p2}
  Slugs = {s1, s2}
  Idxs = {0, 1}
  Sums = {a, b}
  MaxRows = 3
  p1 = p1
  p2 = p2
  s1 = s1
  s2 = s2
  a = a
  b = b
INVARIANTS TypeOK LockStep NoDangling NoOrphans
PROPERTIES OwnPageOnly RecordedIsTable SearchableIsTable
