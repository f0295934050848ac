SPECIFICATION Spec
CONSTANTS
  Procs = {p1, p2}
  Slugs = {s1}
  Idxs = {0}
  Sums = {a, b}
  MaxRows = 3
  p1 = p1
  p2 = p2
  s1 = s1
  a = a
  b = b
INVARIANT NoStaleRows
