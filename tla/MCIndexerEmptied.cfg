SPECIFICATION Spec
CONSTANTS
  foo = foo
  bar = bar
  a = a
  b = b
  Paths = {1, 2}
  SlugOf <- OwnStems
  Walked = {1, 2}
  Watched = {1, 2}
  Slugs = {foo, bar}
  Idxs = {0, 1}
  Sums = {a, b}
  Bodies <- OneBody
  Absent = Absent
  Oversize = Oversize
  None = None
  MaxEdits = 2
INVARIANT RebuildDropsGoneChunks
