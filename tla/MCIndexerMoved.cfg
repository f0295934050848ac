SPECIFICATION MoveSpec
CONSTANTS
  foo = foo
  bar = bar
  a = a
  b = b
  Paths = {1, 2}
  SlugOf <- SharedStems
  Walked = {1, 2}
  Watched = {1, 2}
  Slugs = {foo, bar}
  Idxs = {0, 1}
  Sums = {a, b}
  Bodies <- OneBody
  Absent = Absent
  Oversize = Oversize
  None = None
  MaxEdits = 1
INVARIANT MovedPageIndexed
CHECK_DEADLOCK FALSE
