SPECIFICATION Spec
CONSTANTS
  Pages = {1, 2, 3, 4}
  Queries <- MCQueries
  K = 60
  Depth = 2
  MaxPaths = 8
  TopK = 2
  MaxRank = 4
  None = None
  x = x
  MaxTraces = 2
  TraceDepth = 2
INVARIANTS TypeOK FusedIsRRF Representative WalkIsShortest HopsComplete CapKeepsNearest EdgesJustified TraceIsReasoning CitedFully
