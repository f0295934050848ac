SPECIFICATION Spec
CONSTANTS
  Procs = {p1, p2}
  m1 = m1
  m2 = m2
  Models = {m1, m2}
  Vaults = {v1, v2}
  DimOf <- MCDimOf
  MaxFiles = 2
  None = None
INVARIANTS TypeOK OneCorpus TableFits
