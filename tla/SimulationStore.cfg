SPECIFICATION MCSpec
CONSTANTS
  Devices = {d1, d2}
  Sessions = {s1, s2}
  Seqs = {1, 2}
  Scenarios = {calm}
  LabelNames = {safe, danger}
  Workers = {w1, w2}
  MaxRows = 2
  None = None
SYMMETRY Symmetry
INVARIANTS IInv AloneIsSound
PROPERTIES CompletedFrozen RefinesService AloneScenarioFrozen
CHECK_DEADLOCK FALSE
