CONSTANTS
  NumChunks = 2
  Fill = {f1, f2, f3}
  NoFill = NoFill
  MaxChunks = 1
  MaxRestarts = 1
SPECIFICATION Spec
INVARIANTS NoOrphanRecord BytesLostOnlyToEviction BudgetCoversRows
SYMMETRY FillSymmetry
CHECK_DEADLOCK FALSE
