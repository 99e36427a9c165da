CONSTANTS
  NumChunks = 2
  Fill = {f1, f2, f3}
  NoFill = NoFill
  MaxChunks = 1
  MaxRestarts = 0
SPECIFICATION Spec
INVARIANT PresentMeansBytes
SYMMETRY FillSymmetry
CHECK_DEADLOCK FALSE
