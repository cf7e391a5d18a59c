SPECIFICATION Spec
CONSTANTS
  w1 = w1
  w2 = w2
  Workers = {w1, w2}
  Batches <- MCBatches
  Viewed = {"device", "alarm"}
  Unviewed = {"plain"}
  ViewOptions <- MCViewOptions
  Formats <- MCFormats
SYMMETRY Symmetry
INVARIANTS
  RowsFitHeader
  EveryRowOnce
