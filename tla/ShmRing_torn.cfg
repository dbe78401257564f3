\* Is a batch that is returned always the data of its positions?
CONSTANTS
  Cap = 3
  WriteLens = {1, 2, 3}
  ReadLens = {2}
  Resyncs = FALSE
  MaxPos = 7
SPECIFICATION Spec
INVARIANT NeverTorn
