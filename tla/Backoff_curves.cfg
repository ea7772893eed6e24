SPECIFICATION Spec
CONSTANTS
  Width = 6
  Sequences = {q1, q2}
  Kinds <- AllKinds
  Bases = {1, 3}
  Caps = {9, 31}
  Decorations <- UsualDecorations
  JitterTenths = 2
  MinWait = 5
  MaxWait = 6
  Hints = {0, 8}
  MaxRetries = 6
SYMMETRY SequenceSymmetry
INVARIANTS WaitsFollowCurve SharedMemoryIsSound HintIsAMinimum
