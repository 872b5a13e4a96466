SPECIFICATION Spec
CONSTANTS
  N = 127
  R = 8
  H = 4
  Windows = 2
  MaxScalar = 300
  Threshold = 64
  FullReduce = TRUE
  SingleTop = TRUE
INVARIANT NegationNotNeeded
