SPECIFICATION Spec
CONSTANTS
  N = 509
  R = 8
  H = 4
  Windows = 2
  MaxScalar = 511
  Threshold = 256
  FullReduce = FALSE
  SingleTop = FALSE
INVARIANTS TypeOK TableOK PrefixOK Result TopFieldOK NoDegenerateAdd
