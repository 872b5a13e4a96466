SPECIFICATION Spec
CONSTANTS
  N = 499
  Bits = 9
  Blocksizes = {2, 3, 4, 5, 6, 7}
INVARIANTS PrefixOK TableBounds NoDegenerateAdd Result
