CONSTANTS
  Moduli <- MCModuli
  MaxWords = 4
  Curves <- MCCurves
  Single <- MCSingle
  Pairs <- MCPairs
  Factors <- MCFactors
  Scalars <- MCScalars
SPECIFICATION MCSpec
INVARIANTS Remainder MeetsInterface
