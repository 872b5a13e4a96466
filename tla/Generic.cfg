CONSTANTS
  B = 16
  W = 4
  MemSize = 6
  LoopCalls <- MCCalls
  LoopWords <- MCSamples
  Divisions <- MCDivisions
  Questions <- MCQuestions
  DecBits = 12
  DecSplit = 8
SPECIFICATION MCSpec
INVARIANTS MeetsContract AnswersRight QuotientsRight MontgomeryRight ProductsRight BytesRight InversesRight
