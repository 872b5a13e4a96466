SPECIFICATION MCSpec
INVARIANTS OperandsInRange TemporariesCurrent ResultOK LadderRight EdwardsRight
