SPECIFICATION FairSpec
CONSTANTS
  Configs <- LiveCalls
  PipeCap = 1
  MaxSent = 1
  ExitCodes = {0, 1}
PROPERTIES CallGoesOn FilterReturns
