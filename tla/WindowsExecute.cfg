SPECIFICATION FairSpec
CONSTANTS
  Configs <- Calls
  PipeCap = 1
  ExitCodes = {0, 1}
INVARIANTS StreamsSound EnvironmentSound
PROPERTIES JobSound KeepsPromise TimeoutEnds
