SPECIFICATION Spec
CONSTANTS
  Configs <- SafetyCalls
  PipeCap = 1
  MaxSent = 2
  ExitCodes = {0, 1}
INVARIANTS TypeOK LeavesNothing OutputComplete InputWritten GroupGoneAfterVfork ChildEnvironment
PROPERTIES KillsOwnChild KeepsPromise
