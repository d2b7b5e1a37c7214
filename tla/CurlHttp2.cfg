SPECIFICATION Spec
CONSTANTS
  c1 = c1  c2 = c2  NoFile = NoFile
  Clients <- TwoClients
  Names <- TwoNames
  Plans <- Over2
  Faults <- NoFaults
INVARIANTS KeepsErrorsOut
