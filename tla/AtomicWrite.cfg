SPECIFICATION Spec
CONSTANTS
  w1 = w1  w2 = w2  f1 = f1  f2 = f2  f3 = f3  f4 = f4
  Writers <- TwoWriters
  Files <- FourFiles
  Size = 2
  Settings <- InTurns
  MaxAttempts = 2
SYMMETRY Symmetry
INVARIANTS WholeInTurns NeverMixed
PROPERTIES ReturnsWritten
