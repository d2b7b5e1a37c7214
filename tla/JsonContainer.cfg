SPECIFICATION Spec
CONSTANTS
  Container = {"x", "y"}
  Name <- Names
  NoNul <- PlainNames
  Cut <- Cuts
  Texts <- SomeTexts
  Inputs <- AllInputs
  Stored <- FewInputs
  MaxKeys = 2
  MaxCalls = 2
INVARIANTS SetSound GetSound
