SPECIFICATION Spec
CONSTANTS
  c1 = c1  c2 = c2  NoFile = NoFile
  Clients <- TwoClients
  Names <- TwoNames
  Plans <- BothPlans
  Faults <- AllFaults
INVARIANTS TypeOK TargetWhole ThrowLeavesTarget NoTempLeft KeepsNumberedErrorsOut BodyIsLast UploadIsBody OwnOptions
