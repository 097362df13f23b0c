SPECIFICATION Spec
CONSTANTS
  Turns <- TwoTurns
  Requests <- Requested
  Deployments <- Installed
  Households = {"demo", "invalid"}
  Planned <- Asked
  Old = 0
  MaxRetries = 1
  MaxFaults = 2
  MaxEdits = 1
  MaxForgets = 1
  TopK = 1
INVARIANTS
  TypeOK
  EffectsAudited
  SendNeedsCommand
  ReplyTruthful
  RememberedUnlessExcused
  ForgottenNotRecalled
