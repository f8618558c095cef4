SPECIFICATION Spec
CONSTANTS
  alice = alice
  bob = bob
  ghost = ghost
  Delivery = {d1, d2, d3}
  Number = {alice, bob, ghost}
  AccountRow = {alice, bob}
  Amount <- SomeNegative
  Opening <- FivesOpening
  Largest = 1000
  Schemas <- AnySchema
  MaxFaults = 2
INVARIANTS IInv AnswerTellsCredit FailedMeansUncredited CreditsExplainBalances
SYMMETRY Symmetry
