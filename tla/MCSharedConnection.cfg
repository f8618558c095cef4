SPECIFICATION Spec
CONSTANTS
  alice = alice
  bob = bob
  ghost = ghost
  Clerk = {c1, c2}
  Payer = {p1}
  Number = {alice, bob, ghost}
  AccountRow = {alice, bob}
  Amount <- SomeNegative
  Opening <- FivesOpening
  Largest = 1000
  MaxFaults = 2
INVARIANTS IInv NoTransactionAbandoned AnswerTellsOutcome
PROPERTY AloneIsAtomic
SYMMETRY Symmetry
