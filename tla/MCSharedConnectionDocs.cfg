SPECIFICATION Spec
CONSTANTS
  alice = alice
  bob = bob
  ghost = ghost
  Clerk = {c1, c2}
  Payer = {}
  Number = {alice, bob}
  AccountRow = {alice, bob}
  Amount = {400}
  Opening <- FivesOpening
  Largest = 1000
  MaxFaults = 0
INVARIANT AllOrNothing
