SPECIFICATION Spec
CONSTANTS
  alice = alice
  bob = bob
  ghost = ghost
  Delivery = {d1}
  Number = {alice, bob, ghost}
  AccountRow = {alice, bob}
  Amount <- SomeNegative
  Opening <- FivesOpening
  Largest = 1000
  Schemas <- CreatedSchema
  MaxFaults = 0
INVARIANT DeliveryCredited
