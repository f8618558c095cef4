SPECIFICATION Spec
CONSTANTS
  alice = alice
  bob = bob
  admin = admin
  ghost = ghost
  foreign = foreign
  unknown = unknown
  Request = {r1}
  Number = {alice, bob}
  AccountRow = {alice, bob}
  Prefixed = {alice, bob}
  Registered = {foreign}
  Amount = {100000}
  Opening <- NinesOpening
  Largest = 1000000
  Schemas <- CreatedSchema
  Sample <- NoTexts
  MaxFaults = 0
INVARIANT NoOverdraft
