SPECIFICATION Spec
CONSTANTS
  alice = alice
  bob = bob
  admin = admin
  ghost = ghost
  foreign = foreign
  unknown = unknown
  Request = {r1, r2}
  Number = {alice, unknown}
  AccountRow = {alice}
  Prefixed = {alice}
  Registered = {foreign}
  Amount = {400}
  Opening <- FivesOpening
  Largest = 1500
  Schemas <- CreatedSchema
  Sample <- NoTexts
  MaxFaults = 0
INVARIANT SomeFailureMended
