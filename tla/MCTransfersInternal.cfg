SPECIFICATION Spec
CONSTANTS
  alice = alice
  bob = bob
  admin = admin
  ghost = ghost
  foreign = foreign
  unknown = unknown
  Request = {r1, r2, r3}
  Number = {alice, bob}
  AccountRow = {alice, bob}
  Prefixed = {alice, bob}
  Registered = {}
  Amount = {400}
  Opening <- FivesOpening
  Largest = 1000
  Schemas <- EitherSchema
  Sample <- BoundaryTexts
  MaxFaults = 1
INVARIANTS FundsChecksCompareTexts IInv MoneyNeverCreated MissingMoneyIsOpen Reconciles
PROPERTIES SettledMeansMoved ImplementsEscrow
SYMMETRY Symmetry
