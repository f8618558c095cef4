SPECIFICATION FairSpec
CONSTANTS
  alice = alice
  bob = bob
  admin = admin
  ghost = ghost
  foreign = foreign
  unknown = unknown
  Request = {r1, r2}
  Number = {alice, admin, ghost, foreign}
  AccountRow = {alice, admin}
  Prefixed = {alice, ghost}
  Registered = {foreign}
  Amount = {400, 1000}
  Opening <- FivesOpening
  Largest = 4500
  Schemas <- EitherSchema
  Sample <- NoTexts
  MaxFaults = 1
INVARIANTS IInv OneStatementEach SenderNeverLoses RefundsFollowAttempt UnprefixedFrozen AnswerTellsRow PaidEnds OverdraftTakesTwo
PROPERTIES PostsOncePaid EveryRequestAnswered
