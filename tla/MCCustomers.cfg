SPECIFICATION Spec
CONSTANTS
  Request = {r1, r2, r3}
  MaxFaults = 2
  Username = {admin, alice}
  Admin = admin
  Boot = boot
  Welcome = 1000
  AdminFunds = 10000
  Payment <- BothWays
INVARIANTS IInv AnswerTellsAccount OneUserPerName AdminIsOurs DeactivatedHadNothing
PROPERTIES BalanceOnlyPaid StartsNeverRefused
SYMMETRY Symmetry
