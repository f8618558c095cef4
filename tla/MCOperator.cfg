SPECIFICATION OperatorSpec
CONSTANTS
  Request = {r1, r2, r3, r4, r5}
  MaxFaults = 0
  Username = {admin}
  Admin = admin
  Boot = boot
  Welcome = 1000
  AdminFunds = 10000
  Payment <- Withdrawal
INVARIANT SomeCallReturns
SYMMETRY Symmetry
