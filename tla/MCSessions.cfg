SPECIFICATION Spec
CONSTANTS
  Request = {r1, r2, r3}
  MaxFaults = 1
  Lifetime = 2
  Drift <- EitherWay
  MaxTime = 3
INVARIANTS IInv LateNeverAdmitted LiveNeverRefused RowsBelongToTokens
SYMMETRY Symmetry
