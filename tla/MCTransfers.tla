----------------------------- MODULE MCTransfers -----------------------------
(***************************************************************************)
(* Accounts, amounts and samples of texts for the runs of Transfers.  From *)
(* an opening balance of 5.00 an amount of 4.00 is covered once; the texts *)
(* say that 10.00 is covered as well, and do not once 4.00 are gone.       *)
(***************************************************************************)
EXTENDS TransferProperties, TLC

CONSTANTS
  alice, bob,  \* customers' accounts, with the bank prefix
  admin,       \* the administrator's account, without it
  ghost,       \* a number with the prefix and no row
  foreign,     \* an account of a known bank
  unknown      \* a number of no known bank

FivesOpening   == [a \in AccountRow |-> 500]
NinesOpening   == [a \in AccountRow |-> 90000]

(* createTables spells the column status_details, the handlers write       *)
(* status_detail; the other columns are there either way.                  *)
CreatedSchema == {{"status_details"}}
EitherSchema  == CreatedSchema \cup {{"status_detail"}}

NoTexts == {}

(* Values around the powers of ten, with equal leading digits, zero and    *)
(* negatives, for the order on texts.                                      *)
BoundaryTexts ==
  {-100000, -99999, -1234, -1000, -999, -500, -100, -99, -10, -1}
    \cup 0..2 \cup {9, 10, 11, 99, 100, 101, 109, 110, 111, 199, 200}
    \cup {900, 950, 999, 1000, 1001, 1050, 1099, 1100, 1999, 2000, 9900}
    \cup {9999, 10000, 10001, 10010, 10100, 11000, 12345, 20000, 99900}
    \cup {99999, 100000, 100001, 123456, 200000, 999999, 1000000}

Symmetry == Permutations(Request)
=============================================================================
