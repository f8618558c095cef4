-------------------------- MODULE MCSharedConnection --------------------------
(***************************************************************************)
(* Accounts for the runs of SharedConnection.                              *)
(***************************************************************************)
EXTENDS SharedConnection, TLC

CONSTANTS alice, bob,  \* customers' accounts
          ghost        \* a number without a row, or of a closed account

FivesOpening == [a \in AccountRow |-> 500]
SomeNegative == {-100, 400}

Symmetry == Permutations(Clerk) \cup Permutations(AccountRow)
=============================================================================
