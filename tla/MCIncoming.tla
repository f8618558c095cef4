------------------------------ MODULE MCIncoming ------------------------------
(***************************************************************************)
(* Accounts, amounts and schemas for the runs of Incoming.                 *)
(***************************************************************************)
EXTENDS Incoming, TLC

CONSTANTS alice, bob,  \* customers' accounts
          ghost        \* a number without a row

FivesOpening == [a \in AccountRow |-> 500]
SomeNegative == {-100, 0, 400}

(* createTables creates neither of the two columns that the handler names.  *)
CreatedSchema == {{}}
AnySchema     == SUBSET {"accounts.number", "transactions.status_detail"}

Symmetry == Permutations(Delivery) \cup Permutations(AccountRow)
=============================================================================
