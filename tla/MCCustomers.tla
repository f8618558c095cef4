------------------------------ MODULE MCCustomers ------------------------------
(***************************************************************************)
(* Payments for the run of Customers: one takes all that the administrator *)
(* holds, and overdraws a customer; one arrives.                           *)
(***************************************************************************)
EXTENDS Customers, TLC

BothWays == {-10000, 1000}

Symmetry == Permutations(Request)
=============================================================================
