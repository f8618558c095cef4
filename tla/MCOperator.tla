------------------------------ MODULE MCOperator ------------------------------
(***************************************************************************)
(* For the run of Operator: a withdrawal takes all that the administrator  *)
(* holds.                                                                  *)
(***************************************************************************)
EXTENDS Operator, TLC

Withdrawal == {-10000}

Symmetry == Permutations(Request)
=============================================================================
