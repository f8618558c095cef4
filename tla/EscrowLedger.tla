----------------------------- MODULE EscrowLedger -----------------------------
(***************************************************************************)
(* What a bank promises about a transfer between two of its accounts,      *)
(* without handlers, rows, connections or faults: the amount of an order   *)
(* leaves its source once, is under way for a while, and reaches its       *)
(* destination at most once.  Nothing else changes a balance.  An order    *)
(* may stay under way for ever, which is the loss that a crash between the *)
(* two UPDATEs leaves behind.                                              *)
(***************************************************************************)
EXTENDS Integers

CONSTANTS
  Transfer,  \* identities of orders
  Order,     \* what an order may say: records with from, to and amount
  Account,   \* the accounts that hold money
  Start      \* their balances at the start

VARIABLES
  order,     \* the order each transfer carries out
  balance,   \* balances
  stage      \* how far each transfer is: new, under way or arrived

vars == <<order, balance, stage>>

Init ==
  /\ order \in [Transfer -> Order]
  /\ balance = Start
  /\ stage = [t \in Transfer |-> "new"]

Take(t) ==
  /\ stage[t] = "new"
  /\ order[t].from \in Account
  /\ order[t].to \in Account
  /\ stage' = [stage EXCEPT ![t] = "underway"]
  /\ balance' = [balance EXCEPT ![order[t].from] = @ - order[t].amount]
  /\ UNCHANGED order

Bring(t) ==
  /\ stage[t] = "underway"
  /\ stage' = [stage EXCEPT ![t] = "arrived"]
  /\ balance' = [balance EXCEPT ![order[t].to] = @ + order[t].amount]
  /\ UNCHANGED order

Next == \E t \in Transfer : Take(t) \/ Bring(t)

Spec == Init /\ [][Next]_vars
=============================================================================
