---------------------------- MODULE AtomicTransfer ----------------------------
(***************************************************************************)
(* What an SQL transaction around a transfer promises: the two balances    *)
(* and the record of the transfer change together, once, and only when the *)
(* sender has the money.  Payments from elsewhere credit an account.       *)
(***************************************************************************)
EXTENDS Integers

CONSTANTS
  Clerk,    \* callers that transfer between two accounts
  Payer,    \* callers that pay into one account
  Account,  \* the accounts
  Start     \* their balances at the start

VARIABLES
  order,    \* from, to and amount of each caller
  balance,  \* balances
  entered   \* callers whose transfer or payment is in

vars == <<order, balance, entered>>

Transfer(c) ==
  /\ c \notin entered
  /\ order[c].from \in Account /\ order[c].to \in Account
  /\ 0 < order[c].amount /\ order[c].amount <= balance[order[c].from]
  /\ balance' = [balance EXCEPT ![order[c].from] = @ - order[c].amount,
                                ![order[c].to] = @ + order[c].amount]
  /\ entered' = entered \cup {c}
  /\ UNCHANGED order

Pay(p) ==
  /\ p \notin entered
  /\ order[p].to \in Account
  /\ balance' = [balance EXCEPT ![order[p].to] = @ + order[p].amount]
  /\ entered' = entered \cup {p}
  /\ UNCHANGED order

Next == (\E c \in Clerk : Transfer(c)) \/ (\E p \in Payer : Pay(p))
=============================================================================
