--------------------------- MODULE SharedConnection ---------------------------
(***************************************************************************)
(* DatabaseTransaction: executeTransaction and the transferMoney built on  *)
(* it, on the one connection that every part of the process shares.        *)
(*                                                                         *)
(* An SQL transaction belongs to a connection, not to a caller.  Clerks    *)
(* run transferMoney; payers stand for the handlers that issue statements  *)
(* of their own meanwhile, here creditAccount.  As in Transfers, pc names  *)
(* the statement a caller awaits and the connection serves its queue in    *)
(* order.                                                                  *)
(***************************************************************************)
EXTENDS Integers, Sequences, Functions, DecimalText

CONSTANTS
  Clerk,       \* callers of transferMoney
  Payer,       \* callers of creditAccount
  Number,      \* account numbers an argument may name
  AccountRow,  \* those with an active row in the accounts table
  Amount,      \* amounts, in cents; transferMoney validates none of them
  Opening,     \* balances at the start, in cents
  Largest,     \* the largest value a DECIMAL(15,2) holds, in cents
  MaxFaults    \* bound on lost connections and process deaths

Caller == Clerk \cup Payer

ASSUME CallersAssumption  == Clerk \cap Payer = {}
ASSUME AccountsAssumption == AccountRow \subseteq Number
ASSUME AmountAssumption   == Amount \subseteq Int
ASSUME OpeningAssumption  == Opening \in [AccountRow -> Int]
ASSUME LimitsAssumption   == Largest \in Nat /\ MaxFaults \in Nat

VARIABLES
  order,      \* the arguments of each call
  view,       \* the tables as statements of the connection see them
  store,      \* the tables as last committed
  open,       \* a transaction is open on the connection
  pc,         \* what a caller awaits
  queue,      \* callers whose statement waits for the connection, in order
  connected,  \* the process still has its connection
  faults,     \* faults so far
  overlapped  \* history: two calls were once under way at the same time

tables  == <<view, store, open>>
callers == <<pc, queue, connected, faults>>
vars    == <<order, tables, callers, overlapped>>

-----------------------------------------------------------------------------
Within    == {"sender", "receiver", "debit", "credit", "insert", "commit", "rollback"}
Statement == Within \cup {"begin", "payRead", "pay"}
Ended     == {"done", "failed", "dead"}

Active(c) == pc[c] \in Statement

(* Rows: balances by number, and the callers whose row is inserted (for a  *)
(* payer, history: whose credit is in).                                    *)
Tables == [balance: [AccountRow -> Int], entered: SUBSET Caller]

TypeOK ==
  /\ order \in [Caller -> [from: Number, to: Number, amount: Amount]]
  /\ view \in Tables /\ store \in Tables
  /\ open \in BOOLEAN
  /\ pc \in [Caller -> Statement \cup Ended \cup {"idle"}]
  /\ queue \in Seq(Caller)
  /\ connected \in BOOLEAN
  /\ faults \in 0..MaxFaults
  /\ overlapped \in BOOLEAN

Init ==
  /\ order \in [Caller -> [from: Number, to: Number, amount: Amount]]
  /\ \A p \in Payer : order[p].from = order[p].to /\ order[p].amount > 0
  /\ view = [balance |-> Opening, entered |-> {}]
  /\ store = view
  /\ open = FALSE
  /\ pc = [c \in Caller |-> "idle"]
  /\ queue = <<>>
  /\ connected = TRUE
  /\ faults = 0
  /\ overlapped = FALSE

-----------------------------------------------------------------------------
(***************************************************************************)
(* Statements on the connection.                                           *)
(***************************************************************************)
Served(c) == queue # <<>> /\ Head(queue) = c

Leaves(c, next) ==
  /\ pc' = [pc EXCEPT ![c] = next]
  /\ queue' = IF next \in Statement THEN Append(Tail(queue), c) ELSE Tail(queue)

(* Mutant of CatchOf: the error is passed on without a ROLLBACK.           *)
ThrowsOn(l) == "failed"

(* executeTransaction rolls back on any error and rethrows it.             *)
CatchOf(l) == IF l \in {"rollback", "payRead", "pay"} THEN "failed" ELSE "rollback"

(* c's statement `at` leaves the tables as v and s and a transaction open  *)
(* or not.  If its result is lost with the connection, the server rolls    *)
(* back what is not committed.                                             *)
Runs(c, at, v, s, o, next) ==
  /\ connected /\ Served(c) /\ pc[c] = at
  /\ \/ /\ view' = v /\ store' = s /\ open' = o
        /\ Leaves(c, next)
        /\ UNCHANGED <<connected, faults>>
     \/ /\ faults < MaxFaults
        /\ faults' = faults + 1
        /\ connected' = FALSE
        /\ view' = s /\ store' = s /\ open' = FALSE
        /\ Leaves(c, CatchOf(at))
  /\ UNCHANGED <<order, overlapped>>

Looks(c, at, next) == Runs(c, at, view, store, open, next)

(* Outside a transaction a statement commits itself.                       *)
Writes(c, at, v, next) == Runs(c, at, v, IF open THEN store ELSE v, open, next)

Balance(account) == view.balance[account]

Changed(t, account, delta, new) ==
  [balance |-> [t.balance EXCEPT ![account] = @ + delta], entered |-> t.entered \cup new]

Moves(c, at, account, delta, entered, next) ==
  /\ pc[c] = at
  /\ Storable(Balance(account) + delta, Largest)
  /\ Writes(c, at, Changed(view, account, delta, entered), next)

-----------------------------------------------------------------------------
(***************************************************************************)
(* executeTransaction around transferMoney.                                *)
(***************************************************************************)
Call(c) ==
  /\ pc[c] = "idle"
  /\ pc' = [pc EXCEPT ![c] = IF c \in Clerk THEN "begin" ELSE "payRead"]
  /\ queue' = Append(queue, c)
  /\ overlapped' = (overlapped \/ \E d \in Caller : Active(d))
  /\ UNCHANGED <<order, tables, connected, faults>>

(* Mutant of Begin: statements commit themselves.                          *)
SkipsBegin(c) == Looks(c, "begin", "sender")

(* BEGIN commits a transaction that is still open on the connection.       *)
Begin(c) == Runs(c, "begin", view, view, TRUE, "sender")

(* Mutant of AfterSender: any balance will do.                             *)
AnyBalance(c) == IF order[c].from \in AccountRow THEN "receiver" ELSE CatchOf("sender")

AfterSender(c) ==
  IF order[c].from \in AccountRow /\ Balance(order[c].from) >= order[c].amount
    THEN "receiver" ELSE CatchOf("sender")

(* FOR UPDATE locks the row against other connections only.                *)
ReadSender(c) == Looks(c, "sender", AfterSender(c))

AfterReceiver(c) == IF order[c].to \in AccountRow THEN "debit" ELSE CatchOf("receiver")

ReadReceiver(c) == Looks(c, "receiver", AfterReceiver(c))

Debit(c) == Moves(c, "debit", order[c].from, -order[c].amount, {}, "credit")

Credit(c) == Moves(c, "credit", order[c].to, order[c].amount, {}, "insert")

(* The CHECK of the table is the only look at the sign of the amount.      *)
Insert(c) ==
  /\ order[c].amount > 0
  /\ Storable(order[c].amount, Largest)
  /\ Writes(c, "insert", [view EXCEPT !.entered = @ \cup {c}], "commit")

(* Mutant of Commit: answers without it.                                   *)
SkipsCommit(c) == Looks(c, "commit", "done")

Commit(c) == Runs(c, "commit", view, view, FALSE, "done")

Rollback(c) == Runs(c, "rollback", store, store, FALSE, "failed")

(***************************************************************************)
(* creditAccount, issued by some other handler.                            *)
(***************************************************************************)
AfterPayRead(c) == IF order[c].to \in AccountRow THEN "pay" ELSE "failed"

PayRead(c) == Looks(c, "payRead", AfterPayRead(c))

Pay(c) == Moves(c, "pay", order[c].to, order[c].amount, {c}, "done")

-----------------------------------------------------------------------------
(***************************************************************************)
(* Statements the server rejects, and faults.                              *)
(***************************************************************************)
Rejected(c) ==
  /\ Served(c)
  /\ Leaves(c, CatchOf(pc[c]))
  /\ UNCHANGED <<order, tables, connected, faults, overlapped>>

Stored(c) ==
  CASE pc[c] = "debit"            -> Balance(order[c].from) - order[c].amount
    [] pc[c] \in {"credit", "pay"} -> Balance(order[c].to) + order[c].amount
    [] pc[c] = "insert"           -> order[c].amount
    [] OTHER                      -> 0

OutOfRange(c) == connected /\ ~Storable(Stored(c), Largest) /\ Rejected(c)

(* The id is drawn from the clock and a random number below a thousand.    *)
RowRefused(c) ==
  /\ connected
  /\ pc[c] = "insert"
  /\ order[c].amount <= 0 \/ view.entered \cap Clerk # {}
  /\ Rejected(c)

(* A statement on a lost connection is rejected, ROLLBACK included.        *)
Broken(c) == ~connected /\ Rejected(c)

LosesConnection ==
  /\ connected
  /\ faults < MaxFaults
  /\ faults' = faults + 1
  /\ connected' = FALSE
  /\ view' = store /\ open' = FALSE
  /\ UNCHANGED <<order, store, pc, queue, overlapped>>

Restarts ==
  /\ faults < MaxFaults
  /\ faults' = faults + 1
  /\ pc' = [c \in Caller |-> IF Active(c) THEN "dead" ELSE pc[c]]
  /\ queue' = <<>>
  /\ connected' = TRUE
  /\ view' = store /\ open' = FALSE
  /\ UNCHANGED <<order, store, overlapped>>

-----------------------------------------------------------------------------
TransferMoney(c) ==
  \/ Begin(c) \/ ReadSender(c) \/ ReadReceiver(c) \/ Debit(c) \/ Credit(c)
  \/ Insert(c) \/ Commit(c) \/ Rollback(c)

CreditAccount(c) == PayRead(c) \/ Pay(c)

Runner(c) ==
  TransferMoney(c) \/ CreditAccount(c) \/ OutOfRange(c) \/ RowRefused(c) \/ Broken(c)

Done == (\A c \in Caller : pc[c] \in Ended) /\ UNCHANGED vars

Next ==
  \/ \E c \in Caller : Call(c) \/ Runner(c)
  \/ LosesConnection
  \/ Restarts
  \/ Done

Spec == Init /\ [][Next]_vars

-----------------------------------------------------------------------------
(***************************************************************************)
(* Properties.                                                             *)
(***************************************************************************)

(* No transaction stays open on the connection when the calls that opened  *)
(* it have ended, however calls overlap and fail: a handler's statement    *)
(* would otherwise go into it unnoticed and be lost with the connection.   *)
NoTransactionAbandoned ==
  /\ open => \E c \in Clerk : pc[c] \in Within
  /\ ~open => view = store

(* As long as no two calls overlap, each committed change is a whole       *)
(* transfer with its row, of money the sender had, or one payment;         *)
(* rejected statements, lost connections and process deaths change that    *)
(* for none of the statements.                                             *)
Atomic == INSTANCE AtomicTransfer WITH
  Account <- AccountRow,
  Start   <- Opening,
  balance <- store.balance,
  entered <- store.entered

AloneIsAtomic ==
  [][~overlapped' => (Atomic!Next \/ UNCHANGED Atomic!vars)]_vars

(* As long as no two calls overlap, a caller that was told success finds   *)
(* its transfer committed, and without faults one that was told of an      *)
(* error finds that nothing of it was.                                     *)
AnswerTellsOutcome ==
  ~overlapped =>
    \A c \in Caller :
      /\ pc[c] = "done" => c \in store.entered
      /\ pc[c] = "failed" /\ faults = 0 => c \notin store.entered

(* "Either all operations succeed or none is executed": when no call is    *)
(* under way, the balances are the opening ones and what was entered.      *)
AllOrNothing ==
  (\A c \in Caller : ~Active(c)) =>
    \A a \in AccountRow :
      store.balance[a] = Opening[a]
        + SumFunctionOnSet([c \in Caller |-> order[c].amount],
                           {c \in store.entered : order[c].to = a})
        - SumFunctionOnSet([c \in Caller |-> order[c].amount],
                           {c \in store.entered \cap Clerk : order[c].from = a})

-----------------------------------------------------------------------------
(***************************************************************************)
(* The inductive invariant behind these properties.                        *)
(***************************************************************************)
QueueInv ==
  /\ IsInjective(queue)
  /\ \A i \in DOMAIN queue : Active(queue[i])

(* Who may await l: the accounts of an update were found before.           *)
Fits(c, l) ==
  /\ l \in Within \cup {"begin"} => c \in Clerk
  /\ l \in {"payRead", "pay"} => c \in Payer
  /\ l \in {"receiver", "debit", "credit", "insert", "commit"} => order[c].from \in AccountRow
  /\ l \in {"debit", "credit", "insert", "commit", "pay"} => order[c].to \in AccountRow

OutcomeInv(c) ==
  /\ pc[c] = "done" => c \in store.entered
  /\ pc[c] \in {"rollback", "failed"} /\ faults = 0 => c \notin store.entered
  /\ pc[c] \notin Ended \cup {"rollback"} => c \notin store.entered

Taken(c) == Changed(store, order[c].from, -order[c].amount, {})
Given(c) == Changed(Taken(c), order[c].to, order[c].amount, {})

(* What c knows and what its open transaction holds at each of its awaits. *)
StageInv(c) ==
  /\ pc[c] \in Within \ {"rollback"} => open
  /\ pc[c] \in {"sender", "receiver", "debit"} => view = store
  /\ pc[c] \in {"receiver", "debit", "credit", "insert", "commit"} =>
       order[c].amount <= store.balance[order[c].from]
  /\ pc[c] = "credit" => view = Taken(c)
  /\ pc[c] = "insert" => view = Given(c)
  /\ pc[c] = "commit" =>
       /\ order[c].amount > 0
       /\ view = [Given(c) EXCEPT !.entered = @ \cup {c}]

AloneInv ==
  /\ \A c, d \in Caller : Active(c) /\ Active(d) => c = d
  /\ \A c \in Caller : OutcomeInv(c) /\ (connected => StageInv(c))

(* The properties above as one inductive invariant: what the queue holds,  *)
(* who awaits what, and, as long as no two calls overlap, how far the one  *)
(* call under way has changed the tables.                                  *)
IInv ==
  /\ TypeOK
  /\ QueueInv
  /\ \A c \in Caller : Fits(c, pc[c])
  /\ NoTransactionAbandoned
  /\ ~connected => ~open
  /\ ~overlapped => AloneInv
=============================================================================
