------------------------------- MODULE Incoming -------------------------------
(***************************************************************************)
(* POST /transactions/b2b: transfers that another bank delivers.           *)
(*                                                                         *)
(* Each delivery runs a handler of its own; a transfer that is delivered   *)
(* twice is two deliveries with the same bill, since nothing in the code   *)
(* compares them.  As in Transfers, pc names the statement a handler       *)
(* awaits and the one connection serves its queue in order.                *)
(***************************************************************************)
EXTENDS Integers, Sequences, FiniteSets, Functions, DecimalText

CONSTANTS
  Delivery,   \* HTTP requests of other banks
  Number,     \* account numbers a bill may name
  AccountRow, \* those with a row in the accounts table
  Amount,     \* amounts of bills, in cents
  Opening,    \* balances at the start, in cents
  Largest,    \* the largest value a DECIMAL(15,2) holds, in cents
  Schemas,    \* sets of columns the existing tables may have
  MaxFaults   \* bound on lost connections and process deaths

ASSUME AccountsAssumption == AccountRow \subseteq Number
ASSUME AmountAssumption   == Amount \subseteq Int
ASSUME OpeningAssumption  == Opening \in [AccountRow -> Int]
ASSUME LimitsAssumption   == Largest \in Nat /\ MaxFaults \in Nat
(* A process answers finitely many requests, so their credits have a sum.  *)
ASSUME FiniteAssumption   == IsFiniteSet(Delivery)

VARIABLES
  balance,    \* accounts.balance, by account number
  status,     \* transactions.status of the row a delivery inserted
  pc,         \* what the handler of a delivery awaits
  bill,       \* the decoded payload: destination and amount
  columns,    \* the columns of the tables
  queue,      \* handlers whose statement waits for the connection, in order
  connected,  \* the process still has its connection
  faults,     \* faults so far
  credits     \* history: times the amount of a delivery was credited

handlers == <<pc, queue, connected, faults>>
vars     == <<balance, status, bill, columns, handlers, credits>>

-----------------------------------------------------------------------------
TryLabel  == {"markPending", "credit", "markCompleted", "receiver"}
Statement == TryLabel \cup {"lookup", "insert", "reread", "catchStatus"}
Terminal  == {"200", "400", "404", "500", "dead"}

(* !payload.amount is true of zero and of nothing else that is a number.   *)
Complete(b) == b.amount # 0

RowExists(n) == n \in AccountRow

TypeOK ==
  /\ balance \in [AccountRow -> Int]
  /\ status \in [Delivery -> {"absent", "pending", "completed", "failed"}]
  /\ pc \in [Delivery -> Statement \cup Terminal \cup {"idle"}]
  /\ bill \in [Delivery -> [to: Number, amount: Amount]]
  /\ columns \in Schemas
  /\ queue \in Seq(Delivery)
  /\ connected \in BOOLEAN
  /\ faults \in 0..MaxFaults
  /\ credits \in [Delivery -> Nat]

Init ==
  /\ balance = Opening
  /\ status = [d \in Delivery |-> "absent"]
  /\ pc = [d \in Delivery |-> "idle"]
  /\ bill \in [Delivery -> [to: Number, amount: Amount]]
  /\ columns \in Schemas
  /\ queue = <<>>
  /\ connected = TRUE
  /\ faults = 0
  /\ credits = [d \in Delivery |-> 0]

-----------------------------------------------------------------------------
Served(d) == queue # <<>> /\ Head(queue) = d

Leaves(d, next) ==
  /\ pc' = [pc EXCEPT ![d] = next]
  /\ queue' = IF next \in Statement THEN Append(Tail(queue), d) ELSE Tail(queue)

(* Only the statements after the row was inserted have the inner catch.    *)
CatchOf(l) == IF l \in TryLabel THEN "catchStatus" ELSE "500"

Executes(d, at) == connected /\ Served(d) /\ pc[d] = at

(* The result reaches the handler, or is lost with the connection.         *)
Replies(d, next) ==
  \/ Leaves(d, next) /\ UNCHANGED <<connected, faults>>
  \/ /\ faults < MaxFaults
     /\ faults' = faults + 1
     /\ connected' = FALSE
     /\ Leaves(d, CatchOf(pc[d]))

Reads(d, at, next) ==
  /\ Executes(d, at)
  /\ Replies(d, next)
  /\ UNCHANGED <<balance, status, bill, columns, credits>>

SetsStatus(d, at, s, next) ==
  /\ Executes(d, at)
  /\ status' = [status EXCEPT ![d] = s]
  /\ Replies(d, next)
  /\ UNCHANGED <<balance, bill, columns, credits>>

-----------------------------------------------------------------------------
Arrive(d) ==
  /\ pc[d] = "idle"
  /\ \/ /\ Complete(bill[d])
        /\ pc' = [pc EXCEPT ![d] = "lookup"]
        /\ queue' = Append(queue, d)
     \/ /\ pc' = [pc EXCEPT ![d] = "400"]  \* or no token, or one that does not decode
        /\ UNCHANGED queue
  /\ UNCHANGED <<balance, status, bill, columns, connected, faults, credits>>

(* Mutant of AfterLookup: any account will do.                             *)
AnyAccount(d) == "insert"

AfterLookup(d) == IF RowExists(bill[d].to) THEN "insert" ELSE "404"

LookupDestination(d) == Reads(d, "lookup", AfterLookup(d))

(* Mutant of Admits: the table has no CHECK on the sign.                   *)
AnySign(amount) == Storable(amount, Largest)

(* What the table lets into its column amount.                             *)
Admits(amount) == amount > 0 /\ Storable(amount, Largest)

InsertRow(d) == Admits(bill[d].amount) /\ SetsStatus(d, "insert", "completed", "reread")

RereadRow(d) == Reads(d, "reread", "markPending")

MarkPending(d) == SetsStatus(d, "markPending", "pending", "credit")

(* Mutant of Credit: the row is closed before the amount is credited.      *)
ClosesFirst(d) ==
  /\ Executes(d, "credit")
  /\ Storable(balance[bill[d].to] + bill[d].amount, Largest)
  /\ balance' = [balance EXCEPT ![bill[d].to] = @ + bill[d].amount]
  /\ credits' = [credits EXCEPT ![d] = @ + 1]
  /\ status' = [status EXCEPT ![d] = "failed"]
  /\ Replies(d, "markCompleted")
  /\ UNCHANGED <<bill, columns>>

(* The UPDATE looks the account up by the column number.                   *)
Credit(d) ==
  /\ Executes(d, "credit")
  /\ "accounts.number" \in columns
  /\ Storable(balance[bill[d].to] + bill[d].amount, Largest)
  /\ balance' = [balance EXCEPT ![bill[d].to] = @ + bill[d].amount]
  /\ credits' = [credits EXCEPT ![d] = @ + 1]
  /\ Replies(d, "markCompleted")
  /\ UNCHANGED <<status, bill, columns>>

(* Mutant of MarkCompleted: left out.                                      *)
SkipsCompletion(d) == Reads(d, "markCompleted", "receiver")
MarkCompleted(d) == SetsStatus(d, "markCompleted", "completed", "receiver")

FindReceiver(d) == "accounts.number" \in columns /\ Reads(d, "receiver", "200")

CatchStatus(d) ==
  /\ "transactions.status_detail" \in columns
  /\ SetsStatus(d, "catchStatus", "failed", "500")

-----------------------------------------------------------------------------
Raises(d) ==
  /\ Served(d)
  /\ Leaves(d, CatchOf(pc[d]))
  /\ UNCHANGED <<balance, status, bill, columns, connected, faults, credits>>

UnknownColumn(d) ==
  /\ connected
  /\ \/ pc[d] \in {"credit", "receiver"} /\ "accounts.number" \notin columns
     \/ pc[d] = "catchStatus" /\ "transactions.status_detail" \notin columns
  /\ Raises(d)

ValueRefused(d) ==
  /\ connected
  /\ \/ pc[d] = "insert" /\ ~Admits(bill[d].amount)
     \/ /\ pc[d] = "credit"
        /\ ~Storable(balance[bill[d].to] + bill[d].amount, Largest)
  /\ Raises(d)

Broken(d) == ~connected /\ Raises(d)

LosesConnection ==
  /\ connected
  /\ faults < MaxFaults
  /\ faults' = faults + 1
  /\ connected' = FALSE
  /\ UNCHANGED <<balance, status, bill, columns, pc, queue, credits>>

Restarts ==
  /\ faults < MaxFaults
  /\ faults' = faults + 1
  /\ pc' = [d \in Delivery |-> IF pc[d] \in Statement THEN "dead" ELSE pc[d]]
  /\ queue' = <<>>
  /\ connected' = TRUE
  /\ UNCHANGED <<balance, status, bill, columns, credits>>

-----------------------------------------------------------------------------
Process(d) ==
  \/ LookupDestination(d) \/ InsertRow(d) \/ RereadRow(d) \/ MarkPending(d) \/ Credit(d)
  \/ MarkCompleted(d) \/ FindReceiver(d) \/ CatchStatus(d)

Handler(d) == Process(d) \/ UnknownColumn(d) \/ ValueRefused(d) \/ Broken(d)

Done == (\A d \in Delivery : pc[d] \in Terminal) /\ UNCHANGED vars

Next ==
  \/ \E d \in Delivery : Arrive(d) \/ Handler(d)
  \/ LosesConnection
  \/ Restarts
  \/ Done

Spec == Init /\ [][Next]_vars

-----------------------------------------------------------------------------
(***************************************************************************)
(* Properties.                                                             *)
(***************************************************************************)

(* What the delivering bank relies on when it keeps or gives back its      *)
(* customer's money: an answer of 200 means credited once and recorded,    *)
(* and without faults any other answer means not credited.                 *)
AnswerTellsCredit ==
  \A d \in Delivery :
    /\ pc[d] = "200" => credits[d] = 1 /\ status[d] = "completed"
    /\ pc[d] \in Terminal \ {"200"} /\ faults = 0 => credits[d] = 0

(* A row that says failed was never credited, whatever faults occur: once  *)
(* the amount is in, the only thing left to fail is the connection, and    *)
(* then the failure cannot be recorded either.                             *)
FailedMeansUncredited ==
  \A d \in Delivery : status[d] = "failed" => credits[d] = 0

(* The balances are the opening ones and the credited deliveries, and no   *)
(* delivery takes money: the amount of a bill is checked by nothing but    *)
(* the CHECK of the transactions table, before the credit.                 *)
CreditsExplainBalances ==
  \A a \in AccountRow :
    /\ balance[a] >= Opening[a]
    /\ balance[a] = Opening[a]
         + SumFunctionOnSet([d \in Delivery |-> credits[d] * bill[d].amount],
                            {d \in Delivery : bill[d].to = a})

(* "Credit the destination account": without faults, a delivery of an      *)
(* amount that fits to an account that exists is never answered 500.       *)
DeliveryCredited ==
  faults = 0 =>
    \A d \in Delivery :
      /\ RowExists(bill[d].to)
      /\ Admits(bill[d].amount)
      => pc[d] # "500"

-----------------------------------------------------------------------------
(***************************************************************************)
(* The inductive invariant behind these properties.                        *)
(***************************************************************************)
QueueInv ==
  /\ IsInjective(queue)
  /\ \A i \in DOMAIN queue : pc[queue[i]] \in Statement

(* What a handler found out before it awaits l.                            *)
Fits(d, l) ==
  /\ l \in TryLabel \cup {"insert", "reread"} => RowExists(bill[d].to)
  /\ l \in TryLabel \cup {"reread"} => Admits(bill[d].amount)
  /\ l \in {"markCompleted", "receiver"} => "accounts.number" \in columns

CreditInv(d) ==
  /\ pc[d] \in {"markCompleted", "receiver", "200"} => credits[d] = 1
  /\ pc[d] \in {"receiver", "200"} => status[d] = "completed"
  /\ pc[d] \in {"idle", "lookup", "insert", "reread", "markPending", "credit", "400", "404"}
       => credits[d] = 0
  /\ pc[d] = "catchStatus" /\ connected => credits[d] = 0
  /\ pc[d] \in {"catchStatus", "500", "dead"} /\ faults = 0 => credits[d] = 0
  /\ pc[d] \in Statement \cup {"idle"} => status[d] # "failed"
  /\ status[d] = "failed" => credits[d] = 0

(* The properties above as one inductive invariant: how often a delivery   *)
(* was credited at each await of its handler, and that the catch block     *)
(* with a live connection is reached only before the credit.               *)
IInv ==
  /\ TypeOK
  /\ QueueInv
  /\ \A d \in Delivery : Fits(d, pc[d]) /\ CreditInv(d)
  /\ ~connected => faults # 0
  /\ \A a \in AccountRow : balance[a] >= Opening[a]
=============================================================================
