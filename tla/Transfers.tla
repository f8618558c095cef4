------------------------------ MODULE Transfers ------------------------------
(***************************************************************************)
(* POST /transactions: the route handler with TransactionService and       *)
(* ExternalTransactionService, over the accounts and transactions tables.  *)
(*                                                                         *)
(* Each request runs one asynchronous handler.  Handlers interleave where  *)
(* they await: a statement on the one database connection the process      *)
(* holds, or the HTTP answer of the destination bank.  pc[r] names the     *)
(* await handler r is suspended at, and an action is what happens from one *)
(* await to the next: the statement takes effect and the handler runs on.  *)
(* The connection executes statements one at a time in the order they were *)
(* issued, which is the queue below.                                       *)
(***************************************************************************)
EXTENDS Integers, Sequences, DecimalText

CONSTANTS
  Request,             \* the requests that may be made
  Number,              \* account numbers a request body may name
  AccountRow,          \* those that have a row in the accounts table
  Prefixed,            \* those that start with the bank prefix
  Registered,          \* those whose first three characters name a known bank
  Amount,              \* amounts of request bodies, in cents
  Opening,             \* balances at the start, in cents
  Largest,             \* the largest value a DECIMAL(15,2) holds, in cents
  Schemas,             \* sets of columns the transactions table may have
  MaxFaults            \* bound on lost connections, answers and processes

ASSUME AccountsAssumption == AccountRow \subseteq Number
ASSUME AmountAssumption   == Amount \subseteq Int
ASSUME OpeningAssumption  == Opening \in [AccountRow -> Int]
ASSUME LimitsAssumption   == Largest \in Nat /\ MaxFaults \in Nat

VARIABLES
  balance,    \* accounts.balance, by account number
  status,     \* transactions.status of the row a request inserted
  pc,         \* what the handler of a request awaits
  form,       \* the validated request body
  columns,    \* the columns of the transactions table
  seen,       \* the source balance the handler's funds check compares
  peer,       \* what the destination bank made of the posted transfer
  queue,      \* handlers whose statement waits for the connection, in order
  connected,  \* the process still has its connection
  faults,     \* faults so far
  debits, credits, refunds  \* history: times each leg of a request was applied

ledger   == <<balance, debits, credits, refunds>>
handlers == <<pc, queue, connected, faults>>
vars == <<ledger, handlers, status, form, columns, seen, peer>>

-----------------------------------------------------------------------------
(* The awaits of a handler, by the function that awaits.                   *)
RouteLabel    == {"lookup", "insert", "reread", "respond"}
InternalLabel == {"fetch", "markPending", "readFrom", "readTo", "reject",
                  "debit", "credit", "markCompleted", "markFailed"}
ExternalLabel == {"funds", "extDebit", "markAccepted", "refundRead", "refund",
                  "markRefused"}
CatchLabel    == {"catchRead", "catchRefund", "catchStatus"}
HttpLabel     == {"send", "await", "stranded"}
Terminal      == {"201", "400", "403", "404", "500", "dead"}

DatabaseLabel == RouteLabel \cup InternalLabel \cup ExternalLabel \cup CatchLabel
Label         == DatabaseLabel \cup HttpLabel \cup Terminal \cup {"idle"}

(* UPDATEs that set the column status_detail beside the status.            *)
DetailLabel == {"reject", "markFailed", "markAccepted", "markRefused", "catchStatus"}

RowExists(n) == n \in AccountRow

(* isInternalAccount: the number starts with the prefix of this bank.      *)
Internal(n) == n \in Prefixed

(* joi: amount is a positive number.                                       *)
Valid(body) == body.amount > 0

(* Mutant of HasFunds: no check.                                           *)
AlwaysFunded(have, amount) == TRUE

(* `balance < amount` on the two texts the driver returned.                *)
HasFunds(have, amount) == ~TextLess(have, amount)

TypeOK ==
  /\ balance \in [AccountRow -> Int]
  /\ status \in [Request -> {"absent", "pending", "completed", "failed"}]
  /\ pc \in [Request -> Label]
  /\ form \in [Request -> [from: Number, to: Number, amount: Amount]]
  /\ columns \in Schemas
  /\ seen \in [Request -> Int]
  /\ peer \in [Request -> {"none", "sent", "accepted", "refused"}]
  /\ queue \in Seq(Request)
  /\ connected \in BOOLEAN
  /\ faults \in 0..MaxFaults
  /\ debits \in [Request -> Nat]
  /\ credits \in [Request -> Nat]
  /\ refunds \in [Request -> Nat]

Init ==
  /\ balance = Opening
  /\ status = [r \in Request |-> "absent"]
  /\ pc = [r \in Request |-> "idle"]
  /\ form \in [Request -> [from: Number, to: Number, amount: Amount]]
  /\ columns \in Schemas
  /\ seen = [r \in Request |-> 0]
  /\ peer = [r \in Request |-> "none"]
  /\ queue = <<>>
  /\ connected = TRUE
  /\ faults = 0
  /\ debits = [r \in Request |-> 0]
  /\ credits = [r \in Request |-> 0]
  /\ refunds = [r \in Request |-> 0]

-----------------------------------------------------------------------------
(***************************************************************************)
(* How a handler moves on.                                                 *)
(***************************************************************************)

(* The first statement of the queue is r's.                                *)
Served(r) == queue # <<>> /\ Head(queue) = r

(* Mutant of Leaves: the statement stays queued and is executed again.     *)
StaysQueued(r, next) ==
  /\ pc' = [pc EXCEPT ![r] = next]
  /\ queue' = IF next \in DatabaseLabel THEN Append(queue, r) ELSE Tail(queue)

(* r runs on to the next await; another statement joins the end.           *)
Leaves(r, next) ==
  /\ pc' = [pc EXCEPT ![r] = next]
  /\ queue' = IF next \in DatabaseLabel THEN Append(Tail(queue), r) ELSE Tail(queue)

(* Mutants of CatchOf: nothing is caught; the refund in the catch block is *)
(* retried when what follows it fails.                                     *)
Uncaught(l) == "unhandled"
RetriesRefund(l) == IF l \in ExternalLabel \cup CatchLabel THEN "catchRead" ELSE "500"

(* Where a rejected statement takes a handler: the catch block around it,  *)
(* and out of the handler when there is none left.                         *)
CatchOf(l) ==
  CASE l \in InternalLabel \ {"markFailed"} -> "markFailed"
    [] l = "markFailed"                     -> "respond"
    [] l \in ExternalLabel                  -> "catchRead"
    [] l \in {"catchRead", "catchRefund"}   -> "catchStatus"
    [] OTHER                                -> "500"

Raises(r) == Leaves(r, CatchOf(pc[r])) /\ UNCHANGED <<connected, faults>>

(* r's statement `at` reaches the server.                                  *)
Executes(r, at) == connected /\ Served(r) /\ pc[r] = at

(* Its result reaches the handler, or is lost with the connection.         *)
Replies(r, next) ==
  \/ Leaves(r, next) /\ UNCHANGED <<connected, faults>>
  \/ /\ faults < MaxFaults
     /\ faults' = faults + 1
     /\ connected' = FALSE
     /\ Leaves(r, CatchOf(pc[r]))

(* A handler that awaited no statement issues one.                         *)
Issues(r, next) ==
  /\ pc' = [pc EXCEPT ![r] = next]
  /\ queue' = Append(queue, r)
  /\ UNCHANGED <<connected, faults>>

Reads(r, at, next) ==
  /\ Executes(r, at)
  /\ Replies(r, next)
  /\ UNCHANGED <<ledger, status, form, columns, seen, peer>>

(* A read of the source account, whose balance a funds check compares.     *)
ReadsSource(r, at, next) ==
  /\ Executes(r, at)
  /\ seen' = [seen EXCEPT ![r] = balance[form[r].from]]
  /\ Replies(r, next)
  /\ UNCHANGED <<ledger, status, form, columns, peer>>

SetsStatus(r, at, s, next) ==
  /\ Executes(r, at)
  /\ at \in DetailLabel => "status_detail" \in columns
  /\ status' = [status EXCEPT ![r] = s]
  /\ Replies(r, next)
  /\ UNCHANGED <<ledger, form, columns, seen, peer>>

(* UPDATE accounts SET balance = balance + delta.                          *)
Moves(r, at, account, delta, next) ==
  /\ Executes(r, at)
  /\ Storable(balance[account] + delta, Largest)
  /\ balance' = [balance EXCEPT ![account] = @ + delta]
  /\ Replies(r, next)
  /\ UNCHANGED <<status, form, columns, seen, peer>>

-----------------------------------------------------------------------------
(***************************************************************************)
(* The route: validation, the source account, the row, the answer.         *)
(***************************************************************************)
Arrive(r) ==
  /\ pc[r] = "idle"
  /\ \/ Valid(form[r]) /\ Issues(r, "lookup")
     \/ /\ ~Valid(form[r])
        /\ pc' = [pc EXCEPT ![r] = "400"]
        /\ UNCHANGED <<queue, connected, faults>>
  /\ UNCHANGED <<ledger, status, form, columns, seen, peer>>

AfterLookup(r) ==
  CASE ~RowExists(form[r].from) -> "404"
    [] ~Internal(form[r].from)  -> "403"
    [] OTHER                    -> "insert"

LookupSource(r) == Reads(r, "lookup", AfterLookup(r))

(* createTransaction stores the row as completed already.                  *)
InsertRow(r) ==
  /\ Storable(form[r].amount, Largest)
  /\ SetsStatus(r, "insert", "completed", "reread")

(* Mutant of AfterReread: posts without debiting.                          *)
SendsUnpaid(r) == IF Internal(form[r].to) THEN "fetch" ELSE "send"
AfterReread(r) == IF Internal(form[r].to) THEN "fetch" ELSE "funds"

RereadRow(r) == Reads(r, "reread", AfterReread(r))

Respond(r) == Reads(r, "respond", "201")

(***************************************************************************)
(* processInternalTransaction.                                             *)
(***************************************************************************)
FetchRow(r) == Reads(r, "fetch", "markPending")

(* Mutant of MarkPending: the row keeps the status it was inserted with.   *)
StaysCompleted(r) == Reads(r, "markPending", "readFrom")
MarkPending(r) == SetsStatus(r, "markPending", "pending", "readFrom")

ReadFrom(r) == ReadsSource(r, "readFrom", "readTo")

(* Mutant of AfterReadTo: the debit is left out.                           *)
CreditsFirst(r) ==
  IF RowExists(form[r].to) /\ HasFunds(seen[r], form[r].amount) THEN "credit" ELSE "reject"

(* Both rows are there and the source balance read before is enough.       *)
AfterReadTo(r) ==
  IF RowExists(form[r].to) /\ HasFunds(seen[r], form[r].amount) THEN "debit" ELSE "reject"

ReadTo(r) == Reads(r, "readTo", AfterReadTo(r))

(* Mutant of Reject: returns without recording why.                        *)
RejectsSilently(r) == Reads(r, "reject", "respond")
Reject(r) == SetsStatus(r, "reject", "failed", "respond")

(* Mutant of Debit: stores the balance read before, less the amount.       *)
StoresStaleBalance(r) ==
  /\ Moves(r, "debit", form[r].from, seen[r] - balance[form[r].from] - form[r].amount, "credit")
  /\ debits' = [debits EXCEPT ![r] = @ + 1]
  /\ UNCHANGED <<credits, refunds>>

Debit(r) ==
  /\ Moves(r, "debit", form[r].from, -form[r].amount, "credit")
  /\ debits' = [debits EXCEPT ![r] = @ + 1]
  /\ UNCHANGED <<credits, refunds>>

Credit(r) ==
  /\ Moves(r, "credit", form[r].to, form[r].amount, "markCompleted")
  /\ credits' = [credits EXCEPT ![r] = @ + 1]
  /\ UNCHANGED <<debits, refunds>>

MarkCompleted(r) == SetsStatus(r, "markCompleted", "completed", "respond")

MarkFailed(r) == SetsStatus(r, "markFailed", "failed", "respond")

(***************************************************************************)
(* The external branch: debitAccount, processOutgoingTransaction, then     *)
(* either outcome, and the catch block around all of it.                   *)
(***************************************************************************)
AfterFunds(r) ==
  IF HasFunds(balance[form[r].from], form[r].amount) THEN "extDebit" ELSE "catchRead"

CheckFunds(r) == ReadsSource(r, "funds", AfterFunds(r))

ExternalDebit(r) ==
  /\ Moves(r, "extDebit", form[r].from, -form[r].amount, "send")
  /\ debits' = [debits EXCEPT ![r] = @ + 1]
  /\ UNCHANGED <<credits, refunds>>

(* Mutant of SendFails: answers without giving the money back.             *)
FailsUnrefunded(r) ==
  /\ pc[r] = "send"
  /\ Issues(r, "respond")
  /\ UNCHANGED <<ledger, status, form, columns, seen, peer>>

(* No key to sign with, no known bank, no connection to it: the promise    *)
(* resolves to false before the destination bank has the transfer.         *)
SendFails(r) ==
  /\ pc[r] = "send"
  /\ Issues(r, "refundRead")
  /\ UNCHANGED <<ledger, status, form, columns, seen, peer>>

Posts(r) ==
  /\ pc[r] = "send"
  /\ form[r].to \in Registered
  /\ peer' = [peer EXCEPT ![r] = "sent"]
  /\ pc' = [pc EXCEPT ![r] = "await"]
  /\ UNCHANGED <<ledger, queue, connected, faults, status, form, columns, seen>>

(* The destination bank decides, whether or not anybody still waits.       *)
PeerAnswers(r) ==
  /\ peer[r] = "sent"
  /\ \E answer \in {"accepted", "refused"} : peer' = [peer EXCEPT ![r] = answer]
  /\ UNCHANGED <<ledger, handlers, status, form, columns, seen>>

(* Mutant of AfterAnswer: any answer counts as success.                    *)
IgnoresStatusCode(r) == "markAccepted"

(* A 2xx answer is success, any other status is not.                       *)
AfterAnswer(r) == IF peer[r] = "accepted" THEN "markAccepted" ELSE "refundRead"

AnswerArrives(r) ==
  /\ pc[r] = "await"
  /\ peer[r] \in {"accepted", "refused"}
  /\ Issues(r, AfterAnswer(r))
  /\ UNCHANGED <<ledger, status, form, columns, seen, peer>>

(* Mutant of GivesUp: no timeout.                                          *)
WaitsOn(r) == FALSE

(* Thirty seconds without traffic, or an error on the socket: the answer,  *)
(* given or still to come, is not seen.                                    *)
GivesUp(r) ==
  /\ pc[r] = "await"
  /\ Issues(r, "refundRead")
  /\ UNCHANGED <<ledger, status, form, columns, seen, peer>>

(* The answer breaks off after its headers, or trickles on for ever: the   *)
(* promise has no listener for that and the handler awaits it for good.    *)
BreaksOff(r) ==
  /\ pc[r] = "await"
  /\ peer[r] \in {"accepted", "refused"}
  /\ faults < MaxFaults
  /\ faults' = faults + 1
  /\ pc' = [pc EXCEPT ![r] = "stranded"]
  /\ UNCHANGED <<ledger, queue, connected, status, form, columns, seen, peer>>

MarkAccepted(r) == SetsStatus(r, "markAccepted", "completed", "respond")

(* creditAccount reads the row before it updates it.                       *)
ReadForRefund(r) == Reads(r, "refundRead", "refund")
ReadInCatch(r)   == Reads(r, "catchRead", "catchRefund")

Refunds(r, at, next) ==
  /\ Moves(r, at, form[r].from, form[r].amount, next)
  /\ refunds' = [refunds EXCEPT ![r] = @ + 1]
  /\ UNCHANGED <<debits, credits>>

Refund(r)      == Refunds(r, "refund", "markRefused")
CatchRefund(r) == Refunds(r, "catchRefund", "catchStatus")

MarkRefused(r) == SetsStatus(r, "markRefused", "failed", "respond")
CatchStatus(r) == SetsStatus(r, "catchStatus", "failed", "respond")

-----------------------------------------------------------------------------
(***************************************************************************)
(* Statements the server rejects, and faults.                              *)
(***************************************************************************)

(* The table has no column status_detail: createTables spells it           *)
(* status_details.                                                         *)
UnknownColumn(r) ==
  /\ connected /\ Served(r)
  /\ pc[r] \in DetailLabel
  /\ "status_detail" \notin columns
  /\ Raises(r)
  /\ UNCHANGED <<ledger, status, form, columns, seen, peer>>

(* What the statement r awaits would store in a DECIMAL(15,2) column.      *)
Stored(r) ==
  CASE pc[r] = "insert"                    -> form[r].amount
    [] pc[r] \in {"debit", "extDebit"}     -> balance[form[r].from] - form[r].amount
    [] pc[r] = "credit"                    -> balance[form[r].to] + form[r].amount
    [] pc[r] \in {"refund", "catchRefund"} -> balance[form[r].from] + form[r].amount
    [] OTHER                               -> 0

OutOfRange(r) ==
  /\ connected /\ Served(r)
  /\ ~Storable(Stored(r), Largest)
  /\ Raises(r)
  /\ UNCHANGED <<ledger, status, form, columns, seen, peer>>

(* A statement on a lost connection is rejected; the process opens no      *)
(* other connection while it lives.                                        *)
Broken(r) ==
  /\ ~connected /\ Served(r)
  /\ Raises(r)
  /\ UNCHANGED <<ledger, status, form, columns, seen, peer>>

(* The server or the network closes the connection.  The library rejects   *)
(* what was queued; where nobody listens for the loss of an idle one, the  *)
(* process ends instead, which is Restarts.                                *)
LosesConnection ==
  /\ connected
  /\ faults < MaxFaults
  /\ faults' = faults + 1
  /\ connected' = FALSE
  /\ UNCHANGED <<ledger, pc, queue, status, form, columns, seen, peer>>

(* SIGTERM exits at once, as a crash does: handlers are gone, rows stay,   *)
(* and the process that starts next looks at none of them.                 *)
Restarts ==
  /\ faults < MaxFaults
  /\ faults' = faults + 1
  /\ pc' = [r \in Request |-> IF pc[r] \in Terminal \cup {"idle"} THEN pc[r] ELSE "dead"]
  /\ queue' = <<>>
  /\ connected' = TRUE
  /\ UNCHANGED <<ledger, status, form, columns, seen, peer>>

-----------------------------------------------------------------------------
Route(r) == LookupSource(r) \/ InsertRow(r) \/ RereadRow(r) \/ Respond(r)

ProcessInternal(r) ==
  \/ FetchRow(r) \/ MarkPending(r) \/ ReadFrom(r) \/ ReadTo(r) \/ Reject(r)
  \/ Debit(r) \/ Credit(r) \/ MarkCompleted(r) \/ MarkFailed(r)

ProcessExternal(r) ==
  \/ CheckFunds(r) \/ ExternalDebit(r) \/ SendFails(r) \/ Posts(r)
  \/ AnswerArrives(r) \/ GivesUp(r) \/ BreaksOff(r) \/ MarkAccepted(r)
  \/ ReadForRefund(r) \/ Refund(r) \/ MarkRefused(r)
  \/ ReadInCatch(r) \/ CatchRefund(r) \/ CatchStatus(r)

Rejected(r) == UnknownColumn(r) \/ OutOfRange(r) \/ Broken(r)

Handler(r) == Route(r) \/ ProcessInternal(r) \/ ProcessExternal(r) \/ Rejected(r)

(* No request is left whose handler will ever do anything more.            *)
Done ==
  /\ \A r \in Request : pc[r] \in Terminal \cup {"stranded"}
  /\ UNCHANGED vars

Next ==
  \/ \E r \in Request : Arrive(r) \/ Handler(r) \/ PeerAnswers(r)
  \/ LosesConnection
  \/ Restarts
  \/ Done

Spec == Init /\ [][Next]_vars

(* The server works through its queue and a request to another bank times  *)
(* out, so a handler that can move on does.                                *)
FairSpec == Spec /\ \A r \in Request : WF_vars(Handler(r))
=============================================================================
