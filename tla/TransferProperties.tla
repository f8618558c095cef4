-------------------------- MODULE TransferProperties --------------------------
(***************************************************************************)
(* What POST /transactions promises, and what it promises only on paper.   *)
(* A run checks the properties that hold for its constants; the README     *)
(* says which comment or document each of the others quotes.               *)
(***************************************************************************)
EXTENDS Transfers, DecimalOrder, FiniteSets, Functions

CONSTANT Sample     \* values whose texts are compared beside those at hand

ASSUME SampleAssumption == Sample \subseteq Int

(* A process serves finitely many requests over a table of finitely many   *)
(* rows, so the sums below are sums.                                       *)
ASSUME FiniteAssumption == IsFiniteSet(Request) /\ IsFiniteSet(AccountRow)

Unstarted == {"idle"}
AtRest == \A r \in Request : pc[r] \in Terminal \cup Unstarted

InternalOnly == \A r \in Request : form[r].to \in Prefixed

(* The sum of the amounts of a set of requests.                            *)
Total(requests) ==
  SumFunctionOnSet([r \in Request |-> form[r].amount], requests)

-----------------------------------------------------------------------------
(***************************************************************************)
(* Transfers inside the bank.                                              *)
(***************************************************************************)

(* The bank never holds more money than it started with, whatever faults   *)
(* and interleavings occur: a credit follows its own debit.                *)
MoneyNeverCreated == InternalOnly => SumFunction(balance) <= SumFunction(Opening)

(* Money that has left one account and not reached the other belongs to    *)
(* rows that are still open, so an auditor who adds up the rows that are   *)
(* not completed finds at least the missing amount.                        *)
MissingMoneyIsOpen ==
  InternalOnly =>
    SumFunction(Opening) - SumFunction(balance)
      <= Total({r \in Request : status[r] \in {"pending", "failed"}})

(* Without faults, once every handler has answered and unless a credit was *)
(* refused for want of digits, the balances are the opening balances and   *)
(* the completed rows, as for an account statement.  It needs every UPDATE *)
(* to add to the balance of its own moment.                                *)
Reconciles ==
  InternalOnly /\ AtRest /\ faults = 0 /\ credits = debits =>
    \A a \in AccountRow :
      balance[a] = Opening[a]
        + Total({r \in Request : status[r] = "completed" /\ form[r].to = a})
        - Total({r \in Request : status[r] = "completed" /\ form[r].from = a})

(* A pending row becomes completed only after its transfer was debited     *)
(* once and credited once, and nothing of it was given back.               *)
SettledMeansMoved ==
  [][\A r \in Request :
       status[r] = "pending" /\ status'[r] = "completed" =>
         debits[r] = 1 /\ credits[r] = 1 /\ refunds[r] = 0]_vars

(* With internal accounts only, the handlers carry out the abstract ledger *)
(* of EscrowLedger: every interleaving of their statements, lost           *)
(* connections and process deaths included, moves money only by taking an  *)
(* order's amount from its source and later bringing it to its destination.*)
Stage ==
  [r \in Request |-> IF credits[r] > 0 THEN "arrived"
                     ELSE IF debits[r] > 0 THEN "underway" ELSE "new"]

Escrow == INSTANCE EscrowLedger WITH
  Transfer <- Request,
  Order    <- [from: Number, to: Number, amount: Amount],
  Account  <- AccountRow,
  Start    <- Opening,
  order    <- form,
  stage    <- Stage

ImplementsEscrow == Escrow!Spec

(* "Check if sender has sufficient funds": no account goes below zero.     *)
NoOverdraft == \A a \in AccountRow : balance[a] >= 0

(* The funds check alone stops a request from overdrawing an account: one  *)
(* that is below zero was debited by a request whose check saw too little  *)
(* and let it through because it compares texts, or by two requests whose  *)
(* checks both passed before either debit.                                 *)
PaidFrom(a) == {r \in Request : form[r].from = a /\ debits[r] = 1}
Misled(r)   == seen[r] < form[r].amount /\ ~TextLess(seen[r], form[r].amount)

OverdraftTakesTwo ==
  \A a \in AccountRow :
    balance[a] < 0 =>
      LET checked == {r \in PaidFrom(a) : ~TextLess(seen[r], form[r].amount)}
      IN  \E r \in checked : Misled(r) \/ \E s \in checked : s # r

(* What a funds check decides on, in processInternalTransaction and in     *)
(* debitAccount: HasFunds states in arithmetic that JavaScript does not    *)
(* find the text of the balance less than the text of the amount, read     *)
(* from the left, character by character.  It is asked of every balance    *)
(* the accounts come to hold, and before the first request of a sample of  *)
(* values, which no step changes.                                          *)
ComparesTexts(balances, amounts) ==
  \A have \in balances, amount \in amounts :
    HasFunds(have, amount) <=> ~CharLess(Text(have), Text(amount))

FundsChecksCompareTexts ==
  /\ ComparesTexts(Range(balance), Amount)
  /\ (\A r \in Request : pc[r] = "idle") => ComparesTexts(Sample, Sample)

(* What an answered transfer inside the bank left in its row, whatever     *)
(* faults there were: completed if and only if the money arrived.  If not, *)
(* it is failed, which is what "Update transaction status to failed" says; *)
(* over the table that createTables makes, which lacks the column of that  *)
(* UPDATE, it is left pending and never taken for completed.               *)
RowTellsArrival(r) ==
  /\ status[r] = "completed" <=> credits[r] = 1
  /\ credits[r] = 0 =>
       status[r] = IF "status_detail" \in columns THEN "failed" ELSE "pending"

AnswerTellsRow ==
  \A r \in Request : pc[r] = "201" /\ form[r].to \in Prefixed => RowTellsArrival(r)

-----------------------------------------------------------------------------
(***************************************************************************)
(* Transfers to other banks.                                               *)
(***************************************************************************)

(* A transfer is posted to the other bank at most once, and only when the  *)
(* sender has paid for it and has not had the money back.                  *)
PostsOncePaid ==
  [][\A r \in Request :
       peer'[r] = "sent" /\ peer[r] # "sent" =>
         peer[r] = "none" /\ debits[r] = 1 /\ refunds[r] = 0]_vars

(* Without faults, an answered sender is not out of pocket for a transfer  *)
(* that no bank accepted.  This needs columns with room for the refund: a  *)
(* balance that grew to the limit meanwhile refuses it twice, once in the  *)
(* branch and once in the catch block, and the sender has lost the money.  *)
SenderNeverLoses ==
  faults = 0 =>
    \A r \in Request :
      /\ pc[r] \in Terminal
      /\ form[r].to \notin Prefixed
      /\ peer[r] # "accepted"
      => refunds[r] >= debits[r]

(* A refund never reaches a sender in the middle of an attempt: while the  *)
(* handler still waits for the other bank nothing was given back, and the  *)
(* sender is given back an amount at most twice.                           *)
RefundsFollowAttempt ==
  \A r \in Request :
    /\ pc[r] \in HttpLabel => refunds[r] = 0
    /\ refunds[r] <= 2

(* An account whose number lacks the bank prefix, as the administrator's   *)
(* does, is neither a source nor a destination that is credited.           *)
UnprefixedFrozen == \A a \in AccountRow \ Prefixed : balance[a] = Opening[a]

(* "Automatic refund on failed external transactions": a transfer that the *)
(* other bank accepted is not refunded.  The refund after a missing answer *)
(* is left out, because nobody can tell then whether the bank accepted.    *)
RefundMeansNotAccepted ==
  [][\A r \in Request :
       refunds'[r] > refunds[r] /\ pc[r] # "refund" => peer[r] # "accepted"]_vars

(* "Try to refund the amount if it was already debited", "Update           *)
(* transaction status to failed": asked as little as can be asked.  Where  *)
(* no bank accepted anything and one transfer was debited and another was  *)
(* not, one of them at least was given back what it took, or has a row     *)
(* that says it failed.  The catch block does neither: it does not know    *)
(* whether the debit, the funds check before it or the UPDATE after the    *)
(* refund has failed.                                                      *)
SomeFailureMended ==
  /\ \A r \in Request :
       pc[r] \in Terminal /\ form[r].to \notin Prefixed /\ peer[r] = "none"
  /\ \E r, s \in Request : debits[r] = 1 /\ debits[s] = 0
  => \E r \in Request : refunds[r] = debits[r] \/ status[r] = "failed"

(* How a transfer abroad that was paid for ends without faults, over every *)
(* schema.  With the column the handlers write: accepted, with a completed *)
(* row and nothing given back, or given back exactly once, with a failed   *)
(* row.  Without it the closing UPDATE fails and the catch block refunds:  *)
(* the sender is answered 500 and has the money back once if the bank had  *)
(* accepted, else twice, over a row that keeps the status completed.  There *)
(* is no third way, and the two are never mixed.                           *)
Delivered(r) == status[r] = "completed" /\ peer[r] = "accepted" /\ refunds[r] = 0
GivenBack(r) == status[r] = "failed" /\ refunds[r] = 1

Unrecorded(r) ==
  /\ pc[r] = "500" /\ status[r] = "completed"
  /\ refunds[r] = 2 \/ (refunds[r] = 1 /\ peer[r] = "accepted")

EndsAs(r) ==
  IF "status_detail" \in columns THEN Delivered(r) \/ GivenBack(r) ELSE Unrecorded(r)

PaidEnds ==
  faults = 0 =>
    \A r \in Request :
      /\ pc[r] \in Terminal
      /\ form[r].to \notin Prefixed
      /\ debits[r] = 1
      => EndsAs(r)

-----------------------------------------------------------------------------
(***************************************************************************)
(* The inductive invariant behind the safety properties that hold for      *)
(* every value of the constants: how far the legs of a request can be at   *)
(* each await, and which requests reach which branch of the handler.       *)
(***************************************************************************)
Unpaid == {"idle", "lookup", "insert", "reread", "fetch", "markPending", "readFrom",
           "readTo", "reject", "debit", "funds", "extDebit", "400", "403", "404"}

LegsInv(r) ==
  /\ debits[r] \in 0..1 /\ credits[r] \in 0..1 /\ refunds[r] \in 0..2
  /\ credits[r] <= debits[r]
  /\ pc[r] \in Unpaid => debits[r] = 0 /\ refunds[r] = 0 /\ peer[r] = "none"
  /\ pc[r] = "credit" => debits[r] = 1 /\ credits[r] = 0
  /\ pc[r] = "markCompleted" => debits[r] = 1 /\ credits[r] = 1
  /\ pc[r] = "send" => peer[r] = "none"
  /\ pc[r] \in HttpLabel => debits[r] = 1 /\ refunds[r] = 0
  /\ pc[r] \in {"markAccepted", "refundRead", "refund"} => refunds[r] = 0
  /\ pc[r] \in {"markRefused", "catchRead", "catchRefund"} => refunds[r] <= 1
  /\ peer[r] # "none" => debits[r] = 1

RouteInv(r) ==
  /\ pc[r] \in InternalLabel => form[r].to \in Prefixed
  /\ pc[r] \in ExternalLabel \cup CatchLabel \cup HttpLabel => form[r].to \notin Prefixed
  /\ pc[r] \in (DatabaseLabel \ {"lookup"}) \cup HttpLabel =>
       form[r].from \in AccountRow \cap Prefixed
  /\ pc[r] \in {"debit", "credit"} => form[r].to \in AccountRow
  /\ pc[r] \in {"idle", "lookup", "insert"} => status[r] = "absent"
  /\ status[r] = "pending" => form[r].to \in Prefixed
  /\ refunds[r] > 0 => form[r].to \notin Prefixed

(* Every handler that awaits the database has exactly one statement queued, *)
(* and no other handler has any: none is served twice, none is forgotten.  *)
OneStatementEach ==
  /\ \A i \in 1..Len(queue) : pc[queue[i]] \in DatabaseLabel
  /\ \A i, j \in 1..Len(queue) : queue[i] = queue[j] => i = j
  /\ \A r \in Request :
       pc[r] \in DatabaseLabel => \E i \in 1..Len(queue) : queue[i] = r

(* How the row of a request stands at each await.  createTransaction       *)
(* inserts it as completed, and from markPending to markCompleted it is    *)
(* pending; money that left an account inside the bank and did not arrive  *)
(* belongs to a row that is not completed.                                 *)
RowInv(r) ==
  /\ pc[r] \notin {"idle", "400"} => Valid(form[r])
  /\ pc[r] \in {"idle", "lookup", "insert", "400", "403", "404"} => status[r] = "absent"
  /\ status[r] = "absent" => debits[r] = 0
  /\ pc[r] \in {"reread", "fetch", "markPending", "funds", "extDebit"} =>
       status[r] = "completed"
  /\ pc[r] \in {"readFrom", "readTo", "reject", "debit", "credit", "markCompleted"} =>
       status[r] = "pending"
  /\ form[r].to \in Prefixed /\ debits[r] = 1 /\ credits[r] = 0 =>
       status[r] \in {"pending", "failed"}

(* What the catch blocks and the answer of the other bank leave behind.  A *)
(* handler inside the bank that answers over a live connection has closed  *)
(* its row, as far as the table lets it: only a lost connection keeps the  *)
(* closing statement from it, and no handler outlives the loss.            *)
AnswerInv(r) ==
  /\ /\ form[r].to \in Prefixed
     /\ pc[r] = "201" \/ (pc[r] = "respond" /\ connected)
     => RowTellsArrival(r)
  /\ pc[r] = "reject" \/ (pc[r] = "markFailed" /\ connected) =>
       status[r] = "pending" /\ credits[r] = 0
  /\ pc[r] = "markAccepted" => peer[r] = "accepted"
  /\ pc[r] = "markRefused" => refunds[r] = 1

(* Without faults no handler is killed, and one inside the bank that is    *)
(* answered 500 has failed at the INSERT and left no row.                  *)
CalmInv(r) ==
  /\ connected
  /\ pc[r] # "dead"
  /\ form[r].to \in Prefixed /\ pc[r] = "500" => status[r] = "absent"

(* What request r has done to the balance of a so far.                     *)
Change(r, a) ==
  (IF form[r].to = a THEN form[r].amount * credits[r] ELSE 0)
    + (IF form[r].from = a THEN form[r].amount * (refunds[r] - debits[r]) ELSE 0)

(* What request r has done to all balances together.                       *)
Gain(r) == form[r].amount * (credits[r] + refunds[r] - debits[r])

(* Every balance is its opening balance and the legs applied to it: no     *)
(* UPDATE is lost to another handler's.                                    *)
LedgerInv ==
  /\ \A a \in AccountRow :
       balance[a] = Opening[a] + SumFunctionOnSet([r \in Request |-> Change(r, a)], Request)
  /\ SumFunctionOnSet(balance, AccountRow) =
       SumFunctionOnSet(Opening, AccountRow)
         + SumFunctionOnSet([r \in Request |-> Gain(r)], Request)

CoreInv == TypeOK /\ \A r \in Request : LegsInv(r) /\ RouteInv(r)

IInv ==
  /\ CoreInv
  /\ \A r \in Request : RowInv(r) /\ AnswerInv(r) /\ (faults = 0 => CalmInv(r))
  /\ LedgerInv

(***************************************************************************)
(* Invariants that hold under a condition on the constants.                *)
(***************************************************************************)

(* No account is opened overdrawn.                                         *)
OpenedCovered == \A a \in AccountRow : Opening[a] >= 0

(* Until a first request is debited from an account its balance only       *)
(* grows, so what a handler read or checked is still there; the first      *)
(* debit of a check that was not misled leaves a balance that is not       *)
(* negative, and only a second one can overdraw it.                        *)
Checked(r) ==
  pc[r] \in {"debit", "extDebit"} \/ debits[r] = 1 => ~TextLess(seen[r], form[r].amount)

Covered(a) ==
  /\ PaidFrom(a) = {} =>
       /\ balance[a] >= 0
       /\ \A r \in Request :
            form[r].from = a /\ pc[r] \in {"readTo", "debit", "extDebit"} =>
              seen[r] <= balance[a]
  /\ balance[a] < 0 => \E r \in PaidFrom(a) : Misled(r) \/ \E s \in PaidFrom(a) : s # r

CoverInv == (\A r \in Request : Checked(r)) /\ (\A a \in AccountRow : Covered(a))

(* The most that a request may add to a balance is its amount twice: the   *)
(* refund of a failed attempt and the one in the catch block.              *)
Most(body) == IF Valid(body) THEN 2 * body.amount ELSE 0

(* No column overflows even if every request is refunded twice to the same *)
(* account.                                                                *)
RoomForRefunds ==
  \A bodies \in [Request -> [from: Number, to: Number, amount: Amount]] :
    \A a \in AccountRow :
      /\ Storable(Opening[a], Largest)
      /\ Opening[a] + SumFunctionOnSet([r \in Request |-> Most(bodies[r])], Request) <= Largest

(* Where there is room, no refund is refused without faults, so the sender *)
(* has the money back before the catch block sets the status.              *)
Closing == {"respond", "catchStatus", "201", "500"}

Returned(r) ==
  /\ form[r].to \notin Prefixed
  /\ pc[r] \in Closing
  /\ peer[r] # "accepted"
  => refunds[r] >= debits[r]

RefundInv ==
  /\ \A a \in AccountRow : Storable(balance[a], Largest)
  /\ faults = 0 => \A r \in Request : Returned(r)

(* Where refunds fit, a paid transfer gets into the catch block only over  *)
(* a table without the column, when it was accepted or given back already. *)
Settled(r) ==
  form[r].to \notin Prefixed /\ debits[r] = 1 =>
    /\ pc[r] \in {"respond", "201"} => "status_detail" \in columns
    /\ pc[r] \in CatchLabel \cup {"500"} => "status_detail" \notin columns
    /\ pc[r] \in ExternalLabel \cup CatchLabel \cup HttpLabel => status[r] = "completed"
    /\ pc[r] \in {"catchRead", "catchRefund"} =>
         refunds[r] = 1 \/ (refunds[r] = 0 /\ peer[r] = "accepted")
    /\ pc[r] = "catchStatus" =>
         refunds[r] = 2 \/ (refunds[r] = 1 /\ peer[r] = "accepted")
    /\ pc[r] \in {"respond"} \cup Terminal => EndsAs(r)

SettleInv == faults = 0 => \A r \in Request : Settled(r)

-----------------------------------------------------------------------------
(* Every request that arrives is answered or dies with the process, unless *)
(* the other bank's answer breaks off midway: no handler is left behind in *)
(* the queue of statements or waiting for a bank that says nothing.        *)
EveryRequestAnswered ==
  \A r \in Request : pc[r] # "idle" ~> pc[r] \in Terminal \cup {"stranded"}
=============================================================================
