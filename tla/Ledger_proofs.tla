----------------------------- MODULE Ledger_proofs -----------------------------
(***************************************************************************)
(* The money of POST /transactions for every set of requests, accounts and *)
(* amounts: what the rows say, what the balances add up to, and when a     *)
(* sender can lose an amount or overdraw an account.                       *)
(***************************************************************************)
EXTENDS Transfers_proofs, DataLemmas

(***************************************************************************)
(* What a statement's reply does to its handler, and what no step of a     *)
(* handler does: bring a lost connection back or undo a fault.             *)
(***************************************************************************)
Outcome(r, at, next) ==
  /\ pc[r] = at /\ connected
  /\ \/ pc'[r] = next /\ connected' = TRUE /\ faults' = faults
     \/ pc'[r] = CatchOf(at) /\ connected' = FALSE /\ faults' # 0

Wears ==
  /\ connected' => connected
  /\ faults' = 0 => faults = 0 /\ connected' = connected

LEMMA RepliesOutcome ==
  ASSUME TypeOK, NEW r \in Request, NEW at \in DatabaseLabel, NEW next \in Label,
         Executes(r, at), Replies(r, next)
  PROVE  Outcome(r, at, next) /\ Wears
<1>1. pc[r] = at /\ connected = TRUE /\ Served(r) /\ faults \in Nat
  BY LimitsAssumption DEF Executes, TypeOK
<1>2. CASE Leaves(r, next) /\ UNCHANGED <<connected, faults>>
  <2>1. pc'[r] = next /\ connected' = TRUE /\ faults' = faults
    BY <1>1, <1>2 DEF Leaves, TypeOK
  <2> QED
    BY <1>1, <2>1 DEF Outcome, Wears
<1>3. CASE /\ faults < MaxFaults /\ faults' = faults + 1
           /\ connected' = FALSE /\ Leaves(r, CatchOf(pc[r]))
  <2>1. pc'[r] = CatchOf(at) /\ connected' = FALSE
    BY <1>1, <1>3 DEF Leaves, TypeOK
  <2>2. faults' # 0
    BY <1>1, <1>3
  <2> QED
    BY <1>1, <2>1, <2>2 DEF Outcome, Wears
<1> QED
  BY <1>2, <1>3 DEF Replies

(***************************************************************************)
(* The three kinds of statement, with the whole of what r sees of them.    *)
(***************************************************************************)
Untouched(r) ==
  /\ status'[r] = status[r] /\ peer'[r] = peer[r]
  /\ debits'[r] = debits[r] /\ credits'[r] = credits[r] /\ refunds'[r] = refunds[r]

LEMMA ReadsOutcome ==
  ASSUME CoreInv, NEW r \in Request, NEW at \in DatabaseLabel, NEW next \in Label,
         Reads(r, at, next)
  PROVE  Outcome(r, at, next) /\ Wears /\ OnlyOwn(r) /\ Untouched(r)
<1>1. Outcome(r, at, next) /\ Wears
  BY RepliesOutcome DEF Reads, CoreInv
<1> QED
  BY <1>1, ReadsStep DEF Untouched

LEMMA ReadsSourceOutcome ==
  ASSUME CoreInv, NEW r \in Request, NEW at \in DatabaseLabel, NEW next \in Label,
         form[r].from \in AccountRow, ReadsSource(r, at, next)
  PROVE  Outcome(r, at, next) /\ Wears /\ OnlyOwn(r) /\ Untouched(r)
<1>1. Outcome(r, at, next) /\ Wears
  BY RepliesOutcome DEF ReadsSource, CoreInv
<1> QED
  BY <1>1, ReadsSourceStep DEF Untouched

LEMMA SetsStatusOutcome ==
  ASSUME CoreInv, NEW r \in Request, NEW at \in DatabaseLabel, NEW next \in Label,
         NEW s \in {"pending", "completed", "failed"}, SetsStatus(r, at, s, next)
  PROVE  /\ Outcome(r, at, next) /\ Wears /\ OnlyOwn(r)
         /\ status'[r] = s /\ peer'[r] = peer[r]
         /\ debits'[r] = debits[r] /\ credits'[r] = credits[r] /\ refunds'[r] = refunds[r]
         /\ at \in DetailLabel => "status_detail" \in columns
<1>1. Outcome(r, at, next) /\ Wears
  BY RepliesOutcome DEF SetsStatus, CoreInv
<1> QED
  BY <1>1, SetsStatusStep DEF SetsStatus

(* One leg: the amount moves at an account, and one counter of r grows.    *)
Leg(r, at, next, account, delta) ==
  /\ Outcome(r, at, next) /\ Wears /\ OnlyOwn(r)
  /\ account \in AccountRow /\ delta \in Int
  /\ balance' = [balance EXCEPT ![account] = @ + delta]
  /\ status'[r] = status[r] /\ peer'[r] = peer[r] /\ UNCHANGED <<seen, status, form>>

LEMMA MovesLeg ==
  ASSUME CoreInv, NEW r \in Request, NEW at \in DatabaseLabel, NEW next \in Label,
         NEW account \in AccountRow, NEW delta \in Int, Moves(r, at, account, delta, next),
         \A q \in Request \ {r} : UNCHANGED <<debits[q], credits[q], refunds[q]>>
  PROVE  Leg(r, at, next, account, delta)
<1>1. Outcome(r, at, next) /\ Wears
  BY RepliesOutcome DEF Moves, CoreInv
<1>2. /\ \A q \in Request \ {r} : pc'[q] = pc[q]
      /\ UNCHANGED <<status, form, columns, seen, peer>>
  BY MovesStep DEF Advances
<1> QED
  BY <1>1, <1>2 DEF Leg, OnlyOwn, Moves

Legs(r, d, c, f) ==
  debits'[r] = debits[r] + d /\ credits'[r] = credits[r] + c /\ refunds'[r] = refunds[r] + f

LEMMA MoneyLegs ==
  ASSUME CoreInv, NEW r \in Request
  PROVE  /\ Debit(r) =>
              Leg(r, "debit", "credit", form[r].from, -form[r].amount) /\ Legs(r, 1, 0, 0)
         /\ Credit(r) =>
              Leg(r, "credit", "markCompleted", form[r].to, form[r].amount) /\ Legs(r, 0, 1, 0)
         /\ ExternalDebit(r) =>
              Leg(r, "extDebit", "send", form[r].from, -form[r].amount) /\ Legs(r, 1, 0, 0)
         /\ Refund(r) =>
              Leg(r, "refund", "markRefused", form[r].from, form[r].amount) /\ Legs(r, 0, 0, 1)
         /\ CatchRefund(r) =>
              Leg(r, "catchRefund", "catchStatus", form[r].from, form[r].amount)
                /\ Legs(r, 0, 0, 1)
<1> USE DEF InternalLabel, ExternalLabel, CatchLabel, RouteLabel, HttpLabel, DatabaseLabel
<1>0. /\ RouteInv(r) /\ form[r].amount \in Int /\ -form[r].amount \in Int
      /\ debits \in [Request -> Nat] /\ credits \in [Request -> Nat]
      /\ refunds \in [Request -> Nat]
  BY RequestFields DEF CoreInv, TypeOK
<1>1. ASSUME Debit(r)
      PROVE  Leg(r, "debit", "credit", form[r].from, -form[r].amount) /\ Legs(r, 1, 0, 0)
  <2>1. form[r].from \in AccountRow
    BY <1>0, <1>1 DEF Debit, Moves, Executes, RouteInv
  <2>2. Legs(r, 1, 0, 0) /\ \A q \in Request \ {r} : UNCHANGED <<debits[q], credits[q], refunds[q]>>
    BY <1>0, <1>1 DEF Debit, Legs
  <2> QED
    BY <1>0, <1>1, <2>1, <2>2, MovesLeg DEF Debit, Label
<1>2. ASSUME Credit(r)
      PROVE  Leg(r, "credit", "markCompleted", form[r].to, form[r].amount) /\ Legs(r, 0, 1, 0)
  <2>1. form[r].to \in AccountRow
    BY <1>0, <1>2 DEF Credit, Moves, Executes, RouteInv
  <2>2. Legs(r, 0, 1, 0) /\ \A q \in Request \ {r} : UNCHANGED <<debits[q], credits[q], refunds[q]>>
    BY <1>0, <1>2 DEF Credit, Legs
  <2> QED
    BY <1>0, <1>2, <2>1, <2>2, MovesLeg DEF Credit, Label
<1>3. ASSUME ExternalDebit(r)
      PROVE  Leg(r, "extDebit", "send", form[r].from, -form[r].amount) /\ Legs(r, 1, 0, 0)
  <2>1. form[r].from \in AccountRow
    BY <1>0, <1>3 DEF ExternalDebit, Moves, Executes, RouteInv
  <2>2. Legs(r, 1, 0, 0) /\ \A q \in Request \ {r} : UNCHANGED <<debits[q], credits[q], refunds[q]>>
    BY <1>0, <1>3 DEF ExternalDebit, Legs
  <2> QED
    BY <1>0, <1>3, <2>1, <2>2, MovesLeg DEF ExternalDebit, Label
<1>4. ASSUME Refund(r)
      PROVE  Leg(r, "refund", "markRefused", form[r].from, form[r].amount) /\ Legs(r, 0, 0, 1)
  <2>1. form[r].from \in AccountRow
    BY <1>0, <1>4 DEF Refund, Refunds, Moves, Executes, RouteInv
  <2>2. Legs(r, 0, 0, 1) /\ \A q \in Request \ {r} : UNCHANGED <<debits[q], credits[q], refunds[q]>>
    BY <1>0, <1>4 DEF Refund, Refunds, Legs
  <2> QED
    BY <1>0, <1>4, <2>1, <2>2, MovesLeg DEF Refund, Refunds, Label
<1>5. ASSUME CatchRefund(r)
      PROVE  Leg(r, "catchRefund", "catchStatus", form[r].from, form[r].amount)
               /\ Legs(r, 0, 0, 1)
  <2>1. form[r].from \in AccountRow
    BY <1>0, <1>5 DEF CatchRefund, Refunds, Moves, Executes, RouteInv
  <2>2. Legs(r, 0, 0, 1) /\ \A q \in Request \ {r} : UNCHANGED <<debits[q], credits[q], refunds[q]>>
    BY <1>0, <1>5 DEF CatchRefund, Refunds, Legs
  <2> QED
    BY <1>0, <1>5, <2>1, <2>2, MovesLeg DEF CatchRefund, Refunds, Label
<1> QED
  BY <1>1, <1>2, <1>3, <1>4, <1>5

-----------------------------------------------------------------------------
(***************************************************************************)
(* What the rows say, action by action.                                    *)
(***************************************************************************)
DetailInv(r) == RowInv(r) /\ AnswerInv(r) /\ (faults = 0 => CalmInv(r))

LEMMA OwnStepKeepsDetail ==
  ASSUME NEW r \in Request, OnlyOwn(r), Wears, \A q \in Request : DetailInv(q), DetailInv(r)'
  PROVE  \A q \in Request : DetailInv(q)'
<1>1. ASSUME NEW q \in Request \ {r} PROVE DetailInv(q)'
  BY <1>1 DEF OnlyOwn, Wears, DetailInv, RowInv, AnswerInv, RowTellsArrival, CalmInv, Valid
<1> QED
  BY <1>1

LEMMA RouteDetail ==
  ASSUME CoreInv, CoreInv', \A q \in Request : DetailInv(q),
         NEW r \in Request, Arrive(r) \/ Route(r)
  PROVE  \A q \in Request : DetailInv(q)'
<1> USE DEF InternalLabel, ExternalLabel, CatchLabel, RouteLabel, HttpLabel, DatabaseLabel
<1>0. /\ LegsInv(r) /\ RouteInv(r) /\ LegsInv(r)' /\ RouteInv(r)'
      /\ RowInv(r) /\ AnswerInv(r) /\ (faults = 0 => CalmInv(r))
  BY DEF CoreInv, DetailInv
<1>1. CASE Arrive(r)
  <2>1. /\ pc[r] = "idle" /\ UNCHANGED <<connected, faults>> /\ OnlyOwn(r) /\ Untouched(r)
        /\ \/ pc'[r] = "lookup" /\ Valid(form[r])
           \/ pc'[r] = "400"
    BY <1>1 DEF Arrive, Issues, CoreInv, TypeOK, OnlyOwn, Untouched, ledger
  <2>2. DetailInv(r)' /\ Wears
    BY <1>0, <2>1 DEF OnlyOwn, Untouched, DetailInv, RowInv, AnswerInv, RowTellsArrival, CalmInv, Valid, Wears
  <2> QED
    BY <2>1, <2>2, OwnStepKeepsDetail
<1>2. CASE LookupSource(r)
  <2> DEFINE next == AfterLookup(r)
  <2>1. next \in {"404", "403", "insert"}
    BY DEF AfterLookup
  <2>2. next \in Label
    BY <2>1 DEF Label, Terminal
  <2> HIDE DEF next
  <2>3. Outcome(r, "lookup", next) /\ Wears /\ OnlyOwn(r) /\ Untouched(r)
    BY <1>2, <2>2, ReadsOutcome DEF LookupSource, next
  <2>4. DetailInv(r)'
    BY <1>0, <2>1, <2>3, CatchTargets
    DEF Outcome, Wears, OnlyOwn, Untouched, DetailInv, RowInv, AnswerInv, RowTellsArrival, CalmInv, Valid
  <2> QED
    BY <2>3, <2>4, OwnStepKeepsDetail
<1>3. CASE InsertRow(r)
  <2>1. /\ Outcome(r, "insert", "reread") /\ Wears /\ OnlyOwn(r)
        /\ status'[r] = "completed" /\ peer'[r] = peer[r]
        /\ debits'[r] = debits[r] /\ credits'[r] = credits[r] /\ refunds'[r] = refunds[r]
    BY <1>3, SetsStatusOutcome DEF InsertRow, Label
  <2>2. debits[r] = 0 /\ refunds[r] = 0
    BY <1>0, <2>1 DEF Outcome, LegsInv, Unpaid
  <2>3. DetailInv(r)'
    BY <1>0, <2>1, <2>2, CatchTargets
    DEF Outcome, Wears, OnlyOwn, DetailInv, RowInv, AnswerInv, RowTellsArrival, CalmInv, Valid
  <2> QED
    BY <2>1, <2>3, OwnStepKeepsDetail
<1>4. CASE RereadRow(r)
  <2> DEFINE next == AfterReread(r)
  <2>1. next \in {"fetch", "funds"}
    BY DEF AfterReread
  <2>2. next \in Label
    BY <2>1 DEF Label
  <2> HIDE DEF next
  <2>3. Outcome(r, "reread", next) /\ Wears /\ OnlyOwn(r) /\ Untouched(r)
    BY <1>4, <2>2, ReadsOutcome DEF RereadRow, next
  <2>4. DetailInv(r)'
    BY <1>0, <2>1, <2>3, CatchTargets
    DEF Outcome, Wears, OnlyOwn, Untouched, DetailInv, RowInv, AnswerInv, RowTellsArrival, CalmInv, Valid
  <2> QED
    BY <2>3, <2>4, OwnStepKeepsDetail
<1>5. CASE Respond(r)
  <2>1. Outcome(r, "respond", "201") /\ Wears /\ OnlyOwn(r) /\ Untouched(r)
    BY <1>5, ReadsOutcome DEF Respond, Label, Terminal
  <2>2. DetailInv(r)'
    BY <1>0, <2>1, CatchTargets
    DEF Outcome, Wears, OnlyOwn, Untouched, DetailInv, RowInv, AnswerInv, RowTellsArrival, CalmInv, Valid
  <2> QED
    BY <2>1, <2>2, OwnStepKeepsDetail
<1> QED
  BY <1>1, <1>2, <1>3, <1>4, <1>5 DEF Route

LEMMA InternalDetail ==
  ASSUME CoreInv, CoreInv', \A q \in Request : DetailInv(q),
         NEW r \in Request, ProcessInternal(r)
  PROVE  \A q \in Request : DetailInv(q)'
<1> USE DEF InternalLabel, ExternalLabel, CatchLabel, RouteLabel, HttpLabel, DatabaseLabel
<1>0. /\ LegsInv(r) /\ RouteInv(r) /\ LegsInv(r)' /\ RouteInv(r)'
      /\ RowInv(r) /\ AnswerInv(r) /\ (faults = 0 => CalmInv(r))
  BY DEF CoreInv, DetailInv
<1>1. CASE FetchRow(r)
  <2>1. Outcome(r, "fetch", "markPending") /\ Wears /\ OnlyOwn(r) /\ Untouched(r)
    BY <1>1, ReadsOutcome DEF FetchRow, Label
  <2>2. DetailInv(r)'
    BY <1>0, <2>1, CatchTargets
    DEF Outcome, Wears, OnlyOwn, Untouched, DetailInv, RowInv, AnswerInv, RowTellsArrival, CalmInv, Valid
  <2> QED
    BY <2>1, <2>2, OwnStepKeepsDetail
<1>2. CASE MarkPending(r)
  <2>1. /\ Outcome(r, "markPending", "readFrom") /\ Wears /\ OnlyOwn(r)
        /\ status'[r] = "pending" /\ peer'[r] = peer[r]
        /\ debits'[r] = debits[r] /\ credits'[r] = credits[r] /\ refunds'[r] = refunds[r]
    BY <1>2, SetsStatusOutcome DEF MarkPending, Label
  <2>2. DetailInv(r)'
    BY <1>0, <2>1, CatchTargets
    DEF Outcome, Wears, OnlyOwn, DetailInv, RowInv, AnswerInv, RowTellsArrival, CalmInv, Valid, LegsInv, RouteInv, Unpaid
  <2> QED
    BY <2>1, <2>2, OwnStepKeepsDetail
<1>3. CASE ReadFrom(r)
  <2>1. form[r].from \in AccountRow
    BY <1>0, <1>3 DEF ReadFrom, ReadsSource, Executes, RouteInv
  <2>2. Outcome(r, "readFrom", "readTo") /\ Wears /\ OnlyOwn(r) /\ Untouched(r)
    BY <1>3, <2>1, ReadsSourceOutcome DEF ReadFrom, Label
  <2>3. DetailInv(r)'
    BY <1>0, <2>2, CatchTargets
    DEF Outcome, Wears, OnlyOwn, Untouched, DetailInv, RowInv, AnswerInv, RowTellsArrival, CalmInv,
        Valid
  <2> QED
    BY <2>2, <2>3, OwnStepKeepsDetail
<1>4. CASE ReadTo(r)
  <2> DEFINE next == AfterReadTo(r)
  <2>1. next \in {"debit", "reject"}
    BY DEF AfterReadTo
  <2>2. next \in Label
    BY <2>1 DEF Label
  <2> HIDE DEF next
  <2>3. Outcome(r, "readTo", next) /\ Wears /\ OnlyOwn(r) /\ Untouched(r)
    BY <1>4, <2>2, ReadsOutcome DEF ReadTo, next
  <2>4. debits[r] = 0 /\ refunds[r] = 0 /\ credits[r] = 0 /\ form[r].to \in Prefixed
    BY <1>0, <2>3 DEF Outcome, LegsInv, RouteInv, Unpaid
  <2>5. DetailInv(r)'
    BY <1>0, <2>1, <2>3, <2>4, CatchTargets
    DEF Outcome, Wears, OnlyOwn, Untouched, DetailInv, RowInv, AnswerInv, RowTellsArrival, CalmInv,
        Valid
  <2> QED
    BY <2>3, <2>5, OwnStepKeepsDetail
<1>5. CASE Reject(r)
  <2>1. /\ Outcome(r, "reject", "respond") /\ Wears /\ OnlyOwn(r)
        /\ status'[r] = "failed" /\ peer'[r] = peer[r]
        /\ debits'[r] = debits[r] /\ credits'[r] = credits[r] /\ refunds'[r] = refunds[r]
        /\ "status_detail" \in columns
    BY <1>5, SetsStatusOutcome DEF Reject, Label, DetailLabel
  <2>2. DetailInv(r)'
    BY <1>0, <2>1, CatchTargets
    DEF Outcome, Wears, OnlyOwn, DetailInv, RowInv, AnswerInv, RowTellsArrival, CalmInv, Valid, LegsInv, RouteInv, Unpaid
  <2> QED
    BY <2>1, <2>2, OwnStepKeepsDetail
<1>6. CASE Debit(r)
  <2>1. Leg(r, "debit", "credit", form[r].from, -form[r].amount) /\ Legs(r, 1, 0, 0)
    BY <1>6, MoneyLegs
  <2>2. /\ Outcome(r, "debit", "credit") /\ Wears /\ OnlyOwn(r)
        /\ status'[r] = status[r] /\ peer'[r] = peer[r]
    BY <2>1 DEF Leg
  <2>3. DetailInv(r)'
    BY <1>0, <2>1, <2>2, CatchTargets
    DEF Legs, Outcome, Wears, OnlyOwn, DetailInv, RowInv, AnswerInv, RowTellsArrival, CalmInv, Valid,
        LegsInv, RouteInv, Unpaid
  <2> QED
    BY <2>2, <2>3, OwnStepKeepsDetail
<1>7. CASE Credit(r)
  <2>1. Leg(r, "credit", "markCompleted", form[r].to, form[r].amount) /\ Legs(r, 0, 1, 0)
    BY <1>7, MoneyLegs
  <2>2. /\ Outcome(r, "credit", "markCompleted") /\ Wears /\ OnlyOwn(r)
        /\ status'[r] = status[r] /\ peer'[r] = peer[r]
    BY <2>1 DEF Leg
  <2>3. DetailInv(r)'
    BY <1>0, <2>1, <2>2, CatchTargets
    DEF Legs, Outcome, Wears, OnlyOwn, DetailInv, RowInv, AnswerInv, RowTellsArrival, CalmInv, Valid,
        LegsInv, RouteInv, Unpaid
  <2> QED
    BY <2>2, <2>3, OwnStepKeepsDetail
<1>8. CASE MarkCompleted(r)
  <2>1. /\ Outcome(r, "markCompleted", "respond") /\ Wears /\ OnlyOwn(r)
        /\ status'[r] = "completed" /\ peer'[r] = peer[r]
        /\ debits'[r] = debits[r] /\ credits'[r] = credits[r] /\ refunds'[r] = refunds[r]
    BY <1>8, SetsStatusOutcome DEF MarkCompleted, Label
  <2>2. DetailInv(r)'
    BY <1>0, <2>1, CatchTargets
    DEF Outcome, Wears, OnlyOwn, DetailInv, RowInv, AnswerInv, RowTellsArrival, CalmInv, Valid, LegsInv, RouteInv, Unpaid
  <2> QED
    BY <2>1, <2>2, OwnStepKeepsDetail
<1>9. CASE MarkFailed(r)
  <2>1. /\ Outcome(r, "markFailed", "respond") /\ Wears /\ OnlyOwn(r)
        /\ status'[r] = "failed" /\ peer'[r] = peer[r]
        /\ debits'[r] = debits[r] /\ credits'[r] = credits[r] /\ refunds'[r] = refunds[r]
        /\ "status_detail" \in columns
    BY <1>9, SetsStatusOutcome DEF MarkFailed, Label, DetailLabel
  <2>2. DetailInv(r)'
    BY <1>0, <2>1, CatchTargets
    DEF Outcome, Wears, OnlyOwn, DetailInv, RowInv, AnswerInv, RowTellsArrival, CalmInv, Valid, LegsInv, RouteInv, Unpaid
  <2> QED
    BY <2>1, <2>2, OwnStepKeepsDetail
<1> QED
  BY <1>1, <1>2, <1>3, <1>4, <1>5, <1>6, <1>7, <1>8, <1>9 DEF ProcessInternal

LEMMA ExternalDetail ==
  ASSUME CoreInv, CoreInv', \A q \in Request : DetailInv(q),
         NEW r \in Request, ProcessExternal(r)
  PROVE  \A q \in Request : DetailInv(q)'
<1> USE DEF InternalLabel, ExternalLabel, CatchLabel, RouteLabel, HttpLabel, DatabaseLabel
<1>0. /\ LegsInv(r) /\ RouteInv(r) /\ LegsInv(r)' /\ RouteInv(r)'
      /\ RowInv(r) /\ AnswerInv(r) /\ (faults = 0 => CalmInv(r))
  BY DEF CoreInv, DetailInv
<1>1. CASE CheckFunds(r)
  <2> DEFINE next == AfterFunds(r)
  <2>1. next \in {"extDebit", "catchRead"}
    BY DEF AfterFunds
  <2>2. next \in Label
    BY <2>1 DEF Label
  <2> HIDE DEF next
  <2>3. Outcome(r, "funds", next) /\ Wears /\ OnlyOwn(r) /\ Untouched(r)
    <3>1. form[r].from \in AccountRow
      BY <1>0, <1>1 DEF CheckFunds, ReadsSource, Executes, RouteInv
    <3> QED
      BY <1>1, <2>2, <3>1, ReadsSourceOutcome DEF CheckFunds, next
  <2>4. DetailInv(r)'
    BY <1>0, <2>1, <2>3, CatchTargets
    DEF Outcome, Wears, OnlyOwn, Untouched, DetailInv, RowInv, AnswerInv, RowTellsArrival, CalmInv, Valid
  <2> QED
    BY <2>3, <2>4, OwnStepKeepsDetail
<1>2. CASE ExternalDebit(r)
  <2>1. Leg(r, "extDebit", "send", form[r].from, -form[r].amount) /\ Legs(r, 1, 0, 0)
    BY <1>2, MoneyLegs
  <2>2. /\ Outcome(r, "extDebit", "send") /\ Wears /\ OnlyOwn(r)
        /\ status'[r] = status[r] /\ peer'[r] = peer[r]
    BY <2>1 DEF Leg
  <2>3. DetailInv(r)'
    BY <1>0, <2>1, <2>2, CatchTargets
    DEF Legs, Outcome, Wears, OnlyOwn, DetailInv, RowInv, AnswerInv, RowTellsArrival, CalmInv, Valid,
        LegsInv, RouteInv, Unpaid
  <2> QED
    BY <2>2, <2>3, OwnStepKeepsDetail
<1>3. CASE SendFails(r)
  <2>1. /\ pc[r] = "send" /\ UNCHANGED <<connected, faults>> /\ OnlyOwn(r) /\ Untouched(r)
        /\ pc'[r] = "refundRead"
    BY <1>3 DEF SendFails, Issues, CoreInv, TypeOK, OnlyOwn, Untouched, ledger
  <2>2. DetailInv(r)' /\ Wears
    BY <1>0, <2>1
    DEF OnlyOwn, Untouched, DetailInv, RowInv, AnswerInv, RowTellsArrival, CalmInv, Valid, Wears, LegsInv,
        RouteInv
  <2> QED
    BY <2>1, <2>2, OwnStepKeepsDetail
<1>4. CASE Posts(r)
  <2>1. /\ pc[r] = "send" /\ pc'[r] = "await" /\ UNCHANGED <<connected, faults>> /\ OnlyOwn(r)
        /\ status'[r] = status[r]
        /\ debits'[r] = debits[r] /\ credits'[r] = credits[r] /\ refunds'[r] = refunds[r]
    BY <1>4 DEF Posts, CoreInv, TypeOK, OnlyOwn, ledger
  <2>2. DetailInv(r)' /\ Wears
    BY <1>0, <2>1
    DEF OnlyOwn, DetailInv, RowInv, AnswerInv, RowTellsArrival, CalmInv, Valid, Wears, LegsInv, RouteInv
  <2> QED
    BY <2>1, <2>2, OwnStepKeepsDetail
<1>5. CASE AnswerArrives(r)
  <2>1. /\ pc[r] = "await" /\ UNCHANGED <<connected, faults>> /\ OnlyOwn(r) /\ Untouched(r)
        /\ \/ pc'[r] = "markAccepted" /\ peer[r] = "accepted"
           \/ pc'[r] = "refundRead"
    BY <1>5 DEF AnswerArrives, Issues, AfterAnswer, CoreInv, TypeOK, OnlyOwn, Untouched, ledger
  <2>2. DetailInv(r)' /\ Wears
    BY <1>0, <2>1
    DEF OnlyOwn, Untouched, DetailInv, RowInv, AnswerInv, RowTellsArrival, CalmInv, Valid, Wears, LegsInv,
        RouteInv
  <2> QED
    BY <2>1, <2>2, OwnStepKeepsDetail
<1>6. CASE GivesUp(r)
  <2>1. /\ pc[r] = "await" /\ UNCHANGED <<connected, faults>> /\ OnlyOwn(r) /\ Untouched(r)
        /\ pc'[r] = "refundRead"
    BY <1>6 DEF GivesUp, Issues, CoreInv, TypeOK, OnlyOwn, Untouched, ledger
  <2>2. DetailInv(r)' /\ Wears
    BY <1>0, <2>1
    DEF OnlyOwn, Untouched, DetailInv, RowInv, AnswerInv, RowTellsArrival, CalmInv, Valid, Wears, LegsInv,
        RouteInv
  <2> QED
    BY <2>1, <2>2, OwnStepKeepsDetail
<1>7. CASE MarkAccepted(r)
  <2>1. /\ Outcome(r, "markAccepted", "respond") /\ Wears /\ OnlyOwn(r)
        /\ status'[r] = "completed" /\ peer'[r] = peer[r]
        /\ debits'[r] = debits[r] /\ credits'[r] = credits[r] /\ refunds'[r] = refunds[r]
    BY <1>7, SetsStatusOutcome DEF MarkAccepted, Label
  <2>2. DetailInv(r)'
    BY <1>0, <2>1, CatchTargets
    DEF Outcome, Wears, OnlyOwn, DetailInv, RowInv, AnswerInv, RowTellsArrival, CalmInv, Valid, LegsInv, RouteInv, Unpaid
  <2> QED
    BY <2>1, <2>2, OwnStepKeepsDetail
<1>8. CASE ReadForRefund(r)
  <2>1. Outcome(r, "refundRead", "refund") /\ Wears /\ OnlyOwn(r) /\ Untouched(r)
    BY <1>8, ReadsOutcome DEF ReadForRefund, Label
  <2>2. DetailInv(r)'
    BY <1>0, <2>1, CatchTargets
    DEF Outcome, Wears, OnlyOwn, Untouched, DetailInv, RowInv, AnswerInv, RowTellsArrival, CalmInv, Valid
  <2> QED
    BY <2>1, <2>2, OwnStepKeepsDetail
<1>9. CASE Refund(r)
  <2>1. Leg(r, "refund", "markRefused", form[r].from, form[r].amount) /\ Legs(r, 0, 0, 1)
    BY <1>9, MoneyLegs
  <2>2. /\ Outcome(r, "refund", "markRefused") /\ Wears /\ OnlyOwn(r)
        /\ status'[r] = status[r] /\ peer'[r] = peer[r]
    BY <2>1 DEF Leg
  <2>3. DetailInv(r)'
    BY <1>0, <2>1, <2>2, CatchTargets
    DEF Legs, Outcome, Wears, OnlyOwn, DetailInv, RowInv, AnswerInv, RowTellsArrival, CalmInv, Valid,
        LegsInv, RouteInv, Unpaid
  <2> QED
    BY <2>2, <2>3, OwnStepKeepsDetail
<1>10. CASE MarkRefused(r)
  <2>1. /\ Outcome(r, "markRefused", "respond") /\ Wears /\ OnlyOwn(r)
        /\ status'[r] = "failed" /\ peer'[r] = peer[r]
        /\ debits'[r] = debits[r] /\ credits'[r] = credits[r] /\ refunds'[r] = refunds[r]
    BY <1>10, SetsStatusOutcome DEF MarkRefused, Label
  <2>2. DetailInv(r)'
    BY <1>0, <2>1, CatchTargets
    DEF Outcome, Wears, OnlyOwn, DetailInv, RowInv, AnswerInv, RowTellsArrival, CalmInv, Valid, LegsInv, RouteInv, Unpaid
  <2> QED
    BY <2>1, <2>2, OwnStepKeepsDetail
<1>11. CASE ReadInCatch(r)
  <2>1. Outcome(r, "catchRead", "catchRefund") /\ Wears /\ OnlyOwn(r) /\ Untouched(r)
    BY <1>11, ReadsOutcome DEF ReadInCatch, Label
  <2>2. DetailInv(r)'
    BY <1>0, <2>1, CatchTargets
    DEF Outcome, Wears, OnlyOwn, Untouched, DetailInv, RowInv, AnswerInv, RowTellsArrival, CalmInv, Valid
  <2> QED
    BY <2>1, <2>2, OwnStepKeepsDetail
<1>12. CASE CatchRefund(r)
  <2>1. Leg(r, "catchRefund", "catchStatus", form[r].from, form[r].amount) /\ Legs(r, 0, 0, 1)
    BY <1>12, MoneyLegs
  <2>2. /\ Outcome(r, "catchRefund", "catchStatus") /\ Wears /\ OnlyOwn(r)
        /\ status'[r] = status[r] /\ peer'[r] = peer[r]
    BY <2>1 DEF Leg
  <2>3. DetailInv(r)'
    BY <1>0, <2>1, <2>2, CatchTargets
    DEF Legs, Outcome, Wears, OnlyOwn, DetailInv, RowInv, AnswerInv, RowTellsArrival, CalmInv, Valid,
        LegsInv, RouteInv, Unpaid
  <2> QED
    BY <2>2, <2>3, OwnStepKeepsDetail
<1>13. CASE CatchStatus(r)
  <2>1. /\ Outcome(r, "catchStatus", "respond") /\ Wears /\ OnlyOwn(r)
        /\ status'[r] = "failed" /\ peer'[r] = peer[r]
        /\ debits'[r] = debits[r] /\ credits'[r] = credits[r] /\ refunds'[r] = refunds[r]
    BY <1>13, SetsStatusOutcome DEF CatchStatus, Label
  <2>2. DetailInv(r)'
    BY <1>0, <2>1, CatchTargets
    DEF Outcome, Wears, OnlyOwn, DetailInv, RowInv, AnswerInv, RowTellsArrival, CalmInv, Valid, LegsInv, RouteInv, Unpaid
  <2> QED
    BY <2>1, <2>2, OwnStepKeepsDetail
<1>14. CASE BreaksOff(r)
  <2>1. faults' # 0
    BY <1>14, LimitsAssumption DEF BreaksOff, CoreInv, TypeOK
  <2>2. /\ pc[r] = "await" /\ pc'[r] = "stranded" /\ connected' = connected /\ OnlyOwn(r)
        /\ Untouched(r)
    BY <1>14 DEF BreaksOff, CoreInv, TypeOK, OnlyOwn, Untouched, ledger
  <2>3. DetailInv(r)' /\ Wears
    BY <1>0, <2>1, <2>2
    DEF OnlyOwn, Untouched, DetailInv, RowInv, AnswerInv, RowTellsArrival, CalmInv, Valid, Wears, LegsInv,
        RouteInv
  <2> QED
    BY <2>2, <2>3, OwnStepKeepsDetail
<1> QED
  BY <1>1, <1>2, <1>3, <1>4, <1>5, <1>6, <1>7, <1>8, <1>9, <1>10, <1>11, <1>12, <1>13,
     <1>14
  DEF ProcessExternal

(* The statements that can be refused for want of digits.                  *)
LEMMA OnlyMovesOverflow ==
  ASSUME NEW r \in Request, ~Storable(Stored(r), Largest)
  PROVE  pc[r] \in {"insert", "debit", "extDebit", "credit", "refund", "catchRefund"}
<1> SUFFICES ASSUME pc[r] \notin {"insert", "debit", "extDebit", "credit", "refund", "catchRefund"}
             PROVE  FALSE
  OBVIOUS
<1>1. Stored(r) = 0
  BY DEF Stored
<1> QED
  BY <1>1, LimitsAssumption DEF Storable

LEMMA ServedWaits ==
  ASSUME TypeOK, OneStatementEach, NEW r \in Request, Served(r)
  PROVE  pc[r] \in DatabaseLabel
BY DEF Served, OneStatementEach, TypeOK

LEMMA RejectedDetail ==
  ASSUME CoreInv, CoreInv', OneStatementEach, \A q \in Request : DetailInv(q),
         NEW r \in Request, Rejected(r)
  PROVE  \A q \in Request : DetailInv(q)'
<1>0. /\ LegsInv(r) /\ RouteInv(r) /\ LegsInv(r)' /\ RouteInv(r)'
      /\ RowInv(r) /\ AnswerInv(r) /\ (faults = 0 => CalmInv(r))
  BY DEF CoreInv, DetailInv
<1>1. Served(r) /\ Raises(r) /\ UNCHANGED <<ledger, status, form, columns, seen, peer>>
  BY DEF Rejected, UnknownColumn, OutOfRange, Broken
<1>2. pc[r] \in DatabaseLabel
  BY <1>1, ServedWaits DEF CoreInv
<1> USE DEF InternalLabel, ExternalLabel, CatchLabel, RouteLabel, HttpLabel, DatabaseLabel
<1>3. /\ pc'[r] = CatchOf(pc[r]) /\ connected' = connected /\ faults' = faults
      /\ OnlyOwn(r) /\ Untouched(r)
  BY <1>1, <1>2, CatchTargets DEF Raises, Leaves, CoreInv, TypeOK, OnlyOwn, Untouched, ledger
<1>4. CASE pc[r] \in DetailLabel /\ "status_detail" \notin columns
  BY <1>0, <1>3, <1>4, CatchTargets
  DEF OnlyOwn, Untouched, DetailInv, RowInv, AnswerInv, RowTellsArrival, CalmInv, Valid, LegsInv, RouteInv, Unpaid,
      DetailLabel
<1>5. CASE ~Storable(Stored(r), Largest)
  <2>1. pc[r] \in {"insert", "debit", "extDebit", "credit", "refund", "catchRefund"}
    BY <1>5, OnlyMovesOverflow
  <2> QED
    BY <1>0, <1>3, <2>1, CatchTargets
    DEF OnlyOwn, Untouched, DetailInv, RowInv, AnswerInv, RowTellsArrival, CalmInv, Valid, LegsInv, RouteInv, Unpaid
<1>6. CASE ~connected
  BY <1>0, <1>2, <1>3, <1>6, CatchTargets
  DEF OnlyOwn, Untouched, DetailInv, RowInv, AnswerInv, RowTellsArrival, CalmInv, Valid, LegsInv, RouteInv, Unpaid
<1>7. Wears
  BY <1>3 DEF Wears
<1>8. DetailInv(r)'
  BY <1>4, <1>5, <1>6 DEF Rejected, UnknownColumn, OutOfRange, Broken
<1> QED
  BY <1>3, <1>7, <1>8, OwnStepKeepsDetail

LEMMA EnvironmentDetail ==
  ASSUME CoreInv, \A q \in Request : DetailInv(q),
         LosesConnection \/ Restarts \/ \E r \in Request : PeerAnswers(r)
  PROVE  \A q \in Request : DetailInv(q)'
<1> SUFFICES ASSUME NEW q \in Request PROVE DetailInv(q)'
  OBVIOUS
<1>0. /\ LegsInv(q) /\ RouteInv(q)
      /\ RowInv(q) /\ AnswerInv(q) /\ (faults = 0 => CalmInv(q))
  BY DEF CoreInv, DetailInv
<1>1. CASE LosesConnection
  <2>1. faults' # 0 /\ connected' = FALSE
    BY <1>1, LimitsAssumption DEF LosesConnection, CoreInv, TypeOK
  <2> QED
    BY <1>0, <1>1, <2>1
    DEF LosesConnection, ledger, DetailInv, RowInv, AnswerInv, RowTellsArrival, Valid
<1>2. CASE Restarts
  <2>1. faults' # 0
    BY <1>2, LimitsAssumption DEF Restarts, CoreInv, TypeOK
  <2>2. \/ pc'[q] = "dead" /\ pc[q] \notin {"idle", "400"}
        \/ pc'[q] = pc[q] /\ pc[q] \in Terminal \cup {"idle"}
    BY <1>2 DEF Restarts, Terminal
  <2> QED
    BY <1>0, <1>2, <2>1, <2>2
    DEF Restarts, ledger, DetailInv, RowInv, AnswerInv, RowTellsArrival, Valid, Terminal
<1>3. ASSUME NEW r \in Request, PeerAnswers(r) PROVE DetailInv(q)'
  <2>1. /\ peer[q] = "accepted" => peer'[q] = "accepted"
        /\ UNCHANGED <<ledger, handlers, status, form, columns>>
    BY <1>3 DEF PeerAnswers, CoreInv, TypeOK
  <2> QED
    BY <1>0, <2>1 DEF ledger, handlers, DetailInv, RowInv, AnswerInv, RowTellsArrival, CalmInv, Valid
<1> QED
  BY <1>1, <1>2, <1>3

LEMMA InitDetail == Init => \A q \in Request : DetailInv(q)
BY DEF Init, DetailInv, RowInv, AnswerInv, RowTellsArrival, CalmInv

LEMMA NextDetail ==
  ASSUME CoreInv, CoreInv', OneStatementEach, \A q \in Request : DetailInv(q), [Next]_vars
  PROVE  \A q \in Request : DetailInv(q)'
<1>1. CASE UNCHANGED vars
  BY <1>1 DEF vars, ledger, handlers, DetailInv, RowInv, AnswerInv, RowTellsArrival, CalmInv, Valid
<1>2. CASE \E r \in Request : Arrive(r) \/ Handler(r)
  BY <1>2, RouteDetail, InternalDetail, ExternalDetail, RejectedDetail DEF Handler
<1>3. CASE LosesConnection \/ Restarts \/ \E r \in Request : PeerAnswers(r)
  BY <1>3, EnvironmentDetail
<1> QED
  BY <1>1, <1>2, <1>3 DEF Next, Done

-----------------------------------------------------------------------------
(***************************************************************************)
(* What the balances add up to.                                            *)
(***************************************************************************)
LEMMA ChangeIsInt ==
  ASSUME TypeOK, NEW r \in Request
  PROVE  Gain(r) \in Int /\ \A a \in AccountRow : Change(r, a) \in Int
<1>1. /\ form[r].amount \in Int
      /\ debits[r] \in Int /\ credits[r] \in Int /\ refunds[r] \in Int
  BY RequestFields
<1> QED
  BY <1>1 DEF Gain, Change

(* An UPDATE that moves delta at one account, for a request whose legs     *)
(* account for it, keeps the ledger.                                       *)
LEMMA ShiftLedger ==
  ASSUME TypeOK, TypeOK', LedgerInv, NEW r \in Request, NEW account \in AccountRow,
         NEW delta \in Int, balance' = [balance EXCEPT ![account] = @ + delta],
         \A q \in Request \ {r} :
           Gain(q)' = Gain(q) /\ \A a \in AccountRow : Change(q, a)' = Change(q, a),
         Gain(r)' = Gain(r) + delta,
         \A a \in AccountRow :
           Change(r, a)' = Change(r, a) + (IF a = account THEN delta ELSE 0)
  PROVE  LedgerInv'
<1>1. IsFiniteSet(Request) /\ IsFiniteSet(AccountRow)
  BY FiniteAssumption
<1>2. balance \in [AccountRow -> Int] /\ balance' \in [AccountRow -> Int]
  BY DEF TypeOK
<1>3. \A q \in Request : Gain(q) \in Int /\ Gain(q)' \in Int
  BY ChangeIsInt
<1>4. \A q \in Request : \A a \in AccountRow : Change(q, a) \in Int /\ Change(q, a)' \in Int
  BY ChangeIsInt
<1>5. ASSUME NEW a \in AccountRow
      PROVE  balance'[a] = Opening[a]
               + SumFunctionOnSet([q \in Request |-> Change(q, a)'], Request)
  <2> DEFINE f == [q \in Request |-> Change(q, a)]
             g == [q \in Request |-> Change(q, a)']
             step == IF a = account THEN delta ELSE 0
  <2>1. f \in [Request -> Int] /\ step \in Int
    BY <1>4
  <2>2. g = [f EXCEPT ![r] = f[r] + step]
    OBVIOUS
  <2>3. balance[a] = Opening[a] + SumFunctionOnSet(f, Request)
    BY DEF LedgerInv
  <2>4. balance'[a] = balance[a] + step
    BY <1>2
  <2> HIDE DEF f, g, step
  <2>5. SumFunctionOnSet(g, Request) = SumFunctionOnSet(f, Request) + step
    BY <1>1, <2>1, <2>2, SumShift
  <2>6. SumFunctionOnSet(f, Request) \in Int /\ Opening[a] \in Int
    BY <1>1, <2>1, SumIsInt, OpeningAssumption
  <2>7. balance'[a] = Opening[a] + SumFunctionOnSet(g, Request)
    BY <2>1, <2>3, <2>4, <2>5, <2>6
  <2> QED
    BY <2>7 DEF g
<1>6. SumFunctionOnSet(balance', AccountRow) =
        SumFunctionOnSet(Opening, AccountRow)
          + SumFunctionOnSet([q \in Request |-> Gain(q)'], Request)
  <2> DEFINE f == [q \in Request |-> Gain(q)]
             g == [q \in Request |-> Gain(q)']
  <2>1. f \in [Request -> Int]
    BY <1>3
  <2>2. g = [f EXCEPT ![r] = f[r] + delta]
    OBVIOUS
  <2>3. SumFunctionOnSet(balance, AccountRow) =
          SumFunctionOnSet(Opening, AccountRow) + SumFunctionOnSet(f, Request)
    BY DEF LedgerInv
  <2> HIDE DEF f, g
  <2>4. SumFunctionOnSet(g, Request) = SumFunctionOnSet(f, Request) + delta
    BY <1>1, <2>1, <2>2, SumShift
  <2>5. SumFunctionOnSet(balance', AccountRow) = SumFunctionOnSet(balance, AccountRow) + delta
    <3>1. PICK before, after : before = balance /\ after = balance'
      OBVIOUS
    <3>2. before \in [AccountRow -> Int]
      BY <1>2, <3>1
    <3>3. after = [before EXCEPT ![account] = before[account] + delta]
      BY <3>1
    <3>4. SumFunctionOnSet(after, AccountRow) = SumFunctionOnSet(before, AccountRow) + delta
      BY <1>1, <3>2, <3>3, SumShift
    <3> QED
      BY <3>1, <3>4
  <2>6. /\ SumFunctionOnSet(f, Request) \in Int
        /\ SumFunctionOnSet(Opening, AccountRow) \in Int
    BY <1>1, <2>1, SumIsInt, OpeningAssumption
  <2>7. SumFunctionOnSet(balance', AccountRow) =
          SumFunctionOnSet(Opening, AccountRow) + SumFunctionOnSet(g, Request)
    BY <2>3, <2>4, <2>5, <2>6
  <2> QED
    BY <2>7 DEF g
<1> QED
  BY <1>5, <1>6 DEF LedgerInv

(* The legs of r account for delta at one account.                         *)
LegsDo(r, account, delta) ==
  /\ Gain(r)' = Gain(r) + delta
  /\ \A a \in AccountRow : Change(r, a)' = Change(r, a) + (IF a = account THEN delta ELSE 0)

LEMMA LegShiftsLedger ==
  ASSUME TypeOK, TypeOK', LedgerInv, NEW r \in Request, NEW at, NEW next, NEW account, NEW delta,
         Leg(r, at, next, account, delta), LegsDo(r, account, delta)
  PROVE  LedgerInv'
<1>1. /\ account \in AccountRow /\ delta \in Int
      /\ balance' = [balance EXCEPT ![account] = @ + delta]
  BY DEF Leg
<1>2. \A q \in Request \ {r} :
        Gain(q)' = Gain(q) /\ \A a \in AccountRow : Change(q, a)' = Change(q, a)
  BY DEF Leg, OnlyOwn, Gain, Change
<1>3. /\ Gain(r)' = Gain(r) + delta
      /\ \A a \in AccountRow : Change(r, a)' = Change(r, a) + (IF a = account THEN delta ELSE 0)
  BY DEF LegsDo
<1> QED
  BY <1>1, <1>2, <1>3, ShiftLedger

(* What any counted legs do to what r has done to the balances.            *)
LEMMA LegsChange ==
  ASSUME TypeOK, NEW r \in Request, NEW d \in 0..1, NEW c \in 0..1, NEW f \in 0..1,
         form' = form, Legs(r, d, c, f)
  PROVE  /\ Gain(r)' = Gain(r) + form[r].amount * (c + f - d)
         /\ \A a \in AccountRow :
              Change(r, a)' = Change(r, a)
                + (IF form[r].to = a THEN form[r].amount * c ELSE 0)
                + (IF form[r].from = a THEN form[r].amount * (f - d) ELSE 0)
<1>1. PICK m \in Int, x \in Int, y \in Int, z \in Int :
        m = form[r].amount /\ x = debits[r] /\ y = credits[r] /\ z = refunds[r]
  BY RequestFields
<1>2. debits'[r] = x + d /\ credits'[r] = y + c /\ refunds'[r] = z + f
  BY <1>1 DEF Legs
<1>3. /\ m * (y + c) = m * y + m * c
      /\ m * ((z + f) - (x + d)) = m * (z - x) + m * (f - d)
      /\ m * ((y + c) + (z + f) - (x + d)) = m * (y + z - x) + m * (c + f - d)
  OBVIOUS
<1>4. /\ m * y \in Int /\ m * c \in Int /\ m * (z - x) \in Int /\ m * (f - d) \in Int
  OBVIOUS
<1>5. Gain(r) = m * (y + z - x) /\ Gain(r)' = m * ((y + c) + (z + f) - (x + d))
  BY <1>1, <1>2 DEF Gain
<1>6. ASSUME NEW a \in AccountRow
      PROVE  Change(r, a)' = Change(r, a) + (IF form[r].to = a THEN m * c ELSE 0)
                               + (IF form[r].from = a THEN m * (f - d) ELSE 0)
  <2>1. Change(r, a) = (IF form[r].to = a THEN m * y ELSE 0)
                         + (IF form[r].from = a THEN m * (z - x) ELSE 0)
    BY <1>1 DEF Change
  <2>2. Change(r, a)' = (IF form[r].to = a THEN m * (y + c) ELSE 0)
                          + (IF form[r].from = a THEN m * ((z + f) - (x + d)) ELSE 0)
    BY <1>1, <1>2 DEF Change
  <2> QED
    BY <1>3, <1>4, <2>1, <2>2
<1> QED
  BY <1>1, <1>3, <1>5, <1>6

LEMMA MoneyKeepsLedger ==
  ASSUME CoreInv, TypeOK', LedgerInv, NEW r \in Request, MovesMoney(r)
  PROVE  LedgerInv'
<1>0. /\ TypeOK /\ form[r].amount \in Int /\ -form[r].amount \in Int
  BY RequestFields DEF CoreInv
<1> DEFINE m == form[r].amount
<1>6. /\ Gain(r) \in Int /\ \A a \in AccountRow : Change(r, a) \in Int
      /\ m \in Int /\ m * 1 = m /\ m * 0 = 0 /\ m * (0 - 1) = -m
  BY <1>0, ChangeIsInt
<1>1. CASE Debit(r)
  <2>1. Leg(r, "debit", "credit", form[r].from, -form[r].amount) /\ Legs(r, 1, 0, 0)
    BY <1>1, MoneyLegs
  <2>2. form' = form
    BY <2>1 DEF Leg
  <2>3. /\ Gain(r)' = Gain(r) + m * (0 + 0 - 1)
        /\ \A a \in AccountRow :
             Change(r, a)' = Change(r, a) + (IF form[r].to = a THEN m * 0 ELSE 0)
                               + (IF form[r].from = a THEN m * (0 - 1) ELSE 0)
    BY <1>0, <2>1, <2>2, LegsChange
  <2>4. LegsDo(r, form[r].from, -form[r].amount)
    BY <1>6, <2>3 DEF LegsDo
  <2> QED
    BY <1>0, <2>1, <2>4, LegShiftsLedger
<1>2. CASE Credit(r)
  <2>1. Leg(r, "credit", "markCompleted", form[r].to, form[r].amount) /\ Legs(r, 0, 1, 0)
    BY <1>2, MoneyLegs
  <2>2. form' = form
    BY <2>1 DEF Leg
  <2>3. /\ Gain(r)' = Gain(r) + m * (1 + 0 - 0)
        /\ \A a \in AccountRow :
             Change(r, a)' = Change(r, a) + (IF form[r].to = a THEN m * 1 ELSE 0)
                               + (IF form[r].from = a THEN m * (0 - 0) ELSE 0)
    BY <1>0, <2>1, <2>2, LegsChange
  <2>4. LegsDo(r, form[r].to, form[r].amount)
    BY <1>6, <2>3 DEF LegsDo
  <2> QED
    BY <1>0, <2>1, <2>4, LegShiftsLedger
<1>3. CASE ExternalDebit(r)
  <2>1. Leg(r, "extDebit", "send", form[r].from, -form[r].amount) /\ Legs(r, 1, 0, 0)
    BY <1>3, MoneyLegs
  <2>2. form' = form
    BY <2>1 DEF Leg
  <2>3. /\ Gain(r)' = Gain(r) + m * (0 + 0 - 1)
        /\ \A a \in AccountRow :
             Change(r, a)' = Change(r, a) + (IF form[r].to = a THEN m * 0 ELSE 0)
                               + (IF form[r].from = a THEN m * (0 - 1) ELSE 0)
    BY <1>0, <2>1, <2>2, LegsChange
  <2>4. LegsDo(r, form[r].from, -form[r].amount)
    BY <1>6, <2>3 DEF LegsDo
  <2> QED
    BY <1>0, <2>1, <2>4, LegShiftsLedger
<1>4. CASE Refund(r)
  <2>1. Leg(r, "refund", "markRefused", form[r].from, form[r].amount) /\ Legs(r, 0, 0, 1)
    BY <1>4, MoneyLegs
  <2>2. form' = form
    BY <2>1 DEF Leg
  <2>3. /\ Gain(r)' = Gain(r) + m * (0 + 1 - 0)
        /\ \A a \in AccountRow :
             Change(r, a)' = Change(r, a) + (IF form[r].to = a THEN m * 0 ELSE 0)
                               + (IF form[r].from = a THEN m * (1 - 0) ELSE 0)
    BY <1>0, <2>1, <2>2, LegsChange
  <2>4. LegsDo(r, form[r].from, form[r].amount)
    BY <1>6, <2>3 DEF LegsDo
  <2> QED
    BY <1>0, <2>1, <2>4, LegShiftsLedger
<1>5. CASE CatchRefund(r)
  <2>1. Leg(r, "catchRefund", "catchStatus", form[r].from, form[r].amount) /\ Legs(r, 0, 0, 1)
    BY <1>5, MoneyLegs
  <2>2. form' = form
    BY <2>1 DEF Leg
  <2>3. /\ Gain(r)' = Gain(r) + m * (0 + 1 - 0)
        /\ \A a \in AccountRow :
             Change(r, a)' = Change(r, a) + (IF form[r].to = a THEN m * 0 ELSE 0)
                               + (IF form[r].from = a THEN m * (1 - 0) ELSE 0)
    BY <1>0, <2>1, <2>2, LegsChange
  <2>4. LegsDo(r, form[r].from, form[r].amount)
    BY <1>6, <2>3 DEF LegsDo
  <2> QED
    BY <1>0, <2>1, <2>4, LegShiftsLedger
<1> QED
  BY <1>1, <1>2, <1>3, <1>4, <1>5 DEF MovesMoney

LEMMA InitLedger == Init => LedgerInv
<1> SUFFICES ASSUME Init PROVE LedgerInv
  OBVIOUS
<1>1. \A r \in Request :
        /\ form[r].amount \in Int
        /\ debits[r] = 0 /\ credits[r] = 0 /\ refunds[r] = 0
  BY AmountAssumption DEF Init
<1>2. \A r \in Request : Gain(r) = 0 /\ \A a \in AccountRow : Change(r, a) = 0
  BY <1>1 DEF Gain, Change
<1>3. ASSUME NEW a \in AccountRow
      PROVE  balance[a] = Opening[a]
               + SumFunctionOnSet([r \in Request |-> Change(r, a)], Request)
  <2>1. SumFunctionOnSet([r \in Request |-> Change(r, a)], Request) = 0
    BY <1>2, FiniteAssumption, SumZeros
  <2> QED
    BY <2>1, OpeningAssumption DEF Init
<1>4. SumFunctionOnSet([r \in Request |-> Gain(r)], Request) = 0
  BY <1>2, FiniteAssumption, SumZeros
<1>5. SumFunctionOnSet(Opening, AccountRow) \in Int
  BY FiniteAssumption, OpeningAssumption, SumIsInt
<1> QED
  BY <1>3, <1>4, <1>5 DEF LedgerInv, Init

LEMMA NextLedger ==
  ASSUME CoreInv, TypeOK', LedgerInv, [Next]_vars
  PROVE  LedgerInv'
<1>1. CASE UNCHANGED ledger
  BY <1>1, NextFormStays DEF ledger, LedgerInv, Gain, Change
<1>2. CASE \E r \in Request : MovesMoney(r)
  BY <1>2, MoneyKeepsLedger
<1> QED
  BY <1>1, <1>2, OtherStepsKeep

-----------------------------------------------------------------------------
(***************************************************************************)
(* The theorems.                                                           *)
(***************************************************************************)

(* How far each leg is at each await, what the rows say and what the       *)
(* balances add up to, in every reachable state.                           *)
THEOREM Invariance == Spec => [](IInv /\ OneStatementEach)
<1>1. Init => IInv /\ OneStatementEach
  BY InitCore, InitDetail, InitLedger, InitQueue DEF IInv, DetailInv
<1>2. IInv /\ OneStatementEach /\ [Next]_vars => IInv' /\ OneStatementEach'
  <2> SUFFICES ASSUME IInv, OneStatementEach, [Next]_vars
               PROVE  IInv' /\ OneStatementEach'
    OBVIOUS
  <2>1. CoreInv /\ LedgerInv /\ \A q \in Request : DetailInv(q)
    BY DEF IInv, DetailInv
  <2>2. CoreInv' /\ OneStatementEach'
    BY <2>1, NextPreservesCore
  <2>3. \A q \in Request : DetailInv(q)'
    BY <2>1, <2>2, NextDetail
  <2>4. LedgerInv'
    <3>1. TypeOK'
      BY <2>2 DEF CoreInv
    <3> QED
      BY <2>1, <3>1, NextLedger
  <2> QED
    BY <2>2, <2>3, <2>4 DEF IInv, DetailInv
<1> QED
  BY <1>1, <1>2, PTL DEF Spec

(***************************************************************************)
(* What a request inside the bank has done to the balances.                *)
(***************************************************************************)
LEMMA InternalGain ==
  ASSUME IInv, NEW r \in Request, form[r].to \in Prefixed
  PROVE  /\ Gain(r) \in Int /\ form[r].amount \in Int
         /\ Gain(r) <= 0
         /\ -Gain(r) <= IF status[r] \in {"pending", "failed"} THEN form[r].amount ELSE 0
<1>1. LegsInv(r) /\ RouteInv(r) /\ RowInv(r) /\ TypeOK
  BY DEF IInv, CoreInv
<1>2. PICK m \in Int, d \in 0..1, c \in 0..1 :
        m = form[r].amount /\ d = debits[r] /\ c = credits[r]
  BY <1>1, RequestFields DEF LegsInv
<1>3. refunds[r] = 0
  BY <1>1, RequestFields DEF RouteInv
<1>4. c <= d
  BY <1>1, <1>2 DEF LegsInv
<1>5. d = 1 \/ status[r] # "absent" => m > 0
  BY <1>1, <1>2 DEF LegsInv, RowInv, RouteInv, Unpaid, Valid
<1>6. d = 1 /\ c = 0 => status[r] \in {"pending", "failed"}
  BY <1>1, <1>2 DEF RowInv
<1>7. Gain(r) = m * (c + 0 - d)
  BY <1>2, <1>3 DEF Gain
<1>8. m * (0 + 0 - 0) = 0 /\ m * (0 + 0 - 1) = -m /\ m * (1 + 0 - 1) = 0
  OBVIOUS
<1>9. \/ d = 0 /\ c = 0 /\ Gain(r) = 0
      \/ d = 1 /\ c = 0 /\ Gain(r) = -m
      \/ d = 1 /\ c = 1 /\ Gain(r) = 0
  BY <1>4, <1>7, <1>8
<1>10. status[r] \in {"pending", "failed"} => m > 0
  BY <1>5
<1>11. m = form[r].amount
  BY <1>2
<1> QED
  BY <1>5, <1>6, <1>9, <1>10, <1>11

LEMMA SumsOfBalances ==
  ASSUME TypeOK
  PROVE  /\ SumFunction(balance) = SumFunctionOnSet(balance, AccountRow)
         /\ SumFunction(Opening) = SumFunctionOnSet(Opening, AccountRow)
         /\ SumFunctionOnSet(balance, AccountRow) \in Int
         /\ SumFunctionOnSet(Opening, AccountRow) \in Int
<1>1. /\ DOMAIN balance = AccountRow /\ \A a \in AccountRow : balance[a] \in Int
      /\ DOMAIN Opening = AccountRow /\ \A a \in AccountRow : Opening[a] \in Int
  BY OpeningAssumption DEF TypeOK
<1> QED
  BY <1>1, FiniteAssumption, SumIsInt DEF SumFunction

(* The bank never holds more money than it started with.                   *)
THEOREM NoMoneyCreated == Spec => []MoneyNeverCreated
<1>1. IInv => MoneyNeverCreated
  <2> SUFFICES ASSUME IInv, InternalOnly
               PROVE  SumFunction(balance) <= SumFunction(Opening)
    BY DEF MoneyNeverCreated
  <2> DEFINE gain == [r \in Request |-> Gain(r)]
             zero == [r \in Request |-> 0]
  <2>1. \A r \in Request : gain[r] \in Int /\ zero[r] \in Int /\ gain[r] <= zero[r]
    BY InternalGain DEF InternalOnly
  <2>2. \A r \in Request : zero[r] = 0
    OBVIOUS
  <2>3. SumFunctionOnSet(balance, AccountRow) =
          SumFunctionOnSet(Opening, AccountRow) + SumFunctionOnSet(gain, Request)
    BY DEF IInv, LedgerInv
  <2> HIDE DEF gain, zero
  <2>4. SumFunctionOnSet(gain, Request) <= SumFunctionOnSet(zero, Request)
    BY <2>1, FiniteAssumption, SumMonotone
  <2>5. SumFunctionOnSet(zero, Request) = 0
    BY <2>2, FiniteAssumption, SumZeros
  <2>6. SumFunctionOnSet(gain, Request) \in Int
    BY <2>1, FiniteAssumption, SumIsInt
  <2> QED
    BY <2>3, <2>4, <2>5, <2>6, SumsOfBalances DEF IInv, CoreInv
<1> QED
  BY <1>1, Invariance, PTL

(* What is missing from the balances is in rows that are still open.       *)
THEOREM MissingIsOpen == Spec => []MissingMoneyIsOpen
<1>1. IInv => MissingMoneyIsOpen
  <2> DEFINE open == {r \in Request : status[r] \in {"pending", "failed"}}
  <2> SUFFICES ASSUME IInv, InternalOnly
               PROVE  SumFunction(Opening) - SumFunction(balance) <= Total(open)
    BY DEF MissingMoneyIsOpen
  <2> DEFINE gain == [r \in Request |-> Gain(r)]
             zero == [r \in Request |-> 0]
             lost == [r \in Request |-> 0 - Gain(r)]
             amounts == [r \in Request |-> form[r].amount]
             owed == [r \in Request |-> IF r \in open THEN form[r].amount ELSE 0]
  <2>1. ASSUME NEW r \in Request
        PROVE  /\ gain[r] \in Int /\ zero[r] \in Int /\ lost[r] = zero[r] - gain[r]
               /\ amounts[r] \in Int /\ owed[r] \in Int /\ lost[r] \in Int
               /\ lost[r] <= owed[r]
    <3>1. /\ Gain(r) \in Int /\ form[r].amount \in Int
          /\ -Gain(r) <= IF status[r] \in {"pending", "failed"} THEN form[r].amount ELSE 0
      BY InternalGain DEF InternalOnly
    <3> QED
      BY <3>1
  <2>2. /\ \A r \in open : owed[r] = amounts[r]
        /\ \A r \in Request \ open : owed[r] = 0
        /\ \A r \in Request : zero[r] = 0
        /\ open \in SUBSET Request
    OBVIOUS
  <2>3. SumFunctionOnSet(balance, AccountRow) =
          SumFunctionOnSet(Opening, AccountRow) + SumFunctionOnSet(gain, Request)
    BY DEF IInv, LedgerInv
  <2>4. Total(open) = SumFunctionOnSet(amounts, open)
    BY DEF Total
  <2> HIDE DEF gain, zero, lost, amounts, owed, open
  <2>5. SumFunctionOnSet(amounts, open) = SumFunctionOnSet(owed, Request)
    BY <2>1, <2>2, FiniteAssumption, SumOverPart
  <2>6. SumFunctionOnSet(lost, Request) <= SumFunctionOnSet(owed, Request)
    BY <2>1, FiniteAssumption, SumMonotone
  <2>7. SumFunctionOnSet(lost, Request) =
          SumFunctionOnSet(zero, Request) - SumFunctionOnSet(gain, Request)
    BY <2>1, FiniteAssumption, SumDifference
  <2>8. SumFunctionOnSet(zero, Request) = 0
    BY <2>2, FiniteAssumption, SumZeros
  <2>9. SumFunctionOnSet(gain, Request) \in Int /\ SumFunctionOnSet(owed, Request) \in Int
    BY <2>1, FiniteAssumption, SumIsInt
  <2> QED
    BY <2>3, <2>4, <2>5, <2>6, <2>7, <2>8, <2>9, SumsOfBalances DEF IInv, CoreInv
<1> QED
  BY <1>1, Invariance, PTL

(* What a request inside the bank has done once every handler has answered *)
(* and nothing failed.                                                     *)
LEMMA SettledShare ==
  ASSUME IInv, NEW r \in Request, form[r].to \in Prefixed,
         pc[r] \in Terminal \cup Unstarted, faults = 0, credits[r] = debits[r]
  PROVE  /\ refunds[r] = 0
         /\ status[r] = "completed" => credits[r] = 1
         /\ status[r] # "completed" => credits[r] = 0
<1>1. LegsInv(r) /\ RouteInv(r) /\ RowInv(r) /\ AnswerInv(r) /\ CalmInv(r) /\ TypeOK
  BY DEF IInv, CoreInv
<1>2. refunds[r] = 0
  BY <1>1, RequestFields DEF RouteInv
<1>3. credits[r] \in 0..1
  BY <1>1 DEF LegsInv
<1>4. CASE pc[r] = "201"
  BY <1>1, <1>2, <1>3, <1>4 DEF AnswerInv, RowTellsArrival
<1>5. CASE pc[r] # "201"
  <2>1. pc[r] \in {"idle", "400", "403", "404", "500"}
    BY <1>1, <1>5 DEF CalmInv, Terminal, Unstarted
  <2>2. status[r] = "absent"
    BY <1>1, <2>1 DEF CalmInv, RowInv
  <2>3. debits[r] = 0
    BY <1>1, <2>2 DEF RowInv
  <2> QED
    BY <1>2, <2>2, <2>3
<1> QED
  BY <1>4, <1>5

(* At rest and without faults the balances are the opening balances and    *)
(* the completed rows.                                                     *)
THEOREM RowsReconcile == Spec => []Reconciles
<1>1. IInv => Reconciles
  <2> SUFFICES ASSUME IInv, InternalOnly, AtRest, faults = 0, credits = debits,
                      NEW a \in AccountRow
               PROVE  balance[a] = Opening[a]
                        + Total({r \in Request : status[r] = "completed" /\ form[r].to = a})
                        - Total({r \in Request : status[r] = "completed" /\ form[r].from = a})
    BY DEF Reconciles
  <2> DEFINE in == {r \in Request : status[r] = "completed" /\ form[r].to = a}
             out == {r \in Request : status[r] = "completed" /\ form[r].from = a}
             amounts == [r \in Request |-> form[r].amount]
             got == [r \in Request |-> IF r \in in THEN form[r].amount ELSE 0]
             gave == [r \in Request |-> IF r \in out THEN form[r].amount ELSE 0]
             change == [r \in Request |-> Change(r, a)]
  <2>1. ASSUME NEW r \in Request
        PROVE  got[r] \in Int /\ gave[r] \in Int /\ change[r] = got[r] - gave[r]
    <3>1. /\ refunds[r] = 0 /\ debits[r] = credits[r]
          /\ status[r] = "completed" => credits[r] = 1
          /\ status[r] # "completed" => credits[r] = 0
      BY SettledShare DEF InternalOnly, AtRest
    <3>2. PICK m \in Int : m = form[r].amount
      BY RequestFields DEF IInv, CoreInv
    <3>3. m * 0 = 0 /\ m * 1 = m /\ m * (0 - 1) = -m /\ m * (0 - 0) = 0
      OBVIOUS
    <3>4. CASE status[r] = "completed"
      <4>1. Change(r, a) = (IF form[r].to = a THEN m * 1 ELSE 0)
                             + (IF form[r].from = a THEN m * (0 - 1) ELSE 0)
        BY <3>1, <3>2, <3>4 DEF Change
      <4> QED
        BY <3>2, <3>3, <3>4, <4>1
    <3>5. CASE status[r] # "completed"
      <4>1. Change(r, a) = (IF form[r].to = a THEN m * 0 ELSE 0)
                             + (IF form[r].from = a THEN m * (0 - 0) ELSE 0)
        BY <3>1, <3>2, <3>5 DEF Change
      <4> QED
        BY <3>2, <3>3, <3>5, <4>1
    <3> QED
      BY <3>4, <3>5
  <2>2. /\ in \in SUBSET Request /\ out \in SUBSET Request
        /\ \A r \in in : amounts[r] \in Int /\ got[r] = amounts[r]
        /\ \A r \in Request \ in : got[r] = 0
        /\ \A r \in out : amounts[r] \in Int /\ gave[r] = amounts[r]
        /\ \A r \in Request \ out : gave[r] = 0
    BY RequestFields DEF IInv, CoreInv
  <2>3. balance[a] = Opening[a] + SumFunctionOnSet(change, Request)
    BY DEF IInv, LedgerInv
  <2>4. /\ Total(in) = SumFunctionOnSet(amounts, in)
        /\ Total(out) = SumFunctionOnSet(amounts, out)
    BY DEF Total
  <2> HIDE DEF in, out, amounts, got, gave, change
  <2>5. SumFunctionOnSet(amounts, in) = SumFunctionOnSet(got, Request)
    BY <2>2, FiniteAssumption, SumOverPart
  <2>6. SumFunctionOnSet(amounts, out) = SumFunctionOnSet(gave, Request)
    BY <2>2, FiniteAssumption, SumOverPart
  <2>7. SumFunctionOnSet(change, Request) =
          SumFunctionOnSet(got, Request) - SumFunctionOnSet(gave, Request)
    BY <2>1, FiniteAssumption, SumDifference
  <2>8. /\ SumFunctionOnSet(got, Request) \in Int /\ SumFunctionOnSet(gave, Request) \in Int
        /\ Opening[a] \in Int
    BY <2>1, FiniteAssumption, OpeningAssumption, SumIsInt
  <2>9. balance[a] = Opening[a] + Total(in) - Total(out)
    BY <2>3, <2>4, <2>5, <2>6, <2>7, <2>8
  <2> QED
    BY <2>9 DEF in, out
<1> QED
  BY <1>1, Invariance, PTL

(* The row of an answered transfer inside the bank tells whether the money *)
(* arrived, over every table (the closing UPDATEs of                       *)
(* processInternalTransaction, and the one that lacks its column).         *)
THEOREM RowsTellArrival == Spec => []AnswerTellsRow
<1>1. IInv => AnswerTellsRow
  BY DEF IInv, AnswerInv, AnswerTellsRow
<1> QED
  BY <1>1, Invariance, PTL

-----------------------------------------------------------------------------
(***************************************************************************)
(* The funds check.                                                        *)
(***************************************************************************)

(* What a handler compares is the balance it read, and what it awaits then *)
(* rests on the comparison.                                                *)
Holding == {"readTo", "debit", "extDebit"}

Stands(r) ==
  /\ seen'[r] # seen[r] => pc[r] \in {"readFrom", "funds"}
  /\ pc'[r] \in Holding =>
       \/ pc[r] \in Holding /\ seen'[r] = seen[r]
       \/ seen'[r] = balance[form[r].from]
  /\ pc'[r] \in {"debit", "extDebit"} =>
       pc[r] \in {"debit", "extDebit"} \/ HasFunds(seen'[r], form[r].amount)

Others(r) == \A q \in Request \ {r} : pc'[q] = pc[q] /\ seen'[q] = seen[q]

LEMMA OwnStands ==
  ASSUME NEW r \in Request, Others(r), Stands(r)
  PROVE  \A q \in Request : Stands(q)
BY DEF Others, Stands

(* Where a handler is when its next await is none of the three.            *)
Elsewhere == Label \ Holding

LEMMA CatchElsewhere == \A l \in DatabaseLabel : CatchOf(l) \in Elsewhere
BY CatchTargets DEF InternalLabel, ExternalLabel, CatchLabel, RouteLabel, HttpLabel,
                    DatabaseLabel, Elsewhere, Holding, Label, Terminal

LEMMA MovesElsewhere ==
  ASSUME NEW r \in Request, pc'[r] \in Elsewhere, seen' = seen,
         \A q \in Request \ {r} : pc'[q] = pc[q]
  PROVE  \A q \in Request : Stands(q)
BY OwnStands DEF Others, Stands, Elsewhere, Holding

LEMMA StatementStands ==
  ASSUME TypeOK, NEW r \in Request, NEW at \in DatabaseLabel, NEW next \in Elsewhere,
         Executes(r, at), Replies(r, next), seen' = seen
  PROVE  \A q \in Request : Stands(q)
<1>1. Advances(r, {next, CatchOf(at)})
  BY RepliesAdvances DEF Elsewhere
<1>2. pc'[r] \in Elsewhere
  BY <1>1, CatchElsewhere DEF Advances
<1> QED
  BY <1>1, <1>2, MovesElsewhere DEF Advances

LEMMA HandlerStands ==
  ASSUME TypeOK, OneStatementEach, NEW r \in Request, Arrive(r) \/ Handler(r)
  PROVE  \A q \in Request : Stands(q)
<1> USE DEF InternalLabel, ExternalLabel, CatchLabel, RouteLabel, HttpLabel, DatabaseLabel, Holding
<1>1. CASE Arrive(r)
  <2>1. /\ pc'[r] \in {"lookup", "400"} /\ seen' = seen
        /\ \A q \in Request \ {r} : pc'[q] = pc[q]
    BY <1>1 DEF Arrive, Issues, TypeOK
  <2> QED
    BY <2>1, MovesElsewhere DEF Elsewhere, Label, Terminal
<1>2. CASE Route(r)
  <2>1. AfterLookup(r) \in Elsewhere /\ AfterReread(r) \in Elsewhere
    BY DEF AfterLookup, AfterReread, Elsewhere, Label, Terminal
  <2>2. "reread" \in Elsewhere /\ "201" \in Elsewhere
    BY DEF Elsewhere, Label, Terminal
  <2> QED
    BY <1>2, <2>1, <2>2, StatementStands
    DEF Route, LookupSource, InsertRow, RereadRow, Respond, Reads, ReadsSource, SetsStatus
<1>3. CASE ReadFrom(r)
  <2>1. /\ Executes(r, "readFrom") /\ Replies(r, "readTo")
        /\ seen' = [seen EXCEPT ![r] = balance[form[r].from]]
    BY <1>3 DEF ReadFrom, ReadsSource
  <2>2. Advances(r, {"readTo", CatchOf("readFrom")}) /\ pc[r] = "readFrom"
    BY <2>1, RepliesAdvances DEF Label, Executes
  <2>3. CatchOf("readFrom") \in Elsewhere
    BY CatchElsewhere
  <2>4. Others(r) /\ seen'[r] = balance[form[r].from]
    BY <2>1, <2>2 DEF TypeOK, Others, Advances
  <2>5. Stands(r)
    BY <2>2, <2>3, <2>4 DEF Stands, Advances, Elsewhere
  <2> QED
    BY <2>4, <2>5, OwnStands
<1>4. CASE ReadTo(r)
  <2> DEFINE next == AfterReadTo(r)
  <2>1. /\ next \in {"reject", "debit"}
        /\ next = "debit" => HasFunds(seen[r], form[r].amount)
    BY DEF AfterReadTo
  <2>2. next \in Label
    BY <2>1 DEF Label
  <2> HIDE DEF next
  <2>3. Executes(r, "readTo") /\ Replies(r, next) /\ seen' = seen
    BY <1>4 DEF ReadTo, Reads, ReadsSource, next
  <2>4. Advances(r, {next, CatchOf("readTo")}) /\ pc[r] = "readTo"
    BY <2>2, <2>3, RepliesAdvances DEF Executes
  <2>5. CatchOf("readTo") \in Elsewhere
    BY CatchElsewhere
  <2>6. Stands(r) /\ Others(r)
    BY <2>1, <2>3, <2>4, <2>5 DEF Stands, Others, Advances, Elsewhere
  <2> QED
    BY <2>6, OwnStands
<1>5. CASE CheckFunds(r)
  <2> DEFINE next == AfterFunds(r)
  <2>1. /\ next \in {"catchRead", "extDebit"}
        /\ next = "extDebit" => HasFunds(balance[form[r].from], form[r].amount)
    BY DEF AfterFunds
  <2>2. next \in Label
    BY <2>1 DEF Label
  <2> HIDE DEF next
  <2>3. /\ Executes(r, "funds") /\ Replies(r, next)
        /\ seen' = [seen EXCEPT ![r] = balance[form[r].from]]
    BY <1>5 DEF CheckFunds, ReadsSource, next
  <2>4. Advances(r, {next, CatchOf("funds")}) /\ pc[r] = "funds"
    BY <2>2, <2>3, RepliesAdvances DEF Executes
  <2>5. CatchOf("funds") \in Elsewhere
    BY CatchElsewhere
  <2>6. Stands(r) /\ Others(r)
    <3>1. seen'[r] = balance[form[r].from] /\ \A q \in Request \ {r} : seen'[q] = seen[q]
      BY <2>3 DEF TypeOK
    <3> QED
      BY <2>1, <2>4, <2>5, <3>1 DEF Stands, Others, Advances, Elsewhere
  <2> QED
    BY <2>6, OwnStands
<1>6. CASE ProcessInternal(r) /\ ~ReadFrom(r) /\ ~ReadTo(r)
  <2>1. {"markPending", "readFrom", "credit", "markCompleted", "respond"} \subseteq Elsewhere
    BY DEF Elsewhere, Label
  <2> QED
    BY <1>6, <2>1, StatementStands
    DEF ProcessInternal, FetchRow, MarkPending, Reject, Debit, Credit, MarkCompleted,
        MarkFailed, Reads, ReadsSource, SetsStatus, Moves
<1>7. CASE ProcessExternal(r) /\ ~CheckFunds(r)
  <2>1. {"send", "await", "stranded", "refund", "refundRead", "markAccepted", "markRefused",
         "catchRefund", "catchStatus", "respond"} \subseteq Elsewhere
    BY DEF Elsewhere, Label
  <2>2. AfterAnswer(r) \in Elsewhere
    BY <2>1 DEF AfterAnswer
  <2>3. CASE SendFails(r) \/ AnswerArrives(r) \/ GivesUp(r) \/ Posts(r) \/ BreaksOff(r)
    <3>1. /\ pc'[r] \in Elsewhere /\ seen' = seen
          /\ \A q \in Request \ {r} : pc'[q] = pc[q]
      BY <2>1, <2>2, <2>3 DEF SendFails, AnswerArrives, GivesUp, Posts, BreaksOff, Issues, TypeOK
    <3> QED
      BY <3>1, MovesElsewhere
  <2> QED
    BY <1>7, <2>1, <2>3, StatementStands
    DEF ProcessExternal, ExternalDebit, MarkAccepted, ReadForRefund, Refund,
        MarkRefused, ReadInCatch, CatchRefund, CatchStatus, Refunds, Reads, ReadsSource, SetsStatus, Moves
<1>8. CASE Rejected(r)
  <2>1. Served(r) /\ Raises(r) /\ seen' = seen
    BY <1>8 DEF Rejected, UnknownColumn, OutOfRange, Broken
  <2>2. pc[r] \in DatabaseLabel
    BY <2>1, ServedWaits
  <2>3. /\ pc'[r] = CatchOf(pc[r])
        /\ \A q \in Request \ {r} : pc'[q] = pc[q]
    BY <2>1 DEF Raises, Leaves, TypeOK
  <2> QED
    BY <2>1, <2>2, <2>3, CatchElsewhere, MovesElsewhere
<1> QED
  BY <1>1, <1>2, <1>3, <1>4, <1>5, <1>6, <1>7, <1>8 DEF Handler

(* A check that let a request through is remembered as it was.             *)
LEMMA StaysChecked ==
  ASSUME IInv, form' = form, NEW r \in Request, Stands(r), Checked(r),
         debits'[r] = debits[r] \/ pc[r] \in {"debit", "extDebit"}
  PROVE  Checked(r)' /\ (debits[r] = 1 => seen'[r] = seen[r])
<1>1. debits[r] = 1 \/ pc[r] \in {"debit", "extDebit"} => pc[r] \notin {"readFrom", "funds"}
  BY DEF IInv, CoreInv, LegsInv, Unpaid
<1> QED
  BY <1>1 DEF Stands, Checked, HasFunds

(* An account whose balance does not shrink and that nobody new is debited *)
(* from stays covered.                                                     *)
LEMMA GrowingStaysCovered ==
  ASSUME IInv, IInv', form' = form, NEW a \in AccountRow, Covered(a),
         balance[a] <= balance'[a], PaidFrom(a)' = PaidFrom(a),
         \A q \in Request : Stands(q) /\ (debits[q] = 1 => seen'[q] = seen[q])
  PROVE  Covered(a)'
<1>0. balance[a] \in Int /\ balance'[a] \in Int
  BY DEF IInv, CoreInv, TypeOK
<1>1. \A q \in PaidFrom(a) : Misled(q)' <=> Misled(q)
  BY DEF PaidFrom, Misled
<1>2. balance'[a] < 0 => \E r \in PaidFrom(a)' : Misled(r)' \/ \E s \in PaidFrom(a)' : s # r
  BY <1>0, <1>1 DEF Covered
<1>3. ASSUME PaidFrom(a) = {} PROVE balance[a] >= 0 /\ balance'[a] >= 0
  BY <1>0, <1>3 DEF Covered
<1>4. ASSUME PaidFrom(a) = {}, NEW r \in Request, form[r].from = a, pc'[r] \in Holding
      PROVE  seen'[r] <= balance'[a]
  <2>1. seen[r] \in Int /\ seen'[r] \in Int
    BY DEF IInv, CoreInv, TypeOK
  <2>2. \/ pc[r] \in Holding /\ seen'[r] = seen[r]
        \/ seen'[r] = balance[a]
    BY <1>4 DEF Stands
  <2>3. pc[r] \in Holding => seen[r] <= balance[a]
    BY <1>4 DEF Covered, Holding
  <2> QED
    BY <1>0, <2>1, <2>2, <2>3
<1> QED
  BY <1>2, <1>3, <1>4 DEF Covered, Holding

(* The first debit leaves what the check left, unless it was misled, and a *)
(* second one is another request's.                                        *)
LEMMA DebitStaysCovered ==
  ASSUME IInv, IInv', NEW r \in Request, NEW a \in AccountRow, Covered(a), Checked(r),
         form[r].from = a, pc[r] \in {"debit", "extDebit"}, form' = form, seen'[r] = seen[r],
         balance'[a] = balance[a] - form[r].amount, Legs(r, 1, 0, 0),
         \A q \in Request \ {r} : debits'[q] = debits[q]
  PROVE  Covered(a)'
<1>0. /\ balance[a] \in Int /\ form[r].amount \in Int /\ seen[r] \in Int
      /\ debits[r] = 0 /\ debits'[r] = 1
  <2>1. TypeOK /\ LegsInv(r)
    BY DEF IInv, CoreInv
  <2>2. balance[a] \in Int /\ seen[r] \in Int
    BY <2>1 DEF TypeOK
  <2>3. debits[r] = 0 /\ debits'[r] = 1
    BY <2>1 DEF LegsInv, Unpaid, Legs
  <2> QED
    BY <2>1, <2>2, <2>3, RequestFields
<1>1. r \in PaidFrom(a)'
  BY <1>0 DEF PaidFrom
<1>2. CASE PaidFrom(a) = {} /\ balance'[a] < 0
  <2>1. seen[r] <= balance[a]
    BY <1>2 DEF Covered
  <2>2. seen[r] < form[r].amount
    BY <1>0, <1>2, <2>1
  <2>3. Misled(r)'
    BY <2>2 DEF Misled, Checked
  <2> QED
    BY <1>1, <2>3 DEF Covered
<1>3. CASE PaidFrom(a) # {}
  <2>1. PICK s \in PaidFrom(a) : TRUE
    BY <1>3
  <2>2. s # r /\ s \in PaidFrom(a)'
    BY <1>0, <2>1 DEF PaidFrom
  <2> QED
    BY <1>1, <2>2 DEF Covered
<1>4. CASE ~(balance'[a] < 0)
  BY <1>1, <1>4 DEF Covered
<1> QED
  BY <1>2, <1>3, <1>4

(* A leg whose amount comes back or moves on only adds to a balance.       *)
LEMMA LegStaysCovered ==
  ASSUME IInv, IInv', CoverInv, OneStatementEach, NEW r \in Request, MovesMoney(r),
         \A q \in Request : Stands(q), form' = form
  PROVE  CoverInv'
<1>0. /\ CoreInv /\ balance \in [AccountRow -> Int] /\ form[r].amount \in Int
      /\ \A q \in Request : Checked(q)
      /\ \A a \in AccountRow : Covered(a)
  BY RequestFields DEF IInv, CoreInv, CoverInv, TypeOK
<1>1. CASE Debit(r) \/ ExternalDebit(r)
  <2>1. /\ pc[r] \in {"debit", "extDebit"} /\ OnlyOwn(r)
        /\ balance' = [balance EXCEPT ![form[r].from] = @ + (-form[r].amount)]
        /\ Legs(r, 1, 0, 0)
    BY <1>0, <1>1, MoneyLegs DEF Leg, Outcome
  <2>2. \A q \in Request \ {r} : debits'[q] = debits[q]
    BY <2>1 DEF OnlyOwn
  <2>3. \A q \in Request : Checked(q)' /\ (debits[q] = 1 => seen'[q] = seen[q])
    BY <1>0, <2>1, <2>2, StaysChecked
  <2>4. ASSUME NEW a \in AccountRow, form[r].from = a PROVE Covered(a)'
    <3>1. balance'[a] = balance[a] - form[r].amount
      BY <1>0, <2>1, <2>4
    <3>2. seen'[r] = seen[r]
      BY <2>1 DEF Stands
    <3> QED
      BY <1>0, <2>1, <2>2, <2>4, <3>1, <3>2, DebitStaysCovered
  <2>5. ASSUME NEW a \in AccountRow, form[r].from # a PROVE Covered(a)'
    <3>1. balance'[a] = balance[a] /\ PaidFrom(a)' = PaidFrom(a)
      BY <1>0, <2>1, <2>2, <2>5 DEF PaidFrom
    <3>2. balance[a] <= balance'[a]
      BY <1>0, <3>1
    <3> QED
      BY <1>0, <2>3, <3>1, <3>2, GrowingStaysCovered
  <2> QED
    BY <2>3, <2>4, <2>5 DEF CoverInv
<1>2. CASE Credit(r) \/ Refund(r) \/ CatchRefund(r)
  <2>1. /\ pc[r] \in {"credit", "refund", "catchRefund"}
        /\ \E b \in AccountRow : balance' = [balance EXCEPT ![b] = @ + form[r].amount]
        /\ debits' = debits
    BY <1>0, <1>2, MoneyLegs DEF Leg, Outcome, Credit, Refund, CatchRefund, Refunds
  <2>2. 0 < form[r].amount
    BY <1>0, <2>1 DEF IInv, RowInv, Valid
  <2>3. \A q \in Request : Checked(q)' /\ (debits[q] = 1 => seen'[q] = seen[q])
    BY <1>0, <2>1, StaysChecked
  <2>4. ASSUME NEW a \in AccountRow PROVE Covered(a)'
    <3>1. balance[a] <= balance'[a] /\ PaidFrom(a)' = PaidFrom(a)
      BY <1>0, <2>1, <2>2 DEF PaidFrom
    <3> QED
      BY <1>0, <2>3, <3>1, GrowingStaysCovered
  <2> QED
    BY <2>3, <2>4 DEF CoverInv
<1> QED
  BY <1>1, <1>2 DEF MovesMoney

LEMMA NextStands ==
  ASSUME TypeOK, OneStatementEach, [Next]_vars
  PROVE  \A q \in Request : Stands(q)
<1>1. CASE UNCHANGED <<pc, seen>>
  BY <1>1 DEF Stands
<1>2. CASE Restarts
  <2>1. \A q \in Request : pc'[q] \in Terminal \cup {"idle"}
    BY <1>2 DEF Restarts, Terminal
  <2> QED
    BY <1>2, <2>1 DEF Stands, Terminal, Holding, Restarts, handlers
<1>3. CASE UNCHANGED vars \/ LosesConnection \/ Done \/ \E r \in Request : PeerAnswers(r)
  BY <1>1, <1>3 DEF vars, handlers, LosesConnection, Done, PeerAnswers
<1> QED
  BY <1>2, <1>3, HandlerStands DEF Next

LEMMA NextCovers ==
  ASSUME IInv, IInv', OneStatementEach, CoverInv, [Next]_vars
  PROVE  CoverInv'
<1>1. /\ form' = form
      /\ \A q \in Request : Stands(q)
  BY NextFormStays, NextStands DEF IInv, CoreInv
<1>2. CASE UNCHANGED ledger
  <2>1. \A q \in Request : Checked(q)' /\ (debits[q] = 1 => seen'[q] = seen[q])
    BY <1>1, <1>2, StaysChecked DEF ledger, CoverInv
  <2>2. ASSUME NEW a \in AccountRow PROVE Covered(a)'
    <3>1. Covered(a) /\ balance[a] <= balance'[a] /\ PaidFrom(a)' = PaidFrom(a)
      BY <1>1, <1>2 DEF ledger, PaidFrom, CoverInv, IInv, CoreInv, TypeOK
    <3> QED
      BY <1>1, <2>1, <3>1, GrowingStaysCovered
  <2> QED
    BY <2>1, <2>2 DEF CoverInv
<1>3. CASE \E r \in Request : MovesMoney(r)
  BY <1>1, <1>3, LegStaysCovered
<1> QED
  BY <1>2, <1>3, OtherStepsKeep

(* An account is overdrawn by a request whose comparison of texts misled   *)
(* it, or by two requests whose checks (processInternalTransaction's or    *)
(* debitAccount's) both came before the other's debit.                     *)
THEOREM TwoToOverdraw ==
  ASSUME OpenedCovered
  PROVE  Spec => []OverdraftTakesTwo
<1>1. Init => CoverInv
  BY OpeningAssumption DEF Init, CoverInv, Covered, Checked, PaidFrom, OpenedCovered
<1>2. IInv /\ IInv' /\ OneStatementEach /\ CoverInv /\ [Next]_vars => CoverInv'
  BY NextCovers
<1>3. CoverInv => OverdraftTakesTwo
  BY DEF CoverInv, Covered, Checked, PaidFrom, OverdraftTakesTwo
<1> QED
  BY <1>1, <1>2, <1>3, Invariance, PTL DEF Spec

-----------------------------------------------------------------------------
(***************************************************************************)
(* The refunds.                                                            *)
(***************************************************************************)

(* No request has added more to a balance than its amount twice.           *)
LEMMA ChangeAtMost ==
  ASSUME IInv, NEW r \in Request, NEW a \in AccountRow
  PROVE  /\ Change(r, a) \in Int /\ Most(form[r]) \in Int
         /\ Change(r, a) <= Most(form[r])
<1>1. LegsInv(r) /\ RowInv(r) /\ TypeOK
  BY DEF IInv, CoreInv
<1>2. PICK m \in Int, d \in 0..1, c \in 0..1, f \in 0..2 :
        m = form[r].amount /\ d = debits[r] /\ c = credits[r] /\ f = refunds[r]
  BY <1>1, RequestFields DEF LegsInv
<1>3. c <= d
  BY <1>1, <1>2 DEF LegsInv
<1>4. Change(r, a) = (IF form[r].to = a THEN m * c ELSE 0)
                       + (IF form[r].from = a THEN m * (f - d) ELSE 0)
  BY <1>2 DEF Change
<1>5. Most(form[r]) = IF m > 0 THEN 2 * m ELSE 0
  BY <1>2 DEF Most, Valid
<1>6. CASE m > 0
  <2>1. /\ m * c \in Int /\ m * (f - d) \in Int
        /\ m * c <= m /\ m * (f - d) <= 2 * m /\ m * c + m * (f - d) <= 2 * m
    <3>1. c \in {0, 1} /\ f - d \in {-1, 0, 1, 2} /\ c + (f - d) \in {-1, 0, 1, 2}
      BY <1>3
    <3>2. m * c + m * (f - d) = m * (c + (f - d))
      OBVIOUS
    <3>3. \A k \in {-1, 0, 1, 2} : m * k \in Int /\ m * k <= 2 * m
      BY <1>6
    <3>4. c \in {-1, 0, 1, 2} /\ m * c <= m
      BY <1>6, <3>1
    <3> QED
      BY <3>1, <3>2, <3>3, <3>4
  <2> QED
    BY <1>4, <1>5, <1>6, <2>1
<1>7. CASE ~(m > 0)
  <2>1. pc[r] \in {"idle", "400"}
    BY <1>1, <1>2, <1>7 DEF RowInv, Valid
  <2>2. d = 0 /\ f = 0 /\ c = 0
    BY <1>1, <1>2, <1>3, <2>1 DEF LegsInv, Unpaid
  <2>3. m * 0 = 0 /\ m * (0 - 0) = 0
    OBVIOUS
  <2>4. Change(r, a) = 0
    BY <1>4, <2>2, <2>3
  <2> QED
    BY <1>5, <1>7, <2>4
<1> QED
  BY <1>6, <1>7

(* Where there is room, either refund fits in the column.                   *)
LEMMA RefundFits ==
  ASSUME RoomForRefunds, IInv, NEW r \in Request, pc[r] \in {"refund", "catchRefund"}
  PROVE  /\ form[r].from \in AccountRow
         /\ balance[form[r].from] + form[r].amount <= Largest
<1> USE DEF InternalLabel, ExternalLabel, CatchLabel, RouteLabel, HttpLabel, DatabaseLabel
<1> DEFINE a == form[r].from
           change == [q \in Request |-> Change(q, a)]
           larger == [change EXCEPT ![r] = change[r] + form[r].amount]
           most == [q \in Request |-> Most(form[q])]
<1>1. /\ LegsInv(r) /\ RouteInv(r) /\ RowInv(r) /\ TypeOK
      /\ a \in AccountRow /\ a \in Prefixed /\ form[r].to \notin Prefixed
  BY DEF IInv, CoreInv, RouteInv
<1>2. PICK m \in Int, d \in 0..1, f \in 0..1 :
        m = form[r].amount /\ d = debits[r] /\ f = refunds[r]
  BY <1>1, RequestFields DEF LegsInv
<1>3. m > 0 /\ Most(form[r]) = 2 * m
  BY <1>1, <1>2 DEF RowInv, Valid, Most
<1>4. Change(r, a) = m * (f - d)
  <2>1. form[r].to # a
    BY <1>1
  <2>2. m * (f - d) \in Int
    OBVIOUS
  <2> QED
    BY <1>2, <2>1, <2>2 DEF Change
<1>5. m * (f - d) + m <= 2 * m
  <2>1. f - d \in {-1, 0, 1}
    OBVIOUS
  <2>2. \A k \in {-1, 0, 1} : m * k + m <= 2 * m
    BY <1>3
  <2> QED
    BY <2>1, <2>2
<1>6. \A q \in Request : larger[q] \in Int /\ most[q] \in Int /\ larger[q] <= most[q]
  <2>1. ASSUME NEW q \in Request
        PROVE  larger[q] \in Int /\ most[q] \in Int /\ larger[q] <= most[q]
    <3>1. /\ Change(q, a) \in Int /\ Most(form[q]) \in Int
          /\ Change(q, a) <= Most(form[q])
      BY <1>1, ChangeAtMost
    <3>2. CASE q # r
      BY <3>1, <3>2
    <3>3. CASE q = r
      <4>1. larger[q] = Change(r, a) + m
        BY <1>2, <3>3
      <4> QED
        BY <1>3, <1>4, <1>5, <3>1, <3>3, <4>1
    <3> QED
      BY <3>2, <3>3
  <2> QED
    BY <2>1
<1>7. change \in [Request -> Int]
  BY <1>1, ChangeIsInt
<1>8. balance[a] = Opening[a] + SumFunctionOnSet(change, Request)
  BY <1>1 DEF IInv, LedgerInv
<1>9. Opening[a] + SumFunctionOnSet(most, Request) <= Largest
  BY <1>1 DEF RoomForRefunds, TypeOK
<1>10. larger = [change EXCEPT ![r] = change[r] + m]
  BY <1>2
<1> HIDE DEF a, change, larger, most
<1>11. SumFunctionOnSet(larger, Request) = SumFunctionOnSet(change, Request) + m
  BY <1>7, <1>10, FiniteAssumption, SumShift
<1>12. SumFunctionOnSet(larger, Request) <= SumFunctionOnSet(most, Request)
  BY <1>6, FiniteAssumption, SumMonotone
<1>13. /\ SumFunctionOnSet(change, Request) \in Int /\ SumFunctionOnSet(most, Request) \in Int
       /\ Opening[a] \in Int /\ Largest \in Int
  BY <1>1, <1>6, <1>7, FiniteAssumption, OpeningAssumption, LimitsAssumption, SumIsInt
<1>14. balance[a] + m <= Largest
  BY <1>8, <1>9, <1>11, <1>12, <1>13
<1> QED
  BY <1>1, <1>2, <1>14 DEF a

(* How a handler comes to answer, or to the last statement of its catch    *)
(* block, while nothing fails: from where it was closing already, from the *)
(* branch inside the bank, or with the sender's money settled.             *)
Settles(r) ==
  /\ debits'[r] = debits[r] /\ peer'[r] = peer[r]
  /\ \/ refunds'[r] = refunds[r]
          /\ pc[r] \in Closing \cup InternalLabel \cup {"insert", "lookup", "reread",
                                                        "markAccepted", "markRefused"}
     \/ refunds'[r] = refunds[r] + 1 /\ pc[r] = "catchRefund"

LEMMA CalmReply ==
  ASSUME TypeOK, NEW r \in Request, NEW at \in DatabaseLabel, NEW next \in Label,
         Executes(r, at), Replies(r, next), faults' = 0
  PROVE  pc[r] = at /\ pc'[r] = next
BY RepliesOutcome DEF Outcome

LEMMA RouteSettles ==
  ASSUME TypeOK, NEW r \in Request, Route(r)
  PROVE  Settles(r)
<1> USE DEF InternalLabel, ExternalLabel, CatchLabel, RouteLabel, HttpLabel, DatabaseLabel
<1>1. pc[r] \in {"lookup", "insert", "reread", "respond"}
  BY DEF Route, LookupSource, InsertRow, RereadRow, Respond, Reads, ReadsSource, SetsStatus, Executes
<1>2. UNCHANGED <<ledger, peer>>
  BY DEF Route, LookupSource, InsertRow, RereadRow, Respond, Reads, ReadsSource, SetsStatus
<1> QED
  BY <1>1, <1>2 DEF Settles, Closing, ledger

LEMMA InternalSettles ==
  ASSUME CoreInv, NEW r \in Request, ProcessInternal(r)
  PROVE  pc[r] \in InternalLabel
BY DEF ProcessInternal, FetchRow, MarkPending, ReadFrom, ReadTo, Reject, Debit, Credit,
       MarkCompleted, MarkFailed, Reads, ReadsSource, SetsStatus, Moves, Executes, InternalLabel

LEMMA ExternalSettles ==
  ASSUME CoreInv, NEW r \in Request, ProcessExternal(r), faults' = 0, pc'[r] \in Closing
  PROVE  Settles(r)
<1> USE DEF InternalLabel, ExternalLabel, CatchLabel, RouteLabel, HttpLabel, DatabaseLabel
<1>0. /\ TypeOK
      /\ {"extDebit", "catchRead", "send", "refund", "markRefused", "catchRefund",
          "catchStatus", "respond"} \subseteq Label
  BY DEF CoreInv, Label
<1>1. CASE CheckFunds(r)
  <2>1. AfterFunds(r) \in {"extDebit", "catchRead"}
    BY DEF AfterFunds
  <2>2. pc'[r] = AfterFunds(r)
    BY <1>0, <1>1, <2>1, CalmReply DEF CheckFunds, ReadsSource
  <2> QED
    BY <2>1, <2>2 DEF Closing
<1>2. CASE ExternalDebit(r) \/ ReadForRefund(r) \/ ReadInCatch(r) \/ Refund(r)
  <2>1. pc'[r] \in {"send", "refund", "catchRefund", "markRefused"}
    BY <1>0, <1>2, CalmReply DEF ExternalDebit, ReadForRefund, ReadInCatch, Refund, Refunds,
                                 Moves, Reads
  <2> QED
    BY <2>1 DEF Closing
<1>3. CASE SendFails(r) \/ Posts(r) \/ AnswerArrives(r) \/ GivesUp(r) \/ BreaksOff(r)
  <2>1. pc'[r] \in {"refundRead", "await", "markAccepted", "stranded"}
    BY <1>0, <1>3 DEF SendFails, Posts, AnswerArrives, AfterAnswer, GivesUp, BreaksOff, Issues,
                      TypeOK
  <2> QED
    BY <2>1 DEF Closing
<1>4. CASE MarkAccepted(r) \/ MarkRefused(r) \/ CatchStatus(r)
  <2>1. /\ pc[r] \in {"markAccepted", "markRefused", "catchStatus"}
        /\ UNCHANGED <<ledger, peer>>
    BY <1>4 DEF MarkAccepted, MarkRefused, CatchStatus, SetsStatus, Executes
  <2> QED
    BY <2>1 DEF Settles, Closing, ledger
<1>5. CASE CatchRefund(r)
  <2>1. Leg(r, "catchRefund", "catchStatus", form[r].from, form[r].amount) /\ Legs(r, 0, 0, 1)
    BY <1>5, MoneyLegs
  <2> QED
    BY <2>1, RequestFields DEF CoreInv, Leg, Legs, Outcome, Settles
<1> QED
  BY <1>1, <1>2, <1>3, <1>4, <1>5 DEF ProcessExternal

LEMMA RejectedSettles ==
  ASSUME RoomForRefunds, IInv, OneStatementEach, NEW r \in Request, Rejected(r),
         \A a \in AccountRow : Storable(balance[a], Largest),
         faults' = 0, pc'[r] \in Closing
  PROVE  Settles(r)
<1>1. Served(r) /\ Raises(r) /\ UNCHANGED <<ledger, peer>>
  BY DEF Rejected, UnknownColumn, OutOfRange, Broken
<1>2. /\ pc[r] \in DatabaseLabel /\ pc'[r] = CatchOf(pc[r]) /\ faults = 0
  BY <1>1, ServedWaits DEF Raises, Leaves, IInv, CoreInv, TypeOK
<1>3. /\ connected /\ TypeOK /\ RowInv(r)
  BY <1>2 DEF IInv, CoreInv, CalmInv
<1> USE DEF InternalLabel, ExternalLabel, CatchLabel, RouteLabel, HttpLabel, DatabaseLabel
<1>4. ASSUME pc[r] \in {"catchRead", "catchRefund"} PROVE FALSE
  <2>1. ~Storable(Stored(r), Largest)
    BY <1>3, <1>4 DEF Rejected, UnknownColumn, OutOfRange, Broken, DetailLabel
  <2>2. pc[r] = "catchRefund"
    BY <1>4, <2>1, OnlyMovesOverflow
  <2>3. /\ form[r].from \in AccountRow
        /\ balance[form[r].from] + form[r].amount <= Largest
    BY <2>2, RefundFits
  <2>4. /\ form[r].amount \in Int /\ balance[form[r].from] \in Int
        /\ 0 < form[r].amount /\ -Largest <= balance[form[r].from] /\ Largest \in Int
    BY <1>3, <2>2, <2>3, RequestFields, LimitsAssumption DEF RowInv, Valid, Storable, TypeOK
  <2>5. Stored(r) = balance[form[r].from] + form[r].amount
    BY <2>2 DEF Stored
  <2> QED
    BY <2>1, <2>3, <2>4, <2>5 DEF Storable
<1>5. pc[r] \notin ExternalLabel
  BY <1>2, CatchTargets DEF Closing
<1>6. pc[r] \in RouteLabel \cup InternalLabel \cup {"catchStatus"}
  BY <1>2, <1>4, <1>5
<1> QED
  BY <1>1, <1>6 DEF Settles, Closing, ledger

LEMMA SettledIsReturned ==
  ASSUME IInv, NEW r \in Request, Settles(r) \/ pc[r] \in InternalLabel,
         form' = form, Returned(r)
  PROVE  Returned(r)'
<1> SUFFICES ASSUME form[r].to \notin Prefixed, pc'[r] \in Closing, peer'[r] # "accepted"
             PROVE  refunds'[r] >= debits'[r]
  BY DEF Returned
<1>1. /\ LegsInv(r) /\ RouteInv(r) /\ AnswerInv(r)
      /\ debits[r] \in 0..1 /\ refunds[r] \in 0..2
  BY DEF IInv, CoreInv, LegsInv
<1>2. pc[r] \notin InternalLabel
  BY <1>1 DEF RouteInv
<1>3. Settles(r)
  BY <1>2
<1>4. debits'[r] = debits[r] /\ peer'[r] = peer[r]
  BY <1>3 DEF Settles
<1>5. CASE pc[r] \in Closing /\ refunds'[r] = refunds[r]
  BY <1>4, <1>5 DEF Returned
<1>6. CASE pc[r] \in {"insert", "lookup", "reread"} /\ refunds'[r] = refunds[r]
  BY <1>1, <1>4, <1>6 DEF LegsInv, Unpaid
<1>7. CASE pc[r] = "markAccepted"
  BY <1>1, <1>4, <1>7 DEF AnswerInv
<1>8. CASE pc[r] = "markRefused" /\ refunds'[r] = refunds[r]
  BY <1>1, <1>4, <1>8 DEF AnswerInv
<1>9. CASE pc[r] = "catchRefund" /\ refunds'[r] = refunds[r] + 1
  BY <1>1, <1>4, <1>9
<1> QED
  BY <1>2, <1>3, <1>5, <1>6, <1>7, <1>8, <1>9 DEF Settles

(* A handler's step leaves the others where they are, and undoes no fault. *)
LEMMA OwnFrame ==
  ASSUME CoreInv, OneStatementEach, NEW r \in Request, Arrive(r) \/ Handler(r)
  PROVE  \A q \in Request \ {r} :
           pc'[q] = pc[q] /\ peer'[q] = peer[q] /\ debits'[q] = debits[q] /\ refunds'[q] = refunds[q]
<1>0. /\ TypeOK /\ pc \in [Request -> Label]
      /\ peer \in [Request -> {"none", "sent", "accepted", "refused"}]
      /\ debits \in [Request -> Nat] /\ refunds \in [Request -> Nat]
  BY DEF CoreInv, TypeOK
<1>1. \A q \in Request \ {r} : pc'[q] = pc[q]
  BY <1>0, HandlerMoves DEF Serves, Asks, Bypasses, Leaves, Issues
<1>2. \/ UNCHANGED <<peer, debits, refunds>>
      \/ Posts(r) \/ MovesMoney(r)
  BY DEF Arrive, Handler, Route, ProcessInternal, ProcessExternal, Rejected, LookupSource,
         InsertRow, RereadRow, Respond, FetchRow, MarkPending, ReadFrom, ReadTo, Reject,
         MarkCompleted, MarkFailed, CheckFunds, SendFails, AnswerArrives, GivesUp, BreaksOff,
         MarkAccepted, ReadForRefund, MarkRefused, ReadInCatch, CatchStatus, Reads, ReadsSource, SetsStatus,
         UnknownColumn, OutOfRange, Broken, MovesMoney, ledger
<1>3. CASE Posts(r)
  BY <1>0, <1>1, <1>3 DEF Posts, ledger
<1>4. CASE MovesMoney(r)
  BY <1>1, <1>4, MoneyLegs DEF MovesMoney, Leg, OnlyOwn
<1> QED
  BY <1>0, <1>1, <1>2, <1>3, <1>4

LEMMA FaultsStay ==
  ASSUME CoreInv, NEW r \in Request, Arrive(r) \/ Handler(r), faults' = 0
  PROVE  faults = 0
<1>1. faults' = faults \/ faults' = faults + 1
  BY DEF Arrive, Handler, Route, ProcessInternal, ProcessExternal, Rejected, LookupSource,
         InsertRow, RereadRow, Respond, FetchRow, MarkPending, ReadFrom, ReadTo, Reject,
         Debit, Credit, MarkCompleted, MarkFailed, CheckFunds, ExternalDebit, SendFails, Posts,
         AnswerArrives, GivesUp, BreaksOff, MarkAccepted, ReadForRefund, Refund, Refunds,
         MarkRefused, ReadInCatch, CatchRefund, CatchStatus, Reads, ReadsSource, SetsStatus, Moves, Replies,
         Issues, Raises, UnknownColumn, OutOfRange, Broken
<1>2. faults \in Nat
  BY LimitsAssumption DEF CoreInv, TypeOK
<1> QED
  BY <1>1, <1>2

LEMMA HandlerReturns ==
  ASSUME RoomForRefunds, IInv, OneStatementEach, RefundInv, NEW r \in Request,
         Arrive(r) \/ Handler(r), form' = form, faults = 0, faults' = 0
  PROVE  \A q \in Request : Returned(q)'
<1>0. CoreInv /\ TypeOK /\ \A q \in Request : Returned(q)
  BY DEF IInv, CoreInv, RefundInv
<1>1. ASSUME NEW q \in Request \ {r} PROVE Returned(q)'
  BY <1>0, <1>1, OwnFrame DEF Returned
<1>2. Returned(r)'
  <2>1. CASE pc'[r] \notin Closing
    BY <2>1 DEF Returned
  <2>2. CASE Arrive(r)
    <3>1. pc'[r] \in {"lookup", "400"}
      BY <1>0, <2>2 DEF Arrive, Issues, TypeOK
    <3> QED
      BY <3>1 DEF Returned, Closing
  <2>3. CASE Handler(r) /\ pc'[r] \in Closing
    <3>1. CASE Route(r)
      BY <1>0, <3>1, RouteSettles, SettledIsReturned
    <3>2. CASE ProcessInternal(r)
      BY <1>0, <3>2, InternalSettles, SettledIsReturned
    <3>3. CASE ProcessExternal(r)
      BY <1>0, <2>3, <3>3, ExternalSettles, SettledIsReturned
    <3>4. CASE Rejected(r)
      <4>1. Settles(r)
        BY <2>3, <3>4, RejectedSettles DEF RefundInv
      <4> QED
        BY <1>0, <4>1, SettledIsReturned
    <3> QED
      BY <2>3, <3>1, <3>2, <3>3, <3>4 DEF Handler
  <2> QED
    BY <2>1, <2>2, <2>3
<1> QED
  BY <1>1, <1>2

(* No UPDATE stores what the column cannot hold.                           *)
LEMMA BalancesStayStorable ==
  ASSUME CoreInv, [Next]_vars, \A a \in AccountRow : Storable(balance[a], Largest)
  PROVE  \A a \in AccountRow : Storable(balance'[a], Largest)
<1>1. CASE UNCHANGED ledger
  BY <1>1 DEF ledger
<1>2. ASSUME NEW r \in Request, MovesMoney(r)
      PROVE  \A a \in AccountRow : Storable(balance'[a], Largest)
  <2>1. \E b \in AccountRow, d \in Int :
          balance' = [balance EXCEPT ![b] = @ + d] /\ Storable(balance[b] + d, Largest)
    <3>1. CASE Credit(r)
      <4>1. form[r].to \in AccountRow /\ form[r].amount \in Int
        BY <3>1, MoneyLegs, RequestFields DEF Leg, CoreInv
      <4> QED
        BY <3>1, <4>1 DEF Credit, Moves
    <3>2. CASE Debit(r) \/ ExternalDebit(r)
      <4>1. form[r].from \in AccountRow /\ -form[r].amount \in Int
        BY <3>2, MoneyLegs DEF Leg, CoreInv
      <4> QED
        BY <3>2, <4>1 DEF Debit, ExternalDebit, Moves
    <3>3. CASE Refund(r) \/ CatchRefund(r)
      <4>1. form[r].from \in AccountRow /\ form[r].amount \in Int
        BY <3>3, MoneyLegs DEF Leg, CoreInv
      <4> QED
        BY <3>3, <4>1 DEF Refund, CatchRefund, Refunds, Moves
    <3> QED
      BY <1>2, <3>1, <3>2, <3>3 DEF MovesMoney
  <2> QED
    BY <2>1 DEF CoreInv, TypeOK
<1> QED
  BY <1>1, <1>2, OtherStepsKeep

(* On every balance the column of an account can come to hold, and every   *)
(* amount it can hold, a funds check decides as JavaScript's < does on the *)
(* two texts, provided that the limit of the model is a DECIMAL(15,2)'s.   *)
THEOREM FundsCheckOnTexts ==
  ASSUME Sample \subseteq Decimals, Amount \subseteq Decimals, Largest \in Decimals,
         \A a \in AccountRow : Storable(Opening[a], Largest)
  PROVE  Spec => []FundsChecksCompareTexts
<1> DEFINE Fit == \A a \in AccountRow : Storable(balance[a], Largest)
<1>1. Init => Fit
  BY DEF Init
<1>2. CoreInv /\ Fit /\ [Next]_vars => Fit'
  BY BalancesStayStorable
<1>3. CoreInv /\ Fit => FundsChecksCompareTexts
  <2> SUFFICES ASSUME CoreInv, Fit PROVE Range(balance) \subseteq Decimals
    BY OrdersAgree DEF FundsChecksCompareTexts, ComparesTexts, HasFunds
  <2>1. \A a \in AccountRow : balance[a] \in Decimals
    <3>1. balance \in [AccountRow -> Int]
      BY DEF CoreInv, TypeOK
    <3> QED
      BY <3>1, Powers, LimitsAssumption DEF Decimals, Storable
  <2> QED
    BY <2>1 DEF Range, CoreInv, TypeOK
<1> HIDE DEF Fit
<1>4. IInv => CoreInv
  BY DEF IInv
<1> QED
  BY <1>1, <1>2, <1>3, <1>4, Invariance, PTL DEF Spec

LEMMA NextRefunds ==
  ASSUME RoomForRefunds, IInv, OneStatementEach, RefundInv, [Next]_vars
  PROVE  RefundInv'
<1>1. form' = form /\ \A a \in AccountRow : Storable(balance'[a], Largest)
  BY NextFormStays, BalancesStayStorable DEF IInv, RefundInv
<1>2. ASSUME faults' = 0 PROVE \A q \in Request : Returned(q)'
  <2>1. CASE UNCHANGED vars
    BY <1>2, <2>1 DEF vars, ledger, handlers, RefundInv, Returned
  <2>2. CASE LosesConnection \/ Restarts
    BY <1>2, <2>2, LimitsAssumption DEF LosesConnection, Restarts, IInv, CoreInv, TypeOK
  <2>3. ASSUME NEW r \in Request, PeerAnswers(r) PROVE \A q \in Request : Returned(q)'
    <3>1. /\ \A q \in Request : peer[q] = "accepted" => peer'[q] = "accepted"
          /\ UNCHANGED <<ledger, handlers, form>>
      BY <2>3 DEF PeerAnswers, IInv, CoreInv, TypeOK
    <3> QED
      BY <1>2, <3>1 DEF ledger, handlers, RefundInv, Returned
  <2>4. ASSUME NEW r \in Request, Arrive(r) \/ Handler(r) PROVE \A q \in Request : Returned(q)'
    <3>1. faults = 0
      BY <1>2, <2>4, FaultsStay DEF IInv, CoreInv
    <3> QED
      BY <1>1, <1>2, <2>4, <3>1, HandlerReturns
  <2> QED
    BY <2>1, <2>2, <2>3, <2>4 DEF Next, Done
<1> QED
  BY <1>1, <1>2 DEF RefundInv

(* Where the columns have room for every refund, a sender whose transfer   *)
(* no bank accepted has the money back when the handler answers.           *)
THEOREM SenderIsRefunded ==
  ASSUME RoomForRefunds
  PROVE  Spec => []SenderNeverLoses
<1>1. Init => RefundInv
  BY DEF Init, RefundInv, Returned, RoomForRefunds, Closing
<1>2. IInv /\ OneStatementEach /\ RefundInv /\ [Next]_vars => RefundInv'
  BY NextRefunds
<1>3. IInv /\ RefundInv => SenderNeverLoses
  <2> SUFFICES ASSUME IInv, RefundInv, faults = 0, NEW r \in Request, pc[r] \in Terminal,
                      form[r].to \notin Prefixed, peer[r] # "accepted"
               PROVE  refunds[r] >= debits[r]
    BY DEF SenderNeverLoses
  <2>1. LegsInv(r) /\ CalmInv(r) /\ Returned(r)
    BY DEF IInv, CoreInv, RefundInv
  <2>2. CASE pc[r] \in {"201", "500"}
    BY <2>1, <2>2 DEF Returned, Closing
  <2>3. CASE pc[r] \in {"400", "403", "404"}
    BY <2>1, <2>3 DEF LegsInv, Unpaid
  <2> QED
    BY <2>1, <2>2, <2>3 DEF CalmInv, Terminal
<1> QED
  BY <1>1, <1>2, <1>3, Invariance, PTL DEF Spec

-----------------------------------------------------------------------------
(***************************************************************************)
(* How a paid transfer abroad ends.                                        *)
(***************************************************************************)

(* No step of one handler writes another's row.                            *)
LEMMA OwnRow ==
  ASSUME NEW r \in Request, Arrive(r) \/ Handler(r), CoreInv
  PROVE  columns' = columns /\ \A q \in Request \ {r} : status'[q] = status[q]
<1>1. columns' = columns
  BY DEF Arrive, Handler, Route, ProcessInternal, ProcessExternal, Rejected, LookupSource,
         InsertRow, RereadRow, Respond, FetchRow, MarkPending, ReadFrom, ReadTo, Reject,
         Debit, Credit, MarkCompleted, MarkFailed, CheckFunds, ExternalDebit, SendFails, Posts,
         AnswerArrives, GivesUp, BreaksOff, MarkAccepted, ReadForRefund, Refund, Refunds,
         MarkRefused, ReadInCatch, CatchRefund, CatchStatus, Reads, ReadsSource, SetsStatus, Moves,
         UnknownColumn, OutOfRange, Broken
<1>2. \/ status' = status
      \/ \E s \in {"pending", "completed", "failed"} : status' = [status EXCEPT ![r] = s]
  BY DEF Arrive, Handler, Route, ProcessInternal, ProcessExternal, Rejected, LookupSource,
         InsertRow, RereadRow, Respond, FetchRow, MarkPending, ReadFrom, ReadTo, Reject,
         Debit, Credit, MarkCompleted, MarkFailed, CheckFunds, ExternalDebit, SendFails, Posts,
         AnswerArrives, GivesUp, BreaksOff, MarkAccepted, ReadForRefund, Refund, Refunds,
         MarkRefused, ReadInCatch, CatchRefund, CatchStatus, Reads, ReadsSource, SetsStatus, Moves,
         UnknownColumn, OutOfRange, Broken
<1> QED
  BY <1>1, <1>2 DEF CoreInv, TypeOK

(* While nothing fails and every refund fits, what the server rejects of   *)
(* the external branch is a statement before the debit, or an UPDATE of    *)
(* the column that createTables does not make.                             *)
LEMMA OnlyColumnRejected ==
  ASSUME RoomForRefunds, IInv, OneStatementEach, NEW r \in Request, Rejected(r),
         \A a \in AccountRow : Storable(balance[a], Largest),
         faults = 0, form[r].to \notin Prefixed
  PROVE  /\ \/ pc[r] \in Unpaid
            \/ pc[r] \in DetailLabel /\ "status_detail" \notin columns
         /\ pc'[r] = CatchOf(pc[r]) /\ UNCHANGED <<ledger, status, peer>>
<1> USE DEF InternalLabel, ExternalLabel, CatchLabel, RouteLabel, HttpLabel, DatabaseLabel
<1>1. Served(r) /\ UNCHANGED <<ledger, status, peer>> /\ Leaves(r, CatchOf(pc[r]))
  BY DEF Rejected, UnknownColumn, OutOfRange, Broken, Raises
<1>2. connected /\ TypeOK /\ RowInv(r) /\ LegsInv(r) /\ RouteInv(r)
  BY DEF IInv, CoreInv, CalmInv
<1>3. pc'[r] = CatchOf(pc[r])
  BY <1>1, <1>2 DEF Leaves, TypeOK
<1>4. pc[r] \notin {"refund", "catchRefund"} \/ Storable(Stored(r), Largest)
  <2> SUFFICES ASSUME pc[r] \in {"refund", "catchRefund"} PROVE Storable(Stored(r), Largest)
    OBVIOUS
  <2>1. /\ form[r].from \in AccountRow
        /\ balance[form[r].from] + form[r].amount <= Largest
    BY RefundFits
  <2>2. /\ form[r].amount \in Int /\ balance[form[r].from] \in Int
        /\ 0 < form[r].amount /\ -Largest <= balance[form[r].from] /\ Largest \in Int
    BY <1>2, <2>1, RequestFields, LimitsAssumption DEF RowInv, Valid, Storable, TypeOK
  <2>3. Stored(r) = balance[form[r].from] + form[r].amount
    BY DEF Stored
  <2> QED
    BY <2>1, <2>2, <2>3 DEF Storable
<1>5. CASE ~Storable(Stored(r), Largest)
  <2>1. pc[r] \in {"insert", "extDebit"}
    BY <1>2, <1>4, <1>5, OnlyMovesOverflow DEF RouteInv
  <2> QED
    BY <1>1, <1>3, <2>1 DEF Unpaid
<1>6. CASE UnknownColumn(r)
  BY <1>1, <1>3, <1>6 DEF UnknownColumn
<1> QED
  BY <1>2, <1>5, <1>6 DEF Rejected, OutOfRange, Broken

(* How r's own step leads a paid transfer towards its end.                 *)
LEMMA HandlerSettles ==
  ASSUME RoomForRefunds, IInv, IInv', OneStatementEach, NEW r \in Request,
         \A a \in AccountRow : Storable(balance[a], Largest),
         Arrive(r) \/ Handler(r), form' = form, columns' = columns,
         faults = 0, faults' = 0, Settled(r)
  PROVE  Settled(r)'
<1> SUFFICES ASSUME form[r].to \notin Prefixed, debits'[r] = 1 PROVE Settled(r)'
  BY DEF Settled
<1> USE DEF InternalLabel, ExternalLabel, CatchLabel, RouteLabel, HttpLabel, DatabaseLabel
<1>0. /\ CoreInv /\ TypeOK /\ LegsInv(r) /\ RouteInv(r) /\ AnswerInv(r) /\ RowInv(r)
      /\ {"extDebit", "catchRead", "send", "refund", "markRefused", "catchRefund",
          "catchStatus", "respond", "201"} \subseteq Label
  BY DEF IInv, CoreInv, Label, Terminal
<1>1. CASE debits' = debits /\ pc[r] \in Unpaid
  BY <1>0, <1>1 DEF LegsInv
<1>2. CASE Arrive(r)
  BY <1>1, <1>2 DEF Arrive, ledger, Unpaid
<1>3. CASE Route(r)
  <2>1. CASE Respond(r)
    <3>1. pc'[r] = "201" /\ pc[r] = "respond"
      BY <1>0, <2>1, CalmReply DEF Respond, Reads
    <3>2. UNCHANGED <<status, peer, debits, refunds>>
      BY <2>1 DEF Respond, Reads, ledger
    <3> QED
      BY <3>1, <3>2 DEF Settled, EndsAs, Unrecorded, Delivered, GivenBack, Terminal
  <2>2. CASE LookupSource(r) \/ InsertRow(r) \/ RereadRow(r)
    <3>1. debits' = debits /\ pc[r] \in Unpaid
      BY <2>2 DEF LookupSource, InsertRow, RereadRow, Reads, SetsStatus, Executes, ledger, Unpaid
    <3> QED
      BY <1>1, <3>1
  <2> QED
    BY <1>3, <2>1, <2>2 DEF Route
<1>4. CASE ProcessInternal(r)
  BY <1>0, <1>4, InternalSettles DEF RouteInv
<1>5. CASE ProcessExternal(r)
  <2>1. CASE CheckFunds(r)
    <3>1. debits' = debits /\ pc[r] \in Unpaid
      BY <2>1 DEF CheckFunds, ReadsSource, Executes, ledger, Unpaid
    <3> QED
      BY <1>1, <3>1
  <2>2. CASE ExternalDebit(r)
    <3>1. pc'[r] = "send" /\ pc[r] = "extDebit" /\ status' = status
      BY <1>0, <2>2, CalmReply DEF ExternalDebit, Moves
    <3> QED
      BY <1>0, <3>1 DEF RowInv, Settled, Terminal
  <2>3. CASE ReadForRefund(r)
    <3>1. pc'[r] = "refund" /\ pc[r] = "refundRead" /\ UNCHANGED <<debits, status>>
      BY <1>0, <2>3, CalmReply DEF ReadForRefund, Reads, ledger
    <3> QED
      BY <3>1 DEF Settled, Terminal
  <2>4. CASE Refund(r)
    <3>1. pc'[r] = "markRefused" /\ pc[r] = "refund" /\ UNCHANGED <<debits, status>>
      BY <1>0, <2>4, CalmReply DEF Refund, Refunds, Moves
    <3> QED
      BY <3>1 DEF Settled, Terminal
  <2>5. CASE SendFails(r) \/ Posts(r) \/ AnswerArrives(r) \/ GivesUp(r)
    <3>1. /\ pc'[r] \in {"refundRead", "await", "markAccepted"} /\ pc[r] \in HttpLabel
          /\ UNCHANGED <<debits, status>>
      BY <1>0, <2>5 DEF SendFails, Posts, AnswerArrives, AfterAnswer, GivesUp, Issues, TypeOK,
                        ledger
    <3> QED
      BY <3>1 DEF Settled, Terminal
  <2>6. CASE BreaksOff(r)
    BY <1>0, <2>6, LimitsAssumption DEF BreaksOff, TypeOK
  <2>7. CASE MarkAccepted(r)
    <3>1. /\ pc'[r] = "respond" /\ status'[r] = "completed" /\ pc[r] = "markAccepted"
          /\ UNCHANGED <<debits, refunds, peer>> /\ "status_detail" \in columns
      BY <1>0, <2>7, CalmReply DEF MarkAccepted, SetsStatus, TypeOK, DetailLabel, ledger
    <3>2. peer[r] = "accepted" /\ refunds[r] = 0
      BY <1>0, <3>1 DEF AnswerInv, LegsInv
    <3> QED
      BY <3>1, <3>2 DEF Settled, EndsAs, Delivered, Terminal
  <2>8. CASE MarkRefused(r)
    <3>1. /\ pc'[r] = "respond" /\ status'[r] = "failed" /\ pc[r] = "markRefused"
          /\ UNCHANGED <<debits, refunds>> /\ "status_detail" \in columns
      BY <1>0, <2>8, CalmReply DEF MarkRefused, SetsStatus, TypeOK, DetailLabel, ledger
    <3>2. refunds[r] = 1
      BY <1>0, <3>1 DEF AnswerInv
    <3> QED
      BY <3>1, <3>2 DEF Settled, EndsAs, GivenBack, Terminal
  <2>9. CASE ReadInCatch(r)
    <3>1. /\ pc'[r] = "catchRefund" /\ pc[r] = "catchRead"
          /\ UNCHANGED <<debits, refunds, status, peer>>
      BY <1>0, <2>9, CalmReply DEF ReadInCatch, Reads, ledger
    <3> QED
      BY <3>1 DEF Settled, Terminal
  <2>10. CASE CatchRefund(r)
    <3>1. /\ pc'[r] = "catchStatus" /\ pc[r] = "catchRefund" /\ refunds'[r] = refunds[r] + 1
          /\ UNCHANGED <<debits, status, peer>>
      BY <1>0, <2>10, CalmReply DEF CatchRefund, Refunds, Moves, TypeOK
    <3> QED
      BY <1>0, <3>1 DEF Settled, Terminal
  <2>11. CASE CatchStatus(r)
    <3>1. pc[r] = "catchStatus" /\ debits' = debits /\ "status_detail" \in columns
      BY <2>11 DEF CatchStatus, SetsStatus, Executes, DetailLabel, ledger
    <3> QED
      BY <3>1 DEF Settled
  <2> QED
    BY <1>5, <2>1, <2>2, <2>3, <2>4, <2>5, <2>6, <2>7, <2>8, <2>9, <2>10, <2>11
    DEF ProcessExternal
<1>6. CASE Rejected(r)
  <2>1. /\ pc[r] \in Unpaid \/ (pc[r] \in DetailLabel /\ "status_detail" \notin columns)
        /\ pc'[r] = CatchOf(pc[r]) /\ UNCHANGED <<debits, refunds, status, peer>>
    BY <1>6, OnlyColumnRejected DEF ledger
  <2>2. /\ pc[r] \in {"markAccepted", "markRefused", "catchStatus"}
        /\ "status_detail" \notin columns
    BY <1>0, <1>1, <2>1 DEF DetailLabel, RouteInv, LegsInv
  <2>3. CASE pc[r] = "markAccepted"
    <3>1. pc'[r] = "catchRead" /\ peer[r] = "accepted" /\ refunds[r] = 0
      BY <1>0, <2>1, <2>3, CatchTargets DEF AnswerInv, LegsInv
    <3> QED
      BY <2>1, <2>2, <2>3, <3>1 DEF Settled, Terminal
  <2>4. CASE pc[r] = "markRefused"
    <3>1. pc'[r] = "catchRead" /\ refunds[r] = 1
      BY <1>0, <2>1, <2>4, CatchTargets DEF AnswerInv
    <3> QED
      BY <2>1, <2>2, <2>4, <3>1 DEF Settled, Terminal
  <2>5. CASE pc[r] = "catchStatus"
    <3>1. pc'[r] = "500"
      BY <2>1, <2>5, CatchTargets
    <3> QED
      BY <2>1, <2>2, <2>5, <3>1 DEF Settled, EndsAs, Unrecorded, Terminal
  <2> QED
    BY <2>2, <2>3, <2>4, <2>5
<1> QED
  BY <1>2, <1>3, <1>4, <1>5, <1>6 DEF Handler

LEMMA NextSettles ==
  ASSUME RoomForRefunds, IInv, IInv', OneStatementEach, RefundInv, SettleInv, [Next]_vars
  PROVE  SettleInv'
<1> SUFFICES ASSUME faults' = 0 PROVE \A q \in Request : Settled(q)'
  BY DEF SettleInv
<1> USE DEF Settled, EndsAs, Unrecorded, Delivered, GivenBack
<1>1. form' = form
  BY NextFormStays DEF IInv
<1>2. CASE UNCHANGED vars
  BY <1>2 DEF vars, ledger, handlers, SettleInv
<1>3. CASE LosesConnection \/ Restarts
  BY <1>3, LimitsAssumption DEF LosesConnection, Restarts, IInv, CoreInv, TypeOK
<1>4. ASSUME NEW r \in Request, PeerAnswers(r) PROVE \A q \in Request : Settled(q)'
  <2>1. /\ \A q \in Request : peer[q] = "accepted" => peer'[q] = "accepted"
        /\ UNCHANGED <<ledger, handlers, status, form, columns>>
    BY <1>4 DEF PeerAnswers, IInv, CoreInv, TypeOK
  <2> QED
    BY <2>1 DEF ledger, handlers, SettleInv
<1>5. ASSUME NEW r \in Request, Arrive(r) \/ Handler(r) PROVE \A q \in Request : Settled(q)'
  <2>1. faults = 0 /\ columns' = columns /\ \A q \in Request \ {r} : status'[q] = status[q]
    BY <1>5, FaultsStay, OwnRow DEF IInv, CoreInv
  <2>2. \A q \in Request : Settled(q)
    BY <2>1 DEF SettleInv
  <2>3. ASSUME NEW q \in Request \ {r} PROVE Settled(q)'
    BY <1>1, <1>5, <2>1, <2>2, <2>3, OwnFrame DEF IInv
  <2>4. Settled(r)'
    BY <1>1, <1>5, <2>1, <2>2, HandlerSettles DEF RefundInv
  <2> QED
    BY <2>3, <2>4
<1> QED
  BY <1>2, <1>3, <1>4, <1>5 DEF Next, Done

(* How a paid transfer abroad ends without faults, where every refund      *)
(* fits, over whatever schema the table has: with the column the closing   *)
(* UPDATEs write it is kept or given back once, and without it the catch   *)
(* block gives back once what the other bank accepted, else twice, and     *)
(* leaves a row that says completed.                                       *)
THEOREM PaidTransfersEnd ==
  ASSUME RoomForRefunds
  PROVE  Spec => []PaidEnds
<1>1. Init => RefundInv /\ SettleInv
  <2>1. Init => RefundInv
    BY DEF Init, RefundInv, Returned, RoomForRefunds, Closing
  <2>2. Init => \A r \in Request : debits[r] = 0
    BY DEF Init
  <2> QED
    BY <2>1, <2>2 DEF SettleInv, Settled
<1>2. IInv /\ IInv' /\ OneStatementEach /\ RefundInv /\ SettleInv /\ [Next]_vars
        => RefundInv' /\ SettleInv'
  BY NextRefunds, NextSettles
<1>3. SettleInv => PaidEnds
  BY DEF SettleInv, Settled, PaidEnds
<1> QED
  BY <1>1, <1>2, <1>3, Invariance, PTL DEF Spec

=============================================================================
