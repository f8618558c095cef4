--------------------------- MODULE Transfers_proofs ---------------------------
(***************************************************************************)
(* The safety of POST /transactions for every set of requests, accounts    *)
(* and amounts, every opening balance and any number of faults.            *)
(***************************************************************************)
EXTENDS TransferProperties, TLAPS

(***************************************************************************)
(* What every step of handler r does to the handlers' own state: r moves   *)
(* to one of a few awaits and no other handler moves.                      *)
(***************************************************************************)
Advances(r, targets) ==
  /\ pc' \in [Request -> Label]
  /\ pc'[r] \in targets
  /\ \A q \in Request \ {r} : pc'[q] = pc[q]
  /\ queue' \in Seq(Request)
  /\ connected' \in BOOLEAN
  /\ faults' \in 0..MaxFaults

LEMMA CatchTargets ==
  /\ \A l \in InternalLabel \ {"markFailed"} : CatchOf(l) = "markFailed"
  /\ CatchOf("markFailed") = "respond"
  /\ \A l \in ExternalLabel : CatchOf(l) = "catchRead"
  /\ \A l \in {"catchRead", "catchRefund"} : CatchOf(l) = "catchStatus"
  /\ CatchOf("catchStatus") = "500"
  /\ \A l \in RouteLabel : CatchOf(l) = "500"
  /\ \A l \in DatabaseLabel : CatchOf(l) \in Label
<1> USE DEF InternalLabel, ExternalLabel, CatchLabel, RouteLabel
<1>1. \A l \in InternalLabel \ {"markFailed"} : CatchOf(l) = "markFailed"
  BY DEF CatchOf
<1>2. CatchOf("markFailed") = "respond"
  BY DEF CatchOf
<1>3. \A l \in ExternalLabel : CatchOf(l) = "catchRead"
  BY DEF CatchOf
<1>4. \A l \in {"catchRead", "catchRefund"} : CatchOf(l) = "catchStatus"
  BY DEF CatchOf
<1>5. \A l \in RouteLabel \cup {"catchStatus"} : CatchOf(l) = "500"
  BY DEF CatchOf
<1>6. \A l \in DatabaseLabel : CatchOf(l) \in Label
  BY <1>1, <1>2, <1>3, <1>4, <1>5 DEF DatabaseLabel, Label, Terminal, HttpLabel
<1> QED
  BY <1>1, <1>2, <1>3, <1>4, <1>5, <1>6

LEMMA LeavesAdvances ==
  ASSUME TypeOK, NEW r \in Request, NEW next \in Label, Served(r), Leaves(r, next)
  PROVE  /\ pc' \in [Request -> Label]
         /\ pc'[r] = next
         /\ \A q \in Request \ {r} : pc'[q] = pc[q]
         /\ queue' \in Seq(Request)
<1>1. queue \in Seq(Request) /\ queue # <<>>
  BY DEF TypeOK, Served
<1>2. Tail(queue) \in Seq(Request) /\ Append(Tail(queue), r) \in Seq(Request)
  BY <1>1
<1> QED
  BY <1>2 DEF TypeOK, Leaves

LEMMA RepliesAdvances ==
  ASSUME TypeOK, NEW r \in Request, NEW at \in DatabaseLabel, NEW next \in Label,
         Executes(r, at), Replies(r, next)
  PROVE  Advances(r, {next, CatchOf(at)})
<1>1. pc[r] = at /\ Served(r)
  BY DEF Executes
<1>2. CatchOf(at) \in Label
  BY CatchTargets
<1>3. CASE Leaves(r, next) /\ UNCHANGED <<connected, faults>>
  BY <1>1, <1>3, LeavesAdvances DEF Advances, TypeOK
<1>4. CASE /\ faults < MaxFaults /\ faults' = faults + 1
           /\ connected' = FALSE /\ Leaves(r, CatchOf(pc[r]))
  <2>1. faults' \in 0..MaxFaults
    BY <1>4, LimitsAssumption DEF TypeOK
  <2> QED
    BY <1>1, <1>2, <1>4, <2>1, LeavesAdvances DEF Advances
<1> QED
  BY <1>3, <1>4 DEF Replies

LEMMA RaisesAdvances ==
  ASSUME TypeOK, NEW r \in Request, Served(r), pc[r] \in DatabaseLabel, Raises(r)
  PROVE  Advances(r, {CatchOf(pc[r])})
<1>1. CatchOf(pc[r]) \in Label
  BY CatchTargets
<1> QED
  BY <1>1, LeavesAdvances DEF Raises, Advances, TypeOK

LEMMA IssuesAdvances ==
  ASSUME TypeOK, NEW r \in Request, NEW next \in Label, Issues(r, next)
  PROVE  Advances(r, {next})
<1>1. Append(queue, r) \in Seq(Request)
  BY DEF TypeOK
<1> QED
  BY <1>1 DEF Issues, Advances, TypeOK

-----------------------------------------------------------------------------
(***************************************************************************)
(* The frame of a step of r: nothing that belongs to another request.      *)
(***************************************************************************)
OnlyOwn(r) ==
  /\ form' = form /\ columns' = columns
  /\ \A q \in Request \ {r} :
       UNCHANGED <<pc[q], status[q], peer[q], debits[q], credits[q], refunds[q]>>

LEMMA OwnStepPreserves ==
  ASSUME CoreInv, NEW r \in Request, TypeOK', OnlyOwn(r), LegsInv(r)', RouteInv(r)'
  PROVE  CoreInv'
<1>1. ASSUME NEW q \in Request \ {r} PROVE LegsInv(q)' /\ RouteInv(q)'
  BY <1>1 DEF CoreInv, OnlyOwn, LegsInv, RouteInv
<1> QED
  BY <1>1 DEF CoreInv

LEMMA InitCore == Init => CoreInv
<1> SUFFICES ASSUME Init PROVE CoreInv
  OBVIOUS
<1>1. TypeOK
  BY OpeningAssumption, LimitsAssumption DEF Init, TypeOK, Label
<1>2. ASSUME NEW r \in Request PROVE LegsInv(r) /\ RouteInv(r)
  BY DEF Init, LegsInv, RouteInv, Unpaid, HttpLabel, InternalLabel, ExternalLabel,
         CatchLabel, RouteLabel, DatabaseLabel
<1> QED
  BY <1>1, <1>2 DEF CoreInv

LEMMA StutterCore == CoreInv /\ UNCHANGED vars => CoreInv'
BY DEF CoreInv, TypeOK, LegsInv, RouteInv, vars, ledger, handlers

(***************************************************************************)
(* The three kinds of statement a handler awaits.                          *)
(***************************************************************************)
LEMMA ReadsStep ==
  ASSUME CoreInv, NEW r \in Request, NEW at \in DatabaseLabel, NEW next \in Label,
         Reads(r, at, next)
  PROVE  /\ TypeOK' /\ OnlyOwn(r)
         /\ pc[r] = at /\ pc'[r] \in {next, CatchOf(at)}
         /\ UNCHANGED <<balance, debits, credits, refunds, status, form, columns, peer>>
<1>1. Advances(r, {next, CatchOf(at)})
  BY RepliesAdvances DEF CoreInv, Reads
<1> QED
  BY <1>1 DEF CoreInv, TypeOK, Reads, Executes, OnlyOwn, Advances, ledger

LEMMA ReadsSourceStep ==
  ASSUME CoreInv, NEW r \in Request, NEW at \in DatabaseLabel, NEW next \in Label,
         form[r].from \in AccountRow, ReadsSource(r, at, next)
  PROVE  /\ TypeOK' /\ OnlyOwn(r)
         /\ pc[r] = at /\ pc'[r] \in {next, CatchOf(at)}
         /\ seen'[r] = balance[form[r].from]
         /\ UNCHANGED <<balance, debits, credits, refunds, status, form, columns, peer>>
<1>1. Advances(r, {next, CatchOf(at)})
  BY RepliesAdvances DEF CoreInv, ReadsSource
<1> QED
  BY <1>1 DEF CoreInv, TypeOK, ReadsSource, Executes, OnlyOwn, Advances, ledger

LEMMA SetsStatusStep ==
  ASSUME CoreInv, NEW r \in Request, NEW at \in DatabaseLabel, NEW next \in Label,
         NEW s \in {"pending", "completed", "failed"}, SetsStatus(r, at, s, next)
  PROVE  /\ TypeOK' /\ OnlyOwn(r)
         /\ pc[r] = at /\ pc'[r] \in {next, CatchOf(at)}
         /\ status'[r] = s
         /\ UNCHANGED <<balance, debits, credits, refunds, form, columns, peer>>
<1>1. Advances(r, {next, CatchOf(at)})
  BY RepliesAdvances DEF CoreInv, SetsStatus
<1> QED
  BY <1>1 DEF CoreInv, TypeOK, SetsStatus, Executes, OnlyOwn, Advances, ledger

LEMMA MovesStep ==
  ASSUME CoreInv, NEW r \in Request, NEW at \in DatabaseLabel, NEW next \in Label,
         NEW account \in AccountRow, NEW delta \in Int, Moves(r, at, account, delta, next)
  PROVE  /\ Advances(r, {next, CatchOf(at)})
         /\ pc[r] = at /\ pc'[r] \in {next, CatchOf(at)}
         /\ balance' \in [AccountRow -> Int]
         /\ \A a \in AccountRow \ {account} : balance'[a] = balance[a]
         /\ UNCHANGED <<status, form, columns, seen, peer>>
<1>1. Advances(r, {next, CatchOf(at)})
  BY RepliesAdvances DEF CoreInv, Moves
<1>2. balance \in [AccountRow -> Int] /\ balance' = [balance EXCEPT ![account] = @ + delta]
  BY DEF CoreInv, TypeOK, Moves
<1>3. balance' \in [AccountRow -> Int]
  BY <1>2
<1> QED
  BY <1>1, <1>2, <1>3 DEF Moves, Executes, Advances

-----------------------------------------------------------------------------
(***************************************************************************)
(* The inductive step, action by action.                                   *)
(***************************************************************************)
LEMMA RequestFields ==
  ASSUME TypeOK, NEW r \in Request
  PROVE  /\ form[r].amount \in Int /\ -form[r].amount \in Int
         /\ debits[r] \in Nat /\ credits[r] \in Nat /\ refunds[r] \in Nat
<1>1. form[r] \in [from: Number, to: Number, amount: Amount]
  BY DEF TypeOK
<1>2. form[r].amount \in Int
  BY <1>1, AmountAssumption
<1> QED
  BY <1>2 DEF TypeOK

LEMMA RouteStep ==
  ASSUME CoreInv, NEW r \in Request, Arrive(r) \/ Route(r)
  PROVE  CoreInv'
<1> USE DEF InternalLabel, ExternalLabel, CatchLabel, RouteLabel, HttpLabel, DatabaseLabel
<1>0. LegsInv(r) /\ RouteInv(r)
  BY DEF CoreInv
<1>1. CASE Arrive(r)
  <2>1. pc[r] = "idle" /\ Advances(r, {"lookup", "400"})
    <3>1. CASE Issues(r, "lookup")
      BY <1>1, <3>1, IssuesAdvances DEF Arrive, CoreInv, Advances, Label
    <3>2. CASE pc' = [pc EXCEPT ![r] = "400"] /\ UNCHANGED <<queue, connected, faults>>
      BY <1>1, <3>2 DEF Arrive, CoreInv, TypeOK, Advances, Label, Terminal
    <3> QED
      BY <1>1, <3>1, <3>2 DEF Arrive
  <2>2. TypeOK' /\ OnlyOwn(r)
    BY <1>1, <2>1 DEF Arrive, CoreInv, TypeOK, OnlyOwn, Advances, ledger
  <2>3. LegsInv(r)' /\ RouteInv(r)'
    BY <1>0, <1>1, <2>1 DEF Arrive, LegsInv, RouteInv, Unpaid, Advances, ledger
  <2> QED
    BY <2>2, <2>3, OwnStepPreserves
<1>2. CASE LookupSource(r)
  <2> DEFINE next == AfterLookup(r)
  <2>1. /\ next \in {"404", "403", "insert"}
        /\ next = "insert" => form[r].from \in AccountRow \cap Prefixed
    BY DEF AfterLookup, RowExists, Internal
  <2>2. next \in Label
    BY <2>1 DEF Label, Terminal
  <2> HIDE DEF next
  <2>3. /\ TypeOK' /\ OnlyOwn(r)
        /\ pc[r] = "lookup" /\ pc'[r] \in {next, CatchOf("lookup")}
        /\ UNCHANGED <<balance, debits, credits, refunds, status, form, columns, peer>>
    BY <1>2, <2>2, ReadsStep DEF LookupSource, next
  <2>4. LegsInv(r)' /\ RouteInv(r)'
    BY <1>0, <2>1, <2>3, CatchTargets DEF LegsInv, RouteInv, Unpaid
  <2> QED
    BY <2>3, <2>4, OwnStepPreserves
<1>3. CASE InsertRow(r)
  <2>1. /\ TypeOK' /\ OnlyOwn(r)
        /\ pc[r] = "insert" /\ pc'[r] \in {"reread", CatchOf("insert")}
        /\ status'[r] = "completed"
        /\ UNCHANGED <<balance, debits, credits, refunds, form, columns, peer>>
    BY <1>3, SetsStatusStep DEF InsertRow, Label
  <2>2. LegsInv(r)' /\ RouteInv(r)'
    BY <1>0, <2>1, CatchTargets DEF LegsInv, RouteInv, Unpaid
  <2> QED
    BY <2>1, <2>2, OwnStepPreserves
<1>4. CASE RereadRow(r)
  <2> DEFINE next == AfterReread(r)
  <2>1. \/ next = "fetch" /\ form[r].to \in Prefixed
        \/ next = "funds" /\ form[r].to \notin Prefixed
    BY DEF AfterReread, Internal
  <2>2. next \in Label
    BY <2>1 DEF Label
  <2> HIDE DEF next
  <2>3. /\ TypeOK' /\ OnlyOwn(r)
        /\ pc[r] = "reread" /\ pc'[r] \in {next, CatchOf("reread")}
        /\ UNCHANGED <<balance, debits, credits, refunds, status, form, columns, peer>>
    BY <1>4, <2>2, ReadsStep DEF RereadRow, next
  <2>4. LegsInv(r)' /\ RouteInv(r)'
    BY <1>0, <2>1, <2>3, CatchTargets DEF LegsInv, RouteInv, Unpaid
  <2> QED
    BY <2>3, <2>4, OwnStepPreserves
<1>5. CASE Respond(r)
  <2>1. /\ TypeOK' /\ OnlyOwn(r)
        /\ pc[r] = "respond" /\ pc'[r] \in {"201", CatchOf("respond")}
        /\ UNCHANGED <<balance, debits, credits, refunds, status, form, columns, peer>>
    BY <1>5, ReadsStep DEF Respond, Label, Terminal
  <2>2. LegsInv(r)' /\ RouteInv(r)'
    BY <1>0, <2>1, CatchTargets DEF LegsInv, RouteInv, Unpaid
  <2> QED
    BY <2>1, <2>2, OwnStepPreserves
<1> QED
  BY <1>1, <1>2, <1>3, <1>4, <1>5 DEF Route

LEMMA InternalStep ==
  ASSUME CoreInv, NEW r \in Request, ProcessInternal(r)
  PROVE  CoreInv'
<1> USE DEF InternalLabel, ExternalLabel, CatchLabel, RouteLabel, HttpLabel, DatabaseLabel
<1>0. LegsInv(r) /\ RouteInv(r)
  BY DEF CoreInv
<1>1. CASE FetchRow(r)
  <2>1. /\ TypeOK' /\ OnlyOwn(r)
        /\ pc[r] = "fetch" /\ pc'[r] \in {"markPending", CatchOf("fetch")}
        /\ UNCHANGED <<balance, debits, credits, refunds, status, form, columns, peer>>
    BY <1>1, ReadsStep DEF FetchRow, Label
  <2>2. LegsInv(r)' /\ RouteInv(r)'
    BY <1>0, <2>1, CatchTargets DEF LegsInv, RouteInv, Unpaid
  <2> QED
    BY <2>1, <2>2, OwnStepPreserves
<1>2. CASE MarkPending(r)
  <2>1. /\ TypeOK' /\ OnlyOwn(r)
        /\ pc[r] = "markPending" /\ pc'[r] \in {"readFrom", CatchOf("markPending")}
        /\ status'[r] = "pending"
        /\ UNCHANGED <<balance, debits, credits, refunds, form, columns, peer>>
    BY <1>2, SetsStatusStep DEF MarkPending, Label
  <2>2. LegsInv(r)' /\ RouteInv(r)'
    BY <1>0, <2>1, CatchTargets DEF LegsInv, RouteInv, Unpaid
  <2> QED
    BY <2>1, <2>2, OwnStepPreserves
<1>3. CASE ReadFrom(r)
  <2>1. pc[r] = "readFrom" /\ form[r].from \in AccountRow
    BY <1>0, <1>3 DEF ReadFrom, ReadsSource, Executes, RouteInv
  <2>2. /\ TypeOK' /\ OnlyOwn(r)
        /\ pc'[r] \in {"readTo", CatchOf("readFrom")}
        /\ UNCHANGED <<balance, debits, credits, refunds, status, form, columns, peer>>
    BY <1>3, <2>1, ReadsSourceStep DEF ReadFrom, Label
  <2>3. LegsInv(r)' /\ RouteInv(r)'
    BY <1>0, <2>1, <2>2, CatchTargets DEF LegsInv, RouteInv, Unpaid
  <2> QED
    BY <2>2, <2>3, OwnStepPreserves
<1>4. CASE ReadTo(r)
  <2> DEFINE next == AfterReadTo(r)
  <2>1. \/ next = "reject"
        \/ next = "debit" /\ form[r].to \in AccountRow
    BY DEF AfterReadTo, RowExists
  <2>2. next \in Label
    BY <2>1 DEF Label
  <2> HIDE DEF next
  <2>3. /\ TypeOK' /\ OnlyOwn(r)
        /\ pc[r] = "readTo" /\ pc'[r] \in {next, CatchOf("readTo")}
        /\ UNCHANGED <<balance, debits, credits, refunds, status, form, columns, peer>>
    BY <1>4, <2>2, ReadsStep DEF ReadTo, next
  <2>4. LegsInv(r)' /\ RouteInv(r)'
    BY <1>0, <2>1, <2>3, CatchTargets DEF LegsInv, RouteInv, Unpaid
  <2> QED
    BY <2>3, <2>4, OwnStepPreserves
<1>5. CASE Reject(r)
  <2>1. /\ TypeOK' /\ OnlyOwn(r)
        /\ pc[r] = "reject" /\ pc'[r] \in {"respond", CatchOf("reject")}
        /\ status'[r] = "failed"
        /\ UNCHANGED <<balance, debits, credits, refunds, form, columns, peer>>
    BY <1>5, SetsStatusStep DEF Reject, Label
  <2>2. LegsInv(r)' /\ RouteInv(r)'
    BY <1>0, <2>1, CatchTargets DEF LegsInv, RouteInv, Unpaid
  <2> QED
    BY <2>1, <2>2, OwnStepPreserves
<1>6. CASE Debit(r)
  <2>1. pc[r] = "debit"
    BY <1>6 DEF Debit, Moves, Executes
  <2>2. form[r].from \in AccountRow /\ -form[r].amount \in Int
    BY <1>0, <2>1, RequestFields DEF RouteInv, CoreInv
  <2>3. /\ Advances(r, {"credit", CatchOf("debit")})
        /\ balance' \in [AccountRow -> Int]
        /\ UNCHANGED <<status, form, columns, seen, peer>>
    BY <1>6, <2>2, MovesStep DEF Debit, Label
  <2>4. /\ debits' \in [Request -> Nat]
        /\ debits'[r] = debits[r] + 1
        /\ \A q \in Request \ {r} : debits'[q] = debits[q]
        /\ UNCHANGED <<credits, refunds>>
    BY <1>6 DEF Debit, CoreInv, TypeOK
  <2>5. TypeOK' /\ OnlyOwn(r)
    BY <2>3, <2>4 DEF CoreInv, TypeOK, OnlyOwn, Advances
  <2>6. LegsInv(r)' /\ RouteInv(r)'
    BY <1>0, <2>1, <2>3, <2>4, CatchTargets
    DEF LegsInv, RouteInv, Unpaid, Advances
  <2> QED
    BY <2>5, <2>6, OwnStepPreserves
<1>7. CASE Credit(r)
  <2>1. pc[r] = "credit"
    BY <1>7 DEF Credit, Moves, Executes
  <2>2. form[r].to \in AccountRow /\ form[r].amount \in Int
    BY <1>0, <2>1, RequestFields DEF RouteInv, CoreInv
  <2>3. /\ Advances(r, {"markCompleted", CatchOf("credit")})
        /\ balance' \in [AccountRow -> Int]
        /\ UNCHANGED <<status, form, columns, seen, peer>>
    BY <1>7, <2>2, MovesStep DEF Credit, Label
  <2>4. /\ credits' \in [Request -> Nat]
        /\ credits'[r] = credits[r] + 1
        /\ \A q \in Request \ {r} : credits'[q] = credits[q]
        /\ UNCHANGED <<debits, refunds>>
    BY <1>7 DEF Credit, CoreInv, TypeOK
  <2>5. TypeOK' /\ OnlyOwn(r)
    BY <2>3, <2>4 DEF CoreInv, TypeOK, OnlyOwn, Advances
  <2>6. debits'[r] = 1 /\ credits'[r] = 1 /\ refunds'[r] = refunds[r]
    BY <1>0, <2>1, <2>4 DEF LegsInv
  <2>7. pc'[r] \in {"markCompleted", "markFailed"}
    BY <2>3, CatchTargets DEF Advances
  <2>8. LegsInv(r)' /\ RouteInv(r)'
    BY <1>0, <2>1, <2>3, <2>6, <2>7 DEF LegsInv, RouteInv, Unpaid
  <2> QED
    BY <2>5, <2>8, OwnStepPreserves
<1>8. CASE MarkCompleted(r)
  <2>1. /\ TypeOK' /\ OnlyOwn(r)
        /\ pc[r] = "markCompleted" /\ pc'[r] \in {"respond", CatchOf("markCompleted")}
        /\ status'[r] = "completed"
        /\ UNCHANGED <<balance, debits, credits, refunds, form, columns, peer>>
    BY <1>8, SetsStatusStep DEF MarkCompleted, Label
  <2>2. LegsInv(r)' /\ RouteInv(r)'
    BY <1>0, <2>1, CatchTargets DEF LegsInv, RouteInv, Unpaid
  <2> QED
    BY <2>1, <2>2, OwnStepPreserves
<1>9. CASE MarkFailed(r)
  <2>1. /\ TypeOK' /\ OnlyOwn(r)
        /\ pc[r] = "markFailed" /\ pc'[r] \in {"respond", CatchOf("markFailed")}
        /\ status'[r] = "failed"
        /\ UNCHANGED <<balance, debits, credits, refunds, form, columns, peer>>
    BY <1>9, SetsStatusStep DEF MarkFailed, Label
  <2>2. LegsInv(r)' /\ RouteInv(r)'
    BY <1>0, <2>1, CatchTargets DEF LegsInv, RouteInv, Unpaid
  <2> QED
    BY <2>1, <2>2, OwnStepPreserves
<1> QED
  BY <1>1, <1>2, <1>3, <1>4, <1>5, <1>6, <1>7, <1>8, <1>9 DEF ProcessInternal

LEMMA ExternalStep ==
  ASSUME CoreInv, NEW r \in Request, ProcessExternal(r)
  PROVE  CoreInv'
<1> USE DEF InternalLabel, ExternalLabel, CatchLabel, RouteLabel, HttpLabel, DatabaseLabel
<1>0. LegsInv(r) /\ RouteInv(r)
  BY DEF CoreInv
<1>1. CASE CheckFunds(r)
  <2> DEFINE next == AfterFunds(r)
  <2>1. next \in {"extDebit", "catchRead"}
    BY DEF AfterFunds
  <2>2. next \in Label
    BY <2>1 DEF Label
  <2> HIDE DEF next
  <2>3. /\ TypeOK' /\ OnlyOwn(r)
        /\ pc[r] = "funds" /\ pc'[r] \in {next, CatchOf("funds")}
        /\ UNCHANGED <<balance, debits, credits, refunds, status, form, columns, peer>>
    <3>1. form[r].from \in AccountRow
      BY <1>0, <1>1 DEF CheckFunds, ReadsSource, Executes, RouteInv
    <3> QED
      BY <1>1, <2>2, <3>1, ReadsSourceStep DEF CheckFunds, next
  <2>4. LegsInv(r)' /\ RouteInv(r)'
    BY <1>0, <2>1, <2>3, CatchTargets DEF LegsInv, RouteInv, Unpaid
  <2> QED
    BY <2>3, <2>4, OwnStepPreserves
<1>2. CASE ExternalDebit(r)
  <2>1. pc[r] = "extDebit"
    BY <1>2 DEF ExternalDebit, Moves, Executes
  <2>2. form[r].from \in AccountRow /\ -form[r].amount \in Int
    BY <1>0, <2>1, RequestFields DEF RouteInv, CoreInv
  <2>3. /\ Advances(r, {"send", CatchOf("extDebit")})
        /\ balance' \in [AccountRow -> Int]
        /\ UNCHANGED <<status, form, columns, seen, peer>>
    BY <1>2, <2>2, MovesStep DEF ExternalDebit, Label
  <2>4. /\ debits' \in [Request -> Nat]
        /\ debits'[r] = debits[r] + 1
        /\ \A q \in Request \ {r} : debits'[q] = debits[q]
        /\ UNCHANGED <<credits, refunds>>
    BY <1>2 DEF ExternalDebit, CoreInv, TypeOK
  <2>5. TypeOK' /\ OnlyOwn(r)
    BY <2>3, <2>4 DEF CoreInv, TypeOK, OnlyOwn, Advances
  <2>6. LegsInv(r)' /\ RouteInv(r)'
    BY <1>0, <2>1, <2>3, <2>4, CatchTargets DEF LegsInv, RouteInv, Unpaid, Advances
  <2> QED
    BY <2>5, <2>6, OwnStepPreserves
<1>3. CASE SendFails(r)
  <2>1. pc[r] = "send" /\ Advances(r, {"refundRead"})
    BY <1>3, IssuesAdvances DEF SendFails, CoreInv, Label, Advances
  <2>2. TypeOK' /\ OnlyOwn(r)
    BY <1>3, <2>1 DEF SendFails, CoreInv, TypeOK, OnlyOwn, Advances, ledger
  <2>3. LegsInv(r)' /\ RouteInv(r)'
    BY <1>0, <1>3, <2>1 DEF SendFails, LegsInv, RouteInv, Unpaid, Advances, ledger
  <2> QED
    BY <2>2, <2>3, OwnStepPreserves
<1>4. CASE Posts(r)
  <2>1. pc[r] = "send" /\ Advances(r, {"await"})
    BY <1>4 DEF Posts, CoreInv, TypeOK, Label, Advances
  <2>2. TypeOK' /\ OnlyOwn(r)
    BY <1>4, <2>1 DEF Posts, CoreInv, TypeOK, OnlyOwn, Advances, ledger
  <2>3. LegsInv(r)' /\ RouteInv(r)'
    BY <1>0, <1>4, <2>1 DEF Posts, LegsInv, RouteInv, Unpaid, Advances, ledger
  <2> QED
    BY <2>2, <2>3, OwnStepPreserves
<1>5. CASE AnswerArrives(r)
  <2>1. pc[r] = "await" /\ Advances(r, {"markAccepted", "refundRead"})
    BY <1>5, IssuesAdvances DEF AnswerArrives, AfterAnswer, CoreInv, Label, Advances
  <2>2. TypeOK' /\ OnlyOwn(r)
    BY <1>5, <2>1 DEF AnswerArrives, CoreInv, TypeOK, OnlyOwn, Advances, ledger
  <2>3. LegsInv(r)' /\ RouteInv(r)'
    BY <1>0, <1>5, <2>1 DEF AnswerArrives, LegsInv, RouteInv, Unpaid, Advances, ledger
  <2> QED
    BY <2>2, <2>3, OwnStepPreserves
<1>6. CASE GivesUp(r)
  <2>1. pc[r] = "await" /\ Advances(r, {"refundRead"})
    BY <1>6, IssuesAdvances DEF GivesUp, CoreInv, Label, Advances
  <2>2. TypeOK' /\ OnlyOwn(r)
    BY <1>6, <2>1 DEF GivesUp, CoreInv, TypeOK, OnlyOwn, Advances, ledger
  <2>3. LegsInv(r)' /\ RouteInv(r)'
    BY <1>0, <1>6, <2>1 DEF GivesUp, LegsInv, RouteInv, Unpaid, Advances, ledger
  <2> QED
    BY <2>2, <2>3, OwnStepPreserves
<1>7. CASE MarkAccepted(r)
  <2>1. /\ TypeOK' /\ OnlyOwn(r)
        /\ pc[r] = "markAccepted" /\ pc'[r] \in {"respond", CatchOf("markAccepted")}
        /\ status'[r] = "completed"
        /\ UNCHANGED <<balance, debits, credits, refunds, form, columns, peer>>
    BY <1>7, SetsStatusStep DEF MarkAccepted, Label
  <2>2. LegsInv(r)' /\ RouteInv(r)'
    BY <1>0, <2>1, CatchTargets DEF LegsInv, RouteInv, Unpaid
  <2> QED
    BY <2>1, <2>2, OwnStepPreserves
<1>8. CASE ReadForRefund(r)
  <2>1. /\ TypeOK' /\ OnlyOwn(r)
        /\ pc[r] = "refundRead" /\ pc'[r] \in {"refund", CatchOf("refundRead")}
        /\ UNCHANGED <<balance, debits, credits, refunds, status, form, columns, peer>>
    BY <1>8, ReadsStep DEF ReadForRefund, Label
  <2>2. LegsInv(r)' /\ RouteInv(r)'
    BY <1>0, <2>1, CatchTargets DEF LegsInv, RouteInv, Unpaid
  <2> QED
    BY <2>1, <2>2, OwnStepPreserves
<1>9. CASE Refund(r)
  <2>1. pc[r] = "refund"
    BY <1>9 DEF Refund, Refunds, Moves, Executes
  <2>2. form[r].from \in AccountRow /\ form[r].amount \in Int
    BY <1>0, <2>1, RequestFields DEF RouteInv, CoreInv
  <2>3. /\ Advances(r, {"markRefused", CatchOf("refund")})
        /\ balance' \in [AccountRow -> Int]
        /\ UNCHANGED <<status, form, columns, seen, peer>>
    BY <1>9, <2>2, MovesStep DEF Refund, Refunds, Label
  <2>4. /\ refunds' \in [Request -> Nat]
        /\ refunds'[r] = refunds[r] + 1
        /\ \A q \in Request \ {r} : refunds'[q] = refunds[q]
        /\ UNCHANGED <<debits, credits>>
    BY <1>9 DEF Refund, Refunds, CoreInv, TypeOK
  <2>5. TypeOK' /\ OnlyOwn(r)
    BY <2>3, <2>4 DEF CoreInv, TypeOK, OnlyOwn, Advances
  <2>6. LegsInv(r)' /\ RouteInv(r)'
    BY <1>0, <2>1, <2>3, <2>4, CatchTargets DEF LegsInv, RouteInv, Unpaid, Advances
  <2> QED
    BY <2>5, <2>6, OwnStepPreserves
<1>10. CASE MarkRefused(r)
  <2>1. /\ TypeOK' /\ OnlyOwn(r)
        /\ pc[r] = "markRefused" /\ pc'[r] \in {"respond", CatchOf("markRefused")}
        /\ status'[r] = "failed"
        /\ UNCHANGED <<balance, debits, credits, refunds, form, columns, peer>>
    BY <1>10, SetsStatusStep DEF MarkRefused, Label
  <2>2. LegsInv(r)' /\ RouteInv(r)'
    BY <1>0, <2>1, CatchTargets DEF LegsInv, RouteInv, Unpaid
  <2> QED
    BY <2>1, <2>2, OwnStepPreserves
<1>11. CASE ReadInCatch(r)
  <2>1. /\ TypeOK' /\ OnlyOwn(r)
        /\ pc[r] = "catchRead" /\ pc'[r] \in {"catchRefund", CatchOf("catchRead")}
        /\ UNCHANGED <<balance, debits, credits, refunds, status, form, columns, peer>>
    BY <1>11, ReadsStep DEF ReadInCatch, Label
  <2>2. LegsInv(r)' /\ RouteInv(r)'
    BY <1>0, <2>1, CatchTargets DEF LegsInv, RouteInv, Unpaid
  <2> QED
    BY <2>1, <2>2, OwnStepPreserves
<1>12. CASE CatchRefund(r)
  <2>1. pc[r] = "catchRefund"
    BY <1>12 DEF CatchRefund, Refunds, Moves, Executes
  <2>2. form[r].from \in AccountRow /\ form[r].amount \in Int
    BY <1>0, <2>1, RequestFields DEF RouteInv, CoreInv
  <2>3. /\ Advances(r, {"catchStatus", CatchOf("catchRefund")})
        /\ balance' \in [AccountRow -> Int]
        /\ UNCHANGED <<status, form, columns, seen, peer>>
    BY <1>12, <2>2, MovesStep DEF CatchRefund, Refunds, Label
  <2>4. /\ refunds' \in [Request -> Nat]
        /\ refunds'[r] = refunds[r] + 1
        /\ \A q \in Request \ {r} : refunds'[q] = refunds[q]
        /\ UNCHANGED <<debits, credits>>
    BY <1>12 DEF CatchRefund, Refunds, CoreInv, TypeOK
  <2>5. TypeOK' /\ OnlyOwn(r)
    BY <2>3, <2>4 DEF CoreInv, TypeOK, OnlyOwn, Advances
  <2>6. LegsInv(r)' /\ RouteInv(r)'
    BY <1>0, <2>1, <2>3, <2>4, CatchTargets DEF LegsInv, RouteInv, Unpaid, Advances
  <2> QED
    BY <2>5, <2>6, OwnStepPreserves
<1>13. CASE CatchStatus(r)
  <2>1. /\ TypeOK' /\ OnlyOwn(r)
        /\ pc[r] = "catchStatus" /\ pc'[r] \in {"respond", CatchOf("catchStatus")}
        /\ status'[r] = "failed"
        /\ UNCHANGED <<balance, debits, credits, refunds, form, columns, peer>>
    BY <1>13, SetsStatusStep DEF CatchStatus, Label
  <2>2. LegsInv(r)' /\ RouteInv(r)'
    BY <1>0, <2>1, CatchTargets DEF LegsInv, RouteInv, Unpaid
  <2> QED
    BY <2>1, <2>2, OwnStepPreserves
<1>14. CASE BreaksOff(r)
  <2>1. faults' \in 0..MaxFaults
    BY <1>14, LimitsAssumption DEF BreaksOff, CoreInv, TypeOK
  <2>2. pc[r] = "await" /\ Advances(r, {"stranded"})
    BY <1>14, <2>1 DEF BreaksOff, CoreInv, TypeOK, Label, Advances
  <2>3. TypeOK' /\ OnlyOwn(r)
    BY <1>14, <2>2 DEF BreaksOff, CoreInv, TypeOK, OnlyOwn, Advances, ledger
  <2>4. LegsInv(r)' /\ RouteInv(r)'
    BY <1>0, <1>14, <2>2 DEF BreaksOff, LegsInv, RouteInv, Unpaid, Advances, ledger
  <2> QED
    BY <2>3, <2>4, OwnStepPreserves
<1> QED
  BY <1>1, <1>2, <1>3, <1>4, <1>5, <1>6, <1>7, <1>8, <1>9, <1>10, <1>11, <1>12, <1>13,
     <1>14
  DEF ProcessExternal

LEMMA RejectedStep ==
  ASSUME CoreInv, NEW r \in Request, Served(r), pc[r] \in DatabaseLabel, Raises(r),
         UNCHANGED <<ledger, status, form, columns, seen, peer>>
  PROVE  CoreInv'
<1>0. LegsInv(r) /\ RouteInv(r)
  BY DEF CoreInv
<1>1. Advances(r, {CatchOf(pc[r])})
  BY RaisesAdvances DEF CoreInv
<1>2. TypeOK' /\ OnlyOwn(r)
  BY <1>1 DEF CoreInv, TypeOK, OnlyOwn, Advances, ledger
<1>3. LegsInv(r)' /\ RouteInv(r)'
  BY <1>0, <1>1, CatchTargets
  DEF LegsInv, RouteInv, Unpaid, Advances, ledger, InternalLabel, ExternalLabel,
      CatchLabel, RouteLabel, HttpLabel, DatabaseLabel
<1> QED
  BY <1>2, <1>3, OwnStepPreserves

-----------------------------------------------------------------------------
(***************************************************************************)
(* The queue of statements.                                                *)
(***************************************************************************)
LEMMA LeavesQueue ==
  ASSUME TypeOK, OneStatementEach, NEW r \in Request, NEW next \in Label,
         Served(r), Leaves(r, next)
  PROVE  OneStatementEach'
<1> DEFINE n == Len(queue)
           rest == Tail(queue)
<1>1. queue \in Seq(Request) /\ queue # <<>> /\ queue[1] = r /\ n \in Nat /\ n >= 1
  BY DEF TypeOK, Served
<1>2. /\ rest \in Seq(Request) /\ Len(rest) = n - 1
      /\ \A i \in 1..(n - 1) : rest[i] = queue[i + 1]
  BY <1>1
<1>3. \A i \in 1..(n - 1) : rest[i] \in Request \ {r}
  BY <1>1, <1>2 DEF OneStatementEach
<1>4. pc'[r] = next /\ \A q \in Request \ {r} : pc'[q] = pc[q]
  BY DEF TypeOK, Leaves
<1>5. \A i \in 1..(n - 1) : pc'[rest[i]] \in DatabaseLabel
  BY <1>1, <1>2, <1>3, <1>4 DEF OneStatementEach
<1>6. \A i, j \in 1..(n - 1) : rest[i] = rest[j] => i = j
  BY <1>1, <1>2 DEF OneStatementEach
<1>7. ASSUME NEW q \in Request \ {r}, pc'[q] \in DatabaseLabel
      PROVE  \E i \in 1..(n - 1) : rest[i] = q
  <2>1. PICK i \in 1..n : queue[i] = q
    BY <1>4, <1>7 DEF OneStatementEach
  <2>2. i - 1 \in 1..(n - 1)
    BY <1>1, <1>7, <2>1
  <2> QED
    BY <1>2, <2>1, <2>2
<1>8. CASE next \in DatabaseLabel
  <2>1. queue' = Append(rest, r)
    BY <1>8 DEF Leaves
  <2>2. /\ Len(queue') = n /\ queue'[n] = r
        /\ \A i \in 1..(n - 1) : queue'[i] = rest[i]
    BY <1>1, <1>2, <2>1
  <2>3. \A i \in 1..n : i = n \/ i \in 1..(n - 1)
    BY <1>1
  <2> HIDE DEF n, rest
  <2>4. \A i \in 1..n : pc'[queue'[i]] \in DatabaseLabel
    BY <1>4, <1>5, <1>8, <2>2, <2>3
  <2>5. \A i, j \in 1..n : queue'[i] = queue'[j] => i = j
    BY <1>3, <1>6, <2>2, <2>3
  <2>6. ASSUME NEW q \in Request, pc'[q] \in DatabaseLabel
        PROVE  \E i \in 1..n : queue'[i] = q
    <3>1. CASE q = r
      BY <1>1, <2>2, <3>1
    <3>2. CASE q # r
      <4>1. PICK i \in 1..(n - 1) : rest[i] = q
        BY <1>7, <2>6, <3>2
      <4> QED
        BY <1>1, <2>2, <4>1
    <3> QED
      BY <3>1, <3>2
  <2> QED
    BY <2>2, <2>4, <2>5, <2>6 DEF OneStatementEach
<1>9. CASE next \notin DatabaseLabel
  <2>1. queue' = rest
    BY <1>9 DEF Leaves
  <2>2. ASSUME NEW q \in Request, pc'[q] \in DatabaseLabel
        PROVE  \E i \in 1..(n - 1) : rest[i] = q
    BY <1>4, <1>7, <1>9, <2>2
  <2> QED
    BY <1>2, <1>5, <1>6, <2>1, <2>2 DEF OneStatementEach
<1> QED
  BY <1>8, <1>9

LEMMA IssuesQueue ==
  ASSUME TypeOK, OneStatementEach, NEW r \in Request, pc[r] \notin DatabaseLabel,
         NEW next \in DatabaseLabel, Issues(r, next)
  PROVE  OneStatementEach'
<1> DEFINE n == Len(queue)
<1>1. queue \in Seq(Request) /\ n \in Nat /\ queue' = Append(queue, r)
  BY DEF TypeOK, Issues
<1>2. /\ Len(queue') = n + 1 /\ queue'[n + 1] = r
      /\ \A i \in 1..n : queue'[i] = queue[i] /\ queue[i] \in Request
  BY <1>1
<1>3. pc'[r] = next /\ \A q \in Request \ {r} : pc'[q] = pc[q]
  BY DEF TypeOK, Issues
<1>4. \A i \in 1..n : queue[i] # r
  BY DEF OneStatementEach
<1>5. \A i \in 1..(n + 1) : i = n + 1 \/ i \in 1..n
  BY <1>1
<1>6. ASSUME NEW q \in Request, pc'[q] \in DatabaseLabel
      PROVE  \E i \in 1..(n + 1) : queue'[i] = q
  <2>1. CASE q = r
    BY <1>1, <1>2, <2>1
  <2>2. CASE q # r
    <3>1. PICK i \in 1..n : queue[i] = q
      BY <1>3, <1>6, <2>2 DEF OneStatementEach
    <3> QED
      BY <1>1, <1>2, <3>1
  <2> QED
    BY <2>1, <2>2
<1> HIDE DEF n
<1>7. \A i \in 1..(n + 1) : pc'[queue'[i]] \in DatabaseLabel
  BY <1>2, <1>3, <1>4, <1>5 DEF OneStatementEach, n
<1>8. \A i, j \in 1..(n + 1) : queue'[i] = queue'[j] => i = j
  BY <1>2, <1>4, <1>5 DEF OneStatementEach, n
<1> QED
  BY <1>2, <1>6, <1>7, <1>8 DEF OneStatementEach

(***************************************************************************)
(* A step of handler r serves r's statement, issues one, or leaves the     *)
(* queue alone.                                                            *)
(***************************************************************************)
Serves(r) == Served(r) /\ \E next \in Label : Leaves(r, next)

Asks(r) ==
  pc[r] \notin DatabaseLabel /\ \E next \in DatabaseLabel : Issues(r, next)

Bypasses(r) ==
  /\ queue' = queue
  /\ pc[r] \notin DatabaseLabel
  /\ \E next \in Label \ DatabaseLabel : pc' = [pc EXCEPT ![r] = next]

LEMMA RepliesServes ==
  ASSUME NEW r, NEW at \in DatabaseLabel, NEW next \in Label,
         Executes(r, at), Replies(r, next)
  PROVE  Serves(r)
<1>1. Served(r) /\ CatchOf(pc[r]) \in Label
  BY CatchTargets DEF Executes
<1> QED
  BY <1>1 DEF Replies, Serves

LEMMA HandlerMoves ==
  ASSUME TypeOK, OneStatementEach, NEW r \in Request, Arrive(r) \/ Handler(r)
  PROVE  Serves(r) \/ Asks(r) \/ Bypasses(r)
<1> USE DEF InternalLabel, ExternalLabel, CatchLabel, RouteLabel, HttpLabel, DatabaseLabel
<1>1. CASE Arrive(r)
  <2>1. "400" \in Label \ DatabaseLabel
    BY DEF Label, Terminal
  <2> QED
    BY <1>1, <2>1 DEF Arrive, Asks, Bypasses
<1>2. CASE Route(r)
  <2>1. AfterLookup(r) \in Label /\ AfterReread(r) \in Label
    BY DEF AfterLookup, AfterReread, Label, Terminal
  <2>2. "reread" \in Label /\ "201" \in Label
    BY DEF Label, Terminal
  <2> QED
    BY <1>2, <2>1, <2>2, RepliesServes
    DEF Route, LookupSource, InsertRow, RereadRow, Respond, Reads, ReadsSource, SetsStatus
<1>3. CASE ProcessInternal(r)
  <2>1. AfterReadTo(r) \in Label
    BY DEF AfterReadTo, Label
  <2>2. {"markPending", "readFrom", "readTo", "credit", "markCompleted", "respond"}
          \subseteq Label
    BY DEF Label
  <2> QED
    BY <1>3, <2>1, <2>2, RepliesServes
    DEF ProcessInternal, FetchRow, MarkPending, ReadFrom, ReadTo, Reject, Debit, Credit,
        MarkCompleted, MarkFailed, Reads, ReadsSource, SetsStatus, Moves
<1>4. CASE ProcessExternal(r)
  <2>1. AfterFunds(r) \in Label
    BY DEF AfterFunds, Label
  <2>2. /\ {"send", "await", "stranded", "refund", "markRefused", "catchRefund", "catchStatus",
            "respond"} \subseteq Label
        /\ {"await", "stranded"} \cap DatabaseLabel = {}
    BY DEF Label
  <2>3. AfterAnswer(r) \in DatabaseLabel
    BY DEF AfterAnswer
  <2>4. CASE SendFails(r) \/ AnswerArrives(r) \/ GivesUp(r)
    BY <2>3, <2>4 DEF SendFails, AnswerArrives, GivesUp, Asks
  <2>5. CASE Posts(r) \/ BreaksOff(r)
    BY <2>2, <2>5 DEF Posts, BreaksOff, Bypasses
  <2> QED
    BY <1>4, <2>1, <2>2, <2>4, <2>5, RepliesServes
    DEF ProcessExternal, CheckFunds, ExternalDebit, MarkAccepted, ReadForRefund, Refund,
        MarkRefused, ReadInCatch, CatchRefund, CatchStatus, Refunds, Reads, ReadsSource, SetsStatus,
        Moves
<1>5. CASE Rejected(r)
  <2>1. Served(r) /\ Raises(r)
    BY <1>5 DEF Rejected, UnknownColumn, OutOfRange, Broken
  <2>2. pc[r] \in DatabaseLabel
    BY <2>1 DEF Served, OneStatementEach, TypeOK
  <2>3. CatchOf(pc[r]) \in Label
    BY <2>2, CatchTargets
  <2> QED
    BY <2>1, <2>3 DEF Raises, Serves
<1> QED
  BY <1>1, <1>2, <1>3, <1>4, <1>5 DEF Handler

LEMMA MoveKeepsQueue ==
  ASSUME TypeOK, OneStatementEach, NEW r \in Request, Arrive(r) \/ Handler(r)
  PROVE  OneStatementEach'
<1>1. CASE Serves(r)
  BY <1>1, LeavesQueue DEF Serves
<1>2. CASE Asks(r)
  BY <1>2, IssuesQueue DEF Asks
<1>3. CASE Bypasses(r)
  <2>1. /\ queue' = queue
        /\ pc[r] \notin DatabaseLabel /\ pc'[r] \notin DatabaseLabel
        /\ \A q \in Request \ {r} : pc'[q] = pc[q]
    BY <1>3 DEF Bypasses, TypeOK
  <2>2. \A i \in 1..Len(queue) : queue[i] \in Request /\ pc[queue[i]] \in DatabaseLabel
    <3>1. queue \in Seq(Request)
      BY DEF TypeOK
    <3>2. \A i \in 1..Len(queue) : pc[queue[i]] \in DatabaseLabel
      BY DEF OneStatementEach
    <3> QED
      BY <3>1, <3>2
  <2>3. \A i \in 1..Len(queue') : pc'[queue'[i]] \in DatabaseLabel
    BY <2>1, <2>2
  <2>4. \A q \in Request : pc'[q] \in DatabaseLabel => \E i \in 1..Len(queue') : queue'[i] = q
    BY <2>1 DEF OneStatementEach
  <2> QED
    BY <2>1, <2>3, <2>4 DEF OneStatementEach
<1> QED
  BY <1>1, <1>2, <1>3, HandlerMoves

-----------------------------------------------------------------------------
(* The core invariant and the queue's are inductive together.                             *)
LEMMA HandlerStep ==
  ASSUME CoreInv, OneStatementEach, NEW r \in Request, Arrive(r) \/ Handler(r)
  PROVE  CoreInv' /\ OneStatementEach'
<1>1. OneStatementEach'
  BY MoveKeepsQueue DEF CoreInv
<1>2. ASSUME Rejected(r) PROVE CoreInv'
  <2>1. /\ Served(r) /\ Raises(r)
        /\ UNCHANGED <<ledger, status, form, columns, seen, peer>>
    BY <1>2 DEF Rejected, UnknownColumn, OutOfRange, Broken
  <2>2. pc[r] \in DatabaseLabel
    BY <2>1 DEF Served, OneStatementEach, CoreInv, TypeOK
  <2> QED
    BY <2>1, <2>2, RejectedStep
<1> QED
  BY <1>1, <1>2, RouteStep, InternalStep, ExternalStep DEF Handler

LEMMA EnvironmentStep ==
  ASSUME CoreInv, OneStatementEach,
         LosesConnection \/ Restarts \/ \E r \in Request : PeerAnswers(r)
  PROVE  CoreInv' /\ OneStatementEach'
<1>1. CASE LosesConnection
  <2>1. faults' \in 0..MaxFaults
    BY <1>1, LimitsAssumption DEF LosesConnection, CoreInv, TypeOK
  <2> QED
    BY <1>1, <2>1
    DEF LosesConnection, CoreInv, TypeOK, LegsInv, RouteInv, OneStatementEach, ledger
<1>2. CASE Restarts
  <2>1. \A r \in Request :
          \/ pc'[r] = "dead"
          \/ pc'[r] = pc[r] /\ pc[r] \in Terminal \cup {"idle"}
    BY <1>2 DEF Restarts
  <2>2. TypeOK'
    <3>1. faults' \in 0..MaxFaults
      BY <1>2, LimitsAssumption DEF Restarts, CoreInv, TypeOK
    <3>2. pc' \in [Request -> Label]
      BY <1>2 DEF Restarts, CoreInv, TypeOK, Label, Terminal
    <3> QED
      BY <1>2, <3>1, <3>2 DEF Restarts, CoreInv, TypeOK, ledger
  <2>3. ASSUME NEW r \in Request PROVE LegsInv(r)' /\ RouteInv(r)'
    BY <1>2, <2>1
    DEF Restarts, CoreInv, LegsInv, RouteInv, ledger, Unpaid, InternalLabel, ExternalLabel,
        CatchLabel, RouteLabel, HttpLabel, DatabaseLabel
  <2>4. \A r \in Request : pc'[r] \notin DatabaseLabel
    BY <2>1 DEF Terminal, InternalLabel, ExternalLabel, CatchLabel, RouteLabel,
                DatabaseLabel
  <2>5. OneStatementEach'
    <3>1. queue' = <<>> /\ Len(queue') = 0
      BY <1>2 DEF Restarts
    <3> QED
      BY <2>4, <3>1 DEF OneStatementEach
  <2> QED
    BY <2>2, <2>3, <2>5 DEF CoreInv
<1>3. CASE \E r \in Request : PeerAnswers(r)
  <2>1. PICK r \in Request : PeerAnswers(r)
    BY <1>3
  <2>2. /\ peer[r] = "sent" /\ peer'[r] \in {"accepted", "refused"}
        /\ \A q \in Request \ {r} : peer'[q] = peer[q]
        /\ peer' \in [Request -> {"none", "sent", "accepted", "refused"}]
    BY <2>1 DEF PeerAnswers, CoreInv, TypeOK
  <2>3. UNCHANGED <<ledger, handlers, status, form, columns, seen>>
    BY <2>1 DEF PeerAnswers
  <2>4. ASSUME NEW q \in Request PROVE LegsInv(q)' /\ RouteInv(q)'
    BY <2>2, <2>3
    DEF CoreInv, LegsInv, RouteInv, ledger, handlers, HttpLabel
  <2> QED
    BY <2>2, <2>3, <2>4 DEF CoreInv, TypeOK, OneStatementEach, ledger, handlers
<1> QED
  BY <1>1, <1>2, <1>3

LEMMA NextPreservesCore ==
  CoreInv /\ OneStatementEach /\ [Next]_vars => CoreInv' /\ OneStatementEach'
<1> SUFFICES ASSUME CoreInv, OneStatementEach, [Next]_vars
             PROVE  CoreInv' /\ OneStatementEach'
  OBVIOUS
<1>1. CASE UNCHANGED vars
  BY <1>1, StutterCore DEF OneStatementEach, vars, handlers
<1>2. CASE Next
  BY <1>1, <1>2, HandlerStep, EnvironmentStep DEF Next, Done
<1> QED
  BY <1>1, <1>2

LEMMA InitQueue == Init => OneStatementEach
BY DEF Init, OneStatementEach, DatabaseLabel, RouteLabel, InternalLabel, ExternalLabel,
       CatchLabel

(***************************************************************************)
(* Which actions touch balances, posts and row states.                     *)
(***************************************************************************)
MovesMoney(r) ==
  Debit(r) \/ Credit(r) \/ ExternalDebit(r) \/ Refund(r) \/ CatchRefund(r)

MarksRow(r) ==
  \/ InsertRow(r) \/ MarkPending(r) \/ Reject(r) \/ MarkCompleted(r) \/ MarkFailed(r)
  \/ MarkAccepted(r) \/ MarkRefused(r) \/ CatchStatus(r)

LEMMA OtherStepsKeep ==
  ASSUME [Next]_vars
  PROVE  /\ \/ \E r \in Request : MovesMoney(r)
            \/ UNCHANGED ledger
         /\ \/ \E r \in Request : MarksRow(r)
            \/ UNCHANGED status
         /\ \/ \E r \in Request : Posts(r) \/ PeerAnswers(r)
            \/ UNCHANGED peer
<1>1. CASE UNCHANGED vars
  BY <1>1 DEF vars
<1>2. ASSUME NEW r \in Request, Arrive(r) \/ Route(r)
      PROVE  UNCHANGED <<ledger, peer>> /\ (MarksRow(r) \/ UNCHANGED status)
  BY <1>2 DEF Arrive, Route, LookupSource, InsertRow, RereadRow, Respond, Reads, ReadsSource,
              SetsStatus, MarksRow
<1>3. ASSUME NEW r \in Request, ProcessInternal(r)
      PROVE  /\ MovesMoney(r) \/ UNCHANGED ledger
             /\ MarksRow(r) \/ UNCHANGED status
             /\ UNCHANGED peer
  BY <1>3 DEF ProcessInternal, FetchRow, MarkPending, ReadFrom, ReadTo, Reject, Debit,
              Credit, MarkCompleted, MarkFailed, Reads, ReadsSource, SetsStatus, Moves, MarksRow,
              MovesMoney
<1>4. ASSUME NEW r \in Request, ProcessExternal(r)
      PROVE  /\ MovesMoney(r) \/ UNCHANGED ledger
             /\ MarksRow(r) \/ UNCHANGED status
             /\ Posts(r) \/ UNCHANGED peer
  BY <1>4 DEF ProcessExternal, CheckFunds, ExternalDebit, SendFails, Posts,
              AnswerArrives, GivesUp, BreaksOff, MarkAccepted, ReadForRefund, Refund,
              MarkRefused, ReadInCatch, CatchRefund, CatchStatus, Refunds, Reads, ReadsSource,
              SetsStatus, Moves, MarksRow, MovesMoney
<1>5. ASSUME NEW r \in Request, Rejected(r) PROVE UNCHANGED <<ledger, status, peer>>
  BY <1>5 DEF Rejected, UnknownColumn, OutOfRange, Broken
<1>6. ASSUME LosesConnection \/ Restarts \/ Done PROVE UNCHANGED <<ledger, status, peer>>
  BY <1>6 DEF LosesConnection, Restarts, Done, vars
<1>7. ASSUME NEW r \in Request, PeerAnswers(r) PROVE UNCHANGED <<ledger, status>>
  BY <1>7 DEF PeerAnswers
<1> QED
  BY <1>1, <1>2, <1>3, <1>4, <1>5, <1>6, <1>7 DEF Next, Handler

LEMMA NextFormStays == [Next]_vars => form' = form
BY DEF vars, Next, Done, Arrive, Handler, Route, ProcessInternal, ProcessExternal,
       Rejected, LookupSource, InsertRow, RereadRow, Respond, FetchRow, MarkPending,
       ReadFrom, ReadTo, Reject, Debit, Credit, MarkCompleted, MarkFailed, CheckFunds,
       ExternalDebit, SendFails, Posts, AnswerArrives, GivesUp, BreaksOff, MarkAccepted,
       ReadForRefund, Refund, MarkRefused, ReadInCatch, CatchRefund, CatchStatus, Refunds,
       Reads, ReadsSource, SetsStatus, Moves, UnknownColumn, OutOfRange, Broken, PeerAnswers,
       LosesConnection, Restarts

LEMMA MoneyStaysPrefixed ==
  ASSUME CoreInv, NEW r \in Request, MovesMoney(r)
  PROVE  \A a \in AccountRow \ Prefixed : balance'[a] = balance[a]
<1> USE DEF InternalLabel, ExternalLabel, CatchLabel, RouteLabel, HttpLabel, DatabaseLabel
<1>0. RouteInv(r) /\ balance \in [AccountRow -> Int]
  BY DEF CoreInv, TypeOK
<1>1. CASE Credit(r)
  <2>1. pc[r] = "credit"
        /\ balance' = [balance EXCEPT ![form[r].to] = @ + form[r].amount]
    BY <1>1 DEF Credit, Moves, Executes
  <2> QED
    BY <1>0, <2>1 DEF RouteInv
<1>2. CASE Debit(r) \/ ExternalDebit(r) \/ Refund(r) \/ CatchRefund(r)
  <2>1. /\ pc[r] \in {"debit", "extDebit", "refund", "catchRefund"}
        /\ \E delta : balance' = [balance EXCEPT ![form[r].from] = @ + delta]
    BY <1>2 DEF Debit, ExternalDebit, Refund, CatchRefund, Refunds, Moves, Executes
  <2> QED
    BY <1>0, <2>1 DEF RouteInv
<1> QED
  BY <1>1, <1>2 DEF MovesMoney

-----------------------------------------------------------------------------
(***************************************************************************)
(* The theorems.                                                           *)
(***************************************************************************)

(* The two invariants hold in every reachable state.                       *)
THEOREM CoreInvariance == Spec => [](CoreInv /\ OneStatementEach)
<1>1. Init => CoreInv /\ OneStatementEach
  BY InitCore, InitQueue
<1> QED
  BY <1>1, NextPreservesCore, PTL DEF Spec

(* Every variable keeps its type: in particular no handler ends in a place *)
(* that no catch block leads to, and no request moves a leg a negative     *)
(* number of times.                                                        *)
THEOREM TypeCorrect == Spec => []TypeOK
<1>1. CoreInv => TypeOK
  BY DEF CoreInv
<1> QED
  BY <1>1, CoreInvariance, PTL

(* Each waiting handler has exactly one statement on the connection.       *)
THEOREM QueueCorrect == Spec => []OneStatementEach
BY CoreInvariance, PTL

(* While a handler waits for the other bank nothing was refunded, and a    *)
(* request is refunded at most twice.                                      *)
THEOREM RefundsBounded == Spec => []RefundsFollowAttempt
<1>1. CoreInv => RefundsFollowAttempt
  BY DEF CoreInv, LegsInv, RefundsFollowAttempt, HttpLabel
<1> QED
  BY <1>1, CoreInvariance, PTL

(* No transfer changes the balance of an account without the bank prefix.  *)
THEOREM UnprefixedSafe == Spec => []UnprefixedFrozen
<1>1. Init => UnprefixedFrozen
  BY DEF Init, UnprefixedFrozen
<1>2. CoreInv /\ UnprefixedFrozen /\ [Next]_vars => UnprefixedFrozen'
  BY OtherStepsKeep, MoneyStaysPrefixed DEF UnprefixedFrozen, ledger
<1> QED
  BY <1>1, <1>2, CoreInvariance, PTL DEF Spec

(* A transfer is posted at most once, by a sender who has paid for it.     *)
THEOREM PostedOncePaid == Spec => PostsOncePaid
<1>1. ASSUME CoreInv, [Next]_vars, NEW r \in Request, peer'[r] = "sent", peer[r] # "sent"
      PROVE  peer[r] = "none" /\ debits[r] = 1 /\ refunds[r] = 0
  <2>1. PICK q \in Request : Posts(q) \/ PeerAnswers(q)
    BY <1>1, OtherStepsKeep
  <2>2. Posts(q) /\ q = r
    BY <1>1, <2>1 DEF Posts, PeerAnswers, CoreInv, TypeOK
  <2> QED
    BY <1>1, <2>2 DEF Posts, CoreInv, LegsInv, HttpLabel
<1>2. CoreInv /\ [Next]_vars =>
        [\A r \in Request :
           peer'[r] = "sent" /\ peer[r] # "sent" =>
             peer[r] = "none" /\ debits[r] = 1 /\ refunds[r] = 0]_vars
  BY <1>1
<1> QED
  BY <1>2, CoreInvariance, PTL DEF Spec, PostsOncePaid

(* A pending row is completed only when both legs were applied once.       *)
THEOREM SettledIsMoved == Spec => SettledMeansMoved
<1> USE DEF InternalLabel, ExternalLabel, CatchLabel, RouteLabel, HttpLabel, DatabaseLabel
<1>1. ASSUME CoreInv, [Next]_vars, NEW r \in Request,
             status[r] = "pending", status'[r] = "completed"
      PROVE  debits[r] = 1 /\ credits[r] = 1 /\ refunds[r] = 0
  <2>1. PICK q \in Request : MarksRow(q)
    BY <1>1, OtherStepsKeep
  <2>2. PICK l \in DatabaseLabel, s \in {"pending", "completed", "failed"} :
          /\ pc[q] = l /\ status' = [status EXCEPT ![q] = s]
          /\ s = "completed" => l \in {"insert", "markCompleted", "markAccepted"}
    BY <2>1 DEF MarksRow, InsertRow, MarkPending, Reject, MarkCompleted, MarkFailed,
                MarkAccepted, MarkRefused, CatchStatus, SetsStatus, Executes
  <2>3. q = r /\ l \in {"insert", "markCompleted", "markAccepted"}
    BY <1>1, <2>2 DEF CoreInv, TypeOK
  <2>4. l = "markCompleted"
    BY <1>1, <2>2, <2>3 DEF CoreInv, RouteInv
  <2> QED
    BY <1>1, <2>2, <2>3, <2>4 DEF CoreInv, LegsInv, RouteInv, TypeOK
<1>2. CoreInv /\ [Next]_vars =>
        [\A r \in Request :
           status[r] = "pending" /\ status'[r] = "completed" =>
             debits[r] = 1 /\ credits[r] = 1 /\ refunds[r] = 0]_vars
  BY <1>1
<1> QED
  BY <1>2, CoreInvariance, PTL DEF Spec, SettledMeansMoved

-----------------------------------------------------------------------------
(***************************************************************************)
(* Refinement of the abstract ledger, when every account number that a     *)
(* request may name belongs to this bank.                                  *)
(***************************************************************************)
LEMMA DebitTakes ==
  ASSUME CoreInv, NEW r \in Request, Debit(r)
  PROVE  Escrow!Take(r)
<1>1. /\ pc[r] = "debit"
      /\ balance' = [balance EXCEPT ![form[r].from] = @ + (-form[r].amount)]
      /\ debits' = [debits EXCEPT ![r] = @ + 1]
      /\ UNCHANGED <<credits, form, columns>>
  BY DEF Debit, Moves, Executes
<1>2. /\ debits[r] = 0 /\ credits[r] = 0
      /\ \A q \in Request : credits[q] \in Nat /\ debits[q] \in Nat
  BY <1>1 DEF CoreInv, LegsInv, Unpaid, TypeOK
<1>3. form[r].from \in AccountRow /\ form[r].to \in AccountRow
  BY <1>1 DEF CoreInv, RouteInv, DatabaseLabel, InternalLabel
<1>4. Stage[r] = "new"
  BY <1>2 DEF Stage
<1>5. Stage' = [Stage EXCEPT ![r] = "underway"]
  <2>1. debits'[r] = 1 /\ credits'[r] = 0
    BY <1>1, <1>2 DEF CoreInv, TypeOK
  <2>2. \A q \in Request \ {r} : debits'[q] = debits[q] /\ credits'[q] = credits[q]
    BY <1>1 DEF CoreInv, TypeOK
  <2>3. \A q \in Request : Stage'[q] = IF q = r THEN "underway" ELSE Stage[q]
    BY <1>2, <2>1, <2>2 DEF Stage
  <2>4. Stage = [q \in Request |-> Stage[q]] /\ Stage' = [q \in Request |-> Stage'[q]]
    BY DEF Stage
  <2> HIDE DEF Stage
  <2> QED
    BY <2>3, <2>4
<1>6. balance' = [balance EXCEPT ![form[r].from] = @ - form[r].amount]
  <2>1. balance[form[r].from] \in Int /\ form[r].amount \in Int
    BY <1>3, RequestFields DEF CoreInv, TypeOK
  <2>2. balance[form[r].from] + (-form[r].amount) = balance[form[r].from] - form[r].amount
    BY <2>1
  <2> QED
    BY <1>1, <2>2
<1> QED
  BY <1>1, <1>3, <1>4, <1>5, <1>6 DEF Escrow!Take

LEMMA CreditBrings ==
  ASSUME CoreInv, NEW r \in Request, Credit(r)
  PROVE  Escrow!Bring(r)
<1>1. /\ pc[r] = "credit"
      /\ balance' = [balance EXCEPT ![form[r].to] = @ + form[r].amount]
      /\ credits' = [credits EXCEPT ![r] = @ + 1]
      /\ UNCHANGED <<debits, form, columns>>
  BY DEF Credit, Moves, Executes
<1>2. debits[r] = 1 /\ credits[r] = 0
  BY <1>1 DEF CoreInv, LegsInv
<1>3. Stage[r] = "underway"
  BY <1>2 DEF Stage
<1>4. Stage' = [Stage EXCEPT ![r] = "arrived"]
  <2>1. credits'[r] = 1
    BY <1>1, <1>2 DEF CoreInv, TypeOK
  <2>2. \A q \in Request \ {r} : debits'[q] = debits[q] /\ credits'[q] = credits[q]
    BY <1>1 DEF CoreInv, TypeOK
  <2>3. \A q \in Request : Stage'[q] = IF q = r THEN "arrived" ELSE Stage[q]
    BY <1>2, <2>1, <2>2 DEF Stage
  <2>4. Stage = [q \in Request |-> Stage[q]] /\ Stage' = [q \in Request |-> Stage'[q]]
    BY DEF Stage
  <2> HIDE DEF Stage
  <2> QED
    BY <2>3, <2>4
<1> QED
  BY <1>1, <1>3, <1>4 DEF Escrow!Bring

(* Transfers between accounts of the bank implement the abstract ledger:   *)
(* no interleaving and no fault moves money in any other way.              *)
THEOREM EscrowImplemented ==
  ASSUME Number \subseteq Prefixed
  PROVE  Spec => ImplementsEscrow
<1>1. Init => Escrow!Init
  BY DEF Init, Escrow!Init, Stage
<1>2. CoreInv /\ [Next]_vars => [Escrow!Next]_(Escrow!vars)
  <2> SUFFICES ASSUME CoreInv, [Next]_vars
               PROVE  [Escrow!Next]_(Escrow!vars)
    OBVIOUS
  <2>1. form' = form
    BY NextFormStays
  <2>2. CASE UNCHANGED ledger
    BY <2>1, <2>2 DEF ledger, Stage, Escrow!vars
  <2>3. ASSUME NEW r \in Request, MovesMoney(r)
        PROVE  Escrow!Next
    <3>1. form[r].to \in Prefixed
      BY DEF CoreInv, TypeOK
    <3>2. CASE ExternalDebit(r) \/ Refund(r) \/ CatchRefund(r)
      <4>1. pc[r] \in {"extDebit", "refund", "catchRefund"}
        BY <3>2 DEF ExternalDebit, Refund, CatchRefund, Refunds, Moves, Executes
      <4> QED
        BY <3>1, <4>1 DEF CoreInv, RouteInv, ExternalLabel, CatchLabel
    <3> QED
      BY <2>3, <3>2, DebitTakes, CreditBrings DEF MovesMoney, Escrow!Next
  <2> QED
    BY <2>2, <2>3, OtherStepsKeep
<1> QED
  BY <1>1, <1>2, CoreInvariance, PTL DEF Spec, ImplementsEscrow, Escrow!Spec
=============================================================================
