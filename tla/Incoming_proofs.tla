---------------------------- MODULE Incoming_proofs ----------------------------
(***************************************************************************)
(* The safety of POST /transactions/b2b for every set of deliveries,       *)
(* accounts, amounts and schemas, every opening balance and any number of  *)
(* faults.                                                                 *)
(***************************************************************************)
EXTENDS Incoming, DataLemmas, TLAPS

Label == Statement \cup Terminal \cup {"idle"}

(* A step of d moves d to one of the targets and no other handler.         *)
Advances(d, targets) ==
  /\ pc' \in [Delivery -> Label]
  /\ pc'[d] \in targets
  /\ \A e \in Delivery \ {d} : pc'[e] = pc[e]
  /\ queue' \in Seq(Delivery)
  /\ QueueInv'

LEMMA CatchTargets ==
  /\ \A l \in TryLabel : CatchOf(l) = "catchStatus"
  /\ \A l \in {"lookup", "insert", "reread", "catchStatus"} : CatchOf(l) = "500"
  /\ \A l \in Statement : CatchOf(l) \in Label
BY DEF CatchOf, TryLabel, Statement, Label, Terminal

LEMMA LeavesAdvances ==
  ASSUME TypeOK, QueueInv, NEW d \in Delivery, NEW next \in Label, Served(d), Leaves(d, next)
  PROVE  Advances(d, {next}) /\ pc[d] \in Statement
<1> DEFINE rest == Tail(queue)
<1>1. /\ rest \in Seq(Delivery) /\ IsInjective(rest)
      /\ \A i \in DOMAIN rest : rest[i] \in Delivery \ {d} /\ pc[rest[i]] \in Statement
      /\ pc[d] \in Statement
  BY TailDistinct DEF TypeOK, QueueInv, Served
<1>2. /\ pc' \in [Delivery -> Label] /\ pc'[d] = next
      /\ \A e \in Delivery \ {d} : pc'[e] = pc[e]
  BY DEF TypeOK, Leaves, Label
<1>3. \A i \in DOMAIN rest : pc'[rest[i]] \in Statement
  BY <1>1, <1>2
<1> HIDE DEF rest
<1>4. CASE next \in Statement
  <2>1. queue' = Append(rest, d)
    BY <1>4 DEF Leaves, rest
  <2>2. /\ queue' \in Seq(Delivery) /\ IsInjective(queue')
        /\ \A i \in DOMAIN queue' :
             queue'[i] = d \/ \E j \in DOMAIN rest : rest[j] = queue'[i]
    BY <1>1, <2>1, AppendDistinct
  <2> QED
    BY <1>1, <1>2, <1>3, <1>4, <2>2 DEF Advances, QueueInv
<1>5. CASE next \notin Statement
  <2>1. queue' = rest
    BY <1>5 DEF Leaves, rest
  <2> QED
    BY <1>1, <1>2, <1>3, <2>1 DEF Advances, QueueInv
<1> QED
  BY <1>4, <1>5

(* The result comes back, or is lost and the catch block runs.             *)
LEMMA RepliesAdvances ==
  ASSUME IInv, NEW d \in Delivery, NEW at \in Statement, NEW next \in Label,
         Executes(d, at), Replies(d, next)
  PROVE  /\ pc[d] = at /\ connected /\ connected' \in BOOLEAN /\ faults' \in 0..MaxFaults
         /\ \/ Advances(d, {next}) /\ UNCHANGED <<connected, faults>>
            \/ Advances(d, {CatchOf(at)}) /\ ~connected' /\ faults' # 0
<1>1. TypeOK /\ QueueInv /\ pc[d] = at /\ Served(d) /\ connected
  BY DEF IInv, Executes
<1>2. CASE Leaves(d, next) /\ UNCHANGED <<connected, faults>>
  BY <1>1, <1>2, LeavesAdvances DEF TypeOK
<1>3. CASE /\ faults < MaxFaults /\ faults' = faults + 1
           /\ connected' = FALSE /\ Leaves(d, CatchOf(pc[d]))
  <2>1. faults' \in 0..MaxFaults /\ faults' # 0
    BY <1>1, <1>3, LimitsAssumption DEF TypeOK
  <2> QED
    BY <1>1, <1>3, <2>1, CatchTargets, LeavesAdvances
<1> QED
  BY <1>2, <1>3 DEF Replies

(* The frame of a step of d.                                               *)
LEMMA OwnStepPreserves ==
  ASSUME IInv, NEW d \in Delivery, NEW targets, Advances(d, targets), TypeOK',
         bill' = bill, columns' = columns,
         \/ UNCHANGED <<connected, faults>>
         \/ ~connected' /\ faults' # 0,
         \A e \in Delivery \ {d} : UNCHANGED <<status[e], credits[e]>>,
         Fits(d, pc[d])', CreditInv(d)',
         \A a \in AccountRow : balance'[a] >= balance[a]
  PROVE  IInv'
<1>1. \A e \in Delivery \ {d} : Fits(e, pc[e])'
  BY DEF IInv, Fits, Advances
<1>2. \A e \in Delivery \ {d} : CreditInv(e)'
  BY DEF IInv, CreditInv, Advances
<1>3. ~connected' => faults' # 0
  BY DEF IInv
<1>4. \A a \in AccountRow : balance'[a] >= Opening[a]
  <2> SUFFICES ASSUME NEW a \in AccountRow PROVE balance'[a] >= Opening[a]
    OBVIOUS
  <2>1. balance[a] \in Int /\ balance'[a] \in Int /\ Opening[a] \in Int
    BY OpeningAssumption DEF IInv, TypeOK
  <2> QED
    BY <2>1 DEF IInv
<1> QED
  BY <1>1, <1>2, <1>3, <1>4 DEF IInv, Advances

-----------------------------------------------------------------------------
(***************************************************************************)
(* The statements of the handler.                                          *)
(***************************************************************************)

(* A SELECT, or an UPDATE of the status, when what follows it is known.    *)
LEMMA StatusStep ==
  ASSUME IInv, NEW d \in Delivery, NEW at \in Statement, NEW next \in Label,
         NEW s \in {"absent", "pending", "completed", "failed"},
         Executes(d, at), Replies(d, next), status' = [status EXCEPT ![d] = s],
         UNCHANGED <<balance, bill, columns, credits>>,
         Fits(d, next), Fits(d, CatchOf(at)),
         /\ pc'[d] = next /\ status'[d] = s
         /\ UNCHANGED <<connected, faults, credits>>
         => CreditInv(d)',
         /\ pc'[d] = CatchOf(at) /\ status'[d] = s /\ faults' # 0 /\ ~connected'
         /\ UNCHANGED credits
         => CreditInv(d)'
  PROVE  IInv'
<1>1. /\ pc[d] = at /\ connected' \in BOOLEAN /\ faults' \in 0..MaxFaults
      /\ \/ Advances(d, {next}) /\ UNCHANGED <<connected, faults>>
         \/ Advances(d, {CatchOf(at)}) /\ ~connected' /\ faults' # 0
  BY RepliesAdvances
<1>2. /\ status' \in [Delivery -> {"absent", "pending", "completed", "failed"}]
      /\ status'[d] = s
      /\ \A e \in Delivery \ {d} : status'[e] = status[e]
  BY DEF IInv, TypeOK
<1>3. \A a \in AccountRow : balance'[a] >= balance[a]
  BY DEF IInv, TypeOK
<1>4. CASE Advances(d, {next}) /\ UNCHANGED <<connected, faults>>
  <2>1. TypeOK' /\ Fits(d, pc[d])' /\ CreditInv(d)'
    BY <1>1, <1>2, <1>4 DEF IInv, TypeOK, Advances, Label, Fits
  <2> QED
    BY <1>2, <1>3, <1>4, <2>1, OwnStepPreserves
<1>5. CASE Advances(d, {CatchOf(at)}) /\ ~connected' /\ faults' # 0
  <2>1. TypeOK' /\ Fits(d, pc[d])' /\ CreditInv(d)'
    BY <1>1, <1>2, <1>5 DEF IInv, TypeOK, Advances, Label, Fits
  <2> QED
    BY <1>2, <1>3, <1>5, <2>1, OwnStepPreserves
<1> QED
  BY <1>1, <1>4, <1>5

LEMMA ReadsStep ==
  ASSUME IInv, NEW d \in Delivery, NEW at \in Statement, NEW next \in Label,
         Reads(d, at, next), Fits(d, next), Fits(d, CatchOf(at)),
         /\ pc'[d] = next /\ UNCHANGED <<status, connected, faults, credits>> => CreditInv(d)',
         /\ pc'[d] = CatchOf(at) /\ faults' # 0 /\ ~connected' /\ UNCHANGED <<status, credits>>
         => CreditInv(d)'
  PROVE  IInv'
<1>1. /\ Executes(d, at) /\ Replies(d, next) /\ status' = [status EXCEPT ![d] = status[d]]
      /\ status' = status
      /\ status[d] \in {"absent", "pending", "completed", "failed"}
      /\ UNCHANGED <<balance, bill, columns, credits>>
  BY DEF Reads, IInv, TypeOK
<1> QED
  BY <1>1, StatusStep

(* What an await means for a statement that has not been served yet.       *)
LEMMA BeforeCredit ==
  ASSUME IInv, NEW d \in Delivery
  PROVE  /\ Fits(d, pc[d]) /\ CreditInv(d)
         /\ pc[d] \in {"lookup", "insert", "reread", "markPending"}
              => credits[d] = 0 /\ status[d] # "failed"
BY DEF IInv, CreditInv, Statement, TryLabel

LEMMA FirstStatements ==
  ASSUME IInv, NEW d \in Delivery,
         LookupDestination(d) \/ InsertRow(d) \/ RereadRow(d) \/ MarkPending(d)
  PROVE  IInv'
<1> USE DEF TryLabel, Statement, Terminal, Label
<1>1. CASE LookupDestination(d)
  <2> DEFINE next == AfterLookup(d)
  <2>1. (next = "insert" /\ RowExists(bill[d].to)) \/ next = "404"
    BY DEF AfterLookup
  <2>2. /\ pc[d] = "lookup" /\ credits[d] = 0 /\ status[d] # "failed"
        /\ Fits(d, next) /\ Fits(d, CatchOf("lookup"))
    BY <1>1, <2>1, BeforeCredit, CatchTargets DEF LookupDestination, Reads, Executes, Fits
  <2>3. ASSUME pc'[d] \in {next, CatchOf("lookup")}, UNCHANGED <<status, credits>>
        PROVE  CreditInv(d)'
    BY <2>1, <2>2, <2>3, CatchTargets DEF CreditInv
  <2> QED
    BY <1>1, <2>1, <2>2, <2>3, ReadsStep DEF LookupDestination
<1>2. CASE InsertRow(d)
  <2>1. /\ pc[d] = "insert" /\ credits[d] = 0
        /\ Fits(d, "reread") /\ Fits(d, CatchOf("insert"))
    BY <1>2, BeforeCredit, CatchTargets DEF InsertRow, SetsStatus, Executes, Fits
  <2>2. ASSUME pc'[d] \in {"reread", CatchOf("insert")}, status'[d] = "completed",
               UNCHANGED credits
        PROVE  CreditInv(d)'
    BY <2>1, <2>2, CatchTargets DEF CreditInv
  <2> QED
    BY <1>2, <2>1, <2>2, StatusStep DEF InsertRow, SetsStatus
<1>3. CASE RereadRow(d)
  <2>1. /\ pc[d] = "reread" /\ credits[d] = 0 /\ status[d] # "failed"
        /\ Fits(d, "markPending") /\ Fits(d, CatchOf("reread"))
    BY <1>3, BeforeCredit, CatchTargets DEF RereadRow, Reads, Executes, Fits
  <2>2. ASSUME pc'[d] \in {"markPending", CatchOf("reread")}, UNCHANGED <<status, credits>>
        PROVE  CreditInv(d)'
    BY <2>1, <2>2, CatchTargets DEF CreditInv
  <2> QED
    BY <1>3, <2>1, <2>2, ReadsStep DEF RereadRow
<1>4. CASE MarkPending(d)
  <2>1. /\ pc[d] = "markPending" /\ credits[d] = 0
        /\ Fits(d, "credit") /\ Fits(d, CatchOf("markPending"))
    BY <1>4, BeforeCredit, CatchTargets DEF MarkPending, SetsStatus, Executes, Fits
  <2>2. ASSUME pc'[d] \in {"credit", CatchOf("markPending")}, status'[d] = "pending",
               UNCHANGED credits
        PROVE  CreditInv(d)'
    BY <2>1, <2>2, CatchTargets DEF CreditInv
  <2> QED
    BY <1>4, <2>1, <2>2, StatusStep DEF MarkPending, SetsStatus
<1> QED
  BY <1>1, <1>2, <1>3, <1>4

LEMMA CreditStep ==
  ASSUME IInv, NEW d \in Delivery, Credit(d)
  PROVE  IInv'
<1> DEFINE to == bill[d].to
           amount == bill[d].amount
<1>1. /\ pc[d] = "credit" /\ Fits(d, "credit") /\ CreditInv(d)
      /\ "accounts.number" \in columns
      /\ Executes(d, "credit") /\ Replies(d, "markCompleted")
      /\ UNCHANGED <<status, bill, columns>>
  BY BeforeCredit DEF Credit, Executes
<1>2. to \in AccountRow /\ amount \in Int /\ amount > 0
  <2>1. bill[d] \in [to: Number, amount: Amount]
    BY DEF IInv, TypeOK
  <2> QED
    BY <1>1, <2>1, AmountAssumption DEF Fits, TryLabel, RowExists, Admits
<1>3. /\ connected' \in BOOLEAN /\ faults' \in 0..MaxFaults
      /\ \/ Advances(d, {"markCompleted"}) /\ UNCHANGED <<connected, faults>>
         \/ Advances(d, {"catchStatus"}) /\ ~connected' /\ faults' # 0
  BY <1>1, RepliesAdvances, CatchTargets DEF Statement, TryLabel, Label
<1>4. /\ balance' \in [AccountRow -> Int]
      /\ \A a \in AccountRow : balance'[a] >= balance[a]
  BY <1>2 DEF Credit, IInv, TypeOK
<1>5. /\ credits' \in [Delivery -> Nat] /\ credits'[d] = 1
      /\ \A e \in Delivery \ {d} : credits'[e] = credits[e]
  <2>1. credits[d] = 0 /\ credits \in [Delivery -> Nat]
    BY <1>1 DEF CreditInv, IInv, TypeOK
  <2> QED
    BY <2>1 DEF Credit
<1>6. TypeOK'
  BY <1>1, <1>3, <1>4, <1>5 DEF IInv, TypeOK, Advances, Label
<1>7. status[d] # "failed" /\ pc'[d] \in {"markCompleted", "catchStatus"}
  BY <1>1, <1>3 DEF CreditInv, Statement, TryLabel, Advances
<1>8. Fits(d, pc[d])'
  BY <1>1, <1>7 DEF Fits, TryLabel
<1>9. CreditInv(d)'
  BY <1>1, <1>3, <1>5, <1>7 DEF CreditInv, Advances
<1> HIDE DEF to, amount
<1> QED
  BY <1>1, <1>3, <1>4, <1>5, <1>6, <1>8, <1>9, OwnStepPreserves

LEMMA LastStatements ==
  ASSUME IInv, NEW d \in Delivery, MarkCompleted(d) \/ FindReceiver(d) \/ CatchStatus(d)
  PROVE  IInv'
<1> USE DEF TryLabel, Statement, Terminal, Label
<1>0. Fits(d, pc[d]) /\ CreditInv(d)
  BY BeforeCredit
<1>1. CASE MarkCompleted(d)
  <2>1. /\ pc[d] = "markCompleted" /\ credits[d] = 1
        /\ Fits(d, "receiver") /\ Fits(d, CatchOf("markCompleted"))
    BY <1>0, <1>1, CatchTargets DEF MarkCompleted, SetsStatus, Executes, Fits, CreditInv
  <2>2. ASSUME \/ pc'[d] = "receiver"
               \/ pc'[d] = CatchOf("markCompleted") /\ faults' # 0 /\ ~connected',
               status'[d] = "completed", UNCHANGED credits
        PROVE  CreditInv(d)'
    BY <2>1, <2>2, CatchTargets DEF CreditInv
  <2> QED
    BY <1>1, <2>1, <2>2, StatusStep DEF MarkCompleted, SetsStatus
<1>2. CASE FindReceiver(d)
  <2>1. /\ pc[d] = "receiver" /\ credits[d] = 1 /\ status[d] = "completed"
        /\ Fits(d, "200") /\ Fits(d, CatchOf("receiver"))
    BY <1>0, <1>2, CatchTargets DEF FindReceiver, Reads, Executes, Fits, CreditInv
  <2>2. ASSUME \/ pc'[d] = "200"
               \/ pc'[d] = CatchOf("receiver") /\ faults' # 0 /\ ~connected',
               UNCHANGED <<status, credits>>
        PROVE  CreditInv(d)'
    BY <2>1, <2>2, CatchTargets DEF CreditInv
  <2> QED
    BY <1>2, <2>1, <2>2, ReadsStep DEF FindReceiver
<1>3. CASE CatchStatus(d)
  <2>1. /\ pc[d] = "catchStatus" /\ credits[d] = 0
        /\ Fits(d, "500") /\ Fits(d, CatchOf("catchStatus"))
    BY <1>0, <1>3, CatchTargets DEF CatchStatus, SetsStatus, Executes, Fits, CreditInv
  <2>2. ASSUME pc'[d] \in {"500", CatchOf("catchStatus")}, UNCHANGED credits
        PROVE  CreditInv(d)'
    BY <2>1, <2>2, CatchTargets DEF CreditInv
  <2> QED
    BY <1>3, <2>1, <2>2, StatusStep DEF CatchStatus, SetsStatus
<1> QED
  BY <1>1, <1>2, <1>3

-----------------------------------------------------------------------------
(***************************************************************************)
(* Rejected statements, arrivals and faults.                               *)
(***************************************************************************)

(* With a live connection nothing is rejected between credit and answer.   *)
LEMMA RejectedStep ==
  ASSUME IInv, NEW d \in Delivery, UnknownColumn(d) \/ ValueRefused(d) \/ Broken(d)
  PROVE  IInv'
<1>1. /\ TypeOK /\ QueueInv /\ Fits(d, pc[d]) /\ CreditInv(d)
      /\ Served(d) /\ Leaves(d, CatchOf(pc[d]))
      /\ UNCHANGED <<balance, status, bill, columns, connected, faults, credits>>
  BY DEF IInv, UnknownColumn, ValueRefused, Broken, Raises
<1>2. pc[d] \in Statement
  BY <1>1 DEF QueueInv, Served, TypeOK
<1>3. Advances(d, {CatchOf(pc[d])})
  BY <1>1, <1>2, CatchTargets, LeavesAdvances
<1>4. connected => pc[d] \in {"insert", "credit", "catchStatus"}
  BY <1>1 DEF UnknownColumn, ValueRefused, Broken, Fits
<1>5. faults = 0 => connected
  BY DEF IInv
<1>6. CatchOf(pc[d]) \in {"catchStatus", "500"}
  BY <1>2, CatchTargets DEF Statement
<1>7. TypeOK'
  BY <1>1, <1>3 DEF TypeOK, Advances, Label
<1>8. Fits(d, pc[d])'
  BY <1>3, <1>6 DEF Advances, Fits, TryLabel
<1>9. connected \/ faults = 0 => credits[d] = 0
  BY <1>1, <1>4, <1>5 DEF CreditInv
<1>10. CreditInv(d)'
  BY <1>1, <1>2, <1>3, <1>6, <1>9 DEF Advances, CreditInv
<1>11. \A a \in AccountRow : balance'[a] >= balance[a]
  BY <1>1 DEF TypeOK
<1> QED
  BY <1>1, <1>3, <1>7, <1>8, <1>10, <1>11, OwnStepPreserves

LEMMA ArriveStep ==
  ASSUME IInv, NEW d \in Delivery, Arrive(d)
  PROVE  IInv'
<1>1. /\ TypeOK /\ QueueInv /\ CreditInv(d) /\ pc[d] = "idle"
      /\ UNCHANGED <<balance, status, bill, columns, connected, faults, credits>>
  BY DEF IInv, Arrive
<1>2. Advances(d, {"lookup", "400"})
  <2>1. \A i \in DOMAIN queue : queue[i] \in Delivery \ {d} /\ pc[queue[i]] \in Statement
    BY <1>1 DEF TypeOK, QueueInv, Statement, TryLabel
  <2>2. CASE pc' = [pc EXCEPT ![d] = "lookup"] /\ queue' = Append(queue, d)
    <3>1. /\ pc' \in [Delivery -> Label] /\ pc'[d] = "lookup"
          /\ \A e \in Delivery \ {d} : pc'[e] = pc[e]
      BY <1>1, <2>2 DEF TypeOK, Label, Statement
    <3>2. /\ queue' \in Seq(Delivery) /\ IsInjective(queue')
          /\ \A i \in DOMAIN queue' :
               queue'[i] = d \/ \E j \in DOMAIN queue : queue[j] = queue'[i]
      BY <1>1, <2>1, <2>2, AppendDistinct DEF TypeOK, QueueInv
    <3>3. \A i \in DOMAIN queue' : pc'[queue'[i]] \in Statement
      BY <2>1, <3>1, <3>2 DEF Statement
    <3> QED
      BY <3>1, <3>2, <3>3 DEF Advances, QueueInv
  <2>3. CASE pc' = [pc EXCEPT ![d] = "400"] /\ UNCHANGED queue
    <3>1. /\ pc' \in [Delivery -> Label] /\ pc'[d] = "400"
          /\ \A e \in Delivery \ {d} : pc'[e] = pc[e]
      BY <1>1, <2>3 DEF TypeOK, Label, Terminal
    <3> QED
      BY <1>1, <2>1, <2>3, <3>1 DEF Advances, QueueInv, TypeOK
  <2> QED
    BY <2>2, <2>3 DEF Arrive
<1>3. TypeOK'
  BY <1>1, <1>2 DEF TypeOK, Advances, Label
<1>4. Fits(d, pc[d])'
  BY <1>2 DEF Advances, Fits, TryLabel
<1>5. CreditInv(d)'
  BY <1>1, <1>2 DEF Advances, CreditInv, Statement, TryLabel
<1>6. \A a \in AccountRow : balance'[a] >= balance[a]
  BY <1>1 DEF TypeOK
<1> QED
  BY <1>1, <1>2, <1>3, <1>4, <1>5, <1>6, OwnStepPreserves

LEMMA EnvironmentStep ==
  ASSUME IInv, LosesConnection \/ Restarts \/ UNCHANGED vars
  PROVE  IInv'
<1>1. CASE LosesConnection
  <2>1. faults' \in 0..MaxFaults /\ faults' # 0
    BY <1>1, LimitsAssumption DEF LosesConnection, IInv, TypeOK
  <2>2. TypeOK'
    BY <1>1, <2>1 DEF LosesConnection, IInv, TypeOK
  <2>3. QueueInv' /\ \A d \in Delivery : Fits(d, pc[d])' /\ CreditInv(d)'
    BY <1>1, <2>1 DEF LosesConnection, IInv, QueueInv, Fits, CreditInv
  <2> QED
    BY <1>1, <2>1, <2>2, <2>3 DEF LosesConnection, IInv
<1>2. CASE Restarts
  <2>1. faults' \in 0..MaxFaults /\ faults' # 0
    BY <1>2, LimitsAssumption DEF Restarts, IInv, TypeOK
  <2>2. /\ pc' \in [Delivery -> Label]
        /\ \A d \in Delivery : /\ pc'[d] = IF pc[d] \in Statement THEN "dead" ELSE pc[d]
                               /\ pc'[d] \notin Statement
    BY <1>2 DEF Restarts, IInv, TypeOK, Label, Statement, TryLabel, Terminal
  <2>3. TypeOK'
    <3>1. queue' \in Seq(Delivery)
      BY <1>2 DEF Restarts
    <3> QED
      BY <1>2, <2>1, <2>2, <3>1 DEF Restarts, IInv, TypeOK, Label
  <2>4. QueueInv'
    BY <1>2 DEF Restarts, QueueInv, IsInjective
  <2>5. \A d \in Delivery : Fits(d, pc[d])'
    BY <2>2 DEF Fits, Statement, TryLabel
  <2>6. \A d \in Delivery : CreditInv(d)'
    BY <1>2, <2>1, <2>2 DEF Restarts, IInv, CreditInv, Statement, TryLabel
  <2> QED
    BY <1>2, <2>1, <2>3, <2>4, <2>5, <2>6 DEF Restarts, IInv
<1>3. CASE UNCHANGED vars
  BY <1>3 DEF vars, handlers, IInv, TypeOK, QueueInv, Fits, CreditInv
<1> QED
  BY <1>1, <1>2, <1>3

LEMMA InitIInv == Init => IInv
<1> SUFFICES ASSUME Init PROVE IInv
  OBVIOUS
<1>1. TypeOK
  <2>1. queue \in Seq(Delivery) /\ faults \in 0..MaxFaults /\ balance \in [AccountRow -> Int]
    BY OpeningAssumption, LimitsAssumption DEF Init
  <2> QED
    BY <2>1 DEF Init, TypeOK
<1>2. QueueInv
  BY DEF Init, QueueInv, IsInjective
<1>3. \A d \in Delivery : Fits(d, pc[d]) /\ CreditInv(d)
  BY DEF Init, Fits, CreditInv, TryLabel
<1>4. \A a \in AccountRow : balance[a] >= Opening[a]
  BY OpeningAssumption DEF Init
<1> QED
  BY <1>1, <1>2, <1>3, <1>4 DEF IInv, Init

LEMMA NextPreserves == IInv /\ [Next]_vars => IInv'
<1> SUFFICES ASSUME IInv, [Next]_vars PROVE IInv'
  OBVIOUS
<1>1. ASSUME NEW d \in Delivery, Arrive(d) \/ Handler(d) PROVE IInv'
  BY <1>1, ArriveStep, FirstStatements, CreditStep, LastStatements, RejectedStep
     DEF Handler, Process
<1>2. CASE LosesConnection \/ Restarts \/ UNCHANGED vars
  BY <1>2, EnvironmentStep
<1> QED
  BY <1>1, <1>2 DEF Next, Done

-----------------------------------------------------------------------------
(***************************************************************************)
(* What follows for every behaviour.                                       *)
(***************************************************************************)

(* The inductive invariant holds in every reachable state.                 *)
THEOREM Invariance == Spec => []IInv
BY InitIInv, NextPreserves, PTL DEF Spec

(* Every variable keeps its type, whatever the deliveries and the faults.  *)
THEOREM TypeCorrect == Spec => []TypeOK
<1>1. IInv => TypeOK
  BY DEF IInv
<1> QED
  BY <1>1, Invariance, PTL

(* 200 means credited once and recorded; without faults every other answer *)
(* means not credited.                                                     *)
THEOREM AnswerIsTrue == Spec => []AnswerTellsCredit
<1>1. IInv => AnswerTellsCredit
  BY DEF IInv, CreditInv, AnswerTellsCredit, Terminal
<1> QED
  BY <1>1, Invariance, PTL

(* A row that says failed was never credited.                              *)
THEOREM FailedIsUncredited == Spec => []FailedMeansUncredited
<1>1. IInv => FailedMeansUncredited
  BY DEF IInv, CreditInv, FailedMeansUncredited
<1> QED
  BY <1>1, Invariance, PTL

-----------------------------------------------------------------------------
(***************************************************************************)
(* The sum of what was credited to an account.                             *)
(***************************************************************************)
Credited(counts, bills, a) ==
  SumFunctionOnSet([d \in Delivery |-> counts[d] * bills[d].amount],
                   {d \in Delivery : bills[d].to = a})

LEMMA ProductIsInt ==
  ASSUME NEW counts \in [Delivery -> Nat],
         NEW bills \in [Delivery -> [to: Number, amount: Amount]], NEW d \in Delivery
  PROVE  bills[d].amount \in Int /\ counts[d] * bills[d].amount \in Int
<1>1. bills[d].amount \in Int /\ counts[d] \in Int
  <2>1. bills[d] \in [to: Number, amount: Amount] /\ counts[d] \in Nat
    OBVIOUS
  <2>2. bills[d].amount \in Amount
    BY <2>1
  <2>3. bills[d].amount \in Int
    BY <2>2, AmountAssumption
  <2> QED
    BY <2>1, <2>3
<1>2. \A c, m \in Int : c * m \in Int
  OBVIOUS
<1> QED
  BY <1>1, <1>2

LEMMA CreditedIsInt ==
  ASSUME NEW counts \in [Delivery -> Nat],
         NEW bills \in [Delivery -> [to: Number, amount: Amount]], NEW a
  PROVE  Credited(counts, bills, a) \in Int
<1> DEFINE part == {d \in Delivery : bills[d].to = a}
           f == [d \in Delivery |-> counts[d] * bills[d].amount]
<1>1. IsFiniteSet(part)
  BY FiniteAssumption, FS_Subset
<1>2. \A d \in part : f[d] \in Int
  BY ProductIsInt
<1>3. Credited(counts, bills, a) = SumFunctionOnSet(f, part)
  BY DEF Credited
<1> HIDE DEF part, f
<1> QED
  BY <1>1, <1>2, <1>3, SumIsInt

LEMMA NothingCredited ==
  ASSUME NEW counts \in [Delivery -> Nat], \A d \in Delivery : counts[d] = 0,
         NEW bills \in [Delivery -> [to: Number, amount: Amount]], NEW a
  PROVE  Credited(counts, bills, a) = 0
<1> DEFINE part == {d \in Delivery : bills[d].to = a}
           f == [d \in Delivery |-> counts[d] * bills[d].amount]
<1>1. IsFiniteSet(part)
  BY FiniteAssumption, FS_Subset
<1>2. \A d \in part : f[d] = 0
  <2>1. \A m \in Int : 0 * m = 0
    OBVIOUS
  <2> QED
    BY <2>1, AmountAssumption
<1>3. Credited(counts, bills, a) = SumFunctionOnSet(f, part)
  BY DEF Credited
<1> HIDE DEF part, f
<1> QED
  BY <1>1, <1>2, <1>3, SumZeros

(* One more credit for d adds its amount to the account it names.          *)
LEMMA OneMoreCredit ==
  ASSUME NEW counts \in [Delivery -> Nat], NEW d \in Delivery,
         NEW more \in [Delivery -> Nat], more[d] = counts[d] + 1,
         \A e \in Delivery \ {d} : more[e] = counts[e],
         NEW bills \in [Delivery -> [to: Number, amount: Amount]], NEW a
  PROVE  /\ bills[d].to = a =>
              Credited(more, bills, a) = Credited(counts, bills, a) + bills[d].amount
         /\ bills[d].to # a => Credited(more, bills, a) = Credited(counts, bills, a)
<1> DEFINE part == {e \in Delivery : bills[e].to = a}
           f == [e \in Delivery |-> counts[e] * bills[e].amount]
           g == [e \in Delivery |-> more[e] * bills[e].amount]
           fp == [e \in part |-> f[e]]
           gp == [e \in part |-> g[e]]
<1>1. IsFiniteSet(part) /\ part \in SUBSET Delivery
  BY FiniteAssumption, FS_Subset
<1>2. \A e \in Delivery : f[e] \in Int /\ g[e] \in Int /\ bills[e].amount \in Int
  BY ProductIsInt
<1>3. \A e \in Delivery \ {d} : g[e] = f[e]
  OBVIOUS
<1>4. g[d] = f[d] + bills[d].amount
  <2>1. \A c \in Nat, m \in Int : (c + 1) * m = c * m + m
    OBVIOUS
  <2> QED
    BY <1>2, <2>1
<1>5. /\ Credited(counts, bills, a) = SumFunctionOnSet(f, part)
      /\ Credited(more, bills, a) = SumFunctionOnSet(g, part)
  BY DEF Credited
<1>6. /\ fp \in [part -> Int]
      /\ \A e \in part : fp[e] = f[e] /\ gp[e] = g[e]
      /\ d \in part <=> bills[d].to = a
  BY <1>2
<1>7. ASSUME d \in part PROVE gp = [fp EXCEPT ![d] = fp[d] + bills[d].amount]
  BY <1>3, <1>4, <1>7
<1> HIDE DEF part, f, g, fp, gp
<1>8. /\ SumFunctionOnSet(f, part) = SumFunctionOnSet(fp, part)
      /\ SumFunctionOnSet(g, part) = SumFunctionOnSet(gp, part)
  BY <1>1, <1>2, <1>6, SumAgrees
<1>9. CASE d \in part
  <2>1. SumFunctionOnSet(gp, part) = SumFunctionOnSet(fp, part) + bills[d].amount
    BY <1>1, <1>2, <1>6, <1>7, <1>9, SumShift
  <2> QED
    BY <1>5, <1>6, <1>8, <1>9, <2>1
<1>10. CASE d \notin part
  <2>1. SumFunctionOnSet(g, part) = SumFunctionOnSet(f, part)
    BY <1>1, <1>2, <1>3, <1>10, SumAgrees
  <2> QED
    BY <1>5, <1>6, <1>10, <2>1
<1> QED
  BY <1>9, <1>10

Explained == \A a \in AccountRow : balance[a] = Opening[a] + Credited(credits, bill, a)

(* Only the credit changes a balance, and it counts itself.                *)
LEMMA OnlyCreditsPay ==
  ASSUME [Next]_vars
  PROVE  \/ UNCHANGED <<balance, bill, credits>>
         \/ \E d \in Delivery : Credit(d)
BY DEF Next, vars, Done, Arrive, Handler, Process, LookupDestination, InsertRow, RereadRow,
       MarkPending, MarkCompleted, FindReceiver, CatchStatus, UnknownColumn, ValueRefused,
       Broken, Raises, Reads, SetsStatus, LosesConnection, Restarts

LEMMA NextExplains ==
  ASSUME IInv, Explained, [Next]_vars
  PROVE  Explained'
<1>1. CASE UNCHANGED <<balance, bill, credits>>
  BY <1>1 DEF Explained, Credited
<1>2. ASSUME NEW d \in Delivery, Credit(d) PROVE Explained'
  <2> SUFFICES ASSUME NEW a \in AccountRow
               PROVE  balance'[a] = Opening[a] + Credited(credits', bill', a)
    BY DEF Explained, Credited
  <2>1. /\ balance' = [balance EXCEPT ![bill[d].to] = @ + bill[d].amount]
        /\ credits' = [credits EXCEPT ![d] = credits[d] + 1] /\ bill' = bill
    BY <1>2 DEF Credit
  <2>2. /\ balance \in [AccountRow -> Int] /\ credits \in [Delivery -> Nat]
        /\ bill \in [Delivery -> [to: Number, amount: Amount]]
        /\ bill[d].amount \in Int
    BY AmountAssumption DEF IInv, TypeOK
  <2>3. Credited(credits, bill, a) \in Int /\ Opening[a] \in Int
    BY <2>2, CreditedIsInt, OpeningAssumption
  <2>4. balance[a] = Opening[a] + Credited(credits, bill, a)
    BY DEF Explained
  <2>5. /\ bill[d].to = a =>
             Credited(credits', bill, a) = Credited(credits, bill, a) + bill[d].amount
        /\ bill[d].to # a => Credited(credits', bill, a) = Credited(credits, bill, a)
    <3>1. PICK counts, more, bills : counts = credits /\ more = credits' /\ bills = bill
      OBVIOUS
    <3>2. /\ counts \in [Delivery -> Nat] /\ more \in [Delivery -> Nat]
          /\ bills \in [Delivery -> [to: Number, amount: Amount]]
          /\ more[d] = counts[d] + 1
          /\ \A e \in Delivery \ {d} : more[e] = counts[e]
      BY <2>1, <2>2, <3>1
    <3>3. /\ bills[d].to = a =>
               Credited(more, bills, a) = Credited(counts, bills, a) + bills[d].amount
          /\ bills[d].to # a => Credited(more, bills, a) = Credited(counts, bills, a)
      BY <3>2, OneMoreCredit
    <3> QED
      BY <3>1, <3>3
  <2>6. balance'[a] = balance[a] + (IF bill[d].to = a THEN bill[d].amount ELSE 0)
    BY <2>1, <2>2
  <2>7. Credited(credits', bill', a) = Credited(credits', bill, a)
    BY <2>1
  <2> QED
    BY <2>2, <2>3, <2>4, <2>5, <2>6, <2>7
<1> QED
  BY <1>1, <1>2, OnlyCreditsPay

(* The balances are the opening ones and what was credited, and no         *)
(* delivery takes money.                                                   *)
THEOREM CreditsExplain == Spec => []CreditsExplainBalances
<1>1. Init => Explained
  <2> SUFFICES ASSUME Init, NEW a \in AccountRow
               PROVE  balance[a] = Opening[a] + Credited(credits, bill, a)
    BY DEF Explained
  <2>1. Credited(credits, bill, a) = 0
    BY NothingCredited DEF Init
  <2> QED
    BY <2>1, OpeningAssumption DEF Init
<1>2. IInv /\ Explained /\ [Next]_vars => Explained'
  BY NextExplains
<1>3. IInv /\ Explained => CreditsExplainBalances
  BY DEF IInv, Explained, Credited, CreditsExplainBalances
<1> QED
  BY <1>1, <1>2, <1>3, Invariance, PTL DEF Spec
=============================================================================
