------------------------ MODULE SharedConnection_proofs ------------------------
(***************************************************************************)
(* The safety of DatabaseTransaction for every set of callers, accounts    *)
(* and amounts, every opening balance and any number of faults.            *)
(***************************************************************************)
EXTENDS SharedConnection, DataLemmas, TLAPS

Label == Statement \cup Ended \cup {"idle"}

(* A step of c moves c to one of the targets and no other caller.          *)
Advances(c, targets) ==
  /\ pc' \in [Caller -> Label]
  /\ pc'[c] \in targets
  /\ \A d \in Caller \ {c} : pc'[d] = pc[d]
  /\ queue' \in Seq(Caller)
  /\ QueueInv'

LEMMA CatchTargets ==
  /\ \A l \in (Within \ {"rollback"}) \cup {"begin"} : CatchOf(l) = "rollback"
  /\ \A l \in {"rollback", "payRead", "pay"} : CatchOf(l) = "failed"
  /\ \A l \in Statement : CatchOf(l) \in {"rollback", "failed"}
BY DEF CatchOf, Within, Statement

(* The queue keeps one entry of each caller that awaits a statement when   *)
(* the first one has its answer.                                           *)
LEMMA LeavesAdvances ==
  ASSUME TypeOK, QueueInv, NEW c \in Caller, NEW next \in Label, Served(c), Leaves(c, next)
  PROVE  Advances(c, {next}) /\ Active(c)
<1> DEFINE rest == Tail(queue)
<1>1. /\ rest \in Seq(Caller) /\ IsInjective(rest)
      /\ \A i \in DOMAIN rest : rest[i] \in Caller \ {c} /\ Active(rest[i])
      /\ Active(c)
  BY TailDistinct DEF TypeOK, QueueInv, Served
<1>2. /\ pc' \in [Caller -> Label] /\ pc'[c] = next
      /\ \A d \in Caller \ {c} : pc'[d] = pc[d]
  BY DEF TypeOK, Leaves, Label
<1>3. \A i \in DOMAIN rest : pc'[rest[i]] \in Statement
  BY <1>1, <1>2 DEF Active
<1> HIDE DEF rest
<1>4. CASE next \in Statement
  <2>1. queue' = Append(rest, c)
    BY <1>4 DEF Leaves, rest
  <2>2. /\ queue' \in Seq(Caller) /\ IsInjective(queue')
        /\ \A i \in DOMAIN queue' :
             queue'[i] = c \/ \E j \in DOMAIN rest : rest[j] = queue'[i]
    BY <1>1, <2>1, AppendDistinct
  <2> QED
    BY <1>1, <1>2, <1>3, <1>4, <2>2 DEF Advances, QueueInv, Active
<1>5. CASE next \notin Statement
  <2>1. queue' = rest
    BY <1>5 DEF Leaves, rest
  <2> QED
    BY <1>1, <1>2, <1>3, <2>1 DEF Advances, QueueInv, Active
<1> QED
  BY <1>4, <1>5

LEMMA CallAdvances ==
  ASSUME TypeOK, QueueInv, NEW c \in Caller, Call(c)
  PROVE  Advances(c, {IF c \in Clerk THEN "begin" ELSE "payRead"})
<1> DEFINE next == IF c \in Clerk THEN "begin" ELSE "payRead"
<1>1. next \in Statement
  BY DEF Statement
<1>2. /\ pc' \in [Caller -> Label] /\ pc'[c] = next
      /\ \A d \in Caller \ {c} : pc'[d] = pc[d]
  BY <1>1 DEF TypeOK, Call, Label
<1>3. \A i \in DOMAIN queue : queue[i] \in Caller \ {c} /\ Active(queue[i])
  BY DEF TypeOK, QueueInv, Active, Call, Statement, Within
<1>4. /\ queue' \in Seq(Caller) /\ IsInjective(queue')
      /\ \A i \in DOMAIN queue' :
           queue'[i] = c \/ \E j \in DOMAIN queue : queue[j] = queue'[i]
  BY <1>3, AppendDistinct DEF TypeOK, QueueInv, Call
<1> HIDE DEF next
<1>5. \A i \in DOMAIN queue' : pc'[queue'[i]] \in Statement
  BY <1>1, <1>2, <1>3, <1>4 DEF Active
<1> QED
  BY <1>2, <1>4, <1>5 DEF Advances, QueueInv, Active, next

-----------------------------------------------------------------------------
(***************************************************************************)
(* The frame of a step of c: the invariant of the other callers holds on,  *)
(* since none of them is under way unless calls overlap.                   *)
(***************************************************************************)
LEMMA OwnStepPreserves ==
  ASSUME IInv, NEW c \in Caller, NEW targets, Advances(c, targets), Active(c),
         TypeOK', order' = order, overlapped' = overlapped, faults = 0 \/ faults' # 0,
         Fits(c, pc[c])', NoTransactionAbandoned', ~connected' => ~open',
         ~overlapped => /\ store.entered \subseteq store'.entered
                        /\ store'.entered \subseteq store.entered \cup {c}
                        /\ OutcomeInv(c)'
                        /\ connected' => StageInv(c)'
  PROVE  IInv'
<1>1. \A d \in Caller \ {c} : Fits(d, pc[d])'
  BY DEF IInv, Fits, Advances
<1>2. ASSUME ~overlapped PROVE AloneInv'
  <2>1. \A d \in Caller \ {c} : ~Active(d) /\ pc'[d] = pc[d] /\ ~Active(d)'
    BY <1>2 DEF IInv, AloneInv, Advances, Active
  <2>2. \A d, e \in Caller : Active(d)' /\ Active(e)' => d = e
    BY <2>1
  <2>3. \A d \in Caller \ {c} : OutcomeInv(d)'
    BY <1>2, <2>1 DEF IInv, AloneInv, OutcomeInv
  <2>4. \A d \in Caller \ {c} : StageInv(d)'
    BY <2>1 DEF StageInv, Active, Statement, Within
  <2> QED
    BY <1>2, <2>2, <2>3, <2>4 DEF AloneInv
<1> QED
  BY <1>1, <1>2 DEF IInv, Advances

(* A statement of c has its effect and its answer; or its answer is lost,  *)
(* which needs no argument of its own.                                     *)
LEMMA RunsStep ==
  ASSUME IInv, NEW c \in Caller, NEW at \in Statement, NEW v \in Tables, NEW s \in Tables,
         NEW o \in BOOLEAN, NEW next \in Label, Runs(c, at, v, s, o, next),
         Fits(c, next),
         ~overlapped => /\ store.entered \subseteq s.entered
                        /\ s.entered \subseteq store.entered \cup {c},
         /\ view' = v /\ store' = s /\ open' = o
         /\ pc'[c] = next
         /\ \A d \in Caller \ {c} : pc'[d] = pc[d]
         /\ UNCHANGED <<order, overlapped, connected, faults>>
         => NoTransactionAbandoned' /\ (~overlapped => OutcomeInv(c)' /\ StageInv(c)')
  PROVE  IInv'
<1>1. TypeOK /\ QueueInv /\ Served(c) /\ pc[c] = at /\ connected /\ Fits(c, at)
  BY DEF IInv, Runs
<1>2. UNCHANGED <<order, overlapped>>
  BY DEF Runs
<1>3. CASE /\ view' = v /\ store' = s /\ open' = o
           /\ Leaves(c, next)
           /\ UNCHANGED <<connected, faults>>
  <2>1. Advances(c, {next}) /\ Active(c)
    BY <1>1, <1>3, LeavesAdvances
  <2>2. TypeOK'
    BY <1>1, <1>2, <1>3, <2>1 DEF TypeOK, Advances, Label
  <2>3. Fits(c, pc[c])'
    BY <1>2, <2>1 DEF Advances, Fits
  <2>4. NoTransactionAbandoned' /\ (~overlapped => OutcomeInv(c)' /\ StageInv(c)')
    BY <1>2, <1>3, <2>1 DEF Advances
  <2> QED
    BY <1>1, <1>2, <1>3, <2>1, <2>2, <2>3, <2>4, OwnStepPreserves DEF TypeOK
<1>4. CASE /\ faults < MaxFaults
           /\ faults' = faults + 1
           /\ connected' = FALSE
           /\ view' = s /\ store' = s /\ open' = FALSE
           /\ Leaves(c, CatchOf(at))
  <2>1. CatchOf(at) \in {"rollback", "failed"} /\ CatchOf(at) \in Label
    BY CatchTargets DEF Label, Statement, Within, Ended
  <2>2. Advances(c, {CatchOf(at)}) /\ Active(c)
    BY <1>1, <1>4, <2>1, LeavesAdvances
  <2>3. faults' \in 0..MaxFaults /\ faults' # 0
    BY <1>1, <1>4, LimitsAssumption DEF TypeOK
  <2>4. TypeOK'
    BY <1>1, <1>2, <1>4, <2>2, <2>3 DEF TypeOK, Advances, Label
  <2>5. CatchOf(at) = "rollback" => c \in Clerk
    BY <1>1, CatchTargets DEF Fits, Statement, Within
  <2>6. Fits(c, pc[c])'
    BY <1>2, <2>1, <2>2, <2>5 DEF Advances, Fits, Within
  <2>7. NoTransactionAbandoned'
    BY <1>4 DEF NoTransactionAbandoned
  <2>8. OutcomeInv(c)'
    BY <2>1, <2>2, <2>3 DEF Advances, OutcomeInv, Ended
  <2> QED
    BY <1>2, <1>4, <2>2, <2>3, <2>4, <2>6, <2>7, <2>8, OwnStepPreserves
<1> QED
  BY <1>3, <1>4 DEF Runs

-----------------------------------------------------------------------------
(***************************************************************************)
(* The statements of transferMoney, one by one.                            *)
(***************************************************************************)
LEMMA Fields ==
  ASSUME TypeOK, NEW c \in Caller
  PROVE  /\ order[c].from \in Number /\ order[c].to \in Number
         /\ order[c].amount \in Int /\ -order[c].amount \in Int
         /\ view \in Tables /\ store \in Tables /\ open \in BOOLEAN
<1>1. order[c] \in [from: Number, to: Number, amount: Amount]
  BY DEF TypeOK
<1>2. order[c].amount \in Int
  BY <1>1, AmountAssumption
<1> QED
  BY <1>1, <1>2 DEF TypeOK

LEMMA TablesChanged ==
  ASSUME NEW t \in Tables, NEW a \in AccountRow, NEW x \in Int, NEW e \in SUBSET Caller
  PROVE  Changed(t, a, x, e) \in Tables /\ Changed(t, a, x, e).entered = t.entered \cup e
<1>1. t.balance \in [AccountRow -> Int] /\ t.entered \cup e \in SUBSET Caller
  BY DEF Tables
<1> DEFINE b == [t.balance EXCEPT ![a] = @ + x]
<1>2. b \in [AccountRow -> Int]
  BY <1>1
<1> HIDE DEF b
<1>3. Changed(t, a, x, e) = [balance |-> b, entered |-> t.entered \cup e]
  BY DEF Changed, b
<1> QED
  BY <1>1, <1>2, <1>3 DEF Tables

(* While no two calls overlap, a transaction is open only for the one call *)
(* that is under way.                                                      *)
LEMMA OpenIsOwn ==
  ASSUME IInv, ~overlapped, NEW c \in Caller, Active(c), pc[c] \notin Within
  PROVE  ~open /\ view = store
BY DEF IInv, AloneInv, NoTransactionAbandoned, Active, Statement, Caller

LEMMA BeginStep ==
  ASSUME IInv, NEW c \in Caller, Begin(c), Active(c)
  PROVE  IInv'
<1>1. c \in Clerk /\ pc[c] = "begin"
  BY DEF IInv, Begin, Runs, Fits
<1>2. ~overlapped => view = store
  BY <1>1, OpenIsOwn DEF Within
<1>3. ~overlapped => c \notin store.entered
  BY <1>1 DEF IInv, AloneInv, OutcomeInv, Ended
<1>4. Fits(c, "sender") /\ "sender" \in Label /\ "begin" \in Statement
  BY <1>1 DEF Fits, Label, Statement, Within
<1>5. ASSUME view' = view, store' = view, open' = TRUE, pc'[c] = "sender"
      PROVE  NoTransactionAbandoned' /\ (~overlapped => OutcomeInv(c)' /\ StageInv(c)')
  BY <1>1, <1>2, <1>3, <1>5 DEF NoTransactionAbandoned, OutcomeInv, StageInv, Within
<1> QED
  BY <1>2, <1>4, <1>5, RunsStep, Fields DEF Begin, IInv

(* The two reads change no table, and the next await knows what was found. *)
LEMMA ReadsStep ==
  ASSUME IInv, NEW c \in Caller, ReadSender(c) \/ ReadReceiver(c)
  PROVE  IInv'
<1>1. CASE ReadSender(c)
  <2> DEFINE next == AfterSender(c)
  <2>1. pc[c] = "sender" /\ c \in Clerk /\ connected
    BY <1>1 DEF IInv, ReadSender, Looks, Runs, Fits, Within
  <2>2. \/ /\ next = "receiver" /\ order[c].from \in AccountRow
           /\ view.balance[order[c].from] >= order[c].amount
        \/ next = "rollback"
    BY DEF AfterSender, CatchOf, Balance
  <2>3. Fits(c, next) /\ next \in Label /\ "sender" \in Statement
    BY <2>1, <2>2 DEF Fits, Label, Statement, Within
  <2>4. ~overlapped => c \notin store.entered /\ open /\ view = store
    BY <2>1 DEF IInv, AloneInv, OutcomeInv, StageInv, Ended, Within
  <2> HIDE DEF next
  <2>5. ASSUME view' = view, store' = store, open' = open, pc'[c] = next, order' = order,
               \A d \in Caller \ {c} : pc'[d] = pc[d]
        PROVE  NoTransactionAbandoned' /\ (~overlapped => OutcomeInv(c)' /\ StageInv(c)')
    <3>1. NoTransactionAbandoned'
      BY <2>1, <2>2, <2>5 DEF IInv, NoTransactionAbandoned, Within
    <3>2. ASSUME ~overlapped PROVE OutcomeInv(c)' /\ StageInv(c)'
      BY <2>2, <2>4, <2>5, <3>2, Fields DEF IInv, OutcomeInv, StageInv, Within, Ended, Tables
    <3> QED
      BY <3>1, <3>2
  <2> QED
    BY <1>1, <2>3, <2>5, RunsStep, Fields DEF ReadSender, Looks, IInv, next
<1>2. CASE ReadReceiver(c)
  <2> DEFINE next == AfterReceiver(c)
  <2>1. pc[c] = "receiver" /\ c \in Clerk /\ connected /\ order[c].from \in AccountRow
    BY <1>2 DEF IInv, ReadReceiver, Looks, Runs, Fits, Within
  <2>2. (next = "debit" /\ order[c].to \in AccountRow) \/ next = "rollback"
    BY DEF AfterReceiver, CatchOf
  <2>3. Fits(c, next) /\ next \in Label /\ "receiver" \in Statement
    BY <2>1, <2>2 DEF Fits, Label, Statement, Within
  <2>4. ~overlapped => /\ c \notin store.entered /\ open /\ view = store
                       /\ order[c].amount <= store.balance[order[c].from]
    BY <2>1 DEF IInv, AloneInv, OutcomeInv, StageInv, Ended, Within
  <2> HIDE DEF next
  <2>5. ASSUME view' = view, store' = store, open' = open, pc'[c] = next, order' = order,
               \A d \in Caller \ {c} : pc'[d] = pc[d]
        PROVE  NoTransactionAbandoned' /\ (~overlapped => OutcomeInv(c)' /\ StageInv(c)')
    <3>1. NoTransactionAbandoned'
      BY <2>1, <2>2, <2>5 DEF IInv, NoTransactionAbandoned, Within
    <3>2. ASSUME ~overlapped PROVE OutcomeInv(c)' /\ StageInv(c)'
      BY <2>2, <2>4, <2>5, <3>2 DEF OutcomeInv, StageInv, Within, Ended
    <3> QED
      BY <3>1, <3>2
  <2> QED
    BY <1>2, <2>3, <2>5, RunsStep, Fields DEF ReadReceiver, Looks, IInv, next
<1> QED
  BY <1>1, <1>2

(* Debit and Credit of the transfer, both inside its transaction.          *)
LEMMA DebitStep ==
  ASSUME IInv, NEW c \in Caller, Debit(c)
  PROVE  IInv'
<1> DEFINE v == Changed(view, order[c].from, -order[c].amount, {})
           s == IF open THEN store ELSE v
<1>1. pc[c] = "debit" /\ c \in Clerk /\ connected
      /\ order[c].from \in AccountRow /\ order[c].to \in AccountRow
  BY DEF IInv, Debit, Moves, Writes, Runs, Fits, Within
<1>2. v \in Tables /\ s \in Tables
  BY <1>1, TablesChanged, Fields DEF IInv
<1>3. Fits(c, "credit") /\ "credit" \in Label /\ "debit" \in Statement
  BY <1>1 DEF Fits, Label, Statement, Within
<1>4. ~overlapped => /\ c \notin store.entered /\ open /\ view = store
                     /\ order[c].amount <= store.balance[order[c].from]
  BY <1>1 DEF IInv, AloneInv, OutcomeInv, StageInv, Ended, Within
<1>5. ~overlapped => v = Taken(c)
  BY <1>4 DEF Taken
<1>6. Runs(c, "debit", v, s, open, "credit")
  BY DEF Debit, Moves, Writes
<1>7. ~open => v = s
  OBVIOUS
<1>8. ~overlapped => s = store
  BY <1>4
<1> HIDE DEF v, s
<1>9. ASSUME view' = v, store' = s, open' = open, pc'[c] = "credit", order' = order
      PROVE  NoTransactionAbandoned' /\ (~overlapped => OutcomeInv(c)' /\ StageInv(c)')
  <2>1. NoTransactionAbandoned'
    BY <1>1, <1>7, <1>9 DEF NoTransactionAbandoned, Within
  <2>2. ASSUME ~overlapped PROVE Taken(c)' = Taken(c)
    BY <1>8, <1>9, <2>2 DEF Taken, Changed
  <2> QED
    BY <1>4, <1>5, <1>8, <1>9, <2>1, <2>2 DEF OutcomeInv, StageInv, Within, Ended
<1> QED
  BY <1>2, <1>3, <1>6, <1>8, <1>9, RunsStep, Fields DEF IInv

LEMMA CreditStep ==
  ASSUME IInv, NEW c \in Caller, Credit(c)
  PROVE  IInv'
<1> DEFINE v == Changed(view, order[c].to, order[c].amount, {})
           s == IF open THEN store ELSE v
<1>1. pc[c] = "credit" /\ c \in Clerk /\ connected
      /\ order[c].from \in AccountRow /\ order[c].to \in AccountRow
  BY DEF IInv, Credit, Moves, Writes, Runs, Fits, Within
<1>2. v \in Tables /\ s \in Tables
  BY <1>1, TablesChanged, Fields DEF IInv
<1>3. Fits(c, "insert") /\ "insert" \in Label /\ "credit" \in Statement
  BY <1>1 DEF Fits, Label, Statement, Within
<1>4. ~overlapped => /\ c \notin store.entered /\ open /\ view = Taken(c)
                     /\ order[c].amount <= store.balance[order[c].from]
  BY <1>1 DEF IInv, AloneInv, OutcomeInv, StageInv, Ended, Within
<1>5. ~overlapped => v = Given(c)
  BY <1>4 DEF Given
<1>6. Runs(c, "credit", v, s, open, "insert")
  BY DEF Credit, Moves, Writes
<1>7. ~open => v = s
  OBVIOUS
<1>8. ~overlapped => s = store
  BY <1>4
<1> HIDE DEF v, s
<1>9. ASSUME view' = v, store' = s, open' = open, pc'[c] = "insert", order' = order
      PROVE  NoTransactionAbandoned' /\ (~overlapped => OutcomeInv(c)' /\ StageInv(c)')
  <2>1. NoTransactionAbandoned'
    BY <1>1, <1>7, <1>9 DEF NoTransactionAbandoned, Within
  <2>2. ASSUME ~overlapped PROVE Given(c)' = Given(c)
    BY <1>8, <1>9, <2>2 DEF Given, Taken, Changed
  <2> QED
    BY <1>4, <1>5, <1>8, <1>9, <2>1, <2>2 DEF OutcomeInv, StageInv, Within, Ended
<1> QED
  BY <1>2, <1>3, <1>6, <1>8, <1>9, RunsStep, Fields DEF IInv

LEMMA InsertStep ==
  ASSUME IInv, NEW c \in Caller, Insert(c)
  PROVE  IInv'
<1> DEFINE v == [view EXCEPT !.entered = @ \cup {c}]
           s == IF open THEN store ELSE v
<1>1. pc[c] = "insert" /\ c \in Clerk /\ connected /\ order[c].amount > 0
      /\ order[c].from \in AccountRow /\ order[c].to \in AccountRow
  BY DEF IInv, Insert, Writes, Runs, Fits, Within
<1>2. v \in Tables /\ s \in Tables
  BY Fields DEF IInv, Tables
<1>3. Fits(c, "commit") /\ "commit" \in Label /\ "insert" \in Statement
  BY <1>1 DEF Fits, Label, Statement, Within
<1>4. ~overlapped => /\ c \notin store.entered /\ open /\ view = Given(c)
                     /\ order[c].amount <= store.balance[order[c].from]
  BY <1>1 DEF IInv, AloneInv, OutcomeInv, StageInv, Ended, Within
<1>5. ~overlapped => v = [Given(c) EXCEPT !.entered = @ \cup {c}]
  BY <1>4
<1>6. Runs(c, "insert", v, s, open, "commit")
  BY DEF Insert, Writes
<1>7. ~open => v = s
  OBVIOUS
<1>8. ~overlapped => s = store
  BY <1>4
<1> HIDE DEF v, s
<1>9. ASSUME view' = v, store' = s, open' = open, pc'[c] = "commit", order' = order
      PROVE  NoTransactionAbandoned' /\ (~overlapped => OutcomeInv(c)' /\ StageInv(c)')
  <2>1. NoTransactionAbandoned'
    BY <1>1, <1>7, <1>9 DEF NoTransactionAbandoned, Within
  <2>2. ASSUME ~overlapped PROVE Given(c)' = Given(c)
    BY <1>8, <1>9, <2>2 DEF Given, Taken, Changed
  <2> QED
    BY <1>1, <1>4, <1>5, <1>8, <1>9, <2>1, <2>2 DEF OutcomeInv, StageInv, Within, Ended
<1> QED
  BY <1>2, <1>3, <1>6, <1>8, <1>9, RunsStep, Fields DEF IInv

(* COMMIT makes the whole transfer visible at once, ROLLBACK none of it.   *)
LEMMA CommitStep ==
  ASSUME IInv, NEW c \in Caller, Commit(c)
  PROVE  IInv'
<1>1. pc[c] = "commit"
  BY DEF Commit, Runs
<1>2. Fits(c, "done") /\ "done" \in Label /\ "commit" \in Statement
  BY DEF Fits, Label, Statement, Within, Ended
<1>3. ~overlapped => view = [Given(c) EXCEPT !.entered = @ \cup {c}]
  BY <1>1 DEF IInv, AloneInv, StageInv, Commit, Runs
<1>4. ~overlapped => view.entered = store.entered \cup {c}
  BY <1>3 DEF Given, Taken, Changed
<1>5. ASSUME view' = view, store' = view, open' = FALSE, pc'[c] = "done"
      PROVE  NoTransactionAbandoned' /\ (~overlapped => OutcomeInv(c)' /\ StageInv(c)')
  BY <1>4, <1>5 DEF NoTransactionAbandoned, OutcomeInv, StageInv, Within, Ended
<1> QED
  BY <1>2, <1>4, <1>5, RunsStep, Fields DEF Commit, IInv

LEMMA RollbackStep ==
  ASSUME IInv, NEW c \in Caller, Rollback(c)
  PROVE  IInv'
<1>1. pc[c] = "rollback"
  BY DEF Rollback, Runs
<1>2. Fits(c, "failed") /\ "failed" \in Label /\ "rollback" \in Statement
  BY DEF Fits, Label, Statement, Within, Ended
<1>3. ~overlapped /\ faults = 0 => c \notin store.entered
  BY <1>1 DEF IInv, AloneInv, OutcomeInv
<1>4. ASSUME view' = store, store' = store, open' = FALSE, pc'[c] = "failed",
             faults' = faults
      PROVE  NoTransactionAbandoned' /\ (~overlapped => OutcomeInv(c)' /\ StageInv(c)')
  BY <1>3, <1>4 DEF NoTransactionAbandoned, OutcomeInv, StageInv, Within, Ended
<1> QED
  BY <1>2, <1>4, RunsStep, Fields DEF Rollback, IInv

LEMMA PayStep ==
  ASSUME IInv, NEW c \in Caller, CreditAccount(c), Active(c)
  PROVE  IInv'
<1>1. CASE PayRead(c)
  <2> DEFINE next == AfterPayRead(c)
  <2>1. pc[c] = "payRead" /\ c \in Payer
    BY <1>1 DEF IInv, PayRead, Looks, Runs, Fits
  <2>2. (next = "pay" /\ order[c].to \in AccountRow) \/ next = "failed"
    BY DEF AfterPayRead
  <2>3. Fits(c, next) /\ next \in Label /\ "payRead" \in Statement
    BY <2>1, <2>2 DEF Fits, Label, Statement, Within, Ended
  <2>4. ~overlapped => c \notin store.entered
    BY <2>1 DEF IInv, AloneInv, OutcomeInv, Ended
  <2> HIDE DEF next
  <2>5. ASSUME view' = view, store' = store, open' = open, pc'[c] = next,
               \A d \in Caller \ {c} : pc'[d] = pc[d]
        PROVE  NoTransactionAbandoned' /\ (~overlapped => OutcomeInv(c)' /\ StageInv(c)')
    <3>1. NoTransactionAbandoned'
      BY <2>1, <2>5 DEF IInv, NoTransactionAbandoned, Within, Caller
    <3>2. ASSUME ~overlapped PROVE OutcomeInv(c)' /\ StageInv(c)'
      BY <2>2, <2>4, <2>5, <3>2 DEF OutcomeInv, StageInv, Within, Ended
    <3> QED
      BY <3>1, <3>2
  <2> QED
    BY <1>1, <2>3, <2>5, RunsStep, Fields DEF PayRead, Looks, IInv, next
<1>2. CASE Pay(c)
  <2> DEFINE v == Changed(view, order[c].to, order[c].amount, {c})
             s == IF open THEN store ELSE v
  <2>1. pc[c] = "pay" /\ c \in Payer /\ order[c].to \in AccountRow
    BY <1>2 DEF IInv, Pay, Moves, Writes, Runs, Fits
  <2>2. v \in Tables /\ s \in Tables /\ v.entered = view.entered \cup {c}
    BY <2>1, TablesChanged, Fields DEF IInv
  <2>3. Fits(c, "done") /\ "done" \in Label /\ "pay" \in Statement
    BY DEF Fits, Label, Statement, Within, Ended
  <2>4. ~overlapped => ~open /\ view = store
    BY <2>1, OpenIsOwn DEF Within
  <2>5. ~overlapped => s.entered = store.entered \cup {c}
    BY <2>2, <2>4
  <2>6. Runs(c, "pay", v, s, open, "done")
    BY <1>2 DEF Pay, Moves, Writes
  <2>7. ~open => v = s
    OBVIOUS
  <2> HIDE DEF v, s
  <2>8. ASSUME view' = v, store' = s, open' = open, pc'[c] = "done",
               \A d \in Caller \ {c} : pc'[d] = pc[d]
        PROVE  NoTransactionAbandoned' /\ (~overlapped => OutcomeInv(c)' /\ StageInv(c)')
    <3>1. NoTransactionAbandoned'
      BY <2>1, <2>7, <2>8 DEF IInv, NoTransactionAbandoned, Within, Caller
    <3>2. ASSUME ~overlapped PROVE OutcomeInv(c)' /\ StageInv(c)'
      BY <2>5, <2>8, <3>2 DEF OutcomeInv, StageInv, Within, Ended
    <3> QED
      BY <3>1, <3>2
  <2> QED
    BY <2>2, <2>3, <2>5, <2>6, <2>8, RunsStep, Fields DEF IInv
<1> QED
  BY <1>1, <1>2 DEF CreditAccount

(***************************************************************************)
(* Rejected statements, and the steps of no caller's statement.            *)
(***************************************************************************)
LEMMA RejectedStep ==
  ASSUME IInv, NEW c \in Caller, Rejected(c), ~connected \/ pc[c] # "rollback"
  PROVE  IInv'
<1>1. TypeOK /\ QueueInv /\ Fits(c, pc[c]) /\ Served(c)
      /\ UNCHANGED <<order, tables, connected, faults, overlapped>>
  BY DEF IInv, Rejected
<1>2. pc[c] \in Statement
  BY <1>1 DEF QueueInv, Active, Served, TypeOK
<1>3. CatchOf(pc[c]) \in {"rollback", "failed"} /\ CatchOf(pc[c]) \in Label
  BY <1>2, CatchTargets DEF Label, Statement, Within, Ended
<1>4. Advances(c, {CatchOf(pc[c])}) /\ Active(c)
  BY <1>1, <1>3, LeavesAdvances DEF Rejected
<1>5. TypeOK'
  BY <1>1, <1>4 DEF TypeOK, Advances, Label, tables
<1>6. CatchOf(pc[c]) = "rollback" => c \in Clerk
  BY <1>1, <1>2, CatchTargets DEF Fits, Statement, Within
<1>7. Fits(c, pc[c])'
  BY <1>3, <1>4, <1>6 DEF Advances, Fits, Within
<1>8. NoTransactionAbandoned'
  <2>1. CASE pc[c] \in Within
    BY <1>1, <1>4, <1>6, <2>1, CatchTargets
       DEF IInv, NoTransactionAbandoned, Advances, Within, tables
  <2>2. CASE pc[c] \notin Within
    BY <1>1, <1>4, <2>2 DEF IInv, NoTransactionAbandoned, Advances, tables, Caller
  <2> QED
    BY <2>1, <2>2
<1>9. ASSUME ~overlapped PROVE OutcomeInv(c)' /\ (connected' => StageInv(c)')
  <2>1. faults = 0 => c \notin store.entered
    BY <1>2, <1>9 DEF IInv, AloneInv, OutcomeInv, Statement, Within, Ended
  <2> QED
    BY <1>1, <1>3, <1>4, <2>1 DEF Advances, OutcomeInv, StageInv, Within, Ended, tables
<1> QED
  BY <1>1, <1>4, <1>5, <1>7, <1>8, <1>9, OwnStepPreserves DEF IInv, tables

LEMMA RunnerStep ==
  ASSUME IInv, NEW c \in Caller, Runner(c)
  PROVE  IInv'
<1>1. ASSUME Served(c) PROVE Active(c)
  BY <1>1 DEF IInv, QueueInv, TypeOK, Served
<1>2. CASE TransferMoney(c)
  <2>1. Begin(c) => Active(c)
    BY <1>1 DEF Begin, Runs
  <2> QED
    BY <1>2, <2>1, BeginStep, ReadsStep, DebitStep, CreditStep, InsertStep, CommitStep,
       RollbackStep DEF TransferMoney
<1>3. CASE CreditAccount(c)
  <2>1. Active(c)
    BY <1>1, <1>3 DEF CreditAccount, PayRead, Looks, Pay, Moves, Writes, Runs
  <2> QED
    BY <1>3, <2>1, PayStep
<1>4. CASE OutOfRange(c)
  <2>1. pc[c] # "rollback"
    BY <1>4, LimitsAssumption DEF OutOfRange, Stored, Storable
  <2> QED
    BY <1>4, <2>1, RejectedStep DEF OutOfRange
<1>5. CASE RowRefused(c)
  BY <1>5, RejectedStep DEF RowRefused
<1>6. CASE Broken(c)
  BY <1>6, RejectedStep DEF Broken
<1> QED
  BY <1>2, <1>3, <1>4, <1>5, <1>6 DEF Runner

LEMMA CallStep ==
  ASSUME IInv, NEW c \in Caller, Call(c)
  PROVE  IInv'
<1> DEFINE next == IF c \in Clerk THEN "begin" ELSE "payRead"
<1>1. Advances(c, {next}) /\ pc[c] = "idle"
      /\ UNCHANGED <<order, tables, connected, faults>>
  BY CallAdvances DEF IInv, Call
<1>2. TypeOK'
  BY <1>1 DEF IInv, TypeOK, Advances, Label, tables, Call
<1>3. \A d \in Caller : Fits(d, pc[d])'
  BY <1>1 DEF IInv, Fits, Advances, Within, Caller
<1>4. NoTransactionAbandoned'
  BY <1>1 DEF IInv, NoTransactionAbandoned, Advances, Within, Caller, tables
<1>5. ASSUME ~overlapped' PROVE AloneInv'
  <2>1. ~overlapped /\ \A d \in Caller : ~Active(d)
    BY <1>5 DEF Call
  <2>2. \A d, e \in Caller : Active(d)' /\ Active(e)' => d = e
    BY <1>1, <2>1 DEF Advances, Active
  <2>3. \A d \in Caller : OutcomeInv(d)'
    BY <1>1, <2>1 DEF IInv, AloneInv, OutcomeInv, Advances, Ended, tables
  <2>4. StageInv(c)'
    BY <1>1 DEF StageInv, Advances, Within
  <2>5. \A d \in Caller \ {c} : StageInv(d)'
    BY <1>1, <2>1 DEF StageInv, Advances, Active, Statement, Within
  <2> QED
    BY <2>2, <2>3, <2>4, <2>5 DEF AloneInv
<1> QED
  BY <1>1, <1>2, <1>3, <1>4, <1>5 DEF IInv, Advances, tables

LEMMA EnvironmentStep ==
  ASSUME IInv, LosesConnection \/ Restarts \/ UNCHANGED vars
  PROVE  IInv'
<1>1. CASE LosesConnection
  <2>1. faults' \in 0..MaxFaults /\ faults' # 0
    BY <1>1, LimitsAssumption DEF LosesConnection, IInv, TypeOK
  <2>2. TypeOK'
    BY <1>1, <2>1 DEF LosesConnection, IInv, TypeOK
  <2>3. QueueInv' /\ \A c \in Caller : Fits(c, pc[c])'
    BY <1>1 DEF LosesConnection, IInv, QueueInv, Active, Fits
  <2>4. NoTransactionAbandoned' /\ (~connected' => ~open')
    BY <1>1 DEF LosesConnection, NoTransactionAbandoned
  <2>5. ASSUME ~overlapped' PROVE AloneInv'
    BY <1>1, <2>1, <2>5 DEF LosesConnection, IInv, AloneInv, OutcomeInv, Active
  <2> QED
    BY <2>2, <2>3, <2>4, <2>5 DEF IInv
<1>2. CASE Restarts
  <2>1. faults' \in 0..MaxFaults /\ faults' # 0
    BY <1>2, LimitsAssumption DEF Restarts, IInv, TypeOK
  <2>2. /\ pc' \in [Caller -> Label]
        /\ \A c \in Caller : pc'[c] = IF Active(c) THEN "dead" ELSE pc[c]
        /\ \A c \in Caller : pc'[c] \notin Statement
    BY <1>2 DEF Restarts, IInv, TypeOK, Label, Active, Statement, Within, Ended
  <2>3. TypeOK'
    <3>1. queue' \in Seq(Caller)
      BY <1>2 DEF Restarts
    <3> QED
      BY <1>2, <2>1, <2>2, <3>1 DEF Restarts, IInv, TypeOK, Label
  <2>4. QueueInv'
    BY <1>2 DEF Restarts, QueueInv, IsInjective
  <2>5. \A c \in Caller : Fits(c, pc[c])'
    BY <2>2 DEF Fits, Statement, Within
  <2>6. NoTransactionAbandoned' /\ (~connected' => ~open')
    BY <1>2 DEF Restarts, NoTransactionAbandoned
  <2>7. ASSUME ~overlapped' PROVE AloneInv'
    <3>1. \A c \in Caller : OutcomeInv(c)'
      BY <1>2, <2>1, <2>2, <2>7 DEF Restarts, IInv, AloneInv, OutcomeInv, Active, Ended
    <3>2. \A c \in Caller : StageInv(c)'
      BY <2>2 DEF StageInv, Statement, Within
    <3> QED
      BY <2>2, <3>1, <3>2 DEF AloneInv, Active
  <2> QED
    BY <2>3, <2>4, <2>5, <2>6, <2>7 DEF IInv
<1>3. CASE UNCHANGED vars
  BY <1>3 DEF vars, tables, callers, IInv, TypeOK, QueueInv, Fits, NoTransactionAbandoned,
              AloneInv, OutcomeInv, StageInv, Active, Taken, Given, Changed
<1> QED
  BY <1>1, <1>2, <1>3

LEMMA InitIInv == Init => IInv
<1> SUFFICES ASSUME Init PROVE IInv
  OBVIOUS
<1>1. TypeOK
  <2>1. [balance |-> Opening, entered |-> {}] \in Tables
    BY OpeningAssumption DEF Tables
  <2>2. view \in Tables /\ store \in Tables
    BY <2>1 DEF Init
  <2>3. queue \in Seq(Caller) /\ faults \in 0..MaxFaults
    BY LimitsAssumption DEF Init
  <2>4. pc \in [Caller -> Statement \cup Ended \cup {"idle"}]
    BY DEF Init
  <2> QED
    BY <2>2, <2>3, <2>4 DEF Init, TypeOK
<1>2. QueueInv
  BY DEF Init, QueueInv, IsInjective
<1>3. \A c \in Caller : Fits(c, pc[c])
  BY DEF Init, Fits, Within
<1>4. NoTransactionAbandoned /\ connected
  BY DEF Init, NoTransactionAbandoned
<1>5. \A c \in Caller : ~Active(c) /\ OutcomeInv(c) /\ StageInv(c)
  BY DEF Init, Active, OutcomeInv, StageInv, Statement, Within
<1> QED
  BY <1>1, <1>2, <1>3, <1>4, <1>5 DEF IInv, AloneInv

LEMMA NextPreserves == IInv /\ [Next]_vars => IInv'
<1> SUFFICES ASSUME IInv, [Next]_vars PROVE IInv'
  OBVIOUS
<1>1. ASSUME NEW c \in Caller, Call(c) \/ Runner(c) PROVE IInv'
  BY <1>1, CallStep, RunnerStep
<1>2. CASE LosesConnection \/ Restarts \/ UNCHANGED vars
  BY <1>2, EnvironmentStep
<1> QED
  BY <1>1, <1>2 DEF Next, Done

-----------------------------------------------------------------------------
(***************************************************************************)
(* What follows for every behaviour.                                       *)
(***************************************************************************)

(* The inductive invariant holds in every reachable state.                 *)
THEOREM Invariance == Spec => []IInv
BY InitIInv, NextPreserves, PTL DEF Spec

(* Every variable keeps its type, whatever the calls and the faults.       *)
THEOREM TypeCorrect == Spec => []TypeOK
<1>1. IInv => TypeOK
  BY DEF IInv
<1> QED
  BY <1>1, Invariance, PTL

(* executeTransaction never leaves a transaction open behind its callers,  *)
(* however many calls overlap.                                             *)
THEOREM NothingLeftOpen == Spec => []NoTransactionAbandoned
<1>1. IInv => NoTransactionAbandoned
  BY DEF IInv
<1> QED
  BY <1>1, Invariance, PTL

(* Of calls that do not overlap, the answer tells what was committed.      *)
THEOREM AnswerIsTrue == Spec => []AnswerTellsOutcome
<1>1. IInv => AnswerTellsOutcome
  BY DEF IInv, AloneInv, OutcomeInv, AnswerTellsOutcome
<1> QED
  BY <1>1, Invariance, PTL

-----------------------------------------------------------------------------
(***************************************************************************)
(* The refinement: COMMIT maps to the abstract transfer, the UPDATE of a   *)
(* payer to its payment, every other step to a stutter.                    *)
(***************************************************************************)
LEMMA CommitTransfers ==
  ASSUME IInv, ~overlapped, NEW c \in Caller, Commit(c)
  PROVE  c \in Clerk /\ Atomic!Transfer(c)
<1>1. /\ connected /\ pc[c] = "commit" /\ c \in Clerk /\ store' = view /\ order' = order
      /\ order[c].from \in AccountRow /\ order[c].to \in AccountRow
  BY DEF IInv, Commit, Runs, Fits, Within
<1>2. /\ c \notin store.entered
      /\ 0 < order[c].amount /\ order[c].amount <= store.balance[order[c].from]
      /\ view = [Given(c) EXCEPT !.entered = @ \cup {c}]
  BY <1>1 DEF IInv, AloneInv, OutcomeInv, StageInv, Ended
<1>3. view.entered = store.entered \cup {c} /\ view.balance = Given(c).balance
  BY <1>2 DEF Given, Taken, Changed
<1>4. /\ store.balance \in [AccountRow -> Int]
      /\ order[c].amount \in Int
  BY Fields DEF IInv, Tables
<1>5. Given(c).balance = [store.balance EXCEPT ![order[c].from] = @ - order[c].amount,
                                               ![order[c].to] = @ + order[c].amount]
  <2> DEFINE taken == [store.balance EXCEPT ![order[c].from] = @ - order[c].amount]
  <2>1. taken = [store.balance EXCEPT ![order[c].from] = @ + (-order[c].amount)]
    BY <1>1, <1>4
  <2> QED
    BY <2>1 DEF Given, Taken, Changed
<1> QED
  BY <1>1, <1>2, <1>3, <1>5 DEF Atomic!Transfer

LEMMA PayPays ==
  ASSUME IInv, ~overlapped, NEW c \in Caller, Pay(c), Active(c)
  PROVE  c \in Payer /\ Atomic!Pay(c)
<1>1. /\ pc[c] = "pay" /\ c \in Payer /\ order[c].to \in AccountRow /\ order' = order
  BY DEF IInv, Pay, Moves, Writes, Runs, Fits
<1>2. c \notin store.entered /\ ~open /\ view = store
  BY <1>1, OpenIsOwn DEF IInv, AloneInv, OutcomeInv, Ended, Within
<1>3. store' = Changed(store, order[c].to, order[c].amount, {c})
  BY <1>2 DEF Pay, Moves, Writes, Runs
<1> QED
  BY <1>1, <1>2, <1>3 DEF Atomic!Pay, Changed

LEMMA OtherStepsKeepStore ==
  ASSUME IInv, ~overlapped, NEW c \in Caller, Runner(c), ~Commit(c), ~Pay(c)
  PROVE  store' = store /\ order' = order
<1>1. CASE Begin(c)
  <2>1. Active(c) /\ pc[c] \notin Within
    BY <1>1 DEF Begin, Runs, Active, Statement, Within
  <2> QED
    BY <1>1, <2>1, OpenIsOwn DEF Begin, Runs
<1>2. CASE ReadSender(c) \/ ReadReceiver(c) \/ Rollback(c) \/ PayRead(c)
  BY <1>2 DEF ReadSender, ReadReceiver, Rollback, PayRead, Looks, Runs
<1>3. CASE Debit(c) \/ Credit(c) \/ Insert(c)
  <2>1. pc[c] \in {"debit", "credit", "insert"} /\ connected
    BY <1>3 DEF Debit, Credit, Insert, Moves, Writes, Runs
  <2>2. open
    BY <2>1 DEF IInv, AloneInv, StageInv, Within
  <2> QED
    BY <1>3, <2>2 DEF Debit, Credit, Insert, Moves, Writes, Runs
<1>4. CASE OutOfRange(c) \/ RowRefused(c) \/ Broken(c)
  BY <1>4 DEF OutOfRange, RowRefused, Broken, Rejected, tables
<1> QED
  BY <1>1, <1>2, <1>3, <1>4 DEF Runner, TransferMoney, CreditAccount

LEMMA StepMaps ==
  ASSUME IInv, [Next]_vars, ~overlapped'
  PROVE  Atomic!Next \/ UNCHANGED Atomic!vars
<1>1. CASE LosesConnection \/ Restarts \/ UNCHANGED vars
  BY <1>1 DEF LosesConnection, Restarts, vars, tables, Atomic!vars
<1>2. ASSUME NEW c \in Caller, Call(c) PROVE UNCHANGED Atomic!vars
  BY <1>2 DEF Call, tables, Atomic!vars
<1>3. ASSUME NEW c \in Caller, Runner(c) PROVE Atomic!Next \/ UNCHANGED Atomic!vars
  <2>1. ~overlapped
    BY <1>3 DEF Runner, TransferMoney, CreditAccount, Begin, ReadSender, ReadReceiver, Debit,
       Credit, Insert, Commit, Rollback, PayRead, Pay, OutOfRange, RowRefused, Broken,
       Looks, Moves, Writes, Runs, Rejected
  <2>2. CASE Commit(c)
    BY <2>1, <2>2, CommitTransfers DEF Atomic!Next
  <2>3. CASE Pay(c)
    <3>1. Active(c)
      BY <2>3 DEF Pay, Moves, Writes, Runs, Active, Statement
    <3> QED
      BY <2>1, <2>3, <3>1, PayPays DEF Atomic!Next
  <2>4. CASE ~Commit(c) /\ ~Pay(c)
    BY <1>3, <2>1, <2>4, OtherStepsKeepStore DEF Atomic!vars
  <2> QED
    BY <2>2, <2>3, <2>4
<1> QED
  BY <1>1, <1>2, <1>3 DEF Next, Done

(* Calls that do not overlap implement the atomic transfer.                *)
THEOREM AtomicImplemented == Spec => AloneIsAtomic
<1>1. IInv /\ [Next]_vars => [~overlapped' => (Atomic!Next \/ UNCHANGED Atomic!vars)]_vars
  BY StepMaps
<1> QED
  BY <1>1, Invariance, PTL DEF Spec, AloneIsAtomic
=============================================================================
