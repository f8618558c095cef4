--------------------------- MODULE ConnectionLemmas ---------------------------
(***************************************************************************)
(* What the steps of Connection do to pc and to the queue, for the proofs  *)
(* about the modules that extend it.                                       *)
(***************************************************************************)
EXTENDS Connection, DataLemmas, TLAPS

(* r runs on to next, and the queue keeps one entry of each waiting r.     *)
Runs(r, next) ==
  /\ pc' = [pc EXCEPT ![r] = next]
  /\ queue' \in Seq(Request)
  /\ QueueInv'

(* What the modules that extend Connection know of its variables.          *)
ConnectionInv ==
  /\ \E labels : pc \in [Request -> labels]
  /\ queue \in Seq(Request)
  /\ QueueInv
  /\ faults \in 0..MaxFaults
  /\ ~connected => faults # 0

LEMMA LeavesRuns ==
  ASSUME ConnectionInv, NEW r \in Request, NEW next, Served(r), Leaves(r, next)
  PROVE  Runs(r, next) /\ pc[r] \notin OffQueue
<1> DEFINE rest == Tail(queue)
<1>1. /\ rest \in Seq(Request) /\ IsInjective(rest)
      /\ \A i \in DOMAIN rest : rest[i] \in Request \ {r} /\ pc[rest[i]] \notin OffQueue
      /\ pc[r] \notin OffQueue
  BY TailDistinct DEF ConnectionInv, QueueInv, Served
<1>2. /\ pc' = [pc EXCEPT ![r] = next] /\ pc'[r] = next
      /\ \A s \in Request \ {r} : pc'[s] = pc[s]
  BY DEF ConnectionInv, Leaves
<1>3. \A i \in DOMAIN rest : pc'[rest[i]] \notin OffQueue
  BY <1>1, <1>2
<1> HIDE DEF rest
<1>4. CASE next \notin OffQueue
  <2>1. queue' = Append(rest, r)
    BY <1>4 DEF Leaves, rest
  <2>2. /\ queue' \in Seq(Request) /\ IsInjective(queue')
        /\ \A i \in DOMAIN queue' :
             queue'[i] = r \/ \E j \in DOMAIN rest : rest[j] = queue'[i]
    BY <1>1, <2>1, AppendDistinct
  <2> QED
    BY <1>1, <1>2, <1>3, <1>4, <2>2 DEF Runs, QueueInv
<1>5. CASE next \in OffQueue
  <2>1. queue' = rest
    BY <1>5 DEF Leaves, rest
  <2> QED
    BY <1>1, <1>2, <1>3, <2>1 DEF Runs, QueueInv
<1> QED
  BY <1>4, <1>5

LEMMA JoinsRuns ==
  ASSUME ConnectionInv, NEW r \in Request, NEW next, pc[r] \in OffQueue, Joins(r, next)
  PROVE  Runs(r, next) /\ UNCHANGED <<connected, faults>>
<1>1. \A i \in DOMAIN queue : queue[i] \in Request \ {r} /\ pc[queue[i]] \notin OffQueue
  BY DEF ConnectionInv, QueueInv
<1>2. /\ pc' = [pc EXCEPT ![r] = next] /\ pc'[r] = next
      /\ \A s \in Request \ {r} : pc'[s] = pc[s]
  BY DEF ConnectionInv, Joins
<1>3. \A i \in DOMAIN queue : pc'[queue[i]] \notin OffQueue
  BY <1>1, <1>2
<1>4. CASE next \notin OffQueue
  <2>1. queue' = Append(queue, r)
    BY <1>4 DEF Joins
  <2>2. /\ queue' \in Seq(Request) /\ IsInjective(queue')
        /\ \A i \in DOMAIN queue' :
             queue'[i] = r \/ \E j \in DOMAIN queue : queue[j] = queue'[i]
    BY <1>1, <2>1, AppendDistinct DEF ConnectionInv, QueueInv
  <2> QED
    BY <1>2, <1>3, <1>4, <2>2 DEF Runs, QueueInv, Joins
<1>5. CASE next \in OffQueue
  BY <1>2, <1>3, <1>5 DEF Runs, QueueInv, Joins, ConnectionInv
<1> QED
  BY <1>4, <1>5

-----------------------------------------------------------------------------
(* A fault is counted, and only a fault takes the connection.              *)
Faulted == connected' = FALSE /\ faults' \in 1..MaxFaults

(* A statement was served: its result arrived or was lost.                 *)
LEMMA RepliesRuns ==
  ASSUME ConnectionInv, MaxFaults \in Nat, NEW r \in Request, NEW next,
         Served(r), Replies(r, next)
  PROVE  \/ Runs(r, next) /\ UNCHANGED <<connected, faults>>
         \/ Runs(r, "500") /\ Faulted
<1> DEFINE kept == UNCHANGED <<connected, faults>>
           lost == faults < MaxFaults /\ faults' = faults + 1 /\ connected' = FALSE
<1>1. Leaves(r, next) => Runs(r, next)
  BY LeavesRuns
<1>2. Leaves(r, "500") => Runs(r, "500")
  BY LeavesRuns
<1>3. lost => Faulted
  BY DEF Faulted, ConnectionInv
<1>4. (Leaves(r, next) /\ kept) \/ (lost /\ Leaves(r, "500"))
  BY DEF Replies
<1> HIDE DEF lost
<1> QED
  BY <1>1, <1>2, <1>3, <1>4

LEMMA RejectedRuns ==
  ASSUME ConnectionInv, NEW r \in Request, NEW at, Rejected(r, at)
  PROVE  Runs(r, "500") /\ pc[r] = at /\ UNCHANGED <<connected, faults>>
BY LeavesRuns DEF Rejected, Executes

LEMMA BrokenRuns ==
  ASSUME ConnectionInv, NEW r \in Request, Broken(r)
  PROVE  /\ Runs(r, "500") /\ pc[r] \notin OffQueue /\ faults # 0
         /\ UNCHANGED <<connected, faults>>
BY LeavesRuns DEF Broken, ConnectionInv

LEMMA LosesConnectionFaulted ==
  ASSUME ConnectionInv, MaxFaults \in Nat, LosesConnection
  PROVE  Faulted /\ queue' \in Seq(Request) /\ QueueInv' /\ UNCHANGED pc
BY DEF LosesConnection, Faulted, ConnectionInv, QueueInv

LEMMA DiesFaulted ==
  ASSUME ConnectionInv, MaxFaults \in Nat, Dies
  PROVE  /\ faults' \in 1..MaxFaults /\ queue' \in Seq(Request) /\ QueueInv'
         /\ pc' = [r \in Request |-> IF pc[r] \in Ended \cup {"idle"} THEN pc[r] ELSE "dead"]
<1>1. faults' \in 1..MaxFaults
  BY DEF Dies, ConnectionInv
<1>2. queue' = <<>> /\ queue' \in Seq(Request) /\ IsInjective(queue') /\ DOMAIN queue' = {}
  BY DEF Dies, IsInjective
<1> QED
  BY <1>1, <1>2 DEF Dies, QueueInv
=============================================================================
