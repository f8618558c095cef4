------------------------------ MODULE Connection ------------------------------
(***************************************************************************)
(* The process's one database connection, as handlers use it that have     *)
(* nothing left to do once a statement has failed: Sessions and Customers  *)
(* extend it.  (Handlers whose catch blocks issue further statements are   *)
(* in Transfers, SharedConnection and Incoming.)                           *)
(*                                                                         *)
(* pc[r] names what the handler of request r awaits; statements are served *)
(* one at a time in the order in which they were issued.  A request is an  *)
(* HTTP request, or a call of a maintenance function; of a call that       *)
(* returns it is said that it was answered 200, of one that throws, 500.   *)
(***************************************************************************)
EXTENDS Integers, Sequences, Functions

CONSTANTS
  Request,    \* requests and maintenance calls that may be made
  MaxFaults   \* bound on lost connections and process deaths

VARIABLES
  pc,         \* what the handler of a request awaits
  queue,      \* handlers whose statement waits for the connection, in order
  connected,  \* the process still has its connection
  faults      \* faults so far

connection == <<pc, queue, connected, faults>>

-----------------------------------------------------------------------------
Ended == {"200", "201", "400", "401", "404", "409", "500", "dead"}

(* Everything but a statement: hashing a password is awaited as well, but  *)
(* not on the connection.                                                  *)
OffQueue == Ended \cup {"idle", "bcrypt"}

Idle ==
  /\ pc = [r \in Request |-> "idle"]
  /\ queue = <<>>
  /\ connected = TRUE
  /\ faults = 0

Served(r) == queue # <<>> /\ Head(queue) = r

(* r's statement has been served, and r runs on to its next await.         *)
Leaves(r, next) ==
  /\ pc' = [pc EXCEPT ![r] = next]
  /\ queue' = IF next \in OffQueue THEN Tail(queue) ELSE Append(Tail(queue), r)

(* A handler that awaited no statement runs on to its next await.          *)
Joins(r, next) ==
  /\ pc' = [pc EXCEPT ![r] = next]
  /\ queue' = IF next \in OffQueue THEN queue ELSE Append(queue, r)
  /\ UNCHANGED <<connected, faults>>

Executes(r, at) == connected /\ Served(r) /\ pc[r] = at

(* The result of a statement reaches r, or is lost with the connection.    *)
Replies(r, next) ==
  \/ Leaves(r, next) /\ UNCHANGED <<connected, faults>>
  \/ /\ faults < MaxFaults
     /\ faults' = faults + 1
     /\ connected' = FALSE
     /\ Leaves(r, "500")

(* The server rejects the statement; the handler's catch block ends it.    *)
Rejected(r, at) ==
  /\ Executes(r, at)
  /\ Leaves(r, "500")
  /\ UNCHANGED <<connected, faults>>

(* So does a connection that is gone.  No other one is ever opened.        *)
Broken(r) ==
  /\ ~connected /\ Served(r)
  /\ Leaves(r, "500")
  /\ UNCHANGED <<connected, faults>>

LosesConnection ==
  /\ connected
  /\ faults < MaxFaults
  /\ faults' = faults + 1
  /\ connected' = FALSE
  /\ UNCHANGED <<pc, queue>>

(* The process ends, by SIGTERM or by itself: its handlers are gone.       *)
Dies ==
  /\ faults < MaxFaults
  /\ faults' = faults + 1
  /\ pc' = [r \in Request |-> IF pc[r] \in Ended \cup {"idle"} THEN pc[r] ELSE "dead"]
  /\ queue' = <<>>
  /\ connected' = TRUE

-----------------------------------------------------------------------------
(* Nobody is queued twice, and who is queued awaits a statement.           *)
QueueInv ==
  /\ IsInjective(queue)
  /\ \A i \in DOMAIN queue : pc[queue[i]] \notin OffQueue
=============================================================================
