------------------------------- MODULE Operator -------------------------------
(***************************************************************************)
(* MaintenanceService as docs/database-management.md has it used: an       *)
(* operator calls its functions, one at a time, over the customers of      *)
(* module Customers and the sessions of module Sessions, which share the   *)
(* process's connection.  Accounts are closed and users deactivated only   *)
(* when they hold nothing, as the document asks.                           *)
(***************************************************************************)
EXTENDS Customers

VARIABLES clock, sessionJob, issued, expires, rows, inactive, ended, late

(* Nobody has logged in, so the clock need not move.                       *)
Session == INSTANCE Sessions WITH
             job <- sessionJob, Lifetime <- 24, Drift <- {0}, MaxTime <- 0

customers == <<start, job, tables, history>>
sessions  == <<clock, sessionJob, issued, expires, rows, inactive, ended, late>>

-----------------------------------------------------------------------------
(* The functions that the document presents and that leave a record.       *)
Logged == {"deactivate", "close", "forceLogout", "fullCleanup"}

CallOf(r) == IF job[r].kind = "none" THEN sessionJob[r].kind ELSE job[r].kind

Quiet == \A r \in Request : pc[r] \in Ended \cup {"idle"}

(* Somebody withdraws, or the operator makes the next call.                *)
Call(r) ==
  /\ Quiet
  /\ \/ /\ \/ \E a \in accounts : AskPay(r, a)
           \/ \E a \in accounts : balance[a] = 0 /\ AskClose(r, a)
           \/ \E u \in users \ deactivated : Total(u) = 0 /\ AskDeactivate(r, u)
        /\ UNCHANGED sessions
     \/ Listening /\ Session!AskMaintenance(r) /\ UNCHANGED customers

Serve(r) ==
  \/ job[r].kind # "none" /\ Handler(r) /\ UNCHANGED sessions
  \/ sessionJob[r].kind # "none" /\ Session!Handler(r) /\ UNCHANGED customers

OperatorInit == Init /\ Session!Init

OperatorNext ==
  \/ Start /\ UNCHANGED sessions
  \/ \E r \in Request : Call(r) \/ Serve(r)
  \/ Done /\ UNCHANGED sessions

OperatorSpec == OperatorInit /\ [][OperatorNext]_<<vars, sessions>>

-----------------------------------------------------------------------------
(* What the document says of the four functions, asked for as weakly as    *)
(* possible: once each of them has been called, one at a time, without a   *)
(* fault, and on nothing but empty accounts and their users, at least one  *)
(* of the calls has returned.                                              *)
SomeCallReturns ==
  faults = 0 /\ (\A kind \in Logged : \E r \in Request : CallOf(r) = kind /\ pc[r] \in Ended)
    => \E r \in Request : CallOf(r) \in Logged /\ pc[r] = "200"
=============================================================================
