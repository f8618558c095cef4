------------------------------ MODULE Maintenance ------------------------------
(***************************************************************************)
(* MaintenanceService.deactivateUser and closeAccount.  (Its cleanups and  *)
(* the forced logout are in Sessions.)                                     *)
(***************************************************************************)
EXTENDS CustomerTables

AskDeactivate(r, u) == Asks(r, "deactivate", Admin, u, "findActive")

AskClose(r, a) == Asks(r, "close", Admin, a, "findAccount")

-----------------------------------------------------------------------------
(* Who is unknown or deactivated already makes the call throw.             *)
FindActive(r) ==
  Reads(r, "findActive", IF job[r].on \in users \ deactivated THEN "sum" ELSE "500")

(* Mutant of AfterSum: the total is not looked at.                         *)
AnyTotal(u) == "softDelete"

AfterSum(u) == IF Total(u) > 0 THEN "500" ELSE "softDelete"

SumBalances(r) ==
  /\ Executes(r, "sum")
  /\ Replies(r, AfterSum(job[r].on))
  /\ touched' = IF AfterSum(job[r].on) = "softDelete" THEN touched \ {job[r].on} ELSE touched
  /\ UNCHANGED <<start, job, tables, collided>>

(* The driver gives a DECIMAL as a text, and a strict comparison never     *)
(* finds a text equal to a number.                                         *)
FromDriver(cents) == [type |-> "text", cents |-> cents]
Zero == [type |-> "number", cents |-> 0]

(* An account that is unknown, closed or not found empty makes it throw.   *)
AfterCompare(a) ==
  IF a \in accounts \ closed /\ FromDriver(balance[a]) = Zero THEN "softDelete" ELSE "500"

FindAccount(r) == Reads(r, "findAccount", AfterCompare(job[r].on))

(* Both functions end with an UPDATE ... SET is_active = FALSE, and with a *)
(* record of it.                                                           *)
Marked(ids, r, kind) == IF job[r].kind = kind THEN ids \cup {job[r].on} ELSE ids

SoftDelete(r) ==
  /\ Executes(r, "softDelete")
  /\ deactivated' = Marked(deactivated, r, "deactivate")
  /\ closed' = Marked(closed, r, "close")
  /\ Replies(r, "audit")
  /\ UNCHANGED <<start, job, users, accounts, balance, roles, granted, history>>

(* The record names no id, which audit_log requires and has no default for.*)
AuditRefused(r) ==
  Rejected(r, "audit") /\ UNCHANGED <<start, job, tables, history>>

Maintain(r) ==
  \/ FindActive(r) \/ SumBalances(r) \/ FindAccount(r) \/ SoftDelete(r) \/ AuditRefused(r)
=============================================================================
