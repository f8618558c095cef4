------------------------------- MODULE Bootstrap -------------------------------
(***************************************************************************)
(* The start of the process: it connects, creates the tables, and inserts  *)
(* the roles and the administrator where a count finds none.  No SQL       *)
(* transaction joins the inserts.  A statement that fails ends the         *)
(* process; nobody else uses the connection until the server listens.      *)
(***************************************************************************)
EXTENDS CustomerTables

Boots(at, next) ==
  /\ start = at /\ connected
  /\ start' = next
  /\ UNCHANGED <<connection, job>>

(* The process is started, and makes a connection of its own.              *)
Starts ==
  /\ start = "stopped"
  /\ start' = "createTables"
  /\ UNCHANGED <<connection, job, tables, history>>

(* Tables, indexes and views: every statement may be repeated.             *)
CreateTables ==
  Boots("createTables", "countRoles") /\ UNCHANGED <<tables, history>>

CountRoles ==
  /\ Boots("countRoles", IF roles THEN "countAdmin" ELSE "insertRoles")
  /\ UNCHANGED <<tables, history>>

(* One INSERT of four rows.                                                *)
InsertRoles ==
  /\ Boots("insertRoles", "countAdmin")
  /\ roles' = TRUE
  /\ UNCHANGED <<users, accounts, balance, deactivated, closed, granted, history>>

(* Mutant of AfterCount: the administrator is inserted at every start.     *)
InsertsAlways == "hash"

(* Mutant of AfterCount: only the user is inserted once.                   *)
OpensAlways == IF NameTaken(Admin) THEN "insertAccount" ELSE "hash"

AfterCount == IF NameTaken(Admin) THEN "listening" ELSE "hash"

CountAdmin == Boots("countAdmin", AfterCount) /\ UNCHANGED <<tables, history>>

(* Hashing the password needs no connection.                               *)
HashAdmin ==
  /\ start = "hash"
  /\ start' = "insertAdmin"
  /\ UNCHANGED <<connection, job, tables, history>>

(* A second user of the name is refused, and the process ends.             *)
InsertAdmin ==
  /\ Boots("insertAdmin", IF NameTaken(Admin) THEN "stopped" ELSE "insertRole")
  /\ users' = IF NameTaken(Admin) THEN users ELSE users \cup {Boot}
  /\ UNCHANGED <<accounts, balance, deactivated, closed, roles, granted, history>>

InsertRole ==
  /\ Boots("insertRole", "insertAccount")
  /\ granted' = TRUE
  /\ UNCHANGED <<users, accounts, balance, deactivated, closed, roles, history>>

InsertAdminAccount ==
  /\ Boots("insertAccount", "listening")
  /\ OpensAccount(Boot, Boot, AdminFunds)

(* startServer logs that it failed to start, and exits.                    *)
ExitsOnFailure ==
  /\ start \in Starting \ {"hash"} /\ ~connected
  /\ start' = "stopped"
  /\ connected' = TRUE
  /\ UNCHANGED <<pc, queue, faults, job, tables, history>>

(* The process ends, by a signal or by itself, with all that it awaits.    *)
Killed ==
  /\ start # "stopped"
  /\ start' = "stopped"
  /\ Dies
  /\ UNCHANGED <<job, tables, history>>

ConnectionLost ==
  /\ start # "stopped"
  /\ LosesConnection
  /\ UNCHANGED <<start, job, tables, history>>

Start ==
  \/ Starts \/ CreateTables \/ CountRoles \/ InsertRoles \/ CountAdmin \/ HashAdmin
  \/ InsertAdmin \/ InsertRole \/ InsertAdminAccount \/ ExitsOnFailure
=============================================================================
