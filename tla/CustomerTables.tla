---------------------------- MODULE CustomerTables ----------------------------
(***************************************************************************)
(* The tables that hold the bank's customers, and the process that serves  *)
(* them.  Bootstrap, Registration and Maintenance are the three components *)
(* that write these tables; Customers composes them.                       *)
(*                                                                         *)
(* A request registers at most one user and opens at most one account, so  *)
(* the request itself stands for either row's id; Boot stands for the two  *)
(* rows that the start of the process inserts for the administrator.       *)
(***************************************************************************)
EXTENDS Connection

CONSTANTS
  Username,   \* usernames that are registered
  Admin,      \* the administrator's
  Boot,       \* stands for the start of the process, where it inserts a row
  Welcome,    \* what a new account holds, 1000.00
  AdminFunds  \* what the administrator's account holds at first, 10000.00

ASSUME NamesAssumption == Admin \in Username /\ Boot \notin Request
ASSUME FundsAssumption == Welcome \in Int /\ AdminFunds \in Int
ASSUME FaultsAssumption == MaxFaults \in Nat

VARIABLES
  start,       \* what the start of the process awaits
  job,         \* what a request asks for
  users,       \* rows of the users table
  accounts,    \* rows of the accounts table
  balance,     \* accounts.balance
  deactivated, \* users whose row says is_active = FALSE
  closed,      \* accounts whose row says it
  roles,       \* the roles table has its four rows
  granted,     \* user_roles has the administrator's row
  collided,    \* history: requests whose account number was taken
  touched      \* history: users whose money changed since a sum let them be deactivated

tables  == <<users, accounts, balance, deactivated, closed, roles, granted>>
history == <<collided, touched>>
vars    == <<connection, start, job, tables, history>>

-----------------------------------------------------------------------------
Creator == Request \cup {Boot}

Starting == {"createTables", "countRoles", "insertRoles", "countAdmin", "hash",
             "insertAdmin", "insertRole", "insertAccount"}

Kind == {"none", "refused", "register", "open", "pay", "deactivate", "close"}

Statement == {"lookup", "lookupAccounts", "insertUser", "insertAccount",
              "rereadUser", "rereadAccounts", "rereadAccount", "pay",
              "findActive", "sum", "softDelete", "audit", "findAccount"}

Label == Statement \cup OffQueue

TypeOK ==
  /\ pc \in [Request -> Label]
  /\ queue \in Seq(Request)
  /\ connected \in BOOLEAN
  /\ faults \in 0..MaxFaults
  /\ start \in Starting \cup {"stopped", "listening"}
  /\ job \in [Request -> [kind: Kind, name: Username, on: Creator]]
  /\ users \subseteq Creator
  /\ accounts \subseteq Creator
  /\ balance \in [Creator -> Int]
  /\ deactivated \subseteq users
  /\ closed \subseteq accounts
  /\ roles \in BOOLEAN
  /\ granted \in BOOLEAN
  /\ collided \subseteq Request
  /\ touched \subseteq Creator

(* The columns that identify a row: users.username, accounts.user_id.      *)
NameOf(u) == IF u = Boot THEN Admin ELSE job[u].name

OwnerOf(a) ==
  IF a = Boot THEN Boot ELSE IF job[a].kind = "open" THEN job[a].on ELSE a

(* users.username is UNIQUE.                                               *)
NameTaken(n) == \E u \in users : NameOf(u) = n

(* The open accounts of a user, and their SUM(balance), or 0 of none.      *)
AccountsOf(u) == {a \in accounts \ closed : OwnerOf(a) = u}

Total(u) == SumFunction([a \in AccountsOf(u) |-> balance[a]])

Init ==
  /\ Idle
  /\ start = "stopped"
  /\ job = [r \in Request |-> [kind |-> "none", name |-> Admin, on |-> Boot]]
  /\ users = {} /\ accounts = {} /\ deactivated = {} /\ closed = {}
  /\ balance = [c \in Creator |-> 0]
  /\ roles = FALSE /\ granted = FALSE
  /\ collided = {} /\ touched = {}

-----------------------------------------------------------------------------
(* A new account of u, with its opening balance.                           *)
OpensAccount(a, u, amount) ==
  /\ accounts' = accounts \cup {a}
  /\ balance' = [balance EXCEPT ![a] = amount]
  /\ touched' = touched \cup {u}
  /\ UNCHANGED <<users, deactivated, closed, roles, granted, collided>>

(* A statement that only reads.                                            *)
Reads(r, at, next) ==
  /\ Executes(r, at)
  /\ Replies(r, next)
  /\ UNCHANGED <<start, job, tables, history>>

(* Mutant of Listening: the server listens before the database is ready.   *)
ListensAtOnce == start # "stopped"

(* The server listens once the database is initialised.                    *)
Listening == start = "listening"

(* A request or a call arrives, and runs to its first await.               *)
Asks(r, kind, n, c, next) ==
  /\ pc[r] = "idle" /\ Listening
  /\ job' = [job EXCEPT ![r] = [kind |-> kind, name |-> n, on |-> c]]
  /\ Joins(r, next)
  /\ UNCHANGED <<start, tables, history>>
=============================================================================
