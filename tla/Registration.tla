----------------------------- MODULE Registration -----------------------------
(***************************************************************************)
(* POST /users and POST /users/accounts: a username is looked up, and two  *)
(* INSERTs that no SQL transaction joins make the user and the account.    *)
(* Payments are what the transfer handlers do to an account's balance.     *)
(***************************************************************************)
EXTENDS CustomerTables

CONSTANT Payment    \* by how much one UPDATE of a transfer changes a balance

ASSUME PaymentAssumption == Payment \subseteq Int

(* A body that does not validate.                                          *)
AskNothing(r) == Asks(r, "refused", Admin, Boot, "400")

AskRegister(r, n) == Asks(r, "register", n, Boot, "lookup")

(* The authentication of this route is in Sessions.                        *)
AskOpen(r, u) == u \in users /\ Asks(r, "open", Admin, u, "insertAccount")

AskPay(r, a) == a \in accounts /\ Asks(r, "pay", Admin, a, "pay")

-----------------------------------------------------------------------------
LookUp(r) ==
  Reads(r, "lookup", IF NameTaken(job[r].name) THEN "lookupAccounts" ELSE "bcrypt")

(* The accounts of the user that has the name are read for the answer 409. *)
LookUpAccounts(r) == Reads(r, "lookupAccounts", "409")

HashPassword(r) ==
  /\ pc[r] = "bcrypt"
  /\ Joins(r, "insertUser")
  /\ UNCHANGED <<start, job, tables, history>>

(* Mutant of Fits: the column is not UNIQUE.                               *)
AnyName(n) == TRUE

Fits(n) == ~NameTaken(n)

InsertUser(r) ==
  /\ Executes(r, "insertUser") /\ Fits(job[r].name)
  /\ users' = users \cup {r}
  /\ Replies(r, "insertAccount")
  /\ UNCHANGED <<start, job, accounts, balance, deactivated, closed, roles, granted, history>>

(* Another registration of the name was faster.                            *)
UserRefused(r) ==
  /\ ~Fits(job[r].name) /\ Rejected(r, "insertUser")
  /\ UNCHANGED <<start, job, tables, history>>

(* What createUser and createAccount read once more for their answers.     *)
Rereads(kind) == IF kind = "register" THEN "rereadUser" ELSE "rereadAccount"

(* Mutant of InsertAccount: createUser makes no account.                   *)
SkipsAccount(r) == Reads(r, "insertAccount", Rereads(job[r].kind))

InsertAccount(r) ==
  /\ Executes(r, "insertAccount")
  /\ OpensAccount(r, OwnerOf(r), Welcome)
  /\ Replies(r, Rereads(job[r].kind))
  /\ UNCHANGED <<start, job>>

(* The random account number is another account's.                         *)
NumberTaken(r) ==
  /\ accounts # {} /\ Rejected(r, "insertAccount")
  /\ collided' = collided \cup {r}
  /\ UNCHANGED <<start, job, tables, touched>>

Answer(r) ==
  \/ Reads(r, "rereadUser", "rereadAccounts")
  \/ \E at \in {"rereadAccounts", "rereadAccount"} : Reads(r, at, "201")

Pay(r) ==
  /\ Executes(r, "pay")
  /\ \E d \in Payment : balance' = [balance EXCEPT ![job[r].on] = @ + d]
  /\ touched' = touched \cup {OwnerOf(job[r].on)}
  /\ Replies(r, "200")
  /\ UNCHANGED <<start, job, users, accounts, deactivated, closed, roles, granted, collided>>

Register(r) ==
  \/ LookUp(r) \/ LookUpAccounts(r) \/ HashPassword(r) \/ InsertUser(r) \/ UserRefused(r)
  \/ InsertAccount(r) \/ NumberTaken(r) \/ Answer(r) \/ Pay(r)
=============================================================================
