------------------------------- MODULE Customers -------------------------------
(***************************************************************************)
(* The start of the process, registrations and maintenance together, over  *)
(* the tables they share.                                                  *)
(***************************************************************************)
EXTENDS Bootstrap, Registration, Maintenance

ConnectionGone(r) == Broken(r) /\ UNCHANGED <<start, job, tables, history>>

Arrive(r) ==
  \/ AskNothing(r)
  \/ \E n \in Username : AskRegister(r, n)
  \/ \E c \in Creator : AskOpen(r, c) \/ AskPay(r, c) \/ AskDeactivate(r, c) \/ AskClose(r, c)

Handler(r) == Register(r) \/ Maintain(r) \/ ConnectionGone(r)

Done == Listening /\ (\A r \in Request : pc[r] \in Ended) /\ UNCHANGED vars

Next ==
  \/ Start
  \/ Killed
  \/ ConnectionLost
  \/ \E r \in Request : Arrive(r) \/ Handler(r)
  \/ Done

Spec == Init /\ [][Next]_vars

-----------------------------------------------------------------------------
(***************************************************************************)
(* Properties.                                                             *)
(***************************************************************************)
Opens(r) == job[r].kind \in {"register", "open"}

(* Whoever is told 201 has an account; without faults, whoever is told     *)
(* anything else has none.  A user without account is under way, or was    *)
(* left by a fault or a colliding account number and was told 500; of the  *)
(* administrator only a fault can make one.                                *)
AnswerTellsAccount ==
  /\ \A r \in Request :
       Opens(r) /\ pc[r] \in Ended =>
         /\ pc[r] = "201" => r \in accounts
         /\ pc[r] # "201" /\ faults = 0 => r \notin accounts
  /\ \A r \in Request \cap (users \ accounts) :
       \/ pc[r] = "insertAccount"
       \/ pc[r] \in {"500", "dead"} /\ (faults # 0 \/ r \in collided)
  /\ Boot \in users \ accounts /\ start = "listening" => faults # 0

(* A username belongs to one user.  Without faults and collisions a        *)
(* registration is turned away only if somebody else has the username.     *)
OneUserPerName ==
  /\ \A u, v \in users : NameOf(u) = NameOf(v) => u = v
  /\ \A r \in Request :
       job[r].kind = "register" /\ pc[r] \in {"409", "500"} /\ faults = 0 /\ r \notin collided
         => NameTaken(job[r].name) /\ r \notin users

(* The administrator's username is never a customer's: when the server     *)
(* listens it is taken by the user that the start of the process inserted. *)
(* Unless a fault struck, role and account are there as well.              *)
AdminIsOurs ==
  /\ \A u \in users : NameOf(u) = Admin => u = Boot
  /\ start = "listening" => Boot \in users
  /\ start = "listening" /\ faults = 0 => Boot \in accounts /\ granted

(* A user that was deactivated has money only if it came after the sum was *)
(* taken.                                                                  *)
DeactivatedHadNothing == \A u \in deactivated : Total(u) > 0 => u \in touched

(* Only a payment changes the balance of an account, and no row is ever    *)
(* removed: a start of the process gives the administrator nothing again.  *)
BalanceOnlyPaid ==
  [][/\ users \subseteq users' /\ accounts \subseteq accounts'
     /\ \A a \in accounts : balance'[a] # balance[a] =>
          \E r \in Request : pc[r] = "pay" /\ pc'[r] # "pay" /\ job[r].on = a]_vars

(* A start fails only for a lost connection: whatever an earlier start or  *)
(* an earlier crash has left in the tables, the next one gets through.     *)
StartsNeverRefused ==
  [][start # "stopped" /\ start' = "stopped" => ~connected \/ faults' # faults]_vars

-----------------------------------------------------------------------------
(***************************************************************************)
(* The inductive invariant behind these properties.                        *)
(***************************************************************************)

(* What a request asks for decides what it can await.                      *)
Awaits(r, at) ==
  /\ at = "idle" => job[r].kind = "none"
  /\ at \in {"lookup", "lookupAccounts", "bcrypt", "insertUser", "rereadUser",
             "rereadAccounts"} => job[r].kind = "register"
  /\ at = "insertAccount" => Opens(r)
  /\ at = "rereadAccount" => job[r].kind = "open"
  /\ at = "pay" => job[r].kind = "pay"
  /\ at \in {"findActive", "sum", "softDelete", "audit"} => job[r].kind = "deactivate"
  /\ at = "findAccount" => job[r].kind = "close"

(* Who is referred to is there.                                            *)
Refers(r, at) ==
  /\ at = "lookupAccounts" => NameTaken(job[r].name)
  /\ job[r].kind = "open" => job[r].on \in users
  /\ job[r].kind = "pay" => job[r].on \in accounts
  /\ at \in {"sum", "softDelete"} => job[r].on \in users
  /\ at = "softDelete" /\ Total(job[r].on) > 0 => job[r].on \in touched

(* The user and the account of r are there from their INSERTs on.          *)
HasRows(r, at) ==
  /\ r \in users => job[r].kind = "register"
                   /\ at \in {"insertAccount", "rereadUser", "rereadAccounts", "201", "500", "dead"}
  /\ job[r].kind = "register" /\ at \in {"insertAccount", "rereadUser", "rereadAccounts", "201"}
       => r \in users
  /\ r \in accounts => Opens(r)
                      /\ at \in {"rereadUser", "rereadAccounts", "rereadAccount", "201", "500", "dead"}
  /\ Opens(r) /\ at \in {"rereadUser", "rereadAccounts", "rereadAccount", "201"} => r \in accounts
  /\ r \in accounts /\ job[r].kind = "register" => r \in users
  /\ r \in collided => Opens(r) /\ r \notin accounts /\ at = "500"

(* What an error says, as long as there is no fault: a lost race for a     *)
(* username, a collision of account numbers, or a maintenance call.        *)
Explains(r, at) ==
  faults = 0 =>
    /\ at # "dead"
    /\ at = "500" /\ r \notin collided =>
         /\ r \notin accounts /\ r \notin users
         /\ \/ job[r].kind \in {"deactivate", "close"}
            \/ job[r].kind = "register" /\ NameTaken(job[r].name)
    /\ at = "409" => job[r].kind = "register" /\ NameTaken(job[r].name)

RequestInv(r) ==
  Awaits(r, pc[r]) /\ Refers(r, pc[r]) /\ HasRows(r, pc[r]) /\ Explains(r, pc[r])

(* How far the start of the process has come.                              *)
BootInv ==
  /\ Boot \notin users => users = {} /\ accounts = {}
  /\ start \in {"hash", "insertAdmin"} => Boot \notin users
  /\ start \in {"insertRole", "insertAccount"} => Boot \in users /\ accounts = {}
  /\ start = "listening" => Boot \in users
  /\ start # "listening" => \A r \in Request : pc[r] \in Ended \cup {"idle"}
  /\ faults = 0 =>
       /\ Boot \in users => start \in {"insertRole", "insertAccount", "listening"}
       /\ start \in {"insertAccount", "listening"} => granted
       /\ start = "listening" => Boot \in accounts

NamesInv == \A u, v \in users : NameOf(u) = NameOf(v) => u = v

IInv ==
  /\ TypeOK
  /\ QueueInv
  /\ ~connected => faults # 0
  /\ \A r \in Request : RequestInv(r)
  /\ BootInv
  /\ NamesInv
  /\ DeactivatedHadNothing
=============================================================================
