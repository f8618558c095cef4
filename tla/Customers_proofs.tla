---------------------------- MODULE Customers_proofs ----------------------------
(***************************************************************************)
(* The properties of Customers for every set of requests and usernames,    *)
(* every opening balance and payment, and any number of faults.            *)
(***************************************************************************)
EXTENDS Customers, ConnectionLemmas

USE DEF Ended, OffQueue

LEMMA Connected == IInv => ConnectionInv
BY DEF IInv, TypeOK, ConnectionInv

(* A sum depends on nothing but the accounts summed and their balances.    *)
LEMMA TotalKept ==
  ASSUME NEW u, AccountsOf(u)' = AccountsOf(u),
         \A a \in AccountsOf(u) : balance'[a] = balance[a]
  PROVE  Total(u)' = Total(u)
<1>1. [a \in AccountsOf(u) |-> balance[a]]' = [a \in AccountsOf(u) |-> balance[a]]
  OBVIOUS
<1> QED
  BY <1>1 DEF Total

(* What users hold and who owns an account does not change while the rows  *)
(* and the jobs behind them do not.                                        *)
LEMMA RowsKept ==
  ASSUME IInv, TypeOK', users \subseteq users',
         \A s \in Request : s \in users \cup accounts => job'[s] = job[s]
  PROVE  /\ \A u \in users : NameOf(u)' = NameOf(u)
         /\ \A a \in accounts : OwnerOf(a)' = OwnerOf(a)
         /\ \A n \in Username : NameTaken(n) => NameTaken(n)'
<1>1. users \subseteq Request \cup {Boot} /\ accounts \subseteq Request \cup {Boot}
  BY DEF IInv, TypeOK, Creator
<1>2. \A u \in users : NameOf(u)' = NameOf(u)
  BY <1>1 DEF NameOf
<1>3. \A a \in accounts : OwnerOf(a)' = OwnerOf(a)
  BY <1>1 DEF OwnerOf
<1> QED
  BY <1>2, <1>3 DEF NameTaken

(* Who had no money but what came late has no more, where the accounts     *)
(* stay as they are.                                                       *)
LEMMA MoneyKept ==
  ASSUME IInv, TypeOK', users \subseteq users', UNCHANGED <<accounts, closed, balance>>,
         \A s \in Request : s \in users \cup accounts => job'[s] = job[s]
  PROVE  \A u : Total(u)' = Total(u)
<1>1. \A a \in accounts : OwnerOf(a)' = OwnerOf(a)
  BY RowsKept
<1>2. \A u : AccountsOf(u)' = AccountsOf(u)
  BY <1>1 DEF AccountsOf
<1> QED
  BY <1>2, TotalKept

-----------------------------------------------------------------------------
(***************************************************************************)
(* A step of request r, told by what it may do to the rows of others.      *)
(***************************************************************************)

(* Nobody that has had nothing but late money comes to have other money.   *)
MoneyStep ==
  \A u \in Creator : (Total(u) > 0 => u \in touched) => (Total(u)' > 0 => u \in touched')

OnlyRowsOf(r) ==
  /\ users \subseteq users' /\ users' \subseteq users \cup {r}
  /\ accounts \subseteq accounts' /\ accounts' \subseteq accounts \cup {r}
  /\ collided \subseteq collided' /\ collided' \subseteq collided \cup {r}
  /\ \A s \in Request \ {r} : job'[s] = job[s]
  /\ job'[r] = job[r] \/ r \notin users \cup accounts

LEMMA OthersKept ==
  ASSUME IInv, TypeOK', NEW r \in Creator, OnlyRowsOf(r), MoneyStep,
         faults' = 0 => faults = 0, NEW s \in Request \ {r}, pc'[s] = pc[s]
  PROVE  RequestInv(s)'
<1>1. /\ RequestInv(s) /\ job'[s] = job[s] /\ job[s].name \in Username /\ job[s].on \in Creator
      /\ s \in users' <=> s \in users
      /\ s \in accounts' <=> s \in accounts
      /\ s \in collided' <=> s \in collided
      /\ users \subseteq users' /\ accounts \subseteq accounts'
  BY DEF IInv, TypeOK, OnlyRowsOf
<1>2. \A n \in Username : NameTaken(n) => NameTaken(n)'
  BY RowsKept DEF OnlyRowsOf
<1>3. Awaits(s, pc[s])' /\ HasRows(s, pc[s])'
  BY <1>1 DEF RequestInv, Awaits, HasRows, Opens
<1>4. Refers(s, pc[s])'
  BY <1>1, <1>2 DEF RequestInv, Refers, MoneyStep
<1>5. Explains(s, pc[s])'
  BY <1>1, <1>2 DEF RequestInv, Explains
<1> QED
  BY <1>3, <1>4, <1>5 DEF RequestInv

LEMMA Step ==
  ASSUME IInv, TypeOK', NEW r \in Request, NEW next, Runs(r, next),
         start = "listening", start' = start, granted' = granted,
         faults' = 0 => faults = 0, ~connected' => faults' # 0,
         OnlyRowsOf(r), MoneyStep,
         r \in users' => r \in users \/ (job'[r] = job[r] /\ ~NameTaken(job[r].name)),
         \A u \in deactivated' : u \in deactivated \/ (Total(u) > 0 => u \in touched),
         RequestInv(r)'
  PROVE  IInv'
<1>1. \A s \in Request \ {r} : pc'[s] = pc[s]
  BY DEF Runs, IInv, TypeOK
<1>2. \A s \in Request : RequestInv(s)'
  <2>1. r \in Creator
    BY DEF Creator
  <2> QED
    BY <1>1, <2>1, OthersKept
<1>3. BootInv'
  <2>1. r # Boot /\ Boot \in users /\ (faults = 0 => granted /\ Boot \in accounts)
    BY NamesAssumption DEF IInv, BootInv
  <2> QED
    BY <2>1 DEF BootInv, OnlyRowsOf
<1>4. NamesInv'
  <2>1. \A u \in users : NameOf(u)' = NameOf(u)
    BY RowsKept DEF OnlyRowsOf
  <2>2. CASE r \in users \/ r \notin users'
    BY <2>1, <2>2 DEF NamesInv, IInv, OnlyRowsOf
  <2>3. CASE r \in users' /\ r \notin users
    <3>1. job'[r] = job[r] /\ ~NameTaken(job[r].name)
      BY <2>3
    <3>2. NameOf(r)' = job[r].name
      BY <3>1, NamesAssumption DEF NameOf
    <3>3. \A u \in users : NameOf(u)' # NameOf(r)'
      BY <2>1, <3>1, <3>2 DEF NameTaken
    <3> QED
      BY <2>1, <3>3 DEF NamesInv, IInv, OnlyRowsOf
  <2> QED
    BY <2>2, <2>3
<1>5. DeactivatedHadNothing'
  BY DEF DeactivatedHadNothing, IInv, TypeOK, MoneyStep
<1> QED
  BY <1>2, <1>3, <1>4, <1>5 DEF IInv, Runs

(* A request that failed with the connection keeps what it has inserted.   *)
LEMMA LostFits ==
  ASSUME IInv, NEW r \in Request, pc[r] \notin Ended
  PROVE  Awaits(r, "500") /\ Refers(r, "500") /\ HasRows(r, "500")
BY DEF IInv, RequestInv, Awaits, Refers, HasRows

(* What the connection does when r's statement has been served: r goes on, *)
(* or has lost the answer.                                                 *)
Outcome(r, said, next) ==
  /\ Runs(r, said) /\ said \in {next, "500"}
  /\ pc' \in [Request -> Label] /\ pc'[r] = said
  /\ faults' \in 0..MaxFaults /\ (faults' = 0 => faults = 0 /\ said = next)
  /\ connected' \in BOOLEAN /\ (~connected' => faults' # 0)

LEMMA OutcomeOf ==
  ASSUME IInv, NEW r \in Request, NEW next \in Label,
         \/ Runs(r, next) /\ UNCHANGED <<connected, faults>>
         \/ Runs(r, "500") /\ Faulted
  PROVE  \E said : Outcome(r, said, next)
<1>1. /\ faults \in 0..MaxFaults /\ connected \in BOOLEAN /\ (~connected => faults # 0)
      /\ MaxFaults \in Nat
  BY FaultsAssumption DEF IInv, TypeOK
<1>2. \A said \in Label : Runs(r, said) => pc' \in [Request -> Label] /\ pc'[r] = said
  BY DEF Runs, IInv, TypeOK
<1>3. CASE Runs(r, next) /\ UNCHANGED <<connected, faults>>
  <2>1. Outcome(r, next, next)
    BY <1>1, <1>2, <1>3 DEF Outcome
  <2> QED
    BY <2>1
<1>4. CASE Runs(r, "500") /\ Faulted
  <2>1. connected' = FALSE /\ faults' \in 1..MaxFaults
    BY <1>4 DEF Faulted
  <2>2. faults' \in 0..MaxFaults /\ faults' # 0
    BY <1>1, <2>1
  <2>3. connected' \in BOOLEAN
    BY <2>1
  <2>4. "500" \in Label
    BY DEF Label
  <2>5. Outcome(r, "500", next)
    BY <1>2, <1>4, <2>2, <2>3, <2>4 DEF Outcome
  <2> QED
    BY <2>5
<1> QED
  BY <1>3, <1>4

(* A statement of r that has its answer, or loses it.                      *)
LEMMA ServedOutcome ==
  ASSUME IInv, NEW r \in Request, NEW at \in Statement, NEW next \in Label,
         Executes(r, at), Replies(r, next)
  PROVE  /\ \/ Runs(r, next) /\ UNCHANGED <<connected, faults>>
            \/ Runs(r, "500") /\ Faulted
         /\ \E said : Outcome(r, said, next)
         /\ start = "listening" /\ pc[r] = at /\ at \notin Ended \cup {"idle"}
<1>1. Served(r) /\ pc[r] = at /\ at \notin Ended \cup {"idle"}
  BY DEF Executes, Statement
<1>2. \/ Runs(r, next) /\ UNCHANGED <<connected, faults>>
      \/ Runs(r, "500") /\ Faulted
  BY <1>1, RepliesRuns, Connected, FaultsAssumption
<1>3. \E said : Outcome(r, said, next)
  BY <1>2, OutcomeOf
<1>4. start = "listening"
  BY <1>1 DEF IInv, BootInv
<1> QED
  BY <1>1, <1>2, <1>3, <1>4

(* A step that leaves the tables alone.                                    *)
LEMMA QuietStep ==
  ASSUME IInv, NEW r \in Request, NEW next \in Label, pc[r] \notin Ended \cup {"idle"},
         \/ Runs(r, next) /\ UNCHANGED <<connected, faults>>
         \/ Runs(r, "500") /\ Faulted,
         UNCHANGED <<start, job, tables, history>>,
         Awaits(r, next), Refers(r, next), HasRows(r, next), Explains(r, next)
  PROVE  IInv'
<1> PICK said : Outcome(r, said, next)
  BY OutcomeOf
<1>1. /\ UNCHANGED <<users, accounts, balance, deactivated, closed, roles, granted, collided, touched, job>>
      /\ pc'[r] = said /\ (faults' = 0 => faults = 0 /\ said = next)
      /\ (~connected' => faults' # 0) /\ Runs(r, said) /\ start' = start
  BY DEF tables, history, Outcome
<1>2. TypeOK'
  BY <1>1 DEF IInv, TypeOK, Runs, Outcome
<1>3. OnlyRowsOf(r)
  BY <1>1 DEF OnlyRowsOf
<1>4. \A u : Total(u)' = Total(u)
  BY <1>1, <1>2, MoneyKept
<1>5. MoneyStep
  BY <1>1, <1>4 DEF MoneyStep
<1>6. start = "listening"
  BY DEF IInv, BootInv
<1>7. Awaits(r, said) /\ Refers(r, said) /\ HasRows(r, said) /\ (faults' = 0 => Explains(r, said))
  BY <1>1, LostFits DEF Outcome
<1>8. \A n \in Username : NameTaken(n) => NameTaken(n)'
  BY <1>1, <1>2, RowsKept
<1>9. RequestInv(r)'
  <2>1. Awaits(r, pc[r])' /\ HasRows(r, pc[r])'
    BY <1>1, <1>7 DEF Awaits, HasRows, Opens
  <2>2. Refers(r, pc[r])'
    BY <1>1, <1>4, <1>7, <1>8 DEF Refers, IInv, TypeOK
  <2>3. Explains(r, pc[r])'
    BY <1>1, <1>7, <1>8 DEF Explains, IInv, TypeOK
  <2> QED
    BY <2>1, <2>2, <2>3 DEF RequestInv
<1> QED
  BY <1>1, <1>2, <1>3, <1>5, <1>6, <1>9, Step

-----------------------------------------------------------------------------
(***************************************************************************)
(* The statements that only read, and those that fail.                     *)
(***************************************************************************)
LEMMA AtRequest ==
  ASSUME IInv, NEW r \in Request
  PROVE  /\ RequestInv(r) /\ r \in Creator /\ r # Boot /\ pc[r] \in Label
         /\ job[r].name \in Username /\ job[r].on \in Creator /\ job[r].kind \in Kind
BY NamesAssumption DEF IInv, TypeOK, Creator

LEMMA ReadsStep ==
  ASSUME IInv, NEW r \in Request, NEW at \in Statement, NEW next \in Label, Reads(r, at, next),
         Awaits(r, next), Refers(r, next), HasRows(r, next), Explains(r, next)
  PROVE  IInv'
<1>1. UNCHANGED <<start, job, tables, history>> /\ Executes(r, at) /\ Replies(r, next)
  BY DEF Reads
<1> QED
  BY <1>1, ServedOutcome, QuietStep

LEMMA RegistrationReadsPreserve ==
  ASSUME IInv, NEW r \in Request,
         LookUp(r) \/ LookUpAccounts(r) \/ HashPassword(r) \/ Answer(r)
  PROVE  IInv'
<1> USE DEF RequestInv, Awaits, Refers, HasRows, Explains, Opens
<1>1. \A at : Executes(r, at) => pc[r] = at
  BY DEF Executes
<1>2. CASE LookUp(r)
  <2> PICK next \in {"lookupAccounts", "bcrypt"} :
        Reads(r, "lookup", next) /\ (next = "lookupAccounts" => NameTaken(job[r].name))
    BY <1>2 DEF LookUp
  <2>1. pc[r] = "lookup" /\ "lookup" \in Statement /\ next \in Label
    BY <1>1 DEF Reads, Statement, Label
  <2>2. Awaits(r, next) /\ Refers(r, next) /\ HasRows(r, next) /\ Explains(r, next)
    BY <2>1, AtRequest
  <2> QED
    BY <2>1, <2>2, ReadsStep
<1>3. CASE LookUpAccounts(r)
  <2>1. pc[r] = "lookupAccounts" /\ "lookupAccounts" \in Statement /\ "409" \in Label
    BY <1>1, <1>3 DEF LookUpAccounts, Reads, Statement, Label
  <2>2. Awaits(r, "409") /\ Refers(r, "409") /\ HasRows(r, "409") /\ Explains(r, "409")
    BY <2>1, AtRequest
  <2> QED
    BY <1>3, <2>1, <2>2, ReadsStep DEF LookUpAccounts
<1>4. CASE HashPassword(r)
  <2> DEFINE next == "insertUser"
  <2>1. /\ pc[r] = "bcrypt" /\ next \in Label /\ Joins(r, next)
        /\ UNCHANGED <<start, job, tables, history>>
    BY <1>4 DEF HashPassword, Label, Statement
  <2>2. Runs(r, next) /\ UNCHANGED <<connected, faults>>
    BY <2>1, JoinsRuns, Connected
  <2>3. Awaits(r, next) /\ Refers(r, next) /\ HasRows(r, next) /\ Explains(r, next)
    BY <2>1, AtRequest
  <2> QED
    BY <2>1, <2>2, <2>3, QuietStep
<1>5. CASE Answer(r)
  <2> PICK at \in {"rereadUser", "rereadAccounts", "rereadAccount"},
           next \in {"rereadAccounts", "201"} :
        Reads(r, at, next) /\ (at = "rereadUser" <=> next = "rereadAccounts")
    BY <1>5 DEF Answer
  <2>1. pc[r] = at /\ at \in Statement /\ next \in Label
    BY <1>1 DEF Reads, Statement, Label
  <2>2. Awaits(r, next) /\ Refers(r, next) /\ HasRows(r, next) /\ Explains(r, next)
    BY <2>1, AtRequest
  <2> QED
    BY <2>1, <2>2, ReadsStep
<1> QED
  BY <1>2, <1>3, <1>4, <1>5

(* Who is refused a username is refused it for somebody else's sake.       *)
LEMMA FailurePreserves ==
  ASSUME IInv, NEW r \in Request, UserRefused(r) \/ AuditRefused(r) \/ ConnectionGone(r)
  PROVE  IInv'
<1>1. /\ Runs(r, "500") /\ pc[r] \notin OffQueue /\ UNCHANGED <<connected, faults>>
      /\ UNCHANGED <<start, job, tables, history>>
      /\ \/ faults # 0
         \/ pc[r] = "audit"
         \/ pc[r] = "insertUser" /\ NameTaken(job[r].name)
  BY RejectedRuns, BrokenRuns, Connected DEF UserRefused, AuditRefused, ConnectionGone, Fits
<1>2. Awaits(r, "500") /\ Refers(r, "500") /\ HasRows(r, "500")
  BY <1>1, LostFits
<1>3. Explains(r, "500")
  BY <1>1, AtRequest DEF Explains, RequestInv, Awaits, HasRows, Opens
<1>4. "500" \in Label
  BY DEF Label
<1> QED
  BY <1>1, <1>2, <1>3, <1>4, QuietStep

LEMMA MaintenanceReadsPreserve ==
  ASSUME IInv, NEW r \in Request, FindActive(r) \/ FindAccount(r)
  PROVE  IInv'
<1> USE DEF RequestInv, Awaits, Refers, HasRows, Explains, Opens
<1>1. PICK at \in {"findActive", "findAccount"}, next \in {"sum", "500"} :
        /\ Reads(r, at, next)
        /\ next = "sum" => at = "findActive" /\ job[r].on \in users
  BY DEF FindActive, FindAccount, AfterCompare, FromDriver, Zero
<1>2. pc[r] = at /\ at \in Statement /\ next \in Label
  BY <1>1 DEF Reads, Executes, Statement, Label
<1>3. Awaits(r, next) /\ Refers(r, next) /\ HasRows(r, next) /\ Explains(r, next)
  BY <1>1, <1>2, AtRequest
<1> QED
  BY <1>1, <1>2, <1>3, ReadsStep

-----------------------------------------------------------------------------
(***************************************************************************)
(* The statements that write.                                              *)
(***************************************************************************)

(* The owner of the account that changes is known to have late money.      *)
LEMMA MoneyChanged ==
  ASSUME IInv, TypeOK', NEW a \in Creator, job' = job, closed' = closed, users \subseteq users',
         accounts' = accounts \cup {a}, touched' = touched \cup {OwnerOf(a)},
         \A b \in Creator \ {a} : balance'[b] = balance[b]
  PROVE  MoneyStep
<1>1. \A b : OwnerOf(b)' = OwnerOf(b)
  BY DEF OwnerOf
<1>2. ASSUME NEW u \in Creator, u # OwnerOf(a) PROVE Total(u)' = Total(u)
  <2>1. AccountsOf(u)' = AccountsOf(u) /\ a \notin AccountsOf(u)
    BY <1>1, <1>2 DEF AccountsOf
  <2>2. \A b \in AccountsOf(u) : balance'[b] = balance[b]
    BY <2>1 DEF AccountsOf, IInv, TypeOK
  <2> QED
    BY <2>1, <2>2, TotalKept
<1> QED
  BY <1>2 DEF MoneyStep

LEMMA SameMoney ==
  ASSUME IInv, TypeOK', users \subseteq users', UNCHANGED <<accounts, closed, balance, job>>,
         touched' = touched
  PROVE  MoneyStep
<1>1. \A u : Total(u)' = Total(u)
  BY MoneyKept
<1> QED
  BY <1>1 DEF MoneyStep

LEMMA InsertUserPreserves ==
  ASSUME IInv, NEW r \in Request, InsertUser(r)
  PROVE  IInv'
<1>1. /\ Executes(r, "insertUser") /\ Replies(r, "insertAccount") /\ ~NameTaken(job[r].name)
      /\ users' = users \cup {r}
      /\ UNCHANGED <<start, job, accounts, balance, deactivated, closed, roles, granted, collided, touched>>
  BY DEF InsertUser, Fits, history
<1>2. "insertUser" \in Statement /\ "insertAccount" \in Label
  BY DEF Statement, Label
<1> PICK said : Outcome(r, said, "insertAccount")
  BY <1>1, <1>2, ServedOutcome
<1>3. start = "listening" /\ pc[r] = "insertUser" /\ job[r].kind = "register"
  BY <1>1, <1>2, ServedOutcome, AtRequest DEF RequestInv, Awaits
<1>4. TypeOK'
  BY <1>1, AtRequest DEF IInv, TypeOK, Outcome, Runs
<1>5. OnlyRowsOf(r) /\ MoneyStep
  BY <1>1, <1>4, SameMoney DEF OnlyRowsOf
<1>6. RequestInv(r)'
  <2>1. RequestInv(r) /\ pc'[r] = said /\ said \in {"insertAccount", "500"}
    BY AtRequest DEF Outcome
  <2>2. Awaits(r, said)' /\ Refers(r, said)' /\ HasRows(r, said)'
    BY <1>1, <1>3, <2>1 DEF RequestInv, Awaits, Refers, HasRows, Opens
  <2>3. Explains(r, said)'
    BY <2>1 DEF Explains, Outcome
  <2> QED
    BY <2>1, <2>2, <2>3 DEF RequestInv
<1> QED
  BY <1>1, <1>3, <1>4, <1>5, <1>6, Step DEF Outcome

LEMMA InsertAccountPreserves ==
  ASSUME IInv, NEW r \in Request, InsertAccount(r)
  PROVE  IInv'
<1> DEFINE next == Rereads(job[r].kind)
<1>1. /\ Executes(r, "insertAccount") /\ Replies(r, next)
      /\ accounts' = accounts \cup {r} /\ balance' = [balance EXCEPT ![r] = Welcome]
      /\ touched' = touched \cup {OwnerOf(r)}
      /\ UNCHANGED <<start, job, users, deactivated, closed, roles, granted, collided>>
  BY DEF InsertAccount, OpensAccount
<1>2. /\ "insertAccount" \in Statement /\ next \in Label /\ next \in {"rereadUser", "rereadAccount"}
      /\ next = "rereadUser" <=> job[r].kind = "register"
  BY DEF Statement, Label, Rereads
<1> HIDE DEF next
<1> PICK said : Outcome(r, said, next)
  BY <1>1, <1>2, ServedOutcome
<1>3. start = "listening" /\ pc[r] = "insertAccount" /\ Opens(r)
  BY <1>1, <1>2, ServedOutcome, AtRequest DEF RequestInv, Awaits
<1>4. TypeOK'
  <2>1. OwnerOf(r) \in Creator /\ r \in Creator
    BY AtRequest DEF OwnerOf
  <2>2. balance' \in [Creator -> Int]
    BY <1>1, <2>1, FundsAssumption DEF IInv, TypeOK
  <2> QED
    BY <1>1, <2>1, <2>2 DEF IInv, TypeOK, Outcome, Runs
<1>5. OnlyRowsOf(r) /\ MoneyStep
  <2>1. r \in Creator /\ \A b \in Creator \ {r} : balance'[b] = balance[b]
    BY <1>1, AtRequest DEF IInv, TypeOK
  <2> QED
    BY <1>1, <1>4, <2>1, MoneyChanged DEF OnlyRowsOf
<1>6. RequestInv(r)'
  <2>1. RequestInv(r) /\ pc'[r] = said /\ said \in {next, "500"}
    BY AtRequest DEF Outcome
  <2>2. Awaits(r, said)' /\ Refers(r, said)' /\ HasRows(r, said)'
    BY <1>1, <1>2, <1>3, <2>1 DEF RequestInv, Awaits, Refers, HasRows, Opens
  <2>3. Explains(r, said)'
    BY <1>2, <2>1 DEF Explains, Outcome
  <2> QED
    BY <2>1, <2>2, <2>3 DEF RequestInv
<1> QED
  BY <1>1, <1>3, <1>4, <1>5, <1>6, Step DEF Outcome

LEMMA NumberTakenPreserves ==
  ASSUME IInv, NEW r \in Request, NumberTaken(r)
  PROVE  IInv'
<1>1. /\ Runs(r, "500") /\ pc[r] = "insertAccount" /\ UNCHANGED <<connected, faults>>
      /\ collided' = collided \cup {r}
      /\ UNCHANGED <<start, job, users, accounts, balance, deactivated, closed, roles, granted, touched>>
  BY RejectedRuns, Connected DEF NumberTaken, tables
<1>2. /\ start = "listening" /\ (~connected => faults # 0) /\ r \notin accounts /\ Opens(r)
      /\ RequestInv(r)
  BY <1>1, AtRequest DEF IInv, BootInv, RequestInv, HasRows, Awaits
<1>3. TypeOK' /\ pc'[r] = "500"
  BY <1>1 DEF IInv, TypeOK, Runs, Label
<1>4. OnlyRowsOf(r) /\ MoneyStep
  BY <1>1, <1>3, SameMoney DEF OnlyRowsOf
<1>5. RequestInv(r)'
  BY <1>1, <1>2, <1>3 DEF RequestInv, Awaits, Refers, HasRows, Opens, Explains
<1> QED
  BY <1>1, <1>2, <1>3, <1>4, <1>5, Step

LEMMA PayPreserves ==
  ASSUME IInv, NEW r \in Request, Pay(r)
  PROVE  IInv'
<1> DEFINE a == job[r].on
<1>1. PICK d \in Payment : balance' = [balance EXCEPT ![a] = @ + d]
  BY DEF Pay
<1>2. /\ Executes(r, "pay") /\ Replies(r, "200") /\ touched' = touched \cup {OwnerOf(a)}
      /\ UNCHANGED <<start, job, users, accounts, deactivated, closed, roles, granted, collided>>
      /\ "pay" \in Statement /\ "200" \in Label
  BY DEF Pay, Statement, Label
<1> PICK said : Outcome(r, said, "200")
  BY <1>2, ServedOutcome
<1>3. start = "listening" /\ pc[r] = "pay" /\ job[r].kind = "pay" /\ a \in accounts /\ RequestInv(r)
  BY <1>2, ServedOutcome, AtRequest DEF RequestInv, Awaits, Refers
<1>4. a \in Creator /\ OwnerOf(a) \in Creator
  BY AtRequest DEF OwnerOf, Creator, IInv, TypeOK
<1> HIDE DEF a
<1>5. TypeOK'
  <2>1. balance[a] + d \in Int
    BY <1>4, PaymentAssumption DEF IInv, TypeOK
  <2>2. balance' \in [Creator -> Int]
    BY <1>1, <2>1 DEF IInv, TypeOK
  <2> QED
    BY <1>2, <1>4, <2>2 DEF IInv, TypeOK, Outcome, Runs
<1>6. OnlyRowsOf(r) /\ MoneyStep
  <2>1. \A b \in Creator \ {a} : balance'[b] = balance[b]
    BY <1>1 DEF IInv, TypeOK
  <2>2. accounts' = accounts \cup {a} /\ job' = job
    BY <1>2, <1>3
  <2> QED
    BY <1>2, <1>4, <1>5, <2>1, <2>2, MoneyChanged DEF OnlyRowsOf
<1>7. RequestInv(r)'
  <2>1. RequestInv(r) /\ pc'[r] = said /\ said \in {"200", "500"}
    BY AtRequest DEF Outcome
  <2>2. Awaits(r, said)' /\ Refers(r, said)' /\ HasRows(r, said)'
    BY <1>2, <1>3, <2>1 DEF RequestInv, Awaits, Refers, HasRows, Opens
  <2>3. Explains(r, said)'
    BY <2>1 DEF Explains, Outcome
  <2> QED
    BY <2>1, <2>2, <2>3 DEF RequestInv
<1> QED
  BY <1>2, <1>3, <1>5, <1>6, <1>7, Step DEF Outcome

(* The total that lets a call go on lets it go on until late money comes.  *)
LEMMA SumBalancesPreserves ==
  ASSUME IInv, NEW r \in Request, SumBalances(r)
  PROVE  IInv'
<1> DEFINE u == job[r].on
<1> PICK next \in {"500", "softDelete"} :
           /\ next = AfterSum(u)
           /\ next = "softDelete" <=> ~(Total(u) > 0)
  BY DEF AfterSum
<1>1. /\ Executes(r, "sum") /\ Replies(r, next)
      /\ touched' = IF next = "softDelete" THEN touched \ {u} ELSE touched
      /\ UNCHANGED <<start, job, users, accounts, balance, deactivated, closed, roles, granted, collided>>
      /\ "sum" \in Statement /\ next \in Label
  BY DEF SumBalances, Statement, Label, tables
<1> PICK said : Outcome(r, said, next)
  BY <1>1, ServedOutcome
<1>2. start = "listening" /\ pc[r] = "sum" /\ job[r].kind = "deactivate" /\ RequestInv(r)
  BY <1>1, ServedOutcome, AtRequest DEF RequestInv, Awaits
<1>3. TypeOK'
  BY <1>1 DEF IInv, TypeOK, Outcome, Runs
<1>4. \A v : Total(v)' = Total(v)
  BY <1>1, <1>3, MoneyKept
<1>5. MoneyStep
  BY <1>1, <1>4 DEF MoneyStep
<1>6. OnlyRowsOf(r)
  BY <1>1 DEF OnlyRowsOf
<1>7. RequestInv(r)'
  <2>1. pc'[r] = said /\ said \in {next, "500"} /\ Total(u)' = Total(u) /\ u' = u
    BY <1>1, <1>4 DEF Outcome
  <2>2. Awaits(r, said)' /\ Refers(r, said)' /\ HasRows(r, said)'
    BY <1>1, <1>2, <2>1 DEF RequestInv, Awaits, Refers, HasRows, Opens
  <2>3. Explains(r, said)'
    BY <1>1, <1>2, <2>1 DEF Explains, Outcome, RequestInv, HasRows, Opens
  <2> QED
    BY <2>1, <2>2, <2>3 DEF RequestInv
<1> QED
  BY <1>1, <1>2, <1>3, <1>5, <1>6, <1>7, Step DEF Outcome

LEMMA SoftDeletePreserves ==
  ASSUME IInv, NEW r \in Request, SoftDelete(r)
  PROVE  IInv'
<1>1. /\ Executes(r, "softDelete") /\ Replies(r, "audit")
      /\ "softDelete" \in Statement /\ "audit" \in Label
  BY DEF SoftDelete, Statement, Label
<1> PICK said : Outcome(r, said, "audit")
  BY <1>1, ServedOutcome
<1>2. /\ start = "listening" /\ pc[r] = "softDelete" /\ job[r].kind = "deactivate" /\ RequestInv(r)
      /\ job[r].on \in users /\ (Total(job[r].on) > 0 => job[r].on \in touched)
  BY <1>1, ServedOutcome, AtRequest DEF RequestInv, Awaits, Refers
<1>3. /\ deactivated' = deactivated \cup {job[r].on}
      /\ UNCHANGED <<start, job, users, accounts, balance, closed, roles, granted, collided, touched>>
  BY <1>2 DEF SoftDelete, Marked, history
<1>4. TypeOK'
  BY <1>1, <1>2, <1>3 DEF IInv, TypeOK, Outcome, Runs
<1>5. OnlyRowsOf(r) /\ MoneyStep
  BY <1>3, <1>4, SameMoney DEF OnlyRowsOf
<1>6. RequestInv(r)'
  <2>1. pc'[r] = said /\ said \in {"audit", "500"}
    BY DEF Outcome
  <2>2. Awaits(r, said)' /\ Refers(r, said)' /\ HasRows(r, said)'
    BY <1>2, <1>3, <2>1 DEF RequestInv, Awaits, Refers, HasRows, Opens
  <2>3. Explains(r, said)'
    BY <2>1 DEF Explains, Outcome
  <2> QED
    BY <2>1, <2>2, <2>3 DEF RequestInv
<1>7. \A v \in deactivated' : v \in deactivated \/ (Total(v) > 0 => v \in touched)
  BY <1>2, <1>3
<1> QED
  BY <1>2, <1>3, <1>4, <1>5, <1>6, <1>7, Step DEF Outcome

-----------------------------------------------------------------------------
(***************************************************************************)
(* Requests arrive.                                                        *)
(***************************************************************************)
LEMMA AsksStep ==
  ASSUME IInv, NEW r \in Request, NEW kind \in Kind, NEW n \in Username, NEW c \in Creator,
         NEW next \in Label, Asks(r, kind, n, c, next),
         \/ kind = "refused" /\ next = "400"
         \/ kind = "register" /\ next = "lookup"
         \/ kind = "open" /\ next = "insertAccount" /\ c \in users
         \/ kind = "pay" /\ next = "pay" /\ c \in accounts
         \/ kind = "deactivate" /\ next = "findActive"
         \/ kind = "close" /\ next = "findAccount"
  PROVE  IInv'
<1>1. /\ pc[r] = "idle" /\ start = "listening" /\ UNCHANGED <<start, tables, history>>
      /\ job' = [job EXCEPT ![r] = [kind |-> kind, name |-> n, on |-> c]]
  BY DEF Asks, Listening
<1>2. Runs(r, next) /\ UNCHANGED <<connected, faults>>
  BY <1>1, JoinsRuns, Connected DEF Asks
<1>3. /\ UNCHANGED <<users, accounts, balance, deactivated, closed, roles, granted, collided, touched>>
      /\ pc' \in [Request -> Label] /\ pc'[r] = next
      /\ job' \in [Request -> [kind: Kind, name: Username, on: Creator]]
      /\ job'[r] = [kind |-> kind, name |-> n, on |-> c]
      /\ \A s \in Request \ {r} : job'[s] = job[s]
      /\ (~connected => faults # 0)
  BY <1>1, <1>2 DEF Runs, IInv, TypeOK, tables, history
<1>4. r \notin users /\ r \notin accounts /\ r \notin collided
  BY <1>1, AtRequest DEF RequestInv, HasRows
<1>5. TypeOK'
  BY <1>1, <1>2, <1>3 DEF IInv, TypeOK, Runs
<1>6. OnlyRowsOf(r)
  BY <1>3, <1>4 DEF OnlyRowsOf
<1>7. MoneyStep
  <2>1. \A u : Total(u)' = Total(u)
    BY <1>3, <1>4, <1>5, MoneyKept
  <2> QED
    BY <1>3, <2>1 DEF MoneyStep
<1>8. RequestInv(r)'
  BY <1>2, <1>3, <1>4 DEF RequestInv, Awaits, Refers, HasRows, Opens, Explains
<1> QED
  BY <1>1, <1>2, <1>3, <1>4, <1>5, <1>6, <1>7, <1>8, Step

LEMMA ArrivalPreserves ==
  ASSUME IInv, NEW r \in Request, Arrive(r)
  PROVE  IInv'
<1>1. Admin \in Username /\ Boot \in Creator /\ Statement \subseteq Label /\ "400" \in Label
  BY NamesAssumption DEF Creator, Label
<1>2. CASE AskNothing(r)
  BY <1>1, <1>2, AsksStep DEF AskNothing, Kind
<1>3. ASSUME NEW n \in Username, AskRegister(r, n) PROVE IInv'
  BY <1>1, <1>3, AsksStep DEF AskRegister, Kind, Statement
<1>4. ASSUME NEW c \in Creator, AskOpen(r, c) PROVE IInv'
  BY <1>1, <1>4, AsksStep DEF AskOpen, Kind, Statement
<1>5. ASSUME NEW c \in Creator, AskPay(r, c) PROVE IInv'
  BY <1>1, <1>5, AsksStep DEF AskPay, Kind, Statement
<1>6. ASSUME NEW c \in Creator, AskDeactivate(r, c) PROVE IInv'
  BY <1>1, <1>6, AsksStep DEF AskDeactivate, Kind, Statement
<1>7. ASSUME NEW c \in Creator, AskClose(r, c) PROVE IInv'
  BY <1>1, <1>7, AsksStep DEF AskClose, Kind, Statement
<1> QED
  BY <1>2, <1>3, <1>4, <1>5, <1>6, <1>7 DEF Arrive

-----------------------------------------------------------------------------
(***************************************************************************)
(* The process starts and stops.                                           *)
(***************************************************************************)
LEMMA BootStep ==
  ASSUME IInv, TypeOK', UNCHANGED <<pc, queue, faults, job, deactivated, closed, collided>>,
         users \subseteq users', users' \subseteq users \cup {Boot},
         accounts \subseteq accounts', accounts' \subseteq accounts \cup {Boot},
         users' # users => users = {},
         MoneyStep, ~connected' => ~connected, BootInv'
  PROVE  IInv'
<1>1. Boot \in Creator /\ Boot \notin Request
  BY NamesAssumption DEF Creator
<1>2. OnlyRowsOf(Boot)
  BY DEF OnlyRowsOf
<1>3. \A s \in Request : RequestInv(s)'
  BY <1>1, <1>2, OthersKept
<1>4. NamesInv'
  <2>1. CASE users' = users
    <3>1. \A u \in users : NameOf(u)' = NameOf(u)
      BY DEF NameOf
    <3> QED
      BY <2>1, <3>1 DEF NamesInv, IInv
  <2>2. CASE users' # users
    BY <2>2 DEF NamesInv
  <2> QED
    BY <2>1, <2>2
<1>5. DeactivatedHadNothing'
  BY DEF DeactivatedHadNothing, IInv, TypeOK, MoneyStep
<1>6. QueueInv'
  BY DEF IInv, QueueInv
<1> QED
  BY <1>3, <1>4, <1>5, <1>6 DEF IInv

LEMMA StartPreserves ==
  ASSUME IInv, Start
  PROVE  IInv'
<1> USE DEF BootInv
<1>1. TypeOK /\ BootInv /\ (~connected => faults # 0)
  BY DEF IInv
<1>2. /\ Boots("createTables", "countRoles") => start = "createTables"
      /\ \A at, next : Boots(at, next) =>
           /\ start = at /\ start' = next
           /\ UNCHANGED <<pc, queue, connected, faults, job>>
  BY DEF Boots, connection
<1>3. ASSUME UNCHANGED <<pc, queue, faults, job, users, accounts, balance, deactivated, closed, history>>,
             connected' = connected \/ connected' = TRUE,
             roles' \in BOOLEAN, granted' \in BOOLEAN,
             start' \in Starting \cup {"stopped", "listening"}, BootInv'
      PROVE  IInv'
  <2>1. UNCHANGED <<collided, touched>>
    BY <1>3 DEF history
  <2>2. TypeOK'
    BY <1>1, <1>3, <2>1 DEF TypeOK
  <2>3. MoneyStep
    BY <1>3, <2>1, <2>2, SameMoney
  <2> QED
    BY <1>3, <2>1, <2>2, <2>3, BootStep
<1>4. CASE \/ Starts \/ CreateTables \/ CountRoles \/ InsertRoles \/ CountAdmin \/ HashAdmin
           \/ InsertRole \/ ExitsOnFailure
  <2>1. /\ UNCHANGED <<pc, queue, faults, job, users, accounts, balance, deactivated, closed, history>>
        /\ connected' = connected \/ connected' = TRUE
    BY <1>2, <1>4 DEF Starts, CreateTables, CountRoles, InsertRoles, CountAdmin, HashAdmin,
       InsertRole, ExitsOnFailure, tables, history, connection
  <2>2. /\ start' \in Starting \cup {"stopped", "listening"}
        /\ roles' \in BOOLEAN /\ granted' \in BOOLEAN
    BY <1>1, <1>2, <1>4 DEF Starts, CreateTables, CountRoles, InsertRoles, CountAdmin, HashAdmin,
       InsertRole, ExitsOnFailure, tables, AfterCount, TypeOK, Starting
  <2>3. NameTaken(Admin) => Boot \in users
    BY <1>1 DEF NameTaken
  <2>4. Boot \in users => NameTaken(Admin)
    BY DEF NameTaken, NameOf
  <2>5. CASE Starts \/ CreateTables \/ CountRoles \/ InsertRoles \/ HashAdmin
    <3>1. BootInv'
      BY <1>1, <1>2, <2>1, <2>5 DEF Starts, CreateTables, CountRoles, InsertRoles, HashAdmin,
         tables, Starting
    <3> QED
      BY <1>3, <2>1, <2>2, <3>1
  <2>6. CASE CountAdmin
    <3>1. BootInv'
      BY <1>1, <1>2, <2>1, <2>3, <2>4, <2>6 DEF CountAdmin, AfterCount, tables, Starting
    <3> QED
      BY <1>3, <2>1, <2>2, <3>1
  <2>7. CASE InsertRole \/ ExitsOnFailure
    <3>1. BootInv'
      BY <1>1, <1>2, <2>1, <2>7 DEF InsertRole, ExitsOnFailure, tables, Starting
    <3> QED
      BY <1>3, <2>1, <2>2, <3>1
  <2> QED
    BY <1>4, <2>5, <2>6, <2>7
<1>5. CASE InsertAdmin
  <2>1. start = "insertAdmin" /\ Boot \notin users /\ users = {} /\ accounts = {}
    BY <1>1, <1>2, <1>5 DEF InsertAdmin
  <2>2. ~NameTaken(Admin)
    BY <2>1 DEF NameTaken
  <2>3. /\ start' = "insertRole" /\ users' = {Boot}
        /\ UNCHANGED <<pc, queue, connected, faults, job, accounts, balance, deactivated, closed, roles,
                       granted, collided, touched>>
    BY <1>2, <1>5, <2>1, <2>2 DEF InsertAdmin, history
  <2>4. TypeOK'
    BY <1>1, <2>1, <2>3 DEF TypeOK, Starting, Creator
  <2>5. MoneyStep
    BY <2>1, <2>3, <2>4, SameMoney
  <2>6. BootInv'
    BY <1>1, <2>1, <2>3 DEF Starting
  <2> QED
    BY <2>1, <2>3, <2>4, <2>5, <2>6, BootStep
<1>6. CASE InsertAdminAccount
  <2>1. start = "insertAccount" /\ Boot \in users /\ accounts = {}
    BY <1>1, <1>2, <1>6 DEF InsertAdminAccount
  <2>2. /\ start' = "listening" /\ accounts' = accounts \cup {Boot}
        /\ balance' = [balance EXCEPT ![Boot] = AdminFunds]
        /\ touched' = touched \cup {OwnerOf(Boot)}
        /\ UNCHANGED <<pc, queue, connected, faults, job, users, deactivated, closed, roles, granted,
                       collided>>
    BY <1>2, <1>6 DEF InsertAdminAccount, OpensAccount, OwnerOf
  <2>3. Boot \in Creator /\ OwnerOf(Boot) \in Creator
    BY DEF Creator, OwnerOf
  <2>4. balance' \in [Creator -> Int] /\ \A b \in Creator \ {Boot} : balance'[b] = balance[b]
    BY <1>1, <2>2, <2>3, FundsAssumption DEF TypeOK
  <2>5. TypeOK'
    BY <1>1, <2>2, <2>3, <2>4 DEF TypeOK
  <2>6. MoneyStep
    BY <2>2, <2>3, <2>4, <2>5, MoneyChanged
  <2>7. BootInv'
    BY <1>1, <2>1, <2>2
  <2> QED
    BY <2>1, <2>2, <2>5, <2>6, <2>7, BootStep
<1> QED
  BY <1>4, <1>5, <1>6 DEF Start

LEMMA FaultPreserves ==
  ASSUME IInv, Killed \/ ConnectionLost
  PROVE  IInv'
<1>1. /\ UNCHANGED <<job, users, accounts, balance, deactivated, closed, roles, granted, collided, touched>>
      /\ start' \in {start, "stopped"}
      /\ start' # "stopped" => UNCHANGED pc
  BY DEF Killed, ConnectionLost, LosesConnection, tables, history
<1>2. /\ faults' \in 1..MaxFaults /\ queue' \in Seq(Request) /\ QueueInv'
      /\ \/ start' = start /\ UNCHANGED pc
         \/ /\ start' = "stopped"
            /\ pc' = [r \in Request |-> IF pc[r] \in Ended \cup {"idle"} THEN pc[r] ELSE "dead"]
  <2>1. CASE Killed
    BY <2>1, Connected, DiesFaulted, FaultsAssumption DEF Killed
  <2>2. CASE ConnectionLost
    BY <2>2, Connected, LosesConnectionFaulted, FaultsAssumption DEF ConnectionLost, Faulted
  <2> QED
    BY <2>1, <2>2
<1>3. /\ pc' \in [Request -> Label]
      /\ \A r \in Request : pc'[r] = pc[r] \/ (pc[r] \notin Ended /\ pc'[r] = "dead")
  BY <1>2 DEF IInv, TypeOK, Label
<1>4. connected' \in BOOLEAN /\ faults' # 0 /\ faults' \in 0..MaxFaults
  <2>1. connected' \in BOOLEAN
    BY DEF Killed, ConnectionLost, Dies, LosesConnection
  <2>2. faults' # 0 /\ faults' \in 0..MaxFaults
    BY <1>2, FaultsAssumption
  <2> QED
    BY <2>1, <2>2
<1>5. TypeOK'
  BY <1>1, <1>2, <1>3, <1>4 DEF IInv, TypeOK
<1>6. \A u : Total(u)' = Total(u)
  BY <1>1, <1>5, MoneyKept
<1>7. ASSUME NEW r \in Request PROVE RequestInv(r)'
  <2>1. RequestInv(r) /\ job[r].name \in Username /\ (pc'[r] = pc[r] \/ pc'[r] = "dead")
    BY <1>3, AtRequest
  <2>2. pc'[r] # pc[r] => pc[r] \notin Ended /\ pc'[r] = "dead"
    BY <1>3
  <2>3. \A n \in Username : NameTaken(n) => NameTaken(n)'
    BY <1>1, <1>5, RowsKept
  <2>4. Awaits(r, pc[r])' /\ HasRows(r, pc[r])'
    BY <1>1, <2>1, <2>2 DEF RequestInv, Awaits, HasRows, Opens
  <2>5. Refers(r, pc[r])'
    BY <1>1, <1>6, <2>1, <2>3 DEF RequestInv, Refers
  <2>6. Explains(r, pc[r])'
    BY <1>4 DEF Explains
  <2> QED
    BY <2>4, <2>5, <2>6 DEF RequestInv
<1>8. BootInv'
  <2>1. CASE start' = start /\ UNCHANGED pc
    BY <1>1, <1>4, <2>1 DEF IInv, BootInv
  <2>2. CASE /\ start' = "stopped"
             /\ pc' = [r \in Request |-> IF pc[r] \in Ended \cup {"idle"} THEN pc[r] ELSE "dead"]
    <3>1. \A r \in Request : pc'[r] \in Ended \cup {"idle"}
      BY <2>2
    <3> QED
      BY <1>1, <1>4, <2>2, <3>1 DEF IInv, BootInv
  <2> QED
    BY <1>2, <2>1, <2>2
<1>9. NamesInv' /\ DeactivatedHadNothing'
  <2>1. \A u : NameOf(u)' = NameOf(u)
    BY <1>1 DEF NameOf
  <2> QED
    BY <1>1, <1>6, <2>1 DEF NamesInv, DeactivatedHadNothing, IInv
<1> QED
  BY <1>2, <1>4, <1>5, <1>7, <1>8, <1>9 DEF IInv

-----------------------------------------------------------------------------
LEMMA Initially == Init => IInv
<1> SUFFICES ASSUME Init PROVE IInv
  OBVIOUS
<1>1. /\ queue = <<>> /\ queue \in Seq(Request) /\ DOMAIN queue = {} /\ IsInjective(queue)
      /\ pc = [r \in Request |-> "idle"] /\ connected = TRUE /\ faults = 0
  BY DEF Init, Idle, IsInjective
<1>2. Admin \in Username /\ Boot \in Creator
  BY NamesAssumption DEF Creator
<1>3. pc \in [Request -> Label] /\ job \in [Request -> [kind: Kind, name: Username, on: Creator]]
  BY <1>1, <1>2 DEF Init, Label, Kind
<1>4. balance \in [Creator -> Int] /\ faults \in 0..MaxFaults
  BY <1>1, FaultsAssumption DEF Init
<1>5. TypeOK
  BY <1>1, <1>3, <1>4 DEF TypeOK, Init
<1>6. QueueInv /\ NamesInv /\ DeactivatedHadNothing /\ BootInv
  BY <1>1 DEF QueueInv, NamesInv, DeactivatedHadNothing, BootInv, Init
<1>7. ASSUME NEW r \in Request PROVE RequestInv(r)
  BY <1>1, <1>7 DEF Init, RequestInv, Awaits, Refers, HasRows, Explains, Opens
<1> QED
  BY <1>1, <1>5, <1>6, <1>7 DEF IInv

LEMMA NextPreserves ==
  ASSUME IInv, [Next]_vars
  PROVE  IInv'
<1>1. CASE UNCHANGED vars
  <2>1. UNCHANGED <<pc, queue, connected, faults, start, job, users, accounts, balance,
                    deactivated, closed, roles, granted, collided, touched>>
    BY <1>1 DEF vars, connection, tables, history
  <2>2. /\ \A u : NameOf(u)' = NameOf(u)
        /\ \A a : OwnerOf(a)' = OwnerOf(a)
    BY <2>1 DEF NameOf, OwnerOf
  <2>3. TypeOK' /\ QueueInv' /\ BootInv' /\ NamesInv'
    BY <2>1, <2>2 DEF IInv, TypeOK, QueueInv, BootInv, NamesInv
  <2>4. \A u : Total(u)' = Total(u)
    BY <2>1, <2>3, MoneyKept
  <2>5. \A n : NameTaken(n)' <=> NameTaken(n)
    BY <2>1, <2>2 DEF NameTaken
  <2>6. ASSUME NEW r \in Request PROVE RequestInv(r)'
    <3>1. RequestInv(r)
      BY DEF IInv
    <3>2. Awaits(r, pc[r])' /\ HasRows(r, pc[r])'
      BY <2>1, <3>1 DEF RequestInv, Awaits, HasRows, Opens
    <3>3. Refers(r, pc[r])' /\ Explains(r, pc[r])'
      BY <2>1, <2>4, <2>5, <3>1 DEF RequestInv, Refers, Explains
    <3> QED
      BY <3>2, <3>3 DEF RequestInv
  <2>7. DeactivatedHadNothing'
    BY <2>1, <2>4 DEF DeactivatedHadNothing, IInv
  <2> QED
    BY <2>1, <2>3, <2>6, <2>7 DEF IInv
<1>2. CASE Start
  BY <1>2, StartPreserves
<1>3. CASE Killed \/ ConnectionLost
  BY <1>3, FaultPreserves
<1>4. ASSUME NEW r \in Request, Arrive(r) PROVE IInv'
  BY <1>4, ArrivalPreserves
<1>5. ASSUME NEW r \in Request, Register(r) PROVE IInv'
  BY <1>5, RegistrationReadsPreserve, InsertUserPreserves, FailurePreserves,
     InsertAccountPreserves, NumberTakenPreserves, PayPreserves DEF Register
<1>6. ASSUME NEW r \in Request, Maintain(r) PROVE IInv'
  BY <1>6, MaintenanceReadsPreserve, SumBalancesPreserves, SoftDeletePreserves,
     FailurePreserves DEF Maintain
<1>7. ASSUME NEW r \in Request, ConnectionGone(r) PROVE IInv'
  BY <1>7, FailurePreserves
<1> QED
  BY <1>1, <1>2, <1>3, <1>4, <1>5, <1>6, <1>7 DEF Next, Handler, Done

(* The invariant behind the theorems below holds in every reachable state. *)
THEOREM Invariance == Spec => []IInv
BY Initially, NextPreserves, PTL DEF Spec

(* Every variable keeps its type.                                          *)
THEOREM TypeCorrect == Spec => []TypeOK
<1>1. IInv => TypeOK
  BY DEF IInv
<1> QED
  BY <1>1, Invariance, PTL

(* 201 means that the account is there, and a user without one was left by *)
(* a fault or a collision (createUser and createAccount; the INSERTs of    *)
(* the start of the process).                                              *)
THEOREM AnswerIsTrue == Spec => []AnswerTellsAccount
<1>1. ASSUME IInv, NEW r \in Request, Opens(r), pc[r] \in Ended
      PROVE  /\ pc[r] = "201" => r \in accounts
             /\ pc[r] # "201" /\ faults = 0 => r \notin accounts
  BY <1>1, AtRequest DEF RequestInv, HasRows, Explains, Opens
<1>2. ASSUME IInv, NEW r \in Request, r \in users \ accounts
      PROVE  \/ pc[r] = "insertAccount"
             \/ pc[r] \in {"500", "dead"} /\ (faults # 0 \/ r \in collided)
  BY <1>2, AtRequest DEF RequestInv, HasRows, Explains, Opens
<1>3. IInv => (Boot \in users \ accounts /\ start = "listening" => faults # 0)
  BY DEF IInv, BootInv
<1>4. IInv => AnswerTellsAccount
  BY <1>1, <1>2, <1>3 DEF AnswerTellsAccount
<1> QED
  BY <1>4, Invariance, PTL

(* users.username belongs to one user, and a registration is turned away   *)
(* only where it does (the lookup of POST /users and the UNIQUE column).   *)
THEOREM NamesUnique == Spec => []OneUserPerName
<1>1. ASSUME IInv, NEW r \in Request, job[r].kind = "register", pc[r] \in {"409", "500"},
             faults = 0, r \notin collided
      PROVE  NameTaken(job[r].name) /\ r \notin users
  BY <1>1, AtRequest DEF RequestInv, HasRows, Explains
<1>2. IInv => OneUserPerName
  BY <1>1 DEF OneUserPerName, IInv, NamesInv
<1> QED
  BY <1>2, Invariance, PTL

(* The administrator's username is the administrator's (startServer        *)
(* listens after initialize has returned; createAdminUser).                *)
THEOREM AdminOwned == Spec => []AdminIsOurs
<1>1. ASSUME IInv, NEW u \in users, NameOf(u) = Admin PROVE u = Boot
  <2>1. Boot \in users /\ NameOf(Boot) = Admin
    BY <1>1 DEF IInv, BootInv, NameOf
  <2> QED
    BY <1>1, <2>1 DEF IInv, NamesInv
<1>2. IInv => AdminIsOurs
  BY <1>1 DEF AdminIsOurs, IInv, BootInv
<1> QED
  BY <1>2, Invariance, PTL

(* Money of a deactivated user came after the sum (deactivateUser sums and *)
(* updates in two statements).                                             *)
THEOREM DeactivationSafe == Spec => []DeactivatedHadNothing
<1>1. IInv => DeactivatedHadNothing
  BY DEF IInv
<1> QED
  BY <1>1, Invariance, PTL

(* No row is removed, and a balance changes by payments only (OpensAccount *)
(* writes a new row's balance only; InsertAdminAccount happens once).      *)
THEOREM OnlyPaymentsPay == Spec => BalanceOnlyPaid
<1> DEFINE Grows == users \subseteq users' /\ accounts \subseteq accounts'
           Kept == \A a \in accounts : balance'[a] = balance[a]
           Paid == \A a \in accounts : balance'[a] # balance[a] =>
                     \E r \in Request : pc[r] = "pay" /\ pc'[r] # "pay" /\ job[r].on = a
<1>1. ASSUME UNCHANGED <<users, accounts, balance>> PROVE Grows /\ Paid
  BY <1>1
<1>2. ASSUME IInv, Start PROVE Grows /\ Paid
  <2>1. CASE InsertAdminAccount
    <3>1. accounts = {}
      BY <1>2, <2>1 DEF InsertAdminAccount, Boots, IInv, BootInv
    <3> QED
      BY <2>1, <3>1 DEF InsertAdminAccount, OpensAccount
  <2>2. CASE InsertAdmin
    BY <2>2 DEF InsertAdmin
  <2>3. CASE ~InsertAdmin /\ ~InsertAdminAccount
    BY <1>1, <1>2, <2>3 DEF Start, Starts, CreateTables, CountRoles, InsertRoles, CountAdmin,
       HashAdmin, InsertRole, ExitsOnFailure, tables
  <2> QED
    BY <2>1, <2>2, <2>3
<1>3. ASSUME NEW r \in Request, Arrive(r) PROVE Grows /\ Paid
  BY <1>1, <1>3 DEF Arrive, AskNothing, AskRegister, AskOpen, AskPay, AskDeactivate, AskClose,
     Asks, tables
<1>4. ASSUME IInv, NEW r \in Request, InsertAccount(r) PROVE Grows /\ Paid
  <2>1. r \notin accounts /\ r \in Creator
    BY <1>4, AtRequest DEF InsertAccount, Executes, RequestInv, HasRows
  <2>2. balance' = [balance EXCEPT ![r] = Welcome] /\ accounts' = accounts \cup {r}
        /\ users' = users
    BY <1>4 DEF InsertAccount, OpensAccount
  <2> QED
    BY <2>1, <2>2 DEF IInv, TypeOK
<1>5. ASSUME IInv, NEW r \in Request, Pay(r) PROVE Grows /\ Paid
  <2>1. PICK d \in Payment : balance' = [balance EXCEPT ![job[r].on] = @ + d]
    BY <1>5 DEF Pay
  <2>2. pc[r] = "pay" /\ UNCHANGED <<users, accounts, job>>
    BY <1>5 DEF Pay, Executes
  <2>3. pc'[r] \in {"200", "500"}
    BY <1>5 DEF Pay, Replies, Leaves, IInv, TypeOK
  <2>4. \A a \in accounts : a # job[r].on => balance'[a] = balance[a]
    BY <2>1 DEF IInv, TypeOK
  <2> QED
    BY <2>2, <2>3, <2>4
<1>6. ASSUME NEW r \in Request, Register(r), ~InsertAccount(r), ~Pay(r) PROVE Grows /\ Paid
  BY <1>1, <1>6 DEF Register, LookUp, LookUpAccounts, HashPassword, InsertUser, UserRefused,
     NumberTaken, Answer, Reads, tables
<1>7. ASSUME NEW r \in Request, Maintain(r) \/ ConnectionGone(r) PROVE Grows /\ Paid
  BY <1>1, <1>7 DEF Maintain, FindActive, SumBalances, SoftDelete, AuditRefused, FindAccount,
     ConnectionGone, Reads, tables
<1>8. ASSUME Killed \/ ConnectionLost \/ UNCHANGED vars PROVE Grows /\ Paid
  BY <1>1, <1>8 DEF Killed, ConnectionLost, vars, tables
<1>9. IInv /\ [Next]_vars => Grows /\ Paid
  BY <1>2, <1>3, <1>4, <1>5, <1>6, <1>7, <1>8 DEF Next, Handler, Done
<1>10. IInv /\ [Next]_vars =>
         [/\ users \subseteq users' /\ accounts \subseteq accounts'
          /\ \A a \in accounts : balance'[a] # balance[a] =>
               \E r \in Request : pc[r] = "pay" /\ pc'[r] # "pay" /\ job[r].on = a]_vars
  BY <1>9
<1> QED
  BY <1>10, Invariance, PTL DEF Spec, BalanceOnlyPaid

(* Only a fault ends the process: no start is refused for what the tables  *)
(* hold (the UNIQUE username of the administrator).                        *)
THEOREM StartsSucceed == Spec => StartsNeverRefused
<1> DEFINE Fine == start # "stopped" /\ start' = "stopped" => ~connected \/ faults' # faults
<1>1. ASSUME start' = start PROVE Fine
  BY <1>1
<1>2. ASSUME IInv, Start PROVE Fine
  <2>1. CASE InsertAdmin
    <3>1. start = "insertAdmin" /\ users = {}
      BY <1>2, <2>1 DEF InsertAdmin, Boots, IInv, BootInv
    <3>2. start' # "stopped"
      BY <2>1, <3>1 DEF InsertAdmin, Boots, NameTaken
    <3> QED
      BY <3>2
  <2>2. CASE ExitsOnFailure
    BY <2>2 DEF ExitsOnFailure
  <2>3. CASE ~InsertAdmin /\ ~ExitsOnFailure
    BY <1>2, <2>3 DEF Start, Starts, CreateTables, CountRoles, InsertRoles, CountAdmin,
       HashAdmin, InsertRole, InsertAdminAccount, Boots, AfterCount
  <2> QED
    BY <2>1, <2>2, <2>3
<1>3. ASSUME NEW r \in Request, Arrive(r) \/ Handler(r) PROVE start' = start
  <2>1. CASE Arrive(r)
    BY <2>1 DEF Arrive, AskNothing, AskRegister, AskOpen, AskPay, AskDeactivate, AskClose, Asks
  <2>2. CASE Register(r)
    BY <2>2 DEF Register, LookUp, LookUpAccounts, HashPassword, InsertUser, UserRefused,
       InsertAccount, NumberTaken, Answer, Pay, Reads
  <2>3. CASE Maintain(r) \/ ConnectionGone(r)
    BY <2>3 DEF Maintain, FindActive, SumBalances, SoftDelete, AuditRefused, FindAccount,
       ConnectionGone, Reads
  <2> QED
    BY <1>3, <2>1, <2>2, <2>3 DEF Handler
<1>4. ASSUME IInv, Killed PROVE Fine
  BY <1>4 DEF Killed, Dies, IInv, TypeOK
<1>5. ASSUME ConnectionLost \/ UNCHANGED vars PROVE Fine
  BY <1>5 DEF ConnectionLost, vars
<1>6. IInv /\ [Next]_vars => Fine
  BY <1>1, <1>2, <1>3, <1>4, <1>5 DEF Next, Done
<1>7. IInv /\ [Next]_vars =>
        [start # "stopped" /\ start' = "stopped" => ~connected \/ faults' # faults]_vars
  BY <1>6
<1> QED
  BY <1>7, Invariance, PTL DEF Spec, StartsNeverRefused
=============================================================================
