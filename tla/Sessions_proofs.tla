---------------------------- MODULE Sessions_proofs ----------------------------
(***************************************************************************)
(* The properties of Sessions for every set of requests, every lifetime    *)
(* and drift, every bound on the clock and any number of faults.           *)
(***************************************************************************)
EXTENDS Sessions, ConnectionLemmas

(* What LiveNeverRefused says of one request.                              *)
MayAnswer(r, at) == job[r].kind = "use" /\ at = "401" => Over(job[r].token)

Answers(r) == MayAnswer(r, pc[r])

Own(r) == JobInv(r) /\ RowInv(r) /\ LateInv(r) /\ Answers(r)

(* Nobody is admitted with t any more, by its row.                         *)
RowOver(t) == t \in ended \/ expires[t] <= clock

USE DEF Ended, OffQueue

LEMMA Parts ==
  /\ IInv <=> /\ TypeOK /\ QueueInv /\ (~connected => faults # 0)
              /\ \A r \in Request : Own(r)
  /\ IInv' <=> /\ TypeOK' /\ QueueInv' /\ (~connected' => faults' # 0)
               /\ \A r \in Request : Own(r)'
BY DEF IInv, Own, Answers, MayAnswer, LiveNeverRefused

LEMMA Connected == IInv => ConnectionInv
BY DEF IInv, TypeOK, ConnectionInv

(* Whoever is over stays so, while the clock stands.                       *)
LEMMA OverKept ==
  ASSUME TypeOK, TypeOK', NEW t \in Request, clock' = clock, issued'[t] = issued[t],
         t \in ended => t \in ended', RowOver(t) => RowOver(t)', Over(t)
  PROVE  Over(t)'
<1>1. expires[t] \in Int /\ expires'[t] \in Int /\ clock \in Int
  BY TimesAssumption DEF TypeOK
<1>2. CASE t \in ended \/ ~RowUnexpired(t)
  <2>1. RowOver(t)'
    BY <1>1, <1>2 DEF RowOver, RowUnexpired
  <2> QED
    BY <1>1, <2>1 DEF RowOver, RowUnexpired, Over
<1>3. CASE ~JwtValid(t)
  BY <1>3 DEF Over, JwtValid
<1>4. t \in ended \/ ~RowUnexpired(t) \/ ~JwtValid(t)
  BY DEF Over
<1> QED
  BY <1>2, <1>3, <1>4

(* A step of r that ends nobody else's row before it is over.              *)
LEMMA Step ==
  ASSUME IInv, NEW r \in Request, NEW next, Runs(r, next), pc[r] \notin Ended,
         TypeOK', clock' = clock, faults # 0 => faults' # 0, ~connected' => faults' # 0,
         \A s \in Request \ {r} : job'[s] = job[s] /\ (s \in late' => s \in late),
         \A t \in Request : Known(t) =>
           issued'[t] = issued[t] /\ (t \in ended => t \in ended') /\ (RowOver(t) => RowOver(t)'),
         \A t \in Request \ {r} : RowInv(t)',
         Own(r)'
  PROVE  IInv'
<1>1. \A s \in Request \ {r} : pc'[s] = pc[s]
  BY DEF Runs, IInv, TypeOK
<1>2. \A t \in Request : Known(t) => t # r /\ Known(t)'
  BY <1>1 DEF Known
<1>3. ASSUME NEW t \in Request, Known(t), Over(t) PROVE Over(t)'
  BY <1>3, OverKept DEF IInv
<1>4. ASSUME NEW s \in Request \ {r} PROVE Own(s)'
  <2>1. Own(s) /\ job[s].token \in Request
    BY Parts DEF IInv, TypeOK
  <2>2. JobInv(s)'
    BY <1>1, <1>2, <2>1 DEF Own, JobInv, Awaits
  <2>3. LateInv(s)'
    BY <1>1, <1>2, <2>1 DEF Own, LateInv, StaysLate, JobInv, RowOver
  <2>4. job[s].kind = "use" /\ Over(job[s].token) => Over(job[s].token)'
    BY <1>3, <2>1 DEF Own, JobInv
  <2>5. Answers(s)'
    BY <1>1, <2>1, <2>4 DEF Own, Answers, MayAnswer
  <2> QED
    BY <2>2, <2>3, <2>5 DEF Own
<1> QED
  BY <1>4, Parts DEF Runs

-----------------------------------------------------------------------------
(***************************************************************************)
(* Statements.  RowAfter(t) is what RowInv will say of the changed table,  *)
(* while pc has not changed yet.                                           *)
(***************************************************************************)
TableTyped ==
  /\ issued \in [Request -> Nat] /\ expires \in [Request -> Int]
  /\ rows \subseteq Request /\ inactive \subseteq rows /\ ended \subseteq Request

RowAfter(t) ==
  /\ t \in rows' \cup ended' => job[t].kind = "login" /\ pc[t] \in Ended
  /\ t \in rows' /\ faults = 0 => pc[t] = "200"
  /\ t \in rows' /\ t \in ended' => expires'[t] <= clock
  /\ Known(t) => t \in rows' \/ t \in ended' \/ expires'[t] <= clock

(* r may be at next, as far as r's job is concerned.                       *)
Fits(r, next) == Awaits(r, next) /\ StaysLate(r, next) /\ MayAnswer(r, next)

LEMMA Answered ==
  ASSUME IInv, NEW r \in Request, NEW next \in Label, pc[r] \notin Ended,
         \/ Runs(r, next) /\ UNCHANGED <<connected, faults>>
         \/ Runs(r, "500") /\ Faulted,
         UNCHANGED <<clock, clients>>, TableTyped', connected' \in BOOLEAN,
         \A t \in Request : Known(t) =>
           issued'[t] = issued[t] /\ (t \in ended => t \in ended') /\ (RowOver(t) => RowOver(t)'),
         \A t \in Request \ {r} : RowAfter(t),
         r \notin ended',
         r \in rows' => next = "200" /\ job[r].kind = "login",
         next = "200" /\ job[r].kind = "login" => r \in rows',
         Fits(r, next)
  PROVE  IInv'
<1> PICK said \in Label : /\ Runs(r, said)
                          /\ \/ said = next /\ UNCHANGED <<connected, faults>>
                             \/ said = "500" /\ Faulted
  BY DEF Label
<1>1. /\ faults \in 0..MaxFaults /\ faults' \in 0..MaxFaults
      /\ faults # 0 => faults' # 0 /\ (~connected => faults # 0)
      /\ faults' = 0 => faults = 0 /\ said = next
      /\ ~connected' => faults' # 0
  BY FaultsAssumption DEF Faulted, IInv, TypeOK
<1>2. /\ pc' \in [Request -> Label] /\ pc'[r] = said
      /\ \A s \in Request \ {r} : pc'[s] = pc[s]
      /\ queue' \in Seq(Request)
  BY DEF Runs, IInv, TypeOK
<1>3. TypeOK'
  BY <1>1, <1>2 DEF IInv, TypeOK, TableTyped, clients
<1>4. \A t \in Request \ {r} : RowInv(t)'
  BY <1>1, <1>2 DEF RowAfter, RowInv, Known, clients
<1>5. RowInv(r)'
  BY <1>1, <1>2 DEF RowInv, Known, clients
<1>6. Awaits(r, said) /\ StaysLate(r, said) /\ (faults' = faults => MayAnswer(r, said))
  BY DEF Fits, Awaits, StaysLate, MayAnswer, Faulted, IInv, LateInv
<1>7. job' = job /\ late' = late /\ JobInv(r) /\ job[r].token \in Request
  BY DEF clients, IInv, TypeOK
<1>8. \A t \in Request : Known(t) => Known(t)' /\ (Over(t) => Over(t)')
  <2>1. \A t \in Request : Known(t) => Known(t)'
    BY <1>2, <1>7 DEF Known
  <2>2. \A t \in Request : Known(t) /\ Over(t) => Over(t)'
    BY <1>3, OverKept DEF IInv
  <2> QED
    BY <2>1, <2>2
<1>9. JobInv(r)' /\ LateInv(r)' /\ Answers(r)'
  BY <1>1, <1>2, <1>6, <1>7, <1>8 DEF JobInv, Awaits, LateInv, StaysLate, Answers, MayAnswer, RowOver
<1> QED
  BY <1>1, <1>3, <1>4, <1>5, <1>9, Step DEF Own, clients

(* A step that leaves the table alone.                                     *)
LEMMA QuietStep ==
  ASSUME IInv, NEW r \in Request, NEW next \in Label, pc[r] \notin Ended,
         \/ Runs(r, next) /\ UNCHANGED <<connected, faults>>
         \/ Runs(r, "500") /\ Faulted,
         UNCHANGED <<clock, table, clients>>,
         next = "200" => job[r].kind # "login",
         Fits(r, next)
  PROVE  IInv'
<1>1. TableTyped' /\ UNCHANGED <<clock, clients>>
  BY DEF TableTyped, table, IInv, TypeOK
<1>2. connected' \in BOOLEAN
  BY DEF Faulted, IInv, TypeOK
<1>3. \A t \in Request : RowAfter(t)
  BY DEF RowAfter, table, IInv, RowInv
<1>4. r \notin rows' \cup ended'
  BY DEF table, IInv, RowInv
<1>5. \A t \in Request : issued'[t] = issued[t] /\ (t \in ended => t \in ended')
                           /\ (RowOver(t) => RowOver(t)')
  BY DEF table, RowOver
<1> QED
  BY <1>1, <1>2, <1>3, <1>4, <1>5, Answered

(* A statement that only reads.                                            *)
LEMMA ReadsStep ==
  ASSUME IInv, NEW r \in Request, NEW at \in Statement, NEW next \in Label,
         Reads(r, at, next), next = "200" => job[r].kind # "login",
         Fits(r, next)
  PROVE  IInv'
<1>1. pc[r] \notin Ended /\ Served(r)
  BY DEF Reads, Executes, Statement
<1>2. \/ Runs(r, next) /\ UNCHANGED <<connected, faults>>
      \/ Runs(r, "500") /\ Faulted
  BY <1>1, RepliesRuns, Connected, FaultsAssumption DEF Reads
<1> QED
  BY <1>1, <1>2, QuietStep DEF Reads

-----------------------------------------------------------------------------
(***************************************************************************)
(* The statements one by one.                                              *)
(***************************************************************************)
LEMMA KindStep ==
  ASSUME IInv, NEW r \in Request
  PROVE  /\ job[r].token \in Request /\ JobInv(r) /\ RowInv(r) /\ LateInv(r)
         /\ pc[r] \in Label /\ job[r].kind \in Kind
         /\ r \in late => job[r].kind = "use"
BY DEF IInv, TypeOK, LateInv, StaysLate

LEMMA LoginPreserves ==
  ASSUME IInv, NEW r \in Request, FindUser(r) \/ ComparePassword(r)
  PROVE  IInv'
<1>1. ASSUME NEW next \in {"bcrypt", "401"}, Reads(r, "find", next)  PROVE IInv'
  <2>1. job[r].kind = "login" /\ r \notin late
    BY <1>1, KindStep DEF Reads, Executes, JobInv, Awaits
  <2>2. Fits(r, next)
    BY <2>1 DEF Fits, Awaits, StaysLate, MayAnswer
  <2>3. next \in Label /\ "find" \in Statement
    BY DEF Label, Statement
  <2> QED
    BY <1>1, <2>2, <2>3, ReadsStep
<1>2. CASE ComparePassword(r)
  <2> PICK next \in {"accounts", "401"} : Joins(r, next)
    BY <1>2 DEF ComparePassword
  <2>1. job[r].kind = "login" /\ r \notin late
    BY <1>2, KindStep DEF ComparePassword, JobInv, Awaits
  <2>2. Fits(r, next)
    BY <2>1 DEF Fits, Awaits, StaysLate, MayAnswer
  <2>3. next \in Label /\ pc[r] = "bcrypt" /\ UNCHANGED <<clock, table, clients>>
    BY <1>2 DEF Label, Statement, ComparePassword
  <2>4. Runs(r, next) /\ UNCHANGED <<connected, faults>>
    BY <2>3, JoinsRuns, Connected
  <2> QED
    BY <2>2, <2>3, <2>4, QuietStep
<1> QED
  BY <1>1, <1>2 DEF FindUser

(* The row of a login is there when its answer is, and not before.         *)
LEMMA SignTokenPreserves ==
  ASSUME IInv, NEW r \in Request, SignToken(r)
  PROVE  IInv'
<1>1. /\ Served(r) /\ pc[r] = "accounts" /\ UNCHANGED <<clock, rows, inactive, ended, clients>>
      /\ job[r].kind = "login" /\ r \notin late /\ r \notin rows /\ r \notin ended
  BY KindStep DEF SignToken, Executes, JobInv, Awaits, RowInv
<1>2. CASE Leaves(r, "500") /\ faults < MaxFaults /\ faults' = faults + 1
           /\ connected' = FALSE /\ UNCHANGED <<issued, expires>>
  <2>1. Runs(r, "500") /\ Faulted
    BY <1>1, <1>2, LeavesRuns, Connected, FaultsAssumption DEF Faulted, IInv, TypeOK
  <2>2. Fits(r, "insert") /\ "insert" \in Label /\ UNCHANGED <<clock, table, clients>>
    BY <1>1, <1>2 DEF Fits, Awaits, StaysLate, MayAnswer, Label, Statement, table
  <2> QED
    BY <1>1, <2>1, <2>2, QuietStep
<1>3. CASE Leaves(r, "insert") /\ UNCHANGED <<connected, faults>>
           /\ issued' = [issued EXCEPT ![r] = clock]
           /\ \E d \in Drift : expires' = [expires EXCEPT ![r] = clock + Lifetime + d]
  <2> PICK d \in Drift : expires' = [expires EXCEPT ![r] = clock + Lifetime + d]
    BY <1>3
  <2>1. Runs(r, "insert") /\ connected' \in BOOLEAN
    BY <1>1, <1>3, LeavesRuns, Connected DEF IInv, TypeOK
  <2>2. Fits(r, "insert") /\ "insert" \in Label
    BY <1>1 DEF Fits, Awaits, StaysLate, MayAnswer, Label, Statement
  <2>3. clock \in Nat /\ clock + Lifetime + d \in Int
    BY TimesAssumption DEF IInv, TypeOK
  <2>4. TableTyped'
    BY <1>1, <1>3, <2>3 DEF TableTyped, IInv, TypeOK
  <2>5. \A t \in Request \ {r} : issued'[t] = issued[t] /\ expires'[t] = expires[t]
    BY <1>3 DEF IInv, TypeOK
  <2>6. \A t \in Request \ {r} : RowAfter(t)
    BY <1>1, <2>5 DEF RowAfter, IInv, RowInv
  <2>7. \A t \in Request : Known(t) =>
          issued'[t] = issued[t] /\ (t \in ended => t \in ended') /\ (RowOver(t) => RowOver(t)')
    BY <1>1, <2>5 DEF Known, RowOver
  <2> QED
    BY <1>1, <1>3, <2>1, <2>2, <2>4, <2>6, <2>7, Answered
<1> QED
  BY <1>2, <1>3 DEF SignToken

LEMMA InsertSessionPreserves ==
  ASSUME IInv, NEW r \in Request, InsertSession(r)
  PROVE  IInv'
<1>1. /\ Served(r) /\ pc[r] = "insert" /\ rows' = rows \cup {r}
      /\ UNCHANGED <<clock, issued, expires, inactive, ended, clients>>
      /\ job[r].kind = "login" /\ r \notin late /\ r \notin ended
  BY KindStep DEF InsertSession, Executes, JobInv, Awaits, RowInv
<1>2. \/ Runs(r, "200") /\ UNCHANGED <<connected, faults>>
      \/ Runs(r, "500") /\ Faulted
  BY <1>1, RepliesRuns, Connected, FaultsAssumption DEF InsertSession
<1>3. connected' \in BOOLEAN
  BY <1>2 DEF Faulted, IInv, TypeOK
<1>4. TableTyped'
  BY <1>1 DEF TableTyped, IInv, TypeOK
<1>5. \A t \in Request \ {r} : RowAfter(t)
  BY <1>1 DEF RowAfter, IInv, RowInv
<1>6. \A t \in Request : issued'[t] = issued[t] /\ (t \in ended => t \in ended')
                           /\ (RowOver(t) => RowOver(t)')
  BY <1>1 DEF RowOver
<1>7. Fits(r, "200") /\ "200" \in Label
  BY <1>1 DEF Fits, Awaits, StaysLate, MayAnswer, Label
<1> QED
  BY <1>1, <1>2, <1>3, <1>4, <1>5, <1>6, <1>7, Answered

(* A logged-out token has no row and stays logged out.                     *)
LEMMA LogoutPreserves ==
  ASSUME IInv, NEW r \in Request, Logout(r)
  PROVE  IInv'
<1> DEFINE gone == job[r].token
<1>1. /\ Served(r) /\ pc[r] = "delete" /\ rows' = rows \ {gone}
      /\ inactive' = inactive \ {gone} /\ ended' = ended \cup {gone}
      /\ UNCHANGED <<clock, issued, expires, clients>>
      /\ job[r].kind = "logout" /\ r \notin late /\ r \notin ended /\ r \notin rows
      /\ gone \in Request /\ Known(gone)
  BY KindStep DEF Logout, Executes, JobInv, Awaits, RowInv
<1>2. \/ Runs(r, "200") /\ UNCHANGED <<connected, faults>>
      \/ Runs(r, "500") /\ Faulted
  BY <1>1, RepliesRuns, Connected, FaultsAssumption DEF Logout
<1>3. connected' \in BOOLEAN
  BY <1>2 DEF Faulted, IInv, TypeOK
<1>4. Fits(r, "200") /\ "200" \in Label
  BY <1>1 DEF Fits, Awaits, StaysLate, MayAnswer, Label
<1> HIDE DEF gone
<1>5. TableTyped'
  BY <1>1 DEF TableTyped, IInv, TypeOK
<1>6. \A t \in Request \ {r} : RowAfter(t)
  BY <1>1 DEF RowAfter, IInv, RowInv, Known
<1>7. \A t \in Request : issued'[t] = issued[t] /\ (t \in ended => t \in ended')
                           /\ (RowOver(t) => RowOver(t)')
  BY <1>1 DEF RowOver
<1>8. r \notin ended' /\ r \notin rows'
  BY <1>1 DEF Known
<1> QED
  BY <1>1, <1>2, <1>3, <1>4, <1>5, <1>6, <1>7, <1>8, Answered

(* Who is refused for want of a living row was over; who was over is       *)
(* refused.                                                                *)
LEMMA AuthenticatePreserves ==
  ASSUME IInv, NEW r \in Request, FindSession(r) \/ FindUserAndRoles(r)
  PROVE  IInv'
<1> DEFINE t == job[r].token
<1>1. CASE FindSession(r)
  <2>1. pc[r] = "session" /\ job[r].kind = "use" /\ t \in Request /\ Known(t) /\ RowInv(t)
    BY <1>1, KindStep DEF FindSession, Reads, Executes, JobInv, Awaits
  <2>2. expires[t] \in Int /\ clock \in Int
    BY <2>1, TimesAssumption DEF IInv, TypeOK
  <2>3. r \in late => RowOver(t)
    BY <2>1, KindStep DEF LateInv, StaysLate, RowOver
  <2>4. AfterSession(t) = "user" => ~RowOver(t)
    BY <2>1, <2>2 DEF AfterSession, RowInv, RowOver, RowUnexpired
  <2>5. AfterSession(t) # "user" => AfterSession(t) = "401" /\ Over(t)
    BY <2>1, <2>2 DEF AfterSession, RowInv, Over, RowUnexpired
  <2>6. AfterSession(t) \in {"user", "401"}
    BY DEF AfterSession
  <2>7. Fits(r, AfterSession(t))
    BY <2>1, <2>3, <2>4, <2>5, <2>6 DEF Fits, Awaits, StaysLate, MayAnswer
  <2>8. AfterSession(t) \in Label /\ "session" \in Statement /\ AfterSession(t) # "200"
    BY <2>6 DEF Label, Statement
  <2> QED
    BY <1>1, <2>7, <2>8, ReadsStep DEF FindSession
<1>2. CASE FindUserAndRoles(r)
  <2>1. pc[r] = "user" /\ job[r].kind = "use" /\ r \notin late
    BY <1>2, KindStep DEF FindUserAndRoles, Reads, Executes, JobInv, Awaits, LateInv, StaysLate
  <2>2. Fits(r, "200") /\ "200" \in Label /\ "user" \in Statement
    BY <2>1 DEF Fits, Awaits, StaysLate, MayAnswer, Label, Statement
  <2> QED
    BY <1>2, <2>1, <2>2, ReadsStep DEF FindUserAndRoles
<1> QED
  BY <1>1, <1>2

(* A cleanup takes rows whose time is over, by either comparison.          *)
LEMMA DeletesStep ==
  ASSUME IInv, NEW r \in Request, NEW at \in Statement, NEW next \in Label, NEW doomed,
         Deletes(r, at, doomed, next), \A t \in doomed : t \in rows /\ expires[t] <= clock,
         job[r].kind # "login", Fits(r, next)
  PROVE  IInv'
<1>1. /\ Served(r) /\ pc[r] \notin Ended /\ rows' = rows \ doomed
      /\ inactive' = inactive \ doomed
      /\ UNCHANGED <<clock, issued, expires, ended, clients>>
      /\ r \notin ended /\ r \notin rows
  BY KindStep DEF Deletes, Executes, RowInv, Statement
<1>2. \/ Runs(r, next) /\ UNCHANGED <<connected, faults>>
      \/ Runs(r, "500") /\ Faulted
  BY <1>1, RepliesRuns, Connected, FaultsAssumption DEF Deletes
<1>3. connected' \in BOOLEAN
  BY <1>2 DEF Faulted, IInv, TypeOK
<1>4. TableTyped'
  BY <1>1 DEF TableTyped, IInv, TypeOK
<1>5. \A t \in Request : RowAfter(t)
  BY <1>1 DEF RowAfter, IInv, RowInv
<1>6. \A t \in Request : issued'[t] = issued[t] /\ (t \in ended => t \in ended')
                           /\ (RowOver(t) => RowOver(t)')
  BY <1>1 DEF RowOver
<1> QED
  BY <1>1, <1>2, <1>3, <1>4, <1>5, <1>6, Answered

LEMMA CleanupPreserves ==
  ASSUME IInv, NEW r \in Request, CleanupExpired(r) \/ CleanExpired(r) \/ FullCleanup(r)
  PROVE  IInv'
<1> DEFINE atMost == {t \in rows : expires[t] <= clock}
<1>1. \A t \in Expired : t \in rows /\ expires[t] <= clock
  BY TimesAssumption DEF Expired, IInv, TypeOK
<1>2. /\ r \in late => job[r].kind = "use"
      /\ \A at : pc[r] = at => Awaits(r, at)
  BY KindStep DEF JobInv
<1>3. {"200", "cleanAudit", "cleanFailed", "cleanRoles", "audit"} \subseteq Label
  BY DEF Label, Statement
<1>4. CASE CleanupExpired(r)
  <2>1. Deletes(r, "cleanupExpired", atMost, "200") /\ job[r].kind = "cleanupExpired"
    BY <1>2, <1>4 DEF CleanupExpired, Deletes, Executes, Awaits
  <2>2. Fits(r, "200") /\ "cleanupExpired" \in Statement
    BY <1>2, <2>1 DEF Fits, Awaits, StaysLate, MayAnswer, Statement
  <2> QED
    BY <1>3, <2>1, <2>2, DeletesStep
<1>5. CASE CleanExpired(r)
  <2>1. Deletes(r, "cleanExpired", Expired, "200") /\ job[r].kind = "cleanExpired"
    BY <1>2, <1>5 DEF CleanExpired, Deletes, Executes, Awaits
  <2>2. Fits(r, "200") /\ "cleanExpired" \in Statement
    BY <1>2, <2>1 DEF Fits, Awaits, StaysLate, MayAnswer, Statement
  <2> QED
    BY <1>1, <1>3, <2>1, <2>2, DeletesStep
<1>6. CASE FullCleanup(r)
  <2>1. /\ pc[r] \in {"sweep", "cleanAudit", "cleanFailed", "cleanRoles"}
        /\ job[r].kind = "fullCleanup"
    BY <1>2, <1>6 DEF FullCleanup, Deletes, Reads, Executes, Awaits
  <2>2. \A next \in {"cleanAudit", "cleanFailed", "cleanRoles", "audit"} : Fits(r, next)
    BY <1>2, <2>1 DEF Fits, Awaits, StaysLate, MayAnswer
  <2>3. {"sweep", "cleanAudit", "cleanFailed", "cleanRoles"} \subseteq Statement
    BY DEF Statement
  <2>4. CASE Deletes(r, "sweep", Expired, "cleanAudit")
    BY <1>1, <1>3, <2>1, <2>2, <2>3, <2>4, DeletesStep
  <2>5. ASSUME NEW at \in Statement, NEW next \in {"cleanFailed", "cleanRoles", "audit"},
               Reads(r, at, next)
        PROVE  IInv'
    BY <1>3, <2>2, <2>5, ReadsStep
  <2> QED
    BY <1>6, <2>3, <2>4, <2>5 DEF FullCleanup
<1> QED
  BY <1>4, <1>5, <1>6

LEMMA ForceLogoutPreserves ==
  ASSUME IInv, NEW r \in Request, ForceLogout(r)
  PROVE  IInv'
<1>1. /\ Served(r) /\ pc[r] = "forceLogout" /\ inactive' = rows /\ rows' = rows
      /\ ended' = ended \cup (rows \ inactive) /\ UNCHANGED <<clock, issued, clients>>
      /\ job[r].kind = "forceLogout" /\ r \notin late /\ r \notin ended /\ r \notin rows
  BY KindStep DEF ForceLogout, Executes, JobInv, Awaits, RowInv
<1>2. /\ expires' \in [Request -> Int] /\ clock \in Int
      /\ \A t \in Request : /\ t \in rows \ inactive => expires'[t] = clock
                            /\ t \notin rows \ inactive => expires'[t] = expires[t]
  BY TimesAssumption DEF ForceLogout, Forced, IInv, TypeOK
<1>3. \/ Runs(r, "audit") /\ UNCHANGED <<connected, faults>>
      \/ Runs(r, "500") /\ Faulted
  BY <1>1, RepliesRuns, Connected, FaultsAssumption DEF ForceLogout
<1>4. connected' \in BOOLEAN
  BY <1>3 DEF Faulted, IInv, TypeOK
<1>5. TableTyped'
  BY <1>1, <1>2 DEF TableTyped, IInv, TypeOK
<1>6. \A t \in Request \ {r} : RowAfter(t)
  BY <1>1, <1>2 DEF RowAfter, IInv, RowInv
<1>7. \A t \in Request : issued'[t] = issued[t] /\ (t \in ended => t \in ended')
                           /\ (RowOver(t) => RowOver(t)')
  BY <1>1, <1>2 DEF RowOver
<1>8. Fits(r, "audit") /\ "audit" \in Label
  BY <1>1 DEF Fits, Awaits, StaysLate, MayAnswer, Label, Statement
<1>9. r \notin ended' /\ r \notin rows'
  BY <1>1
<1> QED
  BY <1>1, <1>3, <1>4, <1>5, <1>6, <1>7, <1>8, <1>9, Answered

(* The record is refused, or the connection is gone.                       *)
LEMMA FailurePreserves ==
  ASSUME IInv, NEW r \in Request, AuditRefused(r) \/ ConnectionGone(r)
  PROVE  IInv'
<1>1. /\ Runs(r, "500") /\ pc[r] \notin OffQueue /\ UNCHANGED <<connected, faults>>
      /\ UNCHANGED <<clock, table, clients>>
      /\ faults # 0 \/ pc[r] = "audit"
  BY RejectedRuns, BrokenRuns, Connected DEF AuditRefused, ConnectionGone
<1>2. Fits(r, "500") /\ "500" \in Label
  BY <1>1, KindStep DEF Fits, Awaits, StaysLate, MayAnswer, Label, JobInv
<1> QED
  BY <1>1, <1>2, QuietStep

-----------------------------------------------------------------------------
(***************************************************************************)
(* Requests arrive, faults happen, time passes.                            *)
(***************************************************************************)
LEMMA AsksStep ==
  ASSUME IInv, NEW r \in Request, NEW kind \in Kind, NEW t \in Request, NEW next \in Label,
         Asks(r, kind, t, next), late' \subseteq late \cup {r},
         Awaits(r, next)', StaysLate(r, next)',
         kind = "login" => t = r, kind \in {"use", "logout"} => Known(t),
         kind = "use" /\ next = "401" => Over(t),
         next \notin {"200", "500"}
  PROVE  IInv'
<1>1. /\ pc[r] = "idle" /\ job' = [job EXCEPT ![r] = [kind |-> kind, token |-> t]]
      /\ UNCHANGED <<clock, table>>
  BY DEF Asks
<1>2. Runs(r, next) /\ UNCHANGED <<connected, faults>>
  BY <1>1, JoinsRuns, Connected DEF Asks
<1>3. /\ pc' \in [Request -> Label] /\ pc'[r] = next
      /\ \A s \in Request \ {r} : pc'[s] = pc[s]
      /\ job' \in [Request -> [kind : Kind, token : Request]]
      /\ job'[r].kind = kind /\ job'[r].token = t
      /\ \A s \in Request \ {r} : job'[s] = job[s]
  BY <1>1, <1>2 DEF Runs, IInv, TypeOK
<1>4. TypeOK'
  BY <1>1, <1>2, <1>3 DEF IInv, TypeOK, table, Runs
<1>5. \A u \in Request : RowOver(u) => RowOver(u)'
  BY <1>1 DEF RowOver, table
<1>6. r \notin rows \cup ended /\ \A u \in Request \ {r} : RowInv(u)
  BY <1>1 DEF IInv, RowInv
<1>7. \A u \in Request \ {r} : RowInv(u)'
  BY <1>1, <1>2, <1>3, <1>6 DEF RowInv, Known, table
<1>8. RowInv(r)'
  BY <1>1, <1>3, <1>6 DEF RowInv, Known, table
<1>9. Known(t) => Known(t)' /\ (Over(t) => Over(t)')
  <2>1. Known(t) => Known(t)'
    BY <1>1, <1>3 DEF Known
  <2>2. Over(t) => Over(t)'
    BY <1>1, <1>4, <1>5, OverKept DEF IInv, table
  <2> QED
    BY <2>1, <2>2
<1>10. JobInv(r)' /\ LateInv(r)'
  BY <1>3, <1>9 DEF JobInv, LateInv, Awaits, StaysLate
<1>11. Answers(r)'
  BY <1>3, <1>9 DEF Answers, MayAnswer
<1> QED
  BY <1>1, <1>2, <1>3, <1>4, <1>5, <1>7, <1>8, <1>10, <1>11, Step
     DEF Own, table, IInv

LEMMA ArrivalPreserves ==
  ASSUME IInv, NEW r \in Request, Arrive(r)
  PROVE  IInv'
<1>1. Statement \subseteq Label /\ {"400", "401"} \subseteq Label
  BY DEF Label
<1>2. pc[r] = "idle" => r \notin late
  BY KindStep DEF JobInv, Awaits
<1>3. \A kind, t, next : Asks(r, kind, t, next) =>
        pc[r] = "idle" /\ job'[r].kind = kind /\ UNCHANGED <<clock, table>> /\ job'[r].token = t
  BY DEF Asks, IInv, TypeOK
<1>4. CASE AskNothing(r)
  <2> PICK next \in {"400", "401"} : Asks(r, "refused", r, next)
    BY <1>4 DEF AskNothing
  <2> QED
    BY <1>1, <1>2, <1>3, <1>4, AsksStep DEF AskNothing, Awaits, StaysLate, Kind
<1>5. CASE AskLogin(r)
  BY <1>1, <1>2, <1>3, <1>5, AsksStep DEF AskLogin, Awaits, StaysLate, Kind, Statement
<1>6. ASSUME NEW t \in Request, AskLogout(r, t) PROVE IInv'
  BY <1>1, <1>2, <1>3, <1>6, AsksStep DEF AskLogout, Awaits, StaysLate, Kind, Statement
<1>7. ASSUME NEW t \in Request, AskProtected(r, t) PROVE IInv'
  <2> PICK next \in {"session", "401"} : next = AfterVerify(t)
    BY DEF AfterVerify
  <2>1. (next = "session" => JwtValid(t)) /\ (next = "401" => Over(t))
    BY DEF AfterVerify, Over
  <2>2. /\ Asks(r, "use", t, next) /\ Known(t)
        /\ late' = IF Over(t) THEN late \cup {r} ELSE late
    BY <1>7 DEF AskProtected
  <2>3. expires[t] \in Int /\ clock \in Int
    BY TimesAssumption DEF IInv, TypeOK
  <2>4. Over(t) /\ JwtValid(t) => t \in ended \/ expires[t] <= clock
    BY <2>3 DEF Over, RowUnexpired
  <2>5. late' \subseteq late \cup {r} /\ (r \in late' => Over(t))
    BY <1>2, <1>3, <2>2
  <2>6. job'[r].kind = "use" /\ job'[r].token = t /\ UNCHANGED <<clock, expires, ended>>
    BY <1>3, <2>2 DEF table
  <2>7. StaysLate(r, next)' /\ Awaits(r, next)'
    BY <2>1, <2>4, <2>5, <2>6 DEF StaysLate, Awaits
  <2> QED
    BY <1>1, <2>1, <2>2, <2>5, <2>7, AsksStep DEF Kind, Statement
<1>8. CASE AskMaintenance(r)
  <2>1. PICK kind \in {"cleanupExpired", "cleanExpired", "forceLogout"} :
          Asks(r, kind, r, kind) \/ Asks(r, "fullCleanup", r, "sweep")
    BY <1>8 DEF AskMaintenance
  <2>2. late' = late
    BY <1>8 DEF AskMaintenance
  <2>3. CASE Asks(r, kind, r, kind)
    BY <1>1, <1>2, <1>3, <2>2, <2>3, AsksStep DEF Awaits, StaysLate, Kind, Statement
  <2>4. CASE Asks(r, "fullCleanup", r, "sweep")
    BY <1>1, <1>2, <1>3, <2>2, <2>4, AsksStep DEF Awaits, StaysLate, Kind, Statement
  <2> QED
    BY <2>1, <2>3, <2>4
<1> QED
  BY <1>4, <1>5, <1>6, <1>7, <1>8 DEF Arrive

(* The rows outlive the connection and the process.                        *)
LEMMA FaultPreserves ==
  ASSUME IInv, ConnectionLost \/ Restarts
  PROVE  IInv'
<1>1. /\ UNCHANGED <<clock, table, clients>> /\ connected' \in BOOLEAN
      /\ faults' \in 1..MaxFaults /\ queue' \in Seq(Request) /\ QueueInv'
      /\ \/ UNCHANGED pc
         \/ pc' = [r \in Request |-> IF pc[r] \in Ended \cup {"idle"} THEN pc[r] ELSE "dead"]
  BY Connected, LosesConnectionFaulted, DiesFaulted, FaultsAssumption
     DEF ConnectionLost, Restarts, Dies, Faulted
<1>2. /\ pc' \in [Request -> Label]
      /\ \A r \in Request : pc'[r] = pc[r] \/ (pc[r] \notin Ended /\ pc'[r] = "dead")
  BY <1>1 DEF IInv, TypeOK, Label
<1>3. TypeOK' /\ faults' # 0
  BY <1>1, <1>2, FaultsAssumption DEF IInv, TypeOK, table, clients
<1>4. \A t \in Request : Known(t) <=> Known(t)'
  BY <1>1, <1>2 DEF Known, clients
<1>5. \A t \in Request : Over(t) <=> Over(t)'
  BY <1>1 DEF Over, JwtValid, RowUnexpired, table
<1>6. ASSUME NEW r \in Request PROVE Own(r)'
  <2>1. job' = job /\ late' = late /\ JobInv(r) /\ LateInv(r) /\ RowInv(r) /\ Answers(r)
    BY <1>1, Parts DEF clients, Own
  <2>2. JobInv(r)' /\ LateInv(r)'
    BY <1>1, <1>2, <1>4, <2>1 DEF JobInv, Awaits, LateInv, StaysLate, table, IInv, TypeOK
  <2>3. RowInv(r)'
    BY <1>1, <1>2, <1>3, <1>4, <2>1 DEF RowInv, table
  <2>4. Answers(r)'
    BY <1>2, <1>3, <1>5, <2>1 DEF Answers, MayAnswer, IInv, TypeOK
  <2> QED
    BY <2>2, <2>3, <2>4 DEF Own
<1> QED
  BY <1>1, <1>3, <1>6, Parts

LEMMA TickPreserves ==
  ASSUME IInv, Tick
  PROVE  IInv'
<1>1. UNCHANGED <<pc, queue, connected, faults, job, issued, expires, rows, inactive, ended, late>>
  BY DEF Tick, connection, table, clients
<1>2. clock' = clock + 1 /\ clock \in Nat /\ clock' \in 0..MaxTime
  BY TimesAssumption DEF Tick, IInv, TypeOK
<1>3. TypeOK' /\ QueueInv'
  BY <1>1, <1>2 DEF IInv, TypeOK, QueueInv
<1>4. \A t \in Request : expires[t] <= clock => expires[t] <= clock'
  BY <1>2 DEF IInv, TypeOK
<1>5. \A t \in Request : Over(t) => Over(t)'
  BY <1>1, <1>2, TimesAssumption DEF Over, JwtValid, RowUnexpired, IInv, TypeOK
<1>6. ASSUME NEW r \in Request PROVE Own(r)'
  <2>1. Own(r) /\ job[r].token \in Request
    BY Parts DEF IInv, TypeOK
  <2>2. JobInv(r)' /\ RowInv(r)' /\ LateInv(r)'
    BY <1>1, <1>4, <2>1 DEF Own, JobInv, Awaits, RowInv, LateInv, StaysLate, Known
  <2>3. Answers(r)'
    BY <1>1, <1>5, <2>1 DEF Own, Answers, MayAnswer
  <2> QED
    BY <2>2, <2>3 DEF Own
<1> QED
  BY <1>1, <1>3, <1>6, Parts

-----------------------------------------------------------------------------
LEMMA Initially == Init => IInv
<1> SUFFICES ASSUME Init PROVE IInv
  OBVIOUS
<1>1. TypeOK
  BY FaultsAssumption, TimesAssumption DEF Init, Idle, TypeOK, Label, Kind
<1>2. QueueInv
  BY DEF Init, Idle, QueueInv, IsInjective
<1>3. \A r \in Request : Own(r)
  BY DEF Init, Idle, Own, JobInv, Awaits, RowInv, LateInv, StaysLate, Answers, MayAnswer, Known
<1> QED
  BY <1>1, <1>2, <1>3, Parts DEF Init, Idle

LEMMA NextPreserves == IInv /\ [Next]_vars => IInv'
<1> SUFFICES ASSUME IInv, [Next]_vars PROVE IInv'
  OBVIOUS
<1>1. ASSUME NEW r \in Request, Handler(r) PROVE IInv'
  BY <1>1, LoginPreserves, SignTokenPreserves, InsertSessionPreserves, LogoutPreserves,
     AuthenticatePreserves, CleanupPreserves, ForceLogoutPreserves, FailurePreserves DEF Handler
<1>2. CASE UNCHANGED vars
  BY <1>2 DEF vars, connection, table, clients, IInv, TypeOK, QueueInv, JobInv, Awaits, RowInv,
     LateInv, StaysLate, Known, LiveNeverRefused, Over, JwtValid, RowUnexpired
<1> QED
  BY <1>1, <1>2, ArrivalPreserves, FaultPreserves, TickPreserves DEF Next, Done

(* The inductive invariant, for every set of requests and every lifetime.  *)
THEOREM Invariance == Spec => []IInv
BY Initially, NextPreserves, PTL DEF Spec

(* Every variable keeps its type.                                          *)
THEOREM TypeCorrect == Spec => []TypeOK
<1>1. IInv => TypeOK
  BY DEF IInv
<1> QED
  BY <1>1, Invariance, PTL

(* A token that is logged out, forced out or expired when a request with   *)
(* it arrives admits that request never (FindSession against Logout,       *)
(* ForceLogout, the two clocks).                                           *)
THEOREM LateIsRefused == Spec => []LateNeverAdmitted
<1>1. IInv => LateNeverAdmitted
  BY DEF IInv, LateInv, StaysLate, LateNeverAdmitted, TypeOK
<1> QED
  BY <1>1, Invariance, PTL

(* No cleanup ends a living session.                                       *)
THEOREM LiveIsAdmitted == Spec => []LiveNeverRefused
<1>1. IInv => LiveNeverRefused
  BY DEF IInv
<1> QED
  BY <1>1, Invariance, PTL

(* Rows and tokens that were handed out belong together.                   *)
THEOREM RowsAndTokens == Spec => []RowsBelongToTokens
<1>1. ASSUME IInv, NEW t \in Request
      PROVE  /\ t \in rows /\ faults = 0 => Known(t)
             /\ Known(t) /\ ~Over(t) => t \in rows
  <2>1. RowInv(t) /\ expires[t] \in Int /\ clock \in Int
    BY <1>1, TimesAssumption DEF IInv, TypeOK
  <2> QED
    BY <2>1 DEF RowInv, Known, Over, RowUnexpired
<1>2. IInv => RowsBelongToTokens
  BY <1>1 DEF RowsBelongToTokens
<1> QED
  BY <1>2, Invariance, PTL
=============================================================================
