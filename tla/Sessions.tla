------------------------------- MODULE Sessions -------------------------------
(***************************************************************************)
(* Sessions: POST and DELETE /sessions, the authentication that every      *)
(* protected route begins with, and what maintenance does to the sessions  *)
(* table.                                                                  *)
(*                                                                         *)
(* A login makes a token of its own (it carries a fresh id), so the login  *)
(* request itself stands for its token.  A token is over in one of three   *)
(* ways that nothing synchronises: the JWT expires by the process's clock, *)
(* the row expires by the database's, or the row is ended by a logout, by  *)
(* forceLogoutAll or by a cleanup.                                         *)
(***************************************************************************)
EXTENDS Connection

CONSTANTS
  Lifetime,   \* of a token, 24 hours, in ticks of the clock
  Drift,      \* by how much a row may expire earlier or later than its JWT
  MaxTime     \* bound on the clock

ASSUME TimesAssumption == Lifetime \in Nat /\ Drift \subseteq Int /\ MaxTime \in Nat
ASSUME FaultsAssumption == MaxFaults \in Nat

VARIABLES
  clock,      \* the time
  job,        \* what a request asks for, and with which token
  issued,     \* when the JWT of a login was signed
  expires,    \* sessions.expires_at of its row
  rows,       \* tokens with a row in the sessions table
  inactive,   \* those whose row says is_active = FALSE
  ended,      \* history: tokens that a logout or a forced logout ended
  late        \* history: requests that arrived when their token was over

table   == <<issued, expires, rows, inactive, ended>>
clients == <<job, late>>
vars    == <<connection, clock, table, clients>>

-----------------------------------------------------------------------------
Kind == {"none", "refused", "login", "logout", "use",
         "cleanupExpired", "cleanExpired", "forceLogout", "fullCleanup"}

Statement == {"find", "accounts", "insert", "delete", "session", "user",
              "cleanupExpired", "cleanExpired", "forceLogout", "sweep",
              "cleanAudit", "cleanFailed", "cleanRoles", "audit"}

Label == Statement \cup OffQueue

JwtValid(t)    == clock < issued[t] + Lifetime
RowUnexpired(t) == expires[t] > clock

(* Nobody may be admitted with t any more.                                 *)
Over(t) == t \in ended \/ ~JwtValid(t) \/ ~RowUnexpired(t)

TypeOK ==
  /\ pc \in [Request -> Label]
  /\ queue \in Seq(Request)
  /\ connected \in BOOLEAN
  /\ faults \in 0..MaxFaults
  /\ clock \in 0..MaxTime
  /\ job \in [Request -> [kind: Kind, token: Request]]
  /\ issued \in [Request -> Nat]
  /\ expires \in [Request -> Int]
  /\ rows \subseteq Request
  /\ inactive \subseteq rows
  /\ ended \subseteq Request
  /\ late \subseteq Request

Init ==
  /\ Idle
  /\ clock = 0
  /\ job = [r \in Request |-> [kind |-> "none", token |-> r]]
  /\ issued = [r \in Request |-> 0]
  /\ expires = [r \in Request |-> 0]
  /\ rows = {}
  /\ inactive = {}
  /\ ended = {}
  /\ late = {}

-----------------------------------------------------------------------------
(***************************************************************************)
(* Requests and calls arrive.                                              *)
(***************************************************************************)

(* A client knows the token of a login that was answered.                  *)
Known(t) == job[t].kind = "login" /\ pc[t] = "200"

Asks(r, kind, t, next) ==
  /\ pc[r] = "idle"
  /\ job' = [job EXCEPT ![r] = [kind |-> kind, token |-> t]]
  /\ Joins(r, next)
  /\ UNCHANGED <<clock, table>>

(* A body that does not validate, or no bearer token.                      *)
AskNothing(r) ==
  /\ \E answer \in {"400", "401"} : Asks(r, "refused", r, answer)
  /\ UNCHANGED late

AskLogin(r) == Asks(r, "login", r, "find") /\ UNCHANGED late

(* Logging out verifies nothing; an expired token will do.                 *)
AskLogout(r, t) == Known(t) /\ Asks(r, "logout", t, "delete") /\ UNCHANGED late

(* jwt.verify, before the first statement.                                 *)
AfterVerify(t) == IF JwtValid(t) THEN "session" ELSE "401"

AskProtected(r, t) ==
  /\ Known(t)
  /\ Asks(r, "use", t, AfterVerify(t))
  /\ late' = IF Over(t) THEN late \cup {r} ELSE late

AskMaintenance(r) ==
  /\ \/ \E kind \in {"cleanupExpired", "cleanExpired", "forceLogout"} : Asks(r, kind, r, kind)
     \/ Asks(r, "fullCleanup", r, "sweep")
  /\ UNCHANGED late

-----------------------------------------------------------------------------
(***************************************************************************)
(* Login: validatePassword, then the token and its row.                    *)
(***************************************************************************)
Reads(r, at, next) ==
  /\ Executes(r, at)
  /\ Replies(r, next)
  /\ UNCHANGED <<clock, table, clients>>

FindUser(r) == \E next \in {"bcrypt", "401"} : Reads(r, "find", next)

ComparePassword(r) ==
  /\ pc[r] = "bcrypt"
  /\ \E next \in {"accounts", "401"} : Joins(r, next)
  /\ UNCHANGED <<clock, table, clients>>

(* With the accounts of the user in hand the token is signed, and the time *)
(* its row expires is computed from the clock once more.                   *)
SignToken(r) ==
  /\ Executes(r, "accounts")
  /\ \/ /\ Leaves(r, "insert")
        /\ issued' = [issued EXCEPT ![r] = clock]
        /\ \E d \in Drift : expires' = [expires EXCEPT ![r] = clock + Lifetime + d]
        /\ UNCHANGED <<connected, faults>>
     \/ /\ faults < MaxFaults
        /\ faults' = faults + 1
        /\ connected' = FALSE
        /\ Leaves(r, "500")
        /\ UNCHANGED <<issued, expires>>
  /\ UNCHANGED <<clock, rows, inactive, ended, clients>>

(* Mutant of InsertSession: the token is handed out without its row.       *)
SkipsRow(r) == Reads(r, "insert", "200")

InsertSession(r) ==
  /\ Executes(r, "insert")
  /\ rows' = rows \cup {r}
  /\ Replies(r, "200")
  /\ UNCHANGED <<clock, issued, expires, inactive, ended, clients>>

-----------------------------------------------------------------------------
(***************************************************************************)
(* Logout, and the authentication of a protected route.                    *)
(***************************************************************************)

(* Mutant of Logout: the row is only marked, as maintenance marks it.      *)
MarksInactive(r) ==
  /\ Executes(r, "delete")
  /\ inactive' = inactive \cup (rows \cap {job[r].token})
  /\ ended' = ended \cup {job[r].token}
  /\ Replies(r, "200")
  /\ UNCHANGED <<clock, issued, expires, rows, clients>>

Logout(r) ==
  /\ Executes(r, "delete")
  /\ rows' = rows \ {job[r].token}
  /\ inactive' = inactive \ {job[r].token}
  /\ ended' = ended \cup {job[r].token}
  /\ Replies(r, "200")
  /\ UNCHANGED <<clock, issued, expires, clients>>

(* Neither is_active of the row nor that of the user is looked at.         *)
AfterSession(t) == IF t \in rows /\ RowUnexpired(t) THEN "user" ELSE "401"

FindSession(r) == Reads(r, "session", AfterSession(job[r].token))

(* The row of the user is there: sessions refer to it and nobody deletes   *)
(* it.  The request is admitted to its route.                              *)
FindUserAndRoles(r) == Reads(r, "user", "200")

-----------------------------------------------------------------------------
(***************************************************************************)
(* Maintenance.                                                            *)
(***************************************************************************)
Deletes(r, at, doomed, next) ==
  /\ Executes(r, at)
  /\ rows' = rows \ doomed
  /\ inactive' = inactive \ doomed
  /\ Replies(r, next)
  /\ UNCHANGED <<clock, issued, expires, ended, clients>>

(* AuthService: expires_at <= NOW().                                       *)
CleanupExpired(r) == Deletes(r, "cleanupExpired", {t \in rows : expires[t] <= clock}, "200")

(* Mutant of Expired: a row expires one tick early.                        *)
NearlyExpired == {t \in rows : expires[t] <= clock + 1}

(* MaintenanceService: expires_at < NOW().                                 *)
Expired == {t \in rows : expires[t] < clock}

CleanExpired(r) == Deletes(r, "cleanExpired", Expired, "200")

(* Mutant of Forced: the rows are marked and keep their time.              *)
KeepsTime(t) == expires[t]

Forced(t) == clock

ForceLogout(r) ==
  /\ Executes(r, "forceLogout")
  /\ expires' = [t \in Request |-> IF t \in rows \ inactive THEN Forced(t) ELSE expires[t]]
  /\ inactive' = rows
  /\ ended' = ended \cup (rows \ inactive)
  /\ Replies(r, "audit")
  /\ UNCHANGED <<clock, issued, rows, clients>>

(* runFullCleanup: four DELETEs, three of them on other tables.            *)
FullCleanup(r) ==
  \/ Deletes(r, "sweep", Expired, "cleanAudit")
  \/ Reads(r, "cleanAudit", "cleanFailed")
  \/ Reads(r, "cleanFailed", "cleanRoles")
  \/ Reads(r, "cleanRoles", "audit")

(* The record names no id, which audit_log requires and has no default for.*)
AuditRefused(r) == Rejected(r, "audit") /\ UNCHANGED <<clock, table, clients>>

-----------------------------------------------------------------------------
ConnectionGone(r) == Broken(r) /\ UNCHANGED <<clock, table, clients>>

ConnectionLost == LosesConnection /\ UNCHANGED <<clock, table, clients>>

(* Rows and tokens outlive the process: the signing key is configured.     *)
Restarts == Dies /\ UNCHANGED <<clock, table, clients>>

Tick ==
  /\ clock < MaxTime
  /\ clock' = clock + 1
  /\ UNCHANGED <<connection, table, clients>>

Arrive(r) ==
  \/ AskNothing(r) \/ AskLogin(r) \/ AskMaintenance(r)
  \/ \E t \in Request : AskLogout(r, t) \/ AskProtected(r, t)

Handler(r) ==
  \/ FindUser(r) \/ ComparePassword(r) \/ SignToken(r) \/ InsertSession(r)
  \/ Logout(r) \/ FindSession(r) \/ FindUserAndRoles(r)
  \/ CleanupExpired(r) \/ CleanExpired(r) \/ ForceLogout(r) \/ FullCleanup(r)
  \/ AuditRefused(r) \/ ConnectionGone(r)

Done == (\A r \in Request : pc[r] \in Ended) /\ UNCHANGED vars

Next ==
  \/ \E r \in Request : Arrive(r) \/ Handler(r)
  \/ ConnectionLost
  \/ Restarts
  \/ Tick
  \/ Done

Spec == Init /\ [][Next]_vars

-----------------------------------------------------------------------------
(***************************************************************************)
(* Properties.                                                             *)
(***************************************************************************)

(* A request that arrives when its token has been logged out, was ended by *)
(* forceLogoutAll or has expired, by either clock, is never admitted,      *)
(* whatever logins, cleanups and restarts happen while it waits.           *)
LateNeverAdmitted == \A r \in late : pc[r] # "200"

(* And nobody else is turned away: a 401 for a token that was handed out   *)
(* means that it was logged out, forced out or expired.  No cleanup, with  *)
(* either of the two comparisons the code uses, takes a living session.    *)
LiveNeverRefused ==
  \A r \in Request :
    job[r].kind = "use" /\ pc[r] = "401" => Over(job[r].token)

(* Without faults every row belongs to a login that was answered, so that  *)
(* somebody can log it out; and every token that was handed out has its    *)
(* row until it is over, with faults as well.                              *)
RowsBelongToTokens ==
  \A t \in Request :
    /\ t \in rows /\ faults = 0 => Known(t)
    /\ Known(t) /\ ~Over(t) => t \in rows

-----------------------------------------------------------------------------
(***************************************************************************)
(* The inductive invariant behind these properties.                        *)
(***************************************************************************)

(* What a request asks for decides which statements it can await.          *)
Awaits(r, at) ==
  /\ at = "idle" => job[r].kind = "none"
  /\ at \in {"find", "bcrypt", "accounts", "insert"} => job[r].kind = "login"
  /\ at = "delete" => job[r].kind = "logout"
  /\ at \in {"session", "user"} => job[r].kind = "use"
  /\ at \in {"cleanupExpired", "cleanExpired"} => job[r].kind = at
  /\ at = "forceLogout" => job[r].kind = "forceLogout"
  /\ at \in {"sweep", "cleanAudit", "cleanFailed", "cleanRoles"}
       => job[r].kind = "fullCleanup"
  /\ at = "audit" => job[r].kind \in {"forceLogout", "fullCleanup"}

JobInv(r) ==
  /\ Awaits(r, pc[r])
  /\ job[r].kind = "login" => job[r].token = r
  /\ job[r].kind \in {"use", "logout"} => Known(job[r].token)

(* A row is there from the last step of its login until it is over.        *)
RowInv(t) ==
  /\ t \in rows \cup ended => job[t].kind = "login" /\ pc[t] \in Ended
  /\ t \in rows /\ faults = 0 => pc[t] = "200"
  /\ t \in rows /\ t \in ended => expires[t] <= clock
  /\ Known(t) => t \in rows \/ t \in ended \/ expires[t] <= clock

(* What is known of a late request at each of its awaits.                  *)
StaysLate(r, at) ==
  r \in late =>
    /\ job[r].kind = "use" /\ at \notin {"user", "200"}
    /\ at = "session" => job[r].token \in ended \/ expires[job[r].token] <= clock

LateInv(r) == StaysLate(r, pc[r])

IInv ==
  /\ TypeOK
  /\ QueueInv
  /\ ~connected => faults # 0
  /\ \A r \in Request : JobInv(r) /\ RowInv(r) /\ LateInv(r)
  /\ LiveNeverRefused
=============================================================================
