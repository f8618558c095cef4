# Digipank: a verification project

Digipank is the HTTP API of a small bank, written in TypeScript on Express and
`mysql2`.  Customers register, log in, hold accounts and send money to accounts
of this bank or of other banks.  This directory holds TLA+ models of it, the TLC
configurations that check them and proofs checked by TLAPS.

Paths below are relative to the repository root, which the map in `PROJECT.json`
calls `src/`.

## 1. The system

One Node.js process serves all requests.  JavaScript runs one callback at a time,
so nothing interleaves inside a synchronous stretch of code, and everything
interleaves where a handler awaits.  Handlers await two things: a statement on the
**one** database connection the process opens at its start
(`src/database/database.ts`), and the answer of another bank
(`src/services/externalTransactionService.ts`).  No handler uses SQL transactions,
so each statement takes effect by itself.  The documents offer `DatabaseTransaction`
for that, which nothing in the repository calls yet; it is modelled as documented
code that a caller may use.

| Component | State | Operations | Hard because |
|---|---|---|---|
| Transfer route, `TransactionService` | rows of `accounts` and `transactions` | lookup, insert row, check funds, debit, credit, set status, refund | several awaits between check and effect; two nested catch blocks; a failing statement anywhere |
| `ExternalTransactionService` | none (the other bank's state) | sign, post, wait for the answer | timeouts, answers lost or broken off, acceptance unknown |
| `Database`, `DatabaseManager` | the connection | query, initialize, close | shared by all handlers, lost and never reopened |
| `DatabaseTransaction` | an open SQL transaction of the connection | begin, operations, commit, rollback | the connection, and so the transaction, is shared |
| Bootstrap (`startServer`, `createTables`, `createAdminUser`) | schema, roles, administrator | connect, create, count, insert, listen | a crash between its inserts, and the start after it |
| Incoming route `/transactions/b2b` | `accounts`, `transactions` | insert row, credit, set status | deliveries repeated by the sender |
| Sessions (`AuthService`, `auth.ts`) | `sessions` | login, logout, authenticate, clean up, force logout | two awaits between check and admission; two clocks; rows ended by three parties |
| Registration (`UserService`) | `users`, `accounts` | check username, insert user, insert account | check-then-insert, a failing second insert |
| `MaintenanceService` | every table | deactivate, close, force logout, clean up | check-then-act, an audit record that fails |
| JWKS, validation, error handler, logger, configuration, Swagger | none | pure conversions | not modelled |

How they interact: the routes call the services; the services share the
connection; money moves only through UPDATEs of `accounts.balance`; a row of
`transactions` records what became of a transfer; the other bank is reached over
HTTP and reaches this one through the b2b route.

What makes each part correct:

* transfers inside the bank neither create nor lose money, and what a crash leaves
  half done can be found from the rows;
* a transfer abroad is posted at most once, only when paid for, and a sender is
  not out of pocket for one that nobody accepted;
* balances stay at or above zero;
* a row tells the truth about its transfer;
* every request is answered;
* an SQL transaction has all of its effects or none (`DatabaseTransaction`);
* an answer to a delivering bank tells whether its customer's money arrived, and no
  delivery takes money (b2b);
* a token that is over admits nobody and one that is not is not refused, and rows and
  tokens belong together (sessions);
* a username belongs to one user, 201 means that there is an account, and who is
  refused is refused for a reason (registration);
* the administrator's username is never a customer's, and no start of the process is
  refused or pays anything out for what an earlier one has left (bootstrap);
* a user that is deactivated has no money but what came too late to be seen, and
  maintenance calls return and leave an audit record (maintenance).

## 2. Modules

| Module | What it is |
|---|---|
| `DecimalText` | the order that `<` puts on DECIMAL texts, computed on cents |
| `DecimalOrder` | the same order by rendering both values and comparing the characters, for `TransferProperties` to compare |
| `Transfers` | POST `/transactions` with both services, the tables, the connection, the other bank and faults |
| `EscrowLedger` | abstract: an order's amount leaves its source once, is under way, arrives at most once |
| `TransferProperties` | the properties of `Transfers`, its inductive invariant, the refinement mapping |
| `MCTransfers` | values of the constants for TLC |
| `Transfers_proofs` | its theorems about the legs of a transfer, for every value of the constants |
| `Ledger_proofs` | its theorems about rows and sums of money, likewise |
| `SharedConnection` | `executeTransaction` with `transferMoney`, and `creditAccount` beside it, on the one connection |
| `AtomicTransfer` | abstract: balances and record of a transfer change together, once, of money the sender has |
| `SharedConnection_proofs` | its theorems |
| `Incoming` | POST `/transactions/b2b`, the tables, the connection and faults |
| `Incoming_proofs` | its theorems |
| `DataLemmas` | lemmas on a queue that holds nobody twice, on sums over finite sets and on the texts of DECIMALs, used by the proofs |
| `Connection` | the connection for handlers that have nothing left to do once a statement has failed |
| `ConnectionLemmas` | what its steps do to `pc` and the queue, proved once for the two below |
| `Sessions` | login, logout, authentication, cleanups and forced logout over the `sessions` table, with time |
| `Sessions_proofs` | its theorems |
| `CustomerTables` | the tables `roles`, `users`, `user_roles` and `accounts`, and the process that serves them |
| `Bootstrap` | the start of the process, its end and its next start |
| `Registration` | POST `/users`, POST `/users/accounts`, and payments into and out of an account |
| `Maintenance` | `deactivateUser`, `closeAccount` |
| `Customers` | these three composed, their properties and inductive invariant |
| `Customers_proofs` | its theorems |
| `Operator` | `Customers` and `Sessions` composed, with an operator who makes the maintenance calls the documents show |
| `MCSharedConnection`, `MCIncoming`, `MCSessions`, `MCCustomers`, `MCOperator` | values of the constants for TLC |

`Transfers`, `SharedConnection` and `Incoming` each describe the connection themselves,
because their catch blocks issue further statements; `Sessions` and `Customers` extend
`Connection`, whose catch blocks end the request.

### Transfers: state

| Variable | In the code |
|---|---|
| `balance` | `accounts.balance`, in cents |
| `status` | `transactions.status` of the row the request inserted (`"absent"` before) |
| `pc` | the await the handler is suspended at, named after what it awaits; a status code or `"dead"` when it has ended; `"stranded"` when its promise will never resolve |
| `form` | the validated body; who sends what is chosen at the start |
| `seen` | `fromAccount.balance` as `processInternalTransaction` read it, `account.balance` as `debitAccount` did: what the funds check compares |
| `columns` | the columns of the `transactions` table |
| `peer` | what the destination bank made of the transfer, which the code never sees directly |
| `queue`, `connected` | the command queue of the `mysql2` connection, and whether it is still open |
| `debits`, `credits`, `refunds` | history only: how often each UPDATE of a balance took effect; no guard reads them |
| `faults` | bound for TLC: lost connections, answers that broke off, restarts |

One action is one stretch from an await to the next.  `Executes` says that a
handler's statement is first in the queue and takes effect, `Replies` that its
result comes back (or is lost with the connection, after the effect), `Leaves`
that the handler issues its next statement at the end of the queue.  A rejected
statement goes where the code's try and catch blocks take it (`CatchOf`):

* inside `processInternalTransaction` to the UPDATE that records the failure, and
  from there to the route's answer, since the route logs the rethrown error;
* on the external branch to the catch block that refunds, and from there to the
  UPDATE of the status whether or not the refund succeeded;
* elsewhere to status 500.

Statements are rejected for three reasons: a column that does not exist
(`UnknownColumn`, because the code writes `status_detail` and the schema has
`status_details`), a value that does not fit DECIMAL(15,2) (`OutOfRange`), and a
lost connection (`Broken`).  The columns of the table are a variable, `columns`, which
is chosen at the start from the constant `Schemas` and never changes: a run shows what
the code does over the table it creates and over one with the column it expects.

The destination bank answers on its own (`PeerAnswers`), also after the handler
gave up.  `SendFails` stands for a missing key, an unknown bank and a refused
connection: in all three the promise resolves to false before the bank has the
transfer.  `GivesUp` is the socket's error event or its timeout.  `BreaksOff` is an
answer that ends after its headers or trickles for ever: the code listens for the
end of the answer only, and no timer is left.

### SharedConnection: state

| Variable | In the code |
|---|---|
| `order` | the arguments of each call, chosen at the start |
| `view` | the tables as statements on the connection see them, with what an open transaction has changed |
| `store` | the tables as committed, what a lost connection or a dead process leaves |
| `open` | whether a transaction is open on the connection |
| `pc`, `queue`, `connected`, `faults` | as in `Transfers` |
| `overlapped` | history: a call began while another was under way; no guard reads it |

`Clerk`s call `transferMoney`; `Payer`s stand for handlers that issue statements of
their own, with `creditAccount` as the example.  `Runs` is one statement with its
effect on both tables: outside a transaction a statement commits itself, inside
one it changes `view` only; BEGIN commits what is open (the server's implicit
commit), COMMIT copies `view` to `store`, ROLLBACK `store` to `view`.  The server
rolls back what is open when the connection is lost, also when only the answer
to a statement is lost.  FOR UPDATE does nothing here: a lock belongs to the
connection, and there is one.  `ROLLBACK` that fails ends the call as well, since
the code catches and logs that error (`CatchOf("rollback")`).
`batchOperations` is `executeTransaction` around statements its caller brings.

The model assumes a server that accepts `BEGIN` as a prepared statement, which
`connection.execute` makes of it: MariaDB, as the README names it, does.

### Incoming: state

`balance`, `status`, `pc`, `queue`, `connected` and `faults` are as in `Transfers`,
`bill` is the decoded payload, `credits` history, and `columns` the columns of
the tables, chosen at the start from the constant `Schemas`: the handler names two
columns that `createTables` does not create (`accounts.number`,
`transactions.status_detail`), and a run over every combination shows what it does
where they exist.  A transfer delivered twice is two deliveries with one bill: the
code looks at no identifier, so nothing else distinguishes the repetition.  An
amount may be negative; `!payload.amount` refuses zero only, and the CHECK of the
table the rest.

### Sessions: state

| Variable | In the code |
|---|---|
| `job` | what a request or maintenance call asks for, and with which token |
| `issued` | `iat` of the token a login made; the JWT is valid for `Lifetime` from there |
| `expires` | `sessions.expires_at` of its row |
| `rows`, `inactive` | the rows of `sessions`, and those with `is_active = FALSE` |
| `clock` | the time; `Tick` lets it pass between any two steps |
| `ended` | history: tokens that a logout or a forced logout ended |
| `late` | history: requests that arrived when their token was over |

Every login makes a token of its own (`jwtid` is a fresh UUID), so the login request
stands for its token and for its row.  `login` computes `expires_at` as a wall-clock day
after the signing, on the process's clock, and the database compares it with its own
`NOW()`, to the second: `Drift` is the set of differences between the ends of the
JWT and of the row, and contains an earlier and a later one.  The JWT is
verified when the request arrives, the row one statement later, and the request is
admitted one statement after that; admission is where `pc` becomes `"200"`.  Logout
deletes the row without looking at the token's signature or age; `forceLogoutAll`
sets the time of the active rows to now and marks them; the two cleanups compare
with `<=` and with `<`.  `runFullCleanup` is its four DELETEs in turn.  The INSERT of the
audit record names no id, so the server rejects it, after the effect (`AuditRefused`).

### Customers: state

| Variable | In the code |
|---|---|
| `start` | what `startServer` awaits; `"stopped"` before and after the process, `"listening"` once `app.listen` was called |
| `job` | what a request or maintenance call asks for: kind, username, user or account |
| `users`, `accounts`, `balance` | rows of the tables, and `accounts.balance` |
| `deactivated`, `closed` | users and accounts with `is_active = FALSE` |
| `roles`, `granted` | the four rows of `roles` are there, the administrator's row of `user_roles` is there |
| `collided` | history: requests whose random account number was taken |
| `touched` | history: users whose money changed since a sum allowed them to be deactivated |

A request inserts at most one user and one account, so it stands for either row; `Boot`
stands for the administrator's two.  `NameOf` and `OwnerOf` are the columns
`users.username` and `accounts.user_id`.  `Customers` composes the three components over
these tables: a start goes through connect, create, count, insert one statement at a
time, requests arrive only when it listens, and `Killed` ends the process at any await
with everything it has under way.  An operator's (or a supervisor's) next start is
`Starts`.  `Pay` is one UPDATE of a transfer handler, which is what maintenance can
see of a transfer.

`closeAccount` compares what the driver returns with the number 0 by `!==`.
`AfterCompare` makes that comparison on values tagged with their type, as the driver
(`FromDriver`) and the code (`Zero`) provide them, and `SoftDelete` is the UPDATE after it
as well as `deactivateUser`'s.

Maintenance is modelled as calls in the server's process, the connection shared with
the requests.  The documents call it from cron as well, in a process of its own: its
statements then interleave with the server's at the same grain, since each takes effect
by itself.  `Operator` composes `Customers` with `Sessions` (as `Session!`, over the same
connection) for the one question that concerns both, whether the calls the documents show
return: one call at a time, on accounts that hold nothing.

Mutants for the checks stand beside the definition they replace, each with a
comment that says which bug it is.

## 3. Runs

| Run | Instance | Shows |
|---|---|---|
| `internal_transfers` | 3 requests (symmetric), 2 accounts, both schemas, 1 fault, a column limit that one credit exceeds; 51 x 51 values for the texts | funds checks decide as the characters of the rendered texts do, inductive invariant, money is never created, missing money belongs to open rows, statements reconcile, settling means moved, refinement of `EscrowLedger` |
| `outgoing_transfers` | 2 requests, customer, administrator, known and unknown bank, an account that does not exist, both schemas, 1 fault, amounts of 4.00 and 10.00 on 5.00, a column limit of 45.00 | inductive invariant, one statement per handler, the sender's money, order of debit, post and refund, what the row of an answered transfer tells and how paid transfers end over either schema, what it takes to overdraw, every request ends |
| `shared_connection` | 2 clerks and 1 payer, 2 accounts and 1 number without, amounts -1.00 and 4.00 on 5.00, 2 faults | inductive invariant, no transaction left open, calls that do not overlap refine `AtomicTransfer` and tell their outcome |
| `incoming_deliveries` | 3 deliveries, the same accounts, amounts -1.00, 0 and 4.00, all four schemas, 2 faults | inductive invariant, answer and row against the credit, balances explained by credits |
| `sessions` | 3 requests (symmetric), lifetime 2, drift -1, 0 and 1, clock to 3, 1 fault | inductive invariant, who is admitted and refused, rows against tokens |
| `customers` | 3 requests (symmetric), usernames `admin` and `alice`, payments of -10000.00 and 1000.00, 2 faults | inductive invariant, accounts against answers, one user per name, the administrator's name, deactivation, money, every start gets through |
| `shared_connection_overlap` | 2 clerks, no faults | violated: `AllOrNothing` |
| `incoming_schema` | 1 delivery, the created schema, no faults | violated: `DeliveryCredited` |
| `funds_check_on_text` | 1 request, 900.00, 1000.00 | violated: `NoOverdraft` |
| `failed_transfers_abroad` | 2 requests abroad to a bank nobody knows, 4.00 each from 5.00, the created schema, no faults | violated: `SomeFailureMended` |
| `refund_after_acceptance` | 1 request abroad | violated: `RefundMeansNotAccepted` |
| `maintenance` | 5 calls, 1 administrator, a withdrawal of -100.00, no faults | violated: `SomeCallReturns` |

Bounds.  Three requests between two accounts are the least in which two debits
overlap while a third request moves the balance back; two requests over every kind
of number reach every action of the external branch.  One fault is placed at every
point of every interleaving; a second adds behaviours in which a dead handler is
followed by another, and the invariants that the proofs cover hold for any number.
`Largest` stands for the limit of DECIMAL(15,2) and is small so that credits and
refunds run into it.  In `outgoing_transfers` an opening balance of 5.00 covers 4.00 once;
its text says that it covers 10.00 as well, and once 4.00 are gone it no longer does, so
both ways to an overdraft occur.
Two clerks and a payer are the least in which a handler that knows of no transaction
works beside two that have one; a transfer of 4.00 from 5.00 can be made once, and
the column limit of 10.00 is reached by the second credit.  Two faults let a
connection be lost, the process restart and later calls run.
Three requests are a login, the request that uses its token, and what comes between
its check and its admission; the clock goes past the lifetime, and rows can expire a
tick before or after their token.  In `customers` three requests are two registrations
of one name and a third call between them, or a user, a payment and a deactivation;
with two faults a start is interrupted and so is the one after it.  In `maintenance` five
requests are a withdrawal that empties the administrator's account and the four calls.  A payment
of -10000.00 empties the administrator's account or overdraws a customer's, which is how a
deactivation comes as far as its UPDATE.

Fairness.  `FairSpec` is weakly fair to each handler.  The connection executes its
queue in order, and a statement whose turn has come is executed or rejected; a
handler that waits for another bank is freed by the answer, by an error or by the
thirty-second timeout.  `Sessions` and `Customers` state no liveness: their handlers end
for the same reason, and what `EveryRequestAnswered` could miss (catch blocks that
issue further statements, an answer that never ends) does not occur in them.  That a
start is attempted again is an operator's doing and not assumed; `StartsNeverRefused` says
that it gets through when it is.  Nothing is assumed of the other bank.  The answer that
breaks off is the case with no way out, and `EveryRequestAnswered` says so.

### Findings

1. `funds_check_on_text`: `fromAccount.balance < transaction.amount`
   (`src/services/transactionService.ts:92`, and `:241`) compares two strings, since
   the driver returns DECIMAL as text.  A balance of 900.00 suffices for 1000.00.
2. `failed_transfers_abroad`: `SomeFailureMended` asks as little as the comments can mean.
   Two transfers abroad fail, one after its debit and one before: at least one of them
   should be refunded what it took (`src/routes/transactionRoutes.ts:151`, `:170`), or
   have a row that says failed (`:159`).  Over the table the program creates neither
   happens to either.
   * The one refused for lack of funds was never debited, and the catch block credits the
     amount all the same, which its comment (`:170`) restricts to "if it was already
     debited".
   * The one that was debited is refunded by its branch; the status UPDATE after that is
     rejected, since it writes a column `status_detail` and `createTables` says
     `status_details` (`src/database/database.ts:93`); and the catch block refunds again.
   * Both rows stay completed, as `createTransaction` inserted them
     (`src/services/transactionService.ts:28`), and both senders are told 500.
3. `refund_after_acceptance`: the UPDATE after an acceptance fails for the same reason,
   and the catch block gives back money that the other bank has paid out.  Inside the
   bank, a transfer refused for lack of funds is answered 201 with its row still pending,
   which `AnswerTellsRow` states.
4. `shared_connection_overlap`: `docs/database-management.md` promises that either all
   operations of a transaction succeed or none is executed.  With two calls under way
   on the one connection, the ROLLBACK of the first undoes the UPDATEs of the second,
   which then inserts its row, commits and reports success: a transfer on record
   whose money never moved.
5. `incoming_schema`: the UPDATE that credits an incoming transfer says `WHERE number =`
   where the column is `account_number`; every delivery to an existing account is
   answered 500, with its row left pending (finding 3 again).
6. `maintenance`: `docs/database-management.md` shows `deactivateUser`, `closeAccount`,
   `runFullCleanup` and `forceLogoutAll` returning, and says that all operations are logged
   in `audit_log` (line 240).  `SomeCallReturns` asks that one of the four returns, on an
   empty account and its user and without faults.  None does.  No INSERT into `audit_log`
   names its `id`, a primary key without default, so the server (MariaDB 11 in its default
   strict mode) rejects each of them, after the effect, and nothing is logged; and
   `closeAccount` compares the text `'0.00'` with the number 0
   (`src/services/maintenanceService.ts:175`) and refuses every account, where the
   document says "only with zero balance" (line 178).

## 4. Proofs

`Transfers_proofs` proves, for every set of requests, accounts and amounts, every
opening balance and any number of faults:

| Theorem | Says |
|---|---|
| `CoreInvariance` | `Spec => [](CoreInv /\ OneStatementEach)` |
| `TypeCorrect` | `Spec => []TypeOK` |
| `QueueCorrect` | `Spec => []OneStatementEach` |
| `RefundsBounded` | `Spec => []RefundsFollowAttempt` |
| `UnprefixedSafe` | `Spec => []UnprefixedFrozen` |
| `PostedOncePaid` | `Spec => PostsOncePaid` |
| `SettledIsMoved` | `Spec => SettledMeansMoved` |
| `EscrowImplemented` | `Spec => ImplementsEscrow`, if all numbers have the bank prefix |

and `Ledger_proofs`, on top of it, if requests and accounts are finitely many:

| Theorem | Says |
|---|---|
| `Invariance` | `Spec => [](IInv /\ OneStatementEach)` |
| `NoMoneyCreated` | `Spec => []MoneyNeverCreated` |
| `MissingIsOpen` | `Spec => []MissingMoneyIsOpen` |
| `RowsReconcile` | `Spec => []Reconciles` |
| `RowsTellArrival` | `Spec => []AnswerTellsRow` |
| `TwoToOverdraw` | `Spec => []OverdraftTakesTwo`, if `OpenedCovered` |
| `FundsCheckOnTexts` | `Spec => []FundsChecksCompareTexts`, if sample, amounts and `Largest` are in `Decimals` and opening balances fit |
| `SenderIsRefunded` | `Spec => []SenderNeverLoses`, if `RoomForRefunds` |
| `PaidTransfersEnd` | `Spec => []PaidEnds`, if `RoomForRefunds` |

The assumptions are the four of `Transfers` about its constants, `FiniteAssumption` and
`SampleAssumption` of `TransferProperties`; TLC evaluates them in every run of these
modules.  The other conditions are hypotheses of the theorems that name them.
`OpenedCovered` says that no account is opened overdrawn, which `createUser` (1000.00)
and `createAdminUser` (10000.00) see to; that one is the only condition of
`TwoToOverdraw`.  No theorem restricts the schema.

The argument about legs.  None of the properties is inductive alone: that a row settles
only after its transfer moved needs to know, at the await before the last UPDATE, how
many legs were applied.  `CoreInv` therefore relates `pc` to the history variables
(`LegsInv`: nothing has moved at the early awaits, exactly the debit before the
credit, the debit and no refund while waiting for the other bank, at most one
refund before the catch block's) and to the request (`RouteInv`: only
internal destinations on the internal branch, only existing internal sources past
the lookup).  A step of one handler changes only its own entries
(`OnlyOwn`, `OwnStepPreserves`), so the proof has one case per action about that
handler alone.  `OneStatementEach` is proved separately by the three ways a step
treats the queue (served and gone or requeued, issued, bypassed).  The refinement
maps `Debit` to `Take`, `Credit` to `Bring` and every other step to a stutter;
the invariant gives that the stage is right.

The argument about rows.  `IInv` adds how the row stands at each await: `RowInv` (it
is completed from the INSERT to `markPending`, pending to `markCompleted`, and not
completed while money is under way inside the bank), `AnswerInv` (what holds of an
answer whatever was lost: over a live connection `markFailed` and `reject` close their
row or find no column to do it with, and no handler outlives the connection) and
`CalmInv` (what holds while nothing was lost: nobody is killed, and a 500 inside the bank
leaves no row).  `Outcome` says what
a handler sees of a statement's result, its loss included, so each action is again
one case.

The argument about sums.  `LedgerInv` says that each balance is its opening balance
and the `Change` of every request, and the sum of the balances the sum of the
openings and of every `Gain`.  It is what an UPDATE relative to the current value
preserves and an UPDATE from a value read earlier would not: a leg shifts one balance
and one request's change by the same delta (`ShiftLedger`).  Everything about
sums is in `DataLemmas`: `SubsetInduction` derives induction on finite sets from
the library's well-foundedness of the proper subset relation, stated over sets rather
than over a predicate, and gives what the properties need of `SumFunctionOnSet` (an
element taken out, one value shifted, monotony, differences, parts).
`NoMoneyCreated` follows because inside the bank no request gains,
`MissingIsOpen` because the amount a request lacks is the amount of a row that
`RowInv` keeps open.

Overdrafts.  `NoOverdraft` is false, for two reasons: the comparison of texts, and the
awaits between the check and the debit.  `TwoToOverdraw` says that there is no third,
for amounts of any size: an account below zero was debited by a request that was
`Misled` (what it saw was less than its amount, but not the text of it) or by two whose
checks both passed.  `CoverInv` carries it: a handler that is past its check was let
through by it (`Checked`); until the first debit of an account its balance only grows, so
what was read or checked is still covered; the first debit of a check that was not misled
therefore leaves no overdraft, and a second is another request's (`DebitStaysCovered`).
The second disjunct is not a way out for the text comparison: with one request only the
first is left, which is `funds_check_on_text`.

Texts.  The model compares values with `TextLess`, which renders nothing;
`FundsCheckOnTexts` says that this is JavaScript's `<` on the texts the driver hands it,
for every balance a column of this width can come to hold.  Statements keep balances
storable (`BalancesStayStorable`), and for all values of DECIMAL(15,2) (`Decimals`,
thirteen digits before the dot) `OrdersAgree` of `DataLemmas` equates the two orders.  Its
argument goes from left to right through both texts.  `LeadingOrder`: as long as the leading digits
of two numbers are equal, so are their characters, and where one falls behind, a
character before or there is smaller.  `UnsignedOrder` adds the dot, which is less than
any digit, and the decimals; `TextOrder` the sign.  Hence `TextLess` implies `CharLess`,
and since of two values one has the lesser text (`TextLessTotal`) and `CharLess` does not
hold both ways (`CharLessOneWay`), they are equivalent.  Two recursive functions
stand behind the definitions, and that they exist is proved first: the powers of ten by
naming them, the digits of a number (`DigitCharsRecurs`) from its initial parts, which exist and
agree by induction on sets of numbers (`StrongInduction`, from the library's well-foundedness
of `<`).

Refunds.  `SenderNeverLoses` depends on the limit of the column: when the balance grew
between debit and refund, both attempts to refund can fail.
`RoomForRefunds` says that the column takes every opening balance
and every request's amount twice, more than once being possible since the catch block
refunds again.  `ChangeAtMost` and the ledger then bound each balance (`RefundFits`), so
without faults a refund is never rejected, and `RefundInv` follows the handler from the
refund to its answer.

`PaidEnds` says how a transfer abroad that was paid for ends without faults, over
whichever schema.  With the column that the closing UPDATEs write: accepted and kept over
a completed row, or given back exactly once over a failed one.  Without it, which is the
table the program creates: answered 500 over a row that says completed, given back once if
the other bank had accepted it and twice if not.  This describes the code and approves
nothing; that the second half contradicts the comments and the README of the program
is findings 2 and 3.  What the property excludes is any other number of refunds, and a
mixture of the two.  Without faults and with room for refunds, a statement
after the debit is rejected only for want of the column (`OnlyColumnRejected`), so
`SettleInv` can say at each await of the catch block how often the money has been given
back, and that the bank had accepted where it was given back less often.

`SharedConnection_proofs`, for every set of clerks, payers, accounts and amounts:

| Theorem | Says |
|---|---|
| `Invariance` | `Spec => []IInv` |
| `TypeCorrect` | `Spec => []TypeOK` |
| `NothingLeftOpen` | `Spec => []NoTransactionAbandoned` |
| `AnswerIsTrue` | `Spec => []AnswerTellsOutcome` |
| `AtomicImplemented` | `Spec => AloneIsAtomic` |

`NoTransactionAbandoned` holds however calls overlap, and needs only that a caller of
`creditAccount` never awaits a statement of a transaction (`Fits`).  The rest is
about calls that do not overlap: then at most one call is under way
(`AloneInv`), and `StageInv` says for each of its awaits what its open transaction
holds: nothing, the debit (`Taken`), debit and credit (`Given`), and with the row
before COMMIT.  `RunsStep` treats the loss of an answer once for all statements;
each action's lemma then shows only what happens when the answer comes.  COMMIT maps
to the abstract transfer, a payer's UPDATE to the abstract payment, the rest to
stutters.

`Incoming_proofs`, for every set of deliveries, accounts, amounts and schemas:

| Theorem | Says |
|---|---|
| `Invariance` | `Spec => []IInv` |
| `TypeCorrect` | `Spec => []TypeOK` |
| `AnswerIsTrue` | `Spec => []AnswerTellsCredit` |
| `FailedIsUncredited` | `Spec => []FailedMeansUncredited` |
| `CreditsExplain` | `Spec => []CreditsExplainBalances` |

The strengthening is `CreditInv`: credits by await, and that the catch block, while
the connection lives, is entered only before the credit.  That rests on `Fits`: once
the credit was executed, the column `accounts.number` exists, so the later SELECT
that names it cannot fail.  `IInv` also holds that no balance falls below its
opening value.  `CreditsExplain` adds to it that each balance is the opening value and
the sum of the amounts credited, for finitely many deliveries: only the credit's UPDATE
changes a balance (`OnlyCreditsPay`), and it adds one term to one account's sum
(`OneMoreCredit`, from the sums of `DataLemmas`).

`Sessions_proofs`, for every set of requests, every lifetime and drift, any bound on the
clock and any number of faults:

| Theorem | Says |
|---|---|
| `Invariance` | `Spec => []IInv` |
| `TypeCorrect` | `Spec => []TypeOK` |
| `LateIsRefused` | `Spec => []LateNeverAdmitted` |
| `LiveIsAdmitted` | `Spec => []LiveNeverRefused` |
| `RowsAndTokens` | `Spec => []RowsBelongToTokens` |

That a late request is never admitted is not inductive: between its arrival and its
check, what made its token late must not come undone.  `LateInv` says that such a request
never awaits the user row, and that while it awaits the session row its token was ended
or its row has expired (`StaysLate`); if only the JWT had expired, it would not have got
there.  `RowInv` carries that: a row that was ended and is still there has expired (a
forced logout sets its time to now, a logout removes it), and no row is ever inserted
for a token that is known, since the INSERT comes before the answer.

`Customers_proofs`, for every set of requests and usernames, every opening balance and
payment, and any number of faults:

| Theorem | Says |
|---|---|
| `Invariance` | `Spec => []IInv` |
| `TypeCorrect` | `Spec => []TypeOK` |
| `AnswerIsTrue` | `Spec => []AnswerTellsAccount` |
| `NamesUnique` | `Spec => []OneUserPerName` |
| `AdminOwned` | `Spec => []AdminIsOurs` |
| `DeactivationSafe` | `Spec => []DeactivatedHadNothing` |
| `OnlyPaymentsPay` | `Spec => BalanceOnlyPaid` |
| `StartsSucceed` | `Spec => StartsNeverRefused` |

`BootInv` says that nobody is in the tables before the administrator, and that no
request is under way unless the server listens; hence the start's INSERT never meets the
name taken, although it checks with a count several awaits earlier, and the
administrator's account is opened when there is no other.  `HasRows` and `Explains` relate
a request's rows and its answer to its await; `MoneyStep`, the part of a step that is
about sums, needs nothing of a sum but that it depends on the accounts summed
(`TotalKept`).  A step of one request leaves the others' part of the invariant alone
(`OthersKept`), and the loss of an answer is treated once (`ServedOutcome`, on
`RepliesRuns` of `ConnectionLemmas`).

The assumptions are those of the modules on their constants.

Only model-checked: `EveryRequestAnswered`, because it is liveness under fairness.  Every
other property of a passing run is a theorem.  `Operator` has no theorem: its property is
there to be violated.

## 5. Plan

Done: every component that keeps state, in this order: `DecimalText`, `Transfers`,
`SharedConnection`, `Incoming`, `Sessions`, then `CustomerTables` with `Bootstrap`,
`Registration`, `Maintenance` and their composition `Customers`, and `Operator` over both;
each with its properties and its proofs.

What could follow: incoming and outgoing transfers on the same accounts.  `Transfers`
and `Incoming` share the tables and the connection, and `LedgerInv` and
`CreditsExplainBalances` state what each adds to a balance; a composition would show
that a balance is explained by both together, and what a delivery's credit does to
`RoomForRefunds`.

## 6. Not modelled

* `authorize` and the helpers made from it, which no route uses, and `validateSession`,
  which nothing calls and which only reads.
* `SELECT`s of the read-only endpoints and of `getCleanupStats`, which change nothing.
* The deletion of old audit records (there are none), of failed transactions
  (over the table the program creates no row is ever `failed`) and of expired roles
  (no row of `user_roles` has an `expires_at`): the statements are awaited in
  `runFullCleanup` and change nothing.
* The ids of maintenance calls, which the signatures type as numbers and the tables
  keep as UUID texts: a call names a user or an account, or one that does not exist.
* `is_active` of users, accounts and sessions as a guard: no statement that admits a
  request or moves money reads it, so a deactivated user keeps working.  The
  models follow the code; the documents offer the flag as a way to block a user.
* A server in non-strict mode, which would insert the first audit record with an empty
  id and reject the second.
* A collision of the administrator's account number, since there is no other account when
  it is inserted, and gaps in the generated ids of `roles`.
* The scripts in `scripts/`, which an administrator runs by hand.
* JWKS, the error handler, logger, configuration, Swagger, rate limits and static
  pages: no state that a modelled component reads.
* `POST /transactions` before the request has been admitted, which is `Sessions`.
* Currency: transfers ignore the currency of the destination, and so does the model.
* Names that MySQL's case-insensitive collation identifies: an account number or
  username is its own only spelling.
* Binary rounding: amounts are whole cents.  The validation of `POST /transactions` and
  the columns make them so; the amount of a delivered token is validated by nobody, and
  the server rounds it to cents in the row and in the balance, each by itself.
* Signatures of delivered tokens: the handler decodes without verifying, as its
  comment says, so a payload is whatever the caller sent.
* Contents of JSON answers, log lines, keys, hashes and random numbers.
