# ShuleFinance: TLA+ specification and proofs

ShuleFinance is a school finance system: a NestJS API (`src/apps/api`), a React
client (`src/apps/web`) and a PostgreSQL schema reached through Prisma
(`src/packages/database`). All state lives in PostgreSQL. Every HTTP request is
an asynchronous handler that awaits the database several times, and any number
of API processes run side by side, so the system's concurrency is the
interleaving of handlers at their awaits, under the isolation level each
transaction asks for. These modules model that.

## 1. Inventory

| Part | State | Operations | What is hard | What makes it correct |
| --- | --- | --- | --- | --- |
| Payments (`payments.service.ts`) | `payments`, `payment_allocations`, `receipt_sequences` | `capture`, `reverse` | lookup by idempotency key outside the transaction, SERIALIZABLE transactions that abort each other, P2002 resolved after the fact, lost answers and retries | no overpayment, one row per key, gapless receipts, append-only ledger, exact reversals |
| Reconciliation (same file) | `payment_reconciliations` | `reconcile` | reads and writes apart | each statement line is classified by the payment it names |
| Invoices (`fees.service.ts`) | `invoices`, `credit_notes`, `invoice_adjustments` | `changeInvoiceState`, `createCreditNote`, `createAdjustment` | everything is checked before the transaction and nothing in it | terminal states, credits within the charge, nothing paid on a voided invoice |
| Fee structures and batches (same file) | `fee_structures`, `fee_structure_items`, `invoice_batches` | `createStructure`, `updateStructure`, `generateBatch` | items replaced while a batch reads them, a register that changes below it, a retried key | one batch per key, which bills who was due for the items of one save |
| Statements (`fees.service.ts`, `academics.service.ts`) | none | `statement`, `presentStudent` | one sum by student, the other by invoice | both end in one balance |
| Expenses (`expenditure.service.ts`) | `expenses`, `expense_approvals` | `createExpense`, `reviewExpense` | number from a count, status checked outside the transaction | numbers unique, decided once |
| Budgets (same file) | `budgets`, `budget_items` | `saveBudget`, `reviewBudget` | two approvals at once, an edit racing an approval | one approved budget per term, approved ones immutable |
| Notifications (`reporting.service.ts`, `notification.worker.ts`) | `notification_jobs` | `queueForStudent`; `tick`, `claim`, `deliver` | several workers, crashes between claim and update, retries | held by one worker, bounded attempts, no repeat but after a failed update, settled in the end |
| Reports (`reporting.service.ts`) | none | `build`, `export`, and `queueOverdue`, `queueStudent` which go by its rows | one row per invoice, one reminder per student | who owes is reminded |
| Authentication (`auth.service.ts`, `auth.guard.ts`, `auth.controller.ts`) | `users`, `auth_sessions`, `password_reset_tokens`, the cookies of each browser | `login`, `refresh`, `logout`, `forgotPassword`, `resetPassword`, `changePassword` | token rotation racing itself and revocation, attempts counted from a stale read, lost answers | one live token per login, revocation is final, no session of an old password, a lock is earned and holds |
| Roles (`roles.service.ts`, `role-permissions.ts`) | `roles`, `role_permissions` | `create`, `update` | two updates delete and create grants at once; a matrix that is turned into grants and back | the grants are those of one save, read back as they were saved |
| Audit events | `audit_events` | inserts in the transactions of the services | the previous value is the one read before the transaction | the entries of a role form a chain |
| Academics (`academics.service.ts`) | `students`, `guardians`, `classes`, `terms`, `enrolments` | inserts, updates, upserts | unique indexes; what bills are generated from | one enrolment per student and term |
| Web client (`AuthContext.tsx`, `AppContext.tsx`, `TeamRoles.tsx`) | `user`, `permissions`, `loading`, the lists on the screen | restoring a session, signing in and out, saving a role, loading lists, entering rows | answers that overtake each other, the user and the permissions | lists are shown to who may see them, the user on the screen has the session |
| Health, metrics, configuration, HTTP envelope | none | reads | | |
| Deployment, backups, load tests | | | | |

How they interact: the services share the database and nothing else. Payments
read the invoices the fees service writes, the fees service reads the payments'
allocations and the enrolments of the academics, the reports read both and feed
the notification queue, and the worker of every API process polls that queue.
Every request but those to `/auth` passes the authentication guard, which reads
the session, and the permissions guard, which reads the grants of the roles. The
web client keeps a copy of what the API answered and nothing tells it of a
change.

## 2. Modules

| Module | Models |
| --- | --- |
| `Ledger` | the shared tables (invoices, payments, receipt sequence) and the pure sums over them: `invoiceBalance`, `autoAllocations`, `explicitAllocations` |
| `Payments` | `capture` and `reverse`, one process per request, one action per await |
| `AtomicLedger` | what the payments promise: one step per request, right for the ledger at that step |
| `PaymentsInv` | the inductive invariant of `Payments` |
| `Invoices` | `changeInvoiceState`, `createCreditNote`, `createAdjustment`: read, then write |
| `Billing` | `Payments` and `Invoices` on one database |
| `BillingInv` | the inductive invariants of `Billing`: what holds whatever overlaps, and what until requests overlap |
| `Accounts` | the statement, the student page and the report as sums over the tables of `Billing` |
| `Academics` | every write of the academics, as one step each |
| `FeeBatches` | `createStructure`, `updateStructure`, `generateBatch` over `Academics` |
| `Notifications` | the queue and its workers |
| `Expenses` | `createExpense`, `reviewExpense` and the upserts of vendors |
| `Budgets` | `saveBudget`, `reviewBudget` |
| `Sessions` | the six routes of `/auth` that write, the guard, and the cookies of the browsers |
| `RoleGrants` | the tables of `role-permissions.ts`, the seeded roles, `create`, `update` and the guards before them |
| `Workspace` | one tab of the web client with the API behind it |
| `LedgerProofs` | the theorems about `Payments`, among them the refinement of `AtomicLedger`, and about the amounts in `Payments`, `Billing` and `Accounts`, with the laws of sums they rest on |
| `ExpensesProofs`, `BudgetsProofs`, `FeeBatchesProofs`, `NotificationsProofs`, `SessionsProofs`, `RoleGrantsProofs`, `WorkspaceProofs` | the theorems of each |
| `MC*` | the instances TLC checks |

### State and actions against the code

`Ledger`: `payment[r]` is the row request `r` inserted, `None` before; it holds
the fields the properties tell apart (key, reference, student, amount,
allocations, status, receipt number, the payment it reverses). The student is
the one each allocation of the payment names. `invoice[i]` holds the status
and four sums, which is all the code ever computes from items, adjustments and
notes. Amounts are whole cents, so the 0.001 shilling tolerance of the code is
equality. There is one school: every query and every unique index is scoped by
`schoolId`.

`Listed` is the order in which the query of `capture` returns the invoices, by
`issuedAt`. `autoAllocations` is a loop with a remainder: `Share` is what one turn
takes, `Remaining` the remainder after the first `n` invoices, as a recursive
function, and `AutoAllocation` what each invoice got.

`Payments`: `pc[r]` is the await the handler of `r` is at.

| Action | Code (`payments.service.ts`) |
| --- | --- |
| `Arrive` | the lookup by idempotency key that opens both handlers (16, 20) |
| `RefuseStudent` | `Student not found` (16) |
| `BeginCapture` | the snapshot of the transaction, the allocation and its checks (16, 25-27) |
| `SerializationFailure` | `nextReceipt`'s upsert meets a row changed since the snapshot (28): SERIALIZABLE aborts it, nothing retries |
| `CommitCapture` | upsert, insert and commit, or P2002 (16, 28) |
| `ResolveClash` | the second lookup in the `catch` (16) |
| `ReadOriginal`, `BeginReversal`, `CommitReversal` | the same for `reverse` (20), which does not catch P2002 |
| `Respond` | `present` (29) |
| `Fail` | the process, the connection or the transaction's time limit gives up anywhere; what is not committed is rolled back |

A transaction is two steps, its snapshot and its commit, because the upsert of
the single `receipt_sequences` row orders all payments transactions: of two that
overlap the first to commit wins and the other is aborted. `Stale` says so. The
row lock makes the second wait, which is only a later commit.

`Invoices`: `ReadInvoice` is `findInvoice` with all the checks, `CommitInvoice`
the transaction. They are READ COMMITTED and write by id, so nothing aborts
them. `overlap` records that two requests were between the two at a time.
`noted[s]` sums the items of the credit notes that name student `s`.

`Notifications`: a lock is null, recent or older than ten minutes, and a job is
due or not; `LockAges` and `FallDue` are the clock. A worker is idle, ticking
(looking for a job), claimed, accepted (the sink took the message), failing (in
the `catch`) or down. `LoseSent` is the update to SENT that fails, or that is written and whose answer
is lost; `accepted` counts the deliveries of a job and `lost` those updates. The error of
a missing message is left out: `queueForStudent` always writes one. Delivery
that fails at the sink before acceptance cannot happen in the development sink,
which only logs.

`Expenses`: an expense is named by the request that inserted it. `createExpense`
is three steps: `FindTerm` (the active term, and the year), `CountExpenses`, and
`CommitExpense`, the transaction that upserts vendor and category and inserts
the expense or fails on its number. Vendors and categories are treated alike by
the code and are one set. `ReadExpense` and `CommitReview` are `reviewExpense`.
`NewYear`, `OpenTerm` and `AddVendor` are the clock and the routes that change
what `createExpense` reads.

`Budgets`: an item carries the save that wrote it instead of its amount. Each
handler is three steps: the checks (`ReadForSave`, `ReadForReview`), the first
statement of the transaction, which under READ COMMITTED acts on the rows
visible when it starts (`ScanItems` for the `deleteMany`, `ScanApproved` for the
`updateMany`), and the commit (`CommitSave`, `CommitReview`). `updateMany` looks
again at a row that changed while it waited for it; the deleted items are gone
either way. A P2002 rolls everything back (`Clashes`).

`Billing` adds `crossed`, which becomes TRUE when a capture is inside its
transaction while a fees request is between its read and its write: nothing
orders the two, since READ COMMITTED transactions take no part in the conflict
detection of SERIALIZABLE ones.

`Accounts`: `Statement` is `statement` with all its lines: the invoices and
adjustments of the student, and the payment allocations and credit notes that
name the student, which are rows of their own with a student of their own.
`PresentStudent` is `presentStudent`, which sums what is on the invoices
`studentInclude` fetches, `Reported` and
`LastRow` the rows of `build` that `queueOverdue` puts in a `Map` by student, of
which the last one stays. The query names no order, so any row may be the last.

`Academics`: an operation is one step, because what it checks before its
transaction (a class, a term, a year or a student is there) nothing in the API
takes back. Refused requests are no steps. `FeeBatches` runs it beside three
handlers, each a process:

| Action | Code (`fees.service.ts`) |
| --- | --- |
| `CreateStructure` | `createStructure` (17); nothing it checks can be taken back |
| `UpdateRead`, `UpdateScan`, `UpdateCommit` | `updateStructure` (18): the read and its checks, the rows its `deleteMany` finds, the commit |
| `LookUp` | the batch of the key, if there is one (19) |
| `ReadStructure`, `ReadItems`, `ReadAssignments` | the structure with what `structureInclude` (8) fetches after it, one `SELECT` after another (19) |
| `ReadEnrolments` | the students due (19) |
| `CommitBatch` | its transaction, or P2002 on the key, which nobody catches |

`stale` holds the generates of which an answer has been outdated before the
commit, `overlap` that two updates of one structure have been under way.

`Sessions` is about one account, since every statement of the service names one
user. A session, its refresh token and a reset token are named by the request
that inserted them. `family` is the login a session goes back to, through which
`expiresAt` is inherited.

| Action | Code |
| --- | --- |
| `Send` | a browser sends a request with the cookies it holds now |
| `LoginRead`, `LoginCommit`, `FailedLoginRead`, `FailedLoginCommit` | `login` and `registerFailedLogin` (`auth.service.ts` 19-45, 125-134) |
| `RefreshRead`, `RefreshCommit`, `ReuseCommit` | `refresh` (47-68): rotation, or the revocation of all sessions when the token was rotated before |
| `LogoutRead`, `LogoutCommit` | `logout` (70-81) |
| `ForgotScan`, `ForgotCommit`, `ResetRead`, `ResetCommit` | `forgotPassword`, `resetPassword` (83-111) |
| `ChangeAdmit`, `ChangeRead`, `ChangeCommit` | the guard (`auth.guard.ts` 15-36) and `changePassword` (113-123) |
| `Deliver`, `LoseAnswer` | the answer reaches the browser with `setCookies` or `clearCookies`, in any order, or does not |
| `AccessLapses`, `Lapse`, `LockLapses` | time, for the access cookie, for `expiresAt` of sessions and reset tokens, for `lockedUntil` |

`met` records the races a behaviour has met, by what two handlers have read and
are about to write (`Racing`): `rotation`, two refreshes of one session;
`revocation`, a refresh while sessions are being revoked; `password`, a login or
change while the password is being changed; `token`, two issues or uses of reset
tokens; `attempt`, a failed login beside another login; and `answer`, a lost
answer. Each property names the ones it excepts and holds whatever else is met.
`JarCurrent` excepts a lost answer and two refreshes of one session, and speaks
of a browser to which no new cookies are on their way.

`RoleGrants`: `permissionDefinitions` is the table of the code. A grant
remembers the request that wrote it. `Arrive` passes the two guards,
`CheckCreate` is the checks of `create` with `resolveGrants`, `ReadRole` the role
and its grants as `update` reads them, `CheckUpdate` the lookup of the name with
`resolveGrants` (the catalogue of permissions never changes),
`DeleteGrants` what the `deleteMany` of the READ COMMITTED transaction finds,
`CommitUpdate` the rest of it: grants that another update inserted since the
scan stay, and refuse a grant of the same code by the primary key. `audit` keeps
the matrices before and after. `overlap` says that two updates of one role have
been under way.

`Workspace`: `call` is the request of each kind that `AuthProvider` or the page
of roles has under way, `load` the loads of each list, `add` the request that
enters a row. A request is sent with the session the browser then has
(`cookie`), handled with what the roles then grant (`roles`), and answered;
answers come in any order. `Apply` is `applyUser` with the effects it triggers:
the lists of who may see them are loaded, the others emptied, except that
`loadExpenditure` leaves its lists alone while nobody is signed in (`Kept`).
`SaveRole`, `HandleRole` and `AnswerRole` are `persistRole` of the page of roles
(`TeamRoles.tsx` 19): the roles change for everybody, and the identity of who is
on the screen is read again, with new permissions perhaps (`AnswerIdentity`). A
load answers a page or the result of a search, which may be empty; of a list the
model keeps whether it has rows. `Search` is the effect of `Students.tsx` (12).
An entry remembers from which page it was sent: `recordPayment` goes on with the
`loadStudents` of that page, which asks for its permission.
`carried` holds the lists a request is about that a change of user or of
permissions has crossed, `revived` that the user left while the identity was
being read again or a role saved.

Definitions whose comment begins with FAULT are not part of the system: each is
a variant of the definition that follows it, the way a plausible bug would have
it, and the property the variant breaks is evidence that the property depends
on that line of the code.

## 3. What is checked

| Run | Instance | Shows |
| --- | --- | --- |
| `payments` | 3 requests, 2 invoices, 3 keys, 2 references, capture and reversal bodies that compete for them, fair handlers | `NoOverpayment`, `ReceiptsGapless`, `ReversalsBalance`, `FullyAllocated`, `CaptureAnswersHonest`, `OldestFirst`, the refinement `ImplementsAtomicLedger`, and `Answered`: every request that started is answered |
| `payments_replay` | as `payments` | finding: a repeated reversal shows another payment than the first answer |
| `billing` | 2 payments and 2 fees requests on a student with 2 invoices and one with a third; a capture may name invoices of both | `PaidWithinGross` and `StatementAgrees` always; `SerialCreditsWithinCharge` and `TerminalStates` until two fees requests overlap; `VoidedClear` until that or a capture crosses one |
| `billing_reminders` | as `billing` | finding: who owes on one of two invoices may be passed over by the reminders |
| `notifications` | 2 workers, 2 jobs, 3 attempts, 2 crashes, fair workers | `OneHolder`, `StrandedByCrash`, `RepeatsExplained` (a guardian is messaged again only after an update to SENT failed), and `SettledOrStranded`: what is not settled in the end was stranded by a crash |
| `expenses` | 4 requests, 2 years | `Numbering` always, `SerialDecidedOnce` until reviews overlap |
| `budgets` | 3 requests, 3 ids, 2 terms, two tables to start from | `SavesAtomic` always; `SerialOneApproved`, `ArchivedHasSuccessor` and `ApprovedImmutable` until requests overlap |
| `sessions` | 4 requests, 2 browsers, 2 passwords, a lock after 3 failures | `OneLiveToken`, `SessionsMatchPassword`, `EndedForGood`, `ResetsOnce`, `LockEarned`, `LockHolds`, `JarCurrent`, each up to the races it names |
| `roles` | 3 requests by 2 members, 4 seeded or created roles | `GrantsOfOneSave`, `PresentedAsSaved`, `AuditChains`, until two updates of one role overlap |
| `roles_settings` | as `roles` | finding: saving the Administrator with every module at Approve takes `settings.manage` away |
| `batches` | 3 requests, 2 students, 2 classes, 2 terms, 2 keys | `KeyBillsOnce` always; `BatchMatchesRegister` unless a read was outdated; `StructureOfOneSave` and `ArchivedFrozen` until two updates of one structure overlap |
| `workspace` | 2 users, 3 lists, two states of the roles, 1 load of a list at once, 1 row to enter | `TypeOK` (with `loading` set exactly while one request that may sign in is under way); `ShownToPermitted` up to lists a change has crossed; `IdentityIsSession` unless the user left while the identity was being read |

Several rules of the documentation hold only as long as no two handlers are
between their check and their commit at the same time. `overlap`, `crossed`,
`stale` and `met` are history variables that say when two have been, and the
rule is stated up to there. What the code leaves open is thereby exactly what
the qualification excepts: two overlapping credits can exceed the charge, a
capture can pay an invoice that is being voided, two reviews can decide one
expense twice, two approvals leave two approved budgets of a term, two updates
leave the fee items or the grants of both, two refreshes of one token both
succeed, and a refresh can outlive the revocation it overlaps. A message whose
update to SENT fails is sent again. In the client, a load that was sent before
the user or the permissions changed fills a list that has been emptied. A crash between
claim and update leaves a notification PROCESSING for ever, since only QUEUED
jobs are claimed.

### Bounds

Three payments requests are enough for the worst cases of the handlers: two
that compete and one that observes, retries or reverses; a serialization
failure needs two, a clash on a reference followed by a lookup that finds
nothing needs two with different keys, and a reversal that overlaps another
reversal of one payment needs three. The bodies include an amount over two
invoices, one that leaves an invoice partly paid, one that exceeds what is due
once another is paid, an explicit line, an unknown student, a shared key across
both endpoints and a shared reference. One invoice table has the older invoice
archived. Two fees requests suffice for every way one can spoil another's check.
`MaxCrashes` bounds crashes, `MaxAttempts` is 3, so that a job is tried between its
first and its last attempt, and `BatchSize` (20 in the code)
2, the number of jobs.

Four expenses requests are two expenses and two reviews, or three expenses and
one review, which is what it takes to tell a count of all expenses from a count
of some; one vendor suffices, since names only meet in an upsert. Three budget
requests with three ids are two approvals of one term and a save, a save that
clashes with a name in use, a retarget to another term, and a new budget beside
two old ones. The tables to start from hold two pending budgets of a term, or a
pending and an approved one, so that the requests are spent on overlaps.

In `billing` one capture has the amount of the older invoice, the other that of
the younger, and the reversal undoes the first; the fees requests void, archive, credit and
debit that invoice, which is every way in which they disturb each other. The third
invoice is of another student: a capture with lines may name it beside one of its
own student, and a note is entered on it.

Four authentication requests are a login, a refresh that races another refresh,
a reset, a change or a logout, and one that observes; three failed logins and
one more for the lock; or a `forgot`, another, and a reset between. Rotation
twice in a row needs three. Two browsers hold two logins, or two requests of one.
Two passwords suffice, since the code only compares them.

Three saves of roles are two that overlap and one that observes, a save of the
role that another has just created, and one by a member whose right is taken
away by the save before. The matrices share codes or not, include levels that
grant nothing, and take `team.manage` from the Administrator. In `batches` three
requests are a structure, an update or a generate, and another of either, while
any operation of the register comes between; the registrations differ in
status, class and guardian, and an enrolment in the other term and a move to
the other class are among them. `RecordStatus` is cut to the two the guards tell
apart. `LoadSlots` bounds the loads of one list
under way at once: 1 in the run, any number in the proofs. One user manages the
team and sees students and payments, the other sees expenses; a saved role takes
the students from the first and gives the second what the first has, so that
each of the ways in which `Apply` treats a list occurs at a change of user and
at a change of permissions.

### Fairness

`FairSpec` of `Payments` gives each handler weak fairness of its next step:
Node resumes a handler when the database has answered, and a handler at the
database has either its answer or an error. Arrivals are not fair, nor is
`Fail`. `Fairness` of `Notifications` gives each worker weak fairness (the timer
fires every five seconds and Node runs on what it has started, and the
orchestrator restarts a process that died) and makes time pass. `Crash` and
`LoseSent` are never forced. `LoseSent` is bounded by the attempts, so no
strong fairness is needed. The other modules state safety only: each of their
handlers is a bounded number of awaits, with no loop and no waiting but on the
database.

## 4. What is proved

All by TLAPS, for every value of the constants.

| Module | Theorem | Statement |
| --- | --- | --- |
| `LedgerProofs` | `InductiveInvariant` | `Spec => []IInv` |
| | `TypeCorrect` | `Spec => []TypeOK` |
| | `ReceiptNumbers` | `Spec => []ReceiptsGapless` |
| | `ReversalsExact` | `Spec => []ReversalsBalance` |
| | `KeysIdempotent` | `Spec => []OneRowPerKey` |
| | `LedgerAppendOnly` | `Spec => AppendOnly` |
| | `AnswersHonest` | `Spec => []CaptureAnswersHonest` |
| | `Refinement` | `Spec => ImplementsAtomicLedger` |
| | `NeverOverpaid` | `Spec => []NoOverpayment` |
| | `CapturesAllocated` | `Spec => []FullyAllocated` |
| | `AllocatesOldestFirst` | `Spec => OldestFirst` |
| | `LedgerAmongFees` | `BillingSpec => [](ReceiptsGapless /\ ReversalsBalance /\ OneRowPerKey)` |
| | `NeverPaidBeyondGross` | `BillingSpec => []PaidWithinGross` |
| | `SerialCredits` | `BillingSpec => []SerialCreditsWithinCharge` |
| | `VoidedStaysClear` | `BillingSpec => []VoidedClear` |
| | `TerminalStatesStay` | `BillingSpec => TerminalStates` |
| | `AllocatedAmongFees` | `BillingSpec => []FullyAllocated` |
| | `StatementsAgree` | `BillingSpec => []StatementAgrees` |
| `ExpensesProofs` | `InductiveInvariant`, `TypeCorrect` | `Spec => []IInv`, `Spec => []TypeOK` |
| | `NumbersUnique` | `Spec => []Numbering` |
| | `StatusAccounted` | `Spec => []StatusBacked` |
| | `ApprovalsRetained` | `Spec => DecisionsRetained` |
| | `OneDecision` | `Spec => []SerialDecidedOnce` |
| `BudgetsProofs` | `TypeCorrect` | `Spec => []TypeOK` |
| | `SavesWhole` | `Spec => []SavesAtomic` |
| | `InductiveInvariant` | `Spec /\ Decided => []IInv` |
| | `ItemsReplaced` | `Spec /\ Decided => []ItemsOfOneSave` |
| | `ApprovedOnce` | `Spec /\ Decided => []SerialOneApproved` |
| | `SuccessorApproved` | `Spec /\ Decided => []ArchivedHasSuccessor` |
| | `Immutable` | `Spec /\ Decided => ApprovedImmutable` |
| `FeeBatchesProofs` | `InductiveInvariant`, `TypeCorrect` | `Spec => []IInv`, `Spec => []TypeOK` |
| | `KeysBillOnce` | `Spec => []KeyBillsOnce` |
| | `BatchesMatch` | `Spec => BatchMatchesRegister` |
| | `ItemsOfOneSave` | `Spec => []StructureOfOneSave` |
| | `ArchivedImmutable` | `Spec => ArchivedFrozen` |
| `NotificationsProofs` | `InductiveInvariant`, `TypeCorrect` | `Spec => []IInv`, `Spec => []TypeOK` |
| | `HeldOnce` | `Spec => []OneHolder` |
| | `AttemptsLimited` | `Spec => []AttemptsBounded` |
| | `CrashesStrand` | `Spec => []StrandedByCrash` |
| | `RepeatsAreExplained` | `Spec => []RepeatsExplained` |
| | `SettledStays` | `Spec => SettledForGood` |
| `SessionsProofs` | `InductiveInvariant`, `TypeCorrect` | `Spec => []IInv`, `Spec => []TypeOK` |
| | `OneTokenLives` | `Spec => []OneLiveToken` |
| | `PasswordsMatch` | `Spec => []SessionsMatchPassword` |
| | `LocksEarned` | `Spec => []LockEarned` |
| | `EndsForGood` | `Spec => EndedForGood` |
| | `ResetsLast` | `Spec => ResetsOnce` |
| | `LockStands` | `Spec => LockHolds` |
| | `JarsCurrent` | `Spec => []JarCurrent` |
| `RoleGrantsProofs` | `InductiveInvariant`, `TypeCorrect` | `Spec => []IInv`, `Spec => []TypeOK` |
| | `SavesWhole` | `Spec => []GrantsOfOneSave` |
| | `SavedAsPresented` | `Spec => []PresentedAsSaved` |
| | `AuditChained` | `Spec => []AuditChains` |
| `WorkspaceProofs` | `InductiveInvariant`, `TypeCorrect` | `Spec => []IInv`, `Spec => []TypeOK` |
| | `PermittedOnly` | `Spec => []ShownToPermitted` |
| | `SessionOnScreen` | `Spec => []IdentityIsSession` |

`Decided` says that the first table of budgets obeys the rules that are
qualified by `~overlap`.

Assumed are only the named assumptions of the modules: `None` is no student,
request, row or body; the issue order lists every invoice once, as a query over
the rows does; the invoices to start from are credited within their charge, and
those that are voided bear no note, since `generateBatch` makes them without
either and each entry is checked; bodies have their types;
bounds are numbers, and a lock takes three failures at least, the minimum the
environment schema allows; the seeded roles have names and are no requests; the
budgets to start from obey the unique indexes, with items no request of the
behaviour wrote; and in the client that a row is entered in one list, that
nobody is no user, that the roles grant users permissions, and that the lists
that stay are lists.

The arguments.

Payments. `OneRowPerKey`, `ReversalsBalance` and `ReceiptsGapless` are about the
tables, but a commit preserves them only because of what the handler
established awaits ago. `IInv` adds that: `StageInv` (no row before the commit,
no answer before the end), `SeenInv` (a number a transaction has seen is of the
past or the present), `TargetInv` (the payment a reversal read is still recorded
and still no reversal), `ReversalInv` (a reversal's reference names what it
reverses) and `SnapshotInv` (while the receipt number is the one the capture
saw, the allocation it planned is still acceptable, since payments change only
with that number). All but the last are `LedgerInv`, which survives whatever
becomes of the invoices meanwhile. The unique indexes then give one row per key and one
reversal per payment. The refinement maps each commit to one atomic step,
which `SnapshotInv` justifies for captures and the index on
`reversed_payment_id` for reversals; every other step is a stutter or an
answer. `AnswersHonest` needs that the row of a request that has just committed
carries its key (`CommittedInv`), and that a key keeps its row.

Amounts. What is paid of an invoice is a sum over payments, a recursive function
on finite sets. Its laws (an element more or less, a difference, a sum of
naturals) are not to be had from the library, whose induction
theorems take an operator; they are proved by induction over a set of subsets, by
way of a least counterexample (`Least`, `SubsetInduction`), and so is what
`Remaining` leaves (`NatSetInduction`). Recorded payments are finitely many
because their receipts are `1 .. lastNumber`, each once. `NeverOverpaid` then
follows step by step: a capture commits an allocation that `SnapshotInv` says is
acceptable on the tables as they are, an acceptable allocation is within the
balance of each invoice, and a reversal only takes away. `AllocatesOldestFirst`
is about the loop: when something is left for an invoice, every payable one
before it has got its whole balance.

Beside fees requests `SnapshotInv` is false: a credit may lower the charge between
a capture's snapshot and its commit, and neither aborts. What is left of it is
`PlanWithin`, that the allocation stays within the items and debits of the
invoice, which nothing lowers; `GrossInv` is that with `LedgerInv`, and is
inductive whatever overlaps. Under the qualification, `CheckedCurrent` says that
the fees request which is alone between its check and its write would still pass
that check, `PlanActive` that a capture which crossed none pays active invoices,
and `VoidCurrent` that an invoice about to be voided is still unpaid: `SerialInv`.

The statement and the student page sum different things: allocations and notes by
the student they name, and by the invoice they are on. That they meet is an
invariant of the handlers, `AccountsInv`: what a capture plans is in full and on
invoices of its student (`PlanFull`), which the snapshot of an open capture still
shows, so each recorded payment is (`FullyAllocated`), whatever becomes of the
invoices; and a note names the student of its invoice (`NotesOwned`).
`StatementsAgree` then exchanges the two sums: over the payments of a student,
what each allocates to an invoice, and over the invoices of the student, what the
payments allocate to each (`SumSwap`, `SumApart`).

Expenses and budgets. `Numbering` needs more than itself because a number comes
from a count read awaits before the insertion: `CountInv` says that no number,
stored or on its way, goes beyond the count, which only grows. `SavesAtomic`
needs `WriterInv`, that what a save found was written as a whole, so that what
it leaves behind is whole saves too. Both are inductive however requests
overlap. The rules qualified by `~overlap` need `FreshInv`: what a handler has
read is still so.

Batches. `FreshInv` says that a generate that is not `stale` goes by what the
tables still say, which every operation of the register and every commit of an
update preserves, since those that would not make it stale. `AloneInv` says that
an update that is alone finds the structure and the items as it read them.
`KeyBillsOnce` rests on the unique index alone, whatever overlaps.

Notifications. `OneHolder` needs that the table says PROCESSING for a held job,
so that no other worker's claim finds it. `HoldInv` ties what a worker does to
what it holds, and `LeftInv` says that a job that may be claimed has an attempt
left. `StrandedInv` counts: a step other than `Crash` adds no stranded job, and
`Crash` at most the one its worker held. `RepeatInv` says that each delivery of a
job that may be delivered again has been followed by a failed update, and all but
one of any other: a crash leaves a job PROCESSING, which no claim finds.

Sessions. `ReplacedInv` and `ChainInv` say that the sessions of a login form a
chain in which each is revoked but the last, and that a rotation under way holds
its end; from there `OneLiveToken`. `RotatingInv` says that the login of a
rotation still has a live session, so that one that is ended has no rotation to
revive it. `GrantedInv` says that a login that is granted still has the
account's password, so that its insertion keeps `SessionsMatchPassword`.
`TokenInv` keeps one unused reset token, known to whoever is about to use or
replace it; `LockInv` that no login is granted under a lock; `CountInv` that a
count a failing login has read is not beyond the logins that failed, by which
`LockEarned` holds though increments are lost. `MetInv` says that two handlers
which race now are recorded, so that each of the others may speak of its race
only until it is met. `HolderInv` says that a browser holds tokens of its own
requests only, and `JarInv` that one which holds a replaced token has newer
cookies on their way, of a session that has not been replaced. By `ChainInv` a
login has one session that is not replaced, so a browser that holds it holds the
live one, if there is one: `JarsCurrent`.

Roles. `AloneInv` says that an update that is alone has read the matrix and
scanned the grants that it will replace, so that nothing is left of the earlier
and its audit entry continues the chain. `PresentedAsSaved` is about the tables:
every code belongs to one module and no level below VIEW reaches one
(`CodesApart`), so that the highest level among the grants of a module is the
level saved, or `NONE` where that grants nothing (`PresentedLevels`), which
grants the same again (`RoundTrip`).

Web client. That `loading` is set while exactly one request may sign somebody in
is about the cardinality of a set of requests, which is none or one
(`OneOrNone`); each answer ends the one there was, and that of `/auth/me` may
start another. `OwnRequests` says that every list with a request under way that no
change of user or permissions has crossed is one that who is on the screen may
see, the list an entry will load in the end included: from there
`ShownToPermitted`. `SessionInv` says that nobody is
on the screen while someone signs in, that somebody is while the identity is
read, a role saved or the session ended, and that a request about the session was
sent with the one that stands, unless a logout is under way: a login, the only answer that
changes the session, excludes the others. `IdentityIsSession` follows.

Each invariant was checked on the instances above before it was proved. Every
safety and action property of the runs that pass is proved. Only model-checked
is liveness (`Answered`, `SettledOrStranded`), which is beyond the prover.

## 5. Findings

| Run | What the code does |
| --- | --- |
| `payments_replay` | `reverse` answers a repeated key with the reversal, where the first answer shows the reversed payment |
| `billing_reminders` | `queueOverdue` and `queueStudent` go by one row of a student, the last, and pass over who owes on another |
| `roles_settings` | `settings.manage` is in no module of the matrix, so the first save of the Administrator removes it |

`PROJECT.json` quotes what they disagree with.

## 6. What is not modelled

- `reconcile`: a loop that inserts one row with the class of each statement
  line; nothing reads it back but a list.
- Health, metrics, environment validation, response envelopes, deployment,
  backups and load scripts: no state of the system.
- The lists, the dashboard, exports and the PDF: they read only, and their
  layout is no property. Pages of a list are queries of their own, between which
  rows may move.
- In the client: the rows of a list (the model keeps whether it has any), so
  neither rows that are replaced in place, nor which of two searches stands, nor
  whether a row just entered outlives an earlier load, which the code leaves open;
  other tabs and what they do to the session or the roles, a reload, `StrictMode`,
  more than one save of a role at a time, the staff, roles and settings kept in
  `localStorage`, translations and demo data. The permission to enter a row is
  taken to be that to view its list.
- An `include` outside a transaction is several `SELECT`s. `FeeBatches` takes those
  of a structure one by one, but for the class, the term and the count, which
  decide nothing. `findInvoice` is one read in `Invoices`: a request that writes the
  invoice between its parts overlaps it, which the rules except. A role and its
  grants are one read in `RoleGrants`: no role is removed, and a seeded one keeps
  its name.
- In `Sessions`: inactive accounts, unknown users and rate limits, which refuse
  and change nothing.
- Everywhere: floating-point arithmetic (amounts are whole cents), UUIDs and
  prefixes of numbers, receiving times, payment methods, documents, letter case,
  the wording of messages and validation of request bodies. The rows of the
  audit log other than those of role updates are inserted and never read.

Worth adding next: the rows the client replaces in place, with two changes of
one row whose answers overtake each other.
