# Egg Mart backend: TLA+ models, checks and proofs

The program is a multi-branch point-of-sale backend (Fastify, Prisma,
PostgreSQL). Its handlers are short, but they run concurrently on one database
under READ COMMITTED. So its correctness rests on conditional `UPDATE`s, row
locks, unique indexes and one flag row; the models describe those.

Paths below are relative to the repository root.

## 1. Inventory

| Part | State | Operations | Interacts with | What makes it correct |
|---|---|---|---|---|
| Stock ledger (`src/services/inventoryService.ts`) | `CashierInventory` or `BranchInventory`, `Product.stock`, `InventoryMovement` | `adjustStock`, readers, `initializeCashierInventory` | called inside the transactions of checkout, cancellation, purchase, reversal, adjustment | no negative row, stock conserved, aggregate and journal in step |
| Cutover (`prisma/prepared/03*.sql`) | `system_flags('inventory_source')`, `branch_inventories` | cutover, rollback | waits for and excludes stock transactions through the flag row | no stock lost or doubled, the old table frozen |
| Purchases, adjustments (`src/routes/admin/purchases.ts`, `inventory.ts`, `products.ts`) | purchases and reversals | receive, reverse, adjust | stock ledger | each moves stock once, all lines or none |
| Checkout (`src/services/billingService.ts`) | bills, `bill_counters` | checkout with retries | stock, credit, sessions, prices | one bill per key, gapless numbers, the validated price |
| Cancellation (`src/services/billCancellationService.ts`) | bill status | cancel | stock, credit | once, and everything is given back |
| Credit (`src/services/creditService.ts`) | `creditBalance`, `CreditTransaction` | charge, collect, reverse | checkout, cancellation | balance = ledger, each charge reversed once |
| Till sessions (`src/routes/sessions.ts`) | `CashierSession` | start, summarise, close | checkout | one open session, final totals |
| Onboarding (`src/routes/auth.ts`, `admin/invitationCodes.ts`, `cashierRequests.ts`, `cashiers.ts`, `src/lib/branchCashier.ts`) | invitation codes, cashier accounts | generate, expire, revoke, verify, sign up, approve, reject, suspend, activate | stock (a replaced cashier's stock), branches | a code is used once, one open cashier per branch |
| Authentication (`src/plugins/auth.ts`, `src/lib/session.ts`, `recentAuth.ts`) | sessions | login, logout, authenticate | suspension, password resets | a revoked account is out |
| Cashier recovery (`src/lib/cashierRecovery.ts`) | recovery requests | request, list, approve, reject, reset | authentication | a code resets once, an hourly limit |
| Admin recovery (`src/lib/adminRecovery.ts`, `recovery*.ts`, `passkeys.ts`, `src/routes/admin/security.ts`) | emergency codes, passkeys, challenges, grants, the ledger of failures | generate, register, remove, verify, reset, throttle | authentication | everything one-time, nothing outlives a reset, bounded guessing, no lockout |
| Catalog and branches (`src/lib/branchCatalog.ts`, `shopAccess.ts`, `centralAdmin.ts`, `src/routes/admin/products.ts`, `shops.ts`) | products, branches, `BranchProduct`, links of admins | create, edit, delete, assign, link, switch | stock ledger, onboarding | every branch carries every product, one admin per branch |
| UPI (`src/lib/upi.ts`, `src/routes/admin/upi.ts`) | common and branch accounts | save, resolve the receiver | bills | the receiver is the one last chosen |
| Reports, exports, serialisers, email, settings | none another part depends on | reads, formatting, single-row updates | all | out of scope |

Hard behaviours: reads made before a transaction and used inside it; two
requests that both pass a test; the cutover against transactions in flight;
lock order; retries of a request whose answer was lost; a failure after some of
the lines; a session or a grant inserted around the reset that revokes all of
them; a throttle consulted before the failure it should have counted. `PROJECT.json` lists each of them at its line under `hazards`.

## 2. Modules

| Module | Models |
|---|---|
| `StockLedger` | stock transactions, cutover and rollback scripts, replacement of a branch's cashier |
| `CreditLedger` | the credit balance and its ledger |
| `Checkout` | one checkout request from arrival to answer, held bills, sessions, prices, bill numbers |
| `CashierOnboarding` | invitation codes, signup, decisions, the one-cashier slot |
| `OneTimeSecret` | what every one-time secret promises; implemented by the codes of `CashierOnboarding` and `CashierRecovery` and by the codes and grants of `AdminRecovery` |
| `CashierRecovery` | one cashier's account: login, logout, suspension, recovery requests, reset |
| `AdminRecovery` | one admin's account: codes, passkeys, challenges, grants, reset, login |
| `RecoveryThrottle` | the throttle in front of the verifications of `AdminRecovery` |
| `Catalog` | products, branches, the rows between them, the links of admins |
| `UpiAccounts` | saves of UPI accounts and the receiver of a branch |
| `StockLedgerProofs`, `StockTotalsProofs`, `CreditLedgerProofs`, `CheckoutProofs`, `CashierOnboardingProofs`, `CashierRecoveryProofs`, `AdminRecoveryProofs` | theorems about the module each is named after (`StockTotalsProofs`: the sums of `StockLedger`) |
| `CatalogProofs` | theorems about `Catalog` and `UpiAccounts` |
| `MC*` | constants and symmetry sets for TLC, two compositions, and the scenarios of two runs |

### How a transaction is modelled

One step is one SQL statement that reads shared rows, waits for a lock or tests
a row. Prisma runs at PostgreSQL's default isolation, READ COMMITTED:

- a read sees committed values and the transaction's own writes;
- an `UPDATE` or a unique `INSERT` waits for the row's lock, and its condition is
  evaluated on the row as it is then;
- writes become visible, and locks go, at COMMIT; a ROLLBACK undoes everything.

Any open transaction may be lost at any step (`Fail`): the 15 s timeout of
`prisma.$transaction`, a dropped connection or a crash. Reads made before the
transaction are the guards of the `Begin...` actions (and single steps in
`Checkout`); what they read may be stale later.

Left out of all modules: field validation that depends on the request alone,
audit rows (except that writing them after COMMIT can fail), money rounding,
wording, formatting.

### StockLedger

A row is `<<holder, product>>` with a cashier as holder for `CashierInventory`
and a branch for `BranchInventory`. `pend`, `agg` and `moves` buffer an open
transaction's row changes, aggregate changes and journal entries.

| Action | Code |
|---|---|
| `BeginSale`, `BeginCancel`, `BeginPurchase`, `BeginReverse`, `BeginAdjustment` | the handlers up to their transaction |
| `ClaimDoc` | the conditional `UPDATE` of the bill; the unique reversal row |
| `AdjustStock` | flag `FOR SHARE`, product lookup |
| `UpdateRow` | upsert and conditional `UPDATE` of the stock row |
| `UpdateAggregate` | `Product.stock`, read-back, movement; next line |
| `ScriptLock`, `Cutover`, `CutoverRollback` | the two scripts |
| `SignUp`, `AssertNoStrandedCashierStock`, `ReadModeForApproval`, `InitializeCashierInventory`, `SuspendCashier`, `ActivateCashier` | the cashier of a branch, as far as stock is concerned |
| `DeadlockVictim` | PostgreSQL ends one transaction of a ring |

`late` and `early` stand for the timestamps the rollback script compares: a
transaction that began before the cutover may commit after it with a stamp from
before. `adjusted` is observed only. The product order is the order of the ids;
carts come sorted as `checkoutBill` sorts them, purchases and reversals come in
any order.

### CreditLedger

`chargeCredit` and `collectPayment` read (`ReadBalance`) and then write an
absolute value (`WriteBalance`); the reversal in `cancelBill` is one conditional
decrement (`ReverseCredit`). `NextBillNumber` is there because the counter row is
what serialises two checkouts of a branch. One branch only: customers and
counters belong to a branch. `ledger` is the sum of the `CreditTransaction` rows;
`missed` and `lost` are observed only: what others committed to the customer between
a transaction's read and its write, and the total of it that has been overwritten.

### Checkout

Each read before the transaction is a step; the transaction follows from
`recheck` on. Sales are of one unit of one product, with stock and counter as
single rows. `Commit` may answer with the bill or with a failure, because the
audit rows are written afterwards. `HoldBill` and `DeleteHeldBill` draw no number
(`src/routes/bills.ts:129`) and touch no stock. A cancellation is one step here, in full
in `StockLedger` and `CreditLedger`. Closing a session is two steps, the read that
tests it and the update by id; the sums it answers with are not modelled.

### CashierOnboarding

The codes of one admin. A request acts on the status and the branch it read when
it began; statements lock code rows and the branch's advisory lock. The clock is
`Expire`. `Legacy` cashiers hold no code (the seeded one, and accounts older than
the codes). `strayed` is observed only: the cashiers opened by a decision that held the
slot of a branch they had left.

### OneTimeSecret and its three implementations

A secret goes `none -> live -> spent | dead` and has its effect exactly in the step
that spends it. The detailed modules state this as a property through
`INSTANCE OneTimeSecret WITH`:

| Module | Secret | `live` | `spent` | effect |
|---|---|---|---|---|
| `CashierOnboarding` | invitation code | ACTIVE, nobody's | `usedByUserId` set | a signup |
| `CashierRecovery` | code of a request | APPROVED | COMPLETED | a new password |
| `AdminRecovery` | emergency code | unused, unrevoked | `usedAt` set | a grant |
| `AdminRecovery` | grant | unconsumed before its deadline | consumed | a new password |

The conditional `UPDATE`s and the rows' locks make these steps atomic; the modules
contain the reads before them, the waiting, and the rollbacks.

### CashierRecovery

An op is one handler; a transaction that can be overtaken has a step that takes
its row locks and one that commits. `cut` counts how often all sessions of a
cashier were revoked at once; a session remembers the `cut` its login saw. Time is
the age of a request: before its deadline, past it, out of the hourly window. The
code of a request is named by the request: any other code fails `CodeMatches`.

### AdminRecovery and RecoveryThrottle

The user row is the account's mutex: `FOR UPDATE` in a reset, a generation and a
registration. The insert of a grant, a session or a challenge takes the key-share
lock of its foreign key, which conflicts with `FOR UPDATE`: this is what keeps a
grant from slipping in beside a reset, and also what closes the rings that
`OnlyKnownDeadlocks` names. PostgreSQL breaks such a ring by aborting one
transaction (`Abort`). Wrong codes match no row; they exist in `RecoveryThrottle`.

Under the user row a generation revokes what it finds (`RevokeLiveCodes`) and then
creates its set, and a registration counts (`CountPasskeys`) and then inserts: the
limits rest on the lock, not on the size of a step. A passkey is stored with
the counter its authenticator reports, and an assertion may report any greater one,
or 0 again if none is kept (`NewCounters`, which is how `src/lib/webauthn.ts:104` describes
its library); `uses` is observed only.

`RecoveryThrottle` translates the pure functions of `src/lib/recoveryThrottle.ts`
as operators over a ledger of failure instants, and puts the handlers around
them: check, then verify, then record. Integer ticks stand for milliseconds; a second is
several ticks, so the rounding of `retryAfter` counts.

`MCAdminRecovery` and `MCCatalog` explore two modules beside each other in one run
(`SideBySide`). The pairs share no variable, so each is explored while the other
rests in its initial state and nothing is lost: the throttle can only refuse an
attempt, and `AdminRecovery` lets any attempt not happen.

`MCStockScenarios` and `MCOnboardingScenarios` keep TLC within two scenarios by an
`ACTION_CONSTRAINT`: every state reached satisfies `OneBranch` (every kind of request at one
branch) or `TwoBranches` (a second branch with fewer kinds), which together would be
too many states. Only the arrival of requests is restricted; every step, failure or end
of a request under way leads to a state of its scenario, so none is cut off.

### Catalog and UpiAccounts

Creating a product and creating a branch each read the other's table in their own
transaction; `crossed` records the pairs whose transactions overlapped, and
`contested` the branches for which two admins' handlers did (or where an approval
linked its admin without asking). A branch is created by the central
admin (`POST /admin/shops`) or by a signup (`POST /auth/admin/signup`). The
link is a statement of its own, so a crash can leave a branch without it.
The raw location typed by the user is a branch and a form (clean, untidy, malformed);
`NormalizeShopLocation` is what the code decides about it.

An upsert of the ORM is a read followed by an insert or an update; `withUpsertRetry`
repeats it once. `Intended` computes the receiver from the history of the saves.

## 3. Runs

Deadlock checking is off in all runs because every system here may fall silent:
clients need not send anything and the bounded rows run out. That no waiter is
stuck is what the liveness properties check (`stock_live`, `checkout_attempts`,
`onboarding_requests`), and what `OnlyKnownDeadlocks` is about in `admin_recovery`.

| Run | Instance | Shows |
|---|---|---|
| `stock_cutover` | scenario `OneBranch`: 1 branch, 1 cashier, 1 product, 1 bill, 1 purchase, 2 transactions, every kind of request, manual adjustments one at a time and to a net of one unit; scenario `TwoBranches`: 2 branches sharing the product, 2 bills, a second cashier signs up, is approved, suspended, activated; cutover and rollback in both | no oversell, stock conserved at each branch, the aggregate the sum over the branches, journal in step, flag lock effective, cashier rows frozen after the cutover, cancellation of a hidden product possible |
| `stock_live` | 2 products, two-line documents: 2 bills, 1 purchase, cancellations, reversals | only unsorted documents deadlock, every transaction ends |
| `credit_races` | 1 customer, 2 bills with up to 2 payments, 3 transactions | the balance is the ledger less what overlapping charges and collections overwrote, one full reversal, relative reversal |
| `checkout_attempts` | 2 attempts for the last unit, with one key or none; held bills, cancellations, common price, override, a closing session | one bill per key, stock = bills, gapless numbers, every attempt is answered |
| `onboarding_requests` | a new candidate and a suspended one, 2 codes, 2 requests at a time; scenario `OneBranch`: every kind of request; scenario `TwoBranches`: applications for 2 branches, no revocation or expiry | a code is a one-time secret, two open cashiers at a branch only if one strayed, every request ends |
| `cashier_recovery` | 1 cashier, 3 requests, 1 an hour, 1 session, 2 handlers | a code is a one-time secret, a reset or suspension cuts the older sessions, the hourly limit gives way by one request per overlapping handler at most |
| `admin_recovery` | 2 sets of 1 code, 2 grants, 2 passkeys of which 1 may be registered, counters 0 to 2, 2 challenges, 1 session, 2 handlers; throttle: 1 free failure, 1 doubling, 2 failures per address | codes and grants are one-time secrets, nothing outlives a reset, limits under the user lock, a counter buys one grant, two kinds of deadlock, bounded guessing, no lockout |
| `catalog` | 1 product, 2 branches, 2 admins, 2 handlers; UPI: 1 branch, 2 accounts, 2 handlers | rows are missing and branches shared only by an overlap or an approval, every save takes effect |

Runs that end in a counterexample, each for a statement of the repository that
the code does not keep (`findings` quotes the lines):

| Run | Statement | What happens |
|---|---|---|
| `credit_lost_update` | the balance is the sum of the ledger | a collection overwrites a concurrent change |
| `checkout_common_price` | a price change aborts the checkout | the re-check reuses the product rows read before |
| `onboarding_reapply` | a rejected cashier may re-apply | `usedByUserId` is unique and still taken |
| `onboarding_moved` | one cashier per branch | an activation locks the slot of the branch read before its transaction; the cashier has moved |

What the code leaves open besides, seen in the models or while reading. No property
states the contrary, and where one comes close (`SessionsCut`, `NothingOutlivesReset`,
`CatalogComplete`, `SharedOnlyByRace`) it excepts exactly the race named here, so it shows
that nothing else breaks the rule, not that the race is harmless:

- two overlapping starts leave two open till sessions; a checkout can commit into a
  session that is being closed; a replay that overlaps its first attempt can be
  refused for stock;
- two overlapping generations leave two live invitation codes; a late revocation
  overwrites USED, a late rejection overwrites ACTIVE;
- a cashier can be made ACTIVE beside a colleague's stock
  (`src/lib/branchCashier.ts:57`, `cashiers.ts:126`); an approval can insert zero
  `CashierInventory` rows after the cutover;
- a login that verified the old password inserts its session after the reset or
  the suspension that revokes all sessions; a suspension that lands between the
  eligibility check and the transaction of a reset does not stop the reset;
- two registration ceremonies of one admin can be live (`src/lib/passkeys.ts:129`
  reads before it writes), as can a burst of re-authentications that all pass
  `src/lib/recentAuth.ts:36`;
- a crash between the creation of a branch and its link leaves the branch without an
  admin (`src/routes/admin/shops.ts:54`), likewise an approval and its link;
- a branch can be administered by two admins: two signups that overlap, or the
  approval of a cashier, which links its admin unconditionally
  (`src/routes/admin/cashierRequests.ts:170`), although `src/routes/auth.ts:368` says that
  a signup can never link the caller to a shop another Admin already owns; a product and a
  branch created at the same time miss each other's row;
- `src/routes/admin/shops.ts:49` calls that route the only way a branch comes to exist; a
  signup of an admin makes one too;
- `src/services/customerService.ts` says that a shop has one customer per phone;
  the unique key is `(shopId, cashierId, phone)`, and `cashierId` is NULL for the customers
  of an admin;
- products inserted by `prisma/seed.ts` after the migrations have no
  `BranchProduct` rows.

### Bounds

Two concurrent transactions show every pairwise race of the handlers; three are
used where a third matters (a cancellation against a charge and a collection).
One or two units of stock put every sale at the limit, one request an hour and one
passkey every recovery at its limit. `MaxLines`, `MaxLineQty`, `MaxStock`,
`MaxPayments` and `MaxCollections` bound documents, restocking, payments of a bill
and collections; `MaxCounter` the counters authenticators report; `MaxCuts` the suspensions explored, `MaxSets` and
`MaxChallenges` what is generated, `Horizon` and `Overlap` the clock and the
handlers of the throttle; the sets `Bills`, `Purchases`, `Reqs`, `Sessions`, `Codes`,
`Closers`, `Requests`, `Grants`, `Passkeys`, `Ceremonies`, `Products`, `Branches` what may
come to exist (`Spare` keeps a row for every handler that will create one). Handlers
and interchangeable rows are symmetric in the runs without a liveness property.

`catalog` with three handlers passes as well, in four minutes; two are kept.
The throttle's instance is small but keeps the relations of the real constants:
the base delay is shorter than the window, the greatest delay as long, and the
exponential growth is observed at least once before the window ends.

`AttemptBudget` in the program's constants (5 free failures, 30 s, 15 min): four
doublings stay below the window, so nine failures a window for attempts made one
after the other, and one more for each verification running at the same time.

### Fairness

`LiveSpec` is strong fairness of a transaction's own steps: PostgreSQL queues the
waiters of a lock, so one that can repeatedly proceed does, and a handler that is
not waiting runs on. In `StockLedger` a deadlock's victim is chosen fairly and a
script that holds the flag runs to its COMMIT (`stock_live` has no script:
`FlagLockHeld` in `stock_cutover` covers their exclusion). No client is assumed to send a
request and no request is assumed to fail, so progress never comes from a loss.

## 4. Proofs

The theorems hold for any number of branches, cashiers, products, customers,
documents, requests, sessions, codes, transactions and handlers. They assume the
named `ASSUME`s of the modules and nothing else: identifiers of different tables
are different, bounds and quantities are natural numbers, cashiers and branches
are finitely many (rows of a table; the ledger sums over them), and the absent value is no
row. Each proof goes the same way: an invariant that is inductive, checked by TLC on the
instance of the run first, one lemma per action, and the properties from it.

`StockLedgerProofs`: `TypeCorrect`, `NeverOversold`, `FlagLock`,
`CashierStockStaysFrozen`. `NoOversell` is not inductive: a row could hold
`pend` of two transactions at once, or a transaction could commit into a table
chosen under the other mode. `IInv` adds that a buffered change belongs to the
holder of the row's lock, that such a holder holds the flag (`RowLockOK`,
`FlagLockHeld`; so no script changes the mode under it), and that a running
request is complete (`ReqOK`, `DocOK`). The frozen rows follow: rows locked in
BRANCH mode are branch rows. `CancelNeverRefused` and `DeadlocksAreUnsorted` need
`OInv` besides: which lines a transaction has been through and that it holds no
row beyond them (so among sorted carts the one with the greatest held product waits for nobody in
the ring), and that what a bill sold is still known to the catalogue. `JournalsChain` needs `JInv`: the
movements recorded so far are about rows the transaction has locked, so no other
commit changes what they build on, and each row's last one ends where the buffer
stands, up to the change being recorded.

`StockTotalsProofs`: `StockIsConserved`, `AggregateStaysInStep`. The invariant `TInv`
says what an open transaction has buffered: the lines it has been through, signed
by its kind, at the one holder it works on (`BufferOK`), and that the document it
undoes has the quantities it undoes and stays locked (`RequestOK`). A commit then
moves both sides of the equation by the same line totals; cutover and rollback
move quantities from the cashiers' rows to the branch's and back. The sums are the
community modules' folds, recursive functions over subsets. What they do is
proved by looking at a smallest subset on which a law would fail (the strict
subset order of a finite set is well-founded), which takes no induction rule.

`CreditLedgerProofs`: `TypeCorrect`, `OnlyOverlapsLose`, `ExactlyOneReversal`,
`CancelIsRelative`. A reversal holds the customer's row from its test to its commit
(`ReversalOK`), and a bill is reversed once because its claim is held until COMMIT
(`DocumentOK`). For the drift, `WriteOK` says of every open transaction that has the
customer's row that it is about to write the committed balance, with its own ledger
rows, without what it missed between its read and its write: so only a
transaction that reads without the lock (`chargeCredit`, `collectPayment`) adds to
`lost`, and only when another one committed in between.

`CheckoutProofs`: `TypeCorrect`, `KeysSellOnce`, `StockIsBilled`, `NumbersRun`.
What a transaction saw under its locks is still so when it commits
(`HoldersOK`): the unit it deducts is there, its number is the next one, its key has
made no bill. `LocksOK` ties the two row locks to the stages between, and
`BillsOK` says that a bill has the key of the request that made it and that a
request with a bill is over.

`CashierOnboardingProofs`: `TypeCorrect`, `CodesAreOneTime` (each code implements
`OneTimeSecret`), `OneCashierUnlessAstray`. A request that is past its claim holds the
code's row lock and the code is still ACTIVE under it (`Secured`). For the slot this is
not enough: an approval or activation locks the slot of the branch its cashier had when
it began (`src/routes/admin/cashiers.ts:116`), and a cashier who re-applied meanwhile
becomes a second one at the new branch (`onboarding_moved`). The theorem says what the
slot does guarantee, for any number of branches: of two open cashiers of a branch one
was opened in that way. `SlotsOK` is its invariant: whoever is about to open an account has
the slot of the branch it read, and everybody else open there has strayed.

`CashierRecoveryProofs`: `TypeCorrect`, `CodesAreOneTime`, `SessionsAreCut`,
`LimitHolds`. The invariant: a handler's request belongs to its cashier, a reset
holds the row of its APPROVED request, a row has one holder, and a cashier has one
open request (`OneActive`, the partial unique index). For the limit, every handler
between its count and its insert stands for one request not yet filed, so filed and
unfiled ones together never exceed the bound; the sets are counted with the theorems on
cardinality.

`AdminRecoveryProofs`: `TypeCorrect`, `ResetIsFinal`, `LimitsHold`, `CountersSpent`,
`SecretsSpentOnce` (codes and grants implement `OneTimeSecret`), `DeadlocksKnown`.
`IInv` is about the rows a handler has written and not committed: it holds them alone and they
are as it found them (`OpOK`, `LocksExclusive`). Around it are the user row, whose `FOR UPDATE`
excludes every key-share holder (`UserRowOK`: an insert in flight was born
after the last reset), and what a handler found under it: at its insert, a generation still
holds all codes that are live and a registration still has room (`FindingsHold`, which
needs that only the holder of the user row adds codes or passkeys). `CountersOK`: a
counter that is accepted is greater than the stored one, which no used one exceeds,
and the stored one is what the assertion was verified against because the `UPDATE` compares it.

The same module proves `GuessingBounded` and `NoLockout` of `RecoveryThrottle`, under its
two assumptions: the base delay is shorter than the window, the greatest delay and the
base delay doubled 20 times are no shorter (30 s; 15 minutes both). `AttemptBudget` alone is not inductive:
`ThrottleInv` budgets a handler that has passed the check together with the failures
it may become. A check that passes has seen at most `Free + Doublings` failures, for
past them the delay is a whole window and the latest failure of the ordered ledger
lies in it. For `NoLockout`, a later look at an unchanged ledger sees
the same latest failure, no more failures and so no longer delay. `Doubled` is a recursive function
on 0..20: a solution is exhibited, and its growth follows by looking at the
first place where it would fail.

`CatalogProofs`: `CatalogStaysComplete`, `SharedOnlyInRaces`,
`SavesAlwaysTakeEffect`. A creation in flight has read each row of the
other table or has overlapped with its creation (`CreationsOK`); a branch that two
admins hold or are about to hold is contested (`LinksOK`). For the UPI accounts the
second attempt of a save finds the row the first one lost to, so no save fails,
and the tables are a function of the saves' history.

Model-checked only:

- liveness (`TransactionsEnd`, `EveryRequestAnswered`, `RequestsEnd`): fairness and ENABLED
  are outside the prover's reach;
- the four statements of the repository the code does not keep are counterexamples.

## 5. Not modelled, and the plan

Not modelled for good: reports, consolidation, exports, serialisers, email,
settings, expenses, customers, profile, notifications (read-only, formatting or
single-row updates no other part depends on). Within the modelled parts: the sums
of a till session, the quote and the history of bills, suppliers, the descriptive
fields of products, branches and cashiers, the purge of challenges and grants that
have been dead for a day, the route-level rate limits of the web server (per
process and per address; they refuse a request before its handler), and the
cryptography (a code, token or assertion is right or wrong).

Every safety invariant and action property the passing runs check is a theorem. Planned
next: shorter proofs where several lemmas repeat one argument.
