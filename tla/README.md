# Playtime USA Backend v2: verification project

TLA+ models of the money-handling core of this Express / Sequelize / Postgres
backend, TLC configurations that check them on small instances, and TLAPS proofs
of what matters most for every instance.  Paths and line numbers are those of
this repository; `vouchers.js`, `games.js` and the like are in `src/routes`.

## 1. The system

A tenant sells vouchers to players.  The owner issues credit to a tenant, the
tenant moves credit into a voucher pool, staff create vouchers paid by the pool,
a player redeems a voucher into a wallet (often by logging in with it), bets and
settles rounds, and staff cash the wallet out by terminating the voucher.

Every authenticated request runs in **one** Postgres transaction at READ
COMMITTED that `initTenantContext` opens (`middleware/tenantContext.js:76`);
what a handler calls a transaction is a savepoint inside it.  `attachLifecycle`
commits it on the response's `finish` event when the status is below 400, and
rolls it back on any other status or on `close`.  So the answer precedes the
commit, a 4xx undoes every write of the request, and a row lock taken by
`FOR UPDATE` or by `save()` lives until the response has been sent.  This is the
shared mechanism behind every component; the models have it as
`Finish` / `Close` / `Commit` / `Rollback` / `Release...`.

| Component | State | Operations | Hard behaviour | What makes it correct |
|---|---|---|---|---|
| Tenant funds (`ownerTenants.js`, `vouchers.js`) | TenantWallet, TenantVoucherPool, CreditLedger, Voucher codes | issue credits, allocate pool, create voucher | two rows locked in opposite orders; shortfall drawn or minted from balances read earlier; code collisions | no overdraft, books balance, each commit is one transfer, requests end |
| Player account (`vouchers.js`, `wallets.js`, `games.js`, `playerRoutes.js`, `adminPlayers.js`, `bonusService.js`) | User, Wallet, Voucher, GameRound, Session, Transaction | four redemptions, terminate, bet, settle, credit, debit, adjust | the wallet is read without a lock and written later; some vouchers are; bonus boundary | credit once, pay a round once, balance explained by its Transaction rows, deadlocks only over the session row |
| Loss limit, safety actions (`safety.js`, `playerSafetyEngine.js`) | PlayerSafetyLimit, PlayerSafetyAction, ledger sums | set limit, enforce before a bet, advise | limit set read-check-write without lock; bets without a session id go unchecked; the sums are of nothing | one request alone never raises a limit |
| Purchase orders (`purchaseOrders.js`) | PurchaseOrder: status and the columns that document it | create, approve, confirm, issue credit, mark credited, acknowledge, delete | half of the handlers lock, half read without a lock and save later | every stage is documented, nothing recorded is lost, credit follows payment |
| Voucher payout policy (`voucherOutcomeService.js`, `voucherWinCapPolicyService.js`, `voucherWalletStateService.js`, `games.js`) | metadata of Voucher and GameRound | cap, issue, redemption, bet, payout, decay | numeric edges; a settlement uses what its bet recorded, and what the client's metadata put over it; redemptions that save late | what a player has of a voucher stays within its cap where the client leaves the round alone; decay is for good but for an overlapping redemption |
| Jackpots (`jackpotService.js`, `adminJackpots.js`) | Jackpot, JackpotContribution, JackpotEvent, Wallet | contribute, hit, pay, set target, manual hit | transactions on a second connection beside the request's, which may own the winner's wallet; the pool | pot equals contributions minus hits, hits reach wallets, requests end |
| Lockouts (`utils/lockout.js`) | AuthLockout | check, record failure, clear | the counter is written in the transaction a 4xx rolls back | a lock is earned by failures |
| Refresh tokens (`routes/auth.js`, `utils/jwt.js`) | RefreshToken | login, refresh, reuse | rotation read without a lock | a spent token buys nothing |
| Staff authentication (`staffAuth.js`, `adminStaff.js`, `adminSessions.js`) | StaffUser, Session | login, create, change, revoke | state read without locks | a disabled member gets nothing new |
| Player sessions (`playerRoutes.js`, `adminPlayers.js`) | User, Session | login, touch, logout, delete | many-row updates against logins and touches | an ended session stays ended |
| Deposits and withdrawals (`finance.js`) | DepositIntent, WithdrawalIntent, Wallet | mark paid, mark sent | intent and balance read without a lock | a credit comes with its status, and only a stale read loses one |
| Ledger events (`ledgerService.js`) | LedgerEvent | record | errors swallowed | one row per event, for the loss limit to sum |
| Tenants (`ownerTenants.js`, `adminTenants.js`, `wipeService.js`) | Tenant and all that belongs to it | create, wipe, wipe all, delete, reset | table by table, against inserts below the tenant | all or nothing, nothing left behind |
| Settings (`tenantConfig.js`, `ownerSettings.js`) | SystemSetting, TenantSetting JSON | save | read, merge, write back | a save changes what it was asked to |
| Shifts, messages, push (`adminShifts.js`, `staffMessages.js`, `staffPush.js`) | ShiftClosure, StaffMessage, StaffDevice | close, send, read, delete, purge, register, notify | look, then insert or save | one row each; what is deleted stays deleted |
| Audit (`lib/security/audit.js`) | AuditLog | append | the predecessor is read without a lock | one chain per tenant |
| Request context, owner and security tools, analytics and reports, server, migrations and scripts, legacy services | see `PROJECT.json` | | mostly read-only SQL and wiring | |

Interaction: bet and settle call the loss limit, the payout policy, the ledger
and the jackpots; voucher creation spends tenant funds; purchase orders end in
tenant credit.  Components share rows through Postgres only; there are no
in-process queues.  The full list, with what is not modelled and why, is
`components` in `PROJECT.json`; everything hard to test is under `hazards`.

## 2. The modules

| Module | Models | Kind |
|---|---|---|
| `Treasury` | what tenant funding promises: issue, allocate, pay a voucher, each indivisible | abstract specification |
| `TenantFunds` | the three funding requests, their locks, failures and commits | detailed |
| `TenantFunds_proofs` | theorems about `TenantFunds` | proofs |
| `VoucherLife` | what a voucher promises: new, redeemed with its credit, terminated | abstract specification |
| `PlayerAccount` | every request that moves one player's money | detailed |
| `PlayerAccount_proofs` | theorems about `PlayerAccount` | proofs |
| `OrderLife` | what a purchase order promises: the stages in order, each with its evidence | abstract specification |
| `PurchaseOrder` | the seven requests that move an order | detailed |
| `PurchaseOrder_proofs` | theorems about `PurchaseOrder` | proofs |
| `Jackpot` | bets, manual hits and new targets, with their side transactions and the connection pool | detailed |
| `Jackpot_proofs` | theorems about `Jackpot` | proofs |
| `Access` | logins, lockouts, refresh tokens, sessions, staff members | detailed |
| `Access_proofs` | theorems about `Access` | proofs |
| `GamePlay` | bets and settlements under a voucher's payout policy, loss limit, safety actions | detailed |
| `GamePlay_proofs` | theorems about `GamePlay` | proofs |
| `BackOffice` | what owners and staff do to a tenant besides moving credits | detailed |
| `BackOffice_proofs`, `BackOfficeCommits_proofs` | theorems about `BackOffice`: what a request holds; what its commit brings about | proofs |
| `MCTenantFunds`, `MCPlayerAccount`, `MCPurchaseOrder`, `MCJackpot`, `MCAccess`, `MCGamePlay`, `MCBackOffice` | constants and symmetry for TLC | instances |

### TenantFunds

`wallet`, `pool`, `books`, `codes` are the committed rows; `books` adds two
totals, `drawn` (auto-top-up) and `minted` (owner override), that the code
records nowhere but that are needed to explain the balances.  `req[r]` is one
request: `at` is the await it is stopped at, the rest is what the handler has
read and computed.  `LockWallet` and `LockPool` are the two `FOR UPDATE` reads,
and carry the handler's checks made right after them; `WriteIssue`,
`WriteAllocate`, `WriteCreate` are the writes, visible to nobody until `Finish`
commits them; `InsertVoucher` / `RetryInsert` are the collision loop.
`DeadlockVictim` is Postgres aborting one transaction of a cycle (external).  The
bonus of a voucher has any sign, as nothing validates it (`vouchers.js:581`): a total
of nothing or less is covered by any pool and raises it.

### PlayerAccount

`db` holds the committed rows ("user", "wallet", "session", one per voucher, one per
round), `cur` their newest version, `lock` the transaction that owns each row.
A step is what happens between two awaits that another request could notice; a
write to a row the request already owns is folded into the step that took its
last lock.  A handler is a path through the places `readVoucher`, `lockVoucher`,
`lockRound`, `saveSession`, `findUser`, `readWallet`, `lockActive`, `linkWallet`,
`saveWallet`, `saveVoucher`, `lockWallet`, `lockUser`, `revokeSession`, `respond`:

| Handler | Path |
|---|---|
| staff redeem `vouchers.js:954`, wallet redeem `wallets.js:47` | lockVoucher, readWallet, saveWallet, respond |
| player redeem `vouchers.js:1367` | readVoucher, readWallet, saveWallet, saveVoucher, respond |
| login `playerRoutes.js:199` | readVoucher, findUser, readWallet, saveWallet, saveVoucher, respond |
| terminate `vouchers.js:1077` | lockVoucher, lockWallet, lockUser, revokeSession, respond |
| bet `games.js:118` | (saveSession), readWallet, lockActive, (linkWallet), saveWallet, respond |
| settle `games.js:420` | lockRound, (saveSession), readWallet, lockActive, (linkWallet), saveWallet, respond |
| credit, debit `wallets.js:282,415`, adjust `adminPlayers.js:262` | readWallet, saveWallet, respond |

`Stored` is Sequelize's `save()`: only columns the handler assigned are written,
with values computed from what it read.  The ghosts `credits`, `payouts` and
`recorded` count committed voucher credits, settlements and the sum of
`balanceAfter - balanceBefore` over committed Transaction rows.

### PurchaseOrder

`db`, `cur` and `lock` are as in PlayerAccount, per order.  A row has its
`status` and its `evidence`: which of the documenting columns (wallet address,
payment, credit, receipt, acknowledgement) are set.  `approve`, `confirm` and
`acknowledge` are two steps, `ReadOrder` without a lock and `SaveOrder`, which
waits for the row and writes what the handler assigned to what it had read;
`delete` reads first too; `issue` and `finalize` take the lock with their read
(`LockOrder`).  `NotifyOwners` is the inbox insert that may abort the
transaction although the answer stays 201.  `Begin` takes any order
id and any request slot is used again after its answer, so a history is as long
as one likes; `issued` counts how often credit was issued, up to `MaxIssued`.

### Jackpot

Two transactions per request: `main`, the request's, and `side`, the one
`sequelize.transaction()` opens on a second connection (`OpenSide`).  A bet
holds its player's wallet in `main` from `LockWallet` on, and goes through its
`Targets` one side transaction each; `Contribute` is everything `processBet` and
`processJackpotPayout` do under the jackpot's row lock, `PayWinner` the wait for
the winner's wallet in `creditJackpot`, `CommitSide` / `FailSide` the end.
`AcquireTimeout` is a pool with no connection left, as where each request holds one and
waits for its second.  Two things that the code
does not decide are variables fixed in `Init`: whether the database role is
subject to the row level security policies (`rls`; the side transaction of a bet
never sets the context they ask for), and `poolSize`.  `fed`, `hits`, `awarded`,
`won` are the sums of the contribution, event and jackpot Transaction rows.
Jackpot rows exist from the start; `ensureJackpotsForTenant` is left out.

### Access

`db`, `cur` and `lock` are as in PlayerAccount, over accounts (users and staff
members), credentials (refresh tokens and sessions), each with one `Owner`, and
lockout counters.  A login is `Gate` (the lockout check), the handler's own
action, and after a failure `FindCounter`, `MakeCounter`, `CountFailure`; a
success is `LetIn`: new rows and the counters cleared.  `Present`, `CheckHolder`
and `Rotate` are the three reads and writes of a refresh.  Logout, termination,
deletion and the reuse of a token take credentials away with an UPDATE of many
rows: `Scan` picks them from what is committed, `SweepRow` waits for each and
looks at it again, as READ COMMITTED does.  `tx` tells a transaction that is open
from one Postgres has given up after a caught error, and from the statements that
commit by themselves before the request has one.  The ghost `began` is what was
committed when the request arrived; `tries` counts the failures that were stored.
What a termination or a login with a new voucher does to money is PlayerAccount's.

### GamePlay

Money is in units of 0.0001 (also the code's EPSILON), rates in percent, and
`Money` rounds as `toMoney` does.  The policy functions of
`voucherOutcomeService.js` are operators: `MaxCashout`, `TrackedBeforeBet`,
`AtOrOverCap`, `DecayStep`, `MaxWin`, `Payouts`.  A bet is (`ResolveSession`,
`EnforceLimit`, `ReadWallet`,) `PlaceBet`; a settlement `ReadRound`,
(`ResolveSession`,) `ReadWallet`, `Settle`.  `PlaceBet` and `Settle` begin with the
voucher's row lock and write voucher, wallet and round; the wallet was read
before without one.  A round keeps the snapshot its bet recorded, with what the
client's `metadata` says of the same fields spread over it (`games.js:316`, `Metadata`,
`Over`), and a settlement prefers it to what the voucher tracks now.  A redemption is
`LockNewVoucher` (a cashier's, under the row lock) or `FindNewVoucher` (the player's,
with a login or without: no lock), then `ReadBalance`, which computes the policy from
the row as it was found, then `SaveRedemption`, which writes it whatever has become of
the row.  `SwitchMode` is a whole transaction that a round may straddle.  Limit rows are
`FindLimit`, then `InsertLimit` or `LowerLimit`; `ComputeRisk` and `IssueAction`
are the safety event.  Ghosts: `open`, `clean` and `net` of a voucher, `known`
of a request; a voucher is clean while it is played one round at a time, in
voucher mode, by bets whose metadata leave the round's fields alone.

### BackOffice

One row per table and tenant, as many as the menu gives; `lock` as before, and
an INSERT below a tenant shares a lock on the tenant's row (`Inserters`), which a
deletion waits for.  A wipe is a list of statements, `todo`, in the order of
`TENANT_WIPE_ORDER`; each DELETE picks its rows when it starts and takes them one by
one (`SweepRow`).  `Load` and `Save` are the read and the upsert of settings,
`ReadIntent`, `ReadBalance`, `Credit`, `Mark` a paid deposit, `ReadPurse` and `Bet` a
player's bet or settlement, which reads the same wallet without a lock and saves later, `Find` with
`SaveFound`, `Destroy` or `InsertNew` everything that looks first and writes then,
`StampRecord`, `ReadChain` and `WriteChain` the audit record: its time is taken
(`audit.js:67`) before its predecessor is read (71), so a record that commits in
between is later and is named all the same.  The ghost `moved` of a request
holds the rows others have committed since it arrived: a property that allows what
only an overlap can cause asks for it.

Abstracted in all modules: names, PINs, metadata the properties do not ask for,
currency, signatures and hashes, e-mails, and the lazy creation of a wallet or
pool row that is missing.

## 3. The runs

| Run | Question | Bounds |
|---|---|---|
| `funds_requests` | do the books balance, is every commit a step of `Treasury`, does every request end in spite of the lock inversion? | 2 requests, amounts 1..2, bonus -2 or none, 2 codes, fair |
| `account_locking` | credit once, round paid once, no negative balance, no deadlock but over the session, and `VoucherLife` implemented, with handlers that lock what they redeem | 3 requests at once, 2 vouchers, 2 rounds, no adjustments |
| `account_ends` | does every request end, and does a request whose copy of the balance is current move it by what it records? | 2 requests of every kind, 3 rounds, fair |
| `account_overlap` (violation) | do the Transaction rows explain the balance when requests overlap? | 2 requests |
| `order_overlap` | are stages kept and paid for in order while requests keep coming, and is a commit from a current order a step of `OrderLife`? | 2 request slots, used again and again, 1 order |
| `order_stages` (violation) | do stages only move forward when requests overlap? | 2 request slots, 1 order |
| `jackpot_side` | are pots, hits and wallets consistent, does the weekly jackpot rest, which requests end? | 2 request slots, 2 players, 2 jackpots, pool of 2 or 4, with and without row level security, fair |
| `jackpot_payout` (violation) | is the payout in the wallet of a bet that stands and found a jackpot due? | as above, not fair |
| `access_meet` | who gets, keeps and loses access; which failures count; does every request end? | 2 request slots, 8 menus, 2 players, an admin, 2 staff members, threshold 2, 3 failures, fair |
| `game_rounds` | does the policy bound what a player has of a voucher across overlaps, metadata that names the round's fields, a mode switch, old vouchers and redemptions, locked or not; what may happen to limits? | 2 request slots, 10 starts, 2 vouchers, 2 rounds, 3 kinds of metadata, 2 limit rows, 3 limit values |
| `game_loss` (violation) | does what a session has staked stay below its limit? | 2 request slots, 2 rounds |
| `backoffice_meet` | are tenants whole, wipes complete, credits of deposits paired with their status, settings, devices, messages and the audit chain kept, except by overlap; does every request end? | 2 or 3 request slots, 21 menus, 3 tenants, fair |

Why the bounds are enough: every hazard here is a conflict of two requests on
one row; three let a third request slip in between, and hold a lock cycle longer
than two.  Two amounts make balances both sufficient and insufficient, and a bonus of -2 totals below, at and above
nothing; two codes
make a collision possible and avoidable.  In PlayerAccount a unit is 0.50 FUN:
face value 2, bonus 1, trigger 1, so a stake of 1 crosses the trigger.
`MaxRunning` bounds overlap; the number of requests bounds the length of a
history, which is why `Init` also contains accounts that have already played.
In PurchaseOrder a slot is reused after each answer, so two slots suffice for one
request that sits on a stale row while any number of others complete; a third
slot was tried and found nothing new.  In Jackpot `MaxFed` stops new requests once
a jackpot has been fed so much; a draw of 1 and shares of 1 let a pot cross its
trigger, be hit twice and rest in between.  A pool of two is the one that two requests
hold together while each waits for its side connection; four connections serve two
requests and their side transactions.

Access, GamePlay and BackOffice have many kinds of requests of which few touch the
same rows.  A behaviour of theirs therefore has a menu: the requests that share
rows, or that one handler reads and another writes, meet in one.  Slots are
used again, so a history of any number of requests may run beside one that is
stuck on what it read; only the bets of GamePlay are as many as there are rounds.
In Access two failures lock and three may happen, so that counters overlap below,
at and above the threshold.  In GamePlay the amount is 3
units and the cap 6, so that one win reaches the cap and one stake leaves it, and
all rounding happens in the units themselves; two rounds overlap on one voucher,
or straddle two; of three kinds of metadata one leaves the round alone, one names its
tracked balances, one its cap and balances; three limit values leave room for one
between two others.  In
BackOffice `there` and `rows` of a menu say which rows exist and how many there
may come, and `slots` which requests each slot takes; `MaxValue` and `MaxBalance`
bound settings and bets.  A third slot is used where three requests do what two
cannot: a key that a wipe waits for is deleted by a second wipe and stored again, so
the first leaves it (`WipesComplete` says so), a record overtakes two others, a
tenant is deleted under two that insert below it.  A deleted tenant's
id is not given to another (`Begin`), as they are random.

What the bounds leave open, the theorems of section 4 close where there are any.
Requests are interchangeable, so `account_locking` and `game_rounds`, the
largest safety runs, use symmetry; the latter also of its rounds and limit rows.  Deadlock checking is off because a system with no
requests left stops.

Fairness (`FairSpec`).  TenantFunds, PlayerAccount: weak fairness of each
handler's next step (Node runs every continuation, and Postgres grants a free
lock) and of `DeadlockVictim` (`deadlock_timeout`).  It suffices because requests
are finite in number, so a lock cannot be snatched away for ever.  Jackpot, Access
and BackOffice, where requests keep coming: strong fairness of the handler's step,
for Postgres queues those who wait for a row and the pool those who wait for a
connection.  PurchaseOrder and GamePlay are checked for safety only and state no
fairness.  No fairness anywhere for `Begin`, `Close` or `LockEnds`: nobody has to
call, no client has to hang up.

`RequestsEnd` of Jackpot leaves one way to be stuck, `Hangs`: a side transaction that
waits for a wallet which the transaction of a bet holds.  Without row level security a bet
that fills a pot waits for the wallet its own request holds; and a manual hit for
a player waits, holding the jackpot, for the wallet of a bet that waits for the
jackpot.  Both waits run over two connections, so Postgres sees no cycle, and
they end only when a client hangs up.  Requests that hold the whole pool and wait for
a second connection each are not stuck: the acquire timeout ends them.

### What the runs found

* `account_overlap`: every balance change is computed from an unlocked read;
  one of two overlapping changes is lost while its Transaction row stays.
* `order_stages`: a second confirm-payment that read the order as approved sets
  it back to awaiting_credit after its credit was issued, and the credit can be
  issued again; a late approve sets any later stage back to approved.
* `jackpot_payout`: games.js:380 says that the balance returned by a bet that hits a
  jackpot includes the payout.  It never does for a bet that stands: under row level
  security the side transaction finds no wallet and is rolled back, and without it the
  side transaction waits for the wallet that the bet holds.
* `game_loss`: README.md:143 says the loss limit is enforced at bets.  It is
  compared with ledger sums that nothing is ever added to, because
  `recordLedgerEvent` lacks the tenant id its model requires and swallows the
  error; only a single stake as high as the limit is refused.

Further facts the models show by what they allow; no run is about them:

* A voucher credited twice.  `playerRoutes.js:273` (and `vouchers.js:1397`) find a new
  voucher without a lock and save it later, so two overlapping logins both credit it:
  with a menu that has "login", `VoucherCreditedOnce` is violated.
  `scripts/one_time/balance_gated_recycle_and_session_binding.sh:208` says "Voucher
  credit happens once".  `account_locking` therefore checks the property for the
  requests that lock what they redeem.
* Answers that are not kept.  A caught failure of the audit record, of a session
  insert (`LetIn`) or of the owner's inbox (`NotifyOwners`) leaves a transaction
  Postgres has given up: the answer is 2xx and COMMIT rolls back.  The retry loop
  of `vouchers.js:812-836` runs in the transaction its first unique violation has
  aborted, so a collision always ends in a 500.
* Failures that do not count.  The counter of a failed login is written in the
  transaction its 4xx rolls back: only names under an unknown tenant are ever locked
  out (`LocksAreEarned`).
* Overlaps that only `moved`, `began` or `known` excuses: two wipes, or a wipe and an
  issue of credits that waits for it, leave a tenant two wallets; two saves of
  settings lose one; two audit records share a predecessor; two refreshes of one
  token get two successors; a token is issued after the termination that disabled
  its user; a deposit marked paid twice at once is credited twice, and a bet that read
  the wallet before a credit erases it; two safety events both advise; two loss limits stand beside each other or one is raised.
* Closures of shifts have no foreign key and are not in `TENANT_WIPE_ORDER`: they
  survive wipes and the deletion of their tenant.
* A stake may be paid with more than what the voucher tracks, from a wallet that
  holds other money: the tracked balance is cut off at zero, the settlement takes the
  zero of the round's snapshot for a missing one, and what it then tracks may pass
  the cap (`NetWithinCap` says when).
* `DELETE /messages/inbox` is unreachable: `/messages/:id` takes it, and the
  cast of "inbox" to a uuid is a 500 (`StaffAuth`).  mark-sent looks at no status.
* A client's metadata goes over the snapshot of its round (`games.js:316`), so a round
  may name any tracked balance and its settlement then pays up to the cap again:
  `NetWithinCap` and `DecayPaysDown` hold only of vouchers played with metadata that
  leaves those fields alone.  Decay and the cap itself withstand any metadata.
* A player's redemption that looked a voucher up while it was new writes its policy over
  one that was redeemed and played meanwhile, decay and cap included (`Overwritten`,
  which `DecayForGood` and `CapIsFixed` except).
* A voucher with a negative bonus may raise the pool it is paid from.
* The bonus is released at a balance of 0.50 FUN; the README says 1.00.

## 4. The proofs

`TenantFunds_proofs` proves, for any set of requests, amounts and codes:
`TypeCorrect`, `NoOverdraft`, `BooksAlwaysBalance` and `Implementation`
(TenantFunds implements Treasury).  Assumptions: amounts are positive naturals, a
bonus is any integer, and `NoReq` is not a request.  `NeverOverdrawn` and `BooksBalance` are not
inductive: a commit writes what the handler computed steps earlier.  The
invariant `IInv` adds `LocksHeld` (at which places a request owns which row) and
`CopyIsCurrent` (before the write a request's copy of a row it owns is the
committed row; after it, it differs by exactly the transfer).  A lock has one
owner, so no other request can move a committed row somebody has copied; that is
the whole argument, one lemma per action.  The refinement follows: only `Finish`
with a status below 400 changes the abstract variables, and by `CopyIsCurrent`
it changes them as one transfer does.  `CopiesAreCurrent` is that part by itself.

`PlayerAccount_proofs` proves, for any requests, vouchers, rounds, amounts,
trigger and degree of overlap:

| Theorem | Holds | Statement |
|---|---|---|
| `TypeCorrect` | on every menu | the rows, locks and records keep their types |
| `RoundsPaidOnce` | on every menu | a round pays at most once |
| `VouchersCreditedOnce` | on a locking menu | a voucher is credited at most once |
| `DeadlocksNeedSession` | on a locking menu | in a set of requests that wait only for each other, a termination waits for the session of a game |
| `WalletNeverNegative` | without adjustments | the balance never falls below zero |
| `FreshRecorded` | on every menu | a request with a current copy moves the balance by what it records |
| `Implementation` | on a locking menu | PlayerAccount implements VoucherLife |

A menu is locking (`Locking`) when it has no request that redeems a voucher it
has not locked, that is neither login nor player redemption; with a login in the
menu `VoucherCreditedOnce` is violated by two that overlap.  The assumptions are
those of the module: the names differ, face value and stakes are positive.

None of the properties is inductive.  The invariant `IInv` says of every request
what it owns at each place and still knows of it (`OwnsPart`: the voucher it is
about to redeem is owned and committed as new, the round it settles owned and
pending), what it has written there (`RoundPart`, `VoucherPart`: a round it has
paid is owned, still pending in the committed state and settled in its own
version), and which places are left once it owns a row (`OrderPart`).  All of
these speak of rows the request owns, so the steps of others cannot disturb them
(`Local`, lemma `Frame`); a step that only takes and writes rows (`Grows`) has to
re-establish them for one request (`GrowsInv`).  Only `Commit` changes committed
rows, and there the parts meet the counters: what is paid was pending, so it was
not paid before (`CommitInv`).  `StuckNeedsSession` reads the lock order off
`OrderPart`: unless a termination waits for the session, the owner of the user row goes
on, hence the owner of the wallet, hence the owners of vouchers, hence that of the
session, hence those of rounds.  With the session the order breaks: a bet takes the
session before the voucher and a termination takes it last (`games.js:76`,
`vouchers.js:1197`), a deadlock that is in the code and that Postgres ends.
For the balance the invariant is extended by `Money`: what a request
read of the wallet is not negative, what it will write is what it read and its
movement, and what it has recorded is the difference (`MoneyInvariance`).  Then a
lost update still leaves a balance somebody could pay.

`PurchaseOrder_proofs` proves, for any orders and any number of requests that
overlap, on every history:

| Theorem | Statement |
|---|---|
| `TypeCorrect` | the rows, locks and records keep their types |
| `StagesDocumented` | an order has the columns of every stage up to its own |
| `EvidenceStays` | nothing an existing order has recorded is erased |
| `MoneyInOrder` | credit follows a confirmed payment, a receipt follows credit |
| `FreshFollowsLife` | a commit whose order has not changed since it was read is a step of OrderLife |
| `Implementation` | with one request at a time (`Serial`), PurchaseOrder implements OrderLife |

The difficulty is the save from a stale read.  `SeenPart` is the key: what a
handler saw without a lock, the committed order never loses, and an order that is
still pending has nothing recorded, so the columns a late approve assigns to null
were null when it read them and `save()` skips them.  `MovedPart` says what the
newest version of a row may do to the committed one, `OwnPart` who owns it,
`NewPart` that a new id is its creator's alone.  The parts are kept by kinds of
steps (lemmas `RecordInv`, `TakeInv`, `EndInv`), and each action is one of
those kinds.  In the refinement a stale read cannot happen, so each commit is a
step of `Advance` or `Delete` (`OneStage`).

`Jackpot_proofs` proves, for any jackpots, players, requests, draws, pool sizes
and either role: `TypeCorrect`, `PotsExplained`, `WinsReachWallets`,
`WeeklyHitsRest`.  The invariant says that whoever is at a locked jackpot owns it and has
computed from the pot that is still there (`SideFacts`), and that a hit for a player is
committed with the wallet in hand (`CreditFacts`).

`Access_proofs` proves, for any accounts, credentials, counters, menus, threshold
and number of requests that overlap:

| Theorem | Statement |
|---|---|
| `TypeCorrect` | the rows, locks and records keep their types |
| `LocksAreEarnedAlways` | only counters without a tenant are stored, none above the failures there were |
| `SweepsCompleteAlways` | what a request that takes access away promises is out when it answers |
| `RevokedForGoodAlways` | a credential that is out stays out |
| `GrantsAreEarnedAlways` | what a credential is granted on held when its request arrived |

Nothing here is locked while it is read, so the argument is one of stability: a
commit moves a row only forward (`Grow`: a credential that is revoked or gone stays
so, a disabled user stays disabled, an admin is never disabled), hence what a
request read, or would have read when it arrived, still bounds what is committed
(`Facts`).  `GrantPart` says that an uncommitted new credential was written by a
request entitled to it, `SweepPart` that a row is out, or will be by the commit of
the request that sweeps, once it is off its list; rows that came into being later
were not live when it arrived.  `OwnPart` says that a counter that is owned belongs
to a failure that will be rolled back.  The parts are kept by kinds of steps
(`QuietInv`, `WriteInv`, `EndInv`, `CounterInv`), and each action is one of them.

`GamePlay_proofs` proves, for any vouchers, rounds, limits, amounts, stakes, wins,
metadata, policies and ways to start, and any number of requests that overlap:

| Theorem | Statement |
|---|---|
| `TypeCorrect` | rows, locks and requests keep their types, no amount falls below zero |
| `NetStaysWithinCap` | a voucher played one round at a time, by a client that leaves the round alone, never gives more than its cap |
| `CapLeadsToDecay` | reaching the cap in a settlement puts the voucher into decay, whatever the metadata |
| `DecayIsForGood` | only a player's redemption that overlaps another takes a voucher out of decay |
| `DecayCosts` | with a least decay above zero, a round played alone in decay, by a client that leaves it alone, costs |
| `CapStays` | the cap of a redeemed voucher changes only by such a redemption |
| `LimitsFall` | one loss-limit request alone neither raises a limit nor adds a second |

`NetWithinCap` speaks of a voucher, but what keeps it is what the round that waits
has noted down at its bet.  `GoodAt` relates the two: a clean voucher is covered by
what is tracked, at most one round waits under it, and that round fits it (`Fits`:
its snapshot is what the voucher still tracks, and its stake is what the bet took
off).  `BetKeeps` and `SettleKeeps` are the arithmetic of a bet and a settlement,
`MaxWinBounds` that of the payout with its rounding.  `GoodAt` holds of the
committed rows and, since only the owner of a voucher writes it, of what each owner
would commit (`Owned`): a commit by somebody else may take waiting rounds away,
never add one (`CommitGood`).  `DecayCosts` needs the owner's part too (`PaysDown`),
since the settlement that was computed under the lock commits later.
`VoucherMoves` is all that a commit may do to a voucher; the theorems on decay and
caps follow from it.  The parts about what a request has read (`Facts`) are stable:
a redeemed voucher stays redeemed, a limit that is set stays set.  What a redemption found
may be stale when it is saved; a cashier's holds the row, so that it is not.

`BackOffice_proofs` and `BackOfficeCommits_proofs` prove, for any tenants, scopes, rows
and menus that satisfy the named assumptions, and any number of requests that overlap:

| Theorem | Statement |
|---|---|
| `Typing` | rows, locks and requests keep their types |
| `RowsStayDeleted` | a deleted row of a fresh id is not written back |
| `OtherSettingsKept` | a saved setting keeps what others saved before it was read |
| `RecordsChained` | an audit record names the newest record, up to overlaps |
| `CreditsPaired` | a deposit's credit is committed with its status; a credit or a bet moves the balance by its own amount unless that changed since it was read |
| `TenantsStayWhole` | a tenant is there with its bootstrap and alone bears its name, or gone with all below it |
| `GoneStayGone` | who adds a row of a tenant found the tenant there |
| `WipesTakeAll` | a wipe answered 200 has deleted all it found at its arrival |
| `DoublesTakeTwo` | a second closure, device row, wallet or pool takes two requests that overlap |

The assumptions say what the code takes for granted: `NamedAssumption`, that a request
finds the rows it looks up by key; `NumbersAssumption`, which tables have one row per
tenant; `WholeAssumption`, that a tenant that is there at first is there with all a
bootstrap gives it.  TLC evaluates them for every menu of the runs.

`Invariance` is about one row at a time.  `LocalPart` says what a place of a handler
implies of its record, `RowsPart` that a request locks rows of its own tables and scope
only (`Locks`), `FactsPart` that a row it found is still known, a deleted one not back,
and a tenant it inserts below there or its own.  A step of a handler is `Proper` if it
writes only free rows, in the states their tables allow; that every handler is proper
(`HandlerActsProper`), and that a proper step, a commit and a rollback keep `IInv`, are
the two halves of the proof.

What a commit does to a row depends on what its request read steps earlier, while others
committed.  `HeldRows` keeps that relation: `SettingsHeld`, what a handler is about to
save is what the committed settings still say; `AuditHeld`, the record to be named is the
newest there is; `DepositHeld`, the wallet and the deposit are held together and the
deposit was open at arrival; `BetHeld`, a bet saves the balance there is, one more or less;
each but for rows in `moved`, or keys in `patched`.  Every
part is proved in the four ways a step can look to a request (`Views`): another request
does something (`Stays`), the request arrives, works on, or is over.  `WrittenBy` lists
what each handler may write where and `Course` where it may go from there, so that a part
is checked against those two lists instead of thirty actions.

`TenantsStayWhole` relates rows of several tables, which a request writes one by one.  Its
invariant (`WholePart`) turns that into what a request in the middle of its work owes:
whoever holds a tenant's row is creating the tenant and has written all four bootstrap rows
(`Creates`), or is deleting it, and every committed row below the tenant is deleted by it or
still on its list (`Drops`, in `OwnersPart`).  `GripPart` and `BelowPart` say who
holds that row, `MadePart` that a row inserted below a tenant has the tenant there and nobody
deleting it, as its foreign key lock makes it, and `NamesPart` that two tenants with one
identifier are never there together, not even uncommitted.  For wallets and pools, `BalancesPart`: a wipe that has taken one has
inserted another or still has to (`ReplacedPart`), so a commit leaves one.

`GoneStayGone` adds `GonePart`: who passed authentication found the tenant, or a staff
member, whose tenant is there by `TenantsWhole`.  `WipesTakeAll` adds `TakenPart`: each row
there at arrival is deleted by the wipe (`Deletes`), on its list (`Pending`), taken by
somebody else (`Away`), or of a tenant the wipe has yet to come to (`Waits`).  A wipe of all
tenants looks them up after it arrived, so that a row of a tenant not on that list must be
gone: `TenantsWhole` again.

`DoublesTakeTwo` is about tables without a unique index.  `SolePart` says of each row that a
request inserts there that it is the only one, as the request would leave the rows (`After`),
unless one of them changed while it ran (`Shared`).  That is inductive with what the handler
knows before it inserts: it found none (`LookPart`), or the list of the wipe deletes them all
before its INSERT (`ListPart`), and no statement about the table follows that (`LastInsert`).
A tenant that is being created has no other rows at all, by `TenantsWhole`.

Model-checked only: liveness (`EveryRequestEnds`, `RequestsEnd`), which is out of the
prover's reach, and the runs that expect a violation.  Every other property of a passing
run is stated by a theorem.

## 5. Plan

1. (done) `TenantFunds` / `Treasury`, checked and proved.
2. (done) `PlayerAccount` / `VoucherLife`, checked and proved.
3. (done) `PurchaseOrder` / `OrderLife`, checked and proved.
4. (done) `Jackpot`, checked and proved.
5. (done) `Access`: logins, lockouts, refresh tokens and sessions, checked and proved.
6. (done) `GamePlay`: payout policy, loss limit and safety actions, checked and proved.
7. (done) `BackOffice`: tenants, settings, deposits, shifts, messages, audit; checked and proved.
8. (done) `NeverNegative` and `FreshMovesRecorded` of PlayerAccount as theorems.
9. (done) The safety properties of `BackOffice` as theorems: types, deleted rows,
   settings, the audit chain, deposits, whole tenants, wipes, gone tenants, doubles.
10. The rows of `audit_events`, written in a transaction of their own, and the
   row level security context of a request (`middleware/tenantContext.js`).
11. The bet of PlayerAccount with that of GamePlay and Jackpot in one module: each
   now takes the other's share of the request as given.

Not modelled: analytics, reports, summaries and lists only read; owner and security
tools are diagnostics no other component depends on; the legacy bet and voucher
services are not mounted; the server, the migrations and the scripts are wiring,
schema and operations.  `components` in `PROJECT.json` has a note on each.
