----------------------------- MODULE TenantFunds -----------------------------
(***************************************************************************)
(* The funding rows of one tenant, TenantWallet and TenantVoucherPool, and *)
(* the three requests that move money through them:                        *)
(*                                                                         *)
(*   "issue"     POST /owner/tenants/:id/credits       locks the wallet    *)
(*   "allocate"  POST /owner/tenants/:id/voucher-pool  wallet, then pool   *)
(*   "create"    POST /vouchers                        pool, then wallet   *)
(*                                                                         *)
(* Each request runs in one Postgres transaction that initTenantContext    *)
(* opens and that commits when the response has been sent (status < 400)   *)
(* or rolls back (any other status, or the client went away).  A step is   *)
(* what happens between two awaits that another request can notice; the    *)
(* rows are read with FOR UPDATE, so a lock lives until that commit.       *)
(***************************************************************************)
EXTENDS Integers, FiniteSets

CONSTANTS
  Reqs,      \* request slots; each serves one request
  NoReq,     \* no owner, for a free row lock
  Amounts,   \* the cent amounts a request may name
  Bonuses,   \* the bonuses a voucher may carry; nothing validates bonusAmount
  Codes      \* voucher codes randomNumeric(6) can draw

ASSUME AmountsAssumption == Amounts \subseteq Nat \ {0}
ASSUME BonusesAssumption == Bonuses \subseteq Int
ASSUME NoReqAssumption == NoReq \notin Reqs

VARIABLES
  wallet,      \* committed TenantWallet.balanceCents
  pool,        \* committed TenantVoucherPool.poolBalanceCents
  books,       \* committed totals, see Treasury
  codes,       \* committed Voucher.code values (unique per tenant)
  walletLock,  \* the request holding the TenantWallet row FOR UPDATE
  poolLock,    \* the request holding the TenantVoucherPool row FOR UPDATE
  req          \* per request: its place in the handler and what it has read

vars == <<wallet, pool, books, codes, walletLock, poolLock, req>>

Ops == {"issue", "allocate", "create"}

\* at: the await the request is stopped at.
Places == {"idle", "wallet", "pool", "write", "insert", "retry", "respond", "done"}

NoWork == [at |-> "idle", op |-> "issue", owner |-> FALSE, amount |-> 0, status |-> 0,
           wallet |-> 0, pool |-> 0, drawn |-> 0, minted |-> 0, code |-> {}, attempts |-> 0]

\* POST /owner/tenants has created both rows, with the seed it was given.
Init ==
  /\ wallet \in Amounts \cup {0}
  /\ pool \in Amounts \cup {0}
  /\ books = [issued |-> wallet + pool, allocated |-> pool,
              vouchers |-> 0, drawn |-> 0, minted |-> 0]
  /\ codes = {}
  /\ walletLock = NoReq /\ poolLock = NoReq
  /\ req = [r \in Reqs |-> NoWork]

Committed == <<wallet, pool, books, codes>>
Locks == <<walletLock, poolLock>>

At(r, place) == req[r].at = place
Running(r) == req[r].at \notin {"idle", "done"}

-----------------------------------------------------------------------------
(* Handler steps *)

\* Authenticated, validated, config gate passed: the handler opens its
\* savepoint and asks for its first row.  Only an owner reaches the owner
\* routes; vouchers are created by owners and by tenant staff.  A voucher costs
\* its amount and its bonus: amount must be positive, bonusAmount may be any
\* number, so the total can be nothing or less, and then raises the pool.
Begin(r) ==
  /\ At(r, "idle")
  /\ \E op \in Ops, a \in Amounts, bonus \in Bonuses \cup {0}, owner \in BOOLEAN :
       /\ op \in {"issue", "allocate"} => owner /\ bonus = 0
       /\ req' = [req EXCEPT ![r].op = op, ![r].amount = a + bonus, ![r].owner = owner,
                             ![r].at = IF op = "create" THEN "pool" ELSE "wallet"]
  /\ UNCHANGED <<Committed, Locks>>

\* Seeded bug: the wallet is read without FOR UPDATE, so nobody waits.
LockWalletUnlocked(r) ==
  /\ At(r, "wallet")
  /\ walletLock' = r
  /\ req' = [req EXCEPT ![r].wallet = wallet,
                        ![r].at = IF req[r].op = "allocate" THEN "pool" ELSE "write"]
  /\ UNCHANGED <<Committed, poolLock>>

\* TenantWallet.findOne with lock UPDATE: waits while another request owns the row.
LockWallet(r) ==
  /\ At(r, "wallet")
  /\ walletLock = NoReq
  /\ walletLock' = r
  /\ LET refused == req[r].op = "allocate" /\ wallet < req[r].amount IN
     req' = [req EXCEPT ![r].wallet = wallet,
                        ![r].status = IF refused THEN 400 ELSE 0,
                        ![r].at = CASE refused -> "respond"
                                    [] ~refused /\ req[r].op = "allocate" -> "pool"
                                    [] OTHER -> "write"]
  /\ UNCHANGED <<Committed, poolLock>>

\* TenantVoucherPool.findOne with lock UPDATE.
LockPool(r) ==
  /\ At(r, "pool")
  /\ poolLock = NoReq
  /\ poolLock' = r
  /\ req' = [req EXCEPT ![r].pool = pool,
                        ![r].at = IF req[r].op = "create" THEN "wallet" ELSE "write"]
  /\ UNCHANGED <<Committed, walletLock>>

\* issue: balance + amount, and a CreditLedger row, in the open transaction.
WriteIssue(r) ==
  /\ At(r, "write") /\ req[r].op = "issue"
  /\ req' = [req EXCEPT ![r].wallet = @ + req[r].amount, ![r].status = 200, ![r].at = "respond"]
  /\ UNCHANGED <<Committed, Locks>>

WriteAllocate(r) ==
  /\ At(r, "write") /\ req[r].op = "allocate"
  /\ req' = [req EXCEPT ![r].wallet = @ - req[r].amount, ![r].pool = @ + req[r].amount,
                        ![r].status = 200, ![r].at = "respond"]
  /\ UNCHANGED <<Committed, Locks>>

\* create: the shortfall of the pool is taken from the wallet if the wallet
\* covers all of it, otherwise minted when the caller is the owner.
Shortfall(r) == IF req[r].pool < req[r].amount THEN req[r].amount - req[r].pool ELSE 0

Drawn(r)  == IF req[r].wallet >= Shortfall(r) THEN Shortfall(r) ELSE 0
Minted(r) == IF req[r].wallet < Shortfall(r) /\ req[r].owner THEN Shortfall(r) ELSE 0

WriteCreate(r) ==
  /\ At(r, "write") /\ req[r].op = "create"
  /\ LET d == Drawn(r)
         m == Minted(r)
         covered == req[r].pool + d + m >= req[r].amount
     IN IF covered
        THEN req' = [req EXCEPT ![r].wallet = @ - d, ![r].pool = @ + d + m - req[r].amount,
                                ![r].drawn = d, ![r].minted = m, ![r].at = "insert"]
        ELSE req' = [req EXCEPT ![r].status = 400, ![r].at = "respond"]
  /\ UNCHANGED <<Committed, Locks>>

\* Voucher.create under a random code.  The pool lock keeps every other
\* creation of this tenant out, so only committed codes can collide.
InsertVoucher(r) ==
  /\ At(r, "insert")
  /\ \E c \in Codes :
       req' = IF c \in codes
              THEN [req EXCEPT ![r].attempts = @ + 1, ![r].at = "retry"]
              ELSE [req EXCEPT ![r].attempts = @ + 1, ![r].code = {c},
                               ![r].status = 201, ![r].at = "respond"]
  /\ UNCHANGED <<Committed, Locks>>

\* The loop tries again in the same transaction, which the failed statement has
\* already aborted: Postgres refuses this insert whatever its code, the error
\* is not a unique violation any more, and the handler answers 500.
RetryInsert(r) ==
  /\ At(r, "retry")
  /\ req' = [req EXCEPT ![r].attempts = @ + 1, ![r].status = 500, ![r].at = "respond"]
  /\ UNCHANGED <<Committed, Locks>>

-----------------------------------------------------------------------------
(* The end of a request: attachLifecycle *)

\* Seeded bug: only the wallet row is let go.
ReleaseWalletOnly(r) ==
  /\ walletLock' = IF walletLock = r THEN NoReq ELSE walletLock
  /\ UNCHANGED poolLock

ReleaseLocks(r) ==
  /\ walletLock' = IF walletLock = r THEN NoReq ELSE walletLock
  /\ poolLock' = IF poolLock = r THEN NoReq ELSE poolLock

\* What the open transaction of r leaves behind when it commits.
Commit(r) ==
  LET q == req[r] IN
  /\ wallet' = q.wallet
  /\ pool' = IF q.op = "issue" THEN pool ELSE q.pool
  /\ books' = CASE q.op = "issue" -> [books EXCEPT !.issued = @ + q.amount]
                [] q.op = "allocate" -> [books EXCEPT !.allocated = @ + q.amount]
                [] OTHER -> [books EXCEPT !.vouchers = @ + q.amount, !.drawn = @ + q.drawn,
                                          !.minted = @ + q.minted]
  /\ codes' = codes \cup q.code

\* Seeded bug: the transaction commits whatever the status is.
FinishAlwaysCommits(r) ==
  /\ At(r, "respond")
  /\ Commit(r)
  /\ ReleaseLocks(r)
  /\ req' = [req EXCEPT ![r].at = "done"]

\* res "finish": the client has the answer; commit if it was a success.
Finish(r) ==
  /\ At(r, "respond")
  /\ IF req[r].status < 400 THEN Commit(r) ELSE UNCHANGED Committed
  /\ ReleaseLocks(r)
  /\ req' = [req EXCEPT ![r].at = "done"]

\* res "close" before "finish", a lost connection or a failed commit: rollback.
Close(r) ==
  /\ Running(r)
  /\ ReleaseLocks(r)
  /\ req' = [req EXCEPT ![r].at = "done", ![r].status = 0]
  /\ UNCHANGED Committed

\* r waits for a row that s owns.
WaitsFor(r, s) ==
  \/ At(r, "wallet") /\ walletLock = s
  \/ At(r, "pool") /\ poolLock = s

\* Postgres' deadlock detector aborts one transaction of a cycle; its handler
\* catches the error and answers 500.
DeadlockVictim(r) ==
  /\ \E s \in Reqs : WaitsFor(r, s) /\ WaitsFor(s, r)
  /\ ReleaseLocks(r)
  /\ req' = [req EXCEPT ![r].at = "done", ![r].status = 500]
  /\ UNCHANGED Committed

-----------------------------------------------------------------------------

HandlerStep(r) ==
  \/ LockWallet(r) \/ LockPool(r)
  \/ WriteIssue(r) \/ WriteAllocate(r) \/ WriteCreate(r)
  \/ InsertVoucher(r) \/ RetryInsert(r)
  \/ Finish(r)

Next == \E r \in Reqs : Begin(r) \/ HandlerStep(r) \/ Close(r) \/ DeadlockVictim(r)

Spec == Init /\ [][Next]_vars

\* Every handler runs on, Postgres grants a free lock and breaks a cycle; no
\* request has to arrive and no client has to disconnect.
Fairness ==
  \A r \in Reqs : WF_vars(HandlerStep(r)) /\ WF_vars(DeadlockVictim(r))

FairSpec == Spec /\ Fairness

-----------------------------------------------------------------------------
(* Properties *)

Work == [at : Places, op : Ops, owner : BOOLEAN, amount : Int, status : {0, 200, 201, 400, 500},
         wallet : Int, pool : Int, drawn : Nat, minted : Nat,
         code : SUBSET Codes, attempts : Nat]

\* The type invariant of the rows, the locks and the request records.
TypeOK ==
  /\ wallet \in Int /\ pool \in Int
  /\ books \in [issued : Nat, allocated : Nat, vouchers : Int, drawn : Nat, minted : Nat]
  /\ codes \subseteq Codes
  /\ walletLock \in Reqs \cup {NoReq}
  /\ poolLock \in Reqs \cup {NoReq}
  /\ req \in [Reqs -> Work]

\* Overlapping requests never overdraw: the balance check of an allocation and
\* of a voucher (ownerTenants.js, vouchers.js) still holds when it commits.
NeverOverdrawn == wallet >= 0 /\ pool >= 0

\* Both balances are explained to the cent by what was issued, allocated, drawn,
\* minted and spent: no overlap of requests loses or doubles a transfer.
BooksBalance ==
  /\ wallet = books.issued - books.allocated - books.drawn
  /\ pool = books.allocated + books.drawn + books.minted - books.vouchers

\* Every request that arrives ends, although "create" and "allocate" take the
\* same two row locks in opposite orders.
EveryRequestEnds == \A r \in Reqs : Running(r) ~> At(r, "done")

\* Implementation of the abstract treasury: each commit is one transfer.
Abstract == INSTANCE Treasury
ImplementsTreasury == Abstract!Spec
=============================================================================
