---------------------------- MODULE PlayerAccount ----------------------------
(***************************************************************************)
(* One player account: the User row, its Wallet row, the vouchers redeemed *)
(* into it, its game rounds and the session its games may name, and every  *)
(* request that moves its money.                                           *)
(*                                                                         *)
(* A request is one Postgres transaction at READ COMMITTED that commits    *)
(* after a response below 400 and is rolled back otherwise.  A plain       *)
(* findOne reads the committed row and takes no lock; FOR UPDATE and       *)
(* save() take the row lock and keep it until the end; save() writes only  *)
(* the columns the handler assigned, with values computed from what it     *)
(* read before.  Writes to rows the request already owns are folded into   *)
(* the step that took the last lock: nobody can see them earlier.          *)
(***************************************************************************)
EXTENDS Integers, FiniteSets

CONSTANTS
  Reqs,          \* request slots; each serves one request
  NoReq,         \* owner of a free row
  Vouchers,      \* the vouchers of the tenant that can reach this account
  Key,           \* the voucher whose code is the username: player login creates the account
  NoVoucher,     \* wallet.activeVoucherId = null
  Rounds,        \* GameRound ids
  NoRound,
  Menu,          \* which requests may arrive, a subset of Ops
  Stakes,        \* bet, credit, debit and adjustment amounts
  Wins,          \* computed payouts of a settlement, 0 included
  Face, Bonus,   \* Voucher.amount and bonusAmount
  BonusTrigger,  \* BONUS_TRIGGER_BALANCE
  MaxRunning     \* how many requests of this account may overlap

Redeemers == {"staffRedeem", "walletRedeem", "playerRedeem", "login"}
UnlockedRedeemers == {"playerRedeem", "login"}
PlayerOps == {"walletRedeem", "playerRedeem", "bet", "settle"}
Ops == Redeemers \cup {"terminate", "bet", "settle", "credit", "debit", "adjust"}

ASSUME KeyAssumption == Key \in Vouchers
ASSUME NamesAssumption ==
  /\ NoReq \notin Reqs /\ NoVoucher \notin Vouchers /\ NoRound \notin Rounds
  /\ Vouchers \cap Rounds = {}
  /\ {"user", "wallet", "session"} \cap (Vouchers \cup Rounds) = {}
ASSUME AmountsAssumption ==
  /\ Stakes \subseteq Nat \ {0} /\ Wins \subseteq Nat
  /\ Face \in Nat \ {0} /\ Bonus \in Nat /\ BonusTrigger \in Nat
ASSUME MenuAssumption == Menu \subseteq Ops /\ MaxRunning \in Nat

Rows == {"user", "wallet", "session"} \cup Vouchers \cup Rounds

VARIABLES
  db,        \* the committed rows
  cur,       \* the newest version of each row; differs from db only where it is locked
  lock,      \* the transaction that owns each row
  req,       \* per request: its place in the handler and what it has read
  credits,   \* committed voucher_credit rows of each voucher (bonus rows apart)
  payouts,   \* committed settlements of each round
  recorded   \* sum of balanceAfter - balanceBefore over the committed Transaction rows

vars == <<db, cur, lock, req, credits, payouts, recorded>>
Ghosts == <<credits, payouts, recorded>>

Places == {"idle", "readVoucher", "lockVoucher", "lockRound", "saveSession", "findUser",
           "readWallet", "lockActive", "linkWallet", "saveWallet", "saveVoucher",
           "lockWallet", "lockUser", "revokeSession", "respond", "done"}

WalletRow == [balance : Int, pending : Nat, active : Vouchers \cup {NoVoucher}]
VoucherRow == [status : {"new", "redeemed", "terminated"}, used : BOOLEAN]
UserRow == [status : {"none", "active", "inactive"}]
RoundRow == [status : {"none", "pending", "settled"}]
SessionRow == [live : BOOLEAN]

NoWallet == [balance |-> 0, pending |-> 0, active |-> NoVoucher]
NoWork == [at |-> "idle", op |-> "login", v |-> Key, g |-> NoRound, amount |-> 0,
           status |-> 0, seen |-> NoWallet, change |-> 0, credited |-> {}, paid |-> {}]

\* Before the first login, and after it: the key voucher is redeemed, its
\* bonus may be pending, and one round may wait for its settlement.  The session
\* is one that login opened; those of later logins are Access's.
Fresh ==
  [x \in Rows |->
     CASE x = "user" -> [status |-> "none"]
       [] x = "wallet" -> NoWallet
       [] x = "session" -> [live |-> FALSE]
       [] x \in Vouchers -> [status |-> "new", used |-> FALSE]
       [] OTHER -> [status |-> "none"]]

Playing(balance, pending, open) ==
  [x \in Rows |->
     CASE x = "user" -> [status |-> "active"]
       [] x = "wallet" -> [balance |-> balance, pending |-> pending, active |-> Key]
       [] x = "session" -> [live |-> TRUE]
       [] x \in Vouchers -> [status |-> IF x = Key THEN "redeemed" ELSE "new", used |-> x = Key]
       [] OTHER -> [status |-> IF x \in open THEN "pending" ELSE "none"]]

Init ==
  /\ \/ /\ db = Fresh
        /\ credits = [v \in Vouchers |-> 0]
     \/ /\ \E b \in 0..Face, p \in {0, Bonus}, open \in {{}} \cup {{g} : g \in Rounds} :
             /\ p > 0 => b = Face
             /\ db = Playing(b, p, open)
        /\ credits = [v \in Vouchers |-> IF v = Key THEN 1 ELSE 0]
  /\ cur = db
  /\ lock = [x \in Rows |-> NoReq]
  /\ req = [r \in Reqs |-> NoWork]
  /\ payouts = [g \in Rounds |-> 0]
  /\ recorded = db["wallet"].balance

At(r, place) == req[r].at = place
Running(r) == req[r].at \notin {"idle", "done"}

\* Where the handler of r goes next, and how it answers.
Goto(r, place) == [req EXCEPT ![r].at = place]
Answer(r, status) == [req EXCEPT ![r] = [@ EXCEPT !.at = "respond", !.status = status]]

-----------------------------------------------------------------------------
(* Reading, and locking with FOR UPDATE *)

\* resolveSessionId: a game request may name its session, which is found while it is
\* live and then saved (lastSeenAt), whatever became of it.
SessionPlaces == {"readWallet"} \cup IF db["session"].live THEN {"saveSession"} ELSE {}

FirstPlaces(op) ==
  CASE op \in UnlockedRedeemers -> {"readVoucher"}
    [] op \in {"staffRedeem", "walletRedeem", "terminate"} -> {"lockVoucher"}
    [] op = "settle" -> {"lockRound"}
    [] op = "bet" -> SessionPlaces
    [] OTHER -> {"readWallet"}

Arrived(r, op, v, g, a, place) ==
  [req EXCEPT ![r].op = op, ![r].v = v, ![r].g = g, ![r].amount = a, ![r].at = place]

\* requireAuth and staffAuth let the request in: a player must be active, and
\* staff name an account that exists.  Only login works without one.
Begin(r) ==
  /\ At(r, "idle")
  /\ Cardinality({s \in Reqs : Running(s)}) < MaxRunning
  /\ \E op \in Menu, v \in Vouchers, g \in Rounds \cup {NoRound}, a \in Stakes :
       /\ op # "login" => db["user"].status # "none"
       /\ op \in PlayerOps => db["user"].status = "active"
       /\ op = "login" => v = Key
       /\ op = "settle" <=> g # NoRound
       /\ \E place \in FirstPlaces(op) : req' = Arrived(r, op, v, g, a, place)
  /\ UNCHANGED <<db, cur, lock, Ghosts>>

\* login and POST /vouchers/redeem look for a new voucher without a lock.  A
\* login that finds none is a re-login, which moves no money.
ReadVoucher(r) ==
  /\ At(r, "readVoucher")
  /\ req' = CASE db[req[r].v].status = "new" ->
                   Goto(r, IF req[r].op = "login" THEN "findUser" ELSE "readWallet")
              [] req[r].op = "login" /\ db["user"].status = "active" -> Answer(r, 200)
              [] OTHER -> Answer(r, 404)
  /\ UNCHANGED <<db, cur, lock, Ghosts>>

\* Seeded bugs: the voucher is read without FOR UPDATE; the status is not asked for.
LockNewVoucherUnlocked(r) ==
  /\ At(r, "lockVoucher") /\ req[r].op # "terminate"
  /\ req' = IF db[req[r].v].status = "new" THEN Goto(r, "readWallet") ELSE Answer(r, 404)
  /\ UNCHANGED <<db, cur, lock, Ghosts>>

LockVoucherAnyStatus(r) ==
  /\ At(r, "lockVoucher") /\ req[r].op # "terminate"
  /\ lock[req[r].v] = NoReq
  /\ lock' = [lock EXCEPT ![req[r].v] = r]
  /\ req' = Goto(r, "readWallet")
  /\ UNCHANGED <<db, cur, Ghosts>>

\* staffRedeem and walletRedeem: findOne where status is new, FOR UPDATE.  A row
\* that is not new is not waited for; one that is stops being found if the
\* owner we wait for changes it.
LockNewVoucher(r) ==
  /\ At(r, "lockVoucher") /\ req[r].op # "terminate"
  /\ LET v == req[r].v IN
     \/ /\ db[v].status = "new"
        /\ lock[v] = NoReq
        /\ lock' = [lock EXCEPT ![v] = r]
        /\ req' = Goto(r, "readWallet")
     \/ /\ db[v].status # "new"
        /\ req' = Answer(r, 404)
        /\ UNCHANGED lock
  /\ UNCHANGED <<db, cur, Ghosts>>

\* terminate finds the voucher in any status.  One that was never redeemed has
\* no wallet or player behind it.
LockAnyVoucher(r) ==
  /\ At(r, "lockVoucher") /\ req[r].op = "terminate"
  /\ LET v == req[r].v IN
     /\ lock[v] = NoReq
     /\ lock' = [lock EXCEPT ![v] = r]
     /\ \/ /\ db[v].status = "terminated"
           /\ req' = Answer(r, 400)
           /\ UNCHANGED cur
        \/ /\ db[v].status # "terminated" /\ db[v].used
           /\ req' = Goto(r, "lockWallet")
           /\ UNCHANGED cur
        \/ /\ db[v].status # "terminated" /\ ~db[v].used
           /\ cur' = [cur EXCEPT ![v].status = "terminated"]
           /\ req' = Answer(r, 200)
  /\ UNCHANGED <<db, Ghosts>>

\* Seeded bug: the round is read without FOR UPDATE.
LockRoundUnlocked(r) ==
  /\ At(r, "lockRound")
  /\ req' = CASE db[req[r].g].status = "none" -> Answer(r, 404)
              [] db[req[r].g].status = "settled" -> Answer(r, 400)
              [] OTHER -> Goto(r, "readWallet")
  /\ UNCHANGED <<db, cur, lock, Ghosts>>

\* settle: findOne FOR UPDATE, its checks, and the session it may name.
LockRound(r) ==
  /\ At(r, "lockRound")
  /\ LET g == req[r].g IN
     \/ /\ db[g].status = "none"
        /\ req' = Answer(r, 404)
        /\ UNCHANGED lock
     \/ /\ db[g].status # "none"
        /\ lock[g] = NoReq
        /\ lock' = [lock EXCEPT ![g] = r]
        /\ \/ db[g].status = "settled" /\ req' = Answer(r, 400)
           \/ /\ db[g].status # "settled"
              /\ \E place \in SessionPlaces : req' = Goto(r, place)
  /\ UNCHANGED <<db, cur, Ghosts>>

\* session.save() of a bet or a settlement: the row is locked until it ends.
SaveSession(r) ==
  /\ At(r, "saveSession")
  /\ lock["session"] = NoReq
  /\ lock' = [lock EXCEPT !["session"] = r]
  /\ req' = Goto(r, "readWallet")
  /\ UNCHANGED <<db, cur, Ghosts>>

\* User.findOrCreate by username: an insert waits for a concurrent insert of the
\* same (tenant, username) and then finds that user.
FindUser(r) ==
  /\ At(r, "findUser")
  /\ \/ /\ db["user"].status = "none"
        /\ lock["user"] = NoReq
        /\ lock' = [lock EXCEPT !["user"] = r]
        /\ cur' = [cur EXCEPT !["user"].status = "active"]
        /\ req' = Goto(r, "readWallet")
     \/ /\ db["user"].status # "none"
        /\ req' = IF db["user"].status = "active" THEN Goto(r, "readWallet") ELSE Answer(r, 403)
        /\ UNCHANGED <<cur, lock>>
  /\ UNCHANGED <<db, Ghosts>>

\* Seeded bug: bets and settlements lock the wallet when they read it, which is before
\* they lock its voucher.
ReadWalletForUpdate(r) ==
  /\ At(r, "readWallet")
  /\ LET plays == req[r].op \in {"bet", "settle"} IN
     /\ plays => lock["wallet"] = NoReq
     /\ lock' = IF plays THEN [lock EXCEPT !["wallet"] = r] ELSE lock
     /\ req' = [req EXCEPT ![r].seen = db["wallet"],
                           ![r].at = IF plays THEN "lockActive" ELSE "saveWallet"]
  /\ UNCHANGED <<db, cur, Ghosts>>

\* getOrCreateWallet: no lock, whatever the handler goes on to do.
ReadWallet(r) ==
  /\ At(r, "readWallet")
  /\ req' = [req EXCEPT ![r].seen = db["wallet"],
                        ![r].at = IF req[r].op \in {"bet", "settle"} THEN "lockActive"
                                                                     ELSE "saveWallet"]
  /\ UNCHANGED <<db, cur, lock, Ghosts>>

\* Vouchers resolveActiveVoucher may fall back to when the wallet has no link.
Redeemed == {v \in Vouchers : db[v].status = "redeemed" /\ db[v].used}

\* resolveActiveVoucher: the linked voucher in whatever status, else a redeemed
\* one, whose link is saved at once, else a refusal.
LockActive(r) ==
  /\ At(r, "lockActive")
  /\ LET linked == req[r].seen.active IN
     \/ /\ linked # NoVoucher
        /\ lock[linked] = NoReq
        /\ lock' = [lock EXCEPT ![linked] = r]
        /\ req' = Goto(r, "saveWallet")
     \/ /\ linked = NoVoucher
        /\ \E v \in Redeemed :
             /\ lock[v] = NoReq
             /\ lock' = [lock EXCEPT ![v] = r]
             /\ req' = [req EXCEPT ![r].v = v, ![r].at = "linkWallet"]
     \/ /\ linked = NoVoucher /\ Redeemed = {}
        /\ req' = Answer(r, 403)
        /\ UNCHANGED lock
  /\ UNCHANGED <<db, cur, Ghosts>>

LinkWallet(r) ==
  /\ At(r, "linkWallet")
  /\ lock["wallet"] = NoReq
  /\ lock' = [lock EXCEPT !["wallet"] = r]
  /\ cur' = [cur EXCEPT !["wallet"].active = req[r].v]
  /\ req' = Goto(r, "saveWallet")
  /\ UNCHANGED <<db, Ghosts>>

-----------------------------------------------------------------------------
(* Writing *)

\* applyPendingBonusIfEligible on the handler's copy of the wallet.
WithBonus(w) ==
  IF w.pending > 0 /\ w.balance <= BonusTrigger
  THEN [w EXCEPT !.balance = @ + w.pending, !.pending = 0]
  ELSE w

\* save() of a wallet w computed from the copy r read: the balance always, the
\* bonus and the link only if the handler assigned them.
Stored(r, w) ==
  LET old == cur["wallet"]
      q == req[r] IN
  [balance |-> w.balance,
   pending |-> IF q.op \in Redeemers \/ w.pending # q.seen.pending THEN w.pending ELSE old.pending,
   active  |-> IF q.op \in Redeemers THEN w.active ELSE old.active]

\* Wallet.save with its Transaction row, and with it the other rows the request
\* owns or inserts.
SaveRows(r, w, others) ==
  /\ lock["wallet"] \in {NoReq, r}
  /\ lock' = [x \in Rows |-> IF x = "wallet" \/ x \in DOMAIN others THEN r ELSE lock[x]]
  /\ cur' = [x \in Rows |-> CASE x = "wallet" -> Stored(r, w)
                              [] x \in DOMAIN others -> others[x]
                              [] OTHER -> cur[x]]
  /\ UNCHANGED <<db, Ghosts>>

\* creditVoucherToWallet on the handler's copy.
Credited(r) ==
  LET old == req[r].seen IN
  WithBonus([balance |-> old.balance + Face, pending |-> old.pending + Bonus, active |-> req[r].v])

UsedVoucher == [status |-> "redeemed", used |-> TRUE]

\* The redeemers that own the voucher save both rows.
RedeemLocked(r) ==
  /\ At(r, "saveWallet") /\ req[r].op \in Redeemers \ UnlockedRedeemers
  /\ SaveRows(r, Credited(r), [x \in {req[r].v} |-> UsedVoucher])
  /\ req' = [Answer(r, 200) EXCEPT ![r].credited = {req[r].v},
                                   ![r].change = Credited(r).balance - req[r].seen.balance]

\* login and playerRedeem have yet to save the voucher.
RedeemUnlocked(r) ==
  /\ At(r, "saveWallet") /\ req[r].op \in UnlockedRedeemers
  /\ SaveRows(r, Credited(r), <<>>)
  /\ req' = [Goto(r, "saveVoucher") EXCEPT ![r].credited = {req[r].v},
                                          ![r].change = Credited(r).balance - req[r].seen.balance]

\* Seeded bug: only a debit is checked against the balance.
ShortDebit(r) == req[r].op = "debit" /\ req[r].seen.balance < req[r].amount

Short(r) == req[r].op \in {"bet", "debit"} /\ req[r].seen.balance < req[r].amount

RefuseSpend(r) ==
  /\ At(r, "saveWallet") /\ Short(r)
  /\ req' = Answer(r, 400)
  /\ UNCHANGED <<db, cur, lock, Ghosts>>

\* Seeded bug: the released bonus gets no Transaction row.
PlaceBetBonusUnrecorded(r) ==
  /\ At(r, "saveWallet") /\ req[r].op = "bet" /\ ~Short(r)
  /\ \E g \in Rounds :
       /\ db[g].status = "none" /\ lock[g] = NoReq
       /\ SaveRows(r, WithBonus([req[r].seen EXCEPT !.balance = @ - req[r].amount]),
                   [x \in {g} |-> [status |-> "pending"]])
       /\ req' = [Answer(r, 200) EXCEPT ![r].change = 0 - req[r].amount]

\* The stake is taken, the round inserted under a new id, and a pending bonus
\* released when the rest of the balance is low enough.
PlaceBet(r) ==
  /\ At(r, "saveWallet") /\ req[r].op = "bet" /\ ~Short(r)
  /\ LET w == WithBonus([req[r].seen EXCEPT !.balance = @ - req[r].amount]) IN
     \E g \in Rounds :
       /\ db[g].status = "none" /\ lock[g] = NoReq
       /\ SaveRows(r, w, [x \in {g} |-> [status |-> "pending"]])
       /\ req' = [Answer(r, 200) EXCEPT ![r].change = w.balance - req[r].seen.balance]

\* The computed win, possibly none, is added; even a lost round saves the balance.
SettleRound(r) ==
  /\ At(r, "saveWallet") /\ req[r].op = "settle"
  /\ \E win \in Wins :
       /\ SaveRows(r, [req[r].seen EXCEPT !.balance = @ + win],
                   [x \in {req[r].g} |-> [status |-> "settled"]])
       /\ req' = [Answer(r, 200) EXCEPT ![r].change = win, ![r].paid = {req[r].g}]

\* Staff credit and debit, and the manual adjustment, of either sign and unchecked.
MoveMoney(r) ==
  /\ At(r, "saveWallet") /\ req[r].op \in {"credit", "debit", "adjust"} /\ ~Short(r)
  /\ \E d \in {req[r].amount, 0 - req[r].amount} :
       /\ req[r].op = "credit" => d > 0
       /\ req[r].op = "debit" => d < 0
       /\ SaveRows(r, [req[r].seen EXCEPT !.balance = @ + d], <<>>)
       /\ req' = [Answer(r, 200) EXCEPT ![r].change = d]

\* login and playerRedeem: Voucher.save by primary key, whatever became of it.
SaveVoucher(r) ==
  /\ At(r, "saveVoucher")
  /\ LET v == req[r].v IN
     /\ lock[v] = NoReq
     /\ lock' = [lock EXCEPT ![v] = r]
     /\ cur' = [cur EXCEPT ![v] = UsedVoucher]
  /\ req' = Answer(r, 200)
  /\ UNCHANGED <<db, Ghosts>>

LockWallet(r) ==
  /\ At(r, "lockWallet")
  /\ lock["wallet"] = NoReq
  /\ lock' = [lock EXCEPT !["wallet"] = r]
  /\ req' = [req EXCEPT ![r].seen = db["wallet"], ![r].at = "lockUser"]
  /\ UNCHANGED <<db, cur, Ghosts>>

LockUser(r) ==
  /\ At(r, "lockUser")
  /\ lock["user"] = NoReq
  /\ lock' = [lock EXCEPT !["user"] = r]
  /\ req' = Goto(r, "revokeSession")
  /\ UNCHANGED <<db, cur, Ghosts>>

\* terminate owns voucher, wallet and user: it cashes the balance out, voids the
\* bonus, unlinks the voucher, deactivates the player and revokes the sessions that
\* are live.  It waits for their rows, last of all.
RevokeSession(r) ==
  /\ At(r, "revokeSession")
  /\ db["session"].live => lock["session"] = NoReq
  /\ LET rows == IF db["session"].live THEN {"session"} ELSE {} IN
     /\ lock' = [x \in Rows |-> IF x \in rows THEN r ELSE lock[x]]
     /\ cur' = [cur EXCEPT !["wallet"] = NoWallet, !["user"].status = "inactive",
                           ![req[r].v].status = "terminated",
                           !["session"].live = @ /\ rows = {}]
  /\ req' = [Answer(r, 200) EXCEPT ![r].change = 0 - req[r].seen.balance]
  /\ UNCHANGED <<db, Ghosts>>

-----------------------------------------------------------------------------
(* The end of a request *)

\* Seeded bug: the lock on the user row is never let go.
ReleaseKeepsUser(r) ==
  lock' = [x \in Rows |-> IF lock[x] = r /\ x # "user" THEN NoReq ELSE lock[x]]

Release(r) == lock' = [x \in Rows |-> IF lock[x] = r THEN NoReq ELSE lock[x]]

Commit(r) ==
  /\ db' = [x \in Rows |-> IF lock[x] = r THEN cur[x] ELSE db[x]]
  /\ credits' = [v \in Vouchers |-> credits[v] + IF v \in req[r].credited THEN 1 ELSE 0]
  /\ payouts' = [g \in Rounds |-> payouts[g] + IF g \in req[r].paid THEN 1 ELSE 0]
  /\ recorded' = recorded + req[r].change
  /\ UNCHANGED cur

Rollback(r) ==
  /\ cur' = [x \in Rows |-> IF lock[x] = r THEN db[x] ELSE cur[x]]
  /\ UNCHANGED <<db, Ghosts>>

Ended(r) == [req EXCEPT ![r] = [NoWork EXCEPT !.at = "done"]]

\* attachLifecycle, res "finish": commit a success, roll anything else back.
Finish(r) ==
  /\ At(r, "respond")
  /\ IF req[r].status < 400 THEN Commit(r) ELSE Rollback(r)
  /\ Release(r)
  /\ req' = Ended(r)

\* res "close" first, or a statement that fails: rollback wherever the handler is.
Close(r) ==
  /\ Running(r)
  /\ Rollback(r)
  /\ Release(r)
  /\ req' = Ended(r)

\* The rows one of which r needs before it can go on.
Needs(r) ==
  LET q == req[r] IN
  CASE q.at = "lockVoucher" /\ (q.op = "terminate" \/ db[q.v].status = "new") -> {q.v}
    [] q.at = "saveVoucher" -> {q.v}
    [] q.at = "lockRound" /\ db[q.g].status # "none" -> {q.g}
    [] q.at = "lockActive" -> IF q.seen.active = NoVoucher THEN Redeemed ELSE {q.seen.active}
    [] q.at \in {"linkWallet", "lockWallet"} -> {"wallet"}
    [] q.at = "saveWallet" /\ ~Short(r) -> {"wallet"}
    [] q.at = "findUser" /\ db["user"].status = "none" -> {"user"}
    [] q.at = "lockUser" -> {"user"}
    [] q.at = "saveSession" \/ (q.at = "revokeSession" /\ db["session"].live) -> {"session"}
    [] OTHER -> {}

Blockers(r) == {lock[x] : x \in Needs(r)} \ {r}
Blocked(r) == Needs(r) # {} /\ Blockers(r) \subseteq Reqs /\ Blockers(r) # {}

\* Requests that wait only for one another.
Stuck(C) == C # {} /\ \A r \in C : Blocked(r) /\ Blockers(r) \subseteq C

\* Postgres aborts one transaction of a cycle; its handler answers 500.
DeadlockVictim(r) ==
  /\ \E C \in SUBSET Reqs : r \in C /\ Stuck(C)
  /\ Rollback(r)
  /\ Release(r)
  /\ req' = Ended(r)

-----------------------------------------------------------------------------

HandlerStep(r) ==
  \/ ReadVoucher(r) \/ LockNewVoucher(r) \/ LockAnyVoucher(r) \/ LockRound(r)
  \/ SaveSession(r) \/ FindUser(r) \/ ReadWallet(r) \/ LockActive(r) \/ LinkWallet(r)
  \/ RedeemLocked(r) \/ RedeemUnlocked(r) \/ SaveVoucher(r)
  \/ RefuseSpend(r) \/ PlaceBet(r) \/ SettleRound(r) \/ MoveMoney(r)
  \/ LockWallet(r) \/ LockUser(r) \/ RevokeSession(r)
  \/ Finish(r)

Next == \E r \in Reqs : Begin(r) \/ HandlerStep(r) \/ Close(r) \/ DeadlockVictim(r)

Spec == Init /\ [][Next]_vars

\* Handlers run on and Postgres grants free locks and breaks cycles.
Fairness ==
  \A r \in Reqs : WF_vars(HandlerStep(r)) /\ WF_vars(DeadlockVictim(r))

FairSpec == Spec /\ Fairness

-----------------------------------------------------------------------------
(* Properties *)

Statuses == {0, 200, 400, 403, 404}
Work == [at : Places, op : Ops, v : Vouchers, g : Rounds \cup {NoRound}, amount : Int,
         status : Statuses, seen : WalletRow, change : Int,
         credited : SUBSET Vouchers, paid : SUBSET Rounds]

RowsOK(rows) ==
  /\ rows \in [Rows -> UserRow \cup WalletRow \cup VoucherRow \cup RoundRow \cup SessionRow]
  /\ rows["user"] \in UserRow /\ rows["wallet"] \in WalletRow
  /\ rows["session"] \in SessionRow
  /\ \A v \in Vouchers : rows[v] \in VoucherRow
  /\ \A g \in Rounds : rows[g] \in RoundRow

\* The type invariant of the rows, their locks and the request records.
TypeOK ==
  /\ RowsOK(db) /\ RowsOK(cur)
  /\ lock \in [Rows -> Reqs \cup {NoReq}]
  /\ req \in [Reqs -> Work]
  /\ credits \in [Vouchers -> Nat]
  /\ payouts \in [Rounds -> Nat]
  /\ recorded \in Int

\* A voucher's amount reaches a wallet at most once, whoever redeems it and
\* however the redemptions overlap.
VoucherCreditedOnce == \A v \in Vouchers : credits[v] <= 1

\* A round pays at most once: settle takes the round FOR UPDATE before it looks
\* at its status (games.js:440).
RoundPaidOnce == \A g \in Rounds : payouts[g] <= 1

\* A bet or a debit checks a balance it did not lock; even so no overlap of
\* requests leaves the wallet below zero (manual adjustments apart).
NeverNegative == db["wallet"].balance >= 0

\* The Transaction rows explain the balance: their balanceAfter - balanceBefore
\* add up to it.
BalanceRecorded == db["wallet"].balance = recorded

\* What the Transaction rows leave unexplained of the balance.
Unexplained == db["wallet"].balance - recorded

\* A step of handlers whose copy of the balance is still the committed one leaves the
\* Transaction rows and the balance as far apart as it found them, however many
\* requests overlap: a stale copy is the only way to lose a movement, and every kind
\* of movement, a released bonus and a cash-out included, is recorded in full.
FreshMovesRecorded ==
  [][(\A r \in Reqs : req'[r] # req[r] => req[r].seen.balance = db["wallet"].balance) =>
        Unexplained' = Unexplained]_vars

\* Requests that lock what they redeem take rows in one order (round, session, voucher,
\* wallet, user), but for a termination, which takes the session last (vouchers.js:1197):
\* every deadlock has one that waits for the session of a game that is under way.
DeadlockNeedsSession ==
  \A C \in SUBSET Reqs : Stuck(C) =>
    \E r, s \in C : /\ At(r, "revokeSession") /\ lock["session"] = s
                    /\ req[s].op \in {"bet", "settle"}

\* Every request that arrives ends.
EveryRequestEnds == \A r \in Reqs : Running(r) ~> At(r, "done")

Status == [v \in Vouchers |-> db[v].status]
Life == INSTANCE VoucherLife WITH status <- Status
\* Each commit is one step in the life of one voucher, or none.
ImplementsVoucherLife == Life!Spec
=============================================================================
