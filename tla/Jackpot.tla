------------------------------- MODULE Jackpot -------------------------------
(***************************************************************************)
(* The jackpots (services/jackpotService.js).  A bet whose own transaction *)
(* already holds its player's wallet feeds each jackpot in a transaction   *)
(* of its own, opened on a second connection, and may win it there; staff  *)
(* set a target or trigger a hit in such a side transaction too.           *)
(*                                                                         *)
(* `main` is the transaction of the request, `side` the one the service    *)
(* opens.  Whether the database role is subject to the row level security  *)
(* policies of the migrations, and how many connections the pool has, is   *)
(* a matter of the deployment.  The jackpot rows exist already.            *)
(***************************************************************************)
EXTENDS Naturals, Sequences, FiniteSets

CONSTANTS
  Jackpots,   \* jackpot ids
  Weekly,     \* those of type weekly, which belong to no tenant
  Targets,    \* the jackpots a bet feeds, in order
  Players, NoPlayer,
  Reqs, NoReq,
  Draws,      \* values randomTriggerCents draws
  Shares,     \* what a bet contributes
  PoolSizes,  \* how many connections Sequelize's pool may have
  MaxFed      \* bound: no request arrives once a jackpot was fed so much

Ops == {"bet", "hit", "target"}

ASSUME NamesAssumption == NoReq \notin Reqs /\ NoPlayer \notin Players
ASSUME TargetsAssumption == Weekly \subseteq Jackpots /\ Targets \in Seq(Jackpots) /\ Len(Targets) > 0
ASSUME AmountsAssumption == Draws \subseteq Nat \ {0} /\ Shares \subseteq Nat \ {0} /\ Draws # {}
ASSUME BoundsAssumption == PoolSizes \subseteq Nat /\ MaxFed \in Nat

VARIABLES
  jackpot,     \* the committed rows: pot and trigger
  resting,     \* the weekly jackpots hit less than seven days ago
  fed,         \* sum of JackpotContribution.amountCents of a jackpot
  hits,        \* sum of JackpotEvent.amountCents of a jackpot
  awarded,     \* sum of JackpotEvent.amountCents of a player
  won,         \* sum of the jackpot_win Transactions of a player
  rowLock,     \* the request whose side transaction owns a jackpot
  walletLock,  \* the transaction that owns a player's wallet
  req,         \* per request: its place and what it has computed
  rls,         \* is the database role subject to row level security
  poolSize     \* the connections of the pool

rows == <<jackpot, resting, fed, hits, awarded, won>>
deployment == <<rls, poolSize>>
vars == <<rows, rowLock, walletLock, req, deployment>>

\* What a trigger may be: drawn, or a target that rounds to 0, which switches hits off.
Triggers == Draws \cup {0}

Free == <<NoReq, "main">>
Main(r) == <<r, "main">>
Side(r) == <<r, "side">>

Places == {"idle", "wallet", "open", "jackpot", "pay", "commit", "respond"}
NoWork == [at |-> "idle", op |-> "bet", p |-> NoPlayer, k |-> 1, j |-> Targets[1], pot |-> 0,
           trigger |-> 0, share |-> 0, hit |-> 0, main |-> "none"]

Init ==
  /\ jackpot \in [Jackpots -> [pot : {0}, trigger : Draws]]
  /\ resting = {}
  /\ fed = [j \in Jackpots |-> 0] /\ hits = [j \in Jackpots |-> 0]
  /\ awarded = [p \in Players |-> 0] /\ won = [p \in Players |-> 0]
  /\ rowLock = [j \in Jackpots |-> NoReq]
  /\ walletLock = [p \in Players |-> Free]
  /\ req = [r \in Reqs |-> NoWork]
  /\ rls \in BOOLEAN /\ poolSize \in PoolSizes

At(r, place) == req[r].at = place
Running(r) == ~At(r, "idle")
Goto(r, place) == [req EXCEPT ![r].at = place]

\* Connections in use: the request's own and the one of the side transaction.
Connections ==
  Cardinality({r \in Reqs : req[r].main = "open"})
    + Cardinality({r \in Reqs : req[r].at \in {"jackpot", "pay", "commit"}})

-----------------------------------------------------------------------------
(* A request up to its side transaction *)

\* The request's transaction is opened; a bet will first write its player's wallet.
Begin(r) ==
  /\ At(r, "idle")
  /\ Connections < poolSize
  /\ \A j \in Jackpots : fed[j] < MaxFed
  /\ \/ \E p \in Players :
          req' = [req EXCEPT ![r] = [NoWork EXCEPT !.at = "wallet", !.op = "bet", !.p = p, !.main = "open"]]
     \/ \E op \in {"hit", "target"}, p \in Players \cup {NoPlayer}, j \in Jackpots :
          /\ op = "target" => p = NoPlayer
          /\ req' = [req EXCEPT ![r] =
                       [NoWork EXCEPT !.at = "open", !.op = op, !.p = p, !.j = j, !.main = "open"]]
  /\ UNCHANGED <<rows, rowLock, walletLock, deployment>>

\* The bet's wallet.save(): the row is the request's until the answer is sent.
LockWallet(r) ==
  /\ At(r, "wallet")
  /\ LET p == req[r].p IN
     /\ walletLock[p] = Free
     /\ walletLock' = [walletLock EXCEPT ![p] = Main(r)]
  /\ req' = Goto(r, "open")
  /\ UNCHANGED <<rows, rowLock, deployment>>

\* A bet refused before its wallet is written: funds, voucher, loss limit.
RefuseBet(r) ==
  /\ At(r, "wallet")
  /\ req' = Goto(r, "respond")
  /\ UNCHANGED <<rows, rowLock, walletLock, deployment>>

\* sequelize.transaction(): a second connection from the pool.
OpenSide(r) ==
  /\ At(r, "open") /\ Connections < poolSize
  /\ req' = Goto(r, "jackpot")
  /\ UNCHANGED <<rows, rowLock, walletLock, deployment>>

\* Seeded bug: the pool is waited for without a limit.
AcquireForever(r) ==
  /\ At(r, "open") /\ Connections >= poolSize
  /\ UNCHANGED vars

\* No connection within the pool's acquire time: the call throws, the answer is 500.
AcquireTimeout(r) ==
  /\ At(r, "open") /\ Connections >= poolSize
  /\ req' = Goto(r, "respond")
  /\ UNCHANGED <<rows, rowLock, walletLock, deployment>>

-----------------------------------------------------------------------------
(* The side transaction *)

\* The jackpot is locked and what is to be stored in it computed.
Computed(r, pot, trigger, share, hit) ==
  /\ rowLock' = [rowLock EXCEPT ![req[r].j] = r]
  /\ req' = [req EXCEPT ![r].pot = pot, ![r].trigger = trigger, ![r].share = share, ![r].hit = hit,
                        ![r].at = IF hit > 0 /\ req[r].p # NoPlayer THEN "pay" ELSE "commit"]
  /\ UNCHANGED <<rows, walletLock, deployment>>

\* Seeded bug: the cooldown is forgotten.
DueAnyTime(j, pot) == jackpot[j].trigger > 0 /\ pot >= jackpot[j].trigger

\* Whether a filled pot is paid out: not while a weekly jackpot rests.
Due(j, pot) == jackpot[j].trigger > 0 /\ pot >= jackpot[j].trigger /\ j \notin resting

\* Seeded bug: the jackpot is read without a lock.
ContributeUnlocked(r) ==
  /\ At(r, "jackpot") /\ req[r].op = "bet"
  /\ \E share \in Shares, draw \in Draws :
       LET j == req[r].j
           pot == jackpot[j].pot + share IN
       IF Due(j, pot)
       THEN Computed(r, pot - jackpot[j].trigger, draw, share, jackpot[j].trigger)
       ELSE Computed(r, pot, jackpot[j].trigger, share, 0)

\* processBet: the jackpot FOR UPDATE, the contribution, processJackpotPayout.
Contribute(r) ==
  /\ At(r, "jackpot") /\ req[r].op = "bet"
  /\ rowLock[req[r].j] = NoReq
  /\ \E share \in Shares, draw \in Draws :
       LET j == req[r].j
           pot == jackpot[j].pot + share IN
       IF Due(j, pot)
       THEN Computed(r, pot - jackpot[j].trigger, draw, share, jackpot[j].trigger)
       ELSE Computed(r, pot, jackpot[j].trigger, share, 0)

\* triggerJackpotHit: any payout up to the pot, by default the trigger; a weekly
\* jackpot need not have rested.
TriggerHit(r) ==
  /\ At(r, "jackpot") /\ req[r].op = "hit"
  /\ LET j == req[r].j IN
     /\ rowLock[j] = NoReq
     /\ \E amount \in 1 .. jackpot[j].pot, draw \in Draws :
          Computed(r, jackpot[j].pot - amount, draw, 0, amount)

\* updateJackpotTarget: a positive number, rounded to cents.
SetTarget(r) ==
  /\ At(r, "jackpot") /\ req[r].op = "target"
  /\ LET j == req[r].j IN
     /\ rowLock[j] = NoReq
     /\ \E target \in Triggers : Computed(r, jackpot[j].pot, target, 0, 0)

\* A staff request is refused: no jackpot in scope, an empty pot, no tenant.
RefuseStaff(r) ==
  /\ At(r, "jackpot") /\ req[r].op # "bet"
  /\ req' = Goto(r, "respond")
  /\ UNCHANGED <<rows, rowLock, walletLock, deployment>>

\* Is the winner's wallet found?  The side transaction of a bet does not set the
\* context the policies ask for; that of triggerJackpotHit does, but it looks for a
\* wallet of the jackpot's tenant, and a weekly jackpot has none.
WalletVisible(r) == IF req[r].op = "bet" THEN ~rls ELSE req[r].j \notin Weekly

\* creditJackpot finds the wallet, FOR UPDATE.
PayWinner(r) ==
  /\ At(r, "pay") /\ WalletVisible(r)
  /\ LET p == req[r].p IN
     /\ walletLock[p] = Free
     /\ walletLock' = [walletLock EXCEPT ![p] = Side(r)]
  /\ req' = Goto(r, "commit")
  /\ UNCHANGED <<rows, rowLock, deployment>>

\* The next jackpot of a bet, or the answer.
GoOn(r) ==
  req' = IF req[r].op = "bet" /\ req[r].k < Len(Targets)
         THEN [req EXCEPT ![r].at = "open", ![r].k = @ + 1, ![r].j = Targets[req[r].k + 1]]
         ELSE Goto(r, "respond")

ReleaseSide(r) ==
  /\ rowLock' = [j \in Jackpots |-> IF rowLock[j] = r THEN NoReq ELSE rowLock[j]]
  /\ walletLock' = [p \in Players |-> IF walletLock[p] = Side(r) THEN Free ELSE walletLock[p]]

\* The side transaction fails and is rolled back: creditJackpot cannot create the
\* wallet it has not found, or a statement fails.
FailSide(r) ==
  /\ \/ At(r, "commit")
     \/ At(r, "pay") /\ ~WalletVisible(r)
  /\ ReleaseSide(r)
  /\ GoOn(r)
  /\ UNCHANGED <<rows, deployment>>

\* Seeded bug: the hit is recorded and the credit left out.
CommitSideUncredited(r) ==
  /\ At(r, "commit")
  /\ LET j == req[r].j
         w == req[r] IN
     /\ jackpot' = [jackpot EXCEPT ![j] = [pot |-> w.pot, trigger |-> w.trigger]]
     /\ fed' = [fed EXCEPT ![j] = @ + w.share]
     /\ hits' = [hits EXCEPT ![j] = @ + w.hit]
     /\ awarded' = [p \in Players |-> IF p = w.p THEN awarded[p] + w.hit ELSE awarded[p]]
     /\ resting' = IF w.hit > 0 THEN resting \cup ({j} \cap Weekly) ELSE resting
  /\ ReleaseSide(r)
  /\ GoOn(r)
  /\ UNCHANGED <<won, deployment>>

\* t.commit(): the jackpot, the contribution, the event and the credit at once.
CommitSide(r) ==
  /\ At(r, "commit")
  /\ LET j == req[r].j
         w == req[r] IN
     /\ jackpot' = [jackpot EXCEPT ![j] = [pot |-> w.pot, trigger |-> w.trigger]]
     /\ fed' = [fed EXCEPT ![j] = @ + w.share]
     /\ hits' = [hits EXCEPT ![j] = @ + w.hit]
     /\ awarded' = [p \in Players |-> IF p = w.p THEN awarded[p] + w.hit ELSE awarded[p]]
     /\ won' = [p \in Players |-> IF walletLock[p] = Side(r) THEN won[p] + w.hit ELSE won[p]]
     /\ resting' = IF w.hit > 0 THEN resting \cup ({j} \cap Weekly) ELSE resting
  /\ ReleaseSide(r)
  /\ GoOn(r)
  /\ UNCHANGED deployment

-----------------------------------------------------------------------------
(* The end of a request *)

ReleaseMain(r) ==
  walletLock' = [p \in Players |-> IF walletLock[p] = Main(r) THEN Free ELSE walletLock[p]]

\* attachLifecycle: the request's transaction ends with the answer.
Finish(r) ==
  /\ At(r, "respond")
  /\ ReleaseMain(r)
  /\ req' = [req EXCEPT ![r] = NoWork]
  /\ UNCHANGED <<rows, rowLock, deployment>>

\* The connection closes first: the request's transaction is rolled back, but the
\* handler runs on and its side transactions stand.
Close(r) ==
  /\ req[r].main = "open"
  /\ ReleaseMain(r)
  /\ req' = [req EXCEPT ![r].main = "closed", ![r].at = IF At(r, "wallet") THEN "respond" ELSE @]
  /\ UNCHANGED <<rows, rowLock, deployment>>

\* Seven days pass.
Rest(j) ==
  /\ j \in resting
  /\ resting' = resting \ {j}
  /\ UNCHANGED <<jackpot, fed, hits, awarded, won, rowLock, walletLock, req, deployment>>

HandlerStep(r) ==
  \/ LockWallet(r) \/ RefuseBet(r) \/ OpenSide(r) \/ AcquireTimeout(r)
  \/ Contribute(r) \/ TriggerHit(r) \/ SetTarget(r) \/ RefuseStaff(r)
  \/ PayWinner(r) \/ FailSide(r) \/ CommitSide(r) \/ Finish(r)

Next ==
  \/ \E r \in Reqs : Begin(r) \/ HandlerStep(r) \/ Close(r)
  \/ \E j \in Jackpots : Rest(j)

Spec == Init /\ [][Next]_vars

\* Handlers run on, and Postgres and the pool serve who waits in turn.
FairSpec == Spec /\ \A r \in Reqs : SF_vars(HandlerStep(r))

-----------------------------------------------------------------------------
(* Properties *)

Work == [at : Places, op : Ops, p : Players \cup {NoPlayer}, k : 1 .. Len(Targets), j : Jackpots,
         pot : Nat, trigger : Triggers, share : Shares \cup {0}, hit : Nat,
         main : {"none", "open", "closed"}]

\* The type invariant of the rows, the locks and the request records; no pot is
\* ever negative.
TypeOK ==
  /\ jackpot \in [Jackpots -> [pot : Nat, trigger : Triggers]]
  /\ resting \subseteq Weekly
  /\ fed \in [Jackpots -> Nat] /\ hits \in [Jackpots -> Nat]
  /\ awarded \in [Players -> Nat] /\ won \in [Players -> Nat]
  /\ rowLock \in [Jackpots -> Reqs \cup {NoReq}]
  /\ walletLock \in [Players -> (Reqs \cup {NoReq}) \X {"main", "side"}]
  /\ req \in [Reqs -> Work]
  /\ rls \in BOOLEAN /\ poolSize \in PoolSizes

\* A pot is what the contributions say less what the hits took, whatever bets, manual
\* hits and targets overlap: nothing is lost, nothing paid twice.
PotExplained == \A j \in Jackpots : jackpot[j].pot + hits[j] = fed[j]

\* Every hit recorded for a player is in the player's wallet.
WinsCredited == \A p \in Players : won[p] = awarded[p]

\* A bet never hits a weekly jackpot that was hit less than seven days ago.
WeeklyRests ==
  [][\A r \in Reqs :
       At(r, "commit") /\ req[r].op = "bet" /\ req[r].hit > 0 /\ hits'[req[r].j] # hits[req[r].j] =>
         req[r].j \notin resting]_vars

\* A bet that its client still waits for.
Standing(r) == req[r].op = "bet" /\ req[r].main = "open"

\* games.js:380 says that the balance returned to a bet that hits a jackpot includes the
\* payout: where the side transaction of a standing bet that found a jackpot due ends,
\* the payout is in its player's wallet.
ReturnedBalanceHasPayout ==
  [][\A r \in Reqs :
       At(r, "pay") /\ Standing(r) /\ req'[r].at \notin {"pay", "commit"} =>
         won'[req[r].p] = won[req[r].p] + req[r].hit]_vars

\* The side transaction of r waits for a wallet that the transaction of a bet holds: its
\* own request's, or that of one which waits for the jackpot r has locked.  Postgres sees
\* no cycle, for half of it is in the process.
Hangs(r) == At(r, "pay") /\ WalletVisible(r) /\ \E s \in Reqs : walletLock[req[r].p] = Main(s)

\* Whatever the role and the pool, every request ends, those included that hold the
\* whole pool and wait for a second connection each, unless some request hangs for ever
\* on a winner's wallet (jackpotService.js:275): that is the only way to be stuck.
RequestsEnd == (\A r \in Reqs : Running(r) ~> ~Running(r)) \/ \E r \in Reqs : <>[]Hangs(r)
=============================================================================
