------------------------------ MODULE GamePlay ------------------------------
(***************************************************************************)
(* One player at the games: bets and settlements under a voucher's payout  *)
(* policy and its two outcome modes, the loss limit of a session and the   *)
(* advisory actions (routes/games.js, safety.js, voucherOutcomeService.js, *)
(* voucherWinCapPolicyService.js, voucherWalletStateService.js,            *)
(* outcomeModeService.js, playerSafetyEngine.js, ledgerService.js).        *)
(*                                                                         *)
(* A request is a Postgres transaction at READ COMMITTED that commits      *)
(* after an answer below 400.  Money is in units of 0.0001, which is also  *)
(* EPSILON; rates and multipliers are in percent.  The metadata a client   *)
(* sends along with a bet goes into the round last and may name the fields *)
(* a settlement reads there.  The bonus and the jackpot a bet may release  *)
(* are PlayerAccount's and Jackpot's.                                      *)
(***************************************************************************)
EXTENDS Integers, FiniteSets

CONSTANTS
  Vouchers, First,     \* voucher ids; the one the player starts with
  Nothing,             \* null: no voucher, round or limit row; a field that is not named
  Rounds,              \* GameRound ids
  Limits,              \* PlayerSafetyLimit ids, all of one session
  Wallet, Session,     \* the player's wallet row and session row
  Reqs, NoReq,         \* request slots; owner of a free row
  Starts,              \* how behaviours start: which requests may meet (the menu), the
                       \* outcome mode, the ledger, whether First is from before policies
                       \* and whether the wallet is linked to it
  Amount, Bonus,       \* of every voucher
  Policies,            \* tenant win-cap policies, as they are stored
  DecayRate, MinDecay, StakeDecay,  \* percent of the balance, units, percent of the stake
  Stakes, Wins,        \* what players stake, what a client claims to have won
  Metadata,            \* what the metadata of a bet may say of the round's fields
  LimitValues          \* loss limits a player asks for

Ops == {"bet", "sessionBet", "settle", "limit", "event", "view", "redeem", "login"}
Others == {"switch"}
Modes == {"voucher_controlled", "pure_rng"}
ActionTypes == {"NUDGE", "COOLDOWN", "STOP"}
Rows == Vouchers \cup Rounds \cup Limits \cup {Wallet, Session}

ASSUME NamesAssumption ==
  /\ NoReq \notin Reqs /\ Nothing \notin Rows \cup Int /\ First \in Vouchers
  /\ Vouchers \cap Rounds = {} /\ Limits \cap (Vouchers \cup Rounds) = {}
  /\ Wallet # Session /\ {Wallet, Session} \cap (Vouchers \cup Rounds \cup Limits) = {}
ASSUME StartsAssumption ==
  Starts \subseteq [menu : SUBSET (Ops \cup Others), mode : Modes, ledger : [loss : Nat, spins : BOOLEAN],
                    legacy : BOOLEAN, linked : BOOLEAN]
ASSUME AmountAssumption ==
  /\ Amount \in Nat \ {0} /\ Bonus \in Nat /\ MinDecay \in Nat
  /\ DecayRate \in 1..50 /\ StakeDecay \in Nat
  /\ Policies \subseteq [fixed : Nat, options : (SUBSET Nat) \ {{}}, randomOptions : SUBSET Nat]
  /\ Stakes \subseteq Nat \ {0} /\ Wins \subseteq Nat /\ LimitValues \subseteq Nat \ {0}
ASSUME MetadataAssumption ==
  LET Named == Int \cup {Nothing} IN
  Metadata \subseteq [cap : Named, before : Named, after : Named, balBefore : Named, balAfter : Named]

VARIABLES
  db,      \* the committed rows
  cur,     \* the newest version of each row
  lock,    \* the transaction that owns each row
  mode,    \* the tenant's outcome mode
  ledger,  \* net loss of the session in ledger_events, and whether it has spins
  acts,    \* the types of which a committed action row is within the throttle window
  req,     \* per request: its place in the handler and what it has read
  menu     \* which requests this behaviour has

vars == <<db, cur, lock, mode, ledger, acts, req, menu>>

-----------------------------------------------------------------------------
(* The voucher policy: pure functions *)

MinOf(a, b) == IF a <= b THEN a ELSE b
MaxOf(a, b) == IF a >= b THEN a ELSE b

\* toMoney: hundredths of a unit to units.
Money(p) == (p + 50) \div 100

\* normalizeVoucherWinCapPolicy: the fixed percentage must be one of the options.
Normalized(policy) ==
  IF policy.fixed \in policy.options THEN policy
  ELSE [policy EXCEPT !.fixed = IF 200 \in policy.options THEN 200
                                ELSE CHOOSE p \in policy.options : \A q \in policy.options : p <= q]

\* resolveVoucherWinCapSelection, over every mode and percentage a request may name.
Selections(policy) ==
  LET p == Normalized(policy) IN p.options \cup p.randomOptions \cup {p.fixed}

\* computeMaxCashoutFromPercent
CapOf(percent) == MaxOf(Amount + Bonus, (Amount * percent) \div 100)

Caps == UNION {{CapOf(p) : p \in Selections(policy)} : policy \in Policies}

\* Seeded bug: the round's cap goes before the voucher's.
FallbackFirst(v, fallback) ==
  IF fallback > 0 THEN Money(fallback * 250) ELSE IF v.cap > 0 THEN v.cap ELSE Amount + Bonus

\* resolveVoucherMaxCashout: the voucher's cap, else 2.5 times the fallback, else its
\* total credit.
MaxCashout(v, fallback) ==
  IF v.cap > 0 THEN v.cap ELSE IF fallback > 0 THEN Money(fallback * 250) ELSE Amount + Bonus

\* A voucher: its cap (0 while none is set), the balance its policy tracks (-1 in one
\* issued before there were policies) and decayMode, which is set where capReachedAt is.
\* Three fields serve the properties: rounds that wait for settlement, whether they were
\* played one at a time in voucher mode under this voucher alone, and what the player
\* has of it: the balance first tracked, less stakes, plus wins.
NoVoucher == [st |-> "none", cap |-> 0, tracked |-> -1, decay |-> FALSE,
              open |-> 0, clean |-> TRUE, net |-> 0]

\* Issue in either mode: in pure_rng trackedBalance is null, which reads as 0.
Issued(m, cap) ==
  [NoVoucher EXCEPT !.st = "active", !.cap = IF m = "pure_rng" THEN 0 ELSE cap,
                    !.tracked = IF m = "pure_rng" THEN 0 ELSE Amount]

\* What a redemption makes of the row v it found; a player's login always does as in
\* voucher_controlled.  What an issue in voucher mode tracks is the amount too.
Redeemed(v, m) ==
  IF m = "pure_rng" THEN [v EXCEPT !.st = "redeemed", !.cap = 0, !.tracked = 0]
  ELSE [v EXCEPT !.st = "redeemed", !.cap = MaxCashout(v, Amount + Bonus), !.tracked = Amount, !.net = Amount]

\* readVoucherPolicy's tracked balance at a bet, where the wallet holds bal.
TrackedBeforeBet(v, cap, bal) == IF v.tracked >= 0 THEN v.tracked ELSE MinOf(cap, bal)

\* Seeded bug: a stake above the tracked balance is not cut off.
Unclamped(before, stake) == before - stake

\* What a bet leaves of it.
TrackedAfterBet(before, stake) == MaxOf(0, before - stake)

AtOrOverCap(v, cap, before, after) == v.decay \/ before >= cap - 1 \/ after >= cap - 1

\* The decay of one round, in hundredths.
DecayStep(stake, before) == MaxOf(MaxOf(MinDecay * 100, before * DecayRate), stake * StakeDecay)

\* Seeded bug: the payout is bounded by the cap, not by what is left of it.
CapForgetsBalance(v, cap, stake, before, after) ==
  IF AtOrOverCap(v, cap, before, after)
  THEN Money(MaxOf(0, MaxOf(0, before * 100 - DecayStep(stake, before)) - after * 100))
  ELSE cap

\* Seeded bug: in decay the payout may bring the balance back to where it was.
DecayForgotten(v, cap, stake, before, after) ==
  MaxOf(0, (IF AtOrOverCap(v, cap, before, after) THEN before ELSE cap) - after)

\* The most computeVoucherDrivenPayout lets a round win.
MaxWin(v, cap, stake, before, after) ==
  IF AtOrOverCap(v, cap, before, after)
  THEN Money(MaxOf(0, MaxOf(0, before * 100 - DecayStep(stake, before)) - after * 100))
  ELSE MaxOf(0, cap - after)

\* samplePreCapPayout and sampleDecayPayout: nothing, or a multiple of the stake; the
\* ends of their ranges stand for what lies between.
Samples(decay, stake) ==
  {0} \cup {Money(m * stake) : m \in IF decay THEN {8, 60, 105} ELSE {35, 135, 275, 550}}

Payouts(v, cap, stake, before, after) ==
  {MinOf(w, MaxWin(v, cap, stake, before, after)) : w \in Samples(AtOrOverCap(v, cap, before, after), stake)}

\* reachedOrExceededCap; one unit below the cap it depends on what rounding lost.
Reached(v, cap, before, after, left) ==
  IF AtOrOverCap(v, cap, before, after) THEN {TRUE} ELSE {left >= cap - 1, left >= cap}

-----------------------------------------------------------------------------
(* State *)

NoRound == [st |-> "none", v |-> Nothing, stake |-> 0, cap |-> 0, before |-> 0, after |-> 0,
            balBefore |-> 0, balAfter |-> 0]

Places == {"idle", "round", "session", "limit", "wallet", "play", "link", "find", "insert", "lower",
           "risk", "issue", "voucher", "balance", "save", "respond"}

NoWork == [at |-> "idle", op |-> "bet", g |-> Nothing, stake |-> 0, bal |-> 0, seen |-> Nothing,
           l |-> Nothing, v |-> Nothing, copy |-> NoVoucher, act |-> "none", status |-> 0, known |-> {}]

\* The player starts with a redeemed voucher, or with one from before there were
\* policies, which the wallet may not be linked to.  The session may have ledger rows
\* from before they needed a tenant.  The session's row stands for what was staked in it.
Init ==
  /\ \E s \in Starts, cap \in Caps :
       /\ mode = s.mode /\ menu = s.menu /\ ledger = s.ledger
       /\ db = [x \in Rows |->
                  IF x = First THEN (IF s.legacy THEN [NoVoucher EXCEPT !.st = "redeemed"]
                                               ELSE Redeemed(Issued(s.mode, cap), s.mode))
                  ELSE IF x \in Vouchers THEN Issued(s.mode, cap)
                  ELSE IF x \in Rounds THEN NoRound
                  ELSE IF x = Wallet THEN [bal |-> 2 * Amount, v |-> IF s.linked THEN First ELSE Nothing]
                  ELSE 0]
  /\ cur = db
  /\ lock = [x \in Rows |-> NoReq]
  /\ acts = {}
  /\ req = [r \in Reqs |-> NoWork]

At(r, place) == req[r].at = place
Running(r) == req[r].at # "idle"
Goto(r, place) == [req EXCEPT ![r].at = place]
Answered(w, status) == [w EXCEPT !.at = "respond", !.status = status, !.bal = 0, !.seen = Nothing, !.l = Nothing,
                                 !.v = Nothing, !.copy = NoVoucher]
Answer(r, status) == [req EXCEPT ![r] = Answered(@, status)]
Kept == <<db, cur, lock, mode, ledger, acts, menu>>

\* Lock rows X and give them the versions in f.
Take(r, X, f) ==
  /\ \A x \in X : lock[x] \in {r, NoReq}
  /\ lock' = [x \in Rows |-> IF x \in X THEN r ELSE lock[x]]
  /\ cur' = [x \in Rows |-> IF x \in DOMAIN f THEN f[x] ELSE cur[x]]
  /\ UNCHANGED <<db, mode, ledger, acts, menu>>

\* The requests the limits of the session are for: the properties ask which were in force
\* while they were under way, or 0 if there was none when they arrived.
Limited == {"sessionBet", "limit"}
LimitsNow == {db[l] : l \in {k \in Limits : db[k] > 0}}

FirstPlace(op) ==
  CASE op = "settle" -> "round"
    [] op = "sessionBet" -> "session"
    [] op = "limit" -> "find"
    [] op = "event" -> "risk"
    [] op = "view" -> "link"
    [] op \in {"redeem", "login"} -> "voucher"
    [] OTHER -> "play"

\* The wallet is read without a lock, long before it is written.
WithWallet(work) == [work EXCEPT !.bal = db[Wallet].bal, !.seen = db[Wallet].v]

\* A bet is of a new round, a settlement of one the player knows.
RoundsFor(op) ==
  CASE op \in {"bet", "sessionBet"} -> {g \in Rounds : db[g].st = "none" /\ \A s \in Reqs : req[s].g # g}
    [] op = "settle" -> {g \in Rounds : db[g].st # "none"}
    [] OTHER -> {Nothing}
NumbersFor(op) ==
  CASE op \in {"bet", "sessionBet"} -> Stakes [] op = "limit" -> LimitValues [] OTHER -> {0}

\* A request as it arrives; a bet without a session and a view read the wallet at once.
Arrival(op, g, n) ==
  LET early == op \in {"bet", "view"} IN
  [at |-> FirstPlace(op), op |-> op, g |-> g, stake |-> n,
   bal |-> IF early THEN db[Wallet].bal ELSE 0, seen |-> IF early THEN db[Wallet].v ELSE Nothing,
   l |-> Nothing, v |-> Nothing, copy |-> NoVoucher, act |-> "none", status |-> 0,
   known |-> IF op \notin Limited THEN {} ELSE IF LimitsNow = {} THEN {0} ELSE LimitsNow]

Begin(r) ==
  /\ At(r, "idle")
  /\ \E op \in Ops \cap menu : \E g \in RoundsFor(op), n \in NumbersFor(op) :
       req' = [req EXCEPT ![r] = Arrival(op, g, n)]
  /\ UNCHANGED Kept

-----------------------------------------------------------------------------
(* POST /games/:id/bet and /settle *)

\* settle: SELECT ... FOR UPDATE of the round.
ReadRound(r) ==
  /\ At(r, "round")
  /\ lock[req[r].g] = NoReq
  /\ IF db[req[r].g].st = "settled"
     THEN req' = Answer(r, 400) /\ UNCHANGED Kept
     ELSE /\ \E place \in {"session", "wallet"} : req' = Goto(r, place)
          /\ Take(r, {req[r].g}, <<>>)

\* resolveSessionId saves lastSeenAt: from here the session's requests queue.
ResolveSession(r) ==
  /\ At(r, "session")
  /\ req' = Goto(r, IF req[r].op = "settle" THEN "wallet" ELSE "limit")
  /\ Take(r, {Session}, <<>>)

\* enforceLossLimit's comparison.  Nothing adds to the ledger's sums any more:
\* recordLedgerEvent is never given the tenantId the model requires, and swallows the
\* error.
OverLimit(stake, limit) == ledger.loss + stake >= limit

\* enforceLossLimit reads some limit row of the session, if there is one.  The STOP
\* action it records goes with the 403 that follows.
EnforceLimit(r) ==
  /\ At(r, "limit")
  /\ LET rows == {l \in Limits : db[l] > 0} IN
     \/ rows = {} /\ req' = Goto(r, "wallet")
     \/ \E l \in rows :
          req' = IF OverLimit(req[r].stake, db[l])
                 THEN [req EXCEPT ![r] = [Answered(@, 403) EXCEPT !.act = "STOP"]] ELSE Goto(r, "wallet")
  /\ UNCHANGED Kept

\* The other bets and settlements read the wallet now.
ReadWallet(r) ==
  /\ At(r, "wallet")
  /\ req' = [req EXCEPT ![r] = [WithWallet(@) EXCEPT !.at = "play"]]
  /\ UNCHANGED Kept

\* resolveActiveVoucher: the linked voucher, else the one redeemed last.
ActiveVouchers(r) ==
  LET redeemed == {v \in Vouchers : db[v].st = "redeemed"} IN
  CASE req[r].seen # Nothing -> {req[r].seen}
    [] redeemed \ {First} # {} -> redeemed \ {First}
    [] OTHER -> redeemed

\* Seeded bug: a bet rebuilds the policy instead of extending it.
BetRebuilds(v, cap, tracked) == [v EXCEPT !.cap = cap, !.tracked = tracked, !.decay = FALSE]

\* The policy a bet writes back.
BetPolicy(v, cap, tracked) == [v EXCEPT !.cap = cap, !.tracked = tracked]

\* wallet.save() writes the balance, and the link if the wallet was read without one.
Paid(r, v, bal) == [bal |-> bal, v |-> IF req[r].seen = Nothing THEN v ELSE cur[Wallet].v]
Played(r) == IF req[r].op = "sessionBet" THEN {Session} ELSE {}

\* What the properties ask of a voucher is dropped once rounds were mixed.
Tidy(v) == IF v.clean THEN v ELSE [v EXCEPT !.net = 0, !.open = 0]

\* The voucher after a bet; plain is a bet whose metadata leaves the round's fields alone.
VoucherAtBet(v, cap, before, stake, byVoucher, plain) ==
  Tidy([(IF byVoucher THEN BetPolicy(v, cap, TrackedAfterBet(before, stake)) ELSE v)
        EXCEPT !.open = @ + 1, !.clean = @ /\ v.open = 0 /\ byVoucher /\ plain,
               !.net = (IF v.tracked >= 0 THEN @ ELSE before) - stake])

\* The round's metadata: what the client's says goes over what the server put there.
Silent == [cap |-> Nothing, before |-> Nothing, after |-> Nothing, balBefore |-> Nothing, balAfter |-> Nothing]
Over(said, own) == IF said = Nothing THEN own ELSE said
RoundAtBet(v, cap, before, stake, byVoucher, bal, said) ==
  [st |-> "pending", v |-> v, stake |-> stake, cap |-> Over(said.cap, cap), before |-> Over(said.before, before),
   after |-> Over(said.after, IF byVoucher THEN TrackedAfterBet(before, stake) ELSE 0),
   balBefore |-> Over(said.balBefore, bal), balAfter |-> Over(said.balAfter, bal - stake)]

\* A bet under a voucher, once it has the voucher's lock: refused for want of money, or
\* the wallet, the voucher and the round are written.
PlaceBet(r) ==
  /\ At(r, "play") /\ req[r].op \in {"bet", "sessionBet"}
  /\ \/ ActiveVouchers(r) = {} /\ req' = Answer(r, 403) /\ UNCHANGED Kept
     \/ \E v \in ActiveVouchers(r) :
          LET stake == req[r].stake
              cap == MaxCashout(cur[v], 0)
              byVoucher == mode = "voucher_controlled"
              before == IF byVoucher THEN TrackedBeforeBet(cur[v], cap, req[r].bal) ELSE 0
          IN
          /\ lock[v] = NoReq
          /\ IF req[r].bal < stake
             THEN req' = Answer(r, 400) /\ UNCHANGED Kept
             ELSE /\ req' = Answer(r, 201)
                  /\ \E said \in Metadata :
                       Take(r, {v, Wallet, req[r].g} \cup Played(r),
                         [x \in {v, Wallet, req[r].g} \cup Played(r) |->
                            IF x = Wallet THEN Paid(r, v, req[r].bal - stake)
                            ELSE IF x = Session THEN cur[x] + stake
                            ELSE IF x = v THEN VoucherAtBet(cur[v], cap, before, stake, byVoucher, said = Silent)
                            ELSE RoundAtBet(v, cap, before, stake, byVoucher, req[r].bal, said)])

Or(a, b) == IF a # 0 THEN a ELSE b    \* JavaScript's a || b

\* What settle takes for the tracked balance before and after the bet: the round's
\* snapshot, and where that is 0 or missing the voucher's or the wallet's.
BalanceBefore(g, cap, bal) == MaxOf(0, Or(g.balBefore, MinOf(cap, bal + g.stake)))
BeforeOf(g, v, cap, bal) ==
  MaxOf(0, Or(g.before, IF v.tracked >= 0 THEN v.tracked + g.stake ELSE BalanceBefore(g, cap, bal)))
AfterOf(g, v, cap, bal) ==
  MaxOf(0, Or(g.after, IF v.tracked >= 0 THEN v.tracked
                       ELSE MaxOf(0, Or(g.balAfter, BalanceBefore(g, cap, bal) - g.stake))))

\* Seeded bug: only a settlement that is still below the cap is taken to have reached it.
SettledBelow(v, cap, left, reached) == [v EXCEPT !.cap = cap, !.tracked = left, !.decay = @ \/ (reached /\ left < cap)]

\* buildVoucherPolicyMetadata
SettledPolicy(v, cap, left, reached) == [v EXCEPT !.cap = cap, !.tracked = left, !.decay = @ \/ reached]

\* The voucher after the settlement of a round that was played under it (own) or not.
VoucherAtSettle(v, cap, left, win, reached, byVoucher, own) ==
  Tidy([(IF byVoucher THEN SettledPolicy(v, cap, left, reached) ELSE v)
        EXCEPT !.open = MaxOf(0, @ - 1), !.net = @ + win, !.clean = @ /\ byVoucher /\ own])

\* A settlement, once it has the lock of the voucher that is linked now: in voucher
\* mode the payout is drawn, in pure_rng it is what the client says.
Settle(r) ==
  /\ At(r, "play") /\ req[r].op = "settle"
  /\ \/ ActiveVouchers(r) = {} /\ req' = Answer(r, 403) /\ UNCHANGED Kept
     \/ \E v \in ActiveVouchers(r) :
          LET g == cur[req[r].g]
              cap == MaxCashout(cur[v], g.cap)
              before == BeforeOf(g, cur[v], cap, req[r].bal)
              after == AfterOf(g, cur[v], cap, req[r].bal)
              byVoucher == mode = "voucher_controlled"
          IN
          /\ lock[v] = NoReq
          /\ \E win \in IF byVoucher THEN Payouts(cur[v], cap, g.stake, before, after) ELSE Wins :
             \E reached \in IF byVoucher THEN Reached(cur[v], cap, before, after, after + win) ELSE {FALSE} :
               /\ Take(r, {v, Wallet, req[r].g},
                    [x \in {v, Wallet, req[r].g} |->
                       IF x = Wallet THEN Paid(r, v, req[r].bal + win)
                       ELSE IF x = v
                       THEN VoucherAtSettle(cur[v], cap, after + win, win, reached, byVoucher, g.v = v)
                       ELSE [NoRound EXCEPT !.st = "settled"]])
               /\ req' = Answer(r, 200)

\* GET /wallet and the like (resolveWalletVoucherPolicyState): a wallet without a link
\* is linked to a redeemed voucher that was read before.
LinkWallet(r) ==
  /\ At(r, "link")
  /\ \/ /\ req[r].seen # Nothing \/ ActiveVouchers(r) = {}
        /\ req' = Answer(r, 200) /\ UNCHANGED Kept
     \/ /\ req[r].seen = Nothing
        /\ \E v \in ActiveVouchers(r) :
             Take(r, {Wallet}, [x \in {Wallet} |-> [cur[Wallet] EXCEPT !.v = v]])
        /\ req' = Answer(r, 200)

-----------------------------------------------------------------------------
(* The player redeems another voucher (what it credits is PlayerAccount's) *)

\* The voucher as it was found.
Found(r, v) == [req EXCEPT ![r] = [@ EXCEPT !.at = "balance", !.v = v, !.copy = db[v]]]
Redeemable == {v \in Vouchers : db[v].st = "active"}

\* Seeded bug: a cashier's redemption does not lock the voucher either.
LookAtNewVoucher(r) ==
  /\ At(r, "voucher") /\ req[r].op = "redeem"
  /\ \E v \in Redeemable : req' = Found(r, v)
  /\ UNCHANGED Kept

\* By a cashier: SELECT ... FOR UPDATE of the voucher.
LockNewVoucher(r) ==
  /\ At(r, "voucher") /\ req[r].op = "redeem"
  /\ \/ Redeemable = {} /\ req' = Answer(r, 404) /\ UNCHANGED Kept
     \/ \E v \in Redeemable : lock[v] = NoReq /\ Take(r, {v}, <<>>) /\ req' = Found(r, v)

\* By the player, with a login or without: the lookup locks nothing.
FindNewVoucher(r) ==
  /\ At(r, "voucher") /\ req[r].op = "login"
  /\ \/ Redeemable = {} /\ req' = Answer(r, 404)
     \/ \E v \in Redeemable : req' = Found(r, v)
  /\ UNCHANGED Kept

\* The wallet is read without a lock; what the voucher will hold is known now.
ModesOf(op) == IF op = "login" THEN {mode, "voucher_controlled"} ELSE {mode}
ReadBalance(r) ==
  /\ At(r, "balance")
  /\ \E m \in ModesOf(req[r].op) :
       req' = [req EXCEPT ![r] = [WithWallet(@) EXCEPT !.at = "save", !.copy = Redeemed(req[r].copy, m)]]
  /\ UNCHANGED Kept

\* A redemption that finds the voucher redeemed by now writes its own all the same.
SavedOver(v, copy) == Tidy([copy EXCEPT !.clean = v.st = "active"])

\* wallet.save() and voucher.save(): whoever writes a voucher writes the wallet too.
SaveRedemption(r) ==
  /\ At(r, "save")
  /\ LET v == req[r].v IN
     Take(r, {v, Wallet},
       [x \in {v, Wallet} |->
          IF x = v THEN SavedOver(cur[v], req[r].copy)
          ELSE [bal |-> req[r].bal + Amount, v |-> IF req[r].seen = v THEN cur[Wallet].v ELSE v]])
  /\ req' = Answer(r, 200)

-----------------------------------------------------------------------------
(* The tenant's outcome mode *)

\* PUT /tenant/outcome-mode commits (its races are BackOffice's).  Bound: once.
SwitchMode ==
  /\ "switch" \in menu
  /\ mode' \in Modes \ {mode}
  /\ menu' = menu \ {"switch"}
  /\ UNCHANGED <<db, cur, lock, ledger, acts, req>>

-----------------------------------------------------------------------------
(* POST /safety/loss-limit *)

\* Seeded bug: an existing limit is not looked for.
FindNoLimit(r) == At(r, "find") /\ req' = Goto(r, "insert") /\ UNCHANGED Kept

\* findOne, unlocked: no row, a lower one, an equal or a higher one.
FindLimit(r) ==
  /\ At(r, "find")
  /\ LET rows == {l \in Limits : db[l] > 0} IN
     \/ rows = {} /\ req' = Goto(r, "insert")
     \/ \E l \in rows :
          req' = IF req[r].stake > db[l] THEN Answer(r, 409)
                 ELSE IF req[r].stake = db[l] THEN Answer(r, 200)
                 ELSE [req EXCEPT ![r] = [@ EXCEPT !.at = "lower", !.l = l]]
  /\ UNCHANGED Kept

\* No unique index on the session keeps a second row out.
InsertLimit(r) ==
  /\ At(r, "insert")
  /\ \E l \in Limits :
       /\ cur[l] = 0 /\ lock[l] = NoReq
       /\ Take(r, {l}, [x \in {l} |-> req[r].stake])
  /\ req' = Answer(r, 200)

\* existing.save(), whatever the row holds by now.
LowerLimit(r) ==
  /\ At(r, "lower")
  /\ lock[req[r].l] = NoReq
  /\ Take(r, {req[r].l}, [x \in {req[r].l} |-> req[r].stake])
  /\ req' = Answer(r, 200)

-----------------------------------------------------------------------------
(* POST /safety/event *)

Signals == {"BET_ACCEL", "SPIN_RATE", "GAME_HOP", "LOSS_STREAK", "LOSS_CLUSTER"}

\* SIGNALS and computeRisk's sum.
ScoreOf(S) ==
  (IF "BET_ACCEL" \in S THEN 25 ELSE 0) + (IF "GAME_HOP" \in S THEN 15 ELSE 0)
    + 20 * Cardinality(S \cap {"SPIN_RATE", "LOSS_STREAK", "LOSS_CLUSTER"})
BandOf(score) ==
  CASE score >= 75 -> "STOP" [] score >= 50 -> "TILT_RISK" [] score >= 25 -> "ELEVATED" [] OTHER -> "CALM"

\* computeRisk: which signals a session's spins raise is data; without spins none.
Bands == {BandOf(ScoreOf(S)) : S \in IF ledger.spins THEN SUBSET Signals ELSE {{}}}

\* maybeIssueAction: a NUDGE or COOLDOWN unless there is one within the window.
Due(a) == a = "STOP" \/ a \notin acts

ActionFor(band) ==
  CASE band = "ELEVATED" -> "NUDGE" [] band = "TILT_RISK" -> "COOLDOWN" [] band = "STOP" -> "STOP"
    [] OTHER -> "none"

ComputeRisk(r) ==
  /\ At(r, "risk")
  /\ \E a \in {ActionFor(b) : b \in Bands} :
       req' = IF a \in ActionTypes /\ Due(a) THEN [req EXCEPT ![r] = [@ EXCEPT !.at = "issue", !.act = a]]
              ELSE Answer(r, 200)
  /\ UNCHANGED Kept

IssueAction(r) ==
  /\ At(r, "issue")
  /\ req' = Answer(r, 200)
  /\ UNCHANGED Kept

\* The throttle window of a type passes.
Pass(a) ==
  /\ a \in acts
  /\ acts' = acts \ {a}
  /\ UNCHANGED <<db, cur, lock, mode, ledger, req, menu>>

-----------------------------------------------------------------------------
(* The end of a request *)

Free(r) == [x \in Rows |-> IF lock[x] = r THEN NoReq ELSE lock[x]]
Stored(r) == [x \in Rows |-> IF lock[x] = r THEN cur[x] ELSE db[x]]
Rollback(r) == cur' = [x \in Rows |-> IF lock[x] = r THEN db[x] ELSE cur[x]]

\* The limits in force after r commits, for those who are under way.
Learn(r) ==
  LET now == {Stored(r)[l] : l \in Limits} \ {0} IN
  [s \in Reqs |-> IF s = r THEN NoWork ELSE [req[s] EXCEPT !.known = IF req[s].op \in Limited THEN @ \cup now ELSE {}]]

\* attachLifecycle: commit after an answer below 400.
Finish(r) ==
  /\ At(r, "respond")
  /\ IF req[r].status < 400
     THEN /\ db' = Stored(r) /\ UNCHANGED cur
          /\ acts' = acts \cup ({req[r].act} \cap ActionTypes)
          /\ req' = Learn(r)
     ELSE /\ Rollback(r) /\ UNCHANGED <<db, acts>>
          /\ req' = [req EXCEPT ![r] = NoWork]
  /\ lock' = Free(r)
  /\ UNCHANGED <<mode, ledger, menu>>

\* The connection closes first, a statement fails or the process dies.
Close(r) ==
  /\ Running(r)
  /\ Rollback(r)
  /\ lock' = Free(r)
  /\ req' = [req EXCEPT ![r] = NoWork]
  /\ UNCHANGED <<db, mode, ledger, acts, menu>>

HandlerStep(r) ==
  \/ ReadRound(r) \/ ResolveSession(r) \/ EnforceLimit(r) \/ ReadWallet(r)
  \/ PlaceBet(r) \/ Settle(r) \/ LinkWallet(r)
  \/ LockNewVoucher(r) \/ FindNewVoucher(r) \/ ReadBalance(r) \/ SaveRedemption(r)
  \/ FindLimit(r) \/ InsertLimit(r) \/ LowerLimit(r)
  \/ ComputeRisk(r) \/ IssueAction(r) \/ Finish(r)

Next ==
  \/ \E r \in Reqs : Begin(r) \/ HandlerStep(r) \/ Close(r)
  \/ SwitchMode
  \/ \E a \in ActionTypes : Pass(a)

Spec == Init /\ [][Next]_vars

-----------------------------------------------------------------------------
(* Properties *)

VoucherRow == [st : {"none", "active", "redeemed"}, cap : Nat, tracked : Nat \cup {-1}, decay : BOOLEAN,
               open : Nat, clean : BOOLEAN, net : Int]
RoundRow == [st : {"none", "pending", "settled"}, v : Vouchers \cup {Nothing}, stake : Nat, cap : Int,
             before : Int, after : Int, balBefore : Int, balAfter : Int]
Work == [at : Places, op : Ops, g : Rounds \cup {Nothing}, stake : Nat, bal : Nat,
         seen : Vouchers \cup {Nothing}, l : Limits \cup {Nothing}, v : Vouchers \cup {Nothing}, copy : VoucherRow,
         act : ActionTypes \cup {"none"}, status : {0, 200, 201, 400, 403, 404, 409}, known : SUBSET Nat]

\* The rows of one version: no balance, cap or tracked balance ever falls below zero.
RowsOK(f) ==
  /\ \A v \in Vouchers : f[v] \in VoucherRow
  /\ \A g \in Rounds : f[g] \in RoundRow
  /\ \A l \in Limits \cup {Session} : f[l] \in Nat
  /\ f[Wallet] \in [bal : Nat, v : Vouchers \cup {Nothing}]

\* The type invariant.
TypeOK ==
  /\ DOMAIN db = Rows /\ RowsOK(db) /\ DOMAIN cur = Rows /\ RowsOK(cur)
  /\ lock \in [Rows -> Reqs \cup {NoReq}]
  /\ mode \in Modes /\ ledger \in [loss : Nat, spins : BOOLEAN] /\ acts \subseteq ActionTypes
  /\ req \in [Reqs -> Work] /\ menu \in SUBSET (Ops \cup Others)

\* A player who plays a voucher one round at a time, under the voucher's outcome mode and
\* with metadata that leaves the round's fields alone, never has more of it than its cap:
\* what is tracked covers the first balance less the stakes plus the wins, and passes the
\* cap only where a stake above what is tracked was paid with other money (games.js:219,
\* 226, 316, 496; voucherOutcomeService.js:184).
NetWithinCap ==
  \A v \in Vouchers :
    db[v].clean /\ db[v].tracked >= 0 =>
      db[v].net <= db[v].tracked /\ (db[v].tracked <= db[v].cap \/ db[v].net <= 0)

\* Request r settles round g by a voucher's policy in this step.
SettlesBy(r, g, v) ==
  /\ lock[g] = r /\ lock[v] = r /\ mode = "voucher_controlled"
  /\ db[g].st = "pending" /\ db'[g].st = "settled"

\* A player's redemption that looked v up while it was new is about to save it over what
\* became of it since (playerRoutes.js:273, 493).
Overwritten(v) == \E r \in Reqs : lock[v] = r /\ req[r].op = "login" /\ db[v].st = "redeemed"

\* However the rounds of a voucher overlap, whichever voucher or mode they were begun
\* under and whatever the client's metadata says of them, a settlement that brings the
\* tracked balance to the cap puts the voucher into decay.
CapMeansDecay ==
  [][\A v \in Vouchers :
       db[v].tracked < db'[v].tracked /\ db[v].st = "redeemed" /\ db'[v].tracked >= db'[v].cap
         => db'[v].decay \/ Overwritten(v)]_vars

\* Only a second redemption that overlaps the first takes a voucher out of decay: no bet
\* or settlement does, whatever they overlap with, nor a mode switch, nor a redemption
\* that locks the voucher first (games.js:251, 684).
DecayForGood == [][\A v \in Vouchers : db[v].decay => db'[v].decay \/ Overwritten(v)]_vars

\* In decay a round played alone, with metadata that leaves its fields alone, costs the
\* player: its settlement leaves less than was tracked before its bet, or less than the
\* stake where that was nothing.
DecayPaysDown ==
  [][\A r \in Reqs, g \in Rounds, v \in Vouchers :
       SettlesBy(r, g, v) /\ db[v].decay /\ db'[v].clean =>
         db'[v].tracked < Or(db[g].before, db[g].stake)]_vars

\* Once a redeemed voucher has a cap, nothing that happens in play changes it: neither
\* the 2.5-fold fallback, nor a round begun under another voucher, nor a cap the client
\* names; it takes a second redemption that overlaps the first.
CapIsFixed ==
  [][\A v \in Vouchers :
       db[v].st = "redeemed" /\ db[v].cap > 0 => db'[v].cap = db[v].cap \/ Overwritten(v)]_vars

\* Request r places a bet of the session in this step.
Accepts(r) ==
  /\ At(r, "respond") /\ req[r].op = "sessionBet"
  /\ db[req[r].g].st = "none" /\ db'[req[r].g].st = "pending"

\* README.md:143 says the loss limit is enforced at bet: what a session that has won
\* nothing has staked stays below every limit it ever had while a bet was under way.
LossStaysBelowLimit ==
  [][\A r \in Reqs :
       Accepts(r) /\ (\A g \in Rounds : db[g].st # "settled")
         => 0 \in req[r].known \/ \E n \in req[r].known : db'[Session] < n]_vars

\* A request never sets a loss limit as high as every one that was in force since it
\* arrived, and never a second one beside one it found there: raising a limit, or doubling
\* it, takes two requests that overlap (safety.js:35).
LimitsOnlyFall ==
  [][\A r \in Reqs, l \in Limits :
       lock[l] = r /\ db'[l] # db[l] =>
         IF db[l] = 0 THEN 0 \in req[r].known ELSE \E n \in req[r].known : db'[l] < n]_vars

=============================================================================
