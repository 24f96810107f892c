-------------------------- MODULE GamePlay_proofs --------------------------
(***************************************************************************)
(* Theorems about GamePlay, for any vouchers, rounds, limits, amounts,     *)
(* stakes, wins and policies, and any number of requests that overlap.     *)
(***************************************************************************)
EXTENDS GamePlay, TLAPS, WellFoundedInduction, NaturalsInduction

(***************************************************************************)
(* The policy's functions                                                  *)
(***************************************************************************)

LEMMA MoneyIsNat == \A p \in Nat : Money(p) \in Nat
BY DEF Money

\* The smallest option is one of them.
LEMMA SmallestOption ==
  ASSUME NEW S \in (SUBSET Nat) \ {{}}
  PROVE  (CHOOSE p \in S : \A q \in S : p <= q) \in S
<1>0. S \subseteq Nat /\ S # {}
  OBVIOUS
<1>1. PICK p \in S : \A q \in S : <<q, p>> \notin OpToRel(<, Nat)
  BY <1>0, WFMin, NatLessThanWellFounded, Zenon
<1>2. \A q \in S : ~ (q < p)
  BY <1>0, <1>1, Zenon DEF OpToRel
<1>3. \A q \in S : p <= q
  BY <1>0, <1>2
<1> QED
  BY <1>3

\* A cap is never below what the voucher credits.
LEMMA CapsCover == \A cap \in Caps : cap \in Nat /\ cap >= Amount + Bonus
<1> SUFFICES ASSUME NEW policy \in Policies, NEW p \in Selections(policy)
             PROVE  CapOf(p) \in Nat /\ CapOf(p) >= Amount + Bonus
  BY DEF Caps
<1>1. policy \in [fixed : Nat, options : (SUBSET Nat) \ {{}}, randomOptions : SUBSET Nat]
  BY AmountAssumption
<1>2. Normalized(policy).fixed \in Nat /\ Normalized(policy).options = policy.options
      /\ Normalized(policy).randomOptions = policy.randomOptions
  BY <1>1, SmallestOption DEF Normalized
<1>3. p \in Nat
  BY <1>1, <1>2 DEF Selections
<1>4. Amount * p \in Nat
  BY <1>3, AmountAssumption
<1> QED
  BY <1>4, AmountAssumption DEF CapOf, MaxOf

LEMMA CashoutIsNat ==
  ASSUME NEW v \in VoucherRow, NEW fallback \in Int
  PROVE  /\ MaxCashout(v, fallback) \in Nat
         /\ v.cap > 0 => MaxCashout(v, fallback) = v.cap
         /\ fallback = 0 => MaxCashout(v, fallback) > 0
BY AmountAssumption DEF MaxCashout, VoucherRow, Money


LEMMA PayoutsAreNat ==
  ASSUME NEW v \in VoucherRow, NEW cap \in Nat, NEW stake \in Nat, NEW before \in Nat, NEW after \in Nat
  PROVE  /\ MaxWin(v, cap, stake, before, after) \in Nat
         /\ \A w \in Payouts(v, cap, stake, before, after) :
              w \in Nat /\ w <= MaxWin(v, cap, stake, before, after)
<1>1. before * DecayRate \in Nat /\ stake * StakeDecay \in Nat /\ MinDecay \in Nat
  BY AmountAssumption
<1>2. DecayStep(stake, before) \in Nat
  BY <1>1 DEF DecayStep, MaxOf
<1>3. MaxWin(v, cap, stake, before, after) \in Nat
  <2>1. MaxOf(0, MaxOf(0, before * 100 - DecayStep(stake, before)) - after * 100) \in Nat
    BY <1>2 DEF MaxOf
  <2>2. MaxOf(0, cap - after) \in Nat
    BY DEF MaxOf
  <2> QED
    BY <2>1, <2>2, MoneyIsNat DEF MaxWin
<1>4. \A d \in BOOLEAN : Samples(d, stake) \subseteq Nat
  BY MoneyIsNat DEF Samples
<1>5. AtOrOverCap(v, cap, before, after) \in BOOLEAN
  BY DEF AtOrOverCap, VoucherRow
<1>6. \A w \in Samples(AtOrOverCap(v, cap, before, after), stake) : w \in Nat
  BY <1>4, <1>5
<1> QED
  BY <1>3, <1>6 DEF Payouts, MinOf

\* What MaxWin allows: the cap is not passed, and in decay the bet is not won back.
LEMMA MaxWinBounds ==
  ASSUME NEW v \in VoucherRow, NEW cap \in Nat, NEW stake \in Nat, NEW before \in Nat, NEW after \in Nat
  PROVE  LET win == MaxWin(v, cap, stake, before, after) IN
         /\ ~ AtOrOverCap(v, cap, before, after) => win <= MaxOf(0, cap - after)
         /\ AtOrOverCap(v, cap, before, after) /\ after <= before => after + win <= before
         /\ AtOrOverCap(v, cap, before, after) /\ after < before /\ MinDecay > 0 => after + win < before
<1> DEFINE D == DecayStep(stake, before)
<1>1. before * DecayRate \in Nat /\ stake * StakeDecay \in Nat /\ MinDecay \in Nat
  BY AmountAssumption
<1>2. D \in Nat /\ D >= MinDecay * 100
  BY <1>1 DEF DecayStep, MaxOf
<1> DEFINE x == MaxOf(0, MaxOf(0, before * 100 - D) - after * 100)
<1>3. x \in Nat /\ (after <= before => x + after * 100 <= before * 100)
      /\ (x > 0 => x + after * 100 + D <= before * 100)
  BY <1>2 DEF MaxOf
<1>4. Money(x) \in Nat /\ Money(x) * 100 <= x + 50 /\ (x = 0 => Money(x) = 0)
  BY <1>3 DEF Money
<1> HIDE DEF D, x
<1>5. after <= before => after + Money(x) <= before
  BY <1>3, <1>4
<1>6. after < before /\ MinDecay > 0 => after + Money(x) < before
  BY <1>1, <1>2, <1>3, <1>4
<1>7. MaxWin(v, cap, stake, before, after)
        = IF AtOrOverCap(v, cap, before, after) THEN Money(x) ELSE MaxOf(0, cap - after)
  BY Zenon DEF MaxWin, x, D
<1>8. MaxOf(0, cap - after) \in Int
  BY DEF MaxOf
<1> QED
  BY <1>5, <1>6, <1>7, <1>8

LEMMA TrackedTypes ==
  ASSUME NEW v \in VoucherRow, NEW cap \in Nat, NEW bal \in Nat, NEW stake \in Nat
  PROVE  /\ TrackedBeforeBet(v, cap, bal) \in Nat
         /\ v.tracked >= 0 => TrackedBeforeBet(v, cap, bal) = v.tracked
         /\ v.tracked < 0 => TrackedBeforeBet(v, cap, bal) <= cap
         /\ \A n \in Nat : /\ TrackedAfterBet(n, stake) \in Nat /\ TrackedAfterBet(n, stake) <= n
                           /\ n - TrackedAfterBet(n, stake) <= stake /\ n - stake <= TrackedAfterBet(n, stake)
                           /\ n > 0 /\ stake > 0 => TrackedAfterBet(n, stake) < n
BY DEF TrackedBeforeBet, TrackedAfterBet, MinOf, MaxOf, VoucherRow

LEMMA SnapshotTypes ==
  ASSUME NEW g \in RoundRow, NEW v \in VoucherRow, NEW cap \in Nat, NEW bal \in Nat
  PROVE  BeforeOf(g, v, cap, bal) \in Nat /\ AfterOf(g, v, cap, bal) \in Nat
<1>1. /\ g.before \in Int /\ g.after \in Int /\ g.balBefore \in Int /\ g.balAfter \in Int /\ g.stake \in Nat
      /\ v.tracked \in Nat \cup {-1}
  BY DEF RoundRow, VoucherRow
<1>2. BalanceBefore(g, cap, bal) \in Nat
  BY <1>1 DEF BalanceBefore, Or, MinOf, MaxOf
<1> QED
  BY <1>1, <1>2 DEF BeforeOf, AfterOf, Or, MaxOf


(***************************************************************************)
(* What a bet and a settlement make of a voucher                           *)
(***************************************************************************)

\* What a commit may do to a voucher.
VoucherMoves(old, new) ==
  /\ old.st = "redeemed" => new.st = "redeemed"
  /\ old.st = "redeemed" /\ old.cap > 0 => new.cap = old.cap
  /\ old.decay => new.decay
  /\ old.st = "redeemed" /\ old.tracked < new.tracked /\ new.tracked >= new.cap => new.decay

\* What is tracked covers what the player has of voucher v; what fits a pending round g.
Covered(v) == v.tracked >= 0 => v.net <= v.tracked /\ (v.tracked <= v.cap \/ v.net <= 0)
Fits(v, g) ==
  /\ v.open = 1 /\ v.cap > 0 /\ v.tracked >= 0 /\ g.after = v.tracked /\ g.stake > 0
  /\ IF g.before = 0
     THEN v.tracked = 0 /\ v.net + g.stake <= 0
     ELSE /\ g.after < g.before /\ g.before <= g.after + g.stake
          /\ g.before <= v.cap \/ v.net + g.stake <= 0

LEMMA Forgotten ==
  ASSUME NEW v \in VoucherRow, NEW net \in Int, NEW open \in Nat
  PROVE  [v EXCEPT !.net = net, !.open = open] \in VoucherRow
BY DEF VoucherRow

LEMMA BetPolicyFields ==
  ASSUME NEW v \in VoucherRow, NEW cap \in Nat, NEW tracked \in Nat
  PROVE  LET n == BetPolicy(v, cap, tracked) IN
         /\ n \in VoucherRow /\ n.st = v.st /\ n.decay = v.decay /\ n.open = v.open
         /\ n.clean = v.clean /\ n.net = v.net /\ n.cap = cap /\ n.tracked = tracked
BY DEF BetPolicy, VoucherRow

LEMMA SettledPolicyFields ==
  ASSUME NEW v \in VoucherRow, NEW cap \in Nat, NEW left \in Nat, NEW reached \in BOOLEAN
  PROVE  LET n == SettledPolicy(v, cap, left, reached) IN
         /\ n \in VoucherRow /\ n.st = v.st /\ n.open = v.open /\ n.clean = v.clean /\ n.net = v.net
         /\ n.cap = cap /\ n.tracked = left /\ (v.decay => n.decay) /\ (reached => n.decay)
<1>1. (v.decay \/ reached) \in BOOLEAN
  BY DEF VoucherRow
<1>2. SettledPolicy(v, cap, left, reached)
        = [v EXCEPT !.cap = cap, !.tracked = left, !.decay = (v.decay \/ reached)]
  BY DEF SettledPolicy, VoucherRow
<1>3. \A d \in BOOLEAN :
        LET n == [v EXCEPT !.cap = cap, !.tracked = left, !.decay = d] IN
         /\ n \in VoucherRow /\ n.st = v.st /\ n.open = v.open /\ n.clean = v.clean /\ n.net = v.net
         /\ n.cap = cap /\ n.tracked = left /\ n.decay = d
  BY DEF VoucherRow
<1> DEFINE n == SettledPolicy(v, cap, left, reached)
<1>4. PICK d \in BOOLEAN : /\ d = (v.decay \/ reached)
                           /\ n = [v EXCEPT !.cap = cap, !.tracked = left, !.decay = d]
  BY <1>1, <1>2, Zenon
<1>5. (v.decay => d) /\ (reached => d)
  BY <1>4, Zenon
<1>6. /\ n \in VoucherRow /\ n.st = v.st /\ n.open = v.open /\ n.clean = v.clean /\ n.net = v.net
      /\ n.cap = cap /\ n.tracked = left /\ n.decay = d
  BY <1>3, <1>4, Zenon
<1> QED
  BY <1>5, <1>6, Zenon

\* Three fields set, as both a bet and a settlement end.
Counted(v, open, clean, net) == [v EXCEPT !.open = open, !.clean = clean, !.net = net]

LEMMA CountedFields ==
  ASSUME NEW v \in VoucherRow, NEW open \in Nat, NEW clean \in BOOLEAN, NEW net \in Int
  PROVE  LET n == Counted(v, open, clean, net) IN
         /\ n \in VoucherRow /\ n.st = v.st /\ n.decay = v.decay /\ n.cap = v.cap
         /\ n.tracked = v.tracked /\ n.open = open /\ n.net = net /\ n.clean = clean
BY DEF Counted, VoucherRow

LEMMA TidyFields ==
  ASSUME NEW v \in VoucherRow
  PROVE  /\ Tidy(v) \in VoucherRow
         /\ Tidy(v).st = v.st /\ Tidy(v).cap = v.cap /\ Tidy(v).tracked = v.tracked
         /\ Tidy(v).decay = v.decay /\ Tidy(v).clean = v.clean
         /\ v.clean => Tidy(v) = v
         /\ Tidy(v).net = IF v.clean THEN v.net ELSE 0
<1>0. 0 \in Int /\ 0 \in Nat
  OBVIOUS
<1>1. [v EXCEPT !.net = 0, !.open = 0] \in VoucherRow
  BY <1>0, Forgotten, Zenon
<1>2. LET n == [v EXCEPT !.net = 0, !.open = 0] IN
      /\ n.st = v.st /\ n.cap = v.cap /\ n.tracked = v.tracked /\ n.decay = v.decay /\ n.clean = v.clean
      /\ n.net = 0
  BY DEF VoucherRow
<1> QED
  BY <1>1, <1>2, Zenon DEF Tidy

LEMMA BetVoucher ==
  ASSUME NEW v \in VoucherRow, NEW cap \in Nat, NEW before \in Nat, NEW stake \in Nat, NEW by \in BOOLEAN,
         NEW plain \in BOOLEAN
  PROVE  LET n == VoucherAtBet(v, cap, before, stake, by, plain) IN
         /\ n \in VoucherRow /\ n.st = v.st /\ n.decay = v.decay
         /\ n.cap = IF by THEN cap ELSE v.cap
         /\ n.tracked = IF by THEN TrackedAfterBet(before, stake) ELSE v.tracked
         /\ n.clean => /\ v.clean /\ v.open = 0 /\ by /\ plain /\ n.open = 1
                       /\ n.net = (IF v.tracked >= 0 THEN v.net ELSE before) - stake
<1> DEFINE p == IF by THEN BetPolicy(v, cap, TrackedAfterBet(before, stake)) ELSE v
           open == v.open + 1
           clean == v.clean /\ v.open = 0 /\ by /\ plain
           net == (IF v.tracked >= 0 THEN v.net ELSE before) - stake
           m == Counted(p, open, clean, net)
<1>1. TrackedAfterBet(before, stake) \in Nat
  BY DEF TrackedAfterBet, MaxOf
<1>2. /\ p \in VoucherRow /\ p.st = v.st /\ p.decay = v.decay /\ p.open = v.open /\ p.clean = v.clean /\ p.net = v.net
      /\ p.cap = IF by THEN cap ELSE v.cap
      /\ p.tracked = IF by THEN TrackedAfterBet(before, stake) ELSE v.tracked
  <2> DEFINE q == BetPolicy(v, cap, TrackedAfterBet(before, stake))
  <2>1. /\ q \in VoucherRow /\ q.st = v.st /\ q.decay = v.decay /\ q.open = v.open
        /\ q.clean = v.clean /\ q.net = v.net /\ q.cap = cap /\ q.tracked = TrackedAfterBet(before, stake)
    <3>1. v \in VoucherRow /\ cap \in Nat /\ TrackedAfterBet(before, stake) \in Nat
      BY <1>1
    <3> QED
      BY ONLY <3>1, BetPolicyFields, Zenon
  <2> QED
    BY <2>1, Zenon
<1>3. /\ v.tracked \in Int /\ v.open \in Nat /\ v.net \in Int /\ v.clean \in BOOLEAN
  BY DEF VoucherRow
<1>4. open \in Nat /\ net \in Int /\ clean \in BOOLEAN
  BY <1>3
<1>5. VoucherAtBet(v, cap, before, stake, by, plain) = Tidy(m)
  BY <1>2, Zenon DEF VoucherAtBet, Counted
<1> HIDE DEF p
<1>6. /\ m \in VoucherRow /\ m.st = p.st /\ m.decay = p.decay /\ m.cap = p.cap /\ m.tracked = p.tracked
      /\ m.open = open /\ m.net = net /\ m.clean = clean
  <2>1. p \in VoucherRow
    BY <1>2, Zenon
  <2> HIDE DEF open, clean, net
  <2>2. open \in Nat /\ net \in Int /\ clean \in BOOLEAN
    BY <1>4
  <2> QED
    BY ONLY <2>1, <2>2, CountedFields, SMT
<1> HIDE DEF m
<1>7. /\ Tidy(m) \in VoucherRow
      /\ Tidy(m).st = m.st /\ Tidy(m).cap = m.cap /\ Tidy(m).tracked = m.tracked
      /\ Tidy(m).decay = m.decay /\ Tidy(m).clean = m.clean
      /\ m.clean => Tidy(m) = m
  BY <1>6, TidyFields, Zenon
<1>8. clean => open = 1
  BY <1>3
<1> QED
  BY <1>2, <1>5, <1>6, <1>7, <1>8, Zenon

LEMMA SettleVoucher ==
  ASSUME NEW v \in VoucherRow, NEW cap \in Nat, NEW left \in Nat, NEW win \in Nat, NEW reached \in BOOLEAN,
         NEW by \in BOOLEAN, NEW own \in BOOLEAN
  PROVE  LET n == VoucherAtSettle(v, cap, left, win, reached, by, own) IN
         /\ n \in VoucherRow /\ n.st = v.st
         /\ n.cap = IF by THEN cap ELSE v.cap
         /\ n.tracked = IF by THEN left ELSE v.tracked
         /\ v.decay => n.decay
         /\ by /\ reached => n.decay
         /\ n.clean => v.clean /\ by /\ own /\ n.net = v.net + win
<1> DEFINE p == IF by THEN SettledPolicy(v, cap, left, reached) ELSE v
           open == MaxOf(0, v.open - 1)
           net == v.net + win
           clean == v.clean /\ by /\ own
           m == Counted(p, open, clean, net)
<1>2. /\ p \in VoucherRow /\ p.st = v.st /\ p.open = v.open /\ p.clean = v.clean /\ p.net = v.net
      /\ p.cap = IF by THEN cap ELSE v.cap
      /\ p.tracked = IF by THEN left ELSE v.tracked
      /\ (v.decay => p.decay) /\ (by /\ reached => p.decay)
  <2> DEFINE q == SettledPolicy(v, cap, left, reached)
  <2>1. /\ q \in VoucherRow /\ q.st = v.st /\ q.open = v.open /\ q.clean = v.clean /\ q.net = v.net
        /\ q.cap = cap /\ q.tracked = left /\ (v.decay => q.decay) /\ (reached => q.decay)
    <3>1. v \in VoucherRow /\ cap \in Nat /\ left \in Nat /\ reached \in BOOLEAN
      OBVIOUS
    <3> QED
      BY ONLY <3>1, SettledPolicyFields, SMT
  <2> QED
    BY <2>1, Zenon
<1>3. /\ v.tracked \in Int /\ v.open \in Nat /\ v.net \in Int /\ v.clean \in BOOLEAN /\ v.decay \in BOOLEAN
  BY DEF VoucherRow
<1>4. open \in Nat /\ net \in Int /\ clean \in BOOLEAN
  BY <1>3 DEF MaxOf
<1>5. VoucherAtSettle(v, cap, left, win, reached, by, own) = Tidy(m)
  BY <1>2, Zenon DEF VoucherAtSettle, Counted
<1> HIDE DEF p
<1>6. /\ m \in VoucherRow /\ m.st = p.st /\ m.decay = p.decay /\ m.cap = p.cap /\ m.tracked = p.tracked
      /\ m.net = net /\ m.clean = clean
  <2>1. p \in VoucherRow
    BY <1>2, Zenon
  <2> HIDE DEF open, clean, net
  <2>2. open \in Nat /\ net \in Int /\ clean \in BOOLEAN
    BY <1>4
  <2> QED
    BY ONLY <2>1, <2>2, CountedFields, SMT
<1> HIDE DEF m
<1>7. /\ Tidy(m) \in VoucherRow
      /\ Tidy(m).st = m.st /\ Tidy(m).cap = m.cap /\ Tidy(m).tracked = m.tracked
      /\ Tidy(m).decay = m.decay /\ Tidy(m).clean = m.clean
      /\ m.clean => Tidy(m) = m
  BY <1>6, TidyFields, Zenon
<1> QED
  BY <1>2, <1>5, <1>6, <1>7, Zenon


\* A bet moves a voucher forward, whoever is in charge of the outcome.
LEMMA BetMoves ==
  ASSUME NEW v \in VoucherRow, NEW bal \in Nat, NEW stake \in Nat, stake > 0, NEW by \in BOOLEAN, NEW plain \in BOOLEAN
  PROVE  LET cap == MaxCashout(v, 0)
             before == IF by THEN TrackedBeforeBet(v, cap, bal) ELSE 0
         IN  /\ cap \in Nat /\ before \in Nat
             /\ VoucherMoves(v, VoucherAtBet(v, cap, before, stake, by, plain))
<1> DEFINE cap == MaxCashout(v, 0)
           before == IF by THEN TrackedBeforeBet(v, cap, bal) ELSE 0
           n == VoucherAtBet(v, cap, before, stake, by, plain)
<1>1. cap \in Nat /\ cap > 0 /\ (v.cap > 0 => cap = v.cap)
  BY CashoutIsNat
<1> HIDE DEF cap
<1>2. /\ TrackedBeforeBet(v, cap, bal) \in Nat
      /\ v.tracked >= 0 => TrackedBeforeBet(v, cap, bal) = v.tracked
      /\ v.tracked < 0 => TrackedBeforeBet(v, cap, bal) <= cap
  BY <1>1, TrackedTypes
<1>3. before \in Nat
  BY <1>2
<1>4. /\ TrackedAfterBet(before, stake) \in Nat /\ TrackedAfterBet(before, stake) <= before
      /\ before > 0 => TrackedAfterBet(before, stake) < before
  BY <1>1, <1>3, TrackedTypes
<1>5. /\ n \in VoucherRow /\ n.st = v.st /\ n.decay = v.decay
      /\ n.cap = IF by THEN cap ELSE v.cap
      /\ n.tracked = IF by THEN TrackedAfterBet(before, stake) ELSE v.tracked
  <2> HIDE DEF before
  <2> QED
    BY <1>1, <1>3, BetVoucher
<1>6. v.tracked \in Int /\ v.cap \in Nat
  BY DEF VoucherRow
<1>7. by => before = TrackedBeforeBet(v, cap, bal)
  OBVIOUS
<1> HIDE DEF before, n
<1>8. n.tracked > v.tracked => n.tracked < n.cap
  BY <1>1, <1>2, <1>3, <1>4, <1>5, <1>6, <1>7
<1>9. VoucherMoves(v, n)
  <2>1. n.tracked \in Int /\ n.cap \in Int
    BY <1>5 DEF VoucherRow
  <2>2. v.cap > 0 => n.cap = v.cap
    BY <1>1, <1>5
  <2> QED
    BY <1>5, <1>6, <1>8, <2>1, <2>2 DEF VoucherMoves
<1> QED
  BY <1>1, <1>3, <1>9 DEF cap, before, n

LEMMA ReachedFacts ==
  ASSUME NEW v \in VoucherRow, NEW cap \in Nat, NEW before \in Nat, NEW after \in Nat, NEW left \in Nat,
         NEW reached \in Reached(v, cap, before, after, left)
  PROVE  reached \in BOOLEAN /\ (left >= cap => reached)
<1>1. reached = TRUE \/ reached = (left >= cap - 1) \/ reached = (left >= cap)
  <2>1. \/ reached \in {TRUE}
        \/ reached \in {left >= cap - 1, left >= cap}
    BY Zenon DEF Reached
  <2> QED
    BY <2>1, Zenon
<1>2. (left >= cap - 1) \in BOOLEAN /\ (left >= cap) \in BOOLEAN
  OBVIOUS
<1>3. left >= cap => left >= cap - 1
  OBVIOUS
<1> QED
  BY <1>1, <1>2, <1>3, Zenon

LEMMA SettleMoves ==
  ASSUME NEW v \in VoucherRow, NEW fallback \in Int, NEW left \in Nat, NEW win \in Nat,
         NEW reached \in BOOLEAN, NEW by \in BOOLEAN, NEW own \in BOOLEAN,
         by => (left >= MaxCashout(v, fallback) => reached)
  PROVE  /\ VoucherAtSettle(v, MaxCashout(v, fallback), left, win, reached, by, own) \in VoucherRow
         /\ VoucherMoves(v, VoucherAtSettle(v, MaxCashout(v, fallback), left, win, reached, by, own))
<1> DEFINE cap == MaxCashout(v, fallback)
           n == VoucherAtSettle(v, cap, left, win, reached, by, own)
<1>1. cap \in Nat /\ (v.cap > 0 => cap = v.cap)
  BY CashoutIsNat
<1> HIDE DEF cap
<1>2. /\ n \in VoucherRow /\ n.st = v.st
      /\ n.cap = IF by THEN cap ELSE v.cap
      /\ n.tracked = IF by THEN left ELSE v.tracked
      /\ v.decay => n.decay
      /\ by /\ reached => n.decay
  <2>1. v \in VoucherRow /\ cap \in Nat /\ left \in Nat /\ win \in Nat /\ reached \in BOOLEAN
        /\ by \in BOOLEAN /\ own \in BOOLEAN
    BY <1>1
  <2>2. n \in VoucherRow /\ n.st = v.st
    BY ONLY <2>1, SettleVoucher, SMTT(30)
  <2>3. n.cap = IF by THEN cap ELSE v.cap
    BY ONLY <2>1, SettleVoucher, SMTT(30)
  <2>4. n.tracked = IF by THEN left ELSE v.tracked
    BY ONLY <2>1, SettleVoucher, SMTT(30)
  <2>5. v.decay => n.decay
    BY ONLY <2>1, SettleVoucher, ZenonT(60)
  <2>6. by /\ reached => n.decay
    BY ONLY <2>1, SettleVoucher, ZenonT(60)
  <2> HIDE DEF n
  <2> QED
    BY <2>2, <2>3, <2>4, <2>5, <2>6, Zenon
<1>3. v.tracked \in Int /\ v.cap \in Nat
  BY DEF VoucherRow
<1>4. by => (left >= cap => reached)
  BY DEF cap
<1> HIDE DEF n
<1>5. v.cap > 0 => n.cap = v.cap
  BY <1>1, <1>2
<1>6. n.tracked > v.tracked /\ n.tracked >= n.cap => n.decay
  BY <1>1, <1>2, <1>3, <1>4
<1>7. n.tracked \in Int /\ n.cap \in Int
  BY <1>2 DEF VoucherRow
<1>8. VoucherMoves(v, n)
  BY <1>2, <1>3, <1>5, <1>6, <1>7 DEF VoucherMoves
<1> QED
  BY <1>2, <1>8 DEF n, cap


\* A bet of a voucher that is covered leaves it covered, and fitting its only round.
LEMMA BetKeeps ==
  ASSUME NEW v \in VoucherRow, NEW bal \in Nat, NEW stake \in Nat, stake > 0, NEW by \in BOOLEAN,
         v.clean => Covered(v), NEW id, NEW said \in Metadata
  PROVE  LET cap == MaxCashout(v, 0)
             before == IF by THEN TrackedBeforeBet(v, cap, bal) ELSE 0
             n == VoucherAtBet(v, cap, before, stake, by, said = Silent)
         IN  n.clean => /\ v.clean /\ v.open = 0 /\ Covered(n)
                        /\ Fits(n, RoundAtBet(id, cap, before, stake, by, bal, said))
<1> DEFINE cap == MaxCashout(v, 0)
           before == IF by THEN TrackedBeforeBet(v, cap, bal) ELSE 0
           plain == said = Silent
           n == VoucherAtBet(v, cap, before, stake, by, plain)
           T == TrackedAfterBet(before, stake)
           g == RoundAtBet(id, cap, before, stake, by, bal, said)
<1> SUFFICES ASSUME n.clean
             PROVE  v.clean /\ v.open = 0 /\ Covered(n) /\ Fits(n, g)
  BY Zenon
<1>0. plain \in BOOLEAN
  BY ONLY Zenon
<1> HIDE DEF plain
<1>1. cap \in Nat /\ cap > 0 /\ (v.cap > 0 => cap = v.cap)
  BY CashoutIsNat
<1> HIDE DEF cap
<1>2. /\ TrackedBeforeBet(v, cap, bal) \in Nat
      /\ v.tracked >= 0 => TrackedBeforeBet(v, cap, bal) = v.tracked
      /\ v.tracked < 0 => TrackedBeforeBet(v, cap, bal) <= cap
  BY <1>1, TrackedTypes
<1>3. before \in Nat
  BY <1>2
<1>4. /\ T \in Nat /\ T <= before /\ before - stake <= T /\ before - T <= stake
      /\ before > 0 => T < before
  <2> HIDE DEF before
  <2>1. stake \in Nat /\ stake > 0 /\ before \in Nat
    BY <1>3
  <2> QED
    BY ONLY <2>1, TrackedTypes DEF T
<1>5. /\ v.clean /\ v.open = 0 /\ by /\ plain /\ n.open = 1 /\ n \in VoucherRow
      /\ n.cap = cap /\ n.tracked = T
      /\ n.net = (IF v.tracked >= 0 THEN v.net ELSE before) - stake
  <2> HIDE DEF before
  <2>1. /\ n \in VoucherRow /\ n.cap = IF by THEN cap ELSE v.cap
        /\ n.tracked = IF by THEN T ELSE v.tracked
        /\ n.clean => /\ v.clean /\ v.open = 0 /\ by /\ plain /\ n.open = 1
                      /\ n.net = (IF v.tracked >= 0 THEN v.net ELSE before) - stake
    <3>1. v \in VoucherRow /\ cap \in Nat /\ before \in Nat /\ stake \in Nat /\ by \in BOOLEAN /\ plain \in BOOLEAN
      BY <1>0, <1>1, <1>3
    <3> QED
      BY ONLY <3>1, BetVoucher
  <2> QED
    BY <2>1
<1>6. g.after = T /\ g.before = before /\ g.stake = stake
  BY <1>5 DEF RoundAtBet, Silent, Over, plain
<1>7. /\ v.tracked >= 0 => v.net <= v.tracked /\ (v.tracked <= v.cap \/ v.net <= 0)
  BY <1>5 DEF Covered
<1>8. before = TrackedBeforeBet(v, cap, bal)
  BY <1>5
<1>9. v.tracked \in Int /\ v.cap \in Nat /\ v.net \in Int
  BY DEF VoucherRow
<1> HIDE DEF before, n, T, g
<1>10. v.tracked >= 0 => before <= cap \/ v.net <= 0
  BY <1>1, <1>2, <1>7, <1>8, <1>9
<1>11. n.net <= n.tracked /\ (n.tracked <= n.cap \/ n.net <= 0)
  BY <1>1, <1>2, <1>3, <1>4, <1>5, <1>7, <1>8, <1>9, <1>10
<1>12. Covered(n)
  BY <1>11 DEF Covered
<1>13. n.net + stake <= before
  BY <1>2, <1>3, <1>5, <1>7, <1>8, <1>9
<1>14. before <= n.cap \/ n.net + stake <= 0
  BY <1>1, <1>2, <1>3, <1>5, <1>7, <1>8, <1>9, <1>10
<1>15. Fits(n, g)
  BY <1>1, <1>3, <1>4, <1>5, <1>6, <1>13, <1>14 DEF Fits
<1> QED
  BY <1>5, <1>12, <1>15

\* A settlement keeps its voucher covered, and in decay it leaves less than there was.
LEMMA SettleKeeps ==
  ASSUME NEW v \in VoucherRow, NEW g \in RoundRow, NEW bal \in Nat, NEW by \in BOOLEAN, NEW own \in BOOLEAN,
         NEW win \in Nat, NEW reached \in BOOLEAN, v.clean => Covered(v) /\ (own => Fits(v, g)),
         LET cap == MaxCashout(v, g.cap) IN
         by => win <= MaxWin(v, cap, g.stake, BeforeOf(g, v, cap, bal), AfterOf(g, v, cap, bal))
  PROVE  LET cap == MaxCashout(v, g.cap)
             n == VoucherAtSettle(v, cap, AfterOf(g, v, cap, bal) + win, win, reached, by, own)
         IN  n.clean => /\ v.clean /\ own /\ Covered(n)
                        /\ v.decay /\ MinDecay > 0 => n.tracked < Or(g.before, g.stake)
<1> DEFINE cap == MaxCashout(v, g.cap)
           before == BeforeOf(g, v, cap, bal)
           after == AfterOf(g, v, cap, bal)
           left == after + win
           n == VoucherAtSettle(v, cap, left, win, reached, by, own)
<1> SUFFICES ASSUME n.clean
             PROVE  /\ v.clean /\ own /\ Covered(n)
                    /\ v.decay /\ MinDecay > 0 => n.tracked < Or(g.before, g.stake)
  BY Zenon
<1>0. /\ v.tracked \in Int /\ v.cap \in Nat /\ v.net \in Int /\ g.stake \in Nat /\ g.cap \in Int
      /\ g.before \in Int /\ g.after \in Int
  BY DEF VoucherRow, RoundRow
<1>1. cap \in Nat /\ (v.cap > 0 => cap = v.cap)
  BY <1>0, CashoutIsNat
<1>2. by => win <= MaxWin(v, cap, g.stake, before, after)
  OBVIOUS
<1> HIDE DEF cap
<1>3. before \in Nat /\ after \in Nat
  BY <1>1, SnapshotTypes
<1>4. left \in Nat
  BY <1>3
<1>5. /\ v.clean /\ by /\ own /\ n.net = v.net + win
      /\ n.cap = cap /\ n.tracked = left
  <2> HIDE DEF left
  <2>1. v \in VoucherRow /\ cap \in Nat /\ left \in Nat /\ win \in Nat /\ reached \in BOOLEAN
        /\ by \in BOOLEAN /\ own \in BOOLEAN
    BY <1>1, <1>4
  <2>2. /\ n.cap = IF by THEN cap ELSE v.cap
        /\ n.tracked = IF by THEN left ELSE v.tracked
        /\ n.clean => v.clean /\ by /\ own /\ n.net = v.net + win
    BY ONLY <2>1, SettleVoucher, SMTT(60)
  <2> QED
    BY <2>2
<1>6. Fits(v, g) /\ Covered(v)
  BY <1>5
<1>7. /\ v.cap > 0 /\ v.tracked >= 0 /\ g.after = v.tracked /\ g.stake > 0
      /\ IF g.before = 0
         THEN v.tracked = 0 /\ v.net + g.stake <= 0
         ELSE /\ g.after < g.before /\ g.before <= g.after + g.stake
              /\ g.before <= v.cap \/ v.net + g.stake <= 0
      /\ v.net <= v.tracked /\ (v.tracked <= v.cap \/ v.net <= 0)
  BY <1>6 DEF Fits, Covered
<1>8. before = Or(g.before, g.stake) /\ after = v.tracked
  BY <1>0, <1>7 DEF BeforeOf, AfterOf, Or, MaxOf
<1>9. before = IF g.before = 0 THEN g.stake ELSE g.before
  BY <1>8 DEF Or
<1> HIDE DEF before, after, n
<1> DEFINE W == MaxWin(v, cap, g.stake, before, after)
           over == AtOrOverCap(v, cap, before, after)
<1>10. W \in Nat
  BY <1>0, <1>1, <1>3, PayoutsAreNat
<1>11. /\ ~ over => W <= MaxOf(0, cap - after)
       /\ over /\ after <= before => after + W <= before
       /\ over /\ after < before /\ MinDecay > 0 => after + W < before
  BY <1>0, <1>1, <1>3, MaxWinBounds
<1>12. v.decay => over
  BY DEF AtOrOverCap
<1>13. win <= W
  BY <1>2, <1>5
<1>14. ~ over => after < cap
  BY <1>1, <1>3 DEF AtOrOverCap
<1> HIDE DEF W, over
<1>15. after < before
  BY <1>0, <1>7, <1>8, <1>9
<1>16. ~ over => left <= cap
  BY <1>1, <1>3, <1>10, <1>11, <1>13, <1>14 DEF MaxOf
<1>17. over => left <= before
  BY <1>3, <1>10, <1>11, <1>13, <1>15
<1>18. n.net <= n.tracked
  BY <1>0, <1>3, <1>5, <1>7, <1>8
<1>19. n.tracked <= n.cap \/ n.net <= 0
  <2>1. CASE ~ over
    BY <2>1, <1>5, <1>16
  <2>2. CASE over
    BY <2>2, <1>0, <1>1, <1>3, <1>5, <1>7, <1>8, <1>9, <1>17
  <2> QED
    BY <2>1, <2>2
<1>20. v.decay /\ MinDecay > 0 => n.tracked < Or(g.before, g.stake)
  BY <1>3, <1>5, <1>8, <1>10, <1>11, <1>12, <1>13, <1>15
<1>21. Covered(n)
  BY <1>18, <1>19 DEF Covered
<1> QED
  BY <1>5, <1>20, <1>21


(***************************************************************************)
(* The invariant                                                           *)
(***************************************************************************)

\* What a place of a handler says of the request that is there.
Local(w) ==
  /\ w.at = "round" => w.op = "settle"
  /\ w.at \in {"session", "wallet"} => w.op \in {"settle", "sessionBet"}
  /\ w.at = "limit" => w.op = "sessionBet"
  /\ w.at = "play" => w.op \in {"bet", "sessionBet", "settle"}
  /\ w.at \in {"find", "insert", "lower"} => w.op = "limit"
  /\ w.at # "idle" /\ w.op \in {"bet", "sessionBet", "settle"} => w.g \in Rounds
  /\ w.at # "idle" /\ w.op \in {"bet", "sessionBet", "limit"} => w.stake > 0
  /\ w.at = "lower" => w.l \in Limits
  /\ w.at \in {"balance", "save"} => w.op \in {"redeem", "login"} /\ w.v \in Vouchers
  /\ w.at = "balance" => w.copy.net = 0 /\ (w.copy.cap > 0 => w.copy.cap >= Amount)
  /\ w.at = "save" => w.copy.st = "redeemed" /\ Covered(w.copy)

LocalPart == \A r \in Reqs : Local(req[r])

\* What a request has read and still holds.
Facts(r) ==
  LET w == req[r] IN
  /\ w.seen # Nothing => db[w.seen].st = "redeemed"
  /\ w.at # "idle" /\ w.op \in Limited => LimitsNow \subseteq w.known
  /\ w.at = "round" => db[w.g].st # "none"
  /\ w.at = "find" => 0 \in w.known \/ LimitsNow # {}
  /\ w.at = "insert" => 0 \in w.known
  /\ w.at = "lower" => db[w.l] > 0 /\ \E n \in w.known : w.stake < n
  /\ w.at \in {"session", "wallet", "play"} /\ w.op = "settle"
       => lock[w.g] = r /\ db[w.g].st = "pending"
  /\ w.at \in {"balance", "save"} /\ w.op = "redeem" => lock[w.v] = r /\ db[w.v].st = "active"

FactsPart == \A r \in Reqs : Facts(r)

\* A voucher played one round at a time is covered, and fits the one round that waits.
Waits(f, g, v) == f[g].st = "pending" /\ f[g].v = v
GoodAt(f, v) ==
  f[v].clean => /\ Covered(f[v])
                /\ \A g \in Rounds : Waits(f, g, v) => Fits(f[v], f[g])
                /\ \A g, h \in Rounds : Waits(f, g, v) /\ Waits(f, h, v) => g = h

\* A round its owner has not touched, has begun under a voucher it owns, or has settled.
RoundBegun(r, g) == cur[g].st = "pending" /\ cur[g].v \in Vouchers /\ lock[cur[g].v] = r
PaysDown(r, g) ==
  \A v \in Vouchers :
    lock[v] = r /\ db[v].decay /\ cur[v].clean /\ db[g].st = "pending"
      => cur[v].tracked < Or(db[g].before, db[g].stake)
RoundSettled(r, g) == cur[g].st = "settled" /\ (MinDecay > 0 => PaysDown(r, g))

LimitSet(r, l) ==
  IF db[l] = 0 THEN 0 \in req[r].known ELSE \E n \in req[r].known : cur[l] < n

\* What a request that has written makes of a voucher, and of the wallet's link.
Made(r, v) ==
  /\ cur[v].st = "redeemed" /\ GoodAt(Stored(r), v)
  /\ VoucherMoves(db[v], cur[v]) \/ (req[r].op = "login" /\ db[v].st = "redeemed")
LinkedBy(r) ==
  LET v == cur[Wallet].v IN
  v # Nothing => db[v].st = "redeemed" \/ (lock[v] = r /\ cur[v].st = "redeemed")

\* What a request owns, and what it has made of it.
Owned(r, x) ==
  /\ req[r].at # "idle"
  /\ req[r].at # "respond"
       => /\ cur[x] = db[x]
          /\ \/ x = Session
             \/ req[r].op = "settle" /\ x = req[r].g
             \/ req[r].at \in {"balance", "save"} /\ x = req[r].v
  /\ x \in Vouchers /\ req[r].at = "respond" => Made(r, x)
  /\ x = Wallet => LinkedBy(r)
  /\ x \in Limits /\ cur[x] # db[x] => req[r].op = "limit" /\ LimitSet(r, x)
  /\ x \in Rounds => cur[x] = db[x] \/ RoundBegun(r, x) \/ RoundSettled(r, x)

OwnPart == \A r \in Reqs, x \in Rows : lock[x] = r => Owned(r, x)

\* A wallet is linked to a redeemed voucher, or to none.
Linked(w) == w.v # Nothing => db[w.v].st = "redeemed"

RowsPart ==
  /\ \A x \in Rows : lock[x] = NoReq => cur[x] = db[x]
  /\ \A l \in Limits : db[l] > 0 => cur[l] > 0
  /\ Linked(db[Wallet])
  /\ \A v \in Vouchers :
       db[v].st # "redeemed" => db[v].net = 0 /\ ~ db[v].decay /\ (db[v].cap > 0 => db[v].cap >= Amount)
  /\ \A g \in Rounds : db[g].st = "pending" => db[g].v \in Vouchers /\ db[db[g].v].st = "redeemed"
  /\ \A v \in Vouchers : GoodAt(db, v)

IInv == TypeOK /\ LocalPart /\ FactsPart /\ OwnPart /\ RowsPart

LEMMA RowNames ==
  /\ Wallet \in Rows /\ Session \in Rows /\ Vouchers \subseteq Rows /\ Rounds \subseteq Rows /\ Limits \subseteq Rows
  /\ Wallet \notin Vouchers \cup Rounds \cup Limits /\ Session \notin Vouchers \cup Rounds \cup Limits
  /\ Wallet # Session /\ \A v \in Vouchers : v \notin Rounds /\ v \notin Limits
  /\ \A l \in Limits : l \notin Rounds
  /\ Nothing \notin Vouchers /\ Nothing \notin Rounds /\ Nothing \notin Limits
BY NamesAssumption DEF Rows

\* GoodAt asks only about the voucher and the rounds that wait under it.
LEMMA GoodStays ==
  ASSUME NEW f, NEW h, NEW v \in Vouchers, GoodAt(f, v), h[v] = f[v],
         \A g \in Rounds : Waits(h, g, v) => Waits(f, g, v) /\ h[g] = f[g]
  PROVE  GoodAt(h, v)
BY DEF GoodAt

(***************************************************************************)
(* Steps of a handler                                                      *)
(***************************************************************************)

\* A request takes free rows, writes rows it owns, and goes on.
Step(r, w) ==
  /\ UNCHANGED <<db, mode, ledger, acts, menu>>
  /\ req' = [req EXCEPT ![r] = w]
  /\ lock' \in [Rows -> Reqs \cup {NoReq}]
  /\ \A x \in Rows : lock'[x] = lock[x] \/ (lock[x] = NoReq /\ lock'[x] = r)
  /\ DOMAIN cur' = Rows /\ RowsOK(cur')
  /\ \A x \in Rows : cur'[x] = cur[x] \/ lock'[x] = r

\* The others own what they owned, as it was.
LEMMA OtherOwns ==
  ASSUME NEW s \in Reqs, NEW x \in Rows, Owned(s, x), cur'[x] = cur[x], db' = db, req'[s] = req[s],
         \A y \in Rows : lock'[y] = s <=> lock[y] = s,
         \A y \in Rows : lock'[y] = s => cur'[y] = cur[y],
         cur[Wallet].v \in Vouchers \cup {Nothing}
  PROVE  Owned(s, x)'
<1>1. Stored(s)' = Stored(s)
  BY DEF Stored
<1>2. x \in Vouchers /\ req'[s].at = "respond" => Made(s, x)'
  <2>1. \A v : GoodAt(Stored(s), v)' <=> GoodAt(Stored(s)', v)
    BY DEF GoodAt, Waits
  <2> QED
    BY <1>1, <2>1 DEF Owned, Made
<1>3. x \in Limits /\ cur'[x] # db'[x] => req'[s].op = "limit" /\ LimitSet(s, x)'
  BY DEF Owned, LimitSet
<1>4. RoundBegun(s, x) => RoundBegun(s, x)'
  BY RowNames DEF RoundBegun
<1>5. RoundSettled(s, x) => RoundSettled(s, x)'
  <2>1. PaysDown(s, x) => PaysDown(s, x)'
    BY RowNames DEF PaysDown
  <2> QED
    BY <2>1 DEF RoundSettled
<1>6. x = Wallet => LinkedBy(s)'
  BY RowNames DEF Owned, LinkedBy
<1> QED
  BY <1>2, <1>3, <1>4, <1>5, <1>6 DEF Owned

LEMMA OthersKeep ==
  ASSUME IInv, NEW r \in Reqs, NEW w \in Work, Step(r, w), NEW s \in Reqs, s # r, NEW x \in Rows, lock'[x] = s
  PROVE  Owned(s, x)'
<1>0. s # NoReq /\ r # NoReq
  BY NamesAssumption
<1>1. \A y \in Rows : lock'[y] = s <=> lock[y] = s
  BY <1>0 DEF Step
<1>2. \A y \in Rows : lock'[y] = s => cur'[y] = cur[y]
  BY <1>0 DEF Step
<1>3. db' = db /\ req'[s] = req[s]
  BY DEF Step, IInv, TypeOK
<1>4. Owned(s, x) /\ cur[Wallet].v \in Vouchers \cup {Nothing}
  BY <1>1 DEF IInv, OwnPart, TypeOK, RowsOK
<1> QED
  BY <1>1, <1>2, <1>3, <1>4, OtherOwns

LEMMA StepInv ==
  ASSUME IInv, NEW r \in Reqs, NEW w \in Work, Step(r, w), Local(w), Facts(r)',
         \A x \in Rows : lock'[x] = r => Owned(r, x)',
         \A l \in Limits : lock'[l] = r /\ db[l] > 0 => cur'[l] > 0
  PROVE  IInv'
<1>0. \A s \in Reqs : s # NoReq
  BY NamesAssumption
<1>1. TypeOK'
  <2>1. req' \in [Reqs -> Work]
    BY DEF Step, IInv, TypeOK
  <2>2. RowsOK(db)'
    BY DEF Step, IInv, TypeOK, RowsOK
  <2>3. RowsOK(cur)'
    BY DEF Step, RowsOK
  <2> QED
    BY <2>1, <2>2, <2>3 DEF Step, IInv, TypeOK
<1>2. LocalPart'
  BY DEF Step, IInv, TypeOK, LocalPart
<1>3. FactsPart'
  <2> SUFFICES ASSUME NEW s \in Reqs, s # r
               PROVE  Facts(s)'
    BY DEF FactsPart
  <2>1. Facts(s) /\ req'[s] = req[s] /\ db' = db /\ acts' = acts
    BY DEF Step, IInv, TypeOK, FactsPart
  <2>2. LimitsNow' = LimitsNow
    BY <2>1 DEF LimitsNow
  <2>3. \A x \in Rows : lock[x] = s => lock'[x] = s
    BY <1>0 DEF Step
  <2>4. /\ req[s].at \in {"session", "wallet", "play"} /\ req[s].op = "settle" => req[s].g \in Rows
        /\ req[s].at \in {"balance", "save"} => req[s].v \in Rows
    BY RowNames DEF IInv, LocalPart, Local
  <2> QED
    BY <2>1, <2>2, <2>3, <2>4 DEF Facts
<1>4. OwnPart'
  BY OthersKeep DEF OwnPart
<1>5. \A x \in Rows : lock'[x] # r => cur'[x] = cur[x] /\ lock'[x] = lock[x]
  BY DEF Step
<1>6. RowsPart'
  <2>1. db' = db
    BY DEF Step
  <2>2. \A x \in Rows : lock'[x] = NoReq => cur'[x] = db'[x]
    BY <1>0, <1>5, <2>1 DEF IInv, RowsPart
  <2>4. \A l \in Limits : db'[l] > 0 => cur'[l] > 0
    BY <1>5, <2>1, RowNames DEF IInv, RowsPart
  <2>5. Linked(db[Wallet])'
    BY <2>1 DEF IInv, RowsPart, Linked
  <2>6. \A v \in Vouchers : GoodAt(db, v)'
    BY <2>1 DEF IInv, RowsPart, GoodAt, Waits
  <2> QED
    BY <2>1, <2>2, <2>4, <2>5, <2>6 DEF IInv, RowsPart
<1> QED
  BY <1>1, <1>2, <1>3, <1>4, <1>6 DEF IInv

\* A step that only reads.
LEMMA QuietInv ==
  ASSUME IInv, NEW r \in Reqs, NEW w \in Work, Kept' = Kept, req' = [req EXCEPT ![r] = w], Local(w), Facts(r)',
         \/ req[r].at = "idle"
         \/ /\ req[r].at # "respond" /\ w.at # "idle"
            /\ w.op = req[r].op /\ w.g = req[r].g /\ w.known = req[r].known
            /\ req[r].at \in {"balance", "save"} => w.at \in {"balance", "save"} /\ w.v = req[r].v
  PROVE  IInv'
<1>0. db' = db /\ cur' = cur /\ lock' = lock /\ mode' = mode /\ ledger' = ledger /\ acts' = acts /\ menu' = menu
  BY DEF Kept
<1>1. Step(r, w)
  BY <1>0 DEF Step, IInv, TypeOK, RowsOK
<1>2. \A x \in Rows : lock'[x] = r => Owned(r, x)'
  <2> SUFFICES ASSUME NEW x \in Rows, lock[x] = r
               PROVE  Owned(r, x)'
    BY <1>0
  <2>1. Owned(r, x)
    BY DEF IInv, OwnPart
  <2>2. req[r].at # "idle"
    BY <2>1 DEF Owned
  <2>3. req'[r] = w
    BY DEF IInv, TypeOK
  <2>4. /\ cur[x] = db[x]
        /\ \/ x = Session
           \/ w.op = "settle" /\ x = w.g
           \/ w.at \in {"balance", "save"} /\ x = w.v
    BY <2>1, <2>2 DEF Owned
  <2>5. x \notin Vouchers \/ w.at # "respond"
    <3>1. Local(w) /\ (w.op = "settle" => w.g \in Rounds)
      BY <2>2 DEF Local
    <3> QED
      BY <2>4, <3>1, RowNames
  <2>6. x = Wallet => LinkedBy(r)'
    BY <1>0, <2>1 DEF Owned, LinkedBy
  <2> QED
    BY <1>0, <2>1, <2>2, <2>3, <2>4, <2>5, <2>6 DEF Owned
<1>4. \A l \in Limits : db[l] > 0 => cur'[l] > 0
  BY <1>0 DEF IInv, RowsPart
<1> QED
  BY <1>1, <1>2, <1>4, StepInv


\* What a move to another place and an answer leave as it was.
LEMMA Moved ==
  ASSUME NEW u \in Work, NEW place \in Places
  PROVE  LET w == [u EXCEPT !.at = place] IN
         /\ w \in Work /\ w.at = place /\ w.op = u.op /\ w.g = u.g /\ w.stake = u.stake
         /\ w.bal = u.bal /\ w.seen = u.seen /\ w.l = u.l /\ w.act = u.act
         /\ w.status = u.status /\ w.known = u.known /\ w.v = u.v /\ w.copy = u.copy
BY DEF Work

LEMMA GotoWork ==
  ASSUME IInv, NEW r \in Reqs, NEW place \in Places
  PROVE  LET w == [req[r] EXCEPT !.at = place] IN
         /\ Goto(r, place) = [req EXCEPT ![r] = w]
         /\ w \in Work /\ w.at = place /\ w.op = req[r].op /\ w.g = req[r].g /\ w.stake = req[r].stake
         /\ w.bal = req[r].bal /\ w.seen = req[r].seen /\ w.l = req[r].l /\ w.act = req[r].act
         /\ w.status = req[r].status /\ w.known = req[r].known /\ w.v = req[r].v /\ w.copy = req[r].copy
<1>1. req[r] \in Work /\ req \in [Reqs -> Work]
  BY DEF IInv, TypeOK
<1>2. Goto(r, place) = [req EXCEPT ![r] = [req[r] EXCEPT !.at = place]]
  BY <1>1, Zenon DEF Goto
<1> DEFINE u == req[r]
           w == [u EXCEPT !.at = place]
<1>3. /\ w \in Work /\ w.at = place /\ w.op = u.op /\ w.g = u.g /\ w.stake = u.stake
      /\ w.bal = u.bal /\ w.seen = u.seen /\ w.l = u.l /\ w.act = u.act
      /\ w.status = u.status /\ w.known = u.known /\ w.v = u.v /\ w.copy = u.copy
  <2>1. u \in Work
    BY <1>1
  <2> HIDE DEF u
  <2> QED
    BY ONLY <2>1, Moved, ZenonT(60)
<1>4. Goto(r, place) = [req EXCEPT ![r] = w]
  BY <1>2
<1> HIDE DEF w
<1> QED
  BY ONLY <1>3, <1>4, Zenon DEF w

LEMMA AnsweredIsWork ==
  ASSUME NEW u \in Work, NEW status \in {200, 201, 400, 403, 404, 409}
  PROVE  Answered(u, status) \in Work
<1>1. "respond" \in Places
  BY DEF Places
<1> DEFINE a == [u EXCEPT !.at = "respond"]
           b == [u EXCEPT !.at = "respond", !.status = status]
           c == [u EXCEPT !.at = "respond", !.status = status, !.bal = 0]
           d == [u EXCEPT !.at = "respond", !.status = status, !.bal = 0, !.seen = Nothing]
<1>2. a \in Work
  BY <1>1 DEF Work
<1>3. b \in Work
  <2>1. b = [a EXCEPT !.status = status]
    OBVIOUS
  <2> HIDE DEF a, b
  <2> QED
    BY <1>2, <2>1 DEF Work
<1>4. c \in Work
  <2>1. c = [b EXCEPT !.bal = 0]
    OBVIOUS
  <2> HIDE DEF b, c
  <2> QED
    BY <1>3, <2>1 DEF Work
<1>5. d \in Work
  <2>1. d = [c EXCEPT !.seen = Nothing]
    OBVIOUS
  <2> HIDE DEF c, d
  <2> QED
    BY <1>4, <2>1 DEF Work
<1> DEFINE e == [u EXCEPT !.at = "respond", !.status = status, !.bal = 0, !.seen = Nothing, !.l = Nothing]
           f == [u EXCEPT !.at = "respond", !.status = status, !.bal = 0, !.seen = Nothing, !.l = Nothing,
                          !.v = Nothing]
<1>6. e \in Work
  <2>1. e = [d EXCEPT !.l = Nothing]
    OBVIOUS
  <2> HIDE DEF d, e
  <2> QED
    BY <1>5, <2>1 DEF Work
<1>7. f \in Work
  <2>1. f = [e EXCEPT !.v = Nothing]
    OBVIOUS
  <2> HIDE DEF e, f
  <2> QED
    BY <1>6, <2>1 DEF Work
<1>8. Answered(u, status) = [f EXCEPT !.copy = NoVoucher] /\ NoVoucher \in VoucherRow
  BY DEF Answered, NoVoucher, VoucherRow
<1> HIDE DEF f
<1> QED
  BY <1>7, <1>8 DEF Work

LEMMA AnsweredFields ==
  ASSUME NEW u \in Work, NEW status \in {200, 201, 400, 403, 404, 409}
  PROVE  LET w == Answered(u, status) IN
         /\ w.at = "respond" /\ w.op = u.op /\ w.g = u.g /\ w.stake = u.stake
         /\ w.seen = Nothing /\ w.act = u.act /\ w.status = status
         /\ w.known = u.known
<1>1. Answered(u, status).at = "respond"
  BY DEF Answered, Work
<1>2. Answered(u, status).op = u.op
  BY DEF Answered, Work
<1>3. Answered(u, status).g = u.g
  BY DEF Answered, Work
<1>4. Answered(u, status).stake = u.stake
  BY DEF Answered, Work
<1>5. Answered(u, status).seen = Nothing
  BY DEF Answered, Work
<1>6. Answered(u, status).act = u.act
  BY DEF Answered, Work
<1>7. Answered(u, status).status = status
  BY DEF Answered, Work
<1>8. Answered(u, status).known = u.known
  BY DEF Answered, Work
<1> QED
  BY <1>1, <1>2, <1>3, <1>4, <1>5, <1>6, <1>7, <1>8, Zenon

LEMMA AnswerWork ==
  ASSUME IInv, NEW r \in Reqs, NEW status \in {200, 201, 400, 403, 404, 409}
  PROVE  LET w == Answered(req[r], status) IN
         /\ Answer(r, status) = [req EXCEPT ![r] = w]
         /\ w \in Work /\ w.at = "respond" /\ w.op = req[r].op /\ w.g = req[r].g /\ w.stake = req[r].stake
         /\ w.seen = Nothing /\ w.act = req[r].act /\ w.status = status
         /\ w.known = req[r].known
<1>1. req[r] \in Work /\ req \in [Reqs -> Work]
  BY DEF IInv, TypeOK
<1>2. Answer(r, status) = [req EXCEPT ![r] = Answered(req[r], status)]
  BY <1>1, Zenon DEF Answer, Answered
<1>3. Answered(req[r], status) \in Work
  BY <1>1, AnsweredIsWork
<1> DEFINE u == req[r]
           w == Answered(u, status)
<1>4. /\ w.at = "respond" /\ w.op = u.op /\ w.g = u.g /\ w.stake = u.stake
      /\ w.seen = Nothing /\ w.act = u.act /\ w.status = status
      /\ w.known = u.known
  <2>1. u \in Work
    BY <1>1
  <2> HIDE DEF u
  <2> QED
    BY <2>1, AnsweredFields
<1> QED
  BY <1>2, <1>3, <1>4

\* A refusal, or an answer without a write.
LEMMA AnswerInv ==
  ASSUME IInv, NEW r \in Reqs, NEW status \in {200, 201, 400, 403, 404, 409}, Kept' = Kept,
         req' = Answer(r, status), req[r].at \notin {"idle", "respond", "balance", "save"}
  PROVE  IInv'
<1> DEFINE w == Answered(req[r], status)
<1>1. /\ req' = [req EXCEPT ![r] = w]
      /\ w \in Work /\ w.at = "respond" /\ w.op = req[r].op /\ w.g = req[r].g /\ w.stake = req[r].stake
      /\ w.seen = Nothing /\ w.act = req[r].act
      /\ w.known = req[r].known
  BY AnswerWork
<1> HIDE DEF w
<1>2. Local(w)
  BY <1>1 DEF IInv, LocalPart, Local
<1>3. req'[r] = w /\ db' = db /\ acts' = acts
  BY <1>1 DEF IInv, TypeOK, Kept
<1>4. Facts(r)'
  <2>1. LimitsNow' = LimitsNow
    BY <1>3 DEF LimitsNow
  <2> QED
    BY <1>1, <1>3, <2>1 DEF Facts, IInv, FactsPart
<1>5. w.at # "idle" /\ req[r].at # "respond"
  BY <1>1
<1> QED
  BY <1>1, <1>2, <1>4, <1>5, QuietInv, Zenon, SMTT(60)

LEMMA BeginInv == ASSUME IInv, NEW r \in Reqs, Begin(r) PROVE IInv'
<1>0. PICK op \in Ops \cap menu :
        \E g \in RoundsFor(op), n \in NumbersFor(op) : req' = [req EXCEPT ![r] = Arrival(op, g, n)]
  BY Zenon DEF Begin
<1>1. PICK g \in RoundsFor(op), n \in NumbersFor(op) : req' = [req EXCEPT ![r] = Arrival(op, g, n)]
  BY <1>0, Zenon
<1> DEFINE w == Arrival(op, g, n)
<1>2. Kept' = Kept /\ req[r].at = "idle"
  BY Zenon DEF Begin, At, Kept
<1>3. /\ w.at = FirstPlace(op) /\ w.op = op /\ w.g = g /\ w.stake = n /\ w.act = "none" /\ w.l = Nothing
      /\ w.status = 0 /\ w.bal = IF op \in {"bet", "view"} THEN db[Wallet].bal ELSE 0
      /\ w.seen = IF op \in {"bet", "view"} THEN db[Wallet].v ELSE Nothing
      /\ w.known = IF op \notin Limited THEN {} ELSE IF LimitsNow = {} THEN {0} ELSE LimitsNow
      /\ w.v = Nothing /\ w.copy = NoVoucher
  BY DEF Arrival
<1>4. op \in {"bet", "sessionBet", "settle", "limit", "event", "view", "redeem", "login"}
  BY DEF Ops
<1>5. /\ op \in {"bet", "sessionBet", "settle"} => g \in Rounds
      /\ g \in Rounds \cup {Nothing}
  BY <1>4, Zenon DEF RoundsFor
<1>6. /\ op \in {"bet", "sessionBet", "limit"} => n > 0
      /\ n \in Nat
  BY <1>4, AmountAssumption DEF NumbersFor
<1>7. /\ op = "settle" => FirstPlace(op) = "round"
      /\ op = "sessionBet" => FirstPlace(op) = "session"
      /\ op = "limit" => FirstPlace(op) = "find"
      /\ op = "event" => FirstPlace(op) = "risk"
      /\ op = "view" => FirstPlace(op) = "link"
      /\ op = "bet" => FirstPlace(op) = "play"
      /\ op \in {"redeem", "login"} => FirstPlace(op) = "voucher"
  BY DEF FirstPlace
<1>8. db[Wallet].bal \in Nat /\ db[Wallet].v \in Vouchers \cup {Nothing} /\ Linked(db[Wallet])
  BY DEF IInv, TypeOK, RowsOK, RowsPart
<1>9. LimitsNow \subseteq Nat /\ acts \subseteq ActionTypes
  BY DEF LimitsNow, IInv, TypeOK, RowsOK
<1>10. w \in Work
  <2>1. FirstPlace(op) \in Places
    BY <1>4, <1>7 DEF Places
  <2>2. op \in Ops
    OBVIOUS
  <2>3. w.known \in SUBSET Nat
    BY <1>3, <1>9
  <2>4. w.bal \in Nat /\ w.seen \in Vouchers \cup {Nothing}
    BY <1>3, <1>8
  <2>5. w = [at |-> FirstPlace(op), op |-> op, g |-> g, stake |-> n, bal |-> w.bal, seen |-> w.seen,
             l |-> Nothing, v |-> Nothing, copy |-> NoVoucher, act |-> "none", status |-> 0,
             known |-> w.known]
    BY <1>3, Zenon DEF Arrival
  <2>6. NoVoucher \in VoucherRow
    BY DEF NoVoucher, VoucherRow
  <2> HIDE DEF w
  <2> QED
    BY <1>5, <1>6, <2>1, <2>2, <2>3, <2>4, <2>5, <2>6 DEF Work
<1> HIDE DEF w
<1>11. Local(w)
  BY <1>3, <1>4, <1>5, <1>6, <1>7 DEF Local
<1>12. req' = [req EXCEPT ![r] = w]
  BY <1>1 DEF w
<1>13. req'[r] = w /\ db' = db /\ acts' = acts
  BY <1>2, <1>12 DEF IInv, TypeOK, Kept
<1>14. Facts(r)'
  <2>1. LimitsNow' = LimitsNow
    BY <1>13 DEF LimitsNow
  <2>2. op \in Limited => LimitsNow \subseteq w.known /\ (0 \in w.known \/ LimitsNow # {})
    BY <1>3
  <2>3. w.at \notin {"insert", "lower", "balance", "save"} /\ (w.op = "settle" => w.at = "round") /\ (w.at = "find" => op \in Limited)
    BY <1>3, <1>4, <1>7 DEF Limited
  <2>4. w.seen # Nothing => db[w.seen].st = "redeemed"
    BY <1>3, <1>8 DEF Linked
  <2>5. w.at = "round" => op = "settle"
    BY <1>3, <1>4, <1>7
  <2>6. op = "settle" => db[g].st # "none"
    BY Zenon DEF RoundsFor
  <2> QED
    BY <1>3, <1>13, <2>1, <2>2, <2>3, <2>4, <2>5, <2>6 DEF Facts
<1> QED
  BY <1>2, <1>10, <1>11, <1>12, <1>14, QuietInv, Zenon


\* A request goes on with what it has read.
Onward(r, w) ==
  /\ req[r].at \notin {"idle", "respond"} /\ w.at \notin {"idle", "find", "round"} /\ Local(w)
  /\ w.op = req[r].op /\ w.g = req[r].g /\ w.known = req[r].known
  /\ req[r].at \in {"balance", "save"} => w.at \in {"balance", "save"} /\ w.v = req[r].v
  /\ w.seen # Nothing => db[w.seen].st = "redeemed"
  /\ w.at = "insert" => 0 \in w.known
  /\ w.at = "lower" => db[w.l] > 0 /\ \E n \in w.known : w.stake < n
  /\ w.at \in {"session", "wallet", "play"} /\ w.op = "settle" => lock[w.g] = r /\ db[w.g].st = "pending"
  /\ w.at \in {"balance", "save"} /\ w.op = "redeem" => lock[w.v] = r /\ db[w.v].st = "active"

LEMMA OnwardFacts ==
  ASSUME IInv, NEW r \in Reqs, NEW w \in Work, db' = db, lock' = lock, req'[r] = w, Onward(r, w)
  PROVE  Facts(r)'
<1>1. LimitsNow' = LimitsNow
  BY DEF LimitsNow
<1>2. w.op \in Limited => LimitsNow \subseteq w.known
  BY DEF Facts, IInv, FactsPart, Onward
<1> QED
  BY <1>1, <1>2 DEF Facts, Onward

LEMMA MoveInv ==
  ASSUME IInv, NEW r \in Reqs, NEW w \in Work, Kept' = Kept, req' = [req EXCEPT ![r] = w], Onward(r, w)
  PROVE  IInv'
<1>1. req'[r] = w /\ db' = db /\ acts' = acts /\ lock' = lock
  BY DEF IInv, TypeOK, Kept
<1>2. Facts(r)'
  BY <1>1, OnwardFacts DEF Onward
<1> QED
  BY <1>2, QuietInv DEF Onward

LEMMA EnforceLimitInv == ASSUME IInv, NEW r \in Reqs, EnforceLimit(r) PROVE IInv'
<1>0. req[r].at = "limit" /\ Kept' = Kept /\ Local(req[r]) /\ Facts(r) /\ req[r] \in Work
  BY DEF EnforceLimit, At, Kept, IInv, LocalPart, FactsPart, TypeOK
<1>1. CASE req' = Goto(r, "wallet")
  <2> DEFINE w == [req[r] EXCEPT !.at = "wallet"]
  <2>1. /\ req' = [req EXCEPT ![r] = w]
        /\ w \in Work /\ w.at = "wallet" /\ w.op = req[r].op /\ w.g = req[r].g /\ w.stake = req[r].stake
        /\ w.seen = req[r].seen /\ w.act = req[r].act /\ w.known = req[r].known
    <3>1. "wallet" \in Places
      BY DEF Places
    <3> QED
      BY <1>1, <3>1, GotoWork, ZenonT(60)
  <2> HIDE DEF w
  <2>2. Local(w) /\ w.op = "sessionBet"
    BY <1>0, <2>1 DEF Local
  <2>3. Onward(r, w)
    BY <1>0, <2>1, <2>2 DEF Facts, Onward
  <2>4. w \in Work /\ req' = [req EXCEPT ![r] = w]
    BY <2>1
  <2> QED
    BY <1>0, <2>3, <2>4, MoveInv, Zenon
<1>2. CASE req' = [req EXCEPT ![r] = [Answered(@, 403) EXCEPT !.act = "STOP"]]
  <2> DEFINE u == Answered(req[r], 403)
             w == [u EXCEPT !.act = "STOP"]
  <2>1. /\ Answer(r, 403) = [req EXCEPT ![r] = u]
        /\ u \in Work /\ u.at = "respond" /\ u.op = req[r].op /\ u.g = req[r].g /\ u.stake = req[r].stake
        /\ u.seen = Nothing /\ u.known = req[r].known
    BY AnswerWork
  <2>2. req' = [req EXCEPT ![r] = w]
    <3>1. req \in [Reqs -> Work]
      BY DEF IInv, TypeOK
    <3> QED
      BY <1>2, <3>1, Zenon
  <2> HIDE DEF u
  <2>3. /\ w \in Work /\ w.at = u.at /\ w.op = u.op /\ w.g = u.g /\ w.stake = u.stake
        /\ w.seen = u.seen /\ w.known = u.known /\ w.act = "STOP"
    BY <2>1 DEF Work, ActionTypes
  <2> HIDE DEF w
  <2>4. Local(w)
    BY <1>0, <2>1, <2>3 DEF Local
  <2>5. Onward(r, w)
    BY <1>0, <2>1, <2>3, <2>4 DEF Onward
  <2> QED
    BY <1>0, <2>2, <2>3, <2>5, MoveInv, Zenon
<1> QED
  BY <1>1, <1>2 DEF EnforceLimit

LEMMA WalletFields ==
  ASSUME NEW u \in Work, db[Wallet].bal \in Nat, db[Wallet].v \in Vouchers \cup {Nothing}
  PROVE  LET w == WithWallet(u) IN
         /\ w \in Work /\ w.at = u.at /\ w.op = u.op /\ w.g = u.g /\ w.stake = u.stake
         /\ w.act = u.act /\ w.known = u.known /\ w.v = u.v /\ w.copy = u.copy /\ w.seen = db[Wallet].v
<1> DEFINE a == [u EXCEPT !.bal = db[Wallet].bal]
           b == [a EXCEPT !.seen = db[Wallet].v]
<1>1. /\ a \in Work /\ a.at = u.at /\ a.op = u.op /\ a.g = u.g /\ a.stake = u.stake
      /\ a.act = u.act /\ a.known = u.known /\ a.v = u.v /\ a.copy = u.copy
  BY DEF Work
<1>2. WithWallet(u) = b
  BY DEF WithWallet
<1> HIDE DEF a
<1>3. /\ b \in Work /\ b.at = a.at /\ b.op = a.op /\ b.g = a.g /\ b.stake = a.stake
      /\ b.act = a.act /\ b.known = a.known /\ b.v = a.v /\ b.copy = a.copy /\ b.seen = db[Wallet].v
  BY <1>1 DEF Work
<1> HIDE DEF b
<1> QED
  BY <1>1, <1>2, <1>3

LEMMA ReadWalletInv == ASSUME IInv, NEW r \in Reqs, ReadWallet(r) PROVE IInv'
<1>0. req[r].at = "wallet" /\ Kept' = Kept /\ Local(req[r]) /\ Facts(r) /\ req[r] \in Work
  BY DEF ReadWallet, At, Kept, IInv, LocalPart, FactsPart, TypeOK
<1> DEFINE u == WithWallet(req[r])
           w == [u EXCEPT !.at = "play"]
<1>1. req' = [req EXCEPT ![r] = w]
  BY Zenon DEF ReadWallet
<1>2. db[Wallet].bal \in Nat /\ db[Wallet].v \in Vouchers \cup {Nothing} /\ Linked(db[Wallet])
  BY DEF IInv, TypeOK, RowsOK, RowsPart
<1>3. /\ u \in Work /\ u.at = req[r].at /\ u.op = req[r].op /\ u.g = req[r].g /\ u.stake = req[r].stake
      /\ u.act = req[r].act /\ u.known = req[r].known /\ u.seen = db[Wallet].v
  BY <1>0, <1>2, WalletFields
<1> HIDE DEF u
<1>4. /\ w \in Work /\ w.at = "play" /\ w.op = u.op /\ w.g = u.g /\ w.stake = u.stake
      /\ w.act = u.act /\ w.known = u.known /\ w.seen = u.seen
  <2>1. "play" \in Places
    BY DEF Places
  <2> QED
    BY <1>3, <2>1, Moved
<1> HIDE DEF w
<1>5. Local(w)
  BY <1>0, <1>3, <1>4 DEF Local
<1>6. w.seen # Nothing => db[w.seen].st = "redeemed"
  BY <1>2, <1>3, <1>4 DEF Linked
<1>7. w.op = "settle" => lock[w.g] = r /\ db[w.g].st = "pending"
  BY <1>0, <1>3, <1>4 DEF Facts
<1>8. Onward(r, w)
  BY <1>0, <1>3, <1>4, <1>5, <1>6, <1>7 DEF Onward
<1> QED
  BY <1>0, <1>1, <1>4, <1>8, MoveInv, Zenon


LEMMA FindLimitInv == ASSUME IInv, NEW r \in Reqs, FindLimit(r) PROVE IInv'
<1>0. req[r].at = "find" /\ Kept' = Kept /\ Local(req[r]) /\ Facts(r) /\ req[r] \in Work
  <2>1. req[r].at = "find" /\ Kept' = Kept
    BY Zenon DEF FindLimit, At, Kept
  <2> QED
    BY <2>1 DEF IInv, LocalPart, FactsPart, TypeOK
<1>1. req[r].op = "limit" /\ LimitsNow \subseteq req[r].known /\ (0 \in req[r].known \/ LimitsNow # {})
  BY <1>0 DEF Local, Facts, Limited
<1>2. CASE {l \in Limits : db[l] > 0} = {} /\ req' = Goto(r, "insert")
  <2> DEFINE w == [req[r] EXCEPT !.at = "insert"]
  <2>1. /\ req' = [req EXCEPT ![r] = w]
        /\ w \in Work /\ w.at = "insert" /\ w.op = req[r].op /\ w.g = req[r].g /\ w.stake = req[r].stake
        /\ w.seen = req[r].seen /\ w.act = req[r].act /\ w.known = req[r].known
    <3>1. "insert" \in Places
      BY DEF Places
    <3> QED
      BY <1>2, <3>1, GotoWork, ZenonT(60)
  <2> HIDE DEF w
  <2>2. Local(w)
    BY <1>0, <2>1 DEF Local
  <2>3. 0 \in w.known
    BY <1>1, <1>2, <2>1 DEF LimitsNow
  <2>4. w \in Work /\ req' = [req EXCEPT ![r] = w] /\ Onward(r, w)
    BY <1>0, <2>1, <2>2, <2>3 DEF Facts, Onward
  <2> QED
    BY <1>0, <2>4, MoveInv, Zenon
<1>3. CASE \E status \in {200, 409} : req' = Answer(r, status)
  BY <1>0, <1>3, AnswerInv
<1>4. ASSUME NEW l \in Limits, db[l] > 0, req[r].stake < db[l],
             req' = [req EXCEPT ![r] = [@ EXCEPT !.at = "lower", !.l = l]]
      PROVE  IInv'
  <2> DEFINE u == [req[r] EXCEPT !.at = "lower"]
             w == [u EXCEPT !.l = l]
  <2>1. /\ u \in Work /\ u.at = "lower" /\ u.op = req[r].op /\ u.g = req[r].g /\ u.stake = req[r].stake
        /\ u.seen = req[r].seen /\ u.act = req[r].act /\ u.known = req[r].known
    <3>1. "lower" \in Places
      BY DEF Places
    <3> QED
      BY <1>0, <3>1, Moved, ZenonT(60)
  <2>2. req' = [req EXCEPT ![r] = w]
    <3>1. [req[r] EXCEPT !.at = "lower", !.l = l] = w
      OBVIOUS
    <3> HIDE DEF w
    <3> QED
      BY <1>4, <3>1, Zenon DEF IInv, TypeOK
  <2> HIDE DEF u
  <2>3. /\ w \in Work /\ w.at = u.at /\ w.op = u.op /\ w.g = u.g /\ w.stake = u.stake
        /\ w.seen = u.seen /\ w.act = u.act /\ w.known = u.known /\ w.l = l
    BY <2>1 DEF Work
  <2> HIDE DEF w
  <2>4. Local(w)
    BY <1>0, <1>1, <2>1, <2>3 DEF Local
  <2>5. db[w.l] > 0 /\ \E n \in w.known : w.stake < n
    <3>1. db[l] \in LimitsNow
      BY <1>4 DEF LimitsNow
    <3> QED
      BY <1>1, <1>4, <2>1, <2>3, <3>1
  <2>6. w \in Work /\ req' = [req EXCEPT ![r] = w] /\ Onward(r, w)
    BY <1>0, <2>1, <2>2, <2>3, <2>4, <2>5 DEF Facts, Onward
  <2> QED
    BY <1>0, <2>6, MoveInv, Zenon
<1>5. ASSUME NEW l \in Limits, db[l] > 0,
             req' = IF req[r].stake > db[l] THEN Answer(r, 409)
                    ELSE IF req[r].stake = db[l] THEN Answer(r, 200)
                    ELSE [req EXCEPT ![r] = [@ EXCEPT !.at = "lower", !.l = l]]
      PROVE  IInv'
  <2>1. req[r].stake \in Nat /\ db[l] \in Nat
    BY <1>0 DEF Work, IInv, TypeOK, RowsOK
  <2>2. CASE req[r].stake > db[l]
    BY <1>3, <1>5, <2>2
  <2>3. CASE req[r].stake = db[l]
    BY <1>3, <1>5, <2>1, <2>3
  <2>4. CASE req[r].stake < db[l]
    <3>1. ~ (req[r].stake > db[l]) /\ req[r].stake # db[l]
      BY <2>1, <2>4
    <3>2. req' = [req EXCEPT ![r] = [@ EXCEPT !.at = "lower", !.l = l]]
      BY <1>5, <3>1, Zenon
    <3> QED
      BY <1>4, <1>5, <2>4, <3>2, Zenon
  <2> QED
    BY <2>1, <2>2, <2>3, <2>4
<1> QED
  BY <1>2, <1>5, Zenon DEF FindLimit

LEMMA ComputeRiskInv == ASSUME IInv, NEW r \in Reqs, ComputeRisk(r) PROVE IInv'
<1>0. req[r].at = "risk" /\ Kept' = Kept /\ Local(req[r]) /\ Facts(r) /\ req[r] \in Work
  BY DEF ComputeRisk, At, Kept, IInv, LocalPart, FactsPart, TypeOK
<1>1. CASE req' = Answer(r, 200)
  BY <1>0, <1>1, AnswerInv
<1>2. ASSUME NEW a \in ActionTypes, req' = [req EXCEPT ![r] = [@ EXCEPT !.at = "issue", !.act = a]]
      PROVE  IInv'
  <2> DEFINE u == [req[r] EXCEPT !.at = "issue"]
             w == [u EXCEPT !.act = a]
  <2>1. /\ u \in Work /\ u.at = "issue" /\ u.op = req[r].op /\ u.g = req[r].g /\ u.stake = req[r].stake
        /\ u.seen = req[r].seen /\ u.known = req[r].known
    <3>1. "issue" \in Places
      BY DEF Places
    <3> QED
      BY <1>0, <3>1, Moved, ZenonT(60)
  <2>2. req' = [req EXCEPT ![r] = w]
    <3>1. [req[r] EXCEPT !.at = "issue", !.act = a] = w
      OBVIOUS
    <3> HIDE DEF w
    <3> QED
      BY <1>2, <3>1, Zenon DEF IInv, TypeOK
  <2> HIDE DEF u
  <2>3. /\ w \in Work /\ w.at = u.at /\ w.op = u.op /\ w.g = u.g /\ w.stake = u.stake
        /\ w.seen = u.seen /\ w.act = a /\ w.known = u.known
    BY <2>1 DEF Work
  <2> HIDE DEF w
  <2>5. Local(w)
    BY <1>0, <2>1, <2>3 DEF Local
  <2>6. w \in Work /\ req' = [req EXCEPT ![r] = w] /\ Onward(r, w)
    BY <1>0, <2>1, <2>2, <2>3, <2>5 DEF Facts, Onward
  <2> QED
    BY <1>0, <2>6, MoveInv, Zenon
<1> QED
  BY <1>1, <1>2, Zenon DEF ComputeRisk

LEMMA IssueActionInv == ASSUME IInv, NEW r \in Reqs, IssueAction(r) PROVE IInv'
BY AnswerInv DEF IssueAction, At, Kept


Takes(r, X) ==
  /\ \A x \in X : lock[x] \in {r, NoReq}
  /\ lock' = [x \in Rows |-> IF x \in X THEN r ELSE lock[x]]
  /\ DOMAIN cur' = Rows /\ RowsOK(cur') /\ \A x \in Rows : x \notin X => cur'[x] = cur[x]
  /\ db' = db /\ mode' = mode /\ ledger' = ledger /\ acts' = acts /\ menu' = menu

LEMMA TakeStep ==
  ASSUME IInv, NEW r \in Reqs, NEW w \in Work, NEW X, X \subseteq Rows, Takes(r, X), req' = [req EXCEPT ![r] = w]
  PROVE  Step(r, w) /\ \A x \in Rows : lock'[x] = r => x \in X \/ lock[x] = r
<1>1. lock \in [Rows -> Reqs \cup {NoReq}]
  BY DEF IInv, TypeOK
<1>2. lock' \in [Rows -> Reqs \cup {NoReq}]
  BY <1>1 DEF Takes
<1>3. \A x \in Rows : lock'[x] = lock[x] \/ (lock[x] = NoReq /\ lock'[x] = r)
  BY DEF Takes
<1>4. \A x \in Rows : cur'[x] = cur[x] \/ lock'[x] = r
  BY DEF Takes
<1>5. \A x \in Rows : lock'[x] = r => x \in X \/ lock[x] = r
  BY DEF Takes
<1> QED
  BY <1>2, <1>3, <1>4, <1>5 DEF Step, Takes

\* A request takes a row and leaves it as it is.
LEMMA TakeInv ==
  ASSUME IInv, NEW r \in Reqs, NEW w \in Work, NEW x \in Rows, Take(r, {x}, <<>>),
         req' = [req EXCEPT ![r] = w], Local(w), Facts(r)',
         req[r].at \notin {"idle", "respond", "balance", "save"}, w.at \notin {"idle", "respond"},
         w.op = req[r].op, w.g = req[r].g,
         \/ x = Session
         \/ w.op = "settle" /\ x = w.g /\ x \in Rounds
         \/ w.at = "balance" /\ x = w.v /\ x \in Vouchers
  PROVE  IInv'
<1>0. DOMAIN <<>> = {}
  OBVIOUS
<1>1. cur' = [y \in Rows |-> cur[y]] /\ db' = db
  BY <1>0 DEF Take
<1>2. \A y \in Rows : cur'[y] = cur[y]
  BY <1>1
<1>3. RowsOK(cur')
  <2>1. RowsOK(cur)
    BY DEF IInv, TypeOK
  <2> QED
    BY <1>2, <2>1, RowNames DEF RowsOK
<1> DEFINE X == {x}
<1>4. /\ Step(r, w)
      /\ \A y \in Rows : lock'[y] = r => y = x \/ lock[y] = r
  <2>1. Takes(r, X) /\ X \subseteq Rows
    <3>1. DOMAIN cur' = Rows
      BY <1>1
    <3> QED
      BY <1>1, <1>2, <1>3, <3>1 DEF Take, Takes
  <2> HIDE DEF X
  <2>2. IInv /\ r \in Reqs /\ w \in Work /\ req' = [req EXCEPT ![r] = w]
    OBVIOUS
  <2>3. Step(r, w) /\ \A y \in Rows : lock'[y] = r => y \in X \/ lock[y] = r
    BY ONLY <2>1, <2>2, TakeStep, Zenon
  <2> QED
    BY <2>3 DEF X
<1>5. req'[r] = w
  BY DEF IInv, TypeOK
<1>6. cur[x] = db[x]
  <2>1. lock[x] \in {r, NoReq}
    BY DEF Take
  <2>2. lock[x] = NoReq => cur[x] = db[x]
    BY DEF IInv, RowsPart
  <2>3. lock[x] = r => cur[x] = db[x]
    BY DEF IInv, OwnPart, Owned
  <2> QED
    BY <2>1, <2>2, <2>3
<1>7. \A y \in Rows : lock'[y] = r => Owned(r, y)'
  <2> SUFFICES ASSUME NEW y \in Rows, lock'[y] = r
               PROVE  Owned(r, y)'
    OBVIOUS
  <2>1. /\ cur[y] = db[y]
        /\ \/ y = Session
           \/ w.op = "settle" /\ y = w.g /\ y \in Rounds
           \/ w.at = "balance" /\ y = w.v /\ y \in Vouchers
    <3>1. CASE y = x
      BY <1>6, <3>1
    <3>2. CASE lock[y] = r
      <4>1. Owned(r, y) /\ Local(req[r])
        BY <3>2 DEF IInv, OwnPart, LocalPart
      <4> QED
        BY <4>1 DEF Owned, Local
    <3> QED
      BY <1>4, <3>1, <3>2
  <2>2. y # Wallet
    BY <2>1, RowNames
  <2> QED
    BY <1>1, <1>2, <1>5, <2>1, <2>2 DEF Owned
<1>8. \A l \in Limits : db[l] > 0 => cur'[l] > 0
  BY <1>2, RowNames DEF IInv, RowsPart
<1> QED
  BY <1>4, <1>7, <1>8, StepInv

LEMMA ReadRoundInv == ASSUME IInv, NEW r \in Reqs, ReadRound(r) PROVE IInv'
<1>0. req[r].at = "round" /\ Local(req[r]) /\ Facts(r) /\ req[r] \in Work
  BY DEF ReadRound, At, IInv, LocalPart, FactsPart, TypeOK
<1>1. req[r].op = "settle" /\ req[r].g \in Rounds /\ db[req[r].g].st # "none"
  BY <1>0 DEF Local, Facts
<1>2. CASE req' = Answer(r, 400) /\ UNCHANGED Kept
  BY <1>0, <1>2, AnswerInv
<1>3. ASSUME NEW place \in {"session", "wallet"}, req' = Goto(r, place), db[req[r].g].st # "settled",
             Take(r, {req[r].g}, <<>>)
      PROVE  IInv'
  <2> DEFINE w == [req[r] EXCEPT !.at = place]
  <2>1. /\ req' = [req EXCEPT ![r] = w]
        /\ w \in Work /\ w.at = place /\ w.op = req[r].op /\ w.g = req[r].g /\ w.stake = req[r].stake
        /\ w.seen = req[r].seen /\ w.act = req[r].act /\ w.known = req[r].known
    <3>1. place \in Places
      BY DEF Places
    <3> QED
      BY <1>3, <3>1, GotoWork, ZenonT(60)
  <2> HIDE DEF w
  <2>2. Local(w)
    BY <1>0, <1>1, <2>1 DEF Local
  <2>3. db' = db /\ acts' = acts /\ lock'[w.g] = r /\ req'[r] = w
    BY <1>1, <1>3, <2>1, RowNames DEF Take, IInv, TypeOK
  <2>4. db[w.g].st = "pending"
    BY <1>1, <1>3, <2>1, SMTT(60) DEF IInv, TypeOK, RowsOK, RoundRow
  <2>5. Facts(r)'
    <3>1. LimitsNow' = LimitsNow
      BY <2>3 DEF LimitsNow
    <3> QED
      BY <1>0, <1>1, <2>1, <2>3, <2>4, <3>1 DEF Facts, Limited
  <2>6. req[r].g \in Rows /\ w.at \notin {"idle", "respond"} /\ req[r].at \notin {"idle", "respond", "balance", "save"}
    BY <1>0, <1>1, <2>1, RowNames
  <2> QED
    BY <1>1, <1>3, <2>1, <2>2, <2>5, <2>6, TakeInv
<1> QED
  BY <1>2, <1>3, Zenon DEF ReadRound

LEMMA ResolveSessionInv == ASSUME IInv, NEW r \in Reqs, ResolveSession(r) PROVE IInv'
<1>0. req[r].at = "session" /\ Local(req[r]) /\ Facts(r) /\ req[r] \in Work
  BY DEF ResolveSession, At, IInv, LocalPart, FactsPart, TypeOK
<1>1. PICK place \in {"wallet", "limit"} :
        req' = Goto(r, place) /\ place = IF req[r].op = "settle" THEN "wallet" ELSE "limit"
  BY Zenon DEF ResolveSession
<1> DEFINE w == [req[r] EXCEPT !.at = place]
<1>2. /\ req' = [req EXCEPT ![r] = w]
      /\ w \in Work /\ w.at = place /\ w.op = req[r].op /\ w.g = req[r].g /\ w.stake = req[r].stake
      /\ w.seen = req[r].seen /\ w.act = req[r].act /\ w.known = req[r].known
  <2>1. place \in Places
    BY DEF Places
  <2>2. IInv /\ r \in Reqs /\ req' = Goto(r, place)
    BY <1>1
  <2> QED
    BY ONLY <2>1, <2>2, GotoWork, ZenonT(60)
<1> HIDE DEF w
<1>3. Local(w)
  BY <1>0, <1>1, <1>2 DEF Local
<1>4. Take(r, {Session}, <<>>)
  BY DEF ResolveSession
<1>5. db' = db /\ acts' = acts /\ req'[r] = w
  BY <1>2, <1>4 DEF Take, IInv, TypeOK
<1>6. w.op = "settle" => lock'[w.g] = r /\ db[w.g].st = "pending"
  <2>1. w.op = "settle" => lock[w.g] = r /\ db[w.g].st = "pending" /\ w.g \in Rounds
    BY <1>0, <1>2 DEF Facts, Local
  <2> QED
    BY <1>4, <2>1, RowNames DEF Take
<1>7. Facts(r)'
  <2>1. LimitsNow' = LimitsNow
    BY <1>5 DEF LimitsNow
  <2> QED
    BY <1>0, <1>1, <1>2, <1>5, <1>6, <2>1 DEF Facts
<1>8. /\ Session \in Rows /\ w.at \notin {"idle", "respond"}
      /\ req[r].at \notin {"idle", "respond", "balance", "save"}
  BY <1>0, <1>1, <1>2, RowNames
<1> QED
  BY <1>2, <1>3, <1>4, <1>7, <1>8, TakeInv


\* A request writes its rows and answers.
LEMMA WriteInv ==
  ASSUME IInv, NEW r \in Reqs, NEW X \in SUBSET Rows, Takes(r, X), NEW status \in {200, 201},
         req' = Answer(r, status), req[r].at \notin {"idle", "respond"},
         req[r].at \in {"balance", "save"} => req[r].v \in X,
         \A v \in Vouchers \cap X :
           /\ cur'[v].st = "redeemed" /\ GoodAt(Stored(r), v)'
           /\ VoucherMoves(db[v], cur'[v]) \/ (req[r].op = "login" /\ db[v].st = "redeemed"),
         \A l \in Limits \cap X : /\ db[l] > 0 => cur'[l] > 0
                                  /\ cur'[l] # db[l] => req[r].op = "limit" /\ LimitSet(r, l)',
         \A g \in Rounds \cap X : cur'[g] = db[g] \/ RoundBegun(r, g)' \/ RoundSettled(r, g)',
         Wallet \in X => LinkedBy(r)'
  PROVE  IInv'
<1> DEFINE w == Answered(req[r], status)
<1>1. /\ req' = [req EXCEPT ![r] = w]
      /\ w \in Work /\ w.at = "respond" /\ w.op = req[r].op /\ w.g = req[r].g /\ w.stake = req[r].stake
      /\ w.seen = Nothing /\ w.act = req[r].act /\ w.known = req[r].known
  BY AnswerWork
<1> HIDE DEF w
<1>2. /\ Step(r, w)
      /\ \A x \in Rows : lock'[x] = r => x \in X \/ lock[x] = r
  <2>1. w \in Work /\ req' = [req EXCEPT ![r] = w]
    BY <1>1
  <2>2. lock \in [Rows -> Reqs \cup {NoReq}]
    BY DEF IInv, TypeOK
  <2>3. lock' \in [Rows -> Reqs \cup {NoReq}]
    BY <2>2 DEF Takes
  <2>4. \A x \in Rows : lock'[x] = lock[x] \/ (lock[x] = NoReq /\ lock'[x] = r)
    BY DEF Takes
  <2>5. \A x \in Rows : cur'[x] = cur[x] \/ lock'[x] = r
    BY DEF Takes
  <2>6. \A x \in Rows : lock'[x] = r => x \in X \/ lock[x] = r
    BY DEF Takes
  <2> QED
    BY <2>1, <2>3, <2>4, <2>5, <2>6 DEF Takes, Step
<1>3. req'[r] = w /\ db' = db /\ acts' = acts
  BY <1>1 DEF IInv, TypeOK, Takes
<1>4. Local(w)
  BY <1>1 DEF IInv, LocalPart, Local
<1>5. Facts(r)'
  <2>1. LimitsNow' = LimitsNow
    BY <1>3 DEF LimitsNow
  <2>2. Facts(r)
    BY DEF IInv, FactsPart
  <2> QED
    BY <1>1, <1>3, <2>1, <2>2 DEF Facts
<1>6. ASSUME NEW x \in Rows, x \notin X, lock[x] = r
      PROVE  cur'[x] = db[x] /\ (x = Session \/ x \in Rounds)
  <2>1. Owned(r, x) /\ cur'[x] = cur[x]
    BY <1>6 DEF IInv, OwnPart, Takes
  <2>2. Local(req[r]) /\ req[r].at # "idle" /\ req[r].at # "respond"
    BY DEF IInv, LocalPart
  <2>3. req[r].op = "settle" => req[r].g \in Rounds
    BY <2>2 DEF Local
  <2>4. /\ cur[x] = db[x]
        /\ x = Session \/ (req[r].op = "settle" /\ x = req[r].g) \/ (req[r].at \in {"balance", "save"} /\ x = req[r].v)
    BY <2>1, <2>2 DEF Owned
  <2> QED
    BY <1>6, <2>1, <2>3, <2>4
<1>7. ASSUME NEW x \in Rows, lock'[x] = r
      PROVE  Owned(r, x)'
  <2>1. CASE x \in X
    <3>1. x \in Vouchers => Made(r, x)'
      BY <1>1, <1>3, <2>1 DEF Made
    <3>2. x \in Limits /\ cur'[x] # db'[x] => req'[r].op = "limit" /\ LimitSet(r, x)'
      BY <1>1, <1>3, <2>1
    <3>3. x \in Rounds => cur'[x] = db'[x] \/ RoundBegun(r, x)' \/ RoundSettled(r, x)'
      BY <1>3, <2>1
    <3>4. req'[r].at = "respond"
      BY <1>1, <1>3
    <3>5. x = Wallet => LinkedBy(r)'
      BY <2>1
    <3> QED
      BY <3>1, <3>2, <3>3, <3>4, <3>5 DEF Owned
  <2>2. CASE x \notin X
    <3>1. cur'[x] = db'[x] /\ (x = Session \/ x \in Rounds)
      BY <1>2, <1>3, <1>6, <1>7, <2>2
    <3>2. x \notin Vouchers /\ x # Wallet
      BY <3>1, RowNames
    <3>3. req'[r].at = "respond"
      BY <1>1, <1>3
    <3> QED
      BY <3>1, <3>2, <3>3 DEF Owned
  <2> QED
    BY <2>1, <2>2
<1>9. \A l \in Limits : lock'[l] = r /\ db[l] > 0 => cur'[l] > 0
  <2> SUFFICES ASSUME NEW l \in Limits, lock'[l] = r, l \notin X
               PROVE  FALSE
    OBVIOUS
  <2> QED
    BY <1>2, <1>6, RowNames
<1> QED
  BY <1>1, <1>2, <1>4, <1>5, <1>7, <1>9, StepInv

\* A row that no other request owns is as it was committed, until one writes it.
LEMMA FreeRow ==
  ASSUME IInv, NEW r \in Reqs, NEW x \in Rows, lock[x] \in {r, NoReq}, req[r].at # "respond"
  PROVE  cur[x] = db[x]
BY DEF IInv, RowsPart, OwnPart, Owned

\* A link to a redeemed voucher is as good as one to a voucher that is redeemed along.
LEMMA LinkedIsLinkedBy ==
  ASSUME NEW r \in Reqs, db' = db, Linked(cur'[Wallet])
  PROVE  LinkedBy(r)'
BY DEF Linked, LinkedBy

LEMMA RedeemedIfActive ==
  ASSUME IInv, NEW r \in Reqs, NEW v \in ActiveVouchers(r)
  PROVE  v \in Vouchers /\ db[v].st = "redeemed"
<1>1. Facts(r) /\ req[r].seen \in Vouchers \cup {Nothing}
  BY DEF IInv, FactsPart, TypeOK, Work
<1>2. CASE req[r].seen # Nothing
  BY <1>1, <1>2 DEF ActiveVouchers, Facts
<1>3. CASE req[r].seen = Nothing
  BY <1>3 DEF ActiveVouchers
<1> QED
  BY <1>2, <1>3

LEMMA LinkWalletInv == ASSUME IInv, NEW r \in Reqs, LinkWallet(r) PROVE IInv'
<1>0. req[r].at = "link"
  BY DEF LinkWallet, At
<1>1. CASE req' = Answer(r, 200) /\ UNCHANGED Kept
  BY <1>0, <1>1, AnswerInv
<1>2. ASSUME NEW v \in ActiveVouchers(r), req' = Answer(r, 200),
             Take(r, {Wallet}, [x \in {Wallet} |-> [cur[Wallet] EXCEPT !.v = v]])
      PROVE  IInv'
  <2> DEFINE X == {Wallet}
  <2>1. v \in Vouchers /\ db[v].st = "redeemed"
    BY RedeemedIfActive
  <2>2. cur' = [x \in Rows |-> IF x = Wallet THEN [cur[Wallet] EXCEPT !.v = v] ELSE cur[x]]
    BY <1>2 DEF Take
  <2>3. cur[Wallet] \in [bal : Nat, v : Vouchers \cup {Nothing}] /\ RowsOK(cur)
    BY DEF IInv, TypeOK, RowsOK
  <2>4. cur'[Wallet].v = v /\ cur'[Wallet] \in [bal : Nat, v : Vouchers \cup {Nothing}]
    BY <2>1, <2>2, <2>3, RowNames
  <2>5. \A x \in Rows : x # Wallet => cur'[x] = cur[x]
    BY <2>2
  <2>6. RowsOK(cur')
    BY <2>3, <2>4, <2>5, RowNames DEF RowsOK
  <2>7. Takes(r, X) /\ X \in SUBSET Rows
    <3>1. DOMAIN cur' = Rows
      BY <2>2
    <3> QED
      BY <1>2, <2>5, <2>6, <3>1, RowNames DEF Take, Takes
  <2>8. LinkedBy(r)'
    <3>1. Linked(cur'[Wallet]) /\ db' = db
      BY <1>2, <2>1, <2>4 DEF Linked, Take
    <3> QED
      BY <3>1, LinkedIsLinkedBy
  <2>9. Vouchers \cap X = {} /\ Limits \cap X = {} /\ Rounds \cap X = {}
    BY RowNames
  <2> HIDE DEF X
  <2>10. req[r].at \notin {"idle", "respond", "balance", "save"}
    BY <1>0
  <2> QED
    BY <1>2, <2>7, <2>8, <2>9, <2>10, WriteInv
<1> QED
  BY <1>1, <1>2, Zenon DEF LinkWallet


\* A limit is set where nothing is known to forbid it.
LEMMA SetLimitInv ==
  ASSUME IInv, NEW r \in Reqs, NEW l \in Limits, req[r].at \in {"insert", "lower"},
         Take(r, {l}, [x \in {l} |-> req[r].stake]), lock[l] = NoReq, req' = Answer(r, 200),
         IF db[l] = 0 THEN 0 \in req[r].known ELSE \E n \in req[r].known : req[r].stake < n
  PROVE  IInv'
<1> DEFINE X == {l}
<1>1. req[r].op = "limit" /\ req[r].stake > 0 /\ req[r].stake \in Nat
  BY DEF IInv, LocalPart, Local, TypeOK, Work
<1>2. cur' = [x \in Rows |-> IF x = l THEN req[r].stake ELSE cur[x]] /\ db' = db
  BY DEF Take
<1>3. RowsOK(cur)
  BY DEF IInv, TypeOK
<1>4. cur'[l] = req[r].stake /\ \A x \in Rows : x # l => cur'[x] = cur[x]
  BY <1>2, RowNames
<1>5. RowsOK(cur')
  BY <1>1, <1>3, <1>4, RowNames DEF RowsOK
<1>6. Takes(r, X) /\ X \in SUBSET Rows
  <2>1. DOMAIN cur' = Rows
    BY <1>2
  <2> QED
    BY <1>2, <1>4, <1>5, <2>1, RowNames DEF Take, Takes
<1>8. Vouchers \cap X = {} /\ Rounds \cap X = {} /\ Wallet \notin X
  BY RowNames
<1>9. req'[r].known = req[r].known
  <2>1. /\ Answer(r, 200) = [req EXCEPT ![r] = Answered(req[r], 200)]
        /\ Answered(req[r], 200).known = req[r].known
    BY AnswerWork
  <2>2. req \in [Reqs -> Work]
    BY DEF IInv, TypeOK
  <2> QED
    BY <2>1, <2>2
<1>10. LimitSet(r, l)'
  BY <1>2, <1>4, <1>9 DEF LimitSet
<1>11. \A k \in Limits \cap X : /\ db[k] > 0 => cur'[k] > 0
                                /\ cur'[k] # db[k] => req[r].op = "limit" /\ LimitSet(r, k)'
  BY <1>1, <1>4, <1>10
<1> HIDE DEF X
<1>12. req[r].at \notin {"idle", "respond"}
  OBVIOUS
<1> QED
  BY <1>6, <1>8, <1>11, <1>12, WriteInv

LEMMA InsertLimitInv == ASSUME IInv, NEW r \in Reqs, InsertLimit(r) PROVE IInv'
<1>1. req[r].at = "insert" /\ req' = Answer(r, 200)
  BY DEF InsertLimit, At
<1>2. PICK l \in Limits : cur[l] = 0 /\ lock[l] = NoReq /\ Take(r, {l}, [x \in {l} |-> req[r].stake])
  BY Zenon DEF InsertLimit
<1>3. db[l] = 0
  BY <1>2, RowNames DEF IInv, RowsPart
<1>4. 0 \in req[r].known
  BY <1>1 DEF IInv, FactsPart, Facts
<1> QED
  BY <1>1, <1>2, <1>3, <1>4, SetLimitInv

LEMMA LowerLimitInv == ASSUME IInv, NEW r \in Reqs, LowerLimit(r) PROVE IInv'
<1>1. req[r].at = "lower" /\ req' = Answer(r, 200) /\ lock[req[r].l] = NoReq
      /\ Take(r, {req[r].l}, [x \in {req[r].l} |-> req[r].stake])
  BY DEF LowerLimit, At
<1>2. req[r].l \in Limits /\ db[req[r].l] > 0 /\ \E n \in req[r].known : req[r].stake < n
  BY <1>1 DEF IInv, LocalPart, Local, FactsPart, Facts
<1> QED
  BY <1>1, <1>2, SetLimitInv



(***************************************************************************)
(* Bets and settlements                                                    *)
(***************************************************************************)

LEMMA OverType ==
  ASSUME NEW f \in Int \cup {Nothing}, NEW own \in Int
  PROVE  Over(f, own) \in Int
BY DEF Over

LEMMA RoundType ==
  ASSUME NEW id \in Vouchers, NEW cap \in Nat, NEW before \in Nat, NEW stake \in Nat, NEW by \in BOOLEAN,
         NEW bal \in Nat, NEW said \in Metadata
  PROVE  LET g == RoundAtBet(id, cap, before, stake, by, bal, said) IN
         g \in RoundRow /\ g.st = "pending" /\ g.v = id
<1>1. TrackedAfterBet(before, stake) \in Int /\ bal - stake \in Int
  BY DEF TrackedAfterBet, MaxOf
<1>2. /\ said.cap \in Int \cup {Nothing} /\ said.before \in Int \cup {Nothing} /\ said.after \in Int \cup {Nothing}
      /\ said.balBefore \in Int \cup {Nothing} /\ said.balAfter \in Int \cup {Nothing}
  BY MetadataAssumption
<1>3. cap \in Int /\ before \in Int /\ bal \in Int
  OBVIOUS
<1>4. (IF by THEN TrackedAfterBet(before, stake) ELSE 0) \in Int
  BY <1>1
<1>5. /\ Over(said.cap, cap) \in Int /\ Over(said.before, before) \in Int
      /\ Over(said.after, IF by THEN TrackedAfterBet(before, stake) ELSE 0) \in Int
      /\ Over(said.balBefore, bal) \in Int /\ Over(said.balAfter, bal - stake) \in Int
  BY ONLY <1>1, <1>2, <1>3, <1>4, OverType, Zenon
<1>6. \A c, b, a, x, y \in Int :
        LET g == [st |-> "pending", v |-> id, stake |-> stake, cap |-> c, before |-> b, after |-> a,
                  balBefore |-> x, balAfter |-> y] IN
        g \in RoundRow /\ g.st = "pending" /\ g.v = id
  BY DEF RoundRow
<1> QED
  BY ONLY <1>5, <1>6, Zenon DEF RoundAtBet

LEMMA PaidFields ==
  ASSUME IInv, NEW r \in Reqs, NEW v \in ActiveVouchers(r), NEW bal \in Nat, cur[Wallet] = db[Wallet]
  PROVE  Paid(r, v, bal) \in [bal : Nat, v : Vouchers \cup {Nothing}] /\ Linked(Paid(r, v, bal))
<1>1. v \in Vouchers /\ db[v].st = "redeemed"
  BY RedeemedIfActive
<1>2. cur[Wallet].v \in Vouchers \cup {Nothing} /\ Linked(cur[Wallet])
  BY DEF IInv, TypeOK, RowsOK, RowsPart
<1> QED
  BY <1>1, <1>2 DEF Paid, Linked

\* What r would commit after it wrote voucher v and its round.
LEMMA StoredAfter ==
  ASSUME IInv, NEW r \in Reqs, NEW v \in Vouchers, NEW X \in SUBSET Rows, Takes(r, X), v \in X,
         req[r].g \in Rounds, req[r].g \in X, req[r].at = "play"
  PROVE  /\ Stored(r)'[v] = cur'[v] /\ Stored(r)'[req[r].g] = cur'[req[r].g]
         /\ \A h \in Rounds : h # req[r].g /\ h \notin X => Stored(r)'[h] = db[h]
<1>1. \A x \in Rows : Stored(r)'[x] = IF lock'[x] = r THEN cur'[x] ELSE db[x]
  BY DEF Stored, Takes
<1>2. \A x \in X : lock'[x] = r
  BY DEF Takes
<1>3. ASSUME NEW h \in Rounds, h # req[r].g, h \notin X
      PROVE  lock'[h] # r
  <2> SUFFICES ASSUME lock[h] = r PROVE FALSE
    BY <1>3, RowNames DEF Takes
  <2>1. Owned(r, h)
    BY RowNames DEF IInv, OwnPart
  <2> QED
    BY <1>3, <2>1, RowNames DEF Owned
<1> QED
  BY <1>1, <1>2, <1>3, RowNames

LEMMA PlaceBetWrites ==
  ASSUME IInv, NEW r \in Reqs, NEW v \in ActiveVouchers(r), req[r].at = "play",
         req[r].op \in {"bet", "sessionBet"}, lock[v] = NoReq, req[r].bal >= req[r].stake, req' = Answer(r, 201),
         NEW said \in Metadata,
         LET stake == req[r].stake
             cap == MaxCashout(cur[v], 0)
             byVoucher == mode = "voucher_controlled"
             before == IF byVoucher THEN TrackedBeforeBet(cur[v], cap, req[r].bal) ELSE 0
         IN  Take(r, {v, Wallet, req[r].g} \cup Played(r),
                  [x \in {v, Wallet, req[r].g} \cup Played(r) |->
                     IF x = Wallet THEN Paid(r, v, req[r].bal - stake)
                     ELSE IF x = Session THEN cur[x] + stake
                     ELSE IF x = v THEN VoucherAtBet(cur[v], cap, before, stake, byVoucher, said = Silent)
                     ELSE RoundAtBet(v, cap, before, stake, byVoucher, req[r].bal, said)])
  PROVE  IInv'
<1> DEFINE stake == req[r].stake
           cap == MaxCashout(cur[v], 0)
           by == mode = "voucher_controlled"
           bal == req[r].bal
           before == IF by THEN TrackedBeforeBet(cur[v], cap, bal) ELSE 0
           g == req[r].g
           plain == said = Silent
           n == VoucherAtBet(cur[v], cap, before, stake, by, plain)
           k == RoundAtBet(v, cap, before, stake, by, bal, said)
           X == {v, Wallet, g} \cup Played(r)
<1>1. v \in Vouchers /\ db[v].st = "redeemed"
  BY RedeemedIfActive
<1>2. g \in Rounds /\ stake \in Nat /\ stake > 0 /\ bal \in Nat
  BY DEF IInv, LocalPart, Local, TypeOK, Work
<1>3. cur[v] = db[v] /\ cur[v] \in VoucherRow /\ by \in BOOLEAN
  BY <1>1, RowNames DEF IInv, RowsPart, TypeOK, RowsOK
<1>4. cap \in Nat /\ before \in Nat /\ VoucherMoves(cur[v], n)
  <2>1. cur[v] \in VoucherRow /\ bal \in Nat /\ stake \in Nat /\ stake > 0 /\ by \in BOOLEAN /\ plain \in BOOLEAN
    BY <1>2, <1>3
  <2> HIDE DEF plain
  <2> QED
    BY ONLY <2>1, BetMoves, Zenon
<1>5. GoodAt(db, v)
  BY <1>1 DEF IInv, RowsPart
<1>6. n.clean => cur[v].open = 0 /\ cur[v].clean /\ Covered(n) /\ Fits(n, k)
  <2>1. cur[v] \in VoucherRow /\ bal \in Nat /\ stake \in Nat /\ stake > 0 /\ by \in BOOLEAN
        /\ (cur[v].clean => Covered(cur[v])) /\ said \in Metadata
    BY <1>2, <1>3, <1>5 DEF GoodAt
  <2> QED
    BY ONLY <2>1, BetKeeps, ZenonT(60)
<1>7. n \in VoucherRow
  <2>1. plain \in BOOLEAN
    OBVIOUS
  <2> HIDE DEF cap, before, by, stake, plain
  <2> QED
    BY <1>2, <1>3, <1>4, <2>1, BetVoucher
<1>8. k \in RoundRow /\ k.st = "pending" /\ k.v = v
  <2>1. v \in Vouchers /\ cap \in Nat /\ before \in Nat /\ stake \in Nat /\ by \in BOOLEAN /\ bal \in Nat
        /\ said \in Metadata
    BY <1>1, <1>2, <1>3, <1>4
  <2> HIDE DEF cap, before, by, stake, bal
  <2> QED
    BY ONLY <2>1, RoundType
<1>9. Take(r, X, [x \in X |-> IF x = Wallet THEN Paid(r, v, bal - stake)
                              ELSE IF x = Session THEN cur[x] + stake
                              ELSE IF x = v THEN n ELSE k])
  OBVIOUS
<1> HIDE DEF n, k, cap, before, by
<1>10. v \in X /\ g \in X /\ Wallet \in X /\ X \subseteq {v, Wallet, g, Session}
  BY DEF Played
<1>11. X \in SUBSET Rows
  BY <1>1, <1>2, <1>10, RowNames
<1> HIDE DEF X
<1>12. cur' = [x \in Rows |-> IF x \in X THEN IF x = Wallet THEN Paid(r, v, bal - stake)
                                              ELSE IF x = Session THEN cur[x] + stake
                                              ELSE IF x = v THEN n ELSE k
                              ELSE cur[x]]
  BY <1>9 DEF Take
<1>13. /\ cur'[v] = n /\ cur'[g] = k /\ cur'[Wallet] = Paid(r, v, bal - stake)
       /\ cur'[Session] \in {cur[Session], cur[Session] + stake}
       /\ \A x \in Rows : x \notin X => cur'[x] = cur[x]
  BY <1>1, <1>2, <1>10, <1>11, <1>12, RowNames
<1>14. /\ cur'[Wallet] \in [bal : Nat, v : Vouchers \cup {Nothing}] /\ Linked(cur'[Wallet])
  <2>1. bal - stake \in Nat
    BY <1>2
  <2>2. cur[Wallet] = db[Wallet]
    BY <1>9, <1>10, RowNames, FreeRow DEF Take
  <2> QED
    BY <1>13, <2>1, <2>2, PaidFields
<1>15. RowsOK(cur')
  <2>1. RowsOK(cur)
    BY DEF IInv, TypeOK
  <2>2. cur'[Session] \in Nat
    BY <1>2, <1>13, <2>1 DEF RowsOK
  <2>3. \A x \in Vouchers : x # v => cur'[x] = cur[x]
    BY <1>10, <1>13, <1>2, RowNames
  <2>4. \A x \in Rounds : x # g => cur'[x] = cur[x]
    BY <1>1, <1>10, <1>13, RowNames
  <2>5. \A x \in Limits : cur'[x] = cur[x]
    <3>1. \A x \in Limits : x \in Rows /\ x # v /\ x # g /\ x # Wallet /\ x # Session
      BY <1>1, <1>2, RowNames, ZenonT(60)
    <3> QED
      BY <1>10, <1>12, <3>1, Zenon
  <2> QED
    BY <1>7, <1>8, <1>13, <1>14, <2>1, <2>2, <2>3, <2>4, <2>5 DEF RowsOK
<1>16. Takes(r, X)
  <2>1. DOMAIN cur' = Rows
    BY <1>12
  <2> QED
    BY <1>9, <1>13, <1>15, <2>1 DEF Take, Takes
<1>17. GoodAt(Stored(r), v)'
  <2>1. /\ Stored(r)'[v] = n /\ Stored(r)'[g] = k
        /\ \A h \in Rounds : h # g => Stored(r)'[h] = db[h]
    <3>1. \A h \in Rounds : h # g => h \notin X
      BY <1>1, <1>10, RowNames
    <3> QED
      BY <1>1, <1>2, <1>10, <1>11, <1>13, <1>16, <3>1, StoredAfter
  <2>2. n.clean => \A h \in Rounds : ~ Waits(db, h, v)
    <3>1. n.clean => db[v].clean /\ db[v].open = 0
      BY <1>3, <1>6
    <3> QED
      BY <1>5, <3>1 DEF GoodAt, Fits
  <2>3. GoodAt(Stored(r)', v)
    BY <1>2, <1>6, <2>1, <2>2 DEF GoodAt, Waits
  <2> QED
    BY <2>3 DEF GoodAt, Waits
<1>18. \A h \in {g} : RoundBegun(r, h)'
  <2>1. lock'[v] = r
    BY <1>10, <1>11, <1>16 DEF Takes
  <2>2. cur'[g].st = "pending" /\ cur'[g].v \in Vouchers /\ lock'[cur'[g].v] = r
    BY <1>1, <1>8, <1>13, <2>1
  <2> QED
    BY <2>2 DEF RoundBegun
<1>19. Vouchers \cap X = {v} /\ Rounds \cap X = {g} /\ Limits \cap X = {}
  BY <1>1, <1>2, <1>10, RowNames
<1>20. VoucherMoves(db[v], cur'[v])
  BY <1>3, <1>4, <1>13
<1>21. \A u \in Vouchers \cap X :
         cur'[u].st = "redeemed" /\ GoodAt(Stored(r), u)' /\ VoucherMoves(db[u], cur'[u])
  BY <1>1, <1>17, <1>19, <1>20 DEF VoucherMoves
<1>22. \A h \in Rounds \cap X : cur'[h] = db[h] \/ RoundBegun(r, h)' \/ RoundSettled(r, h)'
  BY <1>18, <1>19
<1>23. req[r].at \notin {"idle", "respond", "balance", "save"}
  OBVIOUS
<1>24. LinkedBy(r)'
  BY <1>14, <1>16, LinkedIsLinkedBy DEF Takes
<1> QED
  BY <1>11, <1>16, <1>19, <1>21, <1>22, <1>23, <1>24, WriteInv

LEMMA PlaceBetInv == ASSUME IInv, NEW r \in Reqs, PlaceBet(r) PROVE IInv'
<1>0. req[r].at = "play" /\ req[r].op \in {"bet", "sessionBet"} /\ req[r] \in Work
  BY Zenon DEF PlaceBet, At, IInv, TypeOK
<1>1. CASE \E status \in {400, 403} : req' = Answer(r, status) /\ UNCHANGED Kept
  BY <1>0, <1>1, AnswerInv
<1>2. ASSUME ~ \E status \in {400, 403} : req' = Answer(r, status) /\ UNCHANGED Kept
      PROVE  IInv'
  <2> DEFINE Bets(v, said) ==
               LET stake == req[r].stake
                   cap == MaxCashout(cur[v], 0)
                   byVoucher == mode = "voucher_controlled"
                   before == IF byVoucher THEN TrackedBeforeBet(cur[v], cap, req[r].bal) ELSE 0
               IN  Take(r, {v, Wallet, req[r].g} \cup Played(r),
                        [x \in {v, Wallet, req[r].g} \cup Played(r) |->
                           IF x = Wallet THEN Paid(r, v, req[r].bal - stake)
                           ELSE IF x = Session THEN cur[x] + stake
                           ELSE IF x = v THEN VoucherAtBet(cur[v], cap, before, stake, byVoucher, said = Silent)
                           ELSE RoundAtBet(v, cap, before, stake, byVoucher, req[r].bal, said)])
  <2>1. PICK v \in ActiveVouchers(r) :
          /\ lock[v] = NoReq
          /\ IF req[r].bal < req[r].stake
             THEN req' = Answer(r, 400) /\ UNCHANGED Kept
             ELSE req' = Answer(r, 201) /\ \E said \in Metadata : Bets(v, said)
    BY <1>2, ZenonT(60) DEF PlaceBet
  <2>2. ~ (req[r].bal < req[r].stake)
    BY <1>2, <2>1, ZenonT(60)
  <2>3. req[r].bal >= req[r].stake
    BY <1>0, <2>2 DEF Work
  <2>4. PICK said \in Metadata : Bets(v, said)
    BY <2>1, <2>2, Zenon
  <2> QED
    BY <1>0, <2>1, <2>2, <2>3, <2>4, PlaceBetWrites, Zenon
<1> QED
  BY <1>1, <1>2


\* A request that settles owns the round, still as it was committed, and no voucher.
LEMMA AtSettle ==
  ASSUME IInv, NEW r \in Reqs, req[r].at = "play", req[r].op = "settle"
  PROVE  /\ req[r].g \in Rounds /\ lock[req[r].g] = r
         /\ cur[req[r].g] = db[req[r].g] /\ cur[req[r].g].st = "pending" /\ cur[req[r].g] \in RoundRow
         /\ \A u \in Vouchers : lock[u] # r
<1>1. req[r].g \in Rounds /\ lock[req[r].g] = r /\ db[req[r].g].st = "pending"
  BY DEF IInv, LocalPart, Local, FactsPart, Facts
<1>2. cur[req[r].g] = db[req[r].g]
  BY <1>1, RowNames DEF IInv, OwnPart, Owned
<1>3. cur[req[r].g] \in RoundRow
  BY <1>1 DEF IInv, TypeOK, RowsOK
<1>4. ASSUME NEW u \in Vouchers, lock[u] = r PROVE FALSE
  <2>1. Owned(r, u)
    BY <1>4, RowNames DEF IInv, OwnPart
  <2> QED
    BY <1>1, <2>1, RowNames DEF Owned
<1> QED
  BY <1>1, <1>2, <1>3, <1>4

\* What a settlement writes when the round wins win.
SettleWrite(r, v, win, reached) ==
  LET g == cur[req[r].g]
      cap == MaxCashout(cur[v], g.cap)
      before == BeforeOf(g, cur[v], cap, req[r].bal)
      after == AfterOf(g, cur[v], cap, req[r].bal)
      byVoucher == mode = "voucher_controlled"
  IN  /\ byVoucher => /\ win <= MaxWin(cur[v], cap, g.stake, before, after)
                      /\ after + win >= cap => reached
      /\ Take(r, {v, Wallet, req[r].g},
             [x \in {v, Wallet, req[r].g} |->
                IF x = Wallet THEN Paid(r, v, req[r].bal + win)
                ELSE IF x = v
                THEN VoucherAtSettle(cur[v], cap, after + win, win, reached, byVoucher, g.v = v)
                ELSE [NoRound EXCEPT !.st = "settled"]])

LEMMA SettleWrites ==
  ASSUME IInv, NEW r \in Reqs, NEW v \in ActiveVouchers(r), req[r].at = "play", req[r].op = "settle",
         lock[v] = NoReq, req' = Answer(r, 200), NEW win \in Nat, NEW reached \in BOOLEAN,
         SettleWrite(r, v, win, reached)
  PROVE  IInv'
<1> DEFINE id == req[r].g
           g == cur[id]
           cap == MaxCashout(cur[v], g.cap)
           bal == req[r].bal
           before == BeforeOf(g, cur[v], cap, bal)
           after == AfterOf(g, cur[v], cap, bal)
           by == mode = "voucher_controlled"
           own == g.v = v
           n == VoucherAtSettle(cur[v], cap, after + win, win, reached, by, own)
           k == [NoRound EXCEPT !.st = "settled"]
           X == {v, Wallet, id}
<1>1. v \in Vouchers /\ db[v].st = "redeemed"
  BY RedeemedIfActive
<1>2. /\ id \in Rounds /\ g = db[id] /\ g.st = "pending" /\ g \in RoundRow /\ \A u \in Vouchers : lock[u] # r
  BY AtSettle
<1>3. cur[v] = db[v] /\ cur[v] \in VoucherRow /\ by \in BOOLEAN /\ own \in BOOLEAN /\ bal \in Nat
  BY <1>1, RowNames DEF IInv, RowsPart, TypeOK, RowsOK, Work
<1>4. g.cap \in Int
  BY <1>2 DEF RoundRow
<1>5. cap \in Nat
  <2> HIDE DEF g
  <2> QED
    BY <1>3, <1>4, CashoutIsNat
<1>6. after + win \in Nat
  <2>1. after \in Nat
    <3> HIDE DEF g, cap, bal
    <3> QED
      BY <1>2, <1>3, <1>5, SnapshotTypes
  <2> QED
    BY <2>1
<1>7. by => /\ win <= MaxWin(cur[v], cap, g.stake, before, after)
            /\ after + win >= cap => reached
  BY DEF SettleWrite
<1>8. n \in VoucherRow /\ VoucherMoves(cur[v], n)
  <2>1. /\ cur[v] \in VoucherRow /\ g.cap \in Int /\ after + win \in Nat /\ win \in Nat
        /\ reached \in BOOLEAN /\ by \in BOOLEAN /\ own \in BOOLEAN
    BY <1>3, <1>4, <1>6
  <2>2. by => (after + win >= MaxCashout(cur[v], g.cap) => reached)
    BY <1>7
  <2> QED
    BY ONLY <2>1, <2>2, SettleMoves, ZenonT(60)
<1>9. GoodAt(db, v)
  BY <1>1 DEF IInv, RowsPart
<1>10. n.clean => /\ cur[v].clean /\ own /\ Covered(n)
                  /\ cur[v].decay /\ MinDecay > 0 => n.tracked < Or(g.before, g.stake)
  <2>1. cur[v].clean => Covered(cur[v]) /\ (own => Fits(cur[v], g))
    BY <1>2, <1>3, <1>9 DEF GoodAt, Waits
  <2>2. /\ cur[v] \in VoucherRow /\ g \in RoundRow /\ bal \in Nat /\ by \in BOOLEAN /\ own \in BOOLEAN
        /\ win \in Nat /\ reached \in BOOLEAN
    BY <1>2, <1>3
  <2>3. LET c == MaxCashout(cur[v], g.cap) IN
        by => win <= MaxWin(cur[v], c, g.stake, BeforeOf(g, cur[v], c, bal), AfterOf(g, cur[v], c, bal))
    BY <1>7
  <2> HIDE DEF g, bal, by, own
  <2> QED
    BY ONLY <2>1, <2>2, <2>3, SettleKeeps, ZenonT(60)
<1>11. k \in RoundRow /\ k.st = "settled"
  BY DEF NoRound, RoundRow
<1>12. Take(r, X, [x \in X |-> IF x = Wallet THEN Paid(r, v, bal + win) ELSE IF x = v THEN n ELSE k])
  BY DEF SettleWrite
<1> HIDE DEF n, k, cap, before, after, by, own
<1>13. v \in X /\ id \in X /\ Wallet \in X /\ X \in SUBSET Rows
       /\ Vouchers \cap X = {v} /\ Rounds \cap X = {id} /\ Limits \cap X = {}
  BY <1>1, <1>2, RowNames
<1> HIDE DEF X
<1>14. cur' = [x \in Rows |-> IF x \in X THEN IF x = Wallet THEN Paid(r, v, bal + win)
                                              ELSE IF x = v THEN n ELSE k
                              ELSE cur[x]]
  BY <1>12 DEF Take
<1>15. /\ cur'[v] = n /\ cur'[id] = k /\ cur'[Wallet] = Paid(r, v, bal + win)
       /\ \A x \in Rows : x \notin X => cur'[x] = cur[x]
  BY <1>1, <1>2, <1>13, <1>14, RowNames
<1>16. /\ cur'[Wallet] \in [bal : Nat, v : Vouchers \cup {Nothing}] /\ Linked(cur'[Wallet])
  <2>1. bal + win \in Nat
    BY <1>3
  <2>2. cur[Wallet] = db[Wallet]
    BY <1>12, <1>13, RowNames, FreeRow DEF Take
  <2> QED
    BY <1>15, <2>1, <2>2, PaidFields
<1>17. RowsOK(cur')
  <2>1. RowsOK(cur)
    BY DEF IInv, TypeOK
  <2>2. Session \notin X
    BY <1>1, <1>2, RowNames DEF X
  <2>3. cur'[Session] = cur[Session]
    BY <1>15, <2>2, RowNames
  <2>4. \A x \in Vouchers : x # v => cur'[x] = cur[x]
    BY <1>13, <1>15, RowNames
  <2>5. \A x \in Rounds : x # id => cur'[x] = cur[x]
    BY <1>13, <1>15, RowNames
  <2>6. \A x \in Limits : cur'[x] = cur[x]
    BY <1>13, <1>15, RowNames
  <2> HIDE DEF id
  <2> QED
    BY <1>8, <1>11, <1>15, <1>16, <2>1, <2>3, <2>4, <2>5, <2>6 DEF RowsOK
<1>18. Takes(r, X)
  <2>1. DOMAIN cur' = Rows
    BY <1>14
  <2>2. /\ \A x \in X : lock[x] \in {r, NoReq}
        /\ lock' = [x \in Rows |-> IF x \in X THEN r ELSE lock[x]]
        /\ db' = db /\ mode' = mode /\ ledger' = ledger /\ acts' = acts /\ menu' = menu
    BY <1>12 DEF Take
  <2> QED
    BY <1>15, <1>17, <2>1, <2>2 DEF Takes
<1>19. GoodAt(Stored(r), v)'
  <2>1. /\ Stored(r)'[v] = n /\ Stored(r)'[id] = k
        /\ \A h \in Rounds : h # id => Stored(r)'[h] = db[h]
    <3>1. \A h \in Rounds : h # id => h \notin X
      BY <1>13
    <3> QED
      BY <1>1, <1>2, <1>13, <1>15, <1>18, <3>1, StoredAfter
  <2>2. n.clean => \A h \in Rounds : h # id => ~ Waits(db, h, v)
    <3>1. n.clean => db[v].clean /\ Waits(db, id, v)
      BY <1>2, <1>3, <1>10 DEF own, Waits
    <3> QED
      BY <1>2, <1>9, <3>1 DEF GoodAt
  <2>3. GoodAt(Stored(r)', v)
    BY <1>2, <1>10, <1>11, <2>1, <2>2 DEF GoodAt, Waits
  <2> QED
    BY <2>3 DEF GoodAt, Waits
<1>20. \A h \in {id} : RoundSettled(r, h)'
  <2>1. db' = db
    BY <1>18 DEF Takes
  <2>2. \A u \in Vouchers : lock'[u] = r => u = v
    BY <1>2, <1>13, <1>18, RowNames DEF Takes
  <2>3. cur'[id].st = "settled"
    BY <1>11, <1>15
  <2>4. ASSUME MinDecay > 0, NEW u \in Vouchers, lock'[u] = r, db[u].decay, cur'[u].clean
        PROVE  cur'[u].tracked < Or(db[id].before, db[id].stake)
    <3>1. u = v
      BY <2>2, <2>4
    <3> QED
      BY <1>2, <1>3, <1>10, <1>15, <2>4, <3>1
  <2> HIDE DEF id
  <2> QED
    BY <2>1, <2>3, <2>4 DEF RoundSettled, PaysDown
<1>21. VoucherMoves(db[v], cur'[v])
  BY <1>3, <1>8, <1>15
<1>22. \A u \in Vouchers \cap X :
         cur'[u].st = "redeemed" /\ GoodAt(Stored(r), u)' /\ VoucherMoves(db[u], cur'[u])
  BY <1>1, <1>13, <1>19, <1>21 DEF VoucherMoves
<1>23. \A h \in Rounds \cap X : cur'[h] = db[h] \/ RoundBegun(r, h)' \/ RoundSettled(r, h)'
  BY <1>13, <1>20
<1>24. req[r].at \notin {"idle", "respond", "balance", "save"}
  OBVIOUS
<1>25. LinkedBy(r)'
  BY <1>16, <1>18, LinkedIsLinkedBy DEF Takes
<1> QED
  BY <1>13, <1>18, <1>22, <1>23, <1>24, <1>25, WriteInv

LEMMA SettleInv == ASSUME IInv, NEW r \in Reqs, Settle(r) PROVE IInv'
<1>0. req[r].at = "play" /\ req[r].op = "settle"
  BY Zenon DEF Settle, At
<1>1. CASE req' = Answer(r, 403) /\ UNCHANGED Kept
  BY <1>0, <1>1, AnswerInv
<1>2. ASSUME ~ (req' = Answer(r, 403) /\ UNCHANGED Kept)
      PROVE  IInv'
  <2> DEFINE g == cur[req[r].g]
             cap(v) == MaxCashout(cur[v], g.cap)
             before(v) == BeforeOf(g, cur[v], cap(v), req[r].bal)
             after(v) == AfterOf(g, cur[v], cap(v), req[r].bal)
             by == mode = "voucher_controlled"
             Writes(v, win, reached) ==
               Take(r, {v, Wallet, req[r].g},
                    [x \in {v, Wallet, req[r].g} |->
                       IF x = Wallet THEN Paid(r, v, req[r].bal + win)
                       ELSE IF x = v
                       THEN VoucherAtSettle(cur[v], cap(v), after(v) + win, win, reached, by, g.v = v)
                       ELSE [NoRound EXCEPT !.st = "settled"]])
  <2>1. \E v \in ActiveVouchers(r) :
          /\ lock[v] = NoReq
          /\ \E win \in IF by THEN Payouts(cur[v], cap(v), g.stake, before(v), after(v)) ELSE Wins :
             \E reached \in IF by THEN Reached(cur[v], cap(v), before(v), after(v), after(v) + win) ELSE {FALSE} :
               Writes(v, win, reached) /\ req' = Answer(r, 200)
    BY <1>2, ZenonT(60) DEF Settle
  <2>2. PICK v \in ActiveVouchers(r) :
          /\ lock[v] = NoReq
          /\ \E win \in IF by THEN Payouts(cur[v], cap(v), g.stake, before(v), after(v)) ELSE Wins :
             \E reached \in IF by THEN Reached(cur[v], cap(v), before(v), after(v), after(v) + win) ELSE {FALSE} :
               Writes(v, win, reached) /\ req' = Answer(r, 200)
    BY <2>1, Zenon
  <2>3. PICK win \in IF by THEN Payouts(cur[v], cap(v), g.stake, before(v), after(v)) ELSE Wins :
             \E reached \in IF by THEN Reached(cur[v], cap(v), before(v), after(v), after(v) + win) ELSE {FALSE} :
               Writes(v, win, reached) /\ req' = Answer(r, 200)
    BY <2>2, Zenon
  <2>4. PICK reached \in IF by THEN Reached(cur[v], cap(v), before(v), after(v), after(v) + win) ELSE {FALSE} :
               Writes(v, win, reached) /\ req' = Answer(r, 200)
    BY <2>3, Zenon
  <2>5. /\ cur[v] \in VoucherRow /\ g \in RoundRow /\ req[r].bal \in Nat
    <3>1. v \in Vouchers
      BY RedeemedIfActive
    <3> QED
      BY <1>0, <3>1, AtSettle DEF IInv, TypeOK, RowsOK, Work
  <2>6. cap(v) \in Nat /\ before(v) \in Nat /\ after(v) \in Nat /\ g.stake \in Nat
    <3>1. g.cap \in Int /\ g.stake \in Nat
      BY <2>5 DEF RoundRow
    <3> HIDE DEF g
    <3>2. cap(v) \in Nat
      BY <2>5, <3>1, CashoutIsNat
    <3> HIDE DEF cap
    <3> QED
      BY <2>5, <3>1, <3>2, SnapshotTypes
  <2> HIDE DEF g, cap, before, after, by, Writes
  <2>7. win \in Nat /\ (by => win <= MaxWin(cur[v], cap(v), g.stake, before(v), after(v)))
    <3>1. CASE by
      <4>1. win \in Payouts(cur[v], cap(v), g.stake, before(v), after(v))
        BY <2>3, <3>1
      <4> QED
        BY <2>5, <2>6, <4>1, PayoutsAreNat
    <3>2. CASE ~ by
      BY <2>3, <3>2, AmountAssumption
    <3> QED
      BY <3>1, <3>2
  <2>8. reached \in BOOLEAN /\ (by => (after(v) + win >= cap(v) => reached))
    <3>1. CASE by
      <4>1. reached \in Reached(cur[v], cap(v), before(v), after(v), after(v) + win)
        BY <2>4, <3>1
      <4>2. after(v) + win \in Nat
        BY <2>6, <2>7
      <4> QED
        BY <2>5, <2>6, <4>1, <4>2, ReachedFacts
    <3>2. CASE ~ by
      BY <2>4, <3>2
    <3> QED
      BY <3>1, <3>2
  <2>9. /\ by => win <= MaxWin(cur[v], cap(v), g.stake, before(v), after(v)) /\ (after(v) + win >= cap(v) => reached)
        /\ Writes(v, win, reached)
    BY <2>4, <2>7, <2>8
  <2>10. /\ IInv /\ r \in Reqs /\ v \in ActiveVouchers(r) /\ lock[v] = NoReq /\ req' = Answer(r, 200)
         /\ win \in Nat /\ reached \in BOOLEAN
    BY <2>2, <2>4, <2>7, <2>8
  <2> USE DEF g, cap, before, after, by, Writes
  <2>11. SettleWrite(r, v, win, reached)
    BY ONLY <2>9, Zenon DEF SettleWrite
  <2> HIDE DEF g, cap, before, after, by, Writes
  <2> QED
    BY ONLY <1>0, <2>10, <2>11, SettleWrites, Zenon
<1> QED
  BY <1>1, <1>2



(***************************************************************************)
(* The end of a request                                                    *)
(***************************************************************************)

LEMMA NoWorkType == NoWork \in Work /\ Local(NoWork)
<1>1. "idle" \in Places
  BY DEF Places
<1>2. "bet" \in Ops
  BY DEF Ops
<1>3. NoVoucher \in VoucherRow
  BY DEF NoVoucher, VoucherRow
<1> QED
  BY <1>1, <1>2, <1>3 DEF NoWork, Work, Local

\* A request that ends without a commit leaves everything to the others as it was.
LEMMA EndInv ==
  ASSUME IInv, NEW r \in Reqs, Rollback(r), lock' = Free(r), req' = [req EXCEPT ![r] = NoWork],
         UNCHANGED <<db, mode, ledger, acts, menu>>
  PROVE  IInv'
<1>0. r # NoReq /\ \A s \in Reqs : s # NoReq
  BY NamesAssumption
<1>1. \A x \in Rows : /\ lock'[x] = IF lock[x] = r THEN NoReq ELSE lock[x]
                      /\ cur'[x] = IF lock[x] = r THEN db[x] ELSE cur[x]
  BY DEF Rollback, Free
<1>2. req'[r] = NoWork /\ \A s \in Reqs : s # r => req'[s] = req[s]
  BY DEF IInv, TypeOK
<1>3. TypeOK'
  <2>1. req' \in [Reqs -> Work]
    BY NoWorkType DEF IInv, TypeOK
  <2>2. DOMAIN cur' = Rows /\ lock' \in [Rows -> Reqs \cup {NoReq}]
    BY DEF Rollback, Free, IInv, TypeOK
  <2>3. RowsOK(cur')
    BY <1>1, RowNames DEF RowsOK, IInv, TypeOK
  <2>4. RowsOK(cur)' /\ RowsOK(db)'
    BY <2>3 DEF RowsOK, IInv, TypeOK
  <2> QED
    BY <2>1, <2>2, <2>4 DEF IInv, TypeOK
<1>4. LocalPart'
  BY <1>2, NoWorkType DEF IInv, LocalPart
<1>5. FactsPart'
  <2> SUFFICES ASSUME NEW s \in Reqs PROVE Facts(s)'
    BY DEF FactsPart
  <2>1. CASE s = r
    BY <1>2, <2>1 DEF Facts, NoWork
  <2>2. CASE s # r
    <3>1. Facts(s) /\ req'[s] = req[s]
      BY <1>2, <2>2 DEF IInv, FactsPart
    <3>2. LimitsNow' = LimitsNow
      BY DEF LimitsNow
    <3>3. \A x \in Rows : lock[x] = s => lock'[x] = s
      BY <1>1, <2>2
    <3>4. /\ req[s].at \in {"session", "wallet", "play"} /\ req[s].op = "settle" => req[s].g \in Rows
          /\ req[s].at \in {"balance", "save"} => req[s].v \in Rows
      BY RowNames DEF IInv, LocalPart, Local
    <3> QED
      BY <3>1, <3>2, <3>3, <3>4 DEF Facts
  <2> QED
    BY <2>1, <2>2
<1>6. OwnPart'
  <2> SUFFICES ASSUME NEW s \in Reqs, NEW x \in Rows, lock'[x] = s PROVE Owned(s, x)'
    BY DEF OwnPart
  <2>1. s # r /\ lock[x] = s
    BY <1>0, <1>1
  <2>2. \A y \in Rows : lock'[y] = s <=> lock[y] = s
    BY <1>0, <1>1, <2>1
  <2>3. \A y \in Rows : lock'[y] = s => cur'[y] = cur[y]
    BY <1>1, <2>1, <2>2
  <2>4. Owned(s, x) /\ cur'[x] = cur[x] /\ req'[s] = req[s]
    BY <1>2, <2>1, <2>3 DEF IInv, OwnPart
  <2>5. cur[Wallet].v \in Vouchers \cup {Nothing}
    BY DEF IInv, TypeOK, RowsOK
  <2> QED
    BY <2>2, <2>3, <2>4, <2>5, OtherOwns
<1>7. RowsPart'
  <2>1. \A x \in Rows : lock'[x] = NoReq => cur'[x] = db'[x]
    BY <1>0, <1>1 DEF IInv, RowsPart
  <2>3. \A l \in Limits : db'[l] > 0 => cur'[l] > 0
    BY <1>1, RowNames DEF IInv, RowsPart
  <2>4. Linked(db[Wallet])'
    BY DEF IInv, RowsPart, Linked
  <2>5. \A v \in Vouchers : GoodAt(db, v)'
    BY DEF IInv, RowsPart, GoodAt, Waits
  <2> QED
    BY <2>1, <2>3, <2>4, <2>5 DEF IInv, RowsPart
<1> QED
  BY <1>3, <1>4, <1>5, <1>6, <1>7 DEF IInv

LEMMA CloseInv == ASSUME IInv, NEW r \in Reqs, Close(r) PROVE IInv'
BY EndInv DEF Close


\* What a commit changes of the rows: those of r take the version r gave them.
Commits(r) ==
  /\ At(r, "respond")
  /\ db' = Stored(r) /\ cur' = cur /\ lock' = Free(r) /\ acts' \subseteq ActionTypes
  /\ req' = Learn(r) /\ mode' = mode /\ ledger' = ledger /\ menu' = menu

LEMMA CommitRows ==
  ASSUME IInv, NEW r \in Reqs, Commits(r)
  PROVE  /\ \A x \in Rows : /\ lock'[x] = IF lock[x] = r THEN NoReq ELSE lock[x]
                            /\ db'[x] = IF lock[x] = r THEN cur[x] ELSE db[x]
                            /\ cur'[x] = cur[x]
         /\ \A v \in Vouchers : db'[v] = db[v] \/ (lock[v] = r /\ Made(r, v) /\ db'[v] = cur[v])
         /\ \A v \in Vouchers : db[v].st = "redeemed" => db'[v].st = "redeemed"
         /\ \A l \in Limits : db[l] > 0 => db'[l] > 0
         /\ \A g \in Rounds : db'[g] = db[g] \/ (lock[g] = r /\ (RoundBegun(r, g) \/ cur[g].st = "settled"))
<1>1. \A x \in Rows : /\ lock'[x] = IF lock[x] = r THEN NoReq ELSE lock[x]
                      /\ db'[x] = IF lock[x] = r THEN cur[x] ELSE db[x]
                      /\ cur'[x] = cur[x]
  BY DEF Commits, Stored, Free
<1>2. ASSUME NEW v \in Vouchers
      PROVE  /\ db'[v] = db[v] \/ (lock[v] = r /\ Made(r, v) /\ db'[v] = cur[v])
             /\ db[v].st = "redeemed" => db'[v].st = "redeemed"
  <2>1. lock[v] = r => Made(r, v)
    BY RowNames DEF IInv, OwnPart, Owned, Commits, At
  <2> QED
    BY <1>1, <2>1, RowNames DEF Made
<1>3. \A l \in Limits : db[l] > 0 => db'[l] > 0
  BY <1>1, RowNames DEF IInv, RowsPart
<1>4. ASSUME NEW g \in Rounds, db'[g] # db[g]
      PROVE  lock[g] = r /\ (RoundBegun(r, g) \/ cur[g].st = "settled")
  <2>1. lock[g] = r /\ cur[g] # db[g]
    BY <1>1, <1>4, RowNames
  <2>2. Owned(r, g)
    BY <2>1, RowNames DEF IInv, OwnPart
  <2> QED
    BY <2>1, <2>2 DEF Owned, RoundSettled
<1> QED
  BY <1>1, <1>2, <1>3, <1>4

\* Of the others a request changes no more than the limits they know.
LEMMA LearnFields ==
  ASSUME IInv, NEW r \in Reqs, req' = Learn(r)
  PROVE  /\ req' \in [Reqs -> Work] /\ req'[r] = NoWork
         /\ \A s \in Reqs \ {r} :
              /\ req'[s].at = req[s].at /\ req'[s].op = req[s].op /\ req'[s].g = req[s].g
              /\ req'[s].stake = req[s].stake /\ req'[s].bal = req[s].bal /\ req'[s].seen = req[s].seen
              /\ req'[s].l = req[s].l /\ req'[s].v = req[s].v /\ req'[s].copy = req[s].copy /\ req'[s].act = req[s].act
              /\ req[s].op \in Limited =>
                   req'[s].known = req[s].known \cup ({Stored(r)[l] : l \in Limits} \ {0})
<1> DEFINE now == {Stored(r)[l] : l \in Limits} \ {0}
           K(s) == IF req[s].op \in Limited THEN req[s].known \cup now ELSE {}
<1>1. now \subseteq Nat
  <2>1. \A l \in Limits : db[l] \in Nat /\ cur[l] \in Nat
    BY DEF IInv, TypeOK, RowsOK
  <2>2. \A l \in Limits : Stored(r)[l] \in Nat
    BY <2>1, RowNames DEF Stored
  <2> QED
    BY <2>2
<1>2. req' = [s \in Reqs |-> IF s = r THEN NoWork ELSE [req[s] EXCEPT !.known = K(s)]]
  <2>1. \A s \in Reqs : [req[s] EXCEPT !.known = IF req[s].op \in Limited THEN @ \cup now ELSE {}]
                          = [req[s] EXCEPT !.known = K(s)]
    <3> SUFFICES ASSUME NEW s \in Reqs
                 PROVE  [req[s] EXCEPT !.known = IF req[s].op \in Limited THEN @ \cup now ELSE {}]
                          = [req[s] EXCEPT !.known = K(s)]
      OBVIOUS
    <3> HIDE DEF now
    <3>1. req[s] \in Work
      BY DEF IInv, TypeOK
    <3> QED
      BY <3>1 DEF Work
  <2> HIDE DEF K
  <2> QED
    BY <2>1 DEF Learn
<1> HIDE DEF now
<1>3. ASSUME NEW s \in Reqs \ {r}
      PROVE  /\ req'[s] \in Work
             /\ req'[s].at = req[s].at /\ req'[s].op = req[s].op /\ req'[s].g = req[s].g
             /\ req'[s].stake = req[s].stake /\ req'[s].bal = req[s].bal /\ req'[s].seen = req[s].seen
             /\ req'[s].l = req[s].l /\ req'[s].v = req[s].v /\ req'[s].copy = req[s].copy /\ req'[s].act = req[s].act
             /\ req[s].op \in Limited => req'[s].known = req[s].known \cup now
  <2>1. req[s] \in Work /\ req'[s] = [req[s] EXCEPT !.known = K(s)]
    BY <1>2 DEF IInv, TypeOK
  <2>2. K(s) \in SUBSET Nat /\ (req[s].op \in Limited => K(s) = req[s].known \cup now)
    BY <1>1, <2>1 DEF Work
  <2> HIDE DEF K
  <2> QED
    BY <2>1, <2>2 DEF Work
<1>4. req'[r] = NoWork
  BY <1>2
<1>5. req' \in [Reqs -> Work]
  <2>1. DOMAIN req' = Reqs /\ \A s \in Reqs : req'[s] \in Work
    BY <1>2, <1>3, <1>4, NoWorkType
  <2>2. req' = [s \in Reqs |-> req'[s]]
    BY <1>2
  <2> QED
    BY <2>1, <2>2
<1> QED
  BY <1>3, <1>4, <1>5 DEF now

LEMMA CommitFacts ==
  ASSUME IInv, NEW r \in Reqs, Commits(r), NEW s \in Reqs, s # r
  PROVE  Facts(s)'
<1>0. Facts(s) /\ Local(req[s]) /\ req[s] \in Work
  BY DEF IInv, FactsPart, LocalPart, TypeOK
<1>1. /\ \A x \in Rows : /\ lock'[x] = IF lock[x] = r THEN NoReq ELSE lock[x]
                         /\ db'[x] = IF lock[x] = r THEN cur[x] ELSE db[x]
      /\ \A v \in Vouchers : db[v].st = "redeemed" => db'[v].st = "redeemed"
      /\ \A l \in Limits : db[l] > 0 => db'[l] > 0
      /\ \A g \in Rounds : db'[g] = db[g] \/ (lock[g] = r /\ (RoundBegun(r, g) \/ cur[g].st = "settled"))
  BY CommitRows
<1>2. /\ req'[s].at = req[s].at /\ req'[s].op = req[s].op /\ req'[s].g = req[s].g
      /\ req'[s].stake = req[s].stake /\ req'[s].seen = req[s].seen
      /\ req'[s].l = req[s].l /\ req'[s].v = req[s].v
      /\ req[s].op \in Limited => req'[s].known = req[s].known \cup ({Stored(r)[l] : l \in Limits} \ {0})
  BY LearnFields DEF Commits
<1>3. LimitsNow' \subseteq {Stored(r)[l] : l \in Limits} \ {0} /\ (LimitsNow # {} => LimitsNow' # {})
  <2>1. db' = Stored(r)
    BY DEF Commits
  <2> QED
    BY <1>1, <2>1 DEF LimitsNow
<1>4. req[s].seen # Nothing => db'[req[s].seen].st = "redeemed"
  BY <1>0, <1>1 DEF Facts, Work
<1>5. req[s].at \in {"balance", "save"} /\ req[s].op = "redeem"
        => lock'[req[s].v] = s /\ db'[req[s].v].st = "active"
  BY <1>0, <1>1, RowNames DEF Facts, Local
<1>6. req[s].at = "round" => db'[req[s].g].st # "none"
  <2> SUFFICES ASSUME req[s].at = "round" PROVE db'[req[s].g].st # "none"
    OBVIOUS
  <2>1. req[s].g \in Rounds /\ db[req[s].g].st # "none"
    BY <1>0 DEF Local, Facts
  <2>2. db'[req[s].g] = db[req[s].g] \/ (db'[req[s].g] = cur[req[s].g] /\ cur[req[s].g].st \in {"pending", "settled"})
    BY <1>1, <2>1, RowNames DEF RoundBegun
  <2> QED
    BY <2>1, <2>2
<1>7. req[s].at = "lower" => db'[req[s].l] > 0 /\ \E n \in req'[s].known : req[s].stake < n
  BY <1>0, <1>1, <1>2 DEF Facts, Local, Limited
<1>8. req[s].at \in {"session", "wallet", "play"} /\ req[s].op = "settle"
        => lock'[req[s].g] = s /\ db'[req[s].g].st = "pending"
  <2> SUFFICES ASSUME req[s].at \in {"session", "wallet", "play"}, req[s].op = "settle"
               PROVE  lock'[req[s].g] = s /\ db'[req[s].g].st = "pending"
    OBVIOUS
  <2>1. req[s].g \in Rounds /\ lock[req[s].g] = s /\ db[req[s].g].st = "pending"
    BY <1>0 DEF Local, Facts
  <2> QED
    BY <1>1, <2>1, RowNames
<1>9. req[s].at # "idle" /\ req[s].op \in Limited => LimitsNow' \subseteq req'[s].known
  BY <1>2, <1>3
<1>10. req[s].at = "find" => 0 \in req'[s].known \/ LimitsNow' # {}
  BY <1>0, <1>2, <1>3 DEF Facts, Local, Limited
<1>11. req[s].at = "insert" => 0 \in req'[s].known
  BY <1>0, <1>2 DEF Facts, Local, Limited
<1> QED
  BY <1>2, <1>4, <1>5, <1>6, <1>7, <1>8, <1>9, <1>10, <1>11 DEF Facts


\* Whatever r commits, voucher v stays as good for those who see it unless r owns it.
LEMMA CommitGood ==
  ASSUME IInv, NEW r \in Reqs, Commits(r), NEW v \in Vouchers, lock[v] # r, NEW f, NEW h,
         GoodAt(f, v), h[v] = f[v],
         \A g \in Rounds : \/ h[g] = f[g]
                           \/ lock[g] = r /\ f[g] = db[g] /\ h[g] = cur[g]
  PROVE  GoodAt(h, v)
<1> SUFFICES ASSUME NEW g \in Rounds, Waits(h, g, v), h[g] # f[g]
             PROVE  FALSE
  BY GoodStays DEF Waits
<1>1. lock[g] = r /\ f[g] = db[g] /\ h[g] = cur[g]
  OBVIOUS
<1>2. Owned(r, g)
  BY <1>1, RowNames DEF IInv, OwnPart
<1>3. RoundBegun(r, g) \/ RoundSettled(r, g)
  BY <1>1, <1>2 DEF Owned
<1> QED
  BY <1>1, <1>3 DEF RoundBegun, RoundSettled, Waits

LEMMA CommitOwned ==
  ASSUME IInv, NEW r \in Reqs, Commits(r), NEW s \in Reqs, NEW x \in Rows, lock'[x] = s
  PROVE  Owned(s, x)'
<1>0. r # NoReq /\ s # NoReq
  BY NamesAssumption
<1>1. \A y \in Rows : /\ lock'[y] = IF lock[y] = r THEN NoReq ELSE lock[y]
                      /\ db'[y] = IF lock[y] = r THEN cur[y] ELSE db[y]
                      /\ cur'[y] = cur[y]
  BY CommitRows
<1>2. s # r /\ lock[x] = s /\ db'[x] = db[x] /\ Owned(s, x)
  BY <1>0, <1>1 DEF IInv, OwnPart
<1>3. \A y \in Rows : lock'[y] = s <=> lock[y] = s
  BY <1>0, <1>1, <1>2
<1>4. /\ req'[s].at = req[s].at /\ req'[s].op = req[s].op /\ req'[s].g = req[s].g
      /\ req'[s].v = req[s].v
      /\ req[s].op \in Limited => req[s].known \subseteq req'[s].known
  BY <1>2, LearnFields DEF Commits
<1>5. x \in Vouchers /\ req'[s].at = "respond" => Made(s, x)'
  <2> SUFFICES ASSUME x \in Vouchers, req[s].at = "respond" PROVE Made(s, x)'
    BY <1>4
  <2>1. \A y \in Rows : /\ Stored(s)[y] = IF lock[y] = s THEN cur[y] ELSE db[y]
                        /\ Stored(s)'[y] = IF lock'[y] = s THEN cur'[y] ELSE db'[y]
    BY DEF Stored
  <2>2. Made(s, x) /\ GoodAt(Stored(s), x)
    BY <1>2 DEF Owned, Made
  <2>3. Stored(s)'[x] = Stored(s)[x]
    BY <1>1, <1>2, <1>3, <2>1
  <2>4. \A g \in Rounds : \/ Stored(s)'[g] = Stored(s)[g]
                          \/ lock[g] = r /\ Stored(s)[g] = db[g] /\ Stored(s)'[g] = cur[g]
    BY <1>1, <1>2, <1>3, <2>1, RowNames
  <2>5. GoodAt(Stored(s)', x)
    BY <1>2, <2>2, <2>3, <2>4, CommitGood
  <2>6. GoodAt(Stored(s), x)'
    BY <2>5 DEF GoodAt, Waits
  <2>7. /\ cur'[x] = cur[x] /\ db'[x] = db[x] /\ req'[s].op = req[s].op
        /\ cur[x].st = "redeemed"
        /\ VoucherMoves(db[x], cur[x]) \/ (req[s].op = "login" /\ db[x].st = "redeemed")
    BY <1>1, <1>2, <1>4, <2>2 DEF Made
  <2>8. VoucherMoves(db'[x], cur'[x]) \/ (req'[s].op = "login" /\ db'[x].st = "redeemed")
    BY ONLY <2>7
  <2> QED
    BY <2>6, <2>7, <2>8 DEF Made
<1>6. x \in Limits /\ cur'[x] # db'[x] => req'[s].op = "limit" /\ LimitSet(s, x)'
  <2> SUFFICES ASSUME x \in Limits, cur[x] # db[x]
               PROVE  req'[s].op = "limit" /\ LimitSet(s, x)'
    BY <1>1, <1>2
  <2>1. req[s].op = "limit" /\ LimitSet(s, x)
    BY <1>2 DEF Owned
  <2>2. req'[s].op = "limit" /\ req[s].known \subseteq req'[s].known /\ cur'[x] = cur[x] /\ db'[x] = db[x]
    BY <1>1, <1>2, <1>4, <2>1 DEF Limited
  <2> QED
    BY <2>1, <2>2 DEF LimitSet
<1>7. RoundBegun(s, x) => RoundBegun(s, x)'
  BY <1>1, <1>3, RowNames DEF RoundBegun
<1>8. RoundSettled(s, x) => RoundSettled(s, x)'
  <2>1. PaysDown(s, x) => PaysDown(s, x)'
    <3>1. \A v \in Vouchers : lock'[v] = s => lock[v] = s /\ db'[v] = db[v] /\ cur'[v] = cur[v]
      BY <1>1, <1>2, <1>3, RowNames
    <3> QED
      BY <1>2, <3>1 DEF PaysDown
  <2> QED
    BY <1>1, <2>1 DEF RoundSettled
<1>9. x = Wallet => LinkedBy(s)'
  <2>1. cur[Wallet].v \in Vouchers \cup {Nothing}
    BY DEF IInv, TypeOK, RowsOK
  <2>2. \A v \in Vouchers : db[v].st = "redeemed" => db'[v].st = "redeemed"
    BY CommitRows
  <2> SUFFICES ASSUME x = Wallet, cur[Wallet].v # Nothing
               PROVE  LinkedBy(s)'
    BY <1>1, RowNames DEF LinkedBy
  <2> DEFINE v == cur[Wallet].v
  <2>3. v \in Vouchers /\ v \in Rows /\ cur'[v] = cur[v] /\ cur'[Wallet] = cur[Wallet]
    BY <1>1, <2>1, RowNames
  <2>4. LinkedBy(s)
    BY <1>2 DEF Owned
  <2>5. db[v].st = "redeemed" \/ (lock[v] = s /\ cur[v].st = "redeemed")
    BY <2>4 DEF LinkedBy
  <2>6. db'[v].st = "redeemed" \/ (lock'[v] = s /\ cur'[v].st = "redeemed")
    BY <1>3, <2>2, <2>3, <2>5
  <2> QED
    BY <2>3, <2>6 DEF LinkedBy
<1>10. /\ req'[s].at # "idle"
       /\ req'[s].at # "respond"
            => /\ cur'[x] = db'[x]
               /\ \/ x = Session
                  \/ req'[s].op = "settle" /\ x = req'[s].g
                  \/ req'[s].at \in {"balance", "save"} /\ x = req'[s].v
  BY <1>1, <1>2, <1>4 DEF Owned
<1>11. x \in Rounds => cur'[x] = db'[x] \/ RoundBegun(s, x)' \/ RoundSettled(s, x)'
  <2>1. x \in Rounds => cur[x] = db[x] \/ RoundBegun(s, x) \/ RoundSettled(s, x)
    BY <1>2 DEF Owned
  <2> QED
    BY <1>1, <1>2, <1>7, <1>8, <2>1
<1> QED
  BY <1>5, <1>6, <1>9, <1>10, <1>11 DEF Owned

LEMMA CommitRowsPart ==
  ASSUME IInv, NEW r \in Reqs, Commits(r)
  PROVE  RowsPart'
<1>0. r # NoReq
  BY NamesAssumption
<1>1. /\ \A x \in Rows : /\ lock'[x] = IF lock[x] = r THEN NoReq ELSE lock[x]
                         /\ db'[x] = IF lock[x] = r THEN cur[x] ELSE db[x]
                         /\ cur'[x] = cur[x]
      /\ \A v \in Vouchers : db[v].st = "redeemed" => db'[v].st = "redeemed"
      /\ \A l \in Limits : db[l] > 0 => db'[l] > 0
      /\ \A g \in Rounds : db'[g] = db[g] \/ (lock[g] = r /\ (RoundBegun(r, g) \/ cur[g].st = "settled"))
  BY CommitRows
<1>2. /\ \A v \in Vouchers : db[v].st = "redeemed" => db'[v].st = "redeemed"
      /\ \A v \in Vouchers : lock[v] = r => db'[v] = cur[v] /\ Made(r, v)
  <2>1. \A v \in Vouchers : lock[v] = r => Made(r, v)
    BY RowNames DEF IInv, OwnPart, Owned, Commits, At
  <2> QED
    BY <1>1, <2>1, RowNames
<1>3. \A x \in Rows : lock'[x] = NoReq => cur'[x] = db'[x]
  BY <1>0, <1>1 DEF IInv, RowsPart
<1>5. \A l \in Limits : db'[l] > 0 => cur'[l] > 0
  BY <1>1, RowNames DEF IInv, RowsPart
<1>6. Linked(db[Wallet])'
  <2>1. /\ Linked(db[Wallet])
        /\ db[Wallet].v \in Vouchers \cup {Nothing} /\ cur[Wallet].v \in Vouchers \cup {Nothing}
    BY DEF IInv, RowsPart, TypeOK, RowsOK
  <2>2. CASE lock[Wallet] = r
    <3>1. LinkedBy(r) /\ db'[Wallet] = cur[Wallet]
      BY <1>1, <2>2, RowNames DEF IInv, OwnPart, Owned
    <3> QED
      BY <1>2, <2>1, <3>1 DEF Linked, LinkedBy
  <2>3. CASE lock[Wallet] # r
    <3>1. db'[Wallet] = db[Wallet]
      BY <1>1, <2>3, RowNames
    <3> QED
      BY <1>2, <2>1, <3>1 DEF Linked
  <2> QED
    BY <2>2, <2>3
<1>7. \A v \in Vouchers :
        db'[v].st # "redeemed" => db'[v].net = 0 /\ ~ db'[v].decay /\ (db'[v].cap > 0 => db'[v].cap >= Amount)
  <2> SUFFICES ASSUME NEW v \in Vouchers, db'[v].st # "redeemed"
               PROVE  db'[v].net = 0 /\ ~ db'[v].decay /\ (db'[v].cap > 0 => db'[v].cap >= Amount)
    OBVIOUS
  <2>1. db[v].st # "redeemed"
    BY <1>2
  <2>2. lock[v] # r
    BY <1>2 DEF Made
  <2> QED
    BY <1>1, <2>1, <2>2, RowNames DEF IInv, RowsPart
<1>8. \A g \in Rounds : db'[g].st = "pending" => db'[g].v \in Vouchers /\ db'[db'[g].v].st = "redeemed"
  <2> SUFFICES ASSUME NEW g \in Rounds, db'[g].st = "pending"
               PROVE  db'[g].v \in Vouchers /\ db'[db'[g].v].st = "redeemed"
    OBVIOUS
  <2>1. CASE db'[g] = db[g]
    BY <1>2, <2>1 DEF IInv, RowsPart
  <2>2. CASE lock[g] = r /\ (RoundBegun(r, g) \/ cur[g].st = "settled")
    <3>1. db'[g] = cur[g]
      BY <1>1, <2>2, RowNames
    <3>2. cur[g].v \in Vouchers /\ lock[cur[g].v] = r
      BY <2>2, <3>1 DEF RoundBegun
    <3>3. db'[cur[g].v].st = "redeemed"
      BY <1>2, <3>2 DEF Made
    <3> QED
      BY <1>2, <3>1, <3>2, <3>3
  <2> QED
    BY <1>1, <2>1, <2>2
<1>9. \A v \in Vouchers : GoodAt(db, v)'
  <2> SUFFICES ASSUME NEW v \in Vouchers PROVE GoodAt(db', v)
    BY DEF GoodAt, Waits
  <2>1. CASE lock[v] = r
    <3>1. db' = Stored(r) /\ GoodAt(Stored(r), v)
      BY <1>2, <2>1 DEF Commits, Made
    <3> QED
      BY <3>1
  <2>2. CASE lock[v] # r
    <3>1. GoodAt(db, v)
      BY DEF IInv, RowsPart
    <3>2. db'[v] = db[v] /\ \A g \in Rounds : db'[g] = db[g] \/ (lock[g] = r /\ db[g] = db[g] /\ db'[g] = cur[g])
      BY <1>1, <2>2, RowNames
    <3> QED
      BY <2>2, <3>1, <3>2, CommitGood
  <2> QED
    BY <2>1, <2>2
<1> QED
  BY <1>3, <1>5, <1>6, <1>7, <1>8, <1>9 DEF RowsPart

LEMMA CommitInv == ASSUME IInv, NEW r \in Reqs, Commits(r) PROVE IInv'
<1>1. TypeOK'
  <2>1. req' \in [Reqs -> Work]
    BY LearnFields DEF Commits
  <2>2. DOMAIN db' = Rows /\ lock' \in [Rows -> Reqs \cup {NoReq}]
    BY DEF Commits, Stored, Free, IInv, TypeOK
  <2>3. \A x \in Rows : db'[x] \in {db[x], cur[x]}
    BY CommitRows
  <2>4. RowsOK(db) /\ RowsOK(cur)
    BY DEF IInv, TypeOK
  <2>5. RowsOK(db')
    BY <2>3, <2>4, RowNames DEF RowsOK
  <2>6. RowsOK(db)' /\ RowsOK(cur)'
    BY <2>4, <2>5 DEF RowsOK, Commits
  <2> QED
    BY <2>1, <2>2, <2>6 DEF IInv, TypeOK, Commits
<1>2. LocalPart'
  <2> SUFFICES ASSUME NEW s \in Reqs PROVE Local(req'[s])
    BY DEF LocalPart
  <2>1. CASE s = r
    BY <2>1, LearnFields, NoWorkType DEF Commits
  <2>2. CASE s # r
    <3>1. Local(req[s])
      BY DEF IInv, LocalPart
    <3>2. /\ req'[s].at = req[s].at /\ req'[s].op = req[s].op /\ req'[s].g = req[s].g
          /\ req'[s].stake = req[s].stake /\ req'[s].l = req[s].l /\ req'[s].v = req[s].v
          /\ req'[s].copy = req[s].copy
      BY <2>2, LearnFields DEF Commits
    <3> QED
      BY <3>1, <3>2 DEF Local
  <2> QED
    BY <2>1, <2>2
<1>3. FactsPart'
  <2> SUFFICES ASSUME NEW s \in Reqs PROVE Facts(s)'
    BY DEF FactsPart
  <2>1. CASE s = r
    <3>1. req'[r] = NoWork
      BY LearnFields DEF Commits
    <3> QED
      BY <2>1, <3>1 DEF Facts, NoWork
  <2> QED
    BY <2>1, CommitFacts
<1>4. OwnPart'
  BY CommitOwned DEF OwnPart
<1> QED
  BY <1>1, <1>2, <1>3, <1>4, CommitRowsPart DEF IInv

LEMMA FinishInv == ASSUME IInv, NEW r \in Reqs, Finish(r) PROVE IInv'
<1>1. CASE req[r].status < 400
  <2>1. acts' = acts \cup ({req[r].act} \cap ActionTypes)
    BY <1>1 DEF Finish
  <2>2. acts' \subseteq ActionTypes
    BY <2>1 DEF IInv, TypeOK
  <2>3. Commits(r)
    BY <1>1, <2>2 DEF Finish, Commits
  <2> QED
    BY <2>3, CommitInv
<1>2. CASE ~ (req[r].status < 400)
  BY <1>2, EndInv DEF Finish
<1> QED
  BY <1>1, <1>2



(***************************************************************************)
(* The rest of the system, and where it starts                             *)
(***************************************************************************)

\* A redeemed voucher is covered.
LEMMA RedeemedFields ==
  ASSUME NEW v \in VoucherRow, NEW m \in Modes, v.net = 0, v.cap > 0 => v.cap >= Amount
  PROVE  Redeemed(v, m) \in VoucherRow /\ Redeemed(v, m).st = "redeemed" /\ Covered(Redeemed(v, m))
<1>1. CASE m = "pure_rng"
  <2> DEFINE a == [v EXCEPT !.st = "redeemed"]
             b == [a EXCEPT !.cap = 0]
             c == [b EXCEPT !.tracked = 0]
  <2>1. Redeemed(v, m) = c
    BY <1>1 DEF Redeemed
  <2>2. a \in VoucherRow /\ a.st = "redeemed" /\ a.net = 0
    BY DEF VoucherRow
  <2> HIDE DEF a
  <2>3. b \in VoucherRow /\ b.st = "redeemed" /\ b.net = 0
    BY <2>2 DEF VoucherRow
  <2> HIDE DEF b
  <2>4. c \in VoucherRow /\ c.st = "redeemed" /\ c.net = 0 /\ c.tracked = 0
    BY <2>3 DEF VoucherRow
  <2> HIDE DEF c
  <2> QED
    BY <2>1, <2>4 DEF Covered
<1>2. CASE m # "pure_rng"
  <2> DEFINE cap == MaxCashout(v, Amount + Bonus)
  <2>1. cap \in Nat /\ cap >= Amount
    <3>1. v.cap \in Nat
      BY DEF VoucherRow
    <3> QED
      BY <3>1, AmountAssumption DEF MaxCashout, Money
  <2> HIDE DEF cap
  <2> DEFINE a == [v EXCEPT !.st = "redeemed"]
             b == [a EXCEPT !.cap = cap]
             c == [b EXCEPT !.tracked = Amount]
             d == [c EXCEPT !.net = Amount]
  <2>2. Redeemed(v, m) = d
    BY <1>2 DEF Redeemed, cap
  <2>3. a \in VoucherRow /\ a.st = "redeemed"
    BY DEF VoucherRow
  <2> HIDE DEF a
  <2>4. b \in VoucherRow /\ b.st = "redeemed" /\ b.cap = cap
    BY <2>1, <2>3 DEF VoucherRow
  <2> HIDE DEF b
  <2>5. c \in VoucherRow /\ c.st = "redeemed" /\ c.cap = cap /\ c.tracked = Amount
    BY <2>4, AmountAssumption DEF VoucherRow
  <2> HIDE DEF c
  <2>6. d \in VoucherRow /\ d.st = "redeemed" /\ d.cap = cap /\ d.tracked = Amount /\ d.net = Amount
    BY <2>5, AmountAssumption DEF VoucherRow
  <2> HIDE DEF d
  <2> QED
    BY <2>1, <2>2, <2>6, AmountAssumption DEF Covered
<1> QED
  BY <1>1, <1>2

\* A request that has found a new voucher remembers the row as it is committed.
LEMMA FoundFields ==
  ASSUME IInv, NEW r \in Reqs, req[r].at = "voucher", req[r].op \in {"redeem", "login"}, NEW v \in Redeemable
  PROVE  \E w \in Work :
           /\ Found(r, v) = [req EXCEPT ![r] = w] /\ Local(w)
           /\ w.at = "balance" /\ w.op = req[r].op /\ w.g = req[r].g /\ w.known = req[r].known
           /\ w.seen = req[r].seen /\ w.v = v
<1> DEFINE w == [req[r] EXCEPT !.at = "balance", !.v = v, !.copy = db[v]]
<1>1. v \in Vouchers /\ db[v].st = "active" /\ db[v] \in VoucherRow /\ req[r] \in Work /\ req \in [Reqs -> Work]
  BY DEF Redeemable, IInv, TypeOK, RowsOK
<1>2. db[v].net = 0 /\ (db[v].cap > 0 => db[v].cap >= Amount)
  BY <1>1 DEF IInv, RowsPart
<1>3. Found(r, v) = [req EXCEPT ![r] = w]
  BY <1>1, Zenon DEF Found
<1>4. /\ w \in Work /\ w.at = "balance" /\ w.op = req[r].op /\ w.g = req[r].g /\ w.stake = req[r].stake
      /\ w.seen = req[r].seen /\ w.known = req[r].known /\ w.v = v /\ w.copy = db[v]
  <2> DEFINE u == req[r]
             c == db[v]
  <2>1. u \in Work /\ v \in Vouchers /\ c \in VoucherRow
    BY <1>1
  <2> HIDE DEF u, c
  <2> DEFINE a == [u EXCEPT !.at = "balance"]
             b == [a EXCEPT !.v = v]
             d == [b EXCEPT !.copy = c]
  <2>2. w = [u EXCEPT !.at = "balance", !.v = v, !.copy = c]
    BY ONLY Zenon DEF u, c, w
  <2>3. [u EXCEPT !.at = "balance", !.v = v, !.copy = c] = d
    OBVIOUS
  <2>4. "balance" \in Places
    BY DEF Places
  <2>5. /\ a \in Work /\ a.at = "balance" /\ a.op = u.op /\ a.g = u.g /\ a.stake = u.stake
        /\ a.seen = u.seen /\ a.known = u.known
    BY <2>1, <2>4 DEF Work
  <2> HIDE DEF a
  <2>6. /\ b \in Work /\ b.at = "balance" /\ b.op = u.op /\ b.g = u.g /\ b.stake = u.stake
        /\ b.seen = u.seen /\ b.known = u.known /\ b.v = v
    BY <2>1, <2>5 DEF Work
  <2> HIDE DEF b
  <2>7. /\ d \in Work /\ d.at = "balance" /\ d.op = u.op /\ d.g = u.g /\ d.stake = u.stake
        /\ d.seen = u.seen /\ d.known = u.known /\ d.v = v /\ d.copy = c
    BY <2>1, <2>6 DEF Work
  <2> HIDE DEF d, w
  <2>8. w = d
    BY <2>2, <2>3
  <2> QED
    BY ONLY <2>7, <2>8 DEF u, c
<1> HIDE DEF w
<1>5. Local(w)
  <2>1. w.at = "balance" /\ w.op \in {"redeem", "login"} /\ w.v \in Vouchers
    BY <1>1, <1>4
  <2>2. w.copy.net = 0 /\ (w.copy.cap > 0 => w.copy.cap >= Amount)
    BY <1>2, <1>4
  <2> QED
    BY ONLY <2>1, <2>2 DEF Local
<1> QED
  BY <1>3, <1>4, <1>5

LEMMA LockNewVoucherInv == ASSUME IInv, NEW r \in Reqs, LockNewVoucher(r) PROVE IInv'
<1>0. req[r].at = "voucher" /\ req[r].op = "redeem" /\ Facts(r)
  BY Zenon DEF LockNewVoucher, At, IInv, FactsPart
<1>1. CASE req' = Answer(r, 404) /\ UNCHANGED Kept
  BY <1>0, <1>1, AnswerInv
<1>2. ASSUME NEW v \in Redeemable, Take(r, {v}, <<>>), req' = Found(r, v)
      PROVE  IInv'
  <2>1. v \in Vouchers /\ db[v].st = "active" /\ v \in Rows
    BY RowNames DEF Redeemable
  <2>2. PICK w \in Work : /\ req' = [req EXCEPT ![r] = w] /\ Local(w)
                          /\ w.at = "balance" /\ w.op = req[r].op /\ w.g = req[r].g /\ w.known = req[r].known
                          /\ w.seen = req[r].seen /\ w.v = v
    BY <1>0, <1>2, FoundFields
  <2>3. db' = db /\ lock'[v] = r /\ req'[r] = w
    BY <1>2, <2>1, <2>2 DEF Take, IInv, TypeOK
  <2>4. Facts(r)'
    <3>1. LimitsNow' = LimitsNow
      BY <2>3 DEF LimitsNow
    <3> QED
      BY <1>0, <2>1, <2>2, <2>3, <3>1 DEF Facts
  <2> QED
    BY <1>0, <1>2, <2>1, <2>2, <2>4, TakeInv
<1> QED
  BY <1>1, <1>2, Zenon DEF LockNewVoucher

LEMMA FindNewVoucherInv == ASSUME IInv, NEW r \in Reqs, FindNewVoucher(r) PROVE IInv'
<1>0. req[r].at = "voucher" /\ req[r].op = "login" /\ Facts(r) /\ Kept' = Kept
  BY Zenon DEF FindNewVoucher, At, IInv, FactsPart, Kept
<1>1. CASE req' = Answer(r, 404)
  BY <1>0, <1>1, AnswerInv
<1>2. ASSUME NEW v \in Redeemable, req' = Found(r, v)
      PROVE  IInv'
  <2>1. PICK w \in Work : /\ req' = [req EXCEPT ![r] = w] /\ Local(w)
                          /\ w.at = "balance" /\ w.op = req[r].op /\ w.g = req[r].g /\ w.known = req[r].known
                          /\ w.seen = req[r].seen /\ w.v = v
    BY <1>0, <1>2, FoundFields
  <2>2. Onward(r, w)
    BY <1>0, <2>1 DEF Onward, Facts
  <2> QED
    BY <1>0, <2>1, <2>2, MoveInv, Zenon
<1> QED
  BY <1>1, <1>2, Zenon DEF FindNewVoucher

LEMMA ReadBalanceInv == ASSUME IInv, NEW r \in Reqs, ReadBalance(r) PROVE IInv'
<1>0. req[r].at = "balance" /\ Kept' = Kept /\ Local(req[r]) /\ Facts(r) /\ req[r] \in Work
  <2>1. req[r].at = "balance" /\ Kept' = Kept
    BY Zenon DEF ReadBalance, At, Kept
  <2> QED
    BY <2>1 DEF IInv, LocalPart, FactsPart, TypeOK
<1>1. PICK m \in ModesOf(req[r].op) :
         req' = [req EXCEPT ![r] = [WithWallet(@) EXCEPT !.at = "save", !.copy = Redeemed(req[r].copy, m)]]
  BY Zenon DEF ReadBalance
<1> DEFINE u == WithWallet(req[r])
           x == [u EXCEPT !.at = "save"]
           c == Redeemed(req[r].copy, m)
           w == [x EXCEPT !.copy = c]
<1>2. db[Wallet].bal \in Nat /\ db[Wallet].v \in Vouchers \cup {Nothing} /\ Linked(db[Wallet])
  BY DEF IInv, TypeOK, RowsOK, RowsPart
<1>3. /\ u \in Work /\ u.at = req[r].at /\ u.op = req[r].op /\ u.g = req[r].g /\ u.stake = req[r].stake
      /\ u.known = req[r].known /\ u.v = req[r].v /\ u.copy = req[r].copy /\ u.seen = db[Wallet].v
  BY <1>0, <1>2, WalletFields
<1>4. req' = [req EXCEPT ![r] = w]
  <2>1. req' = [req EXCEPT ![r] = [u EXCEPT !.at = "save", !.copy = c]]
    BY <1>1, Zenon DEF IInv, TypeOK
  <2>2. [u EXCEPT !.at = "save", !.copy = c] = w
    <3> HIDE DEF u, c
    <3> QED
      OBVIOUS
  <2> HIDE DEF u, w, c
  <2> QED
    BY <2>1, <2>2
<1>5. c \in VoucherRow /\ c.st = "redeemed" /\ Covered(c)
  <2>1. req[r].copy \in VoucherRow /\ req[r].copy.net = 0 /\ (req[r].copy.cap > 0 => req[r].copy.cap >= Amount)
    BY <1>0 DEF Local, Work
  <2>2. m \in Modes
    BY DEF ModesOf, Modes, IInv, TypeOK
  <2> QED
    BY <2>1, <2>2, RedeemedFields
<1> HIDE DEF u, c
<1>6. /\ x \in Work /\ x.at = "save" /\ x.op = u.op /\ x.g = u.g /\ x.stake = u.stake
      /\ x.known = u.known /\ x.seen = u.seen /\ x.v = u.v
  <2>1. "save" \in Places
    BY DEF Places
  <2> QED
    BY <1>3, <2>1, Moved
<1> HIDE DEF x
<1>7. /\ w \in Work /\ w.at = "save" /\ w.op = x.op /\ w.g = x.g /\ w.stake = x.stake
      /\ w.known = x.known /\ w.seen = x.seen /\ w.v = x.v /\ w.copy = c
  BY <1>5, <1>6 DEF Work
<1> HIDE DEF w
<1>8. Local(w)
  BY <1>0, <1>3, <1>5, <1>6, <1>7 DEF Local
<1>9. Onward(r, w)
  BY <1>0, <1>2, <1>3, <1>6, <1>7, <1>8 DEF Onward, Facts, Linked
<1> QED
  BY <1>0, <1>4, <1>7, <1>9, MoveInv, Zenon

\* The copy that is saved, whatever has become of the row.
LEMMA SavedFields ==
  ASSUME NEW v \in VoucherRow, NEW copy \in VoucherRow, copy.st = "redeemed", Covered(copy)
  PROVE  LET n == SavedOver(v, copy) IN
         n \in VoucherRow /\ n.st = "redeemed" /\ (n.clean => v.st = "active" /\ Covered(n))
<1> DEFINE m == [copy EXCEPT !.clean = (v.st = "active")]
<1>1. \A b \in BOOLEAN : LET k == [copy EXCEPT !.clean = b] IN
        /\ k \in VoucherRow /\ k.st = "redeemed" /\ k.clean = b
        /\ k.tracked = copy.tracked /\ k.net = copy.net /\ k.cap = copy.cap
  BY DEF VoucherRow
<1>2. /\ m \in VoucherRow /\ m.st = "redeemed" /\ m.clean = (v.st = "active")
      /\ m.tracked = copy.tracked /\ m.net = copy.net /\ m.cap = copy.cap
  <2>1. (v.st = "active") \in BOOLEAN
    OBVIOUS
  <2> QED
    BY <1>1, <2>1
<1> HIDE DEF m
<1>3. Covered(m)
  BY <1>2 DEF Covered
<1>4. /\ Tidy(m) \in VoucherRow /\ Tidy(m).st = m.st /\ Tidy(m).clean = m.clean
      /\ m.clean => Tidy(m) = m
  BY <1>2, TidyFields, Zenon
<1>5. SavedOver(v, copy) = Tidy(m)
  BY DEF SavedOver, m
<1>6. Tidy(m).clean => v.st = "active" /\ Covered(Tidy(m))
  BY <1>2, <1>3, <1>4, Zenon
<1> QED
  BY <1>2, <1>4, <1>5, <1>6, Zenon

LEMMA SaveRedemptionInv == ASSUME IInv, NEW r \in Reqs, SaveRedemption(r) PROVE IInv'
<1>0. req[r].at = "save" /\ Local(req[r]) /\ Facts(r) /\ req[r] \in Work /\ req' = Answer(r, 200)
  <2>1. req[r].at = "save" /\ req' = Answer(r, 200)
    BY Zenon DEF SaveRedemption, At
  <2> QED
    BY <2>1 DEF IInv, LocalPart, FactsPart, TypeOK
<1>v. PICK v \in Vouchers : v = req[r].v
  BY <1>0 DEF Local
<1> DEFINE n == SavedOver(cur[v], req[r].copy)
           b == [bal |-> req[r].bal + Amount, v |-> IF req[r].seen = v THEN cur[Wallet].v ELSE v]
           X == {v, Wallet}
<1>1. /\ v \in Vouchers /\ req[r].op \in {"redeem", "login"} /\ req[r].copy \in VoucherRow
      /\ req[r].copy.st = "redeemed" /\ Covered(req[r].copy)
  BY <1>0, <1>v DEF Local, Work
<1>2. Take(r, X, [x \in X |-> IF x = v THEN n ELSE b])
  BY <1>0, <1>v, Zenon DEF SaveRedemption
<1>3. cur[v] = db[v] /\ cur[Wallet] = db[Wallet] /\ cur[v] \in VoucherRow
  <2>1. lock[v] \in {r, NoReq} /\ lock[Wallet] \in {r, NoReq}
    BY <1>2 DEF Take
  <2>2. req[r].at # "respond"
    BY <1>0
  <2>3. cur[v] = db[v] /\ cur[Wallet] = db[Wallet]
    BY <1>1, <2>1, <2>2, FreeRow, RowNames
  <2> QED
    BY <1>1, <2>3 DEF IInv, TypeOK, RowsOK
<1>4. n \in VoucherRow /\ n.st = "redeemed" /\ (n.clean => cur[v].st = "active" /\ Covered(n))
  <2> QED
    BY <1>1, <1>3, SavedFields
<1>5. b \in [bal : Nat, v : Vouchers \cup {Nothing}] /\ (b.v = v \/ b.v = db[Wallet].v)
  <2>1. cur[Wallet].v \in Vouchers \cup {Nothing} /\ req[r].bal + Amount \in Nat
    BY <1>0, AmountAssumption DEF IInv, TypeOK, RowsOK, Work
  <2> QED
    BY <1>1, <1>3, <2>1
<1> HIDE DEF n, b
<1>6. /\ v \in X /\ Wallet \in X /\ X \in SUBSET Rows
      /\ Vouchers \cap X = {v} /\ Rounds \cap X = {} /\ Limits \cap X = {}
  BY <1>1, RowNames
<1> HIDE DEF X
<1>7. cur' = [x \in Rows |-> IF x \in X THEN (IF x = v THEN n ELSE b) ELSE cur[x]] /\ db' = db
  BY <1>2 DEF Take
<1>8. cur'[v] = n /\ cur'[Wallet] = b /\ \A x \in Rows : x \notin X => cur'[x] = cur[x]
  BY <1>1, <1>6, <1>7, RowNames
<1>9. RowsOK(cur')
  <2>1. RowsOK(cur)
    BY DEF IInv, TypeOK
  <2>2. Session \notin X
    BY <1>1, RowNames DEF X
  <2>3. cur'[Session] = cur[Session]
    BY <1>8, <2>2, RowNames
  <2>4. /\ \A x \in Vouchers : x # v => cur'[x] = cur[x]
        /\ \A x \in Rounds : cur'[x] = cur[x]
        /\ \A x \in Limits : cur'[x] = cur[x]
    BY <1>6, <1>8, RowNames
  <2> QED
    BY <1>4, <1>5, <1>8, <2>1, <2>3, <2>4 DEF RowsOK
<1>10. Takes(r, X)
  <2>1. DOMAIN cur' = Rows
    BY <1>7
  <2>2. /\ \A x \in X : lock[x] \in {r, NoReq}
        /\ lock' = [x \in Rows |-> IF x \in X THEN r ELSE lock[x]]
        /\ db' = db /\ mode' = mode /\ ledger' = ledger /\ acts' = acts /\ menu' = menu
    BY <1>2 DEF Take
  <2> QED
    BY <1>8, <1>9, <2>1, <2>2 DEF Takes
<1>11. lock'[v] = r
  BY <1>6, <1>10 DEF Takes
<1>12. GoodAt(Stored(r), v)'
  <2>1. Stored(r)'[v] = n
    BY <1>6, <1>8, <1>11 DEF Stored
  <2>2. \A h \in Rounds : Stored(r)'[h] = db[h]
    <3> SUFFICES ASSUME NEW h \in Rounds PROVE lock'[h] # r
      BY <1>7, RowNames DEF Stored
    <3>1. h \notin X /\ (lock[h] = r => Owned(r, h))
      BY <1>6, RowNames DEF IInv, OwnPart
    <3>2. lock[h] # r
      BY <1>0, <1>1, <1>v, <3>1, RowNames DEF Owned
    <3> QED
      BY <1>10, <3>1, <3>2, RowNames DEF Takes
  <2>3. n.clean => \A h \in Rounds : ~ Waits(db, h, v)
    BY <1>1, <1>3, <1>4 DEF IInv, RowsPart, Waits
  <2>4. GoodAt(Stored(r)', v)
    BY <1>4, <2>1, <2>2, <2>3 DEF GoodAt, Waits
  <2> QED
    BY <2>4 DEF GoodAt, Waits
<1>13. VoucherMoves(db[v], cur'[v]) \/ (req[r].op = "login" /\ db[v].st = "redeemed")
  <2>1. CASE db[v].st = "redeemed"
    <3>1. req[r].op = "redeem" => db[v].st = "active"
      BY <1>0, <1>v DEF Facts
    <3> QED
      BY <1>1, <2>1, <3>1
  <2>2. CASE db[v].st # "redeemed"
    <3>1. ~ db[v].decay
      BY <1>1, <2>2 DEF IInv, RowsPart
    <3> QED
      BY <2>2, <3>1 DEF VoucherMoves
  <2> QED
    BY <2>1, <2>2
<1>14. LinkedBy(r)'
  <2>1. Linked(db[Wallet])
    BY DEF IInv, RowsPart
  <2> QED
    BY <1>4, <1>5, <1>7, <1>8, <1>11, <2>1 DEF LinkedBy, Linked
<1>15. \A u \in Vouchers \cap X :
         /\ cur'[u].st = "redeemed" /\ GoodAt(Stored(r), u)'
         /\ VoucherMoves(db[u], cur'[u]) \/ (req[r].op = "login" /\ db[u].st = "redeemed")
  <2>1. cur'[v].st = "redeemed"
    BY <1>4, <1>8
  <2>2. \A u \in Vouchers \cap X : u = v
    BY <1>6
  <2> QED
    BY <1>12, <1>13, <2>1, <2>2, Zenon
<1> QED
  BY <1>0, <1>v, <1>6, <1>10, <1>14, <1>15, WriteInv


\* What changes neither the rows nor what a request has read of them.
LEMMA AsideInv ==
  ASSUME IInv, db' = db, cur' = cur, lock' = lock, req' = req, mode' \in Modes, ledger' = ledger,
         acts' \subseteq acts, menu' \in SUBSET (Ops \cup Others)
  PROVE  IInv'
<1>1. TypeOK'
  <2>1. RowsOK(db)' /\ RowsOK(cur)'
    BY DEF IInv, TypeOK, RowsOK
  <2>2. acts' \subseteq ActionTypes
    BY DEF IInv, TypeOK
  <2> QED
    BY <2>1, <2>2 DEF IInv, TypeOK
<1>2. LocalPart'
  BY DEF IInv, LocalPart
<1>3. FactsPart'
  <2> SUFFICES ASSUME NEW s \in Reqs PROVE Facts(s)'
    BY DEF FactsPart
  <2>1. Facts(s)
    BY DEF IInv, FactsPart
  <2>2. LimitsNow' = LimitsNow
    BY DEF LimitsNow
  <2> QED
    BY <2>1, <2>2 DEF Facts
<1>4. OwnPart'
  <2> SUFFICES ASSUME NEW s \in Reqs, NEW x \in Rows, lock[x] = s PROVE Owned(s, x)'
    BY DEF OwnPart
  <2>1. Owned(s, x) /\ cur[Wallet].v \in Vouchers \cup {Nothing}
    BY DEF IInv, OwnPart, TypeOK, RowsOK
  <2> QED
    BY <2>1, OtherOwns
<1>5. RowsPart'
  BY DEF IInv, RowsPart, Linked, GoodAt, Waits
<1> QED
  BY <1>1, <1>2, <1>3, <1>4, <1>5 DEF IInv

LEMMA SwitchModeInv == ASSUME IInv, SwitchMode PROVE IInv'
<1>1. mode' \in Modes /\ UNCHANGED <<db, cur, lock, ledger, acts, req>>
  BY DEF SwitchMode
<1>2. menu' \in SUBSET (Ops \cup Others)
  BY DEF SwitchMode, IInv, TypeOK
<1> QED
  BY <1>1, <1>2, AsideInv

LEMMA PassInv == ASSUME IInv, NEW a \in ActionTypes, Pass(a) PROVE IInv'
<1>1. UNCHANGED <<db, cur, lock, mode, ledger, req, menu>> /\ acts' = acts \ {a}
  BY DEF Pass
<1>2. mode' \in Modes /\ menu' \in SUBSET (Ops \cup Others)
  BY <1>1 DEF IInv, TypeOK
<1> QED
  BY <1>1, <1>2, AsideInv

LEMMA IssuedFields ==
  ASSUME NEW m \in Modes, NEW cap \in Nat
  PROVE  LET n == Issued(m, cap) IN
         n \in VoucherRow /\ n.st = "active" /\ n.net = 0 /\ n.cap \in {0, cap} /\ ~ n.decay
<1>1. NoVoucher \in VoucherRow /\ NoVoucher.net = 0 /\ ~ NoVoucher.decay
  BY DEF NoVoucher, VoucherRow
<1>2. PICK c \in {0, cap}, t \in {0, Amount} : Issued(m, cap) = [NoVoucher EXCEPT !.st = "active", !.cap = c, !.tracked = t]
  BY DEF Issued
<1> DEFINE a == [NoVoucher EXCEPT !.st = "active"]
           b == [a EXCEPT !.cap = c]
           d == [b EXCEPT !.tracked = t]
<1>3. Issued(m, cap) = d
  BY <1>2
<1>4. a \in VoucherRow /\ a.st = "active" /\ a.net = 0 /\ ~ a.decay
  BY <1>1 DEF VoucherRow
<1> HIDE DEF a
<1>5. b \in VoucherRow /\ b.st = "active" /\ b.net = 0 /\ b.cap = c /\ ~ b.decay
  BY <1>4 DEF VoucherRow
<1> HIDE DEF b
<1>6. d \in VoucherRow /\ d.st = "active" /\ d.net = 0 /\ d.cap = c /\ ~ d.decay
  BY <1>5, AmountAssumption DEF VoucherRow
<1> HIDE DEF d
<1> QED
  BY <1>3, <1>6

LEMMA InitInv == ASSUME Init PROVE IInv
<1>1. PICK s \in Starts, cap \in Caps :
       /\ mode = s.mode /\ menu = s.menu /\ ledger = s.ledger
       /\ db = [x \in Rows |->
                  IF x = First THEN (IF s.legacy THEN [NoVoucher EXCEPT !.st = "redeemed"]
                                               ELSE Redeemed(Issued(s.mode, cap), s.mode))
                  ELSE IF x \in Vouchers THEN Issued(s.mode, cap)
                  ELSE IF x \in Rounds THEN NoRound
                  ELSE IF x = Wallet THEN [bal |-> 2 * Amount, v |-> IF s.linked THEN First ELSE Nothing]
                  ELSE 0]
  BY Zenon DEF Init
<1>2. /\ cur = db /\ lock = [x \in Rows |-> NoReq] /\ acts = {} /\ req = [r \in Reqs |-> NoWork]
  BY DEF Init
<1>3. /\ mode \in Modes /\ menu \in SUBSET (Ops \cup Others) /\ ledger \in [loss : Nat, spins : BOOLEAN]
      /\ s.mode \in Modes
  BY <1>1, StartsAssumption
<1>4. cap \in Nat /\ cap >= Amount
  BY CapsCover, AmountAssumption
<1> DEFINE i == Issued(s.mode, cap)
           e == [NoVoucher EXCEPT !.st = "redeemed"]
           f == Redeemed(i, s.mode)
           w == [bal |-> 2 * Amount, v |-> IF s.linked THEN First ELSE Nothing]
<1>5. i \in VoucherRow /\ i.st = "active" /\ i.net = 0 /\ i.cap \in {0, cap} /\ ~ i.decay
  BY <1>3, <1>4, IssuedFields
<1>6. e \in VoucherRow /\ e.st = "redeemed" /\ Covered(e)
  <2>1. NoVoucher \in VoucherRow /\ NoVoucher.tracked < 0
    BY DEF NoVoucher, VoucherRow
  <2>2. e \in VoucherRow /\ e.st = "redeemed" /\ e.tracked < 0
    BY <2>1 DEF VoucherRow
  <2> HIDE DEF e
  <2>3. ~ (e.tracked >= 0)
    BY <2>2 DEF VoucherRow
  <2> QED
    BY <2>2, <2>3 DEF Covered
<1>7. f \in VoucherRow /\ f.st = "redeemed" /\ Covered(f)
  <2>1. i.net = 0 /\ (i.cap > 0 => i.cap >= Amount)
    BY <1>4, <1>5
  <2> HIDE DEF i
  <2> QED
    BY <1>3, <1>5, <2>1, RedeemedFields
<1>8. w \in [bal : Nat, v : Vouchers \cup {Nothing}] /\ w.v \in {First, Nothing}
  BY NamesAssumption, AmountAssumption
<1>9. NoRound \in RoundRow /\ NoRound.st = "none"
  BY DEF NoRound, RoundRow
<1>10. /\ db[First] \in {e, f} /\ db[Wallet] = w /\ db[Session] = 0 /\ DOMAIN db = Rows
       /\ \A v \in Vouchers : v # First => db[v] = i
       /\ \A g \in Rounds : db[g] = NoRound
       /\ \A l \in Limits : db[l] = 0
  <2>1. First \in Vouchers
    BY NamesAssumption
  <2>2. \A x \in Rows : db[x] =
                  IF x = First THEN (IF s.legacy THEN e ELSE f)
                  ELSE IF x \in Vouchers THEN i
                  ELSE IF x \in Rounds THEN NoRound
                  ELSE IF x = Wallet THEN w
                  ELSE 0
    BY <1>1
  <2> HIDE DEF e, f, i, w
  <2>3. DOMAIN db = Rows
    BY <1>1
  <2> QED
    BY <2>1, <2>2, <2>3, RowNames
<1> HIDE DEF i, e, f, w
<1>11. First \in Vouchers /\ db[First] \in VoucherRow /\ db[First].st = "redeemed" /\ Covered(db[First])
  BY <1>6, <1>7, <1>10, NamesAssumption
<1>12. RowsOK(db)
  BY <1>5, <1>8, <1>9, <1>10, <1>11 DEF RowsOK
<1>13. TypeOK
  BY <1>2, <1>3, <1>10, <1>12, NoWorkType DEF TypeOK
<1>14. LocalPart
  BY <1>2, NoWorkType DEF LocalPart
<1>15. FactsPart
  BY <1>2 DEF FactsPart, Facts, NoWork
<1>16. OwnPart
  BY <1>2, NamesAssumption DEF OwnPart
<1>17. RowsPart
  <2>2. Linked(db[Wallet])
    BY <1>8, <1>10, <1>11 DEF Linked
  <2>3. \A v \in Vouchers :
          db[v].st # "redeemed" => db[v].net = 0 /\ ~ db[v].decay /\ (db[v].cap > 0 => db[v].cap >= Amount)
    BY <1>4, <1>5, <1>10, <1>11
  <2>4. \A g \in Rounds : db[g].st # "pending"
    BY <1>9, <1>10
  <2>5. \A v \in Vouchers : GoodAt(db, v)
    <3>1. Covered(i)
      BY <1>5, AmountAssumption DEF Covered, i, Issued, NoVoucher, VoucherRow
    <3> QED
      BY <1>10, <1>11, <2>4, <3>1 DEF GoodAt, Waits
  <2> QED
    BY <1>2, <1>10, <2>2, <2>3, <2>4, <2>5 DEF RowsPart
<1> QED
  BY <1>13, <1>14, <1>15, <1>16, <1>17 DEF IInv



(***************************************************************************)
(* The theorems                                                            *)
(***************************************************************************)

LEMMA HandlerInv == ASSUME IInv, NEW r \in Reqs, Begin(r) \/ HandlerStep(r) \/ Close(r) PROVE IInv'
<1>1. CASE Begin(r)
  BY <1>1, BeginInv
<1>2. CASE ReadRound(r)
  BY <1>2, ReadRoundInv
<1>3. CASE ResolveSession(r)
  BY <1>3, ResolveSessionInv
<1>4. CASE EnforceLimit(r)
  BY <1>4, EnforceLimitInv
<1>5. CASE ReadWallet(r)
  BY <1>5, ReadWalletInv
<1>6. CASE PlaceBet(r)
  BY <1>6, PlaceBetInv
<1>7. CASE Settle(r)
  BY <1>7, SettleInv
<1>8. CASE LinkWallet(r)
  BY <1>8, LinkWalletInv
<1>9. CASE FindLimit(r)
  BY <1>9, FindLimitInv
<1>10. CASE InsertLimit(r)
  BY <1>10, InsertLimitInv
<1>11. CASE LowerLimit(r)
  BY <1>11, LowerLimitInv
<1>12. CASE ComputeRisk(r)
  BY <1>12, ComputeRiskInv
<1>13. CASE IssueAction(r)
  BY <1>13, IssueActionInv
<1>14. CASE Finish(r)
  BY <1>14, FinishInv
<1>15. CASE Close(r)
  BY <1>15, CloseInv
<1>16. CASE LockNewVoucher(r)
  BY <1>16, LockNewVoucherInv
<1>17. CASE FindNewVoucher(r)
  BY <1>17, FindNewVoucherInv
<1>18. CASE ReadBalance(r)
  BY <1>18, ReadBalanceInv
<1>19. CASE SaveRedemption(r)
  BY <1>19, SaveRedemptionInv
<1> QED
  BY <1>1, <1>2, <1>3, <1>4, <1>5, <1>6, <1>7, <1>8, <1>9, <1>10, <1>11, <1>12, <1>13, <1>14, <1>15,
     <1>16, <1>17, <1>18, <1>19 DEF HandlerStep

LEMMA NextInv == ASSUME IInv, [Next]_vars PROVE IInv'
<1>1. CASE \E r \in Reqs : Begin(r) \/ HandlerStep(r) \/ Close(r)
  BY <1>1, HandlerInv
<1>3. CASE SwitchMode
  BY <1>3, SwitchModeInv
<1>4. CASE \E a \in ActionTypes : Pass(a)
  BY <1>4, PassInv
<1>5. CASE UNCHANGED vars
  <2>1. UNCHANGED <<db, cur, lock, mode, ledger, acts, req, menu>>
    BY <1>5 DEF vars
  <2>2. mode \in Modes /\ menu \in SUBSET (Ops \cup Others)
    BY DEF IInv, TypeOK
  <2> QED
    BY <2>1, <2>2, AsideInv
<1> QED
  BY <1>1, <1>3, <1>4, <1>5 DEF Next

\* The inductive invariant holds in every state.
THEOREM Invariant == Spec => []IInv
<1>1. Init => IInv
  BY InitInv
<1>2. IInv /\ [Next]_vars => IInv'
  BY NextInv
<1> QED
  BY <1>1, <1>2, PTL DEF Spec

\* Every row, lock and request keeps its type: no balance, cap or tracked balance falls
\* below zero (the rows voucherOutcomeService.js and games.js write).
THEOREM TypeCorrect == Spec => []TypeOK
<1>1. IInv => TypeOK
  BY DEF IInv
<1> QED
  BY <1>1, Invariant, PTL

\* A player who plays a voucher one round at a time, with metadata that leaves the
\* round's fields alone (games.js:316), never has more of it than its cap
\* (voucherOutcomeService.js:184).
THEOREM NetStaysWithinCap == Spec => []NetWithinCap
<1>1. IInv => NetWithinCap
  BY DEF IInv, RowsPart, GoodAt, Covered, NetWithinCap
<1> QED
  BY <1>1, Invariant, PTL

\* A step that changes committed rows is a commit.
LEMMA WhoChangesRows ==
  ASSUME IInv, [Next]_vars
  PROVE  db' = db \/ \E r \in Reqs : Commits(r)
<1>1. ASSUME NEW r \in Reqs, Finish(r), req[r].status < 400
      PROVE  Commits(r)
  <2>1. acts' = acts \cup ({req[r].act} \cap ActionTypes)
    BY <1>1 DEF Finish
  <2>2. acts' \subseteq ActionTypes
    BY <2>1 DEF IInv, TypeOK
  <2> QED
    BY <1>1, <2>2 DEF Finish, Commits
<1>2. ASSUME NEW r \in Reqs, Begin(r) \/ HandlerStep(r) \/ Close(r), ~ Finish(r)
      PROVE  db' = db
  <2>1. ASSUME Kept' = Kept PROVE db' = db
    BY <2>1 DEF Kept
  <2>2. ASSUME NEW X, NEW f, Take(r, X, f) PROVE db' = db
    BY <2>2 DEF Take
  <2>3. CASE \/ Begin(r) \/ EnforceLimit(r) \/ ReadWallet(r) \/ FindLimit(r) \/ ComputeRisk(r) \/ IssueAction(r)
             \/ FindNewVoucher(r) \/ ReadBalance(r)
    BY <2>1, <2>3, Zenon DEF Begin, EnforceLimit, ReadWallet, FindLimit, ComputeRisk, IssueAction,
                             FindNewVoucher, ReadBalance
  <2>4. CASE \/ ReadRound(r) \/ ResolveSession(r) \/ LinkWallet(r) \/ InsertLimit(r) \/ LowerLimit(r)
             \/ LockNewVoucher(r) \/ SaveRedemption(r)
    BY <2>1, <2>2, <2>4, Zenon DEF ReadRound, ResolveSession, LinkWallet, InsertLimit, LowerLimit,
                                   LockNewVoucher, SaveRedemption
  <2>5. CASE PlaceBet(r)
    BY <2>1, <2>2, <2>5, ZenonT(60) DEF PlaceBet
  <2>6. CASE Settle(r)
    BY <2>1, <2>2, <2>6, ZenonT(60) DEF Settle
  <2>7. CASE Close(r)
    BY <2>7 DEF Close
  <2> QED
    BY <1>2, <2>3, <2>4, <2>5, <2>6, <2>7 DEF HandlerStep
<1>3. ASSUME NEW r \in Reqs, Finish(r), ~ (req[r].status < 400)
      PROVE  db' = db
  BY <1>3 DEF Finish
<1>4. SwitchMode \/ (\E a \in ActionTypes : Pass(a)) \/ UNCHANGED vars => db' = db
  BY DEF SwitchMode, Pass, vars
<1> QED
  BY <1>1, <1>2, <1>3, <1>4 DEF Next

\* A voucher moves forward, unless a player's redemption that found it new overwrites it.
LEMMA RowsMove ==
  ASSUME IInv, [Next]_vars, NEW v \in Vouchers
  PROVE  VoucherMoves(db[v], db'[v]) \/ Overwritten(v)
<1>1. CASE db'[v] = db[v]
  BY <1>1 DEF IInv, TypeOK, RowsOK, VoucherRow, VoucherMoves
<1>2. ASSUME NEW r \in Reqs, Commits(r), db'[v] # db[v]
      PROVE  VoucherMoves(db[v], db'[v]) \/ Overwritten(v)
  <2>1. lock[v] = r /\ Made(r, v) /\ db'[v] = cur[v]
    BY <1>2, CommitRows
  <2> QED
    BY <2>1 DEF Made, Overwritten
<1> QED
  BY <1>1, <1>2, WhoChangesRows

\* However rounds overlap, a settlement that brings what is tracked to the cap puts the
\* voucher into decay (buildVoucherPolicyMetadata); what does not is the save of a player's
\* redemption that looked the voucher up while it was new.
THEOREM CapLeadsToDecay == Spec => CapMeansDecay
<1>1. IInv /\ [Next]_vars => [\A v \in Vouchers :
        db[v].tracked < db'[v].tracked /\ db[v].st = "redeemed" /\ db'[v].tracked >= db'[v].cap
          => db'[v].decay \/ Overwritten(v)]_vars
  BY RowsMove DEF VoucherMoves
<1> QED
  BY <1>1, Invariant, PTL DEF Spec, CapMeansDecay

\* A voucher leaves decay only where a player's redemption that looked it up while it was
\* new saves over it (playerRoutes.js:273, 493): no bet, settlement or mode switch ends
\* it, whatever they overlap with, and no redemption by a cashier, who locks the voucher.
THEOREM DecayIsForGood == Spec => DecayForGood
<1>1. IInv /\ [Next]_vars => [\A v \in Vouchers : db[v].decay => db'[v].decay \/ Overwritten(v)]_vars
  BY RowsMove DEF VoucherMoves
<1> QED
  BY <1>1, Invariant, PTL DEF Spec, DecayForGood

\* The cap of a redeemed voucher stays what it is (resolveVoucherMaxCashout), with the same
\* exception.
THEOREM CapStays == Spec => CapIsFixed
<1>1. IInv /\ [Next]_vars =>
        [\A v \in Vouchers :
           db[v].st = "redeemed" /\ db[v].cap > 0 => db'[v].cap = db[v].cap \/ Overwritten(v)]_vars
  BY RowsMove DEF VoucherMoves
<1> QED
  BY <1>1, Invariant, PTL DEF Spec, CapIsFixed

\* What a request commits of a row is what it has made of it.
LEMMA OwnerCommits ==
  ASSUME IInv, [Next]_vars, NEW r \in Reqs, NEW x \in Rounds \cup Limits, lock[x] = r, db'[x] # db[x]
  PROVE  Commits(r) /\ Owned(r, x) /\ db'[x] = cur[x]
<1>1. x \in Rows /\ x # Wallet /\ x \notin Vouchers
  BY RowNames
<1>3. PICK s \in Reqs : Commits(s)
  BY WhoChangesRows
<1>4. db'[x] = IF lock[x] = s THEN cur[x] ELSE db[x]
  BY <1>1, <1>3, CommitRows
<1>5. s = r
  BY <1>4
<1> QED
  BY <1>1, <1>3, <1>4, <1>5 DEF IInv, OwnPart

\* It takes two overlapping requests to raise a session's loss limit or to add a second
\* one (safety.js:35).
THEOREM LimitsFall == Spec => LimitsOnlyFall
<1>1. ASSUME IInv, [Next]_vars, NEW r \in Reqs, NEW l \in Limits, lock[l] = r, db'[l] # db[l]
      PROVE  IF db[l] = 0 THEN 0 \in req[r].known ELSE \E n \in req[r].known : db'[l] < n
  <2>1. Owned(r, l) /\ db'[l] = cur[l]
    BY <1>1, OwnerCommits
  <2> QED
    BY <1>1, <2>1, RowNames DEF Owned, LimitSet
<1>2. IInv /\ [Next]_vars => [\A r \in Reqs, l \in Limits :
        lock[l] = r /\ db'[l] # db[l] =>
          IF db[l] = 0 THEN 0 \in req[r].known ELSE \E n \in req[r].known : db'[l] < n]_vars
  BY <1>1
<1> QED
  BY <1>2, Invariant, PTL DEF Spec, LimitsOnlyFall

\* In decay a round played alone, with metadata that leaves its fields alone (games.js:316),
\* costs the player, when the policy has a least decay (computeVoucherDrivenPayout).
THEOREM DecayCosts == ASSUME MinDecay > 0 PROVE Spec => DecayPaysDown
<1>1. ASSUME IInv, [Next]_vars, NEW r \in Reqs, NEW g \in Rounds, NEW v \in Vouchers,
             SettlesBy(r, g, v), db[v].decay, db'[v].clean
      PROVE  db'[v].tracked < Or(db[g].before, db[g].stake)
  <2>1. lock[g] = r /\ lock[v] = r /\ db[g].st = "pending" /\ db'[g].st = "settled"
    BY <1>1 DEF SettlesBy
  <2>2. Commits(r) /\ Owned(r, g) /\ db'[g] = cur[g]
    BY <1>1, <2>1, OwnerCommits
  <2>3. db'[v] = cur[v]
    BY <1>1, <2>1, <2>2, CommitRows, RowNames
  <2>4. RoundSettled(r, g)
    BY <2>1, <2>2 DEF Owned, RoundBegun
  <2> QED
    BY <1>1, <2>1, <2>3, <2>4 DEF RoundSettled, PaysDown
<1>2. IInv /\ [Next]_vars => [\A r \in Reqs, g \in Rounds, v \in Vouchers :
        SettlesBy(r, g, v) /\ db[v].decay /\ db'[v].clean =>
          db'[v].tracked < Or(db[g].before, db[g].stake)]_vars
  BY <1>1
<1> QED
  BY <1>2, Invariant, PTL DEF Spec, DecayPaysDown
=============================================================================
