---------------------------- MODULE Jackpot_proofs ----------------------------
(***************************************************************************)
(* Theorems about Jackpot, for any jackpots, players, requests, pool and   *)
(* database role.                                                          *)
(***************************************************************************)
EXTENDS Jackpot, TLAPS

(***************************************************************************)
(* The inductive invariant                                                 *)
(***************************************************************************)

\* The request has locked its jackpot and computed what to store in it.
Holds(r) == req[r].at \in {"pay", "commit"}

\* A locked jackpot belongs to the side transaction that is at it.
RowPart ==
  \A j \in Jackpots : rowLock[j] # NoReq => Holds(rowLock[j]) /\ req[rowLock[j]].j = j

\* A side transaction owns a wallet only to commit a credit to it.
WalletPart ==
  \A p \in Players, r \in Reqs : walletLock[p] = Side(r) => At(r, "commit") /\ req[r].p = p

\* What a side transaction holds and has computed: the pot to store is that of the
\* jackpot, which nobody else can move, with the share and without the hit.
SideFacts(r) ==
  Holds(r) =>
    /\ rowLock[req[r].j] = r
    /\ req[r].trigger \in Triggers
    /\ req[r].pot + req[r].hit = jackpot[req[r].j].pot + req[r].share
    /\ req[r].op = "bet" /\ req[r].hit > 0 => req[r].j \notin resting

\* A hit for a player is committed with the player's wallet in hand.
CreditFacts(r) ==
  /\ At(r, "pay") => req[r].hit > 0 /\ req[r].p \in Players
  /\ At(r, "commit") /\ req[r].hit > 0 /\ req[r].p \in Players => walletLock[req[r].p] = Side(r)
  /\ At(r, "commit") /\ req[r].hit > 0 /\ req[r].op = "bet" => ~rls

\* A bet past its first write holds its player's wallet as long as it stands.
BetFacts(r) ==
  /\ ~At(r, "idle") => req[r].main # "none"
  /\ req[r].op = "bet" /\ req[r].at \notin {"idle", "respond"} => req[r].p \in Players
  /\ req[r].op = "bet" /\ req[r].at \in {"open", "jackpot", "pay", "commit"} /\ req[r].main = "open" =>
       walletLock[req[r].p] = Main(r)

RequestPart == \A r \in Reqs : SideFacts(r) /\ CreditFacts(r) /\ BetFacts(r)

IInv == TypeOK /\ RowPart /\ WalletPart /\ RequestPart /\ PotExplained /\ WinsCredited

\* f with the value y at x.
Put(f, x, y) == [f EXCEPT ![x] = y]

\* The owners of a wallet are told apart.
LEMMA Owners ==
  ASSUME NEW r \in Reqs
  PROVE  /\ Main(r) # Free /\ Side(r) # Free
         /\ \A q \in Reqs : Main(r) # Side(q) /\ (q # r => Main(r) # Main(q) /\ Side(r) # Side(q))
BY NamesAssumption DEF Main, Side, Free

LEMMA NoWorkType == NoWork \in Work
BY TargetsAssumption DEF NoWork, Work, Places, Ops, Triggers

LEMMA InitInv == Init => IInv
<1> SUFFICES ASSUME Init PROVE IInv
  OBVIOUS
<1>1. TypeOK
  BY NoWorkType DEF Init, TypeOK, Free, Triggers
<1>2. RowPart /\ PotExplained /\ WinsCredited
  BY DEF Init, RowPart, PotExplained, WinsCredited
<1>3. WalletPart
  BY Owners DEF Init, WalletPart
<1>4. RequestPart
  BY DEF Init, RequestPart, SideFacts, CreditFacts, BetFacts, Holds, At, NoWork
<1> QED
  BY <1>1, <1>2, <1>3, <1>4 DEF IInv

-----------------------------------------------------------------------------
(***************************************************************************)
(* Kinds of steps                                                          *)
(***************************************************************************)

\* A step of one request leaves what the invariant says of the others alone when it
\* leaves them their jackpots and wallets.
LEMMA OthersKept ==
  ASSUME IInv, NEW r \in Reqs, NEW w \in Work, req' = Put(req, r, w), UNCHANGED deployment,
         \A q \in Reqs \ {r}, j \in Jackpots : rowLock[j] = q =>
            rowLock'[j] = q /\ jackpot'[j] = jackpot[j] /\ (j \in resting' => j \in resting),
         \A q \in Reqs \ {r}, p \in Players : walletLock[p] \in {Main(q), Side(q)} => walletLock'[p] = walletLock[p]
  PROVE  \A q \in Reqs \ {r} : SideFacts(q)' /\ CreditFacts(q)' /\ BetFacts(q)'
<1> SUFFICES ASSUME NEW q \in Reqs \ {r} PROVE SideFacts(q)' /\ CreditFacts(q)' /\ BetFacts(q)'
  OBVIOUS
<1>1. req'[q] = req[q] /\ req[q] \in Work
  BY DEF Put, IInv, TypeOK
<1>2. req[q].j \in Jackpots
  BY <1>1 DEF Work
<1>3. SideFacts(q) /\ CreditFacts(q) /\ BetFacts(q)
  BY DEF IInv, RequestPart
<1>4. SideFacts(q)'
  BY <1>1, <1>2, <1>3 DEF SideFacts, Holds
<1>5. CreditFacts(q)'
  BY <1>1, <1>3 DEF CreditFacts, At, deployment
<1>6. BetFacts(q)'
  BY <1>1, <1>3 DEF BetFacts, At
<1> QED
  BY <1>4, <1>5, <1>6

\* A step that only moves the request on, while its side transaction holds nothing.
LEMMA MoveInv ==
  ASSUME IInv, NEW r \in Reqs, NEW w \in Work, req' = Put(req, r, w),
         UNCHANGED <<rows, rowLock, walletLock, deployment>>,
         ~Holds(r), w.at \notin {"pay", "commit"}, BetFacts(r)'
  PROVE  IInv'
<1>1. req'[r] = w
  BY DEF Put, IInv, TypeOK
<1>2. TypeOK'
  BY DEF Put, IInv, TypeOK, rows, deployment
<1>3. \A q \in Reqs \ {r} : req'[q] = req[q] /\ SideFacts(q)' /\ CreditFacts(q)' /\ BetFacts(q)'
  BY OthersKept DEF rows, Put, IInv, TypeOK
<1>4. RowPart'
  BY <1>3 DEF IInv, RowPart, Holds, TypeOK
<1>5. WalletPart'
  BY <1>3 DEF IInv, WalletPart, Holds, At
<1>6. SideFacts(r)' /\ CreditFacts(r)'
  BY <1>1 DEF SideFacts, CreditFacts, Holds, At
<1> QED
  BY <1>2, <1>3, <1>4, <1>5, <1>6 DEF IInv, RequestPart, PotExplained, WinsCredited, rows

\* A step that locks the jackpot and computes from it.
LEMMA ComputedInv ==
  ASSUME IInv, NEW r \in Reqs, NEW pot \in Nat, NEW trigger \in Triggers, NEW share \in Shares \cup {0}, NEW hit \in Nat,
         At(r, "jackpot"), rowLock[req[r].j] = NoReq, Computed(r, pot, trigger, share, hit),
         pot + hit = jackpot[req[r].j].pot + share,
         req[r].op = "bet" /\ hit > 0 => req[r].j \notin resting
  PROVE  IInv'
<1> DEFINE place == IF hit > 0 /\ req[r].p # NoPlayer THEN "pay" ELSE "commit"
           w == [req[r] EXCEPT !.pot = pot, !.trigger = trigger, !.share = share, !.hit = hit, !.at = place]
<1>1. req[r] \in Work /\ req[r].j \in Jackpots
  BY DEF IInv, TypeOK, Work
<1>2. w \in Work /\ w.at = place /\ w.pot = pot /\ w.trigger = trigger /\ w.share = share /\ w.hit = hit
      /\ w.op = req[r].op /\ w.p = req[r].p /\ w.j = req[r].j /\ w.main = req[r].main
  BY <1>1 DEF Work, Places
<1>3. req' = Put(req, r, w) /\ rowLock' = Put(rowLock, req[r].j, r) /\ UNCHANGED <<rows, walletLock, deployment>>
  BY <1>1 DEF Computed, Put, IInv, TypeOK
<1> HIDE DEF w
<1>4. req'[r] = w /\ \A q \in Reqs \ {r} : req'[q] = req[q]
  BY <1>3 DEF Put, IInv, TypeOK
<1>5. rowLock'[req[r].j] = r /\ \A j \in Jackpots : j # req[r].j => rowLock'[j] = rowLock[j]
  BY <1>1, <1>3 DEF Put, IInv, TypeOK
<1>6. TypeOK'
  BY <1>1, <1>2, <1>3 DEF Put, IInv, TypeOK, rows, deployment
<1>7. \A q \in Reqs \ {r} : SideFacts(q)' /\ CreditFacts(q)' /\ BetFacts(q)'
  <2>1. \A q \in Reqs \ {r}, j \in Jackpots : rowLock[j] = q =>
            rowLock'[j] = q /\ jackpot'[j] = jackpot[j] /\ (j \in resting' => j \in resting)
    BY <1>3, <1>5, NamesAssumption DEF rows
  <2> QED
    BY <1>2, <1>3, <2>1, OthersKept DEF rows
<1>8. RowPart'
  BY <1>2, <1>4, <1>5 DEF IInv, RowPart, Holds, TypeOK
<1>9. WalletPart'
  BY <1>3, <1>4 DEF IInv, WalletPart, At
<1>10. SideFacts(r)'
  BY <1>2, <1>3, <1>4, <1>5 DEF SideFacts, rows
<1>11. BetFacts(r)'
  <2>1. BetFacts(r)
    BY DEF IInv, RequestPart
  <2> QED
    BY <1>2, <1>3, <1>4, <2>1 DEF BetFacts, At
<1>12. CreditFacts(r)'
  <2>1. req[r].op = "bet" => req[r].p \in Players
    BY DEF IInv, RequestPart, BetFacts, At
  <2>2. req[r].p \in Players \cup {NoPlayer}
    BY <1>1 DEF Work
  <2> QED
    BY <1>2, <1>4, <2>1, <2>2, NamesAssumption DEF CreditFacts, At
<1> QED
  BY <1>3, <1>6, <1>7, <1>8, <1>9, <1>10, <1>11, <1>12 DEF IInv, RequestPart, PotExplained, WinsCredited, rows

\* What follows a side transaction.
LEMMA GoOnType ==
  ASSUME IInv, NEW r \in Reqs, Holds(r), GoOn(r)
  PROVE  \E w \in Work :
           /\ req' = Put(req, r, w) /\ w.at \in {"open", "respond"}
           /\ w.op = req[r].op /\ w.p = req[r].p /\ w.main = req[r].main
<1>1. req[r] \in Work
  BY DEF IInv, TypeOK
<1>2. CASE req[r].op = "bet" /\ req[r].k < Len(Targets)
  <2> DEFINE w == [req[r] EXCEPT !.at = "open", !.k = @ + 1, !.j = Targets[req[r].k + 1]]
  <2>1. req[r].k + 1 \in 1 .. Len(Targets)
    BY <1>1, <1>2, TargetsAssumption DEF Work
  <2>2. Targets[req[r].k + 1] \in Jackpots
    BY <2>1, TargetsAssumption
  <2>3. w \in Work /\ w.at = "open" /\ w.op = req[r].op /\ w.p = req[r].p /\ w.main = req[r].main
    BY <1>1, <2>1, <2>2 DEF Work, Places
  <2>4. req' = Put(req, r, w)
    BY <1>2 DEF GoOn, Put, IInv, TypeOK
  <2> QED
    BY <2>3, <2>4
<1>3. CASE ~(req[r].op = "bet" /\ req[r].k < Len(Targets))
  <2> DEFINE w == [req[r] EXCEPT !.at = "respond"]
  <2>1. w \in Work /\ w.at = "respond" /\ w.op = req[r].op /\ w.p = req[r].p /\ w.main = req[r].main
    BY <1>1 DEF Work, Places
  <2>2. req' = Put(req, r, w)
    BY <1>3 DEF GoOn, Goto, Put, IInv, TypeOK
  <2> QED
    BY <2>1, <2>2
<1> QED
  BY <1>2, <1>3

\* The side transaction ends: its jackpot and its wallet are free, and so are the
\* parts of the invariant about locks.
LEMMA ReleaseInv ==
  ASSUME IInv, NEW r \in Reqs, Holds(r), ReleaseSide(r), GoOn(r), UNCHANGED deployment,
         \A j \in Jackpots : j # req[r].j => jackpot'[j] = jackpot[j] /\ (j \in resting' => j \in resting)
  PROVE  /\ RowPart' /\ WalletPart' /\ RequestPart'
         /\ req' \in [Reqs -> Work]
         /\ rowLock' \in [Jackpots -> Reqs \cup {NoReq}]
         /\ walletLock' \in [Players -> (Reqs \cup {NoReq}) \X {"main", "side"}]
<1>1. PICK w \in Work :
         /\ req' = Put(req, r, w) /\ w.at \in {"open", "respond"}
         /\ w.op = req[r].op /\ w.p = req[r].p /\ w.main = req[r].main
  BY GoOnType
<1>2. req'[r] = w /\ \A q \in Reqs \ {r} : req'[q] = req[q]
  BY <1>1 DEF Put, IInv, TypeOK
<1>3. req' \in [Reqs -> Work]
  BY <1>1 DEF Put, IInv, TypeOK
<1>4. /\ rowLock' \in [Jackpots -> Reqs \cup {NoReq}]
      /\ walletLock' \in [Players -> (Reqs \cup {NoReq}) \X {"main", "side"}]
  BY DEF ReleaseSide, IInv, TypeOK, Free
<1>5. \A j \in Jackpots : rowLock[j] = r => j = req[r].j
  BY NamesAssumption DEF IInv, RowPart
<1>6. \A j \in Jackpots : rowLock'[j] = IF rowLock[j] = r THEN NoReq ELSE rowLock[j]
  BY DEF ReleaseSide
<1>7. \A p \in Players : walletLock'[p] = IF walletLock[p] = Side(r) THEN Free ELSE walletLock[p]
  BY DEF ReleaseSide
<1>8. rowLock[req[r].j] = r
  BY DEF IInv, RequestPart, SideFacts
<1>9. \A q \in Reqs \ {r} : SideFacts(q)' /\ CreditFacts(q)' /\ BetFacts(q)'
  <2>1. \A q \in Reqs \ {r}, j \in Jackpots : rowLock[j] = q =>
            rowLock'[j] = q /\ jackpot'[j] = jackpot[j] /\ (j \in resting' => j \in resting)
    BY <1>6, <1>8
  <2>2. \A q \in Reqs \ {r}, p \in Players : walletLock[p] \in {Main(q), Side(q)} => walletLock'[p] = walletLock[p]
    BY <1>7, Owners
  <2> QED
    BY <1>1, <2>1, <2>2, OthersKept
<1>10. RowPart'
  BY <1>2, <1>6, NamesAssumption DEF IInv, RowPart, Holds, TypeOK
<1>11. WalletPart'
  BY <1>2, <1>7, Owners DEF IInv, WalletPart, At
<1>12. SideFacts(r)' /\ CreditFacts(r)'
  BY <1>1, <1>2 DEF SideFacts, CreditFacts, Holds, At
<1>13. BetFacts(r)'
  <2>1. BetFacts(r)
    BY DEF IInv, RequestPart
  <2>2. walletLock[w.p] = Main(r) /\ w.p \in Players => walletLock'[w.p] = Main(r)
    BY <1>7, Owners
  <2> QED
    BY <1>1, <1>2, <2>1, <2>2 DEF BetFacts, At, Holds
<1> QED
  BY <1>3, <1>4, <1>9, <1>10, <1>11, <1>12, <1>13 DEF RequestPart

-----------------------------------------------------------------------------
(***************************************************************************)
(* The steps                                                               *)
(***************************************************************************)

LEMMA CommitSideInv == ASSUME IInv, NEW r \in Reqs, CommitSide(r) PROVE IInv'
<1> DEFINE w == req[r]
           j == req[r].j
<1>1. w \in Work /\ j \in Jackpots /\ w.hit \in Nat /\ w.share \in Nat /\ w.pot \in Nat
  <2>1. req[r] \in Work
    BY DEF IInv, TypeOK
  <2>2. req[r].j \in Jackpots /\ req[r].hit \in Nat /\ req[r].share \in Shares \cup {0} /\ req[r].pot \in Nat
    BY <2>1 DEF Work
  <2>3. \A share \in Shares : share \in Nat
    BY AmountsAssumption
  <2>4. req[r].share \in Nat
    BY <2>2, <2>3
  <2> QED
    BY <2>1, <2>2, <2>4
<1>2. At(r, "commit") /\ Holds(r) /\ SideFacts(r) /\ CreditFacts(r)
  <2>1. At(r, "commit")
    BY DEF CommitSide
  <2>2. SideFacts(r) /\ CreditFacts(r)
    BY DEF IInv, RequestPart
  <2> QED
    BY <2>1, <2>2 DEF At, Holds
<1>3. /\ jackpot' = [jackpot EXCEPT ![j] = [pot |-> w.pot, trigger |-> w.trigger]]
      /\ fed' = [fed EXCEPT ![j] = @ + w.share]
      /\ hits' = [hits EXCEPT ![j] = @ + w.hit]
      /\ awarded' = [p \in Players |-> IF p = w.p THEN awarded[p] + w.hit ELSE awarded[p]]
      /\ won' = [p \in Players |-> IF walletLock[p] = Side(r) THEN won[p] + w.hit ELSE won[p]]
      /\ resting' = IF w.hit > 0 THEN resting \cup ({j} \cap Weekly) ELSE resting
      /\ ReleaseSide(r) /\ GoOn(r) /\ UNCHANGED deployment
  BY DEF CommitSide
<1>4. \A i \in Jackpots : i # j => jackpot'[i] = jackpot[i] /\ (i \in resting' => i \in resting)
  BY <1>3 DEF IInv, TypeOK
<1>5. RowPart' /\ WalletPart' /\ RequestPart' /\ req' \in [Reqs -> Work]
      /\ rowLock' \in [Jackpots -> Reqs \cup {NoReq}]
      /\ walletLock' \in [Players -> (Reqs \cup {NoReq}) \X {"main", "side"}]
  BY <1>2, <1>3, <1>4, ReleaseInv
<1>6. jackpot' \in [Jackpots -> [pot : Nat, trigger : Triggers]]
  <2>1. [pot |-> w.pot, trigger |-> w.trigger] \in [pot : Nat, trigger : Triggers]
    BY <1>1, <1>2 DEF SideFacts
  <2> QED
    BY <1>3, <2>1 DEF IInv, TypeOK
<1>7. fed' \in [Jackpots -> Nat] /\ hits' \in [Jackpots -> Nat] /\ awarded' \in [Players -> Nat] /\ won' \in [Players -> Nat]
  BY <1>1, <1>3 DEF IInv, TypeOK
<1>8. resting' \subseteq Weekly
  BY <1>3 DEF IInv, TypeOK
<1>9. TypeOK'
  BY <1>3, <1>5, <1>6, <1>7, <1>8 DEF TypeOK, IInv, deployment
<1>10. PotExplained'
  <2> SUFFICES ASSUME NEW i \in Jackpots PROVE jackpot'[i].pot + hits'[i] = fed'[i]
    BY DEF PotExplained
  <2>1. jackpot[i].pot \in Nat /\ hits[i] \in Nat /\ fed[i] \in Nat /\ jackpot[i].pot + hits[i] = fed[i]
    BY DEF IInv, TypeOK, PotExplained
  <2>2. CASE i # j
    BY <1>3, <2>1, <2>2 DEF IInv, TypeOK
  <2>3. CASE i = j
    <3>1. jackpot'[i].pot = w.pot /\ hits'[i] = hits[i] + w.hit /\ fed'[i] = fed[i] + w.share
      BY <1>3, <2>3 DEF IInv, TypeOK
    <3>2. w.pot + w.hit = jackpot[i].pot + w.share
      BY <1>2, <2>3 DEF SideFacts
    <3> QED
      BY <1>1, <2>1, <3>1, <3>2
  <2> QED
    BY <2>2, <2>3
<1>11. WinsCredited'
  <2> SUFFICES ASSUME NEW p \in Players PROVE won'[p] = awarded'[p]
    BY DEF WinsCredited
  <2>1. won[p] = awarded[p] /\ awarded[p] \in Nat
    BY DEF IInv, WinsCredited, TypeOK
  <2>2. walletLock[p] = Side(r) => w.p = p
    BY DEF IInv, WalletPart
  <2>3. w.p = p /\ w.hit > 0 => walletLock[p] = Side(r)
    BY <1>2 DEF CreditFacts
  <2> QED
    BY <1>1, <1>3, <2>1, <2>2, <2>3
<1> QED
  BY <1>5, <1>9, <1>10, <1>11 DEF IInv

LEMMA FailSideInv == ASSUME IInv, NEW r \in Reqs, FailSide(r) PROVE IInv'
<1>1. Holds(r) /\ ReleaseSide(r) /\ GoOn(r) /\ UNCHANGED <<rows, deployment>>
  BY DEF FailSide, At, Holds
<1>2. RowPart' /\ WalletPart' /\ RequestPart' /\ req' \in [Reqs -> Work]
      /\ rowLock' \in [Jackpots -> Reqs \cup {NoReq}]
      /\ walletLock' \in [Players -> (Reqs \cup {NoReq}) \X {"main", "side"}]
  BY <1>1, ReleaseInv DEF rows
<1>3. TypeOK'
  BY <1>1, <1>2 DEF TypeOK, IInv, rows, deployment
<1> QED
  BY <1>1, <1>2, <1>3 DEF IInv, PotExplained, WinsCredited, rows

LEMMA ContributeInv == ASSUME IInv, NEW r \in Reqs, Contribute(r) PROVE IInv'
<1> DEFINE j == req[r].j
<1>1. PICK share \in Shares, draw \in Draws :
        LET pot == jackpot[j].pot + share IN
        IF Due(j, pot)
        THEN Computed(r, pot - jackpot[j].trigger, draw, share, jackpot[j].trigger)
        ELSE Computed(r, pot, jackpot[j].trigger, share, 0)
  BY DEF Contribute
<1>2. At(r, "jackpot") /\ rowLock[j] = NoReq
  BY DEF Contribute
<1>3. jackpot[j].pot \in Nat /\ jackpot[j].trigger \in Triggers /\ draw \in Triggers /\ share \in Nat
      /\ jackpot[j].trigger \in Nat
  <2>1. jackpot[j].pot \in Nat /\ jackpot[j].trigger \in Triggers
    BY DEF IInv, TypeOK, Work
  <2>2. share \in Nat /\ draw \in Triggers /\ \A x \in Triggers : x \in Nat
    <3>1. share \in Shares /\ draw \in Draws
      BY <1>1
    <3> QED
      BY <3>1, AmountsAssumption DEF Triggers
  <2> QED
    BY <2>1, <2>2
<1> DEFINE pot == jackpot[j].pot + share
<1>4. CASE Due(j, pot)
  <2>1. pot - jackpot[j].trigger \in Nat /\ (pot - jackpot[j].trigger) + jackpot[j].trigger = pot /\ j \notin resting
    BY <1>3, <1>4 DEF Due
  <2>2. Computed(r, pot - jackpot[j].trigger, draw, share, jackpot[j].trigger)
    BY <1>1, <1>4
  <2> QED
    BY <1>2, <1>3, <2>1, <2>2, ComputedInv
<1>5. CASE ~Due(j, pot)
  <2>1. pot \in Nat /\ pot + 0 = pot /\ ~(0 > 0)
    BY <1>3
  <2>2. Computed(r, pot, jackpot[j].trigger, share, 0)
    BY <1>1, <1>5
  <2> HIDE DEF pot
  <2>3. pot + 0 = jackpot[j].pot + share
    BY <2>1 DEF pot
  <2> QED
    BY <1>2, <1>3, <2>1, <2>2, <2>3, ComputedInv
<1> QED
  BY <1>4, <1>5

LEMMA TriggerHitInv == ASSUME IInv, NEW r \in Reqs, TriggerHit(r) PROVE IInv'
<1> DEFINE j == req[r].j
<1>1. PICK amount \in 1 .. jackpot[j].pot, draw \in Draws : Computed(r, jackpot[j].pot - amount, draw, 0, amount)
  BY DEF TriggerHit
<1>2. At(r, "jackpot") /\ rowLock[j] = NoReq /\ req[r].op = "hit"
  BY DEF TriggerHit
<1>3. jackpot[j].pot \in Nat
  BY DEF IInv, TypeOK, Work
<1>4. draw \in Triggers /\ amount \in Nat /\ jackpot[j].pot - amount \in Nat /\ (jackpot[j].pot - amount) + amount = jackpot[j].pot + 0
  BY <1>3 DEF Triggers
<1> QED
  BY <1>1, <1>2, <1>4, ComputedInv

LEMMA SetTargetInv == ASSUME IInv, NEW r \in Reqs, SetTarget(r) PROVE IInv'
<1> DEFINE j == req[r].j
<1>1. PICK target \in Triggers : Computed(r, jackpot[j].pot, target, 0, 0)
  BY DEF SetTarget
<1>2. At(r, "jackpot") /\ rowLock[j] = NoReq /\ req[r].op = "target"
  BY DEF SetTarget
<1>3. jackpot[j].pot \in Nat
  BY DEF IInv, TypeOK, Work
<1> QED
  BY <1>1, <1>2, <1>3, ComputedInv

\* A step that hands a free wallet to one of the request's transactions, or frees the
\* one its own transaction had.
LEMMA WalletInv ==
  ASSUME IInv, NEW r \in Reqs, NEW w \in Work, req' = Put(req, r, w), UNCHANGED <<rows, rowLock, deployment>>,
         walletLock' \in [Players -> (Reqs \cup {NoReq}) \X {"main", "side"}],
         \A q \in Reqs \ {r}, p \in Players : walletLock'[p] = Side(q) <=> walletLock[p] = Side(q),
         \A q \in Reqs \ {r}, p \in Players : walletLock[p] = Main(q) => walletLock'[p] = Main(q),
         \A p \in Players : walletLock'[p] = Side(r) => w.at = "commit" /\ w.p = p,
         Holds(r) => w.at \in {"pay", "commit"} /\ w.j = req[r].j,
         SideFacts(r)', CreditFacts(r)', BetFacts(r)'
  PROVE  IInv'
<1>1. req'[r] = w /\ \A q \in Reqs \ {r} : req'[q] = req[q]
  BY DEF Put, IInv, TypeOK
<1>2. TypeOK'
  BY DEF Put, IInv, TypeOK, rows, deployment
<1>3. \A q \in Reqs \ {r} : SideFacts(q)' /\ CreditFacts(q)' /\ BetFacts(q)'
  BY OthersKept DEF rows
<1>4. RowPart'
  BY <1>1 DEF IInv, RowPart, Holds, TypeOK
<1>5. WalletPart'
  BY <1>1 DEF IInv, WalletPart, At
<1> QED
  BY <1>1, <1>2, <1>3, <1>4, <1>5 DEF IInv, RequestPart, PotExplained, WinsCredited, rows

LEMMA PayWinnerInv == ASSUME IInv, NEW r \in Reqs, PayWinner(r) PROVE IInv'
<1> DEFINE w == [req[r] EXCEPT !.at = "commit"]
<1>1. req[r] \in Work
  BY DEF IInv, TypeOK
<1>2. w \in Work /\ w.at = "commit" /\ w.p = req[r].p /\ w.op = req[r].op /\ w.main = req[r].main
      /\ w.hit = req[r].hit /\ w.j = req[r].j /\ w.pot = req[r].pot /\ w.trigger = req[r].trigger /\ w.share = req[r].share
  BY <1>1 DEF Work, Places
<1>3. req' = Put(req, r, w) /\ UNCHANGED <<rows, rowLock, deployment>>
      /\ walletLock' = Put(walletLock, req[r].p, Side(r)) /\ walletLock[req[r].p] = Free
  BY DEF PayWinner, Goto, Put, IInv, TypeOK
<1> HIDE DEF w
<1>4. SideFacts(r) /\ CreditFacts(r) /\ BetFacts(r) /\ At(r, "pay") /\ WalletVisible(r)
  BY DEF IInv, RequestPart, PayWinner
<1>5. req[r].p \in Players
  BY <1>4 DEF CreditFacts
<1>6. walletLock'[req[r].p] = Side(r) /\ \A p \in Players : p # req[r].p => walletLock'[p] = walletLock[p]
  BY <1>3, <1>5 DEF Put, IInv, TypeOK
<1>7. walletLock' \in [Players -> (Reqs \cup {NoReq}) \X {"main", "side"}]
  BY <1>3 DEF Put, Side, IInv, TypeOK
<1>8. req'[r] = w
  BY <1>3 DEF Put, IInv, TypeOK
<1>9. /\ \A q \in Reqs \ {r}, p \in Players : walletLock'[p] = Side(q) <=> walletLock[p] = Side(q)
      /\ \A q \in Reqs \ {r}, p \in Players : walletLock[p] = Main(q) => walletLock'[p] = Main(q)
  BY <1>3, <1>6, Owners
<1>10. \A p \in Players : walletLock'[p] = Side(r) => w.at = "commit" /\ w.p = p
  BY <1>2, <1>6, <1>4 DEF IInv, WalletPart, At
<1>11. SideFacts(r)'
  BY <1>2, <1>3, <1>4, <1>8 DEF SideFacts, Holds, At, rows
<1>12. CreditFacts(r)'
  BY <1>2, <1>3, <1>4, <1>6, <1>8 DEF CreditFacts, WalletVisible, At, deployment
<1>13. BetFacts(r)'
  <2>1. req[r].op = "bet" => req[r].main # "open"
    BY <1>3, <1>4, Owners DEF BetFacts, At
  <2> QED
    BY <1>2, <1>4, <1>5, <1>8, <2>1 DEF BetFacts, At
<1> QED
  BY <1>2, <1>3, <1>7, <1>9, <1>10, <1>11, <1>12, <1>13, WalletInv

LEMMA LockWalletInv == ASSUME IInv, NEW r \in Reqs, LockWallet(r) PROVE IInv'
<1> DEFINE w == [req[r] EXCEPT !.at = "open"]
<1>1. req[r] \in Work
  BY DEF IInv, TypeOK
<1>2. w \in Work /\ w.at = "open" /\ w.p = req[r].p /\ w.op = req[r].op /\ w.main = req[r].main
  BY <1>1 DEF Work, Places
<1>3. req' = Put(req, r, w) /\ UNCHANGED <<rows, rowLock, deployment>>
      /\ walletLock' = Put(walletLock, req[r].p, Main(r)) /\ walletLock[req[r].p] = Free
  BY DEF LockWallet, Goto, Put, IInv, TypeOK
<1> HIDE DEF w
<1>4. BetFacts(r) /\ At(r, "wallet")
  BY DEF IInv, RequestPart, LockWallet
<1>5. \A p \in Players : p # req[r].p => walletLock'[p] = walletLock[p]
  BY <1>3 DEF Put, IInv, TypeOK
<1>6. req[r].p \in Players => walletLock'[req[r].p] = Main(r)
  BY <1>3 DEF Put, IInv, TypeOK
<1>7. walletLock' \in [Players -> (Reqs \cup {NoReq}) \X {"main", "side"}]
  BY <1>3 DEF Put, Main, IInv, TypeOK
<1>8. req'[r] = w
  BY <1>3 DEF Put, IInv, TypeOK
<1>9. /\ \A q \in Reqs \ {r}, p \in Players : walletLock'[p] = Side(q) <=> walletLock[p] = Side(q)
      /\ \A q \in Reqs \ {r}, p \in Players : walletLock[p] = Main(q) => walletLock'[p] = Main(q)
  BY <1>3, <1>5, <1>6, Owners
<1>10. \A p \in Players : walletLock'[p] # Side(r)
  BY <1>4, <1>5, <1>6, Owners DEF IInv, WalletPart, At
<1>11. SideFacts(r)' /\ CreditFacts(r)'
  BY <1>2, <1>8 DEF SideFacts, CreditFacts, Holds, At
<1>12. BetFacts(r)'
  BY <1>2, <1>4, <1>6, <1>8 DEF BetFacts, At
<1> QED
  BY <1>2, <1>3, <1>4, <1>7, <1>9, <1>10, <1>11, <1>12, WalletInv DEF Holds, At

LEMMA FinishInv == ASSUME IInv, NEW r \in Reqs, Finish(r) PROVE IInv'
<1>1. req' = Put(req, r, NoWork) /\ ReleaseMain(r) /\ UNCHANGED <<rows, rowLock, deployment>>
  BY DEF Finish, Put
<1>2. walletLock' \in [Players -> (Reqs \cup {NoReq}) \X {"main", "side"}]
  BY <1>1 DEF ReleaseMain, Free, IInv, TypeOK
<1>3. \A p \in Players : walletLock'[p] = IF walletLock[p] = Main(r) THEN Free ELSE walletLock[p]
  BY <1>1 DEF ReleaseMain
<1>4. /\ \A q \in Reqs \ {r}, p \in Players : walletLock'[p] = Side(q) <=> walletLock[p] = Side(q)
      /\ \A q \in Reqs \ {r}, p \in Players : walletLock[p] = Main(q) => walletLock'[p] = Main(q)
  BY <1>3, Owners
<1>5. At(r, "respond")
  BY DEF Finish
<1>6. \A p \in Players : walletLock'[p] # Side(r)
  BY <1>3, <1>5, Owners DEF IInv, WalletPart, At
<1>7. req'[r] = NoWork
  BY <1>1 DEF Put, IInv, TypeOK
<1>8. SideFacts(r)' /\ CreditFacts(r)' /\ BetFacts(r)'
  BY <1>7 DEF SideFacts, CreditFacts, BetFacts, Holds, At, NoWork
<1>9. ~Holds(r)
  BY <1>5 DEF Holds, At
<1> QED
  BY <1>1, <1>2, <1>4, <1>6, <1>8, <1>9, NoWorkType, WalletInv

LEMMA CloseInv == ASSUME IInv, NEW r \in Reqs, Close(r) PROVE IInv'
<1> DEFINE place == IF At(r, "wallet") THEN "respond" ELSE req[r].at
           w == [req[r] EXCEPT !.main = "closed", !.at = place]
<1>1. req[r] \in Work
  BY DEF IInv, TypeOK
<1>2. w \in Work /\ w.at = place /\ w.p = req[r].p /\ w.op = req[r].op /\ w.main = "closed"
      /\ w.hit = req[r].hit /\ w.j = req[r].j /\ w.pot = req[r].pot /\ w.trigger = req[r].trigger /\ w.share = req[r].share
  BY <1>1 DEF Work, Places
<1>3. req' = Put(req, r, w) /\ ReleaseMain(r) /\ UNCHANGED <<rows, rowLock, deployment>>
  BY DEF Close, Put, IInv, TypeOK
<1> HIDE DEF w
<1>4. SideFacts(r) /\ CreditFacts(r) /\ BetFacts(r)
  BY DEF IInv, RequestPart
<1>5. walletLock' \in [Players -> (Reqs \cup {NoReq}) \X {"main", "side"}]
  BY <1>3 DEF ReleaseMain, Free, IInv, TypeOK
<1>6. \A p \in Players : walletLock'[p] = IF walletLock[p] = Main(r) THEN Free ELSE walletLock[p]
  BY <1>3 DEF ReleaseMain
<1>7. /\ \A q \in Reqs \ {r}, p \in Players : walletLock'[p] = Side(q) <=> walletLock[p] = Side(q)
      /\ \A q \in Reqs \ {r}, p \in Players : walletLock[p] = Main(q) => walletLock'[p] = Main(q)
  BY <1>6, Owners
<1>8. \A p \in Players : walletLock'[p] = Side(r) => w.at = "commit" /\ w.p = p
  BY <1>2, <1>6, Owners DEF IInv, WalletPart, At
<1>9. req'[r] = w
  BY <1>3 DEF Put, IInv, TypeOK
<1>10. SideFacts(r)'
  BY <1>2, <1>3, <1>4, <1>9 DEF SideFacts, Holds, At, rows
<1>11. CreditFacts(r)'
  BY <1>2, <1>3, <1>4, <1>6, <1>9, Owners DEF CreditFacts, At, deployment
<1>12. BetFacts(r)'
  BY <1>2, <1>4, <1>9 DEF BetFacts, At
<1>13. Holds(r) => w.at \in {"pay", "commit"} /\ w.j = req[r].j
  BY <1>2 DEF Holds, At
<1> QED
  BY <1>2, <1>3, <1>5, <1>7, <1>8, <1>10, <1>11, <1>12, <1>13, WalletInv

\* The steps that neither take nor free anything.
LEMMA BeginInv == ASSUME IInv, NEW r \in Reqs, Begin(r) PROVE IInv'
<1>1. PICK w \in Work : /\ req' = Put(req, r, w) /\ w.main = "open"
                        /\ \/ w.op = "bet" /\ w.at = "wallet" /\ w.p \in Players
                           \/ w.op # "bet" /\ w.at = "open"
  <2>1. CASE \E p \in Players :
               req' = [req EXCEPT ![r] = [NoWork EXCEPT !.at = "wallet", !.op = "bet", !.p = p, !.main = "open"]]
    <3>1. PICK p \in Players :
            req' = [req EXCEPT ![r] = [NoWork EXCEPT !.at = "wallet", !.op = "bet", !.p = p, !.main = "open"]]
      BY <2>1
    <3> DEFINE w == [NoWork EXCEPT !.at = "wallet", !.op = "bet", !.p = p, !.main = "open"]
    <3>2. w \in Work /\ w.main = "open" /\ w.op = "bet" /\ w.at = "wallet" /\ w.p \in Players
      BY NoWorkType DEF Work, Places, Ops
    <3>3. req' = Put(req, r, w)
      BY <3>1 DEF Put
    <3> QED
      BY <3>2, <3>3
  <2>2. CASE \E op \in {"hit", "target"}, p \in Players \cup {NoPlayer}, j \in Jackpots :
               req' = [req EXCEPT ![r] = [NoWork EXCEPT !.at = "open", !.op = op, !.p = p, !.j = j, !.main = "open"]]
    <3>1. PICK op \in {"hit", "target"}, p \in Players \cup {NoPlayer}, j \in Jackpots :
            req' = [req EXCEPT ![r] = [NoWork EXCEPT !.at = "open", !.op = op, !.p = p, !.j = j, !.main = "open"]]
      BY <2>2
    <3> DEFINE w == [NoWork EXCEPT !.at = "open", !.op = op, !.p = p, !.j = j, !.main = "open"]
    <3>2. w \in Work /\ w.main = "open" /\ w.op # "bet" /\ w.at = "open"
      BY NoWorkType DEF Work, Places, Ops
    <3>3. req' = Put(req, r, w)
      BY <3>1 DEF Put
    <3> QED
      BY <3>2, <3>3
  <2> QED
    BY <2>1, <2>2 DEF Begin
<1>2. At(r, "idle") /\ UNCHANGED <<rows, rowLock, walletLock, deployment>>
  BY DEF Begin
<1>3. req'[r] = w
  BY <1>1 DEF Put, IInv, TypeOK
<1>4. BetFacts(r)'
  BY <1>1, <1>3 DEF BetFacts, At
<1>5. ~Holds(r) /\ w.at \notin {"pay", "commit"}
  BY <1>1, <1>2 DEF Holds, At
<1> QED
  BY <1>1, <1>2, <1>4, <1>5, MoveInv

LEMMA GotoInv ==
  ASSUME IInv, NEW r \in Reqs, NEW place \in {"jackpot", "respond"}, req' = Goto(r, place),
         UNCHANGED <<rows, rowLock, walletLock, deployment>>,
         At(r, "open") \/ (req[r].at \in {"wallet", "jackpot"} /\ place = "respond")
  PROVE  IInv'
<1> DEFINE w == [req[r] EXCEPT !.at = place]
<1>1. req[r] \in Work
  BY DEF IInv, TypeOK
<1>2. w \in Work /\ w.at = place /\ w.p = req[r].p /\ w.op = req[r].op /\ w.main = req[r].main
  BY <1>1 DEF Work, Places
<1>3. req' = Put(req, r, w)
  BY DEF Goto, Put, IInv, TypeOK
<1> HIDE DEF w
<1>4. req'[r] = w
  BY <1>3 DEF Put, IInv, TypeOK
<1>5. BetFacts(r)
  BY DEF IInv, RequestPart
<1>6. BetFacts(r)'
  BY <1>2, <1>4, <1>5 DEF BetFacts, At
<1>7. ~Holds(r) /\ w.at \notin {"pay", "commit"}
  BY <1>2 DEF Holds, At
<1> QED
  BY <1>2, <1>3, <1>6, <1>7, MoveInv

LEMMA RestInv == ASSUME IInv, NEW j \in Jackpots, Rest(j) PROVE IInv'
<1>1. resting' = resting \ {j} /\ UNCHANGED <<jackpot, fed, hits, awarded, won, rowLock, walletLock, req, rls, poolSize>>
  BY DEF Rest, deployment
<1>2. TypeOK'
  BY <1>1 DEF IInv, TypeOK
<1>3. RowPart' /\ WalletPart'
  BY <1>1 DEF IInv, RowPart, WalletPart, Holds, At
<1>4. RequestPart'
  BY <1>1 DEF IInv, RequestPart, SideFacts, CreditFacts, BetFacts, Holds, At
<1> QED
  BY <1>1, <1>2, <1>3, <1>4 DEF IInv, PotExplained, WinsCredited

LEMMA NextInv == IInv /\ [Next]_vars => IInv'
<1> SUFFICES ASSUME IInv, [Next]_vars PROVE IInv'
  OBVIOUS
<1>1. ASSUME NEW r \in Reqs, Begin(r) PROVE IInv'
  BY <1>1, BeginInv
<1>2. ASSUME NEW r \in Reqs, HandlerStep(r) PROVE IInv'
  <2>1. CASE LockWallet(r)
    BY <2>1, LockWalletInv
  <2>2. CASE RefuseBet(r)
    BY <2>2, GotoInv DEF RefuseBet, At
  <2>3. CASE OpenSide(r)
    BY <2>3, GotoInv DEF OpenSide
  <2>4. CASE AcquireTimeout(r)
    BY <2>4, GotoInv DEF AcquireTimeout
  <2>5. CASE Contribute(r)
    BY <2>5, ContributeInv
  <2>6. CASE TriggerHit(r)
    BY <2>6, TriggerHitInv
  <2>7. CASE SetTarget(r)
    BY <2>7, SetTargetInv
  <2>8. CASE RefuseStaff(r)
    BY <2>8, GotoInv DEF RefuseStaff, At
  <2>9. CASE PayWinner(r)
    BY <2>9, PayWinnerInv
  <2>10. CASE FailSide(r)
    BY <2>10, FailSideInv
  <2>11. CASE CommitSide(r)
    BY <2>11, CommitSideInv
  <2>12. CASE Finish(r)
    BY <2>12, FinishInv
  <2> QED
    BY <1>2, <2>1, <2>2, <2>3, <2>4, <2>5, <2>6, <2>7, <2>8, <2>9, <2>10, <2>11, <2>12 DEF HandlerStep
<1>3. ASSUME NEW r \in Reqs, Close(r) PROVE IInv'
  BY <1>3, CloseInv
<1>4. ASSUME NEW j \in Jackpots, Rest(j) PROVE IInv'
  BY <1>4, RestInv
<1>5. CASE UNCHANGED vars
  BY <1>5 DEF vars, rows, deployment, IInv, TypeOK, RowPart, WalletPart, RequestPart, SideFacts, CreditFacts, BetFacts,
     Holds, At, PotExplained, WinsCredited
<1> QED
  BY <1>1, <1>2, <1>3, <1>4, <1>5 DEF Next

-----------------------------------------------------------------------------
(***************************************************************************)
(* The theorems                                                            *)
(***************************************************************************)

\* The invariant of every behaviour.
THEOREM Invariance == Spec => []IInv
<1> QED
  BY InitInv, NextInv, PTL DEF Spec

\* The rows, the locks and the request records keep their types; no pot is negative.
THEOREM TypeCorrect == Spec => []TypeOK
<1>1. IInv => TypeOK
  BY DEF IInv
<1> QED
  BY <1>1, Invariance, PTL

\* However bets, manual hits and new targets overlap and fail, every pot is what was
\* contributed less what was hit.
THEOREM PotsExplained == Spec => []PotExplained
<1>1. IInv => PotExplained
  BY DEF IInv
<1> QED
  BY <1>1, Invariance, PTL

\* What jackpot events award to a player is what the player's wallet was credited.
THEOREM WinsReachWallets == Spec => []WinsCredited
<1>1. IInv => WinsCredited
  BY DEF IInv
<1> QED
  BY <1>1, Invariance, PTL

\* A bet hits a weekly jackpot at most once in seven days.
THEOREM WeeklyHitsRest == Spec => WeeklyRests
<1>1. IInv /\ [Next]_vars => [\A r \in Reqs :
       At(r, "commit") /\ req[r].op = "bet" /\ req[r].hit > 0 /\ hits'[req[r].j] # hits[req[r].j] =>
         req[r].j \notin resting]_vars
  BY DEF IInv, RequestPart, SideFacts, Holds, At
<1> QED
  BY <1>1, Invariance, PTL DEF Spec, WeeklyRests
=============================================================================
