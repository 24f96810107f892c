------------------------- MODULE PlayerAccount_proofs -------------------------
(***************************************************************************)
(* Proofs about PlayerAccount, for any requests, vouchers, rounds, amounts *)
(* and degree of overlap: the types, that a round pays at most once and,   *)
(* when the menu has only redeemers that lock the voucher, that a voucher  *)
(* is credited at most once, that PlayerAccount implements VoucherLife and *)
(* that a deadlock needs a termination that waits for a game's session.    *)
(*                                                                         *)
(* The argument.  A step of one request leaves alone what another request  *)
(* owns (Local), so whatever a request knows of the rows it has locked is  *)
(* its own business.  It remains to say what it knows: at which places it  *)
(* owns its round or voucher, and what it has written there (RoundPart,    *)
(* VoucherPart).  Only a commit moves a committed row, and there these     *)
(* facts meet the history counters.                                        *)
(***************************************************************************)
EXTENDS PlayerAccount, TLAPS

\* No request that redeems a voucher without locking it can arrive.
Locking == Menu \cap UnlockedRedeemers = {}

\* A free row has no uncommitted version.
FreeRowsClean == \A x \in Rows : lock[x] = NoReq => cur[x] = db[x]

\* Only running requests own rows or have something to record.
IdlePart(r) ==
  req[r].at \in {"idle", "done"} =>
    (\A x \in Rows : lock[x] # r) /\ req[r].credited = {} /\ req[r].paid = {}

\* Which operations pass through a place.
PathPart(r) ==
  /\ req[r].at \in {"readVoucher", "findUser", "saveVoucher"} => req[r].op \in UnlockedRedeemers
  /\ req[r].at = "lockVoucher" => req[r].op \in {"staffRedeem", "walletRedeem", "terminate"}
  /\ req[r].at = "lockRound" => req[r].op = "settle" /\ req[r].g \in Rounds
  /\ req[r].at \in {"lockActive", "linkWallet"} => req[r].op \in {"bet", "settle"}
  /\ req[r].at = "saveSession" => req[r].op \in {"bet", "settle"}
  /\ req[r].at \in {"lockWallet", "lockUser", "revokeSession"} => req[r].op = "terminate"

\* What a request owns on its path, and what it still knows of it.
OwnsPart(r) ==
  /\ req[r].op \in Redeemers \ UnlockedRedeemers /\ req[r].at \in {"readWallet", "saveWallet"} =>
       lock[req[r].v] = r /\ db[req[r].v].status = "new"
  /\ req[r].at \in {"lockWallet", "lockUser", "revokeSession"} =>
       lock[req[r].v] = r /\ db[req[r].v].status # "terminated"
  /\ req[r].at \in {"lockUser", "revokeSession"} => lock["wallet"] = r
  /\ req[r].at = "revokeSession" => lock["user"] = r
  /\ req[r].op = "settle"
       /\ req[r].at \in {"saveSession", "readWallet", "lockActive", "linkWallet", "saveWallet"} =>
       req[r].g \in Rounds /\ lock[req[r].g] = r /\ db[req[r].g].status = "pending"

\* What a request has written into the rounds it owns.
RoundPart(r) ==
  /\ req[r].paid # {} => req[r].at = "respond"
  /\ \A g \in req[r].paid : lock[g] = r /\ db[g].status = "pending" /\ cur[g].status = "settled"
  /\ \A g \in Rounds : lock[g] = r /\ g \notin req[r].paid =>
       cur[g].status = db[g].status \/ db[g].status = "none"

\* What it has written into the vouchers it owns, on a locking menu.
VoucherPart(r) ==
  Locking =>
    /\ Running(r) => req[r].op \notin UnlockedRedeemers
    /\ req[r].credited # {} => req[r].at = "respond"
    /\ \A v \in req[r].credited :
         v = req[r].v /\ lock[v] = r /\ db[v].status = "new" /\ cur[v].status = "redeemed"
    /\ \A v \in Vouchers : lock[v] = r /\ v \notin req[r].credited =>
         \/ cur[v].status = db[v].status
         \/ v = req[r].v /\ cur[v].status = "terminated" /\ req[r].at = "respond"

\* The order of the locks, on a locking menu: who owns a row waits only for later ones,
\* but for a termination at its last step.
OrderPart(r) ==
  Locking =>
    /\ lock["user"] = r => req[r].at \in {"revokeSession", "respond"}
    /\ lock["wallet"] = r => req[r].at \in {"saveWallet", "lockUser", "revokeSession", "respond"}
    /\ \A v \in Vouchers : lock[v] = r =>
         /\ req[r].at \in {"readWallet", "linkWallet", "saveWallet", "lockWallet", "lockUser",
                            "revokeSession", "respond"}
         /\ req[r].at = "readWallet" => req[r].op \in Redeemers
    /\ lock["session"] = r =>
         /\ req[r].at \in {"readWallet", "lockActive", "linkWallet", "saveWallet", "respond"}
         /\ req[r].at # "respond" => req[r].op \in {"bet", "settle"}
    /\ \A g \in Rounds : lock[g] = r =>
         req[r].at \in {"saveSession", "readWallet", "lockActive", "linkWallet", "saveWallet", "respond"}

Part(r) ==
  /\ IdlePart(r) /\ PathPart(r) /\ OwnsPart(r)
  /\ RoundPart(r) /\ VoucherPart(r) /\ OrderPart(r)

\* The committed history of a round and of a voucher.
RoundHistory ==
  \A g \in Rounds : payouts[g] <= 1 /\ (db[g].status # "settled" => payouts[g] = 0)

VoucherHistory ==
  Locking => \A v \in Vouchers : credits[v] <= 1 /\ (db[v].status = "new" => credits[v] = 0)

IInv ==
  /\ TypeOK /\ FreeRowsClean /\ RoundHistory /\ VoucherHistory
  /\ \A r \in Reqs : Part(r)

-----------------------------------------------------------------------------
(* Types *)

LEMMA RowNames ==
  /\ "user" \in Rows /\ "wallet" \in Rows /\ "session" \in Rows
  /\ \A v \in Vouchers : v \in Rows /\ v \notin {"user", "wallet", "session"} /\ v \notin Rounds
  /\ \A g \in Rounds : g \in Rows /\ g \notin {"user", "wallet", "session"} /\ g \notin Vouchers
  BY NamesAssumption DEF Rows

LEMMA TypeFacts ==
  ASSUME TypeOK, NEW r \in Reqs
  PROVE  /\ req[r] \in Work /\ DOMAIN req = Reqs /\ DOMAIN lock = Rows
         /\ DOMAIN cur = Rows /\ DOMAIN db = Rows
         /\ db["wallet"] \in WalletRow /\ cur["wallet"] \in WalletRow
         /\ r # NoReq
  BY NamesAssumption DEF TypeOK, RowsOK

\* Assigning one field of a request record.
LEMMA WorkTyped ==
  ASSUME NEW w \in Work
  PROVE  /\ \A p \in Places : [w EXCEPT !.at = p] \in Work
         /\ \A st \in Statuses : [w EXCEPT !.status = st] \in Work
         /\ \A c \in Int : [w EXCEPT !.change = c] \in Work
         /\ \A sn \in WalletRow : [w EXCEPT !.seen = sn] \in Work
         /\ \A v \in Vouchers : [w EXCEPT !.v = v] \in Work
         /\ \A cs \in SUBSET Vouchers : [w EXCEPT !.credited = cs] \in Work
         /\ \A ps \in SUBSET Rounds : [w EXCEPT !.paid = ps] \in Work
  BY DEF Work

LEMMA AnsweredWork ==
  ASSUME NEW w \in Work, NEW st \in Statuses
  PROVE  [w EXCEPT !.at = "respond", !.status = st] \in Work
<1> DEFINE u == [w EXCEPT !.at = "respond"]
<1>1. u \in Work
  BY WorkTyped DEF Places
<1>2. [u EXCEPT !.status = st] \in Work
  <2> HIDE DEF u
  <2> QED BY <1>1, WorkTyped
<1>3. [w EXCEPT !.at = "respond", !.status = st] = [u EXCEPT !.status = st]
  BY DEF Work
<1> QED BY <1>2, <1>3

LEMMA MoveTyped ==
  ASSUME TypeOK, NEW r \in Reqs
  PROVE  /\ \A p \in Places : Goto(r, p) \in [Reqs -> Work]
         /\ \A st \in Statuses : Answer(r, st) \in [Reqs -> Work]
         /\ Ended(r) \in [Reqs -> Work]
<1>1. ASSUME NEW p \in Places PROVE Goto(r, p) \in [Reqs -> Work]
  BY TypeFacts, WorkTyped DEF Goto, TypeOK
<1>2. ASSUME NEW st \in Statuses
      PROVE Answer(r, st) \in [Reqs -> Work]
  <2>2. [req[r] EXCEPT !.at = "respond", !.status = st] \in Work
    BY TypeFacts, AnsweredWork
  <2> QED BY <2>2 DEF TypeOK, Answer
<1>3. [NoWork EXCEPT !.at = "done"] \in Work
  <2>1. NoWork \in Work
    BY KeyAssumption DEF NoWork, Work, Places, Statuses, Ops, Redeemers, WalletRow, NoWallet
  <2> QED BY <2>1, WorkTyped DEF Places
<1> QED BY <1>1, <1>2, <1>3 DEF Ended, TypeOK

LEMMA LockTyped ==
  ASSUME TypeOK, NEW r \in Reqs, NEW x \in Rows
  PROVE  [lock EXCEPT ![x] = r] \in [Rows -> Reqs \cup {NoReq}]
  BY DEF TypeOK

LEMMA VoucherRowTyped ==
  ASSUME NEW rows, RowsOK(rows), NEW v \in Vouchers, NEW w \in VoucherRow
  PROVE  RowsOK([rows EXCEPT ![v] = w])
<1>1. v \in Rows /\ v \notin {"user", "wallet", "session"} /\ v \notin Rounds
  BY RowNames
<1> QED BY <1>1, RowNames DEF RowsOK

LEMMA WalletRowTyped ==
  ASSUME NEW rows, RowsOK(rows), NEW w \in WalletRow
  PROVE  RowsOK([rows EXCEPT !["wallet"] = w])
  BY RowNames DEF RowsOK

LEMMA UserRowTyped ==
  ASSUME NEW rows, RowsOK(rows), NEW w \in UserRow
  PROVE  RowsOK([rows EXCEPT !["user"] = w])
  BY RowNames DEF RowsOK

LEMMA SessionRowTyped ==
  ASSUME NEW rows, RowsOK(rows), NEW w \in SessionRow
  PROVE  RowsOK([rows EXCEPT !["session"] = w])
  BY RowNames DEF RowsOK

-----------------------------------------------------------------------------
(* Steps that leave the rows of other requests alone *)

\* A step of r leaves the records of the others and the rows they own alone.
Local(r) ==
  \A s \in Reqs \ {r} :
    /\ req'[s] = req[s]
    /\ \A x \in Rows :
         /\ lock'[x] = s <=> lock[x] = s
         /\ lock[x] = s => cur'[x] = cur[x] /\ db'[x] = db[x]

\* A step of r before its end: it may take free rows and write rows it owns.
Grows(r) ==
  /\ UNCHANGED <<db, Ghosts>>
  /\ \A s \in Reqs \ {r} : req'[s] = req[s]
  /\ \A x \in Rows :
       \/ lock'[x] = lock[x] /\ cur'[x] = cur[x]
       \/ lock[x] \in {NoReq, r} /\ lock'[x] = r

\* What another request knows stays true.
LEMMA Frame ==
  ASSUME TypeOK, NEW r \in Reqs, Local(r), NEW s \in Reqs \ {r}, Part(s)
  PROVE  Part(s)'
<1>1. /\ req'[s] = req[s] /\ req[s].v \in Vouchers
      /\ req[s].credited \subseteq Vouchers /\ req[s].paid \subseteq Rounds
  BY TypeFacts DEF Local, Work
<1>2. \A x \in Rows : (lock'[x] = s <=> lock[x] = s)
                       /\ (lock[x] = s => cur'[x] = cur[x] /\ db'[x] = db[x])
  BY DEF Local
<1>3. IdlePart(s)'
  BY <1>1, <1>2 DEF Part, IdlePart
<1>4. PathPart(s)'
  BY <1>1 DEF Part, PathPart
<1>5. OwnsPart(s)'
  BY <1>1, <1>2, RowNames DEF Part, OwnsPart
<1>6. RoundPart(s)'
  BY <1>1, <1>2, RowNames DEF Part, RoundPart
<1>7. VoucherPart(s)'
  BY <1>1, <1>2, RowNames DEF Part, VoucherPart, Running
<1>8. OrderPart(s)'
  BY <1>1, <1>2, RowNames DEF Part, OrderPart
<1> QED BY <1>3, <1>4, <1>5, <1>6, <1>7, <1>8 DEF Part

LEMMA GrowsLocal ==
  ASSUME TypeOK, NEW r \in Reqs, Grows(r)
  PROVE  Local(r)
  BY TypeFacts DEF Grows, Local

\* So a step before the end has only to keep the types and what r itself knows.
LEMMA GrowsInv ==
  ASSUME IInv, NEW r \in Reqs, Grows(r), TypeOK', Part(r)'
  PROVE  IInv'
<1>1. FreeRowsClean'
  BY TypeFacts DEF IInv, FreeRowsClean, Grows
<1>2. RoundHistory' /\ VoucherHistory'
  BY DEF IInv, RoundHistory, VoucherHistory, Grows, Ghosts
<1>3. \A s \in Reqs : Part(s)'
  BY GrowsLocal, Frame DEF IInv
<1> QED BY <1>1, <1>2, <1>3 DEF IInv

-----------------------------------------------------------------------------
(* Records that move on *)

\* r goes to place p and keeps everything the invariant reads of it.
Moves(r, p) ==
  /\ req'[r].at = p
  /\ req'[r].op = req[r].op /\ req'[r].v = req[r].v /\ req'[r].g = req[r].g
  /\ req'[r].credited = req[r].credited /\ req'[r].paid = req[r].paid
  /\ \A s \in Reqs \ {r} : req'[s] = req[s]

LEMMA GotoMoves ==
  ASSUME TypeOK, NEW r \in Reqs, NEW p \in Places, req' = Goto(r, p)
  PROVE  Moves(r, p) /\ req' \in [Reqs -> Work]
<1>1. req' \in [Reqs -> Work]
  BY MoveTyped
<1>2. req \in [Reqs -> Work] /\ req[r] \in Work
  BY TypeFacts DEF TypeOK
<1>3. Moves(r, p)
  BY <1>2 DEF Moves, Goto, Work
<1> QED BY <1>1, <1>3

LEMMA AnswerMoves ==
  ASSUME TypeOK, NEW r \in Reqs, NEW st \in Statuses, req' = Answer(r, st)
  PROVE  Moves(r, "respond") /\ req' \in [Reqs -> Work]
<1>1. req' \in [Reqs -> Work]
  BY MoveTyped
<1>2. req \in [Reqs -> Work] /\ req[r] \in Work
  BY TypeFacts DEF TypeOK
<1>3. Moves(r, "respond")
  BY <1>2 DEF Moves, Answer, Work
<1> QED BY <1>1, <1>3

-----------------------------------------------------------------------------
(* Steps that only read *)

\* The rows stay and r moves from a place before "respond" to another one.
LEMMA QuietInv ==
  ASSUME IInv, NEW r \in Reqs, NEW p \in Places, UNCHANGED <<db, cur, lock, Ghosts>>,
         req' \in [Reqs -> Work], Moves(r, p), req[r].at \notin {"idle", "done", "respond"},
         p \notin {"idle", "done"},
         PathPart(r)', OwnsPart(r)', OrderPart(r)'
  PROVE  IInv'
<1>1. TypeOK'
  BY DEF IInv, TypeOK, Ghosts
<1>2. Grows(r)
  BY DEF Grows, Moves
<1>3. IdlePart(r)'
  BY DEF IdlePart, Moves
<1>4. RoundPart(r)'
  BY DEF IInv, Part, RoundPart, Moves
<1>5. VoucherPart(r)'
  BY DEF IInv, Part, VoucherPart, Moves, Running
<1>6. Part(r)'
  BY <1>3, <1>4, <1>5 DEF Part
<1> QED BY <1>1, <1>2, <1>6, GrowsInv

\* A request that is answered owns what it owned.
LEMMA QuietAnswer ==
  ASSUME IInv, NEW r \in Reqs, NEW st \in Statuses, UNCHANGED <<db, cur, lock, Ghosts>>,
         req' = Answer(r, st), req[r].at \notin {"idle", "done", "respond"}
  PROVE  IInv'
<1>1. Moves(r, "respond") /\ req' \in [Reqs -> Work] /\ "respond" \in Places
  BY AnswerMoves DEF IInv, Places
<1>2. PathPart(r)' /\ OwnsPart(r)'
  BY <1>1 DEF PathPart, OwnsPart, Moves
<1>3. OrderPart(r)'
  BY <1>1 DEF IInv, Part, OrderPart, Moves
<1> QED BY <1>1, <1>2, <1>3, QuietInv

LEMMA ReadVoucherInv ==
  ASSUME IInv, NEW r \in Reqs, ReadVoucher(r)
  PROVE  IInv'
<1>1. /\ req[r].at = "readVoucher" /\ req[r].op \in UnlockedRedeemers
      /\ UNCHANGED <<db, cur, lock, Ghosts>>
  BY DEF IInv, Part, PathPart, ReadVoucher, At
<1>2. ASSUME NEW p \in {"findUser", "readWallet"}, req' = Goto(r, p)
      PROVE IInv'
  <2>1. Moves(r, p) /\ req' \in [Reqs -> Work] /\ p \in Places
    BY <1>2, GotoMoves DEF IInv, Places
  <2>2. PathPart(r)' /\ OwnsPart(r)'
    BY <1>1, <2>1 DEF PathPart, OwnsPart, Moves, UnlockedRedeemers
  <2>3. ~Locking
    BY <1>1 DEF IInv, Part, VoucherPart, Running
  <2>4. OrderPart(r)'
    BY <2>3 DEF OrderPart, Locking
  <2> QED BY <1>1, <2>1, <2>2, <2>4, QuietInv
<1>3. ASSUME NEW st \in Statuses, req' = Answer(r, st)
      PROVE IInv'
  BY <1>1, <1>3, QuietAnswer
<1>4. \/ req' = Goto(r, "findUser") \/ req' = Goto(r, "readWallet")
      \/ req' = Answer(r, 200) \/ req' = Answer(r, 404)
  BY DEF ReadVoucher
<1> QED BY <1>2, <1>3, <1>4 DEF Statuses

LEMMA ReadWalletInv ==
  ASSUME IInv, NEW r \in Reqs, ReadWallet(r)
  PROVE  IInv'
<1> DEFINE p == IF req[r].op \in {"bet", "settle"} THEN "lockActive" ELSE "saveWallet"
<1>1. /\ req[r].at = "readWallet" /\ UNCHANGED <<db, cur, lock, Ghosts>>
      /\ req' = [req EXCEPT ![r].seen = db["wallet"], ![r].at = p]
  BY DEF ReadWallet, At
<1>2. p \in Places /\ p \in {"lockActive", "saveWallet"}
  BY DEF Places
<1>3. /\ req \in [Reqs -> Work] /\ req[r] \in Work /\ db["wallet"] \in WalletRow
  BY TypeFacts DEF IInv, TypeOK
<1>4. [req[r] EXCEPT !.seen = db["wallet"]] \in Work
  BY <1>3, WorkTyped
<1>5. [[req[r] EXCEPT !.seen = db["wallet"]] EXCEPT !.at = p] \in Work
  <2> HIDE DEF p
  <2> QED BY <1>2, <1>4, WorkTyped
<1>6. req' \in [Reqs -> Work]
  BY <1>1, <1>3, <1>5
<1>7. Moves(r, p)
  BY <1>1, <1>3 DEF Moves, Work
<1>8. PathPart(r)' /\ OwnsPart(r)'
  BY <1>1, <1>7 DEF IInv, Part, PathPart, OwnsPart, Moves
<1>9. OrderPart(r)'
  BY <1>1, <1>7 DEF IInv, Part, OrderPart, Moves, Redeemers
<1> QED
  <2> HIDE DEF p
  <2> QED BY <1>1, <1>2, <1>6, <1>7, <1>8, <1>9, QuietInv

LEMMA RefuseSpendInv ==
  ASSUME IInv, NEW r \in Reqs, RefuseSpend(r)
  PROVE  IInv'
  BY QuietAnswer DEF RefuseSpend, At, Statuses

LEMMA BeginInv ==
  ASSUME IInv, NEW r \in Reqs, Begin(r)
  PROVE  IInv'
<1>1. PICK op \in Menu, v \in Vouchers, g \in Rounds \cup {NoRound}, a \in Stakes :
        /\ op = "settle" <=> g # NoRound
        /\ \E p \in FirstPlaces(op) : req' = Arrived(r, op, v, g, a, p)
  BY DEF Begin
<1> PICK p \in FirstPlaces(op) : req' = Arrived(r, op, v, g, a, p)
  BY <1>1
<1>2. /\ req[r].at = "idle" /\ UNCHANGED <<db, cur, lock, Ghosts>>
      /\ req \in [Reqs -> Work] /\ req[r] \in Work
  BY TypeFacts DEF Begin, At, IInv, TypeOK
<1>3. /\ \A x \in Rows : lock[x] # r
      /\ req[r].credited = {} /\ req[r].paid = {}
  BY <1>2 DEF IInv, Part, IdlePart
<1>4. op \in Ops /\ a \in Int /\ p \in Places
  BY MenuAssumption, AmountsAssumption DEF FirstPlaces, SessionPlaces, Places
<1>5. /\ req' \in [Reqs -> Work]
      /\ req'[r].op = op /\ req'[r].v = v /\ req'[r].g = g /\ req'[r].at = p
      /\ req'[r].credited = {} /\ req'[r].paid = {}
      /\ \A s \in Reqs \ {r} : req'[s] = req[s]
  BY <1>1, <1>2, <1>3, <1>4 DEF Work, Arrived
<1>6. TypeOK' /\ Grows(r)
  BY <1>2, <1>5 DEF IInv, TypeOK, Grows, Ghosts
<1>7. /\ p \in {"readVoucher", "lockVoucher", "lockRound", "saveSession", "readWallet"}
      /\ p = "readVoucher" => op \in UnlockedRedeemers
      /\ p = "lockVoucher" => op \in {"staffRedeem", "walletRedeem", "terminate"}
      /\ p = "lockRound" => op = "settle"
      /\ p = "saveSession" => op = "bet"
      /\ p = "readWallet" => op \notin Redeemers \cup {"settle"}
  BY DEF FirstPlaces, SessionPlaces, Redeemers, UnlockedRedeemers
<1>8. IdlePart(r)' /\ PathPart(r)' /\ OwnsPart(r)'
  BY <1>1, <1>5, <1>7 DEF IdlePart, PathPart, OwnsPart
<1>9. RoundPart(r)' /\ OrderPart(r)'
  BY <1>2, <1>3, <1>5, RowNames DEF RoundPart, OrderPart
<1>10. VoucherPart(r)'
  BY <1>2, <1>3, <1>5, RowNames DEF VoucherPart, Locking
<1> QED BY <1>6, <1>8, <1>9, <1>10, GrowsInv DEF Part

-----------------------------------------------------------------------------
(* Steps that take one row *)

LEMMA TakeGrows ==
  ASSUME IInv, NEW r \in Reqs, NEW x \in Rows, lock[x] \in {NoReq, r},
         lock' = [lock EXCEPT ![x] = r], UNCHANGED <<db, Ghosts>>,
         \A y \in Rows : y # x => cur'[y] = cur[y],
         \A s \in Reqs \ {r} : req'[s] = req[s],
         req' \in [Reqs -> Work], RowsOK(cur')
  PROVE  /\ TypeOK' /\ Grows(r)
         /\ \A y \in Rows : lock'[y] = IF y = x THEN r ELSE lock[y]
<1>1. \A y \in Rows : lock'[y] = IF y = x THEN r ELSE lock[y]
  BY DEF IInv, TypeOK
<1>2. Grows(r)
  BY <1>1 DEF Grows
<1>3. TypeOK'
  BY LockTyped DEF IInv, TypeOK, Ghosts
<1> QED BY <1>1, <1>2, <1>3

\* Before it is stopped at "respond" a request has recorded nothing yet.
LEMMA NothingYet ==
  ASSUME IInv, NEW r \in Reqs, req[r].at \notin {"idle", "done", "respond"}
  PROVE  /\ req[r].paid = {}
         /\ \A g \in Rounds : lock[g] = r => cur[g].status = db[g].status \/ db[g].status = "none"
         /\ Locking => /\ req[r].credited = {}
                       /\ req[r].op \notin UnlockedRedeemers
                       /\ \A v \in Vouchers : lock[v] = r => cur[v].status = db[v].status
<1>1. RoundPart(r) /\ VoucherPart(r)
  BY DEF IInv, Part
<1> QED BY <1>1 DEF RoundPart, VoucherPart, Running

LEMMA LockNewVoucherInv ==
  ASSUME IInv, NEW r \in Reqs, LockNewVoucher(r)
  PROVE  IInv'
<1> DEFINE v == req[r].v
<1>1. /\ req[r].at = "lockVoucher" /\ req[r].op \in {"staffRedeem", "walletRedeem"}
      /\ UNCHANGED <<db, cur, Ghosts>> /\ v \in Vouchers /\ v \in Rows
  BY TypeFacts, RowNames DEF LockNewVoucher, At, IInv, Part, PathPart, Work
<1>2. CASE /\ db[v].status = "new" /\ lock[v] = NoReq
           /\ lock' = [lock EXCEPT ![v] = r]
           /\ req' = Goto(r, "readWallet")
  <2>1. Moves(r, "readWallet") /\ req' \in [Reqs -> Work]
    BY <1>2, GotoMoves DEF IInv, Places
  <2>2. /\ TypeOK' /\ Grows(r)
        /\ \A y \in Rows : lock'[y] = IF y = v THEN r ELSE lock[y]
    BY <1>1, <1>2, <2>1, TakeGrows DEF Moves, IInv, TypeOK
  <2>3. IdlePart(r)' /\ PathPart(r)'
    BY <1>1, <2>1 DEF IdlePart, PathPart, Moves
  <2>4. OwnsPart(r)'
    BY <1>1, <1>2, <2>1, <2>2 DEF OwnsPart, Moves
  <2>5. cur[v] = db[v]
    BY <1>1, <1>2 DEF IInv, FreeRowsClean
  <2>6. RoundPart(r)' /\ VoucherPart(r)'
    BY <1>1, <2>1, <2>2, <2>5, NothingYet, RowNames DEF RoundPart, VoucherPart, Running, Moves
  <2>7. OrderPart(r)'
    BY <1>1, <2>1, <2>2, RowNames DEF IInv, Part, OrderPart, Moves, Redeemers
  <2> QED BY <2>2, <2>3, <2>4, <2>6, <2>7, GrowsInv DEF Part
<1>3. CASE req' = Answer(r, 404) /\ UNCHANGED lock
  BY <1>1, <1>3, QuietAnswer DEF Statuses
<1> QED BY <1>2, <1>3 DEF LockNewVoucher

LEMMA LockAnyVoucherInv ==
  ASSUME IInv, NEW r \in Reqs, LockAnyVoucher(r)
  PROVE  IInv'
<1> DEFINE v == req[r].v
<1>1. /\ req[r].at = "lockVoucher" /\ req[r].op = "terminate"
      /\ UNCHANGED <<db, Ghosts>> /\ v \in Vouchers /\ v \in Rows
      /\ lock[v] = NoReq /\ lock' = [lock EXCEPT ![v] = r]
      /\ cur[v] = db[v]
  BY TypeFacts, RowNames DEF LockAnyVoucher, At, IInv, Work, FreeRowsClean
<1>2. CASE req' = Goto(r, "lockWallet") /\ UNCHANGED cur /\ db[v].status # "terminated"
  <2>1. Moves(r, "lockWallet") /\ req' \in [Reqs -> Work]
    BY <1>2, GotoMoves DEF IInv, Places
  <2>2. /\ TypeOK' /\ Grows(r)
        /\ \A y \in Rows : lock'[y] = IF y = v THEN r ELSE lock[y]
    BY <1>1, <1>2, <2>1, TakeGrows DEF Moves, IInv, TypeOK
  <2>3. IdlePart(r)' /\ PathPart(r)' /\ OwnsPart(r)'
    BY <1>1, <1>2, <2>1, <2>2 DEF IdlePart, PathPart, OwnsPart, Moves
  <2>6. RoundPart(r)' /\ VoucherPart(r)'
    BY <1>1, <1>2, <2>1, <2>2, NothingYet, RowNames DEF RoundPart, VoucherPart, Running, Moves
  <2>7. OrderPart(r)'
    BY <1>1, <2>1, <2>2, RowNames DEF IInv, Part, OrderPart, Moves
  <2> QED BY <2>2, <2>3, <2>6, <2>7, GrowsInv DEF Part
<1>3. ASSUME NEW st \in Statuses, req' = Answer(r, st),
             cur' = cur \/ cur' = [cur EXCEPT ![v].status = "terminated"]
      PROVE IInv'
  <2>1. Moves(r, "respond") /\ req' \in [Reqs -> Work]
    BY <1>3, AnswerMoves DEF IInv
  <2>2. /\ RowsOK(cur') /\ \A y \in Rows : y # v => cur'[y] = cur[y]
        /\ cur'[v].status \in {cur[v].status, "terminated"}
    <3>1. cur[v] \in VoucherRow /\ DOMAIN cur = Rows /\ RowsOK(cur)
      BY <1>1, TypeFacts DEF IInv, TypeOK, RowsOK
    <3>2. [cur[v] EXCEPT !.status = "terminated"] \in VoucherRow
      BY <3>1 DEF VoucherRow
    <3>3. [cur EXCEPT ![v].status = "terminated"] = [cur EXCEPT ![v] = [cur[v] EXCEPT !.status = "terminated"]]
      BY <1>1, <3>1
    <3>4. RowsOK([cur EXCEPT ![v].status = "terminated"])
      BY <1>1, <3>1, <3>2, <3>3, VoucherRowTyped
    <3> QED BY <1>1, <1>3, <3>1, <3>2, <3>3, <3>4 DEF VoucherRow
  <2>3. /\ TypeOK' /\ Grows(r)
        /\ \A y \in Rows : lock'[y] = IF y = v THEN r ELSE lock[y]
    BY <1>1, <2>1, <2>2, TakeGrows DEF Moves, IInv, TypeOK
  <2>4. IdlePart(r)' /\ PathPart(r)' /\ OwnsPart(r)'
    BY <1>1, <2>1 DEF IdlePart, PathPart, OwnsPart, Moves
  <2>5. RoundPart(r)' /\ VoucherPart(r)'
    BY <1>1, <2>1, <2>2, <2>3, NothingYet, RowNames DEF RoundPart, VoucherPart, Running, Moves
  <2>6. OrderPart(r)'
    BY <1>1, <2>1, <2>3, RowNames DEF IInv, Part, OrderPart, Moves
  <2> QED BY <2>3, <2>4, <2>5, <2>6, GrowsInv DEF Part
<1> QED BY <1>2, <1>3 DEF LockAnyVoucher, Statuses

LEMMA LockRoundInv ==
  ASSUME IInv, NEW r \in Reqs, LockRound(r)
  PROVE  IInv'
<1> DEFINE g == req[r].g
<1>1. /\ req[r].at = "lockRound" /\ req[r].op = "settle"
      /\ UNCHANGED <<db, cur, Ghosts>> /\ g \in Rounds /\ g \in Rows
      /\ db[g].status \in {"none", "pending", "settled"}
  BY RowNames DEF LockRound, At, IInv, Part, PathPart, TypeOK, RowsOK, RoundRow
<1>2. CASE req' = Answer(r, 404) /\ UNCHANGED lock
  BY <1>1, <1>2, QuietAnswer DEF Statuses
<1>3. CASE /\ db[g].status # "none" /\ lock[g] = NoReq /\ lock' = [lock EXCEPT ![g] = r]
           /\ \/ db[g].status = "settled" /\ req' = Answer(r, 400)
              \/ db[g].status # "settled" /\ \E place \in SessionPlaces : req' = Goto(r, place)
  <2>1. PICK p \in {"respond", "readWallet", "saveSession"} :
          /\ Moves(r, p) /\ req' \in [Reqs -> Work]
          /\ p # "respond" => db[g].status = "pending"
    <3>1. CASE db[g].status = "settled" /\ req' = Answer(r, 400)
      BY <3>1, AnswerMoves DEF IInv, Statuses
    <3>2. ASSUME db[g].status # "settled", NEW place \in SessionPlaces, req' = Goto(r, place)
          PROVE  /\ place \in {"readWallet", "saveSession"} /\ Moves(r, place)
                 /\ req' \in [Reqs -> Work] /\ db[g].status = "pending"
      <4>1. place \in {"readWallet", "saveSession"} /\ place \in Places
        BY DEF SessionPlaces, Places
      <4> QED BY <1>1, <1>3, <3>2, <4>1, GotoMoves DEF IInv
    <3> QED BY <1>3, <3>1, <3>2
  <2>2. /\ TypeOK' /\ Grows(r)
        /\ \A y \in Rows : lock'[y] = IF y = g THEN r ELSE lock[y]
    BY <1>1, <1>3, <2>1, TakeGrows DEF Moves, IInv, TypeOK
  <2>3. IdlePart(r)' /\ PathPart(r)' /\ OwnsPart(r)'
    BY <1>1, <2>1, <2>2 DEF IdlePart, PathPart, OwnsPart, Moves, Redeemers
  <2>4. cur[g] = db[g]
    BY <1>1, <1>3 DEF IInv, FreeRowsClean
  <2>5. RoundPart(r)' /\ VoucherPart(r)'
    BY <1>1, <2>1, <2>2, <2>4, NothingYet, RowNames
       DEF RoundPart, VoucherPart, Running, Moves
  <2>6. OrderPart(r)'
    BY <1>1, <2>1, <2>2, RowNames DEF IInv, Part, OrderPart, Moves
  <2> QED BY <2>2, <2>3, <2>5, <2>6, GrowsInv DEF Part
<1> QED BY <1>2, <1>3 DEF LockRound

LEMMA SaveSessionInv ==
  ASSUME IInv, NEW r \in Reqs, SaveSession(r)
  PROVE  IInv'
<1>1. /\ req[r].at = "saveSession" /\ req[r].op \in {"bet", "settle"}
      /\ UNCHANGED <<db, cur, Ghosts>>
      /\ lock["session"] = NoReq /\ lock' = [lock EXCEPT !["session"] = r]
  BY DEF SaveSession, At, IInv, Part, PathPart
<1>2. Moves(r, "readWallet") /\ req' \in [Reqs -> Work]
  BY GotoMoves DEF SaveSession, IInv, Places
<1>3. /\ TypeOK' /\ Grows(r)
      /\ \A y \in Rows : lock'[y] = IF y = "session" THEN r ELSE lock[y]
  BY <1>1, <1>2, TakeGrows, RowNames DEF Moves, IInv, TypeOK
<1>4. IdlePart(r)' /\ PathPart(r)'
  BY <1>1, <1>2 DEF IdlePart, PathPart, Moves
<1>5. OwnsPart(r)'
  BY <1>1, <1>2, <1>3, RowNames DEF IInv, Part, OwnsPart, Moves, Redeemers
<1>6. RoundPart(r)' /\ VoucherPart(r)'
  BY <1>1, <1>2, <1>3, NothingYet, RowNames DEF RoundPart, VoucherPart, Running, Moves
<1>7. OrderPart(r)'
  BY <1>1, <1>2, <1>3, RowNames DEF IInv, Part, OrderPart, Moves
<1> QED BY <1>3, <1>4, <1>5, <1>6, <1>7, GrowsInv DEF Part

LEMMA FindUserInv ==
  ASSUME IInv, NEW r \in Reqs, FindUser(r)
  PROVE  IInv'
<1>1. /\ req[r].at = "findUser" /\ req[r].op \in UnlockedRedeemers /\ UNCHANGED <<db, Ghosts>>
  BY DEF FindUser, At, IInv, Part, PathPart
<1>2. ~Locking
  BY <1>1, NothingYet
<1>3. PICK p \in {"readWallet", "respond"} : Moves(r, p) /\ req' \in [Reqs -> Work]
  BY AnswerMoves, GotoMoves DEF FindUser, IInv, Places, Statuses
<1>4. IdlePart(r)' /\ PathPart(r)' /\ OwnsPart(r)'
  BY <1>1, <1>3 DEF IdlePart, PathPart, OwnsPart, Moves, UnlockedRedeemers
<1>5. VoucherPart(r)' /\ OrderPart(r)'
  BY <1>2 DEF VoucherPart, OrderPart, Locking
<1>6. CASE lock["user"] = NoReq /\ lock' = [lock EXCEPT !["user"] = r]
           /\ cur' = [cur EXCEPT !["user"].status = "active"]
  <2>1. cur["user"] \in UserRow /\ DOMAIN cur = Rows /\ RowsOK(cur) /\ "user" \in Rows
    BY TypeFacts, RowNames DEF IInv, TypeOK, RowsOK
  <2>2. [cur["user"] EXCEPT !.status = "active"] \in UserRow
    BY <2>1 DEF UserRow
  <2>3. /\ cur' = [cur EXCEPT !["user"] = [cur["user"] EXCEPT !.status = "active"]]
        /\ \A y \in Rows : y # "user" => cur'[y] = cur[y]
    BY <1>6, <2>1
  <2>4. RowsOK(cur')
    BY <2>1, <2>2, <2>3, UserRowTyped
  <2>5. /\ TypeOK' /\ Grows(r)
        /\ \A y \in Rows : lock'[y] = IF y = "user" THEN r ELSE lock[y]
    BY <1>1, <1>3, <1>6, <2>1, <2>3, <2>4, TakeGrows DEF Moves
  <2>6. RoundPart(r)'
    BY <1>1, <1>3, <2>3, <2>5, NothingYet, RowNames DEF RoundPart, Moves
  <2> QED BY <1>4, <1>5, <2>5, <2>6, GrowsInv DEF Part
<1>7. CASE UNCHANGED <<cur, lock>>
  BY <1>1, <1>3, <1>4, <1>5, <1>7, QuietInv DEF Places
<1> QED BY <1>6, <1>7 DEF FindUser

LEMMA LinkWalletInv ==
  ASSUME IInv, NEW r \in Reqs, LinkWallet(r)
  PROVE  IInv'
<1>1. /\ req[r].at = "linkWallet" /\ req[r].op \in {"bet", "settle"} /\ UNCHANGED <<db, Ghosts>>
      /\ lock["wallet"] = NoReq /\ lock' = [lock EXCEPT !["wallet"] = r]
      /\ cur' = [cur EXCEPT !["wallet"].active = req[r].v]
  BY DEF LinkWallet, At, IInv, Part, PathPart
<1>2. Moves(r, "saveWallet") /\ req' \in [Reqs -> Work]
  BY GotoMoves DEF LinkWallet, IInv, Places
<1>3. /\ cur["wallet"] \in WalletRow /\ DOMAIN cur = Rows /\ RowsOK(cur) /\ "wallet" \in Rows
      /\ req[r].v \in Vouchers
  BY TypeFacts, RowNames DEF IInv, TypeOK, RowsOK, Work
<1>4. [cur["wallet"] EXCEPT !.active = req[r].v] \in WalletRow
  BY <1>3 DEF WalletRow
<1>5. /\ cur' = [cur EXCEPT !["wallet"] = [cur["wallet"] EXCEPT !.active = req[r].v]]
      /\ \A y \in Rows : y # "wallet" => cur'[y] = cur[y]
  BY <1>1, <1>3
<1>6. RowsOK(cur')
  BY <1>3, <1>4, <1>5, WalletRowTyped
<1>7. /\ TypeOK' /\ Grows(r)
      /\ \A y \in Rows : lock'[y] = IF y = "wallet" THEN r ELSE lock[y]
  BY <1>1, <1>2, <1>3, <1>5, <1>6, TakeGrows DEF Moves
<1>8. IdlePart(r)' /\ PathPart(r)'
  BY <1>1, <1>2 DEF IdlePart, PathPart, Moves
<1>9. OwnsPart(r)'
  BY <1>1, <1>2, <1>7, RowNames DEF IInv, Part, OwnsPart, Moves, Redeemers
<1>10. RoundPart(r)' /\ VoucherPart(r)'
  BY <1>1, <1>2, <1>5, <1>7, NothingYet, RowNames DEF RoundPart, VoucherPart, Running, Moves
<1>11. OrderPart(r)'
  BY <1>1, <1>2, <1>7, RowNames DEF IInv, Part, OrderPart, Moves
<1> QED BY <1>7, <1>8, <1>9, <1>10, <1>11, GrowsInv DEF Part

LEMMA LockWalletInv ==
  ASSUME IInv, NEW r \in Reqs, LockWallet(r)
  PROVE  IInv'
<1>1. /\ req[r].at = "lockWallet" /\ req[r].op = "terminate" /\ UNCHANGED <<db, cur, Ghosts>>
      /\ lock["wallet"] = NoReq /\ lock' = [lock EXCEPT !["wallet"] = r]
      /\ req' = [req EXCEPT ![r].seen = db["wallet"], ![r].at = "lockUser"]
  BY DEF LockWallet, At, IInv, Part, PathPart
<1>2. Moves(r, "lockUser") /\ req' \in [Reqs -> Work]
  <2>1. /\ req \in [Reqs -> Work] /\ req[r] \in Work /\ db["wallet"] \in WalletRow
    BY TypeFacts DEF IInv, TypeOK
  <2>2. [req[r] EXCEPT !.seen = db["wallet"]] \in Work
    BY <2>1, WorkTyped
  <2>3. [[req[r] EXCEPT !.seen = db["wallet"]] EXCEPT !.at = "lockUser"] \in Work
    BY <2>2, WorkTyped DEF Places
  <2>4. req' \in [Reqs -> Work]
    BY <1>1, <2>1, <2>3
  <2> QED BY <1>1, <2>1, <2>4 DEF Moves, Work
<1>3. RowsOK(cur') /\ "wallet" \in Rows /\ req[r].v \in Vouchers
  BY <1>1, TypeFacts, RowNames DEF IInv, TypeOK, Work
<1>4. /\ TypeOK' /\ Grows(r)
      /\ \A y \in Rows : lock'[y] = IF y = "wallet" THEN r ELSE lock[y]
  BY <1>1, <1>2, <1>3, TakeGrows DEF Moves
<1>5. IdlePart(r)' /\ PathPart(r)'
  BY <1>1, <1>2 DEF IdlePart, PathPart, Moves
<1>6. OwnsPart(r)'
  BY <1>1, <1>2, <1>3, <1>4, RowNames DEF IInv, Part, OwnsPart, Moves
<1>7. RoundPart(r)' /\ VoucherPart(r)'
  BY <1>1, <1>2, <1>4, NothingYet, RowNames DEF RoundPart, VoucherPart, Running, Moves
<1>8. OrderPart(r)'
  BY <1>1, <1>2, <1>4, RowNames DEF IInv, Part, OrderPart, Moves
<1> QED BY <1>4, <1>5, <1>6, <1>7, <1>8, GrowsInv DEF Part

LEMMA LockUserInv ==
  ASSUME IInv, NEW r \in Reqs, LockUser(r)
  PROVE  IInv'
<1>1. /\ req[r].at = "lockUser" /\ req[r].op = "terminate" /\ UNCHANGED <<db, cur, Ghosts>>
      /\ lock["user"] = NoReq /\ lock' = [lock EXCEPT !["user"] = r]
  BY DEF LockUser, At, IInv, Part, PathPart
<1>2. Moves(r, "revokeSession") /\ req' \in [Reqs -> Work] /\ req[r].v \in Vouchers
  BY GotoMoves, TypeFacts DEF LockUser, IInv, Places, Work
<1>3. /\ TypeOK' /\ Grows(r)
      /\ \A y \in Rows : lock'[y] = IF y = "user" THEN r ELSE lock[y]
  BY <1>1, <1>2, TakeGrows, RowNames DEF Moves, IInv, TypeOK
<1>4. IdlePart(r)' /\ PathPart(r)'
  BY <1>1, <1>2 DEF IdlePart, PathPart, Moves
<1>5. OwnsPart(r)'
  BY <1>1, <1>2, <1>3, RowNames DEF IInv, Part, OwnsPart, Moves
<1>6. RoundPart(r)' /\ VoucherPart(r)'
  BY <1>1, <1>2, <1>3, NothingYet, RowNames DEF RoundPart, VoucherPart, Running, Moves
<1>7. OrderPart(r)'
  BY <1>1, <1>2, <1>3, RowNames DEF IInv, Part, OrderPart, Moves
<1> QED BY <1>3, <1>4, <1>5, <1>6, <1>7, GrowsInv DEF Part

LEMMA SaveVoucherInv ==
  ASSUME IInv, NEW r \in Reqs, SaveVoucher(r)
  PROVE  IInv'
<1> DEFINE v == req[r].v
<1>1. /\ req[r].at = "saveVoucher" /\ req[r].op \in UnlockedRedeemers /\ UNCHANGED <<db, Ghosts>>
      /\ lock[v] = NoReq /\ lock' = [lock EXCEPT ![v] = r] /\ cur' = [cur EXCEPT ![v] = UsedVoucher]
      /\ v \in Vouchers /\ v \in Rows
  BY TypeFacts, RowNames DEF SaveVoucher, At, IInv, Part, PathPart, Work
<1>2. ~Locking
  BY <1>1, NothingYet
<1>3. Moves(r, "respond") /\ req' \in [Reqs -> Work]
  BY AnswerMoves DEF SaveVoucher, IInv, Statuses
<1>4. RowsOK(cur') /\ \A y \in Rows : y # v => cur'[y] = cur[y]
  BY <1>1, TypeFacts, VoucherRowTyped DEF IInv, TypeOK, UsedVoucher, VoucherRow
<1>5. /\ TypeOK' /\ Grows(r)
      /\ \A y \in Rows : lock'[y] = IF y = v THEN r ELSE lock[y]
  BY <1>1, <1>3, <1>4, TakeGrows DEF Moves
<1>6. IdlePart(r)' /\ PathPart(r)' /\ OwnsPart(r)'
  BY <1>1, <1>3 DEF IdlePart, PathPart, OwnsPart, Moves
<1>7. VoucherPart(r)' /\ OrderPart(r)'
  BY <1>2 DEF VoucherPart, OrderPart, Locking
<1>8. RoundPart(r)'
  BY <1>1, <1>3, <1>4, <1>5, NothingYet, RowNames DEF RoundPart, Moves
<1> QED BY <1>5, <1>6, <1>7, <1>8, GrowsInv DEF Part

LEMMA LockActiveInv ==
  ASSUME IInv, NEW r \in Reqs, LockActive(r)
  PROVE  IInv'
<1>1. /\ req[r].at = "lockActive" /\ req[r].op \in {"bet", "settle"}
      /\ UNCHANGED <<db, cur, Ghosts>>
      /\ req \in [Reqs -> Work] /\ req[r] \in Work /\ req[r].seen.active \in Vouchers \cup {NoVoucher}
  BY TypeFacts DEF LockActive, At, IInv, TypeOK, Part, PathPart, Work, WalletRow
<1>2. ASSUME NEW v \in Vouchers, NEW p \in {"saveWallet", "linkWallet"},
             lock[v] = NoReq, lock' = [lock EXCEPT ![v] = r], req' \in [Reqs -> Work],
             req'[r].at = p, req'[r].op = req[r].op, req'[r].g = req[r].g,
             req'[r].credited = req[r].credited, req'[r].paid = req[r].paid,
             \A s \in Reqs \ {r} : req'[s] = req[s]
      PROVE  IInv'
  <2>1. v \in Rows /\ cur[v] = db[v] /\ RowsOK(cur')
    BY <1>1, <1>2, RowNames DEF IInv, FreeRowsClean, TypeOK
  <2>2. /\ TypeOK' /\ Grows(r)
        /\ \A y \in Rows : lock'[y] = IF y = v THEN r ELSE lock[y]
    BY <1>1, <1>2, <2>1, TakeGrows
  <2>3. IdlePart(r)' /\ PathPart(r)'
    BY <1>1, <1>2 DEF IdlePart, PathPart
  <2>4. OwnsPart(r)'
    BY <1>1, <1>2, <2>2, RowNames DEF IInv, Part, OwnsPart, Redeemers
  <2>5. RoundPart(r)'
    BY <1>1, <1>2, <2>2, NothingYet, RowNames DEF RoundPart
  <2>6. VoucherPart(r)'
    BY <1>1, <1>2, <2>1, <2>2, NothingYet, RowNames DEF VoucherPart, Running
  <2>7. OrderPart(r)'
    BY <1>1, <1>2, <2>2, RowNames DEF IInv, Part, OrderPart
  <2> QED BY <2>2, <2>3, <2>4, <2>5, <2>6, <2>7, GrowsInv DEF Part
<1>3. ASSUME NEW v \in Vouchers, lock[v] = NoReq, lock' = [lock EXCEPT ![v] = r],
             req' = Goto(r, "saveWallet")
      PROVE  IInv'
  <2>1. Moves(r, "saveWallet") /\ req' \in [Reqs -> Work]
    BY <1>3, GotoMoves DEF IInv, Places
  <2> QED BY <1>2, <1>3, <2>1 DEF Moves
<1>4. ASSUME NEW v \in Vouchers, lock[v] = NoReq, lock' = [lock EXCEPT ![v] = r],
             req' = [req EXCEPT ![r].v = v, ![r].at = "linkWallet"]
      PROVE  IInv'
  <2>1. [req[r] EXCEPT !.v = v] \in Work
    BY <1>1, WorkTyped
  <2>2. [[req[r] EXCEPT !.v = v] EXCEPT !.at = "linkWallet"] \in Work
    BY <2>1, WorkTyped DEF Places
  <2>3. req' \in [Reqs -> Work]
    BY <1>1, <1>4, <2>2
  <2>4. /\ req'[r].at = "linkWallet" /\ req'[r].op = req[r].op /\ req'[r].g = req[r].g
        /\ req'[r].credited = req[r].credited /\ req'[r].paid = req[r].paid
        /\ \A s \in Reqs \ {r} : req'[s] = req[s]
    BY <1>1, <1>4 DEF Work
  <2> QED BY <1>2, <1>4, <2>3, <2>4
<1>5. CASE req' = Answer(r, 403) /\ UNCHANGED lock
  BY <1>1, <1>5, QuietAnswer DEF Statuses
<1>6. \/ /\ req[r].seen.active # NoVoucher /\ lock[req[r].seen.active] = NoReq
         /\ lock' = [lock EXCEPT ![req[r].seen.active] = r] /\ req' = Goto(r, "saveWallet")
      \/ \E v \in Vouchers : /\ lock[v] = NoReq /\ lock' = [lock EXCEPT ![v] = r]
                             /\ req' = [req EXCEPT ![r].v = v, ![r].at = "linkWallet"]
      \/ req' = Answer(r, 403) /\ UNCHANGED lock
  BY DEF LockActive, Redeemed
<1> QED BY <1>1, <1>3, <1>4, <1>5, <1>6

-----------------------------------------------------------------------------
(* Steps that save the wallet *)

LEMMA StoredTyped ==
  ASSUME IInv, NEW r \in Reqs, NEW w \in WalletRow
  PROVE  Stored(r, w) \in WalletRow
<1>1. cur["wallet"] \in WalletRow
  BY TypeFacts DEF IInv
<1>2. cur["wallet"].pending \in Nat /\ cur["wallet"].active \in Vouchers \cup {NoVoucher}
  BY <1>1 DEF WalletRow
<1>3. w.balance \in Int /\ w.pending \in Nat /\ w.active \in Vouchers \cup {NoVoucher}
  BY DEF WalletRow
<1> QED BY <1>2, <1>3 DEF Stored, WalletRow

LEMMA BonusTyped ==
  ASSUME NEW w \in WalletRow
  PROVE  WithBonus(w) \in WalletRow
<1>1. w.balance + w.pending \in Int /\ 0 \in Nat
  BY DEF WalletRow
<1>2. [w EXCEPT !.balance = w.balance + w.pending, !.pending = 0] \in WalletRow
  BY <1>1 DEF WalletRow
<1> QED BY <1>2 DEF WithBonus

\* Saving the wallet and nothing else, or the wallet and one more row.
LEMMA SaveAlone ==
  ASSUME IInv, NEW r \in Reqs, NEW w \in WalletRow, SaveRows(r, w, <<>>),
         req' \in [Reqs -> Work], \A s \in Reqs \ {r} : req'[s] = req[s]
  PROVE  /\ TypeOK' /\ Grows(r) /\ UNCHANGED db
         /\ \A y \in Rows : lock'[y] = IF y = "wallet" THEN r ELSE lock[y]
         /\ \A y \in Rows \ {"wallet"} : cur'[y] = cur[y]
<1>1. Stored(r, w) \in WalletRow /\ RowsOK(cur) /\ DOMAIN cur = Rows /\ "wallet" \in Rows
  BY StoredTyped, TypeFacts, RowNames DEF IInv, TypeOK
<1>2. \A y \in Rows : y \notin DOMAIN <<>>
  OBVIOUS
<1>3. /\ cur' = [cur EXCEPT !["wallet"] = Stored(r, w)]
      /\ lock' = [lock EXCEPT !["wallet"] = r]
      /\ lock["wallet"] \in {NoReq, r} /\ UNCHANGED <<db, Ghosts>>
  <2>1. cur \in [Rows -> UserRow \cup WalletRow \cup VoucherRow \cup RoundRow \cup SessionRow]
        /\ lock \in [Rows -> Reqs \cup {NoReq}]
    BY DEF IInv, TypeOK, RowsOK
  <2> QED BY <1>1, <1>2, <2>1 DEF SaveRows
<1>4. RowsOK(cur')
  BY <1>1, <1>3, WalletRowTyped
<1> QED BY <1>1, <1>3, <1>4, TakeGrows

\* The update of one row, and the rows after it.
Only(x, row) == [y \in {x} |-> row]
Updated(x, row) == [cur EXCEPT ![x] = row]

LEMMA SaveBoth ==
  ASSUME IInv, NEW r \in Reqs, NEW w \in WalletRow, NEW x \in Vouchers \cup Rounds,
         NEW row \in VoucherRow \cup RoundRow,
         lock[x] \in {NoReq, r}, RowsOK(Updated(x, row)),
         SaveRows(r, w, Only(x, row)),
         req' \in [Reqs -> Work], \A s \in Reqs \ {r} : req'[s] = req[s]
  PROVE  /\ TypeOK' /\ Grows(r) /\ UNCHANGED db
         /\ \A y \in Rows : lock'[y] = IF y = "wallet" \/ y = x THEN r ELSE lock[y]
         /\ \A y \in Rows \ {"wallet"} : cur'[y] = IF y = x THEN row ELSE cur[y]
<1> DEFINE c == [cur EXCEPT ![x] = row]
<1>1. /\ Stored(r, w) \in WalletRow /\ DOMAIN cur = Rows /\ DOMAIN lock = Rows
      /\ "wallet" \in Rows /\ x \in Rows /\ x # "wallet"
  BY StoredTyped, TypeFacts, RowNames DEF IInv, TypeOK
<1>2. DOMAIN Only(x, row) = {x} /\ Only(x, row)[x] = row
  BY DEF Only
<1>3. /\ lock' = [y \in Rows |-> IF y = "wallet" \/ y = x THEN r ELSE lock[y]]
      /\ cur' = [y \in Rows |-> CASE y = "wallet" -> Stored(r, w) [] y = x -> row [] OTHER -> cur[y]]
      /\ lock["wallet"] \in {NoReq, r} /\ UNCHANGED <<db, Ghosts>>
  BY <1>2 DEF SaveRows
<1>4. /\ \A y \in Rows : lock'[y] = IF y = "wallet" \/ y = x THEN r ELSE lock[y]
      /\ \A y \in Rows \ {"wallet"} : cur'[y] = IF y = x THEN row ELSE cur[y]
  BY <1>3
<1>5. RowsOK(cur')
  <2>1. cur' = [c EXCEPT !["wallet"] = Stored(r, w)]
    BY <1>1, <1>3
  <2>2. RowsOK(c)
    BY DEF Updated
  <2> HIDE DEF c
  <2> QED BY <1>1, <2>1, <2>2, WalletRowTyped
<1>6. lock' \in [Rows -> Reqs \cup {NoReq}]
  BY <1>3 DEF IInv, TypeOK
<1>7. Grows(r)
  BY <1>3, <1>4 DEF Grows
<1>8. TypeOK'
  BY <1>3, <1>5, <1>6 DEF IInv, TypeOK, Ghosts
<1> QED BY <1>3, <1>4, <1>7, <1>8

\* q is the record w with other credited and paid rows, as far as the invariant reads it.
Records(q, w, cs, ps) ==
  /\ q \in Work
  /\ q.at = w.at /\ q.op = w.op /\ q.v = w.v /\ q.g = w.g
  /\ q.credited = cs /\ q.paid = ps

LEMMA RecordFields ==
  ASSUME NEW w \in Work, NEW c \in Int, NEW cs \in SUBSET Vouchers, NEW ps \in SUBSET Rounds
  PROVE  /\ Records([w EXCEPT !.change = c], w, w.credited, w.paid)
         /\ Records([[w EXCEPT !.credited = cs] EXCEPT !.change = c], w, cs, w.paid)
         /\ Records([[w EXCEPT !.change = c] EXCEPT !.paid = ps], w, w.credited, ps)
<1>1. Records([w EXCEPT !.change = c], w, w.credited, w.paid)
  BY WorkTyped DEF Records, Work
<1>2. Records([w EXCEPT !.credited = cs], w, cs, w.paid)
  BY WorkTyped DEF Records, Work
<1>3. ASSUME NEW u \in Work PROVE Records([u EXCEPT !.change = c], u, u.credited, u.paid)
  BY WorkTyped DEF Records, Work
<1>4. ASSUME NEW u \in Work PROVE Records([u EXCEPT !.paid = ps], u, u.credited, ps)
  BY WorkTyped DEF Records, Work
<1>5. Records([[w EXCEPT !.credited = cs] EXCEPT !.change = c], w, cs, w.paid)
  <2> DEFINE u == [w EXCEPT !.credited = cs]
  <2>1. u \in Work /\ Records(u, w, cs, w.paid)
    BY <1>2 DEF Records
  <2> HIDE DEF u
  <2>2. Records([u EXCEPT !.change = c], u, u.credited, u.paid)
    BY <1>3, <2>1
  <2>3. Records([u EXCEPT !.change = c], w, cs, w.paid)
    BY <2>1, <2>2 DEF Records
  <2> QED BY <2>3 DEF u
<1>6. Records([[w EXCEPT !.change = c] EXCEPT !.paid = ps], w, w.credited, ps)
  <2> DEFINE u == [w EXCEPT !.change = c]
  <2>1. u \in Work /\ Records(u, w, w.credited, w.paid)
    BY <1>1 DEF Records
  <2> HIDE DEF u
  <2>2. Records([u EXCEPT !.paid = ps], u, u.credited, ps)
    BY <1>4, <2>1
  <2>3. Records([u EXCEPT !.paid = ps], w, w.credited, ps)
    BY <2>1, <2>2 DEF Records
  <2> QED BY <2>3 DEF u
<1> QED BY <1>1, <1>5, <1>6

LEMMA CreditedTyped ==
  ASSUME IInv, NEW r \in Reqs
  PROVE  Credited(r) \in WalletRow /\ Credited(r).balance - req[r].seen.balance \in Int
<1> DEFINE w == [balance |-> req[r].seen.balance + Face,
                 pending |-> req[r].seen.pending + Bonus, active |-> req[r].v]
<1>1. req[r].seen \in WalletRow /\ req[r].v \in Vouchers
  BY TypeFacts DEF IInv, Work
<1>2. req[r].seen.balance \in Int /\ req[r].seen.pending \in Nat
  BY <1>1 DEF WalletRow
<1>3. w \in WalletRow
  BY <1>1, <1>2, AmountsAssumption DEF WalletRow
<1>4. Credited(r) = WithBonus(w)
  BY DEF Credited
<1>5. Credited(r) \in WalletRow
  <2> HIDE DEF w
  <2> QED BY <1>3, <1>4, BonusTyped
<1>6. Credited(r).balance \in Int
  BY <1>5 DEF WalletRow
<1> QED BY <1>2, <1>5, <1>6

LEMMA SeenTyped ==
  ASSUME IInv, NEW r \in Reqs, NEW d \in Int
  PROVE  /\ [req[r].seen EXCEPT !.balance = @ + d] \in WalletRow
         /\ req[r].seen.balance \in Int /\ req[r].amount \in Int
<1>1. req[r].seen \in WalletRow /\ req[r].amount \in Int
  BY TypeFacts DEF IInv, Work
<1>2. req[r].seen.balance \in Int
  BY <1>1 DEF WalletRow
<1>3. req[r].seen.balance + d \in Int
  BY <1>2
<1> QED BY <1>1, <1>2, <1>3 DEF WalletRow

\* r goes to place p having recorded what it credited and paid.
Leaves(r, p, credited, paid) ==
  /\ req'[r].at = p
  /\ req'[r].op = req[r].op /\ req'[r].v = req[r].v /\ req'[r].g = req[r].g
  /\ req'[r].credited = credited /\ req'[r].paid = paid
  /\ req' \in [Reqs -> Work]
  /\ \A s \in Reqs \ {r} : req'[s] = req[s]

\* The three ways a handler fills in its record when it saves the wallet.
LEMMA LeavesFields ==
  ASSUME TypeOK, NEW r \in Reqs, NEW p \in Places, NEW rec \in [Reqs -> Work],
         rec[r].at = p, rec[r].op = req[r].op, rec[r].v = req[r].v, rec[r].g = req[r].g,
         rec[r].credited = req[r].credited, rec[r].paid = req[r].paid,
         \A s \in Reqs \ {r} : rec[s] = req[s],
         NEW c \in Int, NEW cs \in SUBSET Vouchers, NEW ps \in SUBSET Rounds
  PROVE  /\ req' = [rec EXCEPT ![r].change = c] => Leaves(r, p, req[r].credited, req[r].paid)
         /\ req' = [rec EXCEPT ![r].credited = cs, ![r].change = c] => Leaves(r, p, cs, req[r].paid)
         /\ req' = [rec EXCEPT ![r].change = c, ![r].paid = ps] => Leaves(r, p, req[r].credited, ps)
<1> DEFINE w == rec[r]
<1>1. w \in Work
  OBVIOUS
<1>2. ASSUME NEW q \in Work, NEW cs0, NEW ps0, Records(q, w, cs0, ps0), req' = [rec EXCEPT ![r] = q]
      PROVE  Leaves(r, p, cs0, ps0)
  BY <1>2 DEF Records, Leaves
<1>3. /\ Records([w EXCEPT !.change = c], w, w.credited, w.paid)
      /\ Records([[w EXCEPT !.credited = cs] EXCEPT !.change = c], w, cs, w.paid)
      /\ Records([[w EXCEPT !.change = c] EXCEPT !.paid = ps], w, w.credited, ps)
  <2> HIDE DEF w
  <2> QED BY <1>1, RecordFields
<1>4. /\ [rec EXCEPT ![r].change = c] = [rec EXCEPT ![r] = [w EXCEPT !.change = c]]
      /\ [rec EXCEPT ![r].credited = cs, ![r].change = c]
           = [rec EXCEPT ![r] = [[w EXCEPT !.credited = cs] EXCEPT !.change = c]]
      /\ [rec EXCEPT ![r].change = c, ![r].paid = ps]
           = [rec EXCEPT ![r] = [[w EXCEPT !.change = c] EXCEPT !.paid = ps]]
  OBVIOUS
<1>5. /\ [w EXCEPT !.change = c] \in Work /\ [[w EXCEPT !.credited = cs] EXCEPT !.change = c] \in Work
      /\ [[w EXCEPT !.change = c] EXCEPT !.paid = ps] \in Work
      /\ w.credited = req[r].credited /\ w.paid = req[r].paid
  BY <1>3 DEF Records
<1> HIDE DEF w
<1>6. ASSUME req' = [rec EXCEPT ![r].change = c]
      PROVE  Leaves(r, p, req[r].credited, req[r].paid)
  BY <1>2, <1>3, <1>4, <1>5, <1>6
<1>7. ASSUME req' = [rec EXCEPT ![r].credited = cs, ![r].change = c]
      PROVE  Leaves(r, p, cs, req[r].paid)
  BY <1>2, <1>3, <1>4, <1>5, <1>7
<1>8. ASSUME req' = [rec EXCEPT ![r].change = c, ![r].paid = ps]
      PROVE  Leaves(r, p, req[r].credited, ps)
  BY <1>2, <1>3, <1>4, <1>5, <1>8
<1> QED BY <1>6, <1>7, <1>8

LEMMA AnswerLeaves ==
  ASSUME TypeOK, NEW r \in Reqs, NEW c \in Int, NEW cs \in SUBSET Vouchers, NEW ps \in SUBSET Rounds
  PROVE  /\ req' = [Answer(r, 200) EXCEPT ![r].change = c]
              => Leaves(r, "respond", req[r].credited, req[r].paid)
         /\ req' = [Answer(r, 200) EXCEPT ![r].credited = cs, ![r].change = c]
              => Leaves(r, "respond", cs, req[r].paid)
         /\ req' = [Answer(r, 200) EXCEPT ![r].change = c, ![r].paid = ps]
              => Leaves(r, "respond", req[r].credited, ps)
         /\ req' = [Goto(r, "saveVoucher") EXCEPT ![r].credited = cs, ![r].change = c]
              => Leaves(r, "saveVoucher", cs, req[r].paid)
<1>1. /\ req \in [Reqs -> Work] /\ req[r] \in Work /\ 200 \in Statuses
      /\ "respond" \in Places /\ "saveVoucher" \in Places
  BY TypeFacts DEF TypeOK, Statuses, Places
<1>2. /\ Answer(r, 200) \in [Reqs -> Work] /\ Goto(r, "saveVoucher") \in [Reqs -> Work]
  BY <1>1, MoveTyped
<1>3. /\ Answer(r, 200)[r].at = "respond" /\ Answer(r, 200)[r].op = req[r].op
      /\ Answer(r, 200)[r].v = req[r].v /\ Answer(r, 200)[r].g = req[r].g
      /\ Answer(r, 200)[r].credited = req[r].credited /\ Answer(r, 200)[r].paid = req[r].paid
      /\ \A s \in Reqs \ {r} : Answer(r, 200)[s] = req[s]
  BY <1>1 DEF Answer, Work
<1>4. /\ Goto(r, "saveVoucher")[r].at = "saveVoucher" /\ Goto(r, "saveVoucher")[r].op = req[r].op
      /\ Goto(r, "saveVoucher")[r].v = req[r].v /\ Goto(r, "saveVoucher")[r].g = req[r].g
      /\ Goto(r, "saveVoucher")[r].credited = req[r].credited
      /\ Goto(r, "saveVoucher")[r].paid = req[r].paid
      /\ \A s \in Reqs \ {r} : Goto(r, "saveVoucher")[s] = req[s]
  BY <1>1 DEF Goto, Work
<1>5. ASSUME NEW rec, rec = Answer(r, 200)
      PROVE  /\ req' = [rec EXCEPT ![r].change = c] => Leaves(r, "respond", req[r].credited, req[r].paid)
             /\ req' = [rec EXCEPT ![r].credited = cs, ![r].change = c]
                  => Leaves(r, "respond", cs, req[r].paid)
             /\ req' = [rec EXCEPT ![r].change = c, ![r].paid = ps]
                  => Leaves(r, "respond", req[r].credited, ps)
  <2>1. /\ rec \in [Reqs -> Work] /\ rec[r].at = "respond"
        /\ rec[r].op = req[r].op /\ rec[r].v = req[r].v /\ rec[r].g = req[r].g
        /\ rec[r].credited = req[r].credited /\ rec[r].paid = req[r].paid
        /\ \A s \in Reqs \ {r} : rec[s] = req[s]
    BY <1>2, <1>3, <1>5
  <2> QED BY ONLY <1>1, <2>1, TypeOK, r \in Reqs, c \in Int, cs \in SUBSET Vouchers,
                  ps \in SUBSET Rounds, LeavesFields
<1>6. ASSUME NEW rec, rec = Goto(r, "saveVoucher")
      PROVE  req' = [rec EXCEPT ![r].credited = cs, ![r].change = c]
                  => Leaves(r, "saveVoucher", cs, req[r].paid)
  <2>1. /\ rec \in [Reqs -> Work] /\ rec[r].at = "saveVoucher"
        /\ rec[r].op = req[r].op /\ rec[r].v = req[r].v /\ rec[r].g = req[r].g
        /\ rec[r].credited = req[r].credited /\ rec[r].paid = req[r].paid
        /\ \A s \in Reqs \ {r} : rec[s] = req[s]
    BY <1>2, <1>4, <1>6
  <2> QED BY ONLY <1>1, <2>1, TypeOK, r \in Reqs, c \in Int, cs \in SUBSET Vouchers,
                  ps \in SUBSET Rounds, LeavesFields
<1> QED BY <1>5, <1>6

\* terminate writes the three rows it owns and the session it takes last.
LEMMA RevokeSessionInv ==
  ASSUME IInv, NEW r \in Reqs, RevokeSession(r)
  PROVE  IInv'
<1> DEFINE v == req[r].v
<1> DEFINE rows == IF db["session"].live THEN {"session"} ELSE {}
<1> DEFINE w == [cur EXCEPT !["wallet"] = NoWallet]
<1> DEFINE u == [w EXCEPT !["user"] = [cur["user"] EXCEPT !.status = "inactive"]]
<1> DEFINE t == [u EXCEPT ![v] = [cur[v] EXCEPT !.status = "terminated"]]
<1> DEFINE row == [cur["session"] EXCEPT !.live = @ /\ rows = {}]
<1>1. /\ req[r].at = "revokeSession" /\ req[r].op = "terminate" /\ UNCHANGED <<db, Ghosts>>
      /\ lock["user"] = r /\ lock["wallet"] = r /\ lock[v] = r
      /\ \A y \in rows : y = "session" /\ lock[y] = NoReq
      /\ lock' = [x \in Rows |-> IF x \in rows THEN r ELSE lock[x]]
  BY DEF RevokeSession, At, IInv, Part, PathPart, OwnsPart
<1>2. /\ v \in Vouchers /\ v \in Rows /\ v \notin {"user", "wallet", "session"}
      /\ "user" \in Rows /\ "wallet" \in Rows /\ "session" \in Rows
      /\ DOMAIN cur = Rows /\ RowsOK(cur) /\ cur["user"] \in UserRow /\ cur[v] \in VoucherRow
      /\ cur["session"] \in SessionRow
      /\ req \in [Reqs -> Work] /\ req[r] \in Work /\ db["wallet"] \in WalletRow
  BY TypeFacts, RowNames DEF IInv, TypeOK, RowsOK, Work
<1>3. cur' = [t EXCEPT !["session"] = row]
  <2>1. cur' = [cur EXCEPT !["wallet"] = NoWallet, !["user"].status = "inactive",
                           ![v].status = "terminated", !["session"].live = @ /\ rows = {}]
    BY DEF RevokeSession
  <2> HIDE DEF rows
  <2> QED BY ONLY <1>2, <2>1
<1>4. RowsOK(cur')
  <2>1. RowsOK(w)
    <3>1. NoWallet \in WalletRow
      BY DEF WalletRow, NoWallet
    <3> QED BY <1>2, <3>1, WalletRowTyped
  <2>2. [cur["user"] EXCEPT !.status = "inactive"] \in UserRow
    BY <1>2 DEF UserRow
  <2>3. RowsOK(u)
    <3> HIDE DEF w
    <3> QED BY <2>1, <2>2, UserRowTyped
  <2>4. [cur[v] EXCEPT !.status = "terminated"] \in VoucherRow
    BY <1>2 DEF VoucherRow
  <2>5. RowsOK(t)
    <3> HIDE DEF u
    <3> QED BY <1>2, <2>3, <2>4, VoucherRowTyped
  <2>6. row \in SessionRow
    BY <1>2 DEF SessionRow
  <2> QED
    <3> HIDE DEF t, row
    <3> QED BY <1>3, <2>5, <2>6, SessionRowTyped
<1>5. /\ cur'[v].status = "terminated"
      /\ \A y \in Rows \ {"user", "wallet", "session", v} : cur'[y] = cur[y]
      /\ rows = {} => cur'["session"] = cur["session"]
  <2>1. cur'[v].status = "terminated"
    <3> HIDE DEF row
    <3> QED BY <1>2, <1>3 DEF VoucherRow
  <2>2. \A y \in Rows \ {"user", "wallet", "session", v} : cur'[y] = cur[y]
    <3> HIDE DEF row
    <3> QED BY <1>2, <1>3
  <2>3. cur'["session"] = row
    <3> HIDE DEF row
    <3> QED BY <1>2, <1>3
  <2>4. rows = {} => row = cur["session"]
    <3>1. cur["session"].live \in BOOLEAN /\ cur["session"] = [live |-> cur["session"].live]
      BY <1>2 DEF SessionRow
    <3> HIDE DEF rows
    <3> QED BY <3>1
  <2> QED
    <3> HIDE DEF rows, row
    <3> QED BY <2>1, <2>2, <2>3, <2>4
<1>6. \A y \in Rows : lock'[y] = IF y \in rows THEN r ELSE lock[y]
  <2> HIDE DEF rows
  <2> QED BY <1>1
<1>7. /\ req' \in [Reqs -> Work] /\ Moves(r, "respond")
  <2>1. PICK c : c = 0 - req[r].seen.balance
    OBVIOUS
  <2>2. req' = [Answer(r, 200) EXCEPT ![r].change = c]
    BY <2>1 DEF RevokeSession
  <2>3. c \in Int /\ TypeOK
    BY <1>2, <2>1 DEF Work, WalletRow, IInv
  <2>4. Leaves(r, "respond", req[r].credited, req[r].paid)
    BY <2>2, <2>3, AnswerLeaves
  <2> QED BY <2>4 DEF Leaves, Moves
<1>8. \A y \in rows : y = "session"
  OBVIOUS
<1> HIDE DEF rows, w, u, t, row
<1>9. Grows(r) /\ TypeOK'
  <2>1. Grows(r)
    <3>1. ASSUME NEW y \in Rows
          PROVE  \/ lock'[y] = lock[y] /\ cur'[y] = cur[y]
                 \/ lock[y] \in {NoReq, r} /\ lock'[y] = r
      <4>1. CASE y \in {"user", "wallet", v}
        BY <1>1, <1>6, <4>1
      <4>2. CASE y = "session"
        BY <1>1, <1>5, <1>6, <1>8, <4>2
      <4>3. CASE y \notin {"user", "wallet", "session", v}
        BY <1>5, <1>6, <1>8, <4>3
      <4> QED BY <4>1, <4>2, <4>3
    <3> QED BY <1>1, <1>7, <3>1 DEF Grows, Moves
  <2>2. lock' \in [Rows -> Reqs \cup {NoReq}]
    BY <1>1 DEF IInv, TypeOK
  <2> QED BY <1>1, <1>4, <1>7, <2>1, <2>2 DEF IInv, TypeOK, Ghosts
<1>10. IdlePart(r)' /\ PathPart(r)' /\ OwnsPart(r)'
  BY <1>1, <1>7 DEF IdlePart, PathPart, OwnsPart, Moves
<1>11. RoundPart(r)' /\ VoucherPart(r)'
  BY <1>1, <1>2, <1>5, <1>6, <1>7, <1>8, NothingYet, RowNames
     DEF RoundPart, VoucherPart, Running, Moves
<1>12. OrderPart(r)'
  BY <1>1, <1>6, <1>7, <1>8, RowNames DEF IInv, Part, OrderPart, Moves
<1> QED BY <1>9, <1>10, <1>11, <1>12, GrowsInv DEF Part

LEMMA RedeemLockedInv ==
  ASSUME IInv, NEW r \in Reqs, RedeemLocked(r)
  PROVE  IInv'
<1>1. PICK v : v = req[r].v
  OBVIOUS
<1>2. PICK c : c = Credited(r).balance - req[r].seen.balance
  OBVIOUS
<1>3. /\ req[r].at = "saveWallet" /\ req[r].op \in Redeemers \ UnlockedRedeemers
      /\ v \in Vouchers /\ v \in Rows /\ v # "wallet" /\ v \notin Rounds
      /\ lock[v] = r /\ db[v].status = "new" /\ c \in Int /\ Credited(r) \in WalletRow
  BY <1>1, <1>2, CreditedTyped, TypeFacts, RowNames
     DEF RedeemLocked, At, IInv, Part, OwnsPart, Work
<1>4. /\ SaveRows(r, Credited(r), Only(v, UsedVoucher))
      /\ req' = [Answer(r, 200) EXCEPT ![r].credited = {v}, ![r].change = c]
  BY <1>1, <1>2 DEF RedeemLocked, Only
<1>5. Leaves(r, "respond", {v}, {})
  <2>1. req[r].paid = {} /\ {v} \in SUBSET Vouchers /\ TypeOK
    BY <1>3, NothingYet DEF IInv
  <2> QED BY <1>3, <1>4, <2>1, AnswerLeaves
<1>6. RowsOK(Updated(v, UsedVoucher))
  <2>1. UsedVoucher \in VoucherRow
    BY DEF UsedVoucher, VoucherRow
  <2> QED BY <1>3, <2>1, VoucherRowTyped DEF IInv, TypeOK, Updated
<1>7. /\ TypeOK' /\ Grows(r) /\ UNCHANGED db
      /\ \A y \in Rows : lock'[y] = IF y = "wallet" \/ y = v THEN r ELSE lock[y]
      /\ \A y \in Rows \ {"wallet"} : cur'[y] = IF y = v THEN UsedVoucher ELSE cur[y]
  <2>1. v \in Vouchers \cup Rounds /\ lock[v] \in {NoReq, r}
    BY <1>3
  <2>2. UsedVoucher \in VoucherRow \cup RoundRow
    BY DEF UsedVoucher, VoucherRow
  <2>3. req' \in [Reqs -> Work] /\ \A s \in Reqs \ {r} : req'[s] = req[s]
    BY <1>5 DEF Leaves
  <2>4. SaveRows(r, Credited(r), Only(v, UsedVoucher)) /\ Credited(r) \in WalletRow
    BY <1>3, <1>4
  <2> QED BY <1>6, <2>1, <2>2, <2>3, <2>4, SaveBoth
<1>8. IdlePart(r)' /\ PathPart(r)' /\ OwnsPart(r)'
  BY <1>5 DEF IdlePart, PathPart, OwnsPart, Leaves
<1>9. RoundPart(r)'
  BY <1>3, <1>5, <1>7, NothingYet, RowNames DEF RoundPart, Leaves
<1>10. VoucherPart(r)'
  BY <1>1, <1>3, <1>5, <1>7, NothingYet, RowNames DEF VoucherPart, Leaves, Running, UsedVoucher
<1>11. OrderPart(r)'
  BY <1>3, <1>5, <1>7, RowNames DEF IInv, Part, OrderPart, Leaves
<1> QED BY <1>7, <1>8, <1>9, <1>10, <1>11, GrowsInv DEF Part

LEMMA RedeemUnlockedInv ==
  ASSUME IInv, NEW r \in Reqs, RedeemUnlocked(r)
  PROVE  IInv'
<1>1. PICK v : v = req[r].v
  OBVIOUS
<1>2. PICK c : c = Credited(r).balance - req[r].seen.balance
  OBVIOUS
<1>3. /\ req[r].at = "saveWallet" /\ req[r].op \in UnlockedRedeemers /\ v \in Vouchers
      /\ c \in Int /\ Credited(r) \in WalletRow /\ TypeOK
  BY <1>1, <1>2, CreditedTyped, TypeFacts DEF RedeemUnlocked, At, IInv, Work
<1>4. /\ SaveRows(r, Credited(r), <<>>)
      /\ req' = [Goto(r, "saveVoucher") EXCEPT ![r].credited = {v}, ![r].change = c]
  BY <1>1, <1>2 DEF RedeemUnlocked
<1>5. ~Locking
  BY <1>3, NothingYet
<1>6. Leaves(r, "saveVoucher", {v}, req[r].paid) /\ req[r].paid = {}
  <2>1. {v} \in SUBSET Vouchers
    BY <1>3
  <2> QED BY <1>3, <1>4, <2>1, AnswerLeaves, NothingYet
<1>7. /\ TypeOK' /\ Grows(r) /\ UNCHANGED db
      /\ \A y \in Rows : lock'[y] = IF y = "wallet" THEN r ELSE lock[y]
      /\ \A y \in Rows \ {"wallet"} : cur'[y] = cur[y]
  <2>1. req' \in [Reqs -> Work] /\ \A s \in Reqs \ {r} : req'[s] = req[s]
    BY <1>6 DEF Leaves
  <2> QED BY <1>3, <1>4, <2>1, SaveAlone
<1>8. IdlePart(r)' /\ PathPart(r)' /\ OwnsPart(r)'
  BY <1>3, <1>6 DEF IdlePart, PathPart, OwnsPart, Leaves
<1>9. RoundPart(r)'
  BY <1>3, <1>6, <1>7, NothingYet, RowNames DEF RoundPart, Leaves
<1>10. VoucherPart(r)' /\ OrderPart(r)'
  BY <1>5 DEF VoucherPart, OrderPart, Locking
<1> QED BY <1>7, <1>8, <1>9, <1>10, GrowsInv DEF Part

\* A request that is no redeemer answers, having saved the wallet and at most one
\* round: the round it inserts or the one it settles.
LEMMA SavedInv ==
  ASSUME IInv, NEW r \in Reqs, req[r].at = "saveWallet", req[r].op \notin Redeemers,
         NEW gs \in SUBSET Rounds, NEW ps \in SUBSET Rounds,
         Leaves(r, "respond", req[r].credited, ps), TypeOK', Grows(r), UNCHANGED db,
         \A y \in Rows : lock'[y] = IF y = "wallet" \/ y \in gs THEN r ELSE lock[y],
         \A y \in Rows \ ({"wallet"} \cup gs) : cur'[y] = cur[y],
         ps \subseteq gs,
         \A g \in gs \ ps : db[g].status = "none",
         \A g \in ps : db[g].status = "pending" /\ cur'[g].status = "settled"
  PROVE  IInv'
<1>1. IdlePart(r)' /\ PathPart(r)' /\ OwnsPart(r)'
  BY DEF IdlePart, PathPart, OwnsPart, Leaves
<1>2. RoundPart(r)'
  BY NothingYet, RowNames DEF RoundPart, Leaves
<1>3. VoucherPart(r)'
  BY NothingYet, RowNames DEF VoucherPart, Leaves, Running
<1>4. OrderPart(r)'
  BY RowNames DEF IInv, Part, OrderPart, Leaves
<1> QED BY <1>1, <1>2, <1>3, <1>4, GrowsInv DEF Part

LEMMA MoveMoneyInv ==
  ASSUME IInv, NEW r \in Reqs, MoveMoney(r)
  PROVE  IInv'
<1>1. /\ req[r].at = "saveWallet" /\ req[r].op \in {"credit", "debit", "adjust"} /\ TypeOK
      /\ req[r].paid = {}
  BY NothingYet DEF MoveMoney, At, IInv
<1>2. PICK d \in {req[r].amount, 0 - req[r].amount} :
        /\ SaveRows(r, [req[r].seen EXCEPT !.balance = @ + d], <<>>)
        /\ req' = [Answer(r, 200) EXCEPT ![r].change = d]
  BY DEF MoveMoney
<1>3. d \in Int /\ [req[r].seen EXCEPT !.balance = @ + d] \in WalletRow
  <2>1. req[r].amount \in Int
    BY TypeFacts DEF IInv, Work
  <2>2. d \in Int
    BY <2>1
  <2> QED BY <2>2, SeenTyped
<1>4. Leaves(r, "respond", req[r].credited, {})
  BY <1>1, <1>2, <1>3, AnswerLeaves
<1>5. /\ TypeOK' /\ Grows(r) /\ UNCHANGED db
      /\ \A y \in Rows : lock'[y] = IF y = "wallet" THEN r ELSE lock[y]
      /\ \A y \in Rows \ {"wallet"} : cur'[y] = cur[y]
  <2> DEFINE w == [req[r].seen EXCEPT !.balance = @ + d]
  <2>1. /\ w \in WalletRow /\ SaveRows(r, w, <<>>)
        /\ req' \in [Reqs -> Work] /\ \A s \in Reqs \ {r} : req'[s] = req[s]
    BY <1>2, <1>3, <1>4 DEF Leaves
  <2> HIDE DEF w
  <2> QED BY <2>1, SaveAlone
<1>6. req[r].op \notin Redeemers /\ {} \in SUBSET Rounds
  BY <1>1 DEF Redeemers
<1> QED
  <2>1. PICK none : none = {}
    OBVIOUS
  <2> QED BY <1>1, <1>4, <1>5, <1>6, <2>1, SavedInv

LEMMA SettleRoundInv ==
  ASSUME IInv, NEW r \in Reqs, SettleRound(r)
  PROVE  IInv'
<1>1. PICK g, row, gs : g = req[r].g /\ row = [status |-> "settled"] /\ gs = {g}
  OBVIOUS
<1>2. /\ req[r].at = "saveWallet" /\ req[r].op = "settle" /\ TypeOK
      /\ g \in Rounds /\ lock[g] = r /\ db[g].status = "pending"
  BY <1>1 DEF SettleRound, At, IInv, Part, OwnsPart
<1>3. PICK win \in Wins : /\ SaveRows(r, [req[r].seen EXCEPT !.balance = @ + win], Only(g, row))
                          /\ req' = [Answer(r, 200) EXCEPT ![r].change = win, ![r].paid = gs]
  BY <1>1 DEF SettleRound, Only
<1>4. PICK w : w = [req[r].seen EXCEPT !.balance = @ + win]
  OBVIOUS
<1>5. SaveRows(r, w, Only(g, row)) /\ w \in WalletRow /\ win \in Int
  BY <1>3, <1>4, AmountsAssumption, SeenTyped
<1>6. /\ gs \in SUBSET Rounds /\ req[r].op \notin Redeemers /\ g \in Rows /\ g # "wallet"
  BY <1>1, <1>2, RowNames DEF Redeemers
<1>7. Leaves(r, "respond", req[r].credited, gs)
  <2>1. req' = [Answer(r, 200) EXCEPT ![r].change = win, ![r].paid = gs]
    BY <1>3
  <2> QED BY <1>2, <1>5, <1>6, <2>1, AnswerLeaves
<1>8. row \in VoucherRow \cup RoundRow /\ RowsOK(Updated(g, row)) /\ row.status = "settled"
  BY <1>1, <1>2, RowNames DEF RoundRow, Updated, TypeOK, RowsOK
<1>9. /\ TypeOK' /\ Grows(r) /\ UNCHANGED db
      /\ \A y \in Rows : lock'[y] = IF y = "wallet" \/ y = g THEN r ELSE lock[y]
      /\ \A y \in Rows \ {"wallet"} : cur'[y] = IF y = g THEN row ELSE cur[y]
  <2>1. g \in Vouchers \cup Rounds /\ lock[g] \in {NoReq, r}
    BY <1>2
  <2>2. req' \in [Reqs -> Work] /\ \A s \in Reqs \ {r} : req'[s] = req[s]
    BY <1>7 DEF Leaves
  <2>3. SaveRows(r, w, Only(g, row)) /\ w \in WalletRow
    BY <1>5
  <2> QED BY <1>8, <2>1, <2>2, <2>3, SaveBoth
<1>10. /\ \A x \in gs : db[x].status = "pending" /\ cur'[x].status = "settled"
       /\ \A y \in Rows : lock'[y] = IF y = "wallet" \/ y \in gs THEN r ELSE lock[y]
       /\ \A y \in Rows \ ({"wallet"} \cup gs) : cur'[y] = cur[y]
  BY <1>1, <1>2, <1>6, <1>8, <1>9
<1> QED BY <1>2, <1>6, <1>7, <1>9, <1>10, SavedInv

LEMMA PlaceBetInv ==
  ASSUME IInv, NEW r \in Reqs, PlaceBet(r)
  PROVE  IInv'
<1>1. PICK w, row, c : /\ w = WithBonus([req[r].seen EXCEPT !.balance = @ - req[r].amount])
                       /\ row = [status |-> "pending"] /\ c = w.balance - req[r].seen.balance
  OBVIOUS
<1>2. /\ req[r].at = "saveWallet" /\ req[r].op = "bet" /\ TypeOK /\ req[r].paid = {}
  BY NothingYet DEF PlaceBet, At, IInv
<1>3. PICK g \in Rounds : /\ db[g].status = "none" /\ lock[g] = NoReq
                          /\ SaveRows(r, w, Only(g, row))
                          /\ req' = [Answer(r, 200) EXCEPT ![r].change = c]
  BY <1>1 DEF PlaceBet, Only
<1>4. w \in WalletRow /\ c \in Int
  <2> DEFINE u == [req[r].seen EXCEPT !.balance = @ - req[r].amount]
  <2>1. req[r].seen \in WalletRow /\ req[r].amount \in Int
    BY TypeFacts DEF IInv, Work
  <2>2. req[r].seen.balance \in Int
    BY <2>1 DEF WalletRow
  <2>3. req[r].seen.balance - req[r].amount \in Int
    BY <2>1, <2>2
  <2>4. u \in WalletRow
    BY <2>1, <2>3 DEF WalletRow
  <2>5. w = WithBonus(u)
    BY <1>1
  <2>6. w \in WalletRow
    <3> HIDE DEF u
    <3> QED BY <2>4, <2>5, BonusTyped
  <2>7. w.balance \in Int
    BY <2>6 DEF WalletRow
  <2> QED BY <1>1, <2>2, <2>6, <2>7
<1>5. Leaves(r, "respond", req[r].credited, {})
  BY <1>2, <1>3, <1>4, AnswerLeaves
<1>6. row \in RoundRow /\ RowsOK(Updated(g, row))
  BY <1>1, <1>2, RowNames DEF RoundRow, Updated, TypeOK, RowsOK
<1>7. /\ TypeOK' /\ Grows(r) /\ UNCHANGED db
      /\ \A y \in Rows : lock'[y] = IF y = "wallet" \/ y = g THEN r ELSE lock[y]
      /\ \A y \in Rows \ {"wallet"} : cur'[y] = IF y = g THEN row ELSE cur[y]
  <2>1. g \in Vouchers \cup Rounds /\ lock[g] \in {NoReq, r} /\ row \in VoucherRow \cup RoundRow
    BY <1>3, <1>6
  <2>2. req' \in [Reqs -> Work] /\ \A s \in Reqs \ {r} : req'[s] = req[s]
    BY <1>5 DEF Leaves
  <2>3. SaveRows(r, w, Only(g, row)) /\ w \in WalletRow
    BY <1>3, <1>4
  <2> QED BY <1>6, <2>1, <2>2, <2>3, SaveBoth
<1>8. PICK gs, ps : gs = {g} /\ ps = {}
  OBVIOUS
<1>9. req[r].op \notin Redeemers /\ gs \in SUBSET Rounds /\ ps \in SUBSET Rounds
      /\ ps \subseteq gs /\ Leaves(r, "respond", req[r].credited, ps)
  BY <1>2, <1>5, <1>8 DEF Redeemers
<1>10. /\ \A x \in gs \ ps : db[x].status = "none"
       /\ \A x \in ps : db[x].status = "pending" /\ cur'[x].status = "settled"
       /\ \A y \in Rows : lock'[y] = IF y = "wallet" \/ y \in gs THEN r ELSE lock[y]
       /\ \A y \in Rows \ ({"wallet"} \cup gs) : cur'[y] = cur[y]
  BY <1>3, <1>7, <1>8
<1> QED BY <1>2, <1>7, <1>9, <1>10, SavedInv

-----------------------------------------------------------------------------
(* The end of a request, the first states, every step *)

LEMMA MergeTyped ==
  ASSUME NEW a, NEW b, RowsOK(a), RowsOK(b), NEW r
  PROVE  RowsOK([x \in Rows |-> IF lock[x] = r THEN a[x] ELSE b[x]])
<1> DEFINE m == [x \in Rows |-> IF lock[x] = r THEN a[x] ELSE b[x]]
<1>1. \A x \in Rows : m[x] \in {a[x], b[x]}
  OBVIOUS
<1>2. DOMAIN m = Rows /\ m = [x \in Rows |-> m[x]]
  OBVIOUS
<1>3. m["user"] \in UserRow /\ m["wallet"] \in WalletRow /\ m["session"] \in SessionRow
  BY <1>1, RowNames DEF RowsOK
<1>4. \A v \in Vouchers : m[v] \in VoucherRow
  BY <1>1, RowNames DEF RowsOK
<1>5. \A g \in Rounds : m[g] \in RoundRow
  BY <1>1, RowNames DEF RowsOK
<1>6. \A x \in Rows : m[x] \in UserRow \cup WalletRow \cup VoucherRow \cup RoundRow \cup SessionRow
  BY <1>3, <1>4, <1>5 DEF Rows
<1> HIDE DEF m
<1>7. RowsOK(m)
  BY <1>2, <1>3, <1>4, <1>5, <1>6 DEF RowsOK
<1> QED BY <1>7 DEF m

\* Ending leaves the others alone and nothing of r behind.
LEMMA EndedPart ==
  ASSUME IInv, NEW r \in Reqs, Release(r), req' = Ended(r)
  PROVE  /\ Part(r)' /\ req' \in [Reqs -> Work] /\ lock' \in [Rows -> Reqs \cup {NoReq}]
         /\ \A x \in Rows : lock'[x] = IF lock[x] = r THEN NoReq ELSE lock[x]
         /\ \A s \in Reqs \ {r} : req'[s] = req[s]
<1>1. req' \in [Reqs -> Work] /\ r # NoReq
  BY MoveTyped, TypeFacts DEF IInv
<1>2. \A x \in Rows : lock'[x] = IF lock[x] = r THEN NoReq ELSE lock[x]
  BY DEF Release
<1>3. lock' \in [Rows -> Reqs \cup {NoReq}]
  BY DEF Release, IInv, TypeOK
<1>4. /\ req'[r].at = "done" /\ req'[r].op = "login" /\ req'[r].credited = {} /\ req'[r].paid = {}
      /\ \A s \in Reqs \ {r} : req'[s] = req[s]
  BY TypeFacts DEF Ended, NoWork, IInv
<1>5. \A x \in Rows : lock'[x] # r
  BY <1>1, <1>2
<1>6. IdlePart(r)' /\ PathPart(r)' /\ OwnsPart(r)'
  BY <1>4, <1>5 DEF IdlePart, PathPart, OwnsPart, Redeemers, UnlockedRedeemers
<1>7. RoundPart(r)' /\ VoucherPart(r)' /\ OrderPart(r)'
  BY <1>4, <1>5, RowNames DEF RoundPart, VoucherPart, OrderPart, Running
<1> QED BY <1>1, <1>2, <1>3, <1>4, <1>6, <1>7 DEF Part

LEMMA RollbackInv ==
  ASSUME IInv, NEW r \in Reqs, Rollback(r), Release(r), req' = Ended(r)
  PROVE  IInv'
<1>1. /\ Part(r)' /\ req' \in [Reqs -> Work] /\ lock' \in [Rows -> Reqs \cup {NoReq}]
      /\ \A x \in Rows : lock'[x] = IF lock[x] = r THEN NoReq ELSE lock[x]
      /\ \A s \in Reqs \ {r} : req'[s] = req[s]
  BY EndedPart
<1>2. /\ UNCHANGED <<db, Ghosts>> /\ \A x \in Rows : cur'[x] = IF lock[x] = r THEN db[x] ELSE cur[x]
  BY DEF Rollback
<1>3. TypeOK'
  <2>1. RowsOK(cur')
    BY MergeTyped DEF Rollback, IInv, TypeOK
  <2> QED BY <1>1, <1>2, <2>1 DEF IInv, TypeOK, Ghosts
<1>4. FreeRowsClean'
  BY <1>1, <1>2 DEF IInv, FreeRowsClean
<1>5. RoundHistory' /\ VoucherHistory'
  BY <1>2 DEF IInv, RoundHistory, VoucherHistory, Ghosts
<1>6. Local(r)
  BY <1>1, <1>2, NamesAssumption DEF Local
<1>7. \A s \in Reqs : Part(s)'
  BY <1>1, <1>6, Frame DEF IInv
<1> QED BY <1>3, <1>4, <1>5, <1>7 DEF IInv

\* The commit is where what r knows of its rows meets the history.
LEMMA CommitInv ==
  ASSUME IInv, NEW r \in Reqs, Commit(r), Release(r), req' = Ended(r)
  PROVE  IInv'
<1>1. /\ Part(r)' /\ req' \in [Reqs -> Work] /\ lock' \in [Rows -> Reqs \cup {NoReq}]
      /\ \A x \in Rows : lock'[x] = IF lock[x] = r THEN NoReq ELSE lock[x]
      /\ \A s \in Reqs \ {r} : req'[s] = req[s]
  BY EndedPart
<1>2. /\ UNCHANGED cur /\ \A x \in Rows : db'[x] = IF lock[x] = r THEN cur[x] ELSE db[x]
      /\ \A v \in Vouchers : credits'[v] = credits[v] + IF v \in req[r].credited THEN 1 ELSE 0
      /\ \A g \in Rounds : payouts'[g] = payouts[g] + IF g \in req[r].paid THEN 1 ELSE 0
  BY DEF Commit
<1>3. credits \in [Vouchers -> Nat] /\ payouts \in [Rounds -> Nat] /\ req[r] \in Work
  BY TypeFacts DEF IInv, TypeOK
<1>4. TypeOK'
  <2>1. RowsOK(db')
    <3>1. db' = [x \in Rows |-> IF lock[x] = r THEN cur[x] ELSE db[x]] /\ RowsOK(cur) /\ RowsOK(db)
      BY DEF Commit, IInv, TypeOK
    <3> QED BY ONLY <3>1, MergeTyped, r \in Reqs
  <2>2. credits' \in [Vouchers -> Nat] /\ payouts' \in [Rounds -> Nat]
    <3>1. /\ \A v \in Vouchers : (credits[v] + IF v \in req[r].credited THEN 1 ELSE 0) \in Nat
          /\ \A g \in Rounds : (payouts[g] + IF g \in req[r].paid THEN 1 ELSE 0) \in Nat
      BY <1>3
    <3> QED BY <3>1 DEF Commit
  <2>3. recorded' \in Int
    BY <1>3 DEF Commit, IInv, TypeOK, Work
  <2> QED BY <1>1, <1>2, <2>1, <2>2, <2>3 DEF IInv, TypeOK
<1>5. FreeRowsClean'
  BY <1>1, <1>2 DEF IInv, FreeRowsClean
<1>6. RoundHistory'
  <2> SUFFICES ASSUME NEW g \in Rounds
               PROVE  payouts'[g] <= 1 /\ (db'[g].status # "settled" => payouts'[g] = 0)
    BY DEF RoundHistory
  <2>1. payouts[g] \in Nat /\ payouts[g] <= 1 /\ (db[g].status # "settled" => payouts[g] = 0)
        /\ g \in Rows /\ RoundPart(r)
    BY <1>3, RowNames DEF IInv, RoundHistory, Part
  <2>2. CASE g \in req[r].paid
    <3>1. payouts'[g] = payouts[g] + 1 /\ db'[g].status = "settled" /\ payouts[g] = 0
      BY <1>2, <2>1, <2>2 DEF RoundPart
    <3> QED BY <3>1
  <2>3. CASE g \notin req[r].paid
    <3>1. payouts'[g] = payouts[g]
      BY <1>2, <2>1, <2>3
    <3>2. db'[g].status = db[g].status \/ db[g].status = "none"
      BY <1>2, <2>1, <2>3 DEF RoundPart
    <3> QED BY <2>1, <3>1, <3>2
  <2> QED BY <2>2, <2>3
<1>7. VoucherHistory'
  <2> SUFFICES ASSUME Locking, NEW v \in Vouchers
               PROVE  credits'[v] <= 1 /\ (db'[v].status = "new" => credits'[v] = 0)
    BY DEF VoucherHistory, Locking
  <2>1. credits[v] \in Nat /\ credits[v] <= 1 /\ (db[v].status = "new" => credits[v] = 0)
        /\ v \in Rows /\ VoucherPart(r)
    BY <1>3, RowNames DEF IInv, VoucherHistory, Part
  <2>2. CASE v \in req[r].credited
    <3>1. credits'[v] = credits[v] + 1 /\ db'[v].status = "redeemed" /\ credits[v] = 0
      BY <1>2, <2>1, <2>2 DEF VoucherPart
    <3> QED BY <3>1
  <2>3. CASE v \notin req[r].credited
    <3>1. credits'[v] = credits[v]
      BY <1>2, <2>1, <2>3
    <3>2. db'[v].status = db[v].status \/ db'[v].status = "terminated"
      BY <1>2, <2>1, <2>3 DEF VoucherPart
    <3> QED BY <2>1, <3>1, <3>2
  <2> QED BY <2>2, <2>3
<1>8. Local(r)
  BY <1>1, <1>2, NamesAssumption DEF Local
<1>9. \A s \in Reqs : Part(s)'
  BY <1>1, <1>8, Frame DEF IInv
<1> QED BY <1>4, <1>5, <1>6, <1>7, <1>9 DEF IInv

LEMMA FinishInv ==
  ASSUME IInv, NEW r \in Reqs, Finish(r)
  PROVE  IInv'
  BY CommitInv, RollbackInv DEF Finish

LEMMA CloseInv ==
  ASSUME IInv, NEW r \in Reqs, Close(r)
  PROVE  IInv'
  BY RollbackInv DEF Close

LEMMA DeadlockVictimInv ==
  ASSUME IInv, NEW r \in Reqs, DeadlockVictim(r)
  PROVE  IInv'
  BY RollbackInv DEF DeadlockVictim

LEMMA HandlerStepInv ==
  ASSUME IInv, NEW r \in Reqs, HandlerStep(r)
  PROVE  IInv'
  BY ReadVoucherInv, LockNewVoucherInv, LockAnyVoucherInv, LockRoundInv, SaveSessionInv, FindUserInv,
     ReadWalletInv, LockActiveInv, LinkWalletInv, RedeemLockedInv, RedeemUnlockedInv,
     SaveVoucherInv, RefuseSpendInv, PlaceBetInv, SettleRoundInv, MoveMoneyInv,
     LockWalletInv, LockUserInv, RevokeSessionInv, FinishInv
     DEF HandlerStep

LEMMA StutterInv ==
  ASSUME IInv, UNCHANGED vars
  PROVE  IInv'
<1>1. TypeOK' /\ FreeRowsClean' /\ RoundHistory' /\ VoucherHistory'
  BY DEF IInv, vars, Ghosts, TypeOK, FreeRowsClean, RoundHistory, VoucherHistory
<1>2. ASSUME NEW r \in Reqs PROVE Part(r)'
  <2>1. Part(r)
    BY DEF IInv
  <2> QED BY <2>1 DEF vars, Part, IdlePart, PathPart, OwnsPart, RoundPart, VoucherPart,
                      OrderPart, Running
<1> QED BY <1>1, <1>2 DEF IInv

LEMMA FirstRowsTyped ==
  /\ RowsOK(Fresh)
  /\ \A b \in Int, p \in Nat, open \in SUBSET Rounds : RowsOK(Playing(b, p, open))
<1>1. NoWallet \in WalletRow
  BY DEF NoWallet, WalletRow
<1>2. RowsOK(Fresh)
  <2>1. /\ Fresh["user"] = [status |-> "none"] /\ Fresh["wallet"] = NoWallet /\ DOMAIN Fresh = Rows
        /\ \A v \in Vouchers : Fresh[v] = [status |-> "new", used |-> FALSE]
        /\ \A g \in Rounds : Fresh[g] = [status |-> "none"]
        /\ Fresh["session"] = [live |-> FALSE] /\ Fresh = [x \in Rows |-> Fresh[x]]
    BY RowNames DEF Fresh
  <2>2. /\ Fresh["user"] \in UserRow /\ Fresh["wallet"] \in WalletRow
        /\ Fresh["session"] \in SessionRow
        /\ \A v \in Vouchers : Fresh[v] \in VoucherRow
        /\ \A g \in Rounds : Fresh[g] \in RoundRow
    <3>1. /\ [status |-> "none"] \in UserRow /\ [status |-> "none"] \in RoundRow
          /\ [status |-> "new", used |-> FALSE] \in VoucherRow
          /\ [live |-> FALSE] \in SessionRow
      BY DEF UserRow, VoucherRow, RoundRow, SessionRow
    <3> QED BY <1>1, <2>1, <3>1
  <2>3. \A x \in Rows : Fresh[x] \in UserRow \cup WalletRow \cup VoucherRow \cup RoundRow \cup SessionRow
    BY <2>2 DEF Rows
  <2> QED BY <2>1, <2>2, <2>3 DEF RowsOK
<1>3. ASSUME NEW b \in Int, NEW p \in Nat, NEW open \in SUBSET Rounds
      PROVE  RowsOK(Playing(b, p, open))
  <2>1. PICK P : P = Playing(b, p, open)
    OBVIOUS
  <2>2. DOMAIN P = Rows /\ P = [x \in Rows |-> P[x]]
    BY <2>1 DEF Playing
  <2>3. /\ P["user"] \in UserRow /\ P["wallet"] \in WalletRow /\ P["session"] \in SessionRow
        /\ \A v \in Vouchers : P[v] \in VoucherRow
        /\ \A g \in Rounds : P[g] \in RoundRow
    <3>1. P["user"] = [status |-> "active"] /\ P["session"] = [live |-> TRUE] /\ P["wallet"] = [balance |-> b, pending |-> p, active |-> Key]
      BY <2>1, RowNames DEF Playing
    <3>2. P["user"] \in UserRow /\ P["wallet"] \in WalletRow /\ P["session"] \in SessionRow
      BY <3>1, KeyAssumption DEF UserRow, WalletRow, SessionRow
    <3>3. ASSUME NEW v \in Vouchers PROVE P[v] \in VoucherRow
      <4>1. P[v] \in {[status |-> "redeemed", used |-> TRUE], [status |-> "new", used |-> FALSE]}
        BY <2>1, RowNames DEF Playing
      <4>2. /\ [status |-> "redeemed", used |-> TRUE] \in VoucherRow
            /\ [status |-> "new", used |-> FALSE] \in VoucherRow
        BY DEF VoucherRow
      <4> QED BY <4>1, <4>2
    <3>4. ASSUME NEW g \in Rounds PROVE P[g] \in RoundRow
      <4>1. P[g] \in {[status |-> "pending"], [status |-> "none"]}
        BY <2>1, RowNames DEF Playing
      <4> QED BY <4>1 DEF RoundRow
    <3> QED BY <3>2, <3>3, <3>4
  <2>4. \A x \in Rows : P[x] \in UserRow \cup WalletRow \cup VoucherRow \cup RoundRow \cup SessionRow
    BY <2>3 DEF Rows
  <2> QED BY <2>1, <2>2, <2>3, <2>4 DEF RowsOK
<1> QED BY <1>2, <1>3

LEMMA InitInv == Init => IInv
<1> SUFFICES ASSUME Init PROVE IInv
  OBVIOUS
<1>1. /\ cur = db /\ lock = [x \in Rows |-> NoReq] /\ req = [r \in Reqs |-> NoWork]
      /\ payouts = [g \in Rounds |-> 0] /\ recorded = db["wallet"].balance
  BY DEF Init
<1>2. RowsOK(db)
  <2>1. CASE db = Fresh
    BY <2>1, FirstRowsTyped
  <2>2. CASE \E b \in 0..Face, p \in {0, Bonus}, open \in {{}} \cup {{g} : g \in Rounds} :
               db = Playing(b, p, open)
    <3>1. PICK b \in 0..Face, p \in {0, Bonus}, open \in {{}} \cup {{g} : g \in Rounds} :
            db = Playing(b, p, open)
      BY <2>2
    <3>2. b \in Int /\ p \in Nat /\ open \in SUBSET Rounds
      BY AmountsAssumption
    <3> QED BY <3>1, <3>2, FirstRowsTyped
  <2> QED BY <2>1, <2>2 DEF Init
<1>3. NoWork \in Work
  BY KeyAssumption DEF NoWork, Work, Places, Statuses, Ops, Redeemers, WalletRow, NoWallet
<1>4. \A v \in Vouchers : credits[v] \in {0, 1} /\ (db[v].status = "new" => credits[v] = 0)
  <2>1. CASE credits = [v \in Vouchers |-> 0]
    BY <2>1
  <2>2. CASE /\ credits = [v \in Vouchers |-> IF v = Key THEN 1 ELSE 0]
             /\ \E b \in 0..Face, p \in {0, Bonus}, open \in {{}} \cup {{g} : g \in Rounds} :
                  db = Playing(b, p, open)
    <3>1. PICK b, p, open : db = Playing(b, p, open)
      BY <2>2
    <3>2. db[Key] = [status |-> "redeemed", used |-> TRUE]
      BY <3>1, KeyAssumption, RowNames DEF Playing
    <3>3. \A v \in Vouchers : credits[v] = IF v = Key THEN 1 ELSE 0
      BY <2>2
    <3> QED BY <3>2, <3>3
  <2> QED BY <2>1, <2>2 DEF Init
<1>5. credits \in [Vouchers -> Nat]
  BY DEF Init
<1>6. TypeOK
  <2>1. recorded \in Int
    BY <1>1, <1>2 DEF RowsOK, WalletRow
  <2>2. /\ req \in [Reqs -> Work] /\ lock \in [Rows -> Reqs \cup {NoReq}]
        /\ payouts \in [Rounds -> Nat]
    <3> HIDE DEF Work
    <3> QED BY <1>1, <1>3
  <2> QED BY <1>1, <1>2, <1>5, <2>1, <2>2 DEF TypeOK
<1>7. FreeRowsClean /\ RoundHistory /\ VoucherHistory
  BY <1>1, <1>4 DEF FreeRowsClean, RoundHistory, VoucherHistory
<1>8. ASSUME NEW r \in Reqs PROVE Part(r)
  <2>1. /\ req[r].at = "idle" /\ req[r].credited = {} /\ req[r].paid = {}
        /\ \A x \in Rows : lock[x] # r
    BY <1>1, NamesAssumption DEF NoWork
  <2> QED BY <2>1, RowNames DEF Part, IdlePart, PathPart, OwnsPart, RoundPart, VoucherPart,
                                OrderPart, Running
<1> QED BY <1>6, <1>7, <1>8 DEF IInv

-----------------------------------------------------------------------------
(* The theorems *)

\* Every reachable state satisfies the inductive invariant.
THEOREM Invariance == Spec => []IInv
<1>1. IInv /\ [Next]_vars => IInv'
  BY BeginInv, HandlerStepInv, CloseInv, DeadlockVictimInv, StutterInv DEF Next
<1> QED BY InitInv, <1>1, PTL DEF Spec

\* The rows, the locks and the request records keep their types, on every menu.
THEOREM TypeCorrect == Spec => []TypeOK
  BY Invariance, PTL DEF IInv

\* On every menu, and however settlements of a round overlap with each other, with
\* closed connections and with deadlock victims, it pays at most once.
THEOREM RoundsPaidOnce == Spec => []RoundPaidOnce
<1>1. IInv => RoundPaidOnce
  BY DEF IInv, RoundHistory, RoundPaidOnce
<1> QED BY Invariance, <1>1, PTL

\* When every redeemer on the menu locks the voucher, it is credited at most once.
THEOREM VouchersCreditedOnce ==
  ASSUME Locking
  PROVE  Spec => []VoucherCreditedOnce
<1>1. IInv => VoucherCreditedOnce
  BY DEF IInv, VoucherHistory, VoucherCreditedOnce
<1> QED BY Invariance, <1>1, PTL

-----------------------------------------------------------------------------
(* Deadlocks on a locking menu *)

\* What a request at each place waits for.
LEMMA NeedsByPlace ==
  ASSUME IInv, NEW r \in Reqs
  PROVE  /\ req[r].at \in {"idle", "done", "respond", "readVoucher", "readWallet"} => Needs(r) = {}
         /\ req[r].at \in {"lockVoucher", "saveVoucher", "lockActive"} => Needs(r) \subseteq Vouchers
         /\ req[r].at = "lockRound" => Needs(r) \subseteq Rounds
         /\ req[r].at \in {"linkWallet", "lockWallet", "saveWallet"} => Needs(r) \subseteq {"wallet"}
         /\ req[r].at \in {"findUser", "lockUser"} => Needs(r) \subseteq {"user"}
         /\ req[r].at \in {"saveSession", "revokeSession"} => Needs(r) \subseteq {"session"}
<1>1. /\ req[r].v \in Vouchers /\ req[r].seen.active \in Vouchers \cup {NoVoucher}
      /\ req[r].at = "lockRound" => req[r].g \in Rounds
      /\ Redeemed \subseteq Vouchers
  BY TypeFacts DEF IInv, Part, PathPart, Work, WalletRow, Redeemed
<1> QED BY <1>1 DEF Needs

LEMMA StuckNeedsSession ==
  ASSUME Locking, IInv, NEW C \in SUBSET Reqs, Stuck(C)
  PROVE  \E r, s \in C : /\ At(r, "revokeSession") /\ lock["session"] = s
                         /\ req[s].op \in {"bet", "settle"}
<1> SUFFICES ASSUME \A r, s \in C : At(r, "revokeSession") /\ lock["session"] = s =>
                                      req[s].op \notin {"bet", "settle"}
             PROVE  FALSE
  OBVIOUS
<1>1. ASSUME NEW r \in C
      PROVE  /\ r \in Reqs /\ req[r].at \in Places /\ req[r].op \notin UnlockedRedeemers
             /\ PathPart(r) /\ OrderPart(r)
             /\ Needs(r) # {}
             /\ req[r].at \notin {"idle", "done", "respond", "readVoucher", "readWallet",
                                  "saveVoucher", "findUser"}
  <2>1. r \in Reqs /\ Needs(r) # {} /\ req[r].at \in Places /\ PathPart(r) /\ OrderPart(r) /\ VoucherPart(r)
    BY TypeFacts DEF Stuck, Blocked, IInv, Part, Work
  <2>2. req[r].at \notin {"idle", "done", "respond", "readVoucher", "readWallet"}
    BY <2>1, NeedsByPlace
  <2>3. req[r].op \notin UnlockedRedeemers
    BY <2>1, <2>2 DEF VoucherPart, Running
  <2> QED BY <2>1, <2>2, <2>3 DEF PathPart
\* Whoever waits is blocked by somebody who also waits.
<1>2. ASSUME NEW r \in C
      PROVE  \E s \in C, x \in Needs(r) : s # r /\ lock[x] = s
  <2>1. Blockers(r) # {} /\ Blockers(r) \subseteq C
    BY DEF Stuck, Blocked
  <2>2. PICK s : s \in Blockers(r)
    BY <2>1
  <2> QED BY <2>1, <2>2 DEF Blockers
\* The owner of the session plays: nobody waits for it at the end of a termination.
<1>3. ASSUME NEW r \in C PROVE req[r].at \notin {"lockUser", "revokeSession"}
  <2>1. ASSUME NEW q \in C PROVE req[q].at # "revokeSession"
    <3> SUFFICES ASSUME req[q].at = "revokeSession" PROVE FALSE
      OBVIOUS
    <3>1. Needs(q) \subseteq {"session"}
      BY <1>1, NeedsByPlace
    <3>2. PICK s \in C : s # q /\ lock["session"] = s
      BY <1>2, <3>1
    <3>3. req[s].op \in {"bet", "settle"}
      BY <1>1, <3>2 DEF OrderPart
    <3> QED BY <3>2, <3>3 DEF At
  \* The owner of the user row is at that last step, or about to answer.
  <2>2. ASSUME NEW q \in C PROVE req[q].at # "lockUser"
    <3> SUFFICES ASSUME req[q].at = "lockUser" PROVE FALSE
      OBVIOUS
    <3>1. Needs(q) \subseteq {"user"}
      BY <1>1, NeedsByPlace
    <3>2. PICK s \in C : s # q /\ lock["user"] = s
      BY <1>2, <3>1
    <3> QED BY <1>1, <2>1, <3>2 DEF OrderPart
  <2> QED BY <2>1, <2>2
\* The owner of the wallet can save it, or waits for the user.
<1>4. ASSUME NEW r \in C PROVE "wallet" \notin Needs(r)
  <2> SUFFICES ASSUME "wallet" \in Needs(r) PROVE FALSE
    OBVIOUS
  <2>1. Needs(r) = {"wallet"}
    <3>1. req[r].at \in {"linkWallet", "lockWallet", "saveWallet"}
      BY <1>1, <1>3, NeedsByPlace, RowNames DEF Places
    <3> QED BY <1>1, <3>1, NeedsByPlace
  <2>2. PICK s \in C : s # r /\ lock["wallet"] = s
    BY <1>2, <2>1
  <2>3. req[s].at = "saveWallet"
    BY <1>1, <1>3, <2>2 DEF OrderPart
  <2>4. Needs(s) = {"wallet"}
    BY <1>1, <2>3, NeedsByPlace
  <2>5. \E t \in C, x \in Needs(s) : t # s /\ lock[x] = t
    BY <1>2
  <2> QED BY <2>2, <2>4, <2>5
<1>5. ASSUME NEW r \in C PROVE req[r].at \in {"lockVoucher", "lockActive", "saveSession", "lockRound"}
  <2>1. req[r].at \notin {"linkWallet", "lockWallet", "saveWallet"}
    BY <1>1, <1>4, NeedsByPlace
  <2> QED BY <1>1, <1>3, <2>1 DEF Places
\* The owner of a voucher has passed the vouchers.
<1>6. ASSUME NEW r \in C PROVE req[r].at \in {"saveSession", "lockRound"}
  <2> SUFFICES ASSUME req[r].at \in {"lockVoucher", "lockActive"} PROVE FALSE
    BY <1>5
  <2>1. Needs(r) \subseteq Vouchers
    BY <1>1, NeedsByPlace
  <2>2. PICK s \in C, v \in Vouchers : lock[v] = s
    BY <1>2, <2>1
  <2> QED BY <1>1, <1>5, <2>2 DEF OrderPart
\* The owner of the session has passed the session.
<1>7. ASSUME NEW r \in C PROVE req[r].at = "lockRound"
  <2> SUFFICES ASSUME req[r].at = "saveSession" PROVE FALSE
    BY <1>6
  <2>1. Needs(r) \subseteq {"session"}
    BY <1>1, NeedsByPlace
  <2>2. PICK s \in C : lock["session"] = s
    BY <1>2, <2>1
  <2> QED BY <1>1, <1>6, <2>2 DEF OrderPart
\* And the owner of a round has passed the rounds.
<1>8. PICK r \in C : TRUE
  BY DEF Stuck
<1>9. PICK s \in C, g \in Rounds : lock[g] = s
  BY <1>1, <1>2, <1>7, <1>8, NeedsByPlace
<1> QED BY <1>1, <1>7, <1>9 DEF OrderPart

\* When every redeemer on the menu locks the voucher, all requests take rounds, the
\* session, vouchers, the wallet and the user in this order, but for a termination, which
\* takes the session last (vouchers.js:1197): in every deadlock one of them waits for the
\* session of a bet or a settlement that is under way (games.js:76).
THEOREM DeadlocksNeedSession ==
  ASSUME Locking
  PROVE  Spec => []DeadlockNeedsSession
<1>1. IInv => DeadlockNeedsSession
  BY StuckNeedsSession DEF DeadlockNeedsSession
<1> QED BY Invariance, <1>1, PTL

-----------------------------------------------------------------------------
(* Each commit is one step in the life of one voucher, or none *)

LEMMA CommitIsLife ==
  ASSUME Locking, IInv, NEW r \in Reqs, Commit(r)
  PROVE  Life!Next \/ UNCHANGED <<Status, credits>>
<1>1. PICK v : v = req[r].v
  OBVIOUS
<1>2. /\ v \in Vouchers /\ v \in Rows /\ VoucherPart(r) /\ credits \in [Vouchers -> Nat]
      /\ \A u \in Vouchers : u \in Rows /\ db[u].status \in {"new", "redeemed", "terminated"}
  BY <1>1, TypeFacts, RowNames DEF IInv, Part, TypeOK, RowsOK, Work, VoucherRow
<1>3. /\ \A u \in Vouchers : db'[u] = IF lock[u] = r THEN cur[u] ELSE db[u]
      /\ credits' = [u \in Vouchers |-> credits[u] + IF u \in req[r].credited THEN 1 ELSE 0]
  BY <1>2 DEF Commit
<1>4. Status' = [u \in Vouchers |-> db'[u].status] /\ Status = [u \in Vouchers |-> db[u].status]
  BY DEF Status
<1>5. \A u \in Vouchers \ {v} : db'[u].status = db[u].status /\ u \notin req[r].credited
  BY <1>1, <1>2, <1>3 DEF VoucherPart
<1>6. CASE v \in req[r].credited
  <2>1. db[v].status = "new" /\ db'[v].status = "redeemed"
    BY <1>2, <1>3, <1>6 DEF VoucherPart
  <2>2. Status' = [Status EXCEPT ![v] = "redeemed"]
    BY <1>2, <1>4, <1>5, <2>1
  <2>3. credits' = [credits EXCEPT ![v] = @ + 1]
    <3>1. \A u \in Vouchers : credits[u] + (IF u \in req[r].credited THEN 1 ELSE 0)
                               = IF u = v THEN credits[v] + 1 ELSE credits[u]
      BY <1>2, <1>5, <1>6
    <3>2. credits' = [u \in Vouchers |-> IF u = v THEN credits[v] + 1 ELSE credits[u]]
      BY <1>3, <3>1
    <3> QED BY <1>2, <3>2
  <2>4. Life!Redeem(v)
    BY <1>2, <1>4, <2>1, <2>2, <2>3 DEF Life!Redeem
  <2> QED BY <1>2, <2>4 DEF Life!Next
<1>7. CASE v \notin req[r].credited
  <2>1. credits' = credits
    BY <1>2, <1>3, <1>5, <1>7
  <2>2. db'[v].status = db[v].status \/ db'[v].status = "terminated"
    BY <1>2, <1>3, <1>7 DEF VoucherPart
  <2>3. CASE db'[v].status = db[v].status
    <3>1. Status' = Status
      BY <1>4, <1>5, <2>3
    <3> QED BY <2>1, <3>1
  <2>4. CASE db'[v].status = "terminated" /\ db[v].status # "terminated"
    <3>1. Status' = [Status EXCEPT ![v] = "terminated"]
      BY <1>2, <1>4, <1>5, <2>4
    <3>2. Life!Terminate(v)
      BY <1>2, <1>4, <2>1, <2>4, <3>1 DEF Life!Terminate
    <3> QED BY <1>2, <3>2 DEF Life!Next
  <2> QED BY <2>2, <2>3, <2>4
<1> QED BY <1>6, <1>7

LEMMA InitIsLife == Init => Life!Init
<1> SUFFICES ASSUME Init PROVE Life!Init
  OBVIOUS
<1>1. Status = [v \in Vouchers |-> db[v].status]
  BY DEF Status
<1>2. CASE db = Fresh /\ credits = [v \in Vouchers |-> 0]
  <2>1. \A v \in Vouchers : db[v].status = "new"
    BY <1>2, RowNames DEF Fresh
  <2>2. \A v \in Vouchers : Status[v] = "new"
    BY <1>1, <2>1
  <2>3. Status \in [Vouchers -> {"new", "redeemed"}]
    BY <1>1, <2>1
  <2>4. credits = [v \in Vouchers |-> IF Status[v] = "new" THEN 0 ELSE 1]
    BY <1>2, <2>2
  <2> QED BY <2>3, <2>4 DEF Life!Init
<1>3. CASE /\ credits = [v \in Vouchers |-> IF v = Key THEN 1 ELSE 0]
           /\ \E b \in 0..Face, p \in {0, Bonus}, open \in {{}} \cup {{g} : g \in Rounds} :
                db = Playing(b, p, open)
  <2>1. PICK b, p, open : db = Playing(b, p, open)
    BY <1>3
  <2>2. \A v \in Vouchers : /\ v = Key => db[v].status = "redeemed"
                            /\ v # Key => db[v].status = "new"
    <3>1. db[Key] = [status |-> "redeemed", used |-> TRUE]
      BY <2>1, KeyAssumption, RowNames DEF Playing
    <3>2. ASSUME NEW v \in Vouchers, v # Key
          PROVE  db[v] = [status |-> "new", used |-> FALSE]
      BY <2>1, <3>2, RowNames DEF Playing
    <3> QED BY <3>1, <3>2
  <2>3. Status \in [Vouchers -> {"new", "redeemed"}]
    <3>1. \A v \in Vouchers : db[v].status \in {"new", "redeemed"}
      BY <2>2
    <3> QED BY ONLY <1>1, <3>1
  <2>4. credits = [v \in Vouchers |-> IF Status[v] = "new" THEN 0 ELSE 1]
    <3>1. \A v \in Vouchers : Status[v] = db[v].status
      BY <1>1
    <3>2. \A v \in Vouchers : (Status[v] = "new") <=> (v # Key)
      BY <2>2, <3>1
    <3>3. credits = [v \in Vouchers |-> IF v = Key THEN 1 ELSE 0]
      BY <1>3
    <3> QED BY ONLY <3>2, <3>3
  <2> QED BY <2>3, <2>4 DEF Life!Init
<1> QED BY <1>2, <1>3 DEF Init

\* Only the commit of a finished request moves a committed row.
LEMMA OtherStepsKeepRows ==
  ASSUME NEW r \in Reqs, Begin(r) \/ HandlerStep(r) \/ Close(r) \/ DeadlockVictim(r)
  PROVE  Commit(r) \/ UNCHANGED <<db, credits>>
<1>1. Finish(r) => Commit(r) \/ UNCHANGED <<db, credits>>
  BY DEF Finish, Rollback, Ghosts
<1>2. Close(r) \/ DeadlockVictim(r) => UNCHANGED <<db, credits>>
  BY ZenonT(60) DEF Close, DeadlockVictim, Rollback, Ghosts
<1>3. Begin(r) \/ ReadVoucher(r) \/ LockNewVoucher(r) \/ LockAnyVoucher(r) \/ LockRound(r)
        \/ SaveSession(r) \/ FindUser(r) \/ ReadWallet(r) => UNCHANGED <<db, credits>>
  BY DEF Begin, ReadVoucher, LockNewVoucher, LockAnyVoucher, LockRound, SaveSession, FindUser,
         ReadWallet, Ghosts
<1>5. LockActive(r) \/ LinkWallet(r) \/ SaveVoucher(r) \/ RefuseSpend(r) \/ LockWallet(r)
        \/ LockUser(r) \/ RevokeSession(r) => UNCHANGED <<db, credits>>
  BY DEF LockActive, LinkWallet, SaveVoucher, RefuseSpend, LockWallet, LockUser, RevokeSession,
         Ghosts
<1>4. RedeemLocked(r) \/ RedeemUnlocked(r) \/ PlaceBet(r) \/ SettleRound(r) \/ MoveMoney(r)
        => UNCHANGED <<db, credits>>
  BY DEF RedeemLocked, RedeemUnlocked, PlaceBet, SettleRound, MoveMoney, SaveRows, Ghosts
<1> QED BY <1>1, <1>2, <1>3, <1>4, <1>5 DEF HandlerStep

\* When every redeemer on the menu locks the voucher, the requests with their
\* locks, rollbacks and deadlocks implement the life of a voucher.
THEOREM Implementation ==
  ASSUME Locking
  PROVE  Spec => ImplementsVoucherLife
<1>1. IInv /\ [Next]_vars => [Life!Next]_(Life!vars)
  <2> SUFFICES ASSUME IInv, [Next]_vars PROVE Life!Next \/ UNCHANGED <<Status, credits>>
    BY DEF Life!vars
  <2>1. ASSUME NEW r \in Reqs, Begin(r) \/ HandlerStep(r) \/ Close(r) \/ DeadlockVictim(r)
        PROVE  Life!Next \/ UNCHANGED <<Status, credits>>
    BY <2>1, OtherStepsKeepRows, CommitIsLife DEF Status
  <2>2. CASE UNCHANGED vars
    BY <2>2 DEF vars, Ghosts, Status
  <2> QED BY <2>1, <2>2 DEF Next
<1> QED BY InitIsLife, <1>1, Invariance, PTL DEF Spec, ImplementsVoucherLife, Life!Spec

-----------------------------------------------------------------------------
(* Money: what a handler has computed of the wallet *)

\* A wallet is owned only from its last read on, a request that owns none has moved
\* nothing, and a wallet that was saved holds what was read and the change of it.
MoneyPart(r) ==
  /\ lock["wallet"] = r => req[r].at \in {"saveWallet", "lockUser", "revokeSession", "saveVoucher", "respond"}
  /\ lock["wallet"] # r => req[r].change = 0
  /\ req[r].at \notin {"saveVoucher", "respond"} => req[r].change = 0
  /\ lock["wallet"] = r /\ (req[r].at = "saveVoucher" \/ (req[r].at = "respond" /\ req[r].status < 400))
       => cur["wallet"].balance = req[r].seen.balance + req[r].change

Money == \A r \in Reqs : MoneyPart(r)

\* Without manual adjustments no version and no copy of the balance is negative.
SolventPart(r) ==
  /\ req[r].op # "adjust"
  /\ req[r].amount >= 0
  /\ req[r].seen.balance >= 0

Solvent ==
  /\ db["wallet"].balance >= 0 /\ cur["wallet"].balance >= 0
  /\ \A r \in Reqs : SolventPart(r)

\* r goes to place p with status st and change c; the other fields these facts read
\* and the other requests stay.
Walks(r, p, st, c) ==
  /\ req'[r].at = p /\ req'[r].status = st /\ req'[r].change = c
  /\ req'[r].op = req[r].op /\ req'[r].amount = req[r].amount /\ req'[r].seen = req[r].seen
  /\ \A s \in Reqs \ {r} : req'[s] = req[s]

LEMMA PlainWalks ==
  ASSUME TypeOK, NEW r \in Reqs, NEW p \in Places, NEW st \in Statuses
  PROVE  /\ req' = Goto(r, p) => Walks(r, p, req[r].status, req[r].change)
         /\ req' = Answer(r, st) => Walks(r, "respond", st, req[r].change)
<1>1. req \in [Reqs -> Work] /\ req[r] \in Work
  BY TypeFacts DEF TypeOK
<1>2. req' = Goto(r, p) => Walks(r, p, req[r].status, req[r].change)
  BY <1>1 DEF Walks, Goto, Work
<1>3. req' = Answer(r, st) => Walks(r, "respond", st, req[r].change)
  BY <1>1 DEF Walks, Answer, Work
<1> QED BY <1>2, <1>3

LEMMA SavingWalks ==
  ASSUME TypeOK, NEW r \in Reqs, NEW c \in Int, NEW cs \in SUBSET Vouchers, NEW ps \in SUBSET Rounds
  PROVE  /\ req' = [Answer(r, 200) EXCEPT ![r].change = c] => Walks(r, "respond", 200, c)
         /\ req' = [Answer(r, 200) EXCEPT ![r].credited = cs, ![r].change = c]
              => Walks(r, "respond", 200, c)
         /\ req' = [Answer(r, 200) EXCEPT ![r].change = c, ![r].paid = ps]
              => Walks(r, "respond", 200, c)
         /\ req' = [Goto(r, "saveVoucher") EXCEPT ![r].credited = cs, ![r].change = c]
              => Walks(r, "saveVoucher", req[r].status, c)
<1>1. req \in [Reqs -> Work] /\ req[r] \in Work
  BY TypeFacts DEF TypeOK
<1>2. req' = [Answer(r, 200) EXCEPT ![r].change = c] => Walks(r, "respond", 200, c)
  BY <1>1 DEF Walks, Answer, Work
<1>3. req' = [Answer(r, 200) EXCEPT ![r].credited = cs, ![r].change = c] => Walks(r, "respond", 200, c)
  BY <1>1 DEF Walks, Answer, Work
<1>4. req' = [Answer(r, 200) EXCEPT ![r].change = c, ![r].paid = ps] => Walks(r, "respond", 200, c)
  BY <1>1 DEF Walks, Answer, Work
<1>5. req' = [Goto(r, "saveVoucher") EXCEPT ![r].credited = cs, ![r].change = c]
        => Walks(r, "saveVoucher", req[r].status, c)
  BY <1>1 DEF Walks, Goto, Work
<1> QED BY <1>2, <1>3, <1>4, <1>5

\* What a step of r means for the wallet: nothing, r takes it with its read, or r
\* saves it and owns it from then on.
WalletQuiet(r) == db' = db /\ lock'["wallet"] = lock["wallet"] /\ cur'["wallet"] = cur["wallet"]
WalletTaken(r) ==
  /\ db' = db /\ lock["wallet"] = NoReq /\ lock'["wallet"] = r
  /\ cur'["wallet"].balance = cur["wallet"].balance
WalletSaved(r, b) ==
  /\ db' = db /\ lock["wallet"] \in {NoReq, r} /\ lock'["wallet"] = r /\ cur'["wallet"].balance = b

\* A request that walks on without touching the wallet.
LEMMA QuietMoney ==
  ASSUME TypeOK, NEW r \in Reqs, NEW p, NEW st, Walks(r, p, st, req[r].change), WalletQuiet(r)
  PROVE  /\ Money /\ req[r].at \notin {"saveVoucher", "respond"} /\ p # "saveVoucher"
            /\ (lock["wallet"] = r => p \in {"saveWallet", "lockUser", "revokeSession"} \/ (p = "respond" /\ ~(st < 400)))
              => Money'
         /\ Solvent => Solvent'
  BY DEF Walks, WalletQuiet, Money, MoneyPart, Solvent, SolventPart

LEMMA TakenMoney ==
  ASSUME TypeOK, NEW r \in Reqs, NEW p \in {"saveWallet", "lockUser"}, WalletTaken(r),
         req'[r].at = p, req'[r].change = req[r].change, req[r].at \notin {"saveVoucher", "respond"},
         \A s \in Reqs \ {r} : req'[s] = req[s]
  PROVE  Money => Money'
<1>1. r # NoReq
  BY TypeFacts
<1> QED BY <1>1, NamesAssumption DEF WalletTaken, Money, MoneyPart

LEMMA SavedMoney ==
  ASSUME TypeOK, NEW r \in Reqs, NEW p \in {"saveVoucher", "respond"}, NEW st, NEW c \in Int, NEW b \in Int,
         Walks(r, p, st, c), WalletSaved(r, b)
  PROVE  /\ Money /\ b = req[r].seen.balance + c => Money'
         /\ Solvent /\ b >= 0 => Solvent'
<1>1. r # NoReq
  BY TypeFacts
<1> QED BY <1>1, NamesAssumption DEF Walks, WalletSaved, Money, MoneyPart, Solvent, SolventPart

\* Every step before the end, by what it does to the wallet.
MoneyStep(r) == (Money => Money') /\ (Solvent => Solvent')

LEMMA ReadingMoney ==
  ASSUME IInv, Money, NEW r \in Reqs,
         ReadVoucher(r) \/ LockNewVoucher(r) \/ LockAnyVoucher(r) \/ LockRound(r) \/ SaveSession(r)
           \/ FindUser(r) \/ LockUser(r) \/ RefuseSpend(r)
  PROVE  MoneyStep(r)
<1>1. /\ TypeOK /\ {200, 400, 403, 404} \subseteq Statuses /\ r # NoReq
      /\ {"findUser", "saveSession", "readWallet", "lockWallet", "revokeSession"} \subseteq Places
      /\ req[r].v \in Vouchers /\ "wallet" \in Rows
  BY TypeFacts, RowNames DEF IInv, Statuses, Places, Work
<1>2. req[r].v # "wallet" /\ \A g \in Rounds : g # "wallet"
  <2>1. req[r].v \in Vouchers
    BY <1>1
  <2> QED BY ONLY <2>1, RowNames
<1>3. /\ req[r].at \notin {"saveVoucher", "respond"}
      /\ lock["wallet"] = r => req[r].at \in {"saveWallet", "lockUser", "revokeSession"}
  BY DEF Money, MoneyPart, ReadVoucher, LockNewVoucher, LockAnyVoucher, LockRound, SaveSession,
         FindUser, LockUser, RefuseSpend, At
<1>4. ASSUME NEW p \in {"findUser", "saveSession", "readWallet", "lockWallet", "revokeSession"},
             req' = Goto(r, p), WalletQuiet(r), lock["wallet"] # r \/ p = "revokeSession"
      PROVE  MoneyStep(r)
  <2>1. p \in Places /\ p # "saveVoucher" /\ 200 \in Statuses
    BY <1>1
  <2>2. Walks(r, p, req[r].status, req[r].change)
    BY <1>1, <1>4, <2>1, PlainWalks
  <2>3. lock["wallet"] = r => p \in {"saveWallet", "lockUser", "revokeSession"}
    BY <1>4
  <2>4. Money'
    BY <1>1, <1>3, <1>4, <2>1, <2>2, <2>3, QuietMoney
  <2>5. Solvent => Solvent'
    BY <1>1, <1>4, <2>2, QuietMoney
  <2> QED BY <2>4, <2>5 DEF MoneyStep
<1>5. ASSUME NEW st \in {200, 400, 403, 404}, req' = Answer(r, st), WalletQuiet(r),
             lock["wallet"] # r \/ ~(st < 400)
      PROVE  MoneyStep(r)
  <2>1. Walks(r, "respond", st, req[r].change)
    BY <1>1, <1>5, PlainWalks
  <2>2. lock["wallet"] = r => ~(st < 400)
    BY <1>5
  <2>3. Money'
    BY <1>1, <1>3, <1>5, <2>1, <2>2, QuietMoney
  <2>4. Solvent => Solvent'
    BY <1>1, <1>5, <2>1, QuietMoney
  <2> QED BY <2>3, <2>4 DEF MoneyStep
<1>6. CASE ReadVoucher(r)
  <2>1. WalletQuiet(r) /\ lock["wallet"] # r
    BY <1>3, <1>6 DEF ReadVoucher, WalletQuiet, At
  <2>2. \/ req' = Goto(r, "findUser") \/ req' = Goto(r, "readWallet")
        \/ req' = Answer(r, 200) \/ req' = Answer(r, 404)
    BY <1>6 DEF ReadVoucher
  <2> QED BY <1>4, <1>5, <2>1, <2>2
<1>7. CASE LockNewVoucher(r)
  <2>1. WalletQuiet(r) /\ lock["wallet"] # r
    BY <1>1, <1>2, <1>3, <1>7 DEF LockNewVoucher, WalletQuiet, At, TypeOK
  <2>2. req' = Goto(r, "readWallet") \/ req' = Answer(r, 404)
    BY <1>7 DEF LockNewVoucher
  <2> QED BY <1>4, <1>5, <2>1, <2>2
<1>8. CASE LockAnyVoucher(r)
  <2>1. WalletQuiet(r) /\ lock["wallet"] # r
    <3>1. lock["wallet"] # r
      BY <1>3, <1>8 DEF LockAnyVoucher, At
    <3>2. lock'["wallet"] = lock["wallet"] /\ cur'["wallet"] = cur["wallet"] /\ db' = db
      BY <1>1, <1>2, <1>8 DEF LockAnyVoucher, TypeOK, RowsOK
    <3> QED BY <3>1, <3>2 DEF WalletQuiet
  <2>2. req' = Goto(r, "lockWallet") \/ req' = Answer(r, 400) \/ req' = Answer(r, 200)
    BY <1>8 DEF LockAnyVoucher
  <2> QED BY <1>4, <1>5, <2>1, <2>2
<1>9. CASE LockRound(r)
  <2>1. req[r].at = "lockRound" /\ req[r].g \in Rounds
    BY <1>9 DEF LockRound, At, IInv, Part, PathPart
  <2>2. WalletQuiet(r) /\ lock["wallet"] # r
    BY <1>1, <1>2, <1>3, <1>9, <2>1 DEF LockRound, WalletQuiet, TypeOK
  <2>3. \/ req' = Goto(r, "readWallet") \/ req' = Goto(r, "saveSession")
        \/ req' = Answer(r, 404) \/ req' = Answer(r, 400)
    BY <1>9 DEF LockRound, SessionPlaces
  <2> QED BY <1>4, <1>5, <2>2, <2>3
<1>10. CASE FindUser(r)
  <2>1. WalletQuiet(r) /\ lock["wallet"] # r
    <3>1. lock["wallet"] # r
      BY <1>3, <1>10 DEF FindUser, At
    <3>2. lock'["wallet"] = lock["wallet"] /\ cur'["wallet"] = cur["wallet"] /\ db' = db
      BY <1>1, <1>2, <1>10 DEF FindUser, TypeOK, RowsOK
    <3> QED BY <3>1, <3>2 DEF WalletQuiet
  <2>2. req' = Goto(r, "readWallet") \/ req' = Answer(r, 403)
    BY <1>10 DEF FindUser
  <2> QED BY <1>4, <1>5, <2>1, <2>2
<1>11. CASE RefuseSpend(r)
  <2>1. WalletQuiet(r) /\ req' = Answer(r, 400) /\ ~(400 < 400)
    BY <1>11 DEF RefuseSpend, WalletQuiet
  <2> QED BY <1>5, <2>1
<1>12. CASE SaveSession(r)
  <2>1. WalletQuiet(r) /\ lock["wallet"] # r
    BY <1>1, <1>3, <1>12 DEF SaveSession, WalletQuiet, TypeOK, At
  <2>2. req' = Goto(r, "readWallet")
    BY <1>12 DEF SaveSession
  <2> QED BY <1>4, <2>1, <2>2
<1>13. CASE LockUser(r)
  <2>1. WalletQuiet(r) /\ req' = Goto(r, "revokeSession")
    BY <1>1, <1>13 DEF LockUser, WalletQuiet, TypeOK
  <2> QED BY <1>4, <2>1
<1> QED BY <1>6, <1>7, <1>8, <1>9, <1>10, <1>11, <1>12, <1>13

\* ReadWallet and LockActive change what r has seen or its voucher; LinkWallet and
\* LockWallet take the wallet without touching its balance.
LEMMA WalletReadMoney ==
  ASSUME IInv, Money, NEW r \in Reqs, ReadWallet(r)
  PROVE  MoneyStep(r)
<1>1. /\ req \in [Reqs -> Work] /\ req[r] \in Work /\ req[r].at = "readWallet"
      /\ lock["wallet"] # r /\ UNCHANGED <<db, cur, lock>>
  BY TypeFacts DEF IInv, TypeOK, ReadWallet, At, Money, MoneyPart
<1>2. /\ req'[r].at \in {"lockActive", "saveWallet"} /\ req'[r].change = req[r].change
      /\ req'[r].op = req[r].op /\ req'[r].amount = req[r].amount /\ req'[r].seen = db["wallet"]
      /\ \A s \in Reqs \ {r} : req'[s] = req[s]
  BY <1>1 DEF ReadWallet, Work
<1> QED BY <1>1, <1>2 DEF MoneyStep, Money, MoneyPart, Solvent, SolventPart

LEMMA LockActiveMoney ==
  ASSUME IInv, Money, NEW r \in Reqs, LockActive(r)
  PROVE  MoneyStep(r)
<1>1. /\ req \in [Reqs -> Work] /\ req[r] \in Work /\ req[r].at = "lockActive"
      /\ lock["wallet"] # r /\ UNCHANGED <<db, cur>>
  BY TypeFacts DEF IInv, TypeOK, LockActive, At, Money, MoneyPart
<1>2. lock'["wallet"] = lock["wallet"]
  <2>1. req[r].seen.active \in Vouchers \cup {NoVoucher} /\ Redeemed \subseteq Vouchers
    BY <1>1 DEF Work, WalletRow, Redeemed
  <2>2. lock' = lock \/ \E v \in Vouchers : lock' = [lock EXCEPT ![v] = r]
    BY <2>1 DEF LockActive
  <2> QED BY <2>2, RowNames, TypeFacts DEF IInv
<1>3. /\ req'[r].at \in {"saveWallet", "linkWallet"} \/ (req'[r].at = "respond" /\ req'[r].status = 403)
      /\ req'[r].change = req[r].change /\ req'[r].op = req[r].op
      /\ req'[r].amount = req[r].amount /\ req'[r].seen = req[r].seen
      /\ \A s \in Reqs \ {r} : req'[s] = req[s]
  <2>1. CASE req' = Goto(r, "saveWallet")
    BY <1>1, <2>1 DEF Goto, Work
  <2>2. CASE \E v \in Redeemed : req' = [req EXCEPT ![r].v = v, ![r].at = "linkWallet"]
    <3>1. PICK v \in Redeemed : req' = [req EXCEPT ![r].v = v, ![r].at = "linkWallet"]
      BY <2>2
    <3> QED BY <1>1, <3>1 DEF Work
  <2>3. CASE req' = Answer(r, 403)
    BY <1>1, <2>3 DEF Answer, Work
  <2> QED BY <2>1, <2>2, <2>3 DEF LockActive
<1> QED BY <1>1, <1>2, <1>3 DEF MoneyStep, Money, MoneyPart, Solvent, SolventPart

LEMMA TakingMoney ==
  ASSUME IInv, Money, NEW r \in Reqs, LinkWallet(r) \/ LockWallet(r)
  PROVE  MoneyStep(r)
<1>1. /\ TypeOK /\ req \in [Reqs -> Work] /\ req[r] \in Work /\ "wallet" \in Rows
      /\ req[r].at \in {"linkWallet", "lockWallet"}
      /\ cur["wallet"] \in WalletRow /\ DOMAIN cur = Rows /\ DOMAIN lock = Rows
  BY TypeFacts, RowNames DEF IInv, TypeOK, LinkWallet, LockWallet, At
<1>2. WalletTaken(r)
  <2>1. CASE LinkWallet(r)
    BY <1>1, <2>1 DEF LinkWallet, WalletTaken, WalletRow
  <2>2. CASE LockWallet(r)
    BY <1>1, <2>2 DEF LockWallet, WalletTaken
  <2> QED BY <2>1, <2>2
<1>3. /\ req'[r].at \in {"saveWallet", "lockUser"} /\ req'[r].change = req[r].change
      /\ req'[r].op = req[r].op /\ req'[r].amount = req[r].amount
      /\ req'[r].seen \in {req[r].seen, db["wallet"]}
      /\ \A s \in Reqs \ {r} : req'[s] = req[s]
  <2>1. CASE LinkWallet(r)
    BY <1>1, <2>1 DEF LinkWallet, Goto, Work
  <2>2. CASE LockWallet(r)
    BY <1>1, <2>2 DEF LockWallet, Work
  <2> QED BY <2>1, <2>2
<1>4. Money'
  BY <1>1, <1>2, <1>3, TakenMoney
<1>5. Solvent => Solvent'
  BY <1>2, <1>3 DEF WalletTaken, Solvent, SolventPart
<1> QED BY <1>4, <1>5 DEF MoneyStep

LEMMA SaveVoucherMoney ==
  ASSUME IInv, Money, NEW r \in Reqs, SaveVoucher(r)
  PROVE  MoneyStep(r)
<1>1. /\ TypeOK /\ 200 \in Statuses /\ "respond" \in Places /\ req[r].v \in Vouchers
      /\ req[r].at = "saveVoucher" /\ req' = Answer(r, 200) /\ db' = db
      /\ DOMAIN cur = Rows /\ DOMAIN lock = Rows /\ "wallet" \in Rows
  BY TypeFacts, RowNames DEF IInv, Statuses, Places, Work, SaveVoucher, At
<1>2. lock'["wallet"] = lock["wallet"] /\ cur'["wallet"] = cur["wallet"]
  BY <1>1, RowNames DEF SaveVoucher
<1>3. Walks(r, "respond", 200, req[r].change)
  BY <1>1, PlainWalks
<1> QED BY <1>1, <1>2, <1>3 DEF Walks, MoneyStep, Money, MoneyPart, Solvent, SolventPart

LEMMA RevokeSessionMoney ==
  ASSUME IInv, Money, NEW r \in Reqs, RevokeSession(r)
  PROVE  MoneyStep(r)
<1>1. /\ TypeOK /\ "wallet" \in Rows /\ req[r].v \in Rows /\ req[r].v # "wallet"
      /\ req[r].at = "revokeSession" /\ lock["wallet"] = r
      /\ DOMAIN cur = Rows /\ DOMAIN lock = Rows /\ req[r].seen.balance \in Int
  <2>1. req[r].at = "revokeSession" /\ lock["wallet"] = r
    BY DEF RevokeSession, At, IInv, Part, OwnsPart
  <2>2. req[r].v \in Vouchers /\ req[r].seen.balance \in Int
    BY TypeFacts DEF IInv, Work, WalletRow
  <2> QED BY <2>1, <2>2, TypeFacts, RowNames DEF IInv
<1>2. WalletSaved(r, 0)
  <2>1. cur'["wallet"] = NoWallet /\ UNCHANGED db
    BY <1>1 DEF RevokeSession
  <2>2. lock'["wallet"] = lock["wallet"]
    BY <1>1 DEF RevokeSession
  <2> QED BY <1>1, <2>1, <2>2 DEF WalletSaved, NoWallet
<1>3. Walks(r, "respond", 200, 0 - req[r].seen.balance)
  <2>1. 0 - req[r].seen.balance \in Int
    BY <1>1
  <2> QED BY <1>1, <2>1, SavingWalks DEF RevokeSession
<1>4. 0 - req[r].seen.balance \in Int /\ 0 = req[r].seen.balance + (0 - req[r].seen.balance)
  BY <1>1
<1> QED BY <1>1, <1>2, <1>3, <1>4, SavedMoney DEF MoneyStep

\* SaveRows of w, with whatever other rows, leaves the balance of w behind.
LEMMA SavesWallet ==
  ASSUME IInv, NEW r \in Reqs, NEW w, NEW others, "wallet" \notin DOMAIN others,
         SaveRows(r, w, others)
  PROVE  WalletSaved(r, w.balance)
<1>1. "wallet" \in Rows
  BY RowNames
<1>2. cur'["wallet"] = Stored(r, w) /\ lock'["wallet"] = r
  BY <1>1 DEF SaveRows
<1>3. Stored(r, w).balance = w.balance
  BY DEF Stored
<1> QED BY <1>2, <1>3 DEF SaveRows, WalletSaved, Ghosts

\* The balance that a released bonus leaves is the old one or more.
LEMMA BonusAdds ==
  ASSUME NEW w \in WalletRow
  PROVE  WithBonus(w).balance \in Int /\ WithBonus(w).balance >= w.balance
  BY DEF WithBonus, WalletRow

LEMMA CreditedAdds ==
  ASSUME IInv, NEW r \in Reqs
  PROVE  Credited(r).balance \in Int /\ Credited(r).balance >= req[r].seen.balance
<1> DEFINE w == [balance |-> req[r].seen.balance + Face,
                 pending |-> req[r].seen.pending + Bonus, active |-> req[r].v]
<1>1. /\ req[r].seen.balance \in Int /\ req[r].seen.pending \in Nat /\ req[r].v \in Vouchers
  BY TypeFacts DEF IInv, Work, WalletRow
<1>2. w \in WalletRow /\ w.balance >= req[r].seen.balance /\ w.balance \in Int
  BY <1>1, AmountsAssumption DEF WalletRow
<1>3. Credited(r) = WithBonus(w)
  BY DEF Credited
<1> HIDE DEF w
<1>4. WithBonus(w).balance \in Int /\ WithBonus(w).balance >= w.balance
  BY <1>2, BonusAdds
<1> QED BY <1>1, <1>2, <1>3, <1>4

LEMMA RedeemMoney ==
  ASSUME IInv, Money, NEW r \in Reqs, RedeemLocked(r) \/ RedeemUnlocked(r)
  PROVE  MoneyStep(r)
<1>1. PICK c, b, a : c = Credited(r).balance - req[r].seen.balance /\ b = Credited(r).balance
                       /\ a = req[r].seen.balance
  OBVIOUS
<1>2. TypeOK /\ a \in Int /\ b \in Int /\ c \in Int /\ b >= a /\ b = a + c /\ {req[r].v} \in SUBSET Vouchers
  <2>1. a \in Int /\ req[r].v \in Vouchers
    BY <1>1, TypeFacts DEF IInv, Work, WalletRow
  <2>2. b \in Int /\ b >= a /\ c = b - a
    BY <1>1, CreditedAdds
  <2> QED BY <2>1, <2>2 DEF IInv
<1>3. WalletSaved(r, b)
  <2>1. req[r].v # "wallet" /\ "wallet" \notin DOMAIN <<>>
    BY TypeFacts, RowNames DEF IInv, Work
  <2>2. "wallet" \notin DOMAIN [x \in {req[r].v} |-> UsedVoucher]
    BY <2>1
  <2>3. \/ SaveRows(r, Credited(r), [x \in {req[r].v} |-> UsedVoucher])
        \/ SaveRows(r, Credited(r), <<>>)
    BY DEF RedeemLocked, RedeemUnlocked
  <2> QED BY <1>1, <2>1, <2>2, <2>3, SavesWallet
<1>4. \E p \in {"saveVoucher", "respond"}, st \in {200, req[r].status} : Walks(r, p, st, c)
  <2>1. CASE RedeemLocked(r)
    <3>1. req' = [Answer(r, 200) EXCEPT ![r].credited = {req[r].v}, ![r].change = c]
      BY <1>1, <2>1 DEF RedeemLocked
    <3> QED BY <1>2, <3>1, SavingWalks
  <2>2. CASE RedeemUnlocked(r)
    <3>1. req' = [Goto(r, "saveVoucher") EXCEPT ![r].credited = {req[r].v}, ![r].change = c]
      BY <1>1, <2>2 DEF RedeemUnlocked
    <3> QED BY <1>2, <3>1, SavingWalks
  <2> QED BY <2>1, <2>2
<1>5. PICK p \in {"saveVoucher", "respond"}, st \in {200, req[r].status} : Walks(r, p, st, c)
  BY <1>4
<1>6. Solvent => b >= 0
  <2>1. Solvent => a >= 0
    BY <1>1 DEF Solvent, SolventPart
  <2> QED BY <1>2, <2>1
<1>7. Money /\ b = req[r].seen.balance + c => Money'
  BY <1>2, <1>3, <1>5, SavedMoney
<1>8. Solvent /\ b >= 0 => Solvent'
  BY <1>2, <1>3, <1>5, SavedMoney
<1> QED BY <1>1, <1>2, <1>6, <1>7, <1>8 DEF MoneyStep

\* A bet, a settlement, a credit, a debit: the copy with d added, and perhaps a bonus.
LEMMA SpendMoney ==
  ASSUME IInv, Money, NEW r \in Reqs, NEW c \in Int, NEW b \in Int, b = req[r].seen.balance + c,
         Walks(r, "respond", 200, c), WalletSaved(r, b), Solvent => b >= 0
  PROVE  MoneyStep(r)
<1>1. TypeOK
  BY DEF IInv
<1> QED BY <1>1, SavedMoney DEF MoneyStep

LEMMA PlaceBetMoney ==
  ASSUME IInv, Money, NEW r \in Reqs, PlaceBet(r)
  PROVE  MoneyStep(r)
<1> DEFINE u == [req[r].seen EXCEPT !.balance = @ - req[r].amount]
<1>1. PICK w, a, c : w = WithBonus(u) /\ a = req[r].seen.balance /\ c = w.balance - a
  OBVIOUS
<1>2. /\ TypeOK /\ req[r].seen \in WalletRow /\ req[r].amount \in Int /\ a \in Int
  BY <1>1, TypeFacts DEF IInv, Work, WalletRow
<1>3. u \in WalletRow /\ u.balance = a - req[r].amount /\ a - req[r].amount \in Int
  BY <1>1, <1>2 DEF WalletRow
<1>4. /\ req[r].op = "bet" /\ ~Short(r)
      /\ \E g \in Rounds : /\ SaveRows(r, w, [x \in {g} |-> [status |-> "pending"]])
                            /\ req' = [Answer(r, 200) EXCEPT ![r].change = c]
  BY <1>1 DEF PlaceBet
<1>5. ~(a < req[r].amount)
  BY <1>1, <1>4 DEF Short
<1> HIDE DEF u
<1>6. w.balance \in Int /\ w.balance >= u.balance
  BY <1>1, <1>3, BonusAdds
<1>7. c \in Int /\ w.balance = a + c /\ w.balance >= 0
  BY <1>1, <1>2, <1>3, <1>5, <1>6
<1>8. WalletSaved(r, w.balance)
  <2>1. PICK g \in Rounds : SaveRows(r, w, [x \in {g} |-> [status |-> "pending"]])
    BY <1>4
  <2>2. "wallet" \notin DOMAIN [x \in {g} |-> [status |-> "pending"]]
    BY RowNames
  <2> QED BY <2>1, <2>2, SavesWallet
<1>9. Walks(r, "respond", 200, c)
  <2>1. req' = [Answer(r, 200) EXCEPT ![r].change = c] /\ {} \in SUBSET Vouchers /\ {} \in SUBSET Rounds
    BY <1>4
  <2> QED BY <1>2, <1>7, <2>1, SavingWalks
<1> QED BY <1>1, <1>6, <1>7, <1>8, <1>9, SpendMoney

LEMMA SettleRoundMoney ==
  ASSUME IInv, Money, NEW r \in Reqs, SettleRound(r)
  PROVE  MoneyStep(r)
<1>1. PICK win \in Wins :
        /\ SaveRows(r, [req[r].seen EXCEPT !.balance = @ + win], [x \in {req[r].g} |-> [status |-> "settled"]])
        /\ req' = [Answer(r, 200) EXCEPT ![r].change = win, ![r].paid = {req[r].g}]
        /\ req[r].at = "saveWallet" /\ req[r].op = "settle"
  BY DEF SettleRound, At
<1>2. PICK a, b : a = req[r].seen.balance /\ b = a + win
  OBVIOUS
<1>3. /\ TypeOK /\ req[r].seen \in WalletRow /\ a \in Int /\ win \in Nat /\ req[r].g \in Rounds /\ b \in Int
  <2>1. req[r].seen \in WalletRow /\ TypeOK
    BY TypeFacts DEF IInv, Work
  <2>2. a \in Int
    BY <1>2, <2>1 DEF WalletRow
  <2>3. win \in Nat
    BY AmountsAssumption
  <2>4. req[r].g \in Rounds
    BY <1>1 DEF IInv, Part, OwnsPart
  <2> QED BY <1>2, <2>1, <2>2, <2>3, <2>4
<1>4. [req[r].seen EXCEPT !.balance = @ + win].balance = b
  BY <1>2, <1>3 DEF WalletRow
<1>5. WalletSaved(r, b)
  <2>1. "wallet" \notin DOMAIN [x \in {req[r].g} |-> [status |-> "settled"]]
    BY <1>3, RowNames
  <2> QED BY <1>1, <1>4, <2>1, SavesWallet
<1>6. Walks(r, "respond", 200, win)
  <2>1. {req[r].g} \in SUBSET Rounds /\ {} \in SUBSET Vouchers /\ win \in Int
    BY <1>3
  <2> QED BY <1>1, <1>3, <2>1, SavingWalks
<1>7. Solvent => b >= 0
  BY <1>2, <1>3 DEF Solvent, SolventPart
<1> QED BY <1>2, <1>3, <1>5, <1>6, <1>7, SpendMoney

LEMMA MoveMoneyMoney ==
  ASSUME IInv, Money, NEW r \in Reqs, MoveMoney(r)
  PROVE  MoneyStep(r)
<1>1. PICK d \in {req[r].amount, 0 - req[r].amount} :
        /\ SaveRows(r, [req[r].seen EXCEPT !.balance = @ + d], <<>>)
        /\ req' = [Answer(r, 200) EXCEPT ![r].change = d]
        /\ req[r].op \in {"credit", "debit", "adjust"} /\ ~Short(r)
        /\ req[r].op = "credit" => d > 0
  BY DEF MoveMoney
<1>2. PICK a, b : a = req[r].seen.balance /\ b = a + d
  OBVIOUS
<1>3. TypeOK /\ req[r].seen \in WalletRow /\ a \in Int /\ req[r].amount \in Int /\ d \in Int /\ b \in Int
  <2>1. req[r].seen \in WalletRow /\ TypeOK /\ req[r].amount \in Int
    BY TypeFacts DEF IInv, Work
  <2>2. a \in Int
    BY <1>2, <2>1 DEF WalletRow
  <2> QED BY <1>2, <2>1, <2>2
<1>4. [req[r].seen EXCEPT !.balance = @ + d].balance = b
  BY <1>2, <1>3 DEF WalletRow
<1>5. WalletSaved(r, b)
  <2>1. "wallet" \notin DOMAIN <<>>
    OBVIOUS
  <2> QED BY <1>1, <1>4, <2>1, SavesWallet
<1>6. Walks(r, "respond", 200, d)
  <2>1. {} \in SUBSET Rounds /\ {} \in SUBSET Vouchers
    OBVIOUS
  <2> QED BY <1>1, <1>3, <2>1, SavingWalks
<1>7. Solvent => b >= 0
  <2>1. SUFFICES ASSUME a >= 0, req[r].amount >= 0, req[r].op \in {"credit", "debit"} PROVE b >= 0
    BY <1>1, <1>2, <1>3 DEF Solvent, SolventPart, Work
  <2>2. CASE req[r].op = "credit"
    BY <1>1, <1>2, <1>3, <2>1, <2>2
  <2>3. CASE req[r].op = "debit"
    <3>1. ~(a < req[r].amount)
      BY <1>1, <1>2, <2>3 DEF Short
    <3> QED BY <1>1, <1>2, <1>3, <2>1, <3>1
  <2> QED BY <2>1, <2>2, <2>3
<1> QED BY <1>2, <1>3, <1>5, <1>6, <1>7, SpendMoney

\* No request that adjusts balances by hand can arrive.
NoAdjustments == "adjust" \notin Menu

LEMMA BeginMoney ==
  ASSUME IInv, Money, NEW r \in Reqs, Begin(r)
  PROVE  Money' /\ (NoAdjustments /\ Solvent => Solvent')
<1>1. PICK op \in Menu, v \in Vouchers, g \in Rounds \cup {NoRound}, a \in Stakes :
        \E p \in FirstPlaces(op) : req' = Arrived(r, op, v, g, a, p)
  BY DEF Begin
<1> PICK p \in FirstPlaces(op) : req' = Arrived(r, op, v, g, a, p)
  BY <1>1
<1>2. req \in [Reqs -> Work] /\ req[r] \in Work /\ req[r].at = "idle" /\ UNCHANGED <<db, cur, lock>>
  BY TypeFacts DEF IInv, TypeOK, Begin, At
<1>3. /\ req'[r].op = op /\ req'[r].amount = a /\ req'[r].seen = req[r].seen
      /\ req'[r].change = req[r].change /\ \A s \in Reqs \ {r} : req'[s] = req[s]
      /\ req'[r].at \in {"readVoucher", "lockVoucher", "lockRound", "saveSession", "readWallet"}
  <2>1. p \in {"readVoucher", "lockVoucher", "lockRound", "saveSession", "readWallet"}
    BY DEF FirstPlaces, SessionPlaces
  <2> QED BY <1>1, <1>2, <2>1 DEF Arrived, Work
<1>4. Money'
  BY <1>2, <1>3 DEF Money, MoneyPart
<1>5. NoAdjustments /\ Solvent => Solvent'
  <2>1. a \in Nat
    BY AmountsAssumption
  <2>2. NoAdjustments => op # "adjust"
    BY DEF NoAdjustments
  <2> QED BY <1>2, <1>3, <2>1, <2>2 DEF Solvent, SolventPart
<1> QED BY <1>4, <1>5

\* A request that ends leaves no copy and no change behind, and the wallet with what
\* its owner had or what was committed before.
LEMMA EndMoney ==
  ASSUME IInv, Money, NEW r \in Reqs, Release(r), req' = Ended(r), Commit(r) \/ Rollback(r)
  PROVE  MoneyStep(r)
<1>1. /\ req \in [Reqs -> Work] /\ "wallet" \in Rows /\ r # NoReq
      /\ lock'["wallet"] = IF lock["wallet"] = r THEN NoReq ELSE lock["wallet"]
  BY TypeFacts, RowNames DEF IInv, TypeOK, Release
<1>2. /\ req'[r].at = "done" /\ req'[r].change = 0 /\ req'[r].op = "login" /\ req'[r].amount = 0
      /\ req'[r].seen.balance = 0 /\ \A s \in Reqs \ {r} : req'[s] = req[s]
  BY <1>1 DEF Ended, NoWork, NoWallet
<1>3. /\ lock["wallet"] # r => cur'["wallet"] = cur["wallet"]
      /\ cur'["wallet"] \in {cur["wallet"], db["wallet"]}
      /\ db'["wallet"] \in {cur["wallet"], db["wallet"]}
  <2>1. CASE Commit(r)
    BY <1>1, <2>1 DEF Commit
  <2>2. CASE Rollback(r)
    BY <1>1, <2>2 DEF Rollback
  <2> QED BY <2>1, <2>2
<1>4. Money => Money'
  BY <1>1, <1>2, <1>3, NamesAssumption DEF Money, MoneyPart
<1>5. Solvent => Solvent'
  BY <1>2, <1>3 DEF Solvent, SolventPart
<1> QED BY <1>4, <1>5 DEF MoneyStep

LEMMA MoneyNext ==
  ASSUME IInv, Money, [Next]_vars
  PROVE  Money' /\ (NoAdjustments /\ Solvent => Solvent')
<1>1. ASSUME NEW r \in Reqs, Begin(r) PROVE Money' /\ (NoAdjustments /\ Solvent => Solvent')
  BY <1>1, BeginMoney
<1>2. ASSUME NEW r \in Reqs, HandlerStep(r) PROVE MoneyStep(r)
  <2>1. Finish(r) => MoneyStep(r)
    BY EndMoney DEF Finish
  <2> QED BY <1>2, <2>1, ReadingMoney, WalletReadMoney, LockActiveMoney, TakingMoney, RedeemMoney,
             SaveVoucherMoney, PlaceBetMoney, SettleRoundMoney, MoveMoneyMoney, RevokeSessionMoney
          DEF HandlerStep
<1>3. ASSUME NEW r \in Reqs, Close(r) \/ DeadlockVictim(r) PROVE MoneyStep(r)
  BY <1>3, EndMoney DEF Close, DeadlockVictim
<1>4. CASE UNCHANGED vars
  BY <1>4 DEF vars, Money, MoneyPart, Solvent, SolventPart
<1> QED BY <1>1, <1>2, <1>3, <1>4 DEF Next, MoneyStep

LEMMA MoneyInit == Init => Money /\ Solvent
<1> SUFFICES ASSUME Init PROVE Money /\ Solvent
  OBVIOUS
<1>1. cur = db /\ db["wallet"].balance >= 0
  <2>1. CASE db = Fresh
    BY <2>1, RowNames DEF Init, Fresh, NoWallet
  <2>2. CASE \E b \in 0..Face, p \in {0, Bonus}, open \in {{}} \cup {{g} : g \in Rounds} :
               db = Playing(b, p, open)
    BY <2>2, RowNames, AmountsAssumption DEF Init, Playing
  <2> QED BY <2>1, <2>2 DEF Init
<1>2. \A r \in Reqs : req[r] = NoWork /\ lock["wallet"] # r
  BY NamesAssumption, RowNames DEF Init
<1> QED BY <1>1, <1>2 DEF Money, MoneyPart, Solvent, SolventPart, NoWork, NoWallet

THEOREM MoneyInvariance == Spec => [](IInv /\ Money)
<1>1. IInv /\ Money /\ [Next]_vars => Money'
  BY MoneyNext
<1> QED BY MoneyInit, <1>1, Invariance, PTL DEF Spec

\* Without manual adjustments no overlap of requests, each of which checks and saves a
\* balance it has not locked, leaves the wallet below zero.
THEOREM WalletNeverNegative ==
  ASSUME NoAdjustments
  PROVE  Spec => []NeverNegative
<1>1. IInv /\ Money /\ Solvent /\ [Next]_vars => Solvent'
  BY MoneyNext
<1>2. Solvent => NeverNegative
  BY DEF Solvent, NeverNegative
<1> QED BY MoneyInit, MoneyInvariance, <1>1, <1>2, PTL DEF Spec

\* Whatever overlaps, a step of requests whose copy of the balance is current adds to
\* the balance exactly what its Transaction rows say.
THEOREM FreshRecorded == Spec => FreshMovesRecorded
<1> DEFINE Current == \A r \in Reqs : req'[r] # req[r] => req[r].seen.balance = db["wallet"].balance
<1>1. ASSUME IInv, Money, [Next]_vars, Current
      PROVE  Unexplained' = Unexplained
  <2>1. ASSUME NEW r \in Reqs, Finish(r), Commit(r), req[r].status < 400
        PROVE  Unexplained' = Unexplained
    <3>1. /\ "wallet" \in Rows /\ req[r].at = "respond" /\ req' = Ended(r) /\ req[r] \in Work
          /\ req \in [Reqs -> Work]
          /\ db["wallet"].balance \in Int /\ cur["wallet"].balance \in Int /\ recorded \in Int
      BY <1>1, <2>1, RowNames, TypeFacts DEF Finish, At, IInv, TypeOK, WalletRow
    <3>2. req'[r] # req[r]
      BY <3>1 DEF Ended, NoWork
    <3>3. req[r].seen.balance = db["wallet"].balance /\ req[r].change \in Int
      BY <1>1, <3>1, <3>2 DEF Work
    <3>4. /\ recorded' = recorded + req[r].change
          /\ db'["wallet"] = IF lock["wallet"] = r THEN cur["wallet"] ELSE db["wallet"]
      BY <2>1, <3>1 DEF Commit
    <3>5. CASE lock["wallet"] = r
      <4>1. cur["wallet"].balance = req[r].seen.balance + req[r].change
        BY <1>1, <2>1, <3>1, <3>5 DEF Money, MoneyPart
      <4> QED BY <3>1, <3>3, <3>4, <3>5, <4>1 DEF Unexplained
    <3>6. CASE lock["wallet"] # r
      <4>1. req[r].change = 0
        BY <1>1, <3>6 DEF Money, MoneyPart
      <4> QED BY <3>1, <3>3, <3>4, <3>6, <4>1 DEF Unexplained
    <3> QED BY <3>5, <3>6
  <2>2. ASSUME UNCHANGED <<db, recorded>> PROVE Unexplained' = Unexplained
    BY <2>2 DEF Unexplained
  <2>3. ASSUME NEW r \in Reqs, Begin(r) \/ HandlerStep(r) \/ Close(r) \/ DeadlockVictim(r)
        PROVE  (Finish(r) /\ Commit(r) /\ req[r].status < 400) \/ UNCHANGED <<db, recorded>>
    <3>1. Finish(r) => (Commit(r) /\ req[r].status < 400) \/ UNCHANGED <<db, recorded>>
      BY DEF Finish, Rollback, Ghosts
    <3>2. Close(r) \/ DeadlockVictim(r) => UNCHANGED <<db, recorded>>
      BY ZenonT(60) DEF Close, DeadlockVictim, Rollback, Ghosts
    <3>3. Begin(r) \/ ReadVoucher(r) \/ LockNewVoucher(r) \/ LockAnyVoucher(r) \/ LockRound(r)
            \/ SaveSession(r) \/ FindUser(r) \/ ReadWallet(r) => UNCHANGED <<db, recorded>>
      BY DEF Begin, ReadVoucher, LockNewVoucher, LockAnyVoucher, LockRound, SaveSession, FindUser,
             ReadWallet, Ghosts
    <3>5. LockActive(r) \/ LinkWallet(r) \/ SaveVoucher(r) \/ RefuseSpend(r) \/ LockWallet(r)
            \/ LockUser(r) \/ RevokeSession(r) => UNCHANGED <<db, recorded>>
      BY DEF LockActive, LinkWallet, SaveVoucher, RefuseSpend, LockWallet, LockUser, RevokeSession,
             Ghosts
    <3>4. RedeemLocked(r) \/ RedeemUnlocked(r) \/ PlaceBet(r) \/ SettleRound(r) \/ MoveMoney(r)
            => UNCHANGED <<db, recorded>>
      BY DEF RedeemLocked, RedeemUnlocked, PlaceBet, SettleRound, MoveMoney, SaveRows, Ghosts
    <3> QED BY <2>3, <3>1, <3>2, <3>3, <3>4, <3>5 DEF HandlerStep
  <2>4. CASE UNCHANGED vars
    BY <2>2, <2>4 DEF vars, Ghosts
  <2> QED BY <1>1, <2>1, <2>2, <2>3, <2>4 DEF Next
<1>2. IInv /\ Money /\ [Next]_vars => [Current => Unexplained' = Unexplained]_vars
  BY <1>1
<1> QED BY MoneyInvariance, <1>2, PTL DEF Spec, FreshMovesRecorded
=============================================================================
