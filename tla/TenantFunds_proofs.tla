------------------------- MODULE TenantFunds_proofs -------------------------
(***************************************************************************)
(* Proofs about TenantFunds, for any number of requests, any amounts and   *)
(* any set of codes: the types, the two books invariants, and that it      *)
(* implements Treasury.                                                    *)
(*                                                                         *)
(* The argument.  What a request computed is only right at its commit if   *)
(* the rows it read have not changed since.  So the invariant says which   *)
(* lock each place of each handler holds (LocksHeld), and that under that  *)
(* lock the request's copy is the committed row, before its write, or the  *)
(* committed row moved by exactly its transfer, after (CopyIsCurrent).     *)
(***************************************************************************)
EXTENDS TenantFunds, TLAPS

\* What a voucher may cost, as in Treasury.
Totals == Abstract!Totals

LEMMA TotalsAreIntegers == Totals \subseteq Int
  BY AmountsAssumption, BonusesAssumption DEF Totals, Abstract!Totals

\* The places of request r at which it owns the TenantWallet row.
OwnsWallet(r) ==
  \/ req[r].at \in {"write", "insert", "retry"}
  \/ req[r].at = "pool" /\ req[r].op = "allocate"
  \/ req[r].at = "respond" /\ req[r].status < 400

OwnsPool(r) ==
  /\ req[r].op # "issue"
  /\ \/ req[r].at \in {"write", "insert", "retry"}
     \/ req[r].at = "wallet" /\ req[r].op = "create"
     \/ req[r].at = "respond" /\ req[r].status < 400

LocksOf(r) ==
  /\ OwnsWallet(r) => walletLock = r
  /\ OwnsPool(r) => poolLock = r
  /\ req[r].at # "idle" => req[r].amount \in IF req[r].op = "create" THEN Totals ELSE Amounts
  /\ req[r].at = "idle" => req[r] = NoWork
  /\ req[r].at \in {"insert", "retry"} => req[r].op = "create"

LocksHeld == \A r \in Reqs : LocksOf(r)

\* Nothing written yet: what r read is what is committed.
Unwritten(r) ==
  /\ req[r].drawn = 0 /\ req[r].minted = 0 /\ req[r].code = {}
  /\ OwnsWallet(r) => req[r].wallet = wallet
  /\ OwnsPool(r) => req[r].pool = pool
  /\ OwnsWallet(r) /\ req[r].op = "allocate" => wallet >= req[r].amount

\* The three ways a voucher of cost a can be paid.
PaidFrom(a, d, m) ==
  \/ d = 0 /\ m = 0 /\ pool >= a
  \/ d = a - pool /\ m = 0 /\ pool < a /\ wallet >= d
  \/ d = 0 /\ m = a - pool /\ pool < a

WrittenCreate(r) ==
  /\ PaidFrom(req[r].amount, req[r].drawn, req[r].minted)
  /\ req[r].wallet = wallet - req[r].drawn
  /\ req[r].pool = pool + req[r].drawn + req[r].minted - req[r].amount

Written(r) ==
  CASE req[r].op = "issue" ->
         /\ req[r].drawn = 0 /\ req[r].minted = 0 /\ req[r].code = {}
         /\ req[r].wallet = wallet + req[r].amount
    [] req[r].op = "allocate" ->
         /\ req[r].drawn = 0 /\ req[r].minted = 0 /\ req[r].code = {}
         /\ wallet >= req[r].amount
         /\ req[r].wallet = wallet - req[r].amount
         /\ req[r].pool = pool + req[r].amount
    [] OTHER -> WrittenCreate(r)

CopyOf(r) ==
  /\ req[r].at \in {"wallet", "pool", "write"} => Unwritten(r)
  /\ req[r].at \in {"insert", "retry"} => WrittenCreate(r)
  /\ req[r].at = "respond" /\ req[r].status < 400 => Written(r)

CopyIsCurrent == \A r \in Reqs : CopyOf(r)

IInv == TypeOK /\ LocksHeld /\ CopyIsCurrent /\ NeverOverdrawn /\ BooksBalance

-----------------------------------------------------------------------------

\* A row lock has one owner, so at most one request is at a place that needs it.
LEMMA OneOwner ==
  ASSUME LocksHeld, NEW r \in Reqs, NEW s \in Reqs, r # s
  PROVE  /\ ~(OwnsWallet(r) /\ OwnsWallet(s))
         /\ ~(OwnsPool(r) /\ OwnsPool(s))
  BY DEF LocksHeld, LocksOf

\* What a request knows stays true while its record and the rows it owns do not change.
LEMMA CopyFrame ==
  ASSUME NEW s \in Reqs, CopyOf(s), req'[s] = req[s],
         OwnsWallet(s) => wallet' = wallet, OwnsPool(s) => pool' = pool,
         req[s] \in Work, req[s].at \in {"insert", "retry"} => req[s].op = "create"
  PROVE  CopyOf(s)'
  BY DEF CopyOf, Unwritten, Written, WrittenCreate, PaidFrom, OwnsWallet, OwnsPool, Work, Ops

LEMMA EndedWork ==
  ASSUME NEW w \in Work, NEW st \in {0, 500}
  PROVE  [w EXCEPT !.at = "done", !.status = st] \in Work
<1>1. [w EXCEPT !.at = "done"] \in Work
  BY DEF Work, Places
<1>2. [[w EXCEPT !.at = "done"] EXCEPT !.status = st] \in Work
  BY <1>1, ZenonT(60) DEF Work
<1> QED BY <1>2

LEMMA InitInv == Init => IInv
<1> SUFFICES ASSUME Init PROVE IInv
  OBVIOUS
<1> USE AmountsAssumption, NoReqAssumption DEF Init
<1>1. TypeOK
  BY DEF TypeOK, NoWork, Work, Places, Ops
<1>2. LocksHeld
  BY DEF LocksHeld, LocksOf, OwnsWallet, OwnsPool, NoWork
<1>3. CopyIsCurrent
  BY DEF CopyIsCurrent, CopyOf, NoWork
<1>4. NeverOverdrawn /\ BooksBalance
  BY DEF NeverOverdrawn, BooksBalance
<1> QED BY <1>1, <1>2, <1>3, <1>4 DEF IInv

LEMMA BeginInv ==
  ASSUME IInv, NEW r \in Reqs, Begin(r)
  PROVE  IInv'
<1> USE AmountsAssumption, NoReqAssumption DEF IInv, Begin, At, Committed, Locks, Ops
<1>0. req[r] \in Work
  BY DEF TypeOK
<1>1. TypeOK'
  <2>1. req'[r] \in Work /\ req' = [req EXCEPT ![r] = req'[r]]
    BY <1>0 DEF TypeOK, Work, Places, Ops
  <2> QED BY <2>1 DEF TypeOK
<1>2. LocksHeld'
  <2>1. LocksOf(r)'
    BY <1>0 DEF LocksHeld, LocksOf, TypeOK, Work, Places, Ops, OwnsWallet, OwnsPool
  <2>2. ASSUME NEW s \in Reqs \ {r} PROVE LocksOf(s)'
    BY <1>0 DEF LocksHeld, LocksOf, TypeOK, OwnsWallet, OwnsPool
  <2> QED BY <2>1, <2>2 DEF LocksHeld
<1>3. CopyIsCurrent'
  <2>1. CopyOf(r)'
    BY <1>0 DEF CopyIsCurrent, CopyOf, LocksHeld, LocksOf, TypeOK, Work, Ops, Unwritten, Written,
                WrittenCreate, PaidFrom, OwnsWallet, OwnsPool, NoWork
  <2>2. ASSUME NEW s \in Reqs \ {r} PROVE CopyOf(s)'
    <3>1. req'[s] = req[s] /\ req[s] \in Work
      BY DEF TypeOK
    <3> QED BY <3>1, CopyFrame DEF CopyIsCurrent, LocksHeld, LocksOf
  <2> QED BY <2>1, <2>2 DEF CopyIsCurrent
<1>4. NeverOverdrawn' /\ BooksBalance'
  BY DEF NeverOverdrawn, BooksBalance
<1> QED BY <1>1, <1>2, <1>3, <1>4

LEMMA LockWalletInv ==
  ASSUME IInv, NEW r \in Reqs, LockWallet(r)
  PROVE  IInv'
<1> USE AmountsAssumption, NoReqAssumption DEF IInv, LockWallet, At, Committed, Locks
<1>0. req[r] \in Work
  BY DEF TypeOK
<1>1. TypeOK'
  <2>1. req'[r] \in Work /\ req' = [req EXCEPT ![r] = req'[r]]
    BY <1>0 DEF TypeOK, Work, Places, Ops
  <2> QED BY <2>1 DEF TypeOK
<1>2. LocksHeld'
  <2>1. LocksOf(r)'
    BY <1>0 DEF LocksHeld, LocksOf, TypeOK, Work, Places, Ops, OwnsWallet, OwnsPool
  <2>2. ASSUME NEW s \in Reqs \ {r} PROVE LocksOf(s)'
    BY <1>0 DEF LocksHeld, LocksOf, TypeOK, OwnsWallet, OwnsPool
  <2> QED BY <2>1, <2>2 DEF LocksHeld
<1>3. CopyIsCurrent'
  <2>1. CopyOf(r)'
    BY <1>0 DEF CopyIsCurrent, CopyOf, LocksHeld, LocksOf, TypeOK, Work, Ops, Unwritten, Written,
                WrittenCreate, PaidFrom, OwnsWallet, OwnsPool, NoWork
  <2>2. ASSUME NEW s \in Reqs \ {r} PROVE CopyOf(s)'
    <3>1. req'[s] = req[s] /\ req[s] \in Work
      BY DEF TypeOK
    <3> QED BY <3>1, CopyFrame DEF CopyIsCurrent, LocksHeld, LocksOf
  <2> QED BY <2>1, <2>2 DEF CopyIsCurrent
<1>4. NeverOverdrawn' /\ BooksBalance'
  BY DEF NeverOverdrawn, BooksBalance
<1> QED BY <1>1, <1>2, <1>3, <1>4

LEMMA LockPoolInv ==
  ASSUME IInv, NEW r \in Reqs, LockPool(r)
  PROVE  IInv'
<1> USE AmountsAssumption, NoReqAssumption DEF IInv, LockPool, At, Committed, Locks
<1>0. req[r] \in Work
  BY DEF TypeOK
<1>1. TypeOK'
  <2>1. req'[r] \in Work /\ req' = [req EXCEPT ![r] = req'[r]]
    BY <1>0 DEF TypeOK, Work, Places, Ops
  <2> QED BY <2>1 DEF TypeOK
<1>2. LocksHeld'
  <2>1. LocksOf(r)'
    BY <1>0 DEF LocksHeld, LocksOf, TypeOK, Work, Places, Ops, OwnsWallet, OwnsPool
  <2>2. ASSUME NEW s \in Reqs \ {r} PROVE LocksOf(s)'
    BY <1>0 DEF LocksHeld, LocksOf, TypeOK, OwnsWallet, OwnsPool
  <2> QED BY <2>1, <2>2 DEF LocksHeld
<1>3. CopyIsCurrent'
  <2>1. CopyOf(r)'
    BY <1>0 DEF CopyIsCurrent, CopyOf, LocksHeld, LocksOf, TypeOK, Work, Ops, Unwritten, Written,
                WrittenCreate, PaidFrom, OwnsWallet, OwnsPool, NoWork
  <2>2. ASSUME NEW s \in Reqs \ {r} PROVE CopyOf(s)'
    <3>1. req'[s] = req[s] /\ req[s] \in Work
      BY DEF TypeOK
    <3> QED BY <3>1, CopyFrame DEF CopyIsCurrent, LocksHeld, LocksOf
  <2> QED BY <2>1, <2>2 DEF CopyIsCurrent
<1>4. NeverOverdrawn' /\ BooksBalance'
  BY DEF NeverOverdrawn, BooksBalance
<1> QED BY <1>1, <1>2, <1>3, <1>4

LEMMA WriteIssueInv ==
  ASSUME IInv, NEW r \in Reqs, WriteIssue(r)
  PROVE  IInv'
<1> USE AmountsAssumption, NoReqAssumption DEF IInv, WriteIssue, At, Committed, Locks
<1>0. req[r] \in Work
  BY DEF TypeOK
<1>1. TypeOK'
  <2>1. req'[r] \in Work /\ req' = [req EXCEPT ![r] = req'[r]]
    BY <1>0 DEF TypeOK, Work, Places, Ops
  <2> QED BY <2>1 DEF TypeOK
<1>2. LocksHeld'
  <2>1. LocksOf(r)'
    BY <1>0 DEF LocksHeld, LocksOf, TypeOK, Work, Places, Ops, OwnsWallet, OwnsPool
  <2>2. ASSUME NEW s \in Reqs \ {r} PROVE LocksOf(s)'
    BY <1>0 DEF LocksHeld, LocksOf, TypeOK, OwnsWallet, OwnsPool
  <2> QED BY <2>1, <2>2 DEF LocksHeld
<1>3. CopyIsCurrent'
  <2>1. CopyOf(r)'
    BY <1>0 DEF CopyIsCurrent, CopyOf, LocksHeld, LocksOf, TypeOK, Work, Ops, Unwritten, Written,
                WrittenCreate, PaidFrom, OwnsWallet, OwnsPool, NoWork
  <2>2. ASSUME NEW s \in Reqs \ {r} PROVE CopyOf(s)'
    <3>1. req'[s] = req[s] /\ req[s] \in Work
      BY DEF TypeOK
    <3> QED BY <3>1, CopyFrame DEF CopyIsCurrent, LocksHeld, LocksOf
  <2> QED BY <2>1, <2>2 DEF CopyIsCurrent
<1>4. NeverOverdrawn' /\ BooksBalance'
  BY DEF NeverOverdrawn, BooksBalance
<1> QED BY <1>1, <1>2, <1>3, <1>4

LEMMA WriteAllocateInv ==
  ASSUME IInv, NEW r \in Reqs, WriteAllocate(r)
  PROVE  IInv'
<1> USE AmountsAssumption, NoReqAssumption DEF IInv, WriteAllocate, At, Committed, Locks
<1>0. req[r] \in Work
  BY DEF TypeOK
<1>1. TypeOK'
  <2>1. req'[r] \in Work /\ req' = [req EXCEPT ![r] = req'[r]]
    BY <1>0 DEF TypeOK, Work, Places, Ops
  <2> QED BY <2>1 DEF TypeOK
<1>2. LocksHeld'
  <2>1. LocksOf(r)'
    BY <1>0 DEF LocksHeld, LocksOf, TypeOK, Work, Places, Ops, OwnsWallet, OwnsPool
  <2>2. ASSUME NEW s \in Reqs \ {r} PROVE LocksOf(s)'
    BY <1>0 DEF LocksHeld, LocksOf, TypeOK, OwnsWallet, OwnsPool
  <2> QED BY <2>1, <2>2 DEF LocksHeld
<1>3. CopyIsCurrent'
  <2>1. CopyOf(r)'
    BY <1>0 DEF CopyIsCurrent, CopyOf, LocksHeld, LocksOf, TypeOK, Work, Ops, Unwritten, Written,
                WrittenCreate, PaidFrom, OwnsWallet, OwnsPool, NoWork
  <2>2. ASSUME NEW s \in Reqs \ {r} PROVE CopyOf(s)'
    <3>1. req'[s] = req[s] /\ req[s] \in Work
      BY DEF TypeOK
    <3> QED BY <3>1, CopyFrame DEF CopyIsCurrent, LocksHeld, LocksOf
  <2> QED BY <2>1, <2>2, ZenonT(60) DEF CopyIsCurrent
<1>4. NeverOverdrawn' /\ BooksBalance'
  BY DEF NeverOverdrawn, BooksBalance
<1> QED BY <1>1, <1>2, <1>3, <1>4

LEMMA WriteCreateInv ==
  ASSUME IInv, NEW r \in Reqs, WriteCreate(r)
  PROVE  IInv'
<1> USE AmountsAssumption, NoReqAssumption DEF IInv, WriteCreate, At, Committed, Locks, Shortfall, Drawn, Minted
<1>0. req[r] \in Work
  BY DEF TypeOK
<1>1. TypeOK'
  <2>1. req'[r] \in Work /\ req' = [req EXCEPT ![r] = req'[r]]
    BY <1>0 DEF TypeOK, Work, Places, Ops
  <2> QED BY <2>1 DEF TypeOK
<1>2. LocksHeld'
  <2>1. LocksOf(r)'
    BY <1>0 DEF LocksHeld, LocksOf, TypeOK, Work, Places, Ops, OwnsWallet, OwnsPool
  <2>2. ASSUME NEW s \in Reqs \ {r} PROVE LocksOf(s)'
    BY <1>0 DEF LocksHeld, LocksOf, TypeOK, OwnsWallet, OwnsPool
  <2> QED BY <2>1, <2>2 DEF LocksHeld
<1>3. CopyIsCurrent'
  <2>1. CopyOf(r)'
    BY <1>0 DEF CopyIsCurrent, CopyOf, LocksHeld, LocksOf, TypeOK, Work, Ops, Unwritten, Written,
                WrittenCreate, PaidFrom, OwnsWallet, OwnsPool, NoWork
  <2>2. ASSUME NEW s \in Reqs \ {r} PROVE CopyOf(s)'
    <3>1. req'[s] = req[s] /\ req[s] \in Work
      BY DEF TypeOK
    <3> QED BY <3>1, CopyFrame DEF CopyIsCurrent, LocksHeld, LocksOf
  <2> QED BY <2>1, <2>2 DEF CopyIsCurrent
<1>4. NeverOverdrawn' /\ BooksBalance'
  BY DEF NeverOverdrawn, BooksBalance
<1> QED BY <1>1, <1>2, <1>3, <1>4

LEMMA InsertVoucherInv ==
  ASSUME IInv, NEW r \in Reqs, InsertVoucher(r)
  PROVE  IInv'
<1> USE AmountsAssumption, NoReqAssumption DEF IInv, InsertVoucher, At, Committed, Locks
<1>0. req[r] \in Work
  BY DEF TypeOK
<1>1. TypeOK'
  <2>1. req'[r] \in Work /\ req' = [req EXCEPT ![r] = req'[r]]
    BY <1>0 DEF TypeOK, Work, Places, Ops
  <2> QED BY <2>1 DEF TypeOK
<1>2. LocksHeld'
  <2>1. LocksOf(r)'
    BY <1>0 DEF LocksHeld, LocksOf, TypeOK, Work, Places, Ops, OwnsWallet, OwnsPool
  <2>2. ASSUME NEW s \in Reqs \ {r} PROVE LocksOf(s)'
    BY <1>0 DEF LocksHeld, LocksOf, TypeOK, OwnsWallet, OwnsPool
  <2> QED BY <2>1, <2>2 DEF LocksHeld
<1>3. CopyIsCurrent'
  <2>1. CopyOf(r)'
    BY <1>0 DEF CopyIsCurrent, CopyOf, LocksHeld, LocksOf, TypeOK, Work, Ops, Unwritten, Written,
                WrittenCreate, PaidFrom, OwnsWallet, OwnsPool, NoWork
  <2>2. ASSUME NEW s \in Reqs \ {r} PROVE CopyOf(s)'
    <3>1. req'[s] = req[s] /\ req[s] \in Work
      BY DEF TypeOK
    <3> QED BY <3>1, CopyFrame DEF CopyIsCurrent, LocksHeld, LocksOf
  <2> QED BY <2>1, <2>2 DEF CopyIsCurrent
<1>4. NeverOverdrawn' /\ BooksBalance'
  BY DEF NeverOverdrawn, BooksBalance
<1> QED BY <1>1, <1>2, <1>3, <1>4

LEMMA RetryInsertInv ==
  ASSUME IInv, NEW r \in Reqs, RetryInsert(r)
  PROVE  IInv'
<1> USE AmountsAssumption, NoReqAssumption DEF IInv, RetryInsert, At, Committed, Locks
<1>0. req[r] \in Work
  BY DEF TypeOK
<1>1. TypeOK'
  <2>1. req'[r] \in Work /\ req' = [req EXCEPT ![r] = req'[r]]
    BY <1>0 DEF TypeOK, Work, Places, Ops
  <2> QED BY <2>1 DEF TypeOK
<1>2. LocksHeld'
  <2>1. LocksOf(r)'
    BY <1>0 DEF LocksHeld, LocksOf, TypeOK, Work, Places, Ops, OwnsWallet, OwnsPool
  <2>2. ASSUME NEW s \in Reqs \ {r} PROVE LocksOf(s)'
    BY <1>0 DEF LocksHeld, LocksOf, TypeOK, OwnsWallet, OwnsPool
  <2> QED BY <2>1, <2>2 DEF LocksHeld
<1>3. CopyIsCurrent'
  <2>1. CopyOf(r)'
    BY <1>0 DEF CopyIsCurrent, CopyOf, LocksHeld, LocksOf, TypeOK, Work, Ops, Unwritten, Written,
                WrittenCreate, PaidFrom, OwnsWallet, OwnsPool, NoWork
  <2>2. ASSUME NEW s \in Reqs \ {r} PROVE CopyOf(s)'
    <3>1. req'[s] = req[s] /\ req[s] \in Work
      BY DEF TypeOK
    <3> QED BY <3>1, CopyFrame DEF CopyIsCurrent, LocksHeld, LocksOf
  <2> QED BY <2>1, <2>2 DEF CopyIsCurrent
<1>4. NeverOverdrawn' /\ BooksBalance'
  BY DEF NeverOverdrawn, BooksBalance
<1> QED BY <1>1, <1>2, <1>3, <1>4

LEMMA CloseInv ==
  ASSUME IInv, NEW r \in Reqs, Close(r)
  PROVE  IInv'
<1> USE AmountsAssumption, NoReqAssumption DEF IInv, Close, At, Committed, Locks, Running, ReleaseLocks
<1>0. req[r] \in Work
  BY DEF TypeOK
<1>1. TypeOK'
  <2>1. req'[r] \in Work /\ req' = [req EXCEPT ![r] = req'[r]]
    <3>1. req' = [req EXCEPT ![r].at = "done", ![r].status = 0] /\ req \in [Reqs -> Work]
      BY DEF TypeOK
    <3>2. req'[r] = [req[r] EXCEPT !.at = "done", !.status = 0]
      BY <3>1
    <3>3. req'[r] \in Work
      BY <1>0, <3>2, EndedWork
    <3> HIDE DEF IInv, Close
    <3> QED BY <3>1, <3>3
  <2> QED BY <2>1 DEF TypeOK
<1>2. LocksHeld'
  <2>1. LocksOf(r)'
    BY <1>0 DEF LocksHeld, LocksOf, TypeOK, Work, Places, Ops, OwnsWallet, OwnsPool
  <2>2. ASSUME NEW s \in Reqs \ {r} PROVE LocksOf(s)'
    BY <1>0 DEF LocksHeld, LocksOf, TypeOK, OwnsWallet, OwnsPool
  <2> QED BY <2>1, <2>2 DEF LocksHeld
<1>3. CopyIsCurrent'
  <2>1. CopyOf(r)'
    BY <1>0 DEF CopyIsCurrent, CopyOf, LocksHeld, LocksOf, TypeOK, Work, Ops, Unwritten, Written,
                WrittenCreate, PaidFrom, OwnsWallet, OwnsPool, NoWork
  <2>2. ASSUME NEW s \in Reqs \ {r} PROVE CopyOf(s)'
    <3>1. req'[s] = req[s] /\ req[s] \in Work
      BY DEF TypeOK
    <3> QED BY <3>1, CopyFrame DEF CopyIsCurrent, LocksHeld, LocksOf
  <2> QED BY <2>1, <2>2 DEF CopyIsCurrent
<1>4. NeverOverdrawn' /\ BooksBalance'
  BY DEF NeverOverdrawn, BooksBalance
<1> QED BY <1>1, <1>2, <1>3, <1>4

LEMMA DeadlockVictimInv ==
  ASSUME IInv, NEW r \in Reqs, DeadlockVictim(r)
  PROVE  IInv'
<1> USE AmountsAssumption, NoReqAssumption DEF IInv, DeadlockVictim, At, Committed, Locks, ReleaseLocks
<1>0. req[r] \in Work
  BY DEF TypeOK
<1>1. TypeOK'
  <2>1. req'[r] \in Work /\ req' = [req EXCEPT ![r] = req'[r]]
    <3>1. req' = [req EXCEPT ![r].at = "done", ![r].status = 500] /\ req \in [Reqs -> Work]
      BY DEF TypeOK
    <3>2. req'[r] = [req[r] EXCEPT !.at = "done", !.status = 500]
      BY <3>1
    <3>3. [req[r] EXCEPT !.at = "done", !.status = 500] \in Work
      <4>1. 500 \in {0, 500}
        OBVIOUS
      <4> QED BY ONLY <1>0, <4>1, EndedWork
    <3> HIDE DEF IInv, DeadlockVictim
    <3> QED BY <3>1, <3>2, <3>3, ZenonT(60)
  <2> QED BY <2>1 DEF TypeOK
<1>2. LocksHeld'
  <2>0. req[r].at \in {"wallet", "pool"}
    BY DEF WaitsFor
  <2>1. LocksOf(r)'
    BY <1>0, <2>0 DEF LocksHeld, LocksOf, TypeOK, Work, Places, Ops, OwnsWallet, OwnsPool
  <2>2. ASSUME NEW s \in Reqs \ {r} PROVE LocksOf(s)'
    BY <1>0 DEF LocksHeld, LocksOf, TypeOK, OwnsWallet, OwnsPool
  <2> QED BY <2>1, <2>2 DEF LocksHeld
<1>3. CopyIsCurrent'
  <2>1. CopyOf(r)'
    BY <1>0 DEF CopyIsCurrent, CopyOf, LocksHeld, LocksOf, TypeOK, Work, Ops, Unwritten, Written,
                WrittenCreate, PaidFrom, OwnsWallet, OwnsPool, NoWork
  <2>2. ASSUME NEW s \in Reqs \ {r} PROVE CopyOf(s)'
    <3>1. req'[s] = req[s] /\ req[s] \in Work
      BY DEF TypeOK
    <3> QED BY <3>1, CopyFrame DEF CopyIsCurrent, LocksHeld, LocksOf
  <2> QED BY <2>1, <2>2 DEF CopyIsCurrent
<1>4. NeverOverdrawn' /\ BooksBalance'
  BY DEF NeverOverdrawn, BooksBalance
<1> QED BY <1>1, <1>2, <1>3, <1>4

LEMMA FinishInv ==
  ASSUME IInv, NEW r \in Reqs, Finish(r)
  PROVE  IInv'
<1> USE AmountsAssumption, NoReqAssumption DEF IInv, At, Committed, Locks, ReleaseLocks
<1> DEFINE q == req[r]
<1>0. q \in Work /\ q.at = "respond" /\ LocksOf(r) /\ CopyOf(r)
  BY DEF Finish, TypeOK, LocksHeld, CopyIsCurrent
<1>1. /\ req' = [req EXCEPT ![r].at = "done"] /\ req'[r].at = "done"
      /\ req'[r] \in Work /\ req'[r].amount = q.amount
      /\ \A s \in Reqs \ {r} : req'[s] = req[s] /\ req[s] \in Work
  BY <1>0 DEF Finish, TypeOK, Work, Places
<1>2. CASE q.status < 400
  <2>0. Commit(r) /\ OwnsWallet(r) /\ (q.op # "issue" => OwnsPool(r)) /\ Written(r)
    BY <1>0, <1>2 DEF Finish, CopyOf, OwnsWallet, OwnsPool
  <2>1. /\ q.amount \in Int /\ (q.op # "create" => q.amount \in Nat) /\ q.wallet \in Int /\ q.pool \in Int
        /\ q.drawn \in Nat /\ q.minted \in Nat /\ q.op \in Ops /\ q.code \subseteq Codes
    BY <1>0 DEF Work, LocksOf
  <2>2. wallet' \in Int /\ pool' \in Int /\ codes' \subseteq Codes
    BY <2>0, <2>1 DEF Commit, TypeOK
  <2>3. books' \in [issued : Nat, allocated : Nat, vouchers : Int, drawn : Nat, minted : Nat]
    <3>1. CASE q.op = "issue"
      BY <2>0, <2>1, <3>1 DEF Commit, TypeOK
    <3>2. CASE q.op = "allocate"
      BY <2>0, <2>1, <3>2 DEF Commit, TypeOK
    <3>3. CASE q.op = "create"
      <4>1. books' = [books EXCEPT !.vouchers = @ + q.amount, !.drawn = @ + q.drawn,
                                   !.minted = @ + q.minted]
        BY <2>0, <3>3 DEF Commit
      <4>2. books \in [issued : Nat, allocated : Nat, vouchers : Int, drawn : Nat, minted : Nat]
        BY DEF TypeOK
      <4>3. /\ books.vouchers + q.amount \in Int /\ books.drawn + q.drawn \in Nat
            /\ books.minted + q.minted \in Nat
        BY <2>1, <4>2
      <4> HIDE DEF IInv, q
      <4> QED BY <4>1, <4>2, <4>3
    <3> QED BY <2>1, <3>1, <3>2, <3>3 DEF Ops
  <2>4. NeverOverdrawn'
    BY <2>0, <2>1 DEF Commit, TypeOK, NeverOverdrawn, Written, WrittenCreate, PaidFrom, Ops
  <2>5. BooksBalance'
    <3>1. CASE q.op = "issue"
      BY <2>0, <2>1, <3>1 DEF Commit, TypeOK, BooksBalance, Written
    <3>2. CASE q.op = "allocate"
      BY <2>0, <2>1, <3>2 DEF Commit, TypeOK, BooksBalance, Written
    <3>3. CASE q.op = "create"
      <4>1. /\ wallet' = q.wallet /\ pool' = q.pool
            /\ books' = [books EXCEPT !.vouchers = @ + q.amount, !.drawn = @ + q.drawn,
                                      !.minted = @ + q.minted]
        BY <2>0, <3>3 DEF Commit
      <4> QED BY <2>0, <2>1, <3>3, <4>1 DEF TypeOK, BooksBalance, Written, WrittenCreate
    <3> QED BY <2>1, <3>1, <3>2, <3>3 DEF Ops
  <2>6. ASSUME NEW s \in Reqs \ {r} PROVE LocksOf(s)' /\ CopyOf(s)'
    <3>1. req'[s] = req[s] /\ req[s] \in Work /\ LocksOf(s) /\ CopyOf(s)
      BY <1>1 DEF LocksHeld, CopyIsCurrent
    <3>2. ~OwnsWallet(s) /\ (OwnsPool(s) => q.op = "issue")
      BY <2>0, OneOwner
    <3>3. OwnsPool(s) => pool' = pool
      BY <3>2, <2>0 DEF Commit
    <3>4. LocksOf(s)'
      BY <3>1, <3>2 DEF Finish, LocksOf, OwnsWallet, OwnsPool, LocksHeld
    <3> QED BY <3>1, <3>2, <3>3, <3>4, CopyFrame DEF LocksOf
  <2>7. LocksOf(r)' /\ CopyOf(r)'
    BY <1>0, <1>1 DEF LocksOf, CopyOf, OwnsWallet, OwnsPool
  <2>8. walletLock' \in Reqs \cup {NoReq} /\ poolLock' \in Reqs \cup {NoReq} /\ req' \in [Reqs -> Work]
    BY <1>1 DEF Finish, TypeOK
  <2> QED BY <2>2, <2>3, <2>4, <2>5, <2>6, <2>7, <2>8 DEF TypeOK, LocksHeld, CopyIsCurrent
<1>3. CASE ~(q.status < 400)
  <2>1. UNCHANGED Committed
    BY <1>3 DEF Finish
  <2>2. TypeOK'
    BY <1>1, <2>1 DEF Finish, TypeOK
  <2>3. ASSUME NEW s \in Reqs PROVE LocksOf(s)' /\ CopyOf(s)'
    <3>1. CASE s = r
      BY <1>0, <1>1, <3>1 DEF LocksOf, CopyOf, OwnsWallet, OwnsPool
    <3>2. CASE s # r
      <4>1. req'[s] = req[s] /\ req[s] \in Work /\ LocksOf(s) /\ CopyOf(s)
        BY <1>1, <3>2 DEF LocksHeld, CopyIsCurrent
      <4>2. LocksOf(s)'
        BY <4>1, <3>2 DEF Finish, LocksOf, OwnsWallet, OwnsPool
      <4> QED BY <2>1, <4>1, <4>2, CopyFrame DEF LocksOf
    <3> QED BY <3>1, <3>2
  <2> QED BY <2>1, <2>2, <2>3 DEF LocksHeld, CopyIsCurrent, NeverOverdrawn, BooksBalance
<1> QED BY <1>2, <1>3

LEMMA StutterInv ==
  ASSUME IInv, UNCHANGED vars
  PROVE  IInv'
<1> USE DEF vars, IInv
<1>1. \A s \in Reqs : LocksOf(s) => LocksOf(s)'
  BY DEF LocksOf, OwnsWallet, OwnsPool
<1>2. \A s \in Reqs : CopyOf(s) => CopyOf(s)'
  BY DEF CopyOf, Unwritten, Written, WrittenCreate, PaidFrom, OwnsWallet, OwnsPool
<1> QED BY <1>1, <1>2 DEF TypeOK, LocksHeld, CopyIsCurrent, NeverOverdrawn, BooksBalance

\* IInv is inductive: every request's copy of the rows it has locked stays
\* current until that request commits it.
THEOREM Invariance == Spec => []IInv
<1>1. IInv /\ [Next]_vars => IInv'
  BY BeginInv, LockWalletInv, LockPoolInv, WriteIssueInv, WriteAllocateInv, WriteCreateInv,
     InsertVoucherInv, RetryInsertInv, FinishInv, CloseInv, DeadlockVictimInv, StutterInv
     DEF Next, HandlerStep
<1> QED BY InitInv, <1>1, PTL DEF Spec

\* The rows, the locks and the request records keep their types.
THEOREM TypeCorrect == Spec => []TypeOK
  BY Invariance, PTL DEF IInv

\* No overlap of issuing, allocating and voucher creation overdraws a balance.
THEOREM NoOverdraft == Spec => []NeverOverdrawn
  BY Invariance, PTL DEF IInv

\* No overlap loses or doubles a transfer: the books explain both balances.
THEOREM BooksAlwaysBalance == Spec => []BooksBalance
  BY Invariance, PTL DEF IInv

-----------------------------------------------------------------------------
(* Each commit is one transfer of the abstract treasury *)

LEMMA FinishIsTransfer ==
  ASSUME IInv, NEW r \in Reqs, Finish(r)
  PROVE  Abstract!Next \/ UNCHANGED <<wallet, pool, books>>
<1> USE DEF IInv, At, Committed
<1> DEFINE q == req[r]
<1>0. q \in Work /\ q.at = "respond" /\ LocksOf(r) /\ CopyOf(r)
      /\ q.amount \in IF q.op = "create" THEN Totals ELSE Amounts
  BY DEF Finish, TypeOK, LocksHeld, LocksOf, CopyIsCurrent
<1>1. CASE ~(q.status < 400)
  BY <1>1 DEF Finish
<1>2. CASE q.status < 400
  <2>0. Commit(r) /\ Written(r) /\ q.op \in Ops
    BY <1>0, <1>2 DEF Finish, CopyOf, Work
  <2>1. /\ q.amount \in Int /\ wallet \in Int /\ pool \in Int
        /\ books \in [issued : Nat, allocated : Nat, vouchers : Int, drawn : Nat, minted : Nat]
    BY <1>0 DEF Work, TypeOK
  <2>2. CASE q.op = "issue"
    <3>1. Abstract!IssueCredits(q.amount)
      BY <2>0, <2>1, <2>2 DEF Commit, Written, Abstract!IssueCredits
    <3> QED BY <1>0, <2>2, <3>1 DEF Abstract!Next
  <2>3. CASE q.op = "allocate"
    <3>1. Abstract!AllocatePool(q.amount)
      BY <2>0, <2>1, <2>3 DEF Commit, Written, Abstract!AllocatePool
    <3> QED BY <1>0, <2>3, <3>1 DEF Abstract!Next
  <2>4. CASE q.op = "create"
    <3>0. /\ WrittenCreate(r) /\ q.amount \in Totals
          /\ wallet' = q.wallet /\ pool' = q.pool
          /\ books' = [books EXCEPT !.vouchers = @ + q.amount, !.drawn = @ + q.drawn,
                                    !.minted = @ + q.minted]
      BY <1>0, <2>0, <2>1, <2>4 DEF Commit, Written
    <3>1. CASE q.drawn = 0 /\ q.minted = 0 /\ pool >= q.amount
      <4>1. Abstract!IssueVoucher(q.amount, 0, 0)
        BY <2>1, <3>0, <3>1 DEF WrittenCreate, Abstract!IssueVoucher, NeverOverdrawn
      <4> QED BY <3>0, <4>1 DEF Abstract!Next, Totals
    <3>2. CASE q.drawn = q.amount - pool /\ q.minted = 0 /\ pool < q.amount /\ wallet >= q.drawn
      <4>1. q.drawn = Abstract!Shortfall(q.amount)
        BY <2>1, <3>2 DEF Abstract!Shortfall
      <4>2. Abstract!IssueVoucher(q.amount, q.drawn, 0)
        BY <2>1, <3>0, <3>2 DEF WrittenCreate, Abstract!IssueVoucher
      <4> QED BY <3>0, <4>1, <4>2 DEF Abstract!Next, Totals
    <3>3. CASE q.drawn = 0 /\ q.minted = q.amount - pool /\ pool < q.amount
      <4>1. q.minted = Abstract!Shortfall(q.amount)
        BY <2>1, <3>3 DEF Abstract!Shortfall
      <4>2. Abstract!IssueVoucher(q.amount, 0, q.minted)
        BY <2>1, <3>0, <3>3 DEF WrittenCreate, Abstract!IssueVoucher, NeverOverdrawn
      <4> QED BY <3>0, <4>1, <4>2 DEF Abstract!Next, Totals
    <3> QED BY <3>0, <3>1, <3>2, <3>3 DEF WrittenCreate, PaidFrom
  <2> QED BY <2>0, <2>2, <2>3, <2>4 DEF Ops
<1> QED BY <1>1, <1>2

\* A request that owns a funding row still holds the committed balance of it, and what
\* it has written differs from that by exactly its transfer.
THEOREM CopiesAreCurrent == Spec => []CopyIsCurrent
  BY Invariance, PTL DEF IInv

\* The requests, with their locks, waits, rollbacks and deadlocks, implement
\* indivisible transfers.
THEOREM Implementation == Spec => ImplementsTreasury
<1>1. Init => Abstract!Init
  BY DEF Init, Abstract!Init
<1>2. IInv /\ [Next]_vars => [Abstract!Next]_(Abstract!vars)
  <2> SUFFICES ASSUME IInv, [Next]_vars PROVE Abstract!Next \/ UNCHANGED <<wallet, pool, books>>
    BY DEF Abstract!vars
  <2>1. ASSUME NEW r \in Reqs, Finish(r) PROVE Abstract!Next \/ UNCHANGED <<wallet, pool, books>>
    BY <2>1, FinishIsTransfer, ZenonT(60)
  <2>2. ASSUME NEW r \in Reqs, Next, ~Finish(r),
               Begin(r) \/ HandlerStep(r) \/ Close(r) \/ DeadlockVictim(r)
        PROVE UNCHANGED <<wallet, pool, books>>
    BY <2>2, ZenonT(60) DEF HandlerStep, Begin, LockWallet, LockPool, WriteIssue, WriteAllocate, WriteCreate,
                InsertVoucher, RetryInsert, Close, DeadlockVictim, Committed
  <2> QED BY <2>1, <2>2 DEF Next, vars
<1> QED BY <1>1, <1>2, Invariance, PTL DEF Spec, ImplementsTreasury, Abstract!Spec
=============================================================================
