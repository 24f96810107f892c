------------------------ MODULE PurchaseOrder_proofs ------------------------
(***************************************************************************)
(* Theorems about PurchaseOrder, for any number of orders and of requests  *)
(* that overlap.                                                           *)
(***************************************************************************)
EXTENDS PurchaseOrder, TLAPS

(***************************************************************************)
(* The inductive invariant                                                 *)
(***************************************************************************)

\* A row has the columns its stage needs, and none before it is approved.
Documented(row) ==
  /\ Required[row.status] \subseteq row.evidence
  /\ row.status \in {"unused", "deleted", "pending"} => row.evidence = {}

RowPart == \A o \in Orders : Documented(db[o]) /\ Documented(cur[o])

\* A free row has no newer version; an owned one has an owner that is about to answer.
OwnPart ==
  \A o \in Orders :
    IF lock[o] = NoReq
    THEN cur[o] = db[o]
    ELSE /\ cur[o].status # "unused"
         /\ req[lock[o]].o = o /\ req[lock[o]].at \in {"notify", "respond"}

\* What a commit of the newest version may do to a row.
Moved(old, new) ==
  /\ Exists(new) => old.evidence \subseteq new.evidence
  /\ old.status = "deleted" => new = old
  /\ old.status # new.status =>
       /\ new.status = "credited" => old.status = "awaiting_credit"
       /\ new.status = "completed" => old.status = "credited"

MovedPart == \A o \in Orders : Moved(db[o], cur[o])

\* Which handler is at which place.
PlacePart ==
  \A r \in Reqs :
    /\ req[r].at \in {"insert", "notify"} => req[r].op = "create"
    /\ req[r].at \in {"read", "save"} => req[r].op \in UnlockedOps
    /\ req[r].at = "lock" => req[r].op \in LockedOps

\* What a handler saw without a lock may be old, but an order never loses it.
SeenPart ==
  \A r \in Reqs :
    req[r].at = "save" /\ req[r].op # "delete" =>
      /\ req[r].seen.status = From[req[r].op] /\ Documented(req[r].seen)
      /\ db[req[r].o].status # "unused"
      /\ Exists(db[req[r].o]) => req[r].seen.evidence \subseteq db[req[r].o].evidence

\* The id of a new order is its creator's alone.
NewPart ==
  \A r \in Reqs :
    req[r].at = "insert" =>
      /\ cur[req[r].o] = NoOrder
      /\ \A s \in Reqs : req[s].at = "insert" /\ req[s].o = req[r].o => s = r

IInv == TypeOK /\ RowPart /\ OwnPart /\ MovedPart /\ PlacePart /\ SeenPart /\ NewPart

\* f with the value y at x.
Put(f, x, y) == [f EXCEPT ![x] = y]

LEMMA InitInv == Init => IInv
<1> SUFFICES ASSUME Init PROVE IInv
  OBVIOUS
<1>1. TypeOK
  BY NamesAssumption DEF Init, TypeOK, NoWork, NoOrder, OrderRow, Stages, Work, Places, TxStates, Ops, AnswerStatuses,
     UnlockedOps, LockedOps
<1>2. RowPart /\ OwnPart /\ MovedPart
  BY DEF Init, RowPart, OwnPart, MovedPart, Documented, Required, NoOrder, Moved, Exists
<1>3. PlacePart /\ SeenPart /\ NewPart
  BY DEF Init, PlacePart, SeenPart, NewPart, NoWork
<1> QED
  BY <1>1, <1>2, <1>3 DEF IInv

\* A step of the request's own record disturbs what the invariant says of it only.
LEMMA RecordInv ==
  ASSUME IInv, NEW r \in Reqs, NEW w \in Work, req' = Put(req, r, w),
         UNCHANGED <<db, cur, lock, issued>>,
         w.at \in {"notify", "respond"} \/ \A o \in Orders : lock[o] # r,
         w.o = req[r].o \/ \A o \in Orders : lock[o] # r,
         w.at \in {"insert", "notify"} => w.op = "create",
         w.at \in {"read", "save"} => w.op \in UnlockedOps,
         w.at = "lock" => w.op \in LockedOps,
         w.at = "save" /\ w.op # "delete" =>
           /\ w.seen.status = From[w.op] /\ Documented(w.seen)
           /\ db[w.o].status # "unused"
           /\ Exists(db[w.o]) => w.seen.evidence \subseteq db[w.o].evidence,
         w.at = "insert" => 
           /\ cur[w.o] = NoOrder
           /\ \A s \in Reqs : req[s].at = "insert" /\ req[s].o = w.o => s = r
  PROVE  IInv'
<1>1. TypeOK'
  BY DEF Put, IInv, TypeOK
<1> /\ req'[r] = w
    /\ \A s \in Reqs : s # r => req'[s] = req[s]
  BY DEF Put, IInv, TypeOK
<1>2. RowPart' /\ MovedPart'
  BY DEF IInv, RowPart, MovedPart
<1>3. OwnPart'
  BY DEF IInv, OwnPart, TypeOK
<1>4. PlacePart'
  BY DEF IInv, PlacePart
<1>5. SeenPart'
  BY DEF IInv, SeenPart
<1>6. NewPart'
  BY DEF IInv, NewPart
<1> QED
  BY <1>1, <1>2, <1>3, <1>4, <1>5, <1>6 DEF IInv

\* A request takes a free row and writes a version that may be committed.
LEMMA TakeInv ==
  ASSUME IInv, NEW r \in Reqs, NEW o \in Orders, NEW row \in OrderRow, NEW w \in Work,
         lock[o] = NoReq, \A x \in Orders : lock[x] # r, 
         lock' = Put(lock, o, r), cur' = Put(cur, o, row),
         req' = Put(req, r, w), UNCHANGED <<db, issued>>,
         w.o = o, w.at \in {"notify", "respond"}, w.at = "notify" => w.op = "create",
         row.status # "unused", Documented(row), Moved(db[o], row),
         \A s \in Reqs : req[s].at = "insert" /\ req[s].o = o => s = r
  PROVE  IInv'
<1> /\ req'[r] = w
    /\ \A s \in Reqs : s # r => req'[s] = req[s]
    /\ cur'[o] = row /\ lock'[o] = r /\ r # NoReq
    /\ \A x \in Orders : x # o => cur'[x] = cur[x] /\ lock'[x] = lock[x]
  BY NamesAssumption DEF Put, IInv, TypeOK
<1>1. TypeOK'
  BY DEF Put, IInv, TypeOK
<1>2. RowPart' /\ MovedPart'
  BY DEF IInv, RowPart, MovedPart
<1>3. OwnPart'
  BY DEF IInv, OwnPart, TypeOK
<1>4. PlacePart'
  BY DEF IInv, PlacePart
<1>5. SeenPart'
  BY DEF IInv, SeenPart
<1>6. NewPart'
  BY DEF IInv, NewPart, TypeOK, Work
<1> QED
  BY <1>1, <1>2, <1>3, <1>4, <1>5, <1>6 DEF IInv

\* The end of a request: its rows are committed or restored, and free.
LEMMA EndInv ==
  ASSUME IInv, NEW r \in Reqs, Commit(r) \/ Rollback(r), Release(r), req' = Ended(r)
  PROVE  IInv'
<1> /\ req'[r] = NoWork /\ NoWork.at = "idle"
    /\ \A s \in Reqs : s # r => req'[s] = req[s]
  BY DEF IInv, TypeOK, Ended, NoWork
<1> NoWork \in Work
  BY NamesAssumption DEF NoWork, Work, Places, TxStates, Ops, OrderRow, NoOrder, AnswerStatuses
<1>1. TypeOK'
  <2>1. req' \in [Reqs -> Work] /\ lock' \in [Orders -> Reqs \cup {NoReq}]
    BY DEF IInv, TypeOK, Ended, Release
  <2>2. CASE Commit(r)
    BY <2>1, <2>2 DEF IInv, TypeOK, Commit, Owns
  <2>3. CASE Rollback(r)
    BY <2>1, <2>3 DEF IInv, TypeOK, Rollback
  <2> QED
    BY <2>2, <2>3
<1>2. \A o \in Orders :
        /\ IF lock[o] = r THEN lock'[o] = NoReq /\ cur'[o] = db'[o]
                          ELSE lock'[o] = lock[o] /\ cur'[o] = cur[o] /\ db'[o] = db[o]
        /\ db'[o] \in {db[o], cur[o]}
  BY DEF IInv, TypeOK, Commit, Rollback, Release
<1>3. RowPart'
  BY <1>2 DEF IInv, RowPart
<1>4. MovedPart'
  BY <1>2 DEF IInv, MovedPart, Moved
<1>5. OwnPart'
  BY <1>2, NamesAssumption DEF IInv, OwnPart, TypeOK
<1>6. PlacePart'
  BY DEF IInv, PlacePart
<1>7. SeenPart'
  <2> SUFFICES ASSUME NEW s \in Reqs, s # r, req[s].at = "save", req[s].op # "delete"
               PROVE  /\ req[s].seen.status = From[req[s].op] /\ Documented(req[s].seen)
                      /\ db'[req[s].o].status # "unused"
                      /\ Exists(db'[req[s].o]) => req[s].seen.evidence \subseteq db'[req[s].o].evidence
    BY DEF SeenPart
  <2>1. req[s].o \in Orders
    BY DEF IInv, TypeOK, Work
  <2> DEFINE o == req[s].o
  <2>2. /\ req[s].seen.status = From[req[s].op] /\ Documented(req[s].seen)
        /\ db[o].status # "unused"
        /\ Exists(db[o]) => req[s].seen.evidence \subseteq db[o].evidence
    BY DEF IInv, SeenPart
  <2>3. CASE db'[o] = db[o]
    BY <2>2, <2>3
  <2>4. CASE db'[o] # db[o]
    <3>1. lock[o] = r /\ db'[o] = cur[o] /\ r # NoReq
      BY <2>1, <2>4, <1>2, NamesAssumption
    <3>2. cur[o].status # "unused" /\ Moved(db[o], cur[o])
      BY <2>1, <3>1 DEF IInv, OwnPart, MovedPart
    <3> QED
      BY <2>2, <2>4, <3>1, <3>2 DEF Moved, Exists
  <2> QED
    BY <2>3, <2>4
<1>8. NewPart'
  <2> SUFFICES ASSUME NEW s \in Reqs, s # r, req[s].at = "insert"
               PROVE  /\ cur'[req[s].o] = NoOrder
                      /\ \A q \in Reqs : req'[q].at = "insert" /\ req'[q].o = req[s].o => q = s
    BY DEF NewPart
  <2>1. req[s].o \in Orders /\ cur[req[s].o] = NoOrder
    BY DEF IInv, TypeOK, Work, NewPart
  <2>2. lock[req[s].o] # r
    BY <2>1, NamesAssumption DEF IInv, OwnPart, NoOrder
  <2> QED
    BY <1>2, <2>1, <2>2 DEF IInv, NewPart
<1> QED
  BY <1>1, <1>3, <1>4, <1>5, <1>6, <1>7, <1>8 DEF IInv

\* A request that is not about to answer owns nothing.
LEMMA OwnsNothing ==
  ASSUME IInv, NEW r \in Reqs, req[r].at \notin {"notify", "respond"}
  PROVE  \A o \in Orders : lock[o] # r
  BY NamesAssumption DEF IInv, OwnPart

\* A request's record after an answer.
LEMMA Answered ==
  ASSUME IInv, NEW r \in Reqs, NEW status \in AnswerStatuses
  PROVE  \E w \in Work :
           /\ Answer(r, status) = Put(req, r, w)
           /\ w.at = "respond" /\ w.o = req[r].o /\ w.op = req[r].op
<1> DEFINE w == [req[r] EXCEPT !.at = "respond", !.status = status]
<1>1. w \in Work /\ w.at = "respond" /\ w.o = req[r].o /\ w.op = req[r].op
  BY DEF IInv, TypeOK, Work, Places
<1>2. Answer(r, status) = Put(req, r, w)
  BY DEF Put, Answer, IInv, TypeOK
<1> QED
  BY <1>1, <1>2

\* An answer, or a refusal, that touches no row.
LEMMA AnswerInv ==
  ASSUME IInv, NEW r \in Reqs, NEW status \in AnswerStatuses, req' = Answer(r, status),
         UNCHANGED <<db, cur, lock, issued>>
  PROVE  IInv'
<1>1. PICK w \in Work : /\ Answer(r, status) = Put(req, r, w)
                        /\ w.at = "respond" /\ w.o = req[r].o /\ w.op = req[r].op
  BY Answered
<1> QED
  BY <1>1, RecordInv

LEMMA BeginInv ==
  ASSUME IInv, NEW r \in Reqs, Begin(r)
  PROVE  IInv'
<1>1. PICK op \in Ops, o \in Orders :
        /\ op = "create" => NewId(o)
        /\ req' = [req EXCEPT ![r].op = op, ![r].o = o, ![r].at = FirstPlace(op)]
  BY DEF Begin
<1>2. PICK w : w = [req[r] EXCEPT !.op = op, !.o = o, !.at = FirstPlace(op)]
  OBVIOUS
<1>3. req' = Put(req, r, w)
  BY <1>1, <1>2 DEF Put, IInv, TypeOK
<1>4. /\ w \in Work /\ w.op = op /\ w.o = o /\ w.at = FirstPlace(op)
  BY <1>2 DEF IInv, TypeOK, Work, Places, FirstPlace
<1>5. /\ w.at \in {"insert", "read", "lock"}
      /\ w.at = "insert" => w.op = "create"
      /\ w.at = "read" => w.op \in UnlockedOps
      /\ w.at = "lock" => w.op \in LockedOps
  BY <1>4 DEF FirstPlace, Ops, UnlockedOps, LockedOps
<1>6. \A x \in Orders : lock[x] # r
  BY OwnsNothing DEF Begin, At
<1>7. ASSUME w.at = "insert"
      PROVE  /\ cur[w.o] = NoOrder
             /\ \A s \in Reqs : req[s].at = "insert" /\ req[s].o = w.o => s = r
  <2>1. NewId(o)
    BY <1>1, <1>4, <1>5, <1>7
  <2> QED
    BY <1>4, <2>1 DEF NewId, Running, IInv, PlacePart
<1>8. UNCHANGED <<db, cur, lock, issued>>
  BY DEF Begin
<1>9. /\ w.at \in {"insert", "notify"} => w.op = "create"
      /\ w.at \in {"read", "save"} => w.op \in UnlockedOps
      /\ w.at # "save"
  BY <1>5
<1> QED
  BY <1>3, <1>4, <1>5, <1>6, <1>7, <1>8, <1>9, RecordInv

LEMMA CreateInv ==
  ASSUME IInv, NEW r \in Reqs, CreateOrder(r)
  PROVE  IInv'
<1> DEFINE o == req[r].o
<1>1. PICK w : w = [req[r] EXCEPT !.at = "notify"]
  OBVIOUS
<1>2. w \in Work /\ w.at = "notify" /\ w.o = o /\ w.op = "create" /\ o \in Orders
  BY <1>1 DEF IInv, TypeOK, Work, Places, PlacePart, CreateOrder, At
<1>3. req' = Put(req, r, w)
  BY <1>1 DEF Put, CreateOrder, Goto, IInv, TypeOK
<1>4. PICK row : row = [status |-> "pending", evidence |-> {}]
  OBVIOUS
<1>5. row \in OrderRow /\ row.status = "pending" /\ row.evidence = {}
  BY <1>4 DEF OrderRow, Stages
<1>6. cur[o] = NoOrder /\ \A s \in Reqs : req[s].at = "insert" /\ req[s].o = o => s = r
  BY DEF CreateOrder, At, IInv, NewPart
<1>7. lock[o] = NoReq /\ db[o] = NoOrder
  BY <1>2, <1>6 DEF IInv, OwnPart, NoOrder
<1>8. Documented(row) /\ Moved(db[o], row)
  BY <1>5, <1>7 DEF Documented, Required, Moved, NoOrder
<1>9. lock' = Put(lock, o, r) /\ cur' = Put(cur, o, row) /\ UNCHANGED <<db, issued>>
  BY <1>4 DEF Put, CreateOrder
<1>10. \A x \in Orders : lock[x] # r
  BY OwnsNothing DEF CreateOrder, At
<1> QED
  BY <1>2, <1>3, <1>5, <1>6, <1>7, <1>8, <1>9, <1>10, TakeInv

LEMMA NotifyInv ==
  ASSUME IInv, NEW r \in Reqs, NotifyOwners(r)
  PROVE  IInv'
<1>1. PICK tx \in TxStates : req' = [Answer(r, 201) EXCEPT ![r].tx = tx]
  BY DEF NotifyOwners
<1>2. PICK w : w = [req[r] EXCEPT !.at = "respond", !.status = 201, !.tx = tx]
  OBVIOUS
<1>3. req' = Put(req, r, w)
  <2>1. req' = [req EXCEPT ![r].at = "respond", ![r].status = 201, ![r].tx = tx]
    BY <1>1 DEF Answer
  <2> QED
    BY <1>2, <2>1, ZenonT(60) DEF Put, IInv, TypeOK
<1>4. w \in Work /\ w.at = "respond" /\ w.o = req[r].o
  <2>1. req[r] \in Work
    BY DEF IInv, TypeOK
  <2>2. 201 \in AnswerStatuses /\ "respond" \in Places
    BY DEF AnswerStatuses, Places
  <2> QED
    BY <1>2, <2>1, <2>2, ZenonT(60) DEF Work
<1>5. UNCHANGED <<db, cur, lock, issued>>
  BY DEF NotifyOwners
<1> QED
  BY <1>3, <1>4, <1>5, RecordInv

LEMMA ReadInv ==
  ASSUME IInv, NEW r \in Reqs, ReadOrder(r)
  PROVE  IInv'
<1> DEFINE row == db[req[r].o]
<1>1. UNCHANGED <<db, cur, lock, issued>>
  BY DEF ReadOrder
<1>2. CASE req' = Answer(r, 404) \/ req' = Answer(r, 400)
  BY <1>1, <1>2, AnswerInv DEF AnswerStatuses
<1>3. CASE /\ Exists(row)
           /\ req[r].op = "delete" \/ row.status = From[req[r].op]
           /\ req' = [req EXCEPT ![r].seen = row, ![r].at = "save"]
  <2>1. PICK w : w = [req[r] EXCEPT !.seen = row, !.at = "save"]
    OBVIOUS
  <2>2. row \in OrderRow /\ Documented(row)
    BY DEF IInv, TypeOK, Work, RowPart
  <2>3. /\ w \in Work /\ w.at = "save" /\ w.o = req[r].o /\ w.op = req[r].op /\ w.seen = row
    BY <2>1, <2>2 DEF IInv, TypeOK, Work, Places
  <2>4. req' = Put(req, r, w)
    BY <1>3, <2>1 DEF Put, IInv, TypeOK
  <2>5. w.op \in UnlockedOps
    BY <2>3 DEF IInv, PlacePart, ReadOrder, At
  <2>6. \A x \in Orders : lock[x] # r
    BY OwnsNothing DEF ReadOrder, At
  <2>7. w.op # "delete" =>
          /\ w.seen.status = From[w.op] /\ Documented(w.seen)
          /\ db[w.o].status # "unused"
          /\ Exists(db[w.o]) => w.seen.evidence \subseteq db[w.o].evidence
    BY <1>3, <2>2, <2>3 DEF Exists
  <2> QED
    BY <1>1, <2>3, <2>4, <2>5, <2>6, <2>7, RecordInv
<1> QED
  BY <1>2, <1>3 DEF ReadOrder

\* What a handler stores keeps what the order has, and documents its new stage.
LEMMA StoredLemma ==
  ASSUME IInv, NEW r \in Reqs, NEW o \in Orders, o = req[r].o, Exists(db[o]),
         \/ req[r].at = "save" /\ req[r].op # "delete"
         \/ req[r].at = "lock" /\ db[o].status = From[req[r].op]
  PROVE  LET row == Stored(r, db[o].evidence) IN
         /\ row \in OrderRow /\ row.status # "unused"
         /\ Documented(row) /\ Moved(db[o], row)
<1> DEFINE old == db[o]
           new == Stored(r, old.evidence)
           op == req[r].op
<1>1. /\ old \in OrderRow /\ Documented(old)
      /\ req[r] \in Work /\ req[r].seen.evidence \subseteq Evidence
  BY DEF IInv, TypeOK, RowPart, Work, OrderRow
<1>2. /\ new.status = To[op]
      /\ new.evidence = (old.evidence \ (IF op = "approve" THEN req[r].seen.evidence ELSE {}))
                            \cup Records[op]
  BY DEF Stored
<1>3. ASSUME Required[new.status] \subseteq new.evidence, new.evidence \subseteq Evidence,
             new.status \in Stages \ {"pending"}, old.evidence \subseteq new.evidence,
             new.status = "credited" => old.status = "awaiting_credit",
             new.status = "completed" => old.status = "credited"
      PROVE  new \in OrderRow /\ new.status # "unused" /\ Documented(new) /\ Moved(old, new)
  <2>1. new \in OrderRow
    BY <1>3 DEF Stored, OrderRow
  <2>2. new.status # "unused" /\ Documented(new)
    BY <1>3 DEF Documented, Stages
  <2>3. Moved(old, new)
    BY <1>3 DEF Moved, Exists
  <2> QED
    BY <2>1, <2>2, <2>3
<1>4. CASE req[r].at = "save" /\ req[r].op # "delete"
  <2>1. /\ req[r].seen.status = From[op] /\ Documented(req[r].seen)
        /\ req[r].seen.evidence \subseteq old.evidence
        /\ op \in {"approve", "confirm", "acknowledge"}
    BY <1>4 DEF IInv, SeenPart, PlacePart, UnlockedOps
  <2>2. CASE op = "approve"
    <3>1. new.status = "approved" /\ new.evidence = old.evidence \cup {"approval"}
      BY <1>2, <2>1, <2>2 DEF From, To, Records, Documented
    <3>2. Required[new.status] \subseteq new.evidence /\ new.evidence \subseteq Evidence
      BY <1>1, <3>1 DEF Required, Evidence, OrderRow
    <3>3. new.status \in Stages \ {"pending"} /\ old.evidence \subseteq new.evidence
      BY <3>1 DEF Stages
    <3>4. /\ new.status = "credited" => old.status = "awaiting_credit"
          /\ new.status = "completed" => old.status = "credited"
      BY <3>1
    <3> QED
      BY <1>3, <3>2, <3>3, <3>4
  <2>3. CASE op = "confirm"
    <3>1. /\ new.status = "awaiting_credit" /\ new.evidence = old.evidence \cup {"payment"}
          /\ "approval" \in old.evidence
      BY <1>2, <2>1, <2>3 DEF From, To, Records, Documented, Required
    <3>2. Required[new.status] \subseteq new.evidence /\ new.evidence \subseteq Evidence
      BY <1>1, <3>1 DEF Required, Evidence, OrderRow
    <3>3. new.status \in Stages \ {"pending"} /\ old.evidence \subseteq new.evidence
      BY <3>1 DEF Stages
    <3>4. /\ new.status = "credited" => old.status = "awaiting_credit"
          /\ new.status = "completed" => old.status = "credited"
      BY <3>1
    <3> QED
      BY <1>3, <3>2, <3>3, <3>4
  <2>4. CASE op = "acknowledge"
    <3>1. /\ new.status = "acknowledged" /\ new.evidence = old.evidence \cup {"acknowledgement"}
          /\ {"approval", "payment", "credit", "receipt"} \subseteq old.evidence
      BY <1>2, <2>1, <2>4 DEF From, To, Records, Documented, Required
    <3>2. Required[new.status] \subseteq new.evidence /\ new.evidence \subseteq Evidence
      BY <1>1, <3>1 DEF Required, Evidence, OrderRow
    <3>3. new.status \in Stages \ {"pending"} /\ old.evidence \subseteq new.evidence
      BY <3>1 DEF Stages
    <3>4. /\ new.status = "credited" => old.status = "awaiting_credit"
          /\ new.status = "completed" => old.status = "credited"
      BY <3>1
    <3> QED
      BY <1>3, <3>2, <3>3, <3>4
  <2> QED
    BY <2>1, <2>2, <2>3, <2>4
<1>5. CASE req[r].at = "lock" /\ db[o].status = From[req[r].op]
  <2>1. op \in {"issue", "finalize"}
    BY <1>5 DEF IInv, PlacePart, LockedOps
  <2>2. CASE op = "issue"
    <3>1. /\ new.status = "credited" /\ new.evidence = old.evidence \cup {"credit"}
          /\ old.status = "awaiting_credit" /\ {"approval", "payment"} \subseteq old.evidence
      BY <1>1, <1>2, <1>5, <2>2 DEF From, To, Records, Documented, Required
    <3>2. Required[new.status] \subseteq new.evidence /\ new.evidence \subseteq Evidence
      BY <1>1, <3>1 DEF Required, Evidence, OrderRow
    <3>3. new.status \in Stages \ {"pending"} /\ old.evidence \subseteq new.evidence
      BY <3>1 DEF Stages
    <3>4. /\ new.status = "credited" => old.status = "awaiting_credit"
          /\ new.status = "completed" => old.status = "credited"
      BY <3>1
    <3> QED
      BY <1>3, <3>2, <3>3, <3>4
  <2>3. CASE op = "finalize"
    <3>1. /\ new.status = "completed" /\ new.evidence = old.evidence \cup {"receipt"}
          /\ old.status = "credited" /\ {"approval", "payment", "credit"} \subseteq old.evidence
      BY <1>1, <1>2, <1>5, <2>3 DEF From, To, Records, Documented, Required
    <3>2. Required[new.status] \subseteq new.evidence /\ new.evidence \subseteq Evidence
      BY <1>1, <3>1 DEF Required, Evidence, OrderRow
    <3>3. new.status \in Stages \ {"pending"} /\ old.evidence \subseteq new.evidence
      BY <3>1 DEF Stages
    <3>4. /\ new.status = "credited" => old.status = "awaiting_credit"
          /\ new.status = "completed" => old.status = "credited"
      BY <3>1
    <3> QED
      BY <1>3, <3>2, <3>3, <3>4
  <2> QED
    BY <2>1, <2>2, <2>3
<1> QED
  BY <1>4, <1>5

\* The write of a request that owned nothing.
LEMMA WriteInv ==
  ASSUME IInv, NEW r \in Reqs, NEW o \in Orders, o = req[r].o, NEW row \in OrderRow,
         req[r].at \in {"save", "lock"}, lock[o] = NoReq, Exists(db[o]),
         lock' = Put(lock, o, r), cur' = Put(cur, o, row),
         UNCHANGED <<db, issued>>, NEW status \in AnswerStatuses, req' = Answer(r, status),
         row.status # "unused", Documented(row), Moved(db[o], row)
  PROVE  IInv'
<1>1. PICK w \in Work : /\ Answer(r, status) = Put(req, r, w)
                        /\ w.at = "respond" /\ w.o = req[r].o /\ w.op = req[r].op
  BY Answered
<1>2. \A x \in Orders : lock[x] # r
  BY OwnsNothing
<1>3. cur[o] # NoOrder
  BY DEF IInv, OwnPart, Exists, NoOrder
<1>4. \A s \in Reqs : req[s].at = "insert" /\ req[s].o = o => s = r
  BY <1>3 DEF IInv, NewPart
<1>5. /\ req' = Put(req, r, w) /\ w.o = o
      /\ w.at \in {"notify", "respond"} /\ w.at # "notify"
  BY <1>1
<1> QED
  BY <1>2, <1>4, <1>5, TakeInv

LEMMA SaveInv ==
  ASSUME IInv, NEW r \in Reqs, SaveOrder(r)
  PROVE  IInv'
<1> DEFINE o == req[r].o
<1>1. o \in Orders /\ lock[o] = NoReq /\ cur[o] = db[o]
  BY DEF SaveOrder, IInv, TypeOK, Work, OwnPart
<1>2. CASE Exists(db[o]) /\ lock' = Put(lock, o, r)
  <2>1. PICK row : row = Stored(r, db[o].evidence)
    OBVIOUS
  <2>2. /\ row \in OrderRow /\ row.status # "unused"
        /\ Documented(row) /\ Moved(db[o], row)
    BY <1>1, <1>2, <2>1, StoredLemma DEF SaveOrder, At
  <2>3. /\ cur' = Put(cur, o, row) /\ req' = Answer(r, 200) /\ UNCHANGED <<db, issued>>
    <3>1. CASE cur' = [cur EXCEPT ![o] = Stored(r, @.evidence)]
      BY <1>1, <2>1, <3>1, <1>2 DEF Put, SaveOrder, IInv, TypeOK
    <3> QED
      BY <1>2, <3>1 DEF SaveOrder
  <2>4. 200 \in AnswerStatuses /\ req[r].at = "save"
    BY DEF AnswerStatuses, SaveOrder, At
  <2> QED
    BY <1>1, <1>2, <2>2, <2>3, <2>4, WriteInv
<1>3. CASE req' = Answer(r, 500) /\ UNCHANGED <<cur, lock>>
  BY <1>3, AnswerInv DEF SaveOrder, AnswerStatuses
<1> QED
  BY <1>2, <1>3 DEF Put, SaveOrder

LEMMA DeleteInv ==
  ASSUME IInv, NEW r \in Reqs, DeleteOrder(r)
  PROVE  IInv'
<1> DEFINE o == req[r].o
<1>1. o \in Orders /\ lock[o] = NoReq /\ 200 \in AnswerStatuses /\ req[r].at = "save"
  BY DEF DeleteOrder, At, IInv, TypeOK, Work, AnswerStatuses
<1>2. CASE Exists(db[o])
  <2>1. PICK row : row = Gone
    OBVIOUS
  <2>2. /\ row \in OrderRow /\ row.status # "unused"
        /\ Documented(row) /\ Moved(db[o], row)
    BY <1>2, <2>1 DEF Gone, OrderRow, Documented, Required, Moved, Exists
  <2>3. /\ lock' = Put(lock, o, r) /\ cur' = Put(cur, o, row)
        /\ req' = Answer(r, 200) /\ UNCHANGED <<db, issued>>
    BY <1>2, <2>1 DEF Put, DeleteOrder
  <2> QED
    BY <1>1, <1>2, <2>2, <2>3, WriteInv
<1>3. CASE ~Exists(db[o])
  BY <1>1, <1>3, AnswerInv DEF DeleteOrder
<1> QED
  BY <1>2, <1>3

LEMMA LockInv ==
  ASSUME IInv, NEW r \in Reqs, LockOrder(r)
  PROVE  IInv'
<1> DEFINE o == req[r].o
<1>1. o \in Orders /\ req[r].at = "lock" /\ UNCHANGED <<db, issued>>
  BY DEF LockOrder, At, IInv, TypeOK, Work
<1>2. CASE req' = Answer(r, 404) /\ UNCHANGED <<cur, lock>>
  BY <1>1, <1>2, AnswerInv DEF AnswerStatuses
<1>3. CASE /\ Exists(db[o]) /\ lock[o] = NoReq /\ lock' = Put(lock, o, r)
           /\ UNCHANGED cur /\ \E status \in {400, 403} : req' = Answer(r, status)
  <2>1. PICK status \in {400, 403} : req' = Answer(r, status)
    BY <1>3
  <2>2. PICK row : row = db[o]
    OBVIOUS
  <2>3. row \in OrderRow /\ row.status # "unused" /\ Documented(row) /\ Moved(db[o], row)
    BY <1>1, <1>3, <2>2 DEF IInv, TypeOK, RowPart, Exists, Moved
  <2>4. cur' = Put(cur, o, row)
    BY <1>1, <1>3, <2>2 DEF Put, IInv, OwnPart, TypeOK
  <2>5. status \in AnswerStatuses
    BY DEF AnswerStatuses
  <2>6. Exists(db[o]) /\ lock[o] = NoReq /\ lock' = Put(lock, o, r)
    BY <1>3
  <2> QED
    BY <1>1, <2>1, <2>3, <2>4, <2>5, <2>6, WriteInv
<1>4. CASE /\ Exists(db[o]) /\ lock[o] = NoReq /\ lock' = Put(lock, o, r)
           /\ db[o].status = From[req[r].op] /\ req' = Answer(r, 200)
           /\ cur' = [cur EXCEPT ![o] = Stored(r, @.evidence)]
  <2>1. PICK row : row = Stored(r, db[o].evidence)
    OBVIOUS
  <2>2. row \in OrderRow /\ row.status # "unused" /\ Documented(row) /\ Moved(db[o], row)
    BY <1>1, <1>4, <2>1, StoredLemma
  <2>3. cur[o] = db[o] /\ cur \in [Orders -> OrderRow]
    BY <1>1, <1>4 DEF IInv, OwnPart, TypeOK
  <2>4. cur' = Put(cur, o, row) /\ 200 \in AnswerStatuses
    BY <1>1, <1>4, <2>1, <2>3 DEF Put, AnswerStatuses
  <2> QED
    BY <1>1, <1>4, <2>2, <2>4, WriteInv
<1> QED
  BY <1>2, <1>3, <1>4 DEF Put, LockOrder

\* Every step keeps the invariant.
LEMMA StepInv ==
  ASSUME IInv, [Next]_vars
  PROVE  IInv'
<1>1. CASE UNCHANGED vars
  BY <1>1 DEF vars, IInv, TypeOK, RowPart, OwnPart, MovedPart, PlacePart, SeenPart, NewPart
<1>2. ASSUME NEW r \in Reqs, Begin(r) PROVE IInv'
  BY <1>2, BeginInv
<1>3. ASSUME NEW r \in Reqs, Refuse(r) PROVE IInv'
  BY <1>3, AnswerInv DEF Refuse, AnswerStatuses
<1>4. ASSUME NEW r \in Reqs, CreateOrder(r) PROVE IInv'
  BY <1>4, CreateInv
<1>5. ASSUME NEW r \in Reqs, NotifyOwners(r) PROVE IInv'
  BY <1>5, NotifyInv
<1>6. ASSUME NEW r \in Reqs, ReadOrder(r) PROVE IInv'
  BY <1>6, ReadInv
<1>7. ASSUME NEW r \in Reqs, SaveOrder(r) PROVE IInv'
  BY <1>7, SaveInv
<1>8. ASSUME NEW r \in Reqs, DeleteOrder(r) PROVE IInv'
  BY <1>8, DeleteInv
<1>9. ASSUME NEW r \in Reqs, LockOrder(r) PROVE IInv'
  BY <1>9, LockInv
<1>10. ASSUME NEW r \in Reqs, Finish(r) PROVE IInv'
  BY <1>10, EndInv DEF Finish
<1>11. ASSUME NEW r \in Reqs, Close(r) PROVE IInv'
  BY <1>11, EndInv DEF Close
<1> QED
  BY <1>1, <1>2, <1>3, <1>4, <1>5, <1>6, <1>7, <1>8, <1>9, <1>10, <1>11 DEF Next, HandlerStep

(***************************************************************************)
(* The theorems                                                            *)
(***************************************************************************)

\* The invariant holds in every behaviour of the purchase orders.
THEOREM Inductive == Spec => []IInv
<1>1. Init => IInv
  BY InitInv
<1>2. IInv /\ [Next]_vars => IInv'
  BY StepInv
<1> QED
  BY <1>1, <1>2, PTL DEF Spec

\* The rows, locks and request records keep their types.
THEOREM TypeCorrect == Spec => []TypeOK
<1>1. IInv => TypeOK
  BY DEF IInv
<1> QED
  BY <1>1, Inductive, PTL

\* An order has the columns of every stage up to its own, however many approvals,
\* confirmations, acknowledgements and deletions overlap.
THEOREM StagesDocumented == Spec => []StageDocumented
<1>1. IInv => StageDocumented
  BY DEF IInv, RowPart, Documented, StageDocumented
<1> QED
  BY <1>1, Inductive, PTL

\* Only a successful answer moves committed orders.
LEMMA OnlyCommits ==
  ASSUME [Next]_vars
  PROVE  \/ UNCHANGED <<db, issued>>
         \/ \E r \in Reqs : /\ Commit(r) /\ req' = Ended(r)
                           /\ req[r].at = "respond" /\ req[r].status < 400
<1>1. ASSUME NEW r \in Reqs, Begin(r) \/ Refuse(r) \/ CreateOrder(r) \/ NotifyOwners(r) \/ ReadOrder(r)
      PROVE  UNCHANGED <<db, issued>>
  BY <1>1 DEF Begin, Refuse, CreateOrder, NotifyOwners, ReadOrder
<1>2. ASSUME NEW r \in Reqs, SaveOrder(r) \/ DeleteOrder(r) \/ LockOrder(r)
      PROVE  UNCHANGED <<db, issued>>
  BY <1>2 DEF SaveOrder, DeleteOrder, LockOrder
<1>3. ASSUME NEW r \in Reqs, Close(r)
      PROVE  UNCHANGED <<db, issued>>
  BY <1>3 DEF Close, Rollback
<1>4. ASSUME NEW r \in Reqs, Finish(r)
      PROVE  \/ UNCHANGED <<db, issued>>
             \/ Commit(r) /\ req' = Ended(r) /\ req[r].at = "respond" /\ req[r].status < 400
  BY <1>4 DEF Finish, Rollback, At
<1>5. CASE UNCHANGED vars
  BY <1>5 DEF vars
<1> QED
  BY <1>1, <1>2, <1>3, <1>4, <1>5 DEF Next, HandlerStep

LEMMA CommittedMoves ==
  ASSUME [Next]_vars, NEW o \in Orders
  PROVE  db'[o] = db[o] \/ db'[o] = cur[o]
<1>1. ASSUME NEW r \in Reqs, Commit(r) PROVE db'[o] = db[o] \/ db'[o] = cur[o]
  BY <1>1 DEF Commit
<1> QED
  BY <1>1, OnlyCommits

\* Nothing an existing order has recorded is erased: the nulls that approve assigns
\* never reach a column that another handler has filled in the meantime.
THEOREM EvidenceStays == Spec => EvidenceKept
<1>1. IInv /\ [Next]_vars => [\A o \in Orders : Exists(db'[o]) => db[o].evidence \subseteq db'[o].evidence]_vars
  BY CommittedMoves DEF IInv, MovedPart, Moved
<1> QED
  BY <1>1, Inductive, PTL DEF Spec, EvidenceKept

\* Credit is issued only on a confirmed payment and a receipt only on issued credit,
\* even when a stale save sets the status back: issue-credit and mark-credited check
\* the status under the row lock.
THEOREM MoneyInOrder == Spec => MoneyStagesInOrder
<1>1. IInv /\ [Next]_vars =>
        [\A o \in Orders :
           db'[o].status # db[o].status =>
             /\ db'[o].status = "credited" => db[o].status = "awaiting_credit"
             /\ db'[o].status = "completed" => db[o].status = "credited"]_vars
  BY CommittedMoves DEF IInv, MovedPart, Moved
<1> QED
  BY <1>1, Inductive, PTL DEF Spec, MoneyStagesInOrder

(***************************************************************************)
(* Refinement, when no two requests overlap                                *)
(***************************************************************************)

Serial == \A r, s \in Reqs : r = s

\* What a request read is still so, and what it is about to commit is one stage.
OneStage(r) ==
  /\ req[r].at = "save" /\ req[r].op # "delete" => db[req[r].o].status = From[req[r].op]
  /\ \A o \in Orders :
       lock[o] = r /\ (req[r].at = "notify" \/ req[r].status < 400) =>
         \/ req[r].op = "create" /\ db[o].status = "unused" /\ cur[o].status = "pending"
         \/ req[r].op = "delete" /\ Exists(db[o]) /\ cur[o].status = "deleted"
         \/ /\ req[r].op \in DOMAIN From
            /\ db[o].status = From[req[r].op] /\ cur[o].status = To[req[r].op]

SInv == IInv /\ \A r \in Reqs : OneStage(r)

LEMMA InitSerial == Init => SInv
<1> SUFFICES ASSUME Init PROVE \A r \in Reqs : OneStage(r)
  BY InitInv DEF SInv
<1> QED
  BY NamesAssumption DEF Init, NoWork, OneStage

LEMMA StepSerial ==
  ASSUME Serial, SInv, [Next]_vars
  PROVE  SInv'
<1>1. IInv /\ IInv'
  BY StepInv DEF SInv
<1>2. CASE UNCHANGED vars
  BY <1>1, <1>2 DEF SInv, OneStage, vars
<1>3. ASSUME NEW r \in Reqs, Begin(r) \/ HandlerStep(r) \/ Close(r)
      PROVE  OneStage(r)'
  <2>1. req[r] \in Work /\ req[r].o \in Orders /\ r # NoReq
    BY <1>1, NamesAssumption DEF IInv, TypeOK, Work
  <2>2. req[r].at \notin {"notify", "respond"} => \A o \in Orders : lock[o] # r
    BY <1>1, OwnsNothing
  <2>3. OneStage(r)
    BY DEF SInv
  <2>4. CASE Begin(r)
    <3>1. req'[r].at # "save" /\ req'[r].at # "notify" /\ lock' = lock
      BY <1>1, <2>4 DEF Begin, IInv, TypeOK, Work, FirstPlace
    <3> QED
      BY <2>2, <2>4, <3>1 DEF Begin, At, OneStage
  <2>5. CASE Refuse(r)
    <3>1. req'[r].at = "respond" /\ lock' = lock
      BY <1>1, <2>5 DEF Refuse, Answer, IInv, TypeOK, Work
    <3> QED
      BY <2>2, <2>5, <3>1 DEF Refuse, At, OneStage
  <2>6. CASE CreateOrder(r)
    <3> DEFINE o == req[r].o
    <3>1. req[r].op = "create" /\ cur[o] = NoOrder /\ lock[o] = NoReq /\ db[o] = NoOrder
      BY <1>1, <2>1, <2>6 DEF CreateOrder, At, IInv, PlacePart, NewPart, OwnPart, NoOrder
    <3>2. /\ req'[r].at = "notify" /\ req'[r].op = "create"
          /\ cur'[o].status = "pending" /\ db' = db
          /\ \A x \in Orders : x # o => lock'[x] # r
      BY <1>1, <2>1, <2>2, <2>6, <3>1 DEF CreateOrder, Goto, At, IInv, TypeOK, Work
    <3> QED
      BY <3>1, <3>2 DEF OneStage, NoOrder
  <2>7. CASE NotifyOwners(r)
    <3>1. /\ req'[r].at = "respond" /\ req'[r].op = req[r].op /\ req[r].at = "notify"
          /\ UNCHANGED <<db, cur, lock>>
      BY <1>1, <2>7 DEF NotifyOwners, Answer, At, IInv, TypeOK, Work
    <3> QED
      BY <2>3, <3>1 DEF OneStage
  <2>8. CASE ReadOrder(r)
    <3>1. \A o \in Orders : lock'[o] # r
      BY <2>2, <2>8 DEF ReadOrder, At
    <3>2. CASE req' = Answer(r, 404) \/ req' = Answer(r, 400)
      BY <1>1, <3>1, <3>2 DEF OneStage, Answer, IInv, TypeOK, Work
    <3>3. CASE /\ req[r].op = "delete" \/ db[req[r].o].status = From[req[r].op]
               /\ req' = [req EXCEPT ![r].seen = db[req[r].o], ![r].at = "save"]
      <4>1. req'[r].op = req[r].op /\ req'[r].o = req[r].o /\ db' = db
        BY <1>1, <2>8, <3>3 DEF ReadOrder, IInv, TypeOK, Work
      <4> QED
        BY <3>1, <3>3, <4>1 DEF OneStage
    <3> QED
      BY <2>8, <3>2, <3>3 DEF ReadOrder
  <2>9. CASE SaveOrder(r) \/ DeleteOrder(r) \/ LockOrder(r)
    <3> DEFINE o == req[r].o
    <3>1. /\ req'[r].at = "respond" /\ req'[r].op = req[r].op /\ db' = db
          /\ \A x \in Orders : x # o => lock'[x] # r
      BY <1>1, <2>1, <2>2, <2>9
         DEF SaveOrder, DeleteOrder, LockOrder, Answer, At, IInv, TypeOK, Work
    <3>2. CASE lock'[o] # r
      BY <3>1, <3>2 DEF OneStage
    <3>3. CASE lock'[o] = r /\ SaveOrder(r)
      <4>1. req[r].at = "save" /\ req[r].op # "delete" /\ cur' = [cur EXCEPT ![o] = Stored(r, @.evidence)]
        BY <2>1, <2>2, <3>3 DEF SaveOrder, At
      <4>2. req[r].op \in DOMAIN From /\ db[o].status = From[req[r].op]
        BY <1>1, <2>3, <4>1 DEF OneStage, IInv, PlacePart, From, UnlockedOps
      <4>3. cur'[o].status = To[req[r].op]
        BY <1>1, <2>1, <4>1 DEF Stored, IInv, TypeOK
      <4> QED
        BY <3>1, <4>2, <4>3 DEF OneStage
    <3>4. CASE lock'[o] = r /\ DeleteOrder(r)
      <4>1. req[r].op = "delete" /\ Exists(db[o]) /\ cur' = [cur EXCEPT ![o] = Gone]
        BY <2>1, <2>2, <3>4 DEF DeleteOrder, At
      <4>2. cur'[o].status = "deleted"
        BY <1>1, <2>1, <4>1 DEF Gone, IInv, TypeOK
      <4> QED
        BY <3>1, <4>1, <4>2 DEF OneStage
    <3>5. CASE lock'[o] = r /\ LockOrder(r)
      <4>1. CASE \E status \in {400, 403} : req' = Answer(r, status)
        <5>1. req'[r].status \in {400, 403}
          BY <1>1, <2>1, <4>1 DEF Answer, IInv, TypeOK, Work
        <5> QED
          BY <3>1, <5>1 DEF OneStage
      <4>2. CASE /\ db[o].status = From[req[r].op]
                 /\ cur' = [cur EXCEPT ![o] = Stored(r, @.evidence)]
        <5>1. req[r].op \in DOMAIN From
          BY <1>1, <3>5 DEF LockOrder, At, IInv, PlacePart, From, LockedOps
        <5>2. cur'[o].status = To[req[r].op]
          BY <1>1, <2>1, <4>2 DEF Stored, IInv, TypeOK
        <5> QED
          BY <3>1, <4>2, <5>1, <5>2 DEF OneStage
      <4> QED
        BY <2>1, <2>2, <3>5, <4>1, <4>2 DEF LockOrder, At
    <3> QED
      BY <2>9, <3>2, <3>3, <3>4, <3>5
  <2>10. CASE Finish(r) \/ Close(r)
    <3>1. req'[r].at = "idle" /\ \A o \in Orders : lock'[o] # r
      BY <1>1, <2>1, <2>10 DEF Finish, Close, Ended, NoWork, Release, IInv, TypeOK
    <3> QED
      BY <3>1 DEF OneStage
  <2> QED
    BY <1>3, <2>4, <2>5, <2>6, <2>7, <2>8, <2>9, <2>10 DEF HandlerStep
<1>4. CASE \E r \in Reqs : Begin(r) \/ HandlerStep(r) \/ Close(r)
  BY <1>1, <1>3, <1>4 DEF SInv, Serial
<1> QED
  BY <1>2, <1>4 DEF Next

LEMMA StepImplements ==
  ASSUME Serial, SInv, [Next]_vars
  PROVE  [Life!Next]_<<Status, issued>>
<1>1. CASE UNCHANGED <<db, issued>>
  BY <1>1 DEF Status
<1>2. ASSUME NEW r \in Reqs, Commit(r), req[r].at = "respond", req[r].status < 400
      PROVE  [Life!Next]_<<Status, issued>>
  <2>1. IInv /\ OneStage(r)
    BY DEF SInv
  <2>2. CASE \A o \in Orders : lock[o] # r
    <3>1. db' = db /\ issued' = issued
      BY <1>2, <2>1, <2>2 DEF Commit, Owns, IInv, TypeOK
    <3> QED
      BY <3>1 DEF Status
  <2>3. ASSUME NEW o \in Orders, lock[o] = r PROVE Life!Next
    <3> DEFINE op == req[r].op
    <3>1. \A x \in Orders : lock[x] = r => x = o
      BY <2>1, <2>3, NamesAssumption DEF IInv, OwnPart
    <3>2. Status' = [Status EXCEPT ![o] = cur[o].status]
      BY <1>2, <2>3, <3>1 DEF Status, Commit
    <3>3. issued' = IF op = "issue" THEN [issued EXCEPT ![o] = @ + 1] ELSE issued
      <4>1. issued \in [Orders -> Nat]
        BY <2>1 DEF IInv, TypeOK
      <4>2. CASE op = "issue"
        <5>1. \A x \in Orders : issued'[x] = IF x = o THEN issued[o] + 1 ELSE issued[x]
          BY <1>2, <2>3, <3>1, <4>1, <4>2 DEF Commit, Owns
        <5> QED
          BY <1>2, <4>1, <4>2, <5>1 DEF Commit
      <4>3. CASE op # "issue"
        <5>1. \A x \in Orders : issued'[x] = issued[x]
          BY <1>2, <4>1, <4>3 DEF Commit
        <5> QED
          BY <1>2, <4>1, <4>3, <5>1 DEF Commit
      <4> QED
        BY <4>2, <4>3
    <3>4. Status[o] = db[o].status /\ Status'[o] = cur[o].status
      BY <3>2 DEF Status
    <3>5. CASE op = "create" /\ db[o].status = "unused" /\ cur[o].status = "pending"
      <4>1. Life!Advance(o)
        BY <3>2, <3>3, <3>4, <3>5 DEF Life!Advance, Life!After
      <4> QED
        BY <4>1 DEF Life!Next
    <3>6. CASE op = "delete" /\ Exists(db[o]) /\ cur[o].status = "deleted"
      <4>1. Life!Delete(o)
        BY <3>2, <3>3, <3>4, <3>6 DEF Life!Delete, Exists
      <4> QED
        BY <4>1 DEF Life!Next
    <3>7. CASE op \in DOMAIN From /\ db[o].status = From[op] /\ cur[o].status = To[op]
      <4>1. Life!Advance(o)
        <5>1. /\ db[o].status \in DOMAIN Life!After /\ cur[o].status = Life!After[db[o].status]
              /\ cur[o].status = "credited" <=> op = "issue"
          BY <3>7 DEF From, To, Life!After
        <5> QED
          BY <3>2, <3>3, <3>4, <5>1 DEF Life!Advance
      <4> QED
        BY <4>1 DEF Life!Next
    <3> QED
      BY <1>2, <2>1, <2>3, <3>5, <3>6, <3>7 DEF OneStage
  <2> QED
    BY <2>2, <2>3
<1> QED
  BY <1>1, <1>2, OnlyCommits

\* When requests do not overlap an order goes through the stages one by one, is
\* credited once and stays deleted: PurchaseOrder implements OrderLife.
THEOREM Implementation ==
  ASSUME Serial
  PROVE  Spec => ImplementsOrderLife
<1>1. Init => Life!Init
  BY DEF Init, Life!Init, Status, NoOrder
<1>2. SInv /\ [Next]_vars => SInv'
  BY StepSerial
<1>3. SInv /\ [Next]_vars => [Life!Next]_<<Status, issued>>
  BY StepImplements
<1> QED
  BY <1>1, <1>2, <1>3, InitSerial, PTL DEF Spec, ImplementsOrderLife, Life!Spec, Life!vars

(***************************************************************************)
(* Refinement, however many requests overlap                               *)
(***************************************************************************)

\* What a request is about to commit is one stage, if what it read is still so.
FreshStage(r) ==
  \A o \in Orders :
    lock[o] = r /\ (req[r].at = "notify" \/ req[r].status < 400) /\ Fresh(r) =>
      \/ req[r].op = "create" /\ db[o].status = "unused" /\ cur[o].status = "pending"
      \/ req[r].op = "delete" /\ Exists(db[o]) /\ cur[o].status = "deleted"
      \/ /\ req[r].op \in DOMAIN From
         /\ db[o].status = From[req[r].op] /\ cur[o].status = To[req[r].op]

FInv == IInv /\ \A r \in Reqs : FreshStage(r)

LEMMA InitFresh == Init => FInv
<1> SUFFICES ASSUME Init PROVE \A r \in Reqs : FreshStage(r)
  BY InitInv DEF FInv
<1> QED
  BY NamesAssumption DEF Init, FreshStage

\* A request owns the row it writes until it ends, so the others leave it alone.
LEMMA OthersFresh ==
  ASSUME FInv, IInv', NEW r \in Reqs, NEW s \in Reqs, s # r,
         Begin(s) \/ HandlerStep(s) \/ Close(s)
  PROVE  FreshStage(r)'
<1>1. /\ req'[r] = req[r]
      /\ \A o \in Orders : lock'[o] = r => lock[o] = r
      /\ \A o \in Orders : lock[o] = r => cur'[o] = cur[o] /\ db'[o] = db[o]
  <2>1. s # NoReq /\ r # NoReq /\ req[s].o \in Orders
    BY NamesAssumption DEF FInv, IInv, TypeOK, Work
  <2>2. CASE Begin(s) \/ Refuse(s) \/ NotifyOwners(s) \/ ReadOrder(s)
    <3>1. UNCHANGED <<db, cur, lock>>
      BY <2>2 DEF Begin, Refuse, NotifyOwners, ReadOrder
    <3>2. CASE Begin(s)
      BY <3>2 DEF Begin, FInv, IInv, TypeOK
    <3>3. CASE Refuse(s) \/ NotifyOwners(s)
      BY <3>3 DEF Refuse, NotifyOwners, Answer, FInv, IInv, TypeOK
    <3>4. CASE ReadOrder(s)
      BY <3>4 DEF ReadOrder, Answer, FInv, IInv, TypeOK
    <3> QED
      BY <2>2, <3>1, <3>2, <3>3, <3>4, ZenonT(60)
  <2>3. CASE CreateOrder(s)
    <3>1. cur[req[s].o] = NoOrder /\ lock[req[s].o] = NoReq
      BY <2>1, <2>3 DEF CreateOrder, At, FInv, IInv, NewPart, OwnPart, NoOrder
    <3> QED
      BY <2>1, <2>3, <3>1 DEF CreateOrder, Goto, FInv, IInv, TypeOK
  <2>4. CASE SaveOrder(s) \/ DeleteOrder(s) \/ LockOrder(s)
    BY <2>1, <2>4 DEF SaveOrder, DeleteOrder, LockOrder, Answer, FInv, IInv, TypeOK
  <2>5. CASE Finish(s) \/ Close(s)
    <3>1. req'[r] = req[r]
      BY <2>5 DEF Finish, Close, Ended, FInv, IInv, TypeOK
    <3>2. \A o \in Orders : lock'[o] = r => lock[o] = r
      BY <2>1, <2>5 DEF Finish, Close, Release, FInv, IInv, TypeOK
    <3>3. Commit(s) \/ Rollback(s)
      BY <2>5 DEF Finish, Close
    <3>4. \A o \in Orders : lock[o] = r => cur'[o] = cur[o] /\ db'[o] = db[o]
      BY <3>3 DEF Commit, Rollback
    <3> QED
      BY <3>1, <3>2, <3>4
  <2> QED
    BY <2>2, <2>3, <2>4, <2>5 DEF HandlerStep
<1>2. ASSUME NEW o \in Orders, lock'[o] = r, Fresh(r)'
      PROVE  Fresh(r)
  <2>1. lock[o] = r /\ req[r].o = o
    BY <1>1, <1>2, NamesAssumption DEF FInv, IInv, OwnPart
  <2> QED
    BY <1>1, <1>2, <2>1 DEF Fresh
<1> QED
  BY <1>1, <1>2 DEF FreshStage, FInv

LEMMA StepFresh ==
  ASSUME FInv, [Next]_vars
  PROVE  FInv'
<1>1. IInv /\ IInv'
  BY StepInv DEF FInv
<1>2. CASE UNCHANGED vars
  BY <1>1, <1>2 DEF FInv, FreshStage, Fresh, vars
<1>3. ASSUME NEW r \in Reqs, Begin(r) \/ HandlerStep(r) \/ Close(r)
      PROVE  FreshStage(r)'
  <2>1. req[r] \in Work /\ req[r].o \in Orders /\ r # NoReq
    BY <1>1, NamesAssumption DEF IInv, TypeOK, Work
  <2>2. req[r].at \notin {"notify", "respond"} => \A o \in Orders : lock[o] # r
    BY <1>1, OwnsNothing
  <2>3. FreshStage(r)
    BY DEF FInv
  <2>4. CASE Begin(r) \/ Refuse(r) \/ ReadOrder(r)
    <3>1. lock' = lock /\ req[r].at \notin {"notify", "respond"}
      BY <2>4 DEF Begin, Refuse, ReadOrder, At
    <3> QED
      BY <2>2, <3>1 DEF FreshStage
  <2>5. CASE CreateOrder(r)
    <3> DEFINE o == req[r].o
    <3>1. req[r].op = "create" /\ cur[o] = NoOrder /\ lock[o] = NoReq /\ db[o] = NoOrder
      BY <1>1, <2>1, <2>5 DEF CreateOrder, At, IInv, PlacePart, NewPart, OwnPart, NoOrder
    <3>2. /\ req'[r].op = "create" /\ cur'[o].status = "pending" /\ db' = db
          /\ \A x \in Orders : x # o => lock'[x] # r
      BY <1>1, <2>1, <2>2, <2>5, <3>1 DEF CreateOrder, Goto, At, IInv, TypeOK, Work
    <3> QED
      BY <3>1, <3>2 DEF FreshStage, NoOrder
  <2>6. CASE NotifyOwners(r)
    <3>1. /\ req'[r].op = req[r].op /\ req[r].at = "notify"
          /\ req'[r].seen = req[r].seen /\ req'[r].o = req[r].o
          /\ UNCHANGED <<db, cur, lock>>
      BY <1>1, <2>6 DEF NotifyOwners, Answer, At, IInv, TypeOK, Work
    <3> QED
      BY <2>3, <3>1 DEF FreshStage, Fresh
  <2>7. CASE SaveOrder(r) \/ DeleteOrder(r) \/ LockOrder(r)
    <3> DEFINE o == req[r].o
    <3>1. /\ req'[r].op = req[r].op /\ req'[r].o = o /\ req'[r].seen = req[r].seen
          /\ req'[r].at = "respond" /\ db' = db
          /\ \A x \in Orders : x # o => lock'[x] # r
      BY <1>1, <2>1, <2>2, <2>7
         DEF SaveOrder, DeleteOrder, LockOrder, Answer, At, IInv, TypeOK, Work
    <3>2. CASE lock'[o] # r
      BY <3>1, <3>2 DEF FreshStage
    <3>3. CASE lock'[o] = r /\ SaveOrder(r)
      <4>1. /\ req[r].at = "save" /\ req[r].op # "delete"
            /\ cur' = [cur EXCEPT ![o] = Stored(r, @.evidence)]
        BY <2>1, <2>2, <3>3 DEF SaveOrder, At
      <4>2. req[r].op \in UnlockedOps /\ req[r].seen.status = From[req[r].op]
        BY <1>1, <4>1 DEF IInv, PlacePart, SeenPart
      <4>3. req[r].op \in DOMAIN From /\ cur'[o].status = To[req[r].op]
        BY <1>1, <2>1, <4>1, <4>2 DEF Stored, IInv, TypeOK, From, UnlockedOps
      <4>4. Fresh(r)' => db'[o].status = From[req[r].op]
        BY <3>1, <4>2 DEF Fresh
      <4> QED
        BY <3>1, <4>3, <4>4 DEF FreshStage
    <3>4. CASE lock'[o] = r /\ DeleteOrder(r)
      <4>1. req[r].op = "delete" /\ Exists(db[o]) /\ cur' = [cur EXCEPT ![o] = Gone]
        BY <2>1, <2>2, <3>4 DEF DeleteOrder, At
      <4>2. cur'[o].status = "deleted"
        BY <1>1, <2>1, <4>1 DEF Gone, IInv, TypeOK
      <4> QED
        BY <3>1, <4>1, <4>2 DEF FreshStage
    <3>5. CASE lock'[o] = r /\ LockOrder(r)
      <4>1. CASE \E status \in {400, 403} : req' = Answer(r, status)
        <5>1. req'[r].status \in {400, 403}
          BY <1>1, <2>1, <4>1 DEF Answer, IInv, TypeOK, Work
        <5> QED
          BY <3>1, <5>1 DEF FreshStage
      <4>2. CASE /\ db[o].status = From[req[r].op]
                 /\ cur' = [cur EXCEPT ![o] = Stored(r, @.evidence)]
        <5>1. req[r].op \in DOMAIN From
          BY <1>1, <3>5 DEF LockOrder, At, IInv, PlacePart, From, LockedOps
        <5>2. cur'[o].status = To[req[r].op]
          BY <1>1, <2>1, <4>2 DEF Stored, IInv, TypeOK
        <5> QED
          BY <3>1, <4>2, <5>1, <5>2 DEF FreshStage
      <4> QED
        BY <2>1, <2>2, <3>5, <4>1, <4>2 DEF LockOrder, At
    <3> QED
      BY <2>7, <3>2, <3>3, <3>4, <3>5
  <2>8. CASE Finish(r) \/ Close(r)
    <3>1. \A o \in Orders : lock'[o] # r
      BY <1>1, <2>1, <2>8 DEF Finish, Close, Release, IInv, TypeOK
    <3> QED
      BY <3>1 DEF FreshStage
  <2> QED
    BY <1>3, <2>4, <2>5, <2>6, <2>7, <2>8 DEF HandlerStep
<1>4. ASSUME NEW s \in Reqs, Begin(s) \/ HandlerStep(s) \/ Close(s)
      PROVE  FInv'
  BY <1>1, <1>3, <1>4, OthersFresh DEF FInv
<1> QED
  BY <1>2, <1>4 DEF Next

LEMMA FreshImplements ==
  ASSUME FInv, [Next]_vars, \A r \in Reqs : req'[r] # req[r] => Fresh(r)
  PROVE  [Life!Next]_<<Status, issued>>
<1>1. CASE UNCHANGED <<db, issued>>
  BY <1>1 DEF Status
<1>2. ASSUME NEW r \in Reqs, Commit(r), req' = Ended(r), req[r].at = "respond", req[r].status < 400,
             ~ UNCHANGED <<db, issued>>
      PROVE  Life!Next
  <2>1. IInv /\ FreshStage(r)
    BY DEF FInv
  <2>2. PICK o \in Orders : lock[o] = r
    <3>1. CASE \A o \in Orders : lock[o] # r
      BY <1>2, <2>1, <3>1 DEF Commit, Owns, IInv, TypeOK
    <3> QED
      BY <3>1
  <2> DEFINE op == req[r].op
  <2>3. \A x \in Orders : lock[x] = r => x = o
    BY <2>1, <2>2, NamesAssumption DEF IInv, OwnPart
  <2>4. Fresh(r)
    <3>1. req'[r] = NoWork
      BY <1>2, <2>1 DEF Ended, IInv, TypeOK
    <3>2. req[r] # NoWork
      BY <1>2 DEF NoWork
    <3> QED
      BY <3>1, <3>2
  <2>5. Status' = [Status EXCEPT ![o] = cur[o].status]
    BY <1>2, <2>2, <2>3 DEF Status, Commit
  <2>6. issued' = IF op = "issue" THEN [issued EXCEPT ![o] = @ + 1] ELSE issued
    <3>1. issued \in [Orders -> Nat]
      BY <2>1 DEF IInv, TypeOK
    <3>2. CASE op = "issue"
      <4>1. \A x \in Orders : issued'[x] = IF x = o THEN issued[o] + 1 ELSE issued[x]
        BY <1>2, <2>2, <2>3, <3>1, <3>2 DEF Commit, Owns
      <4> QED
        BY <1>2, <3>1, <3>2, <4>1 DEF Commit
    <3>3. CASE op # "issue"
      <4>1. \A x \in Orders : issued'[x] = issued[x]
        BY <1>2, <3>1, <3>3 DEF Commit
      <4> QED
        BY <1>2, <3>1, <3>3, <4>1 DEF Commit
    <3> QED
      BY <3>2, <3>3
  <2>7. Status[o] = db[o].status /\ Status'[o] = cur[o].status
    BY <2>5 DEF Status
  <2>8. CASE op = "create" /\ db[o].status = "unused" /\ cur[o].status = "pending"
    <3>1. Life!Advance(o)
      BY <2>5, <2>6, <2>7, <2>8 DEF Life!Advance, Life!After
    <3> QED
      BY <3>1 DEF Life!Next
  <2>9. CASE op = "delete" /\ Exists(db[o]) /\ cur[o].status = "deleted"
    <3>1. Life!Delete(o)
      BY <2>5, <2>6, <2>7, <2>9 DEF Life!Delete, Exists
    <3> QED
      BY <3>1 DEF Life!Next
  <2>10. CASE op \in DOMAIN From /\ db[o].status = From[op] /\ cur[o].status = To[op]
    <3>1. Life!Advance(o)
      <4>1. /\ db[o].status \in DOMAIN Life!After /\ cur[o].status = Life!After[db[o].status]
            /\ cur[o].status = "credited" <=> op = "issue"
        BY <2>10 DEF From, To, Life!After
      <4> QED
        BY <2>5, <2>6, <2>7, <4>1 DEF Life!Advance
    <3> QED
      BY <3>1 DEF Life!Next
  <2> QED
    BY <1>2, <2>1, <2>2, <2>4, <2>8, <2>9, <2>10 DEF FreshStage
<1> QED
  BY <1>1, <1>2, OnlyCommits

\* However many requests overlap, a commit of a handler whose order has not changed
\* since it was read is one step of OrderLife; only a stale save leaves its stages.
THEOREM FreshFollowsLife == Spec => FreshCommitsFollowLife
<1>1. Init => Life!Init
  BY DEF Init, Life!Init, Status, NoOrder
<1>2. FInv /\ [Next]_vars => FInv'
  BY StepFresh
<1>3. FInv /\ [Next]_vars =>
        [(\A r \in Reqs : req'[r] # req[r] => Fresh(r)) => Life!Next]_<<Status, issued>>
  BY FreshImplements
<1> QED
  BY <1>1, <1>2, <1>3, InitFresh, PTL DEF Spec, FreshCommitsFollowLife
=============================================================================
