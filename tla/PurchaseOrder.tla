---------------------------- MODULE PurchaseOrder ----------------------------
(***************************************************************************)
(* The purchase orders of a tenant (routes/purchaseOrders.js): six stages, *)
(* each moved by one handler.  A request is one Postgres transaction at    *)
(* READ COMMITTED that commits after a response below 400.  approve,       *)
(* confirm-payment, acknowledge and delete read the order without a lock,  *)
(* check its status and write later; issue-credit and mark-credited read   *)
(* it FOR UPDATE.                                                          *)
(*                                                                         *)
(* The columns that document a stage are a set, `evidence`.  The message   *)
(* thread, the e-mails and the inbox are left out but for their failures.  *)
(***************************************************************************)
EXTENDS Naturals

CONSTANTS
  Orders,      \* order ids
  Anyone,      \* the order named by a free request slot
  Reqs,        \* request slots: as many requests may overlap
  NoReq,       \* owner of a free row
  MaxIssued    \* bound: no request arrives once an order was credited so often

UnlockedOps == {"approve", "confirm", "acknowledge", "delete"}
LockedOps == {"issue", "finalize"}
Ops == {"create"} \cup UnlockedOps \cup LockedOps

ASSUME NamesAssumption == NoReq \notin Reqs /\ Anyone \in Orders
ASSUME BoundAssumption == MaxIssued \in Nat

VARIABLES
  db,       \* the committed rows
  cur,      \* the newest version of each row
  lock,     \* the transaction that owns each row
  req,      \* per request: its place in the handler and what it has read
  issued    \* how often issue-credit was committed for each order

vars == <<db, cur, lock, req, issued>>

Stages == {"pending", "approved", "awaiting_credit", "credited", "completed", "acknowledged"}
\* ownerApprovedAt and ownerBtcAddress; paymentConfirmedAt, confirmationCode and the
\* provider; ownerCreditedAt and creditedAmountCents; receiptCode and receiptIssuedAt;
\* agentAcknowledgedAt.
Evidence == {"approval", "payment", "credit", "receipt", "acknowledgement"}

OrderRow == [status : Stages \cup {"unused", "deleted"}, evidence : SUBSET Evidence]
NoOrder == [status |-> "unused", evidence |-> {}]
Gone == [status |-> "deleted", evidence |-> {}]

\* The stage each handler asks for, the one it sets, and what it records with it.
From == [approve |-> "pending", confirm |-> "approved", issue |-> "awaiting_credit",
         finalize |-> "credited", acknowledge |-> "completed"]
To == [approve |-> "approved", confirm |-> "awaiting_credit", issue |-> "credited",
       finalize |-> "completed", acknowledge |-> "acknowledged"]
Records == [approve |-> {"approval"}, confirm |-> {"payment"}, issue |-> {"credit"},
            finalize |-> {"receipt"}, acknowledge |-> {"acknowledgement"}]
\* What the two locked handlers want to see recorded beside the status.
Wants == [issue |-> {"payment"}, finalize |-> {"payment", "credit"}]

\* After a failed statement Postgres refuses everything but a rollback.
TxStates == {"open", "aborted"}
Places == {"idle", "insert", "notify", "read", "save", "lock", "respond"}
NoWork == [at |-> "idle", op |-> "create", o |-> Anyone, seen |-> NoOrder,
           status |-> 0, tx |-> "open"]

Init ==
  /\ db = [o \in Orders |-> NoOrder]
  /\ cur = db
  /\ lock = [o \in Orders |-> NoReq]
  /\ req = [r \in Reqs |-> NoWork]
  /\ issued = [o \in Orders |-> 0]

At(r, place) == req[r].at = place
Running(r) == req[r].at # "idle"
Exists(row) == row.status \notin {"unused", "deleted"}

Goto(r, place) == [req EXCEPT ![r].at = place]
Answer(r, status) == [req EXCEPT ![r].at = "respond", ![r].status = status]

FirstPlace(op) ==
  CASE op = "create" -> "insert"
    [] op \in LockedOps -> "lock"
    [] OTHER -> "read"

\* The id a new order will get is nobody's yet.
NewId(o) ==
  /\ cur[o] = NoOrder
  /\ \A s \in Reqs : req[s].op = "create" /\ Running(s) => req[s].o # o

\* staffAuth, requirePermission and enforcePurchaseOrdersEnabled let the request in.
Begin(r) ==
  /\ At(r, "idle")
  /\ \A o \in Orders : issued[o] < MaxIssued
  /\ \E op \in Ops, o \in Orders :
       /\ op = "create" => NewId(o)
       /\ req' = [req EXCEPT ![r].op = op, ![r].o = o, ![r].at = FirstPlace(op)]
  /\ UNCHANGED <<db, cur, lock, issued>>

\* Every handler may refuse what it was sent: the role, the verification flag, the
\* amount, the wallet provider or the requester.  The locked handlers do so below.
Refuse(r) ==
  /\ At(r, "insert") \/ At(r, "read")
  /\ \E status \in {400, 403} : req' = Answer(r, status)
  /\ UNCHANGED <<db, cur, lock, issued>>

\* PurchaseOrder.create under a new id, with its first message.
CreateOrder(r) ==
  /\ At(r, "insert")
  /\ lock' = [lock EXCEPT ![req[r].o] = r]
  /\ cur' = [cur EXCEPT ![req[r].o] = [status |-> "pending", evidence |-> {}]]
  /\ req' = Goto(r, "notify")
  /\ UNCHANGED <<db, issued>>

\* The owners' inbox rows and push: a failed statement is caught and logged, and
\* the answer is 201 all the same, but Postgres has given the transaction up.
NotifyOwners(r) ==
  /\ At(r, "notify")
  /\ \E tx \in TxStates : req' = [Answer(r, 201) EXCEPT ![r].tx = tx]
  /\ UNCHANGED <<db, cur, lock, issued>>

\* findByPk without a lock, then the status check of the handler.
ReadOrder(r) ==
  /\ At(r, "read")
  /\ LET row == db[req[r].o] IN
     req' = CASE ~Exists(row) -> Answer(r, 404)
              [] Exists(row) /\ req[r].op # "delete" /\ row.status # From[req[r].op] -> Answer(r, 400)
              [] OTHER -> [req EXCEPT ![r].seen = row, ![r].at = "save"]
  /\ UNCHANGED <<db, cur, lock, issued>>

\* Seeded bug: approve clears the later columns whether or not they were set.
StoredAllColumns(r, old) ==
  [status |-> To[req[r].op],
   evidence |-> (IF req[r].op = "approve" THEN {} ELSE old) \cup Records[req[r].op]]

\* order.save(): the columns the handler assigned a new value.  approve assigns null
\* to the later columns, which changes only those it saw set.
Stored(r, old) ==
  [status |-> To[req[r].op],
   evidence |-> (old \ (IF req[r].op = "approve" THEN req[r].seen.evidence ELSE {}))
                  \cup Records[req[r].op]]

\* UPDATE by primary key, whatever the status has become, and a message.  If the
\* order is gone the update finds nothing and the message's foreign key fails.
SaveOrder(r) ==
  /\ At(r, "save") /\ req[r].op # "delete"
  /\ LET o == req[r].o IN
     /\ lock[o] = NoReq
     /\ \/ /\ Exists(db[o])
           /\ lock' = [lock EXCEPT ![o] = r]
           /\ cur' = [cur EXCEPT ![o] = Stored(r, @.evidence)]
           /\ req' = Answer(r, 200)
        \/ /\ ~Exists(db[o])
           /\ req' = Answer(r, 500)
           /\ UNCHANGED <<cur, lock>>
  /\ UNCHANGED <<db, issued>>

\* DELETE by primary key, which is content to find nothing.
DeleteOrder(r) ==
  /\ At(r, "save") /\ req[r].op = "delete"
  /\ LET o == req[r].o IN
     /\ lock[o] = NoReq
     /\ IF Exists(db[o])
        THEN /\ lock' = [lock EXCEPT ![o] = r]
             /\ cur' = [cur EXCEPT ![o] = Gone]
        ELSE UNCHANGED <<cur, lock>>
  /\ req' = Answer(r, 200)
  /\ UNCHANGED <<db, issued>>

\* Seeded bug: issue-credit and mark-credited do not ask for the status.
LockOrderAnyStatus(r) ==
  /\ At(r, "lock")
  /\ LET o == req[r].o IN
     /\ lock[o] = NoReq /\ Exists(db[o])
     /\ lock' = [lock EXCEPT ![o] = r]
     /\ cur' = [cur EXCEPT ![o] = Stored(r, @.evidence)]
     /\ req' = Answer(r, 200)
  /\ UNCHANGED <<db, issued>>

\* issue-credit and mark-credited: FOR UPDATE finds nothing, or the order under a
\* lock that a refusal keeps until the answer; then the checks and the write.
LockOrder(r) ==
  /\ At(r, "lock")
  /\ LET o == req[r].o
         row == db[o] IN
     \/ /\ ~Exists(row)
        /\ req' = Answer(r, 404)
        /\ UNCHANGED <<cur, lock>>
     \/ /\ Exists(row) /\ lock[o] = NoReq
        /\ lock' = [lock EXCEPT ![o] = r]
        /\ \/ /\ \E status \in {400, 403} : req' = Answer(r, status)
              /\ UNCHANGED cur
           \/ /\ row.status = From[req[r].op] /\ Wants[req[r].op] \subseteq row.evidence
              /\ cur' = [cur EXCEPT ![o] = Stored(r, @.evidence)]
              /\ req' = Answer(r, 200)
  /\ UNCHANGED <<db, issued>>

-----------------------------------------------------------------------------
(* The end of a request *)

Owns(r) == {o \in Orders : lock[o] = r}
Ended(r) == [req EXCEPT ![r] = NoWork]

Release(r) == lock' = [o \in Orders |-> IF lock[o] = r THEN NoReq ELSE lock[o]]

Commit(r) ==
  /\ db' = [o \in Orders |-> IF lock[o] = r THEN cur[o] ELSE db[o]]
  /\ issued' = [o \in Orders |->
                  issued[o] + IF o \in Owns(r) /\ req[r].op = "issue" THEN 1 ELSE 0]
  /\ UNCHANGED cur

Rollback(r) ==
  /\ cur' = [o \in Orders |-> IF lock[o] = r THEN db[o] ELSE cur[o]]
  /\ UNCHANGED <<db, issued>>

\* attachLifecycle; COMMIT of a transaction Postgres has given up is a rollback.
Finish(r) ==
  /\ At(r, "respond")
  /\ IF req[r].status < 400 /\ req[r].tx = "open" THEN Commit(r) ELSE Rollback(r)
  /\ Release(r)
  /\ req' = Ended(r)

\* The connection closes first, or a statement fails and the answer is 500.
Close(r) ==
  /\ Running(r)
  /\ Rollback(r)
  /\ Release(r)
  /\ req' = Ended(r)

HandlerStep(r) ==
  \/ Refuse(r) \/ CreateOrder(r) \/ NotifyOwners(r) \/ ReadOrder(r)
  \/ SaveOrder(r) \/ DeleteOrder(r) \/ LockOrder(r) \/ Finish(r)

Next == \E r \in Reqs : Begin(r) \/ HandlerStep(r) \/ Close(r)

Spec == Init /\ [][Next]_vars

-----------------------------------------------------------------------------
(* Properties *)

AnswerStatuses == {0, 200, 201, 400, 403, 404, 500}
Work == [at : Places, op : Ops, o : Orders, seen : OrderRow, status : AnswerStatuses, tx : TxStates]

\* The type invariant of the rows, their locks and the request records.
TypeOK ==
  /\ db \in [Orders -> OrderRow] /\ cur \in [Orders -> OrderRow]
  /\ lock \in [Orders -> Reqs \cup {NoReq}]
  /\ req \in [Reqs -> Work]
  /\ issued \in [Orders -> Nat]

\* The stage that follows each stage, by the comment at PurchaseOrder.js:27.
After ==
  [pending |-> "approved", approved |-> "awaiting_credit", awaiting_credit |-> "credited",
   credited |-> "completed", completed |-> "acknowledged", acknowledged |-> "acknowledged"]

\* What must have been recorded before each stage.
Required ==
  [unused |-> {}, deleted |-> {}, pending |-> {}, approved |-> {"approval"},
   awaiting_credit |-> {"approval", "payment"}, credited |-> {"approval", "payment", "credit"},
   completed |-> {"approval", "payment", "credit", "receipt"}, acknowledged |-> Evidence]

\* An order has the columns of every stage up to its own, however the handlers that
\* do not lock it overlap: a completed order has its payment, credit and receipt.
StageDocumented == \A o \in Orders : Required[db[o].status] \subseteq db[o].evidence

\* Nothing an order has recorded is erased again while it exists: a late approve
\* must not wipe a payment or a receipt (it assigns null, purchaseOrders.js:558-563).
EvidenceKept == [][\A o \in Orders : Exists(db'[o]) => db[o].evidence \subseteq db'[o].evidence]_vars

\* An order becomes credited only from awaiting_credit and completed only from
\* credited: these two handlers look at the status under the row lock.
MoneyStagesInOrder ==
  [][\A o \in Orders :
       db'[o].status # db[o].status =>
         /\ db'[o].status = "credited" => db[o].status = "awaiting_credit"
         /\ db'[o].status = "completed" => db[o].status = "credited"]_vars

\* PurchaseOrder.js:27-29: "pending -> approved (owner shared BTC address) ->
\* awaiting_credit (tenant confirmed Wasabi BTC send) -> credited (owner issued exact
\* requested credit amount) -> completed ... -> acknowledged": an order goes through
\* the stages in this order and never back.
StagesInOrder ==
  [][\A o \in Orders :
       Exists(db[o]) /\ Exists(db'[o]) /\ db'[o].status # db[o].status =>
         db'[o].status = After[db[o].status]]_vars

Status == [o \in Orders |-> db[o].status]
Life == INSTANCE OrderLife WITH status <- Status
\* One request at a time moves an order through the stages of OrderLife.
ImplementsOrderLife == Life!Spec

\* What a handler read without a lock is what is still committed.
Fresh(r) == req[r].op \in UnlockedOps => req[r].seen = db[req[r].o]

\* However many requests overlap, a commit by a handler whose order has not changed
\* since it read it is one step of OrderLife: staleness is the only way out of it.
FreshCommitsFollowLife ==
  Life!Init /\ [][(\A r \in Reqs : req'[r] # req[r] => Fresh(r)) => Life!Next]_<<Status, issued>>
=============================================================================
