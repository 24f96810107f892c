----------------------- MODULE BackOfficeCommits_proofs -----------------------
(***************************************************************************)
(* What a commit of BackOffice brings about, for any rows and number of    *)
(* requests: settings, audit records, deposits, that it leaves every       *)
(* tenant whole and nothing behind a tenant that is gone, that a wipe      *)
(* forgets no row, and that a second wallet takes a second request.        *)
(***************************************************************************)
EXTENDS BackOffice_proofs

\* Places at which a request has written nothing yet.
Early == {"auth", "load", "save", "check", "insertTenant", "lock", "confirm", "root", "password", "intent",
          "balance", "credit", "purse", "bet", "cashier", "find", "insert", "update", "destroy", "recipient",
          "upsert"}
HandsPart == \A r \in Reqs : req[r].at \in Early => \A y \in menu.rows : lock[y] # r

\* Rows that were there when the request arrived, or changed since.
SinceArrival(r) ==
  LET w == req[r] IN
  w.at # "idle" =>
    /\ \A y \in w.began : /\ y \in menu.rows /\ Cares(w.op, w.of, y) /\ Known(y)
                          /\ db[y].st = "live" \/ y \in w.moved
    /\ \A y \in menu.rows : Cares(w.op, w.of, y) /\ db[y].st = "live" => y \in w.began \cup w.moved
ArrivalPart == \A r \in Reqs : SinceArrival(r)

\* Settings that a request holds, or is about to save.
SettingsHeld(r) ==
  LET w == req[r] IN
  /\ w.at = "save" =>
       \A y \in Of("settings", w.of) : y[3] \in w.patched \/ w.seen[y[3]] = db[y].n \/ y \in w.moved
  /\ \A y \in menu.rows : y[1] = "settings" /\ lock[y] = r /\ cur[y].st = "live" =>
       cur[y].n = db[y].n \/ y[3] \in w.patched \/ y \in w.moved
SettingsPart == \A r \in Reqs : SettingsHeld(r)

\* Record y may name record n of its tenant.
Chained(r, y, n) ==
  /\ n # y[3]
  /\ n >= y[3] => <<"audit", y[2], n>> \in req[r].moved
  /\ \A z \in Of("audit", y[2]) \ {y} :
       db[z].st = "live" /\ db[z].n = n => z \in req[r].moved \/ n > z[3]
AuditHeld(r) ==
  LET w == req[r] IN
  /\ w.at = "stamped" => \A z \in Of("audit", w.of) : db[z].st = "live" /\ z[3] >= w.row[3] => z \in w.moved
  /\ w.at = "chain" => Chained(r, w.row, w.n)
  /\ \A y \in menu.rows : y[1] = "audit" /\ lock[y] = r => w.at = "respond" /\ y = w.row /\ Chained(r, y, cur[y].n)
AuditPart ==
  /\ \A r \in Reqs : AuditHeld(r)
  /\ \A y \in menu.rows : y[1] = "audit" => db[y].n # y[3]

\* A deposit that is being marked paid.
DepositHeld(r) ==
  LET w == req[r]
      i == One("intent", w.of)
      p == One("purse", w.of) IN
  w.at # "idle" /\ w.op = "markPaid" =>
    /\ w.at \in {"balance", "credit", "mark"} => i \in w.began
    /\ w.at = "credit" => w.n = db[p].n \/ p \in w.moved
    /\ lock[p] = r =>
         /\ i \in w.began
         /\ cur[p] = db[p] \/ cur[p].n = db[p].n + Amount \/ p \in w.moved
         /\ w.at = "mark" \/ (w.at = "respond" /\ (w.status >= 400 \/ (lock[i] = r /\ cur[i].st # "live")))
DepositPart ==
  /\ \A r \in Reqs : DepositHeld(r)
  /\ \A r \in Reqs : req[r].at # "idle" /\ req[r].op = "markPaid" /\ db[One("intent", req[r].of)].st = "live" =>
                       One("intent", req[r].of) \in req[r].began
  /\ \A y \in menu.rows : y[1] = "intent" /\ cur[y].st = "live" => db[y].st = "live"

\* A bet that is about to save the wallet it has read, or has done so.
BetHeld(r) ==
  LET w == req[r]
      p == One("purse", w.of) IN
  w.at # "idle" /\ w.op = "bet" =>
    /\ w.at = "bet" => w.n = db[p].n \/ p \in w.moved
    /\ lock[p] = r => w.at = "respond" /\ (cur[p].n - db[p].n \in {1, -1} \/ p \in w.moved)
BetPart == \A r \in Reqs : BetHeld(r)

-----------------------------------------------------------------------------
(* Steps, as request r sees them *)

Refused(r) == req[r].at = "respond" /\ req[r].status >= 400

\* Another request does something.
Stays(r) ==
  /\ menu' = menu
  /\ Alike(req'[r], req[r]) /\ req[r].moved \subseteq req'[r].moved
  /\ \A y \in menu.rows :
       /\ lock[y] = r <=> lock'[y] = r
       /\ lock[y] = r => cur'[y] = cur[y] /\ db'[y] = db[y]
       /\ db'[y] # db[y] => lock[y] \notin {r, NoReq} /\ db'[y] = cur[y]
       /\ db'[y] # db[y] /\ req[r].at # "idle" /\ Cares(req[r].op, req[r].of, y) => y \in req'[r].moved

\* r arrives.
Arrives(r) ==
  /\ menu' = menu /\ db' = db /\ cur' = cur /\ lock' = lock
  /\ req[r].at = "idle" /\ req'[r].at = "auth" /\ req'[r].n = 0
  /\ req'[r].moved = {} /\ req'[r].left = {}
  /\ req'[r].began = {y \in menu.rows : Cares(req'[r].op, req'[r].of, y) /\ db[y].st = "live"}
  /\ \A y \in menu.rows : lock[y] # r

\* r moves on.
Works(r) == HandlerActs(r) /\ Proper(r)

\* r commits or is rolled back: it holds nothing any more.
Over(r) ==
  /\ menu' = menu
  /\ \A y \in menu.rows : lock'[y] # r
  /\ \/ req'[r] = NoWork
     \/ db' = db /\ Refused(r)' /\ req[r].at # "idle" /\ Only(req'[r], req[r], {"at", "status"})

LEMMA IdleHolds == ASSUME IInv, NEW r \in Reqs, req[r].at \in {"idle", "auth"} PROVE \A y \in menu.rows : lock[y] # r
BY DEF IInv, RowsPart, Holds

LEMMA EndsOver == ASSUME IInv, NEW r \in Reqs, Commits(r) \/ Ends(r) PROVE Over(r)
<1>0. TypeOK /\ r # NoReq /\ menu' = menu
  BY NamesAssumption DEF IInv, Commits, Ends, Rollback
<1>1. \A y \in menu.rows : lock'[y] # r
  BY <1>0 DEF Commits, Ends, Rollback, Free
<1>2. CASE Commits(r)
  BY <1>0, <1>1, <1>2, NotedIs DEF Over, Commits
<1>3. CASE Ends(r)
  BY <1>0, <1>1, <1>3, EndsIs DEF Over, Rollback, Refused
<1> QED
  BY <1>2, <1>3

LEMMA StepsStay ==
  ASSUME IInv, NEW r \in Reqs, NEW q \in Reqs, q # r, Begin(q) \/ HandlerActs(q) \/ Commits(q) \/ Ends(q)
  PROVE  Stays(r)
<1>0. TypeOK /\ NoReq \notin Reqs /\ lock \in [menu.rows -> Reqs \cup {NoReq}]
  BY NamesAssumption DEF IInv, TypeOK
<1>1. CASE Begin(q)
  BY <1>0, <1>1, BeginIs DEF Stays, Alike
<1>2. CASE HandlerActs(q)
  <2>1. Proper(q)
    BY <1>2, HandlerActsProper
  <2>2. req'[r] = req[r] /\ Versions(q)
    BY <2>1 DEF Proper, Acts, Moves
  <2>3. \A y \in menu.rows : (cur'[y] = cur[y] /\ lock'[y] = lock[y]) \/ (lock'[y] = q /\ lock[y] \in {q, NoReq})
    BY <2>2 DEF Versions, Changed
  <2>4. db' = db /\ menu' = menu
    BY <2>2 DEF Versions
  <2> QED
    BY <1>0, <2>2, <2>3, <2>4 DEF Stays, Alike
<1>3. CASE Commits(q)
  <2>1. /\ Alike(req'[r], req[r])
        /\ req'[r].moved = IF Running(r) THEN req[r].moved \cup {y \in Writes(q) : Cares(req[r].op, req[r].of, y)}
                           ELSE req[r].moved
    BY <1>0, <1>3, NotedIs DEF Commits
  <2>2. /\ menu' = menu /\ cur' = cur
        /\ \A y \in menu.rows : /\ lock[y] = q => db'[y] = cur[y] /\ lock'[y] = NoReq
                                /\ lock[y] # q => db'[y] = db[y] /\ lock'[y] = lock[y]
    BY <1>0, <1>3 DEF Commits, Free
  <2>3. \A y \in menu.rows : db'[y] # db[y] => y \in Writes(q) /\ lock[y] = q
    BY <2>2 DEF Writes
  <2> QED
    BY <1>0, <2>1, <2>2, <2>3 DEF Stays, Running
<1>4. CASE Ends(q)
  <2>1. req'[r] = req[r] /\ Rollback(q)
    BY <1>0, <1>4, EndsIs
  <2>2. /\ menu' = menu /\ db' = db
        /\ \A y \in menu.rows : /\ lock[y] = q => lock'[y] = NoReq
                                /\ lock[y] # q => cur'[y] = cur[y] /\ lock'[y] = lock[y]
    BY <1>0, <2>1 DEF Rollback, Free
  <2> QED
    BY <1>0, <2>1, <2>2 DEF Stays, Alike
<1> QED
  BY <1>1, <1>2, <1>3, <1>4

\* What a step is to request r.
LEMMA Views ==
  ASSUME IInv, [Next]_vars, NEW r \in Reqs
  PROVE  IInv' /\ (Stays(r) \/ Arrives(r) \/ Works(r) \/ Over(r))
<1>1. IInv'
  BY Inductive
<1>2. CASE UNCHANGED vars
  <2>1. db' = db /\ cur' = cur /\ lock' = lock /\ req' = req /\ menu' = menu
    BY <1>2 DEF vars
  <2> QED
    BY <1>1, <2>1 DEF Stays, Alike
<1>3. ASSUME NEW q \in Reqs, Begin(q) \/ HandlerStep(q) \/ Close(q) \/ DeadlockVictim(q)
      PROVE  Stays(r) \/ Arrives(r) \/ Works(r) \/ Over(r)
  <2>1. Begin(q) \/ HandlerActs(q) \/ Commits(q) \/ Ends(q)
    BY <1>3, StepsOf
  <2>2. CASE q # r
    BY <2>1, <2>2, StepsStay
  <2>3. CASE q = r
    <3>1. CASE Begin(r)
      <4>1. /\ req[r].at = "idle" /\ db' = db /\ cur' = cur /\ lock' = lock /\ menu' = menu
            /\ req'[r].at = "auth" /\ req'[r].moved = {} /\ req'[r].n = 0 /\ req'[r].left = {}
            /\ req'[r].began = {y \in menu.rows : Cares(req'[r].op, req'[r].of, y) /\ db[y].st = "live"}
        BY <3>1, BeginIs DEF IInv
      <4>2. \A y \in menu.rows : lock[y] # r
        BY <4>1, IdleHolds
      <4> QED
        BY ONLY <4>1, <4>2, Zenon DEF Arrives
    <3>2. CASE HandlerActs(r)
      BY <3>2, HandlerActsProper DEF Works
    <3>3. CASE Commits(r) \/ Ends(r)
      BY <3>3, EndsOver
    <3> QED
      BY <2>1, <2>3, <3>1, <3>2, <3>3
  <2> QED
    BY <2>2, <2>3
<1> QED
  BY <1>1, <1>2, <1>3 DEF Next

\* A change of the committed rows is the commit of a request.
LEMMA Changes ==
  ASSUME IInv, [Next]_vars, db' # db
  PROVE  \E r \in Reqs : Commits(r) /\ req[r].status < 400 /\ req[r].at = "respond"
<1>1. PICK r \in Reqs : Begin(r) \/ HandlerStep(r) \/ Close(r) \/ DeadlockVictim(r)
  BY DEF Next, vars
<1>2. ~ Begin(r)
  BY Zenon DEF Begin, Kept
<1>3. ~ HandlerActs(r)
  BY HandlerActsProper DEF Proper, Acts, Versions
<1>4. ~ Ends(r)
  BY DEF Ends, Rollback
<1> QED
  BY <1>1, <1>2, <1>3, <1>4, StepsOf DEF At

-----------------------------------------------------------------------------
(* Places *)

\* Each step belongs to one place of its handler.
LEMMA PlaceOf ==
  ASSUME NEW r \in Reqs
  PROVE  /\ OwnerAuth(r) \/ StaffAuth(r) \/ NoAuth(r) => req[r].at = "auth"
         /\ Load(r) => req[r].at = "load"
         /\ Save(r) => req[r].at = "save"
         /\ CheckName(r) => req[r].at = "check"
         /\ InsertTenant(r) => req[r].at = "insertTenant"
         /\ Confirm(r) => req[r].at = "confirm"
         /\ NextTenant(r) \/ StartDelete(r) \/ WipeInsert(r) \/ StatementsDone(r) => req[r].at = "next"
         /\ LockTenant(r) => req[r].at = "lock"
         /\ SweepRow(r) => req[r].at = "sweep"
         /\ DropTenant(r) => req[r].at = "dropTenant"
         /\ FindRoot(r) => req[r].at = "root"
         /\ SavePassword(r) => req[r].at = "password"
         /\ UpsertRootKey(r) => req[r].at = "rootKey"
         /\ StampRecord(r) => req[r].at = "audit"
         /\ ReadChain(r) => req[r].at = "stamped"
         /\ WriteChain(r) => req[r].at = "chain"
         /\ ReadIntent(r) => req[r].at = "intent"
         /\ ReadBalance(r) => req[r].at = "balance"
         /\ Credit(r) => req[r].at = "credit"
         /\ Mark(r) => req[r].at = "mark"
         /\ ReadPurse(r) => req[r].at = "purse"
         /\ Bet(r) => req[r].at = "bet"
         /\ Cashier(r) => req[r].at = "cashier"
         /\ Find(r) => req[r].at = "find"
         /\ SaveFound(r) \/ LockWallet(r) => req[r].at = "update"
         /\ Destroy(r) => req[r].at = "destroy"
         /\ InsertNew(r) => req[r].at = "insert"
         /\ Recipient(r) => req[r].at = "recipient"
         /\ Devices(r) => req[r].at = "devices"
         /\ Notify(r) => req[r].at = "notify"
         /\ UpsertKey(r) => req[r].at = "upsert"
<1>1. OwnerAuth(r) \/ StaffAuth(r) \/ NoAuth(r) => req[r].at = "auth"
  BY Zenon DEF OwnerAuth, StaffAuth, NoAuth, At
<1>2. /\ Load(r) => req[r].at = "load"
      /\ Save(r) => req[r].at = "save"
      /\ CheckName(r) => req[r].at = "check"
      /\ InsertTenant(r) => req[r].at = "insertTenant"
      /\ Confirm(r) => req[r].at = "confirm"
  BY Zenon DEF Load, Save, CheckName, InsertTenant, Confirm, At
<1>3. /\ NextTenant(r) \/ StartDelete(r) \/ WipeInsert(r) \/ StatementsDone(r) => req[r].at = "next"
      /\ LockTenant(r) => req[r].at = "lock"
      /\ SweepRow(r) => req[r].at = "sweep"
      /\ DropTenant(r) => req[r].at = "dropTenant"
  BY Zenon DEF NextTenant, StartDelete, WipeInsert, StatementsDone, LockTenant, SweepRow, DropTenant, At
<1>4. /\ FindRoot(r) => req[r].at = "root"
      /\ SavePassword(r) => req[r].at = "password"
      /\ UpsertRootKey(r) => req[r].at = "rootKey"
      /\ StampRecord(r) => req[r].at = "audit"
      /\ ReadChain(r) => req[r].at = "stamped"
      /\ WriteChain(r) => req[r].at = "chain"
  BY Zenon DEF FindRoot, SavePassword, UpsertRootKey, StampRecord, ReadChain, WriteChain, At
<1>5. /\ ReadIntent(r) => req[r].at = "intent"
      /\ ReadBalance(r) => req[r].at = "balance"
      /\ Credit(r) => req[r].at = "credit"
      /\ Mark(r) => req[r].at = "mark"
      /\ ReadPurse(r) => req[r].at = "purse"
      /\ Bet(r) => req[r].at = "bet"
  BY Zenon DEF ReadIntent, ReadBalance, Credit, Mark, ReadPurse, Bet, At
<1>6. /\ Cashier(r) => req[r].at = "cashier"
      /\ Find(r) => req[r].at = "find"
      /\ SaveFound(r) \/ LockWallet(r) => req[r].at = "update"
      /\ Destroy(r) => req[r].at = "destroy"
      /\ InsertNew(r) => req[r].at = "insert"
  BY Zenon DEF Cashier, Find, SaveFound, LockWallet, Destroy, InsertNew, At
<1>7. /\ Recipient(r) => req[r].at = "recipient"
      /\ Devices(r) => req[r].at = "devices"
      /\ Notify(r) => req[r].at = "notify"
      /\ UpsertKey(r) => req[r].at = "upsert"
  BY Zenon DEF Recipient, Devices, Notify, UpsertKey, At
<1> QED
  BY ONLY <1>1, <1>2, <1>3, <1>4, <1>5, <1>6, <1>7

\* ... and at each place a handler takes the steps that belong there.
LEMMA StepAt ==
  ASSUME NEW r \in Reqs, HandlerActs(r)
  PROVE  /\ req[r].at = "auth" => OwnerAuth(r) \/ StaffAuth(r) \/ NoAuth(r)
         /\ req[r].at = "load" => Load(r)
         /\ req[r].at = "save" => Save(r)
         /\ req[r].at = "check" => CheckName(r)
         /\ req[r].at = "insertTenant" => InsertTenant(r)
         /\ req[r].at = "confirm" => Confirm(r)
         /\ req[r].at = "next" => NextTenant(r) \/ StartDelete(r) \/ WipeInsert(r) \/ StatementsDone(r)
         /\ req[r].at = "lock" => LockTenant(r)
         /\ req[r].at = "sweep" => SweepRow(r)
         /\ req[r].at = "dropTenant" => DropTenant(r)
         /\ req[r].at = "root" => FindRoot(r)
         /\ req[r].at = "password" => SavePassword(r)
         /\ req[r].at = "rootKey" => UpsertRootKey(r)
         /\ req[r].at = "audit" => StampRecord(r)
         /\ req[r].at = "stamped" => ReadChain(r)
         /\ req[r].at = "chain" => WriteChain(r)
         /\ req[r].at = "intent" => ReadIntent(r)
         /\ req[r].at = "balance" => ReadBalance(r)
         /\ req[r].at = "credit" => Credit(r)
         /\ req[r].at = "mark" => Mark(r)
         /\ req[r].at = "purse" => ReadPurse(r)
         /\ req[r].at = "bet" => Bet(r)
         /\ req[r].at = "cashier" => Cashier(r)
         /\ req[r].at = "find" => Find(r)
         /\ req[r].at = "update" => SaveFound(r) \/ LockWallet(r)
         /\ req[r].at = "destroy" => Destroy(r)
         /\ req[r].at = "insert" => InsertNew(r)
         /\ req[r].at = "recipient" => Recipient(r)
         /\ req[r].at = "devices" => Devices(r)
         /\ req[r].at = "notify" => Notify(r)
         /\ req[r].at = "upsert" => UpsertKey(r)
         /\ req[r].at \notin {"idle", "respond"}
BY PlaceOf, SMT DEF HandlerActs

\* The records, so that a step's fields can be read off.
LEMMA Fielded == ASSUME TypeOK PROVE req \in [Reqs -> Records(Type)]
BY WorkIs DEF TypeOK

\* What the steps between statements do to their request's record.
LEMMA SweptIs ==
  ASSUME TypeOK, NEW r \in Reqs, NEW Y, Sweeping(r, Y)
  PROVE  /\ Only(req'[r], req[r], {"rows", "at", "todo"}) /\ req'[r].rows = Y
         /\ Y = {} => req'[r].at = "next" /\ req'[r].todo = Tail(req[r].todo)
         /\ Y # {} => req'[r].at = "sweep" /\ req'[r].todo = req[r].todo
<1> DEFINE at == IF Y = {} THEN "next" ELSE "sweep"
           todo == IF Y = {} THEN Tail(req[r].todo) ELSE req[r].todo
<1>1. req' = [req EXCEPT ![r].rows = Y, ![r].at = at, ![r].todo = todo]
  BY Zenon DEF Sweeping
<1>2. (Y = {} => at = "next" /\ todo = Tail(req[r].todo)) /\ (Y # {} => at = "sweep" /\ todo = req[r].todo)
  OBVIOUS
<1>3. req \in [Reqs -> Records(Type)] /\ r \in Reqs
  BY Fielded
<1> HIDE DEF at, todo
<1>4. /\ Only(req'[r], req[r], {"rows", "at", "todo"}) /\ req'[r].rows = Y
      /\ req'[r].at = at /\ req'[r].todo = todo
  BY ONLY <1>1, <1>3, SMT DEF Records, Only
<1> QED
  BY <1>2, <1>4

LEMMA ToldIs ==
  ASSUME TypeOK, NEW r \in Reqs, NEW todo, req' = [req EXCEPT ![r].todo = todo]
  PROVE  Only(req'[r], req[r], {"todo"}) /\ req'[r].todo = todo
<1>1. req \in [Reqs -> Records(Type)] /\ r \in Reqs
  BY Fielded
<1> QED
  BY ONLY <1>1, req' = [req EXCEPT ![r].todo = todo], SMT DEF Records, Only

\* Another tenant, the staff of all tenants, or the answer.
LEMMA NextTenantIs ==
  ASSUME TypeOK, NEW r \in Reqs, NextTenant(r)
  PROVE  /\ req[r].at = "next" /\ req[r].todo = << >> /\ req[r].op \in {"wipe", "wipeAll"} /\ req[r].n = 0
         /\ UNCHANGED Kept
         /\ \/ \E t \in req[r].left :
                 /\ Only(req'[r], req[r], {"left", "todo"}) /\ req'[r].left = req[r].left \ {t}
                 /\ req'[r].todo = WipeOrder(t) \o Reset(t)
            \/ /\ req[r].left = {} /\ req[r].op = "wipeAll" /\ Only(req'[r], req[r], {"todo", "n"})
               /\ req'[r].todo = <<Delete("staff", "all")>> /\ req'[r].n = 1
            \/ /\ req[r].left = {} /\ req[r].op = "wipe" /\ Only(req'[r], req[r], {"at", "status"})
               /\ req'[r].at = "respond" /\ req'[r].status = 200
<1>1. /\ req[r].at = "next" /\ req[r].todo = << >> /\ req[r].op \in {"wipe", "wipeAll"} /\ req[r].n = 0
      /\ UNCHANGED Kept
  BY Zenon DEF NextTenant, At
<1>2. req \in [Reqs -> Records(Type)] /\ r \in Reqs
  BY Fielded
<1>3. ASSUME NEW t \in req[r].left, NEW todo, req' = [req EXCEPT ![r].left = @ \ {t}, ![r].todo = todo]
      PROVE  /\ Only(req'[r], req[r], {"left", "todo"}) /\ req'[r].left = req[r].left \ {t} /\ req'[r].todo = todo
  BY ONLY <1>2, <1>3, SMT DEF Records, Only
<1>4. ASSUME NEW todo, NEW n, req' = [req EXCEPT ![r].todo = todo, ![r].n = n]
      PROVE  Only(req'[r], req[r], {"todo", "n"}) /\ req'[r].todo = todo /\ req'[r].n = n
  BY ONLY <1>2, <1>4, SMT DEF Records, Only
<1>5. ASSUME req' = Answer(r, 200)
      PROVE  Only(req'[r], req[r], {"at", "status"}) /\ req'[r].at = "respond" /\ req'[r].status = 200
  BY ONLY <1>2, <1>5, SMT DEF Records, Only, Answer
<1>6. \/ \E t \in req[r].left : req' = [req EXCEPT ![r].left = @ \ {t}, ![r].todo = WipeOrder(t) \o Reset(t)]
      \/ /\ req[r].left = {} /\ req[r].op = "wipeAll"
         /\ req' = [req EXCEPT ![r].todo = <<Delete("staff", "all")>>, ![r].n = 1]
      \/ req[r].left = {} /\ req[r].op # "wipeAll" /\ req' = Answer(r, 200)
  BY Zenon DEF NextTenant
<1>7. ASSUME NEW t \in req[r].left, req' = [req EXCEPT ![r].left = @ \ {t}, ![r].todo = WipeOrder(t) \o Reset(t)]
      PROVE  /\ Only(req'[r], req[r], {"left", "todo"}) /\ req'[r].left = req[r].left \ {t}
             /\ req'[r].todo = WipeOrder(t) \o Reset(t)
  BY <1>3, <1>7, Zenon
<1>8. CASE /\ req[r].left = {} /\ req[r].op = "wipeAll"
           /\ req' = [req EXCEPT ![r].todo = <<Delete("staff", "all")>>, ![r].n = 1]
  <2>1. Only(req'[r], req[r], {"todo", "n"}) /\ req'[r].todo = <<Delete("staff", "all")>> /\ req'[r].n = 1
    BY ONLY <1>4, <1>8, Zenon
  <2> QED
    BY ONLY <1>1, <1>8, <2>1, Zenon
<1>9. CASE req[r].left = {} /\ req[r].op # "wipeAll" /\ req' = Answer(r, 200)
  <2>1. req[r].op = "wipe"
    BY <1>1, <1>9
  <2> QED
    BY ONLY <1>1, <1>5, <1>9, <2>1, Zenon
<1> QED
  BY ONLY <1>1, <1>6, <1>7, <1>8, <1>9, Zenon

LEMMA WipeInsertIs ==
  ASSUME TypeOK, NEW r \in Reqs, WipeInsert(r)
  PROVE  LET stmt == Head(req[r].todo) IN
         /\ req[r].at = "next" /\ req[r].todo # << >> /\ stmt.sql = "INSERT"
         /\ \/ Reply(r, 500)
            \/ /\ Only(req'[r], req[r], {"todo"}) /\ req'[r].todo = Tail(req[r].todo)
               /\ TenantFree(r, stmt.of) /\ TenantThere(stmt.of) /\ Unused(stmt.table, stmt.of) # {}
               /\ WriteOne(r, Next1(Unused(stmt.table, stmt.of)), Is("live"))
<1>1. /\ req[r].at = "next" /\ req[r].todo # << >> /\ Head(req[r].todo).sql = "INSERT"
  BY Zenon DEF WipeInsert, At
<1>2. \/ Reply(r, 500)
      \/ LET stmt == Head(req[r].todo) IN
         /\ req' = [req EXCEPT ![r].todo = Tail(req[r].todo)]
         /\ TenantFree(r, stmt.of) /\ TenantThere(stmt.of) /\ Unused(stmt.table, stmt.of) # {}
         /\ WriteOne(r, Next1(Unused(stmt.table, stmt.of)), Is("live"))
  BY Zenon DEF WipeInsert, Insert
<1> QED
  BY <1>1, <1>2, ToldIs, Zenon

LEMMA StatementsDoneIs ==
  ASSUME TypeOK, NEW r \in Reqs, StatementsDone(r)
  PROVE  /\ req[r].at = "next" /\ req[r].todo = << >> /\ UNCHANGED Kept
         /\ \/ req[r].op = "delete" /\ Only(req'[r], req[r], {"at"}) /\ req'[r].at = "dropTenant"
            \/ /\ req[r].op \in {"thread", "purge"} \/ (req[r].op = "wipeAll" /\ req[r].n = 1)
               /\ Only(req'[r], req[r], {"at", "status"}) /\ req'[r].at = "respond" /\ req'[r].status = 200
<1>1. /\ req[r].at = "next" /\ req[r].todo = << >>
      /\ \/ req[r].op = "delete" /\ Go(r, "dropTenant")
         \/ (req[r].op \in {"thread", "purge"} \/ (req[r].op = "wipeAll" /\ req[r].n = 1)) /\ Reply(r, 200)
  BY Zenon DEF StatementsDone, At
<1>2. Go(r, "dropTenant") => /\ Only(req'[r], req[r], {"at"}) /\ req'[r].at = "dropTenant" /\ UNCHANGED Kept
  BY GotoMoves DEF Go, Moves, Places
<1>3. Reply(r, 200) => /\ Only(req'[r], req[r], {"at", "status"}) /\ req'[r].at = "respond" /\ req'[r].status = 200
                       /\ UNCHANGED Kept
  BY AnswerMoves DEF Reply, Moves, Statuses
<1> QED
  BY ONLY <1>1, <1>2, <1>3, Zenon

\* The steps that leave a request at a place where it has written nothing write nothing.
LEMMA EarlySteps ==
  ASSUME TypeOK, NEW r \in Reqs, HandlerActs(r), req'[r].at \in Early
  PROVE  UNCHANGED Kept /\ req[r].at \in Early
<1>0. req \in [Reqs -> Records(Type)]
  BY Fielded
<1>1. CASE OwnerAuth(r) \/ StaffAuth(r) \/ NoAuth(r)
  <2>1. UNCHANGED Kept
    BY <1>1, Zenon DEF OwnerAuth, StaffAuth, NoAuth
  <2> QED
    BY <1>1, <2>1, PlaceOf DEF Early
<1>2. CASE Load(r) \/ Save(r)
  <2>1. Save(r) => req'[r].at = "respond"
    BY <1>0, SMT DEF Records, Save, Answer
  <2>2. Load(r) => UNCHANGED Kept
    BY Zenon DEF Load, Reply
  <2> QED
    BY <1>2, <2>1, <2>2, PlaceOf DEF Early
<1>3. CASE CheckName(r) \/ InsertTenant(r)
  <2>1. InsertTenant(r) => req'[r].at \in {"respond", "audit"}
    BY <1>0, SMT DEF Records, InsertTenant, Reply, Answer
  <2>2. CheckName(r) => UNCHANGED Kept
    BY Zenon DEF CheckName, Reply, Go
  <2> QED
    BY <1>3, <2>1, <2>2, PlaceOf DEF Early
<1>4. CASE Confirm(r) \/ LockTenant(r) \/ SweepRow(r) \/ DropTenant(r)
  <2>1. Confirm(r) => req'[r].at \in {"respond", "next"}
    BY <1>0, SMT DEF Records, Confirm, Reply, Answer
  <2>2. LockTenant(r) => req'[r].at \in {"respond", "next"}
    BY <1>0, SMT DEF Records, LockTenant, Reply, Answer
  <2>3. SweepRow(r) => req'[r].at \in {"sweep", "next"}
    BY SweptIs DEF SweepRow
  <2>4. DropTenant(r) => req'[r].at = "audit"
    BY <1>0, SMT DEF Records, DropTenant, Goto
  <2> QED
    BY <1>4, <2>1, <2>2, <2>3, <2>4 DEF Early
<1>5. CASE NextTenant(r) \/ StartDelete(r) \/ WipeInsert(r) \/ StatementsDone(r)
  <2>1. NextTenant(r) => req'[r].at \in {"next", "respond"}
    BY NextTenantIs DEF Only
  <2>2. StartDelete(r) => req'[r].at \in {"sweep", "next"}
    BY SweptIs DEF StartDelete
  <2>3. WipeInsert(r) => req'[r].at \in {"next", "respond"}
    <3>1. Reply(r, 500) => req'[r].at = "respond"
      BY <1>0, SMT DEF Records, Reply, Answer
    <3> QED
      BY <3>1, WipeInsertIs DEF Only
  <2>4. StatementsDone(r) => req'[r].at \in {"dropTenant", "respond"}
    BY StatementsDoneIs
  <2> QED
    BY <1>5, <2>1, <2>2, <2>3, <2>4 DEF Early
<1>6. CASE FindRoot(r) \/ SavePassword(r) \/ UpsertRootKey(r)
  <2>1. FindRoot(r) => UNCHANGED Kept
    BY Zenon DEF FindRoot, Reply, Go
  <2>2. SavePassword(r) => req'[r].at = "rootKey"
    BY <1>0, SMT DEF Records, SavePassword, Goto
  <2>3. UpsertRootKey(r) => req'[r].at = "audit"
    BY <1>0, SMT DEF Records, UpsertRootKey, Goto
  <2> QED
    BY <1>6, <2>1, <2>2, <2>3, PlaceOf DEF Early
<1>7. CASE StampRecord(r) \/ ReadChain(r) \/ WriteChain(r)
  <2>1. StampRecord(r) => req'[r].at \in {"stamped", "respond"}
    BY <1>0, SMT DEF Records, StampRecord, Done, Answer
  <2>2. ReadChain(r) => req'[r].at = "chain"
    BY <1>0, SMT DEF Records, ReadChain
  <2>3. WriteChain(r) => req'[r].at = "respond"
    BY <1>0, SMT DEF Records, WriteChain, Done, Answer
  <2> QED
    BY <1>7, <2>1, <2>2, <2>3 DEF Early
<1>8. CASE ReadIntent(r) \/ ReadBalance(r) \/ Credit(r) \/ Mark(r) \/ ReadPurse(r) \/ Bet(r)
  <2>1. ReadIntent(r) \/ ReadBalance(r) \/ ReadPurse(r) => UNCHANGED Kept
    BY Zenon DEF ReadIntent, ReadBalance, ReadPurse, Reply, Go
  <2>2. Credit(r) => req'[r].at \in {"mark", "respond"}
    BY <1>0, SMT DEF Records, Credit, Goto, Reply, Answer
  <2>3. Mark(r) => req'[r].at = "respond"
    BY <1>0, SMT DEF Records, Mark, Answer
  <2>4. Bet(r) => req'[r].at = "respond"
    BY <1>0, SMT DEF Records, Bet, Reply, Answer
  <2> QED
    BY <1>8, <2>1, <2>2, <2>3, <2>4, PlaceOf DEF Early
<1>9. CASE Cashier(r) \/ Find(r) \/ SaveFound(r) \/ LockWallet(r) \/ Destroy(r) \/ InsertNew(r)
  <2>1. Cashier(r) \/ Find(r) => UNCHANGED Kept
    BY Zenon DEF Cashier, Find, Reply, Go
  <2>2. SaveFound(r) \/ Destroy(r) => req'[r].at = "respond"
    BY <1>0, SMT DEF Records, SaveFound, Destroy, Answer
  <2>3. LockWallet(r) => UNCHANGED Kept \/ req'[r].at = "audit"
    BY <1>0, SMT DEF Records, LockWallet, Goto, Go
  <2>4. InsertNew(r) => req'[r].at \in {"devices", "audit", "respond"}
    BY <1>0, SMT DEF Records, InsertNew, Insert, Reply, Goto, Answer
  <2> QED
    BY <1>9, <2>1, <2>2, <2>3, <2>4, PlaceOf DEF Early
<1>10. CASE Recipient(r) \/ Devices(r) \/ Notify(r) \/ UpsertKey(r)
  <2>1. Recipient(r) => UNCHANGED Kept
    BY Zenon DEF Recipient, Reply, Go
  <2>2. Devices(r) => req'[r].at = "notify"
    BY <1>0, SMT DEF Records, Devices
  <2>3. Notify(r) => req'[r].at \in {"notify", "respond"}
    BY <1>0, PlaceOf, SMTT(30) DEF Records, Notify, Reply, Answer
  <2>4. UpsertKey(r) => req'[r].at = "respond"
    BY <1>0, SMT DEF Records, UpsertKey, Reply, Answer
  <2> QED
    BY <1>10, <2>1, <2>2, <2>3, <2>4, PlaceOf DEF Early
<1> QED
  BY <1>1, <1>2, <1>3, <1>4, <1>5, <1>6, <1>7, <1>8, <1>9, <1>10 DEF HandlerActs

-----------------------------------------------------------------------------
(* What the properties need of every request *)

LEMMA HandsInitially == Init => HandsPart
BY NamesAssumption DEF Init, HandsPart

LEMMA HandsStep == ASSUME IInv, [Next]_vars, HandsPart PROVE HandsPart'
<1> SUFFICES ASSUME NEW r \in Reqs, req'[r].at \in Early, NEW y \in menu'.rows PROVE lock'[y] # r
  BY DEF HandsPart
<1>1. Stays(r) \/ Arrives(r) \/ Works(r) \/ Over(r)
  BY Views
<1>2. CASE Stays(r)
  BY <1>2 DEF Stays, Alike, HandsPart
<1>3. CASE Arrives(r)
  BY <1>3 DEF Arrives
<1>4. CASE Works(r)
  <2>1. UNCHANGED Kept /\ req[r].at \in Early
    BY <1>4, EarlySteps DEF Works, IInv
  <2> QED
    BY <2>1 DEF HandsPart, Kept
<1>5. CASE Over(r)
  BY <1>5 DEF Over
<1> QED
  BY <1>1, <1>2, <1>3, <1>4, <1>5

\* A row under a foreign lock, or under none, is as it is committed to a request that holds nothing.
LEMMA Unheld ==
  ASSUME IInv, NEW r \in Reqs, NEW y \in menu.rows, lock[y] # r, Mine(r, y)
  PROVE  lock[y] = NoReq /\ cur[y] = db[y]
BY DEF Mine, IInv, RowsPart

\* What the steps of a request leave in its record as it is.
LEMMA WorksKeep ==
  ASSUME NEW r \in Reqs, Works(r)
  PROVE  /\ req'[r].op = req[r].op /\ req'[r].of = req[r].of
         /\ req'[r].began = req[r].began /\ req'[r].moved = req[r].moved
         /\ db' = db /\ menu' = menu /\ req[r].at # "idle" /\ req'[r].at \notin {"idle", "auth"}
         /\ \A y \in menu.rows : \/ cur'[y] = cur[y] /\ lock'[y] = lock[y]
                                 \/ req[r].at # "auth" /\ Changed(r, y)
<1>1. Moves(r, Every) /\ Versions(r) /\ req[r].at # "idle" /\ req'[r].at \notin {"idle", "auth"}
  BY DEF Works, Proper, Acts
<1>2. Only(req'[r], req[r], Every)
  BY <1>1 DEF Moves
<1>3. /\ req'[r].op = req[r].op /\ req'[r].of = req[r].of
      /\ req'[r].began = req[r].began /\ req'[r].moved = req[r].moved
  BY ONLY <1>2, Zenon DEF Only
<1> QED
  BY <1>1, <1>3 DEF Versions

LEMMA OverKeeps ==
  ASSUME NEW r \in Reqs, Over(r), req'[r].at # "idle"
  PROVE  /\ req'[r].op = req[r].op /\ req'[r].of = req[r].of /\ req'[r].left = req[r].left
         /\ req'[r].began = req[r].began /\ req'[r].moved = req[r].moved
         /\ db' = db /\ menu' = menu /\ req[r].at # "idle" /\ Refused(r)' /\ req'[r].at = "respond"
<1>1. req'[r] # NoWork
  BY DEF NoWork
<1>2. /\ db' = db /\ menu' = menu /\ req[r].at # "idle" /\ Refused(r)'
      /\ Only(req'[r], req[r], {"at", "status"})
  BY <1>1 DEF Over
<1> QED
  BY <1>2 DEF Only, Refused

LEMMA ArrivalInitially == Init => ArrivalPart
<1> SUFFICES ASSUME Init PROVE ArrivalPart
  OBVIOUS
<1>1. \A r \in Reqs : req[r].at = "idle"
  BY DEF Init, NoWork
<1> QED
  BY <1>1 DEF ArrivalPart, SinceArrival

LEMMA ArrivalStep == ASSUME IInv, [Next]_vars, ArrivalPart PROVE ArrivalPart'
<1> SUFFICES ASSUME NEW r \in Reqs PROVE SinceArrival(r)'
  BY DEF ArrivalPart
<1>1. Stays(r) \/ Arrives(r) \/ Works(r) \/ Over(r)
  BY Views
<1>2. SinceArrival(r)
  BY DEF ArrivalPart
<1>3. CASE Stays(r)
  <2> SUFFICES ASSUME req[r].at # "idle" PROVE SinceArrival(r)'
    BY <1>3 DEF Stays, Alike, SinceArrival
  <2>1. \A y \in menu.rows : Known(y) => db'[y].st # "none"
    BY <1>3 DEF Stays, IInv, RowsPart, Known
  <2>2. /\ req'[r].op = req[r].op /\ req'[r].of = req[r].of /\ req'[r].began = req[r].began
        /\ req[r].moved \subseteq req'[r].moved /\ menu' = menu
    BY <1>3 DEF Stays, Alike
  <2>3. \A y \in menu.rows : Cares(req[r].op, req[r].of, y) /\ db'[y] # db[y] => y \in req'[r].moved
    BY <1>3 DEF Stays
  <2> QED
    BY <1>2, <2>1, <2>2, <2>3 DEF SinceArrival, Known
<1>4. CASE Arrives(r)
  BY <1>4 DEF Arrives, SinceArrival, Known
<1>5. CASE Works(r)
  BY <1>2, <1>5, WorksKeep DEF SinceArrival, Known
<1>6. CASE Over(r)
  <2>1. CASE req'[r].at = "idle"
    BY <2>1 DEF SinceArrival
  <2>2. CASE req'[r].at # "idle"
    BY <1>2, <1>6, <2>2, OverKeeps DEF SinceArrival, Known
  <2> QED
    BY <2>1, <2>2
<1> QED
  BY <1>1, <1>3, <1>4, <1>5, <1>6

-----------------------------------------------------------------------------
(* What a step writes *)

\* The row y that r has just written, at each place that writes one.
Written(r, y) ==
  LET w == req[r]
      T == One("tenant", y[2])
      fresh == TenantFree(r, y[2]) /\ TenantThere(y[2]) IN
  /\ lock'[y] = r /\ Mine(r, y)
  /\ w.at \in {"save", "insertTenant", "lock", "sweep", "next", "dropTenant", "password", "rootKey", "chain", "credit",
               "mark", "bet", "update", "destroy", "insert", "notify", "upsert"}
  /\ w.at = "save" => /\ y \in Of("settings", w.of) /\ cur'[y].st = "live"
                      /\ y[3] \in w.patched \/ cur'[y].n = w.seen[y[3]]
  /\ w.at = "insertTenant" => y \in Bootstrap(w.of, TRUE) /\ cur'[y] = Is("live")
  /\ w.at = "lock" => y = One("tenant", w.of) /\ cur'[y] = cur[y] /\ TenantThere(w.of) /\ Inserters(w.of) \subseteq {r}
  /\ w.at = "sweep" => y \in w.rows /\ cur'[y] = Is("gone")
  /\ w.at = "next" => /\ w.todo # << >> /\ Head(w.todo).sql = "INSERT" /\ y \in Unused(Head(w.todo).table, Head(w.todo).of)
                      /\ fresh /\ cur'[y] = Is("live")
  /\ w.at = "dropTenant" => /\ y \in Below(w.of) \cup {One("tenant", w.of), One("distributor", w.of)}
                            /\ Exists(cur[y]) /\ cur'[y] = Is("gone")
  /\ w.at = "password" => y = One("staff", w.of) /\ cur'[y] = cur[y]
  /\ w.at = "rootKey" => y = One("rootKey", w.of)
  /\ w.at = "chain" => y = w.row /\ cur'[y] = [st |-> "live", n |-> w.n]
  /\ w.at = "credit" => \/ y \in Unused("payment", w.of) /\ fresh
                        \/ /\ y = One("purse", w.of)
                           /\ cur'[y] = IF Exists(cur[y]) THEN [cur[y] EXCEPT !.n = w.n + Amount] ELSE cur[y]
  /\ w.at = "mark" => y = One(Kind(w.op), w.of) /\ cur'[y] = IF Exists(cur[y]) THEN Is("done") ELSE cur[y]
  /\ w.at = "bet" => /\ y = One("purse", w.of) /\ cur[y].st = "live"
                     /\ \E n \in {w.n - 1, w.n + 1} : cur'[y] = [cur[y] EXCEPT !.n = n]
  /\ w.at = "update" => /\ y = w.row /\ (Exists(cur'[y]) <=> Exists(cur[y]))
                        /\ ~ Exists(cur[y]) => cur'[y] = cur[y]
  /\ w.at = "destroy" => y = w.row /\ ~ Exists(cur'[y])
  /\ w.at = "insert" => /\ y \in Unused(TableOf(w.op), w.of) /\ cur'[y] = Is("live")
                        /\ w.op # "close" => fresh
  /\ w.at = "notify" => y \in w.rows /\ (Exists(cur'[y]) => Exists(cur[y]))
  /\ w.at = "upsert" => y = One("key", w.of) /\ fresh

Touched(y) == cur'[y] # cur[y] \/ lock'[y] # lock[y]

LEMMA WriteTouches ==
  ASSUME TypeOK, NEW r \in Reqs, NEW Y, NEW new, Write(r, Y, new), NEW y \in menu.rows, Touched(y)
  PROVE  y \in Y /\ lock'[y] = r /\ cur'[y] = new[y]
BY DEF TypeOK, Write, Touched

LEMMA WriteOneTouches ==
  ASSUME TypeOK, NEW r \in Reqs, NEW x, NEW row, WriteOne(r, x, row), NEW y \in menu.rows, Touched(y)
  PROVE  y = x /\ lock'[y] = r /\ cur'[y] = row
BY DEF TypeOK, WriteOne, Touched

LEMMA UpdateTouches ==
  ASSUME TypeOK, NEW r \in Reqs, NEW x, NEW row, Update(r, x, row), NEW y \in menu.rows, Touched(y)
  PROVE  y = x /\ Mine(r, y) /\ lock'[y] = r /\ cur'[y] = (IF Exists(cur[y]) THEN row ELSE cur[y])
BY WriteOneTouches DEF Update

\* An INSERT of whatever row, whatever comes after it.
Inserted(r, table, t, row) == \E after : Insert(r, table, t, row, after)

LEMMA KeptTouches ==
  ASSUME UNCHANGED Kept, NEW y
  PROVE  ~ Touched(y)
BY DEF Touched, Kept

LEMMA FreshRow ==
  ASSUME TypeOK, NEW table, NEW t, Unused(table, t) # {}
  PROVE  /\ Next1(Unused(table, t)) \in Unused(table, t) /\ Unused(table, t) \subseteq menu.rows
         /\ \A y \in Unused(table, t) : y[1] = table /\ y[2] = t
<1>1. Unused(table, t) \in SUBSET Rows
  BY MenuAssumption DEF Unused, Of, TypeOK
<1> QED
  BY <1>1, FirstRow DEF Unused, Of

LEMMA InsertTouches ==
  ASSUME TypeOK, NEW r \in Reqs, NEW table, NEW t, NEW row, NEW after, Insert(r, table, t, row, after),
         NEW y \in menu.rows, Touched(y)
  PROVE  /\ y \in Unused(table, t) /\ y[2] = t /\ lock'[y] = r /\ cur'[y] = row
         /\ TenantFree(r, t) /\ TenantThere(t) /\ req' = after
<1>1. ~ Reply(r, 500)
  BY KeptTouches DEF Reply
<1>2. /\ TenantThere(t) /\ TenantFree(r, t) /\ Unused(table, t) # {}
      /\ WriteOne(r, Next1(Unused(table, t)), row) /\ req' = after
  BY <1>1, Zenon DEF Insert
<1> QED
  BY <1>2, FreshRow, WriteOneTouches

LEMMA InsertedTouches ==
  ASSUME TypeOK, NEW r \in Reqs, NEW table, NEW t, NEW row, Inserted(r, table, t, row), NEW y \in menu.rows, Touched(y)
  PROVE  /\ y \in Unused(table, t) /\ y[2] = t /\ lock'[y] = r /\ cur'[y] = row
         /\ TenantFree(r, t) /\ TenantThere(t)
<1>1. PICK after : Insert(r, table, t, row, after)
  BY Zenon DEF Inserted
<1> QED
  BY ONLY <1>1, TypeOK, r \in Reqs, y \in menu.rows, Touched(y), InsertTouches

LEMMA WrittenBy ==
  ASSUME IInv, NEW r \in Reqs, HandlerActs(r), NEW y \in menu.rows, Touched(y)
  PROVE  Written(r, y)
<1>0. TypeOK /\ Local(req[r])
  BY DEF IInv, LocalPart
<1>1. \A table, t : y \in Unused(table, t) => Mine(r, y)
  BY UnusedIs DEF Mine
<1>2. CASE OwnerAuth(r) \/ StaffAuth(r) \/ NoAuth(r) \/ Load(r) \/ CheckName(r) \/ Confirm(r)
  <2>1. UNCHANGED Kept
    BY <1>2, Zenon DEF OwnerAuth, StaffAuth, NoAuth, Load, CheckName, Confirm, Reply, Go
  <2> QED
    BY <2>1, KeptTouches
<1>3. CASE Save(r)
  <2> DEFINE S == Of("settings", req[r].of)
         new(v) == [z \in S |-> [st |-> "live", n |-> IF z[3] \in req[r].patched THEN v ELSE req[r].seen[z[3]]]]
  <2>1. (\E v \in Values : Write(r, S, new(v))) /\ \A z \in S : Mine(r, z)
    BY <1>3, Zenon DEF Save
  <2>2. ASSUME NEW v \in Values, Write(r, S, new(v)) PROVE y \in S /\ lock'[y] = r /\ cur'[y] = new(v)[y]
    <3> HIDE DEF new, S
    <3> QED
      BY <1>0, <2>2, WriteTouches
  <2>3. y \in S /\ lock'[y] = r /\ \E v : cur'[y] = new(v)[y]
    <3> HIDE DEF new, S
    <3> QED
      BY <2>1, <2>2, Zenon
  <2>4. y \in S => \A v : new(v)[y].st = "live" /\ (y[3] \notin req[r].patched => new(v)[y].n = req[r].seen[y[3]])
    OBVIOUS
  <2>5. cur'[y].st = "live" /\ (y[3] \in req[r].patched \/ cur'[y].n = req[r].seen[y[3]])
    <3> HIDE DEF new, S
    <3> QED
      BY <2>3, <2>4
  <2>6. req[r].at = "save"
    BY <1>3, PlaceOf
  <2> QED
    BY ONLY <2>1, <2>3, <2>5, <2>6 DEF Written
<1>4. CASE InsertTenant(r)
  <2>1. ~ Reply(r, 409)
    BY KeptTouches DEF Reply
  <2>2. PICK configured \in BOOLEAN :
          Write(r, Bootstrap(req[r].of, configured), [z \in Bootstrap(req[r].of, configured) |-> Is("live")])
    BY <1>4, <2>1, Zenon DEF InsertTenant
  <2>3. y \in Bootstrap(req[r].of, configured) /\ lock'[y] = r /\ cur'[y] = Is("live")
    BY <1>0, <2>2, WriteTouches
  <2>4. y \in Bootstrap(req[r].of, TRUE)
    BY <2>3 DEF Bootstrap
  <2>5. Mine(r, y)
    <3>1. Proper(r)
      BY HandlerActsProper
    <3>2. Changed(r, y)
      BY <3>1, WorksKeep DEF Works, Touched
    <3> QED
      BY <3>2 DEF Changed, Mine
  <2> QED
    BY <1>4, <2>3, <2>4, <2>5, PlaceOf DEF Written
<1>5. CASE NextTenant(r) \/ StatementsDone(r) \/ StartDelete(r)
  <2>1. UNCHANGED Kept
    BY <1>0, <1>5, NextTenantIs, StatementsDoneIs DEF StartDelete
  <2> QED
    BY <2>1, KeptTouches
<1>6. CASE LockTenant(r)
  <2>1. ~ Reply(r, 404)
    BY KeptTouches DEF Reply
  <2>2. /\ Write(r, {One("tenant", req[r].of)}, cur) /\ TenantThere(req[r].of)
        /\ Inserters(req[r].of) \subseteq {r} /\ Mine(r, One("tenant", req[r].of))
    BY <1>6, <2>1, Zenon DEF LockTenant
  <2>3. y = One("tenant", req[r].of) /\ lock'[y] = r /\ cur'[y] = cur[y]
    BY <1>0, <2>2, WriteTouches
  <2> QED
    BY <1>6, <2>2, <2>3, PlaceOf DEF Written
<1>7. CASE SweepRow(r)
  <2>1. PICK z \in req[r].rows : Mine(r, z) /\ WriteOne(r, z, Is("gone"))
    BY <1>7 DEF SweepRow
  <2>2. y = z /\ lock'[y] = r /\ cur'[y] = Is("gone")
    BY ONLY <1>0, <2>1, WriteOneTouches, r \in Reqs, y \in menu.rows, Touched(y), Zenon
  <2>3. req[r].at = "sweep"
    BY <1>7, PlaceOf
  <2> QED
    BY ONLY <2>1, <2>2, <2>3 DEF Written
<1>8. CASE WipeInsert(r)
  <2> DEFINE stmt == Head(req[r].todo)
  <2>1. Inserted(r, stmt.table, stmt.of, Is("live"))
    BY <1>8, Zenon DEF WipeInsert, Inserted
  <2> HIDE DEF stmt
  <2>2. /\ y \in Unused(stmt.table, stmt.of) /\ y[2] = stmt.of /\ lock'[y] = r /\ cur'[y] = Is("live")
        /\ TenantFree(r, stmt.of) /\ TenantThere(stmt.of)
    BY ONLY <1>0, <2>1, InsertedTouches, r \in Reqs, y \in menu.rows, Touched(y), Zenon
  <2>3. req[r].at = "next" /\ req[r].todo # << >> /\ stmt.sql = "INSERT"
    BY <1>8, Zenon DEF WipeInsert, At, stmt
  <2> QED
    BY <1>1, <2>2, <2>3 DEF Written, stmt
<1>9. CASE DropTenant(r)
  <2> DEFINE Y == {z \in Below(req[r].of) \cup {One("tenant", req[r].of), One("distributor", req[r].of)} : Exists(cur[z])}
  <2>1. Write(r, Y, [z \in Y |-> Is("gone")]) /\ \A z \in Y : Mine(r, z)
    BY <1>9, Zenon DEF DropTenant
  <2>2. y \in Y /\ lock'[y] = r /\ cur'[y] = Is("gone")
    BY <1>0, <2>1, WriteTouches
  <2> QED
    BY <1>9, <2>1, <2>2, PlaceOf DEF Written
<1>10. CASE FindRoot(r) \/ StampRecord(r) \/ ReadChain(r)
  <2>1. UNCHANGED Kept
    BY <1>10, Zenon DEF FindRoot, StampRecord, ReadChain, Reply, Go
  <2> QED
    BY <2>1, KeptTouches
<1>11. CASE SavePassword(r)
  <2>1. Update(r, One("staff", req[r].of), cur[One("staff", req[r].of)])
    BY <1>11 DEF SavePassword
  <2>2. y = One("staff", req[r].of) /\ Mine(r, y) /\ lock'[y] = r /\ cur'[y] = cur[y]
    BY <1>0, <2>1, UpdateTouches
  <2>3. req[r].at = "password"
    BY <1>11, PlaceOf
  <2> QED
    BY ONLY <2>2, <2>3 DEF Written
<1>12. CASE UpsertRootKey(r)
  <2>1. Mine(r, One("rootKey", req[r].of)) /\ WriteOne(r, One("rootKey", req[r].of), Is("live"))
    BY <1>12 DEF UpsertRootKey
  <2>2. y = One("rootKey", req[r].of) /\ lock'[y] = r
    BY ONLY <1>0, <2>1, WriteOneTouches, r \in Reqs, y \in menu.rows, Touched(y), Zenon
  <2>3. req[r].at = "rootKey"
    BY <1>12, PlaceOf
  <2> QED
    BY ONLY <2>1, <2>2, <2>3 DEF Written
<1>13. CASE WriteChain(r)
  <2>1. Write(r, {req[r].row}, [z \in {req[r].row} |-> [st |-> "live", n |-> req[r].n]]) \/ UNCHANGED Kept
    BY <1>13, Zenon DEF WriteChain
  <2>2. y = req[r].row /\ lock'[y] = r /\ cur'[y] = [st |-> "live", n |-> req[r].n]
    BY <1>0, <2>1, WriteTouches, KeptTouches
  <2>3. Mine(r, y)
    <3>1. Proper(r)
      BY HandlerActsProper
    <3>2. Changed(r, y)
      BY <3>1, WorksKeep DEF Works, Touched
    <3> QED
      BY <3>2 DEF Changed, Mine
  <2> QED
    BY <1>13, <2>2, <2>3, PlaceOf DEF Written
<1>14. CASE ReadIntent(r) \/ ReadBalance(r) \/ ReadPurse(r) \/ Cashier(r) \/ Find(r) \/ Recipient(r) \/ Devices(r)
  <2>1. UNCHANGED Kept
    BY <1>14, Zenon DEF ReadIntent, ReadBalance, ReadPurse, Cashier, Find, Recipient, Devices, Reply, Go
  <2> QED
    BY <2>1, KeptTouches
<1>15. CASE Credit(r)
  <2> DEFINE t == req[r].of
             p == One("purse", t)
             new == Next1(Unused("payment", t))
             rows == [z \in {p, new} |-> IF z = new THEN [st |-> "live", n |-> Amount]
                                         ELSE IF Exists(cur[p]) THEN [cur[p] EXCEPT !.n = req[r].n + Amount]
                                         ELSE cur[p]]
  <2>1. ~ Reply(r, 500)
    BY KeptTouches DEF Reply
  <2>2. /\ Mine(r, p) /\ TenantFree(r, t) /\ TenantThere(t) /\ Unused("payment", t) # {}
        /\ Write(r, {p, new}, rows)
    BY <1>15, <2>1, Zenon DEF Credit
  <2>3. new \in Unused("payment", t) /\ new[2] = t
    BY <1>0, <2>2, FreshRow
  <2>4. y \in {p, new} /\ lock'[y] = r /\ cur'[y] = rows[y]
    BY <1>0, <2>2, WriteTouches, ZenonT(60)
  <2>5. CASE y = new
    <3>1. Mine(r, y) /\ y[2] = t
      BY <1>1, <2>3, <2>5
    <3>2. req[r].at = "credit"
      BY <1>15, PlaceOf
    <3>3. y[2] = req[r].of /\ TenantFree(r, req[r].of) /\ TenantThere(req[r].of) /\ y \in Unused("payment", req[r].of)
      BY <2>2, <2>3, <2>5, ZenonT(30)
    <3> QED
      BY ONLY <2>4, <3>1, <3>2, <3>3 DEF Written
  <2>6. CASE y # new
    <3>1. y = p /\ cur'[y] = IF Exists(cur[y]) THEN [cur[y] EXCEPT !.n = req[r].n + Amount] ELSE cur[y]
      BY <2>4, <2>6
    <3> QED
      BY <1>15, <2>2, <2>4, <3>1, PlaceOf DEF Written
  <2> QED
    BY <2>5, <2>6
<1>16. CASE Mark(r)
  <2>1. Update(r, One(Kind(req[r].op), req[r].of), Is("done"))
    BY <1>16, Zenon DEF Mark, Kind
  <2>2. /\ y = One(Kind(req[r].op), req[r].of) /\ Mine(r, y) /\ lock'[y] = r
        /\ cur'[y] = IF Exists(cur[y]) THEN Is("done") ELSE cur[y]
    BY ONLY <1>0, <2>1, UpdateTouches, r \in Reqs, y \in menu.rows, Touched(y), Zenon
  <2>3. req[r].at = "mark"
    BY <1>16, PlaceOf
  <2> QED
    BY ONLY <2>2, <2>3 DEF Written
<1>17. CASE Bet(r)
  <2> DEFINE p == One("purse", req[r].of)
  <2>1. ~ Reply(r, 200)
    BY KeptTouches DEF Reply
  <2>2. PICK n \in {req[r].n - 1, req[r].n + 1} : WriteOne(r, p, [cur[p] EXCEPT !.n = n])
    BY <1>17, <2>1, Zenon DEF Bet
  <2>3. Mine(r, p) /\ cur[p].st = "live"
    BY <1>17, <2>1, Zenon DEF Bet
  <2> HIDE DEF p
  <2>4. y = p /\ lock'[y] = r /\ cur'[y] = [cur[p] EXCEPT !.n = n]
    BY <1>0, <2>2, WriteOneTouches, Zenon
  <2>5. req[r].at = "bet"
    BY <1>17, PlaceOf
  <2> QED
    BY ONLY <2>2, <2>3, <2>4, <2>5, Zenon DEF Written, p
<1>18. CASE SaveFound(r)
  <2> DEFINE row == [st |-> "live", n |-> IF req[r].op = "read" THEN 1 ELSE 0]
  <2>1. Update(r, req[r].row, row)
    BY <1>18, Zenon DEF SaveFound
  <2> HIDE DEF row
  <2>2. /\ y = req[r].row /\ Mine(r, y) /\ lock'[y] = r
        /\ cur'[y] = IF Exists(cur[y]) THEN row ELSE cur[y]
    BY ONLY <1>0, <2>1, UpdateTouches, r \in Reqs, y \in menu.rows, Touched(y), Zenon
  <2>3. Exists(row)
    BY DEF Exists, row
  <2>4. req[r].at = "update"
    BY <1>18, PlaceOf
  <2> QED
    BY ONLY <2>2, <2>3, <2>4 DEF Written
<1>19. CASE LockWallet(r)
  <2>1. ~ Go(r, "insert")
    BY KeptTouches DEF Go
  <2>2. Mine(r, req[r].row) /\ Exists(cur[req[r].row]) /\ WriteOne(r, req[r].row, cur[req[r].row])
    BY <1>19, <2>1, Zenon DEF LockWallet
  <2>3. y = req[r].row /\ lock'[y] = r /\ cur'[y] = cur[req[r].row]
    BY <1>0, <2>2, WriteOneTouches
  <2>4. req[r].at = "update"
    BY <1>19, PlaceOf
  <2> QED
    BY ONLY <2>2, <2>3, <2>4 DEF Written
<1>20. CASE Destroy(r)
  <2>1. Update(r, req[r].row, Is("gone"))
    BY <1>20 DEF Destroy
  <2>2. /\ y = req[r].row /\ Mine(r, y) /\ lock'[y] = r
        /\ cur'[y] = IF Exists(cur[y]) THEN Is("gone") ELSE cur[y]
    BY ONLY <1>0, <2>1, UpdateTouches, r \in Reqs, y \in menu.rows, Touched(y), Zenon
  <2>3. ~ Exists(Is("gone"))
    BY DEF Exists, Is
  <2>4. req[r].at = "destroy"
    BY <1>20, PlaceOf
  <2> QED
    BY ONLY <2>2, <2>3, <2>4 DEF Written
<1>21. CASE InsertNew(r)
  <2>1. CASE req[r].op = "close"
    <3>1. Unused("closure", req[r].of) # {} /\ WriteOne(r, Next1(Unused("closure", req[r].of)), Is("live"))
      BY <1>21, <2>1, Zenon DEF InsertNew
    <3>2. y \in Unused("closure", req[r].of) /\ lock'[y] = r /\ cur'[y] = Is("live")
      BY <1>0, <3>1, FreshRow, WriteOneTouches
    <3> QED
      BY <1>1, <1>21, <2>1, <3>2, TableOfIs, PlaceOf DEF Written
  <2>2. CASE req[r].op # "close"
    <3>1. Inserted(r, TableOf(req[r].op), req[r].of, Is("live"))
      BY <1>21, <2>2, Zenon DEF InsertNew, Inserted
    <3> DEFINE table == TableOf(req[r].op)
               t == req[r].of
               row == Is("live")
    <3>2. Inserted(r, table, t, row)
      BY <3>1
    <3> HIDE DEF table, t, row
    <3>3. y \in Unused(table, t) /\ y[2] = t /\ lock'[y] = r /\ cur'[y] = row /\ TenantFree(r, t) /\ TenantThere(t)
      BY ONLY <1>0, <3>2, InsertedTouches, r \in Reqs, y \in menu.rows, Touched(y), SMTT(30)
    <3> QED
      BY <1>1, <1>21, <3>3, PlaceOf DEF Written, table, t, row
  <2> QED
    BY <2>1, <2>2
<1>22. CASE Notify(r)
  <2>1. ~ Reply(r, 200) /\ ~ UNCHANGED Kept
    BY KeptTouches DEF Reply
  <2>2. PICK z \in req[r].rows : Update(r, z, cur[z]) \/ Update(r, z, Is("inactive"))
    BY <1>22, <2>1, Zenon DEF Notify
  <2>3. PICK row : Update(r, z, row)
    BY <2>2
  <2>4. y = z /\ Mine(r, y) /\ lock'[y] = r /\ cur'[y] = IF Exists(cur[y]) THEN row ELSE cur[y]
    BY ONLY <1>0, <2>3, UpdateTouches, r \in Reqs, y \in menu.rows, Touched(y), Zenon
  <2>5. req[r].at = "notify"
    BY <1>22, PlaceOf
  <2> QED
    BY ONLY <2>4, <2>5 DEF Written
<1>23. CASE UpsertKey(r)
  <2>1. ~ Reply(r, 500)
    BY KeptTouches DEF Reply
  <2>2. /\ Mine(r, One("key", req[r].of)) /\ TenantFree(r, req[r].of) /\ TenantThere(req[r].of)
        /\ WriteOne(r, One("key", req[r].of), Is("live"))
    BY <1>23, <2>1, Zenon DEF UpsertKey
  <2>3. y = One("key", req[r].of) /\ lock'[y] = r /\ y[2] = req[r].of
    BY <1>0, <2>2, WriteOneTouches DEF One
  <2> QED
    BY <1>23, <2>2, <2>3, PlaceOf DEF Written
<1> QED
  BY <1>2, <1>3, <1>4, <1>5, <1>6, <1>7, <1>8, <1>9, <1>10, <1>11, <1>12, <1>13, <1>14, <1>15, <1>16, <1>17, <1>18,
     <1>19, <1>20, <1>21, <1>22, <1>23, Zenon DEF HandlerActs

-----------------------------------------------------------------------------
(* What a step leaves in its request's record, and where the handler is then *)

Answered(u, code) == u.at = "respond" /\ u.status = code

LEMMA ReplyIs ==
  ASSUME TypeOK, NEW r \in Reqs, NEW code, req' = Answer(r, code)
  PROVE  Only(req'[r], req[r], {"at", "status"}) /\ Answered(req'[r], code)
<1>1. req \in [Reqs -> Records(Type)] /\ r \in Reqs
  BY Fielded
<1> QED
  BY ONLY <1>1, req' = Answer(r, code), SMT DEF Records, Only, Answer, Answered

LEMMA GoIs ==
  ASSUME TypeOK, NEW r \in Reqs, NEW place, req' = Goto(r, place)
  PROVE  Only(req'[r], req[r], {"at"}) /\ req'[r].at = place
<1>1. req \in [Reqs -> Records(Type)] /\ r \in Reqs
  BY Fielded
<1> QED
  BY ONLY <1>1, req' = Goto(r, place), SMT DEF Records, Only, Goto

LEMMA StartIs ==
  ASSUME TypeOK, NEW r \in Reqs, req' = Start(r)
  PROVE  /\ Only(req'[r], req[r], {"at", "patched", "todo"}) /\ req'[r].at = AuthPlace(req[r].op)
         /\ req[r].op = "brand" => req'[r].patched = Fields
<1> DEFINE at == AuthPlace(req[r].op)
           patched == IF req[r].op = "brand" THEN Fields ELSE {}
           todo == IF req[r].op \in {"thread", "purge"} THEN <<Messages(req[r].of)>> ELSE << >>
<1>1. req' = [req EXCEPT ![r].at = at, ![r].patched = patched, ![r].todo = todo]
  BY Zenon DEF Start
<1>2. req[r].op = "brand" => patched = Fields
  OBVIOUS
<1>3. req \in [Reqs -> Records(Type)] /\ r \in Reqs
  BY Fielded
<1> HIDE DEF at, patched, todo
<1>4. Only(req'[r], req[r], {"at", "patched", "todo"}) /\ req'[r].at = at /\ req'[r].patched = patched
  BY ONLY <1>1, <1>3, SMT DEF Records, Only
<1> QED
  BY <1>2, <1>4 DEF at

\* Letting in.
LEMMA AuthIs ==
  ASSUME TypeOK, NEW r \in Reqs, OwnerAuth(r) \/ StaffAuth(r) \/ NoAuth(r)
  PROVE  /\ req[r].at = "auth" /\ UNCHANGED Kept
         /\ \/ /\ req' = Start(r)
               /\ Resolved(req[r].op) => TenantThere(req[r].of) \/ Present("staff", req[r].of) # {}
            \/ \E code \in {401, 404, 500} : req' = Answer(r, code)
<1>1. req[r].at = "auth" /\ UNCHANGED Kept
  BY Zenon DEF OwnerAuth, StaffAuth, NoAuth, At
<1>2. CASE OwnerAuth(r)
  BY <1>1, <1>2 DEF OwnerAuth, Resolved
<1>3. CASE StaffAuth(r)
  BY <1>1, <1>3 DEF StaffAuth, Resolved
<1>4. CASE NoAuth(r)
  BY <1>1, <1>4 DEF NoAuth, Resolved
<1> QED
  BY <1>2, <1>3, <1>4

LEMMA LoadIs ==
  ASSUME TypeOK, NEW r \in Reqs, Load(r)
  PROVE  \/ Reply(r, 400)
         \/ /\ UNCHANGED Kept /\ Only(req'[r], req[r], {"at", "patched", "seen"}) /\ req'[r].at = "save"
            /\ req'[r].seen = [f \in Fields |-> db[<<"settings", req[r].of, f>>].n]
<1> SUFFICES ASSUME ~ Reply(r, 400) PROVE
        /\ UNCHANGED Kept /\ Only(req'[r], req[r], {"at", "patched", "seen"}) /\ req'[r].at = "save"
        /\ req'[r].seen = [f \in Fields |-> db[<<"settings", req[r].of, f>>].n]
  OBVIOUS
<1> DEFINE seen == [f \in Fields |-> db[<<"settings", req[r].of, f>>].n]
<1>1. UNCHANGED Kept /\ \E F : req' = [req EXCEPT ![r].at = "save", ![r].patched = F, ![r].seen = seen]
  BY Zenon DEF Load
<1>2. req \in [Reqs -> Records(Type)] /\ r \in Reqs
  BY Fielded
<1> HIDE DEF seen
<1>3. Only(req'[r], req[r], {"at", "patched", "seen"}) /\ req'[r].at = "save" /\ req'[r].seen = seen
  BY ONLY <1>1, <1>2, SMT DEF Records, Only
<1> QED
  BY <1>1, <1>3 DEF seen

\* At the places of a handler but for the letting in and the wipes.
LEMMA Course ==
  ASSUME TypeOK, NEW r \in Reqs, HandlerActs(r)
  PROVE  LET w == req[r]
             u == req'[r] IN
         /\ w.at = "save" => Only(u, w, {"at", "status"}) /\ u.at = "respond"
         /\ w.at = "check" => Only(u, w, {"at", "status"}) /\ u.at \in {"insertTenant", "respond"}
         /\ w.at = "insertTenant" => \/ UNCHANGED Kept /\ Only(u, w, {"at", "status"}) /\ Answered(u, 409)
                                     \/ Only(u, w, {"at", "patched"}) /\ u.at = "audit" /\ u.patched = Fields
         /\ w.at = "dropTenant" => Only(u, w, {"at"}) /\ u.at = "audit"
         /\ w.at = "root" => Only(u, w, {"at", "status"}) /\ u.at \in {"password", "respond"}
         /\ w.at = "password" => Only(u, w, {"at"}) /\ u.at = "rootKey"
         /\ w.at = "rootKey" => Only(u, w, {"at"}) /\ u.at = "audit"
         /\ w.at = "audit" => \/ Only(u, w, {"at", "status"}) /\ u.at = "respond"
                              \/ Only(u, w, {"at", "row"}) /\ u.at = "stamped"
         /\ w.at = "stamped" => Only(u, w, {"at", "n"}) /\ u.at = "chain"
         /\ w.at = "chain" => Only(u, w, {"at", "status", "tx"}) /\ u.at = "respond"
         /\ w.at = "intent" => Only(u, w, {"at", "status"}) /\ u.at \in {"balance", "mark", "respond"}
         /\ w.at = "balance" => \/ Only(u, w, {"at", "n"}) /\ u.at = "credit" /\ u.n = db[One("purse", w.of)].n
                                \/ Only(u, w, {"at"}) /\ u.at = "mark"
         /\ w.at = "credit" => \/ UNCHANGED Kept /\ Only(u, w, {"at", "status"}) /\ Answered(u, 500)
                               \/ Only(u, w, {"at"}) /\ u.at = "mark"
         /\ w.at = "purse" => \/ Only(u, w, {"at", "n"}) /\ u.at = "bet" /\ u.n = db[One("purse", w.of)].n
                              \/ Only(u, w, {"at", "status"}) /\ u.at = "respond"
         /\ w.at \in {"mark", "bet", "destroy", "upsert"} => Only(u, w, {"at", "status"}) /\ u.at = "respond"
         /\ w.at = "cashier" => Only(u, w, {"at", "status"}) /\ u.at \in {"find", "respond"}
         /\ w.at = "find" => Only(u, w, {"at", "row", "status"}) /\ u.at \in {"insert", "update", "destroy", "respond"}
         /\ w.at = "update" => Only(u, w, {"at", "status"}) /\ u.at \in {"audit", "insert", "respond"}
         /\ w.at = "insert" => Only(u, w, {"at", "status"}) /\ u.at \in {"audit", "devices", "respond"}
         /\ w.at = "recipient" => Only(u, w, {"at", "status"}) /\ u.at \in {"insert", "respond"}
         /\ w.at = "devices" => Only(u, w, {"at", "rows"}) /\ u.at = "notify"
         /\ w.at = "notify" => Only(u, w, {"at", "rows", "status"}) /\ u.at \in {"notify", "respond"}
<1> DEFINE w == req[r]
           u == req'[r]
<1>0. req \in [Reqs -> Records(Type)] /\ r \in Reqs
  BY Fielded
<1>1. w.at = "save" => Only(u, w, {"at", "status"}) /\ u.at = "respond"
  BY StepAt, ReplyIs, SMT DEF Save, Answered
<1>2. w.at = "check" => Only(u, w, {"at", "status"}) /\ u.at \in {"insertTenant", "respond"}
  BY StepAt, ReplyIs, GoIs, SMT DEF CheckName, Reply, Go, Only, Answered
<1>3. w.at = "insertTenant" => \/ UNCHANGED Kept /\ Only(u, w, {"at", "status"}) /\ Answered(u, 409)
                               \/ Only(u, w, {"at", "patched"}) /\ u.at = "audit" /\ u.patched = Fields
  <2> SUFFICES ASSUME w.at = "insertTenant", ~ Reply(r, 409)
               PROVE  Only(u, w, {"at", "patched"}) /\ u.at = "audit" /\ u.patched = Fields
    BY ReplyIs DEF Reply
  <2>1. req' = [req EXCEPT ![r].at = "audit", ![r].patched = Fields]
    BY StepAt, Zenon DEF InsertTenant
  <2> QED
    BY ONLY <1>0, <2>1, SMT DEF Records, Only
<1>4. /\ w.at = "dropTenant" => Only(u, w, {"at"}) /\ u.at = "audit"
      /\ w.at = "root" => Only(u, w, {"at", "status"}) /\ u.at \in {"password", "respond"}
      /\ w.at = "password" => Only(u, w, {"at"}) /\ u.at = "rootKey"
      /\ w.at = "rootKey" => Only(u, w, {"at"}) /\ u.at = "audit"
  <2>1. w.at = "dropTenant" => Only(u, w, {"at"}) /\ u.at = "audit"
    <3>1. w.at = "dropTenant" => req' = Goto(r, "audit")
      BY StepAt, Zenon DEF DropTenant
    <3> QED
      BY <3>1, GoIs
  <2>2. w.at = "root" => Only(u, w, {"at", "status"}) /\ u.at \in {"password", "respond"}
    BY StepAt, GoIs, ReplyIs, SMT DEF FindRoot, Reply, Go, Only, Answered
  <2>3. w.at = "password" => Only(u, w, {"at"}) /\ u.at = "rootKey"
    BY StepAt, GoIs, SMT DEF SavePassword
  <2>4. w.at = "rootKey" => Only(u, w, {"at"}) /\ u.at = "audit"
    BY StepAt, GoIs, SMT DEF UpsertRootKey
  <2> QED
    BY <2>1, <2>2, <2>3, <2>4
<1>5. w.at = "audit" => \/ Only(u, w, {"at", "status"}) /\ u.at = "respond"
                        \/ Only(u, w, {"at", "row"}) /\ u.at = "stamped"
  <2>1. w.at = "audit" => req' = Done(r) \/ req' = [req EXCEPT ![r].at = "stamped", ![r].row = Next1(Later(w.of))]
    BY StepAt, Zenon DEF StampRecord
  <2>2. \E code : Done(r) = Answer(r, code)
    BY DEF Done
  <2>3. ASSUME NEW y, req' = [req EXCEPT ![r].at = "stamped", ![r].row = y]
        PROVE  Only(u, w, {"at", "row"}) /\ u.at = "stamped"
    BY ONLY <1>0, <2>3, SMT DEF Records, Only
  <2> QED
    BY <2>1, <2>2, <2>3, ReplyIs DEF Answered
<1>6. w.at = "stamped" => Only(u, w, {"at", "n"}) /\ u.at = "chain"
  <2>1. w.at = "stamped" => \E p : req' = [req EXCEPT ![r].at = "chain", ![r].n = p]
    BY StepAt, Zenon DEF ReadChain
  <2> QED
    BY ONLY <1>0, <2>1, SMT DEF Records, Only
<1>7. w.at = "chain" => Only(u, w, {"at", "status", "tx"}) /\ u.at = "respond"
  <2>1. w.at = "chain" => req' = Done(r) \/ req' = [Done(r) EXCEPT ![r].tx = "aborted"]
    BY StepAt, Zenon DEF WriteChain
  <2>2. \E code : Done(r) = Answer(r, code)
    BY DEF Done
  <2> QED
    BY ONLY <1>0, <2>1, <2>2, SMT DEF Answer, Records, Only
<1>8. /\ w.at = "intent" => Only(u, w, {"at", "status"}) /\ u.at \in {"balance", "mark", "respond"}
      /\ w.at = "balance" => \/ Only(u, w, {"at", "n"}) /\ u.at = "credit" /\ u.n = db[One("purse", w.of)].n
                             \/ Only(u, w, {"at"}) /\ u.at = "mark"
      /\ w.at = "credit" => \/ UNCHANGED Kept /\ Only(u, w, {"at", "status"}) /\ Answered(u, 500)
                            \/ Only(u, w, {"at"}) /\ u.at = "mark"
  <2>1. w.at = "intent" => Only(u, w, {"at", "status"}) /\ u.at \in {"balance", "mark", "respond"}
    BY StepAt, GoIs, ReplyIs, SMT DEF ReadIntent, Reply, Go, Only, Answered
  <2>2. w.at = "balance" => \/ Only(u, w, {"at", "n"}) /\ u.at = "credit" /\ u.n = db[One("purse", w.of)].n
                            \/ Only(u, w, {"at"}) /\ u.at = "mark"
    <3>1. w.at = "balance" => \/ req' = [req EXCEPT ![r].at = "credit", ![r].n = db[One("purse", w.of)].n]
                              \/ req' = Goto(r, "mark")
      BY StepAt, Zenon DEF ReadBalance
    <3> QED
      BY ONLY <1>0, <3>1, SMT DEF Goto, Records, Only
  <2>3. w.at = "credit" => \/ UNCHANGED Kept /\ Only(u, w, {"at", "status"}) /\ Answered(u, 500)
                           \/ Only(u, w, {"at"}) /\ u.at = "mark"
    <3>1. w.at = "credit" => Reply(r, 500) \/ req' = Goto(r, "mark")
      BY StepAt, Zenon DEF Credit
    <3> QED
      BY <3>1, GoIs, ReplyIs DEF Reply
  <2> QED
    BY <2>1, <2>2, <2>3
<1>9. w.at \in {"mark", "bet", "destroy", "upsert"} => Only(u, w, {"at", "status"}) /\ u.at = "respond"
  <2>1. w.at \in {"mark", "bet", "destroy", "upsert"} => \E code : req' = Answer(r, code)
    <3>1. (Mark(r) => req' = Answer(r, 200)) /\ (Destroy(r) => req' = Answer(r, 200))
      BY Zenon DEF Mark, Destroy
    <3>2. /\ Bet(r) => req' = Answer(r, 200)
          /\ UpsertKey(r) => req' = Answer(r, 500) \/ req' = Answer(r, 200)
      BY Zenon DEF Bet, UpsertKey, Reply
    <3>3. /\ w.at = "mark" => Mark(r)
          /\ w.at = "bet" => Bet(r)
          /\ w.at = "destroy" => Destroy(r)
          /\ w.at = "upsert" => UpsertKey(r)
      BY StepAt
    <3> QED
      BY ONLY <3>1, <3>2, <3>3
  <2> QED
    BY <2>1, ReplyIs DEF Answered
<1>10. /\ w.at = "cashier" => Only(u, w, {"at", "status"}) /\ u.at \in {"find", "respond"}
       /\ w.at = "recipient" => Only(u, w, {"at", "status"}) /\ u.at \in {"insert", "respond"}
  <2>1. w.at = "cashier" => Go(r, "find") \/ Reply(r, 404)
    BY StepAt, Zenon DEF Cashier
  <2>2. w.at = "recipient" => Go(r, "insert") \/ Reply(r, 404)
    BY StepAt, Zenon DEF Recipient
  <2> QED
    BY <2>1, <2>2, GoIs, ReplyIs DEF Go, Reply, Only, Answered
<1>11. w.at = "find" => Only(u, w, {"at", "row", "status"}) /\ u.at \in {"insert", "update", "destroy", "respond"}
  <2> DEFINE missing == IF w.op \in {"close", "register", "credits"} THEN Goto(r, "insert") ELSE Answer(r, 404)
             place == IF w.op \in {"unregister", "drop"} THEN "destroy" ELSE "update"
  <2>1. w.at = "find" => \/ req' = missing \/ req' = Answer(r, 403)
                         \/ \E y : req' = [req EXCEPT ![r].row = y, ![r].at = place]
    <3>1. w.at = "find" => Find(r)
      BY StepAt
    <3> QED
      BY ONLY <3>1, Zenon DEF Find
  <2>2. missing \in {Goto(r, "insert"), Answer(r, 404)} /\ place \in {"update", "destroy"}
    OBVIOUS
  <2> HIDE DEF missing, place
  <2>3. ASSUME NEW y, req' = [req EXCEPT ![r].row = y, ![r].at = place]
        PROVE  Only(u, w, {"at", "row", "status"}) /\ u.at \in {"update", "destroy"}
    BY ONLY <1>0, <2>2, <2>3, SMT DEF Records, Only
  <2>4. req' = missing => Only(u, w, {"at", "row", "status"}) /\ u.at \in {"insert", "respond"}
    BY <2>2, GoIs, ReplyIs DEF Only, Answered
  <2>5. req' = Answer(r, 403) => Only(u, w, {"at", "row", "status"}) /\ u.at = "respond"
    BY ReplyIs DEF Only, Answered
  <2> QED
    BY ONLY <2>1, <2>3, <2>4, <2>5
<1>12. /\ w.at = "update" => Only(u, w, {"at", "status"}) /\ u.at \in {"audit", "insert", "respond"}
       /\ w.at = "insert" => Only(u, w, {"at", "status"}) /\ u.at \in {"audit", "devices", "respond"}
  <2>1. w.at = "update" => req' = Goto(r, "audit") \/ req' = Goto(r, "insert") \/ req' = Answer(r, 200)
    BY StepAt, Zenon DEF SaveFound, LockWallet, Go
  <2>2. w.at = "insert" => req' = Goto(r, "audit") \/ req' = Goto(r, "devices") \/ \E code : req' = Answer(r, code)
    BY StepAt DEF InsertNew, Insert, Reply
  <2> QED
    BY <2>1, <2>2, GoIs, ReplyIs DEF Only, Answered
<1>13. /\ w.at = "devices" => Only(u, w, {"at", "rows"}) /\ u.at = "notify"
       /\ w.at = "notify" => Only(u, w, {"at", "rows", "status"}) /\ u.at \in {"notify", "respond"}
  <2>1. w.at = "devices" => \E Y : req' = [req EXCEPT ![r].at = "notify", ![r].rows = Y]
    BY StepAt, Zenon DEF Devices
  <2>2. w.at = "notify" => (\E Y : req' = [req EXCEPT ![r].rows = Y]) \/ req' = Answer(r, 200)
    BY StepAt DEF Notify, Reply
  <2>3. ASSUME NEW Y, req' = [req EXCEPT ![r].at = "notify", ![r].rows = Y]
        PROVE  Only(u, w, {"at", "rows"}) /\ u.at = "notify"
    BY ONLY <1>0, <2>3, SMT DEF Records, Only
  <2>4. ASSUME NEW Y, req' = [req EXCEPT ![r].rows = Y]
        PROVE  Only(u, w, {"rows"})
    BY ONLY <1>0, <2>4, SMT DEF Records, Only
  <2> QED
    BY <2>1, <2>2, <2>3, <2>4, ReplyIs DEF Only, Answered
<1>14. w.at = "purse" => \/ Only(u, w, {"at", "n"}) /\ u.at = "bet" /\ u.n = db[One("purse", w.of)].n
                         \/ Only(u, w, {"at", "status"}) /\ u.at = "respond"
  <2>1. w.at = "purse" => \/ req' = [req EXCEPT ![r].at = "bet", ![r].n = db[One("purse", w.of)].n]
                          \/ req' = Answer(r, 404)
    BY StepAt, Zenon DEF ReadPurse
  <2> QED
    BY ONLY <1>0, <2>1, SMT DEF Answer, Records, Only
<1> QED
  BY ONLY <1>1, <1>2, <1>3, <1>4, <1>5, <1>6, <1>7, <1>8, <1>9, <1>10, <1>11, <1>12, <1>13, <1>14

LEMMA ConfirmIs ==
  ASSUME TypeOK, NEW r \in Reqs, Confirm(r)
  PROVE  /\ req[r].at = "confirm" /\ UNCHANGED Kept
         /\ \/ Only(req'[r], req[r], {"at", "status"}) /\ Answered(req'[r], 403)
            \/ /\ Only(req'[r], req[r], {"at", "left"}) /\ req'[r].at = "next"
               /\ req'[r].left = IF req[r].op = "wipe" THEN {req[r].of} ELSE {t \in Tenants : TenantThere(t)}
<1> DEFINE left == IF req[r].op = "wipe" THEN {req[r].of} ELSE {t \in Tenants : TenantThere(t)}
<1>1. /\ req[r].at = "confirm" /\ UNCHANGED Kept
      /\ req' = Answer(r, 403) \/ req' = [req EXCEPT ![r].at = "next", ![r].left = left]
  BY Zenon DEF Confirm, Reply, At
<1>2. req \in [Reqs -> Records(Type)] /\ r \in Reqs
  BY Fielded
<1> HIDE DEF left
<1>3. req' = [req EXCEPT ![r].at = "next", ![r].left = left] =>
        Only(req'[r], req[r], {"at", "left"}) /\ req'[r].at = "next" /\ req'[r].left = left
  BY ONLY <1>2, SMT DEF Records, Only
<1> QED
  BY <1>1, <1>3, ReplyIs DEF left

LEMMA LockTenantIs ==
  ASSUME TypeOK, NEW r \in Reqs, LockTenant(r)
  PROVE  LET t == req[r].of
             x == One("tenant", t) IN
         /\ req[r].at = "lock" /\ Mine(r, x) /\ Inserters(t) \subseteq {r}
         /\ \/ UNCHANGED Kept /\ Only(req'[r], req[r], {"at", "status"}) /\ Answered(req'[r], 404)
            \/ /\ TenantThere(t) /\ Write(r, {x}, cur) /\ Only(req'[r], req[r], {"at", "todo"})
               /\ req'[r].at = "next" /\ req'[r].todo = WipeOrder(t) \o Leftovers(t)
<1> DEFINE t == req[r].of
           x == One("tenant", t)
           todo == WipeOrder(t) \o Leftovers(t)
<1>1. /\ req[r].at = "lock" /\ Mine(r, x) /\ Inserters(t) \subseteq {r}
      /\ \/ Reply(r, 404)
         \/ TenantThere(t) /\ Write(r, {x}, cur) /\ req' = [req EXCEPT ![r].at = "next", ![r].todo = todo]
  BY Zenon DEF LockTenant, At
<1>2. req \in [Reqs -> Records(Type)] /\ r \in Reqs
  BY Fielded
<1>3. Reply(r, 404) => UNCHANGED Kept /\ Only(req'[r], req[r], {"at", "status"}) /\ Answered(req'[r], 404)
  BY ReplyIs DEF Reply
<1> HIDE DEF todo
<1>4. req' = [req EXCEPT ![r].at = "next", ![r].todo = todo] =>
        Only(req'[r], req[r], {"at", "todo"}) /\ req'[r].at = "next" /\ req'[r].todo = todo
  BY ONLY <1>2, SMT DEF Records, Only
<1> USE DEF todo
<1> QED
  BY ONLY <1>1, <1>3, <1>4, Zenon

\* The places of wipes and deletions.
LEMMA WipeCourse ==
  ASSUME TypeOK, NEW r \in Reqs, HandlerActs(r)
  PROVE  LET w == req[r]
             u == req'[r] IN
         /\ w.at = "confirm" => Only(u, w, {"at", "status", "left"}) /\ u.at \in {"next", "respond"}
         /\ w.at = "lock" => Only(u, w, {"at", "status", "todo"}) /\ u.at \in {"next", "respond"}
         /\ w.at = "sweep" => Only(u, w, {"at", "rows", "todo"}) /\ u.at \in {"next", "sweep"}
         /\ w.at = "next" => /\ Only(u, w, {"at", "status", "rows", "todo", "left", "n"})
                             /\ u.at \in {"next", "sweep", "dropTenant", "respond"}
<1> DEFINE w == req[r]
           u == req'[r]
<1>1. w.at = "confirm" => Only(u, w, {"at", "status", "left"}) /\ u.at \in {"next", "respond"}
  <2>1. w.at = "confirm" => Confirm(r)
    BY StepAt
  <2>2. Confirm(r) => \/ Only(u, w, {"at", "status"}) /\ u.at = "respond"
                      \/ Only(u, w, {"at", "left"}) /\ u.at = "next"
    BY ConfirmIs, Zenon DEF Answered
  <2> QED
    BY ONLY <2>1, <2>2, SMT DEF Only
<1>2. w.at = "lock" => Only(u, w, {"at", "status", "todo"}) /\ u.at \in {"next", "respond"}
  <2>1. w.at = "lock" => LockTenant(r)
    BY StepAt
  <2>2. LockTenant(r) => \/ Only(u, w, {"at", "status"}) /\ u.at = "respond"
                         \/ Only(u, w, {"at", "todo"}) /\ u.at = "next"
    BY LockTenantIs, Zenon DEF Answered
  <2> QED
    BY ONLY <2>1, <2>2, SMT DEF Only
<1>3. w.at = "sweep" => Only(u, w, {"at", "rows", "todo"}) /\ u.at \in {"next", "sweep"}
  <2>1. w.at = "sweep" => SweepRow(r)
    BY StepAt
  <2>2. SweepRow(r) => \E Y : Sweeping(r, Y)
    BY Zenon DEF SweepRow
  <2> QED
    BY <2>1, <2>2, SweptIs, SMT
<1>4. w.at = "next" => /\ Only(u, w, {"at", "status", "rows", "todo", "left", "n"})
                       /\ u.at \in {"next", "sweep", "dropTenant", "respond"}
  <2> SUFFICES ASSUME w.at = "next"
               PROVE  /\ Only(u, w, {"at", "status", "rows", "todo", "left", "n"})
                      /\ u.at \in {"next", "sweep", "dropTenant", "respond"}
    OBVIOUS
  <2>1. CASE NextTenant(r)
    BY <2>1, NextTenantIs, SMT DEF Only
  <2>2. CASE StartDelete(r)
    BY <2>2, SweptIs, SMT DEF StartDelete, Only
  <2>3. CASE WipeInsert(r)
    BY <2>3, WipeInsertIs, ReplyIs, SMT DEF Reply, Only, Answered
  <2>4. CASE StatementsDone(r)
    BY <2>4, StatementsDoneIs, SMT DEF Only
  <2> QED
    BY <2>1, <2>2, <2>3, <2>4, StepAt
<1> QED
  BY ONLY <1>1, <1>2, <1>3, <1>4

LEMMA LetInAlone ==
  ASSUME TypeOK, NEW r \in Reqs, HandlerActs(r), req[r].at = "auth"
  PROVE  /\ Only(req'[r], req[r], {"at", "status", "patched", "todo"}) /\ UNCHANGED Kept
         /\ req'[r].seen = req[r].seen
<1>1. OwnerAuth(r) \/ StaffAuth(r) \/ NoAuth(r)
  BY StepAt
<1>2. UNCHANGED Kept /\ (req' = Start(r) \/ \E code : req' = Answer(r, code))
  BY <1>1, AuthIs
<1> QED
  BY <1>2, StartIs, ReplyIs, SMT DEF Only

LEMMA LetInCourse ==
  ASSUME TypeOK, NEW r \in Reqs, HandlerActs(r), req[r].at \in {"auth", "load"}
  PROVE  Only(req'[r], req[r], {"at", "status", "patched", "seen", "todo"}) /\ UNCHANGED Kept
<1>1. CASE req[r].at = "auth"
  BY <1>1, LetInAlone, SMT DEF Only
<1>2. CASE req[r].at = "load"
  <2>1. Load(r)
    BY <1>2, StepAt
  <2>2. UNCHANGED Kept /\ (req' = Answer(r, 400) \/ Only(req'[r], req[r], {"at", "patched", "seen"}))
    BY <2>1, LoadIs, Zenon DEF Reply
  <2>3. req' = Answer(r, 400) => Only(req'[r], req[r], {"at", "status"})
    BY ReplyIs
  <2> QED
    BY ONLY <2>2, <2>3, SMT DEF Only
<1> QED
  BY <1>1, <1>2

\* Which steps change what a request has read.
LEMMA ReadOnce ==
  ASSUME TypeOK, NEW r \in Reqs, HandlerActs(r)
  PROVE  LET w == req[r]
             u == req'[r] IN
         /\ w.at \notin {"auth", "load", "insertTenant"} => u.patched = w.patched
         /\ w.at # "load" => u.seen = w.seen
         /\ w.at \notin {"audit", "find"} => u.row = w.row
         /\ w.at \notin {"stamped", "balance", "purse", "next"} => u.n = w.n
         /\ w.at \notin {"confirm", "next"} => u.left = w.left
         /\ w.at \in Places
<1> DEFINE w == req[r]
           u == req'[r]
<1>1. w.at \in Places
  BY DEF TypeOK, Work
<1>2. CASE w.at \in {"auth", "load"}
  <2>1. Only(u, w, {"at", "status", "patched", "seen", "todo"})
    BY <1>2, LetInCourse
  <2>2. w.at = "auth" => u.seen = w.seen
    BY LetInAlone
  <2> QED
    BY ONLY <1>1, <1>2, <2>1, <2>2, SMT DEF Only
<1>3. CASE w.at \in {"confirm", "lock", "sweep", "next"}
  <2>1. /\ w.at = "confirm" => Only(u, w, {"at", "status", "left"})
        /\ w.at = "lock" => Only(u, w, {"at", "status", "todo"})
        /\ w.at = "sweep" => Only(u, w, {"at", "rows", "todo"})
        /\ w.at = "next" => Only(u, w, {"at", "status", "rows", "todo", "left", "n"})
    BY WipeCourse
  <2> QED
    BY ONLY <1>1, <1>3, <2>1, SMT DEF Only
<1>4. CASE w.at \in {"save", "check", "insertTenant", "dropTenant", "root", "password", "rootKey", "audit", "stamped"}
  BY <1>1, <1>4, Course, SMT DEF Only
<1>5. CASE w.at \in {"chain", "intent", "balance", "credit", "mark", "purse", "bet", "destroy", "upsert", "cashier"}
  BY <1>1, <1>5, Course, SMT DEF Only
<1>6. CASE w.at \in {"find", "update", "insert", "recipient", "devices", "notify"}
  BY <1>1, <1>6, Course, SMT DEF Only
<1>7. w.at \notin {"idle", "respond"}
  BY StepAt
<1> QED
  BY <1>1, <1>2, <1>3, <1>4, <1>5, <1>6, <1>7 DEF Places

-----------------------------------------------------------------------------
(* Settings *)

LEMMA SettingsInitially == Init => SettingsPart
<1> SUFFICES ASSUME Init PROVE SettingsPart
  OBVIOUS
<1>1. (\A r \in Reqs : req[r].at = "idle") /\ \A y \in menu.rows : lock[y] = NoReq
  BY DEF Init, NoWork
<1> QED
  BY <1>1, NamesAssumption DEF SettingsPart, SettingsHeld

\* Where a settings row gets a version from.
LEMMA SettingsWritten ==
  ASSUME IInv, NEW r \in Reqs, HandlerActs(r), NEW y \in menu.rows, y[1] = "settings", Touched(y), cur'[y].st = "live"
  PROVE  \/ req[r].at = "insertTenant"
         \/ req[r].at = "save" /\ y \in Of("settings", req[r].of)
            /\ (y[3] \in req[r].patched \/ cur'[y].n = req[r].seen[y[3]])
<1> DEFINE w == req[r]
<1>0. TypeOK /\ Local(w)
  BY DEF IInv, LocalPart
<1>1. Written(r, y)
  BY WrittenBy
<1>2. w.at \notin {"lock", "password", "rootKey", "upsert", "bet"}
  BY <1>1, SMT DEF Written, One
<1>3. w.at \notin {"sweep", "dropTenant"}
  BY <1>1, SMT DEF Written, Is
<1>4. w.at # "next"
  <2> SUFFICES ASSUME w.at = "next" PROVE FALSE
    OBVIOUS
  <2>1. w.todo # << >> /\ Head(w.todo).sql = "INSERT" /\ y \in Unused(Head(w.todo).table, Head(w.todo).of)
    BY <1>1 DEF Written
  <2>2. Head(w.todo) = w.todo[1] /\ 1 \in DOMAIN w.todo
    BY <1>0, <2>1 DEF TypeOK, Work
  <2>3. Head(w.todo).table \in Balances
    BY <1>0, <2>1, <2>2 DEF Local, Meant
  <2> QED
    BY <2>1, <2>3 DEF Unused, Of, Balances
<1>5. w.at \notin {"credit", "mark"}
  BY <1>1, SMT DEF Written, Unused, Of, One, Kind
<1>6. w.at # "insert"
  BY <1>0, <1>1, SMT DEF Written, Unused, Of, TableOf
<1>7. w.at \notin {"update", "destroy"}
  <2> SUFFICES ASSUME w.at \in {"update", "destroy"} PROVE FALSE
    OBVIOUS
  <2>1. y \in Of(TableOf(w.op), w.of)
    BY <1>0, <1>1 DEF Written, Local
  <2>2. TableOf(w.op) \in {"closure", "wallet", "device", "message"}
    BY DEF TableOf
  <2> QED
    BY <2>1, <2>2 DEF Of
<1>8. w.at \notin {"notify", "chain"}
  <2> SUFFICES ASSUME w.at \in {"notify", "chain"} PROVE FALSE
    OBVIOUS
  <2>1. y \in Of("device", w.of) \cup Of("audit", w.of)
    BY <1>0, <1>1 DEF Written, Local
  <2> QED
    BY <2>1 DEF Of
<1> QED
  BY <1>1, <1>2, <1>3, <1>4, <1>5, <1>6, <1>7, <1>8, SMT DEF Written

\* How a request comes to save settings.
LEMMA SettingsRead ==
  ASSUME IInv, NEW r \in Reqs, HandlerActs(r), req'[r].at = "save", NEW y \in Of("settings", req[r].of)
  PROVE  y[3] \in req'[r].patched \/ req'[r].seen[y[3]] = db[y].n
<1>0. TypeOK /\ Local(req[r]) /\ y \in Rows /\ y[3] \in Fields
  <2>1. y \in Rows /\ y[1] = "settings"
    BY MenuAssumption DEF IInv, TypeOK, Of
  <2> QED
    BY <2>1, NumbersAssumption DEF IInv, LocalPart
<1>1. CASE req[r].at = "auth"
  <2>1. OwnerAuth(r) \/ StaffAuth(r) \/ NoAuth(r)
    BY <1>1, StepAt
  <2>2. req' = Start(r) \/ \E code : req' = Answer(r, code)
    BY <1>0, <2>1, AuthIs
  <2>3. req' = Start(r)
    BY <1>0, <2>2, ReplyIs DEF Answered
  <2>4. AuthPlace(req[r].op) = "save" /\ (req[r].op = "brand" => req'[r].patched = Fields)
    BY <1>0, <2>3, StartIs
  <2>5. req[r].op = "brand"
    BY <2>4 DEF AuthPlace
  <2> QED
    BY <1>0, <2>4, <2>5
<1>2. CASE req[r].at = "load"
  <2>1. Load(r)
    BY <1>2, StepAt
  <2>2. ~ Reply(r, 400)
    BY <1>0, ReplyIs DEF Reply, Answered
  <2>3. req'[r].seen = [f \in Fields |-> db[<<"settings", req[r].of, f>>].n]
    BY <1>0, <2>1, <2>2, LoadIs
  <2>4. y = <<"settings", req[r].of, y[3]>>
    BY <1>0, RowsAssumption DEF Of
  <2> QED
    BY <1>0, <2>3, <2>4
<1>3. CASE req[r].at \notin {"auth", "load"}
  <2>1. req[r].at \in Early
    BY <1>0, EarlySteps DEF Early
  <2>2. req[r].at \notin {"save", "check", "insertTenant", "root", "password", "intent", "balance", "credit", "purse", "bet",
                           "cashier", "find", "insert", "update", "destroy", "recipient", "upsert"}
    BY <1>0, Course, SMT DEF Answered
  <2>3. req[r].at \notin {"confirm", "lock"}
    BY <1>0, WipeCourse, SMT
  <2> QED
    BY <1>3, <2>1, <2>2, <2>3 DEF Early
<1> QED
  BY <1>1, <1>2, <1>3

LEMMA SettingsMatter ==
  ASSUME NEW op \in {"system", "brand", "config", "ownerConfig"}, NEW s, NEW y \in Of("settings", s)
  PROVE  Cares(op, s, y)
<1>1. y[1] = "settings" /\ y[2] = s
  BY DEF Of
<1>2. Matters(op, y) = (y[1] \in {"tenant", "settings"})
  BY DEF Matters, Wipes
<1> QED
  BY <1>1, <1>2 DEF Cares

LEMMA SettingsStep == ASSUME IInv, [Next]_vars, HandsPart, SettingsPart PROVE SettingsPart'
<1> SUFFICES ASSUME NEW r \in Reqs PROVE SettingsHeld(r)'
  BY DEF SettingsPart
<1>0. SettingsHeld(r) /\ TypeOK /\ Local(req[r]) /\ (req[r].at \in Early => \A y \in menu.rows : lock[y] # r)
  BY DEF SettingsPart, IInv, LocalPart, HandsPart
<1>1. Stays(r) \/ Arrives(r) \/ Works(r) \/ Over(r)
  BY Views
<1>2. CASE Stays(r)
  <2>1. /\ req'[r].at = req[r].at /\ req'[r].of = req[r].of /\ req'[r].patched = req[r].patched
        /\ req'[r].seen = req[r].seen /\ req[r].moved \subseteq req'[r].moved /\ menu' = menu
        /\ \A y \in menu.rows : /\ lock'[y] = r => lock[y] = r /\ cur'[y] = cur[y] /\ db'[y] = db[y]
                                /\ req[r].at # "idle" /\ Cares(req[r].op, req[r].of, y) /\ db'[y] # db[y] => y \in req'[r].moved
    BY <1>2 DEF Stays, Alike
  <2>2. req[r].at = "save" => \A y \in Of("settings", req[r].of) : Cares(req[r].op, req[r].of, y)
    <3>1. req[r].at = "save" => req[r].op \in {"system", "brand", "config", "ownerConfig"}
      BY <1>0 DEF Local
    <3> QED
      BY <3>1, SettingsMatter
  <2>3. Of("settings", req[r].of) = Of("settings", req[r].of)' /\ Of("settings", req[r].of) \subseteq menu.rows
    BY <2>1 DEF Of
  <2>4. req[r].at = "save" =>
          \A y \in Of("settings", req[r].of) :
            y[3] \in req[r].patched \/ req[r].seen[y[3]] = db'[y].n \/ y \in req'[r].moved
    BY <1>0, <2>1, <2>2, <2>3 DEF SettingsHeld
  <2>5. \A y \in menu.rows : y[1] = "settings" /\ lock'[y] = r /\ cur'[y].st = "live" =>
          cur'[y].n = db'[y].n \/ y[3] \in req'[r].patched \/ y \in req'[r].moved
    BY <1>0, <2>1 DEF SettingsHeld
  <2> QED
    BY ONLY <2>1, <2>3, <2>4, <2>5 DEF SettingsHeld
<1>3. CASE Arrives(r)
  BY <1>3 DEF Arrives, SettingsHeld
<1>4. CASE Works(r)
  <2>1. /\ req'[r].of = req[r].of /\ req'[r].moved = req[r].moved /\ db' = db /\ menu' = menu /\ HandlerActs(r)
        /\ \A y \in menu.rows : ~ Touched(y) => cur'[y] = cur[y] /\ lock'[y] = lock[y]
    BY <1>4, WorksKeep DEF Works, Touched
  <2>2. Of("settings", req[r].of)' = Of("settings", req[r].of)
    BY <2>1 DEF Of
  <2>3. req'[r].at = "save" => \A y \in Of("settings", req[r].of) : y[3] \in req'[r].patched \/ req'[r].seen[y[3]] = db[y].n
    BY <2>1, SettingsRead
  <2>4. ASSUME NEW y \in menu.rows, y[1] = "settings", lock'[y] = r, cur'[y].st = "live"
        PROVE  cur'[y].n = db[y].n \/ y[3] \in req'[r].patched \/ y \in req[r].moved
    <3>1. CASE Touched(y)
      <4>1. CASE req[r].at = "insertTenant"
        <5>1. ~ UNCHANGED Kept
          BY <3>1, KeptTouches
        <5>2. req'[r].patched = Fields
          BY <1>0, <2>1, <4>1, <5>1, Course
        <5>3. y[3] \in Fields
          BY <2>4, <1>0, MenuAssumption, NumbersAssumption DEF TypeOK
        <5> QED
          BY <5>2, <5>3
      <4>2. CASE /\ req[r].at = "save" /\ y \in Of("settings", req[r].of)
                 /\ y[3] \in req[r].patched \/ cur'[y].n = req[r].seen[y[3]]
        <5>1. req'[r].patched = req[r].patched
          BY <1>0, <2>1, <4>2, ReadOnce
        <5> QED
          BY <1>0, <4>2, <5>1 DEF SettingsHeld
      <4> QED
        BY <2>1, <2>4, <3>1, <4>1, <4>2, SettingsWritten
    <3>2. CASE ~ Touched(y)
      <4>1. lock[y] = r /\ cur'[y] = cur[y]
        BY <2>1, <2>4, <3>2
      <4>2. req[r].at \notin {"auth", "load", "insertTenant"}
        BY <1>0, <4>1 DEF Early
      <4>3. req'[r].patched = req[r].patched
        BY <1>0, <2>1, <4>2, ReadOnce
      <4> QED
        BY <1>0, <2>4, <4>1, <4>3 DEF SettingsHeld
    <3> QED
      BY <3>1, <3>2
  <2> QED
    BY <2>1, <2>2, <2>3, <2>4 DEF SettingsHeld
<1>5. CASE Over(r)
  <2>1. req'[r].at # "save"
    BY <1>5, OverKeeps DEF NoWork, Over
  <2> QED
    BY <1>5, <2>1 DEF Over, SettingsHeld
<1> QED
  BY <1>1, <1>2, <1>3, <1>4, <1>5

LEMMA CommittedBy ==
  ASSUME IInv, [Next]_vars, NEW r \in Reqs, NEW y \in menu.rows, lock[y] = r, db'[y] # db[y]
  PROVE  /\ Commits(r) /\ req[r].status < 400 /\ req[r].at = "respond" /\ menu' = menu
         /\ \A z \in menu.rows : db'[z] = IF lock[z] = r THEN cur[z] ELSE db[z]
<1>1. PICK q \in Reqs : Commits(q) /\ req[q].status < 400 /\ req[q].at = "respond"
  BY Changes
<1>2. menu' = menu /\ \A z \in menu.rows : db'[z] = IF lock[z] = q THEN cur[z] ELSE db[z]
  BY <1>1 DEF Commits
<1> QED
  BY <1>1, <1>2

LEMMA SettingsKept ==
  ASSUME IInv, [Next]_vars, SettingsPart
  PROVE  [\A r \in Reqs, y \in menu.rows :
            y[1] = "settings" /\ lock[y] = r /\ db'[y].n # db[y].n /\ db'[y].st = "live" =>
              y[3] \in req[r].patched \/ y \in req[r].moved]_db
<1> SUFFICES ASSUME NEW r \in Reqs, NEW y \in menu.rows,
                    y[1] = "settings", lock[y] = r, db'[y].n # db[y].n, db'[y].st = "live"
             PROVE  y[3] \in req[r].patched \/ y \in req[r].moved
  OBVIOUS
<1>1. db'[y] = cur[y]
  BY CommittedBy
<1> QED
  BY <1>1 DEF SettingsPart, SettingsHeld

-----------------------------------------------------------------------------
(* The audit chain *)

\* The table of the row that a step writes.
LEMMA WrittenTable ==
  ASSUME IInv, NEW r \in Reqs, HandlerActs(r), NEW y \in menu.rows, Touched(y)
  PROVE  LET w == req[r]
             b == y[1] IN
         \/ w.at = "save" /\ b = "settings"
         \/ w.at = "insertTenant" /\ b \in {"tenant", "distributor", "wallet", "pool", "staff", "rootKey", "settings"}
         \/ w.at = "lock" /\ b = "tenant"
         \/ w.at = "sweep" /\ b \in Children \cup Settings /\ w.todo # << >> /\ y \in w.rows /\ y \in Aimed(w.todo[1])
         \/ w.at = "next" /\ b \in Balances
         \/ w.at = "dropTenant" /\ b \in Children \cup {"tenant", "distributor"}
         \/ w.at = "password" /\ b = "staff"
         \/ w.at = "rootKey" /\ b = "rootKey"
         \/ w.at = "chain" /\ b = "audit" /\ y = w.row
         \/ w.at = "credit" /\ b \in {"payment", "purse"}
         \/ w.at = "mark" /\ b \in {"intent", "withdrawal"}
         \/ w.at = "bet" /\ b = "purse"
         \/ w.at \in {"update", "destroy", "insert"} /\ b = TableOf(w.op)
         \/ w.at = "notify" /\ b = "device"
         \/ w.at = "upsert" /\ b = "key"
<1> DEFINE w == req[r]
<1>0. TypeOK /\ Local(w)
  BY DEF IInv, LocalPart
<1>1. Written(r, y)
  BY WrittenBy
<1>2. /\ w.at = "save" => y[1] = "settings"
      /\ w.at = "lock" => y[1] = "tenant"
      /\ w.at = "password" => y[1] = "staff"
      /\ w.at = "rootKey" => y[1] = "rootKey"
      /\ w.at = "bet" => y[1] = "purse"
      /\ w.at = "upsert" => y[1] = "key"
  BY <1>1, SMT DEF Written, One, Of
<1>3. w.at = "insertTenant" => y[1] \in {"tenant", "distributor", "wallet", "pool", "staff", "rootKey", "settings"}
  <2>1. w.at = "insertTenant" => y \in Bootstrap(w.of, TRUE)
    BY <1>1 DEF Written
  <2> QED
    BY <2>1 DEF Bootstrap, One, Of
<1>4. w.at = "sweep" => y[1] \in Children \cup Settings /\ w.todo # << >> /\ y \in w.rows /\ y \in Aimed(w.todo[1])
  <2> SUFFICES ASSUME w.at = "sweep"
               PROVE  y[1] \in Children \cup Settings /\ w.todo # << >> /\ y \in w.rows /\ y \in Aimed(w.todo[1])
    OBVIOUS
  <2>1. y \in w.rows
    BY <1>1 DEF Written
  <2>2. w.todo # << >> /\ w.rows \subseteq Aimed(w.todo[1])
        /\ w.op \in Wipes \cup {"thread", "purge"} /\ \A i \in DOMAIN w.todo : Meant(w, w.todo[i])
    BY <1>0 DEF Local
  <2>3. 1 \in DOMAIN w.todo
    BY <1>0, <2>2 DEF TypeOK, Work
  <2>4. Meant(w, w.todo[1])
    BY <2>2, <2>3
  <2>5. w.todo[1].table \in Children \cup Settings
    BY <2>2, <2>4 DEF Meant, Wipes, Children, Wiped
  <2> QED
    BY <2>1, <2>2, <2>5 DEF Aimed
<1>5. w.at = "next" => y[1] \in Balances
  <2> SUFFICES ASSUME w.at = "next" PROVE y[1] \in Balances
    OBVIOUS
  <2>1. w.todo # << >> /\ Head(w.todo).sql = "INSERT" /\ y \in Unused(Head(w.todo).table, Head(w.todo).of)
    BY <1>1 DEF Written
  <2>2. Head(w.todo) = w.todo[1] /\ 1 \in DOMAIN w.todo
    BY <1>0, <2>1 DEF TypeOK, Work
  <2>3. Head(w.todo).table \in Balances
    BY <1>0, <2>1, <2>2 DEF Local, Meant
  <2> QED
    BY <2>1, <2>3 DEF Unused, Of
<1>6. w.at = "dropTenant" => y[1] \in Children \cup {"tenant", "distributor"}
  <2>1. w.at = "dropTenant" => y \in Below(w.of) \cup {One("tenant", w.of), One("distributor", w.of)}
    BY <1>1 DEF Written
  <2> QED
    BY <2>1 DEF Below, One
<1>7. w.at = "chain" => y[1] = "audit" /\ y = w.row
  BY <1>0, <1>1 DEF Written, Local, Of
<1>8. (w.at = "credit" => y[1] \in {"payment", "purse"}) /\ (w.at = "mark" => y[1] \in {"intent", "withdrawal"})
  BY <1>1, SMT DEF Written, Unused, Of, One, Kind
<1>9. w.at \in {"update", "destroy", "insert"} => y[1] = TableOf(w.op)
  <2>1. w.at \in {"update", "destroy", "insert"} => y \in Of(TableOf(w.op), w.of)
    BY <1>0, <1>1 DEF Written, Local, Unused
  <2> QED
    BY <2>1 DEF Of
<1>10. w.at = "notify" => y[1] = "device"
  BY <1>0, <1>1 DEF Written, Local, Of
<1>11. w.at \in {"save", "insertTenant", "lock", "sweep", "next", "dropTenant", "password", "rootKey", "chain", "credit",
                 "mark", "bet", "update", "destroy", "insert", "notify", "upsert"}
  BY <1>1, Zenon DEF Written
<1> QED
  BY ONLY <1>2, <1>3, <1>4, <1>5, <1>6, <1>7, <1>8, <1>9, <1>10, <1>11

LEMMA AuditWritten ==
  ASSUME IInv, NEW r \in Reqs, HandlerActs(r), NEW y \in menu.rows, y[1] = "audit", Touched(y)
  PROVE  req[r].at = "chain" /\ y = req[r].row /\ lock'[y] = r /\ cur'[y] = [st |-> "live", n |-> req[r].n]
<1>1. TableOf(req[r].op) # "audit"
  BY DEF TableOf
<1>2. "audit" \notin Children \cup Settings \cup Balances
  BY DEF Children, Settings, Wiped, Balances
<1>3. req[r].at = "chain"
  BY <1>1, <1>2, WrittenTable
<1>4. Written(r, y)
  BY WrittenBy
<1> QED
  BY ONLY <1>3, <1>4, SMT DEF Written

LEMMA AuditInitially == Init => AuditPart
<1> SUFFICES ASSUME Init PROVE AuditPart
  OBVIOUS
<1>1. (\A r \in Reqs : req[r].at = "idle") /\ \A y \in menu.rows : lock[y] = NoReq
  BY DEF Init, NoWork
<1>2. \A y \in menu.rows : db[y].n = 0 /\ y[3] # 0
  BY MenuAssumption, RowsAssumption DEF Init, Is
<1> QED
  BY <1>1, <1>2, NamesAssumption DEF AuditPart, AuditHeld

\* A request that writes an audit record notes what becomes of its tenant's records.
LEMMA AuditMatters ==
  ASSUME NEW op \in {"delete", "create", "reset", "credits"}, NEW s, NEW y \in Of("audit", s)
  PROVE  Cares(op, s, y)
<1>1. y[1] = "audit" /\ y[2] = s
  BY DEF Of
<1>2. Matters(op, y)
  BY <1>1 DEF Matters, Wipes
<1> QED
  BY <1>1, <1>2 DEF Cares

\* Whatever others do, record y may still name record n.
LEMMA ChainedStays ==
  ASSUME NEW r \in Reqs, Stays(r), req[r].at # "idle", NEW y, NEW n, Chained(r, y, n),
         \A z \in Of("audit", y[2]) : Cares(req[r].op, req[r].of, z)
  PROVE  Chained(r, y, n)'
<1>1. /\ menu' = menu /\ req[r].moved \subseteq req'[r].moved
      /\ \A z \in menu.rows : db'[z] # db[z] /\ Cares(req[r].op, req[r].of, z) => z \in req'[r].moved
  BY DEF Stays
<1>2. Of("audit", y[2])' = Of("audit", y[2]) /\ Of("audit", y[2]) \subseteq menu.rows
  BY <1>1 DEF Of
<1> QED
  BY <1>1, <1>2 DEF Chained

\* Where a request is once it has been let in.
LEMMA LetInNext ==
  ASSUME TypeOK, NEW r \in Reqs, HandlerActs(r), req[r].at \in {"auth", "load"}
  PROVE  req'[r].at \in {"load", "save", "check", "lock", "confirm", "root", "intent", "purse", "cashier", "find",
                         "devices", "recipient", "next", "upsert", "respond"}
<1>1. CASE req[r].at = "auth"
  <2>1. OwnerAuth(r) \/ StaffAuth(r) \/ NoAuth(r)
    BY <1>1, StepAt
  <2>2. req' = Start(r) \/ \E code : req' = Answer(r, code)
    BY <2>1, AuthIs
  <2>3. req' = Start(r) => req'[r].at = AuthPlace(req[r].op)
    BY StartIs
  <2>4. AuthPlace(req[r].op) \in {"load", "save", "check", "lock", "confirm", "root", "intent", "purse", "cashier", "find",
                                  "devices", "recipient", "next", "upsert"}
    BY DEF AuthPlace
  <2> QED
    BY <2>2, <2>3, <2>4, ReplyIs DEF Answered
<1>2. CASE req[r].at = "load"
  <2>1. Load(r)
    BY <1>2, StepAt
  <2>2. req' = Answer(r, 400) \/ req'[r].at = "save"
    BY <2>1, LoadIs, Zenon DEF Reply
  <2> QED
    BY <2>2, ReplyIs DEF Answered
<1> QED
  BY <1>1, <1>2

\* The time of a new record is later than that of every record there is.
LEMMA StampedIs ==
  ASSUME IInv, NEW r \in Reqs, HandlerActs(r), req'[r].at = "stamped", NEW z \in Of("audit", req[r].of),
         db[z].st = "live"
  PROVE  z[3] < req'[r].row[3]
<1>0. TypeOK
  BY DEF IInv
<1>1. req[r].at \in Places
  BY <1>0, ReadOnce
<1>2. req[r].at = "audit"
  <2>1. req[r].at \notin {"save", "check", "insertTenant", "dropTenant", "root", "password", "rootKey", "stamped", "chain",
                           "intent", "balance", "credit", "mark", "purse", "bet", "destroy", "upsert", "cashier", "find", "update",
                           "insert", "recipient", "devices", "notify"}
    BY <1>0, Course, SMT DEF Answered
  <2>2. req[r].at \notin {"confirm", "lock", "sweep", "next"}
    BY <1>0, WipeCourse, SMT
  <2>3. req[r].at \notin {"auth", "load"}
    BY <1>0, LetInNext
  <2>4. req[r].at \notin {"idle", "respond"}
    BY StepAt
  <2> QED
    BY <1>1, <2>1, <2>2, <2>3, <2>4 DEF Places
<1>3. StampRecord(r)
  BY <1>2, StepAt
<1>4. /\ Later(req[r].of) # {}
      /\ req' = [req EXCEPT ![r].at = "stamped", ![r].row = Next1(Later(req[r].of))]
  <2>1. req' # Done(r)
    BY <1>0, ReplyIs DEF Done, Answered
  <2> QED
    BY <1>3, <2>1, Zenon DEF StampRecord
<1>5. req'[r].row = Next1(Later(req[r].of))
  <2>1. req \in [Reqs -> Records(Type)] /\ r \in Reqs
    BY <1>0, Fielded
  <2> QED
    BY ONLY <1>4, <2>1, SMT DEF Records
<1>6. Next1(Later(req[r].of)) \in Later(req[r].of)
  <2>1. Later(req[r].of) \in SUBSET Rows
    BY <1>0, MenuAssumption DEF Later, Unused, Of, TypeOK
  <2> QED
    BY <1>4, <2>1, FirstRow
<1>7. z \notin Unused("audit", req[r].of)
  BY DEF Unused
<1> QED
  BY <1>5, <1>6, <1>7 DEF Later

\* The record that is read is the newest.
LEMMA ReadIs ==
  ASSUME IInv, NEW r \in Reqs, HandlerActs(r), req'[r].at = "chain", AuditPart
  PROVE  req[r].at = "stamped" /\ req'[r].row = req[r].row /\ Chained(r, req[r].row, req'[r].n)
<1>0. TypeOK /\ Local(req[r]) /\ Facts(r) /\ AuditHeld(r)
  BY DEF IInv, LocalPart, FactsPart, AuditPart
<1>1. req[r].at = "stamped"
  <2>1. req[r].at \notin {"save", "check", "insertTenant", "dropTenant", "root", "password", "rootKey", "audit", "chain",
                           "intent", "balance", "credit", "mark", "purse", "bet", "destroy", "upsert", "cashier", "find", "update",
                           "insert", "recipient", "devices", "notify"}
    BY <1>0, Course, SMT DEF Answered
  <2>2. req[r].at \notin {"confirm", "lock", "sweep", "next"}
    BY <1>0, WipeCourse, SMT
  <2>3. req[r].at \notin {"auth", "load"}
    BY <1>0, LetInNext
  <2>4. req[r].at \in Places \ {"idle", "respond"}
    BY <1>0, StepAt, ReadOnce
  <2> QED
    BY <2>1, <2>2, <2>3, <2>4 DEF Places
<1> DEFINE s == req[r].of
           last == {y \in Of("audit", s) : db[y].st = "live"}
           row == req[r].row
<1>2. PICK p \in {y[3] : y \in last} \cup {0} :
        (\A y \in last : y[3] <= p) /\ req' = [req EXCEPT ![r].at = "chain", ![r].n = p]
  <2>1. ReadChain(r)
    BY <1>1, StepAt
  <2> QED
    BY <2>1, Zenon DEF ReadChain
<1>3. req'[r].n = p /\ req'[r].row = row
  <2>1. req \in [Reqs -> Records(Type)] /\ r \in Reqs
    BY <1>0, Fielded
  <2> QED
    BY ONLY <1>2, <2>1, SMT DEF Records
<1>4. \A y \in Of("audit", s) : y \in Rows /\ y[3] \in Nat \ {0} /\ y = <<"audit", s, y[3]>>
  BY <1>0, MenuAssumption, RowsAssumption DEF TypeOK, Of
<1>5. row \in Of("audit", s) /\ db[row].st = "none" /\ row[2] = s
  BY <1>0, <1>1 DEF Local, Facts, Seen, Of
<1>6. p = 0 \/ <<"audit", s, p>> \in last
  BY <1>4
<1>7. p # row[3]
  BY <1>4, <1>5, <1>6
<1>8. p >= row[3] => <<"audit", s, p>> \in req[r].moved
  <2> SUFFICES ASSUME p >= row[3] PROVE <<"audit", s, p>> \in req[r].moved
    OBVIOUS
  <2>1. p # 0
    BY <1>4, <1>5
  <2> QED
    BY <1>0, <1>1, <1>6, <2>1 DEF AuditHeld
<1>9. \A z \in last : db[z].n = p => p > z[3]
  BY <1>0, <1>2, <1>4 DEF AuditPart, Of
<1> QED
  BY <1>1, <1>3, <1>5, <1>7, <1>8, <1>9 DEF Chained

LEMMA AuditLocks == ASSUME NEW op \in Ops, "audit" \in Locks(op) PROVE op \in {"delete", "create", "reset", "credits"}
BY DEF Locks, Ops, OwnerOps, StaffOps, BothOps, Wiped, Balances, Children, Settings

LEMMA MenuStays == ASSUME IInv, [Next]_vars PROVE menu' = menu
<1>1. CASE UNCHANGED vars
  BY <1>1 DEF vars
<1>2. CASE Next
  <2>1. PICK r \in Reqs : TRUE
    BY <1>2 DEF Next
  <2> QED
    BY Views DEF Stays, Arrives, Works, Proper, Acts, Versions, Over
<1> QED
  BY <1>1, <1>2

LEMMA AuditStep == ASSUME IInv, [Next]_vars, AuditPart PROVE AuditPart'
<1>0. TypeOK /\ (\A r \in Reqs : AuditHeld(r)) /\ (\A y \in menu.rows : y[1] = "audit" => db[y].n # y[3])
  BY DEF IInv, AuditPart
<1>1. ASSUME NEW r \in Reqs PROVE AuditHeld(r)'
  <2>0. AuditHeld(r) /\ Local(req[r])
    BY <1>0 DEF IInv, LocalPart
  <2>1. Stays(r) \/ Arrives(r) \/ Works(r) \/ Over(r)
    BY Views
  <2>2. CASE Stays(r)
    <3>1. /\ req'[r].at = req[r].at /\ req'[r].of = req[r].of /\ req'[r].row = req[r].row /\ req'[r].n = req[r].n
          /\ req[r].moved \subseteq req'[r].moved /\ menu' = menu
          /\ \A y \in menu.rows : /\ lock'[y] = r => lock[y] = r /\ cur'[y] = cur[y]
                                  /\ req[r].at # "idle" /\ Cares(req[r].op, req[r].of, y) /\ db'[y] # db[y] => y \in req'[r].moved
      BY <2>2 DEF Stays, Alike
    <3>2. req[r].at \in {"stamped", "chain"} =>
            /\ req[r].row \in Of("audit", req[r].of) /\ req[r].row[2] = req[r].of
            /\ \A z \in Of("audit", req[r].of) : Cares(req[r].op, req[r].of, z)
      BY <2>0, AuditMatters DEF Local, Of
    <3>3. Of("audit", req[r].of)' = Of("audit", req[r].of) /\ Of("audit", req[r].of) \subseteq menu.rows
      BY <3>1 DEF Of
    <3>4. req[r].at = "stamped" =>
            \A z \in Of("audit", req[r].of) : db'[z].st = "live" /\ z[3] >= req[r].row[3] => z \in req'[r].moved
      BY <2>0, <3>1, <3>2, <3>3 DEF AuditHeld
    <3>5. req[r].at = "chain" => Chained(r, req[r].row, req[r].n)'
      <4> SUFFICES ASSUME req[r].at = "chain" PROVE Chained(r, req[r].row, req[r].n)'
        OBVIOUS
      <4>1. PICK y, n : y = req[r].row /\ n = req[r].n
        OBVIOUS
      <4>2. Chained(r, y, n) /\ y[2] = req[r].of /\ \A z \in Of("audit", y[2]) : Cares(req[r].op, req[r].of, z)
        BY <2>0, <3>2, <4>1 DEF AuditHeld
      <4>3. Chained(r, y, n)'
        BY <2>2, <4>2, ChainedStays
      <4>4. y = req'[r].row /\ n = req'[r].n
        BY <3>1, <4>1
      <4> QED
        BY <4>3, <4>4 DEF Chained
    <3>6. ASSUME NEW y \in menu.rows, y[1] = "audit", lock'[y] = r
          PROVE  req'[r].at = "respond" /\ y = req'[r].row /\ Chained(r, y, cur[y].n)'
      <4>1. /\ lock[y] = r /\ cur'[y] = cur[y] /\ req[r].at = "respond" /\ y = req[r].row
            /\ Chained(r, y, cur[y].n)
        BY <2>0, <3>1, <3>6 DEF AuditHeld
      <4>2. PICK n : n = cur[y].n
        OBVIOUS
      <4>3. \A z \in Of("audit", y[2]) : Cares(req[r].op, req[r].of, z)
        <5>1. Touches(req[r].op, req[r].of, y)
          BY <3>6, <4>1 DEF IInv, RowsPart, Holds
        <5>2. req[r].op \in {"delete", "create", "reset", "credits"} /\ y[2] = req[r].of
          <6>1. req[r].op \in Ops
            BY <1>0 DEF TypeOK, Work
          <6>2. "audit" \in Locks(req[r].op) /\ (req[r].op = "wipeAll" \/ y[2] = req[r].of)
            BY <3>6, <5>1 DEF Touches
          <6> QED
            BY <6>1, <6>2, AuditLocks
        <5> QED
          BY <5>2, AuditMatters
      <4>4. Chained(r, y, n)'
        BY <2>2, <4>1, <4>2, <4>3, ChainedStays
      <4>5. n = cur'[y].n
        BY <4>1, <4>2
      <4> QED
        BY <3>1, <4>1, <4>4, <4>5 DEF Chained
    <3> QED
      BY <3>1, <3>3, <3>4, <3>5, <3>6 DEF AuditHeld
  <2>3. CASE Arrives(r)
    BY <2>3 DEF Arrives, AuditHeld
  <2>4. CASE Works(r)
    <3>1. /\ req'[r].of = req[r].of /\ req'[r].moved = req[r].moved /\ db' = db /\ menu' = menu /\ HandlerActs(r)
          /\ \A y \in menu.rows : ~ Touched(y) => cur'[y] = cur[y] /\ lock'[y] = lock[y]
      BY <2>4, WorksKeep DEF Works, Touched
    <3>2. Of("audit", req[r].of)' = Of("audit", req[r].of) /\ \A y : Of("audit", y[2])' = Of("audit", y[2])
      BY <3>1 DEF Of
    <3>3. ASSUME NEW y, NEW n, Chained(r, y, n) PROVE Chained(r, y, n)'
      BY <3>1, <3>2, <3>3 DEF Chained
    <3>4. req'[r].at = "stamped" => \A z \in Of("audit", req[r].of) : db[z].st = "live" => ~ z[3] >= req'[r].row[3]
      <4> SUFFICES ASSUME req'[r].at = "stamped", NEW z \in Of("audit", req[r].of), db[z].st = "live"
                   PROVE  ~ z[3] >= req'[r].row[3]
        OBVIOUS
      <4>1. z[3] < req'[r].row[3]
        BY <3>1, StampedIs
      <4>2. IInv'
        BY Inductive
      <4>3. req'[r].row \in Rows /\ z \in Rows
        BY <1>0, <3>1, <4>2, MenuAssumption DEF IInv, LocalPart, Local, TypeOK, Of
      <4> QED
        BY <4>1, <4>3, RowsAssumption
    <3>5. req'[r].at = "chain" => Chained(r, req[r].row, req[r].n)'
      <4> SUFFICES ASSUME req'[r].at = "chain" PROVE Chained(r, req[r].row, req[r].n)'
        OBVIOUS
      <4>1. PICK y, n : y = req[r].row /\ n = req'[r].n
        OBVIOUS
      <4>2. req'[r].row = y /\ Chained(r, y, n)
        <5>1. AuditPart
          OBVIOUS
        <5> QED
          BY <3>1, <4>1, <5>1, ReadIs
      <4>3. Chained(r, y, n)'
        BY <3>3, <4>2
      <4> QED
        BY <4>1, <4>2, <4>3 DEF Chained
    <3>6. ASSUME NEW y \in menu.rows, y[1] = "audit", lock'[y] = r
          PROVE  req'[r].at = "respond" /\ y = req'[r].row /\ Chained(r, y, cur[y].n)'
      <4>1. Touched(y)
        <5>1. req[r].at # "respond"
          BY <3>1, StepAt
        <5> QED
          BY <2>0, <3>1, <3>6, <5>1 DEF AuditHeld
      <4>2. req[r].at = "chain" /\ y = req[r].row /\ cur'[y] = [st |-> "live", n |-> req[r].n]
        BY <3>1, <3>6, <4>1, AuditWritten
      <4>3. req'[r].at = "respond" /\ req'[r].row = req[r].row
        BY <1>0, <3>1, <4>2, Course, ReadOnce
      <4>4. PICK n : n = req[r].n
        OBVIOUS
      <4>5. Chained(r, y, n) /\ cur'[y].n = n
        BY <2>0, <4>2, <4>4 DEF AuditHeld
      <4>6. Chained(r, y, n)'
        BY <3>3, <4>5
      <4> QED
        BY <4>2, <4>3, <4>5, <4>6 DEF Chained
    <3> QED
      BY <3>1, <3>2, <3>4, <3>5, <3>6 DEF AuditHeld
  <2>5. CASE Over(r)
    <3>1. req'[r].at \notin {"stamped", "chain"}
      BY <2>5, OverKeeps DEF NoWork, Over
    <3> QED
      BY <2>5, <3>1 DEF Over, AuditHeld
  <2> QED
    BY <2>1, <2>2, <2>3, <2>4, <2>5
<1>2. ASSUME NEW y \in menu.rows, y[1] = "audit" PROVE db'[y].n # y[3]
  <2>1. CASE db'[y] = db[y]
    BY <1>0, <1>2, <2>1
  <2>2. CASE db'[y] # db[y]
    <3>1. PICK r \in Reqs : Commits(r)
      BY <2>2, Changes
    <3>2. lock[y] = r /\ db'[y] = cur[y]
      BY <2>2, <3>1 DEF Commits
    <3> QED
      BY <1>0, <1>2, <3>2 DEF AuditHeld, Chained
  <2> QED
    BY <2>1, <2>2
<1>3. menu' = menu
  BY MenuStays
<1> QED
  BY <1>1, <1>2, <1>3 DEF AuditPart

LEMMA AuditKept ==
  ASSUME IInv, [Next]_vars, AuditPart
  PROVE  [\A r \in Reqs, y \in menu.rows :
            Makes(r, y) /\ y[1] = "audit" =>
              /\ db'[y].n >= y[3] => <<"audit", y[2], db'[y].n>> \in req[r].moved
              /\ \A z \in Of("audit", y[2]) \ {y} :
                   db'[z].st = "live" /\ db'[z].n = db'[y].n =>
                     z \in req[r].moved \/ db'[z].n > z[3]]_db
<1> SUFFICES ASSUME NEW r \in Reqs, NEW y \in menu.rows, Makes(r, y), y[1] = "audit"
             PROVE  /\ db'[y].n >= y[3] => <<"audit", y[2], db'[y].n>> \in req[r].moved
                    /\ \A z \in Of("audit", y[2]) \ {y} :
                         db'[z].st = "live" /\ db'[z].n = db'[y].n => z \in req[r].moved \/ db'[z].n > z[3]
  OBVIOUS
<1>1. lock[y] = r /\ db'[y] # db[y]
  BY DEF Makes
<1>2. \A z \in menu.rows : db'[z] = IF lock[z] = r THEN cur[z] ELSE db[z]
  BY <1>1, CommittedBy
<1>3. /\ \A z \in menu.rows : z[1] = "audit" /\ lock[z] = r => z = y
      /\ Chained(r, y, cur[y].n)
  BY <1>1 DEF AuditPart, AuditHeld
<1>4. db'[y] = cur[y] /\ \A z \in Of("audit", y[2]) \ {y} : db'[z] = db[z]
  BY <1>1, <1>2, <1>3 DEF Of
<1> QED
  BY <1>3, <1>4 DEF Chained

-----------------------------------------------------------------------------
(* Deposits *)

LEMMA Steps ==
  ASSUME [Next]_vars
  PROVE  UNCHANGED vars \/ \E q \in Reqs : Begin(q) \/ HandlerActs(q) \/ Commits(q) \/ Ends(q)
BY StepsOf DEF Next

LEMMA DepositInitially == Init => DepositPart
<1> SUFFICES ASSUME Init PROVE DepositPart
  OBVIOUS
<1>1. (\A r \in Reqs : req[r].at = "idle") /\ cur = db
  BY DEF Init, NoWork
<1> QED
  BY <1>1 DEF DepositPart, DepositHeld

\* The deposit and the wallet of a mark-paid request.
LEMMA DepositRows ==
  ASSUME IInv, NEW r \in Reqs, req[r].at # "idle", req[r].op = "markPaid"
  PROVE  LET i == One("intent", req[r].of)
             p == One("purse", req[r].of) IN
         /\ {i, p} \subseteq menu.rows /\ i # p /\ i[1] = "intent" /\ p[1] = "purse"
         /\ Cares("markPaid", req[r].of, i) /\ Cares("markPaid", req[r].of, p)
<1>1. <<"markPaid", req[r].of>> \in menu.meet /\ menu \in Menus
  BY DEF IInv, LocalPart, Local, TypeOK
<1>2. Named("markPaid", req[r].of) \subseteq menu.rows
  BY <1>1, NamedAssumption
<1>3. Named("markPaid", req[r].of) = {<<b, req[r].of, 1>> : b \in {"tenant", "intent", "purse"}}
  BY DEF Named
<1>4. {One("intent", req[r].of), One("purse", req[r].of)} \subseteq menu.rows
  BY <1>2, <1>3 DEF One
<1>5. ASSUME NEW b \in {"intent", "purse"} PROVE Cares("markPaid", req[r].of, One(b, req[r].of))
  <2>1. Matters("markPaid", One(b, req[r].of)) = (One(b, req[r].of)[1] \in {"tenant", "intent", "purse"})
    BY DEF Matters, Wipes
  <2> QED
    BY <2>1 DEF Cares, One
<1> QED
  BY <1>4, <1>5 DEF One

\* An intent is live only as it was committed.
LEMMA IntentWritten ==
  ASSUME IInv, NEW r \in Reqs, HandlerActs(r), NEW y \in menu.rows, y[1] = "intent", Touched(y)
  PROVE  cur'[y].st # "live" /\ req[r].at \in {"sweep", "dropTenant", "mark"}
<1>1. TableOf(req[r].op) # "intent"
  BY DEF TableOf
<1>2. "intent" \notin Settings \cup Balances
  BY DEF Settings, Balances
<1>3. req[r].at \in {"sweep", "dropTenant", "mark"}
  BY <1>1, <1>2, WrittenTable
<1>4. Written(r, y)
  BY WrittenBy
<1> QED
  BY ONLY <1>3, <1>4, SMT DEF Written, Is, Exists

LEMMA IntentStep ==
  ASSUME IInv, [Next]_vars, DepositPart, NEW y \in menu.rows, y[1] = "intent", cur'[y].st = "live"
  PROVE  db'[y].st = "live"
<1>0. cur[y].st = "live" => db[y].st = "live"
  BY DEF DepositPart
<1>1. CASE UNCHANGED vars
  BY <1>0, <1>1 DEF vars
<1>2. ASSUME NEW q \in Reqs, Begin(q) PROVE db'[y].st = "live"
  BY <1>0, <1>2, Zenon DEF Begin, Kept
<1>3. ASSUME NEW q \in Reqs, HandlerActs(q) PROVE db'[y].st = "live"
  <2>1. Works(q)
    BY <1>3, HandlerActsProper DEF Works
  <2>2. db' = db
    BY <2>1, WorksKeep
  <2>3. cur'[y] = cur[y]
    BY <1>3, IntentWritten DEF Touched
  <2> QED
    BY <1>0, <2>2, <2>3
<1>4. ASSUME NEW q \in Reqs, Commits(q) PROVE db'[y].st = "live"
  BY <1>0, <1>4 DEF Commits
<1>5. ASSUME NEW q \in Reqs, Ends(q) PROVE db'[y].st = "live"
  BY <1>0, <1>5 DEF Ends, Rollback
<1> QED
  BY <1>1, <1>2, <1>3, <1>4, <1>5, Steps

\* How a mark-paid request moves on.
LEMMA DepositCourse ==
  ASSUME IInv, NEW r \in Reqs, HandlerActs(r), req[r].op = "markPaid"
  PROVE  LET w == req[r]
             u == req'[r]
             i == One("intent", w.of) IN
         /\ u.at \in {"balance", "credit", "mark"} => \/ w.at = "intent" /\ db[i].st = "live"
                                                      \/ w.at \in {"balance", "credit"}
         /\ u.at = "credit" => w.at = "balance" /\ u.n = db[One("purse", w.of)].n
         /\ w.at = "mark" => u.at = "respond" /\ lock'[i] = r /\ cur'[i].st # "live"
<1> DEFINE w == req[r]
           u == req'[r]
           i == One("intent", w.of)
<1>0. TypeOK /\ Local(w)
  BY DEF IInv, LocalPart
<1>1. /\ u.at \in {"balance", "credit", "mark"} => w.at \in {"intent", "balance", "credit"}
      /\ u.at = "credit" => w.at \in {"intent", "balance"}
  <2>1. u.at \in {"balance", "credit", "mark"} =>
          w.at \notin {"save", "check", "insertTenant", "dropTenant", "root", "password", "rootKey", "audit", "stamped",
                       "chain", "mark", "purse", "bet", "destroy", "upsert", "cashier", "find", "update",
                       "insert", "recipient", "devices", "notify"}
    BY <1>0, Course, SMT DEF Answered
  <2>2. u.at \in {"balance", "credit", "mark"} => w.at \notin {"confirm", "lock", "sweep", "next"}
    BY <1>0, WipeCourse, SMT
  <2>3. u.at \in {"balance", "credit", "mark"} => w.at \notin {"auth", "load"}
    BY <1>0, LetInNext
  <2>4. w.at \in Places \ {"idle", "respond"}
    BY <1>0, StepAt, ReadOnce
  <2>5. w.at = "credit" => u.at # "credit"
    BY <1>0, Course, SMT DEF Answered
  <2> QED
    BY <2>1, <2>2, <2>3, <2>4, <2>5 DEF Places
<1>2. w.at = "intent" /\ u.at # "respond" => db[i].st = "live" /\ u.at = "balance"
  <2> SUFFICES ASSUME w.at = "intent", u.at # "respond" PROVE db[i].st = "live" /\ u.at = "balance"
    OBVIOUS
  <2>1. ReadIntent(r)
    BY StepAt
  <2>2. \A code : ~ Reply(r, code)
    BY <1>0, ReplyIs DEF Reply, Answered
  <2>3. db[i].st = "live" /\ Go(r, "balance")
    BY <2>1, <2>2 DEF ReadIntent
  <2> QED
    BY <1>0, <2>3, GoIs DEF Go
<1>3. w.at = "balance" /\ u.at = "credit" => u.n = db[One("purse", w.of)].n
  BY <1>0, Course, SMT
<1>4. w.at = "mark" => u.at = "respond" /\ lock'[i] = r /\ cur'[i].st # "live"
  <2> SUFFICES ASSUME w.at = "mark" PROVE u.at = "respond" /\ lock'[i] = r /\ cur'[i].st # "live"
    OBVIOUS
  <2>1. u.at = "respond"
    BY <1>0, Course
  <2>2. Update(r, i, Is("done"))
    <3>1. Mark(r)
      BY StepAt
    <3> QED
      BY <3>1 DEF Mark
  <2>3. i \in menu.rows
    BY DepositRows
  <2>4. lock'[i] = r /\ cur'[i] = IF Exists(cur[i]) THEN Is("done") ELSE cur[i]
    BY <1>0, <2>2, <2>3 DEF Update, WriteOne, TypeOK
  <2> QED
    BY <2>1, <2>4 DEF Is, Exists
<1> QED
  BY <1>1, <1>2, <1>3, <1>4

LEMMA DepositStep == ASSUME IInv, [Next]_vars, HandsPart, DepositPart PROVE DepositPart'
<1>0. /\ TypeOK /\ NoReq \notin Reqs /\ menu' = menu
      /\ \A y \in menu.rows : y[1] = "intent" /\ cur[y].st = "live" => db[y].st = "live"
  BY NamesAssumption, MenuStays DEF IInv, DepositPart
<1>1. ASSUME NEW r \in Reqs, req'[r].at # "idle", req'[r].op = "markPaid"
      PROVE  /\ DepositHeld(r)'
             /\ db'[One("intent", req'[r].of)].st = "live" => One("intent", req'[r].of) \in req'[r].began
  <2> DEFINE w == req[r]
             i == One("intent", w.of)
             p == One("purse", w.of)
  <2>0. /\ DepositHeld(r) /\ Local(w) /\ (w.at \in Early => \A y \in menu.rows : lock[y] # r)
        /\ w.at # "idle" /\ w.op = "markPaid" /\ db[i].st = "live" => i \in w.began
    BY DEF DepositPart, HandsPart, IInv, LocalPart
  <2>1. Stays(r) \/ Arrives(r) \/ Works(r) \/ Over(r)
    BY Views
  <2>2. CASE Stays(r)
    <3>1. /\ req'[r].at = w.at /\ req'[r].op = w.op /\ req'[r].of = w.of /\ req'[r].n = w.n /\ req'[r].began = w.began
          /\ req'[r].status = w.status /\ w.moved \subseteq req'[r].moved
          /\ \A y \in menu.rows : /\ lock'[y] = r <=> lock[y] = r
                                  /\ lock[y] = r => cur'[y] = cur[y] /\ db'[y] = db[y]
                                  /\ db'[y] # db[y] => db'[y] = cur[y]
                                  /\ w.at # "idle" /\ Cares(w.op, w.of, y) /\ db'[y] # db[y] => y \in req'[r].moved
      BY <2>2 DEF Stays, Alike
    <3>2. w.at # "idle" /\ w.op = "markPaid"
      BY <1>1, <3>1
    <3>3. {i, p} \subseteq menu.rows /\ i[1] = "intent" /\ Cares(w.op, w.of, p)
      BY <3>2, DepositRows
    <3>4. db'[i].st = "live" => i \in w.began
      BY <1>0, <2>0, <3>1, <3>2, <3>3
    <3>5. db'[p] # db[p] => p \in req'[r].moved
      BY <3>1, <3>2, <3>3
    <3>6. /\ lock'[p] = r => lock[p] = r /\ cur'[p] = cur[p] /\ db'[p] = db[p]
          /\ lock[i] = r => lock'[i] = r /\ cur'[i] = cur[i]
      BY <3>1, <3>3
    <3>7. DepositHeld(r)'
      BY ONLY <2>0, <3>1, <3>2, <3>5, <3>6 DEF DepositHeld
    <3> QED
      BY <3>1, <3>4, <3>7
  <2>3. CASE Arrives(r)
    <3>1. IInv'
      BY Inductive
    <3>2. /\ req'[r].at = "auth" /\ db' = db /\ lock' = lock /\ \A y \in menu.rows : lock[y] # r
          /\ req'[r].began = {y \in menu.rows : Cares(req'[r].op, req'[r].of, y) /\ db[y].st = "live"}
      BY <2>3 DEF Arrives
    <3>3. <<"markPaid", req'[r].of>> \in menu.meet /\ menu \in Menus
      BY <1>0, <1>1, <3>1 DEF IInv, LocalPart, Local, TypeOK
    <3>4. PICK s : s = req'[r].of
      OBVIOUS
    <3>5. Named("markPaid", s) \subseteq menu.rows
      BY <3>3, <3>4, NamedAssumption
    <3>6. {One("intent", s), One("purse", s)} \subseteq menu.rows
      BY <3>5 DEF Named, One
    <3>7. Cares("markPaid", s, One("intent", s))
      <4>1. Matters("markPaid", One("intent", s)) = (One("intent", s)[1] \in {"tenant", "intent", "purse"})
        BY DEF Matters, Wipes
      <4> QED
        BY <4>1 DEF Cares, One
    <3>8. db'[One("intent", req'[r].of)].st = "live" => One("intent", req'[r].of) \in req'[r].began
      BY <1>1, <3>2, <3>4, <3>6, <3>7
    <3>9. lock'[One("purse", req'[r].of)] # r
      BY <3>2, <3>4, <3>6
    <3> QED
      BY <3>2, <3>8, <3>9 DEF DepositHeld
  <2>4. CASE Works(r)
    <3>1. /\ req'[r].op = w.op /\ req'[r].of = w.of /\ req'[r].began = w.began /\ req'[r].moved = w.moved
          /\ db' = db /\ HandlerActs(r) /\ w.at # "idle"
          /\ \A y \in menu.rows : ~ Touched(y) => cur'[y] = cur[y] /\ lock'[y] = lock[y]
      BY <2>4, WorksKeep DEF Works, Touched
    <3>2. w.op = "markPaid"
      BY <1>1, <3>1
    <3>3. {i, p} \subseteq menu.rows /\ i # p /\ i[1] = "intent" /\ p[1] = "purse"
      BY <3>1, <3>2, DepositRows
    <3>4. /\ req'[r].at \in {"balance", "credit", "mark"} => (w.at = "intent" /\ db[i].st = "live") \/ w.at \in {"balance", "credit"}
          /\ req'[r].at = "credit" => req'[r].n = db[p].n
          /\ w.at = "mark" => req'[r].at = "respond" /\ lock'[i] = r /\ cur'[i].st # "live"
      BY <3>1, <3>2, DepositCourse
    <3>5. db[i].st = "live" => i \in w.began
      BY <2>0, <3>1, <3>2
    <3>6. req'[r].at \in {"balance", "credit", "mark"} => i \in w.began
      BY <2>0, <3>1, <3>2, <3>4, <3>5 DEF DepositHeld
    <3>7. ASSUME lock'[p] = r
          PROVE  /\ i \in w.began
                 /\ cur'[p] = db[p] \/ cur'[p].n = db[p].n + Amount \/ p \in w.moved
                 /\ req'[r].at = "mark" \/ (req'[r].at = "respond" /\ lock'[i] = r /\ cur'[i].st # "live")
      <4>1. CASE Touched(p)
        <5>1. Written(r, p)
          BY <3>1, <3>3, <4>1, WrittenBy
        <5>2. w.at = "credit"
          <6>1. TableOf(w.op) # "purse"
            BY DEF TableOf
          <6>2. "purse" \notin Settings \cup Balances
            BY DEF Settings, Balances
          <6>3. w.at \in {"sweep", "dropTenant", "credit", "bet"}
            BY <3>1, <3>3, <4>1, <6>1, <6>2, WrittenTable
          <6> QED
            BY <2>0, <3>2, <6>3 DEF Local, Wipes
        <5>3. p \notin Unused("payment", w.of)
          BY <3>3 DEF Unused, Of
        <5>4. Mine(r, p) /\ cur'[p] = IF Exists(cur[p]) THEN [cur[p] EXCEPT !.n = w.n + Amount] ELSE cur[p]
          BY ONLY <5>1, <5>2, <5>3, SMT DEF Written
        <5>5. cur[p] = db[p] /\ cur[p] \in Row
          <6>1. lock[p] # r
            BY <2>0, <3>3, <5>2 DEF Early
          <6> QED
            BY <1>0, <3>3, <5>4, <6>1, Unheld DEF TypeOK
        <5>6. w.n = db[p].n \/ p \in w.moved
          BY <2>0, <3>1, <3>2, <5>2 DEF DepositHeld
        <5>7. i \in w.began
          BY <2>0, <3>1, <3>2, <5>2 DEF DepositHeld
        <5>8. req'[r].at = "mark"
          <6>1. ~ UNCHANGED Kept
            BY <4>1, KeptTouches
          <6> QED
            BY <1>0, <3>1, <5>2, <6>1, Course
        <5> QED
          BY <5>4, <5>5, <5>6, <5>7, <5>8 DEF Row
      <4>2. CASE ~ Touched(p)
        <5>1. lock[p] = r /\ cur'[p] = cur[p]
          BY <3>1, <3>3, <3>7, <4>2
        <5>2. w.at # "respond"
          BY <3>1, StepAt
        <5> QED
          BY <2>0, <3>1, <3>2, <3>4, <5>1, <5>2 DEF DepositHeld
      <4> QED
        BY <4>1, <4>2
    <3>8. DepositHeld(r)'
      BY ONLY <3>1, <3>4, <3>6, <3>7 DEF DepositHeld
    <3> QED
      BY <3>1, <3>5, <3>8
  <2>5. CASE Over(r)
    <3>1. /\ req'[r].op = w.op /\ req'[r].of = w.of /\ req'[r].began = w.began /\ db' = db /\ w.at # "idle"
          /\ req'[r].at = "respond" /\ \A y \in menu.rows : lock'[y] # r
      BY <1>0, <1>1, <2>5, OverKeeps DEF Over
    <3>2. p \in menu.rows
      BY <1>1, <3>1, DepositRows
    <3> QED
      BY <1>1, <2>0, <3>1, <3>2 DEF DepositHeld
  <2> QED
    BY <2>1, <2>2, <2>3, <2>4, <2>5
<1>2. \A y \in menu.rows : y[1] = "intent" /\ cur'[y].st = "live" => db'[y].st = "live"
  BY IntentStep
<1> QED
  BY <1>0, <1>1, <1>2 DEF DepositPart, DepositHeld

LEMMA BetInitially == Init => BetPart
<1> SUFFICES ASSUME Init PROVE BetPart
  OBVIOUS
<1>1. \A r \in Reqs : req[r].at = "idle"
  BY DEF Init, NoWork
<1> QED
  BY <1>1 DEF BetPart, BetHeld

\* The wallet of a bet.
LEMMA BetRow ==
  ASSUME IInv, NEW r \in Reqs, req[r].at # "idle", req[r].op = "bet"
  PROVE  LET p == One("purse", req[r].of) IN p \in menu.rows /\ p[1] = "purse" /\ Cares("bet", req[r].of, p)
<1> DEFINE p == One("purse", req[r].of)
<1>1. <<"bet", req[r].of>> \in menu.meet /\ menu \in Menus
  BY DEF IInv, LocalPart, Local, TypeOK
<1>2. Named("bet", req[r].of) \subseteq menu.rows
  BY <1>1, NamedAssumption
<1>3. Named("bet", req[r].of) = {<<b, req[r].of, 1>> : b \in {"tenant", "purse"}}
  BY DEF Named
<1>4. p \in menu.rows /\ p[1] = "purse" /\ p[2] = req[r].of
  BY <1>2, <1>3 DEF One
<1>5. Matters("bet", p) = (p[1] \in {"tenant", "purse"})
  BY DEF Matters, Wipes
<1> QED
  BY <1>4, <1>5 DEF Cares

\* How a bet moves on: its wallet is read in one step and saved in the next.
LEMMA BetCourse ==
  ASSUME IInv, NEW r \in Reqs, HandlerActs(r), req[r].op = "bet"
  PROVE  req'[r].at = "bet" => req[r].at = "purse" /\ req'[r].n = db[One("purse", req[r].of)].n
<1> DEFINE w == req[r]
           u == req'[r]
<1>0. TypeOK
  BY DEF IInv
<1> SUFFICES ASSUME u.at = "bet" PROVE w.at = "purse" /\ u.n = db[One("purse", w.of)].n
  OBVIOUS
<1>1. w.at \notin {"save", "check", "insertTenant", "dropTenant", "root", "password", "rootKey", "audit", "stamped",
                   "chain", "intent", "balance", "credit", "mark", "bet", "destroy", "upsert", "cashier", "find", "update",
                   "insert", "recipient", "devices", "notify"}
  BY <1>0, Course, SMT DEF Answered
<1>2. w.at \notin {"confirm", "lock", "sweep", "next"}
  BY <1>0, WipeCourse, SMT
<1>3. w.at \notin {"auth", "load"}
  BY <1>0, LetInNext
<1>4. w.at \in Places \ {"idle", "respond"}
  BY <1>0, StepAt, ReadOnce
<1>5. w.at = "purse"
  BY <1>1, <1>2, <1>3, <1>4 DEF Places
<1> QED
  BY <1>0, <1>5, Course

LEMMA BetStep == ASSUME IInv, [Next]_vars, HandsPart, BetPart PROVE BetPart'
<1>0. TypeOK /\ NoReq \notin Reqs /\ menu' = menu
  BY NamesAssumption, MenuStays DEF IInv
<1> SUFFICES ASSUME NEW r \in Reqs, req'[r].at # "idle", req'[r].op = "bet" PROVE BetHeld(r)'
  BY DEF BetPart, BetHeld
<1> DEFINE w == req[r]
           p == One("purse", w.of)
<1>1. BetHeld(r) /\ Local(w) /\ (w.at \in Early => \A y \in menu.rows : lock[y] # r)
  BY DEF BetPart, HandsPart, IInv, LocalPart
<1>2. Stays(r) \/ Arrives(r) \/ Works(r) \/ Over(r)
  BY Views
<1>3. CASE Stays(r)
  <2>1. /\ req'[r].at = w.at /\ req'[r].op = w.op /\ req'[r].of = w.of /\ req'[r].n = w.n
        /\ w.moved \subseteq req'[r].moved
        /\ \A y \in menu.rows : /\ lock'[y] = r <=> lock[y] = r
                                /\ lock[y] = r => cur'[y] = cur[y] /\ db'[y] = db[y]
                                /\ w.at # "idle" /\ Cares(w.op, w.of, y) /\ db'[y] # db[y] => y \in req'[r].moved
    BY <1>3 DEF Stays, Alike
  <2>2. p \in menu.rows /\ Cares(w.op, w.of, p)
    BY <2>1, BetRow
  <2>3. db'[p] # db[p] => p \in req'[r].moved
    BY <2>1, <2>2
  <2>4. lock'[p] = r => lock[p] = r /\ cur'[p] = cur[p] /\ db'[p] = db[p]
    BY <2>1, <2>2
  <2> QED
    BY ONLY <1>1, <2>1, <2>3, <2>4 DEF BetHeld
<1>4. CASE Arrives(r)
  <2>1. req'[r].at = "auth" /\ lock' = lock /\ \A y \in menu.rows : lock[y] # r
    BY <1>4 DEF Arrives
  <2>2. One("purse", req'[r].of) \in menu.rows
    <3>1. IInv'
      BY Inductive
    <3>2. <<"bet", req'[r].of>> \in menu.meet /\ menu \in Menus
      BY <1>0, <3>1 DEF IInv, LocalPart, Local, TypeOK
    <3>3. PICK s : s = req'[r].of
      OBVIOUS
    <3>4. Named("bet", s) \subseteq menu.rows
      BY <3>2, <3>3, NamedAssumption
    <3>5. One("purse", s) \in menu.rows
      BY <3>4 DEF Named, One
    <3> QED
      BY <3>3, <3>5
  <2>3. lock'[One("purse", req'[r].of)] # r
    BY <2>1, <2>2
  <2> QED
    BY <2>1, <2>3 DEF BetHeld
<1>5. CASE Works(r)
  <2>1. /\ req'[r].op = w.op /\ req'[r].of = w.of /\ req'[r].moved = w.moved
        /\ db' = db /\ HandlerActs(r) /\ w.at # "idle"
        /\ \A y \in menu.rows : ~ Touched(y) => cur'[y] = cur[y] /\ lock'[y] = lock[y]
    BY <1>5, WorksKeep DEF Works, Touched
  <2>2. w.op = "bet" /\ p \in menu.rows /\ p[1] = "purse"
    BY <2>1, BetRow
  <2>3. req'[r].at = "bet" => req'[r].n = db[p].n
    BY <2>1, <2>2, BetCourse
  <2>4. ASSUME lock'[p] = r
        PROVE  req'[r].at = "respond" /\ (cur'[p].n - db[p].n \in {1, -1} \/ p \in w.moved)
    <3>1. CASE Touched(p)
      <4>1. Written(r, p)
        BY <2>1, <2>2, <3>1, WrittenBy
      <4>2. w.at = "bet"
        <5>1. TableOf(w.op) # "purse"
          BY DEF TableOf
        <5>2. "purse" \notin Settings \cup Balances
          BY DEF Settings, Balances
        <5>3. w.at \in {"sweep", "dropTenant", "credit", "bet"}
          BY <2>1, <2>2, <3>1, <5>1, <5>2, WrittenTable
        <5> QED
          BY <1>1, <2>2, <5>3 DEF Local, Wipes
      <4>3. PICK n \in {w.n - 1, w.n + 1} : cur'[p] = [cur[p] EXCEPT !.n = n]
        BY ONLY <4>1, <4>2 DEF Written
      <4>4. Mine(r, p)
        BY ONLY <4>1 DEF Written
      <4>5. cur[p] = db[p] /\ cur[p] \in Row
        <5>1. lock[p] # r
          BY <1>1, <2>2, <4>2 DEF Early
        <5> QED
          BY <1>0, <2>2, <4>4, <5>1, Unheld DEF TypeOK
      <4>6. cur'[p].n = n /\ w.n \in Nat
        BY <1>0, <4>3, <4>5 DEF Row, TypeOK, Work
      <4>7. w.n = db[p].n \/ p \in w.moved
        BY <1>1, <2>2, <4>2 DEF BetHeld
      <4>8. req'[r].at = "respond"
        BY <1>0, <2>1, <4>2, Course
      <4>9. n - w.n \in {1, -1}
        BY <4>6
      <4> QED
        BY <4>6, <4>7, <4>8, <4>9
    <3>2. CASE ~ Touched(p)
      <4>1. lock[p] = r
        BY <2>1, <2>2, <2>4, <3>2
      <4>2. w.at # "respond"
        BY <2>1, StepAt
      <4> QED
        BY <1>1, <2>1, <2>2, <4>1, <4>2 DEF BetHeld
    <3> QED
      BY <3>1, <3>2
  <2> QED
    BY ONLY <2>1, <2>3, <2>4 DEF BetHeld
<1>6. CASE Over(r)
  <2>1. /\ req'[r].op = w.op /\ req'[r].of = w.of /\ w.at # "idle"
        /\ req'[r].at = "respond" /\ \A y \in menu.rows : lock'[y] # r
    BY <1>0, <1>6, OverKeeps DEF Over
  <2>2. p \in menu.rows
    BY <2>1, BetRow
  <2> QED
    BY <2>1, <2>2 DEF BetHeld
<1> QED
  BY <1>2, <1>3, <1>4, <1>5, <1>6

LEMMA CreditsKept ==
  ASSUME IInv, [Next]_vars, DepositPart, BetPart
  PROVE  [\A r \in Reqs, y \in menu.rows :
            y[1] = "purse" /\ req[r].op \in {"markPaid", "bet"} /\ lock[y] = r /\ db'[y] # db[y] =>
              LET intent == One("intent", y[2]) IN
              /\ req[r].op = "markPaid" => intent \in req[r].began /\ db'[intent].st # "live"
              /\ \/ y \in req[r].moved
                 \/ db'[y].n - db[y].n \in IF req[r].op = "markPaid" THEN {Amount} ELSE {1, -1}]_db
<1> SUFFICES ASSUME NEW r \in Reqs, NEW y \in menu.rows,
                    y[1] = "purse", req[r].op \in {"markPaid", "bet"}, lock[y] = r, db'[y] # db[y]
             PROVE  LET intent == One("intent", y[2]) IN
                    /\ req[r].op = "markPaid" => intent \in req[r].began /\ db'[intent].st # "live"
                    /\ \/ y \in req[r].moved
                       \/ db'[y].n - db[y].n \in IF req[r].op = "markPaid" THEN {Amount} ELSE {1, -1}
  OBVIOUS
<1>1. /\ req[r].status < 400 /\ req[r].at = "respond"
      /\ \A z \in menu.rows : db'[z] = IF lock[z] = r THEN cur[z] ELSE db[z]
  BY CommittedBy
<1>2. y = One("purse", req[r].of) /\ y[2] = req[r].of
  <2>1. Touches(req[r].op, req[r].of, y) /\ menu \in Menus /\ y \in Rows
    BY MenuAssumption DEF IInv, RowsPart, Holds, TypeOK
  <2>2. y[2] = req[r].of
    BY <2>1 DEF Touches
  <2>3. y[3] = 1 /\ y = <<y[1], y[2], y[3]>>
    BY <2>1, NumbersAssumption, RowsAssumption DEF Single
  <2> QED
    BY <2>2, <2>3 DEF One
<1>3. CASE req[r].op = "markPaid"
  <2>1. One("intent", req[r].of) \in menu.rows
    BY <1>1, <1>3, DepositRows
  <2>2. /\ One("intent", req[r].of) \in req[r].began
        /\ cur[y] = db[y] \/ cur[y].n = db[y].n + Amount \/ y \in req[r].moved
        /\ req[r].status >= 400 \/ (lock[One("intent", req[r].of)] = r /\ cur[One("intent", req[r].of)].st # "live")
    <3>1. DepositHeld(r) /\ lock[One("purse", req[r].of)] = r /\ req[r].at = "respond" /\ req[r].op = "markPaid"
      BY <1>1, <1>2, <1>3 DEF DepositPart
    <3> QED
      BY ONLY <1>2, <3>1 DEF DepositHeld
  <2>3. ~ req[r].status >= 400
    <3>1. req[r].status \in Statuses
      BY Fielded DEF IInv, Records, Type
    <3> QED
      BY <1>1, <3>1 DEF Statuses
  <2>4. db'[y] = cur[y] /\ db'[One("intent", req[r].of)].st # "live"
    BY <1>1, <2>1, <2>2, <2>3
  <2>5. db[y].n \in Nat /\ Amount \in Nat
    BY BoundAssumption DEF IInv, TypeOK, Row
  <2>6. db'[y].n = db[y].n + Amount \/ y \in req[r].moved
    BY <2>2, <2>4
  <2>7. db'[y].n - db[y].n = Amount \/ y \in req[r].moved
    BY <2>5, <2>6
  <2> QED
    BY <1>2, <1>3, <2>2, <2>4, <2>7
<1>4. CASE req[r].op = "bet"
  <2>1. cur[y].n - db[y].n \in {1, -1} \/ y \in req[r].moved
    BY <1>1, <1>2, <1>4 DEF BetPart, BetHeld
  <2>2. db'[y] = cur[y]
    BY <1>1
  <2> QED
    BY <1>4, <2>1, <2>2
<1> QED
  BY <1>3, <1>4

-----------------------------------------------------------------------------
(* The theorems *)

\* Until it writes, a handler holds no row; what a settings handler is about to save is
\* what its tenant's settings still say, but for what it patches or what was changed since;
\* the record an audit row is about to name is the newest there was; mark-paid holds a
\* wallet only together with a deposit that was open when it arrived; and what it or a bet
\* puts into the wallet starts from the balance there is, unless that changed since.
HeldPart == HandsPart /\ ArrivalPart /\ SettingsPart /\ AuditPart /\ DepositPart /\ BetPart
THEOREM HeldRows == Spec => [](IInv /\ HeldPart)
<1>1. Init => IInv /\ HeldPart
  BY Initial, HandsInitially, ArrivalInitially, SettingsInitially, AuditInitially, DepositInitially, BetInitially DEF HeldPart
<1>2. (IInv /\ HeldPart) /\ [Next]_vars => (IInv /\ HeldPart)'
  <2> SUFFICES ASSUME IInv /\ HeldPart, [Next]_vars PROVE IInv' /\ HeldPart'
    OBVIOUS
  <2>1. IInv' /\ HandsPart' /\ ArrivalPart' /\ SettingsPart' /\ AuditPart' /\ DepositPart' /\ BetPart'
    BY Inductive, HandsStep, ArrivalStep, SettingsStep, AuditStep, DepositStep, BetStep DEF HeldPart
  <2> QED
    BY <2>1 DEF HeldPart
<1> QED
  BY <1>1, <1>2, PTL DEF Spec

\* A committed settings row keeps what other requests committed to it, except for the keys
\* the request itself patches or an overlapping request (systemConfig.js, ownerTenants.js).
THEOREM OtherSettingsKept == Spec => SettingsKeepOthers
<1>1. (IInv /\ HeldPart) /\ [Next]_vars =>
        [\A r \in Reqs, y \in menu.rows :
           y[1] = "settings" /\ lock[y] = r /\ db'[y].n # db[y].n /\ db'[y].st = "live" =>
             y[3] \in req[r].patched \/ y \in req[r].moved]_db
  BY SettingsKept DEF HeldPart
<1> QED
  BY <1>1, HeldRows, PTL DEF Spec, SettingsKeepOthers

\* The records of one tenant form a chain: a record names the newest record there was
\* (audit.js:34-47, 67-71), unless the two requests overlapped.
THEOREM RecordsChained == Spec => AuditChained
<1>1. (IInv /\ HeldPart) /\ [Next]_vars =>
        [\A r \in Reqs, y \in menu.rows :
           Makes(r, y) /\ y[1] = "audit" =>
             /\ db'[y].n >= y[3] => <<"audit", y[2], db'[y].n>> \in req[r].moved
             /\ \A z \in Of("audit", y[2]) \ {y} :
                  db'[z].st = "live" /\ db'[z].n = db'[y].n =>
                    z \in req[r].moved \/ db'[z].n > z[3]]_db
  BY AuditKept DEF HeldPart
<1> QED
  BY <1>1, HeldRows, PTL DEF Spec, AuditChained

\* Marking a deposit paid (finance.js:55-97) changes the wallet only together with a deposit
\* that was open when the request arrived and is committed as paid; it then adds the
\* deposit's amount, and a bet (games.js:191, 225-248) its stake or its win, to the committed
\* balance, unless that changed between its reading and its saving.  Two requests that overlap
\* do credit one deposit twice, and a stale bet does undo a credit: neither is excluded.
THEOREM CreditsPaired == Spec => CreditsPairWithStatus
<1>1. (IInv /\ HeldPart) /\ [Next]_vars =>
        [\A r \in Reqs, y \in menu.rows :
           y[1] = "purse" /\ req[r].op \in {"markPaid", "bet"} /\ lock[y] = r /\ db'[y] # db[y] =>
             LET intent == One("intent", y[2]) IN
             /\ req[r].op = "markPaid" => intent \in req[r].began /\ db'[intent].st # "live"
             /\ \/ y \in req[r].moved
                \/ db'[y].n - db[y].n \in IF req[r].op = "markPaid" THEN {Amount} ELSE {1, -1}]_db
  BY CreditsKept DEF HeldPart
<1> QED
  BY <1>1, HeldRows, PTL DEF Spec, CreditsPairWithStatus

-----------------------------------------------------------------------------
(* Tenants *)

There(y) == Exists(db[y]) \/ Exists(cur[y])
\* Tenants that want one identifier are never there together, not even in two requests.
NamesPart ==
  \A t \in Tenants, u \in Tenants :
    t # u /\ NameOf[t] = NameOf[u] /\ {One("tenant", t), One("tenant", u)} \subseteq menu.rows =>
      ~ (There(One("tenant", t)) /\ There(One("tenant", u)))

\* A deletion that goes on holds its tenant.
GripPart ==
  \A r \in Reqs : req[r].op = "delete" /\ req[r].at \notin {"idle", "auth", "lock"} /\ ~ Refused(r) =>
    lock[One("tenant", req[r].of)] = r

\* What a creation or a deletion holds, and a distributor, it holds with the tenant.
BelowPart ==
  \A r \in Reqs, y \in menu.rows :
    lock[y] = r /\ (req[r].op \in {"create", "delete"} \/ y[1] = "distributor") => lock[One("tenant", y[2])] = r

\* Row y is still on r's list.
Pending(r, y) ==
  LET w == req[r] IN
  \/ w.at = "next" /\ \E i \in DOMAIN w.todo : w.todo[i] = Delete(y[1], y[2])
  \/ w.at = "sweep" /\ (y \in w.rows \/ \E i \in DOMAIN w.todo : i # 1 /\ w.todo[i] = Delete(y[1], y[2]))
\* r has deleted row y.
Deletes(r, y) == lock[y] = r /\ cur[y].st = "gone"

\* A request that holds a tenant's row creates the tenant, with all it needs, or deletes it.
Creates(r, t) ==
  /\ req[r].op = "create" /\ ~ Known(One("tenant", t)) /\ req[r].at \in {"audit", "stamped", "chain", "respond"}
  /\ \A b \in {"tenant", "distributor", "wallet", "pool"} :
       One(b, t) \in menu.rows /\ lock[One(b, t)] = r /\ cur[One(b, t)].st = "live"
Dropped(r, t) ==
  /\ Deletes(r, One("tenant", t)) /\ Deletes(r, One("distributor", t))
  /\ \A y \in Below(t) : Exists(db[y]) => Deletes(r, y)
Drops(r, t) ==
  /\ req[r].op = "delete" /\ TenantThere(t)
  /\ \/ /\ req[r].at \in {"next", "sweep", "dropTenant"} /\ lock[One("distributor", t)] = NoReq
        /\ cur[One("tenant", t)].st = "live"
        /\ \A y \in Below(t) : Exists(db[y]) => Deletes(r, y) \/ Pending(r, y)
     \/ req[r].at \in {"audit", "stamped", "chain", "respond"} /\ Dropped(r, t)
OwnersPart ==
  \A r \in Reqs, t \in Tenants : One("tenant", t) \in menu.rows /\ lock[One("tenant", t)] = r =>
    Creates(r, t) \/ Drops(r, t)

\* A row that r makes: nobody has seen it.
Made(r, y) == lock[y] = r /\ ~ Exists(db[y]) /\ Exists(cur[y])
\* What r makes below a tenant waits for no deletion of it.
MadePart ==
  \A r \in Reqs, y \in menu.rows : y[1] \in Children /\ Made(r, y) =>
    LET x == One("tenant", y[2]) IN
    /\ lock[x] \in {r, NoReq} /\ (lock[x] = r => req[r].op = "create")
    /\ lock[x] = NoReq => TenantThere(y[2])

\* A wipe that deletes wallets or pools makes new ones later.
Wiping(w) == w.op \in {"wipe", "wipeAll"}
Replaced(todo) ==
  \A i \in DOMAIN todo : todo[i].sql = "DELETE" /\ todo[i].table \in Balances =>
    \E j \in DOMAIN todo : i < j /\ todo[j] = Create(todo[i].table, todo[i].of)
ReplacedPart ==
  \A r \in Reqs :
    /\ req[r].at \in {"next", "sweep"} /\ Wiping(req[r]) => Replaced(req[r].todo)
    /\ req[r].at = "sweep" => req[r].todo[1].sql = "DELETE"

\* The statement is among those that request r still has to run.
ToDo(r, stmt) == req[r].at \in {"next", "sweep"} /\ \E i \in DOMAIN req[r].todo : req[r].todo[i] = stmt
\* Only wipes and deletions take a tenant's wallet or voucher pool, and a wipe gives another.
Gives(r, b, t) ==
  \/ ToDo(r, Create(b, t)) \/ Refused(r)
  \/ \E y \in Of(b, t) : lock[y] = r /\ Exists(cur[y])
BalancesPart ==
  \A r \in Reqs, z \in menu.rows : z[1] \in Balances /\ lock[z] = r /\ ~ Exists(cur[z]) =>
    req[r].op = "delete" \/ (Wiping(req[r]) /\ Gives(r, z[1], z[2]))

LEMMA ScopeOf ==
  ASSUME IInv, NEW r \in Reqs, req[r].at # "idle"
  PROVE  /\ Named(req[r].op, req[r].of) \subseteq menu.rows
         /\ req[r].op \notin {"system", "brand"} => req[r].of \in Tenants
<1>1. <<req[r].op, req[r].of>> \in menu.meet /\ menu \in Menus
  BY DEF IInv, LocalPart, Local, TypeOK
<1> QED
  BY <1>1, NamedAssumption

LEMMA TenantOf ==
  ASSUME IInv, NEW r \in Reqs, req[r].at # "idle", req[r].op \in {"create", "delete"}
  PROVE  /\ req[r].of \in Tenants /\ One("tenant", req[r].of) \in menu.rows
         /\ req[r].op = "create" =>
              \A b \in {"tenant", "distributor", "wallet", "pool", "staff", "rootKey"} : One(b, req[r].of) \in menu.rows
<1>1. Named(req[r].op, req[r].of) \subseteq menu.rows /\ req[r].of \in Tenants
  BY ScopeOf
<1>2. CASE req[r].op = "create"
  BY <1>1, <1>2 DEF Named, One
<1>3. CASE req[r].op = "delete"
  BY <1>1, <1>3 DEF Named, One
<1> QED
  BY <1>2, <1>3

\* ... in the next state as well.
LEMMA ScopeNext ==
  ASSUME IInv', menu' = menu, NEW r \in Reqs, req'[r].at # "idle", req'[r].op \in {"create", "delete"}
  PROVE  req'[r].of \in Tenants /\ One("tenant", req'[r].of) \in menu.rows
<1>1. <<req'[r].op, req'[r].of>> \in menu.meet /\ menu \in Menus
  BY DEF IInv, LocalPart, Local, TypeOK
<1>2. \A op, t : <<op, t>> \in menu.meet /\ op \in {"create", "delete"} => t \in Tenants /\ One("tenant", t) \in menu.rows
  <2> SUFFICES ASSUME NEW op, NEW t, <<op, t>> \in menu.meet, op \in {"create", "delete"}
               PROVE  t \in Tenants /\ One("tenant", t) \in menu.rows
    OBVIOUS
  <2>1. Named(op, t) \subseteq menu.rows /\ t \in Tenants
    BY <1>1, NamedAssumption
  <2> QED
    BY <2>1 DEF Named, One
<1> QED
  BY <1>1, <1>2

LEMMA OwnTenant ==
  ASSUME IInv, NEW y \in menu.rows, y[1] # "settings" \/ y[2] \in Tenants
  PROVE  y[2] \in Tenants /\ One("tenant", y[2]) \in menu.rows /\ One("distributor", y[2]) \in menu.rows
BY NamedAssumption DEF IInv, TypeOK, One

\* There is one row for a tenant.
LEMMA OneTenant ==
  ASSUME IInv, NEW y \in menu.rows, y[1] \in {"tenant", "distributor"}
  PROVE  y = One(y[1], y[2])
<1>1. y \in Rows
  BY MenuAssumption DEF IInv, TypeOK
<1> QED
  BY <1>1, NumbersAssumption, RowsAssumption DEF Single, One

LEMMA TenantWritten ==
  ASSUME IInv, NEW r \in Reqs, HandlerActs(r), NEW y \in menu.rows, y[1] = "tenant", Touched(y)
  PROVE  LET w == req[r] IN
         /\ y = One("tenant", w.of) /\ lock'[y] = r
         /\ \/ w.at = "insertTenant" /\ w.op = "create" /\ ~ Seen(y)
            \/ w.at = "lock" /\ w.op = "delete" /\ cur'[y] = cur[y] /\ TenantThere(w.of) /\ Inserters(w.of) \subseteq {r}
            \/ w.at = "dropTenant" /\ w.op = "delete" /\ cur'[y] = Is("gone")
<1> DEFINE w == req[r]
<1>1. Written(r, y)
  BY WrittenBy
<1>2. "tenant" \notin Children \cup Settings \cup Balances /\ TableOf(w.op) # "tenant"
  BY DEF Children, Settings, Wiped, Balances, TableOf
<1>3. w.at \in {"insertTenant", "lock", "dropTenant"}
  BY <1>2, WrittenTable
<1>4. /\ w.at = "insertTenant" => w.op = "create" /\ ~ Seen(One("tenant", w.of))
      /\ w.at \in {"lock", "dropTenant"} => w.op = "delete"
  BY DEF IInv, LocalPart, Local, FactsPart, Facts
<1>5. w.at = "insertTenant" => y = One("tenant", w.of)
  <2>1. w.at = "insertTenant" => y \in Bootstrap(w.of, TRUE)
    BY <1>1 DEF Written
  <2> QED
    BY <2>1 DEF Bootstrap, One, Of
<1>6. w.at = "dropTenant" => y = One("tenant", w.of) /\ cur'[y] = Is("gone")
  <2>1. w.at = "dropTenant" => y \in Below(w.of) \cup {One("tenant", w.of), One("distributor", w.of)} /\ cur'[y] = Is("gone")
    BY <1>1 DEF Written
  <2> QED
    BY <1>2, <2>1 DEF Below, One
<1>7. w.at = "lock" => y = One("tenant", w.of) /\ cur'[y] = cur[y] /\ TenantThere(w.of) /\ Inserters(w.of) \subseteq {r}
  BY <1>1 DEF Written
<1>8. lock'[y] = r
  BY <1>1 DEF Written
<1> QED
  BY ONLY <1>3, <1>4, <1>5, <1>6, <1>7, <1>8

LEMMA DistributorWritten ==
  ASSUME IInv, NEW r \in Reqs, HandlerActs(r), NEW y \in menu.rows, y[1] = "distributor", Touched(y)
  PROVE  req[r].at \in {"insertTenant", "dropTenant"} /\ y = One("distributor", req[r].of)
<1> DEFINE w == req[r]
<1>1. Written(r, y)
  BY WrittenBy
<1>2. "distributor" \notin Children \cup Settings \cup Balances /\ TableOf(w.op) # "distributor"
  BY DEF Children, Settings, Wiped, Balances, TableOf
<1>3. w.at \in {"insertTenant", "dropTenant"}
  BY <1>2, WrittenTable
<1>4. w.at = "insertTenant" => y = One("distributor", w.of)
  <2>1. w.at = "insertTenant" => y \in Bootstrap(w.of, TRUE)
    BY <1>1 DEF Written
  <2> QED
    BY <2>1 DEF Bootstrap, One, Of
<1>5. w.at = "dropTenant" => y = One("distributor", w.of)
  <2>1. w.at = "dropTenant" => y \in Below(w.of) \cup {One("tenant", w.of), One("distributor", w.of)}
    BY <1>1 DEF Written
  <2> QED
    BY <1>2, <2>1 DEF Below, One
<1> QED
  BY <1>3, <1>4, <1>5

\* A creation writes all rows of the bootstrap or none, and nobody has its name.
LEMMA CreatedWhole ==
  ASSUME IInv, NEW r \in Reqs, HandlerActs(r), req[r].at = "insertTenant", NEW x \in menu.rows, Touched(x)
  PROVE  LET t == req[r].of IN
         /\ req'[r].at = "audit"
         /\ \A b \in {"tenant", "distributor", "wallet", "pool", "staff", "rootKey"} :
              lock'[One(b, t)] = r /\ cur'[One(b, t)] = Is("live")
         /\ \A y \in SameName(t) \ {One("tenant", t)} : (There(y) => Mine(r, y)) /\ ~ Exists(db[y])
<1> DEFINE t == req[r].of
<1>0. TypeOK
  BY DEF IInv
<1>1. ~ Reply(r, 409) /\ InsertTenant(r)
  BY KeptTouches, StepAt DEF Reply
<1>2. /\ \A y \in SameName(t) \ {One("tenant", t)} : (Exists(cur[y]) \/ Exists(db[y]) => Mine(r, y)) /\ ~ Exists(db[y])
      /\ \E configured \in BOOLEAN : LET new == Bootstrap(t, configured) IN Write(r, new, [y \in new |-> Is("live")])
  BY ONLY <1>1, Zenon DEF InsertTenant
<1>3. PICK configured \in BOOLEAN : LET new == Bootstrap(t, configured) IN Write(r, new, [y \in new |-> Is("live")])
  BY <1>2
<1>4. \A b \in {"tenant", "distributor", "wallet", "pool", "staff", "rootKey"} :
        One(b, t) \in Bootstrap(t, configured) /\ One(b, t) \in menu.rows
  <2>1. req[r].op = "create" /\ req[r].at # "idle"
    BY DEF IInv, LocalPart, Local
  <2> QED
    BY <2>1, TenantOf DEF Bootstrap
<1> DEFINE new == Bootstrap(t, configured)
<1> HIDE DEF new
<1>5. Write(r, new, [y \in new |-> Is("live")])
  BY <1>3 DEF new
<1>6. \A y \in menu.rows : y \in new => lock'[y] = r /\ cur'[y] = Is("live")
  BY <1>0, <1>5, SMT DEF Write
<1>7. req'[r].at = "audit"
  <2>1. ~ UNCHANGED Kept
    BY KeptTouches
  <2> QED
    BY <1>0, <2>1, Course
<1> QED
  BY <1>2, <1>4, <1>6, <1>7 DEF There, new

\* The rows of a handler's step.
LEMMA WorksRows ==
  ASSUME IInv, NEW r \in Reqs, Works(r)
  PROVE  /\ db' = db /\ menu' = menu /\ \A q \in Reqs \ {r} : req'[q] = req[q]
         /\ req'[r].op = req[r].op /\ req'[r].of = req[r].of
         /\ req[r].at \notin {"idle", "respond"} /\ req'[r].at \notin {"idle", "auth"}
         /\ \A y \in menu.rows : Touched(y) =>
              /\ Written(r, y) /\ lock'[y] = r /\ lock[y] \in {r, NoReq}
              /\ Touches(req[r].op, req[r].of, y) /\ cur'[y].st # "none"
<1>1. /\ HandlerActs(r) /\ Moves(r, Every)
  BY DEF Works, Proper, Acts
<1>2. /\ db' = db /\ menu' = menu /\ req'[r].op = req[r].op /\ req'[r].of = req[r].of
      /\ req'[r].at \notin {"idle", "auth"}
      /\ \A y \in menu.rows : \/ cur'[y] = cur[y] /\ lock'[y] = lock[y]
                              \/ req[r].at # "auth" /\ Changed(r, y)
  BY WorksKeep
<1>3. req[r].at \notin {"idle", "respond"}
  BY <1>1, StepAt
<1>4. \A q \in Reqs \ {r} : req'[q] = req[q]
  BY <1>1 DEF Moves
<1>5. ASSUME NEW y \in menu.rows, Touched(y)
      PROVE  /\ Written(r, y) /\ lock'[y] = r /\ lock[y] \in {r, NoReq}
             /\ Touches(req[r].op, req[r].of, y) /\ cur'[y].st # "none"
  <2>1. Written(r, y)
    BY <1>1, <1>5, WrittenBy
  <2>2. Changed(r, y)
    BY <1>2, <1>5 DEF Touched
  <2> QED
    BY <2>1, <2>2 DEF Changed
<1> QED
  BY ONLY <1>2, <1>3, <1>4, <1>5, Zenon

\* r's transaction ends: its rows are free, as it left them or as they were.
Ending(r) ==
  /\ menu' = menu
  /\ \A y \in menu.rows : lock[y] # r => db'[y] = db[y] /\ cur'[y] = cur[y] /\ lock'[y] = lock[y]
  /\ \A y \in menu.rows : lock[y] = r => lock'[y] = NoReq /\ cur'[y] = db'[y]
  /\ \/ db' = db
     \/ /\ req[r].at = "respond" /\ req[r].status < 400
        /\ \A y \in menu.rows : lock[y] = r => db'[y] = cur[y]
  /\ \A q \in Reqs \ {r} : Alike(req'[q], req[q])
  /\ req'[r].at = "idle" \/ Refused(r)'

\* Nothing happens to rows; a request may arrive.
Rests ==
  /\ db' = db /\ cur' = cur /\ lock' = lock /\ menu' = menu
  /\ \A r \in Reqs : Alike(req'[r], req[r]) \/ (req[r].at = "idle" /\ req'[r].at = "auth")

LEMMA EndingIs ==
  ASSUME IInv, NEW r \in Reqs, (Commits(r) /\ req[r].status < 400 /\ req[r].at = "respond") \/ Ends(r)
  PROVE  Ending(r)
<1>0. TypeOK /\ menu' = menu /\ NoReq \notin Reqs
  BY NamesAssumption DEF IInv, Commits, Ends, Rollback
<1>1. CASE Commits(r) /\ req[r].status < 400 /\ req[r].at = "respond"
  <2>1. req'[r] = NoWork /\ \A q \in Reqs \ {r} : Alike(req'[q], req[q])
    BY <1>0, <1>1, NotedIs DEF Commits
  <2>2. /\ \A y \in menu.rows : lock[y] # r => db'[y] = db[y] /\ cur'[y] = cur[y] /\ lock'[y] = lock[y]
        /\ \A y \in menu.rows : lock[y] = r => lock'[y] = NoReq /\ cur'[y] = db'[y] /\ db'[y] = cur[y]
    BY <1>0, <1>1 DEF Commits, Free
  <2>3. req'[r].at = "idle"
    BY <2>1 DEF NoWork
  <2> QED
    BY ONLY <1>0, <1>1, <2>1, <2>2, <2>3 DEF Ending
<1>2. CASE Ends(r)
  <2>1. Rollback(r) /\ (req'[r] = NoWork \/ Refused(r)') /\ \A q \in Reqs \ {r} : req'[q] = req[q]
    BY <1>0, <1>2, EndsIs DEF Refused
  <2>2. /\ db' = db
        /\ \A y \in menu.rows : lock[y] # r => cur'[y] = cur[y] /\ lock'[y] = lock[y]
        /\ \A y \in menu.rows : lock[y] = r => lock'[y] = NoReq /\ cur'[y] = db[y]
    BY <1>0, <2>1 DEF Rollback, Free
  <2> QED
    BY <1>0, <2>1, <2>2 DEF Ending, NoWork, Alike
<1> QED
  BY <1>1, <1>2

\* A step is one of these.
LEMMA Doings ==
  ASSUME IInv, [Next]_vars
  PROVE  IInv' /\ (Rests \/ \E r \in Reqs : Works(r) \/ Ending(r))
<1>1. IInv'
  BY Inductive
<1>2. CASE UNCHANGED vars
  <2>1. db' = db /\ cur' = cur /\ lock' = lock /\ req' = req /\ menu' = menu
    BY <1>2 DEF vars
  <2> QED
    BY <1>1, <2>1 DEF Rests, Alike
<1>3. ASSUME NEW q \in Reqs, Begin(q) \/ HandlerStep(q) \/ Close(q) \/ DeadlockVictim(q)
      PROVE  Rests \/ Works(q) \/ Ending(q)
  <2>1. Begin(q) \/ HandlerActs(q) \/ (Commits(q) /\ req[q].status < 400 /\ At(q, "respond")) \/ Ends(q)
    BY <1>3, StepsOf
  <2>2. CASE Begin(q)
    <3>1. /\ req[q].at = "idle" /\ db' = db /\ cur' = cur /\ lock' = lock /\ menu' = menu
          /\ req'[q].at = "auth" /\ \A r \in Reqs \ {q} : req'[r] = req[r]
      BY <2>2, BeginIs DEF IInv
    <3> QED
      BY ONLY <3>1 DEF Rests, Alike
  <2>3. CASE HandlerActs(q)
    BY <2>3, HandlerActsProper DEF Works
  <2> QED
    BY <2>1, <2>2, <2>3, EndingIs DEF At
<1> QED
  BY <1>1, <1>2, <1>3 DEF Next

\* In a handler's step a row that it does not touch is as it was.
LEMMA Untouched == ASSUME NEW y \in menu.rows, ~ Touched(y) PROVE cur'[y] = cur[y] /\ lock'[y] = lock[y]
BY DEF Touched

LEMMA NamesStep == ASSUME IInv, [Next]_vars, NamesPart PROVE NamesPart'
<1> SUFFICES ASSUME NEW t \in Tenants, NEW u \in Tenants, t # u, NameOf[t] = NameOf[u],
                    One("tenant", t) \in menu.rows, One("tenant", u) \in menu.rows,
                    There(One("tenant", t))', There(One("tenant", u))'
             PROVE  FALSE
  <2>1. menu' = menu
    BY MenuStays
  <2> QED
    BY <2>1 DEF NamesPart
<1> DEFINE x == One("tenant", t)
           z == One("tenant", u)
<1>0. ~ (There(x) /\ There(z)) /\ x # z /\ x[1] = "tenant" /\ z[1] = "tenant"
  BY DEF NamesPart, One
<1> HIDE DEF x, z
<1>1. CASE Rests
  BY <1>0, <1>1 DEF Rests, There, x, z
<1>2. ASSUME NEW r \in Reqs, Ending(r) PROVE FALSE
  <2>1. \A y \in menu.rows : There(y)' => There(y)
    BY <1>2 DEF Ending, There
  <2> QED
    BY <1>0, <2>1 DEF x, z
<1>3. ASSUME NEW r \in Reqs, Works(r) PROVE FALSE
  <2>0. /\ HandlerActs(r) /\ db' = db
        /\ x \in menu.rows /\ z \in menu.rows /\ There(x)' /\ There(z)'
    BY <1>3, WorksRows DEF Works, x, z
  <2>1. \A y \in menu.rows : y[1] = "tenant" /\ There(y)' /\ ~ There(y) =>
          Touched(y) /\ req[r].at = "insertTenant" /\ y = One("tenant", req[r].of) /\ req[r].op = "create"
    <3> SUFFICES ASSUME NEW y \in menu.rows, y[1] = "tenant", There(y)', ~ There(y)
                 PROVE  Touched(y) /\ req[r].at = "insertTenant" /\ y = One("tenant", req[r].of) /\ req[r].op = "create"
      OBVIOUS
    <3>1. cur'[y] # cur[y] /\ Exists(cur'[y])
      BY <2>0 DEF There
    <3>2. ~ Exists(Is("gone"))
      BY DEF Exists, Is
    <3>3. Touched(y)
      BY <3>1 DEF Touched
    <3> QED
      BY <2>0, <3>1, <3>2, <3>3, TenantWritten
  <2>2. ASSUME NEW a \in Tenants, NEW b \in Tenants, a # b, NameOf[a] = NameOf[b],
               One("tenant", a) \in menu.rows, One("tenant", b) \in menu.rows,
               There(One("tenant", a))', ~ There(One("tenant", a)), There(One("tenant", b))'
        PROVE  FALSE
    <3> DEFINE p == One("tenant", a)
               q == One("tenant", b)
    <3>1. p[1] = "tenant" /\ q[1] = "tenant" /\ p[2] = a /\ q[2] = b /\ p # q
      BY <2>2 DEF One
    <3>2. Touched(p) /\ req[r].at = "insertTenant" /\ p = One("tenant", req[r].of) /\ req[r].op = "create"
      BY <2>1, <2>2, <3>1
    <3>3. req[r].of = a
      BY <3>2 DEF One
    <3>4. q \in SameName(a) \ {p}
      BY <2>2, <3>1 DEF SameName
    <3>5. (There(q) => Mine(r, q)) /\ ~ Exists(db[q])
      BY <2>0, <2>2, <3>2, <3>3, <3>4, CreatedWhole
    <3>6. There(q)
      BY <2>1, <2>2, <3>1, <3>3
    <3>7. lock[q] = NoReq
      <4>1. lock[q] # r
        BY <2>2, <3>1, <3>2, <3>3 DEF IInv, RowsPart, Holds, Touches
      <4> QED
        BY <3>5, <3>6, <4>1 DEF Mine
    <3> QED
      BY <2>2, <3>5, <3>6, <3>7 DEF There, IInv, RowsPart
  <2> QED
    BY <1>0, <2>0, <2>2 DEF x, z
<1> QED
  BY <1>1, <1>2, <1>3, Doings

LEMMA GripStep == ASSUME IInv, [Next]_vars, GripPart PROVE GripPart'
<1>0. IInv' /\ menu' = menu
  BY Doings, MenuStays
<1> SUFFICES ASSUME NEW r \in Reqs, req'[r].op = "delete", req'[r].at \notin {"idle", "auth", "lock"}, ~ Refused(r)'
             PROVE  lock'[One("tenant", req'[r].of)] = r
  BY DEF GripPart
<1> DEFINE x == One("tenant", req'[r].of)
<1>1. x \in menu.rows
  BY <1>0, ScopeNext
<1>2. ASSUME Alike(req'[r], req[r]) PROVE lock[x] = r
  BY <1>2 DEF Alike, Refused, GripPart
<1>3. CASE Rests
  BY <1>2, <1>3 DEF Rests
<1>4. ASSUME NEW q \in Reqs, Ending(q) PROVE lock'[x] = r
  <2>1. q # r
    BY <1>4 DEF Ending
  <2>2. lock[x] = r
    BY <1>2, <1>4, <2>1 DEF Ending
  <2> QED
    BY <1>1, <1>4, <2>1, <2>2 DEF Ending
<1>5. ASSUME NEW q \in Reqs, q # r, Works(q) PROVE lock'[x] = r
  <2>1. req'[r] = req[r]
    BY <1>5, WorksRows
  <2>2. lock[x] = r
    BY <1>2, <2>1 DEF Alike
  <2>3. ~ Touched(x)
    BY <1>1, <1>5, <2>2, WorksRows, NamesAssumption
  <2> QED
    BY <1>1, <2>2, <2>3, Untouched
<1>6. CASE Works(r)
  <2>1. /\ req[r].op = "delete" /\ req[r].of = req'[r].of /\ req[r].at \notin {"idle", "respond"} /\ HandlerActs(r)
    BY <1>6, WorksRows DEF Works
  <2>2. req[r].at # "auth"
    <3> SUFFICES ASSUME req[r].at = "auth" PROVE FALSE
      OBVIOUS
    <3>1. req' = Start(r) \/ req' = Answer(r, 404) \/ \E code \in {401, 404, 500} : req' = Answer(r, code)
      <4>1. OwnerAuth(r) \/ StaffAuth(r) \/ NoAuth(r)
        BY <2>1, StepAt
      <4> QED
        BY <4>1 DEF OwnerAuth, StaffAuth, NoAuth
    <3>2. req' = Start(r) => req'[r].at = "lock"
      <4>1. req' = Start(r) => req'[r].at = AuthPlace("delete")
        BY <2>1, StartIs DEF IInv
      <4>2. AuthPlace("delete") = "lock"
        BY DEF AuthPlace
      <4> QED
        BY <4>1, <4>2
    <3>3. ASSUME NEW code \in {401, 404, 500}, req' = Answer(r, code) PROVE FALSE
      BY <3>3, ReplyIs DEF IInv, Answered, Refused
    <3> QED
      BY <3>1, <3>2, <3>3
  <2>3. CASE req[r].at = "lock"
    <3>1. LockTenant(r)
      BY <2>1, <2>3, StepAt
    <3>2. Write(r, {x}, cur)
      <4>1. \/ Answered(req'[r], 404)
            \/ Write(r, {One("tenant", req[r].of)}, cur)
        BY <3>1, LockTenantIs DEF IInv
      <4> QED
        BY <2>1, <4>1 DEF Answered, Refused
    <3> QED
      BY <1>1, <3>2 DEF Write
  <2>4. CASE req[r].at # "lock"
    <3>1. lock[x] = r
      BY <2>1, <2>2, <2>4 DEF GripPart, Refused
    <3> QED
      BY <1>1, <1>6, <3>1, WorksRows, Untouched
  <2> QED
    BY <2>3, <2>4
<1> QED
  BY <1>3, <1>4, <1>5, <1>6, Doings

LEMMA BelowStep == ASSUME IInv, [Next]_vars, GripPart, BelowPart PROVE BelowPart'
<1>0. IInv' /\ menu' = menu
  BY Doings, MenuStays
<1> SUFFICES ASSUME NEW r \in Reqs, NEW y \in menu.rows, lock'[y] = r,
                    req'[r].op \in {"create", "delete"} \/ y[1] = "distributor"
             PROVE  lock'[One("tenant", y[2])] = r
  BY <1>0 DEF BelowPart
<1> DEFINE x == One("tenant", y[2])
<1>1. /\ req'[r].at \notin {"idle", "auth"} /\ Touches(req'[r].op, req'[r].of, y)
      /\ r # NoReq
  BY <1>0, NamesAssumption DEF IInv, RowsPart, Holds
<1>2. (x \in menu.rows /\ y[2] = req'[r].of) \/ y[1] = "distributor"
  BY <1>0, <1>1, ScopeNext DEF Touches
<1>3. x \in menu.rows
  BY <1>2, OwnTenant
<1> HIDE DEF x
<1>4. ASSUME lock[y] = r, req'[r].op = req[r].op PROVE lock[x] = r
  BY <1>4 DEF BelowPart, x
<1>5. CASE Rests
  BY <1>1, <1>4, <1>5 DEF Rests, Alike, x
<1>6. ASSUME NEW q \in Reqs, Ending(q) PROVE lock'[x] = r
  <2>1. q # r
    BY <1>1, <1>6 DEF Ending
  <2>2. lock[y] = r /\ req'[r].op = req[r].op
    BY <1>1, <1>6, <2>1 DEF Ending, Alike
  <2> QED
    BY <1>3, <1>4, <1>6, <2>1, <2>2 DEF Ending
<1>7. ASSUME NEW q \in Reqs, q # r, Works(q) PROVE lock'[x] = r
  <2>1. lock[y] = r /\ req'[r] = req[r]
    BY <1>7, WorksRows, Untouched
  <2>2. lock[x] = r
    BY <1>4, <2>1
  <2> QED
    BY <1>1, <1>3, <1>7, <2>2, WorksRows, Untouched
<1>8. CASE Works(r)
  <2>0. /\ req'[r].op = req[r].op /\ req'[r].of = req[r].of /\ HandlerActs(r)
        /\ req[r].at \notin {"idle", "respond"}
    BY <1>8, WorksRows DEF Works
  <2>1. CASE lock[x] = r
    BY <1>3, <1>8, <2>1, WorksRows, Untouched DEF x
  <2>2. CASE lock[x] # r
    <3>1. Touched(y)
      BY <1>4, <2>0, <2>2, Untouched
    <3>2. Written(r, y)
      BY <1>8, <3>1, WorksRows
    <3>3. req[r].at = "insertTenant" \/ lock'[x] = r
      <4>1. CASE y[1] = "distributor"
        <5>1. req[r].at \in {"insertTenant", "dropTenant"} /\ y = One("distributor", req[r].of)
          BY <2>0, <3>1, <4>1, DistributorWritten
        <5>2. req[r].at = "dropTenant" => lock[One("tenant", req[r].of)] = r
          BY DEF IInv, LocalPart, Local, GripPart, Refused
        <5>3. x = One("tenant", req[r].of)
          BY <5>1 DEF One, x
        <5> QED
          BY <2>2, <5>1, <5>2, <5>3
      <4>2. CASE req[r].op = "delete"
        <5>1. x = One("tenant", req[r].of)
          BY <1>1, <2>0, <4>2 DEF Touches, x
        <5>2. req[r].at \in {"auth", "lock"}
          BY <2>0, <2>2, <4>2, <5>1 DEF GripPart, Refused
        <5>3. req[r].at # "auth"
          BY <3>2 DEF Written
        <5>4. y = x
          BY <3>2, <5>1, <5>2, <5>3 DEF Written
        <5> QED
          BY <1>8, <3>1, <5>4, WorksRows DEF x
      <4>3. CASE req[r].op = "create"
        <5>1. req[r].at \in {"insertTenant", "chain"}
          BY <3>2, <4>3, <2>0 DEF Written, IInv, LocalPart, Local, Wipes
        <5>2. x = One("tenant", req[r].of)
          BY <1>1, <2>0, <4>3 DEF Touches, x
        <5>3. req[r].at = "chain" => lock[x] = r
          BY <4>3, <5>2 DEF IInv, FactsPart, Facts
        <5> QED
          BY <2>2, <5>1, <5>3
      <4> QED
        BY <2>0, <4>1, <4>2, <4>3
    <3>4. CASE req[r].at = "insertTenant"
      <4>1. lock'[One("tenant", req[r].of)] = r
        BY <2>0, <3>1, <3>4, CreatedWhole
      <4>2. y \in Bootstrap(req[r].of, TRUE)
        BY <3>2, <3>4 DEF Written
      <4>3. x = One("tenant", req[r].of)
        BY <4>2 DEF Bootstrap, Of, One, x
      <4> QED
        BY <4>1, <4>3 DEF x
    <3> QED
      BY <3>3, <3>4 DEF x
  <2> QED
    BY <2>1, <2>2
<1> QED
  BY <1>5, <1>6, <1>7, <1>8, Doings DEF x

LEMMA Shift == ASSUME NEW S, NEW s \in Seq(S), NEW i \in DOMAIN s, i # 1 PROVE i - 1 \in DOMAIN Tail(s) /\ Tail(s)[i - 1] = s[i]
OBVIOUS

LEMMA SweepCourse ==
  ASSUME TypeOK, NEW r \in Reqs, HandlerActs(r), req[r].at = "sweep"
  PROVE  \E z \in req[r].rows :
           LET Y == req[r].rows \ {z} IN
           /\ WriteOne(r, z, Is("gone")) /\ Only(req'[r], req[r], {"rows", "at", "todo"}) /\ req'[r].rows = Y
           /\ Y = {} => req'[r].at = "next" /\ req'[r].todo = Tail(req[r].todo)
           /\ Y # {} => req'[r].at = "sweep" /\ req'[r].todo = req[r].todo
<1>1. SweepRow(r)
  BY StepAt
<1>2. PICK z \in req[r].rows : WriteOne(r, z, Is("gone")) /\ Sweeping(r, req[r].rows \ {z})
  BY <1>1, Zenon DEF SweepRow
<1> QED
  BY <1>2, SweptIs

\* A deletion between two of its statements: it starts the next one, or is done with them.
LEMMA DeleteCourse ==
  ASSUME IInv, NEW r \in Reqs, HandlerActs(r), req[r].at = "next", req[r].op = "delete"
  PROVE  /\ UNCHANGED Kept
         /\ \/ req[r].todo = << >> /\ req'[r].at = "dropTenant"
            \/ /\ req[r].todo # << >>
               /\ LET Y == {y \in Aimed(req[r].todo[1]) : Exists(db[y]) \/ (lock[y] = r /\ Exists(cur[y]))} IN
                  /\ req'[r].rows = Y
                  /\ Y = {} => req'[r].at = "next" /\ req'[r].todo = Tail(req[r].todo)
                  /\ Y # {} => req'[r].at = "sweep" /\ req'[r].todo = req[r].todo
<1>0. TypeOK /\ req[r].todo \in Seq(Statement) /\ \A i \in DOMAIN req[r].todo : Meant(req[r], req[r].todo[i])
  BY BetweenStatements DEF IInv
<1>1. ~ NextTenant(r)
  BY <1>0, NextTenantIs
<1>2. ~ WipeInsert(r)
  <2> SUFFICES ASSUME WipeInsert(r) PROVE FALSE
    OBVIOUS
  <2>1. req[r].todo # << >> /\ Head(req[r].todo).sql = "INSERT"
    BY <1>0, WipeInsertIs
  <2>2. Meant(req[r], req[r].todo[1]) /\ req[r].todo[1].sql = "INSERT"
    BY <1>0, <2>1, HeadIs
  <2> QED
    BY <2>2 DEF Meant
<1>3. CASE StartDelete(r)
  <2> DEFINE Y == {y \in Aimed(Head(req[r].todo)) : Exists(db[y]) \/ (lock[y] = r /\ Exists(cur[y]))}
  <2>1. req[r].todo # << >> /\ UNCHANGED Kept /\ \E Z \in IF req[r].op = "purge" THEN SUBSET Y ELSE {Y} : Sweeping(r, Z)
    BY <1>3, Zenon DEF StartDelete
  <2>2. Head(req[r].todo) = req[r].todo[1]
    BY <1>0, <2>1, HeadIs
  <2> HIDE DEF Y
  <2>3. Sweeping(r, Y)
    BY <2>1
  <2>4. /\ req'[r].rows = Y
        /\ Y = {} => req'[r].at = "next" /\ req'[r].todo = Tail(req[r].todo)
        /\ Y # {} => req'[r].at = "sweep" /\ req'[r].todo = req[r].todo
    BY <1>0, <2>3, SweptIs
  <2>5. Y = {y \in Aimed(req[r].todo[1]) : Exists(db[y]) \/ (lock[y] = r /\ Exists(cur[y]))}
    BY <2>2 DEF Y
  <2> QED
    BY ONLY <2>1, <2>4, <2>5, Zenon
<1>4. CASE StatementsDone(r)
  BY <1>0, <1>4, StatementsDoneIs
<1> QED
  BY <1>1, <1>2, <1>3, <1>4, StepAt

\* What a deletion still has to delete stays on its list until it is deleted.
LEMMA PendingStays ==
  ASSUME IInv, NEW r \in Reqs, HandlerActs(r), req[r].at \in {"next", "sweep"}, req[r].op = "delete",
         NEW y \in menu.rows, Pending(r, y), Exists(db[y])
  PROVE  Pending(r, y)' \/ Deletes(r, y)'
<1> DEFINE w == req[r]
           u == req'[r]
<1>0. TypeOK /\ w.todo \in Seq(Statement)
  BY BetweenStatements DEF IInv
<1>1. ASSUME NEW i \in DOMAIN w.todo, i # 1, w.todo[i] = Delete(y[1], y[2]), w.todo # << >>,
             \/ u.at = "next" /\ u.todo = Tail(w.todo)
             \/ u.at = "sweep" /\ u.todo = w.todo
      PROVE  Pending(r, y)'
  <2>1. i - 1 \in DOMAIN Tail(w.todo) /\ Tail(w.todo)[i - 1] = w.todo[i]
    BY <1>0, <1>1, Shift
  <2>2. CASE u.at = "next" /\ u.todo = Tail(w.todo)
    BY <1>1, <2>1, <2>2 DEF Pending
  <2>3. CASE u.at = "sweep" /\ u.todo = w.todo
    BY <1>1, <2>3 DEF Pending
  <2> QED
    BY <1>1, <2>2, <2>3
<1>2. CASE w.at = "next"
  <2>1. PICK i \in DOMAIN w.todo : w.todo[i] = Delete(y[1], y[2])
    BY <1>2 DEF Pending
  <2>2. w.todo # << >>
    BY <1>0, <2>1
  <2> DEFINE Y == {z \in Aimed(w.todo[1]) : Exists(db[z]) \/ (lock[z] = r /\ Exists(cur[z]))}
  <2>3. /\ u.rows = Y
        /\ Y = {} => u.at = "next" /\ u.todo = Tail(w.todo)
        /\ Y # {} => u.at = "sweep" /\ u.todo = w.todo
    BY <1>2, <2>2, DeleteCourse
  <2>4. i = 1 => y \in Y
    BY <2>1, FieldsOf DEF Aimed
  <2> HIDE DEF Y
  <2>5. CASE i = 1
    BY <2>3, <2>4, <2>5 DEF Pending
  <2>6. CASE i # 1
    BY <1>1, <2>1, <2>2, <2>3, <2>6
  <2> QED
    BY <2>5, <2>6
<1>3. CASE w.at = "sweep"
  <2>1. PICK z \in w.rows :
          LET Y == w.rows \ {z} IN
          /\ WriteOne(r, z, Is("gone")) /\ u.rows = Y
          /\ Y = {} => u.at = "next" /\ u.todo = Tail(w.todo)
          /\ Y # {} => u.at = "sweep" /\ u.todo = w.todo
    BY <1>0, <1>3, SweepCourse
  <2>2. w.todo # << >>
    BY <1>3 DEF IInv, LocalPart, Local
  <2>3. CASE y = z
    <3>1. lock'[y] = r /\ cur'[y] = Is("gone")
      BY <1>0, <2>1, <2>3 DEF WriteOne, TypeOK
    <3> QED
      BY <3>1 DEF Deletes, Is
  <2>4. CASE y \in w.rows /\ y # z
    <3>1. y \in w.rows \ {z}
      BY <2>4
    <3>2. u.rows = w.rows \ {z} /\ u.at = "sweep"
      BY <2>1, <3>1
    <3> QED
      BY <3>1, <3>2 DEF Pending
  <2>5. CASE y \notin w.rows
    <3>1. PICK i \in DOMAIN w.todo : i # 1 /\ w.todo[i] = Delete(y[1], y[2])
      BY <1>3, <2>5 DEF Pending
    <3> QED
      BY <1>1, <2>1, <2>2, <3>1
  <2> QED
    BY <2>3, <2>4, <2>5
<1> QED
  BY <1>2, <1>3

\* The statements of a deletion take all tables below the tenant.
LEMMA AllChildren ==
  ASSUME NEW t, NEW b \in Children
  PROVE  \E i \in DOMAIN (WipeOrder(t) \o Leftovers(t)) : (WipeOrder(t) \o Leftovers(t))[i] = Delete(b, t)
<1> DEFINE s == WipeOrder(t)
           u == Leftovers(t)
           D(c) == Delete(c, t)
<1>1. /\ s = <<D("message"), D("key"), D("device"), D("payment"), D("intent"), D("withdrawal"), D("purse"), D("staff")>>
      /\ u = <<D("wallet"), D("pool"), D("settings"), D("rootKey")>>
  BY DEF WipeOrder, Leftovers
<1>2. b \in {"message", "key", "device", "payment", "intent", "withdrawal", "purse", "staff", "wallet", "pool"}
  BY DEF Children, Wiped, Balances
<1> HIDE DEF s, u, D
<1> DEFINE z == s \o u
<1>3. /\ DOMAIN z = 1..12
      /\ z[1] = D("message") /\ z[2] = D("key") /\ z[3] = D("device") /\ z[4] = D("payment") /\ z[5] = D("intent")
      /\ z[6] = D("withdrawal") /\ z[7] = D("purse") /\ z[8] = D("staff") /\ z[9] = D("wallet") /\ z[10] = D("pool")
  BY ONLY <1>1, SMT
<1> HIDE DEF z
<1>4. \E i \in 1..12 : z[i] = D(b)
  <2>1. \A i \in {1, 2, 3, 4, 5, 6, 7, 8, 9, 10} : i \in 1..12
    OBVIOUS
  <2> QED
    BY <1>2, <1>3, <2>1, Zenon
<1>5. \E i \in DOMAIN z : z[i] = D(b)
  BY <1>3, <1>4
<1> QED
  BY <1>5 DEF s, u, D, z

\* A deletion that takes the lock on its tenant is the only one at the tenant's distributor.
LEMMA DropBegins ==
  ASSUME IInv, NEW r \in Reqs, HandlerActs(r), req[r].at = "lock", BelowPart, TenantsWhole,
         lock'[One("tenant", req[r].of)] = r, lock[One("tenant", req[r].of)] # r
  PROVE  \A t : t = req[r].of => Drops(r, t)'
<1> DEFINE t == req[r].of
           x == One("tenant", t)
           d == One("distributor", t)
<1>0. TypeOK /\ req[r].op = "delete" /\ req'[r].op = "delete" /\ menu' = menu /\ db' = db
  <2>1. TypeOK /\ req[r].op = "delete"
    BY DEF IInv, LocalPart, Local
  <2>2. Proper(r)
    BY HandlerActsProper
  <2> QED
    BY <2>1, <2>2, WorksKeep DEF Works
<1>1. /\ Mine(r, x) /\ TenantThere(t) /\ Write(r, {x}, cur) /\ req'[r].at = "next"
      /\ req'[r].todo = WipeOrder(t) \o Leftovers(t)
  <2>1. LockTenant(r)
    BY StepAt
  <2>2. ~ UNCHANGED Kept
    BY DEF Kept
  <2> QED
    BY <1>0, <2>1, <2>2, LockTenantIs
<1>2. x \in menu.rows /\ d \in menu.rows /\ d # x /\ d[1] = "distributor" /\ d[2] = t
  <2>1. x \in menu.rows /\ x[1] # "settings" /\ x[2] = t
    BY <1>1 DEF TenantThere, One
  <2> QED
    BY <2>1, OwnTenant DEF One
<1>3. lock[x] = NoReq /\ cur'[x].st = "live"
  <2>1. lock[x] = NoReq
    BY <1>1 DEF Mine
  <2>2. cur[x] = db[x]
    BY <1>2, <2>1 DEF IInv, RowsPart
  <2> QED
    BY <1>0, <1>1, <1>2, <2>1, <2>2 DEF Write, TenantThere
<1>4. lock'[d] = NoReq
  <2>1. lock[d] \in Reqs \cup {NoReq}
    BY <1>0, <1>2 DEF TypeOK
  <2>2. lock[d] \in Reqs => lock[x] = lock[d]
    BY <1>2 DEF BelowPart
  <2>3. lock[d] = NoReq
    BY <1>3, <2>1, <2>2, NamesAssumption
  <2> QED
    BY <1>0, <1>1, <1>2, <2>3 DEF Write
<1>5. \A y \in Below(t) : Pending(r, y)'
  <2> SUFFICES ASSUME NEW y \in Below(t) PROVE Pending(r, y)'
    OBVIOUS
  <2>1. y[2] = t /\ y[1] \in Children
    BY DEF Below
  <2>2. \E i \in DOMAIN req'[r].todo : req'[r].todo[i] = Delete(y[1], y[2])
    BY <1>1, <2>1, AllChildren
  <2> QED
    BY <1>1, <2>2 DEF Pending
<1> QED
  <2> SUFFICES ASSUME NEW s, s = t PROVE Drops(r, s)'
    OBVIOUS
  <2>1. TenantThere(s)' /\ Below(s)' = Below(s)
    BY <1>0, <1>1 DEF TenantThere, Below
  <2>2. \A y \in Below(s)' : Pending(r, y)'
    BY <1>5, <2>1
  <2>3. lock'[One("distributor", s)] = NoReq /\ cur'[One("tenant", s)].st = "live"
    BY <1>3, <1>4
  <2> QED
    BY ONLY <1>0, <1>1, <2>1, <2>2, <2>3 DEF Drops

\* What the owner's own step changes at the end of a creation or a deletion is audit rows.
LEMMA AuditOnly ==
  ASSUME IInv, NEW r \in Reqs, HandlerActs(r), req[r].at \in {"audit", "stamped", "chain"}
  PROVE  /\ req'[r].at \in {"audit", "stamped", "chain", "respond"}
         /\ \A y \in menu.rows : Touched(y) => y[1] = "audit"
<1>1. req'[r].at \in {"audit", "stamped", "chain", "respond"}
  BY Course DEF IInv
<1>2. \A y \in menu.rows : Touched(y) => y[1] = "audit"
  BY WrittenTable
<1> QED
  BY <1>1, <1>2

LEMMA CreatesOn ==
  ASSUME IInv, NEW r \in Reqs, Works(r), NEW t, Creates(r, t)
  PROVE  Creates(r, t)'
<1>1. /\ db' = db /\ menu' = menu /\ req'[r].op = "create" /\ HandlerActs(r)
      /\ req[r].at \in {"audit", "stamped", "chain"}
  BY WorksRows DEF Works, Creates
<1>2. /\ req'[r].at \in {"audit", "stamped", "chain", "respond"}
      /\ \A y \in menu.rows : Touched(y) => y[1] = "audit"
  BY <1>1, AuditOnly
<1>3. \A b \in {"tenant", "distributor", "wallet", "pool"} :
        /\ One(b, t) \in menu.rows /\ lock[One(b, t)] = r /\ cur[One(b, t)].st = "live"
        /\ One(b, t)[1] # "audit"
  BY DEF Creates, One
<1>4. \A b \in {"tenant", "distributor", "wallet", "pool"} : lock'[One(b, t)] = r /\ cur'[One(b, t)].st = "live"
  BY <1>2, <1>3, Untouched
<1>5. ~ Known(One("tenant", t))'
  BY <1>1 DEF Creates, Known
<1> QED
  BY ONLY <1>1, <1>2, <1>3, <1>4, <1>5 DEF Creates

LEMMA DropsOn ==
  ASSUME IInv, NEW r \in Reqs, Works(r), NEW t \in Tenants, lock[One("tenant", t)] = r, Drops(r, t), TenantsWhole
  PROVE  Drops(r, t)'
<1> DEFINE x == One("tenant", t)
           d == One("distributor", t)
<1>0. /\ TypeOK /\ db' = db /\ menu' = menu /\ HandlerActs(r)
      /\ req[r].op = "delete" /\ req'[r].op = "delete" /\ TenantThere(t) /\ TenantThere(t)'
      /\ r # NoReq
  <2>1. db' = db /\ menu' = menu /\ HandlerActs(r) /\ req'[r].op = req[r].op
    BY WorksRows DEF Works
  <2> QED
    BY <2>1, NamesAssumption DEF IInv, Drops, TenantThere
<1>1. x \in menu.rows /\ d \in menu.rows /\ x # d /\ x[1] = "tenant" /\ d[1] = "distributor" /\ x[2] = t /\ d[2] = t
  <2>1. x \in menu.rows /\ x[1] # "settings" /\ x[2] = t
    BY <1>0 DEF TenantThere, One
  <2> QED
    BY <2>1, OwnTenant DEF One
<1>2. Below(t)' = Below(t) /\ Below(t) \subseteq menu.rows
      /\ \A y \in Below(t) : y[1] \in Children /\ y[2] = t
  BY <1>0 DEF Below
<1>3. "audit" \notin Children /\ "tenant" \notin Children /\ "distributor" \notin Children
  BY DEF Children, Wiped, Balances
<1>4. req[r].of = t
  BY <1>0, <1>1 DEF IInv, RowsPart, Holds, Touches
<1>5. CASE req[r].at \in {"audit", "stamped", "chain", "respond"}
  <2>1. Dropped(r, t) /\ req[r].at # "respond"
    BY <1>0, <1>5, StepAt DEF Drops
  <2>2. /\ req'[r].at \in {"audit", "stamped", "chain", "respond"}
        /\ \A y \in menu.rows : Touched(y) => y[1] = "audit"
    BY <1>0, <1>5, <2>1, AuditOnly
  <2>3. \A y \in menu.rows : y[1] # "audit" /\ Deletes(r, y) => Deletes(r, y)'
    BY <2>2, Untouched DEF Deletes
  <2>4. Deletes(r, x)' /\ Deletes(r, d)'
    BY <1>1, <2>1, <2>3 DEF Dropped
  <2>5. \A y \in Below(t) : Exists(db[y]) => Deletes(r, y)'
    BY <1>2, <1>3, <2>1, <2>3 DEF Dropped
  <2>6. Dropped(r, t)'
    BY <1>0, <1>2, <2>4, <2>5 DEF Dropped
  <2> QED
    BY <1>0, <2>2, <2>6 DEF Drops
<1>6. CASE req[r].at \in {"next", "sweep", "dropTenant"}
  <2>0. /\ lock[d] = NoReq /\ cur[x].st = "live"
        /\ \A y \in Below(t) : Exists(db[y]) => Deletes(r, y) \/ Pending(r, y)
    BY <1>6 DEF Drops
  <2>1. CASE req[r].at = "dropTenant"
    <3> DEFINE Y == {y \in Below(t) \cup {x, d} : Exists(cur[y])}
    <3>1. Write(r, Y, [y \in Y |-> Is("gone")]) /\ req' = Goto(r, "audit")
      <4>1. DropTenant(r)
        BY <1>0, <2>1, StepAt
      <4> QED
        BY <1>4, <4>1, Zenon DEF DropTenant
    <3>2. req'[r].at = "audit"
      BY <1>0, <3>1, GoIs
    <3>3. cur[d].st = "live"
      <4>1. cur[d] = db[d]
        BY <1>1, <2>0 DEF IInv, RowsPart
      <4>2. db[d].st = "live"
        BY <1>0, <1>1 DEF TenantsWhole
      <4> QED
        BY <4>1, <4>2
    <3>4. x \in Y /\ d \in Y
      BY <2>0, <3>3 DEF Exists
    <3>5. Y \subseteq menu.rows /\ \A y \in Below(t) : cur[y].st = "gone" => y \notin Y
      BY <1>1, <1>2 DEF Exists
    <3> HIDE DEF Y
    <3>6. /\ \A y \in menu.rows : y \in Y => cur'[y] = Is("gone") /\ lock'[y] = r
          /\ \A y \in menu.rows : y \notin Y => cur'[y] = cur[y] /\ lock'[y] = lock[y]
      BY <3>1 DEF Write
    <3>7. Deletes(r, x)' /\ Deletes(r, d)'
      BY <3>4, <3>5, <3>6 DEF Deletes, Is
    <3>8. \A y \in Below(t) : Exists(db[y]) => Deletes(r, y)'
      <4> SUFFICES ASSUME NEW y \in Below(t), Exists(db[y]) PROVE Deletes(r, y)'
        OBVIOUS
      <4>1. Deletes(r, y)
        BY <2>0, <2>1 DEF Pending
      <4> QED
        BY <1>2, <3>5, <3>6, <4>1 DEF Deletes
    <3>9. Dropped(r, t)'
      BY <1>0, <1>2, <3>7, <3>8 DEF Dropped
    <3> QED
      BY <1>0, <3>2, <3>9 DEF Drops
  <2>2. CASE req[r].at \in {"next", "sweep"}
    <3>1. \A y \in menu.rows : Touched(y) => req[r].at = "sweep" /\ y[1] \in Children \cup Settings
      <4>1. req[r].at = "next" => UNCHANGED Kept
        BY <1>0, DeleteCourse
      <4> QED
        BY <1>0, <2>2, <4>1, WrittenTable, KeptTouches
    <3>2. "tenant" \notin Children \cup Settings /\ "distributor" \notin Children \cup Settings
      BY DEF Children, Wiped, Balances, Settings
    <3>3. lock'[d] = NoReq /\ cur'[x].st = "live"
      BY <1>1, <2>0, <3>1, <3>2, Untouched
    <3>4. req'[r].at \in {"next", "sweep", "dropTenant"}
      <4>1. req[r].at = "sweep" => req'[r].at \in {"next", "sweep"}
        BY <1>0, WipeCourse
      <4>2. req[r].at = "next" => req'[r].at \in {"next", "sweep", "dropTenant"}
        BY <1>0, DeleteCourse
      <4> QED
        BY <2>2, <4>1, <4>2
    <3>5. \A y \in Below(t) : Exists(db[y]) => Deletes(r, y)' \/ Pending(r, y)'
      <4> SUFFICES ASSUME NEW y \in Below(t), Exists(db[y]) PROVE Deletes(r, y)' \/ Pending(r, y)'
        OBVIOUS
      <4>1. CASE Pending(r, y)
        BY <1>0, <1>2, <2>2, <4>1, PendingStays
      <4>2. CASE Deletes(r, y)
        <5>1. y \in menu.rows
          BY <1>2
        <5>2. CASE Touched(y)
          <6>1. Written(r, y) /\ req[r].at = "sweep"
            BY <1>0, <3>1, <5>1, <5>2, WrittenBy
          <6>2. cur'[y] = Is("gone") /\ lock'[y] = r
            BY <6>1 DEF Written
          <6> QED
            BY <6>2 DEF Deletes, Is
        <5>3. CASE ~ Touched(y)
          BY <4>2, <5>1, <5>3, Untouched DEF Deletes
        <5> QED
          BY <5>2, <5>3
      <4> QED
        BY <2>0, <4>1, <4>2
    <3> QED
      BY <1>0, <1>2, <3>3, <3>4, <3>5 DEF Drops
  <2> QED
    BY <1>6, <2>1, <2>2
<1> QED
  BY <1>5, <1>6 DEF Drops

\* Nothing that the owner of tenant t needs has changed.
Still(r, t) ==
  /\ menu' = menu /\ Alike(req'[r], req[r])
  /\ \A y \in menu.rows : lock[y] = r => lock'[y] = r /\ cur'[y] = cur[y] /\ db'[y] = db[y]
  /\ lock[One("distributor", t)] = NoReq => lock'[One("distributor", t)] = NoReq
  /\ \A y \in Below(t) : Exists(db'[y]) => Exists(db[y])

LEMMA OwnersStill ==
  ASSUME NEW r \in Reqs, NEW t \in Tenants, One("tenant", t) \in menu.rows, One("distributor", t) \in menu.rows,
         lock[One("tenant", t)] = r, Still(r, t), Creates(r, t) \/ Drops(r, t)
  PROVE  (Creates(r, t) \/ Drops(r, t))'
<1> DEFINE x == One("tenant", t)
<1>1. /\ menu' = menu /\ req'[r].at = req[r].at /\ req'[r].op = req[r].op
      /\ req'[r].rows = req[r].rows /\ req'[r].todo = req[r].todo
      /\ \A y \in menu.rows : lock[y] = r => lock'[y] = r /\ cur'[y] = cur[y] /\ db'[y] = db[y]
  BY DEF Still, Alike
<1>2. CASE Creates(r, t)
  <2>1. \A b \in {"tenant", "distributor", "wallet", "pool"} :
          One(b, t) \in menu'.rows /\ lock'[One(b, t)] = r /\ cur'[One(b, t)].st = "live"
    BY <1>1, <1>2 DEF Creates
  <2>2. ~ Known(x)'
    BY <1>1, <1>2 DEF Creates, Known
  <2> QED
    BY <1>1, <1>2, <2>1, <2>2 DEF Creates
<1>3. CASE Drops(r, t)
  <2>1. TenantThere(t)' /\ cur'[x] = cur[x] /\ Below(t)' = Below(t) /\ Below(t) \subseteq menu.rows
    BY <1>1, <1>3 DEF Drops, TenantThere, Below
  <2>2. \A y : Pending(r, y) => Pending(r, y)'
    BY <1>1 DEF Pending
  <2>3. \A y \in menu.rows : Deletes(r, y) => Deletes(r, y)'
    BY <1>1 DEF Deletes
  <2>4. \A y \in Below(t) : Exists(db'[y]) => Exists(db[y])
    BY DEF Still
  <2>5. Dropped(r, t) => Dropped(r, t)'
    BY <2>1, <2>3, <2>4 DEF Dropped
  <2>6. lock[One("distributor", t)] = NoReq => lock'[One("distributor", t)] = NoReq
    BY DEF Still
  <2>7. CASE /\ req[r].at \in {"next", "sweep", "dropTenant"} /\ lock[One("distributor", t)] = NoReq /\ cur[x].st = "live"
             /\ \A y \in Below(t) : Exists(db[y]) => Deletes(r, y) \/ Pending(r, y)
    <3>1. \A y \in Below(t)' : Exists(db'[y]) => Deletes(r, y)' \/ Pending(r, y)'
      BY <2>1, <2>2, <2>3, <2>4, <2>7
    <3> QED
      BY <1>1, <1>3, <2>1, <2>6, <2>7, <3>1 DEF Drops
  <2>8. CASE req[r].at \in {"audit", "stamped", "chain", "respond"} /\ Dropped(r, t)
    BY <1>1, <1>3, <2>1, <2>5, <2>8 DEF Drops
  <2> QED
    BY <1>3, <2>7, <2>8 DEF Drops
<1> QED
  BY <1>2, <1>3

LEMMA OwnersStep ==
  ASSUME IInv, [Next]_vars, GripPart, BelowPart, OwnersPart, MadePart, TenantsWhole
  PROVE  OwnersPart'
<1>0. TypeOK /\ IInv' /\ menu' = menu /\ BelowPart' /\ NoReq \notin Reqs
  BY Doings, MenuStays, BelowStep, NamesAssumption DEF IInv
<1> SUFFICES ASSUME NEW r \in Reqs, NEW t \in Tenants, One("tenant", t) \in menu.rows, lock'[One("tenant", t)] = r
             PROVE  Creates(r, t)' \/ Drops(r, t)'
  BY <1>0 DEF OwnersPart
<1> DEFINE x == One("tenant", t)
           d == One("distributor", t)
<1>1. /\ x \in menu.rows /\ d \in menu.rows /\ x[1] = "tenant" /\ x[2] = t /\ d[1] = "distributor" /\ d[2] = t
  <2>1. x[1] # "settings" /\ x[2] = t
    BY DEF One
  <2> QED
    BY <2>1, OwnTenant DEF One
<1>2. ASSUME lock[x] = r, Still(r, t) PROVE Creates(r, t)' \/ Drops(r, t)'
  <2>1. Creates(r, t) \/ Drops(r, t)
    BY <1>2 DEF OwnersPart
  <2> QED
    BY <1>1, <1>2, <2>1, OwnersStill
<1>3. CASE Rests
  <2>1. lock[x] = r /\ db' = db /\ cur' = cur /\ lock' = lock
    BY <1>3 DEF Rests
  <2>2. req[r].at # "idle"
    BY <1>1, <2>1 DEF IInv, RowsPart, Holds
  <2>3. Alike(req'[r], req[r])
    BY <1>3, <2>2 DEF Rests
  <2>4. Still(r, t)
    BY <1>0, <2>1, <2>3 DEF Still
  <2> QED
    BY <1>2, <2>1, <2>4
<1>4. ASSUME NEW q \in Reqs, Ending(q) PROVE Creates(r, t)' \/ Drops(r, t)'
  <2>1. q # r /\ lock[x] = r
    <3>1. lock[x] # q
      BY <1>0, <1>1, <1>4 DEF Ending
    <3> QED
      BY <1>1, <1>4, <3>1 DEF Ending
  <2>2. Alike(req'[r], req[r])
    BY <1>4, <2>1 DEF Ending
  <2>3. \A y \in menu.rows : lock[y] # q => db'[y] = db[y] /\ cur'[y] = cur[y] /\ lock'[y] = lock[y]
    BY <1>4 DEF Ending
  <2>4. lock[d] = NoReq => lock'[d] = NoReq
    BY <1>0, <1>1, <2>3
  <2>5. \A y \in Below(t) : Exists(db'[y]) => Exists(db[y])
    <3> SUFFICES ASSUME NEW y \in Below(t), Exists(db'[y]), ~ Exists(db[y]) PROVE FALSE
      OBVIOUS
    <3>1. y \in menu.rows /\ y[1] \in Children /\ y[2] = t
      BY DEF Below
    <3>2. lock[y] = q /\ Exists(cur[y])
      BY <1>4, <3>1 DEF Ending
    <3>3. Made(q, y)
      BY <3>2 DEF Made
    <3>4. lock[x] \in {q, NoReq}
      BY <3>1, <3>3 DEF MadePart
    <3> QED
      BY <1>0, <2>1, <3>4
  <2>6. Still(r, t)
    BY <1>0, <2>1, <2>2, <2>3, <2>4, <2>5 DEF Still
  <2> QED
    BY <1>2, <2>1, <2>6
<1>5. ASSUME NEW q \in Reqs, q # r, Works(q) PROVE Creates(r, t)' \/ Drops(r, t)'
  <2>1. /\ db' = db /\ req'[r] = req[r]
        /\ \A y \in menu.rows : Touched(y) => lock'[y] = q /\ lock[y] \in {q, NoReq}
    BY <1>5, WorksRows
  <2>2. lock[x] = r
    BY <1>1, <1>5, <2>1, Untouched
  <2>3. \A y \in menu.rows : lock[y] = r => lock'[y] = r /\ cur'[y] = cur[y]
    BY <1>0, <1>5, <2>1, Untouched
  <2>4. lock[d] = NoReq => lock'[d] = NoReq
    <3> SUFFICES ASSUME lock[d] = NoReq, lock'[d] # NoReq PROVE FALSE
      OBVIOUS
    <3>1. lock'[d] = q
      BY <1>1, <2>1, Untouched
    <3>2. lock'[One("tenant", d[2])] = q
      BY <1>0, <1>1, <3>1 DEF BelowPart
    <3> QED
      BY <1>1, <1>5, <3>2
  <2>5. Still(r, t)
    BY <1>0, <2>1, <2>3, <2>4 DEF Still, Alike
  <2> QED
    BY <1>2, <2>2, <2>5
<1>6. CASE Works(r)
  <2>0. HandlerActs(r) /\ db' = db
    BY <1>6, WorksRows DEF Works
  <2>1. CASE lock[x] = r
    <3>1. Creates(r, t) \/ Drops(r, t)
      BY <2>1 DEF OwnersPart
    <3> QED
      BY <1>6, <2>1, <3>1, CreatesOn, DropsOn
  <2>2. CASE lock[x] # r
    <3>1. Touched(x)
      BY <1>1, <2>2, Untouched
    <3>2. /\ x = One("tenant", req[r].of)
          /\ \/ req[r].at = "insertTenant" /\ req[r].op = "create" /\ ~ Seen(x)
             \/ req[r].at = "lock"
             \/ req[r].at = "dropTenant" /\ req[r].op = "delete"
      BY <1>1, <2>0, <3>1, TenantWritten
    <3>3. t = req[r].of
      BY <3>2 DEF One
    <3>4. CASE req[r].at = "insertTenant" /\ req[r].op = "create" /\ ~ Seen(x)
      <4>1. /\ req'[r].at = "audit"
            /\ \A b \in {"tenant", "distributor", "wallet", "pool", "staff", "rootKey"} :
                 lock'[One(b, t)] = r /\ cur'[One(b, t)] = Is("live")
        BY <1>1, <2>0, <3>1, <3>3, <3>4, CreatedWhole
      <4>2. \A b \in {"tenant", "distributor", "wallet", "pool", "staff", "rootKey"} : One(b, t) \in menu.rows
        BY <3>3, <3>4, TenantOf
      <4>3. req'[r].op = "create" /\ ~ Known(x)'
        <5>1. req'[r].op = "create"
          BY <1>6, <3>4, WorksRows
        <5> QED
          BY <2>0, <3>4, <5>1 DEF Seen, Known
      <4>4. \A b \in {"tenant", "distributor", "wallet", "pool"} :
              One(b, t) \in menu'.rows /\ lock'[One(b, t)] = r /\ cur'[One(b, t)].st = "live"
        BY <1>0, <4>1, <4>2 DEF Is
      <4> QED
        BY ONLY <4>1, <4>3, <4>4 DEF Creates
    <3>5. CASE req[r].at = "lock"
      BY <2>0, <2>2, <3>3, <3>5, DropBegins
    <3>6. CASE req[r].at = "dropTenant" /\ req[r].op = "delete"
      BY <2>2, <3>2, <3>6 DEF GripPart, Refused
    <3> QED
      BY <3>2, <3>4, <3>5, <3>6
  <2> QED
    BY <2>1, <2>2
<1> QED
  BY <1>3, <1>4, <1>5, <1>6, Doings

LEMMA MadeAlone == ASSUME NEW t, NEW y \in Bootstrap(t, TRUE) PROVE y[2] = t
BY DEF Bootstrap, Of, One

\* A row below a tenant comes into being with the tenant, or by an INSERT that finds the
\* tenant there and nobody deleting it.
LEMMA MadeBy ==
  ASSUME IInv, NEW r \in Reqs, HandlerActs(r), NEW y \in menu.rows, y[1] \in Children, Touched(y),
         Exists(cur'[y]), ~ Exists(cur[y])
  PROVE  \/ req[r].at = "insertTenant" /\ req[r].op = "create" /\ y[2] = req[r].of
         \/ /\ req[r].at \in {"next", "credit", "insert", "upsert"} /\ req[r].op \notin {"create", "delete"}
            /\ TenantFree(r, y[2]) /\ TenantThere(y[2])
<1> DEFINE w == req[r]
           fresh == TenantFree(r, y[2]) /\ TenantThere(y[2])
<1>1. Written(r, y) /\ Local(w)
  BY WrittenBy DEF IInv, LocalPart
<1>2. /\ "settings" \notin Children /\ "rootKey" \notin Children /\ "audit" \notin Children /\ "closure" \notin Children
      /\ "tenant" \notin Children
  BY DEF Children, Wiped, Balances
<1>3. ~ Exists(Is("gone"))
  BY DEF Exists, Is
<1>4. w.at \notin {"save", "lock", "rootKey", "chain"}
  BY <1>2, WrittenTable DEF Settings
<1>5. w.at \notin {"sweep", "dropTenant", "password", "mark", "bet", "update", "destroy", "notify"}
  <2>1. /\ w.at \in {"sweep", "dropTenant"} => cur'[y] = Is("gone")
        /\ w.at = "password" => cur'[y] = cur[y]
        /\ w.at = "mark" => cur'[y] = IF Exists(cur[y]) THEN Is("done") ELSE cur[y]
        /\ w.at = "bet" => cur[y].st = "live"
        /\ w.at = "update" => (Exists(cur'[y]) <=> Exists(cur[y]))
        /\ w.at = "destroy" => ~ Exists(cur'[y])
        /\ w.at = "notify" => (Exists(cur'[y]) => Exists(cur[y]))
    BY ONLY <1>1, SMT DEF Written
  <2>2. cur[y].st # "live"
    BY DEF Exists
  <2> QED
    BY <1>3, <2>1, <2>2
<1>6. w.at \in {"insertTenant", "next", "credit", "insert", "upsert"}
  BY <1>1, <1>4, <1>5 DEF Written
<1>7. w.at = "insertTenant" => w.op = "create" /\ y[2] = w.of
  <2>1. w.at = "insertTenant" => y \in Bootstrap(w.of, TRUE)
    BY <1>1 DEF Written
  <2> QED
    BY <1>1, <2>1, MadeAlone DEF Local
<1>8. w.at \in {"next", "credit", "insert", "upsert"} => fresh
  <2>1. w.at = "insert" /\ w.op = "close" => y[1] = "closure"
    <3>1. w.at = "insert" => y[1] = TableOf(w.op)
      BY WrittenTable
    <3> QED
      BY <3>1 DEF TableOf
  <2>2. /\ w.at \in {"next", "upsert"} => fresh
        /\ w.at = "insert" /\ w.op # "close" => fresh
        /\ w.at = "credit" => fresh \/ cur'[y] = (IF Exists(cur[y]) THEN [cur[y] EXCEPT !.n = w.n + Amount] ELSE cur[y])
    BY ONLY <1>1, SMT DEF Written
  <2> QED
    BY <1>2, <2>1, <2>2
<1>9. w.at \in {"next", "credit", "insert", "upsert"} => w.op \notin {"create", "delete"}
  <2>1. w.at = "next" => w.op # "delete"
    BY DeleteCourse, KeptTouches
  <2> QED
    BY <1>1, <2>1 DEF Local, Wipes
<1> QED
  BY <1>6, <1>7, <1>8, <1>9

LEMMA MadeStep ==
  ASSUME IInv, [Next]_vars, HandsPart, GripPart, OwnersPart, MadePart
  PROVE  MadePart'
<1>0. TypeOK /\ IInv' /\ menu' = menu /\ NoReq \notin Reqs
  BY Doings, MenuStays, NamesAssumption DEF IInv
<1> SUFFICES ASSUME NEW r \in Reqs, NEW y \in menu.rows, y[1] \in Children, Made(r, y)'
             PROVE  LET x == One("tenant", y[2]) IN
                    /\ lock'[x] \in {r, NoReq} /\ (lock'[x] = r => req'[r].op = "create")
                    /\ lock'[x] = NoReq => TenantThere(y[2])'
  BY <1>0 DEF MadePart
<1> DEFINE t == y[2]
           x == One("tenant", t)
           Good == /\ lock'[x] \in {r, NoReq} /\ (lock'[x] = r => req'[r].op = "create")
                   /\ lock'[x] = NoReq => TenantThere(t)'
<1>1. /\ x \in menu.rows /\ x[1] = "tenant" /\ x[2] = t /\ lock'[y] = r /\ Exists(cur'[y]) /\ ~ Exists(db'[y])
      /\ x # y /\ t \in Tenants
  <2>1. y[1] # "settings" /\ y[1] # "tenant"
    BY DEF Children, Wiped, Balances
  <2>2. x \in menu.rows /\ t \in Tenants
    BY <2>1, OwnTenant
  <2>3. x[1] = "tenant" /\ x[2] = t
    BY DEF One
  <2>4. lock'[y] = r /\ Exists(cur'[y]) /\ ~ Exists(db'[y])
    BY DEF Made
  <2> QED
    BY <2>1, <2>2, <2>3, <2>4
<1>2. ASSUME Made(r, y), db'[x] = db[x], lock'[x] = lock[x], req'[r].op = req[r].op PROVE Good
  <2>1. lock[x] \in {r, NoReq} /\ (lock[x] = r => req[r].op = "create") /\ (lock[x] = NoReq => TenantThere(t))
    BY <1>2 DEF MadePart
  <2>2. TenantThere(t) => TenantThere(t)'
    BY <1>0, <1>2 DEF TenantThere
  <2> QED
    BY <1>2, <2>1, <2>2
<1>3. CASE Rests
  <2>1. Made(r, y) /\ db' = db /\ lock' = lock
    BY <1>1, <1>3 DEF Rests, Made
  <2>2. req[r].at # "idle"
    BY <2>1 DEF Made, IInv, RowsPart, Holds
  <2>3. req'[r].op = req[r].op
    BY <1>3, <2>2 DEF Rests, Alike
  <2> QED
    BY <1>2, <2>1, <2>3
<1>4. ASSUME NEW q \in Reqs, Ending(q) PROVE Good
  <2>1. q # r /\ lock[y] = r
    <3>1. lock[y] # q
      BY <1>0, <1>1, <1>4 DEF Ending
    <3> QED
      BY <1>1, <1>4, <3>1 DEF Ending
  <2>2. Made(r, y)
    BY <1>1, <1>4, <2>1 DEF Ending, Made
  <2>3. lock[x] # q
    BY <1>0, <2>1, <2>2 DEF MadePart
  <2> QED
    BY <1>1, <1>2, <1>4, <2>1, <2>2, <2>3 DEF Ending, Alike
<1>5. ASSUME NEW q \in Reqs, q # r, Works(q) PROVE Good
  <2>1. /\ db' = db /\ req'[r] = req[r] /\ HandlerActs(q)
        /\ \A z \in menu.rows : Touched(z) => lock'[z] = q /\ lock[z] \in {q, NoReq}
    BY <1>5, WorksRows DEF Works
  <2>2. Made(r, y)
    BY <1>1, <1>5, <2>1, Untouched DEF Made
  <2>3. /\ lock[x] \in {r, NoReq} /\ (lock[x] = NoReq => TenantThere(t))
    BY <2>2 DEF MadePart
  <2>4. ~ Touched(x)
    <3> SUFFICES ASSUME Touched(x) PROVE FALSE
      OBVIOUS
    <3>1. lock[x] = NoReq /\ TenantThere(t)
      BY <1>0, <1>1, <1>5, <2>1, <2>3
    <3>2. /\ x = One("tenant", req[q].of)
          /\ \/ req[q].at = "insertTenant" /\ ~ Seen(x)
             \/ req[q].at = "lock" /\ Inserters(req[q].of) \subseteq {q}
             \/ req[q].at = "dropTenant" /\ req[q].op = "delete"
      BY <1>1, <2>1, TenantWritten
    <3>3. t = req[q].of
      BY <3>2 DEF One
    <3>4. Seen(x)
      BY <3>1 DEF TenantThere, Seen
    <3>5. r \in Inserters(t)
      BY <1>0, <2>2 DEF Inserters, Made, Below
    <3>6. req[q].at = "dropTenant" /\ req[q].op = "delete" => lock[x] = q
      BY <3>2 DEF GripPart, Refused
    <3> QED
      BY <1>0, <1>5, <3>1, <3>2, <3>3, <3>4, <3>5, <3>6
  <2> QED
    BY <1>1, <1>2, <2>1, <2>2, <2>4, Untouched
<1>6. CASE Works(r)
  <2>0. HandlerActs(r) /\ db' = db /\ req'[r].op = req[r].op
    BY <1>6, WorksRows DEF Works
  <2>1. Touched(x) => /\ lock'[x] = r
                      /\ \/ req[r].at = "insertTenant" /\ req[r].op = "create"
                         \/ req[r].at = "lock"
                         \/ req[r].at = "dropTenant" /\ req[r].op = "delete" /\ lock[x] = r
    <3> SUFFICES ASSUME Touched(x)
                 PROVE  /\ lock'[x] = r
                        /\ \/ req[r].at = "insertTenant" /\ req[r].op = "create"
                           \/ req[r].at = "lock"
                           \/ req[r].at = "dropTenant" /\ req[r].op = "delete" /\ lock[x] = r
      OBVIOUS
    <3>1. /\ x = One("tenant", req[r].of) /\ lock'[x] = r
          /\ \/ req[r].at = "insertTenant" /\ req[r].op = "create"
             \/ req[r].at = "lock"
             \/ req[r].at = "dropTenant" /\ req[r].op = "delete"
      BY <1>1, <2>0, TenantWritten
    <3>2. req[r].at = "dropTenant" /\ req[r].op = "delete" => lock[x] = r
      BY <3>1 DEF GripPart, Refused
    <3> QED
      BY <3>1, <3>2
  <2>2. CASE Made(r, y)
    <3>1. req[r].at # "lock"
      BY <2>2 DEF HandsPart, Early, Made
    <3>2. lock[x] = r => req[r].op = "create"
      BY <2>2 DEF MadePart
    <3>3. CASE Touched(x)
      BY <1>0, <2>0, <2>1, <3>1, <3>2, <3>3
    <3>4. CASE ~ Touched(x)
      BY <1>1, <1>2, <2>0, <2>2, <3>4, Untouched
    <3> QED
      BY <3>3, <3>4
  <2>3. CASE ~ Made(r, y)
    <3>1. Touched(y)
      BY <1>1, <2>0, <2>3, Untouched DEF Made
    <3>2. ~ Exists(cur[y])
      <4>1. lock[y] \in {r, NoReq}
        BY <1>6, <3>1, WorksRows
      <4>2. lock[y] = NoReq => cur[y] = db[y]
        BY DEF IInv, RowsPart
      <4> QED
        BY <1>1, <2>0, <2>3, <4>1, <4>2 DEF Made
    <3>3. CASE req[r].at = "insertTenant" /\ req[r].op = "create" /\ t = req[r].of
      <4>1. lock'[x] = r
        BY <2>0, <3>1, <3>3, CreatedWhole
      <4> QED
        BY <1>0, <2>0, <3>3, <4>1
    <3>4. CASE /\ req[r].at \in {"next", "credit", "insert", "upsert"} /\ req[r].op \notin {"create", "delete"}
               /\ TenantFree(r, t) /\ TenantThere(t)
      <4>1. lock[x] # r
        BY <1>1, <3>4 DEF OwnersPart, Creates, Drops
      <4>2. lock[x] = NoReq /\ ~ Touched(x)
        BY <2>1, <3>4, <4>1 DEF TenantFree, Mine
      <4>3. TenantThere(t)'
        BY <1>0, <2>0, <3>4 DEF TenantThere
      <4>4. lock'[x] = NoReq
        BY <1>1, <4>2, Untouched
      <4> QED
        BY <1>0, <4>3, <4>4
    <3> QED
      BY <1>1, <2>0, <3>1, <3>2, <3>3, <3>4, MadeBy
  <2> QED
    BY <2>2, <2>3
<1> QED
  BY <1>3, <1>4, <1>5, <1>6, Doings

\* Statements are run at their places only.
LEMMA ListNext ==
  ASSUME IInv, NEW r \in Reqs, HandlerActs(r), req'[r].at \in {"next", "sweep"}
  PROVE  /\ req[r].at \in {"auth", "confirm", "lock", "next", "sweep"}
         /\ req'[r].at = "sweep" => req[r].at \in {"next", "sweep"}
         /\ req[r].at = "auth" => req'[r].at = AuthPlace(req[r].op)
<1> DEFINE w == req[r]
           u == req'[r]
<1>0. TypeOK
  BY DEF IInv
<1>1. w.at \notin {"save", "check", "insertTenant", "dropTenant", "root", "password", "rootKey", "audit", "stamped",
                   "chain", "intent", "balance", "credit", "mark", "purse", "bet", "destroy", "upsert", "cashier", "find", "update",
                   "insert", "recipient", "devices", "notify"}
  BY <1>0, Course, SMT DEF Answered
<1>2. w.at # "load"
  <2> SUFFICES ASSUME w.at = "load" PROVE FALSE
    OBVIOUS
  <2>1. Load(r)
    BY StepAt
  <2>2. req' = Answer(r, 400) \/ u.at = "save"
    BY <1>0, <2>1, LoadIs, Zenon DEF Reply
  <2> QED
    BY <1>0, <2>2, ReplyIs DEF Answered
<1>3. w.at \in Places \ {"idle", "respond"}
  BY <1>0, StepAt, ReadOnce
<1>4. w.at \in {"auth", "confirm", "lock", "next", "sweep"}
  BY <1>1, <1>2, <1>3 DEF Places
<1>5. w.at \in {"confirm", "lock"} => u.at # "sweep"
  BY <1>0, WipeCourse
<1>6. w.at = "auth" => u.at = AuthPlace(w.op)
  <2> SUFFICES ASSUME w.at = "auth" PROVE u.at = AuthPlace(w.op)
    OBVIOUS
  <2>1. OwnerAuth(r) \/ StaffAuth(r) \/ NoAuth(r)
    BY StepAt
  <2>2. req' = Start(r) \/ \E code : req' = Answer(r, code)
    BY <1>0, <2>1, AuthIs
  <2> QED
    BY <1>0, <2>2, StartIs, ReplyIs DEF Answered
<1>7. AuthPlace(w.op) # "sweep"
  BY DEF AuthPlace
<1> QED
  BY <1>4, <1>5, <1>6, <1>7

\* Where a wipe gets its statements from.
LEMMA WipeReplaces ==
  ASSUME NEW t
  PROVE  Replaced(<< >>) /\ Replaced(<<Delete("staff", "all")>>) /\ Replaced(WipeOrder(t) \o Reset(t))
<1> DEFINE s == WipeOrder(t)
           u == Reset(t)
           D(c) == Delete(c, t)
           C(c) == Create(c, t)
           z == s \o u
<1>1. Replaced(<< >>)
  BY DEF Replaced
<1>2. Replaced(<<Delete("staff", "all")>>)
  BY FieldsOf DEF Replaced, Balances
<1>3. /\ s = <<D("message"), D("key"), D("device"), D("payment"), D("intent"), D("withdrawal"), D("purse"), D("staff")>>
      /\ u = <<D("wallet"), D("pool"), C("wallet"), C("pool")>>
  BY DEF WipeOrder, Reset
<1>4. \A b : /\ D(b).table = b /\ D(b).of = t /\ C(b).sql = "INSERT" /\ C(b) = Create(b, t)
  BY FieldsOf
<1> HIDE DEF s, u, D, C
<1>5. /\ DOMAIN z = 1..12
      /\ z[1] = D("message") /\ z[2] = D("key") /\ z[3] = D("device") /\ z[4] = D("payment") /\ z[5] = D("intent")
      /\ z[6] = D("withdrawal") /\ z[7] = D("purse") /\ z[8] = D("staff") /\ z[9] = D("wallet") /\ z[10] = D("pool")
      /\ z[11] = C("wallet") /\ z[12] = C("pool")
  BY ONLY <1>3, SMT
<1> HIDE DEF z
<1>6. \A i \in 1..12 : i \in {1, 2, 3, 4, 5, 6, 7, 8, 9, 10, 11, 12}
  OBVIOUS
<1>7. \A i \in 1..12 : z[i].sql = "DELETE" /\ z[i].table \in Balances =>
        (i = 9 /\ z[i].table = "wallet" /\ z[i].of = t) \/ (i = 10 /\ z[i].table = "pool" /\ z[i].of = t)
  <2>1. /\ z[1].table = "message" /\ z[2].table = "key" /\ z[3].table = "device" /\ z[4].table = "payment"
        /\ z[5].table = "intent" /\ z[6].table = "withdrawal" /\ z[7].table = "purse" /\ z[8].table = "staff"
        /\ z[9].table = "wallet" /\ z[9].of = t /\ z[10].table = "pool" /\ z[10].of = t
        /\ z[11].sql = "INSERT" /\ z[12].sql = "INSERT"
    BY ONLY <1>4, <1>5, Zenon
  <2> QED
    BY ONLY <1>6, <2>1, SMT DEF Balances
<1>8. z[11] = Create("wallet", t) /\ z[12] = Create("pool", t) /\ 11 \in 1..12 /\ 12 \in 1..12 /\ 9 < 11 /\ 10 < 12
  BY <1>4, <1>5
<1>9. Replaced(z)
  <2> SUFFICES ASSUME NEW i \in 1..12, z[i].sql = "DELETE", z[i].table \in Balances
               PROVE  \E j \in 1..12 : i < j /\ z[j] = Create(z[i].table, z[i].of)
    BY <1>5 DEF Replaced
  <2> QED
    BY <1>7, <1>8
<1> QED
  BY <1>1, <1>2, <1>9 DEF z, s, u

LEMMA TailReplaces ==
  ASSUME NEW S, NEW s \in Seq(S), s # << >>, Replaced(s)
  PROVE  Replaced(Tail(s))
<1> SUFFICES ASSUME NEW i \in DOMAIN Tail(s), Tail(s)[i].sql = "DELETE", Tail(s)[i].table \in Balances
             PROVE  \E j \in DOMAIN Tail(s) : i < j /\ Tail(s)[j] = Create(Tail(s)[i].table, Tail(s)[i].of)
  BY DEF Replaced
<1>1. i + 1 \in DOMAIN s /\ Tail(s)[i] = s[i + 1] /\ i \in Nat /\ i > 0
  BY TailIs
<1>2. PICK j \in DOMAIN s : i + 1 < j /\ s[j] = Create(s[i + 1].table, s[i + 1].of)
  BY <1>1 DEF Replaced
<1>3. j \in Nat /\ j # 1
  BY <1>1, <1>2
<1>4. j - 1 \in DOMAIN Tail(s) /\ Tail(s)[j - 1] = s[j]
  BY <1>3, Shift
<1>5. i < j - 1
  BY <1>1, <1>2, <1>3
<1> QED
  BY <1>1, <1>2, <1>4, <1>5

LEMMA ReplacedStep == ASSUME IInv, [Next]_vars, ReplacedPart PROVE ReplacedPart'
<1> SUFFICES ASSUME NEW r \in Reqs, req'[r].at \in {"next", "sweep"}
             PROVE  /\ Wiping(req'[r]) => Replaced(req'[r].todo)
                    /\ req'[r].at = "sweep" => req'[r].todo[1].sql = "DELETE"
  BY DEF ReplacedPart
<1> DEFINE w == req[r]
           u == req'[r]
<1>0. TypeOK
  BY DEF IInv
<1>1. ASSUME Alike(u, w)
      PROVE  (Wiping(u) => Replaced(u.todo)) /\ (u.at = "sweep" => u.todo[1].sql = "DELETE")
  BY <1>1 DEF Alike, Wiping, ReplacedPart
<1>2. CASE Rests
  BY <1>1, <1>2 DEF Rests
<1>3. ASSUME NEW q \in Reqs, Ending(q)
      PROVE  (Wiping(u) => Replaced(u.todo)) /\ (u.at = "sweep" => u.todo[1].sql = "DELETE")
  BY <1>1, <1>3 DEF Ending, Refused
<1>4. ASSUME NEW q \in Reqs, q # r, Works(q)
      PROVE  (Wiping(u) => Replaced(u.todo)) /\ (u.at = "sweep" => u.todo[1].sql = "DELETE")
  <2>1. u = w
    BY <1>4, WorksRows
  <2> QED
    BY <1>1, <2>1 DEF Alike
<1>5. CASE Works(r)
  <2>0. HandlerActs(r) /\ u.op = w.op
    BY <1>5, WorksRows DEF Works
  <2>1. /\ w.at \in {"auth", "confirm", "lock", "next", "sweep"}
        /\ u.at = "sweep" => w.at \in {"next", "sweep"}
        /\ w.at = "auth" => u.at = AuthPlace(w.op)
    BY <2>0, ListNext
  <2>2. ASSUME w.at \in {"next", "sweep"}, w.todo # << >>, Head(w.todo).sql = "DELETE",
               \/ u.at = "next" /\ u.todo = Tail(w.todo)
               \/ u.at = "sweep" /\ u.todo = w.todo
        PROVE  (Wiping(u) => Replaced(u.todo)) /\ (u.at = "sweep" => u.todo[1].sql = "DELETE")
    <3>1. w.todo \in Seq(Statement) /\ Head(w.todo) = w.todo[1]
      BY <2>2, BetweenStatements, HeadIs
    <3>2. Wiping(u) => Replaced(w.todo)
      BY <2>0, <2>2 DEF ReplacedPart, Wiping
    <3>3. Wiping(u) => Replaced(Tail(w.todo))
      BY <2>2, <3>1, <3>2, TailReplaces
    <3> QED
      BY <2>2, <3>1, <3>2, <3>3
  <2>3. CASE w.at = "auth"
    <3>1. AuthPlace("wipe") = "confirm" /\ AuthPlace("wipeAll") = "confirm"
      BY DEF AuthPlace
    <3> QED
      BY <2>0, <2>1, <2>3, <3>1 DEF Wiping
  <2>4. CASE w.at = "confirm"
    <3>1. w.todo = << >> /\ u.todo = w.todo
      BY <1>0, <2>0, <2>4, WipeCourse DEF IInv, LocalPart, Local, Only
    <3>2. Replaced(<< >>)
      BY DEF Replaced
    <3> QED
      BY <2>1, <2>4, <3>1, <3>2
  <2>5. CASE w.at = "lock"
    <3>1. w.op = "delete"
      BY <2>5 DEF IInv, LocalPart, Local
    <3> QED
      BY <2>0, <2>1, <2>5, <3>1 DEF Wiping
  <2>6. CASE w.at = "next"
    <3>1. CASE NextTenant(r)
      <4>1. \/ \E t \in w.left : Only(u, w, {"left", "todo"}) /\ u.todo = WipeOrder(t) \o Reset(t)
            \/ Only(u, w, {"todo", "n"}) /\ u.todo = <<Delete("staff", "all")>>
        BY <1>0, <3>1, NextTenantIs
      <4>2. u.at = "next"
        BY <2>6, <4>1 DEF Only
      <4> QED
        BY <4>1, <4>2, WipeReplaces
    <3>2. CASE StartDelete(r)
      <4>1. w.todo # << >> /\ Head(w.todo).sql = "DELETE" /\ \E Y : Sweeping(r, Y)
        BY <3>2, Zenon DEF StartDelete
      <4>2. \/ u.at = "next" /\ u.todo = Tail(w.todo)
            \/ u.at = "sweep" /\ u.todo = w.todo
        BY <1>0, <4>1, SweptIs
      <4> QED
        BY <2>2, <2>6, <4>1, <4>2
    <3>3. CASE WipeInsert(r)
      <4>1. w.todo # << >> /\ Only(u, w, {"todo"}) /\ u.todo = Tail(w.todo)
        BY <1>0, <3>3, WipeInsertIs, ReplyIs DEF Reply, Answered
      <4>2. u.at = "next" /\ (Wiping(u) => Replaced(w.todo)) /\ w.todo \in Seq(Statement)
        BY <2>0, <2>6, <4>1, BetweenStatements DEF Only, ReplacedPart, Wiping
      <4> QED
        BY <4>1, <4>2, TailReplaces
    <3>4. CASE StatementsDone(r)
      BY <1>0, <3>4, StatementsDoneIs
    <3> QED
      BY <2>0, <2>6, <3>1, <3>2, <3>3, <3>4, StepAt
  <2>7. CASE w.at = "sweep"
    <3>1. w.todo # << >> /\ w.todo[1].sql = "DELETE" /\ Head(w.todo) = w.todo[1]
      <4>1. w.todo # << >>
        BY <2>7 DEF IInv, LocalPart, Local
      <4>2. w.todo \in Seq(Statement)
        BY <2>7, BetweenStatements
      <4> QED
        BY <2>7, <4>1, <4>2, HeadIs DEF ReplacedPart
    <3>2. \/ u.at = "next" /\ u.todo = Tail(w.todo)
          \/ u.at = "sweep" /\ u.todo = w.todo
      BY <1>0, <2>0, <2>7, SweepCourse
    <3> QED
      BY <2>2, <2>7, <3>1, <3>2
  <2> QED
    BY <2>1, <2>3, <2>4, <2>5, <2>6, <2>7
<1> QED
  BY <1>2, <1>3, <1>4, <1>5, Doings

\* Only statements of a wipe or a deletion take a wallet or a voucher pool.
LEMMA BalanceTaken ==
  ASSUME IInv, NEW r \in Reqs, HandlerActs(r), NEW z \in menu.rows, z[1] \in Balances, Touched(z), ~ Exists(cur'[z])
  PROVE  req[r].op = "delete" \/ req[r].at = "sweep"
<1> DEFINE w == req[r]
<1>0. Written(r, z) /\ Local(w) /\ TypeOK
  BY WrittenBy DEF IInv, LocalPart
<1>1. Exists(Is("live")) /\ z[1] \in {"wallet", "pool"}
  BY DEF Exists, Is, Balances
<1>2. w.at \in {"insertTenant", "sweep", "next", "dropTenant"} \/ (w.at \in {"update", "destroy", "insert"} /\ z[1] = TableOf(w.op))
  <2>1. z[1] \notin Settings
    BY <1>1 DEF Settings
  <2> QED
    BY <1>1, <2>1, WrittenTable
<1>3. w.at \notin {"insertTenant", "next", "insert"}
  <2>1. /\ w.at = "insertTenant" => cur'[z] = Is("live")
        /\ w.at = "next" => cur'[z] = Is("live")
        /\ w.at = "insert" => cur'[z] = Is("live")
    BY ONLY <1>0, Zenon DEF Written
  <2> QED
    BY <1>1, <2>1
<1>4. z[1] = TableOf(w.op) => w.op = "credits"
  BY <1>1 DEF TableOf
<1>5. w.at = "destroy" => w.op # "credits"
  BY <1>0 DEF Local
<1>6. ~ (w.at = "update" /\ w.op = "credits")
  <2> SUFFICES ASSUME w.at = "update", w.op = "credits" PROVE FALSE
    OBVIOUS
  <2>1. SaveFound(r) \/ LockWallet(r)
    BY StepAt
  <2>2. ~ SaveFound(r)
    BY Zenon DEF SaveFound
  <2>3. ~ UNCHANGED Kept
    BY KeptTouches
  <2>4. Exists(cur[w.row]) /\ WriteOne(r, w.row, cur[w.row])
    BY <2>1, <2>2, <2>3, Zenon DEF LockWallet, Go
  <2>5. z = w.row /\ cur'[z] = cur[w.row]
    BY <1>0, <2>4, WriteOneTouches
  <2> QED
    BY <2>4, <2>5
<1>7. w.at = "dropTenant" => w.op = "delete"
  BY <1>0 DEF Local
<1> QED
  BY <1>2, <1>3, <1>4, <1>5, <1>6, <1>7

\* A wipe that takes one has the INSERT of its successor before it.
LEMMA SweptReplaced ==
  ASSUME IInv, ReplacedPart, NEW r \in Reqs, HandlerActs(r), Wiping(req[r]), req[r].at = "sweep",
         NEW y \in menu.rows, y[1] \in Balances, Touched(y)
  PROVE  ToDo(r, Create(y[1], y[2]))'
<1> DEFINE w == req[r]
           u == req'[r]
<1>0. TypeOK /\ w.todo \in Seq(Statement) /\ \A i \in DOMAIN w.todo : Meant(w, w.todo[i])
  BY BetweenStatements DEF IInv
<1>1. w.todo # << >> /\ y \in Aimed(w.todo[1])
  <2>1. "audit" \notin Balances /\ "tenant" \notin Balances
    BY DEF Balances
  <2> QED
    BY <2>1, WrittenTable
<1>2. 1 \in DOMAIN w.todo /\ Meant(w, w.todo[1])
  BY <1>0, <1>1, HeadIs
<1>3. y[1] = w.todo[1].table /\ y[2] = w.todo[1].of
  <2>1. y[1] = w.todo[1].table /\ (y[2] = w.todo[1].of \/ w.todo[1].of = "all")
    BY <1>1 DEF Aimed
  <2>2. w.todo[1].of # "all"
    <3>1. "staff" \notin Balances
      BY DEF Balances
    <3>2. w.op = "wipeAll" => w.todo[1].of # "all"
      BY <1>2, <2>1, <3>1 DEF Meant
    <3>3. w.op = "wipe" => w.todo[1].of = w.of /\ w.of # "all"
      <4>1. w.of \in Tenants
        BY ScopeOf DEF Wiping
      <4> QED
        BY <1>2, <4>1, NamesAssumption DEF Meant
    <3> QED
      BY <3>2, <3>3 DEF Wiping
  <2> QED
    BY <2>1, <2>2
<1>4. PICK j \in DOMAIN w.todo : 1 < j /\ w.todo[j] = Create(y[1], y[2])
  BY <1>2, <1>3 DEF ReplacedPart, Replaced
<1>5. j # 1
  BY <1>0, <1>4
<1>6. j - 1 \in DOMAIN Tail(w.todo) /\ Tail(w.todo)[j - 1] = w.todo[j]
  BY <1>0, <1>5, Shift
<1>7. \/ u.at = "next" /\ u.todo = Tail(w.todo)
      \/ u.at = "sweep" /\ u.todo = w.todo
  BY <1>0, SweepCourse
<1> QED
  BY <1>4, <1>6, <1>7 DEF ToDo

\* What a wipe has given, or has to give, it still has or gives.
LEMMA GivesStays ==
  ASSUME IInv, ReplacedPart, NEW r \in Reqs, Works(r), Wiping(req[r]), NEW b \in Balances, NEW t \in Tenants, Gives(r, b, t)
  PROVE  Gives(r, b, t)'
<1> DEFINE w == req[r]
           u == req'[r]
           stmt == Create(b, t)
<1>0. TypeOK /\ menu' = menu /\ HandlerActs(r) /\ w.at # "respond" /\ w.op \in {"wipe", "wipeAll"}
  BY WorksRows DEF IInv, Works, Wiping
<1>1. CASE \E y \in Of(b, t) : lock[y] = r /\ Exists(cur[y])
  <2>1. PICK y \in Of(b, t) : lock[y] = r /\ Exists(cur[y])
    BY <1>1
  <2>2. y \in menu.rows /\ y[1] = b /\ y[2] = t
    BY DEF Of
  <2>3. CASE lock'[y] = r /\ Exists(cur'[y])
    BY <1>0, <2>1, <2>2, <2>3 DEF Gives, Of
  <2>4. CASE ~ (lock'[y] = r /\ Exists(cur'[y]))
    <3>1. Touched(y) /\ ~ Exists(cur'[y])
      BY <2>1, <2>2, <2>4, WorksRows, Untouched
    <3>2. w.at = "sweep"
      BY <1>0, <2>2, <3>1, BalanceTaken
    <3> QED
      BY <1>0, <2>2, <3>1, <3>2, SweptReplaced DEF Gives
  <2> QED
    BY <2>3, <2>4
<1>2. CASE ToDo(r, stmt)
  <2>0. w.at \in {"next", "sweep"}
    BY <1>2 DEF ToDo
  <2>1. PICK i \in DOMAIN w.todo : w.todo[i] = stmt
    BY <1>2 DEF ToDo
  <2>2. w.todo \in Seq(Statement) /\ w.todo # << >> /\ Head(w.todo) = w.todo[1]
    BY <2>0, <2>1, BetweenStatements, HeadIs
  <2>3. stmt.sql = "INSERT" /\ stmt.table = b /\ stmt.of = t
    BY FieldsOf
  <2>4. ASSUME i # 1, (u.at = "next" /\ u.todo = Tail(w.todo)) \/ (u.at = "sweep" /\ u.todo = w.todo)
        PROVE  ToDo(r, stmt)'
    <3>1. i - 1 \in DOMAIN Tail(w.todo) /\ Tail(w.todo)[i - 1] = w.todo[i]
      BY <2>2, <2>4, Shift
    <3> QED
      BY <2>1, <2>4, <3>1 DEF ToDo
  <2>5. CASE w.at = "sweep"
    <3>1. i # 1
      BY <2>1, <2>3, <2>5 DEF ReplacedPart
    <3>2. (u.at = "next" /\ u.todo = Tail(w.todo)) \/ (u.at = "sweep" /\ u.todo = w.todo)
      BY <1>0, <2>5, SweepCourse
    <3> QED
      BY <2>4, <3>1, <3>2 DEF Gives
  <2>6. CASE w.at = "next"
    <3>1. ~ NextTenant(r) /\ ~ StatementsDone(r)
      BY <1>0, <2>2, NextTenantIs, StatementsDoneIs
    <3>2. CASE StartDelete(r)
      <4>1. Head(w.todo).sql = "DELETE" /\ \E Y : Sweeping(r, Y)
        BY <3>2, Zenon DEF StartDelete
      <4>2. i # 1
        BY <2>1, <2>2, <2>3, <4>1
      <4>3. (u.at = "next" /\ u.todo = Tail(w.todo)) \/ (u.at = "sweep" /\ u.todo = w.todo)
        BY <1>0, <4>1, SweptIs
      <4> QED
        BY <2>4, <4>2, <4>3 DEF Gives
    <3>3. CASE WipeInsert(r)
      <4> DEFINE head == Head(w.todo)
                 y == Next1(Unused(head.table, head.of))
      <4>1. \/ Reply(r, 500)
            \/ /\ Only(u, w, {"todo"}) /\ u.todo = Tail(w.todo) /\ Unused(head.table, head.of) # {}
               /\ WriteOne(r, y, Is("live"))
        BY <1>0, <3>3, WipeInsertIs
      <4>2. CASE Reply(r, 500)
        BY <1>0, <4>2, ReplyIs DEF Reply, Gives, Refused, Answered
      <4>3. CASE /\ Only(u, w, {"todo"}) /\ u.todo = Tail(w.todo) /\ Unused(head.table, head.of) # {}
                 /\ WriteOne(r, y, Is("live"))
        <5>1. u.at = "next"
          BY <2>6, <4>3 DEF Only
        <5>2. i # 1 => ToDo(r, stmt)'
          BY <2>4, <4>3, <5>1
        <5>3. CASE i = 1
          <6>1. y \in Of(b, t) /\ y \in menu.rows
            <7>1. y \in Unused(b, t)
              BY <1>0, <2>1, <2>2, <2>3, <4>3, <5>3, FreshRow
            <7> QED
              BY <7>1 DEF Unused, Of
          <6> HIDE DEF y
          <6>2. lock'[y] = r /\ cur'[y] = Is("live")
            BY <1>0, <4>3, <6>1 DEF WriteOne, TypeOK
          <6>3. y \in Of(b, t)'
            BY <1>0, <6>1 DEF Of
          <6>4. Exists(cur'[y])
            BY <6>2 DEF Is, Exists
          <6> QED
            BY <6>2, <6>3, <6>4 DEF Gives
        <5> QED
          BY <5>2, <5>3 DEF Gives
      <4> QED
        BY <4>1, <4>2, <4>3
    <3> QED
      BY <1>0, <2>6, <3>1, <3>2, <3>3, StepAt
  <2> QED
    BY <2>0, <2>5, <2>6
<1> QED
  BY <1>0, <1>1, <1>2 DEF Gives, Refused

LEMMA BalancesStep == ASSUME IInv, [Next]_vars, ReplacedPart, BalancesPart PROVE BalancesPart'
<1>0. TypeOK /\ IInv' /\ menu' = menu /\ NoReq \notin Reqs
  BY Doings, MenuStays, NamesAssumption DEF IInv
<1> SUFFICES ASSUME NEW r \in Reqs, NEW z \in menu.rows, z[1] \in Balances, lock'[z] = r, ~ Exists(cur'[z])
             PROVE  req'[r].op = "delete" \/ (Wiping(req'[r]) /\ Gives(r, z[1], z[2])')
  BY <1>0 DEF BalancesPart
<1> DEFINE Good == req'[r].op = "delete" \/ (Wiping(req'[r]) /\ Gives(r, z[1], z[2])')
<1>1. ASSUME lock[z] = r, ~ Exists(cur[z]) PROVE req[r].op = "delete" \/ (Wiping(req[r]) /\ Gives(r, z[1], z[2]))
  BY <1>1 DEF BalancesPart
<1>2. ASSUME lock[z] = r, ~ Exists(cur[z]), Alike(req'[r], req[r]),
             \A y \in menu.rows : lock[y] = r => lock'[y] = r /\ cur'[y] = cur[y]
      PROVE  Good
  <2>1. Gives(r, z[1], z[2]) => Gives(r, z[1], z[2])'
    <3>1. /\ req'[r].at = req[r].at /\ req'[r].todo = req[r].todo /\ req'[r].status = req[r].status
          /\ Of(z[1], z[2])' = Of(z[1], z[2]) /\ Of(z[1], z[2]) \subseteq menu.rows
      BY <1>0, <1>2 DEF Alike, Of
    <3>2. \A stmt : ToDo(r, stmt) => ToDo(r, stmt)'
      BY <3>1 DEF ToDo
    <3> QED
      BY <1>2, <3>1, <3>2 DEF Gives, Refused
  <2> QED
    BY <1>1, <1>2, <2>1 DEF Alike, Wiping
<1>3. CASE Rests
  <2>1. lock[z] = r /\ cur' = cur /\ lock' = lock
    BY <1>3 DEF Rests
  <2>2. req[r].at # "idle"
    BY <2>1 DEF IInv, RowsPart, Holds
  <2> QED
    BY <1>2, <1>3, <2>1, <2>2 DEF Rests
<1>4. ASSUME NEW q \in Reqs, Ending(q) PROVE Good
  <2>1. lock[z] # q
    BY <1>0, <1>4 DEF Ending
  <2>2. q # r /\ lock[z] = r /\ cur'[z] = cur[z]
    BY <1>4, <2>1 DEF Ending
  <2>3. Alike(req'[r], req[r]) /\ \A y \in menu.rows : lock[y] = r => lock'[y] = r /\ cur'[y] = cur[y]
    BY <1>4, <2>2 DEF Ending
  <2> QED
    BY <1>2, <2>2, <2>3
<1>5. ASSUME NEW q \in Reqs, q # r, Works(q) PROVE Good
  <2>1. /\ req'[r] = req[r]
        /\ \A y \in menu.rows : Touched(y) => lock'[y] = q /\ lock[y] \in {q, NoReq}
    BY <1>5, WorksRows
  <2>2. lock[z] = r /\ cur'[z] = cur[z]
    BY <1>5, <2>1, Untouched
  <2>3. Alike(req'[r], req[r]) /\ \A y \in menu.rows : lock[y] = r => lock'[y] = r /\ cur'[y] = cur[y]
    BY <1>0, <1>5, <2>1, Untouched DEF Alike
  <2> QED
    BY <1>2, <2>2, <2>3
<1>6. CASE Works(r)
  <2>0. HandlerActs(r) /\ req'[r].op = req[r].op
    BY <1>6, WorksRows DEF Works
  <2>1. CASE Touched(z)
    <3>1. req[r].op = "delete" \/ req[r].at = "sweep"
      BY <2>0, <2>1, BalanceTaken
    <3>2. CASE req[r].at = "sweep" /\ req[r].op # "delete"
      <4>1. req[r].op \in Wipes \cup {"thread", "purge"}
        BY <3>2, BetweenStatements
      <4>2. Touches(req[r].op, req[r].of, z)
        BY <1>6, <2>1, WorksRows
      <4>3. req[r].op \notin {"thread", "purge"}
        BY <4>2 DEF Touches, Locks, Balances
      <4>4. Wiping(req[r])
        BY <3>2, <4>1, <4>3 DEF Wiping, Wipes
      <4>5. ToDo(r, Create(z[1], z[2]))'
        BY <2>0, <2>1, <3>2, <4>4, SweptReplaced
      <4> QED
        BY <2>0, <4>4, <4>5 DEF Gives, Wiping
    <3> QED
      BY <2>0, <3>1, <3>2
  <2>2. CASE ~ Touched(z)
    <3>1. lock[z] = r /\ ~ Exists(cur[z])
      BY <2>2, Untouched
    <3>2. CASE Wiping(req[r]) /\ Gives(r, z[1], z[2])
      <4>1. z[2] \in Tenants
        <5>1. z[1] # "settings"
          BY DEF Balances
        <5> QED
          BY <5>1, OwnTenant
      <4>2. PICK b \in Balances : b = z[1]
        OBVIOUS
      <4>3. PICK t \in Tenants : t = z[2]
        BY <4>1
      <4>4. Gives(r, b, t)'
        BY <1>6, <3>2, <4>2, <4>3, GivesStays
      <4> QED
        BY <2>0, <3>2, <4>2, <4>3, <4>4 DEF Wiping
    <3> QED
      BY <1>1, <2>0, <3>1, <3>2
  <2> QED
    BY <2>1, <2>2
<1> QED
  BY <1>3, <1>4, <1>5, <1>6, Doings

-----------------------------------------------------------------------------
(* The tenants *)

LEMMA WholeInitially ==
  Init => NamesPart /\ GripPart /\ BelowPart /\ OwnersPart /\ MadePart /\ ReplacedPart /\ BalancesPart /\ TenantsWhole
<1> SUFFICES ASSUME Init
             PROVE  NamesPart /\ GripPart /\ BelowPart /\ OwnersPart /\ MadePart /\ ReplacedPart /\ BalancesPart /\ TenantsWhole
  OBVIOUS
<1>1. /\ menu \in Menus /\ cur = db /\ \A y \in menu.rows : lock[y] = NoReq
      /\ \A y \in menu.rows : db[y] = Is(IF y \in menu.there THEN "live" ELSE "none")
      /\ \A r \in Reqs : req[r] = NoWork
      /\ NoReq \notin Reqs
  <2>1. /\ menu \in Menus /\ cur = db /\ lock = [y \in menu.rows |-> NoReq]
        /\ db = [y \in menu.rows |-> Is(IF y \in menu.there THEN "live" ELSE "none")]
        /\ req = [r \in Reqs |-> NoWork]
    BY Zenon DEF Init
  <2>2. \A y \in menu.rows : db[y] = Is(IF y \in menu.there THEN "live" ELSE "none")
    BY ONLY <2>1, Zenon
  <2> QED
    BY <2>1, <2>2, NamesAssumption
<1>2. \A r \in Reqs : req[r].at = "idle"
  BY <1>1 DEF NoWork
<1>3. \A y \in menu.rows : (Exists(db[y]) <=> y \in menu.there) /\ (db[y].st = "live" <=> y \in menu.there)
  <2>1. Exists(Is("live")) /\ Is("live").st = "live" /\ ~ Exists(Is("none")) /\ Is("none").st # "live"
    BY DEF Is, Exists
  <2>2. \A y \in menu.rows : db[y] = IF y \in menu.there THEN Is("live") ELSE Is("none")
    BY <1>1
  <2> QED
    BY ONLY <2>1, <2>2
<1>4. GripPart /\ ReplacedPart
  BY <1>2 DEF GripPart, ReplacedPart
<1>5. BelowPart /\ MadePart /\ BalancesPart /\ OwnersPart
  <2>1. \A r \in Reqs, y \in menu.rows : lock[y] # r
    BY <1>1
  <2> QED
    BY <2>1 DEF BelowPart, MadePart, Made, BalancesPart, OwnersPart
<1>6. menu.there \subseteq menu.rows
  BY <1>1, NamedAssumption
<1>7. ASSUME NEW t \in Tenants
      PROVE  IF One("tenant", t) \in menu.there
             THEN /\ One("distributor", t) \in menu.there
                  /\ \A b \in Balances : \E y \in menu.there : y[1] = b /\ y[2] = t
                  /\ \A u \in Tenants \ {t} : NameOf[u] = NameOf[t] => One("tenant", u) \notin menu.there
             ELSE \A y \in menu.there : y[2] # t
  BY <1>1, WholeAssumption DEF One
<1>8. NamesPart
  BY <1>1, <1>3, <1>7 DEF NamesPart, There
<1>9. TenantsWhole
  <2> SUFFICES ASSUME NEW t \in Tenants, One("tenant", t) \in menu.rows
               PROVE  IF TenantThere(t)
                      THEN /\ db[One("distributor", t)].st = "live"
                           /\ Present("wallet", t) # {} /\ Present("pool", t) # {}
                           /\ \A u \in Tenants \ {t} : NameOf[u] = NameOf[t] => ~ TenantThere(u)
                      ELSE /\ db[One("distributor", t)].st # "live"
                           /\ \A y \in Below(t) : ~ Exists(db[y])
    BY DEF TenantsWhole
  <2>1. \A u \in Tenants : TenantThere(u) <=> One("tenant", u) \in menu.there
    BY <1>3, <1>6 DEF TenantThere
  <2>2. One("distributor", t) \in menu.rows
    <3>1. One("tenant", t)[1] # "settings" /\ One("tenant", t)[2] = t
      BY DEF One
    <3> QED
      BY <1>1, <3>1, NamedAssumption DEF One
  <2>3. CASE TenantThere(t)
    <3>1. \A b \in Balances : Present(b, t) # {}
      BY <1>3, <1>6, <1>7, <2>1, <2>3 DEF Present, Of
    <3> QED
      BY <1>3, <1>7, <2>1, <2>2, <2>3, <3>1 DEF Balances
  <2>4. CASE ~ TenantThere(t)
    <3>1. \A y \in menu.there : y[2] # t
      BY <1>7, <2>1, <2>4
    <3>2. One("distributor", t)[2] = t
      BY DEF One
    <3> QED
      BY <1>3, <2>2, <2>4, <3>1, <3>2 DEF Below
  <2> QED
    BY <2>3, <2>4
<1> QED
  BY <1>4, <1>5, <1>8, <1>9

\* A commit leaves the tenants whole.
LEMMA WholeCommitted ==
  ASSUME IInv, IInv', NEW r \in Reqs, Ending(r), NamesPart, BelowPart, OwnersPart, MadePart, BalancesPart, TenantsWhole,
         req[r].at = "respond", req[r].status < 400,
         \A y \in menu.rows : lock[y] = r => db'[y] = cur[y],
         NEW t \in Tenants, One("tenant", t) \in menu.rows
  PROVE  IF TenantThere(t)'
         THEN /\ db'[One("distributor", t)].st = "live"
              /\ Present("wallet", t)' # {} /\ Present("pool", t)' # {}
              /\ \A u \in Tenants \ {t} : NameOf[u] = NameOf[t] => ~ TenantThere(u)'
         ELSE /\ db'[One("distributor", t)].st # "live"
              /\ \A y \in Below(t)' : ~ Exists(db'[y])
<1> DEFINE x == One("tenant", t)
           d == One("distributor", t)
<1>0. /\ TypeOK /\ menu' = menu /\ NoReq \notin Reqs
      /\ \A y \in menu.rows : (lock[y] = r /\ db'[y] = cur[y]) \/ (lock[y] # r /\ db'[y] = db[y])
  BY NamesAssumption DEF IInv, Ending
<1>1. x \in menu.rows /\ d \in menu.rows /\ x[1] = "tenant" /\ x[2] = t /\ d[1] = "distributor" /\ d[2] = t /\ x # d
  <2>1. x[1] # "settings" /\ x[2] = t
    BY DEF One
  <2> QED
    BY <2>1, OwnTenant DEF One
<1>2. /\ Below(t)' = Below(t) /\ \A y \in Below(t) : y \in menu.rows /\ y[1] \in Children /\ y[2] = t
      /\ \A b \in Tables : \A y : y \in Present(b, t)' <=> y \in Of(b, t) /\ Exists(db'[y])
      /\ TenantThere(t)' <=> db'[x].st = "live"
      /\ TenantThere(t) <=> db[x].st = "live"
  BY <1>0, <1>1 DEF Below, Present, Of, TenantThere
<1>3. /\ TenantThere(t) => /\ db[d].st = "live" /\ Present("wallet", t) # {} /\ Present("pool", t) # {}
                           /\ \A u \in Tenants \ {t} : NameOf[u] = NameOf[t] => ~ TenantThere(u)
      /\ ~ TenantThere(t) => db[d].st # "live" /\ \A y \in Below(t) : ~ Exists(db[y])
  BY DEF TenantsWhole
<1>4. \A row : row.st = "live" => Exists(row)
  BY DEF Exists
<1>5. ~ Refused(r)
  <2>1. req[r].status \in Statuses
    BY Fielded DEF IInv, Records, Type
  <2> QED
    BY <2>1 DEF Refused, Statuses
<1>6. \A u \in Tenants \ {t} : NameOf[u] = NameOf[t] /\ TenantThere(t)' => ~ TenantThere(u)'
  <2> SUFFICES ASSUME NEW u \in Tenants \ {t}, NameOf[u] = NameOf[t], TenantThere(t)', TenantThere(u)' PROVE FALSE
    OBVIOUS
  <2> DEFINE z == One("tenant", u)
  <2>1. z \in menu.rows /\ db'[z].st = "live" /\ db'[x].st = "live"
    BY <1>0 DEF TenantThere
  <2>2. There(x) /\ There(z)
    BY <1>0, <1>1, <1>4, <2>1 DEF There
  <2> QED
    BY <1>1, <2>1, <2>2 DEF NamesPart
<1>7. CASE lock[x] = r
  <2>1. Creates(r, t) \/ Drops(r, t)
    BY <1>7 DEF OwnersPart
  <2>2. CASE Creates(r, t)
    <3>1. \A b \in {"tenant", "distributor", "wallet", "pool"} :
            One(b, t) \in menu.rows /\ db'[One(b, t)].st = "live"
      BY <2>2 DEF Creates
    <3>2. \A b \in {"wallet", "pool"} : One(b, t) \in Of(b, t)
      BY <3>1 DEF Of, One
    <3>3. {"wallet", "pool"} \subseteq Tables
      BY DEF Tables, Children, Balances
    <3>4. \A b \in {"wallet", "pool"} : One(b, t) \in Present(b, t)'
      BY <1>2, <1>4, <3>1, <3>2, <3>3
    <3> QED
      BY <1>2, <1>6, <3>1, <3>4
  <2>3. CASE Drops(r, t)
    <3>1. Dropped(r, t)
      BY <2>3 DEF Drops
    <3>2. db'[x].st = "gone" /\ db'[d].st = "gone"
      BY <1>1, <3>1 DEF Dropped, Deletes
    <3>3. \A y \in Below(t) : ~ Exists(db'[y])
      <4> SUFFICES ASSUME NEW y \in Below(t), Exists(db'[y]) PROVE FALSE
        OBVIOUS
      <4>1. CASE Exists(db[y])
        <5>1. lock[y] = r /\ cur[y].st = "gone"
          BY <3>1, <4>1 DEF Dropped, Deletes
        <5> QED
          BY <1>2, <5>1 DEF Exists
      <4>2. CASE ~ Exists(db[y])
        <5>1. Made(r, y)
          BY <1>0, <1>2, <4>2 DEF Made
        <5>2. req[r].op = "create"
          BY <1>2, <1>7, <5>1 DEF MadePart
        <5> QED
          BY <2>3, <5>2 DEF Drops
      <4> QED
        BY <4>1, <4>2
    <3> QED
      BY <1>2, <3>2, <3>3
  <2> QED
    BY <2>1, <2>2, <2>3
<1>8. CASE lock[x] # r
  <2>1. db'[x] = db[x] /\ (TenantThere(t)' <=> TenantThere(t))
    BY <1>0, <1>1, <1>2, <1>8
  <2>2. db'[d] = db[d]
    BY <1>0, <1>1, <1>8 DEF BelowPart
  <2>3. CASE ~ TenantThere(t)
    <3>1. \A y \in Below(t) : ~ Exists(db'[y])
      <4> SUFFICES ASSUME NEW y \in Below(t), Exists(db'[y]) PROVE FALSE
        OBVIOUS
      <4>1. Made(r, y)
        BY <1>0, <1>2, <1>3, <2>3 DEF Made
      <4>2. lock[x] \in {r, NoReq} /\ (lock[x] = NoReq => TenantThere(t))
        BY <1>2, <4>1 DEF MadePart
      <4> QED
        BY <1>8, <2>3, <4>2
    <3> QED
      BY <1>2, <1>3, <2>1, <2>2, <2>3, <3>1
  <2>4. CASE TenantThere(t)
    <3>1. ASSUME NEW b \in Balances PROVE Present(b, t)' # {}
      <4>1. b \in Tables
        BY DEF Tables, Children
      <4>2. PICK z \in Of(b, t) : Exists(db[z])
        BY <1>3, <2>4 DEF Present, Balances
      <4>3. z \in menu.rows /\ z[1] = b /\ z[2] = t
        BY DEF Of
      <4>4. CASE Exists(db'[z])
        BY <1>2, <4>1, <4>4
      <4>5. CASE ~ Exists(db'[z])
        <5>1. lock[z] = r /\ ~ Exists(cur[z])
          BY <1>0, <4>2, <4>3, <4>5
        <5>2. req[r].op # "delete"
          BY <1>8, <4>3, <5>1 DEF BelowPart
        <5>3. Gives(r, b, t)
          BY <4>3, <5>1, <5>2 DEF BalancesPart
        <5>4. PICK y \in Of(b, t) : lock[y] = r /\ Exists(cur[y])
          BY <1>5, <5>3 DEF Gives, ToDo
        <5>5. Exists(db'[y])
          BY <5>4 DEF Of
        <5> QED
          BY <1>2, <4>1, <5>4, <5>5
      <4> QED
        BY <4>4, <4>5
    <3> QED
      BY <1>2, <1>3, <1>6, <2>1, <2>2, <2>4, <3>1 DEF Balances
  <2> QED
    BY <2>3, <2>4
<1> QED
  BY <1>7, <1>8

LEMMA WholeStep ==
  ASSUME IInv, [Next]_vars, NamesPart, BelowPart, OwnersPart, MadePart, BalancesPart, TenantsWhole
  PROVE  TenantsWhole'
<1>0. IInv' /\ menu' = menu
  BY Doings, MenuStays
<1>1. CASE db' = db
  <2>1. \A t : (TenantThere(t)' <=> TenantThere(t)) /\ Below(t)' = Below(t)
    BY <1>0, <1>1 DEF TenantThere, Below
  <2>2. \A b, t : Present(b, t)' = Present(b, t)
    BY <1>0, <1>1 DEF Present, Of
  <2> QED
    BY <1>0, <1>1, <2>1, <2>2 DEF TenantsWhole
<1>2. ASSUME NEW r \in Reqs, Ending(r), db' # db PROVE TenantsWhole'
  <2>1. req[r].at = "respond" /\ req[r].status < 400 /\ \A y \in menu.rows : lock[y] = r => db'[y] = cur[y]
    BY <1>2 DEF Ending
  <2> QED
    BY <1>0, <1>2, <2>1, WholeCommitted DEF TenantsWhole
<1>3. ASSUME NEW r \in Reqs, Works(r) PROVE db' = db
  BY <1>3, WorksRows
<1> QED
  BY <1>1, <1>2, <1>3, Doings DEF Rests

\* All that keeps tenants whole: who holds a tenant's row creates the tenant or deletes it
\* with everything below it, and a wipe that takes a wallet or a pool gives another.
WholePart ==
  /\ NamesPart /\ GripPart /\ BelowPart /\ OwnersPart /\ MadePart /\ ReplacedPart /\ BalancesPart /\ TenantsWhole

LEMMA Wholeness == Spec => [](IInv /\ HandsPart /\ WholePart)
<1>1. Init => IInv /\ HandsPart /\ WholePart
  BY Initial, HandsInitially, WholeInitially DEF WholePart
<1>2. (IInv /\ HandsPart /\ WholePart) /\ [Next]_vars => (IInv /\ HandsPart /\ WholePart)'
  <2> SUFFICES ASSUME IInv, HandsPart, WholePart, [Next]_vars PROVE IInv' /\ HandsPart' /\ WholePart'
    OBVIOUS
  <2>1. /\ NamesPart /\ GripPart /\ BelowPart /\ OwnersPart /\ MadePart /\ ReplacedPart /\ BalancesPart /\ TenantsWhole
    BY DEF WholePart
  <2>2. IInv' /\ HandsPart' /\ NamesPart' /\ GripPart' /\ BelowPart'
    BY <2>1, Inductive, HandsStep, NamesStep, GripStep, BelowStep
  <2>3. OwnersPart' /\ MadePart' /\ ReplacedPart' /\ BalancesPart' /\ TenantsWhole'
    BY <2>1, OwnersStep, MadeStep, ReplacedStep, BalancesStep, WholeStep
  <2> QED
    BY <2>2, <2>3 DEF WholePart
<1> QED
  BY <1>1, <1>2, PTL DEF Spec

\* Creating a tenant, deleting it and wiping it are all or nothing (ownerTenants.js:1137-1345,
\* 1755-1802, wipeService.js:55-112): a committed tenant has its distributor, a wallet and a
\* voucher pool and alone bears its identifier, and nothing below it outlives it.
THEOREM TenantsStayWhole == Spec => []TenantsWhole
<1>1. WholePart => TenantsWhole
  BY DEF WholePart
<1> QED
  BY <1>1, Wholeness, PTL

-----------------------------------------------------------------------------
(* Tenants that are gone *)

\* A request about one tenant was let in while the tenant was there.
GonePart ==
  \A r \in Reqs :
    req[r].at \notin {"idle", "auth"} /\ ~ Refused(r) /\ Resolved(req[r].op) =>
      One("tenant", req[r].of) \in req[r].began \cup req[r].moved

LEMMA TenantCares == ASSUME NEW op, NEW s PROVE Cares(op, s, One("tenant", s))
BY DEF Cares, Matters, One, Wipes

LEMMA ThereNow ==
  ASSUME ArrivalPart, NEW r \in Reqs, req[r].at # "idle", TenantThere(req[r].of)
  PROVE  One("tenant", req[r].of) \in req[r].began \cup req[r].moved
<1>1. Cares(req[r].op, req[r].of, One("tenant", req[r].of))
  BY TenantCares
<1> QED
  BY <1>1 DEF ArrivalPart, SinceArrival, TenantThere

LEMMA GoneStep == ASSUME IInv, [Next]_vars, ArrivalPart, TenantsWhole, GonePart PROVE GonePart'
<1> SUFFICES ASSUME NEW r \in Reqs, req'[r].at \notin {"idle", "auth"}, ~ Refused(r)', Resolved(req'[r].op)
             PROVE  One("tenant", req'[r].of) \in req'[r].began \cup req'[r].moved
  BY DEF GonePart
<1>1. CASE Stays(r)
  BY <1>1 DEF Stays, Alike, Refused, GonePart
<1>2. CASE Arrives(r)
  BY <1>2 DEF Arrives
<1>3. CASE Over(r)
  BY <1>3, OverKeeps
<1>4. CASE Works(r)
  <2>1. /\ req'[r].op = req[r].op /\ req'[r].of = req[r].of /\ req[r].at # "idle" /\ HandlerActs(r)
        /\ req'[r].began = req[r].began /\ req'[r].moved = req[r].moved
    BY <1>4, WorksKeep DEF Works
  <2>2. CASE req[r].at # "auth"
    <3>1. req[r].at # "respond"
      BY <2>1, StepAt
    <3> QED
      BY <2>1, <2>2, <3>1 DEF GonePart, Refused
  <2>3. CASE req[r].at = "auth"
    <3>0. TypeOK
      BY DEF IInv
    <3>1. TenantThere(req[r].of) \/ Present("staff", req[r].of) # {}
      <4>1. OwnerAuth(r) \/ StaffAuth(r) \/ NoAuth(r)
        BY <2>1, <2>3, StepAt
      <4>2. \A code \in {401, 404, 500} : req' # Answer(r, code)
        BY <3>0, ReplyIs DEF Answered, Refused
      <4> QED
        BY <2>1, <3>0, <4>1, <4>2, AuthIs
    <3>2. TenantThere(req[r].of)
      <4> SUFFICES ASSUME NEW y \in Present("staff", req[r].of) PROVE TenantThere(req[r].of)
        BY <3>1
      <4>1. y \in menu.rows /\ y[1] = "staff" /\ y[2] = req[r].of /\ Exists(db[y])
        BY DEF Present, Of
      <4>2. req[r].of \in Tenants /\ One("tenant", req[r].of) \in menu.rows
        BY <4>1, OwnTenant
      <4>3. y \in Below(req[r].of)
        BY <4>1 DEF Below, Children
      <4> QED
        BY <4>1, <4>2, <4>3 DEF TenantsWhole
    <3> QED
      BY <2>1, <3>2, ThereNow
  <2> QED
    BY <2>2, <2>3
<1> QED
  BY <1>1, <1>2, <1>3, <1>4, Views

LEMMA GoneKept ==
  ASSUME IInv, [Next]_vars, ArrivalPart, MadePart, GonePart
  PROVE  [\A r \in Reqs, y \in menu.rows :
            Makes(r, y) /\ y[2] \in Tenants /\ req[r].op \notin {"create", "wipeAll"} =>
              One("tenant", y[2]) \in req[r].began \cup req[r].moved]_db
<1> SUFFICES ASSUME NEW r \in Reqs, NEW y \in menu.rows, Makes(r, y), y[2] \in Tenants,
                    req[r].op \notin {"create", "wipeAll"}
             PROVE  One("tenant", y[2]) \in req[r].began \cup req[r].moved
  OBVIOUS
<1>1. lock[y] = r /\ ~ Exists(db[y]) /\ Exists(db'[y])
  BY DEF Makes
<1>2. req[r].status < 400 /\ req[r].at = "respond" /\ db'[y] = cur[y]
  BY <1>1, CommittedBy
<1>3. Made(r, y)
  BY <1>1, <1>2 DEF Made
<1>4. y[1] \in Locks(req[r].op) /\ y[2] = req[r].of
  BY <1>1 DEF IInv, RowsPart, Holds, Touches
<1>5. CASE Resolved(req[r].op)
  <2>1. req[r].status \in Int
    <3>1. req[r] \in Work
      BY DEF IInv, TypeOK
    <3>2. req[r].status \in Statuses
      BY <3>1, WorkFields
    <3> QED
      BY <3>2 DEF Statuses
  <2>2. ~ Refused(r)
    BY <1>2, <2>1 DEF Refused
  <2> QED
    BY <1>2, <1>4, <1>5, <2>2 DEF GonePart
<1>6. CASE req[r].op \in {"system", "brand"}
  <2>1. <<req[r].op, req[r].of>> \in menu.meet /\ menu \in Menus
    BY <1>2 DEF IInv, LocalPart, Local, TypeOK
  <2> QED
    BY <1>4, <1>6, <2>1, NamedAssumption
<1>7. CASE req[r].op \in {"bet", "purge"}
  <2>1. y[1] \in Children
    BY <1>4, <1>7 DEF Locks, Children, Wiped
  <2>2. TenantThere(y[2])
    BY <1>3, <1>7, <2>1 DEF MadePart
  <2> QED
    BY <1>2, <1>4, <2>2, ThereNow
<1> QED
  BY <1>5, <1>6, <1>7 DEF Resolved

-----------------------------------------------------------------------------
(* Wipes *)

\* Rows that a request with this operation has to delete.
Doomed(op, y) == y[1] \in Children \cup (IF op = "delete" THEN Settings ELSE {})
\* Somebody else has deleted row y; one that is found by a key may be back.
Away(r, y) == IF y[1] \in FreshId THEN db[y].st = "gone" ELSE y \in req[r].moved
Clears(r) == req[r].op \in Wipes /\ req[r].at \notin {"idle", "auth", "confirm", "lock"} /\ ~ Refused(r)
\* Row y belongs to a tenant that a wipe has yet to come to.
Waits(r, y) == Wiping(req[r]) /\ req[r].at \in {"next", "sweep"} /\ y[2] \in req[r].left

\* No row that was there when a wipe arrived is forgotten.
TakenPart ==
  \A r \in Reqs : Clears(r) =>
    \A y \in req[r].began :
      Doomed(req[r].op, y) => Deletes(r, y) \/ Pending(r, y) \/ Away(r, y) \/ Waits(r, y)
\* The staff of all tenants is the last to be deleted.
LastPart ==
  \A r \in Reqs : req[r].at # "idle" /\ Wiping(req[r]) =>
    req[r].n = 0 \/ (req[r].left = {} /\ req[r].at \notin {"auth", "confirm"})

LEMMA LeftAway ==
  ASSUME IInv, ArrivalPart, NEW r \in Reqs, req[r].at # "idle", NEW y \in req[r].began, ~ Exists(db[y])
  PROVE  Away(r, y)
<1>1. y \in menu.rows /\ Known(y) /\ (db[y].st = "live" \/ y \in req[r].moved)
  BY DEF ArrivalPart, SinceArrival
<1>2. db[y].st \in States
  BY <1>1 DEF IInv, TypeOK, Row
<1>3. db[y].st = "gone"
  BY <1>1, <1>2 DEF Known, Exists, States
<1> QED
  BY <1>1, <1>3 DEF Away

\* The statements of a wipe take all tables below the tenant, those of a deletion the
\* settings, too.
LEMMA WipeTakes ==
  ASSUME NEW t, NEW b \in Children
  PROVE  \E i \in DOMAIN (WipeOrder(t) \o Reset(t)) : (WipeOrder(t) \o Reset(t))[i] = Delete(b, t)
<1> DEFINE s == WipeOrder(t)
           u == Reset(t)
           D(c) == Delete(c, t)
           C(c) == Create(c, t)
<1>1. /\ s = <<D("message"), D("key"), D("device"), D("payment"), D("intent"), D("withdrawal"), D("purse"), D("staff")>>
      /\ u = <<D("wallet"), D("pool"), C("wallet"), C("pool")>>
  BY DEF WipeOrder, Reset
<1>2. b \in {"message", "key", "device", "payment", "intent", "withdrawal", "purse", "staff", "wallet", "pool"}
  BY DEF Children, Wiped, Balances
<1> HIDE DEF s, u, D, C
<1> DEFINE z == s \o u
<1>3. /\ DOMAIN z = 1..12
      /\ z[1] = D("message") /\ z[2] = D("key") /\ z[3] = D("device") /\ z[4] = D("payment") /\ z[5] = D("intent")
      /\ z[6] = D("withdrawal") /\ z[7] = D("purse") /\ z[8] = D("staff") /\ z[9] = D("wallet") /\ z[10] = D("pool")
  BY ONLY <1>1, SMT
<1> HIDE DEF z
<1>4. \E i \in 1..12 : z[i] = D(b)
  <2>1. \A i \in {1, 2, 3, 4, 5, 6, 7, 8, 9, 10} : i \in 1..12
    OBVIOUS
  <2> QED
    BY <1>2, <1>3, <2>1, Zenon
<1>5. \E i \in DOMAIN z : z[i] = D(b)
  BY <1>3, <1>4
<1> QED
  BY <1>5 DEF s, u, D, z

LEMMA DeleteTakes ==
  ASSUME NEW t, NEW b \in Settings
  PROVE  \E i \in DOMAIN (WipeOrder(t) \o Leftovers(t)) : (WipeOrder(t) \o Leftovers(t))[i] = Delete(b, t)
<1> DEFINE s == WipeOrder(t)
           u == Leftovers(t)
           D(c) == Delete(c, t)
<1>1. /\ s = <<D("message"), D("key"), D("device"), D("payment"), D("intent"), D("withdrawal"), D("purse"), D("staff")>>
      /\ u = <<D("wallet"), D("pool"), D("settings"), D("rootKey")>>
  BY DEF WipeOrder, Leftovers
<1>2. b \in {"settings", "rootKey"}
  BY DEF Settings
<1> HIDE DEF s, u, D
<1> DEFINE z == s \o u
<1>3. DOMAIN z = 1..12 /\ z[11] = D("settings") /\ z[12] = D("rootKey")
  BY ONLY <1>1, SMT
<1> HIDE DEF z
<1>4. 11 \in 1..12 /\ 12 \in 1..12
  OBVIOUS
<1>5. \E i \in DOMAIN z : z[i] = D(b)
  BY <1>2, <1>3, <1>4
<1> QED
  BY <1>5 DEF s, u, D, z

\* A statement that starts finds the rows it is about.
LEMMA StartCourse ==
  ASSUME IInv, NEW r \in Reqs, req[r].op \in Wipes, StartDelete(r)
  PROVE  /\ UNCHANGED Kept /\ req[r].at = "next" /\ req[r].todo # << >> /\ req[r].todo[1].sql = "DELETE"
         /\ Only(req'[r], req[r], {"rows", "at", "todo"})
         /\ LET Y == {y \in Aimed(req[r].todo[1]) : Exists(db[y]) \/ (lock[y] = r /\ Exists(cur[y]))} IN
            /\ req'[r].rows = Y
            /\ Y = {} => req'[r].at = "next" /\ req'[r].todo = Tail(req[r].todo)
            /\ Y # {} => req'[r].at = "sweep" /\ req'[r].todo = req[r].todo
<1> DEFINE Y == {y \in Aimed(Head(req[r].todo)) : Exists(db[y]) \/ (lock[y] = r /\ Exists(cur[y]))}
<1>0. req[r].at = "next"
  BY PlaceOf
<1>1. /\ req[r].todo # << >> /\ UNCHANGED Kept /\ Head(req[r].todo).sql = "DELETE"
      /\ \E Z \in IF req[r].op = "purge" THEN SUBSET Y ELSE {Y} : Sweeping(r, Z)
  BY Zenon DEF StartDelete
<1>2. Head(req[r].todo) = req[r].todo[1]
  BY <1>0, <1>1, BetweenStatements, HeadIs
<1>3. req[r].op # "purge"
  BY DEF Wipes
<1> HIDE DEF Y
<1>4. Sweeping(r, Y)
  BY <1>1, <1>3
<1>5. /\ Only(req'[r], req[r], {"rows", "at", "todo"}) /\ req'[r].rows = Y
      /\ Y = {} => req'[r].at = "next" /\ req'[r].todo = Tail(req[r].todo)
      /\ Y # {} => req'[r].at = "sweep" /\ req'[r].todo = req[r].todo
  BY <1>4, SweptIs DEF IInv
<1>6. Y = {y \in Aimed(req[r].todo[1]) : Exists(db[y]) \/ (lock[y] = r /\ Exists(cur[y]))}
  BY <1>2 DEF Y
<1> QED
  BY ONLY <1>0, <1>1, <1>2, <1>5, <1>6, Zenon

\* What a wipe still has to delete stays on its list until it is deleted.
LEMMA ListOn ==
  ASSUME IInv, NEW r \in Reqs, HandlerActs(r), req[r].at \in {"next", "sweep"}, req[r].op \in Wipes,
         NEW y \in menu.rows, Pending(r, y), Exists(db[y]) \/ (lock[y] = r /\ Exists(cur[y]))
  PROVE  Pending(r, y)' \/ Deletes(r, y)' \/ Refused(r)'
<1> DEFINE w == req[r]
           u == req'[r]
<1>0. TypeOK /\ w.todo \in Seq(Statement)
  BY BetweenStatements DEF IInv
<1>1. ASSUME NEW i \in DOMAIN w.todo, i # 1, w.todo[i] = Delete(y[1], y[2]),
             \/ u.at = "next" /\ u.todo = Tail(w.todo)
             \/ u.at = "sweep" /\ u.todo = w.todo
      PROVE  Pending(r, y)'
  <2>1. i - 1 \in DOMAIN Tail(w.todo) /\ Tail(w.todo)[i - 1] = w.todo[i]
    BY <1>0, <1>1, Shift
  <2> QED
    BY <1>1, <2>1 DEF Pending
<1>2. CASE w.at = "next"
  <2>1. PICK i \in DOMAIN w.todo : w.todo[i] = Delete(y[1], y[2])
    BY <1>2 DEF Pending
  <2>2. w.todo # << >> /\ Head(w.todo) = w.todo[1]
    BY <1>0, <2>1, HeadIs
  <2>3. ~ NextTenant(r) /\ ~ StatementsDone(r)
    BY <1>0, <2>2, NextTenantIs, StatementsDoneIs
  <2>4. CASE StartDelete(r)
    <3> DEFINE Y == {z \in Aimed(w.todo[1]) : Exists(db[z]) \/ (lock[z] = r /\ Exists(cur[z]))}
    <3>1. /\ u.rows = Y
          /\ Y = {} => u.at = "next" /\ u.todo = Tail(w.todo)
          /\ Y # {} => u.at = "sweep" /\ u.todo = w.todo
      BY <2>4, StartCourse
    <3>2. i = 1 => y \in Y
      BY <2>1, FieldsOf DEF Aimed
    <3> HIDE DEF Y
    <3> QED
      BY <1>1, <2>1, <3>1, <3>2 DEF Pending
  <2>5. CASE WipeInsert(r)
    <3>1. \/ Reply(r, 500)
          \/ Only(u, w, {"todo"}) /\ u.todo = Tail(w.todo)
      BY <1>0, <2>5, WipeInsertIs
    <3>2. i # 1
      <4>1. w.todo[1].sql = "INSERT"
        BY <1>0, <2>2, <2>5, WipeInsertIs
      <4> QED
        BY <2>1, <4>1, FieldsOf
    <3>3. Reply(r, 500) => Refused(r)'
      BY <1>0, ReplyIs DEF Reply, Refused, Answered
    <3>4. Only(u, w, {"todo"}) => u.at = "next"
      BY <1>2 DEF Only
    <3> QED
      BY <1>1, <2>1, <3>1, <3>2, <3>3, <3>4
  <2> QED
    BY <1>2, <2>3, <2>4, <2>5, StepAt
<1>3. CASE w.at = "sweep"
  <2>1. PICK z \in w.rows :
          LET Y == w.rows \ {z} IN
          /\ WriteOne(r, z, Is("gone")) /\ u.rows = Y
          /\ Y = {} => u.at = "next" /\ u.todo = Tail(w.todo)
          /\ Y # {} => u.at = "sweep" /\ u.todo = w.todo
    BY <1>0, <1>3, SweepCourse
  <2>2. CASE y = z
    <3>1. lock'[y] = r /\ cur'[y] = Is("gone")
      BY <1>0, <2>1, <2>2 DEF WriteOne, TypeOK
    <3> QED
      BY <3>1 DEF Deletes, Is
  <2>3. CASE y \in w.rows /\ y # z
    <3>1. y \in w.rows \ {z}
      BY <2>3
    <3>2. u.rows = w.rows \ {z} /\ u.at = "sweep"
      BY <2>1, <3>1
    <3> QED
      BY <3>1, <3>2 DEF Pending
  <2>4. CASE y \notin w.rows
    <3>1. PICK i \in DOMAIN w.todo : i # 1 /\ w.todo[i] = Delete(y[1], y[2])
      BY <1>3, <2>4 DEF Pending
    <3> QED
      BY <1>1, <2>1, <3>1
  <2> QED
    BY <2>2, <2>3, <2>4
<1> QED
  BY <1>2, <1>3

LEMMA LastStep == ASSUME IInv, [Next]_vars, LastPart PROVE LastPart'
<1> SUFFICES ASSUME NEW r \in Reqs, req'[r].at # "idle", Wiping(req'[r])
             PROVE  req'[r].n = 0 \/ (req'[r].left = {} /\ req'[r].at \notin {"auth", "confirm"})
  BY DEF LastPart
<1> DEFINE w == req[r]
           u == req'[r]
<1>0. TypeOK
  BY DEF IInv
<1>1. CASE Stays(r)
  BY <1>1 DEF Stays, Alike, Wiping, LastPart
<1>2. CASE Arrives(r)
  BY <1>2 DEF Arrives
<1>3. CASE Over(r)
  <2>1. u.op = w.op /\ u.left = w.left /\ u.at = "respond" /\ w.at # "idle" /\ u.n = w.n
    BY <1>3, OverKeeps DEF Over, Only, NoWork
  <2> QED
    BY <2>1 DEF LastPart, Wiping
<1>4. CASE Works(r)
  <2>1. HandlerActs(r) /\ u.op = w.op /\ w.at # "idle" /\ Wiping(w)
    BY <1>4, WorksKeep DEF Works, Wiping
  <2>2. w.n = 0 \/ (w.left = {} /\ w.at \notin {"auth", "confirm"})
    BY <2>1 DEF LastPart
  <2>3. CASE w.at \in {"auth", "confirm"}
    <3>1. u.n = w.n
      BY <1>0, <2>1, <2>3, ReadOnce
    <3> QED
      BY <2>2, <2>3, <3>1
  <2>4. CASE w.at = "next"
    <3>0. u.at # "auth"
      BY <1>4, WorksRows
    <3>1. CASE NextTenant(r)
      BY <1>0, <2>4, <3>1, NextTenantIs DEF Only
    <3>2. CASE StartDelete(r)
      <4>1. Only(u, w, {"rows", "at", "todo"})
        BY <2>1, <3>2, StartCourse DEF Wiping, Wipes
      <4>2. u.at \in {"next", "sweep"}
        BY <2>1, <3>2, StartCourse DEF Wiping, Wipes
      <4> QED
        BY <2>2, <4>1, <4>2 DEF Only
    <3>3. CASE WipeInsert(r)
      <4>1. Only(u, w, {"todo"}) \/ (Only(u, w, {"at", "status"}) /\ u.at = "respond")
        BY <1>0, <3>3, WipeInsertIs, ReplyIs DEF Reply, Answered
      <4> QED
        BY <2>2, <2>4, <4>1 DEF Only
    <3>4. CASE StatementsDone(r)
      <4>1. Only(u, w, {"at", "status"}) /\ u.at = "respond"
        BY <1>0, <2>1, <3>4, StatementsDoneIs DEF Wiping
      <4> QED
        BY <2>2, <4>1 DEF Only
    <3> QED
      BY <2>1, <2>4, <3>1, <3>2, <3>3, <3>4, StepAt
  <2>5. CASE w.at \notin {"auth", "confirm", "next"}
    <3>1. w.at = "sweep"
      <4>1. w.at \notin {"load", "save", "check", "insertTenant", "lock", "dropTenant", "root", "password", "rootKey", "audit",
                         "stamped", "chain", "intent", "balance", "credit", "mark", "purse", "bet", "cashier", "find", "insert", "update",
                         "destroy", "recipient", "devices", "notify", "upsert"}
        BY <2>1, ZenonT(60) DEF IInv, LocalPart, Local, Wiping
      <4>2. w.at \in Places \ {"idle", "respond"}
        BY <1>0, <2>1, StepAt, ReadOnce
      <4> QED
        BY <2>5, <4>1, <4>2 DEF Places
    <3>2. Only(u, w, {"rows", "at", "todo"}) /\ u.at \in {"next", "sweep"}
      BY <1>0, <2>1, <3>1, WipeCourse
    <3> QED
      BY <2>2, <2>5, <3>2 DEF Only
  <2> QED
    BY <2>3, <2>4, <2>5
<1> QED
  BY <1>1, <1>2, <1>3, <1>4, Views

\* Where a wipe is when it has been let in, and confirmed or locked.
LEMMA ClearsFrom ==
  ASSUME IInv, NEW r \in Reqs, Works(r), Clears(r)'
  PROVE  \/ Clears(r)
         \/ req[r].at = "confirm" /\ Wiping(req[r]) /\ UNCHANGED Kept /\ req'[r].at = "next"
            /\ req'[r].left = IF req[r].op = "wipe" THEN {req[r].of} ELSE {t \in Tenants : TenantThere(t)}
         \/ req[r].at = "lock" /\ req[r].op = "delete" /\ req'[r].at = "next"
            /\ req'[r].todo = WipeOrder(req[r].of) \o Leftovers(req[r].of)
<1> DEFINE w == req[r]
           u == req'[r]
<1>0. TypeOK /\ HandlerActs(r) /\ u.op = w.op /\ w.at \notin {"idle", "respond"} /\ w.op \in Wipes
  BY WorksRows DEF IInv, Works, Clears
<1>1. CASE w.at = "auth"
  <2>1. OwnerAuth(r) \/ StaffAuth(r) \/ NoAuth(r)
    BY <1>0, <1>1, StepAt
  <2>2. req' = Start(r) \/ \E code \in {401, 404, 500} : req' = Answer(r, code)
    BY <1>0, <2>1, AuthIs
  <2>3. \A code \in {401, 404, 500} : req' # Answer(r, code)
    BY <1>0, ReplyIs DEF Answered, Refused, Clears
  <2>4. u.at = AuthPlace(w.op)
    BY <1>0, <2>2, <2>3, StartIs
  <2>5. u.at \in {"confirm", "lock"}
    BY <1>0, <2>4 DEF AuthPlace, Wipes
  <2> QED
    BY <2>5 DEF Clears
<1>2. CASE w.at = "confirm"
  <2>1. Confirm(r) /\ Wiping(w)
    BY <1>0, <1>2, StepAt DEF IInv, LocalPart, Local, Wiping
  <2>2. ~ Answered(u, 403)
    BY DEF Answered, Refused, Clears
  <2> QED
    BY <1>0, <1>2, <2>1, <2>2, ConfirmIs
<1>3. CASE w.at = "lock"
  <2>1. LockTenant(r) /\ w.op = "delete"
    BY <1>0, <1>3, StepAt DEF IInv, LocalPart, Local
  <2>2. ~ Answered(u, 404)
    BY DEF Answered, Refused, Clears
  <2> QED
    BY <1>0, <1>3, <2>1, <2>2, LockTenantIs
<1>4. CASE w.at \notin {"auth", "confirm", "lock"}
  BY <1>0, <1>4 DEF Clears, Refused
<1> QED
  BY <1>1, <1>2, <1>3, <1>4

\* What a wipe has deleted stays deleted.
LEMMA DeletesOn ==
  ASSUME IInv, NEW r \in Reqs, Works(r), req[r].op \in Wipes, NEW y \in menu.rows, Doomed(req[r].op, y), Deletes(r, y)
  PROVE  Deletes(r, y)'
<1> DEFINE w == req[r]
<1>0. HandlerActs(r)
  BY DEF Works
<1>1. CASE ~ Touched(y)
  BY <1>1, Untouched DEF Deletes
<1>2. CASE Touched(y)
  <2>1. Written(r, y) /\ lock'[y] = r
    BY <1>2, WorksRows
  <2>2. w.at \in {"sweep", "next", "dropTenant", "chain", "lock"}
    <3>1. w.at \notin {"save", "insertTenant", "password", "rootKey", "credit", "mark", "bet", "update", "destroy", "insert",
                       "notify", "upsert"}
      BY DEF IInv, LocalPart, Local, Wipes
    <3> QED
      BY ONLY <2>1, <3>1, Zenon DEF Written
  <2>3. w.at # "next"
    <3>1. w.at = "next" => y \in Unused(Head(w.todo).table, Head(w.todo).of)
      BY ONLY <2>1, Zenon DEF Written
    <3> QED
      BY <3>1 DEF Unused, Deletes
  <2>4. w.at # "dropTenant"
    <3>1. w.at = "dropTenant" => Exists(cur[y])
      BY ONLY <2>1, Zenon DEF Written
    <3> QED
      BY <3>1 DEF Exists, Deletes
  <2>5. w.at \notin {"chain", "lock"}
    <3>1. "audit" \notin Children \cup Settings /\ "tenant" \notin Children \cup Settings
      BY DEF Children, Wiped, Balances, Settings
    <3>2. y[1] \in Children \cup Settings
      BY DEF Doomed
    <3> QED
      BY <1>0, <1>2, <3>1, <3>2, WrittenTable
  <2>6. w.at = "sweep" => cur'[y] = Is("gone")
    BY ONLY <2>1, Zenon DEF Written
  <2> QED
    BY <2>1, <2>2, <2>3, <2>4, <2>5, <2>6 DEF Deletes, Is
<1> QED
  BY <1>1, <1>2

\* A wipe comes to the next tenant, or goes on with the one it is at.
LEMMA WaitsOn ==
  ASSUME IInv, LastPart, NEW r \in Reqs, Works(r), NEW y \in menu.rows, y[1] \in Children, Waits(r, y)
  PROVE  Waits(r, y)' \/ Pending(r, y)' \/ Refused(r)'
<1> DEFINE w == req[r]
           u == req'[r]
<1>0. /\ TypeOK /\ HandlerActs(r) /\ u.op = w.op /\ Wiping(w) /\ w.op \in Wipes /\ w.left # {}
      /\ w.at \in {"next", "sweep"} /\ y[2] \in w.left
  BY WorksRows DEF IInv, Works, Waits, Wiping, Wipes
<1>1. ASSUME u.left = w.left, u.at \in {"next", "sweep"} PROVE Waits(r, y)'
  BY <1>0, <1>1 DEF Waits, Wiping
<1>2. CASE w.at = "sweep"
  <2>1. Only(u, w, {"rows", "at", "todo"}) /\ u.at \in {"next", "sweep"}
    BY <1>0, <1>2, WipeCourse
  <2> QED
    BY <1>1, <2>1 DEF Only
<1>3. CASE w.at = "next"
  <2>1. CASE NextTenant(r)
    <3>1. PICK t \in w.left : /\ Only(u, w, {"left", "todo"}) /\ u.left = w.left \ {t}
                              /\ u.todo = WipeOrder(t) \o Reset(t)
      BY <1>0, <2>1, NextTenantIs
    <3>2. u.at = "next"
      BY <1>3, <3>1 DEF Only
    <3>3. CASE y[2] = t
      <4>1. PICK b \in Children : b = y[1]
        OBVIOUS
      <4>2. \E i \in DOMAIN u.todo : u.todo[i] = Delete(b, t)
        BY <3>1, WipeTakes
      <4> QED
        BY <3>2, <3>3, <4>1, <4>2 DEF Pending
    <3>4. CASE y[2] # t
      BY <1>0, <3>1, <3>2, <3>4 DEF Waits, Wiping
    <3> QED
      BY <3>3, <3>4
  <2>2. CASE StartDelete(r)
    <3>1. Only(u, w, {"rows", "at", "todo"}) /\ u.at \in {"next", "sweep"}
      BY <1>0, <2>2, StartCourse
    <3> QED
      BY <1>1, <3>1 DEF Only
  <2>3. CASE WipeInsert(r)
    <3>1. Only(u, w, {"todo"}) \/ Reply(r, 500)
      BY <1>0, <2>3, WipeInsertIs
    <3>2. Reply(r, 500) => Refused(r)'
      BY <1>0, ReplyIs DEF Reply, Refused, Answered
    <3> QED
      BY <1>1, <1>3, <3>1, <3>2 DEF Only
  <2>4. ~ StatementsDone(r)
    <3>1. w.n # 1
      BY <1>0 DEF LastPart
    <3> QED
      BY <1>0, <3>1, StatementsDoneIs DEF Wiping
  <2> QED
    BY <1>0, <1>3, <2>1, <2>2, <2>3, <2>4, StepAt
<1> QED
  BY <1>0, <1>2, <1>3

\* Deleting a tenant takes all tables below it, and its settings.
LEMMA DeletionTakes ==
  ASSUME NEW t, NEW b \in Children \cup Settings
  PROVE  \E i \in DOMAIN (WipeOrder(t) \o Leftovers(t)) : (WipeOrder(t) \o Leftovers(t))[i] = Delete(b, t)
<1>1. CASE b \in Children
  <2>1. PICK c \in Children : c = b
    BY <1>1
  <2> QED
    BY <2>1, AllChildren
<1>2. CASE b \in Settings
  <2>1. PICK c \in Settings : c = b
    BY <1>2
  <2> QED
    BY <2>1, DeleteTakes
<1> QED
  BY <1>1, <1>2

LEMMA TakenWorks ==
  ASSUME IInv, ArrivalPart, TenantsWhole, LastPart, TakenPart, NEW r \in Reqs, Works(r), Clears(r)',
         NEW y \in req[r].began, Doomed(req[r].op, y)
  PROVE  Deletes(r, y)' \/ Pending(r, y)' \/ Away(r, y)' \/ Waits(r, y)'
<1> DEFINE w == req[r]
           u == req'[r]
<1>0. /\ TypeOK /\ HandlerActs(r) /\ db' = db /\ menu' = menu /\ u.op = w.op /\ u.of = w.of /\ u.moved = w.moved
      /\ w.at # "idle" /\ w.op \in Wipes /\ ~ Refused(r)'
  BY WorksKeep DEF IInv, Works, Clears
<1>1. y \in menu.rows /\ Cares(w.op, w.of, y)
  BY <1>0 DEF ArrivalPart, SinceArrival
<1>2. Away(r, y) => Away(r, y)'
  BY <1>0 DEF Away
<1>3. ~ Exists(db[y]) => Away(r, y)
  BY <1>0, LeftAway
<1>4. CASE Clears(r)
  <2>1. Deletes(r, y) \/ Pending(r, y) \/ Away(r, y) \/ Waits(r, y)
    BY <1>4 DEF TakenPart
  <2>2. CASE Deletes(r, y)
    BY <1>0, <1>1, <2>2, DeletesOn
  <2>3. CASE Pending(r, y)
    <3>1. w.at \in {"next", "sweep"}
      BY <2>3 DEF Pending
    <3> QED
      BY <1>0, <1>1, <1>2, <1>3, <2>3, <3>1, ListOn
  <2>4. CASE Waits(r, y)
    <3>1. y[1] \in Children
      BY <2>4 DEF Doomed, Waits, Wiping
    <3> QED
      BY <1>0, <1>1, <2>4, <3>1, WaitsOn
  <2> QED
    BY <1>2, <2>1, <2>2, <2>3, <2>4
<1>5. CASE /\ w.at = "confirm" /\ Wiping(w) /\ u.at = "next"
           /\ u.left = IF w.op = "wipe" THEN {w.of} ELSE {t \in Tenants : TenantThere(t)}
  <2>1. y[1] \in Children
    BY <1>5 DEF Doomed, Wiping
  <2>2. y[2] \in Tenants /\ One("tenant", y[2]) \in menu.rows
    <3>1. "settings" \notin Children
      BY DEF Children, Wiped, Balances
    <3> QED
      BY <1>1, <2>1, <3>1, OwnTenant
  <2>3. CASE w.op = "wipe"
    <3>1. y[2] = w.of
      BY <1>1, <2>3 DEF Cares
    <3> QED
      BY <1>0, <1>5, <2>3, <3>1 DEF Waits, Wiping
  <2>4. CASE w.op # "wipe" /\ TenantThere(y[2])
    BY <1>0, <1>5, <2>2, <2>4 DEF Waits, Wiping
  <2>5. CASE ~ TenantThere(y[2])
    <3>1. y \in Below(y[2])
      BY <1>1, <2>1 DEF Below
    <3>2. ~ Exists(db[y])
      BY <2>2, <2>5, <3>1 DEF TenantsWhole
    <3> QED
      BY <1>2, <1>3, <3>2
  <2> QED
    BY <2>3, <2>4, <2>5
<1>6. CASE w.at = "lock" /\ w.op = "delete" /\ u.at = "next" /\ u.todo = WipeOrder(w.of) \o Leftovers(w.of)
  <2>1. y[2] = w.of /\ y[1] \in Children \cup Settings
    BY <1>1, <1>6 DEF Cares, Doomed
  <2>2. \E i \in DOMAIN u.todo : u.todo[i] = Delete(y[1], y[2])
    <3>1. \E i \in DOMAIN (WipeOrder(w.of) \o Leftovers(w.of)) :
            (WipeOrder(w.of) \o Leftovers(w.of))[i] = Delete(y[1], w.of)
      BY <2>1, DeletionTakes
    <3> QED
      BY ONLY <1>6, <2>1, <3>1, Zenon
  <2> QED
    BY <1>6, <2>2 DEF Pending
<1> QED
  BY <1>0, <1>4, <1>5, <1>6, ClearsFrom

LEMMA TakenStep ==
  ASSUME IInv, [Next]_vars, ArrivalPart, TenantsWhole, LastPart, TakenPart
  PROVE  TakenPart'
<1> SUFFICES ASSUME NEW r \in Reqs, Clears(r)', NEW y \in req'[r].began, Doomed(req'[r].op, y)
             PROVE  Deletes(r, y)' \/ Pending(r, y)' \/ Away(r, y)' \/ Waits(r, y)'
  BY DEF TakenPart
<1>1. CASE Stays(r)
  <2>1. Alike(req'[r], req[r]) /\ req[r].moved \subseteq req'[r].moved
    BY <1>1 DEF Stays
  <2>2. Clears(r) /\ y \in req[r].began /\ Doomed(req[r].op, y)
    BY <2>1 DEF Alike, Clears, Refused
  <2>3. Deletes(r, y) \/ Pending(r, y) \/ Away(r, y) \/ Waits(r, y)
    BY <2>2 DEF TakenPart
  <2>4. y \in menu.rows
    BY <2>2 DEF ArrivalPart, SinceArrival, Clears
  <2>5. Deletes(r, y) => Deletes(r, y)'
    BY <1>1, <2>4 DEF Stays, Deletes
  <2>6. Pending(r, y) => Pending(r, y)'
    BY <2>1 DEF Alike, Pending
  <2>7. Waits(r, y) => Waits(r, y)'
    BY <2>1 DEF Alike, Waits, Wiping
  <2>8. Away(r, y) => Away(r, y)'
    <3>1. y[1] \in FreshId /\ db[y].st = "gone" => cur[y].st = "gone"
      BY <2>4 DEF IInv, RowsPart
    <3>2. db'[y] = db[y] \/ db'[y] = cur[y]
      BY <1>1, <2>4 DEF Stays
    <3> QED
      BY <2>1, <3>1, <3>2 DEF Away
  <2> QED
    BY <2>3, <2>5, <2>6, <2>7, <2>8
<1>2. CASE Arrives(r)
  BY <1>2 DEF Arrives, Clears
<1>3. CASE Over(r)
  BY <1>3, OverKeeps DEF Clears
<1>4. CASE Works(r)
  <2>1. req'[r].op = req[r].op /\ req'[r].began = req[r].began
    BY <1>4, WorksKeep
  <2> QED
    BY <1>4, <2>1, TakenWorks
<1> QED
  BY <1>1, <1>2, <1>3, <1>4, Views

\* What is answered is done.
LEMMA WipeDone ==
  ASSUME IInv, ArrivalPart, GripPart, OwnersPart, TakenPart
  PROVE  WipesComplete
<1> SUFFICES ASSUME NEW r \in Reqs, req[r].at = "respond", req[r].status = 200, req[r].op \in Wipes,
                    NEW y \in req[r].began,
                    y[1] \in Children \cup (IF req[r].op = "delete" THEN Settings \cup {"tenant"} ELSE {})
             PROVE  cur[y].st = "gone" \/ (y[1] \notin FreshId /\ y \in req[r].moved)
  BY DEF WipesComplete, At
<1>1. y \in menu.rows /\ Cares(req[r].op, req[r].of, y)
  BY DEF ArrivalPart, SinceArrival
<1>2. ~ Refused(r)
  BY DEF Refused
<1>3. CASE Doomed(req[r].op, y)
  <2>1. Deletes(r, y) \/ Away(r, y)
    BY <1>2, <1>3 DEF TakenPart, Clears, Pending, Waits
  <2>2. y[1] \in FreshId /\ db[y].st = "gone" => cur[y].st = "gone"
    BY <1>1 DEF IInv, RowsPart
  <2> QED
    BY <2>1, <2>2 DEF Deletes, Away
<1>4. CASE ~ Doomed(req[r].op, y)
  <2>1. y[1] = "tenant" /\ req[r].op = "delete"
    BY <1>4 DEF Doomed
  <2>2. y = One("tenant", req[r].of)
    <3>1. y[2] = req[r].of
      BY <1>1, <2>1 DEF Cares
    <3> QED
      BY <1>1, <2>1, <3>1, OneTenant
  <2>3. lock[y] = r
    BY <1>2, <2>1, <2>2 DEF GripPart
  <2>4. req[r].of \in Tenants
    BY <2>1, TenantOf
  <2>5. Drops(r, req[r].of)
    BY <1>1, <2>1, <2>2, <2>3, <2>4 DEF OwnersPart, Creates
  <2> QED
    BY <2>2, <2>5 DEF Drops, Dropped, Deletes
<1> QED
  BY <1>3, <1>4

LEMMA WipesInitially == Init => GonePart /\ LastPart /\ TakenPart
<1> SUFFICES ASSUME Init PROVE GonePart /\ LastPart /\ TakenPart
  OBVIOUS
<1>1. \A r \in Reqs : req[r].at = "idle"
  BY DEF Init, NoWork
<1> QED
  BY <1>1 DEF GonePart, LastPart, TakenPart, Clears

LEMMA Arrivals == Spec => []ArrivalPart
<1>1. HeldPart => ArrivalPart
  BY DEF HeldPart
<1> QED
  BY <1>1, HeldRows, PTL

\* A settings row, a closure, an audit record or any other row of a tenant is added only by
\* a request that found the tenant, or its staff member, there (adminShifts.js:208,
\* staffAuth.js:92): one that arrives after the tenant is gone is turned away.
THEOREM GoneStayGone == Spec => GoneTenantsStayGone
<1>1. (IInv /\ ArrivalPart /\ WholePart /\ GonePart) /\ [Next]_vars => GonePart'
  BY GoneStep DEF WholePart
<1>2. (IInv /\ ArrivalPart /\ WholePart /\ GonePart) /\ [Next]_vars =>
        [\A r \in Reqs, y \in menu.rows :
           Makes(r, y) /\ y[2] \in Tenants /\ req[r].op \notin {"create", "wipeAll"} =>
             One("tenant", y[2]) \in req[r].began \cup req[r].moved]_db
  BY GoneKept DEF WholePart
<1>3. Init => GonePart
  BY WipesInitially
<1> QED
  BY <1>1, <1>2, <1>3, Arrivals, Wholeness, PTL DEF Spec, GoneTenantsStayGone

\* A wipe answered 200 (wipeService.js:55-112, ownerTenants.js:1755-1802) has deleted every
\* row it is about that was there when it arrived, however long it waited for others; only
\* a staff key may be back, stored again meanwhile (staffMessages.js:28).
THEOREM WipesTakeAll == Spec => []WipesComplete
<1>1. (IInv /\ ArrivalPart /\ WholePart /\ LastPart /\ TakenPart) /\ [Next]_vars => LastPart' /\ TakenPart'
  BY LastStep, TakenStep DEF WholePart
<1>2. IInv /\ ArrivalPart /\ WholePart /\ TakenPart => WipesComplete
  BY WipeDone DEF WholePart
<1>3. Init => LastPart /\ TakenPart
  BY WipesInitially
<1> QED
  BY <1>1, <1>2, <1>3, Arrivals, Wholeness, PTL DEF Spec

-----------------------------------------------------------------------------
(* Doubles *)

\* Tables of which a tenant should have one row, by no index.
Doubled == {"closure", "device", "wallet", "pool"}
\* Row y as request r would leave it.
After(r, y) == IF lock[y] = r THEN cur[y] ELSE db[y]
\* One of the rows has changed while r ran.
Shared(r, b, s) == Of(b, s) \cap req[r].moved # {}
Empty(r, b, s) == \A z \in Of(b, s) : ~ Exists(After(r, z))
Emptied(r, b, s) == \A z \in Of(b, s) : Exists(After(r, z)) => Pending(r, z)
Alone(r, y) == \A z \in Of(y[1], y[2]) \ {y} : ~ Exists(After(r, z))
\* No statement about a table comes after the INSERT into it.
LastInsert(todo) ==
  \A i \in DOMAIN todo, j \in DOMAIN todo :
    todo[i].sql = "INSERT" /\ todo[j].table = todo[i].table /\ todo[j].of = todo[i].of => j <= i

\* Who is about to insert has found nothing, and what it found to update is still there.
Looked(r) ==
  LET w == req[r] IN
  /\ w.at = "insert" /\ TableOf(w.op) \in Doubled =>
       Empty(r, TableOf(w.op), w.of) \/ Shared(r, TableOf(w.op), w.of)
  /\ w.at = "update" /\ w.op = "credits" => Exists(db[w.row]) \/ w.row \in w.moved
LookPart == \A r \in Reqs : Looked(r)
\* A wipe that has an INSERT to run has deleted what there was, or will have.
ListPart ==
  \A r \in Reqs : req[r].at \in {"next", "sweep"} /\ Wiping(req[r]) =>
    LET todo == req[r].todo IN
    /\ LastInsert(todo)
    /\ \A i \in DOMAIN todo : todo[i].sql = "INSERT" =>
         Emptied(r, todo[i].table, todo[i].of) \/ Shared(r, todo[i].table, todo[i].of)
\* A new row is the only one.
NewPart ==
  \A r \in Reqs, y \in menu.rows : y[1] \in Doubled /\ Made(r, y) =>
    IF req[r].op = "create" THEN y[3] = 1
    ELSE Cares(req[r].op, req[r].of, y) /\ (Alone(r, y) \/ Shared(r, y[1], y[2]))
SolePart == LookPart /\ ListPart /\ NewPart

LEMMA CaresAlike ==
  ASSUME NEW op, NEW s, NEW y, Cares(op, s, y), NEW z, z[1] = y[1], z[2] = y[2]
  PROVE  Cares(op, s, z)
BY DEF Cares, Matters

\* Requests that look at a table follow it.
LEMMA CaresLook ==
  ASSUME NEW op \in {"close", "register", "credits"}, NEW y, y[1] = TableOf(op)
  PROVE  Cares(op, y[2], y)
BY DEF Cares, Matters, TableOf, Wipes

LEMMA CaresWipe ==
  ASSUME NEW op \in {"wipe", "wipeAll"}, NEW s, NEW y, y[1] \in Children, op = "wipeAll" \/ y[2] = s
  PROVE  Cares(op, s, y)
BY DEF Cares, Matters, Wipes

LEMMA LookTables ==
  ASSUME NEW op \in {"close", "credits", "register", "send", "read"}, TableOf(op) \in Doubled
  PROVE  op \in {"close", "register", "credits"}
BY DEF TableOf, Doubled

LEMMA AfterStays ==
  ASSUME NEW r \in Reqs, Stays(r), req[r].at # "idle", NEW z \in menu.rows, Cares(req[r].op, req[r].of, z)
  PROVE  After(r, z)' = After(r, z) \/ z \in req'[r].moved
<1>1. CASE lock[z] = r
  BY <1>1 DEF Stays, After
<1>2. CASE lock[z] # r
  BY <1>2 DEF Stays, After
<1> QED
  BY <1>1, <1>2

LEMMA SharedStays ==
  ASSUME NEW r, menu' = menu, req[r].moved \subseteq req'[r].moved, NEW b, NEW s, Shared(r, b, s)
  PROVE  Shared(r, b, s)'
BY DEF Shared, Of

LEMMA OthersLeave ==
  ASSUME NEW r \in Reqs, Stays(r), req[r].at # "idle", NEW b, NEW s,
         \A z \in Of(b, s) : Cares(req[r].op, req[r].of, z)
  PROVE  Shared(r, b, s)' \/ \A z \in Of(b, s) : After(r, z)' = After(r, z)
<1> SUFFICES ASSUME NEW z \in Of(b, s), After(r, z)' # After(r, z) PROVE Shared(r, b, s)'
  OBVIOUS
<1>1. z \in menu.rows
  BY DEF Of
<1>2. z \in req'[r].moved /\ menu' = menu
  BY <1>1, AfterStays DEF Stays
<1> QED
  BY <1>2 DEF Shared, Of

\* Where an INSERT or an UPDATE of a row that was looked for comes from.
LEMMA LookFrom ==
  ASSUME IInv, NEW r \in Reqs, HandlerActs(r), req'[r].at \in {"insert", "update"}
  PROVE  \/ req[r].at = "find"
         \/ req'[r].at = "insert" /\ req[r].at \in {"update", "recipient"}
<1> DEFINE w == req[r]
           u == req'[r]
<1>0. TypeOK
  BY DEF IInv
<1>1. w.at \notin {"save", "check", "insertTenant", "dropTenant", "root", "password", "rootKey", "audit", "stamped",
                   "chain", "intent", "balance", "credit", "mark", "purse", "bet", "destroy", "upsert", "cashier", "insert",
                   "devices", "notify"}
  BY <1>0, Course, SMT DEF Answered
<1>2. w.at \in {"update", "recipient"} => u.at # "update"
  BY <1>0, Course, SMT
<1>3. w.at \notin {"confirm", "lock", "sweep", "next"}
  BY <1>0, WipeCourse, SMT
<1>4. w.at # "load"
  <2> SUFFICES ASSUME w.at = "load" PROVE FALSE
    OBVIOUS
  <2>1. Load(r)
    BY StepAt
  <2>2. req' = Answer(r, 400) \/ u.at = "save"
    BY <1>0, <2>1, LoadIs, Zenon DEF Reply
  <2> QED
    BY <1>0, <2>2, ReplyIs DEF Answered
<1>5. w.at # "auth"
  <2> SUFFICES ASSUME w.at = "auth" PROVE FALSE
    OBVIOUS
  <2>1. OwnerAuth(r) \/ StaffAuth(r) \/ NoAuth(r)
    BY StepAt
  <2>2. req' = Start(r) \/ \E code : req' = Answer(r, code)
    BY <1>0, <2>1, AuthIs
  <2>3. AuthPlace(w.op) \notin {"insert", "update"}
    BY DEF AuthPlace
  <2> QED
    BY <1>0, <2>2, <2>3, StartIs, ReplyIs DEF Answered
<1>6. w.at \in Places \ {"idle", "respond"}
  BY <1>0, StepAt, ReadOnce
<1> QED
  BY <1>1, <1>2, <1>3, <1>4, <1>5, <1>6 DEF Places

LEMMA LookWorks ==
  ASSUME IInv, HandsPart, HandsPart', LookPart, NEW r \in Reqs, Works(r)
  PROVE  Looked(r)'
<1> DEFINE w == req[r]
           u == req'[r]
<1>a. PICK b : b = TableOf(w.op)
  OBVIOUS
<1>b. PICK s : s = w.of
  OBVIOUS
<1>0. /\ TypeOK /\ Local(w) /\ HandlerActs(r) /\ db' = db /\ menu' = menu /\ u.op = w.op /\ u.of = w.of
      /\ u.moved = w.moved
  BY WorksKeep DEF IInv, LocalPart, Works
<1>1. w.at \in Early => \A y \in menu.rows : lock[y] # r
  BY DEF HandsPart
<1>2. u.at = "insert" => \A y \in menu.rows : lock'[y] # r
  BY <1>0 DEF HandsPart, Early
<1>3. ASSUME Present(b, s) = {}, u.at = "insert" PROVE Empty(r, b, s)'
  <2> SUFFICES ASSUME NEW z \in Of(b, s)' PROVE ~ Exists(After(r, z))'
    BY DEF Empty
  <2>1. z \in Of(b, s) /\ z \in menu.rows
    BY <1>0 DEF Of
  <2>2. ~ Exists(db[z])
    BY <1>3, <2>1 DEF Present
  <2> QED
    BY <1>0, <1>2, <1>3, <2>1, <2>2 DEF After, Exists
<1>s. SUFFICES /\ u.at = "insert" /\ b \in Doubled => Empty(r, b, s)' \/ Shared(r, b, s)'
               /\ u.at = "update" /\ w.op = "credits" => Exists(db'[u.row]) \/ u.row \in u.moved
  BY <1>0, <1>a, <1>b DEF Looked
<1>4. CASE w.at = "find"
  <2>1. Find(r)
    BY <1>0, <1>4, StepAt
  <2>2. \/ Present(b, s) = {}
        \/ \E y \in Present(b, s), place \in {"destroy", "update"} :
             req' = [req EXCEPT ![r].row = y, ![r].at = place]
        \/ req' = Answer(r, 403)
    BY <1>a, <1>b, <2>1, Zenon DEF Find
  <2>3. ASSUME Present(b, s) = {} PROVE u.at # "update"
    <3>1. \E code : req' = Goto(r, "insert") \/ req' = Answer(r, code)
      BY <1>a, <1>b, <2>1, <2>3, ZenonT(60) DEF Find
    <3> QED
      BY <1>0, <3>1, GoIs, ReplyIs DEF Answered
  <2>4. ASSUME NEW y \in Present(b, s), NEW place \in {"destroy", "update"},
               req' = [req EXCEPT ![r].row = y, ![r].at = place]
        PROVE  u.at = place /\ u.row = y
    <3>1. req \in [Reqs -> Records(Type)] /\ r \in Reqs
      BY <1>0, Fielded
    <3> QED
      BY ONLY <3>1, <2>4, SMT DEF Records
  <2>5. req' = Answer(r, 403) => u.at = "respond"
    BY <1>0, ReplyIs DEF Answered
  <2>6. \A y \in Present(b, s) : Exists(db'[y])
    BY <1>0 DEF Present
  <2>7. CASE Present(b, s) = {}
    BY <1>3, <2>3, <2>7
  <2>8. ASSUME NEW y \in Present(b, s), NEW place \in {"destroy", "update"},
               req' = [req EXCEPT ![r].row = y, ![r].at = place]
        PROVE  u.at # "insert" /\ Exists(db'[u.row])
    <3>1. u.at = place /\ u.row = y
      BY <2>4, <2>8
    <3> QED
      BY <2>6, <3>1
  <2> QED
    BY <2>2, <2>5, <2>7, <2>8
<1>5. CASE w.at = "update" /\ u.at = "insert"
  <2>1. SaveFound(r) \/ LockWallet(r)
    BY <1>0, <1>5, StepAt
  <2>2. ~ SaveFound(r)
    <3>1. SaveFound(r) => req' = Answer(r, 200)
      BY Zenon DEF SaveFound
    <3> QED
      BY <1>0, <1>5, <3>1, ReplyIs DEF Answered
  <2>3. w.op = "credits" /\ Mine(r, w.row)
    BY <2>1, <2>2, Zenon DEF LockWallet
  <2>4. ~ Exists(cur[w.row])
    <3>1. Exists(cur[w.row]) => req' = Goto(r, "audit")
      BY <2>1, <2>2, Zenon DEF LockWallet
    <3> QED
      BY <1>0, <1>5, <3>1, GoIs
  <2>5. w.row \in Of(b, s) /\ w.row \in menu.rows
    BY <1>0, <1>5, <1>a, <1>b DEF Local, Of
  <2>6. lock[w.row] = NoReq
    BY <1>1, <1>5, <2>3, <2>5 DEF Mine, Early
  <2>7. cur[w.row] = db[w.row]
    BY <2>5, <2>6 DEF IInv, RowsPart
  <2>8. w.row \in w.moved
    BY <1>5, <2>3, <2>4, <2>7 DEF LookPart, Looked
  <2> QED
    BY <1>0, <1>5, <2>5, <2>8 DEF Shared, Of
<1>6. CASE w.at = "recipient"
  <2>1. w.op = "send"
    BY <1>0, <1>6 DEF Local
  <2>2. TableOf("send") \notin Doubled
    BY DEF TableOf, Doubled
  <2>3. u.at # "update"
    BY <1>0, <1>6, LookFrom
  <2> QED
    BY <1>a, <2>1, <2>2, <2>3
<1> QED
  BY <1>0, <1>4, <1>5, <1>6, LookFrom

LEMMA LookStep == ASSUME IInv, [Next]_vars, HandsPart, LookPart PROVE LookPart'
<1> SUFFICES ASSUME NEW r \in Reqs PROVE Looked(r)'
  BY DEF LookPart
<1> DEFINE w == req[r]
           u == req'[r]
<1>0. Local(w)
  BY DEF IInv, LocalPart
<1>1. CASE Stays(r)
  <2>1. Alike(u, w) /\ w.moved \subseteq u.moved /\ menu' = menu
    BY <1>1 DEF Stays
  <2>2. ASSUME u.at = "insert", NEW b \in Doubled, b = TableOf(u.op), NEW s, s = u.of
        PROVE  Empty(r, b, s)' \/ Shared(r, b, s)'
    <3>1. w.at = "insert" /\ u.op = w.op /\ w.of = s /\ TableOf(w.op) = b
      BY <2>1, <2>2 DEF Alike
    <3>2. w.op \in {"close", "register", "credits"}
      BY <1>0, <3>1, LookTables DEF Local
    <3>3. \A z \in Of(b, s) : Cares(w.op, w.of, z)
      BY <3>1, <3>2, CaresLook DEF Of
    <3>4. Shared(r, b, s)' \/ \A z \in Of(b, s) : After(r, z)' = After(r, z)
      BY <1>1, <3>1, <3>3, OthersLeave
    <3>5. Empty(r, b, s) \/ Shared(r, b, s)
      BY <3>1 DEF LookPart, Looked
    <3>6. Shared(r, b, s) => Shared(r, b, s)'
      BY <2>1, SharedStays
    <3>7. Empty(r, b, s) /\ (\A z \in Of(b, s) : After(r, z)' = After(r, z)) => Empty(r, b, s)'
      BY <2>1 DEF Empty, Of, Exists
    <3> QED
      BY <3>4, <3>5, <3>6, <3>7
  <2>3. ASSUME u.at = "update", u.op = "credits" PROVE Exists(db'[u.row]) \/ u.row \in u.moved
    <3>1. w.at = "update" /\ w.op = "credits" /\ u.row = w.row /\ w.of = u.of
      BY <2>1, <2>3 DEF Alike
    <3>2. w.row \in Of("wallet", w.of) /\ w.row \in menu.rows
      BY <1>0, <3>1 DEF Local, TableOf, Of
    <3>3. Cares(w.op, w.of, w.row)
      BY <3>1, <3>2 DEF Cares, Matters, Wipes, Of
    <3>4. db'[w.row] = db[w.row] \/ w.row \in u.moved
      BY <1>1, <3>1, <3>2, <3>3 DEF Stays
    <3> QED
      BY <2>1, <3>1, <3>4 DEF LookPart, Looked
  <2> QED
    BY <2>2, <2>3 DEF Looked
<1>2. CASE Arrives(r)
  BY <1>2 DEF Arrives, Looked
<1>3. CASE Over(r)
  <2>1. u.at = "idle" \/ u.at = "respond"
    BY <1>3, OverKeeps
  <2> QED
    BY <2>1 DEF Looked
<1>4. CASE Works(r)
  <2>1. HandsPart'
    BY HandsStep
  <2> QED
    BY <1>4, <2>1, LookWorks
<1> QED
  BY <1>1, <1>2, <1>3, <1>4, Views

\* The lists of a wipe.
LEMMA WipeLast ==
  ASSUME NEW t
  PROVE  LET z == WipeOrder(t) \o Reset(t) IN
         /\ LastInsert(z)
         /\ \A i \in DOMAIN z : z[i].sql = "INSERT" =>
              z[i].of = t /\ \E j \in DOMAIN z : z[j] = Delete(z[i].table, t)
<1> DEFINE s == WipeOrder(t)
           u == Reset(t)
           D(c) == Delete(c, t)
           C(c) == Create(c, t)
           z == s \o u
<1>1. /\ s = <<D("message"), D("key"), D("device"), D("payment"), D("intent"), D("withdrawal"), D("purse"), D("staff")>>
      /\ u = <<D("wallet"), D("pool"), C("wallet"), C("pool")>>
  BY DEF WipeOrder, Reset
<1>2. \A b : /\ D(b).table = b /\ D(b).of = t /\ D(b).sql = "DELETE" /\ D(b) = Delete(b, t)
             /\ C(b).table = b /\ C(b).of = t /\ C(b).sql = "INSERT"
  BY FieldsOf
<1> HIDE DEF s, u, D, C
<1>3. /\ DOMAIN z = 1..12
      /\ z[1] = D("message") /\ z[2] = D("key") /\ z[3] = D("device") /\ z[4] = D("payment") /\ z[5] = D("intent")
      /\ z[6] = D("withdrawal") /\ z[7] = D("purse") /\ z[8] = D("staff") /\ z[9] = D("wallet") /\ z[10] = D("pool")
      /\ z[11] = C("wallet") /\ z[12] = C("pool")
  BY ONLY <1>1, SMT
<1> HIDE DEF z
<1>4. \A i \in 1..12 : i \in {1, 2, 3, 4, 5, 6, 7, 8, 9, 10, 11, 12}
  OBVIOUS
<1>5. /\ \A i \in 1..12 : z[i].sql = "INSERT" => i \in {11, 12}
      /\ z[11].table = "wallet" /\ z[11].of = t /\ z[12].table = "pool" /\ z[12].of = t
  <2>1. (\A c : D(c).sql = "DELETE") /\ (\A c : C(c).table = c /\ C(c).of = t)
    BY ONLY <1>2, Zenon
  <2>2. /\ z[1].sql = "DELETE" /\ z[2].sql = "DELETE" /\ z[3].sql = "DELETE" /\ z[4].sql = "DELETE" /\ z[5].sql = "DELETE"
    BY ONLY <1>3, <2>1, Zenon
  <2>3. /\ z[6].sql = "DELETE" /\ z[7].sql = "DELETE" /\ z[8].sql = "DELETE" /\ z[9].sql = "DELETE" /\ z[10].sql = "DELETE"
    BY ONLY <1>3, <2>1, Zenon
  <2>4. z[11].table = "wallet" /\ z[11].of = t /\ z[12].table = "pool" /\ z[12].of = t
    BY ONLY <1>3, <2>1, Zenon
  <2> QED
    BY ONLY <1>4, <2>2, <2>3, <2>4, SMT
<1>6. LastInsert(z)
  <2> SUFFICES ASSUME NEW i \in {11, 12}, NEW j \in 1..12, z[j].table = z[i].table PROVE j <= i
    BY <1>3, <1>5 DEF LastInsert
  <2> QED
    BY <1>5
<1>7. \A i \in 1..12 : z[i].sql = "INSERT" => z[i].of = t /\ \E j \in 1..12 : z[j] = Delete(z[i].table, t)
  <2>1. z[9] = Delete("wallet", t) /\ z[10] = Delete("pool", t) /\ 9 \in 1..12 /\ 10 \in 1..12
    BY <1>2, <1>3
  <2> QED
    BY <1>5, <2>1
<1> QED
  BY <1>3, <1>6, <1>7 DEF z, s, u

LEMMA TailLast ==
  ASSUME NEW S, NEW s \in Seq(S), s # << >>, LastInsert(s)
  PROVE  LastInsert(Tail(s))
<1> SUFFICES ASSUME NEW i \in DOMAIN Tail(s), NEW j \in DOMAIN Tail(s), Tail(s)[i].sql = "INSERT",
                    Tail(s)[j].table = Tail(s)[i].table, Tail(s)[j].of = Tail(s)[i].of
             PROVE  j <= i
  BY DEF LastInsert
<1>1. /\ i + 1 \in DOMAIN s /\ Tail(s)[i] = s[i + 1] /\ i \in Nat
      /\ j + 1 \in DOMAIN s /\ Tail(s)[j] = s[j + 1] /\ j \in Nat
  BY TailIs
<1>2. j + 1 <= i + 1
  BY <1>1 DEF LastInsert
<1> QED
  BY <1>1, <1>2

\* A statement that is not the first of a list that goes on.
LEMMA ListCourse ==
  ASSUME IInv, ReplacedPart, NEW r \in Reqs, HandlerActs(r), req[r].at \in {"next", "sweep"},
         req'[r].at \in {"next", "sweep"}, Wiping(req[r])
  PROVE  \/ /\ req[r].at = "next" /\ NextTenant(r)
         \/ /\ req[r].todo # << >>
            /\ \/ req'[r].todo = Tail(req[r].todo)
               \/ req'[r].todo = req[r].todo /\ req[r].todo[1].sql = "DELETE"
<1> DEFINE w == req[r]
           u == req'[r]
<1>0. TypeOK /\ w.todo \in Seq(Statement) /\ w.op \in Wipes
  BY BetweenStatements DEF IInv, Wiping, Wipes
<1>1. CASE w.at = "sweep"
  <2>1. w.todo # << >> /\ w.todo[1].sql = "DELETE"
    BY <1>1 DEF IInv, LocalPart, Local, ReplacedPart
  <2>2. (u.at = "next" /\ u.todo = Tail(w.todo)) \/ (u.at = "sweep" /\ u.todo = w.todo)
    BY <1>0, <1>1, SweepCourse
  <2> QED
    BY <2>1, <2>2
<1>2. CASE w.at = "next"
  <2>1. CASE NextTenant(r)
    BY <1>2, <2>1
  <2>2. CASE StartDelete(r)
    BY <1>0, <2>2, StartCourse
  <2>3. CASE WipeInsert(r)
    BY <1>0, <2>3, WipeInsertIs, ReplyIs DEF Reply, Answered
  <2>4. CASE StatementsDone(r)
    BY <1>0, <2>4, StatementsDoneIs
  <2> QED
    BY <1>2, <2>1, <2>2, <2>3, <2>4, StepAt
<1> QED
  BY <1>1, <1>2

\* A row that the wipe has not come to yet is still on the list, once it is there.
LEMMA EmptiedOn ==
  ASSUME IInv, NEW r \in Reqs, Works(r), req[r].at \in {"next", "sweep"}, req'[r].at \in {"next", "sweep"}, Wiping(req[r]),
         NEW b, NEW s, Emptied(r, b, s),
         ~ (req[r].at = "next" /\ req[r].todo # << >> /\ req[r].todo[1].table = b /\ req[r].todo[1].of = s)
           \/ req[r].todo[1].sql = "DELETE"
  PROVE  Emptied(r, b, s)'
<1> DEFINE w == req[r]
           u == req'[r]
<1>0. TypeOK /\ HandlerActs(r) /\ w.op \in Wipes /\ db' = db /\ menu' = menu
  BY WorksKeep DEF IInv, Works, Wiping, Wipes
<1> SUFFICES ASSUME NEW z \in Of(b, s), Exists(After(r, z))' PROVE Pending(r, z)'
  BY <1>0 DEF Emptied, Of
<1>1. z \in menu.rows /\ z[1] = b /\ z[2] = s
  BY DEF Of
<1>2. CASE ~ Touched(z)
  <2>1. cur'[z] = cur[z] /\ lock'[z] = lock[z]
    BY <1>1, <1>2, Untouched
  <2>2. Exists(After(r, z))
    BY <1>0, <2>1 DEF After, Exists
  <2>3. Pending(r, z)
    BY <2>2 DEF Emptied
  <2>4. Exists(db[z]) \/ (lock[z] = r /\ Exists(cur[z]))
    BY <2>2 DEF After
  <2>5. Pending(r, z)' \/ Deletes(r, z)' \/ Refused(r)'
    BY <1>0, <1>1, <2>3, <2>4, ListOn
  <2>6. ~ Deletes(r, z)'
    BY DEF Deletes, After, Exists
  <2> QED
    BY <2>5, <2>6 DEF Refused
<1>3. CASE Touched(z)
  <2>1. Written(r, z) /\ lock'[z] = r
    BY <1>1, <1>3, WorksRows
  <2>2. Exists(cur'[z])
    BY <2>1 DEF After
  <2>3. w.at # "sweep"
    <3>1. w.at = "sweep" => cur'[z] = Is("gone")
      BY <2>1 DEF Written
    <3> QED
      BY <2>2, <3>1 DEF Is, Exists
  <2>4. w.at = "next"
    BY <2>3
  <2>5. w.todo # << >> /\ Head(w.todo).sql = "INSERT" /\ z \in Unused(Head(w.todo).table, Head(w.todo).of)
    BY <2>1, <2>4 DEF Written
  <2>6. Head(w.todo) = w.todo[1]
    BY <2>4, <2>5, BetweenStatements, HeadIs
  <2>7. w.todo[1].table = b /\ w.todo[1].of = s
    BY <1>1, <2>5, <2>6 DEF Unused, Of
  <2> QED
    BY <2>4, <2>5, <2>6, <2>7
<1> QED
  BY <1>2, <1>3

Listed(r) ==
  /\ LastInsert(req[r].todo)
  /\ \A i \in DOMAIN req[r].todo : req[r].todo[i].sql = "INSERT" =>
       Emptied(r, req[r].todo[i].table, req[r].todo[i].of) \/ Shared(r, req[r].todo[i].table, req[r].todo[i].of)

\* A list that goes on.
LEMMA ListWorks ==
  ASSUME IInv, ReplacedPart, NEW r \in Reqs, Works(r), req[r].at \in {"next", "sweep"}, req'[r].at \in {"next", "sweep"},
         Wiping(req[r]), Listed(r), req[r].todo # << >>,
         \/ req'[r].todo = Tail(req[r].todo)
         \/ req'[r].todo = req[r].todo /\ req[r].todo[1].sql = "DELETE"
  PROVE  Listed(r)'
<1> DEFINE w == req[r]
           u == req'[r]
<1>0. w.todo \in Seq(Statement) /\ menu' = menu /\ u.moved = w.moved
  BY BetweenStatements, WorksKeep
<1>1. LastInsert(u.todo)
  BY <1>0, TailLast DEF Listed
<1>2. ASSUME NEW k \in DOMAIN u.todo, u.todo[k].sql = "INSERT",
             NEW b, NEW s, b = u.todo[k].table, s = u.todo[k].of
      PROVE  Emptied(r, b, s)' \/ Shared(r, b, s)'
  <2>1. \E i \in DOMAIN w.todo : w.todo[i] = u.todo[k] /\ i # 1
    <3>1. CASE u.todo = w.todo /\ w.todo[1].sql = "DELETE"
      BY <1>2, <3>1
    <3>2. CASE u.todo = Tail(w.todo)
      <4>1. k + 1 \in DOMAIN w.todo /\ Tail(w.todo)[k] = w.todo[k + 1] /\ k \in Nat /\ k > 0
        BY <1>0, <1>2, <3>2, TailIs
      <4> QED
        BY <3>2, <4>1
    <3> QED
      BY <3>1, <3>2
  <2>2. PICK i \in DOMAIN w.todo : w.todo[i] = u.todo[k] /\ i # 1
    BY <2>1
  <2>3. Emptied(r, b, s) \/ Shared(r, b, s)
    BY <1>2, <2>2 DEF Listed
  <2>4. Shared(r, b, s) => Shared(r, b, s)'
    BY <1>0, SharedStays
  <2>5. CASE Emptied(r, b, s)
    <3>1. 1 \in DOMAIN w.todo /\ i \in Nat /\ i > 1 /\ w.todo[1] \in Statement
      BY <1>0, <2>2, HeadIs
    <3>2. w.todo[1].table = b /\ w.todo[1].of = s => w.todo[1].sql # "INSERT"
      BY <1>2, <2>2, <3>1 DEF Listed, LastInsert
    <3>3. w.todo[1].sql \in {"DELETE", "INSERT"}
      BY <3>1 DEF Statement
    <3>4. Emptied(r, b, s)'
      BY <2>5, <3>2, <3>3, EmptiedOn
    <3> QED
      BY <3>4
  <2> QED
    BY <2>3, <2>4, <2>5
<1> QED
  BY <1>1, <1>2 DEF Listed

\* A list that starts takes all there is.
LEMMA ListStarts ==
  ASSUME IInv, NEW r \in Reqs, NextTenant(r), req'[r].at = "next"
  PROVE  Listed(r)'
<1> DEFINE u == req'[r]
<1>1. \/ \E t \in req[r].left : u.todo = WipeOrder(t) \o Reset(t)
      \/ u.todo = <<Delete("staff", "all")>>
  BY NextTenantIs DEF IInv
<1>2. CASE u.todo = <<Delete("staff", "all")>>
  <2>1. DOMAIN u.todo = {1} /\ u.todo[1] = Delete("staff", "all")
    BY <1>2
  <2>2. \A i \in DOMAIN u.todo : u.todo[i].sql # "INSERT"
    BY <2>1, FieldsOf
  <2> QED
    BY <2>2 DEF Listed, LastInsert
<1>3. ASSUME NEW t, u.todo = WipeOrder(t) \o Reset(t) PROVE Listed(r)'
  <2>1. LastInsert(u.todo)
    BY <1>3, WipeLast
  <2>2. ASSUME NEW k \in DOMAIN u.todo, u.todo[k].sql = "INSERT",
               NEW b, NEW s, b = u.todo[k].table, s = u.todo[k].of
        PROVE  Emptied(r, b, s)'
    <3>1. s = t /\ \E j \in DOMAIN u.todo : u.todo[j] = Delete(b, t)
      BY <1>3, <2>2, WipeLast
    <3> QED
      BY <3>1 DEF Emptied, Pending, Of
  <2> QED
    BY <2>1, <2>2 DEF Listed
<1> QED
  BY <1>1, <1>2, <1>3

LEMMA ListStep == ASSUME IInv, [Next]_vars, ReplacedPart, ListPart PROVE ListPart'
<1> SUFFICES ASSUME NEW r \in Reqs, req'[r].at \in {"next", "sweep"}, Wiping(req'[r]) PROVE Listed(r)'
  BY DEF ListPart, Listed
<1> DEFINE w == req[r]
           u == req'[r]
<1>1. CASE Stays(r)
  <2>1. Alike(u, w) /\ w.moved \subseteq u.moved /\ menu' = menu
    BY <1>1 DEF Stays
  <2>2. w.at \in {"next", "sweep"} /\ Wiping(w) /\ u.todo = w.todo
    BY <2>1 DEF Alike, Wiping
  <2>3. Listed(r) /\ Local(w)
    BY <2>2 DEF ListPart, Listed, IInv, LocalPart
  <2>4. ASSUME NEW i \in DOMAIN w.todo, w.todo[i].sql = "INSERT",
               NEW b, NEW s, b = w.todo[i].table, s = w.todo[i].of
        PROVE  Emptied(r, b, s)' \/ Shared(r, b, s)'
    <3>1. b \in Children /\ (w.op = "wipe" => s = w.of)
      BY <2>2, <2>3, <2>4 DEF Local, Meant, Wiping
    <3>2. \A z \in Of(b, s) : Cares(w.op, w.of, z)
      BY <2>2, <3>1, CaresWipe DEF Of, Wiping
    <3>3. Shared(r, b, s)' \/ \A z \in Of(b, s) : After(r, z)' = After(r, z)
      BY <1>1, <2>2, <3>2, OthersLeave
    <3>4. Shared(r, b, s) => Shared(r, b, s)'
      BY <2>1, SharedStays
    <3>5. \A z : Pending(r, z) => Pending(r, z)'
      BY <2>1 DEF Alike, Pending
    <3>6. Emptied(r, b, s) /\ (\A z \in Of(b, s) : After(r, z)' = After(r, z)) => Emptied(r, b, s)'
      BY <2>1, <3>5 DEF Emptied, Of, Exists
    <3> QED
      BY <2>3, <2>4, <3>3, <3>4, <3>6 DEF Listed
  <2> QED
    BY <2>2, <2>3, <2>4 DEF Listed
<1>2. CASE Arrives(r)
  BY <1>2 DEF Arrives
<1>3. CASE Over(r)
  BY <1>3, OverKeeps
<1>4. CASE Works(r)
  <2>0. HandlerActs(r) /\ u.op = w.op
    BY <1>4, WorksRows DEF Works
  <2>1. /\ w.at \in {"auth", "confirm", "lock", "next", "sweep"}
        /\ u.at = "sweep" => w.at \in {"next", "sweep"}
        /\ w.at = "auth" => u.at = AuthPlace(w.op)
    BY <2>0, ListNext
  <2>2. CASE w.at = "auth"
    <3>1. AuthPlace("wipe") = "confirm" /\ AuthPlace("wipeAll") = "confirm"
      BY DEF AuthPlace
    <3> QED
      BY <2>0, <2>1, <2>2, <3>1 DEF Wiping
  <2>3. CASE w.at = "confirm"
    <3>1. w.todo = << >> /\ u.todo = w.todo
      BY <2>0, <2>3, WipeCourse DEF IInv, LocalPart, Local, Only
    <3> QED
      BY <3>1 DEF Listed, LastInsert
  <2>4. CASE w.at = "lock"
    <3>1. w.op = "delete"
      BY <2>4 DEF IInv, LocalPart, Local
    <3> QED
      BY <2>0, <3>1 DEF Wiping
  <2>5. CASE w.at \in {"next", "sweep"}
    <3>1. Wiping(w)
      BY <2>0 DEF Wiping
    <3>2. Listed(r)
      BY <2>5, <3>1 DEF ListPart, Listed
    <3>3. CASE w.at = "next" /\ NextTenant(r)
      <4>1. u.at = "next"
        BY <3>3, NextTenantIs DEF IInv, Only
      <4> QED
        BY <3>3, <4>1, ListStarts
    <3>4. CASE /\ w.todo # << >>
               /\ \/ u.todo = Tail(w.todo)
                  \/ u.todo = w.todo /\ w.todo[1].sql = "DELETE"
      BY <1>4, <2>5, <3>1, <3>2, <3>4, ListWorks
    <3> QED
      BY <2>0, <2>5, <3>1, <3>3, <3>4, ListCourse
  <2> QED
    BY <2>1, <2>2, <2>3, <2>4, <2>5
<1> QED
  BY <1>1, <1>2, <1>3, <1>4, Views

\* A row of these tables comes into being with its tenant or by an INSERT, alone.
LEMMA NewBy ==
  ASSUME IInv, NEW r \in Reqs, HandlerActs(r), NEW y \in menu.rows, y[1] \in Doubled, Touched(y),
         Exists(cur'[y]), ~ Exists(cur[y])
  PROVE  \/ req[r].at = "insertTenant" /\ req[r].op = "create" /\ y[3] = 1
         \/ req[r].at = "insert" /\ req[r].op # "create" /\ y[1] = TableOf(req[r].op) /\ y[2] = req[r].of
         \/ /\ req[r].at = "next" /\ Wiping(req[r]) /\ req[r].todo # << >> /\ req[r].todo[1].sql = "INSERT"
            /\ req[r].todo[1].table = y[1] /\ req[r].todo[1].of = y[2]
<1> DEFINE w == req[r]
<1>1. Written(r, y) /\ Local(w)
  BY WrittenBy DEF IInv, LocalPart
<1>2. w.at \in {"insertTenant", "sweep", "next", "dropTenant", "update", "destroy", "insert", "notify"}
  <2>1. "settings" \notin Doubled /\ "tenant" \notin Doubled /\ "staff" \notin Doubled /\ "rootKey" \notin Doubled
        /\ "audit" \notin Doubled /\ "payment" \notin Doubled /\ "purse" \notin Doubled /\ "intent" \notin Doubled
        /\ "withdrawal" \notin Doubled /\ "key" \notin Doubled
    BY DEF Doubled
  <2> QED
    BY <2>1, WrittenTable
<1>3. w.at \notin {"sweep", "dropTenant", "update", "destroy", "notify"}
  <2>1. /\ w.at \in {"sweep", "dropTenant"} => cur'[y] = Is("gone")
        /\ w.at = "update" => (Exists(cur'[y]) <=> Exists(cur[y]))
        /\ w.at = "destroy" => ~ Exists(cur'[y])
        /\ w.at = "notify" => (Exists(cur'[y]) => Exists(cur[y]))
    BY ONLY <1>1, SMT DEF Written
  <2>2. ~ Exists(Is("gone"))
    BY DEF Exists, Is
  <2> QED
    BY <2>1, <2>2
<1>4. CASE w.at = "insertTenant"
  <2>1. y \in Bootstrap(w.of, TRUE) /\ w.op = "create"
    BY <1>1, <1>4 DEF Written, Local
  <2>2. y[3] = 1
    BY <2>1 DEF Bootstrap, One, Of, Doubled
  <2> QED
    BY <1>4, <2>1, <2>2
<1>5. CASE w.at = "insert"
  <2>1. y \in Unused(TableOf(w.op), w.of) /\ w.op # "create"
    BY <1>1, <1>5 DEF Written, Local
  <2> QED
    BY <1>5, <2>1 DEF Unused, Of
<1>6. CASE w.at = "next"
  <2>1. w.todo # << >> /\ Head(w.todo).sql = "INSERT" /\ y \in Unused(Head(w.todo).table, Head(w.todo).of)
    BY <1>1, <1>6 DEF Written
  <2>2. Head(w.todo) = w.todo[1] /\ 1 \in DOMAIN w.todo
    BY <1>6, <2>1, BetweenStatements, HeadIs
  <2>3. Wiping(w)
    BY <1>1, <1>6, <2>1, <2>2 DEF Local, Meant, Wiping
  <2> QED
    BY <1>6, <2>1, <2>2, <2>3 DEF Unused, Of
<1> QED
  BY <1>2, <1>3, <1>4, <1>5, <1>6

LEMMA OneInserted ==
  ASSUME IInv, NEW r \in Reqs, HandlerActs(r), req[r].at \in {"insert", "next"},
         NEW y \in menu.rows, Touched(y), NEW z \in menu.rows, Touched(z)
  PROVE  y = z
<1>0. TypeOK
  BY DEF IInv
<1>1. ASSUME NEW x, NEW row, WriteOne(r, x, row) PROVE y = z
  BY <1>0, <1>1, WriteOneTouches
<1>2. ~ UNCHANGED Kept
  BY KeptTouches
<1>3. CASE req[r].at = "next"
  <2>1. WipeInsert(r)
    <3>1. NextTenant(r) \/ StatementsDone(r) => UNCHANGED Kept
      BY <1>0, NextTenantIs, StatementsDoneIs
    <3>2. StartDelete(r) => UNCHANGED Kept
      BY Zenon DEF StartDelete
    <3> QED
      BY <1>2, <1>3, <3>1, <3>2, StepAt
  <2>2. \E x : WriteOne(r, x, Is("live"))
    BY <1>0, <1>2, <2>1, WipeInsertIs DEF Reply
  <2> QED
    BY <1>1, <2>2
<1>4. CASE req[r].at = "insert"
  <2>1. InsertNew(r)
    BY <1>4, StepAt
  <2>2. CASE req[r].op = "close"
    <3>1. \E x : WriteOne(r, x, Is("live"))
      BY <2>1, <2>2, Zenon DEF InsertNew
    <3> QED
      BY <1>1, <3>1
  <2>3. CASE req[r].op # "close"
    <3>1. Inserted(r, TableOf(req[r].op), req[r].of, Is("live"))
      BY <2>1, <2>3, Zenon DEF InsertNew, Inserted
    <3>2. PICK after : Insert(r, TableOf(req[r].op), req[r].of, Is("live"), after)
      BY <3>1, Zenon DEF Inserted
    <3>3. \E x : WriteOne(r, x, Is("live"))
      BY <1>2, <3>2, Zenon DEF Insert, Reply
    <3> QED
      BY <1>1, <3>3
  <2> QED
    BY <2>2, <2>3
<1> QED
  BY <1>3, <1>4

\* When a wipe comes to an INSERT there are no rows left.
LEMMA InsertAlone ==
  ASSUME IInv, NEW r \in Reqs, req[r].at = "next", Wiping(req[r]), ListPart, req[r].todo # << >>,
         req[r].todo[1].sql = "INSERT", NEW b, NEW s, b = req[r].todo[1].table, s = req[r].todo[1].of
  PROVE  Empty(r, b, s) \/ Shared(r, b, s)
<1> DEFINE todo == req[r].todo
<1>1. 1 \in DOMAIN todo /\ todo \in Seq(Statement)
  BY BetweenStatements, HeadIs
<1>2. LastInsert(todo) /\ (Emptied(r, b, s) \/ Shared(r, b, s))
  BY <1>1 DEF ListPart
<1>3. ASSUME NEW z \in Of(b, s) PROVE ~ Pending(r, z)
  <2> SUFFICES ASSUME NEW j \in DOMAIN todo, todo[j] = Delete(b, s) PROVE FALSE
    BY <1>3 DEF Pending, Of
  <2>1. todo[j].table = b /\ todo[j].of = s /\ todo[j].sql = "DELETE"
    BY FieldsOf
  <2>2. j <= 1
    BY <1>1, <1>2, <2>1 DEF LastInsert
  <2>3. j \in Nat /\ j >= 1
    BY <1>1
  <2>4. j = 1
    BY <2>2, <2>3
  <2> QED
    BY <2>1, <2>4
<1> QED
  BY <1>2, <1>3 DEF Emptied, Empty

LEMMA NewWorks ==
  ASSUME IInv, HandsPart, LookPart, ListPart, NewPart, NEW r \in Reqs, Works(r),
         NEW y \in menu.rows, y[1] \in Doubled, Made(r, y)'
  PROVE  IF req[r].op = "create" THEN y[3] = 1
         ELSE Cares(req[r].op, req[r].of, y) /\ (Alone(r, y)' \/ Shared(r, y[1], y[2])')
<1> DEFINE w == req[r]
           u == req'[r]
           b == y[1]
           s == y[2]
<1>0. /\ TypeOK /\ Local(w) /\ HandlerActs(r) /\ db' = db /\ menu' = menu /\ u.op = w.op /\ u.of = w.of
      /\ u.moved = w.moved
  BY WorksKeep DEF IInv, LocalPart, Works
<1>1. ~ Exists(db[y]) /\ Exists(cur'[y]) /\ lock'[y] = r
  BY <1>0 DEF Made, Exists
<1>2. Shared(r, b, s) => Shared(r, b, s)'
  BY <1>0, SharedStays
<1>3. ASSUME NEW z \in menu.rows, ~ Exists(After(r, z)), Touched(z) PROVE ~ Exists(cur[z])
  <2>1. lock[z] \in {r, NoReq}
    BY <1>3, WorksRows
  <2>2. lock[z] = NoReq => cur[z] = db[z]
    BY DEF IInv, RowsPart
  <2> QED
    BY <1>3, <2>1, <2>2 DEF After
<1>4. ASSUME NEW z \in menu.rows, ~ Touched(z) PROVE Exists(After(r, z))' <=> Exists(After(r, z))
  <2>1. cur'[z] = cur[z] /\ lock'[z] = lock[z]
    BY <1>4, Untouched
  <2> QED
    BY <1>0, <2>1 DEF After, Exists
<1>5. CASE Made(r, y)
  <2>1. CASE w.op = "create"
    BY <1>5, <2>1 DEF NewPart
  <2>2. CASE w.op # "create"
    <3>1. Cares(w.op, w.of, y) /\ (Alone(r, y) \/ Shared(r, b, s))
      BY <1>5, <2>2 DEF NewPart
    <3>2. ASSUME Alone(r, y), NEW z \in Of(b, s), z # y, Exists(After(r, z))' PROVE Shared(r, b, s)
      <4>1. z \in menu.rows /\ z[1] = b /\ z[2] = s /\ ~ Exists(After(r, z))
        BY <3>2 DEF Of, Alone
      <4>2. Touched(z)
        BY <1>4, <3>2, <4>1
      <4>3. Exists(cur'[z]) /\ ~ Exists(cur[z])
        <5>1. lock'[z] = r
          BY <4>1, <4>2, WorksRows
        <5> QED
          BY <1>3, <3>2, <4>1, <4>2, <5>1 DEF After
      <4>4. w.at # "insert"
        BY <1>5 DEF HandsPart, Early, Made
      <4>5. /\ w.at = "next" /\ Wiping(w) /\ w.todo # << >> /\ w.todo[1].sql = "INSERT"
            /\ w.todo[1].table = b /\ w.todo[1].of = s
        BY <1>0, <2>2, <4>1, <4>2, <4>3, <4>4, NewBy
      <4>6. Empty(r, b, s) \/ Shared(r, b, s)
        BY <4>5, InsertAlone
      <4>7. y \in Of(b, s) /\ Exists(After(r, y))
        BY <1>5 DEF Of, After, Made
      <4> QED
        BY <4>6, <4>7 DEF Empty
    <3>3. Alone(r, y) /\ ~ Shared(r, b, s) => Alone(r, y)'
      BY <1>0, <3>2 DEF Alone, Of
    <3> QED
      BY <1>2, <2>2, <3>1, <3>3
  <2> QED
    BY <2>1, <2>2
<1>6. CASE ~ Made(r, y)
  <2>1. ~ Exists(After(r, y))
    BY <1>1, <1>6 DEF After, Made
  <2>2. Touched(y)
    <3>1. Exists(After(r, y))'
      BY <1>1 DEF After, Exists
    <3> QED
      BY <1>4, <2>1, <3>1
  <2>3. ~ Exists(cur[y])
    BY <1>3, <2>1, <2>2
  <2>4. ASSUME w.at \in {"insert", "next"}, Empty(r, b, s) \/ Shared(r, b, s)
        PROVE  Alone(r, y)' \/ Shared(r, b, s)'
    <3> SUFFICES ASSUME Empty(r, b, s), NEW z \in Of(b, s), z # y PROVE ~ Exists(After(r, z))'
      BY <1>0, <1>2, <2>4 DEF Alone, Of
    <3>1. z \in menu.rows /\ ~ Exists(After(r, z))
      BY DEF Empty, Of
    <3>2. ~ Touched(z)
      BY <1>0, <2>2, <2>4, <3>1, OneInserted
    <3> QED
      BY <1>4, <3>1, <3>2
  <2>5. CASE w.op = "create"
    <3>1. w.at \notin {"insert", "next"}
      BY <1>0, <2>5 DEF Local, Wipes
    <3> QED
      BY <1>0, <1>1, <2>2, <2>3, <2>5, <3>1, NewBy
  <2>6. CASE w.at = "insert" /\ w.op # "create" /\ b = TableOf(w.op) /\ s = w.of
    <3>1. w.op \in {"close", "register", "credits"}
      BY <1>0, <2>6, LookTables DEF Local
    <3>2. Cares(w.op, w.of, y)
      BY <2>6, <3>1, CaresLook
    <3>3. Empty(r, b, s) \/ Shared(r, b, s)
      BY <2>6 DEF LookPart, Looked
    <3> QED
      BY <2>4, <2>6, <3>2, <3>3
  <2>7. CASE /\ w.at = "next" /\ Wiping(w) /\ w.todo # << >> /\ w.todo[1].sql = "INSERT"
             /\ w.todo[1].table = b /\ w.todo[1].of = s
    <3>1. b \in Children /\ (w.op = "wipeAll" \/ s = w.of) /\ w.op # "create"
      <4>1. Touches(w.op, w.of, y)
        BY <2>2, WorksRows
      <4> QED
        BY <2>7, <4>1 DEF Touches, Locks, Wiping
    <3>2. Cares(w.op, w.of, y)
      BY <2>7, <3>1, CaresWipe DEF Wiping
    <3>3. Empty(r, b, s) \/ Shared(r, b, s)
      BY <2>7, InsertAlone
    <3> QED
      BY <2>4, <2>7, <3>1, <3>2, <3>3
  <2> QED
    BY <1>0, <1>1, <2>2, <2>3, <2>5, <2>6, <2>7, NewBy
<1> QED
  BY <1>5, <1>6

LEMMA NewStep == ASSUME IInv, [Next]_vars, HandsPart, LookPart, ListPart, NewPart PROVE NewPart'
<1>0. menu' = menu
  BY MenuStays
<1> SUFFICES ASSUME NEW r \in Reqs, NEW y \in menu.rows, y[1] \in Doubled, Made(r, y)'
             PROVE  IF req'[r].op = "create" THEN y[3] = 1
                    ELSE Cares(req'[r].op, req'[r].of, y) /\ (Alone(r, y)' \/ Shared(r, y[1], y[2])')
  BY <1>0 DEF NewPart
<1> DEFINE w == req[r]
           u == req'[r]
<1>1. CASE Stays(r)
  <2>1. Alike(u, w) /\ w.moved \subseteq u.moved
    BY <1>1 DEF Stays
  <2>2. lock[y] = r /\ cur'[y] = cur[y] /\ db'[y] = db[y]
    BY <1>1 DEF Stays, Made
  <2>3. Made(r, y) /\ u.op = w.op /\ u.of = w.of
    BY <2>1, <2>2 DEF Made, Exists, Alike
  <2>4. CASE w.op = "create"
    BY <2>3, <2>4 DEF NewPart
  <2>5. CASE w.op # "create"
    <3>1. Cares(w.op, w.of, y) /\ (Alone(r, y) \/ Shared(r, y[1], y[2])) /\ w.at # "idle"
      BY <2>2, <2>3, <2>5 DEF NewPart, IInv, RowsPart, Holds
    <3>2. \A z \in Of(y[1], y[2]) : Cares(w.op, w.of, z)
      BY <3>1, CaresAlike DEF Of
    <3>3. Shared(r, y[1], y[2])' \/ \A z \in Of(y[1], y[2]) : After(r, z)' = After(r, z)
      BY <1>1, <3>1, <3>2, OthersLeave
    <3>4. Shared(r, y[1], y[2]) => Shared(r, y[1], y[2])'
      BY <1>0, <2>1, SharedStays
    <3>5. Alone(r, y) /\ (\A z \in Of(y[1], y[2]) : After(r, z)' = After(r, z)) => Alone(r, y)'
      BY <1>0 DEF Alone, Of, Exists
    <3> QED
      BY <2>3, <2>5, <3>1, <3>3, <3>4, <3>5
  <2> QED
    BY <2>4, <2>5
<1>2. CASE Arrives(r)
  BY <1>2 DEF Arrives, Made
<1>3. CASE Over(r)
  BY <1>3 DEF Over, Made
<1>4. CASE Works(r)
  <2>1. u.op = w.op /\ u.of = w.of
    BY <1>4, WorksKeep
  <2> QED
    BY <1>4, <2>1, NewWorks
<1> QED
  BY <1>1, <1>2, <1>3, <1>4, Views

LEMMA DoublesKept ==
  ASSUME IInv, [Next]_vars, WholePart, NewPart
  PROVE  [\A r \in Reqs, y \in menu.rows :
            Makes(r, y) /\ y[1] \in {"closure", "device", "wallet", "pool"} =>
              \/ \A z \in Of(y[1], y[2]) \ {y} : ~ Exists(db'[z])
              \/ Of(y[1], y[2]) \cap req[r].moved # {}]_db
<1> SUFFICES ASSUME NEW r \in Reqs, NEW y \in menu.rows, Makes(r, y), y[1] \in Doubled,
                    ~ Shared(r, y[1], y[2]), NEW z \in Of(y[1], y[2]), z # y
             PROVE  ~ Exists(db'[z])
  BY DEF Doubled, Shared
<1>0. z \in menu.rows /\ z[1] = y[1] /\ z[2] = y[2]
  BY DEF Of
<1>1. lock[y] = r /\ ~ Exists(db[y]) /\ Exists(db'[y])
  BY DEF Makes
<1>2. db'[y] = cur[y] /\ db'[z] = After(r, z)
  <2>1. db'[y] # db[y]
    BY <1>1
  <2> QED
    BY <1>0, <1>1, <2>1, CommittedBy DEF After
<1>3. Made(r, y)
  BY <1>1, <1>2 DEF Made
<1>4. CASE req[r].op # "create"
  BY <1>2, <1>3, <1>4 DEF NewPart, Alone
<1>5. CASE req[r].op = "create"
  <2>1. y[3] = 1
    BY <1>3, <1>5 DEF NewPart
  <2>2. y[1] \in Children
    <3>1. y[1] \in Locks("create")
      BY <1>1, <1>5 DEF IInv, RowsPart, Holds, Touches
    <3> QED
      BY <3>1 DEF Locks, Doubled, Children, Balances
  <2>3. y[2] \in Tenants /\ One("tenant", y[2]) \in menu.rows
    <3>1. "settings" \notin Doubled
      BY DEF Doubled
    <3> QED
      BY <3>1, OwnTenant
  <2>4. lock[One("tenant", y[2])] = r
    BY <1>1, <1>5 DEF WholePart, BelowPart
  <2>5. ~ TenantThere(y[2])
    BY <1>5, <2>3, <2>4 DEF WholePart, OwnersPart, Creates, Drops, Known, TenantThere
  <2>6. ~ Exists(db[z])
    <3>1. z \in Below(y[2])
      BY <1>0, <2>2 DEF Below
    <3> QED
      BY <2>3, <2>5, <3>1 DEF WholePart, TenantsWhole
  <2>7. ~ Made(r, z)
    <3> SUFFICES ASSUME Made(r, z) PROVE FALSE
      OBVIOUS
    <3>1. z[3] = 1
      BY <1>0, <1>5 DEF NewPart
    <3>2. y \in Rows /\ z \in Rows
      BY <1>0, MenuAssumption DEF IInv, TypeOK
    <3>3. y = z
      BY <1>0, <2>1, <3>1, <3>2, RowsAssumption
    <3> QED
      BY <3>3
  <2> QED
    BY <1>2, <2>6, <2>7 DEF After, Made
<1> QED
  BY <1>4, <1>5

LEMMA SoleInitially == Init => SolePart
<1> SUFFICES ASSUME Init PROVE SolePart
  OBVIOUS
<1>1. /\ \A r \in Reqs : req[r].at = "idle"
      /\ \A y \in menu.rows : lock[y] \notin Reqs
  BY NamesAssumption DEF Init, NoWork
<1> QED
  BY <1>1 DEF SolePart, LookPart, Looked, ListPart, NewPart, Made

\* Nothing but a look before the INSERT (adminShifts.js:215, staffPush.js:85,
\* wipeService.js:77, ownerTenants.js:1523) keeps a shift to one closure, a device to one
\* row and a tenant to one wallet and one voucher pool: a second one takes another request
\* that committed a change of such a row meanwhile.
THEOREM DoublesTakeTwo == Spec => DoublesOverlap
<1>1. (IInv /\ HandsPart /\ WholePart /\ SolePart) /\ [Next]_vars => SolePart'
  BY LookStep, ListStep, NewStep DEF SolePart, WholePart
<1>2. (IInv /\ HandsPart /\ WholePart /\ SolePart) /\ [Next]_vars =>
        [\A r \in Reqs, y \in menu.rows :
           Makes(r, y) /\ y[1] \in {"closure", "device", "wallet", "pool"} =>
             \/ \A z \in Of(y[1], y[2]) \ {y} : ~ Exists(db'[z])
             \/ Of(y[1], y[2]) \cap req[r].moved # {}]_db
  BY DoublesKept DEF SolePart
<1> QED
  BY <1>1, <1>2, SoleInitially, Wholeness, PTL DEF Spec, DoublesOverlap
=============================================================================
