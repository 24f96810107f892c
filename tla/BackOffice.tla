----------------------------- MODULE BackOffice -----------------------------
(***************************************************************************)
(* What owners and staff do to a tenant besides moving credits: creating,  *)
(* wiping and deleting it (ownerTenants.js, adminTenants.js,               *)
(* wipeService.js), its settings (tenantConfig.js, ownerSettings.js), paid *)
(* deposits (finance.js), closed shifts (adminShifts.js), messages and     *)
(* push devices (staffMessages.js, staffPush.js, push.js), and the audit   *)
(* chain those leave behind (lib/security/audit.js).                       *)
(*                                                                         *)
(* A request is one Postgres transaction at READ COMMITTED that commits    *)
(* after a response below 400.  Hardly any of these handlers locks what it *)
(* reads.  An INSERT below a tenant shares a lock on the tenant's row with *)
(* other inserts, and waits for, or fails after, the tenant's deletion.    *)
(***************************************************************************)
EXTENDS Integers, Sequences, FiniteSets

CONSTANTS
  Tenants,    \* tenant ids
  Scopes,     \* whose a row is: a tenant's, or one of the installation's settings
  NameOf,     \* the identifier (external_id) of each tenant
  Rows,       \* <<table, scope, number>>: the rows there may be
  Reqs,       \* request slots
  NoReq,      \* owner of a free row
  Menus,      \* which requests may meet, on whom, the rows they may use, those there at first, and
              \* which of the requests each slot takes
  Amount,     \* amountFun of a deposit intent
  MaxValue,   \* bound: values a setting may be given
  MaxBalance  \* bound: what a bet may raise a player's wallet to

\* The tables wipeService.js clears, and the others.
Wiped == {"message", "key", "device", "payment", "intent", "withdrawal", "purse"}
Balances == {"wallet", "pool"}
Settings == {"settings", "rootKey"}
\* Tables whose tenant_id refers to tenants ON DELETE CASCADE: not shift_closures.
Children == Wiped \cup Balances \cup {"staff"}
Tables == Children \cup Settings \cup {"tenant", "distributor", "closure", "audit"}
\* Rows found by a natural key come back when it is used again; the others have fresh ids.
FreshId == Tables \ (Settings \cup {"key"})

OwnerOps == {"system", "brand", "ownerConfig", "credits", "create", "delete", "reset", "wipeAll"}
StaffOps == {"markPaid", "markSent", "register", "unregister", "test", "send", "read",
             "drop", "thread", "inbox", "key"}
BothOps == {"config", "close", "wipe"}
Ops == OwnerOps \cup StaffOps \cup BothOps \cup {"bet", "purge"}
Wipes == {"delete", "wipe", "wipeAll"}

\* The keys of a settings JSON that the properties tell apart.
Fields == {1, 2}
Values == 0..MaxValue

ASSUME NamesAssumption == NoReq \notin Reqs /\ Tenants \subseteq Scopes /\ "all" \notin Scopes
ASSUME RowsAssumption == Rows \subseteq Tables \X Scopes \X (Nat \ {0})
ASSUME MenuAssumption ==
  Menus \subseteq [meet : SUBSET (Ops \X Scopes), rows : SUBSET Rows, there : SUBSET Rows,
                   slots : [Reqs -> SUBSET Ops]]

\* Tables with one row per scope, and a setting's keys.
Single == {"tenant", "distributor", "staff", "rootKey", "key", "intent", "withdrawal", "purse"}
ASSUME NumbersAssumption ==
  \A y \in Rows : (y[1] \in Single => y[3] = 1) /\ (y[1] = "settings" => y[3] \in Fields)

\* The rows a request looks up by their key.
Named(op, s) ==
  CASE op \in {"system", "brand"} -> {<<"settings", s, f>> : f \in Fields}
    [] op \in {"config", "ownerConfig"} -> {<<"settings", s, f>> : f \in Fields} \cup {<<"tenant", s, 1>>}
    [] op = "create" -> {<<b, s, 1>> : b \in {"tenant", "distributor", "wallet", "pool", "staff", "rootKey"}}
    [] op = "reset" -> {<<b, s, 1>> : b \in {"tenant", "staff", "rootKey"}}
    [] op = "markPaid" -> {<<b, s, 1>> : b \in {"tenant", "intent", "purse"}}
    [] op = "markSent" -> {<<b, s, 1>> : b \in {"tenant", "withdrawal"}}
    [] op = "bet" -> {<<b, s, 1>> : b \in {"tenant", "purse"}}
    [] op = "key" -> {<<b, s, 1>> : b \in {"tenant", "key"}}
    [] OTHER -> {<<"tenant", s, 1>>}

\* Requests find the rows they name, and only the system's and the brand's settings are no
\* tenant's; every other row below a tenant comes with the tenant and its distributor.
ASSUME NamedAssumption ==
  \A m \in Menus :
    /\ m.there \subseteq m.rows
    /\ \A p \in m.meet : Named(p[1], p[2]) \subseteq m.rows /\ (p[1] \in {"system", "brand"} <=> p[2] \notin Tenants)
    /\ \A y \in m.rows :
         /\ y[1] # "settings" => y[2] \in Tenants
         /\ y[2] \in Tenants => {<<"tenant", y[2], 1>>, <<"distributor", y[2], 1>>} \subseteq m.rows

\* At first a tenant is there with all a bootstrap gives it and alone bears its identifier,
\* or nothing of it is there.
ASSUME WholeAssumption ==
  \A m \in Menus, t \in Tenants :
    IF <<"tenant", t, 1>> \in m.there
    THEN /\ <<"distributor", t, 1>> \in m.there
         /\ \A b \in Balances : \E y \in m.there : y[1] = b /\ y[2] = t
         /\ \A u \in Tenants \ {t} : NameOf[u] = NameOf[t] => <<"tenant", u, 1>> \notin m.there
    ELSE \A y \in m.there : y[2] # t
ASSUME BoundAssumption == Amount \in Nat /\ MaxValue \in Nat /\ MaxBalance \in Nat

VARIABLES
  db,     \* the committed rows
  cur,    \* the newest version of each row
  lock,   \* the transaction that owns each row
  req,    \* per request: its place in the handler and what it has read
  menu    \* what this behaviour starts with and which requests it has

vars == <<db, cur, lock, req, menu>>

\* done: a credited deposit or a sent withdrawal.  inactive: a device that is gone.
\* n: a setting's value, a wallet's balance, the predecessor of an audit record.
States == {"none", "live", "done", "inactive", "gone"}
Row == [st : States, n : Nat]
Is(st) == [st |-> st, n |-> 0]
Exists(row) == row.st \in {"live", "done", "inactive"}

Of(table, s) == {y \in menu.rows : y[1] = table /\ y[2] = s}
Below(t) == {y \in menu.rows : y[2] = t /\ y[1] \in Children}
Present(table, s) == {y \in Of(table, s) : Exists(db[y])}
One(table, s) == <<table, s, 1>>

Places == {"idle", "auth", "load", "save", "check", "insertTenant", "lock", "confirm", "next",
           "sweep", "dropTenant", "root", "password", "rootKey", "audit", "stamped", "chain", "intent",
           "balance", "credit", "mark", "purse", "bet", "cashier", "find", "insert", "update", "destroy",
           "recipient", "devices", "notify", "upsert", "respond"}

Nothing == <<"tenant", "nobody", 0>>
NoWork == [at |-> "idle", op |-> "purge", of |-> "nobody", row |-> Nothing, n |-> 0,
           seen |-> [f \in Fields |-> 0], patched |-> {}, todo |-> << >>, left |-> {}, rows |-> {},
           status |-> 0, tx |-> "none", began |-> {}, moved |-> {}]

Init ==
  /\ menu \in Menus
  /\ db = [y \in menu.rows |-> Is(IF y \in menu.there THEN "live" ELSE "none")]
  /\ cur = db
  /\ lock = [y \in menu.rows |-> NoReq]
  /\ req = [r \in Reqs |-> NoWork]

At(r, place) == req[r].at = place
Running(r) == req[r].at # "idle"
Goto(r, place) == [req EXCEPT ![r].at = place]
Answer(r, status) == [req EXCEPT ![r].at = "respond", ![r].status = status]
Kept == <<db, cur, lock, menu>>
Go(r, place) == req' = Goto(r, place) /\ UNCHANGED Kept
Reply(r, status) == req' = Answer(r, status) /\ UNCHANGED Kept

-----------------------------------------------------------------------------
(* Rows and their locks *)

Mine(r, y) == lock[y] \in {r, NoReq}

\* Rows Y get the versions in `new`, under their locks.
Write(r, Y, new) ==
  /\ cur' = [y \in menu.rows |-> IF y \in Y THEN new[y] ELSE cur[y]]
  /\ lock' = [y \in menu.rows |-> IF y \in Y THEN r ELSE lock[y]]
  /\ UNCHANGED <<db, menu>>

WriteOne(r, y, row) ==
  /\ cur' = [cur EXCEPT ![y] = row]
  /\ lock' = [lock EXCEPT ![y] = r]
  /\ UNCHANGED <<db, menu>>

\* UPDATE by primary key: a row deleted since is no error and stays deleted.
Update(r, y, row) == Mine(r, y) /\ WriteOne(r, y, IF Exists(cur[y]) THEN row ELSE cur[y])

\* Requests with an uncommitted row below tenant t share a lock on the tenant.
Inserters(t) ==
  {lock[y] : y \in {z \in Below(t) : lock[z] # NoReq /\ ~ Exists(db[z]) /\ Exists(cur[z])}}

\* The foreign key of an INSERT: the tenant must be there once nobody is deleting it.
TenantFree(r, t) == Mine(r, One("tenant", t))
TenantThere(t) == One("tenant", t) \in menu.rows /\ db[One("tenant", t)].st = "live"

\* Ids nobody has used: sequelize makes a uuid.
Reserved == {req[r].row : r \in Reqs}
Unused(table, s) == {y \in Of(table, s) : db[y].st = "none" /\ cur[y].st = "none" /\ y \notin Reserved}
Next1(S) == CHOOSE y \in S : \A z \in S : y[3] <= z[3]

\* INSERT of a child of tenant t: row `row` of a table, then the handler is at `place`.
Insert(r, table, t, row, after) ==
  /\ TenantFree(r, t)
  /\ IF TenantThere(t)
     THEN /\ Unused(table, t) # {}
          /\ LET y == Next1(Unused(table, t)) IN
             WriteOne(r, y, row) /\ req' = after
     ELSE Reply(r, 500)

-----------------------------------------------------------------------------
(* Arrival *)

\* What the properties ask of the time since a request arrived.
Matters(op, y) ==
  CASE op \in {"system", "brand", "config", "ownerConfig"} -> y[1] \in {"tenant", "settings"}
    [] op \in Wipes -> y[1] \in Children \cup Settings \cup {"tenant", "audit"}
    [] op = "markPaid" -> y[1] \in {"tenant", "intent", "purse"}
    [] op = "bet" -> y[1] \in {"tenant", "purse"}
    [] op = "close" -> y[1] \in {"tenant", "closure"}
    [] op = "register" -> y[1] \in {"tenant", "device"}
    [] op \in {"create", "reset"} -> y[1] \in {"tenant", "audit"}
    [] op = "credits" -> y[1] \in {"tenant", "wallet", "audit"}
    [] op = "thread" -> y[1] \in {"tenant", "message"}
    [] OTHER -> y[1] = "tenant"
Cares(op, s, y) == Matters(op, y) /\ (op = "wipeAll" \/ y[2] = s)

\* Bound: a request arrives only if there is an id left for every row it may insert.
Inserts(op) ==
  CASE op \in {"wipe", "wipeAll"} -> Balances
    [] op \in {"delete", "reset", "create"} -> {"audit"}
    [] op = "credits" -> {"wallet", "audit"}
    [] op = "markPaid" -> {"payment"}
    [] op = "close" -> {"closure"}
    [] op = "register" -> {"device"}
    [] op = "send" -> {"message"}
    [] OTHER -> {}
Room(op, s) ==
  \A b \in Inserts(op), t \in {u \in Tenants : One("tenant", u) \in menu.rows /\ (op = "wipeAll" \/ u = s)} :
    Cardinality({y \in Of(b, t) : db[y].st = "none" /\ cur[y].st = "none"})
      > Cardinality({q \in Reqs : Running(q) /\ b \in Inserts(req[q].op)})

\* A request, or the hourly purge, arrives.  Bounds: what the menu has for the
\* slot; no id of a deleted tenant is given again.
Begin(r) ==
  /\ At(r, "idle")
  /\ \E p \in menu.meet :
       LET op == p[1]
           s == p[2] IN
       /\ op \in menu.slots[r] /\ Room(op, s)
       /\ op = "create" => /\ cur[One("tenant", s)].st = "none"
                           /\ \A q \in Reqs : req[q].of = s => req[q].op # "create"
       /\ req' = [req EXCEPT ![r] =
                    [NoWork EXCEPT !.at = "auth", !.op = op, !.of = s, !.tx = "open",
                       !.began = {y \in menu.rows : Cares(op, s, y) /\ db[y].st = "live"}]]
  /\ UNCHANGED Kept

AuthPlace(op) ==
  CASE op \in {"system", "config", "ownerConfig"} -> "load"
    [] op \in {"brand"} -> "save"
    [] op = "create" -> "check"
    [] op = "delete" -> "lock"
    [] op \in {"wipe", "wipeAll"} -> "confirm"
    [] op = "reset" -> "root"
    [] op \in {"markPaid", "markSent"} -> "intent"
    [] op = "bet" -> "purse"
    [] op = "close" -> "cashier"
    [] op \in {"credits", "register", "unregister", "read", "drop"} -> "find"
    [] op = "test" -> "devices"
    [] op = "send" -> "recipient"
    [] op \in {"thread", "purge"} -> "next"
    [] OTHER -> "upsert"

Messages(s) == [sql |-> "DELETE", table |-> "message", of |-> s]
Start(r) == [req EXCEPT ![r].at = AuthPlace(req[r].op),
                        ![r].patched = IF req[r].op = "brand" THEN Fields ELSE {},
                        ![r].todo = IF req[r].op \in {"thread", "purge"}
                                    THEN <<Messages(req[r].of)>> ELSE << >>]

\* Seeded bug: the owner's routes do not look the tenant up.
OwnerUnresolved(r) ==
  /\ At(r, "auth") /\ req[r].op \in OwnerOps \cup BothOps
  /\ req' = Start(r) /\ UNCHANGED Kept

\* staffAuth and requireOwner let an owner in; then the tenant's identifier is resolved.
OwnerAuth(r) ==
  /\ At(r, "auth") /\ req[r].op \in OwnerOps \cup BothOps
  /\ IF req[r].op \in {"system", "brand", "create", "wipeAll"} \/ TenantThere(req[r].of)
     THEN req' = Start(r) ELSE req' = Answer(r, 404)
  /\ UNCHANGED Kept

\* staffAuth reads the staff member, whose tenant the request is about.
StaffAuth(r) ==
  /\ At(r, "auth") /\ req[r].op \in StaffOps \cup BothOps
  /\ req' = IF Present("staff", req[r].of) = {} THEN Answer(r, 401)
            ELSE IF req[r].op = "inbox" THEN Answer(r, 500) ELSE Start(r)
  /\ UNCHANGED Kept

\* A player's bet (PlayerAccount) and the purge job need neither.
NoAuth(r) ==
  /\ At(r, "auth") /\ req[r].op \in {"bet", "purge"}
  /\ req' = Start(r) /\ UNCHANGED Kept

-----------------------------------------------------------------------------
(* Settings: read, merged and written back whole.  A settings row is one row per field
   here, all read, locked and written together. *)

\* getJson, and what the body patches: one key, or those of `config`.
Load(r) ==
  /\ At(r, "load")
  /\ \/ Reply(r, 400)
     \/ \E F \in (SUBSET Fields) \ {{}} :
          /\ req[r].op = "config" => Cardinality(F) = 1
          /\ req' = [req EXCEPT ![r].at = "save", ![r].patched = F,
                                ![r].seen = [f \in Fields |-> db[<<"settings", req[r].of, f>>].n]]
          /\ UNCHANGED Kept

\* Seeded bug: what is not in the body is forgotten.
SaveOnlyPatch(r) ==
  /\ At(r, "save")
  /\ LET S == Of("settings", req[r].of) IN
     /\ \A y \in S : Mine(r, y)
     /\ \E v \in Values :
          Write(r, S, [y \in S |-> [st |-> "live", n |-> IF y[3] \in req[r].patched THEN v ELSE 0]])
     /\ req' = Answer(r, 200)

\* setJson's upsert of { ...current, ...patch }; the brand is stored as it was sent.
Save(r) ==
  /\ At(r, "save")
  /\ LET S == Of("settings", req[r].of) IN
     /\ \A y \in S : Mine(r, y)
     /\ \E v \in Values :
          Write(r, S, [y \in S |-> [st |-> "live",
                                    n |-> IF y[3] \in req[r].patched THEN v ELSE req[r].seen[y[3]]]])
     /\ req' = Answer(r, 200)

-----------------------------------------------------------------------------
(* POST /owner/tenants *)

SameName(t) == {y \in menu.rows : y[1] = "tenant" /\ NameOf[y[2]] = NameOf[t]}

\* isTenantIdentifierTaken FOR UPDATE.
CheckName(r) ==
  /\ At(r, "check")
  /\ LET taken == {y \in SameName(req[r].of) : db[y].st = "live"} IN
     /\ \A y \in taken : Mine(r, y)
     /\ \/ taken # {} /\ Reply(r, 409)
        \/ taken = {} /\ Go(r, "insertTenant")

\* A bootstrapped tenant: one row in each of these tables, and settings if it got any.
Bootstrap(t, configured) ==
  {One(b, t) : b \in {"tenant", "distributor", "wallet", "pool", "staff", "rootKey"}}
    \cup (IF configured THEN Of("settings", t) ELSE {})

\* Seeded bug: no unique index on external_id.
InsertTenantAnyName(r) ==
  /\ At(r, "insertTenant")
  /\ LET new == Bootstrap(req[r].of, FALSE) IN Write(r, new, [y \in new |-> Is("live")])
  /\ req' = Goto(r, "audit")

\* Tenant, distributor, wallet, pool, staff login and settings.  The unique index on
\* external_id waits for another insert of the name, and refuses it if that committed.
InsertTenant(r) ==
  /\ At(r, "insertTenant")
  /\ LET others == SameName(req[r].of) \ {One("tenant", req[r].of)} IN
     /\ \A y \in others : Exists(cur[y]) \/ Exists(db[y]) => Mine(r, y)
     /\ \/ (\E y \in others : Exists(db[y])) /\ Reply(r, 409)
        \/ /\ \A y \in others : ~ Exists(db[y])
           /\ \E configured \in BOOLEAN :
                LET new == Bootstrap(req[r].of, configured) IN
                Write(r, new, [y \in new |-> Is("live")])
           /\ req' = [req EXCEPT ![r].at = "audit", ![r].patched = Fields]

-----------------------------------------------------------------------------
(* Wiping and deleting *)

Delete(table, s) == [sql |-> "DELETE", table |-> table, of |-> s]
Create(table, s) == [sql |-> "INSERT", table |-> table, of |-> s]

\* Seeded bug: the deposit intents are forgotten.
WipeForgets(t) ==
  <<Delete("message", t), Delete("key", t), Delete("device", t), Delete("payment", t),
    Delete("withdrawal", t), Delete("purse", t), Delete("staff", t)>>

\* TENANT_WIPE_ORDER and the staff, as far as these tables go.
WipeOrder(t) ==
  <<Delete("message", t), Delete("key", t), Delete("device", t), Delete("payment", t),
    Delete("intent", t), Delete("withdrawal", t), Delete("purse", t), Delete("staff", t)>>

\* Seeded bug: the old wallet stays beside the new one.
ResetKeeping(t) == <<Delete("pool", t), Create("wallet", t), Create("pool", t)>>

\* resetTenantBalances.
Reset(t) == <<Delete("wallet", t), Delete("pool", t), Create("wallet", t), Create("pool", t)>>

\* DELETE /owner/tenants/:id after the wipe, but for the tenant and the distributor.
Leftovers(t) == <<Delete("wallet", t), Delete("pool", t), Delete("settings", t), Delete("rootKey", t)>>

\* Confirmation and password, for one tenant or for every tenant there is.
Confirm(r) ==
  /\ At(r, "confirm")
  /\ \/ Reply(r, 403)
     \/ /\ req' = [req EXCEPT ![r].at = "next",
                              ![r].left = IF req[r].op = "wipe" THEN {req[r].of}
                                          ELSE {t \in Tenants : TenantThere(t)}]
        /\ UNCHANGED Kept

\* Seeded bug: the loop over the tenants does not advance.
WipeAgain(r) ==
  /\ At(r, "next") /\ req[r].todo = << >> /\ req[r].op \in {"wipe", "wipeAll"}
  /\ \E t \in req[r].left : req' = [req EXCEPT ![r].todo = WipeOrder(t) \o Reset(t)]
  /\ UNCHANGED Kept

\* Another tenant's wipeTenantData; wipeAllData ends with all staff but the owners.
NextTenant(r) ==
  /\ At(r, "next") /\ req[r].todo = << >>
  /\ \/ \E t \in req[r].left :
          req' = [req EXCEPT ![r].left = @ \ {t}, ![r].todo = WipeOrder(t) \o Reset(t)]
     \/ /\ req[r].left = {}
        /\ req' = IF req[r].op = "wipeAll"
                  THEN [req EXCEPT ![r].todo = <<Delete("staff", "all")>>, ![r].n = 1]
                  ELSE Answer(r, 200)
  /\ req[r].op \in {"wipe", "wipeAll"} /\ req[r].n = 0
  /\ UNCHANGED Kept

\* Tenant.findByPk FOR UPDATE waits for whoever inserts below the tenant.
LockTenant(r) ==
  /\ At(r, "lock")
  /\ LET t == req[r].of
         y == One("tenant", t) IN
     /\ Mine(r, y) /\ Inserters(t) \subseteq {r}
     /\ \/ ~ TenantThere(t) /\ Reply(r, 404)
        \/ /\ TenantThere(t)
           /\ Write(r, {y}, cur)
           /\ req' = [req EXCEPT ![r].at = "next", ![r].todo = WipeOrder(t) \o Leftovers(t)]

Aimed(stmt) == {y \in menu.rows : y[1] = stmt.table /\ (y[2] = stmt.of \/ stmt.of = "all")}

\* The rows of the statement that are still to be deleted; then the next statement.
Sweeping(r, Y) ==
  req' = [req EXCEPT ![r].rows = Y, ![r].at = IF Y = {} THEN "next" ELSE "sweep",
                     ![r].todo = IF Y = {} THEN Tail(@) ELSE @]

\* A DELETE starts: its rows among those committed by now, and its own.  The purge takes
\* those that are older than a day.
StartDelete(r) ==
  /\ At(r, "next") /\ req[r].todo # << >> /\ Head(req[r].todo).sql = "DELETE"
  /\ LET found == {y \in Aimed(Head(req[r].todo)) :
                     Exists(db[y]) \/ (lock[y] = r /\ Exists(cur[y]))} IN
     \E Y \in IF req[r].op = "purge" THEN SUBSET found ELSE {found} : Sweeping(r, Y)
  /\ UNCHANGED Kept

\* One row, once it is free: deleted, as it may have been meanwhile.
SweepRow(r) ==
  /\ At(r, "sweep")
  /\ \E y \in req[r].rows :
       /\ Mine(r, y)
       /\ WriteOne(r, y, Is("gone"))
       /\ Sweeping(r, req[r].rows \ {y})

\* The new TenantWallet and TenantVoucherPool.
WipeInsert(r) ==
  /\ At(r, "next") /\ req[r].todo # << >> /\ Head(req[r].todo).sql = "INSERT"
  /\ Insert(r, Head(req[r].todo).table, Head(req[r].todo).of, Is("live"),
            [req EXCEPT ![r].todo = Tail(@)])

\* The last statement is done.
StatementsDone(r) ==
  /\ At(r, "next") /\ req[r].todo = << >>
  /\ \/ req[r].op = "delete" /\ Go(r, "dropTenant")
     \/ req[r].op \in {"thread", "purge"} /\ Reply(r, 200)
     \/ req[r].op = "wipeAll" /\ req[r].n = 1 /\ Reply(r, 200)

\* Tenant.destroy, which cascades, and the distributor with it.
DropTenant(r) ==
  /\ At(r, "dropTenant")
  /\ LET t == req[r].of
         Y == {y \in Below(t) \cup {One("tenant", t), One("distributor", t)} : Exists(cur[y])} IN
     /\ \A y \in Y : Mine(r, y)
     /\ Write(r, Y, [y \in Y |-> Is("gone")])
  /\ req' = Goto(r, "audit")

-----------------------------------------------------------------------------
(* The reset of a tenant's first password, and the audit chain *)

\* The root staff member, or the oldest distributor user.
FindRoot(r) ==
  /\ At(r, "root")
  /\ IF Present("staff", req[r].of) = {} THEN Reply(r, 404) ELSE Go(r, "password")

SavePassword(r) ==
  /\ At(r, "password")
  /\ LET y == One("staff", req[r].of) IN Update(r, y, cur[y])
  /\ req' = Goto(r, "rootKey")

UpsertRootKey(r) ==
  /\ At(r, "rootKey")
  /\ LET y == One("rootKey", req[r].of) IN Mine(r, y) /\ WriteOne(r, y, Is("live"))
  /\ req' = Goto(r, "audit")

Done(r) == Answer(r, IF req[r].op = "create" THEN 201 ELSE 200)

\* Records are numbered by their time, which is later than that of every earlier one.
Later(s) == {y \in Unused("audit", s) : \A z \in Of("audit", s) \ Unused("audit", s) : z[3] < y[3]}

\* writeAuditLog: no secret is set, or the new record gets its time.
StampRecord(r) ==
  /\ At(r, "audit")
  /\ \/ req' = Done(r)
     \/ /\ Later(req[r].of) # {}
        /\ req' = [req EXCEPT ![r].at = "stamped", ![r].row = Next1(Later(req[r].of))]
  /\ UNCHANGED Kept

\* Seeded bug: every record continues the first one.
ReadChainStart(r) ==
  /\ At(r, "stamped")
  /\ req' = [req EXCEPT ![r].at = "chain", ![r].n = 1]
  /\ UNCHANGED Kept

\* getPrevHash: the newest committed record of the tenant.
ReadChain(r) ==
  /\ At(r, "stamped")
  /\ LET last == {y \in Of("audit", req[r].of) : db[y].st = "live"} IN
     \E p \in {y[3] : y \in last} \cup {0} :
       /\ \A y \in last : y[3] <= p
       /\ req' = [req EXCEPT ![r].at = "chain", ![r].n = p]
  /\ UNCHANGED Kept

\* The INSERT; if it fails that is caught, and Postgres has given the transaction up.
WriteChain(r) ==
  /\ At(r, "chain")
  /\ \/ /\ Write(r, {req[r].row}, [z \in {req[r].row} |-> [st |-> "live", n |-> req[r].n]])
        /\ req' = Done(r)
     \/ req' = [Done(r) EXCEPT ![r].tx = "aborted"] /\ UNCHANGED Kept

-----------------------------------------------------------------------------
(* Deposits and withdrawals *)

\* Seeded bug: an intent is credited whatever its status.
ReadIntentOnly(r) ==
  /\ At(r, "intent")
  /\ IF req[r].op = "markPaid" /\ Exists(db[One("intent", req[r].of)])
     THEN Go(r, "balance") ELSE Reply(r, 404)

\* The intent, without a lock: a credited one is answered 200 at once, a withdrawal's
\* status is not looked at.
ReadIntent(r) ==
  /\ At(r, "intent")
  /\ LET kind == IF req[r].op = "markPaid" THEN "intent" ELSE "withdrawal"
         row == db[One(kind, req[r].of)] IN
     \/ ~ Exists(row) /\ Reply(r, 404)
     \/ Exists(row) /\ kind = "withdrawal" /\ Go(r, "mark")
     \/ row.st = "done" /\ kind = "intent" /\ Reply(r, 200)
     \/ row.st = "live" /\ kind = "intent" /\ Go(r, "balance")

\* The player's wallet, without a lock; without a wallet nothing is credited.
ReadBalance(r) ==
  /\ At(r, "balance")
  /\ LET y == One("purse", req[r].of) IN
     req' = IF db[y].st = "live" THEN [req EXCEPT ![r].at = "credit", ![r].n = db[y].n] ELSE Goto(r, "mark")
  /\ UNCHANGED Kept

\* wallet.save() and Transaction.create.
Credit(r) ==
  /\ At(r, "credit")
  /\ LET t == req[r].of
         y == One("purse", t)
         new == Next1(Unused("payment", t)) IN
     /\ Mine(r, y) /\ TenantFree(r, t)
     /\ \/ ~ TenantThere(t) /\ Reply(r, 500)
        \/ /\ TenantThere(t) /\ Unused("payment", t) # {}
           /\ Write(r, {y, new},
                    [z \in {y, new} |-> IF z = new THEN [st |-> "live", n |-> Amount]
                                        ELSE IF Exists(cur[y]) THEN [cur[y] EXCEPT !.n = req[r].n + Amount]
                                        ELSE cur[y]])
           /\ req' = Goto(r, "mark")

\* intent.save().
Mark(r) ==
  /\ At(r, "mark")
  /\ LET y == One(IF req[r].op = "markPaid" THEN "intent" ELSE "withdrawal", req[r].of) IN
     Update(r, y, Is("done"))
  /\ req' = Answer(r, 200)

\* A player's bet or settlement reads the wallet without a lock too.  What deletes a wallet
\* deletes the vouchers and rounds with it: then the request is refused and rolled back.
ReadPurse(r) ==
  /\ At(r, "purse")
  /\ LET y == One("purse", req[r].of) IN
     req' = IF db[y].st = "live" THEN [req EXCEPT ![r].at = "bet", ![r].n = db[y].n] ELSE Answer(r, 404)
  /\ UNCHANGED Kept

\* Seeded bug: a bet is not compared with the balance.
BetUnchecked(r) ==
  /\ At(r, "bet")
  /\ LET y == One("purse", req[r].of) IN
     /\ Mine(r, y)
     /\ WriteOne(r, y, [cur[y] EXCEPT !.n = req[r].n - 1])
     /\ req' = Answer(r, 200)

\* wallet.save(): one unit less or more than was read, whatever the wallet holds by now.
\* The UPDATE of one that was deleted since is no error.
Bet(r) ==
  /\ At(r, "bet")
  /\ LET y == One("purse", req[r].of) IN
     /\ Mine(r, y)
     /\ \/ cur[y].st # "live" /\ Reply(r, 200)
        \/ /\ cur[y].st = "live"
           /\ \E n \in {req[r].n - 1, req[r].n + 1} :
                /\ n >= 0 /\ (n > req[r].n => n <= MaxBalance)
                /\ WriteOne(r, y, [cur[y] EXCEPT !.n = n])
           /\ req' = Answer(r, 200)

-----------------------------------------------------------------------------
(* Shifts, devices, messages, keys, a tenant's credits *)

\* The cashier must be one of the tenant's staff.
Cashier(r) ==
  /\ At(r, "cashier")
  /\ IF Present("staff", req[r].of) = {} THEN Reply(r, 404) ELSE Go(r, "find")

TableOf(op) ==
  CASE op = "close" -> "closure"
    [] op = "credits" -> "wallet"
    [] op \in {"register", "unregister", "test"} -> "device"
    [] OTHER -> "message"

\* findOne or findByPk, without a lock; what a SELECT FOR UPDATE finds before it waits.
Find(r) ==
  /\ At(r, "find")
  /\ LET op == req[r].op
         found == Present(TableOf(op), req[r].of)
         missing == IF op \in {"close", "register", "credits"} THEN Goto(r, "insert") ELSE Answer(r, 404) IN
     \/ found = {} /\ req' = missing
     \/ \E y \in found : req' = [req EXCEPT ![r].row = y,
                                            ![r].at = IF op \in {"unregister", "drop"} THEN "destroy" ELSE "update"]
     \/ op \in {"unregister", "read", "drop"} /\ req' = Answer(r, 403)
  /\ UNCHANGED Kept

\* Seeded bug: marking a message read writes the row again.
SaveWhole(r) ==
  /\ At(r, "update") /\ Mine(r, req[r].row)
  /\ WriteOne(r, req[r].row, [st |-> "live", n |-> 1])
  /\ req' = Answer(r, 200)

\* The closure, the device (which is active again) or readAt.
SaveFound(r) ==
  /\ At(r, "update") /\ req[r].op # "credits"
  /\ Update(r, req[r].row, [st |-> "live", n |-> IF req[r].op = "read" THEN 1 ELSE 0])
  /\ req' = Answer(r, 200)

\* POST /owner/tenants/:id/credits locks the wallet (TenantFunds); one deleted meanwhile
\* is no longer found, and its successor was not there when the statement began.
LockWallet(r) ==
  /\ At(r, "update") /\ req[r].op = "credits"
  /\ LET y == req[r].row IN
     /\ Mine(r, y)
     /\ \/ Exists(cur[y]) /\ WriteOne(r, y, cur[y]) /\ req' = Goto(r, "audit")
        \/ ~ Exists(cur[y]) /\ Go(r, "insert")

Destroy(r) ==
  /\ At(r, "destroy")
  /\ Update(r, req[r].row, Is("gone"))
  /\ req' = Answer(r, 200)

\* A new closure, which no foreign key ties to the tenant; a new device, message or wallet.
InsertNew(r) ==
  /\ At(r, "insert")
  /\ LET t == req[r].of IN
     IF req[r].op = "close"
     THEN /\ Unused("closure", t) # {}
          /\ LET y == Next1(Unused("closure", t)) IN WriteOne(r, y, Is("live"))
          /\ req' = Answer(r, 200)
     ELSE Insert(r, TableOf(req[r].op), t, Is("live"),
                 CASE req[r].op = "send" -> Goto(r, "devices")
                   [] req[r].op = "credits" -> Goto(r, "audit")
                   [] OTHER -> Answer(r, 201))

\* The recipient must be there and active.
Recipient(r) ==
  /\ At(r, "recipient")
  /\ IF Present("staff", req[r].of) = {} THEN Reply(r, 404) ELSE Go(r, "insert")

\* sendPushToStaffIds: the active devices.
Devices(r) ==
  /\ At(r, "devices")
  /\ req' = [req EXCEPT ![r].at = "notify", ![r].rows = {y \in Of("device", req[r].of) : db[y].st = "live"}]
  /\ UNCHANGED Kept

\* A push service takes the message, fails or knows the device no more.
Notify(r) ==
  /\ At(r, "notify")
  /\ \/ req[r].rows = {} /\ Reply(r, 200)
     \/ \E y \in req[r].rows :
          /\ req' = [req EXCEPT ![r].rows = @ \ {y}]
          /\ \/ UNCHANGED Kept
             \/ Update(r, y, cur[y])
             \/ Update(r, y, Is("inactive"))

\* StaffKey.upsert, by staffId.
UpsertKey(r) ==
  /\ At(r, "upsert")
  /\ LET t == req[r].of
         y == One("key", t) IN
     /\ Mine(r, y) /\ TenantFree(r, t)
     /\ \/ ~ TenantThere(t) /\ Reply(r, 500)
        \/ /\ TenantThere(t)
           /\ WriteOne(r, y, Is("live"))
           /\ req' = Answer(r, 200)

-----------------------------------------------------------------------------
(* The end of a request *)

Free(r) == [y \in menu.rows |-> IF lock[y] = r THEN NoReq ELSE lock[y]]
Rollback(r) ==
  /\ cur' = [y \in menu.rows |-> IF lock[y] = r THEN db[y] ELSE cur[y]]
  /\ lock' = Free(r)
  /\ UNCHANGED <<db, menu>>

\* What r wrote, and what that is to the requests that are still running.
Writes(r) == {y \in menu.rows : lock[y] = r /\ cur[y] # db[y]}
Noted(r) ==
  [s \in Reqs |->
     IF s = r THEN NoWork
     ELSE IF ~ Running(s) THEN req[s]
     ELSE [req[s] EXCEPT !.moved = @ \cup {y \in Writes(r) : Cares(req[s].op, req[s].of, y)}]]

\* attachLifecycle; COMMIT of a transaction Postgres has given up is a rollback.
Finish(r) ==
  /\ At(r, "respond")
  /\ IF req[r].status < 400 /\ req[r].tx = "open"
     THEN /\ db' = [y \in menu.rows |-> IF lock[y] = r THEN cur[y] ELSE db[y]]
          /\ lock' = Free(r)
          /\ req' = Noted(r)
          /\ UNCHANGED <<cur, menu>>
     ELSE Rollback(r) /\ req' = [req EXCEPT ![r] = NoWork]

\* The connection closes first, a statement fails, or the process dies.
Close(r) ==
  /\ Running(r)
  /\ Rollback(r)
  /\ req' = [req EXCEPT ![r] = NoWork]

\* The requests that hold what r wants next.
Wanted(r) ==
  LET t == req[r].of
      tenant == One("tenant", t) IN
  CASE At(r, "sweep") \/ At(r, "notify") -> req[r].rows
    [] At(r, "next") /\ req[r].todo # << >> -> {One("tenant", Head(req[r].todo).of)} \cap menu.rows
    [] At(r, "insert") -> {tenant}
    [] At(r, "upsert") -> {tenant, One("key", t)}
    [] At(r, "lock") -> {tenant}
    [] At(r, "credit") -> {tenant, One("purse", t)}
    [] At(r, "bet") -> {One("purse", t)}
    [] At(r, "mark") -> {One(IF req[r].op = "markPaid" THEN "intent" ELSE "withdrawal", t)}
    [] At(r, "password") -> {One("staff", t)}
    [] At(r, "rootKey") -> {One("rootKey", t)}
    [] At(r, "check") \/ At(r, "insertTenant") -> SameName(t)
    [] At(r, "dropTenant") -> {y \in menu.rows : y[2] = t}
    [] OTHER -> {}
WaitsFor(r) ==
  ({lock[y] : y \in Wanted(r)} \cup (IF At(r, "lock") THEN Inserters(req[r].of) ELSE {})) \ {r, NoReq}

\* Postgres aborts one transaction of a cycle; its handler answers 500.
DeadlockVictim(r) ==
  /\ \E s \in WaitsFor(r) : r \in WaitsFor(s)
  /\ Rollback(r)
  /\ req' = Answer(r, 500)

HandlerStep(r) ==
  \/ OwnerAuth(r) \/ StaffAuth(r) \/ NoAuth(r)
  \/ Load(r) \/ Save(r) \/ CheckName(r) \/ InsertTenant(r)
  \/ Confirm(r) \/ NextTenant(r) \/ LockTenant(r) \/ StartDelete(r) \/ SweepRow(r)
  \/ WipeInsert(r) \/ StatementsDone(r) \/ DropTenant(r)
  \/ FindRoot(r) \/ SavePassword(r) \/ UpsertRootKey(r) \/ StampRecord(r) \/ ReadChain(r) \/ WriteChain(r)
  \/ ReadIntent(r) \/ ReadBalance(r) \/ Credit(r) \/ Mark(r) \/ ReadPurse(r) \/ Bet(r)
  \/ Cashier(r) \/ Find(r) \/ SaveFound(r) \/ LockWallet(r) \/ Destroy(r) \/ InsertNew(r)
  \/ Recipient(r) \/ Devices(r) \/ Notify(r) \/ UpsertKey(r)
  \/ Finish(r)

Next == \E r \in Reqs : Begin(r) \/ HandlerStep(r) \/ Close(r) \/ DeadlockVictim(r)

Spec == Init /\ [][Next]_vars

\* Handlers run on; Postgres queues who waits for a row and breaks cycles.
FairSpec == Spec /\ \A r \in Reqs : SF_vars(HandlerStep(r)) /\ WF_vars(DeadlockVictim(r))

-----------------------------------------------------------------------------
(* Properties *)

Statement == [sql : {"DELETE", "INSERT"}, table : Tables, of : Scopes \cup {"all"}]
Work == [at : Places, op : Ops, of : Scopes \cup {"nobody"}, row : Rows \cup {Nothing}, n : Nat,
         seen : [Fields -> Nat], patched : SUBSET Fields, todo : Seq(Statement),
         left : SUBSET Tenants, rows : SUBSET Rows, status : {0, 200, 201, 400, 401, 403, 404, 409, 500},
         tx : {"none", "open", "aborted"}, began : SUBSET Rows, moved : SUBSET Rows]

\* The type invariant of the rows, their locks and the request records.
TypeOK ==
  /\ db \in [menu.rows -> Row] /\ cur \in [menu.rows -> Row]
  /\ lock \in [menu.rows -> Reqs \cup {NoReq}]
  /\ req \in [Reqs -> Work]
  /\ menu \in Menus

\* Row y comes into being by the commit of request r.
Makes(r, y) == lock[y] = r /\ ~ Exists(db[y]) /\ Exists(db'[y])

\* The settings are read, merged and written back without a lock (ownerTenants.js:1396,
\* tenantConfig.js:237), and so one of two overlapping saves can undo the other.  But a
\* save never changes a setting it was not asked to change unless another request's save
\* of that setting committed after it arrived.
SettingsKeepOthers ==
  [][\A r \in Reqs, y \in menu.rows :
       y[1] = "settings" /\ lock[y] = r /\ db'[y].n # db[y].n /\ db'[y].st = "live" =>
         y[3] \in req[r].patched \/ y \in req[r].moved]_db

\* finance.js:60 and 71 and games.js:43 read the deposit's status and the wallet without a
\* lock, and save what they made of them.  So two overlapping mark-paids can credit one
\* deposit twice, and a bet that overlaps a mark-paid can undo its credit.  But a deposit
\* that was credited before a mark-paid arrived is not credited again, the money commits
\* together with the status, and a credit, a bet or a win moves the wallet by its own
\* amount exactly unless another change of the wallet committed since it arrived.
CreditsPairWithStatus ==
  [][\A r \in Reqs, y \in menu.rows :
       y[1] = "purse" /\ req[r].op \in {"markPaid", "bet"} /\ lock[y] = r /\ db'[y] # db[y] =>
         LET intent == One("intent", y[2]) IN
         /\ req[r].op = "markPaid" => intent \in req[r].began /\ db'[intent].st # "live"
         /\ \/ y \in req[r].moved
            \/ db'[y].n - db[y].n \in IF req[r].op = "markPaid" THEN {Amount} ELSE {1, -1}]_db

\* One shift closure per shift, one row per device, one wallet and one voucher pool per
\* tenant: nothing but a look before the insert keeps it so (adminShifts.js:215,
\* staffPush.js:85, wipeService.js:77, ownerTenants.js:1523), and a second row takes two
\* requests that overlap: two wipes, or a wipe and an issue of credits that waits for it.
DoublesOverlap ==
  [][\A r \in Reqs, y \in menu.rows :
       Makes(r, y) /\ y[1] \in {"closure", "device", "wallet", "pool"} =>
         \/ \A z \in Of(y[1], y[2]) \ {y} : ~ Exists(db'[z])
         \/ Of(y[1], y[2]) \cap req[r].moved # {}]_db

\* When a wipe or a deletion is answered 200, no row it is about that was there when it
\* arrived is left, however many rows it had to wait for.  Only a staff key may be back,
\* which another request deleted meanwhile and a third stored again (staffMessages.js:28).
WipesComplete ==
  \A r \in Reqs :
    At(r, "respond") /\ req[r].status = 200 /\ req[r].op \in Wipes =>
      \A y \in req[r].began :
        y[1] \in Children \cup (IF req[r].op = "delete" THEN Settings \cup {"tenant"} ELSE {})
          => cur[y].st = "gone" \/ (y[1] \notin FreshId /\ y \in req[r].moved)

\* A tenant has its distributor, a wallet and a voucher pool, alone bears its identifier,
\* and leaves no row behind that belongs to a tenant: creation, deletion and wipes are
\* all or nothing, and nothing is inserted below a tenant while it is deleted.
TenantsWhole ==
  \A t \in {u \in Tenants : One("tenant", u) \in menu.rows} :
    IF TenantThere(t)
    THEN /\ db[One("distributor", t)].st = "live"
         /\ Present("wallet", t) # {} /\ Present("pool", t) # {}
         /\ \A u \in Tenants \ {t} : NameOf[u] = NameOf[t] => ~ TenantThere(u)
    ELSE /\ db[One("distributor", t)].st # "live"
         /\ \A y \in Below(t) : ~ Exists(db[y])

\* Nothing ties settings, shift closures and audit records to their tenant's row.  Still a
\* request that arrives after the tenant is gone adds none: the staff member is gone with
\* it (adminShifts.js:208, staffAuth.js:92), and an owner's request looks it up.
GoneTenantsStayGone ==
  [][\A r \in Reqs, y \in menu.rows :
       Makes(r, y) /\ y[2] \in Tenants /\ req[r].op \notin {"create", "wipeAll"} =>
         One("tenant", y[2]) \in req[r].began \cup req[r].moved]_db

\* A row that was deleted stays deleted, whatever read it before: marking a message read
\* or a device active must not bring it back after a purge.
DeletedForGood ==
  [][\A y \in menu.rows : y[1] \in FreshId /\ db[y].st = "gone" => db'[y].st = "gone"]_db

\* Each audit record names its tenant's newest record, read without a lock and after the
\* new record got its time (audit.js:67, 71).  So a record may name a later one, but only
\* one whose request it overlapped; and of two records with one predecessor, either the
\* requests overlapped or the first is such a late one.
AuditChained ==
  [][\A r \in Reqs, y \in menu.rows :
       Makes(r, y) /\ y[1] = "audit" =>
         /\ db'[y].n >= y[3] => <<"audit", y[2], db'[y].n>> \in req[r].moved
         /\ \A z \in Of("audit", y[2]) \ {y} :
              db'[z].st = "live" /\ db'[z].n = db'[y].n =>
                z \in req[r].moved \/ db'[z].n > z[3]]_db

\* Every request is answered and over in the end, deadlocks included: a wipe takes the
\* deposits before the wallets, mark-paid the wallet before the deposit.
EveryRequestEnds == \A r \in Reqs : Running(r) ~> ~ Running(r)
=============================================================================
