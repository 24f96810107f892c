-------------------------- MODULE BackOffice_proofs --------------------------
(***************************************************************************)
(* Theorems about BackOffice, for any tenants, rows, menus and number of   *)
(* requests that overlap: its types, what a request may hold and what it   *)
(* found before it writes, and that deleted rows stay deleted.             *)
(***************************************************************************)
EXTENDS BackOffice, TLAPS, WellFoundedInduction, NaturalsInduction

Kind(op) == IF op = "markPaid" THEN "intent" ELSE "withdrawal"

\* The tables a request may lock rows of, all of them of its own scope but for wipeAll.
Locks(op) ==
  CASE op \in {"system", "brand", "config", "ownerConfig"} -> {"settings"}
    [] op = "create" -> {"tenant", "distributor", "wallet", "pool", "staff", "rootKey", "settings", "audit"}
    [] op = "delete" -> Children \cup Settings \cup {"tenant", "distributor", "audit"}
    [] op \in {"wipe", "wipeAll"} -> Children
    [] op \in {"thread", "purge", "read", "drop"} -> {"message"}
    [] op = "reset" -> {"staff", "rootKey", "audit"}
    [] op = "credits" -> {"wallet", "audit"}
    [] op = "markPaid" -> {"purse", "payment", "intent"}
    [] op = "markSent" -> {"withdrawal"}
    [] op = "bet" -> {"purse"}
    [] op = "close" -> {"closure"}
    [] op \in {"register", "unregister", "test"} -> {"device"}
    [] op = "send" -> {"message", "device"}
    [] op = "key" -> {"key"}
    [] OTHER -> {}
Touches(op, s, y) == y[1] \in Locks(op) /\ (op = "wipeAll" \/ y[2] = s)

\* A statement of the request w.
Meant(w, stmt) ==
  /\ stmt.sql = "INSERT" => stmt.table \in Balances /\ w.op \in {"wipe", "wipeAll"}
  /\ w.op \in {"thread", "purge"} => stmt.table = "message" /\ stmt.of = w.of
  /\ w.op = "delete" => stmt.table \in Children \cup Settings /\ stmt.of = w.of
  /\ w.op = "wipe" => stmt.table \in Children /\ stmt.of = w.of
  /\ w.op = "wipeAll" => stmt.table \in Children /\ (stmt.of = "all" => stmt.table = "staff")

\* What a request's record says by itself.
Local(w) ==
  /\ w.at # "idle" => <<w.op, w.of>> \in menu.meet
  /\ w.at = "load" => w.op \in {"system", "config", "ownerConfig"}
  /\ w.at = "save" => w.op \in {"system", "brand", "config", "ownerConfig"}
  /\ w.at \in {"check", "insertTenant"} => w.op = "create"
  /\ w.at \in {"lock", "dropTenant"} => w.op = "delete"
  /\ w.at = "confirm" => w.op \in {"wipe", "wipeAll"} /\ w.todo = << >>
  /\ w.at \in {"next", "sweep"} => w.op \in Wipes \cup {"thread", "purge"}
  /\ w.at \in {"root", "password", "rootKey"} => w.op = "reset"
  /\ w.at \in {"audit", "stamped", "chain"} => w.op \in {"delete", "create", "reset", "credits"}
  /\ w.at = "intent" => w.op \in {"markPaid", "markSent"}
  /\ w.at \in {"balance", "credit"} => w.op = "markPaid"
  /\ w.at = "mark" => w.op \in {"markPaid", "markSent"}
  /\ w.at \in {"purse", "bet"} => w.op = "bet"
  /\ w.at = "cashier" => w.op = "close"
  /\ w.at = "find" => w.op \in {"close", "credits", "register", "unregister", "read", "drop"}
  /\ w.at = "insert" => w.op \in {"close", "credits", "register", "send"}
  /\ w.at = "update" => w.op \in {"close", "credits", "register", "read"}
  /\ w.at = "destroy" => w.op \in {"unregister", "drop"}
  /\ w.at = "recipient" => w.op = "send"
  /\ w.at \in {"devices", "notify"} => w.op \in {"send", "test"}
  /\ w.at = "upsert" => w.op = "key"
  /\ w.at \in {"next", "sweep"} => \A i \in DOMAIN w.todo : Meant(w, w.todo[i])
  /\ w.at = "sweep" => w.todo # << >> /\ w.rows \subseteq Aimed(w.todo[1])
  /\ w.at \in {"next", "sweep"} /\ w.op = "wipe" => w.left \subseteq {w.of}
  /\ w.at = "notify" => w.rows \subseteq Of("device", w.of)
  /\ w.at \in {"update", "destroy"} => w.row \in Of(TableOf(w.op), w.of)
  /\ w.at \in {"stamped", "chain"} => w.row \in Of("audit", w.of)
LocalPart == \A r \in Reqs : Local(req[r])

\* A row that has ever been there, in either version.
Known(y) == db[y].st # "none"
Seen(y) == db[y].st # "none" \/ cur[y].st # "none"

\* What a lock on row y says of the request r that holds it.
Holds(r, y) ==
  /\ req[r].at \notin {"idle", "auth"}
  /\ Touches(req[r].op, req[r].of, y)
  /\ Seen(y)
  /\ y[2] \in Tenants /\ ~ Known(One("tenant", y[2])) =>
       req[r].op = "create" /\ lock[One("tenant", y[2])] = r /\ cur[One("tenant", y[2])].st = "live"

RowsPart ==
  /\ \A y \in menu.rows :
       /\ lock[y] = NoReq => cur[y] = db[y]
       /\ Known(y) => cur[y].st # "none"
       /\ y[1] \in FreshId /\ db[y].st = "gone" => cur[y].st = "gone"
       /\ y[2] \in Tenants /\ ~ Known(One("tenant", y[2])) => ~ Known(y)
  /\ \A r \in Reqs, y \in menu.rows : lock[y] = r => Holds(r, y)

\* Requests whose tenant was there when they were let in.
Resolved(op) == op \notin {"create", "wipeAll", "bet", "purge", "system", "brand"}

\* What a request has read of rows that others may change.
Facts(r) ==
  LET w == req[r] IN
  /\ w.at \notin {"idle", "auth", "respond"} /\ Resolved(w.op) => Known(One("tenant", w.of))
  /\ w.at \in {"auth", "check", "insertTenant"} /\ w.op = "create" => ~ Seen(One("tenant", w.of))
  /\ w.at \in {"update", "destroy"} => Known(w.row)
  /\ w.at \in {"sweep", "notify"} => \A y \in w.rows : Known(y) \/ lock[y] = r
  /\ w.at \in {"balance", "credit", "mark"} => Known(One(Kind(w.op), w.of))
  /\ w.at = "credit" => Known(One("purse", w.of))
  /\ w.at = "password" => Known(One("staff", w.of))
  /\ w.at \in {"audit", "stamped", "chain"} /\ w.op = "create" =>
       lock[One("tenant", w.of)] = r /\ cur[One("tenant", w.of)].st = "live"
  /\ w.at \in {"stamped", "chain"} => ~ Seen(w.row) /\ \A q \in Reqs \ {r} : req[q].row # w.row
FactsPart ==
  /\ \A r \in Reqs : Facts(r)
  /\ \A r, q \in Reqs : req[r].at # "idle" /\ req[r].op = "create" /\ req[q].at # "idle" /\ req[q].op = "create"
                          /\ req[r].of = req[q].of => r = q

IInv == TypeOK /\ LocalPart /\ RowsPart /\ FactsPart

-----------------------------------------------------------------------------
(* Steps of a request *)

Every == {"at", "row", "n", "seen", "patched", "todo", "left", "rows", "status", "tx"}

\* Records w and u differ in the fields S at most.
Only(w, u, S) ==
  /\ w.op = u.op /\ w.of = u.of /\ w.began = u.began /\ w.moved = u.moved
  /\ "at" \notin S => w.at = u.at
  /\ "row" \notin S => w.row = u.row
  /\ "n" \notin S => w.n = u.n
  /\ "seen" \notin S => w.seen = u.seen
  /\ "patched" \notin S => w.patched = u.patched
  /\ "todo" \notin S => w.todo = u.todo
  /\ "left" \notin S => w.left = u.left
  /\ "rows" \notin S => w.rows = u.rows
  /\ "status" \notin S => w.status = u.status
  /\ "tx" \notin S => w.tx = u.tx

\* Request r moves on; the other requests do not.
Moves(r, S) ==
  /\ req' \in [Reqs -> Work] /\ Only(req'[r], req[r], S)
  /\ \A q \in Reqs \ {r} : req'[q] = req[q]

\* Row y gets a new version, or none but a lock, from r.
Changed(r, y) ==
  /\ lock'[y] = r /\ lock[y] \in {r, NoReq}
  /\ Touches(req[r].op, req[r].of, y)
  /\ cur'[y].st # "none"
  /\ y[1] \in FreshId /\ cur[y].st = "gone" => cur'[y].st = "gone"
  /\ Seen(y) \/ y[1] # "audit" \/ \A q \in Reqs \ {r} : req[q].row # y
  /\ y[2] \in Tenants /\ ~ Known(One("tenant", y[2])) =>
       req[r].op = "create" /\ lock'[One("tenant", y[2])] = r /\ cur'[One("tenant", y[2])].st = "live"

\* r may have changed rows, and committed nothing.
Versions(r) ==
  /\ db' = db /\ menu' = menu
  /\ cur' \in [menu.rows -> Row] /\ lock' \in [menu.rows -> Reqs \cup {NoReq}]
  /\ \A y \in menu.rows : (cur'[y] = cur[y] /\ lock'[y] = lock[y]) \/ (req[r].at # "auth" /\ Changed(r, y))

\* A step of the handler of r before its end.
Acts(r) ==
  /\ req[r].at # "idle" /\ req'[r].at \notin {"idle", "auth"}
  /\ Moves(r, Every)
  /\ \/ req'[r].row = req[r].row
     \/ Known(req'[r].row)
     \/ \A q \in Reqs \ {r} : req[q].row # req'[r].row
  /\ Versions(r)

Statuses == {0, 200, 201, 400, 401, 403, 404, 409, 500}

\* Work, with a name for the set of each field so that the provers need not look into it.
Type == [at |-> Places, op |-> Ops, of |-> Scopes \cup {"nobody"}, row |-> Rows \cup {Nothing}, n |-> Nat,
         seen |-> [Fields -> Nat], patched |-> SUBSET Fields, todo |-> Seq(Statement),
         left |-> SUBSET Tenants, rows |-> SUBSET Rows, status |-> Statuses,
         tx |-> {"none", "open", "aborted"}, began |-> SUBSET Rows, moved |-> SUBSET Rows]
Records(T) ==
  [at : T.at, op : T.op, of : T.of, row : T.row, n : T.n, seen : T.seen, patched : T.patched, todo : T.todo,
   left : T.left, rows : T.rows, status : T.status, tx : T.tx, began : T.began, moved : T.moved]

LEMMA WorkIs == Work = Records(Type)
<1>1. /\ Type.at = Places /\ Type.op = Ops /\ Type.of = Scopes \cup {"nobody"} /\ Type.row = Rows \cup {Nothing}
      /\ Type.n = Nat /\ Type.seen = [Fields -> Nat] /\ Type.patched = SUBSET Fields /\ Type.todo = Seq(Statement)
      /\ Type.left = SUBSET Tenants /\ Type.rows = SUBSET Rows
      /\ Type.status = Statuses /\ Type.tx = {"none", "open", "aborted"}
      /\ Type.began = SUBSET Rows /\ Type.moved = SUBSET Rows
  BY DEF Type
<1> QED
  BY ONLY <1>1, ZenonT(60) DEF Work, Records, Statuses

LEMMA RecordAt ==
  ASSUME NEW T, NEW u \in Records(T), NEW x \in T.at
  PROVE  LET w == [u EXCEPT !.at = x] IN w \in Records(T) /\ w.at = x /\ Only(w, u, {"at"})
BY SMT DEF Records, Only

LEMMA SetAt ==
  ASSUME NEW u \in Work, NEW x \in Places
  PROVE  LET w == [u EXCEPT !.at = x] IN w \in Work /\ w.at = x /\ Only(w, u, {"at"})
<1>1. u \in Records(Type) /\ x \in Type.at
  BY WorkIs DEF Type
<1> QED
  BY ONLY <1>1, RecordAt, WorkIs, SMT

LEMMA RecordRow ==
  ASSUME NEW T, NEW u \in Records(T), NEW x \in T.row
  PROVE  LET w == [u EXCEPT !.row = x] IN w \in Records(T) /\ w.row = x /\ Only(w, u, {"row"})
BY SMT DEF Records, Only

LEMMA SetRow ==
  ASSUME NEW u \in Work, NEW x \in Rows \cup {Nothing}
  PROVE  LET w == [u EXCEPT !.row = x] IN w \in Work /\ w.row = x /\ Only(w, u, {"row"})
<1>1. u \in Records(Type) /\ x \in Type.row
  BY WorkIs DEF Type
<1> QED
  BY ONLY <1>1, RecordRow, WorkIs, SMT

LEMMA RecordN ==
  ASSUME NEW T, NEW u \in Records(T), NEW x \in T.n
  PROVE  LET w == [u EXCEPT !.n = x] IN w \in Records(T) /\ w.n = x /\ Only(w, u, {"n"})
BY SMT DEF Records, Only

LEMMA SetN ==
  ASSUME NEW u \in Work, NEW x \in Nat
  PROVE  LET w == [u EXCEPT !.n = x] IN w \in Work /\ w.n = x /\ Only(w, u, {"n"})
<1>1. u \in Records(Type) /\ x \in Type.n
  BY WorkIs DEF Type
<1> QED
  BY ONLY <1>1, RecordN, WorkIs, SMT

LEMMA RecordSeen ==
  ASSUME NEW T, NEW u \in Records(T), NEW x \in T.seen
  PROVE  LET w == [u EXCEPT !.seen = x] IN w \in Records(T) /\ w.seen = x /\ Only(w, u, {"seen"})
BY SMT DEF Records, Only

LEMMA SetSeen ==
  ASSUME NEW u \in Work, NEW x \in [Fields -> Nat]
  PROVE  LET w == [u EXCEPT !.seen = x] IN w \in Work /\ w.seen = x /\ Only(w, u, {"seen"})
<1>1. u \in Records(Type) /\ x \in Type.seen
  BY WorkIs DEF Type
<1> QED
  BY ONLY <1>1, RecordSeen, WorkIs, SMT

LEMMA RecordPatched ==
  ASSUME NEW T, NEW u \in Records(T), NEW x \in T.patched
  PROVE  LET w == [u EXCEPT !.patched = x] IN w \in Records(T) /\ w.patched = x /\ Only(w, u, {"patched"})
BY SMT DEF Records, Only

LEMMA SetPatched ==
  ASSUME NEW u \in Work, NEW x \in SUBSET Fields
  PROVE  LET w == [u EXCEPT !.patched = x] IN w \in Work /\ w.patched = x /\ Only(w, u, {"patched"})
<1>1. u \in Records(Type) /\ x \in Type.patched
  BY WorkIs DEF Type
<1> QED
  BY ONLY <1>1, RecordPatched, WorkIs, SMT

LEMMA RecordTodo ==
  ASSUME NEW T, NEW u \in Records(T), NEW x \in T.todo
  PROVE  LET w == [u EXCEPT !.todo = x] IN w \in Records(T) /\ w.todo = x /\ Only(w, u, {"todo"})
BY SMT DEF Records, Only

LEMMA SetTodo ==
  ASSUME NEW u \in Work, NEW x \in Seq(Statement)
  PROVE  LET w == [u EXCEPT !.todo = x] IN w \in Work /\ w.todo = x /\ Only(w, u, {"todo"})
<1>1. u \in Records(Type) /\ x \in Type.todo
  BY WorkIs DEF Type
<1> QED
  BY ONLY <1>1, RecordTodo, WorkIs, ZenonT(60)

LEMMA RecordLeft ==
  ASSUME NEW T, NEW u \in Records(T), NEW x \in T.left
  PROVE  LET w == [u EXCEPT !.left = x] IN w \in Records(T) /\ w.left = x /\ Only(w, u, {"left"})
BY SMT DEF Records, Only

LEMMA SetLeft ==
  ASSUME NEW u \in Work, NEW x \in SUBSET Tenants
  PROVE  LET w == [u EXCEPT !.left = x] IN w \in Work /\ w.left = x /\ Only(w, u, {"left"})
<1>1. u \in Records(Type) /\ x \in Type.left
  BY WorkIs DEF Type
<1> QED
  BY ONLY <1>1, RecordLeft, WorkIs, SMT

LEMMA RecordRows ==
  ASSUME NEW T, NEW u \in Records(T), NEW x \in T.rows
  PROVE  LET w == [u EXCEPT !.rows = x] IN w \in Records(T) /\ w.rows = x /\ Only(w, u, {"rows"})
BY SMT DEF Records, Only

LEMMA SetRows ==
  ASSUME NEW u \in Work, NEW x \in SUBSET Rows
  PROVE  LET w == [u EXCEPT !.rows = x] IN w \in Work /\ w.rows = x /\ Only(w, u, {"rows"})
<1>1. u \in Records(Type) /\ x \in Type.rows
  BY WorkIs DEF Type
<1> QED
  BY ONLY <1>1, RecordRows, WorkIs, SMT

LEMMA RecordStatus ==
  ASSUME NEW T, NEW u \in Records(T), NEW x \in T.status
  PROVE  LET w == [u EXCEPT !.status = x] IN w \in Records(T) /\ w.status = x /\ Only(w, u, {"status"})
BY SMT DEF Records, Only

LEMMA SetStatus ==
  ASSUME NEW u \in Work, NEW x \in Statuses
  PROVE  LET w == [u EXCEPT !.status = x] IN w \in Work /\ w.status = x /\ Only(w, u, {"status"})
<1>1. u \in Records(Type) /\ x \in Type.status
  BY WorkIs DEF Type
<1> QED
  BY ONLY <1>1, RecordStatus, WorkIs, SMT

LEMMA RecordTx ==
  ASSUME NEW T, NEW u \in Records(T), NEW x \in T.tx
  PROVE  LET w == [u EXCEPT !.tx = x] IN w \in Records(T) /\ w.tx = x /\ Only(w, u, {"tx"})
BY SMT DEF Records, Only

LEMMA SetTx ==
  ASSUME NEW u \in Work, NEW x \in {"none", "open", "aborted"}
  PROVE  LET w == [u EXCEPT !.tx = x] IN w \in Work /\ w.tx = x /\ Only(w, u, {"tx"})
<1>1. u \in Records(Type) /\ x \in Type.tx
  BY WorkIs DEF Type
<1> QED
  BY ONLY <1>1, RecordTx, WorkIs, SMT

\* Records w and u differ in what has moved at most.
Alike(w, u) ==
  /\ w.at = u.at /\ w.op = u.op /\ w.of = u.of /\ w.row = u.row /\ w.n = u.n /\ w.seen = u.seen
  /\ w.patched = u.patched /\ w.todo = u.todo /\ w.left = u.left /\ w.rows = u.rows
  /\ w.status = u.status /\ w.tx = u.tx /\ w.began = u.began

LEMMA RecordMoved ==
  ASSUME NEW T, NEW u \in Records(T), NEW x \in T.moved
  PROVE  LET w == [u EXCEPT !.moved = x] IN w \in Records(T) /\ w.moved = x /\ Alike(w, u)
BY SMT DEF Records, Alike

LEMMA SetMoved ==
  ASSUME NEW u \in Work, NEW x \in SUBSET Rows
  PROVE  LET w == [u EXCEPT !.moved = x] IN w \in Work /\ w.moved = x /\ Alike(w, u)
<1>1. u \in Records(Type) /\ x \in Type.moved
  BY WorkIs DEF Type
<1> QED
  BY ONLY <1>1, RecordMoved, WorkIs, SMT


LEMMA RecordFields ==
  ASSUME NEW T, NEW u \in Records(T)
  PROVE  /\ u.at \in T.at /\ u.op \in T.op /\ u.of \in T.of /\ u.row \in T.row /\ u.n \in T.n
         /\ u.seen \in T.seen /\ u.patched \in T.patched /\ u.todo \in T.todo /\ u.left \in T.left
         /\ u.rows \in T.rows /\ u.status \in T.status /\ u.tx \in T.tx /\ u.began \in T.began
         /\ u.moved \in T.moved
BY SMT DEF Records

LEMMA WorkFields ==
  ASSUME NEW u \in Work
  PROVE  /\ u.at \in Places /\ u.op \in Ops /\ u.of \in Scopes \cup {"nobody"}
         /\ u.row \in Rows \cup {Nothing} /\ u.n \in Nat /\ u.seen \in [Fields -> Nat]
         /\ u.patched \in SUBSET Fields /\ u.todo \in Seq(Statement) /\ u.left \in SUBSET Tenants
         /\ u.rows \in SUBSET Rows /\ u.status \in Statuses /\ u.tx \in {"none", "open", "aborted"}
         /\ u.began \in SUBSET Rows /\ u.moved \in SUBSET Rows
<1>1. u \in Records(Type)
  BY WorkIs
<1>2. /\ u.at \in Type.at /\ u.op \in Type.op /\ u.of \in Type.of /\ u.row \in Type.row /\ u.n \in Type.n
      /\ u.seen \in Type.seen /\ u.patched \in Type.patched /\ u.todo \in Type.todo /\ u.left \in Type.left
      /\ u.rows \in Type.rows /\ u.status \in Type.status /\ u.tx \in Type.tx /\ u.began \in Type.began
      /\ u.moved \in Type.moved
  BY ONLY <1>1, RecordFields, Zenon
<1> QED
  BY <1>2 DEF Type

LEMMA NoWorkIs == NoWork \in Work
<1>1. /\ "idle" \in Places /\ "purge" \in Ops /\ Nothing \in Rows \cup {Nothing} /\ 0 \in Nat
      /\ [f \in Fields |-> 0] \in [Fields -> Nat] /\ {} \in SUBSET Fields /\ << >> \in Seq(Statement)
      /\ {} \in SUBSET Tenants /\ {} \in SUBSET Rows /\ "nobody" \in Scopes \cup {"nobody"}
      /\ 0 \in Statuses /\ "none" \in {"none", "open", "aborted"}
  BY DEF Places, Ops, Statuses
<1> QED
  BY ONLY <1>1, ZenonT(60) DEF NoWork, Work, Statuses

LEMMA Put ==
  ASSUME TypeOK, NEW r \in Reqs, NEW w \in Work, req' = [req EXCEPT ![r] = w]
  PROVE  req' \in [Reqs -> Work] /\ req'[r] = w /\ \A q \in Reqs \ {r} : req'[q] = req[q]
BY DEF TypeOK

LEMMA GotoMoves ==
  ASSUME TypeOK, NEW r \in Reqs, NEW place \in Places, req' = Goto(r, place)
  PROVE  Moves(r, {"at"}) /\ req'[r].at = place
<1> DEFINE w == [req[r] EXCEPT !.at = place]
<1>1. req[r] \in Work
  BY DEF TypeOK
<1>2. w \in Work /\ w.at = place /\ Only(w, req[r], {"at"})
  BY <1>1, SetAt, Zenon
<1>3. req' = [req EXCEPT ![r] = w]
  BY Zenon DEF Goto
<1> HIDE DEF w
<1> QED
  BY <1>2, <1>3, Put DEF Moves

LEMMA AnswerMoves ==
  ASSUME TypeOK, NEW r \in Reqs, NEW status \in Statuses, req' = Answer(r, status)
  PROVE  Moves(r, {"at", "status"}) /\ req'[r].at = "respond" /\ req'[r].status = status
<1> DEFINE a == [req[r] EXCEPT !.at = "respond"]
           w == [a EXCEPT !.status = status]
<1>0. req[r] \in Work /\ "respond" \in Places
  BY DEF TypeOK, Places
<1>1. a \in Work /\ a.at = "respond" /\ Only(a, req[r], {"at"})
  BY <1>0, SetAt, Zenon
<1>3. req' = [req EXCEPT ![r] = w]
  BY Zenon DEF Answer
<1> HIDE DEF a
<1>2. w \in Work /\ w.status = status /\ Only(w, a, {"status"})
  BY <1>1, SetStatus, Zenon
<1> HIDE DEF w
<1>4. Only(w, req[r], {"at", "status"}) /\ w.at = "respond"
  BY <1>1, <1>2 DEF Only
<1> QED
  BY <1>2, <1>3, <1>4, Put DEF Moves

LEMMA TenantRow == ASSUME menu \in Menus, NEW y \in menu.rows, y[2] \in Tenants
                   PROVE  One("tenant", y[2]) \in menu.rows /\ One("distributor", y[2]) \in menu.rows
BY NamedAssumption DEF One

\* The step of a handler keeps the invariant if what it leaves in its own record is right.
LEMMA ActsInv ==
  ASSUME IInv, NEW r \in Reqs, Acts(r), Local(req[r])', Facts(r)'
  PROVE  IInv'
<1> USE DEF Known, Seen
<1>0. /\ db \in [menu.rows -> Row] /\ req \in [Reqs -> Work] /\ menu \in Menus /\ db' = db /\ menu' = menu
      /\ lock \in [menu.rows -> Reqs \cup {NoReq}] /\ NoReq \notin Reqs
  BY NamesAssumption DEF IInv, TypeOK, Acts, Versions
<1>1. TypeOK'
  BY DEF IInv, TypeOK, Acts, Versions, Moves
<1>2. \A q \in Reqs \ {r} : req'[q] = req[q]
  BY DEF Acts, Moves
<1>3. /\ req'[r].op = req[r].op /\ req'[r].of = req[r].of
      /\ req[r].at # "idle" /\ req'[r].at \notin {"idle", "auth"}
  <2>1. /\ Moves(r, Every)
        /\ req[r].at # "idle" /\ req'[r].at \notin {"idle", "auth"}
    BY DEF Acts
  <2> QED
    BY ONLY <2>1, Zenon DEF Moves, Only
<1>4. \A y \in menu.rows : (cur'[y] = cur[y] /\ lock'[y] = lock[y]) \/ (req[r].at # "auth" /\ Changed(r, y))
  BY DEF Acts, Versions
<1>5. LocalPart'
  <2> SUFFICES ASSUME NEW q \in Reqs PROVE Local(req[q])'
    BY DEF LocalPart
  <2>1. CASE q = r
    BY <2>1
  <2>2. CASE q # r
    <3>1. req'[q] = req[q] /\ Local(req[q])
      BY <1>2, <2>2 DEF IInv, LocalPart
    <3> QED
      BY <1>0, <3>1 DEF Local, Aimed, Of
  <2> QED
    BY <2>1, <2>2
<1>6. RowsPart'
  <2>1. ASSUME NEW y \in menu.rows
        PROVE  /\ lock'[y] = NoReq => cur'[y] = db'[y]
               /\ Known(y)' => cur'[y].st # "none"
               /\ y[1] \in FreshId /\ db'[y].st = "gone" => cur'[y].st = "gone"
               /\ y[2] \in Tenants /\ ~ Known(One("tenant", y[2]))' => ~ Known(y)'
    BY <1>0, <1>4, <2>1 DEF Changed, IInv, RowsPart
  <2>2. ASSUME NEW q \in Reqs, NEW y \in menu.rows, lock'[y] = q
        PROVE  Holds(q, y)'
    <3> DEFINE T == One("tenant", y[2])
    <3>1. y[2] \in Tenants => T \in menu.rows /\ T[2] = y[2]
      BY <1>0, TenantRow DEF One
    <3> HIDE DEF T
    <3>2. CASE cur'[y] = cur[y] /\ lock'[y] = lock[y]
      <4>1. Holds(q, y)
        BY <2>2, <3>2 DEF IInv, RowsPart
      <4>2. req'[q].at \notin {"idle", "auth"} /\ Touches(req'[q].op, req'[q].of, y)
        BY <1>2, <1>3, <4>1 DEF Holds
      <4>3. Seen(y)'
        BY <1>0, <3>2, <4>1 DEF Holds
      <4>4. ASSUME y[2] \in Tenants, ~ Known(T)
            PROVE  req'[q].op = "create" /\ lock'[T] = q /\ cur'[T].st = "live"
        <5>1. req[q].op = "create" /\ lock[T] = q /\ cur[T].st = "live"
          BY <4>1, <4>4 DEF Holds, T
        <5>2. CASE cur'[T] = cur[T] /\ lock'[T] = lock[T]
          BY <1>2, <1>3, <5>1, <5>2
        <5>3. CASE Changed(r, T)
          <6>1. q = r
            BY <1>0, <5>1, <5>3 DEF Changed
          <6>2. lock'[T] = r /\ cur'[T].st = "live"
            BY <3>1, <4>4, <5>3 DEF Changed, T
          <6> QED
            BY <1>3, <5>1, <6>1, <6>2
        <5> QED
          BY <1>4, <3>1, <4>4, <5>2, <5>3
      <4> QED
        BY <1>0, <4>2, <4>3, <4>4 DEF Holds, T
    <3>3. CASE req[r].at # "auth" /\ Changed(r, y)
      <4>1. q = r
        BY <1>0, <2>2, <3>3 DEF Changed
      <4>2. Seen(y)' /\ Touches(req'[r].op, req'[r].of, y)
        BY <1>3, <3>3 DEF Changed
      <4>3. y[2] \in Tenants /\ ~ Known(T)' => req'[r].op = "create" /\ lock'[T] = r /\ cur'[T].st = "live"
        BY <1>0, <1>3, <3>3 DEF Changed, T
      <4> QED
        BY <1>3, <4>1, <4>2, <4>3 DEF Holds, T
    <3> QED
      BY <1>4, <3>2, <3>3
  <2> QED
    BY <1>0, <2>1, <2>2 DEF RowsPart
<1>7. FactsPart'
  <2>1. ASSUME NEW q \in Reqs PROVE Facts(q)'
    <3>1. CASE q = r
      BY <3>1
    <3>2. CASE q # r
      <4> DEFINE w == req[q]
                 T == One("tenant", w.of)
      <4>0. w' = w /\ w \in Work /\ Local(w) /\ Facts(q)
        BY <1>0, <1>2, <3>2 DEF IInv, LocalPart, FactsPart
      <4>1. w.at \in {"auth", "check", "insertTenant"} /\ w.op = "create" => ~ Seen(T)'
        <5> SUFFICES ASSUME w.at \in {"auth", "check", "insertTenant"}, w.op = "create", Seen(T)' PROVE FALSE
          OBVIOUS
        <5>1. ~ Seen(T) /\ <<w.op, w.of>> \in menu.meet
          BY <4>0 DEF Facts, Local
        <5>2. T \in menu.rows /\ T[1] = "tenant" /\ T[2] = w.of /\ w.of \in Tenants
          BY <1>0, <5>1, NamedAssumption DEF Named, One
        <5>3. req[r].at # "auth" /\ Changed(r, T)
          BY <1>0, <1>4, <4>0, <5>1, <5>2
        <5>4. Touches(req[r].op, req[r].of, T) /\ req[r].op = "create"
          <6>1. Touches(req[r].op, req[r].of, T)
            BY <5>3 DEF Changed
          <6> QED
            BY <5>1, <5>2, <5>3, <6>1 DEF Changed, T
        <5>5. req[r].of = w.of
          BY <5>2, <5>4 DEF Touches
        <5> QED
          BY <1>3, <3>2, <5>4, <5>5 DEF IInv, FactsPart
      <4>2. w.at \in {"sweep", "notify"} => \A y \in w.rows : Known(y)' \/ lock'[y] = q
        <5> SUFFICES ASSUME w.at \in {"sweep", "notify"}, NEW y \in w.rows, ~ Known(y)' PROVE lock'[y] = q
          OBVIOUS
        <5>1. lock[y] = q /\ y \in menu.rows
          BY <1>0, <4>0 DEF Facts, Local, Aimed, Of
        <5> QED
          BY <1>0, <1>4, <3>2, <5>1 DEF Changed
      <4>3. w.at \in {"stamped", "chain"} => ~ Seen(w.row)' /\ \A s \in Reqs \ {q} : req'[s].row # w.row
        <5> SUFFICES ASSUME w.at \in {"stamped", "chain"}
                     PROVE  ~ Seen(w.row)' /\ \A s \in Reqs \ {q} : req'[s].row # w.row
          OBVIOUS
        <5>1. w.row \in menu.rows /\ w.row[1] = "audit"
          BY <4>0 DEF Local, Of
        <5>2. ~ Seen(w.row) /\ \A s \in Reqs \ {q} : req[s].row # w.row
          BY <4>0 DEF Facts
        <5>3. ~ Changed(r, w.row)
          BY <3>2, <5>1, <5>2 DEF Changed
        <5>4. ~ Seen(w.row)'
          BY <1>0, <1>4, <4>0, <5>1, <5>2, <5>3
        <5>5. req'[r].row # w.row
          <6>1. \/ req'[r].row = req[r].row
                \/ Known(req'[r].row)
                \/ \A s \in Reqs \ {r} : req[s].row # req'[r].row
            BY DEF Acts
          <6> QED
            BY <3>2, <5>2, <6>1
        <5> QED
          BY <1>2, <5>2, <5>4, <5>5
      <4>4. w.at \in {"audit", "stamped", "chain"} /\ w.op = "create" => lock'[T] = q /\ cur'[T].st = "live"
        <5> SUFFICES ASSUME w.at \in {"audit", "stamped", "chain"}, w.op = "create"
                     PROVE  lock'[T] = q /\ cur'[T].st = "live"
          OBVIOUS
        <5>1. lock[T] = q /\ cur[T].st = "live" /\ <<w.op, w.of>> \in menu.meet
          BY <4>0 DEF Facts, Local
        <5>2. T \in menu.rows
          BY <1>0, <5>1, NamedAssumption DEF Named, One
        <5> QED
          BY <1>0, <1>4, <3>2, <5>1, <5>2 DEF Changed
      <4> QED
        BY <1>0, <4>0, <4>1, <4>2, <4>3, <4>4 DEF Facts
    <3> QED
      BY <3>1, <3>2
  <2>2. \A s, q \in Reqs : req'[s].at # "idle" /\ req'[s].op = "create" /\ req'[q].at # "idle" /\ req'[q].op = "create"
                              /\ req'[s].of = req'[q].of => s = q
    BY <1>2, <1>3 DEF IInv, FactsPart
  <2> QED
    BY <2>1, <2>2 DEF FactsPart
<1> QED
  BY <1>1, <1>5, <1>6, <1>7 DEF IInv


-----------------------------------------------------------------------------
(* The end and the beginning of a request *)

\* Request r gives its rows up, and answers or is over.
LEMMA RollbackInv ==
  ASSUME IInv, NEW r \in Reqs, Rollback(r), req' \in [Reqs -> Work],
         \A q \in Reqs \ {r} : req'[q] = req[q],
         \/ req'[r] = NoWork
         \/ req[r].at # "idle" /\ req'[r].at = "respond" /\ Only(req'[r], req[r], {"at", "status"})
  PROVE  IInv'
<1> USE DEF Known, Seen
<1>0. /\ db \in [menu.rows -> Row] /\ cur \in [menu.rows -> Row] /\ req \in [Reqs -> Work] /\ menu \in Menus
      /\ db' = db /\ menu' = menu
      /\ lock \in [menu.rows -> Reqs \cup {NoReq}] /\ NoReq \notin Reqs
  BY NamesAssumption DEF IInv, TypeOK, Rollback
<1>1. \A y \in menu.rows : /\ lock[y] = r => cur'[y] = db[y] /\ lock'[y] = NoReq
                           /\ lock[y] # r => cur'[y] = cur[y] /\ lock'[y] = lock[y]
  BY DEF Rollback, Free
<1>2. TypeOK'
  BY <1>0 DEF TypeOK, Rollback, Free
<1>3. \/ req'[r].at = "idle" /\ req'[r].row = Nothing
      \/ /\ req[r].at # "idle" /\ req'[r].at = "respond" /\ req'[r].row = req[r].row
         /\ req'[r].op = req[r].op /\ req'[r].of = req[r].of
  <2>1. CASE req'[r] = NoWork
    BY <2>1 DEF NoWork
  <2>2. CASE req[r].at # "idle" /\ req'[r].at = "respond" /\ Only(req'[r], req[r], {"at", "status"})
    BY ONLY <2>2, Zenon DEF Only
  <2> QED
    BY <2>1, <2>2
<1>4. LocalPart'
  <2> SUFFICES ASSUME NEW q \in Reqs PROVE Local(req[q])'
    BY DEF LocalPart
  <2>1. CASE q = r
    BY <1>0, <1>3, <2>1 DEF Local, IInv, LocalPart
  <2>2. CASE q # r
    <3>1. req'[q] = req[q] /\ Local(req[q])
      BY <2>2 DEF IInv, LocalPart
    <3> QED
      BY <1>0, <3>1 DEF Local, Aimed, Of
  <2> QED
    BY <2>1, <2>2
<1>5. RowsPart'
  <2>1. ASSUME NEW y \in menu.rows
        PROVE  /\ lock'[y] = NoReq => cur'[y] = db'[y]
               /\ Known(y)' => cur'[y].st # "none"
               /\ y[1] \in FreshId /\ db'[y].st = "gone" => cur'[y].st = "gone"
               /\ y[2] \in Tenants /\ ~ Known(One("tenant", y[2]))' => ~ Known(y)'
    BY <1>0, <1>1, <2>1 DEF IInv, RowsPart
  <2>2. ASSUME NEW q \in Reqs, NEW y \in menu.rows, lock'[y] = q
        PROVE  Holds(q, y)'
    <3> DEFINE T == One("tenant", y[2])
    <3>1. y[2] \in Tenants => T \in menu.rows
      BY <1>0, TenantRow
    <3> HIDE DEF T
    <3>2. q # r /\ lock[y] = q /\ cur'[y] = cur[y] /\ req'[q] = req[q]
      BY <1>0, <1>1, <2>2
    <3>3. Holds(q, y)
      BY <3>2 DEF IInv, RowsPart
    <3>4. Seen(y)'
      BY <1>0, <3>2, <3>3 DEF Holds
    <3>5. y[2] \in Tenants /\ ~ Known(T)' => req'[q].op = "create" /\ lock'[T] = q /\ cur'[T].st = "live"
      BY <1>0, <1>1, <3>1, <3>2, <3>3 DEF Holds, T
    <3> QED
      BY <3>2, <3>3, <3>4, <3>5 DEF Holds, T
  <2> QED
    BY <1>0, <2>1, <2>2 DEF RowsPart
<1>6. FactsPart'
  <2>1. ASSUME NEW q \in Reqs PROVE Facts(q)'
    <3>1. CASE q = r
      BY <1>3, <3>1 DEF Facts
    <3>2. CASE q # r
      <4> DEFINE w == req[q]
                 T == One("tenant", w.of)
      <4>0. req'[q] = req[q] /\ w \in Work /\ Local(w) /\ Facts(q)
        BY <1>0, <3>2 DEF IInv, LocalPart, FactsPart
      <4>1. w.at \in {"auth", "check", "insertTenant"} /\ w.op = "create" => ~ Seen(T)'
        <5> SUFFICES ASSUME w.at \in {"auth", "check", "insertTenant"}, w.op = "create" PROVE ~ Seen(T)'
          OBVIOUS
        <5>1. ~ Seen(T) /\ <<w.op, w.of>> \in menu.meet
          BY <4>0 DEF Facts, Local
        <5>2. T \in menu.rows
          BY <1>0, <5>1, NamedAssumption DEF Named, One
        <5> QED
          BY <1>0, <1>1, <4>0, <5>1, <5>2
      <4>2. w.at \in {"sweep", "notify"} => \A y \in w.rows : Known(y)' \/ lock'[y] = q
        <5> SUFFICES ASSUME w.at \in {"sweep", "notify"}, NEW y \in w.rows, ~ Known(y)' PROVE lock'[y] = q
          OBVIOUS
        <5>1. lock[y] = q /\ y \in menu.rows
          BY <1>0, <4>0 DEF Facts, Local, Aimed, Of
        <5> QED
          BY <1>0, <1>1, <3>2, <5>1
      <4>3. w.at \in {"stamped", "chain"} => ~ Seen(w.row)' /\ \A s \in Reqs \ {q} : req'[s].row # w.row
        <5> SUFFICES ASSUME w.at \in {"stamped", "chain"}
                     PROVE  ~ Seen(w.row)' /\ \A s \in Reqs \ {q} : req'[s].row # w.row
          OBVIOUS
        <5>1. w.row \in menu.rows /\ w.row[1] = "audit"
          BY <4>0 DEF Local, Of
        <5>2. ~ Seen(w.row) /\ \A s \in Reqs \ {q} : req[s].row # w.row
          BY <4>0 DEF Facts
        <5>3. ~ Seen(w.row)'
          BY <1>0, <1>1, <4>0, <5>1, <5>2
        <5>4. req'[r].row # w.row
          BY <1>3, <3>2, <5>1, <5>2 DEF Nothing
        <5> QED
          BY <5>2, <5>3, <5>4
      <4>4. w.at \in {"audit", "stamped", "chain"} /\ w.op = "create" => lock'[T] = q /\ cur'[T].st = "live"
        <5> SUFFICES ASSUME w.at \in {"audit", "stamped", "chain"}, w.op = "create"
                     PROVE  lock'[T] = q /\ cur'[T].st = "live"
          OBVIOUS
        <5>1. lock[T] = q /\ cur[T].st = "live" /\ <<w.op, w.of>> \in menu.meet
          BY <4>0 DEF Facts, Local
        <5>2. T \in menu.rows
          BY <1>0, <5>1, NamedAssumption DEF Named, One
        <5> QED
          BY <1>0, <1>1, <3>2, <5>1, <5>2
      <4> QED
        BY <1>0, <4>0, <4>1, <4>2, <4>3, <4>4 DEF Facts
    <3> QED
      BY <3>1, <3>2
  <2>2. \A s, q \in Reqs : req'[s].at # "idle" /\ req'[s].op = "create" /\ req'[q].at # "idle" /\ req'[q].op = "create"
                              /\ req'[s].of = req'[q].of => s = q
    BY <1>3 DEF IInv, FactsPart
  <2> QED
    BY <2>1, <2>2 DEF FactsPart
<1> QED
  BY <1>2, <1>4, <1>5, <1>6 DEF IInv


\* What a commit of r leaves in the records.
LEMMA NotedIs ==
  ASSUME TypeOK, NEW r \in Reqs, req' = Noted(r)
  PROVE  /\ req' \in [Reqs -> Work]
         /\ req'[r] = NoWork
         /\ \A q \in Reqs \ {r} :
              /\ Alike(req'[q], req[q])
              /\ req'[q].moved = IF Running(q)
                                 THEN req[q].moved \cup {y \in Writes(r) : Cares(req[q].op, req[q].of, y)}
                                 ELSE req[q].moved
<1>1. NoWork \in Work
  BY NoWorkIs
<1>2. ASSUME NEW q \in Reqs \ {r}
      PROVE  /\ req'[q] \in Work
             /\ Alike(req'[q], req[q])
             /\ req'[q].moved = IF Running(q)
                                THEN req[q].moved \cup {y \in Writes(r) : Cares(req[q].op, req[q].of, y)}
                                ELSE req[q].moved
  <2> DEFINE x == req[q].moved \cup {y \in Writes(r) : Cares(req[q].op, req[q].of, y)}
             w == [req[q] EXCEPT !.moved = x]
  <2>1. req'[q] = IF Running(q) THEN w ELSE req[q]
    BY <1>2 DEF Noted
  <2>2. req[q] \in Work /\ Writes(r) \subseteq Rows /\ req[q].moved \in SUBSET Rows
    <3>1. req[q] \in Work
      BY <1>2 DEF TypeOK
    <3>2. req[q].moved \in SUBSET Rows
      BY ONLY <3>1, WorkFields, Zenon
    <3> QED
      BY <3>1, <3>2, MenuAssumption DEF TypeOK, Writes
  <2>3. x \in SUBSET Rows
    BY <2>2
  <2> HIDE DEF x
  <2>4. w \in Work /\ w.moved = x /\ Alike(w, req[q])
    BY <2>2, <2>3, SetMoved, Zenon
  <2> HIDE DEF w
  <2>5. CASE Running(q)
    BY <2>1, <2>4, <2>5 DEF x
  <2>6. CASE ~ Running(q)
    BY <2>1, <2>2, <2>6 DEF Alike
  <2> QED
    BY <2>5, <2>6
<1>3. req'[r] = NoWork
  BY DEF Noted
<1>4. req' \in [Reqs -> Work]
  <2>1. req' = [s \in Reqs |-> req'[s]]
    BY DEF Noted
  <2>2. \A s \in Reqs : req'[s] \in Work
    BY <1>1, <1>2, <1>3
  <2> QED
    BY ONLY <2>1, <2>2, Zenon
<1> QED
  BY <1>2, <1>3, <1>4

\* Request r commits.
Commits(r) ==
  /\ db' = [y \in menu.rows |-> IF lock[y] = r THEN cur[y] ELSE db[y]]
  /\ lock' = Free(r)
  /\ req' = Noted(r)
  /\ UNCHANGED <<cur, menu>>

LEMMA CommitInv ==
  ASSUME IInv, NEW r \in Reqs, Commits(r)
  PROVE  IInv'
<1> USE DEF Known, Seen
<1>0. /\ db \in [menu.rows -> Row] /\ cur \in [menu.rows -> Row] /\ req \in [Reqs -> Work] /\ menu \in Menus
      /\ cur' = cur /\ menu' = menu
      /\ lock \in [menu.rows -> Reqs \cup {NoReq}] /\ NoReq \notin Reqs
  BY NamesAssumption DEF IInv, TypeOK, Commits
<1>1. \A y \in menu.rows : /\ lock[y] = r => db'[y] = cur[y] /\ lock'[y] = NoReq
                           /\ lock[y] # r => db'[y] = db[y] /\ lock'[y] = lock[y]
  BY DEF Commits, Free
<1>2. /\ req' \in [Reqs -> Work]
      /\ req'[r].at = "idle" /\ req'[r].row = Nothing
      /\ \A q \in Reqs \ {r} :
           /\ req'[q].at = req[q].at /\ req'[q].op = req[q].op /\ req'[q].of = req[q].of
           /\ req'[q].row = req[q].row /\ req'[q].todo = req[q].todo /\ req'[q].left = req[q].left
           /\ req'[q].rows = req[q].rows
  <2>1. /\ req' \in [Reqs -> Work] /\ req'[r] = NoWork
        /\ \A q \in Reqs \ {r} : Alike(req'[q], req[q])
    BY NotedIs DEF IInv, Commits
  <2>2. NoWork.at = "idle" /\ NoWork.row = Nothing
    BY DEF NoWork
  <2> QED
    BY ONLY <2>1, <2>2, Zenon DEF Alike
<1>3. TypeOK'
  <2>1. db' \in [menu.rows -> Row] /\ lock' \in [menu.rows -> Reqs \cup {NoReq}]
    BY <1>0 DEF Commits, Free
  <2> QED
    BY <1>0, <1>2, <2>1 DEF TypeOK
<1>4. LocalPart'
  <2> SUFFICES ASSUME NEW q \in Reqs PROVE Local(req[q])'
    BY DEF LocalPart
  <2>1. CASE q = r
    BY <1>2, <2>1 DEF Local
  <2>2. CASE q # r
    <3>1. Local(req[q])
      BY DEF IInv, LocalPart
    <3> QED
      BY <1>0, <1>2, <2>2, <3>1 DEF Local, Aimed, Of, Meant
  <2> QED
    BY <2>1, <2>2
<1>5. \A y \in menu.rows : /\ Known(y) => Known(y)'
                           /\ Seen(y)' <=> Seen(y)
                           /\ lock[y] = r => Known(y)'
  <2> TAKE y \in menu.rows
  <2>1. /\ Known(y) => cur[y].st # "none"
        /\ lock[y] = r => Seen(y)
    BY DEF IInv, RowsPart, Holds
  <2> QED
    BY <1>0, <1>1, <2>1
<1>6. RowsPart'
  <2>1. ASSUME NEW y \in menu.rows
        PROVE  /\ lock'[y] = NoReq => cur'[y] = db'[y]
               /\ Known(y)' => cur'[y].st # "none"
               /\ y[1] \in FreshId /\ db'[y].st = "gone" => cur'[y].st = "gone"
    BY <1>0, <1>1, <2>1 DEF IInv, RowsPart
  <2>2. ASSUME NEW y \in menu.rows, y[2] \in Tenants, ~ Known(One("tenant", y[2]))'
        PROVE  ~ Known(y)'
    <3> DEFINE T == One("tenant", y[2])
    <3>1. T \in menu.rows
      BY <1>0, <2>2, TenantRow
    <3>2. ~ Known(T) /\ lock[T] # r
      BY <1>5, <2>2, <3>1
    <3>3. ~ Known(y)
      BY <2>2, <3>2 DEF IInv, RowsPart
    <3> HIDE DEF T
    <3>4. lock[y] # r
      BY <2>2, <3>2 DEF IInv, RowsPart, Holds, T
    <3> QED
      BY <1>1, <3>3, <3>4
  <2>3. ASSUME NEW q \in Reqs, NEW y \in menu.rows, lock'[y] = q
        PROVE  Holds(q, y)'
    <3> DEFINE T == One("tenant", y[2])
    <3>1. y[2] \in Tenants => T \in menu.rows
      BY <1>0, TenantRow
    <3> HIDE DEF T
    <3>2. q # r /\ lock[y] = q
      BY <1>0, <1>1, <2>3
    <3>3. Holds(q, y)
      BY <3>2 DEF IInv, RowsPart
    <3>4. Seen(y)'
      BY <1>5, <3>3 DEF Holds
    <3>5. y[2] \in Tenants /\ ~ Known(T)' => req'[q].op = "create" /\ lock'[T] = q /\ cur'[T].st = "live"
      <4> SUFFICES ASSUME y[2] \in Tenants, ~ Known(T)'
                   PROVE  req'[q].op = "create" /\ lock'[T] = q /\ cur'[T].st = "live"
        OBVIOUS
      <4>1. T \in menu.rows /\ ~ Known(T)
        BY <1>5, <3>1
      <4>2. req[q].op = "create" /\ lock[T] = q /\ cur[T].st = "live"
        BY <3>3, <4>1 DEF Holds, T
      <4> QED
        BY <1>0, <1>1, <1>2, <3>2, <4>1, <4>2
    <3> QED
      BY <1>2, <3>2, <3>3, <3>4, <3>5 DEF Holds, T
  <2> QED
    BY <1>0, <2>1, <2>2, <2>3 DEF RowsPart
<1>7. FactsPart'
  <2>1. ASSUME NEW q \in Reqs PROVE Facts(q)'
    <3>1. CASE q = r
      BY <1>2, <3>1 DEF Facts
    <3>2. CASE q # r
      <4> DEFINE w == req[q]
                 T == One("tenant", w.of)
      <4>0. /\ Local(w) /\ Facts(q)
            /\ w.at' = w.at /\ w.op' = w.op /\ w.of' = w.of /\ w.row' = w.row /\ w.rows' = w.rows
        BY <1>2, <3>2 DEF IInv, LocalPart, FactsPart
      <4>1. w.at \notin {"idle", "auth", "respond"} /\ Resolved(w.op) => Known(T)'
        <5> SUFFICES ASSUME w.at \notin {"idle", "auth", "respond"}, Resolved(w.op) PROVE Known(T)'
          OBVIOUS
        <5>1. Known(T) /\ <<w.op, w.of>> \in menu.meet
          BY <4>0 DEF Facts, Local
        <5>2. w.op \in Ops
          BY <1>0, <5>1, MenuAssumption
        <5>3. T \in menu.rows
          BY <1>0, <5>1, <5>2, NamedAssumption DEF Named, One, Resolved
        <5> QED
          BY <1>5, <4>0, <5>1, <5>3
      <4>2. w.at \in {"auth", "check", "insertTenant"} /\ w.op = "create" => ~ Seen(T)'
        <5> SUFFICES ASSUME w.at \in {"auth", "check", "insertTenant"}, w.op = "create" PROVE ~ Seen(T)'
          OBVIOUS
        <5>1. ~ Seen(T) /\ <<w.op, w.of>> \in menu.meet
          BY <4>0 DEF Facts, Local
        <5>2. T \in menu.rows
          BY <1>0, <5>1, NamedAssumption DEF Named, One
        <5> QED
          BY <1>5, <4>0, <5>1, <5>2
      <4>3. w.at \in {"update", "destroy"} => Known(w.row)'
        BY <1>5, <4>0 DEF Facts, Local, Of
      <4>4. w.at \in {"sweep", "notify"} => \A y \in w.rows : Known(y)' \/ lock'[y] = q
        <5> SUFFICES ASSUME w.at \in {"sweep", "notify"}, NEW y \in w.rows PROVE Known(y)' \/ lock'[y] = q
          OBVIOUS
        <5>1. (Known(y) \/ lock[y] = q) /\ y \in menu.rows
          BY <4>0 DEF Facts, Local, Aimed, Of
        <5> QED
          BY <1>1, <1>5, <3>2, <5>1
      <4>5. w.at \in {"balance", "credit", "mark"} => Known(One(Kind(w.op), w.of))'
        <5> SUFFICES ASSUME w.at \in {"balance", "credit", "mark"} PROVE Known(One(Kind(w.op), w.of))'
          OBVIOUS
        <5>1. Known(One(Kind(w.op), w.of)) /\ <<w.op, w.of>> \in menu.meet /\ w.op \in {"markPaid", "markSent"}
          BY <4>0 DEF Facts, Local
        <5>2. One(Kind(w.op), w.of) \in menu.rows
          BY <1>0, <5>1, NamedAssumption DEF Named, One, Kind
        <5> QED
          BY <1>5, <4>0, <5>1, <5>2
      <4>6. w.at = "credit" => Known(One("purse", w.of))'
        <5> SUFFICES ASSUME w.at = "credit" PROVE Known(One("purse", w.of))'
          OBVIOUS
        <5>1. Known(One("purse", w.of)) /\ <<w.op, w.of>> \in menu.meet /\ w.op = "markPaid"
          BY <4>0 DEF Facts, Local
        <5>2. One("purse", w.of) \in menu.rows
          BY <1>0, <5>1, NamedAssumption DEF Named, One
        <5> QED
          BY <1>5, <4>0, <5>1, <5>2
      <4>7. w.at = "password" => Known(One("staff", w.of))'
        <5> SUFFICES ASSUME w.at = "password" PROVE Known(One("staff", w.of))'
          OBVIOUS
        <5>1. Known(One("staff", w.of)) /\ <<w.op, w.of>> \in menu.meet /\ w.op = "reset"
          BY <4>0 DEF Facts, Local
        <5>2. One("staff", w.of) \in menu.rows
          BY <1>0, <5>1, NamedAssumption DEF Named, One
        <5> QED
          BY <1>5, <4>0, <5>1, <5>2
      <4>8. w.at \in {"stamped", "chain"} => ~ Seen(w.row)' /\ \A s \in Reqs \ {q} : req'[s].row # w.row
        <5> SUFFICES ASSUME w.at \in {"stamped", "chain"}
                     PROVE  ~ Seen(w.row)' /\ \A s \in Reqs \ {q} : req'[s].row # w.row
          OBVIOUS
        <5>1. w.row \in menu.rows /\ w.row[1] = "audit"
          BY <4>0 DEF Local, Of
        <5>2. ~ Seen(w.row) /\ \A s \in Reqs \ {q} : req[s].row # w.row
          BY <4>0 DEF Facts
        <5>3. ~ Seen(w.row)'
          BY <1>5, <4>0, <5>1, <5>2
        <5>4. req'[r].row # w.row
          BY <1>2, <5>1 DEF Nothing
        <5> QED
          BY <1>2, <5>2, <5>3, <5>4
      <4>10. w.at \in {"audit", "stamped", "chain"} /\ w.op = "create" => lock'[T] = q /\ cur'[T].st = "live"
        <5> SUFFICES ASSUME w.at \in {"audit", "stamped", "chain"}, w.op = "create"
                     PROVE  lock'[T] = q /\ cur'[T].st = "live"
          OBVIOUS
        <5>1. lock[T] = q /\ cur[T].st = "live" /\ <<w.op, w.of>> \in menu.meet
          BY <4>0 DEF Facts, Local
        <5>2. T \in menu.rows
          BY <1>0, <5>1, NamedAssumption DEF Named, One
        <5> QED
          BY <1>0, <1>1, <3>2, <5>1, <5>2
      <4> HIDE DEF w, T
      <4>9. /\ req'[q].at = w.at /\ req'[q].op = w.op /\ req'[q].of = w.of /\ req'[q].row = w.row
            /\ req'[q].rows = w.rows
        BY <4>0 DEF w
      <4> QED
        BY <4>1, <4>2, <4>3, <4>4, <4>5, <4>6, <4>7, <4>8, <4>9, <4>10 DEF Facts, w, T
    <3> QED
      BY <3>1, <3>2
  <2>2. \A s, q \in Reqs : req'[s].at # "idle" /\ req'[s].op = "create" /\ req'[q].at # "idle" /\ req'[q].op = "create"
                              /\ req'[s].of = req'[q].of => s = q
    BY <1>2 DEF IInv, FactsPart
  <2> QED
    BY <2>1, <2>2 DEF FactsPart
<1> QED
  BY <1>3, <1>4, <1>6, <1>7 DEF IInv


LEMMA RecordBegin ==
  ASSUME NEW T, NEW u \in Records(T), NEW a \in T.at, NEW o \in T.op, NEW s \in T.of, NEW x \in T.tx,
         NEW b \in T.began
  PROVE  [u EXCEPT !.at = a, !.op = o, !.of = s, !.tx = x, !.began = b] \in Records(T)
<1> DEFINE u1 == [u EXCEPT !.at = a]
           u2 == [u1 EXCEPT !.op = o]
           u3 == [u2 EXCEPT !.of = s]
           u4 == [u3 EXCEPT !.tx = x]
           u5 == [u4 EXCEPT !.began = b]
<1>1. u1 \in Records(T)
  BY SMT DEF Records
<1>6. u5 = [u EXCEPT !.at = a, !.op = o, !.of = s, !.tx = x, !.began = b]
  BY Zenon
<1> HIDE DEF u1
<1>2. u2 \in Records(T)
  BY ONLY <1>1, o \in T.op, SMT DEF Records
<1> HIDE DEF u2
<1>3. u3 \in Records(T)
  BY ONLY <1>2, s \in T.of, SMT DEF Records
<1> HIDE DEF u3
<1>4. u4 \in Records(T)
  BY ONLY <1>3, x \in T.tx, SMT DEF Records
<1> HIDE DEF u4
<1>5. u5 \in Records(T)
  BY ONLY <1>4, b \in T.began, SMT DEF Records
<1> QED
  BY <1>5, <1>6, Zenon

\* A request that arrives has read nothing yet.
LEMMA BeginIs ==
  ASSUME TypeOK, NEW r \in Reqs, Begin(r)
  PROVE  /\ req[r].at = "idle" /\ db' = db /\ cur' = cur /\ lock' = lock /\ menu' = menu
         /\ req' \in [Reqs -> Work] /\ \A q \in Reqs \ {r} : req'[q] = req[q]
         /\ \E p \in menu.meet :
              /\ req'[r].at = "auth" /\ req'[r].op = p[1] /\ req'[r].of = p[2]
              /\ p[1] = "create" => /\ cur[One("tenant", p[2])].st = "none"
                                    /\ \A q \in Reqs : req[q].of = p[2] => req[q].op # "create"
              /\ req'[r].began = {y \in menu.rows : Cares(p[1], p[2], y) /\ db[y].st = "live"}
              /\ req'[r].moved = {} /\ req'[r].row = Nothing /\ req'[r].tx = "open" /\ req'[r].n = 0 /\ req'[r].left = {}
<1>1. PICK p \in menu.meet :
        /\ p[1] = "create" => /\ cur[One("tenant", p[2])].st = "none"
                              /\ \A q \in Reqs : req[q].of = p[2] => req[q].op # "create"
        /\ req' = [req EXCEPT ![r] =
                     [NoWork EXCEPT !.at = "auth", !.op = p[1], !.of = p[2], !.tx = "open",
                        !.began = {y \in menu.rows : Cares(p[1], p[2], y) /\ db[y].st = "live"}]]
  BY Zenon DEF Begin
<1> DEFINE began == {y \in menu.rows : Cares(p[1], p[2], y) /\ db[y].st = "live"}
           w == [NoWork EXCEPT !.at = "auth", !.op = p[1], !.of = p[2], !.tx = "open", !.began = began]
<1>2. p[1] \in Ops /\ p[2] \in Scopes \cup {"nobody"} /\ began \in SUBSET Rows
  BY MenuAssumption DEF TypeOK
<1>3. req' = [req EXCEPT ![r] = w]
  BY <1>1, Zenon
<1> HIDE DEF began
<1>4. /\ w.at = "auth" /\ w.op = p[1] /\ w.of = p[2] /\ w.began = began /\ w.tx = "open"
      /\ w.moved = {} /\ w.row = Nothing /\ w.n = 0 /\ w.left = {}
  BY DEF NoWork
<1>5. w \in Work
  <2>1. NoWork \in Records(Type) /\ "auth" \in Type.at /\ p[1] \in Type.op /\ p[2] \in Type.of
        /\ "open" \in Type.tx /\ began \in Type.began
    BY <1>2, NoWorkIs, WorkIs DEF Type, Places
  <2>2. w \in Records(Type)
    BY ONLY <2>1, RecordBegin, Zenon
  <2> QED
    BY <2>2, WorkIs
<1> HIDE DEF w
<1>6. req' \in [Reqs -> Work] /\ req'[r] = w /\ \A q \in Reqs \ {r} : req'[q] = req[q]
  BY <1>3, <1>5, Put
<1>7. req[r].at = "idle" /\ db' = db /\ cur' = cur /\ lock' = lock /\ menu' = menu
  BY DEF Begin, At, Kept
<1>8. /\ req'[r].at = "auth" /\ req'[r].op = p[1] /\ req'[r].of = p[2]
      /\ req'[r].began = {y \in menu.rows : Cares(p[1], p[2], y) /\ db[y].st = "live"}
      /\ req'[r].moved = {} /\ req'[r].row = Nothing /\ req'[r].tx = "open" /\ req'[r].n = 0 /\ req'[r].left = {}
  BY <1>4, <1>6, Zenon DEF began
<1> QED
  BY ONLY <1>1, <1>6, <1>7, <1>8, Zenon

LEMMA BeginInv ==
  ASSUME IInv, NEW r \in Reqs, Begin(r)
  PROVE  IInv'
<1> USE DEF Known, Seen
<1>0. req \in [Reqs -> Work] /\ menu \in Menus /\ NoReq \notin Reqs
      /\ db \in [menu.rows -> Row] /\ cur \in [menu.rows -> Row]
  BY NamesAssumption DEF IInv, TypeOK
<1>1. /\ req[r].at = "idle" /\ db' = db /\ cur' = cur /\ lock' = lock /\ menu' = menu
      /\ req' \in [Reqs -> Work] /\ \A q \in Reqs \ {r} : req'[q] = req[q]
  BY BeginIs DEF IInv
<1>2. PICK p \in menu.meet :
        /\ req'[r].at = "auth" /\ req'[r].op = p[1] /\ req'[r].of = p[2] /\ req'[r].row = Nothing
        /\ p[1] = "create" => /\ cur[One("tenant", p[2])].st = "none"
                              /\ \A q \in Reqs : req[q].of = p[2] => req[q].op # "create"
  BY BeginIs DEF IInv
<1>3. TypeOK'
  BY <1>1 DEF IInv, TypeOK
<1>4. LocalPart'
  <2> SUFFICES ASSUME NEW q \in Reqs PROVE Local(req[q])'
    BY DEF LocalPart
  <2>1. CASE q = r
    <3>1. p = <<p[1], p[2]>>
      BY <1>0, MenuAssumption
    <3> QED
      BY <1>1, <1>2, <2>1, <3>1 DEF Local
  <2>2. CASE q # r
    <3>1. req'[q] = req[q] /\ Local(req[q])
      BY <1>1, <2>2 DEF IInv, LocalPart
    <3> QED
      BY <1>1, <3>1 DEF Local, Aimed, Of
  <2> QED
    BY <2>1, <2>2
<1>5. RowsPart'
  <2>1. \A y \in menu.rows :
          /\ lock[y] = NoReq => cur[y] = db[y]
          /\ Known(y) => cur[y].st # "none"
          /\ y[1] \in FreshId /\ db[y].st = "gone" => cur[y].st = "gone"
          /\ y[2] \in Tenants /\ ~ Known(One("tenant", y[2])) => ~ Known(y)
    BY DEF IInv, RowsPart
  <2>2. ASSUME NEW q \in Reqs, NEW y \in menu.rows, lock[y] = q
        PROVE  Holds(q, y)'
    <3>1. Holds(q, y)
      BY <2>2 DEF IInv, RowsPart
    <3>2. req'[q] = req[q]
      BY <1>1, <3>1 DEF Holds
    <3> QED
      BY <1>1, <3>1, <3>2 DEF Holds
  <2> QED
    BY <1>1, <2>1, <2>2 DEF RowsPart
<1>6. FactsPart'
  <2>1. ASSUME NEW q \in Reqs PROVE Facts(q)'
    <3>1. CASE q = r
      <4>1. p[1] = "create" => ~ Seen(One("tenant", p[2]))
        <5> SUFFICES ASSUME p[1] = "create" PROVE ~ Seen(One("tenant", p[2]))
          OBVIOUS
        <5>1. One("tenant", p[2]) \in menu.rows
          BY <1>0, NamedAssumption DEF Named, One
        <5> QED
          BY <1>2, <5>1 DEF IInv, RowsPart
      <4> QED
        BY <1>1, <1>2, <3>1, <4>1 DEF Facts
    <3>2. CASE q # r
      <4>1. req'[q] = req[q] /\ Facts(q) /\ Local(req[q])
        BY <1>1, <3>2 DEF IInv, FactsPart, LocalPart
      <4>2. req[q].at \in {"stamped", "chain"} => req'[r].row # req[q].row
        BY <1>2, <4>1 DEF Local, Of, Nothing
      <4> QED
        BY <1>1, <3>2, <4>1, <4>2 DEF Facts
    <3> QED
      BY <3>1, <3>2
  <2>2. \A s, q \in Reqs : req'[s].at # "idle" /\ req'[s].op = "create" /\ req'[q].at # "idle" /\ req'[q].op = "create"
                              /\ req'[s].of = req'[q].of => s = q
    BY <1>1, <1>2 DEF IInv, FactsPart
  <2> QED
    BY <2>1, <2>2 DEF FactsPart
<1> QED
  BY <1>3, <1>4, <1>5, <1>6 DEF IInv


-----------------------------------------------------------------------------
(* The steps of a handler *)

\* What each step of a handler has to show.
Proper(r) == Acts(r) /\ Local(req[r])' /\ Facts(r)'

LEMMA ProperInv == ASSUME IInv, NEW r \in Reqs, Proper(r) PROVE IInv'
BY ActsInv DEF Proper

LEMMA OnlyMore ==
  ASSUME NEW w, NEW u, NEW S, NEW U, S \subseteq U, Only(w, u, S)
  PROVE  Only(w, u, U)
BY DEF Only

LEMMA StayVersions == ASSUME IInv, NEW r \in Reqs, UNCHANGED Kept PROVE Versions(r)
BY DEF IInv, TypeOK, Kept, Versions

\* A step whose record differs in fields other than the row.
LEMMA StepActs ==
  ASSUME IInv, NEW r \in Reqs, NEW S, Moves(r, S), S \subseteq Every \ {"row"}, Versions(r),
         req[r].at # "idle", req'[r].at \notin {"idle", "auth"}
  PROVE  Acts(r)
<1>1. Only(req'[r], req[r], S) /\ "row" \notin S /\ S \subseteq Every
  BY DEF Moves
<1>2. Only(req'[r], req[r], Every) /\ req'[r].row = req[r].row
  <2>1. Only(req'[r], req[r], Every)
    BY <1>1, OnlyMore, Zenon
  <2> QED
    BY ONLY <1>1, <2>1, Zenon DEF Only
<1> QED
  BY <1>2 DEF Acts, Moves

\* A handler answers.
LEMMA AnswerActs ==
  ASSUME IInv, NEW r \in Reqs, NEW status \in Statuses, req[r].at # "idle", Versions(r), req' = Answer(r, status)
  PROVE  Proper(r)
<1>1. Moves(r, {"at", "status"}) /\ req'[r].at = "respond"
  BY AnswerMoves DEF IInv
<1>2. Acts(r)
  BY <1>1, StepActs DEF Every
<1>3. req'[r].op = req[r].op /\ req'[r].of = req[r].of /\ menu' = menu
  BY <1>1 DEF Moves, Only, Versions
<1>4. Local(req[r])'
  BY <1>1, <1>3 DEF Local, IInv, LocalPart
<1>5. Facts(r)'
  BY <1>1 DEF Facts
<1> QED
  BY <1>2, <1>4, <1>5 DEF Proper

LEMMA ReplyActs ==
  ASSUME IInv, NEW r \in Reqs, NEW status \in Statuses, req[r].at # "idle", Reply(r, status)
  PROVE  Proper(r)
BY AnswerActs, StayVersions DEF Reply

\* A handler goes to another place.
LEMMA GotoActs ==
  ASSUME IInv, NEW r \in Reqs, NEW place \in Places \ {"idle", "auth"}, req[r].at # "idle", Versions(r),
         req' = Goto(r, place)
  PROVE  Acts(r) /\ Only(req'[r], req[r], {"at"}) /\ req'[r].at = place /\ menu' = menu
<1>1. Moves(r, {"at"}) /\ req'[r].at = place
  BY GotoMoves DEF IInv
<1>2. Acts(r)
  BY <1>1, StepActs DEF Every
<1> QED
  BY <1>1, <1>2 DEF Moves, Versions

\* r may write row y.
Writable(r, y, row) ==
  /\ y \in menu.rows /\ row \in Row /\ lock[y] \in {r, NoReq} /\ Touches(req[r].op, req[r].of, y)
  /\ row.st # "none"
  /\ y[1] \in FreshId /\ cur[y].st = "gone" => row.st = "gone"
  /\ Seen(y) \/ y[1] # "audit" \/ \A q \in Reqs \ {r} : req[q].row # y
  /\ y[2] \in Tenants => Known(One("tenant", y[2]))

LEMMA WriteVersions ==
  ASSUME IInv, NEW r \in Reqs, NEW Y, NEW new, Write(r, Y, new), req[r].at # "auth",
         \A y \in Y : Writable(r, y, new[y])
  PROVE  Versions(r)
<1>0. cur \in [menu.rows -> Row] /\ lock \in [menu.rows -> Reqs \cup {NoReq}]
  BY DEF IInv, TypeOK
<1>1. /\ db' = db /\ menu' = menu
      /\ cur' = [y \in menu.rows |-> IF y \in Y THEN new[y] ELSE cur[y]]
      /\ lock' = [y \in menu.rows |-> IF y \in Y THEN r ELSE lock[y]]
  BY DEF Write
<1>2. \A y \in Y : new[y] \in Row
  BY DEF Writable
<1>3. cur' \in [menu.rows -> Row] /\ lock' \in [menu.rows -> Reqs \cup {NoReq}]
  BY <1>0, <1>1, <1>2
<1>4. ASSUME NEW y \in menu.rows
      PROVE  (cur'[y] = cur[y] /\ lock'[y] = lock[y]) \/ (req[r].at # "auth" /\ Changed(r, y))
  <2>1. CASE y \in Y
    BY <1>1, <2>1 DEF Writable, Changed
  <2>2. CASE y \notin Y
    BY <1>1, <2>2
  <2> QED
    BY <2>1, <2>2
<1> QED
  BY <1>1, <1>3, <1>4 DEF Versions

LEMMA WriteOneVersions ==
  ASSUME IInv, NEW r \in Reqs, NEW y, NEW row, WriteOne(r, y, row), req[r].at # "auth", Writable(r, y, row)
  PROVE  Versions(r)
<1>0. cur \in [menu.rows -> Row] /\ lock \in [menu.rows -> Reqs \cup {NoReq}]
  BY DEF IInv, TypeOK
<1>1. /\ db' = db /\ menu' = menu
      /\ cur' = [cur EXCEPT ![y] = row] /\ lock' = [lock EXCEPT ![y] = r]
  BY DEF WriteOne
<1>2. y \in menu.rows /\ row \in Row
  BY DEF Writable
<1>3. cur' \in [menu.rows -> Row] /\ lock' \in [menu.rows -> Reqs \cup {NoReq}]
  BY <1>0, <1>1, <1>2
<1>4. ASSUME NEW z \in menu.rows
      PROVE  (cur'[z] = cur[z] /\ lock'[z] = lock[z]) \/ (req[r].at # "auth" /\ Changed(r, z))
  <2>1. CASE z = y
    BY <1>0, <1>1, <1>2, <2>1 DEF Writable, Changed
  <2>2. CASE z # y
    BY <1>0, <1>1, <2>2
  <2> QED
    BY <2>1, <2>2
<1> QED
  BY <1>1, <1>3, <1>4 DEF Versions


\* What is known of a request that is running.
LEMMA Here ==
  ASSUME IInv, NEW r \in Reqs, req[r].at # "idle"
  PROVE  /\ <<req[r].op, req[r].of>> \in menu.meet /\ req[r].op \in Ops
         /\ Named(req[r].op, req[r].of) \subseteq menu.rows
         /\ req[r].op \in {"system", "brand"} <=> req[r].of \notin Tenants
         /\ req[r] \in Work /\ Local(req[r]) /\ Facts(r)
         /\ menu \in Menus /\ menu.rows \subseteq Rows
         /\ db \in [menu.rows -> Row] /\ cur \in [menu.rows -> Row]
         /\ lock \in [menu.rows -> Reqs \cup {NoReq}]
<1>1. /\ req[r] \in Work /\ Local(req[r]) /\ Facts(r) /\ menu \in Menus
      /\ db \in [menu.rows -> Row] /\ cur \in [menu.rows -> Row]
      /\ lock \in [menu.rows -> Reqs \cup {NoReq}]
  BY DEF IInv, TypeOK, LocalPart, FactsPart
<1>2. <<req[r].op, req[r].of>> \in menu.meet
  BY <1>1 DEF Local
<1>3. req[r].op \in Ops /\ menu.rows \subseteq Rows
  BY <1>1, <1>2, MenuAssumption
<1>4. /\ Named(req[r].op, req[r].of) \subseteq menu.rows
      /\ req[r].op \in {"system", "brand"} <=> req[r].of \notin Tenants
  <2> DEFINE p == <<req[r].op, req[r].of>>
  <2>1. Named(p[1], p[2]) \subseteq menu.rows /\ (p[1] \in {"system", "brand"} <=> p[2] \notin Tenants)
    BY <1>1, <1>2, NamedAssumption
  <2>2. p[1] = req[r].op /\ p[2] = req[r].of
    OBVIOUS
  <2> QED
    BY ONLY <2>1, <2>2, Zenon
<1> QED
  BY <1>1, <1>2, <1>3, <1>4

\* A tenant's row is there as soon as anything of it is.
LEMMA TenantKnown ==
  ASSUME IInv, NEW y \in menu.rows, Known(y), y[2] \in Tenants
  PROVE  Known(One("tenant", y[2]))
BY DEF IInv, RowsPart

LEMMA AuthPlaces ==
  ASSUME NEW op \in Ops
  PROVE  /\ AuthPlace(op) \in {"load", "save", "check", "lock", "confirm", "root", "intent", "purse", "cashier",
                                "find", "devices", "recipient", "next", "upsert"}
         /\ AuthPlace(op) = "load" => op \in {"system", "config", "ownerConfig"}
         /\ AuthPlace(op) = "save" => op = "brand"
         /\ AuthPlace(op) = "check" => op = "create"
         /\ AuthPlace(op) = "lock" => op = "delete"
         /\ AuthPlace(op) = "confirm" => op \in {"wipe", "wipeAll"}
         /\ AuthPlace(op) = "root" => op = "reset"
         /\ AuthPlace(op) = "intent" => op \in {"markPaid", "markSent"}
         /\ AuthPlace(op) = "purse" => op = "bet"
         /\ AuthPlace(op) = "cashier" => op = "close"
         /\ AuthPlace(op) = "find" => op \in {"credits", "register", "unregister", "read", "drop"}
         /\ AuthPlace(op) = "devices" => op = "test"
         /\ AuthPlace(op) = "recipient" => op = "send"
         /\ AuthPlace(op) = "next" => op \in {"thread", "purge"}
         /\ AuthPlace(op) = "upsert" => op \in {"inbox", "key"}
<1>1. op \in {"system", "config", "ownerConfig"} => AuthPlace(op) = "load"
  BY DEF AuthPlace
<1>2. op \in {"brand"} => AuthPlace(op) = "save"
  BY DEF AuthPlace
<1>3. op \in {"create"} => AuthPlace(op) = "check"
  BY DEF AuthPlace
<1>4. op \in {"delete"} => AuthPlace(op) = "lock"
  BY DEF AuthPlace
<1>5. op \in {"wipe", "wipeAll"} => AuthPlace(op) = "confirm"
  BY DEF AuthPlace
<1>6. op \in {"reset"} => AuthPlace(op) = "root"
  BY DEF AuthPlace
<1>7. op \in {"markPaid", "markSent"} => AuthPlace(op) = "intent"
  BY DEF AuthPlace
<1>8. op \in {"bet"} => AuthPlace(op) = "purse"
  BY DEF AuthPlace
<1>9. op \in {"close"} => AuthPlace(op) = "cashier"
  BY DEF AuthPlace
<1>10. op \in {"credits", "register", "unregister", "read", "drop"} => AuthPlace(op) = "find"
  BY DEF AuthPlace
<1>11. op \in {"test"} => AuthPlace(op) = "devices"
  BY DEF AuthPlace
<1>12. op \in {"send"} => AuthPlace(op) = "recipient"
  BY DEF AuthPlace
<1>13. op \in {"thread", "purge"} => AuthPlace(op) = "next"
  BY DEF AuthPlace
<1>14. op \in {"inbox", "key"} => AuthPlace(op) = "upsert"
  BY DEF AuthPlace
<1>15. \/ op \in {"system", "config", "ownerConfig"}
      \/ op \in {"brand"}
      \/ op \in {"create"}
      \/ op \in {"delete"}
      \/ op \in {"wipe", "wipeAll"}
      \/ op \in {"reset"}
      \/ op \in {"markPaid", "markSent"}
      \/ op \in {"bet"}
      \/ op \in {"close"}
      \/ op \in {"credits", "register", "unregister", "read", "drop"}
      \/ op \in {"test"}
      \/ op \in {"send"}
      \/ op \in {"thread", "purge"}
      \/ op \in {"inbox", "key"}
  BY DEF Ops, OwnerOps, StaffOps, BothOps
<1> QED
  BY <1>1, <1>2, <1>3, <1>4, <1>5, <1>6, <1>7, <1>8, <1>9, <1>10, <1>11, <1>12, <1>13, <1>14, <1>15

LEMMA StartActs ==
  ASSUME IInv, NEW r \in Reqs, req[r].at = "auth", UNCHANGED Kept, req' = Start(r), req[r].op # "inbox",
         Resolved(req[r].op) => Known(One("tenant", req[r].of))
  PROVE  Proper(r)
<1> DEFINE op == req[r].op
           patched == IF op = "brand" THEN Fields ELSE {}
           todo == IF op \in {"thread", "purge"} THEN <<Messages(req[r].of)>> ELSE << >>
           a == [req[r] EXCEPT !.at = AuthPlace(op)]
           b == [a EXCEPT !.patched = patched]
           w == [b EXCEPT !.todo = todo]
<1>1. op \in Ops /\ req[r] \in Work /\ Local(req[r]) /\ Facts(r) /\ req[r].of \in Scopes
  <2>1. op \in Ops /\ req[r] \in Work /\ Local(req[r]) /\ Facts(r) /\ <<op, req[r].of>> \in menu.meet
        /\ menu \in Menus
    BY Here
  <2> QED
    BY <2>1, MenuAssumption
<1>2. /\ AuthPlace(op) \in Places \ {"idle", "auth"} /\ patched \in SUBSET Fields /\ todo \in Seq(Statement)
  <2>1. AuthPlace(op) \in Places \ {"idle", "auth"}
    BY <1>1 DEF AuthPlace, Places
  <2>2. Messages(req[r].of) \in Statement
    BY <1>1 DEF Messages, Statement, Tables, Children, Wiped
  <2> QED
    BY <2>1, <2>2
<1>3. req' = [req EXCEPT ![r] = w]
  BY Zenon DEF Start
<1>4. a \in Work /\ a.at = AuthPlace(op) /\ Only(a, req[r], {"at"})
  BY <1>1, <1>2, SetAt, Zenon
<1> HIDE DEF a, todo, patched
<1>5. b \in Work /\ b.patched = patched /\ Only(b, a, {"patched"})
  BY <1>2, <1>4, SetPatched, Zenon
<1> HIDE DEF b
<1>6. w \in Work /\ w.todo = todo /\ Only(w, b, {"todo"})
  BY <1>2, <1>5, SetTodo, Zenon
<1> HIDE DEF w
<1>7. Only(w, req[r], {"at", "patched", "todo"}) /\ w.at = AuthPlace(op)
  BY <1>4, <1>5, <1>6 DEF Only
<1>8. Moves(r, {"at", "patched", "todo"}) /\ req'[r] = w
  BY <1>3, <1>6, <1>7, Put DEF IInv, Moves
<1>9. Acts(r)
  BY <1>2, <1>7, <1>8, StepActs, StayVersions DEF Every
<1>10. req'[r].at = AuthPlace(op) /\ req'[r].op = op /\ req'[r].of = req[r].of /\ req'[r].todo = todo
  BY <1>6, <1>7, <1>8 DEF Only
<1>11. menu' = menu /\ db' = db /\ cur' = cur
  BY DEF Kept
<1>12. /\ op \in {"thread", "purge"} => todo = <<Messages(req[r].of)>>
       /\ op \notin {"thread", "purge"} => todo = << >>
  BY DEF todo
<1>13. Local(req[r])'
  <2>1. /\ AuthPlace(op) \in {"load", "save", "check", "lock", "confirm", "root", "intent", "purse", "cashier",
                               "find", "devices", "recipient", "next", "upsert"}
        /\ AuthPlace(op) = "load" => op \in {"system", "config", "ownerConfig"}
        /\ AuthPlace(op) = "save" => op = "brand"
        /\ AuthPlace(op) = "check" => op = "create"
        /\ AuthPlace(op) = "lock" => op = "delete"
        /\ AuthPlace(op) = "confirm" => op \in {"wipe", "wipeAll"}
        /\ AuthPlace(op) = "root" => op = "reset"
        /\ AuthPlace(op) = "intent" => op \in {"markPaid", "markSent"}
        /\ AuthPlace(op) = "purse" => op = "bet"
        /\ AuthPlace(op) = "cashier" => op = "close"
        /\ AuthPlace(op) = "find" => op \in {"credits", "register", "unregister", "read", "drop"}
        /\ AuthPlace(op) = "devices" => op = "test"
        /\ AuthPlace(op) = "recipient" => op = "send"
        /\ AuthPlace(op) = "next" => op \in {"thread", "purge"}
        /\ AuthPlace(op) = "upsert" => op = "key"
    BY <1>1, AuthPlaces
  <2>2. AuthPlace(op) = "next" => \A i \in DOMAIN todo : Meant(req'[r], todo[i])
    <3> SUFFICES ASSUME AuthPlace(op) = "next" PROVE \A i \in DOMAIN todo : Meant(req'[r], todo[i])
      OBVIOUS
    <3> DEFINE m == Messages(req[r].of)
    <3>1. m.sql = "DELETE" /\ m.table = "message" /\ m.of = req[r].of
      BY DEF Messages
    <3>2. op \in {"thread", "purge"} /\ req'[r].op = op /\ req'[r].of = req[r].of
      BY <1>10, <2>1
    <3> HIDE DEF m, op
    <3>3. Meant(req'[r], m)
      BY <3>1, <3>2 DEF Meant
    <3>4. todo = <<m>>
      BY <1>12, <3>2 DEF m
    <3> QED
      BY <3>3, <3>4
  <2>3. AuthPlace(op) = "confirm" => todo = << >>
    BY <1>12, <2>1
  <2> QED
    BY <1>1, <1>10, <1>11, <2>1, <2>2, <2>3 DEF Local, Wipes
<1>14. Facts(r)'
  <2>1. AuthPlace(op) \notin {"idle", "auth", "insertTenant", "update", "destroy", "sweep", "notify", "balance",
                              "credit", "mark", "password", "audit", "stamped", "chain"}
    BY <1>1 DEF AuthPlace
  <2>2. req'[r].op = "create" => ~ Seen(One("tenant", req[r].of))'
    BY <1>1, <1>10, <1>11 DEF Facts, Seen
  <2>3. Resolved(op) => Known(One("tenant", req[r].of))'
    BY <1>10, <1>11 DEF Known
  <2> HIDE DEF op
  <2> QED
    BY <1>10, <2>1, <2>2, <2>3 DEF Facts
<1> QED
  BY <1>9, <1>13, <1>14 DEF Proper

LEMMA AuthActs ==
  ASSUME IInv, NEW r \in Reqs, OwnerAuth(r) \/ StaffAuth(r) \/ NoAuth(r)
  PROVE  Proper(r)
<1>0. req[r].at = "auth" /\ UNCHANGED Kept
  BY DEF OwnerAuth, StaffAuth, NoAuth, At
<1>1. ASSUME NEW status \in Statuses, req' = Answer(r, status) PROVE Proper(r)
  BY <1>0, <1>1, AnswerActs, StayVersions
<1>2. CASE OwnerAuth(r)
  <2>1. CASE req' = Answer(r, 404)
    BY <1>1, <2>1 DEF Statuses
  <2>2. CASE /\ req' = Start(r)
             /\ req[r].op \in {"system", "brand", "create", "wipeAll"} \/ TenantThere(req[r].of)
    <3>1. Resolved(req[r].op) => Known(One("tenant", req[r].of))
      BY <2>2 DEF Resolved, TenantThere, Known
    <3>2. req[r].op # "inbox"
      BY <1>2 DEF OwnerAuth, OwnerOps, BothOps
    <3> QED
      BY <1>0, <2>2, <3>1, <3>2, StartActs
  <2> QED
    BY <1>2, <2>1, <2>2 DEF OwnerAuth
<1>3. CASE StaffAuth(r)
  <2>1. CASE req' = Answer(r, 401) \/ req' = Answer(r, 500)
    BY <1>1, <2>1 DEF Statuses
  <2>2. CASE req' = Start(r) /\ req[r].op # "inbox" /\ Present("staff", req[r].of) # {}
    <3>1. PICK y \in menu.rows : y[1] = "staff" /\ y[2] = req[r].of /\ Exists(db[y])
      BY <2>2 DEF Present, Of
    <3>2. Known(y) /\ y[2] \in Tenants
      BY <1>0, <3>1, Here, NamedAssumption DEF Known, Exists
    <3>3. Known(One("tenant", req[r].of))
      BY <3>1, <3>2, TenantKnown
    <3> QED
      BY <1>0, <2>2, <3>3, StartActs
  <2> QED
    BY <1>3, <2>1, <2>2 DEF StaffAuth
<1>4. CASE NoAuth(r)
  BY <1>0, <1>4, StartActs DEF NoAuth, Resolved
<1> QED
  BY <1>2, <1>3, <1>4


\* Steps that change nothing but the place of the request.
LEMMA GoActs ==
  ASSUME IInv, NEW r \in Reqs, NEW place \in Places \ {"idle", "auth"}, req[r].at # "idle", Go(r, place)
  PROVE  Acts(r) /\ Only(req'[r], req[r], {"at"}) /\ req'[r].at = place /\ UNCHANGED Kept
BY GotoActs, StayVersions DEF Go

LEMMA LoadActs ==
  ASSUME IInv, NEW r \in Reqs, Load(r)
  PROVE  Proper(r)
<1>1. req[r].at = "load"
  BY DEF Load, At
<1>2. CASE Reply(r, 400)
  BY <1>1, <1>2, ReplyActs DEF Statuses
<1>3. ASSUME NEW F \in (SUBSET Fields) \ {{}},
             req' = [req EXCEPT ![r].at = "save", ![r].patched = F,
                                ![r].seen = [f \in Fields |-> db[<<"settings", req[r].of, f>>].n]],
             UNCHANGED Kept
      PROVE  Proper(r)
  <2> DEFINE seen == [f \in Fields |-> db[<<"settings", req[r].of, f>>].n]
             a == [req[r] EXCEPT !.at = "save"]
             b == [a EXCEPT !.patched = F]
             w == [b EXCEPT !.seen = seen]
  <2>1. /\ req[r] \in Work /\ Local(req[r]) /\ Facts(r) /\ Named(req[r].op, req[r].of) \subseteq menu.rows
        /\ db \in [menu.rows -> Row]
    BY <1>1, Here
  <2>2. req[r].op \in {"system", "config", "ownerConfig"}
    BY <1>1, <2>1 DEF Local
  <2>3. \A f \in Fields : <<"settings", req[r].of, f>> \in menu.rows
    BY <2>1, <2>2 DEF Named
  <2>4. seen \in [Fields -> Nat]
    BY <2>1, <2>3 DEF Row
  <2>5. req' = [req EXCEPT ![r] = w]
    BY <1>3, Zenon
  <2>6. a \in Work /\ a.at = "save" /\ Only(a, req[r], {"at"})
    <3>1. "save" \in Places
      BY DEF Places
    <3> QED
      BY <2>1, <3>1, SetAt, Zenon
  <2> HIDE DEF a, seen
  <2>7. b \in Work /\ Only(b, a, {"patched"})
    <3>1. F \in SUBSET Fields
      BY <1>3
    <3> QED
      BY <2>6, <3>1, SetPatched, Zenon
  <2> HIDE DEF b
  <2>8. w \in Work /\ Only(w, b, {"seen"})
    BY <2>4, <2>7, SetSeen, Zenon
  <2> HIDE DEF w
  <2>9. Only(w, req[r], {"at", "patched", "seen"}) /\ w.at = "save"
    BY <2>6, <2>7, <2>8 DEF Only
  <2>10. Moves(r, {"at", "patched", "seen"}) /\ req'[r] = w
    BY <2>5, <2>8, <2>9, Put DEF IInv, Moves
  <2>11. Acts(r)
    BY <1>1, <1>3, <2>9, <2>10, StepActs, StayVersions DEF Every
  <2>12. /\ req'[r].at = "save" /\ req'[r].op = req[r].op /\ req'[r].of = req[r].of
         /\ menu' = menu /\ db' = db
    BY <1>3, <2>9, <2>10 DEF Only, Kept
  <2>13. Local(req[r])'
    BY <1>1, <2>1, <2>2, <2>12 DEF Local
  <2>14. Facts(r)'
    BY <1>1, <2>1, <2>2, <2>12 DEF Facts, Known
  <2> QED
    BY <2>11, <2>13, <2>14 DEF Proper
<1> QED
  BY <1>2, <1>3, Zenon DEF Load

LEMMA SaveActs ==
  ASSUME IInv, NEW r \in Reqs, Save(r)
  PROVE  Proper(r)
<1>1. req[r].at = "save"
  BY DEF Save, At
<1> DEFINE S == Of("settings", req[r].of)
<1>2. /\ \A y \in S : Mine(r, y)
      /\ req' = Answer(r, 200)
  BY Zenon DEF Save
<1>3. PICK v \in Values :
        Write(r, S, [y \in S |-> [st |-> "live",
                                  n |-> IF y[3] \in req[r].patched THEN v ELSE req[r].seen[y[3]]]])
  BY Zenon DEF Save
<1> DEFINE new == [y \in S |-> [st |-> "live", n |-> IF y[3] \in req[r].patched THEN v ELSE req[r].seen[y[3]]]]
<1>4. /\ req[r] \in Work /\ Local(req[r]) /\ Facts(r) /\ menu.rows \subseteq Rows
      /\ req[r].op \in {"system", "brand"} <=> req[r].of \notin Tenants
      /\ lock \in [menu.rows -> Reqs \cup {NoReq}]
  BY <1>1, Here
<1>5. req[r].op \in {"system", "brand", "config", "ownerConfig"}
  BY <1>1, <1>4 DEF Local
<1>6. req[r].seen \in [Fields -> Nat] /\ v \in Nat
  BY <1>4, WorkFields, BoundAssumption DEF Values
<1>7. ASSUME NEW y \in S PROVE Writable(r, y, new[y])
  <2>1. y \in menu.rows /\ y[1] = "settings" /\ y[2] = req[r].of
    BY DEF Of
  <2>2. y[3] \in Fields
    BY <1>4, <2>1, NumbersAssumption
  <2>3. new[y] \in Row /\ new[y].st = "live"
    BY <1>6, <2>2 DEF Row, States
  <2>4. Touches(req[r].op, req[r].of, y)
    BY <1>5, <2>1 DEF Touches, Locks
  <2>5. y[2] \in Tenants => Known(One("tenant", y[2]))
    BY <1>1, <1>4, <1>5, <2>1 DEF Facts, Resolved
  <2> HIDE DEF new
  <2> QED
    BY <1>2, <2>1, <2>3, <2>4, <2>5 DEF Writable, FreshId, Settings, Mine
<1>8. Write(r, S, new)
  BY <1>3
<1> HIDE DEF new, S
<1>9. Versions(r)
  BY <1>1, <1>7, <1>8, WriteVersions
<1> QED
  BY <1>1, <1>2, <1>9, AnswerActs DEF Statuses

LEMMA CheckNameActs ==
  ASSUME IInv, NEW r \in Reqs, CheckName(r)
  PROVE  Proper(r)
<1>1. req[r].at = "check"
  BY DEF CheckName, At
<1>2. CASE Reply(r, 409)
  BY <1>1, <1>2, ReplyActs DEF Statuses
<1>3. CASE Go(r, "insertTenant")
  <2>1. /\ Acts(r) /\ Only(req'[r], req[r], {"at"}) /\ req'[r].at = "insertTenant" /\ UNCHANGED Kept
    BY <1>1, <1>3, GoActs DEF Places
  <2>2. /\ req'[r].op = req[r].op /\ req'[r].of = req[r].of /\ menu' = menu /\ db' = db /\ cur' = cur
        /\ Local(req[r]) /\ Facts(r)
    BY <1>1, <2>1, Here DEF Only, Kept
  <2>3. req[r].op = "create"
    BY <1>1, <2>2 DEF Local
  <2>4. Local(req[r])'
    BY <1>1, <2>1, <2>2, <2>3 DEF Local
  <2>5. Facts(r)'
    BY <1>1, <2>1, <2>2, <2>3 DEF Facts, Known, Seen, Resolved
  <2> QED
    BY <2>1, <2>4, <2>5 DEF Proper
<1> QED
  BY <1>2, <1>3 DEF CheckName


\* The first row of a set is one of it.
LEMMA FirstRow ==
  ASSUME NEW S \in SUBSET Rows, S # {}
  PROVE  Next1(S) \in S /\ \A z \in S : Next1(S)[3] <= z[3]
<1> DEFINE N == {y[3] : y \in S}
<1>1. N \subseteq Nat /\ N # {}
  BY RowsAssumption
<1> HIDE DEF N
<1>2. PICK n \in N : \A m \in N : <<m, n>> \notin OpToRel(<, Nat)
  BY <1>1, WFMin, NatLessThanWellFounded, Zenon
<1>3. \A m \in N : ~ (m < n)
  BY <1>1, <1>2, Zenon DEF OpToRel
<1>4. \A m \in N : n <= m
  BY <1>1, <1>3
<1>5. \E y \in S : \A z \in S : y[3] <= z[3]
  BY <1>4 DEF N
<1> QED
  BY <1>5 DEF Next1

\* A fresh row: in no version, free, and in no record.
LEMMA UnusedIs ==
  ASSUME IInv, NEW table, NEW t, NEW y \in Unused(table, t)
  PROVE  /\ y \in menu.rows /\ y[1] = table /\ y[2] = t /\ ~ Seen(y) /\ lock[y] = NoReq
         /\ \A q \in Reqs : req[q].row # y
<1>1. /\ y \in menu.rows /\ y[1] = table /\ y[2] = t /\ ~ Seen(y)
      /\ \A q \in Reqs : req[q].row # y
  BY DEF Unused, Of, Seen, Reserved
<1>2. lock[y] = NoReq
  BY <1>1 DEF IInv, TypeOK, RowsPart, Holds
<1> QED
  BY <1>1, <1>2

\* An insert below tenant t.
LEMMA InsertVersions ==
  ASSUME IInv, NEW r \in Reqs, NEW table, NEW t, NEW row \in Row, NEW after, req[r].at \notin {"idle", "auth"},
         Insert(r, table, t, row, after), row.st # "none", table \in Locks(req[r].op),
         t = req[r].of \/ req[r].op = "wipeAll"
  PROVE  \/ Reply(r, 500)
         \/ /\ req' = after /\ Versions(r) /\ TenantThere(t) /\ Unused(table, t) # {}
            /\ WriteOne(r, Next1(Unused(table, t)), row)
            /\ Next1(Unused(table, t)) \in Unused(table, t)
<1>1. CASE ~ TenantThere(t)
  BY <1>1 DEF Insert
<1>2. CASE TenantThere(t)
  <2> DEFINE y == Next1(Unused(table, t))
  <2>1. Unused(table, t) # {} /\ WriteOne(r, y, row) /\ req' = after
    BY <1>2 DEF Insert
  <2>2. Unused(table, t) \in SUBSET Rows
    BY MenuAssumption DEF Unused, Of, IInv, TypeOK
  <2>3. y \in Unused(table, t)
    BY <2>1, <2>2, FirstRow
  <2> HIDE DEF y
  <2>4. /\ y \in menu.rows /\ y[1] = table /\ y[2] = t /\ ~ Seen(y) /\ lock[y] = NoReq
        /\ \A q \in Reqs : req[q].row # y
    BY <2>3, UnusedIs
  <2>5. Known(One("tenant", t))
    BY <1>2 DEF TenantThere, Known
  <2>6. Writable(r, y, row)
    BY <2>4, <2>5 DEF Writable, Touches, Seen
  <2>7. Versions(r)
    BY <2>1, <2>6, WriteOneVersions
  <2> QED
    BY <1>2, <2>1, <2>3, <2>7 DEF y
<1> QED
  BY <1>1, <1>2

\* Nobody holds a row below a tenant that is about to be created.
LEMMA UnseenTenant ==
  ASSUME IInv, NEW y \in menu.rows, y[2] \in Tenants, ~ Seen(One("tenant", y[2]))
  PROVE  ~ Seen(y) /\ lock[y] = NoReq
<1>1. ~ Known(One("tenant", y[2])) /\ cur[One("tenant", y[2])].st # "live"
  BY DEF Seen, Known
<1>2. ~ Known(y)
  BY <1>1 DEF IInv, RowsPart
<1>3. lock[y] = NoReq
  BY <1>1 DEF IInv, TypeOK, RowsPart, Holds
<1> QED
  BY <1>2, <1>3 DEF IInv, RowsPart, Known, Seen

LEMMA InsertTenantActs ==
  ASSUME IInv, NEW r \in Reqs, InsertTenant(r)
  PROVE  Proper(r)
<1>1. req[r].at = "insertTenant"
  BY DEF InsertTenant, At
<1>2. CASE Reply(r, 409)
  BY <1>1, <1>2, ReplyActs DEF Statuses
<1>3. ASSUME NEW configured \in BOOLEAN,
             LET new == Bootstrap(req[r].of, configured) IN Write(r, new, [y \in new |-> Is("live")]),
             req' = [req EXCEPT ![r].at = "audit", ![r].patched = Fields]
      PROVE  Proper(r)
  <2> DEFINE t == req[r].of
             T == One("tenant", t)
             new == Bootstrap(t, configured)
             rows == [y \in new |-> Is("live")]
             a == [req[r] EXCEPT !.at = "audit"]
             w == [a EXCEPT !.patched = Fields]
  <2>1. /\ req[r] \in Work /\ Local(req[r]) /\ Facts(r) /\ Named(req[r].op, t) \subseteq menu.rows
        /\ req[r].op \in {"system", "brand"} <=> t \notin Tenants
        /\ lock \in [menu.rows -> Reqs \cup {NoReq}] /\ cur \in [menu.rows -> Row] /\ db \in [menu.rows -> Row]
    BY <1>1, Here
  <2>2. req[r].op = "create" /\ t \in Tenants /\ ~ Seen(T)
    BY <1>1, <2>1 DEF Local, Facts
  <2>3. \A b \in {"tenant", "distributor", "wallet", "pool", "staff", "rootKey"} : One(b, t) \in menu.rows
    BY <2>1, <2>2 DEF Named, One
  <2>4. ASSUME NEW y \in new
        PROVE  /\ y \in menu.rows /\ y[2] = t
               /\ y[1] \in {"tenant", "distributor", "wallet", "pool", "staff", "rootKey", "settings"}
    <3> DEFINE B == {"tenant", "distributor", "wallet", "pool", "staff", "rootKey"}
    <3>1. CASE \E b \in B : y = One(b, t)
      BY <2>3, <3>1 DEF One
    <3>2. CASE y \in Of("settings", t)
      BY <3>2 DEF Of
    <3> QED
      BY <3>1, <3>2 DEF Bootstrap
  <2>5. T \in new
    BY DEF Bootstrap
  <2>6. \A y \in new : rows[y] = Is("live")
    OBVIOUS
  <2>7. Write(r, new, rows)
    BY <1>3
  <2> HIDE DEF new, rows
  <2>8. /\ db' = db /\ menu' = menu
        /\ cur' = [y \in menu.rows |-> IF y \in new THEN rows[y] ELSE cur[y]]
        /\ lock' = [y \in menu.rows |-> IF y \in new THEN r ELSE lock[y]]
    BY <2>7 DEF Write
  <2>9. Is("live") \in Row /\ Is("live").st = "live"
    BY DEF Is, Row, States
  <2>10. cur' \in [menu.rows -> Row] /\ lock' \in [menu.rows -> Reqs \cup {NoReq}]
    BY <2>1, <2>6, <2>8, <2>9
  <2>11. ASSUME NEW y \in menu.rows
         PROVE  (cur'[y] = cur[y] /\ lock'[y] = lock[y]) \/ (req[r].at # "auth" /\ Changed(r, y))
    <3>1. CASE y \notin new
      BY <2>8, <3>1
    <3>2. CASE y \in new
      <4>1. /\ y[2] = t /\ y[1] \in {"tenant", "distributor", "wallet", "pool", "staff", "rootKey", "settings"}
            /\ cur'[y] = Is("live") /\ lock'[y] = r
        BY <2>4, <2>6, <2>8, <3>2
      <4>2. lock[y] = NoReq /\ ~ Seen(y)
        BY <2>2, <4>1, UnseenTenant
      <4>3. cur'[T] = Is("live") /\ lock'[T] = r
        BY <2>4, <2>5, <2>6, <2>8
      <4>4. Touches(req[r].op, t, y)
        BY <2>2, <4>1 DEF Touches, Locks
      <4> QED
        BY <1>1, <2>2, <2>9, <4>1, <4>2, <4>3, <4>4 DEF Changed, Seen
    <3> QED
      BY <3>1, <3>2
  <2>12. Versions(r)
    BY <2>8, <2>10, <2>11 DEF Versions
  <2>13. req' = [req EXCEPT ![r] = w]
    BY <1>3, Zenon
  <2>14. a \in Work /\ a.at = "audit" /\ Only(a, req[r], {"at"})
    <3>1. "audit" \in Places
      BY DEF Places
    <3> QED
      BY <2>1, <3>1, SetAt, Zenon
  <2> HIDE DEF a
  <2>15. w \in Work /\ Only(w, a, {"patched"})
    <3>1. Fields \in SUBSET Fields
      OBVIOUS
    <3> QED
      BY <2>14, <3>1, SetPatched, Zenon
  <2> HIDE DEF w
  <2>16. Only(w, req[r], {"at", "patched"}) /\ w.at = "audit"
    BY <2>14, <2>15 DEF Only
  <2>17. Moves(r, {"at", "patched"}) /\ req'[r] = w
    BY <2>13, <2>15, <2>16, Put DEF IInv, Moves
  <2>18. Acts(r)
    BY <1>1, <2>12, <2>16, <2>17, StepActs DEF Every
  <2>19. req'[r].at = "audit" /\ req'[r].op = req[r].op /\ req'[r].of = t
    BY <2>16, <2>17 DEF Only
  <2>20. Local(req[r])'
    BY <1>1, <2>1, <2>2, <2>8, <2>19 DEF Local
  <2>21. lock'[T] = r /\ cur'[T].st = "live"
    BY <2>4, <2>5, <2>6, <2>8, <2>9
  <2>22. Facts(r)'
    BY <2>2, <2>19, <2>21 DEF Facts, Resolved
  <2> QED
    BY <2>18, <2>20, <2>22 DEF Proper
<1> QED
  BY <1>2, <1>3, Zenon DEF InsertTenant


-----------------------------------------------------------------------------
(* Wiping and deleting *)

\* The statements of a wipe of tenant t and of its deletion.
WipeSet(t) == {Delete(b, t) : b \in Children} \cup {Create(b, t) : b \in Balances}
DropSet(t) == {Delete(b, t) : b \in Children \cup Settings}

LEMMA ConcatIs ==
  ASSUME NEW S, NEW s \in Seq(S), NEW u \in Seq(S), Len(s) # 0
  PROVE  s \o u \in Seq(S) /\ s \o u # << >>
<1>1. s \o u \in Seq(S) /\ Len(s \o u) # 0
  OBVIOUS
<1> QED
  BY <1>1

LEMMA StatementsIs ==
  ASSUME NEW t \in Scopes
  PROVE  /\ WipeSet(t) \subseteq Statement /\ DropSet(t) \subseteq Statement
         /\ WipeOrder(t) \o Reset(t) \in Seq(WipeSet(t)) /\ WipeOrder(t) \o Reset(t) # << >>
         /\ WipeOrder(t) \o Leftovers(t) \in Seq(DropSet(t)) /\ WipeOrder(t) \o Leftovers(t) # << >>
<1>1. \A b \in Tables : Delete(b, t) \in Statement /\ Create(b, t) \in Statement
  BY DEF Delete, Create, Statement
<1>2. Children \subseteq Tables /\ Balances \subseteq Children /\ Settings \subseteq Tables
  BY DEF Children, Tables
<1>3. WipeSet(t) \subseteq Statement /\ DropSet(t) \subseteq Statement
  BY <1>1, <1>2 DEF WipeSet, DropSet
<1>4. /\ \A b \in Children : Delete(b, t) \in WipeSet(t) /\ Delete(b, t) \in DropSet(t)
      /\ \A b \in Balances : Create(b, t) \in WipeSet(t)
      /\ \A b \in Settings : Delete(b, t) \in DropSet(t)
  BY DEF WipeSet, DropSet
<1>5. /\ Delete("message", t) \in WipeSet(t) \cap DropSet(t) /\ Delete("key", t) \in WipeSet(t) \cap DropSet(t)
      /\ Delete("device", t) \in WipeSet(t) \cap DropSet(t) /\ Delete("payment", t) \in WipeSet(t) \cap DropSet(t)
      /\ Delete("intent", t) \in WipeSet(t) \cap DropSet(t) /\ Delete("withdrawal", t) \in WipeSet(t) \cap DropSet(t)
      /\ Delete("purse", t) \in WipeSet(t) \cap DropSet(t) /\ Delete("staff", t) \in WipeSet(t) \cap DropSet(t)
      /\ Delete("wallet", t) \in WipeSet(t) \cap DropSet(t) /\ Delete("pool", t) \in WipeSet(t) \cap DropSet(t)
      /\ Create("wallet", t) \in WipeSet(t) /\ Create("pool", t) \in WipeSet(t)
      /\ Delete("settings", t) \in DropSet(t) /\ Delete("rootKey", t) \in DropSet(t)
  <2>1. {"message", "key", "device", "payment", "intent", "withdrawal", "purse", "staff", "wallet", "pool"} \subseteq Children
    BY DEF Children, Wiped, Balances
  <2>2. {"wallet", "pool"} \subseteq Balances /\ {"settings", "rootKey"} \subseteq Settings
    BY DEF Balances, Settings
  <2> QED
    BY ONLY <1>4, <2>1, <2>2, SMT
<1>6. /\ WipeOrder(t) \in Seq(WipeSet(t)) /\ WipeOrder(t) \in Seq(DropSet(t))
      /\ Reset(t) \in Seq(WipeSet(t)) /\ Leftovers(t) \in Seq(DropSet(t))
  BY ONLY <1>5, SMT DEF WipeOrder, Reset, Leftovers
<1>7. Len(WipeOrder(t)) # 0
  BY DEF WipeOrder
<1>8. /\ WipeOrder(t) \o Reset(t) \in Seq(WipeSet(t)) /\ WipeOrder(t) \o Reset(t) # << >>
      /\ WipeOrder(t) \o Leftovers(t) \in Seq(DropSet(t)) /\ WipeOrder(t) \o Leftovers(t) # << >>
  BY ONLY <1>6, <1>7, ConcatIs, Zenon
<1> QED
  BY <1>3, <1>8

LEMMA SeqMore ==
  ASSUME NEW S, NEW U, S \subseteq U, NEW s \in Seq(S)
  PROVE  s \in Seq(U) /\ \A i \in DOMAIN s : s[i] \in S
OBVIOUS

LEMMA TailIs ==
  ASSUME NEW S, NEW s \in Seq(S), s # << >>
  PROVE  Tail(s) \in Seq(S) /\ \A i \in DOMAIN Tail(s) : i + 1 \in DOMAIN s /\ Tail(s)[i] = s[i + 1]
OBVIOUS

LEMMA HeadIs ==
  ASSUME NEW S, NEW s \in Seq(S), s # << >>
  PROVE  Head(s) = s[1] /\ 1 \in DOMAIN s /\ s[1] \in S
OBVIOUS

LEMMA FieldsOf == ASSUME NEW b, NEW t
                  PROVE  /\ Delete(b, t).sql = "DELETE" /\ Delete(b, t).table = b /\ Delete(b, t).of = t
                         /\ Create(b, t).sql = "INSERT" /\ Create(b, t).table = b /\ Create(b, t).of = t
BY DEF Delete, Create


\* A step into or within a request's statements.
LEMMA NextProper ==
  ASSUME IInv, NEW r \in Reqs, Acts(r), req'[r].at \in {"next", "sweep"},
         req[r].op \in Wipes \cup {"thread", "purge"},
         Resolved(req[r].op) => Known(One("tenant", req[r].of)),
         \A i \in DOMAIN req'[r].todo : Meant(req[r], req'[r].todo[i]),
         req[r].op = "wipe" => req'[r].left \subseteq {req[r].of},
         req'[r].at = "sweep" => /\ req'[r].todo # << >> /\ req'[r].rows \subseteq Aimed(req'[r].todo[1])
                                 /\ \A y \in req'[r].rows : Known(y) \/ lock'[y] = r
  PROVE  Proper(r)
<1>1. req'[r].op = req[r].op /\ req'[r].of = req[r].of /\ menu' = menu /\ db' = db /\ req[r].at # "idle"
  BY DEF Acts, Moves, Only, Versions
<1>2. <<req[r].op, req[r].of>> \in menu.meet
  BY <1>1, Here
<1>3. \A i \in DOMAIN req'[r].todo : Meant(req'[r], req'[r].todo[i])
  BY <1>1 DEF Meant
<1>4. req'[r].at = "sweep" => (req[r].rows \subseteq Aimed(req[r].todo[1]))'
  BY <1>1, Zenon DEF Aimed
<1>5. req[r].op = "wipe" => req'[r].left \subseteq {req[r].of}
  OBVIOUS
<1>6. CASE req'[r].at = "next"
  <2>1. Local(req[r])'
    BY ONLY <1>1, <1>2, <1>3, <1>5, <1>6, req[r].op \in Wipes \cup {"thread", "purge"} DEF Local
  <2>2. Facts(r)'
    BY <1>1, <1>6 DEF Facts, Known
  <2> QED
    BY <2>1, <2>2 DEF Proper
<1>7. CASE req'[r].at = "sweep"
  <2>1. Local(req[r])'
    BY ONLY <1>1, <1>2, <1>3, <1>4, <1>5, <1>7, req[r].op \in Wipes \cup {"thread", "purge"},
            req'[r].at = "sweep" => req'[r].todo # << >> DEF Local
  <2>2. Facts(r)'
    BY <1>1, <1>7 DEF Facts, Known
  <2> QED
    BY <2>1, <2>2 DEF Proper
<1> QED
  BY <1>6, <1>7

LEMMA ConfirmActs ==
  ASSUME IInv, NEW r \in Reqs, Confirm(r)
  PROVE  Proper(r)
<1>1. req[r].at = "confirm"
  BY DEF Confirm, At
<1>2. CASE Reply(r, 403)
  BY <1>1, <1>2, ReplyActs DEF Statuses
<1> DEFINE left == IF req[r].op = "wipe" THEN {req[r].of} ELSE {t \in Tenants : TenantThere(t)}
           a == [req[r] EXCEPT !.at = "next"]
           w == [a EXCEPT !.left = left]
<1>3. CASE req' = [req EXCEPT ![r].at = "next", ![r].left = left] /\ UNCHANGED Kept
  <2>1. /\ req[r] \in Work /\ Local(req[r]) /\ Facts(r)
        /\ req[r].op \in {"system", "brand"} <=> req[r].of \notin Tenants
    BY <1>1, Here
  <2>2. req[r].op \in {"wipe", "wipeAll"} /\ req[r].todo = << >> /\ req[r].of \in Tenants
    BY <1>1, <2>1 DEF Local
  <2>3. req' = [req EXCEPT ![r] = w]
    BY <1>3, Zenon
  <2>4. left \in SUBSET Tenants
    BY <2>2
  <2>5. a \in Work /\ a.at = "next" /\ Only(a, req[r], {"at"})
    <3>1. "next" \in Places
      BY DEF Places
    <3> QED
      BY <2>1, <3>1, SetAt, Zenon
  <2> HIDE DEF a, left
  <2>6. w \in Work /\ w.left = left /\ Only(w, a, {"left"})
    BY <2>4, <2>5, SetLeft, Zenon
  <2> HIDE DEF w
  <2>7. Only(w, req[r], {"at", "left"}) /\ w.at = "next"
    BY <2>5, <2>6 DEF Only
  <2>8. Moves(r, {"at", "left"}) /\ req'[r] = w
    BY <2>3, <2>6, <2>7, Put DEF IInv, Moves
  <2>9. Acts(r)
    BY <1>1, <1>3, <2>7, <2>8, StepActs, StayVersions DEF Every
  <2>10. req'[r].at = "next" /\ req'[r].todo = << >> /\ req'[r].left = left
    BY <2>2, <2>6, <2>7, <2>8 DEF Only
  <2>11. Resolved(req[r].op) => Known(One("tenant", req[r].of))
    BY <1>1, <2>1 DEF Facts
  <2> QED
    BY <2>2, <2>9, <2>10, <2>11, NextProper DEF Wipes, left
<1> QED
  BY <1>2, <1>3, Zenon DEF Confirm

\* What is known between two statements.
LEMMA BetweenStatements ==
  ASSUME IInv, NEW r \in Reqs, req[r].at \in {"next", "sweep"}
  PROVE  /\ req[r].op \in Wipes \cup {"thread", "purge"}
         /\ Resolved(req[r].op) => Known(One("tenant", req[r].of))
         /\ req[r].todo \in Seq(Statement) /\ \A i \in DOMAIN req[r].todo : Meant(req[r], req[r].todo[i])
         /\ req[r].op = "wipe" => req[r].left \subseteq {req[r].of}
         /\ req[r].left \in SUBSET Tenants /\ req[r].rows \in SUBSET Rows
<1>1. req[r] \in Work /\ Local(req[r]) /\ Facts(r)
  BY Here
<1>2. /\ req[r].op \in Wipes \cup {"thread", "purge"}
      /\ Resolved(req[r].op) => Known(One("tenant", req[r].of))
      /\ \A i \in DOMAIN req[r].todo : Meant(req[r], req[r].todo[i])
      /\ req[r].op = "wipe" => req[r].left \subseteq {req[r].of}
  BY <1>1 DEF Local, Facts
<1> QED
  BY <1>1, <1>2, WorkFields

LEMMA NextTenantActs ==
  ASSUME IInv, NEW r \in Reqs, NextTenant(r)
  PROVE  Proper(r)
<1>1. /\ req[r].at = "next" /\ req[r].op \in {"wipe", "wipeAll"} /\ req[r].todo = << >> /\ UNCHANGED Kept
  BY DEF NextTenant, At
<1>2. req[r] \in Work
  BY <1>1, Here
<1>3. ASSUME NEW t \in req[r].left,
             req' = [req EXCEPT ![r].left = @ \ {t}, ![r].todo = WipeOrder(t) \o Reset(t)]
      PROVE  Proper(r)
  <2> DEFINE todo == WipeOrder(t) \o Reset(t)
             left == req[r].left \ {t}
             a == [req[r] EXCEPT !.left = left]
             w == [a EXCEPT !.todo = todo]
  <2>1. t \in Tenants /\ t \in Scopes /\ (req[r].op = "wipe" => t = req[r].of) /\ left \in SUBSET Tenants
    BY <1>1, <1>3, BetweenStatements, NamesAssumption
  <2>2. todo \in Seq(Statement) /\ \A i \in DOMAIN todo : todo[i] \in WipeSet(t)
    <3>1. todo \in Seq(WipeSet(t)) /\ WipeSet(t) \subseteq Statement
      BY <2>1, StatementsIs
    <3> HIDE DEF todo
    <3> QED
      BY <3>1, SeqMore
  <2>3. req' = [req EXCEPT ![r] = w]
    BY <1>3, Zenon
  <2> HIDE DEF todo
  <2>4. a \in Work /\ a.left = left /\ Only(a, req[r], {"left"})
    BY <1>2, <2>1, SetLeft, Zenon
  <2> HIDE DEF a, left
  <2>5. w \in Work /\ w.todo = todo /\ Only(w, a, {"todo"})
    BY <2>2, <2>4, SetTodo, Zenon
  <2> HIDE DEF w
  <2>6. Only(w, req[r], {"left", "todo"}) /\ w.at = "next" /\ w.left = left
    BY <1>1, <2>4, <2>5 DEF Only
  <2>7. Moves(r, {"left", "todo"}) /\ req'[r] = w
    BY <2>3, <2>5, <2>6, Put DEF IInv, Moves
  <2>8. Acts(r)
    BY <1>1, <2>6, <2>7, StepActs, StayVersions DEF Every
  <2>9. ASSUME NEW i \in DOMAIN todo PROVE Meant(req[r], todo[i])
    <3>1. CASE \E b \in Children : todo[i] = Delete(b, t)
      BY <1>1, <2>1, <3>1, FieldsOf, NamesAssumption DEF Meant
    <3>2. CASE \E b \in Balances : todo[i] = Create(b, t)
      BY <1>1, <2>1, <3>2, FieldsOf, NamesAssumption DEF Meant, Children
    <3> QED
      BY <2>2, <3>1, <3>2 DEF WipeSet
  <2>10. req[r].op = "wipe" => left \subseteq {req[r].of}
    BY <1>1, BetweenStatements DEF left
  <2> QED
    BY <1>1, <2>5, <2>6, <2>7, <2>8, <2>9, <2>10, NextProper, BetweenStatements
<1>4. CASE req[r].op = "wipeAll" /\ req' = [req EXCEPT ![r].todo = <<Delete("staff", "all")>>, ![r].n = 1]
  <2> DEFINE todo == <<Delete("staff", "all")>>
             a == [req[r] EXCEPT !.todo = todo]
             w == [a EXCEPT !.n = 1]
  <2>1. Delete("staff", "all") \in Statement
    BY DEF Delete, Statement, Tables, Children
  <2>2. todo \in Seq(Statement)
    BY <2>1
  <2>3. req' = [req EXCEPT ![r] = w]
    BY <1>4, Zenon
  <2>4. \A i \in DOMAIN todo : Meant(req[r], todo[i])
    <3>1. Meant(req[r], Delete("staff", "all"))
      BY <1>4, FieldsOf DEF Meant, Children
    <3> QED
      BY <3>1
  <2> HIDE DEF todo
  <2>5. a \in Work /\ a.todo = todo /\ Only(a, req[r], {"todo"})
    BY <1>2, <2>2, SetTodo, Zenon
  <2> HIDE DEF a
  <2>6. w \in Work /\ Only(w, a, {"n"})
    <3>1. 1 \in Nat
      OBVIOUS
    <3> QED
      BY <2>5, <3>1, SetN, Zenon
  <2> HIDE DEF w
  <2>7. Only(w, req[r], {"n", "todo"}) /\ w.at = "next" /\ w.todo = todo
    BY <1>1, <2>5, <2>6 DEF Only
  <2>8. Moves(r, {"n", "todo"}) /\ req'[r] = w
    BY <2>3, <2>6, <2>7, Put DEF IInv, Moves
  <2>9. Acts(r)
    BY <1>1, <2>7, <2>8, StepActs, StayVersions DEF Every
  <2>10. req[r].op # "wipe"
    BY <1>4
  <2> QED
    BY <1>1, <2>4, <2>7, <2>8, <2>9, <2>10, NextProper, BetweenStatements
<1>5. CASE req' = Answer(r, 200)
  BY <1>1, <1>5, AnswerActs, StayVersions DEF Statuses
<1> QED
  BY <1>3, <1>4, <1>5, Zenon DEF NextTenant


LEMMA LockTenantActs ==
  ASSUME IInv, NEW r \in Reqs, LockTenant(r)
  PROVE  Proper(r)
<1> DEFINE t == req[r].of
           y == One("tenant", t)
           todo == WipeOrder(t) \o Leftovers(t)
           a == [req[r] EXCEPT !.at = "next"]
           w == [a EXCEPT !.todo = todo]
<1>1. req[r].at = "lock" /\ Mine(r, y)
  BY DEF LockTenant, At
<1>2. CASE Reply(r, 404)
  BY <1>1, <1>2, ReplyActs DEF Statuses
<1>3. CASE /\ TenantThere(t) /\ Write(r, {y}, cur)
           /\ req' = [req EXCEPT ![r].at = "next", ![r].todo = todo]
  <2>1. /\ req[r] \in Work /\ Local(req[r]) /\ menu \in Menus /\ cur \in [menu.rows -> Row]
        /\ req[r].op \in {"system", "brand"} <=> t \notin Tenants
    BY <1>1, Here
  <2>2. req[r].op = "delete" /\ t \in Tenants /\ t \in Scopes
    BY <1>1, <2>1, NamesAssumption DEF Local
  <2>3. Known(y) /\ y \in menu.rows
    BY <1>3 DEF TenantThere, Known
  <2>4. Writable(r, y, cur[y])
    <3>1. y[1] = "tenant" /\ y[2] = t
      BY DEF One
    <3> HIDE DEF y
    <3>2. Touches(req[r].op, t, y)
      BY <2>2, <3>1 DEF Touches, Locks
    <3>3. cur[y].st # "none" /\ cur[y] \in Row
      BY <2>1, <2>3 DEF IInv, RowsPart
    <3> QED
      BY <1>1, <2>3, <3>1, <3>2, <3>3 DEF Writable, Mine, y
  <2>5. Versions(r)
    BY <1>1, <1>3, <2>4, WriteVersions
  <2>6. todo \in Seq(Statement) /\ \A i \in DOMAIN todo : todo[i] \in DropSet(t)
    <3>1. todo \in Seq(DropSet(t)) /\ DropSet(t) \subseteq Statement
      BY <2>2, StatementsIs
    <3> HIDE DEF todo
    <3> QED
      BY <3>1, SeqMore
  <2>7. req' = [req EXCEPT ![r] = w]
    BY <1>3, Zenon
  <2> HIDE DEF todo
  <2>8. a \in Work /\ a.at = "next" /\ Only(a, req[r], {"at"})
    <3>1. "next" \in Places
      BY DEF Places
    <3> QED
      BY <2>1, <3>1, SetAt, Zenon
  <2> HIDE DEF a
  <2>9. w \in Work /\ w.todo = todo /\ Only(w, a, {"todo"})
    BY <2>6, <2>8, SetTodo, Zenon
  <2> HIDE DEF w
  <2>10. Only(w, req[r], {"at", "todo"}) /\ w.at = "next"
    BY <2>8, <2>9 DEF Only
  <2>11. Moves(r, {"at", "todo"}) /\ req'[r] = w
    BY <2>7, <2>9, <2>10, Put DEF IInv, Moves
  <2>12. Acts(r)
    BY <1>1, <2>5, <2>10, <2>11, StepActs DEF Every
  <2>13. \A i \in DOMAIN todo : Meant(req[r], todo[i])
    BY <2>2, <2>6, FieldsOf DEF Meant, DropSet
  <2> QED
    BY <2>2, <2>3, <2>9, <2>10, <2>11, <2>12, <2>13, NextProper DEF Wipes
<1> QED
  BY <1>2, <1>3, Zenon DEF LockTenant

\* A DELETE goes on with the rows Y, or is done.
LEMMA SweepingActs ==
  ASSUME IInv, NEW r \in Reqs, NEW Y, req[r].at \in {"next", "sweep"}, req[r].todo # << >>, Sweeping(r, Y),
         Versions(r), Y \subseteq Aimed(req[r].todo[1]), \A y \in Y : Known(y) \/ lock'[y] = r
  PROVE  Proper(r)
<1> DEFINE at == IF Y = {} THEN "next" ELSE "sweep"
           todo == IF Y = {} THEN Tail(req[r].todo) ELSE req[r].todo
           a == [req[r] EXCEPT !.rows = Y]
           b == [a EXCEPT !.at = at]
           w == [b EXCEPT !.todo = todo]
<1>1. /\ req[r] \in Work /\ menu.rows \subseteq Rows /\ req[r].at # "idle"
  BY Here
<1>2. /\ req[r].todo \in Seq(Statement) /\ \A i \in DOMAIN req[r].todo : Meant(req[r], req[r].todo[i])
  BY BetweenStatements
<1>3. Y \in SUBSET Rows /\ at \in Places
  BY <1>1 DEF Aimed, Places
<1>4. todo \in Seq(Statement) /\ \A i \in DOMAIN todo : Meant(req[r], todo[i])
  <2> DEFINE s == req[r].todo
  <2>1. s \in Seq(Statement) /\ s # << >> /\ \A i \in DOMAIN s : Meant(req[r], s[i])
    BY <1>2
  <2> HIDE DEF s
  <2>2. Tail(s) \in Seq(Statement) /\ \A i \in DOMAIN Tail(s) : Meant(req[r], Tail(s)[i])
    BY <2>1, TailIs
  <2> QED
    BY <2>1, <2>2 DEF s
<1>5. req' = [req EXCEPT ![r] = w]
  BY Zenon DEF Sweeping
<1>6. a \in Work /\ a.rows = Y /\ Only(a, req[r], {"rows"})
  BY <1>1, <1>3, SetRows, Zenon
<1> HIDE DEF a, at, todo
<1>7. b \in Work /\ b.at = at /\ Only(b, a, {"at"})
  BY <1>3, <1>6, SetAt, Zenon
<1> HIDE DEF b
<1>8. w \in Work /\ w.todo = todo /\ Only(w, b, {"todo"})
  BY <1>4, <1>7, SetTodo, Zenon
<1> HIDE DEF w
<1>9. Only(w, req[r], {"rows", "at", "todo"}) /\ w.at = at /\ w.rows = Y /\ w.left = req[r].left
  BY <1>6, <1>7, <1>8 DEF Only
<1>10. Moves(r, {"rows", "at", "todo"}) /\ req'[r] = w
  BY <1>5, <1>8, <1>9, Put DEF IInv, Moves
<1>11. at \in {"next", "sweep"} /\ (at = "sweep" => todo = req[r].todo)
  BY DEF at, todo
<1>12. Acts(r)
  BY <1>1, <1>9, <1>10, <1>11, StepActs DEF Every
<1>13. /\ req'[r].at \in {"next", "sweep"} /\ req'[r].todo = todo /\ req'[r].rows = Y /\ req'[r].left = req[r].left
       /\ req'[r].at = "sweep" => req'[r].todo = req[r].todo
  BY <1>8, <1>9, <1>10, <1>11
<1> QED
  BY <1>4, <1>12, <1>13, NextProper, BetweenStatements

LEMMA StartDeleteActs ==
  ASSUME IInv, NEW r \in Reqs, StartDelete(r)
  PROVE  Proper(r)
<1>1. req[r].at = "next" /\ req[r].todo # << >> /\ UNCHANGED Kept
  BY DEF StartDelete, At
<1> DEFINE found == {y \in Aimed(Head(req[r].todo)) : Exists(db[y]) \/ (lock[y] = r /\ Exists(cur[y]))}
<1>2. PICK Y \in IF req[r].op = "purge" THEN SUBSET found ELSE {found} : Sweeping(r, Y)
  BY Zenon DEF StartDelete
<1>3. Y \subseteq found
  BY <1>2
<1>4. Head(req[r].todo) = req[r].todo[1]
  BY <1>1, BetweenStatements, HeadIs
<1>5. Y \subseteq Aimed(req[r].todo[1]) /\ \A y \in Y : Known(y) \/ lock'[y] = r
  BY <1>1, <1>3, <1>4 DEF Known, Exists, Kept
<1> HIDE DEF found
<1> QED
  BY <1>1, <1>2, <1>5, StayVersions, SweepingActs

\* A row of a statement belongs to the request's own tables.
LEMMA AimedTouches ==
  ASSUME IInv, NEW r \in Reqs, req[r].at \in {"next", "sweep"}, req[r].todo # << >>,
         NEW y \in Aimed(req[r].todo[1])
  PROVE  /\ Touches(req[r].op, req[r].of, y) /\ y[1] \in Children \cup Settings
         /\ req[r].op \in {"wipe", "wipeAll"} => y[1] \in Children
<1> DEFINE stmt == req[r].todo[1]
<1>1. /\ req[r].op \in Wipes \cup {"thread", "purge"} /\ Meant(req[r], stmt)
  BY BetweenStatements, HeadIs
<1>2. y[1] = stmt.table /\ (y[2] = stmt.of \/ stmt.of = "all")
  BY DEF Aimed
<1>3. req[r].of \in Scopes
  BY Here, MenuAssumption
<1> HIDE DEF stmt
<1>4. req[r].of # "all"
  BY <1>3, NamesAssumption
<1>5. CASE req[r].op = "delete"
  BY <1>1, <1>2, <1>4, <1>5 DEF Meant, Touches, Locks
<1>6. CASE req[r].op \in {"wipe", "wipeAll"}
  BY <1>1, <1>2, <1>4, <1>6 DEF Meant, Touches, Locks
<1>7. CASE req[r].op \in {"thread", "purge"}
  BY <1>1, <1>2, <1>4, <1>7 DEF Meant, Touches, Locks, Children, Wiped
<1> QED
  BY <1>1, <1>5, <1>6, <1>7 DEF Wipes

LEMMA SweepRowActs ==
  ASSUME IInv, NEW r \in Reqs, SweepRow(r)
  PROVE  Proper(r)
<1>1. req[r].at = "sweep"
  BY DEF SweepRow, At
<1>2. PICK y \in req[r].rows : /\ Mine(r, y) /\ WriteOne(r, y, Is("gone")) /\ Sweeping(r, req[r].rows \ {y})
  BY Zenon DEF SweepRow
<1>3. /\ Local(req[r]) /\ Facts(r) /\ menu.rows \subseteq Rows /\ lock \in [menu.rows -> Reqs \cup {NoReq}]
  BY <1>1, Here
<1>4. /\ req[r].todo # << >> /\ req[r].rows \subseteq Aimed(req[r].todo[1])
      /\ \A z \in req[r].rows : Known(z) \/ lock[z] = r
  BY <1>1, <1>3 DEF Local, Facts
<1>5. Touches(req[r].op, req[r].of, y) /\ y[1] \in Children \cup Settings /\ y \in menu.rows
  BY <1>1, <1>2, <1>4, AimedTouches DEF Aimed
<1>6. y[2] \in Tenants => Known(One("tenant", y[2]))
  <2>1. CASE Known(y)
    BY <1>5, <2>1, TenantKnown
  <2>2. CASE lock[y] = r
    <3>1. req[r].op # "create"
      BY <1>1, BetweenStatements DEF Wipes
    <3> QED
      BY <1>5, <2>2, <3>1 DEF IInv, RowsPart, Holds
  <2> QED
    BY <1>2, <1>4, <2>1, <2>2
<1>7. Writable(r, y, Is("gone"))
  BY <1>2, <1>5, <1>6 DEF Writable, Is, Row, States, Mine, Children, Settings, Wiped, Balances
<1>8. Versions(r)
  BY <1>1, <1>2, <1>7, WriteOneVersions
<1>9. \A z \in req[r].rows \ {y} : Known(z) \/ lock'[z] = r
  BY <1>2, <1>3, <1>4 DEF WriteOne, Aimed
<1>10. req[r].rows \ {y} \subseteq Aimed(req[r].todo[1])
  BY <1>4
<1> QED
  BY <1>1, <1>2, <1>4, <1>8, <1>9, <1>10, SweepingActs

LEMMA WipeInsertActs ==
  ASSUME IInv, NEW r \in Reqs, WipeInsert(r)
  PROVE  Proper(r)
<1> DEFINE s == req[r].todo
           stmt == Head(s)
           after == [req EXCEPT ![r].todo = Tail(s)]
           w == [req[r] EXCEPT !.todo = Tail(s)]
<1>1. /\ req[r].at = "next" /\ s # << >> /\ stmt.sql = "INSERT"
      /\ Insert(r, stmt.table, stmt.of, Is("live"), after)
  BY Zenon DEF WipeInsert, At
<1>2. /\ req[r].op \in Wipes \cup {"thread", "purge"} /\ s \in Seq(Statement)
      /\ \A i \in DOMAIN s : Meant(req[r], s[i])
  BY <1>1, BetweenStatements
<1>3. /\ Meant(req[r], stmt) /\ req[r] \in Work
  <2>1. s # << >> /\ s \in Seq(Statement) /\ \A i \in DOMAIN s : Meant(req[r], s[i])
    BY <1>1, <1>2
  <2>2. req[r] \in Work
    BY <1>1, Here
  <2> HIDE DEF s
  <2>3. stmt = s[1] /\ 1 \in DOMAIN s
    BY <2>1, HeadIs
  <2> QED
    BY <2>1, <2>2, <2>3
<1>4. /\ stmt.table \in Locks(req[r].op)
      /\ stmt.of = req[r].of \/ req[r].op = "wipeAll"
      /\ Is("live") \in Row /\ Is("live").st # "none"
  <2> HIDE DEF stmt
  <2> QED
    BY <1>1, <1>3 DEF Meant, Locks, Children, Is, Row, States
<1>5. \/ Reply(r, 500)
      \/ /\ req' = after /\ Versions(r)
  <2> HIDE DEF stmt, after
  <2>1. req[r].at \notin {"idle", "auth"}
    BY <1>1
  <2> QED
    BY <1>1, <1>4, <2>1, InsertVersions
<1>6. CASE Reply(r, 500)
  BY <1>1, <1>6, ReplyActs DEF Statuses
<1>7. CASE req' = after /\ Versions(r)
  <2>1. req' = [req EXCEPT ![r] = w]
    BY <1>7, Zenon
  <2>2. Tail(s) \in Seq(Statement) /\ \A i \in DOMAIN Tail(s) : Meant(req[r], Tail(s)[i])
    <3> HIDE DEF s
    <3> QED
      BY <1>1, <1>2, TailIs
  <2>3. w \in Work /\ w.todo = Tail(s) /\ Only(w, req[r], {"todo"})
    BY <1>3, <2>2, SetTodo, Zenon
  <2> HIDE DEF w
  <2>4. Moves(r, {"todo"}) /\ req'[r] = w
    BY <2>1, <2>3, Put DEF IInv, Moves
  <2>5. req'[r].at = "next" /\ req'[r].todo = Tail(s) /\ req'[r].left = req[r].left
    BY <1>1, <2>3, <2>4 DEF Only
  <2>6. Acts(r)
    BY <1>1, <1>7, <2>4, <2>5, StepActs DEF Every
  <2> HIDE DEF s
  <2> QED
    BY <1>1, <2>2, <2>5, <2>6, NextProper, BetweenStatements
<1> QED
  BY <1>5, <1>6, <1>7


LEMMA StatementsDoneActs ==
  ASSUME IInv, NEW r \in Reqs, StatementsDone(r)
  PROVE  Proper(r)
<1>1. req[r].at = "next"
  BY DEF StatementsDone, At
<1>2. CASE Reply(r, 200)
  BY <1>1, <1>2, ReplyActs DEF Statuses
<1>3. CASE req[r].op = "delete" /\ Go(r, "dropTenant")
  <2>1. Acts(r) /\ Only(req'[r], req[r], {"at"}) /\ req'[r].at = "dropTenant" /\ UNCHANGED Kept
    BY <1>1, <1>3, GoActs DEF Places
  <2>2. /\ req'[r].op = req[r].op /\ req'[r].of = req[r].of /\ menu' = menu /\ db' = db
        /\ Local(req[r]) /\ Facts(r)
    BY <1>1, <2>1, Here DEF Only, Kept
  <2>3. Local(req[r])'
    BY <1>1, <1>3, <2>1, <2>2 DEF Local
  <2>4. Facts(r)'
    BY <1>1, <2>1, <2>2 DEF Facts, Known
  <2> QED
    BY <2>1, <2>3, <2>4 DEF Proper
<1> QED
  BY <1>2, <1>3 DEF StatementsDone

\* What a handler leaves before it writes the audit record.
LEMMA AuditProper ==
  ASSUME IInv, NEW r \in Reqs, Acts(r), Only(req'[r], req[r], {"at"}), req'[r].at = "audit",
         req[r].op \in {"delete", "reset", "credits"}, Known(One("tenant", req[r].of))
  PROVE  Proper(r)
<1>1. req'[r].op = req[r].op /\ req'[r].of = req[r].of
  BY DEF Only
<1>2. menu' = menu /\ db' = db /\ <<req[r].op, req[r].of>> \in menu.meet
  BY Here DEF Acts, Versions
<1>3. Local(req[r])'
  BY <1>1, <1>2 DEF Local
<1>4. Facts(r)'
  BY <1>1, <1>2 DEF Facts, Known
<1> QED
  BY <1>3, <1>4 DEF Proper

LEMMA DropTenantActs ==
  ASSUME IInv, NEW r \in Reqs, DropTenant(r)
  PROVE  Proper(r)
<1> DEFINE t == req[r].of
           Y == {y \in Below(t) \cup {One("tenant", t), One("distributor", t)} : Exists(cur[y])}
           gone == [y \in Y |-> Is("gone")]
<1>1. /\ req[r].at = "dropTenant" /\ \A y \in Y : Mine(r, y)
      /\ Write(r, Y, gone) /\ req' = Goto(r, "audit")
  BY Zenon DEF DropTenant, At
<1>2. /\ Local(req[r]) /\ Facts(r) /\ menu.rows \subseteq Rows /\ menu \in Menus
      /\ req[r].op \in {"system", "brand"} <=> t \notin Tenants
      /\ Named(req[r].op, req[r].of) \subseteq menu.rows
  BY <1>1, Here
<1>3. req[r].op = "delete" /\ t \in Tenants /\ Known(One("tenant", t))
  BY <1>1, <1>2 DEF Local, Facts, Resolved
<1>4. One("tenant", t) \in menu.rows /\ One("distributor", t) \in menu.rows
  <2>1. One("tenant", t) \in menu.rows
    BY <1>2, <1>3 DEF Named, One
  <2> QED
    BY <1>2, <1>3, <2>1, TenantRow DEF One
<1>5. ASSUME NEW y \in Y PROVE Writable(r, y, gone[y])
  <2>1. y \in menu.rows /\ y[2] = t /\ y[1] \in Children \cup {"tenant", "distributor"}
    BY <1>4 DEF Below, One
  <2>2. gone[y] = Is("gone")
    OBVIOUS
  <2>3. Mine(r, y)
    BY <1>1
  <2> HIDE DEF Y, gone
  <2>4. Touches(req[r].op, req[r].of, y)
    BY <1>3, <2>1 DEF Touches, Locks
  <2> QED
    BY <1>3, <2>1, <2>2, <2>3, <2>4 DEF Writable, Is, Row, States, Mine, Children, Wiped, Balances
<1> HIDE DEF Y, gone
<1>6. Versions(r)
  BY <1>1, <1>5, WriteVersions
<1>7. Acts(r) /\ Only(req'[r], req[r], {"at"}) /\ req'[r].at = "audit"
  BY <1>1, <1>6, GotoActs DEF Places
<1> QED
  BY <1>3, <1>7, AuditProper

-----------------------------------------------------------------------------
(* The root password and the audit chain *)

LEMMA FindRootActs ==
  ASSUME IInv, NEW r \in Reqs, FindRoot(r)
  PROVE  Proper(r)
<1>1. req[r].at = "root"
  BY DEF FindRoot, At
<1>2. CASE Reply(r, 404)
  BY <1>1, <1>2, ReplyActs DEF Statuses
<1>3. CASE Present("staff", req[r].of) # {} /\ Go(r, "password")
  <2>1. Acts(r) /\ Only(req'[r], req[r], {"at"}) /\ req'[r].at = "password" /\ UNCHANGED Kept
    BY <1>1, <1>3, GoActs DEF Places
  <2>2. /\ req'[r].op = req[r].op /\ req'[r].of = req[r].of /\ menu' = menu /\ db' = db
        /\ Local(req[r]) /\ Facts(r) /\ menu.rows \subseteq Rows
    BY <1>1, <2>1, Here DEF Only, Kept
  <2>3. Local(req[r])'
    BY <1>1, <2>1, <2>2 DEF Local
  <2>4. Known(One("staff", req[r].of))
    <3>1. PICK y \in menu.rows : y[1] = "staff" /\ y[2] = req[r].of /\ Exists(db[y])
      BY <1>3 DEF Present, Of
    <3>2. y = One("staff", req[r].of)
      BY <2>2, <3>1, NumbersAssumption, RowsAssumption DEF One, Single
    <3> QED
      BY <3>1, <3>2 DEF Known, Exists
  <2>5. Facts(r)'
    BY <1>1, <2>1, <2>2, <2>4 DEF Facts, Known
  <2> QED
    BY <2>1, <2>3, <2>5 DEF Proper
<1> QED
  BY <1>2, <1>3 DEF FindRoot

\* UPDATE of a row that has been there keeps the rest.
LEMMA UpdateVersions ==
  ASSUME IInv, NEW r \in Reqs, NEW y \in menu.rows, NEW row \in Row, Update(r, y, row), req[r].at # "auth",
         Known(y) \/ lock[y] = r, req[r].op # "create" \/ y[2] \notin Tenants,
         Touches(req[r].op, req[r].of, y), row.st # "none"
  PROVE  Versions(r)
<1> DEFINE new == IF Exists(cur[y]) THEN row ELSE cur[y]
<1>1. WriteOne(r, y, new) /\ lock[y] \in {r, NoReq}
  BY DEF Update, Mine
<1>2. Seen(y) /\ cur[y].st # "none" /\ cur[y] \in Row
  BY DEF IInv, TypeOK, RowsPart, Holds, Known, Seen
<1>3. y[2] \in Tenants => Known(One("tenant", y[2]))
  BY DEF IInv, RowsPart, Holds
<1>4. Writable(r, y, new)
  BY <1>1, <1>2, <1>3 DEF Writable, Exists
<1> HIDE DEF new
<1> QED
  BY <1>1, <1>4, WriteOneVersions


LEMMA SavePasswordActs ==
  ASSUME IInv, NEW r \in Reqs, SavePassword(r)
  PROVE  Proper(r)
<1> DEFINE y == One("staff", req[r].of)
<1>1. req[r].at = "password" /\ Update(r, y, cur[y]) /\ req' = Goto(r, "rootKey")
  BY DEF SavePassword, At
<1>2. /\ Local(req[r]) /\ Facts(r) /\ Named(req[r].op, req[r].of) \subseteq menu.rows
      /\ cur \in [menu.rows -> Row]
  BY <1>1, Here
<1>3. req[r].op = "reset" /\ Known(y) /\ Known(One("tenant", req[r].of))
  BY <1>1, <1>2 DEF Local, Facts, Resolved
<1>4. y \in menu.rows /\ y[1] = "staff" /\ y[2] = req[r].of
  BY <1>2, <1>3 DEF Named, One
<1> HIDE DEF y
<1>5. cur[y] \in Row /\ cur[y].st # "none" /\ Touches(req[r].op, req[r].of, y)
  BY <1>2, <1>3, <1>4 DEF Touches, Locks, IInv, RowsPart
<1>6. Versions(r)
  BY <1>1, <1>3, <1>4, <1>5, UpdateVersions
<1>7. Acts(r) /\ Only(req'[r], req[r], {"at"}) /\ req'[r].at = "rootKey" /\ menu' = menu
  BY <1>1, <1>6, GotoActs DEF Places
<1>8. req'[r].op = req[r].op /\ req'[r].of = req[r].of /\ db' = db
  BY <1>6, <1>7 DEF Only, Versions
<1>9. Local(req[r])'
  BY <1>1, <1>2, <1>3, <1>7, <1>8 DEF Local
<1>10. Facts(r)'
  BY <1>3, <1>7, <1>8 DEF Facts, Known
<1> QED
  BY <1>7, <1>9, <1>10 DEF Proper

LEMMA UpsertRootKeyActs ==
  ASSUME IInv, NEW r \in Reqs, UpsertRootKey(r)
  PROVE  Proper(r)
<1> DEFINE y == One("rootKey", req[r].of)
<1>1. /\ req[r].at = "rootKey" /\ Mine(r, y) /\ WriteOne(r, y, Is("live")) /\ req' = Goto(r, "audit")
  BY DEF UpsertRootKey, At
<1>2. /\ Local(req[r]) /\ Facts(r) /\ Named(req[r].op, req[r].of) \subseteq menu.rows
  BY <1>1, Here
<1>3. req[r].op = "reset" /\ Known(One("tenant", req[r].of))
  BY <1>1, <1>2 DEF Local, Facts, Resolved
<1>4. y \in menu.rows /\ y[1] = "rootKey" /\ y[2] = req[r].of
  BY <1>2, <1>3 DEF Named, One
<1> HIDE DEF y
<1>5. Touches(req[r].op, req[r].of, y) /\ y[1] \notin FreshId
  BY <1>3, <1>4 DEF Touches, Locks, FreshId, Settings
<1>6. Writable(r, y, Is("live"))
  BY <1>1, <1>3, <1>4, <1>5 DEF Writable, Is, Row, States, Mine
<1>7. Versions(r)
  BY <1>1, <1>6, WriteOneVersions
<1>8. Acts(r) /\ Only(req'[r], req[r], {"at"}) /\ req'[r].at = "audit"
  BY <1>1, <1>7, GotoActs DEF Places
<1> QED
  BY <1>3, <1>8, AuditProper

\* A request on its way through the audit chain.
LEMMA AuditTenant ==
  ASSUME IInv, NEW r \in Reqs, req[r].at \in {"audit", "stamped", "chain"}
  PROVE  /\ req[r].op \in {"delete", "create", "reset", "credits"} /\ req[r].of \in Tenants
         /\ req[r].op # "create" => Known(One("tenant", req[r].of))
         /\ req[r].op = "create" => lock[One("tenant", req[r].of)] = r /\ cur[One("tenant", req[r].of)].st = "live"
<1>1. /\ Local(req[r]) /\ Facts(r)
      /\ req[r].op \in {"system", "brand"} <=> req[r].of \notin Tenants
  BY Here
<1>2. req[r].op \in {"delete", "create", "reset", "credits"}
  BY <1>1 DEF Local
<1> QED
  BY <1>1, <1>2 DEF Facts, Resolved

LEMMA StampRecordActs ==
  ASSUME IInv, NEW r \in Reqs, StampRecord(r)
  PROVE  Proper(r)
<1>1. req[r].at = "audit" /\ UNCHANGED Kept
  BY DEF StampRecord, At
<1>2. CASE req' = Done(r)
  BY <1>1, <1>2, AnswerActs, StayVersions DEF Done, Statuses
<1>3. ASSUME NEW y, y = Next1(Later(req[r].of)), Later(req[r].of) # {},
             req' = [req EXCEPT ![r].at = "stamped", ![r].row = y]
      PROVE  Proper(r)
  <2> DEFINE a == [req[r] EXCEPT !.at = "stamped"]
             w == [a EXCEPT !.row = y]
  <2>1. req[r] \in Work /\ menu.rows \subseteq Rows /\ Facts(r) /\ <<req[r].op, req[r].of>> \in menu.meet
    BY <1>1, Here
  <2>2. Later(req[r].of) \in SUBSET Rows
    BY <2>1 DEF Later, Unused, Of
  <2>3. y \in Later(req[r].of)
    BY <1>3, <2>2, FirstRow
  <2>4. /\ y \in menu.rows /\ y[1] = "audit" /\ y[2] = req[r].of /\ ~ Seen(y) /\ y \in Rows
        /\ \A q \in Reqs : req[q].row # y
    <3>1. y \in Unused("audit", req[r].of)
      BY <2>3 DEF Later
    <3> QED
      BY <2>1, <3>1, UnusedIs
  <2>5. req' = [req EXCEPT ![r] = w]
    BY <1>3, Zenon
  <2>6. a \in Work /\ a.at = "stamped" /\ Only(a, req[r], {"at"})
    <3>1. "stamped" \in Places
      BY DEF Places
    <3> QED
      BY <2>1, <3>1, SetAt, Zenon
  <2> HIDE DEF a
  <2>7. w \in Work /\ w.row = y /\ Only(w, a, {"row"})
    <3>1. y \in Rows \cup {Nothing}
      BY <2>4
    <3> QED
      BY <2>6, <3>1, SetRow, Zenon
  <2> HIDE DEF w
  <2>8. Only(w, req[r], {"at", "row"}) /\ w.at = "stamped"
    BY <2>6, <2>7 DEF Only
  <2>9. Moves(r, {"at", "row"}) /\ req'[r] = w
    BY <2>5, <2>7, <2>8, Put DEF IInv, Moves
  <2>10. Only(w, req[r], Every)
    BY <2>8, OnlyMore DEF Every
  <2>11. Acts(r)
    BY <1>1, <2>4, <2>7, <2>8, <2>9, <2>10, StayVersions DEF Acts, Moves
  <2>12. /\ req'[r].at = "stamped" /\ req'[r].op = req[r].op /\ req'[r].of = req[r].of /\ req'[r].row = y
         /\ menu' = menu /\ db' = db /\ cur' = cur
    BY <1>1, <2>7, <2>8, <2>9 DEF Only, Kept
  <2>13. Local(req[r])'
    BY <1>1, <2>1, <2>4, <2>12, AuditTenant DEF Local, Of
  <2>14. Facts(r)'
    <3>1. \A q \in Reqs \ {r} : req'[q].row # y
      BY <2>4, <2>9 DEF Moves
    <3>2. ~ Seen(y)'
      BY <2>4, <2>12 DEF Seen
    <3>3. /\ Resolved(req[r].op) => Known(One("tenant", req[r].of))'
          /\ req[r].op = "create" => (lock[One("tenant", req[r].of)] = r /\ cur[One("tenant", req[r].of)].st = "live")'
      BY <1>1, <2>12, AuditTenant DEF Resolved, Known, Kept
    <3> QED
      BY <2>12, <3>1, <3>2, <3>3 DEF Facts
  <2> QED
    BY <2>11, <2>13, <2>14 DEF Proper
<1> QED
  BY <1>2, <1>3, Zenon DEF StampRecord

LEMMA ReadChainActs ==
  ASSUME IInv, NEW r \in Reqs, ReadChain(r)
  PROVE  Proper(r)
<1>1. req[r].at = "stamped" /\ UNCHANGED Kept
  BY DEF ReadChain, At
<1> DEFINE last == {y \in Of("audit", req[r].of) : db[y].st = "live"}
<1>2. PICK p \in {y[3] : y \in last} \cup {0} : req' = [req EXCEPT ![r].at = "chain", ![r].n = p]
  BY Zenon DEF ReadChain
<1> DEFINE a == [req[r] EXCEPT !.at = "chain"]
           w == [a EXCEPT !.n = p]
<1>3. /\ req[r] \in Work /\ menu.rows \subseteq Rows /\ Local(req[r]) /\ Facts(r)
      /\ <<req[r].op, req[r].of>> \in menu.meet
  BY <1>1, Here
<1>4. p \in Nat
  BY <1>3, RowsAssumption DEF Of
<1>5. req' = [req EXCEPT ![r] = w]
  BY <1>2, Zenon
<1>6. a \in Work /\ a.at = "chain" /\ Only(a, req[r], {"at"})
  <2>1. "chain" \in Places
    BY DEF Places
  <2> QED
    BY <1>3, <2>1, SetAt, Zenon
<1> HIDE DEF a
<1>7. w \in Work /\ w.n = p /\ Only(w, a, {"n"})
  BY <1>4, <1>6, SetN, Zenon
<1> HIDE DEF w
<1>8. Only(w, req[r], {"at", "n"}) /\ w.at = "chain"
  BY <1>6, <1>7 DEF Only
<1>9. Moves(r, {"at", "n"}) /\ req'[r] = w
  BY <1>5, <1>7, <1>8, Put DEF IInv, Moves
<1>10. Acts(r)
  BY <1>1, <1>8, <1>9, StepActs, StayVersions DEF Every
<1>11. /\ req'[r].at = "chain" /\ req'[r].op = req[r].op /\ req'[r].of = req[r].of /\ req'[r].row = req[r].row
       /\ menu' = menu /\ db' = db /\ cur' = cur
  BY <1>1, <1>8, <1>9 DEF Only, Kept
<1>12. Local(req[r])'
  BY <1>1, <1>3, <1>11 DEF Local, Of
<1>13. Facts(r)'
  <2>1. ~ Seen(req[r].row) /\ \A q \in Reqs \ {r} : req[q].row # req[r].row
    BY <1>1, <1>3 DEF Facts
  <2>2. \A q \in Reqs \ {r} : req'[q].row # req[r].row
    BY <1>9, <2>1 DEF Moves
  <2>3. /\ Resolved(req[r].op) => Known(One("tenant", req[r].of))'
        /\ req[r].op = "create" => (lock[One("tenant", req[r].of)] = r /\ cur[One("tenant", req[r].of)].st = "live")'
    BY <1>1, <1>11, AuditTenant DEF Resolved, Known, Kept
  <2>4. ~ Seen(req[r].row)'
    BY <1>11, <2>1 DEF Seen
  <2> QED
    BY <1>11, <2>2, <2>3, <2>4 DEF Facts
<1> QED
  BY <1>10, <1>12, <1>13 DEF Proper

LEMMA WriteChainActs ==
  ASSUME IInv, NEW r \in Reqs, WriteChain(r)
  PROVE  Proper(r)
<1> DEFINE y == req[r].row
           new == [z \in {y} |-> [st |-> "live", n |-> req[r].n]]
           status == IF req[r].op = "create" THEN 201 ELSE 200
<1>1. req[r].at = "chain"
  BY DEF WriteChain, At
<1>2. /\ req[r] \in Work /\ Local(req[r]) /\ Facts(r) /\ status \in Statuses
  <2>1. req[r] \in Work /\ Local(req[r]) /\ Facts(r)
    BY <1>1, Here
  <2> QED
    BY <2>1 DEF Statuses
<1>3. CASE Write(r, {y}, new) /\ req' = Done(r)
  <2>1. /\ y \in menu.rows /\ y[1] = "audit" /\ y[2] = req[r].of
        /\ ~ Seen(y) /\ \A q \in Reqs \ {r} : req[q].row # y
    BY <1>1, <1>2 DEF Local, Facts, Of
  <2>2. lock[y] = NoReq
    BY <2>1 DEF IInv, TypeOK, RowsPart, Holds
  <2>3. new[y] \in Row /\ new[y].st = "live"
    BY <1>2, WorkFields DEF Row, States
  <2> DEFINE T == One("tenant", req[r].of)
  <2>4. /\ Touches(req[r].op, req[r].of, y) /\ y # T /\ y[2] = req[r].of
        /\ Known(T) \/ (req[r].op = "create" /\ lock[T] = r /\ cur[T].st = "live" /\ T \in menu.rows)
    <3>1. y[1] = "audit" /\ y[2] = req[r].of /\ T[1] = "tenant" /\ Touches(req[r].op, req[r].of, y)
      BY <1>1, <2>1, AuditTenant DEF Touches, Locks, One
    <3>2. req[r].of \in Tenants => T \in menu.rows
      BY <2>1, TenantRow DEF IInv, TypeOK
    <3> QED
      BY <1>1, <3>1, <3>2, AuditTenant
  <2> HIDE DEF T
  <2>5. /\ db' = db /\ menu' = menu
        /\ cur' = [z \in menu.rows |-> IF z = y THEN new[y] ELSE cur[z]]
        /\ lock' = [z \in menu.rows |-> IF z = y THEN r ELSE lock[z]]
    <3> HIDE DEF new
    <3> QED
      BY <1>3 DEF Write
  <2> HIDE DEF new
  <2>6. Changed(r, y)
    <3>1. y[2] \in Tenants /\ ~ Known(T) => req[r].op = "create" /\ lock'[T] = r /\ cur'[T].st = "live"
      BY <2>4, <2>5
    <3>2. lock'[y] = r /\ cur'[y].st = "live"
      BY <2>1, <2>3, <2>5
    <3> QED
      BY <2>1, <2>2, <2>4, <3>1, <3>2 DEF Changed, Seen, T
  <2>7. Versions(r)
    <3>1. cur \in [menu.rows -> Row] /\ lock \in [menu.rows -> Reqs \cup {NoReq}]
      BY DEF IInv, TypeOK
    <3>2. cur' \in [menu.rows -> Row] /\ lock' \in [menu.rows -> Reqs \cup {NoReq}]
      BY <2>3, <2>5, <3>1
    <3>3. \A z \in menu.rows : z # y => cur'[z] = cur[z] /\ lock'[z] = lock[z]
      BY <2>5
    <3> QED
      BY <1>1, <2>5, <2>6, <3>2, <3>3 DEF Versions
  <2> QED
    BY <1>1, <1>2, <1>3, <2>7, AnswerActs DEF Done
<1>4. CASE req' = [Done(r) EXCEPT ![r].tx = "aborted"] /\ UNCHANGED Kept
  <2> DEFINE a == [req[r] EXCEPT !.at = "respond"]
             b == [a EXCEPT !.status = status]
             w == [b EXCEPT !.tx = "aborted"]
  <2>1. req \in [Reqs -> Work]
    BY DEF IInv, TypeOK
  <2>2. req' = [req EXCEPT ![r] = w]
    BY <1>4, <2>1, ZenonT(60) DEF Done, Answer
  <2>3. a \in Work /\ a.at = "respond" /\ Only(a, req[r], {"at"})
    <3>1. "respond" \in Places
      BY DEF Places
    <3> QED
      BY <1>2, <3>1, SetAt, Zenon
  <2> HIDE DEF a, status
  <2>4. b \in Work /\ Only(b, a, {"status"})
    BY <1>2, <2>3, SetStatus, Zenon
  <2> HIDE DEF b
  <2>5. w \in Work /\ Only(w, b, {"tx"})
    <3>1. "aborted" \in {"none", "open", "aborted"}
      OBVIOUS
    <3> QED
      BY <2>4, <3>1, SetTx, Zenon
  <2> HIDE DEF w
  <2>6. Only(w, req[r], {"at", "status", "tx"}) /\ w.at = "respond"
    BY <2>3, <2>4, <2>5 DEF Only
  <2>7. Moves(r, {"at", "status", "tx"}) /\ req'[r] = w
    BY <2>2, <2>5, <2>6, Put DEF IInv, Moves
  <2>8. Acts(r)
    BY <1>1, <1>4, <2>6, <2>7, StepActs, StayVersions DEF Every
  <2>9. /\ req'[r].at = "respond" /\ req'[r].op = req[r].op /\ req'[r].of = req[r].of /\ menu' = menu
    BY <1>4, <2>6, <2>7 DEF Only, Kept
  <2>10. Local(req[r])' /\ Facts(r)'
    BY <1>1, <1>2, <2>9 DEF Local, Facts
  <2> QED
    BY <2>8, <2>10 DEF Proper
<1> QED
  BY <1>3, <1>4, Zenon DEF WriteChain


-----------------------------------------------------------------------------
(* Deposits, withdrawals and bets *)

LEMMA ReadIntentActs ==
  ASSUME IInv, NEW r \in Reqs, ReadIntent(r)
  PROVE  Proper(r)
<1> DEFINE k == IF req[r].op = "markPaid" THEN "intent" ELSE "withdrawal"
           row == db[One(k, req[r].of)]
<1>1. req[r].at = "intent"
  BY DEF ReadIntent, At
<1>2. /\ Local(req[r]) /\ Facts(r)
  BY <1>1, Here
<1>3. req[r].op \in {"markPaid", "markSent"} /\ Known(One("tenant", req[r].of)) /\ k = Kind(req[r].op)
  BY <1>1, <1>2 DEF Local, Facts, Resolved, Kind
<1>4. ASSUME NEW status \in {200, 404}, Reply(r, status) PROVE Proper(r)
  BY <1>1, <1>4, ReplyActs DEF Statuses
<1>5. ASSUME NEW place \in {"mark", "balance"}, Go(r, place), Exists(row) \/ row.st = "live",
             place = "balance" => req[r].op = "markPaid"
      PROVE  Proper(r)
  <2>1. Acts(r) /\ Only(req'[r], req[r], {"at"}) /\ req'[r].at = place /\ UNCHANGED Kept
    BY <1>1, <1>5, GoActs DEF Places
  <2>2. /\ req'[r].op = req[r].op /\ req'[r].of = req[r].of /\ menu' = menu /\ db' = db
    BY <2>1 DEF Only, Kept
  <2>3. Local(req[r])'
    BY <1>2, <1>1, <1>3, <1>5, <2>1, <2>2 DEF Local
  <2>4. Known(One(Kind(req[r].op), req[r].of))
    BY <1>3, <1>5 DEF Known, Exists
  <2>5. Facts(r)'
    BY <1>3, <1>5, <2>1, <2>2, <2>4 DEF Facts, Known
  <2> QED
    BY <2>1, <2>3, <2>5 DEF Proper
<1>6. \/ Reply(r, 404)
      \/ Exists(row) /\ Go(r, "mark")
      \/ Reply(r, 200)
      \/ row.st = "live" /\ k = "intent" /\ Go(r, "balance")
  BY Zenon DEF ReadIntent
<1>7. k = "intent" => req[r].op = "markPaid"
  BY DEF k
<1> HIDE DEF k, row
<1> QED
  BY <1>4, <1>5, <1>6, <1>7

LEMMA ReadBalanceActs ==
  ASSUME IInv, NEW r \in Reqs, ReadBalance(r)
  PROVE  Proper(r)
<1> DEFINE y == One("purse", req[r].of)
           a == [req[r] EXCEPT !.at = "credit"]
           w == [a EXCEPT !.n = db[y].n]
<1>1. /\ req[r].at = "balance" /\ UNCHANGED Kept
      /\ req' = IF db[y].st = "live" THEN [req EXCEPT ![r].at = "credit", ![r].n = db[y].n] ELSE Goto(r, "mark")
  BY DEF ReadBalance, At
<1>2. /\ req[r] \in Work /\ Local(req[r]) /\ Facts(r) /\ Named(req[r].op, req[r].of) \subseteq menu.rows
      /\ db \in [menu.rows -> Row]
  BY <1>1, Here
<1>3. /\ req[r].op = "markPaid" /\ Known(One("tenant", req[r].of)) /\ Known(One(Kind(req[r].op), req[r].of))
      /\ <<req[r].op, req[r].of>> \in menu.meet
  BY <1>1, <1>2 DEF Local, Facts, Resolved
<1>4. Versions(r)
  BY <1>1, StayVersions
<1>5. CASE db[y].st # "live"
  <2>1. Acts(r) /\ Only(req'[r], req[r], {"at"}) /\ req'[r].at = "mark"
    BY <1>1, <1>4, <1>5, GotoActs DEF Places
  <2>2. /\ req'[r].op = req[r].op /\ req'[r].of = req[r].of /\ menu' = menu /\ db' = db
    BY <1>1, <2>1 DEF Only, Kept
  <2>3. Local(req[r])'
    BY ONLY <1>3, <2>1, <2>2 DEF Local
  <2>4. Facts(r)'
    BY ONLY <1>3, <2>1, <2>2 DEF Facts, Known
  <2> QED
    BY <2>1, <2>3, <2>4 DEF Proper
<1>6. CASE db[y].st = "live"
  <2>1. y \in menu.rows
    BY <1>2, <1>3 DEF Named, One
  <2>2. db[y].n \in Nat /\ Known(y)
    BY <1>2, <1>6, <2>1 DEF Row, Known
  <2>3. req' = [req EXCEPT ![r] = w]
    <3>1. req' = [req EXCEPT ![r].at = "credit", ![r].n = db[y].n]
      BY <1>1, <1>6
    <3> QED
      BY ONLY <3>1, Zenon
  <2> HIDE DEF y
  <2>4. a \in Work /\ a.at = "credit" /\ Only(a, req[r], {"at"})
    <3>1. "credit" \in Places
      BY DEF Places
    <3> QED
      BY <1>2, <3>1, SetAt, Zenon
  <2> HIDE DEF a
  <2>5. w \in Work /\ Only(w, a, {"n"})
    BY <2>2, <2>4, SetN, Zenon
  <2> HIDE DEF w
  <2>6. Only(w, req[r], {"at", "n"}) /\ w.at = "credit"
    BY <2>4, <2>5 DEF Only
  <2>7. Moves(r, {"at", "n"}) /\ req'[r] = w
    BY <2>3, <2>5, <2>6, Put DEF IInv, Moves
  <2>8. Acts(r)
    BY <1>1, <1>4, <2>6, <2>7, StepActs DEF Every
  <2>9. /\ req'[r].at = "credit" /\ req'[r].op = req[r].op /\ req'[r].of = req[r].of /\ menu' = menu /\ db' = db
    BY <1>1, <2>6, <2>7 DEF Only, Kept
  <2>10. Local(req[r])'
    BY ONLY <1>3, <2>9 DEF Local
  <2>11. Facts(r)'
    BY <1>3, <2>2, <2>9 DEF Facts, Known, y
  <2> QED
    BY <2>8, <2>10, <2>11 DEF Proper
<1> QED
  BY <1>5, <1>6

LEMMA CreditActs ==
  ASSUME IInv, NEW r \in Reqs, Credit(r)
  PROVE  Proper(r)
<1> DEFINE t == req[r].of
           y == One("purse", t)
           new == Next1(Unused("payment", t))
           rows == [z \in {y, new} |-> IF z = new THEN [st |-> "live", n |-> Amount]
                                       ELSE IF Exists(cur[y]) THEN [cur[y] EXCEPT !.n = req[r].n + Amount]
                                       ELSE cur[y]]
<1>1. /\ req[r].at = "credit" /\ Mine(r, y)
      /\ \/ Reply(r, 500)
         \/ /\ TenantThere(t) /\ Unused("payment", t) # {} /\ Write(r, {y, new}, rows) /\ req' = Goto(r, "mark")
  BY Zenon DEF Credit, At
<1>2. CASE Reply(r, 500)
  BY <1>1, <1>2, ReplyActs DEF Statuses
<1>3. CASE /\ TenantThere(t) /\ Unused("payment", t) # {} /\ Write(r, {y, new}, rows) /\ req' = Goto(r, "mark")
  <2>1. /\ req[r] \in Work /\ Local(req[r]) /\ Facts(r) /\ Named(req[r].op, t) \subseteq menu.rows
        /\ cur \in [menu.rows -> Row] /\ menu.rows \subseteq Rows
    BY <1>1, Here
  <2>2. /\ req[r].op = "markPaid" /\ Known(One("tenant", t)) /\ Known(y) /\ Known(One(Kind(req[r].op), t))
    BY <1>1, <2>1 DEF Local, Facts, Resolved
  <2>3. y \in menu.rows /\ y[1] = "purse" /\ y[2] = t
    BY <2>1, <2>2 DEF Named, One
  <2>4. new \in Unused("payment", t)
    <3>1. Unused("payment", t) \in SUBSET Rows
      BY <2>1 DEF Unused, Of
    <3> QED
      BY <1>3, <3>1, FirstRow
  <2> HIDE DEF y, new
  <2>5. new \in menu.rows /\ new[1] = "payment" /\ new[2] = t /\ ~ Seen(new) /\ lock[new] = NoReq
    BY <2>4, UnusedIs
  <2>6. new # y
    BY <2>3, <2>5
  <2>7. rows[new] = [st |-> "live", n |-> Amount]
    BY <2>6
  <2>8. rows[y] = IF Exists(cur[y]) THEN [cur[y] EXCEPT !.n = req[r].n + Amount] ELSE cur[y]
    BY <2>6
  <2> HIDE DEF rows
  <2>9. Writable(r, new, rows[new])
    <3>1. rows[new] \in Row /\ rows[new].st = "live"
      BY <2>7, BoundAssumption DEF Row, States
    <3>2. Touches(req[r].op, req[r].of, new)
      BY <2>2, <2>5 DEF Touches, Locks
    <3> QED
      BY <2>2, <2>5, <3>1, <3>2 DEF Writable, Seen
  <2>10. Writable(r, y, rows[y])
    <3>1. cur[y] \in Row /\ cur[y].st # "none" /\ req[r].n + Amount \in Nat
      <4>1. req[r].n \in Nat
        BY <2>1, WorkFields
      <4>2. cur[y].st # "none" /\ cur[y] \in Row
        BY <2>1, <2>2, <2>3 DEF IInv, RowsPart
      <4> QED
        BY <4>1, <4>2, BoundAssumption
    <3>2. rows[y] \in Row /\ rows[y].st = cur[y].st
      BY <2>8, <3>1 DEF Row
    <3>3. Touches(req[r].op, req[r].of, y)
      BY <2>2, <2>3 DEF Touches, Locks
    <3> QED
      BY <1>1, <2>2, <2>3, <3>1, <3>2, <3>3 DEF Writable, Mine
  <2>11. Versions(r)
    BY <1>1, <1>3, <2>9, <2>10, WriteVersions
  <2>12. Acts(r) /\ Only(req'[r], req[r], {"at"}) /\ req'[r].at = "mark"
    BY <1>1, <1>3, <2>11, GotoActs DEF Places
  <2>13. /\ req'[r].op = req[r].op /\ req'[r].of = req[r].of /\ menu' = menu /\ db' = db
    BY <2>11, <2>12 DEF Only, Versions
  <2>14. Local(req[r])'
    BY <1>1, <2>1, <2>2, <2>12, <2>13 DEF Local
  <2>15. Facts(r)'
    BY <2>2, <2>12, <2>13 DEF Facts, Known
  <2> QED
    BY <2>12, <2>14, <2>15 DEF Proper
<1> QED
  BY <1>1, <1>2, <1>3

LEMMA MarkActs ==
  ASSUME IInv, NEW r \in Reqs, Mark(r)
  PROVE  Proper(r)
<1> DEFINE y == One(IF req[r].op = "markPaid" THEN "intent" ELSE "withdrawal", req[r].of)
<1>1. req[r].at = "mark" /\ Update(r, y, Is("done")) /\ req' = Answer(r, 200)
  BY DEF Mark, At
<1>2. /\ Local(req[r]) /\ Facts(r) /\ Named(req[r].op, req[r].of) \subseteq menu.rows
  BY <1>1, Here
<1>3. req[r].op \in {"markPaid", "markSent"} /\ Known(y)
  BY <1>1, <1>2 DEF Local, Facts, Kind
<1>4. y \in menu.rows /\ y[1] = Kind(req[r].op) /\ y[2] = req[r].of
  BY <1>2, <1>3 DEF Named, One, Kind
<1> HIDE DEF y
<1>5. Touches(req[r].op, req[r].of, y)
  BY <1>3, <1>4 DEF Touches, Locks, Kind
<1>6. Is("done") \in Row /\ Is("done").st # "none" /\ req[r].op # "create"
  BY <1>3 DEF Is, Row, States
<1>7. Versions(r)
  BY <1>1, <1>3, <1>4, <1>5, <1>6, UpdateVersions
<1> QED
  BY <1>1, <1>7, AnswerActs DEF Statuses

LEMMA ReadPurseActs ==
  ASSUME IInv, NEW r \in Reqs, ReadPurse(r)
  PROVE  Proper(r)
<1> DEFINE y == One("purse", req[r].of)
           a == [req[r] EXCEPT !.at = "bet"]
           w == [a EXCEPT !.n = db[y].n]
<1>1. /\ req[r].at = "purse" /\ UNCHANGED Kept
      /\ req' = IF db[y].st = "live" THEN [req EXCEPT ![r].at = "bet", ![r].n = db[y].n] ELSE Answer(r, 404)
  BY DEF ReadPurse, At
<1>2. /\ req[r] \in Work /\ Local(req[r]) /\ Facts(r) /\ Named(req[r].op, req[r].of) \subseteq menu.rows
      /\ db \in [menu.rows -> Row]
  BY <1>1, Here
<1>3. req[r].op = "bet" /\ <<req[r].op, req[r].of>> \in menu.meet
  BY <1>1, <1>2 DEF Local
<1>4. Versions(r)
  BY <1>1, StayVersions
<1>5. CASE db[y].st # "live"
  <2>1. Reply(r, 404)
    BY <1>1, <1>5 DEF Reply
  <2> QED
    BY <1>1, <2>1, ReplyActs DEF Statuses
<1>6. CASE db[y].st = "live"
  <2>1. y \in menu.rows
    BY <1>2, <1>3 DEF Named, One
  <2>2. db[y].n \in Nat
    BY <1>2, <2>1 DEF Row
  <2>3. req' = [req EXCEPT ![r] = w]
    <3>1. req' = [req EXCEPT ![r].at = "bet", ![r].n = db[y].n]
      BY <1>1, <1>6
    <3> QED
      BY ONLY <3>1, Zenon
  <2> HIDE DEF y
  <2>4. a \in Work /\ a.at = "bet" /\ Only(a, req[r], {"at"})
    <3>1. "bet" \in Places
      BY DEF Places
    <3> QED
      BY <1>2, <3>1, SetAt, Zenon
  <2> HIDE DEF a
  <2>5. w \in Work /\ Only(w, a, {"n"})
    BY <2>2, <2>4, SetN, Zenon
  <2> HIDE DEF w
  <2>6. Only(w, req[r], {"at", "n"}) /\ w.at = "bet"
    BY <2>4, <2>5 DEF Only
  <2>7. Moves(r, {"at", "n"}) /\ req'[r] = w
    BY <2>3, <2>5, <2>6, Put DEF IInv, Moves
  <2>8. Acts(r)
    BY <1>1, <1>4, <2>6, <2>7, StepActs DEF Every
  <2>9. /\ req'[r].at = "bet" /\ req'[r].op = req[r].op /\ req'[r].of = req[r].of /\ menu' = menu
    BY <1>1, <2>6, <2>7 DEF Only, Kept
  <2>10. Local(req[r])'
    BY ONLY <1>3, <2>9 DEF Local
  <2>11. Facts(r)'
    BY ONLY <1>3, <2>9 DEF Facts, Resolved
  <2> QED
    BY <2>8, <2>10, <2>11 DEF Proper
<1> QED
  BY <1>5, <1>6

LEMMA BetActs ==
  ASSUME IInv, NEW r \in Reqs, Bet(r)
  PROVE  Proper(r)
<1> DEFINE y == One("purse", req[r].of)
<1>1. req[r].at = "bet" /\ Mine(r, y)
  BY DEF Bet, At
<1>2. CASE Reply(r, 200)
  BY <1>1, <1>2, ReplyActs DEF Statuses
<1>3. ASSUME NEW n \in {req[r].n - 1, req[r].n + 1}, cur[y].st = "live", n >= 0,
             WriteOne(r, y, [cur[y] EXCEPT !.n = n]), req' = Answer(r, 200)
      PROVE  Proper(r)
  <2>1. /\ Local(req[r]) /\ Named(req[r].op, req[r].of) \subseteq menu.rows /\ cur \in [menu.rows -> Row]
        /\ lock \in [menu.rows -> Reqs \cup {NoReq}] /\ req[r] \in Work
    BY <1>1, Here
  <2>2. req[r].op = "bet"
    BY <1>1, <2>1 DEF Local
  <2>3. y \in menu.rows /\ y[1] = "purse" /\ y[2] = req[r].of
    BY <2>1, <2>2 DEF Named, One
  <2> HIDE DEF y
  <2>4. [cur[y] EXCEPT !.n = n] \in Row /\ [cur[y] EXCEPT !.n = n].st = "live"
    <3>1. cur[y] \in Row
      BY <2>1, <2>3
    <3>2. req[r].n \in Nat
      BY <2>1, WorkFields
    <3>3. n \in Nat
      BY <1>3, <3>2
    <3> QED
      BY <1>3, <3>1, <3>3 DEF Row
  <2>5. y[2] \in Tenants => Known(One("tenant", y[2]))
    <3>1. Known(y) \/ lock[y] = r
      BY <1>1, <1>3, <2>3 DEF IInv, RowsPart, Known, Mine
    <3> QED
      BY <2>2, <2>3, <3>1 DEF IInv, RowsPart, Holds
  <2>6. Writable(r, y, [cur[y] EXCEPT !.n = n])
    BY <1>1, <1>3, <2>2, <2>3, <2>4, <2>5 DEF Writable, Touches, Locks, Mine
  <2>7. Versions(r)
    BY <1>1, <1>3, <2>6, WriteOneVersions
  <2> QED
    BY <1>1, <1>3, <2>7, AnswerActs DEF Statuses
<1> QED
  BY <1>2, <1>3, Zenon DEF Bet


-----------------------------------------------------------------------------
(* Shifts, devices, messages, keys, a tenant's credits *)

\* What a handler that only goes to another place has to show.
LEMMA GoProper ==
  ASSUME IInv, NEW r \in Reqs, NEW place \in {"find", "insert", "notify"}, Acts(r), req'[r].at = place,
         place = "find" => req[r].op \in {"close", "credits", "register", "unregister", "read", "drop"},
         place = "insert" => req[r].op \in {"close", "credits", "register", "send"},
         place = "notify" => /\ req[r].op \in {"send", "test"} /\ req'[r].rows \subseteq Of("device", req[r].of)
                             /\ \A y \in req'[r].rows : Known(y),
         req[r].at \notin {"auth", "respond"}
  PROVE  Proper(r)
<1>1. /\ req'[r].op = req[r].op /\ req'[r].of = req[r].of /\ menu' = menu /\ db' = db /\ req[r].at # "idle"
  BY DEF Acts, Moves, Only, Versions
<1>2. <<req[r].op, req[r].of>> \in menu.meet /\ (Resolved(req[r].op) => Known(One("tenant", req[r].of)))
  <2>1. <<req[r].op, req[r].of>> \in menu.meet /\ Facts(r)
    BY <1>1, Here
  <2> QED
    BY <1>1, <2>1 DEF Facts
<1>3. CASE place = "notify"
  <2>1. Local(req[r])'
    BY <1>1, <1>2, <1>3 DEF Local, Of
  <2>2. Facts(r)'
    BY <1>1, <1>2, <1>3 DEF Facts, Known
  <2> QED
    BY <2>1, <2>2 DEF Proper
<1>4. CASE place \in {"find", "insert"}
  <2>1. Local(req[r])'
    BY <1>1, <1>2, <1>4 DEF Local
  <2>2. Facts(r)'
    BY <1>1, <1>2, <1>4 DEF Facts, Known
  <2> QED
    BY <2>1, <2>2 DEF Proper
<1> QED
  BY <1>3, <1>4

LEMMA CashierActs ==
  ASSUME IInv, NEW r \in Reqs, Cashier(r)
  PROVE  Proper(r)
<1>1. req[r].at = "cashier"
  BY DEF Cashier, At
<1>2. CASE Reply(r, 404)
  BY <1>1, <1>2, ReplyActs DEF Statuses
<1>3. CASE Go(r, "find")
  <2>1. Acts(r) /\ req'[r].at = "find"
    BY <1>1, <1>3, GoActs DEF Places
  <2>2. req[r].op = "close"
    BY <1>1 DEF IInv, LocalPart, Local
  <2> QED
    BY <1>1, <2>1, <2>2, GoProper
<1> QED
  BY <1>2, <1>3 DEF Cashier

LEMMA RecipientActs ==
  ASSUME IInv, NEW r \in Reqs, Recipient(r)
  PROVE  Proper(r)
<1>1. req[r].at = "recipient"
  BY DEF Recipient, At
<1>2. CASE Reply(r, 404)
  BY <1>1, <1>2, ReplyActs DEF Statuses
<1>3. CASE Go(r, "insert")
  <2>1. Acts(r) /\ req'[r].at = "insert"
    BY <1>1, <1>3, GoActs DEF Places
  <2>2. req[r].op = "send"
    BY <1>1 DEF IInv, LocalPart, Local
  <2> QED
    BY <1>1, <2>1, <2>2, GoProper
<1> QED
  BY <1>2, <1>3 DEF Recipient

LEMMA FindActs ==
  ASSUME IInv, NEW r \in Reqs, Find(r)
  PROVE  Proper(r)
<1> DEFINE op == req[r].op
           found == Present(TableOf(op), req[r].of)
           place == IF op \in {"unregister", "drop"} THEN "destroy" ELSE "update"
<1>1. req[r].at = "find" /\ UNCHANGED Kept
  BY DEF Find, At
<1>2. /\ req[r] \in Work /\ menu.rows \subseteq Rows /\ <<op, req[r].of>> \in menu.meet
      /\ op \in {"close", "credits", "register", "unregister", "read", "drop"}
      /\ Resolved(op) => Known(One("tenant", req[r].of))
  <2>1. req[r] \in Work /\ menu.rows \subseteq Rows /\ <<op, req[r].of>> \in menu.meet /\ Local(req[r]) /\ Facts(r)
    BY <1>1, Here
  <2> QED
    BY <1>1, <2>1 DEF Local, Facts
<1>3. \/ op \in {"close", "register", "credits"} /\ req' = Goto(r, "insert")
      \/ req' = Answer(r, 404)
      \/ req' = Answer(r, 403)
      \/ \E y \in found : req' = [req EXCEPT ![r].row = y, ![r].at = place]
  BY Zenon DEF Find
<1>4. CASE op \in {"close", "register", "credits"} /\ req' = Goto(r, "insert")
  <2>1. Acts(r) /\ req'[r].at = "insert"
    BY <1>1, <1>4, GotoActs, StayVersions DEF Places
  <2> QED
    BY <1>1, <1>4, <2>1, GoProper
<1>5. CASE req' = Answer(r, 404) \/ req' = Answer(r, 403)
  BY <1>1, <1>5, AnswerActs, StayVersions DEF Statuses
<1>6. ASSUME NEW y \in found, req' = [req EXCEPT ![r].row = y, ![r].at = place]
      PROVE  Proper(r)
  <2> DEFINE a == [req[r] EXCEPT !.row = y]
             w == [a EXCEPT !.at = place]
  <2>1. y \in Of(TableOf(op), req[r].of) /\ Known(y) /\ y \in menu.rows
    BY DEF Present, Of, Known, Exists
  <2>2. req' = [req EXCEPT ![r] = w]
    BY <1>6, Zenon
  <2>3. place \in {"destroy", "update"} /\ place \in Places
    BY DEF Places
  <2>4. a \in Work /\ a.row = y /\ Only(a, req[r], {"row"})
    <3>1. y \in Rows \cup {Nothing}
      BY <1>2, <2>1
    <3> QED
      BY <1>2, <3>1, SetRow, Zenon
  <2>5. /\ place = "destroy" => op \in {"unregister", "drop"}
        /\ place = "update" => op \notin {"unregister", "drop"}
    OBVIOUS
  <2> HIDE DEF a, place
  <2>6. w \in Work /\ w.at = place /\ Only(w, a, {"at"})
    BY <2>3, <2>4, SetAt, Zenon
  <2> HIDE DEF w
  <2>7. Only(w, req[r], {"at", "row"}) /\ w.at = place /\ w.row = y
    BY <2>4, <2>6 DEF Only
  <2>8. Moves(r, {"at", "row"}) /\ req'[r] = w
    BY <2>2, <2>6, <2>7, Put DEF IInv, Moves
  <2>9. Only(w, req[r], Every)
    BY <2>7, OnlyMore DEF Every
  <2>10. Acts(r)
    BY <1>1, <2>1, <2>3, <2>7, <2>8, <2>9, StayVersions DEF Acts, Moves
  <2>11. /\ req'[r].at = place /\ req'[r].op = op /\ req'[r].of = req[r].of /\ req'[r].row = y
         /\ menu' = menu /\ db' = db
    BY <1>1, <2>7, <2>8 DEF Only, Kept
  <2>12. y \in Of(TableOf(op), req[r].of)'
    BY <2>1, <2>11 DEF Of
  <2>13. Local(req[r])'
    BY <1>2, <2>3, <2>5, <2>11, <2>12 DEF Local
  <2>14. Facts(r)'
    BY <1>2, <2>1, <2>3, <2>11 DEF Facts, Known
  <2> QED
    BY <2>10, <2>13, <2>14 DEF Proper
<1> HIDE DEF found, place
<1> QED
  BY <1>3, <1>4, <1>5, <1>6

\* The tables of the requests that found a row.
LEMMA TableOfIs ==
  /\ TableOf("close") = "closure" /\ TableOf("credits") = "wallet" /\ TableOf("register") = "device"
  /\ TableOf("unregister") = "device" /\ TableOf("test") = "device"
  /\ TableOf("read") = "message" /\ TableOf("drop") = "message" /\ TableOf("send") = "message"
BY DEF TableOf

\* A row that was found.
LEMMA FoundRow ==
  ASSUME IInv, NEW r \in Reqs, req[r].at \in {"update", "destroy"}
  PROVE  LET y == req[r].row IN
         /\ y \in menu.rows /\ y[1] = TableOf(req[r].op) /\ y[2] = req[r].of /\ Known(y)
         /\ Touches(req[r].op, req[r].of, y)
         /\ req[r].op \in {"close", "credits", "register", "read", "unregister", "drop"}
         /\ cur[y] \in Row /\ cur[y].st # "none"
         /\ Known(One("tenant", req[r].of))
<1> DEFINE y == req[r].row
<1>1. /\ Local(req[r]) /\ Facts(r) /\ cur \in [menu.rows -> Row]
  BY Here
<1>2. /\ y \in menu.rows /\ y[1] = TableOf(req[r].op) /\ y[2] = req[r].of /\ Known(y)
      /\ req[r].op \in {"close", "credits", "register", "read", "unregister", "drop"}
      /\ Known(One("tenant", req[r].of))
  BY <1>1 DEF Local, Facts, Of, Resolved
<1>3. Touches(req[r].op, req[r].of, y)
  BY <1>2, TableOfIs DEF Touches, Locks
<1>4. cur[y].st # "none" /\ cur[y] \in Row
  BY <1>1, <1>2 DEF IInv, RowsPart
<1> QED
  BY <1>2, <1>3, <1>4


LEMMA SaveFoundActs ==
  ASSUME IInv, NEW r \in Reqs, SaveFound(r)
  PROVE  Proper(r)
<1> DEFINE y == req[r].row
           row == [st |-> "live", n |-> IF req[r].op = "read" THEN 1 ELSE 0]
<1>1. req[r].at = "update" /\ Update(r, y, row) /\ req' = Answer(r, 200)
  BY DEF SaveFound, At
<1>2. /\ y \in menu.rows /\ Known(y) /\ Touches(req[r].op, req[r].of, y)
      /\ req[r].op # "create"
  BY <1>1, FoundRow
<1>3. row \in Row /\ row.st # "none"
  BY DEF Row, States
<1> HIDE DEF y, row
<1>4. Versions(r)
  BY <1>1, <1>2, <1>3, UpdateVersions
<1> QED
  BY <1>1, <1>4, AnswerActs DEF Statuses

LEMMA LockWalletActs ==
  ASSUME IInv, NEW r \in Reqs, LockWallet(r)
  PROVE  Proper(r)
<1> DEFINE y == req[r].row
<1>1. req[r].at = "update" /\ req[r].op = "credits" /\ Mine(r, y)
  BY DEF LockWallet, At
<1>2. /\ y \in menu.rows /\ Known(y) /\ Touches(req[r].op, req[r].of, y) /\ y[2] = req[r].of
      /\ cur[y] \in Row /\ cur[y].st # "none" /\ Known(One("tenant", req[r].of))
  BY <1>1, FoundRow
<1>3. CASE WriteOne(r, y, cur[y]) /\ req' = Goto(r, "audit")
  <2> HIDE DEF y
  <2>1. Writable(r, y, cur[y])
    BY <1>1, <1>2 DEF Writable, Mine, Seen, Known
  <2>2. Versions(r)
    BY <1>1, <1>3, <2>1, WriteOneVersions
  <2>3. Acts(r) /\ Only(req'[r], req[r], {"at"}) /\ req'[r].at = "audit"
    BY <1>1, <1>3, <2>2, GotoActs DEF Places
  <2> QED
    BY <1>1, <1>2, <2>3, AuditProper
<1>4. CASE Go(r, "insert")
  <2>1. Acts(r) /\ req'[r].at = "insert"
    BY <1>1, <1>4, GoActs DEF Places
  <2> QED
    BY <1>1, <2>1, GoProper
<1> QED
  BY <1>3, <1>4 DEF LockWallet

LEMMA DestroyActs ==
  ASSUME IInv, NEW r \in Reqs, Destroy(r)
  PROVE  Proper(r)
<1> DEFINE y == req[r].row
<1>1. req[r].at = "destroy" /\ Update(r, y, Is("gone")) /\ req' = Answer(r, 200)
  BY DEF Destroy, At
<1>2. /\ y \in menu.rows /\ Known(y) /\ Touches(req[r].op, req[r].of, y)
      /\ req[r].op # "create"
  BY <1>1, FoundRow
<1>3. Is("gone") \in Row /\ Is("gone").st # "none"
  BY DEF Is, Row, States
<1> HIDE DEF y
<1>4. Versions(r)
  BY <1>1, <1>2, <1>3, UpdateVersions
<1> QED
  BY <1>1, <1>4, AnswerActs DEF Statuses

LEMMA InsertNewActs ==
  ASSUME IInv, NEW r \in Reqs, InsertNew(r)
  PROVE  Proper(r)
<1> DEFINE t == req[r].of
           op == req[r].op
<1>1. req[r].at = "insert"
  BY DEF InsertNew, At
<1>2. /\ Local(req[r]) /\ Facts(r) /\ menu.rows \subseteq Rows /\ <<op, t>> \in menu.meet
  BY <1>1, Here
<1>3. op \in {"close", "credits", "register", "send"} /\ Known(One("tenant", t))
  BY <1>1, <1>2 DEF Local, Facts, Resolved
<1>4. Is("live") \in Row /\ Is("live").st = "live"
  BY DEF Is, Row, States
<1>5. CASE op = "close"
  <2> DEFINE y == Next1(Unused("closure", t))
  <2>1. Unused("closure", t) # {} /\ WriteOne(r, y, Is("live")) /\ req' = Answer(r, 200)
    BY <1>5 DEF InsertNew
  <2>2. y \in Unused("closure", t)
    <3>1. Unused("closure", t) \in SUBSET Rows
      BY <1>2 DEF Unused, Of
    <3> QED
      BY <2>1, <3>1, FirstRow
  <2> HIDE DEF y
  <2>3. /\ y \in menu.rows /\ y[1] = "closure" /\ y[2] = t /\ ~ Seen(y) /\ lock[y] = NoReq
        /\ \A q \in Reqs : req[q].row # y
    BY <2>2, UnusedIs
  <2>4. Writable(r, y, Is("live"))
    BY <1>3, <1>4, <1>5, <2>3 DEF Writable, Touches, Locks, Seen
  <2>5. Versions(r)
    BY <1>1, <2>1, <2>4, WriteOneVersions
  <2> QED
    BY <1>1, <2>1, <2>5, AnswerActs DEF Statuses
<1>6. CASE op # "close"
  <2> DEFINE after == CASE op = "send" -> Goto(r, "devices")
                        [] op = "credits" -> Goto(r, "audit")
                        [] OTHER -> Answer(r, 201)
  <2>1. Insert(r, TableOf(op), t, Is("live"), after)
    BY <1>6 DEF InsertNew
  <2>2. TableOf(op) \in Locks(op)
    BY <1>3, <1>6, TableOfIs DEF Locks
  <2>3. Reply(r, 500) \/ (req' = after /\ Versions(r))
    <3> HIDE DEF after
    <3> QED
      BY <1>1, <1>4, <2>1, <2>2, InsertVersions
  <2>4. CASE Reply(r, 500)
    BY <1>1, <2>4, ReplyActs DEF Statuses
  <2>5. CASE req' = after /\ Versions(r)
    <3>1. CASE op = "send"
      <4>1. Acts(r) /\ Only(req'[r], req[r], {"at"}) /\ req'[r].at = "devices" /\ menu' = menu
        BY <1>1, <2>5, <3>1, GotoActs DEF Places
      <4>2. req'[r].op = op /\ req'[r].of = t /\ db' = db
        BY <2>5, <4>1 DEF Only, Versions
      <4>3. Local(req[r])'
        BY <1>2, <3>1, <4>1, <4>2 DEF Local
      <4>4. Facts(r)'
        BY <1>3, <4>1, <4>2 DEF Facts, Known
      <4> QED
        BY <4>1, <4>3, <4>4 DEF Proper
    <3>2. CASE op = "credits"
      <4>1. Acts(r) /\ Only(req'[r], req[r], {"at"}) /\ req'[r].at = "audit"
        BY <1>1, <2>5, <3>2, GotoActs DEF Places
      <4> QED
        BY <1>3, <3>2, <4>1, AuditProper
    <3>3. CASE op = "register"
      BY <1>1, <2>5, <3>3, AnswerActs DEF Statuses
    <3> QED
      BY <1>3, <1>6, <3>1, <3>2, <3>3
  <2> QED
    BY <2>3, <2>4, <2>5
<1> QED
  BY <1>5, <1>6

LEMMA DevicesActs ==
  ASSUME IInv, NEW r \in Reqs, Devices(r)
  PROVE  Proper(r)
<1> DEFINE Y == {y \in Of("device", req[r].of) : db[y].st = "live"}
           a == [req[r] EXCEPT !.at = "notify"]
           w == [a EXCEPT !.rows = Y]
<1>1. /\ req[r].at = "devices" /\ UNCHANGED Kept
      /\ req' = [req EXCEPT ![r].at = "notify", ![r].rows = Y]
  BY DEF Devices, At
<1>2. req[r] \in Work /\ "notify" \in Places /\ Local(req[r]) /\ menu.rows \subseteq Rows
  BY <1>1, Here DEF Places
<1>3. req' = [req EXCEPT ![r] = w]
  BY <1>1, Zenon
<1>4. Y \in SUBSET Rows /\ Y \subseteq Of("device", req[r].of) /\ \A y \in Y : Known(y)
  BY <1>2 DEF Of, Known
<1>5. a \in Work /\ a.at = "notify" /\ Only(a, req[r], {"at"})
  BY <1>2, SetAt, Zenon
<1> HIDE DEF a, Y
<1>6. w \in Work /\ w.rows = Y /\ Only(w, a, {"rows"})
  BY <1>4, <1>5, SetRows, Zenon
<1> HIDE DEF w
<1>7. Only(w, req[r], {"at", "rows"}) /\ w.at = "notify"
  BY <1>5, <1>6 DEF Only
<1>8. Moves(r, {"at", "rows"}) /\ req'[r] = w
  BY <1>3, <1>6, <1>7, Put DEF IInv, Moves
<1>9. Acts(r) /\ req'[r].at = "notify"
  <2>1. {"at", "rows"} \subseteq Every \ {"row"} /\ Versions(r)
    BY <1>1, StayVersions DEF Every
  <2> QED
    BY <1>1, <1>7, <1>8, <2>1, StepActs
<1>10. req[r].op \in {"send", "test"}
  BY <1>1, <1>2 DEF Local
<1> QED
  BY <1>1, <1>4, <1>6, <1>8, <1>9, <1>10, GoProper

LEMMA NotifyActs ==
  ASSUME IInv, NEW r \in Reqs, Notify(r)
  PROVE  Proper(r)
<1>1. req[r].at = "notify"
  BY DEF Notify, At
<1>2. /\ req[r] \in Work /\ Local(req[r]) /\ Facts(r) /\ menu.rows \subseteq Rows
      /\ cur \in [menu.rows -> Row]
  BY <1>1, Here
<1>3. /\ req[r].op \in {"send", "test"} /\ req[r].rows \subseteq Of("device", req[r].of)
      /\ \A y \in req[r].rows : Known(y) \/ lock[y] = r
  BY <1>1, <1>2 DEF Local, Facts
<1>4. CASE Reply(r, 200)
  BY <1>1, <1>4, ReplyActs DEF Statuses
<1>5. ASSUME NEW y \in req[r].rows, req' = [req EXCEPT ![r].rows = @ \ {y}],
             UNCHANGED Kept \/ Update(r, y, cur[y]) \/ Update(r, y, Is("inactive"))
      PROVE  Proper(r)
  <2> DEFINE Y == req[r].rows \ {y}
             w == [req[r] EXCEPT !.rows = Y]
  <2>1. req' = [req EXCEPT ![r] = w]
    BY <1>5, Zenon
  <2>2. Y \in SUBSET Rows /\ Y \subseteq req[r].rows
    BY <1>2, <1>3 DEF Of
  <2> HIDE DEF Y
  <2>3. w \in Work /\ w.rows = Y /\ Only(w, req[r], {"rows"})
    BY <1>2, <2>2, SetRows, Zenon
  <2> HIDE DEF w
  <2>4. Moves(r, {"rows"}) /\ req'[r] = w
    BY <2>1, <2>3, Put DEF IInv, Moves
  <2>5. y \in menu.rows /\ y[1] = "device" /\ y[2] = req[r].of /\ (Known(y) \/ lock[y] = r)
    BY <1>3 DEF Of
  <2>6. Touches(req[r].op, req[r].of, y) /\ req[r].op # "create" /\ cur[y] \in Row
    BY <1>2, <1>3, <2>5 DEF Touches, Locks
  <2>7. cur[y].st # "none"
    BY <2>5 DEF IInv, RowsPart, Holds, Known, Seen
  <2>8. Is("inactive") \in Row /\ Is("inactive").st # "none"
    BY DEF Is, Row, States
  <2>9. Versions(r)
    BY <1>1, <1>5, <2>5, <2>6, <2>7, <2>8, UpdateVersions, StayVersions
  <2>10. req'[r].at = "notify" /\ req'[r].rows = Y /\ req'[r].op = req[r].op /\ req'[r].of = req[r].of
    BY <1>1, <2>3, <2>4 DEF Only
  <2>11. Acts(r)
    <3>1. {"rows"} \subseteq Every \ {"row"}
      BY DEF Every
    <3> QED
      BY <1>1, <2>4, <2>9, <2>10, <3>1, StepActs
  <2>12. menu' = menu /\ db' = db
    BY <2>9 DEF Versions
  <2>13. Local(req[r])'
    BY <1>1, <1>2, <1>3, <2>2, <2>10, <2>12 DEF Local, Of
  <2>14. Facts(r)'
    <3>1. \A z \in req[r].rows \ {y} : Known(z)' \/ lock'[z] = r
      <4> TAKE z \in req[r].rows \ {y}
      <4>1. z \in menu.rows
        BY <1>3 DEF Of
      <4>2. lock'[z] = lock[z] \/ lock'[z] = r
        BY <2>9, <4>1 DEF Versions, Changed
      <4> QED
        BY <1>3, <2>12, <4>2 DEF Known
    <3>2. db'[One("tenant", req[r].of)].st # "none" \/ ~ Resolved(req[r].op)
      BY <1>1, <1>2, <2>12 DEF Facts, Known
    <3>3. \A z \in req'[r].rows : Known(z)' \/ lock'[z] = r
      BY <2>10, <3>1 DEF Y
    <3> QED
      BY <1>3, <2>10, <3>2, <3>3 DEF Facts, Known
  <2> QED
    BY <2>11, <2>13, <2>14 DEF Proper
<1> QED
  BY <1>4, <1>5, Zenon DEF Notify

LEMMA UpsertKeyActs ==
  ASSUME IInv, NEW r \in Reqs, UpsertKey(r)
  PROVE  Proper(r)
<1> DEFINE t == req[r].of
           y == One("key", t)
<1>1. req[r].at = "upsert" /\ Mine(r, y)
  BY DEF UpsertKey, At
<1>2. CASE Reply(r, 500)
  BY <1>1, <1>2, ReplyActs DEF Statuses
<1>3. CASE WriteOne(r, y, Is("live")) /\ req' = Answer(r, 200)
  <2>1. Local(req[r]) /\ Facts(r) /\ Named(req[r].op, t) \subseteq menu.rows
    BY <1>1, Here
  <2>2. req[r].op = "key" /\ Known(One("tenant", t))
    BY <1>1, <2>1 DEF Local, Facts, Resolved
  <2>3. y \in menu.rows /\ y[1] = "key" /\ y[2] = t
    BY <2>1, <2>2 DEF Named, One
  <2> HIDE DEF y
  <2>4. y[1] \notin FreshId /\ Touches(req[r].op, t, y)
    BY <2>2, <2>3 DEF FreshId, Touches, Locks
  <2>5. Is("live") \in Row /\ Is("live").st = "live"
    BY DEF Is, Row, States
  <2>6. Writable(r, y, Is("live"))
    BY <1>1, <2>2, <2>3, <2>4, <2>5 DEF Writable, Mine
  <2>7. Versions(r)
    BY <1>1, <1>3, <2>6, WriteOneVersions
  <2> QED
    BY <1>1, <1>3, <2>7, AnswerActs DEF Statuses
<1> QED
  BY <1>2, <1>3 DEF UpsertKey


-----------------------------------------------------------------------------
(* The invariant *)

\* A step of a handler before its end.
HandlerActs(r) ==
  \/ OwnerAuth(r) \/ StaffAuth(r) \/ NoAuth(r)
  \/ Load(r) \/ Save(r) \/ CheckName(r) \/ InsertTenant(r)
  \/ Confirm(r) \/ NextTenant(r) \/ LockTenant(r) \/ StartDelete(r) \/ SweepRow(r)
  \/ WipeInsert(r) \/ StatementsDone(r) \/ DropTenant(r)
  \/ FindRoot(r) \/ SavePassword(r) \/ UpsertRootKey(r) \/ StampRecord(r) \/ ReadChain(r) \/ WriteChain(r)
  \/ ReadIntent(r) \/ ReadBalance(r) \/ Credit(r) \/ Mark(r) \/ ReadPurse(r) \/ Bet(r)
  \/ Cashier(r) \/ Find(r) \/ SaveFound(r) \/ LockWallet(r) \/ Destroy(r) \/ InsertNew(r)
  \/ Recipient(r) \/ Devices(r) \/ Notify(r) \/ UpsertKey(r)

LEMMA HandlerActsProper ==
  ASSUME IInv, NEW r \in Reqs, HandlerActs(r)
  PROVE  Proper(r)
<1>1. CASE OwnerAuth(r) \/ StaffAuth(r) \/ NoAuth(r)
  BY <1>1, AuthActs
<1>2. CASE Load(r) \/ Save(r) \/ CheckName(r) \/ InsertTenant(r)
  BY <1>2, LoadActs, SaveActs, CheckNameActs, InsertTenantActs
<1>3. CASE Confirm(r) \/ NextTenant(r) \/ LockTenant(r) \/ StartDelete(r) \/ SweepRow(r)
  BY <1>3, ConfirmActs, NextTenantActs, LockTenantActs, StartDeleteActs, SweepRowActs
<1>4. CASE WipeInsert(r) \/ StatementsDone(r) \/ DropTenant(r)
  BY <1>4, WipeInsertActs, StatementsDoneActs, DropTenantActs
<1>5. CASE FindRoot(r) \/ SavePassword(r) \/ UpsertRootKey(r) \/ StampRecord(r) \/ ReadChain(r) \/ WriteChain(r)
  BY <1>5, FindRootActs, SavePasswordActs, UpsertRootKeyActs, StampRecordActs, ReadChainActs, WriteChainActs
<1>6. CASE ReadIntent(r) \/ ReadBalance(r) \/ Credit(r) \/ Mark(r) \/ ReadPurse(r) \/ Bet(r)
  BY <1>6, ReadIntentActs, ReadBalanceActs, CreditActs, MarkActs, ReadPurseActs, BetActs
<1>7. CASE Cashier(r) \/ Find(r) \/ SaveFound(r) \/ LockWallet(r) \/ Destroy(r) \/ InsertNew(r)
  BY <1>7, CashierActs, FindActs, SaveFoundActs, LockWalletActs, DestroyActs, InsertNewActs
<1>8. CASE Recipient(r) \/ Devices(r) \/ Notify(r) \/ UpsertKey(r)
  BY <1>8, RecipientActs, DevicesActs, NotifyActs, UpsertKeyActs
<1> QED
  BY <1>1, <1>2, <1>3, <1>4, <1>5, <1>6, <1>7, <1>8 DEF HandlerActs

\* What a request is rolled back to.
Ends(r) ==
  /\ Rollback(r) /\ req[r].at # "idle"
  /\ req' = [req EXCEPT ![r] = NoWork] \/ req' = Answer(r, 500)

LEMMA NoWaiting == ASSUME NEW r \in Reqs, req[r].at = "idle" PROVE WaitsFor(r) = {}
<1>1. Wanted(r) = {}
  BY DEF Wanted, At
<1> QED
  BY <1>1 DEF WaitsFor, At

\* The steps a request may take.
LEMMA StepsOf ==
  ASSUME NEW r \in Reqs, Begin(r) \/ HandlerStep(r) \/ Close(r) \/ DeadlockVictim(r)
  PROVE  Begin(r) \/ HandlerActs(r) \/ (Commits(r) /\ req[r].status < 400 /\ At(r, "respond")) \/ Ends(r)
<1>1. CASE HandlerStep(r)
  <2>1. HandlerActs(r) \/ Finish(r)
    BY <1>1 DEF HandlerStep, HandlerActs
  <2>2. CASE Finish(r)
    BY <2>2 DEF Finish, Commits, Ends, At
  <2> QED
    BY <2>1, <2>2
<1>2. CASE Close(r)
  BY <1>2 DEF Close, Running, Ends
<1>3. CASE DeadlockVictim(r)
  <2>1. req[r].at # "idle"
    BY <1>3, NoWaiting DEF DeadlockVictim
  <2> QED
    BY <1>3, <2>1 DEF DeadlockVictim, Ends
<1> QED
  BY <1>1, <1>2, <1>3

LEMMA EndsIs ==
  ASSUME TypeOK, NEW r \in Reqs, Ends(r)
  PROVE  /\ Rollback(r) /\ req' \in [Reqs -> Work] /\ req[r].at # "idle"
         /\ \A q \in Reqs \ {r} : req'[q] = req[q]
         /\ \/ req'[r] = NoWork
            \/ req'[r].at = "respond" /\ req'[r].status = 500 /\ Only(req'[r], req[r], {"at", "status"})
<1>1. CASE req' = [req EXCEPT ![r] = NoWork]
  BY <1>1, NoWorkIs, Put, ZenonT(60) DEF Ends
<1>2. CASE req' = Answer(r, 500)
  BY <1>2, AnswerMoves DEF Ends, Moves, Statuses
<1> QED
  BY <1>1, <1>2 DEF Ends

LEMMA Initial == Init => IInv
<1> SUFFICES ASSUME Init PROVE IInv
  OBVIOUS
<1> USE DEF Known, Seen
<1>1. /\ menu \in Menus /\ menu.there \subseteq menu.rows
      /\ db = [y \in menu.rows |-> Is(IF y \in menu.there THEN "live" ELSE "none")]
      /\ cur = db /\ lock = [y \in menu.rows |-> NoReq]
      /\ req = [r \in Reqs |-> NoWork] /\ NoReq \notin Reqs
  BY NamedAssumption, NamesAssumption DEF Init
<1>2. \A y \in menu.rows : db[y] \in Row /\ db[y].st = (IF y \in menu.there THEN "live" ELSE "none")
  BY <1>1 DEF Is, Row, States
<1>3. NoWork \in Work /\ NoWork.at = "idle" /\ NoWork.row = Nothing
  BY NoWorkIs DEF NoWork
<1>4. TypeOK
  <2>1. req \in [Reqs -> Work]
    BY <1>1, <1>3
  <2>2. db \in [menu.rows -> Row] /\ lock \in [menu.rows -> Reqs \cup {NoReq}]
    BY <1>1, <1>2
  <2> QED
    BY <1>1, <2>1, <2>2 DEF TypeOK
<1>5. \A r \in Reqs : req[r] = NoWork /\ req[r].at = "idle"
  BY <1>1, <1>3
<1>6. LocalPart
  BY <1>5 DEF LocalPart, Local
<1>7. RowsPart
  <2>1. ASSUME NEW y \in menu.rows, y[2] \in Tenants, ~ Known(One("tenant", y[2])) PROVE ~ Known(y)
    <3>1. One("tenant", y[2]) \in menu.rows
      BY <1>1, <2>1, TenantRow
    <3>2. One("tenant", y[2]) \notin menu.there
      BY <1>2, <2>1, <3>1
    <3>3. y \notin menu.there
      BY <1>1, <2>1, <3>2, WholeAssumption DEF One
    <3> QED
      BY <1>2, <3>3
  <2>2. \A y \in menu.rows : lock[y] = NoReq /\ cur[y] = db[y]
    BY <1>1
  <2> QED
    BY <1>1, <2>1, <2>2 DEF RowsPart
<1>8. FactsPart
  BY <1>5 DEF FactsPart, Facts
<1> QED
  BY <1>4, <1>6, <1>7, <1>8 DEF IInv

LEMMA Inductive == IInv /\ [Next]_vars => IInv'
<1> SUFFICES ASSUME IInv, [Next]_vars PROVE IInv'
  OBVIOUS
<1>1. CASE UNCHANGED vars
  BY <1>1 DEF vars, IInv, TypeOK, LocalPart, Local, RowsPart, FactsPart, Facts, Holds, Known, Seen, Of, Aimed
<1>2. ASSUME NEW r \in Reqs, Begin(r) \/ HandlerStep(r) \/ Close(r) \/ DeadlockVictim(r) PROVE IInv'
  <2>1. CASE Begin(r)
    BY <2>1, BeginInv
  <2>2. CASE HandlerActs(r)
    BY <2>2, HandlerActsProper, ProperInv
  <2>3. CASE Commits(r)
    BY <2>3, CommitInv
  <2>4. CASE Ends(r)
    BY <2>4, EndsIs, RollbackInv DEF IInv
  <2> QED
    BY <1>2, <2>1, <2>2, <2>3, <2>4, StepsOf
<1> QED
  BY <1>1, <1>2 DEF Next

\* The records, rows and locks always have their types; no request locks a row that is
\* not its own to write, and what a handler reads before it writes still holds when it
\* does: a row it found is still known, a deleted one is not back, and the tenant a row
\* belongs to was there or is being created by the same request.
THEOREM Invariance == Spec => []IInv
<1>1. Init => IInv
  BY Initial
<1>2. IInv /\ [Next]_vars => IInv'
  BY Inductive
<1> QED
  BY <1>1, <1>2, PTL DEF Spec

\* Every state the handlers, the lifecycle and Postgres reach together is well-typed.
THEOREM Typing == Spec => []TypeOK
<1>1. IInv => TypeOK
  BY DEF IInv
<1> QED
  BY <1>1, Invariance, PTL

\* A row that was deleted stays deleted, whatever had read it before (staffMessages.js,
\* staffPush.js, push.js): every write to a row of a fresh id goes by what is there now.
THEOREM RowsStayDeleted == Spec => DeletedForGood
<1>1. IInv /\ [Next]_vars =>
        [\A y \in menu.rows : y[1] \in FreshId /\ db[y].st = "gone" => db'[y].st = "gone"]_db
  <2> SUFFICES ASSUME IInv, [Next]_vars, db' # db, NEW y \in menu.rows, y[1] \in FreshId, db[y].st = "gone"
               PROVE  db'[y].st = "gone"
    OBVIOUS
  <2>1. PICK r \in Reqs : Begin(r) \/ HandlerStep(r) \/ Close(r) \/ DeadlockVictim(r)
    BY DEF Next, vars
  <2>2. Commits(r)
    <3>1. ~ Begin(r)
      BY Zenon DEF Begin, Kept
    <3>2. ~ HandlerActs(r)
      BY HandlerActsProper DEF Proper, Acts, Versions
    <3>3. ~ Ends(r)
      BY DEF Ends, Rollback
    <3> QED
      BY <2>1, <3>1, <3>2, <3>3, StepsOf
  <2> QED
    BY <2>2 DEF Commits, IInv, RowsPart
<1> QED
  BY <1>1, Invariance, PTL DEF Spec, DeletedForGood
=============================================================================
