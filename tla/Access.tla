------------------------------- MODULE Access -------------------------------
(***************************************************************************)
(* Who may act: users and staff members, their sessions, the refresh       *)
(* tokens of users and the lockout counters of login names                 *)
(* (routes/auth.js, staffAuth.js, adminStaff.js, adminSessions.js, the     *)
(* login and logout of playerRoutes.js, what terminating a voucher and     *)
(* deleting a player take away, utils/lockout.js).                         *)
(*                                                                         *)
(* A request is one Postgres transaction at READ COMMITTED that commits    *)
(* after a response below 400.  Three things run before it, each statement *)
(* committing by itself: the lockout check, the failure of a staff login   *)
(* with an unknown tenant, and a refresh up to the reuse check.            *)
(*                                                                         *)
(* An UPDATE of many rows picks them from what is committed when it        *)
(* starts, then waits for each row and looks at it again.                  *)
(***************************************************************************)
EXTENDS Naturals, FiniteSets

CONSTANTS
  Users,        \* user ids
  Admins,       \* those of them with the role admin, the others are players
  Staff,        \* staff ids
  First,        \* the staff member an installation starts with
  Tokens,       \* refresh token ids (jti)
  Sessions,     \* session ids
  Owner,        \* whose each token and session is, once it exists
  Counters,     \* AuthLockout ids
  Kind,         \* the subject type of each counter; one login name for each type
  Nothing,      \* no row
  Reqs,         \* request slots: as many requests may overlap
  NoReq,        \* owner of a free row
  Menus,        \* which requests, on whom, may meet: every behaviour has one menu
  Threshold,    \* FAIL_THRESHOLD
  MaxTries      \* bound: logins under an unknown tenant identifier

PlayerOps == {"logout", "me"}
StaffOps == {"terminate", "delete", "revoke", "create", "patch"}
LoginOps == {"login", "adminLogin", "register", "playerLogin", "staffLogin", "redeem", "unknown"}
Ops == PlayerOps \cup StaffOps \cup LoginOps \cup {"refresh"}

Accounts == Users \cup Staff
Credentials == Tokens \cup Sessions
Rows == Accounts \cup Credentials \cup Counters
Kinds == {"user", "staff_admin", "staff", "voucher_login", "voucher_redeem", "unknown"}

ASSUME NamesAssumption ==
  /\ NoReq \notin Reqs /\ Nothing \notin Rows
  /\ Users \cap Staff = {} /\ Accounts \cap Credentials = {} /\ Tokens \cap Sessions = {}
  /\ Counters \cap (Accounts \cup Credentials) = {}
  /\ Admins \subseteq Users /\ First \in Staff
ASSUME OwnerAssumption ==
  /\ Owner \in [Credentials -> Accounts]
  /\ \A t \in Tokens : Owner[t] \in Users
  /\ Kind \in [Counters -> Kinds]
ASSUME MenuAssumption == Menus \subseteq SUBSET (Ops \X Accounts)
ASSUME BoundAssumption == Threshold \in Nat \ {0} /\ MaxTries \in Nat

VARIABLES
  db,      \* the committed rows
  cur,     \* the newest version of each row
  lock,    \* the transaction that owns each row
  req,     \* per request: its place in the handler and what it has read
  tries,   \* failed logins under an unknown tenant identifier
  menu     \* which requests this behaviour has

vars == <<db, cur, lock, req, tries, menu>>

\* Of an account: none, active, inactive, gone.  Of a credential: none, live, revoked,
\* gone.  Of a counter: none, open, locked, and its failCount.
States == {"none", "active", "inactive", "live", "revoked", "gone", "open", "locked"}
Row == [st : States, n : Nat]
Is(st) == [st |-> st, n |-> 0]

Places == {"idle", "gate", "account", "find", "make", "count", "present", "holder", "rotate",
           "auth", "read", "touch", "save", "deactivate", "scan", "sweep", "drop", "respond"}
Phases == {"none", "named", "sessions", "tokens"}
TxStates == {"none", "open", "aborted"}

NoWork == [at |-> "idle", op |-> "unknown", who |-> Nothing, x |-> Nothing, new |-> {},
           c |-> Nothing, n |-> 0, phase |-> "none", todo |-> {}, status |-> 0, tx |-> "none",
           began |-> [x \in Accounts \cup Credentials |-> "none"]]

\* A new installation, or one where everybody is there.
Init ==
  /\ \E there \in {{First}, Accounts} :
       db = [x \in Rows |-> Is(IF x \in there THEN "active" ELSE "none")]
  /\ cur = db
  /\ lock = [x \in Rows |-> NoReq]
  /\ req = [r \in Reqs |-> NoWork]
  /\ tries = 0
  /\ menu \in Menus

At(r, place) == req[r].at = place
Running(r) == req[r].at # "idle"
Goto(r, place) == [req EXCEPT ![r].at = place]
Answer(r, status) == [req EXCEPT ![r].at = "respond", ![r].status = status]

Kept == <<db, cur, lock, tries, menu>>

\* The counters a login of this operation looks at.
KindOf(op) ==
  CASE op = "login" -> "user"
    [] op \in {"adminLogin", "register"} -> "staff_admin"
    [] op = "staffLogin" -> "staff"
    [] op = "playerLogin" -> "voucher_login"
    [] op = "redeem" -> "voucher_redeem"
    [] OTHER -> "unknown"
CountersOf(r) == {c \in Counters : Kind[c] = KindOf(req[r].op)}

-----------------------------------------------------------------------------
(* Arrival and the lockout check *)

FirstPlace(op) ==
  CASE op = "adminLogin" -> "account"
    [] op \in LoginOps \ {"adminLogin"} -> "gate"
    [] op = "refresh" -> "present"
    [] OTHER -> "auth"

Reserved == UNION {req[r].new : r \in Reqs}
Unused(S, a) == {x \in S : Owner[x] = a /\ db[x].st = "none" /\ cur[x].st = "none" /\ x \notin Reserved}

\* What an operation may create: a refresh token, a session or both.
Creates(op) ==
  CASE op \in {"login", "adminLogin", "register", "refresh"} -> {Tokens}
    [] op = "playerLogin" -> {Tokens, Sessions}
    [] op = "staffLogin" -> {Sessions}
    [] OTHER -> {}

\* A client knows an id whose row is there, or was about to be when it was answered.
Known(x) ==
  \/ db[x].st # "none"
  \/ cur[x].st # "none" /\ \E r \in Reqs : lock[x] = r /\ At(r, "respond")
TheirOwn(S, a) == {x \in S : Owner[x] = a /\ Known(x)}

\* The credential an operation on account a may name.
Named(op, a) ==
  CASE op = "refresh" -> TheirOwn(Tokens, a)
    [] op \in {"me", "revoke"} -> TheirOwn(Sessions, a)
    [] op = "logout" -> TheirOwn(Sessions, a) \cup {Nothing}
    [] OTHER -> {Nothing}

\* The accounts an operation is about.
About(op) ==
  CASE op \in {"create", "patch", "staffLogin"} -> Staff
    [] op = "revoke" -> Accounts
    [] op \in {"terminate", "delete"} -> Users \ Admins
    [] op = "adminLogin" -> Admins
    [] OTHER -> Users

\* What the properties ask of the time a request arrived: the account's state and, for
\* one that takes access away, its credentials'.
Sweepers == {"refresh", "logout", "terminate", "delete"}
Matters(op, a, y) == y = a \/ (op \in Sweepers /\ y \in Credentials /\ Owner[y] = a)

\* A request arrives.  The ids it may need are fresh uuids.
Begin(r) ==
  /\ At(r, "idle")
  /\ \E op \in Ops, a \in Accounts :
       /\ <<op, a>> \in menu /\ a \in About(op)
       /\ op = "unknown" => tries + Cardinality({s \in Reqs : req[s].op = "unknown" /\ Running(s)}) < MaxTries
       /\ \A S \in Creates(op) : Unused(S, a) # {}
       /\ \E x \in Named(op, a) :
            req' = [req EXCEPT ![r] =
                      [NoWork EXCEPT !.op = op, !.who = a, !.x = x, !.at = FirstPlace(op),
                         !.tx = IF FirstPlace(op) = "account" THEN "open" ELSE "none",
                         !.new = {CHOOSE y \in Unused(S, a) : TRUE : S \in Creates(op)},
                         !.began = [y \in Accounts \cup Credentials |-> IF Matters(op, a, y) THEN db[y].st ELSE "none"]]]
  /\ UNCHANGED Kept

\* getLock reads one counter of the name, if there is any.
Gate(r) ==
  /\ At(r, "gate")
  /\ LET seen == {c \in CountersOf(r) : db[c].st # "none"} IN
     \/ /\ \E c \in seen : db[c].st = "locked"
        /\ req' = Answer(r, 429)
     \/ /\ seen = {} \/ \E c \in seen : db[c].st # "locked"
        /\ req' = IF req[r].op = "unknown" THEN Goto(r, "find")
                  ELSE [req EXCEPT ![r].at = "account", ![r].tx = "open"]
  /\ UNCHANGED Kept

\* lockUntil passes.
LockEnds(c) ==
  /\ db[c].st = "locked" /\ lock[c] = NoReq
  /\ db' = [db EXCEPT ![c].st = "open"]
  /\ cur' = [cur EXCEPT ![c].st = "open"]
  /\ UNCHANGED <<lock, req, tries, menu>>

-----------------------------------------------------------------------------
(* A failed login *)

\* findOrCreate, its SELECT.
FindCounter(r) ==
  /\ At(r, "find")
  /\ LET seen == {c \in CountersOf(r) : db[c].st # "none"} IN
     \/ /\ seen = {}
        /\ req' = Goto(r, "make")
     \/ \E c \in seen : req' = [req EXCEPT ![r].c = c, ![r].n = db[c].n, ![r].at = "count"]
  /\ UNCHANGED Kept

\* findOrCreate, its INSERT.  The unique index makes two inserts of one name wait for
\* each other, but not where tenant_id is null: there every counter is another id.
MakeCounter(r) ==
  /\ At(r, "make")
  /\ \E c \in CountersOf(r) :
       /\ cur[c].st = "none" /\ lock[c] = NoReq
       /\ cur' = [cur EXCEPT ![c] = Is("open")]
       /\ IF req[r].tx = "none"
          THEN db' = [db EXCEPT ![c] = Is("open")] /\ UNCHANGED lock
          ELSE lock' = [lock EXCEPT ![c] = r] /\ UNCHANGED db
       /\ req' = [req EXCEPT ![r].c = c, ![r].n = 0, ![r].at = "count"]
  /\ UNCHANGED <<tries, menu>>

\* computeLockDurationMinutes(n) > 0.
Locks(n) == n >= Threshold

\* The saved counter: the failures it read and one more; lockUntil stays if not set.
Counted(row, n) == [st |-> IF Locks(n) THEN "locked" ELSE row.st, n |-> n]

\* lock.save() and the answer.
CountFailure(r) ==
  /\ At(r, "count")
  /\ LET c == req[r].c
         n == req[r].n + 1 IN
     /\ lock[c] \in {r, NoReq}
     /\ cur' = [cur EXCEPT ![c] = Counted(@, n)]
     /\ IF req[r].tx = "none"
        THEN /\ db' = [db EXCEPT ![c] = Counted(@, n)]
             /\ tries' = tries + 1
             /\ UNCHANGED lock
        ELSE /\ lock' = [lock EXCEPT ![c] = r]
             /\ UNCHANGED <<db, tries>>
  /\ req' = Answer(r, 401)
  /\ UNCHANGED menu

-----------------------------------------------------------------------------
(* Logins *)

\* recordSuccess: the committed counters of the name, which a registration leaves alone.
Cleared(r) == {c \in CountersOf(r) : req[r].op # "register" /\ db[c].st # "none"}

\* New rows X, the counters cleared, and a 200 or 201 answer.
LetIn(r, X, status) ==
  /\ \A y \in X \cup Cleared(r) : lock[y] = NoReq
  /\ cur' = [y \in Rows |-> IF y \in Cleared(r) THEN Is("none")
                            ELSE IF y \in X \cap Accounts THEN Is("active")
                            ELSE IF y \in X THEN Is("live") ELSE cur[y]]
  /\ lock' = [y \in Rows |-> IF y \in X \cup Cleared(r) THEN r ELSE lock[y]]
  /\ \E tx \in IF X \cap Sessions = {} THEN {"open"} ELSE {"open", "aborted"} :
       req' = [Answer(r, status) EXCEPT ![r].tx = tx]
  /\ UNCHANGED <<db, tries, menu>>

Fail(r) == req' = Goto(r, "find") /\ UNCHANGED Kept
Reply(r, status) == req' = Answer(r, status) /\ UNCHANGED Kept

\* POST /auth/login: no such user, or a wrong password; a disabled account; a token.
Login(r) ==
  /\ At(r, "account") /\ req[r].op = "login"
  /\ LET st == db[req[r].who].st IN
     \/ st # "inactive" /\ Fail(r)
     \/ st = "inactive" /\ Reply(r, 403)
     \/ st = "active" /\ LetIn(r, req[r].new, 200)

\* POST /auth/admin/login looks neither at the lock nor at isActive.
AdminLogin(r) ==
  /\ At(r, "account") /\ req[r].op = "adminLogin"
  /\ \/ Fail(r)
     \/ db[req[r].who].st \in {"active", "inactive"} /\ LetIn(r, req[r].new, 200)

\* POST /auth/register: a taken name, or a new user with a token.  The name that
\* another request is inserting is waited for, and then the insert fails (with 500).
Register(r) ==
  /\ At(r, "account") /\ req[r].op = "register"
  /\ LET u == req[r].who IN
     \/ db[u].st # "none" /\ Reply(r, 409)
     \/ db[u].st = "none" /\ LetIn(r, req[r].new \cup {u}, 201)

\* POST /player/login.  With a new voucher (its money is PlayerAccount's) the user is
\* found or created; without one the user must be there and know the pin.  A session
\* insert that fails is caught, but Postgres has given the transaction up by then.
PlayerLogin(r) ==
  /\ At(r, "account") /\ req[r].op = "playerLogin"
  /\ LET u == req[r].who IN
     \/ db[u].st # "inactive" /\ Fail(r)
     \/ db[u].st = "inactive" /\ Reply(r, 403)
     \/ db[u].st = "active" /\ LetIn(r, req[r].new, 200)
     \/ db[u].st = "none" /\ LetIn(r, req[r].new \cup {u}, 200)

\* POST /staff/login of a known tenant; again a failed session insert is caught.
StaffLogin(r) ==
  /\ At(r, "account") /\ req[r].op = "staffLogin"
  /\ \/ Fail(r)
     \/ db[req[r].who].st = "active" /\ LetIn(r, req[r].new, 200)

\* POST /vouchers/redeem by staff counts unknown codes (its money is PlayerAccount's).
Redeem(r) ==
  /\ At(r, "account") /\ req[r].op = "redeem"
  /\ Fail(r) \/ LetIn(r, {}, 200)

-----------------------------------------------------------------------------
(* POST /auth/refresh *)

\* Seeded bug: a spent token is good for another pair.
PresentSpent(r) ==
  /\ At(r, "present")
  /\ req' = [req EXCEPT ![r].at = "holder", ![r].tx = "open"]
  /\ UNCHANGED Kept

\* The token's row is read; one that is missing or revoked has every live token of the
\* user revoked by a statement of its own.
Present(r) ==
  /\ At(r, "present")
  /\ req' = IF db[req[r].x].st = "live"
            THEN [req EXCEPT ![r].at = "holder", ![r].tx = "open"]
            ELSE [req EXCEPT ![r].at = "scan", ![r].phase = "tokens"]
  /\ UNCHANGED Kept

\* The user must be there and active.
CheckHolder(r) ==
  /\ At(r, "holder")
  /\ req' = IF db[req[r].who].st = "active" THEN Goto(r, "rotate") ELSE Answer(r, 401)
  /\ UNCHANGED Kept

\* existing.save() by primary key, whatever has become of the row, and the new token,
\* whose id replacedById then gets.
Rotate(r) ==
  /\ At(r, "rotate")
  /\ LET t == req[r].x IN
     /\ \A y \in req[r].new \cup {t} : lock[y] = NoReq
     /\ cur' = [y \in Rows |-> IF y = t THEN Is("revoked")
                               ELSE IF y \in req[r].new THEN Is("live") ELSE cur[y]]
     /\ lock' = [y \in Rows |-> IF y \in req[r].new \cup {t} THEN r ELSE lock[y]]
  /\ req' = Answer(r, 200)
  /\ UNCHANGED <<db, tries, menu>>

-----------------------------------------------------------------------------
(* Authenticated requests *)

AuthPlace(op) ==
  CASE op = "logout" -> "scan"
    [] op = "terminate" -> "deactivate"
    [] OTHER -> "read"

\* requireAuth reads the user: missing 401, inactive 403.
UserAuth(r) ==
  /\ At(r, "auth") /\ req[r].op \in PlayerOps
  /\ LET st == db[req[r].who].st IN
     req' = CASE st = "active" -> [req EXCEPT ![r].at = AuthPlace(req[r].op), ![r].tx = "open",
                                      ![r].phase = IF req[r].op # "logout" THEN "none"
                                                   ELSE IF req[r].x = Nothing THEN "sessions" ELSE "named"]
              [] st = "inactive" -> Answer(r, 403)
              [] OTHER -> Answer(r, 401)
  /\ UNCHANGED Kept

\* requireStaffAuth reads the acting staff member, then the permissions in the token.
StaffAuth(r) ==
  /\ At(r, "auth") /\ req[r].op \in StaffOps
  /\ \/ /\ \E s \in Staff : db[s].st = "active"
        /\ req' = [req EXCEPT ![r].at = AuthPlace(req[r].op), ![r].tx = "open"]
     \/ req' = Answer(r, 403)
  /\ UNCHANGED Kept

\* What touch, revoke, delete and the staff handlers read without a lock.
ReadRow(r) ==
  /\ At(r, "read")
  /\ LET op == req[r].op
         st == IF op \in {"me", "revoke"} THEN (IF req[r].x = Nothing THEN "none" ELSE db[req[r].x].st)
               ELSE db[req[r].who].st IN
     \/ op = "me" /\ req' = IF st = "live" THEN Goto(r, "touch") ELSE Answer(r, 200)
     \/ op = "revoke" /\ req' = IF st \in {"live", "revoked"} THEN Goto(r, "save") ELSE Answer(r, 404)
     \/ op = "delete" /\ st \in {"none", "gone"} /\ req' = Answer(r, 404)
     \/ /\ op = "delete" /\ st \in {"active", "inactive"}
        /\ \/ req' = Answer(r, 400)
           \/ req' = [req EXCEPT ![r].at = "scan", ![r].phase = "sessions"]
     \/ op = "create" /\ req' = IF st = "none" THEN Goto(r, "save") ELSE Answer(r, 409)
     \/ op = "patch" /\ req' = IF st = "none" THEN Answer(r, 404) ELSE Goto(r, "save")
  /\ UNCHANGED Kept

\* UPDATE or INSERT of row y with version `row`, under its lock, and the answer.
Write(r, y, row, status) ==
  /\ lock[y] = NoReq
  /\ lock' = [lock EXCEPT ![y] = r]
  /\ cur' = [cur EXCEPT ![y] = row]
  /\ req' = Answer(r, status)
  /\ UNCHANGED <<db, tries, menu>>

\* Seeded bug: touching a session writes the row as it was read.
TouchAllColumns(r) ==
  /\ At(r, "touch")
  /\ Write(r, req[r].x, Is("live"), 200)

\* touchPlayerSession saves lastSeenAt, and nothing else, of the session it read.
Touch(r) ==
  /\ At(r, "touch")
  /\ Write(r, req[r].x, cur[req[r].x], 200)

\* POST /admin/sessions/:id/revoke saves revokedAt; a row deleted since is no error.
Revoke(r) ==
  /\ At(r, "save") /\ req[r].op = "revoke"
  /\ LET st == cur[req[r].x].st IN
     Write(r, req[r].x, Is(IF st = "gone" THEN "gone" ELSE "revoked"), 200)

\* POST /admin/staff inserts; the name another request inserted meanwhile is a 500.
CreateStaff(r) ==
  /\ At(r, "save") /\ req[r].op = "create"
  /\ LET a == req[r].who IN
     \/ db[a].st # "none" /\ Reply(r, 500)
     \/ db[a].st = "none" /\ \E st \in {"active", "inactive"} : Write(r, a, Is(st), 201)

\* PATCH /admin/staff/:id with or without isActive, and PATCH .../password.
PatchStaff(r) ==
  /\ At(r, "save") /\ req[r].op = "patch"
  /\ \E st \in {cur[req[r].who].st, "active", "inactive"} : Write(r, req[r].who, Is(st), 200)

-----------------------------------------------------------------------------
(* Taking access away *)

\* Voucher termination locks the player and saves isActive; its refusals are one, and
\* its money is PlayerAccount's.
Deactivate(r) ==
  /\ At(r, "deactivate")
  /\ \/ Reply(r, 400)
     \/ LET u == req[r].who IN
        /\ db[u].st \in {"active", "inactive"} /\ lock[u] = NoReq
        /\ lock' = [lock EXCEPT ![u] = r]
        /\ cur' = [cur EXCEPT ![u] = Is("inactive")]
        /\ req' = [req EXCEPT ![r].at = "scan", ![r].phase = "sessions"]
        /\ UNCHANGED <<db, tries, menu>>

\* The rows a statement is about, by their owner, and the states it wants them in.
InPhase(r) ==
  CASE req[r].phase = "named" -> {req[r].x}
    [] req[r].phase = "tokens" -> {t \in Tokens : Owner[t] = req[r].who}
    [] OTHER -> {s \in Sessions : Owner[s] = req[r].who}
Wanted(r) == IF req[r].op = "delete" THEN {"live", "revoked"} ELSE {"live"}

\* Seeded bug: only the credential that was presented.
ScanNamed(r) ==
  /\ At(r, "scan")
  /\ req' = [req EXCEPT ![r].at = "sweep", ![r].todo = {req[r].x} \cap InPhase(r), ![r].n = 0]
  /\ UNCHANGED Kept

\* The statement starts: its rows among those committed by now.
Scan(r) ==
  /\ At(r, "scan")
  /\ req' = [req EXCEPT ![r].at = "sweep", ![r].n = 0,
                        ![r].todo = {y \in InPhase(r) : db[y].st \in Wanted(r)}]
  /\ UNCHANGED Kept

\* One row, once it is free: written if it is still wanted.
SweepRow(r) ==
  /\ At(r, "sweep")
  /\ \E y \in req[r].todo :
       /\ lock[y] = NoReq
       /\ IF db[y].st \in Wanted(r)
          THEN /\ lock' = [lock EXCEPT ![y] = r]
               /\ cur' = [cur EXCEPT ![y] = Is(IF req[r].op = "delete" THEN "gone" ELSE "revoked")]
               /\ req' = [req EXCEPT ![r].todo = @ \ {y}, ![r].n = 1]
          ELSE /\ req' = [req EXCEPT ![r].todo = @ \ {y}]
               /\ UNCHANGED <<cur, lock>>
  /\ UNCHANGED <<db, tries, menu>>

\* Seeded bug: a refused or failed request keeps its rows.
FreeOnSuccess(r) == [y \in Rows |-> IF lock[y] = r /\ req[r].status < 400 THEN NoReq ELSE lock[y]]

Free(r) == [y \in Rows |-> IF lock[y] = r THEN NoReq ELSE lock[y]]
Stored(r) == [y \in Rows |-> IF lock[y] = r THEN cur[y] ELSE db[y]]

\* The reuse check's statement commits by itself, and the refresh is answered 401.
ReuseDone(r) ==
  /\ At(r, "sweep") /\ req[r].todo = {} /\ req[r].op = "refresh"
  /\ db' = Stored(r)
  /\ lock' = Free(r)
  /\ req' = Answer(r, 401)
  /\ UNCHANGED <<cur, tries, menu>>

\* logout goes on to every session if the one it named was not live; terminate goes on
\* to the tokens; delete to the wallet and the user.
SweepDone(r) ==
  /\ At(r, "sweep") /\ req[r].todo = {} /\ req[r].op # "refresh"
  /\ req' = CASE req[r].op = "logout" /\ req[r].phase = "named" /\ req[r].n = 0 ->
                   [req EXCEPT ![r].at = "scan", ![r].phase = "sessions"]
              [] req[r].op = "terminate" /\ req[r].phase = "sessions" ->
                   [req EXCEPT ![r].at = "scan", ![r].phase = "tokens"]
              [] req[r].op = "delete" -> Goto(r, "drop")
              [] OTHER -> Answer(r, 200)
  /\ UNCHANGED Kept

\* User.destroy, which is content to find nothing.
DropUser(r) ==
  /\ At(r, "drop")
  /\ Write(r, req[r].who, Is("gone"), 200)

-----------------------------------------------------------------------------
(* The end of a request *)

Ended(r) == [req EXCEPT ![r] = NoWork]
Rollback(r) ==
  /\ cur' = [y \in Rows |-> IF lock[y] = r THEN db[y] ELSE cur[y]]
  /\ UNCHANGED db

\* Seeded bug: a refusal is committed like a success.
FinishCommitting(r) ==
  /\ At(r, "respond")
  /\ db' = Stored(r) /\ UNCHANGED cur
  /\ lock' = Free(r)
  /\ req' = Ended(r)
  /\ UNCHANGED <<tries, menu>>

\* attachLifecycle; COMMIT of a transaction Postgres has given up is a rollback.
Finish(r) ==
  /\ At(r, "respond")
  /\ IF req[r].status < 400 /\ req[r].tx = "open" THEN db' = Stored(r) /\ UNCHANGED cur
                                                   ELSE Rollback(r)
  /\ lock' = Free(r)
  /\ req' = Ended(r)
  /\ UNCHANGED <<tries, menu>>

\* The connection closes first, a statement fails, or the process dies.
Close(r) ==
  /\ Running(r)
  /\ Rollback(r)
  /\ lock' = Free(r)
  /\ req' = Ended(r)
  /\ UNCHANGED <<tries, menu>>

\* The rows a request waits for: a sweep for any of its rows.
Awaits(r) ==
  CASE At(r, "sweep") -> req[r].todo
    [] At(r, "drop") \/ At(r, "deactivate") -> {req[r].who}
    [] OTHER -> {}

\* Postgres aborts one transaction of a cycle; its handler answers 500.
DeadlockVictim(r) ==
  /\ \E s \in Reqs \ {r} :
       /\ \E y \in Awaits(r) : lock[y] = s
       /\ \E y \in Awaits(s) : lock[y] = r
  /\ Rollback(r)
  /\ lock' = Free(r)
  /\ req' = Answer(r, 500)
  /\ UNCHANGED <<tries, menu>>

HandlerStep(r) ==
  \/ Gate(r) \/ FindCounter(r) \/ MakeCounter(r) \/ CountFailure(r)
  \/ Login(r) \/ AdminLogin(r) \/ Register(r) \/ PlayerLogin(r) \/ StaffLogin(r) \/ Redeem(r)
  \/ Present(r) \/ CheckHolder(r) \/ Rotate(r)
  \/ UserAuth(r) \/ StaffAuth(r) \/ ReadRow(r) \/ Touch(r) \/ Revoke(r)
  \/ CreateStaff(r) \/ PatchStaff(r)
  \/ Deactivate(r) \/ Scan(r) \/ SweepRow(r) \/ ReuseDone(r) \/ SweepDone(r) \/ DropUser(r)
  \/ Finish(r)

Next ==
  \/ \E r \in Reqs : Begin(r) \/ HandlerStep(r) \/ Close(r) \/ DeadlockVictim(r)
  \/ \E c \in Counters : LockEnds(c)

Spec == Init /\ [][Next]_vars

\* Handlers run on; Postgres queues who waits for a row and breaks cycles.
FairSpec == Spec /\ \A r \in Reqs : SF_vars(HandlerStep(r)) /\ WF_vars(DeadlockVictim(r))

-----------------------------------------------------------------------------
(* Properties *)

AnswerStatuses == {0, 200, 201, 400, 401, 403, 404, 409, 429, 500}
Work == [at : Places, op : Ops, who : Accounts \cup {Nothing}, x : Credentials \cup {Nothing},
         new : SUBSET Credentials, c : Counters \cup {Nothing}, n : Nat, phase : Phases,
         todo : SUBSET (Credentials \cup {Nothing}), status : AnswerStatuses, tx : TxStates,
         began : [Accounts \cup Credentials -> States]]

\* The type invariant of the rows, their locks and the request records.
TypeOK ==
  /\ db \in [Rows -> Row] /\ cur \in [Rows -> Row]
  /\ lock \in [Rows -> Reqs \cup {NoReq}]
  /\ req \in [Reqs -> Work]
  /\ tries \in Nat /\ menu \in SUBSET (Ops \X Accounts)

\* A token or session that was revoked or deleted is never live again, whatever read
\* it before: a late touch of playerRoutes.js:191 must not undo a logout.
RevokedForGood ==
  [][\A y \in Credentials : db[y].st \in {"revoked", "gone"} => db'[y].st # "live"]_vars

\* A counter of a login name that belongs to a tenant is never committed: the failure
\* it counts is answered 401 or 404, and that rolls it back (auth.js:203, 247, 451, 492,
\* staffAuth.js:127, 161, playerRoutes.js:290, 333, vouchers.js:988).  Where failures do
\* count, however their increments overlap and get lost, and however many rows a name
\* without a tenant has, a lock is set after no fewer than FAIL_THRESHOLD of them.
LocksAreEarned ==
  \A c \in Counters :
    /\ db[c].st # "none" => Kind[c] = "unknown" /\ db[c].n <= tries
    /\ db[c].st = "locked" => tries >= Threshold

\* Row y becomes live by the commit of request r.
Grants(r, y) == lock[y] = r /\ db[y].st = "none" /\ db'[y].st = "live"

\* What a token or session is granted on still held when its request arrived.  A user
\* disabled or deleted before gets none, and a refresh token spent or revoked before
\* buys none; one that was so only later may (auth.js:241, 329 and 374 read without a
\* lock): two successors of one token need two refreshes that overlap.
GrantsAreEarned ==
  [][\A r \in Reqs, y \in Credentials :
       Grants(r, y) =>
         /\ Owner[y] \in Users => req[r].began[Owner[y]] \notin {"inactive", "gone"}
         /\ req[r].op = "refresh" => req[r].began[req[r].x] # "revoked"]_vars

\* What a request that takes access away promises to end.
Promised(r) ==
  CASE req[r].op = "refresh" /\ req[r].phase = "tokens" -> {t \in Tokens : Owner[t] = req[r].who}
    [] req[r].op = "terminate" -> {y \in Credentials : Owner[y] = req[r].who}
    [] req[r].op \in {"logout", "delete"} /\ req[r].phase = "sessions" ->
         {s \in Sessions : Owner[s] = req[r].who}
    [] OTHER -> {}
Swept(r) ==
  /\ At(r, "respond")
  /\ IF req[r].op = "refresh" THEN req[r].status = 401 ELSE req[r].status = 200

\* When a reuse is answered 401, or a termination, a logout or a deletion 200, no
\* credential it is about that was live when the request arrived is live any more,
\* however many rows it had to wait for on the way.
SweepsComplete ==
  \A r \in Reqs :
    Swept(r) => \A y \in Promised(r) : req[r].began[y] = "live" => cur[y].st # "live"

\* Every request that arrives ends, also where a termination and a deletion wait for
\* each other's rows.
EveryRequestEnds == \A r \in Reqs : Running(r) ~> ~Running(r)
=============================================================================
