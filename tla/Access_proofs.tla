--------------------------- MODULE Access_proofs ---------------------------
(***************************************************************************)
(* Theorems about Access, for any accounts, credentials, counters, menus   *)
(* and number of requests that overlap.                                    *)
(***************************************************************************)
EXTENDS Access, TLAPS

(***************************************************************************)
(* The inductive invariant                                                 *)
(***************************************************************************)

Dead == {"revoked", "gone"}
Disabled == {"inactive", "gone"}
CredentialStates == {"none", "live", "revoked", "gone"}
Holding == {"count", "scan", "sweep", "drop", "respond"}

\* The requests that hold rows: a failure without a transaction holds none.
Holder(w) == w.at \in Holding /\ (w.at = "count" => w.op # "unknown")

\* What a commit may do to a row: credentials and users that are out stay out.
Moves(y, old, new) ==
  /\ y \in Credentials => /\ new \in CredentialStates
                          /\ old # "none" => new # "none"
                          /\ old \in Dead => new \in Dead
  /\ y \in Users => (old \in Disabled => new \in Disabled)
  /\ y \in Admins => (old \notin Disabled => new \notin Disabled)
Grow(d, e) == \A y \in Rows : Moves(y, d[y].st, e[y].st)

\* A request's record by itself: which handler is at which place.
Local(w) ==
  /\ w.at # "idle" => w.who \in About(w.op)
  /\ \A y \in w.new : Owner[y] = w.who
  /\ w.at \in {"gate", "account", "find", "make", "count"} => w.op \in LoginOps
  /\ w.at = "gate" => w.tx = "none"
  /\ w.at = "account" => w.op # "unknown" /\ w.tx = "open"
  /\ w.at \in {"find", "make", "count"} => (w.tx = "none" <=> w.op = "unknown")
  /\ w.at = "count" => w.c \in Counters /\ Kind[w.c] = KindOf(w.op)
  /\ w.op = "refresh" /\ w.at # "idle" => w.x \in Tokens
  /\ w.op \in {"me", "revoke"} /\ w.at # "idle" => w.x \in Sessions
  /\ w.op = "logout" /\ w.at # "idle" => w.x \in Sessions \cup {Nothing}
  /\ w.at \in {"present", "holder", "rotate"} => w.op = "refresh"
  /\ w.at = "touch" => w.op = "me"
  /\ w.at = "save" => w.op \in {"revoke", "create", "patch"}
  /\ w.at = "deactivate" => w.op = "terminate"
  /\ w.at \in {"scan", "sweep"} => w.op \in Sweepers
  /\ w.at \in {"scan", "sweep"} /\ w.op = "refresh" => w.phase = "tokens"
  /\ w.at \in {"scan", "sweep"} /\ w.op = "delete" => w.phase = "sessions"
  /\ w.at \in {"scan", "sweep"} /\ w.op = "logout" => w.phase \in {"named", "sessions"}
  /\ w.at \in {"scan", "sweep"} /\ w.op = "terminate" => w.phase \in {"sessions", "tokens"}
  /\ w.at \in {"scan", "sweep"} /\ w.phase = "named" => w.x \in Sessions
  /\ w.at \in {"present", "holder", "rotate"} => w.phase = "none"
  /\ w.at = "drop" => w.op = "delete" /\ w.phase = "sessions"
  /\ w.at = "sweep" => w.todo \subseteq Credentials

\* A request's record and the committed rows d, which may grow.
Facts(w, d) ==
  /\ w.who \in Users /\ w.began[w.who] \in Disabled => d[w.who].st \in Disabled
  /\ \A y \in Credentials : /\ w.began[y] # "none" => d[y].st # "none"
                            /\ w.began[y] \in Dead => d[y].st \in Dead
  /\ w.at \in {"touch", "holder", "rotate"} => d[w.x].st # "none"
  /\ w.at = "save" /\ w.op = "revoke" => d[w.x].st # "none"
  /\ w.at \in {"holder", "rotate"} => w.began[w.x] # "revoked"
  /\ w.at = "rotate" => w.began[w.who] \notin Disabled

RowsPart ==
  /\ Grow(db, cur)
  /\ \A u \in Admins : db[u].st \notin Disabled
  /\ \A y \in Credentials : db[y].st \in CredentialStates

OwnPart ==
  \A y \in Rows :
    IF lock[y] = NoReq
    THEN cur[y] = db[y]
    ELSE /\ Holder(req[lock[y]])
         /\ y \in Credentials => cur[y].st # "none"
         /\ y \in Counters =>
              /\ Kind[y] # "unknown"
              /\ req[lock[y]].at = "count" \/ (req[lock[y]].at = "respond" /\ req[lock[y]].status >= 400)

ReqPart == \A r \in Reqs : Local(req[r]) /\ Facts(req[r], db)

\* The ids a request has drawn are nobody else's and unused until it writes them.
NewPart ==
  /\ \A r, s \in Reqs : r # s => req[r].new \cap req[s].new = {}
  /\ \A r \in Reqs :
       req[r].at # "respond" => \A y \in req[r].new : cur[y].st = "none" /\ lock[y] = NoReq

\* A row that is about to be new was written by a request entitled to it.
Entitled(w, y) ==
  /\ w.at = "respond"
  /\ Owner[y] \in Users => w.began[Owner[y]] \notin Disabled
  /\ w.op = "refresh" => w.began[w.x] # "revoked"
GrantPart ==
  \A y \in Credentials : lock[y] # NoReq /\ db[y].st = "none" => Entitled(req[lock[y]], y)

\* Row y is out, or will be by the commit of r.
Out(r, y) == db[y].st \in Dead \/ (lock[y] = r /\ cur[y].st \in Dead)
OutBut(r, S, T) == \A y \in S \ T : req[r].began[y] = "live" => Out(r, y)
OwnSessions(r) == {s \in Sessions : Owner[s] = req[r].who}
Sweeping(r) ==
  /\ At(r, "sweep") => OutBut(r, InPhase(r), req[r].todo)
  /\ At(r, "drop") => OutBut(r, OwnSessions(r), {})
  /\ At(r, "scan") \/ At(r, "sweep") =>
       (req[r].op = "terminate" /\ req[r].phase = "tokens" => OutBut(r, OwnSessions(r), {}))
  /\ Swept(r) => OutBut(r, Promised(r), {})
SweepPart == \A r \in Reqs : Sweeping(r)

CountPart ==
  /\ LocksAreEarned
  /\ \A r \in Reqs : At(r, "count") /\ req[r].op = "unknown" => req[r].n <= tries

IInv ==
  /\ TypeOK /\ RowsPart /\ OwnPart /\ ReqPart /\ NewPart /\ GrantPart /\ SweepPart /\ CountPart

\* f with the value y at x.
Put(f, x, y) == [f EXCEPT ![x] = y]

(***************************************************************************)
(* The initial states                                                      *)
(***************************************************************************)

LEMMA NoWorkIsWork == NoWork \in Work /\ NoWork.at = "idle" /\ NoWork.new = {}
BY DEF NoWork, Work, Places, Ops, PlayerOps, StaffOps, LoginOps, Phases, AnswerStatuses, TxStates, States

LEMMA InitInv == Init => IInv
<1> SUFFICES ASSUME Init PROVE IInv
  OBVIOUS
<1>1. \A x \in Rows : db[x] \in {Is("active"), Is("none")} /\ cur[x] = db[x] /\ lock[x] = NoReq
  BY DEF Init
<1>2. \A x \in Rows : x \notin Accounts => db[x] = Is("none")
  BY NamesAssumption DEF Init, Accounts
<1>3. \A r \in Reqs : req[r] = NoWork
  BY DEF Init
<1>4. TypeOK
  <2>1. db \in [Rows -> Row] /\ cur \in [Rows -> Row] /\ lock \in [Rows -> Reqs \cup {NoReq}]
    BY DEF Init, Is, Row, States
  <2>2. req \in [Reqs -> Work] /\ tries \in Nat /\ menu \in SUBSET (Ops \X Accounts)
    BY NoWorkIsWork, MenuAssumption DEF Init
  <2> QED
    BY <2>1, <2>2 DEF TypeOK
<1>5. RowsPart
  <2>1. Grow(db, cur)
    BY <1>1, <1>2, NamesAssumption DEF Grow, Moves, Is, Dead, Disabled, CredentialStates
  <2>2. \A u \in Admins : u \in Rows /\ db[u].st \notin Disabled
    BY <1>1, NamesAssumption DEF Is, Disabled, Rows, Accounts
  <2>3. \A y \in Credentials : db[y].st \in CredentialStates
    BY <1>2, NamesAssumption DEF Is, Rows, CredentialStates
  <2> QED
    BY <2>1, <2>2, <2>3 DEF RowsPart
<1>6. OwnPart
  BY <1>1 DEF OwnPart
<1>7. ReqPart
  <2>1. Local(NoWork)
    BY DEF Local, NoWork
  <2>2. Facts(NoWork, db)
    BY NamesAssumption DEF Facts, NoWork, Dead, Disabled, Accounts, Rows
  <2> QED
    BY <1>3, <2>1, <2>2 DEF ReqPart
<1>8. NewPart
  BY <1>3, NoWorkIsWork DEF NewPart
<1>9. GrantPart
  BY <1>1 DEF GrantPart, Rows
<1>10. SweepPart
  <2>1. \A r \in Reqs : ~ At(r, "sweep") /\ ~ At(r, "drop") /\ ~ At(r, "scan") /\ ~ Swept(r)
    BY <1>3, NoWorkIsWork DEF At, Swept
  <2> QED
    BY <2>1 DEF SweepPart, Sweeping
<1>11. CountPart
  <2>1. \A c \in Counters : c \in Rows /\ db[c].st = "none" /\ db[c].n = 0
    BY <1>2, NamesAssumption DEF Is, Rows
  <2>2. LocksAreEarned
    BY <2>1 DEF Init, LocksAreEarned
  <2> QED
    BY <1>3, <2>2, NoWorkIsWork DEF CountPart, At
<1> QED
  BY <1>4, <1>5, <1>6, <1>7, <1>8, <1>9, <1>10, <1>11 DEF IInv

(***************************************************************************)
(* The kinds of step                                                       *)
(***************************************************************************)

\* What was read stays true while rows only grow.
LEMMA FactsStable ==
  ASSUME NEW w \in Work, NEW d, NEW e, Local(w), Facts(w, d), Grow(d, e)
  PROVE  Facts(w, e)
<1>1. Credentials \subseteq Rows /\ Users \subseteq Rows
  BY DEF Rows, Accounts
<1>2. \A y \in Credentials : /\ d[y].st # "none" => e[y].st # "none"
                             /\ d[y].st \in Dead => e[y].st \in Dead
  BY <1>1 DEF Grow, Moves
<1>3. w.who \in Users => (d[w.who].st \in Disabled => e[w.who].st \in Disabled)
  BY <1>1 DEF Grow, Moves
<1>4. w.at \in {"touch", "holder", "rotate"} => w.x \in Credentials
  BY DEF Local, Credentials
<1>5. w.at = "save" /\ w.op = "revoke" => w.x \in Credentials
  BY DEF Local, Credentials
<1> QED
  BY <1>2, <1>3, <1>4, <1>5 DEF Facts

\* What SweepPart says of a request that does nothing, while what is out stays out.
LEMMA SweepStays ==
  ASSUME IInv, NEW s \in Reqs, req'[s] = req[s],
         \A y \in Credentials : Out(s, y) => Out(s, y)'
  PROVE  Sweeping(s)'
<1>1. Sweeping(s)
  BY DEF IInv, SweepPart
<1>2. InPhase(s)' = InPhase(s) /\ OwnSessions(s)' = OwnSessions(s) /\ Promised(s)' = Promised(s)
  BY DEF InPhase, OwnSessions, Promised
<1>3. Swept(s)' <=> Swept(s)
  BY DEF Swept, At
<1>4. ASSUME NEW S, NEW T, OutBut(s, S, T), S \ T \subseteq Credentials
      PROVE  \A y \in S \ T : req'[s].began[y] = "live" => Out(s, y)'
  BY <1>4 DEF OutBut
<1>5. OwnSessions(s) \subseteq Credentials /\ Promised(s) \subseteq Credentials
  BY DEF OwnSessions, Promised, Credentials
<1>6. At(s, "sweep") => InPhase(s) \subseteq Credentials
  BY DEF IInv, ReqPart, Local, InPhase, At, Credentials
<1>7. At(s, "sweep")' => OutBut(s, InPhase(s), req[s].todo)'
  BY <1>1, <1>2, <1>4, <1>6 DEF Sweeping, OutBut, At
<1>8. /\ At(s, "drop")' => OutBut(s, OwnSessions(s), {})'
      /\ At(s, "scan")' \/ At(s, "sweep")' =>
           (req'[s].op = "terminate" /\ req'[s].phase = "tokens" => OutBut(s, OwnSessions(s), {})')
  BY <1>1, <1>2, <1>4, <1>5 DEF Sweeping, OutBut, At
<1>9. Swept(s)' => OutBut(s, Promised(s), {})'
  BY <1>1, <1>2, <1>3, <1>4, <1>5 DEF Sweeping, OutBut
<1> QED
  BY <1>7, <1>8, <1>9 DEF Sweeping, At

LEMMA PutOne ==
  ASSUME TypeOK, NEW r \in Reqs, NEW w \in Work, req' = Put(req, r, w)
  PROVE  /\ req' \in [Reqs -> Work] /\ req'[r] = w
         /\ \A s \in Reqs : s # r => req'[s] = req[s]
BY DEF TypeOK, Put

\* A step that only goes on in a handler, or answers.
LEMMA QuietInv ==
  ASSUME IInv, NEW r \in Reqs, NEW w \in Work, req' = Put(req, r, w), UNCHANGED Kept,
         req[r].at \notin {"count", "respond"},
         req[r].at \in {"scan", "sweep", "drop"} => w.at \in {"scan", "sweep", "drop", "respond"},
         w.new = req[r].new \/ \A y \in w.new : /\ cur[y].st = "none" /\ lock[y] = NoReq
                                             /\ \A s \in Reqs : y \notin req[s].new,
         Local(w), Facts(w, db),
         w.at = "count" /\ w.op = "unknown" => w.n <= tries,
         Sweeping(r)'
  PROVE  IInv'
<1> USE DEF Kept
<1>1. /\ req' \in [Reqs -> Work] /\ req'[r] = w
      /\ \A s \in Reqs : s # r => req'[s] = req[s]
  BY PutOne DEF IInv
<1>2. TypeOK'
  BY <1>1 DEF IInv, TypeOK
<1>3. RowsPart'
  BY DEF IInv, RowsPart, Grow
<1>4. \A y \in Rows : lock[y] = r => req[r].at \in {"scan", "sweep", "drop"} /\ y \notin Counters
  <2> SUFFICES ASSUME NEW y \in Rows, lock[y] = r
               PROVE  req[r].at \in {"scan", "sweep", "drop"} /\ y \notin Counters
    OBVIOUS
  <2>1. lock[y] # NoReq
    BY NamesAssumption
  <2> QED
    BY <2>1 DEF IInv, OwnPart, Holder, Holding
<1>5. OwnPart'
  <2> SUFFICES ASSUME NEW y \in Rows, lock[y] # NoReq
               PROVE  /\ Holder(req'[lock[y]])
                      /\ y \in Credentials => cur[y].st # "none"
                      /\ y \in Counters =>
                           /\ Kind[y] # "unknown"
                           /\ \/ req'[lock[y]].at = "count"
                              \/ req'[lock[y]].at = "respond" /\ req'[lock[y]].status >= 400
    BY DEF OwnPart, IInv
  <2>1. lock[y] \in Reqs
    BY DEF IInv, TypeOK
  <2>2. CASE lock[y] = r
    BY <1>1, <1>4, <2>2 DEF IInv, OwnPart, Holder, Holding
  <2>3. CASE lock[y] # r
    BY <1>1, <2>1, <2>3 DEF IInv, OwnPart
  <2> QED
    BY <2>2, <2>3
<1>6. ReqPart'
  BY <1>1 DEF IInv, ReqPart
<1>7. NewPart'
  BY <1>1 DEF IInv, NewPart
<1>8. GrantPart'
  <2> SUFFICES ASSUME NEW y \in Credentials, lock[y] # NoReq, db[y].st = "none"
               PROVE  Entitled(req'[lock[y]], y)
    BY DEF GrantPart
  <2>1. Entitled(req[lock[y]], y) /\ lock[y] \in Reqs
    BY DEF IInv, GrantPart, TypeOK, Rows
  <2> QED
    BY <1>1, <2>1 DEF Entitled
<1>9. SweepPart'
  <2> SUFFICES ASSUME NEW s \in Reqs, s # r PROVE Sweeping(s)'
    BY DEF SweepPart
  <2> QED
    BY <1>1, SweepStays DEF Out
<1>10. CountPart'
  BY <1>1 DEF IInv, CountPart, LocksAreEarned, At
<1> QED
  BY <1>2, <1>3, <1>5, <1>6, <1>7, <1>8, <1>9, <1>10 DEF IInv

\* A step that writes rows X and takes their locks, as request r may, whose record
\* becomes w.
Takes(r, X) ==
  /\ \A y \in X : lock[y] \in {r, NoReq}
  /\ lock' = [y \in Rows |-> IF y \in X THEN r ELSE lock[y]]
  /\ cur' \in [Rows -> Row] /\ \A y \in Rows : y \notin X => cur'[y] = cur[y]
  /\ UNCHANGED <<db, tries, menu>>
Allowed(r, w, X) ==
  /\ \A y \in X : Moves(y, db[y].st, cur'[y].st)
  /\ \A y \in X \cap Credentials :
       /\ cur'[y].st # "none"
       /\ db[y].st = "none" => y \in req[r].new /\ Entitled(w, y)
  /\ \A c \in X \cap Counters : Kind[c] # "unknown"
  /\ \A c \in Counters : lock'[c] = r => w.at = "count" \/ (w.at = "respond" /\ w.status >= 400)

LEMMA WriteInv ==
  ASSUME IInv, NEW r \in Reqs, NEW w \in Work, req' = Put(req, r, w),
         req[r].at # "respond", Holder(w), w.new = req[r].new,
         NEW X \in SUBSET Rows, Takes(r, X), Allowed(r, w, X),
         Local(w), Facts(w, db),
         w.at = "count" /\ w.op = "unknown" => w.n <= tries,
         Sweeping(r)'
  PROVE  IInv'
<1> USE DEF Takes, Allowed
<1>1. /\ req' \in [Reqs -> Work] /\ req'[r] = w
      /\ \A s \in Reqs : s # r => req'[s] = req[s]
  BY PutOne DEF IInv
<1>2. TypeOK'
  BY <1>1 DEF IInv, TypeOK
<1>3. RowsPart'
  <2> SUFFICES ASSUME NEW y \in Rows PROVE Moves(y, db[y].st, cur'[y].st)
    BY DEF IInv, RowsPart, Grow
  <2> QED
    BY DEF IInv, RowsPart, Grow
<1>4. OwnPart'
  <2> SUFFICES ASSUME NEW y \in Rows
               PROVE  IF lock'[y] = NoReq THEN cur'[y] = db[y]
                      ELSE /\ Holder(req'[lock'[y]])
                           /\ y \in Credentials => cur'[y].st # "none"
                           /\ y \in Counters =>
                                /\ Kind[y] # "unknown"
                                /\ \/ req'[lock'[y]].at = "count"
                                   \/ req'[lock'[y]].at = "respond" /\ req'[lock'[y]].status >= 400
    BY DEF OwnPart
  <2>1. CASE y \in X
    BY <1>1, <2>1, NamesAssumption
  <2>2. CASE y \notin X
    <3>1. lock'[y] = lock[y] /\ cur'[y] = cur[y] /\ lock[y] \in Reqs \cup {NoReq}
      BY <2>2 DEF IInv, TypeOK
    <3>2. CASE lock[y] = r
      BY <1>1, <3>1, <3>2, NamesAssumption DEF IInv, OwnPart
    <3>3. CASE lock[y] # r
      BY <1>1, <3>1, <3>3 DEF IInv, OwnPart
    <3> QED
      BY <3>2, <3>3
  <2> QED
    BY <2>1, <2>2
<1>5. ReqPart'
  BY <1>1 DEF IInv, ReqPart
<1>6. NewPart'
  <2>1. \A s, t \in Reqs : s # t => req'[s].new \cap req'[t].new = {}
    BY <1>1 DEF IInv, NewPart
  <2>2. ASSUME NEW s \in Reqs, req'[s].at # "respond", NEW y \in req'[s].new
        PROVE  cur'[y].st = "none" /\ lock'[y] = NoReq
    <3>1. req[s].at # "respond" /\ y \in req[s].new /\ y \in Credentials /\ y \in Rows
      BY <1>1, <2>2 DEF IInv, TypeOK, Work, Rows
    <3>2. cur[y].st = "none" /\ lock[y] = NoReq /\ db[y] = cur[y]
      BY <3>1 DEF IInv, NewPart, OwnPart
    <3>3. y \notin X
      <4> SUFFICES ASSUME y \in X PROVE FALSE
        OBVIOUS
      <4>1. y \in req[r].new /\ w.at = "respond"
        BY <3>1, <3>2 DEF Entitled
      <4>2. s = r
        BY <3>1, <4>1 DEF IInv, NewPart
      <4> QED
        BY <1>1, <2>2, <4>1, <4>2
    <3> QED
      BY <3>1, <3>2, <3>3
  <2> QED
    BY <2>1, <2>2 DEF NewPart
<1>7. GrantPart'
  <2> SUFFICES ASSUME NEW y \in Credentials, lock'[y] # NoReq, db[y].st = "none"
               PROVE  Entitled(req'[lock'[y]], y)
    BY DEF GrantPart
  <2>1. y \in Rows
    BY DEF Rows
  <2>2. CASE y \in X
    BY <1>1, <2>1, <2>2
  <2>3. CASE y \notin X
    <3>1. lock'[y] = lock[y] /\ Entitled(req[lock[y]], y) /\ lock[y] \in Reqs
      BY <2>1, <2>3 DEF IInv, GrantPart, TypeOK
    <3> QED
      BY <1>1, <3>1 DEF Entitled
  <2> QED
    BY <2>2, <2>3
<1>8. SweepPart'
  <2> SUFFICES ASSUME NEW s \in Reqs, s # r PROVE Sweeping(s)'
    BY DEF SweepPart
  <2>1. ASSUME NEW y \in Credentials, Out(s, y) PROVE Out(s, y)'
    <3>1. y \in Rows /\ s # NoReq
      BY NamesAssumption DEF Rows
    <3>2. lock[y] = s => y \notin X
      BY <3>1
    <3> QED
      BY <2>1, <3>1, <3>2 DEF Out
  <2> QED
    BY <1>1, <2>1, SweepStays
<1>9. CountPart'
  BY <1>1 DEF IInv, CountPart, LocksAreEarned, At
<1> QED
  BY <1>2, <1>3, <1>4, <1>5, <1>6, <1>7, <1>8, <1>9 DEF IInv
\* The rows a transaction gives back stay within what a commit may do.
LEMMA StoredGrows ==
  ASSUME IInv, NEW r \in Reqs, db' = db \/ db' = Stored(r)
  PROVE  Grow(db, db')
<1>1. ASSUME NEW y \in Rows PROVE Moves(y, db[y].st, db'[y].st)
  <2>1. Moves(y, db[y].st, cur[y].st) /\ Moves(y, db[y].st, db[y].st)
    BY DEF IInv, RowsPart, Grow, Moves
  <2>2. db'[y] \in {db[y], cur[y]}
    BY DEF Stored
  <2> QED
    BY <2>1, <2>2
<1> QED
  BY <1>1 DEF Grow

\* A commit or a rollback of what r has written.
LEMMA EndInv ==
  ASSUME IInv, NEW r \in Reqs, NEW w \in Work, req' = Put(req, r, w), UNCHANGED <<tries, menu>>,
         lock' = Free(r),
         \/ /\ db' = Stored(r) /\ UNCHANGED cur
            /\ req[r].at # "count" /\ (req[r].at = "respond" => req[r].status < 400)
         \/ Rollback(r),
         w.at \in {"idle", "respond"},
         w.new = {} \/ (w.new = req[r].new /\ w.at = "respond"),
         Local(w), Facts(w, db'),
         Sweeping(r)'
  PROVE  IInv'
<1>1. /\ req' \in [Reqs -> Work] /\ req'[r] = w
      /\ \A s \in Reqs : s # r => req'[s] = req[s]
  BY PutOne DEF IInv
<1>2. ASSUME NEW y \in Rows, lock[y] = r
      PROVE  lock'[y] = NoReq /\ db'[y] = cur'[y] /\ db'[y] \in {db[y], cur[y]}
  BY <1>2 DEF Free, Stored, Rollback
<1>12. ASSUME NEW y \in Rows, lock[y] # r
      PROVE  lock'[y] = lock[y] /\ db'[y] = db[y] /\ cur'[y] = cur[y]
  BY <1>12 DEF Free, Stored, Rollback
<1>3. Grow(db, db')
  BY StoredGrows DEF Rollback
<1>4. TypeOK'
  <2>1. db' \in [Rows -> Row] /\ cur' \in [Rows -> Row]
    BY DEF IInv, TypeOK, Stored, Rollback
  <2>2. lock' \in [Rows -> Reqs \cup {NoReq}]
    BY DEF IInv, TypeOK, Free
  <2> QED
    BY <1>1, <2>1, <2>2 DEF IInv, TypeOK
<1>5. RowsPart'
  <2>1. ASSUME NEW y \in Rows PROVE Moves(y, db'[y].st, cur'[y].st)
    <3>1. Moves(y, db[y].st, cur[y].st) /\ Moves(y, db[y].st, db[y].st) /\ Moves(y, cur[y].st, cur[y].st)
      BY DEF IInv, RowsPart, Grow, Moves
    <3>2. CASE lock[y] = r
      BY <1>2, <3>1, <3>2
    <3>3. CASE lock[y] # r
      BY <1>12, <3>1, <3>3
    <3> QED
      BY <3>2, <3>3
  <2>2. ASSUME NEW u \in Admins PROVE db'[u].st \notin Disabled
    <3>1. u \in Rows
      BY NamesAssumption DEF Rows, Accounts
    <3> QED
      BY <1>3, <3>1 DEF IInv, RowsPart, Grow, Moves
  <2>3. \A y \in Credentials : db'[y].st \in CredentialStates
    BY <1>3 DEF Grow, Moves, Rows
  <2> QED
    BY <2>1, <2>2, <2>3 DEF RowsPart, Grow
<1>6. OwnPart'
  <2> SUFFICES ASSUME NEW y \in Rows
               PROVE  IF lock'[y] = NoReq THEN cur'[y] = db'[y]
                      ELSE /\ Holder(req'[lock'[y]])
                           /\ y \in Credentials => cur'[y].st # "none"
                           /\ y \in Counters =>
                                /\ Kind[y] # "unknown"
                                /\ \/ req'[lock'[y]].at = "count"
                                   \/ req'[lock'[y]].at = "respond" /\ req'[lock'[y]].status >= 400
    BY DEF OwnPart
  <2>1. lock[y] \in Reqs \cup {NoReq}
    BY DEF IInv, TypeOK
  <2>2. CASE lock[y] = r
    BY <1>2, <2>2
  <2>3. CASE lock[y] # r
    BY <1>1, <1>12, <2>1, <2>3 DEF IInv, OwnPart
  <2> QED
    BY <2>2, <2>3
<1>7. ReqPart'
  <2> SUFFICES ASSUME NEW s \in Reqs, s # r PROVE Local(req'[s]) /\ Facts(req'[s], db')
    BY <1>1 DEF ReqPart
  <2>1. req[s] \in Work /\ Local(req[s]) /\ Facts(req[s], db)
    BY DEF IInv, TypeOK, ReqPart
  <2> QED
    BY <1>1, <1>3, <2>1, FactsStable
<1>8. NewPart'
  <2>1. \A s, t \in Reqs : s # t => req'[s].new \cap req'[t].new = {}
    BY <1>1 DEF IInv, NewPart
  <2>2. ASSUME NEW s \in Reqs, req'[s].at # "respond", NEW y \in req'[s].new
        PROVE  cur'[y].st = "none" /\ lock'[y] = NoReq
    <3>1. s # r
      BY <1>1, <2>2
    <3>2. req[s].at # "respond" /\ y \in req[s].new /\ y \in Rows
      BY <1>1, <2>2, <3>1 DEF IInv, TypeOK, Work, Rows
    <3>3. cur[y].st = "none" /\ lock[y] = NoReq
      BY <3>2 DEF IInv, NewPart
    <3>4. lock[y] # r
      BY <3>3, NamesAssumption
    <3> QED
      BY <1>12, <3>2, <3>3, <3>4
  <2> QED
    BY <2>1, <2>2 DEF NewPart
<1>9. GrantPart'
  <2> SUFFICES ASSUME NEW y \in Credentials, lock'[y] # NoReq, db'[y].st = "none"
               PROVE  Entitled(req'[lock'[y]], y)
    BY DEF GrantPart
  <2>1. y \in Rows
    BY DEF Rows
  <2>4. lock[y] # r
    BY <1>2, <2>1
  <2>2. lock'[y] = lock[y] /\ db'[y] = db[y] /\ lock[y] \in Reqs
    BY <1>12, <2>1, <2>4 DEF IInv, TypeOK
  <2>3. Entitled(req[lock[y]], y)
    BY <2>2 DEF IInv, GrantPart
  <2>5. req'[lock'[y]] = req[lock[y]]
    BY <1>1, <2>2, <2>4
  <2> QED
    BY <2>3, <2>5
<1>10. SweepPart'
  <2> SUFFICES ASSUME NEW s \in Reqs, s # r PROVE Sweeping(s)'
    BY DEF SweepPart
  <2>1. ASSUME NEW y \in Credentials, Out(s, y) PROVE Out(s, y)'
    <3>1. y \in Rows
      BY DEF Rows
    <3>2. db[y].st \in Dead => db'[y].st \in Dead
      BY <1>3, <3>1 DEF Grow, Moves
    <3>3. lock[y] = s => lock'[y] = s /\ cur'[y] = cur[y]
      BY <1>12, <3>1
    <3> QED
      BY <2>1, <3>2, <3>3 DEF Out
  <2> QED
    BY <1>1, <2>1, SweepStays
<1>11. CountPart'
  <2>1. ASSUME NEW c \in Counters PROVE db'[c] = db[c]
    <3>1. c \in Rows
      BY DEF Rows
    <3>2. lock[c] = r => req[r].at = "count" \/ (req[r].at = "respond" /\ req[r].status >= 400)
      BY <3>1, NamesAssumption DEF IInv, OwnPart
    <3>3. req[r].status \in Nat
      BY DEF IInv, TypeOK, Work, AnswerStatuses
    <3> QED
      BY <1>12, <3>1, <3>2, <3>3 DEF Rollback
  <2> QED
    BY <1>1, <2>1 DEF IInv, CountPart, LocksAreEarned, At
<1> QED
  BY <1>4, <1>5, <1>6, <1>7, <1>8, <1>9, <1>10, <1>11 DEF IInv

\* A counter written outside a transaction: seen at once.
LEMMA CounterInv ==
  ASSUME IInv, NEW c \in Counters, lock[c] = NoReq, Kind[c] = "unknown",
         NEW row \in Row, db' = Put(db, c, row), cur' = Put(cur, c, row), UNCHANGED <<lock, menu>>,
         tries' \in Nat, tries <= tries', row.n <= tries', row.st = "locked" => tries' >= Threshold,
         req' \in [Reqs -> Work],
         \A s \in Reqs :
           \/ req'[s] = req[s]
           \/ /\ req[s].at \in {"make", "count"} /\ req'[s].at \in {"count", "respond"}
              /\ req[s].op = "unknown" /\ req'[s].op = "unknown" /\ req'[s].new = req[s].new
              /\ Local(req'[s]) /\ Facts(req'[s], db)
              /\ req'[s].at = "count" => req'[s].n <= tries'
  PROVE  IInv'
<1>1. c \in Rows /\ c \notin Credentials /\ c \notin Users /\ c \notin Admins
  BY NamesAssumption DEF Rows, Accounts
<1>2. \A y \in Rows : y # c => db'[y] = db[y] /\ cur'[y] = cur[y]
  BY DEF IInv, TypeOK, Put
<1>3. db'[c] = row /\ cur'[c] = row
  BY <1>1 DEF IInv, TypeOK, Put
<1>4. Grow(db, db') /\ Grow(db', cur')
  <2>1. ASSUME NEW y \in Rows PROVE Moves(y, db[y].st, db'[y].st) /\ Moves(y, db'[y].st, cur'[y].st)
    BY <1>1, <1>2, <1>3 DEF IInv, RowsPart, Grow, Moves
  <2> QED
    BY <2>1 DEF Grow
<1>5. TypeOK'
  BY <1>1 DEF IInv, TypeOK, Put
<1>6. RowsPart'
  BY <1>1, <1>2, <1>4, NamesAssumption DEF IInv, RowsPart, Rows, Accounts
<1>7. \A y \in Rows : lock[y] # NoReq => req'[lock[y]] = req[lock[y]]
  <2> SUFFICES ASSUME NEW y \in Rows, lock[y] # NoReq, req'[lock[y]] # req[lock[y]] PROVE FALSE
    OBVIOUS
  <2>1. lock[y] \in Reqs
    BY DEF IInv, TypeOK
  <2>2. req[lock[y]].at \in {"make", "count"} /\ req[lock[y]].op = "unknown"
    BY <2>1
  <2> QED
    BY <2>2 DEF IInv, OwnPart, Holder, Holding
<1>8. OwnPart'
  <2> SUFFICES ASSUME NEW y \in Rows
               PROVE  IF lock[y] = NoReq THEN cur'[y] = db'[y]
                      ELSE /\ Holder(req'[lock[y]])
                           /\ y \in Credentials => cur'[y].st # "none"
                           /\ y \in Counters =>
                                /\ Kind[y] # "unknown"
                                /\ \/ req'[lock[y]].at = "count"
                                   \/ req'[lock[y]].at = "respond" /\ req'[lock[y]].status >= 400
    BY DEF OwnPart
  <2> QED
    BY <1>1, <1>2, <1>3, <1>7 DEF IInv, OwnPart
<1>9. ReqPart'
  <2> SUFFICES ASSUME NEW s \in Reqs PROVE Local(req'[s]) /\ Facts(req'[s], db')
    BY DEF ReqPart
  <2>1. req'[s] \in Work /\ Local(req'[s]) /\ Facts(req'[s], db)
    BY DEF IInv, ReqPart
  <2> QED
    BY <1>4, <2>1, FactsStable
<1>10. NewPart'
  <2>1. \A s \in Reqs : req'[s].new = req[s].new /\ (req'[s].at # "respond" => req[s].at # "respond")
    OBVIOUS
  <2>2. \A s \in Reqs : \A y \in req[s].new : y \in Rows /\ y # c
    BY <1>1 DEF IInv, TypeOK, Work, Rows
  <2> QED
    BY <1>2, <2>1, <2>2 DEF IInv, NewPart
<1>11. GrantPart'
  <2> SUFFICES ASSUME NEW y \in Credentials, lock[y] # NoReq, db'[y].st = "none"
               PROVE  Entitled(req'[lock[y]], y)
    BY DEF GrantPart
  <2>1. y \in Rows /\ y # c
    BY <1>1 DEF Rows
  <2> QED
    BY <1>2, <1>7, <2>1 DEF IInv, GrantPart
<1>12. SweepPart'
  <2> SUFFICES ASSUME NEW s \in Reqs PROVE Sweeping(s)'
    BY DEF SweepPart
  <2>1. CASE req'[s] = req[s]
    <3>1. ASSUME NEW y \in Credentials, Out(s, y) PROVE Out(s, y)'
      <4>1. y \in Rows /\ y # c
        BY <1>1 DEF Rows
      <4> QED
        BY <1>2, <3>1, <4>1 DEF Out
    <3> QED
      BY <2>1, <3>1, SweepStays
  <2>2. CASE req'[s].op = "unknown" /\ req'[s].at \in {"count", "respond"}
    BY <2>2 DEF Sweeping, At, OutBut, Promised
  <2> QED
    BY <2>1, <2>2
<1>13. CountPart'
  <2>1. ASSUME NEW k \in Counters
        PROVE  /\ db'[k].st # "none" => Kind[k] = "unknown" /\ db'[k].n <= tries'
               /\ db'[k].st = "locked" => tries' >= Threshold
    <3>1. CASE k = c
      BY <1>3, <3>1
    <3>2. CASE k # c
      <4>1. db'[k] = db[k] /\ db[k].n \in Nat /\ tries \in Nat /\ Threshold \in Nat
        BY <1>2, <3>2, BoundAssumption DEF IInv, TypeOK, Row, Rows
      <4> QED
        BY <4>1 DEF IInv, CountPart, LocksAreEarned
    <3> QED
      BY <3>1, <3>2
  <2>2. \A s \in Reqs : req'[s].at = "count" /\ req'[s].op = "unknown" => req'[s].n <= tries'
    <3> SUFFICES ASSUME NEW s \in Reqs, req'[s].at = "count", req'[s].op = "unknown"
                 PROVE  req'[s].n <= tries'
      OBVIOUS
    <3>1. CASE req'[s] = req[s]
      <4>1. req[s].n \in Nat /\ tries \in Nat /\ req[s].n <= tries
        BY <3>1 DEF IInv, TypeOK, Work, CountPart, At
      <4> QED
        BY <3>1, <4>1
    <3> QED
      BY <3>1
  <2> QED
    BY <2>1, <2>2 DEF CountPart, LocksAreEarned, At
<1> QED
  BY <1>5, <1>6, <1>8, <1>9, <1>10, <1>11, <1>12, <1>13 DEF IInv

(***************************************************************************)
(* Steps that read or answer                                               *)
(***************************************************************************)

\* What a step of a handler leaves alone in its record.
Same(w, v) == w.op = v.op /\ w.who = v.who /\ w.x = v.x /\ w.new = v.new /\ w.began = v.began

LEMMA AnswerIs ==
  ASSUME TypeOK, NEW r \in Reqs, NEW status \in AnswerStatuses
  PROVE  \E w \in Work : /\ Answer(r, status) = Put(req, r, w) /\ Same(w, req[r])
                         /\ w.at = "respond" /\ w.status = status /\ w.phase = req[r].phase
<1>1. PICK w : w = [req[r] EXCEPT !.at = "respond", !.status = status]
  OBVIOUS
<1>2. req[r] \in Work
  BY DEF TypeOK
<1>3. w \in Work
  BY <1>1, <1>2 DEF Work, Places
<1>4. Answer(r, status) = Put(req, r, w)
  BY <1>1 DEF Answer, Put, TypeOK
<1>5. Same(w, req[r]) /\ w.at = "respond" /\ w.status = status /\ w.phase = req[r].phase
  BY <1>1, <1>2 DEF Work, Same
<1> QED
  BY <1>3, <1>4, <1>5

LEMMA AnswerPuts ==
  ASSUME TypeOK, NEW r \in Reqs, NEW status \in AnswerStatuses, req' = Answer(r, status)
  PROVE  \E w \in Work : /\ req' = Put(req, r, w) /\ Same(w, req[r])
                         /\ w.at = "respond" /\ w.status = status /\ w.phase = req[r].phase
BY AnswerIs

\* A handler that is neither sweeping nor about to answer for a sweep.
LEMMA Unswept ==
  ASSUME NEW r \in Reqs, NEW w, req'[r] = w, w.at \notin {"scan", "sweep", "drop"},
         w.at = "respond" /\ w.op \in Sweepers =>
           IF w.op = "refresh" THEN w.status # 401 \/ w.phase = "none" ELSE w.status # 200
  PROVE  Sweeping(r)'
<1>1. Swept(r)' => Promised(r)' = {}
  BY DEF Swept, Promised, Sweepers, At
<1> QED
  BY <1>1 DEF Sweeping, OutBut, At

LEMMA AnswerInv ==
  ASSUME IInv, NEW r \in Reqs, NEW status \in AnswerStatuses, req' = Answer(r, status), UNCHANGED Kept,
         req[r].at \notin {"idle", "count", "respond"},
         req[r].op \in Sweepers =>
           IF req[r].op = "refresh" THEN status # 401 \/ req[r].phase = "none" ELSE status # 200
  PROVE  IInv'
<1>1. PICK w \in Work : /\ req' = Put(req, r, w) /\ Same(w, req[r])
                       /\ w.at = "respond" /\ w.status = status /\ w.phase = req[r].phase
  BY AnswerPuts DEF IInv
<1>2. req[r] \in Work /\ Local(req[r]) /\ Facts(req[r], db)
  BY DEF IInv, TypeOK, ReqPart
<1>5. req'[r] = w
  BY <1>1, PutOne DEF IInv
<1>7. Local(w)
  BY <1>1, <1>2 DEF Local, Same
<1>8. Facts(w, db)
  BY <1>1, <1>2 DEF Facts, Same
<1>9. Sweeping(r)'
  BY <1>1, <1>5, Unswept DEF Same
<1> QED
  BY <1>1, <1>7, <1>8, <1>9, QuietInv DEF Same

\* What a request for op on account acc brings along, for a credential x.
Drawn(op, acc) == {CHOOSE y \in Unused(S, acc) : TRUE : S \in Creates(op)}
Since(op, acc) ==
  [y \in Accounts \cup Credentials |-> IF Matters(op, acc, y) THEN db[y].st ELSE "none"]
Arrival(op, acc, x, new, began) ==
  [NoWork EXCEPT !.op = op, !.who = acc, !.x = x, !.at = FirstPlace(op),
     !.tx = IF FirstPlace(op) = "account" THEN "open" ELSE "none",
     !.new = new, !.began = began]

LEMMA BeginInv ==
  ASSUME IInv, NEW r \in Reqs, Begin(r)
  PROVE  IInv'
<1>1. PICK op \in Ops, a \in Accounts :
        /\ a \in About(op)
        /\ \A S \in Creates(op) : Unused(S, a) # {}
        /\ \E x \in Named(op, a) :
             req' = [req EXCEPT ![r] = Arrival(op, a, x, Drawn(op, a), Since(op, a))]
  BY Zenon DEF Begin, Arrival, Drawn, Since
<1>2. PICK x \in Named(op, a) : req' = [req EXCEPT ![r] = Arrival(op, a, x, Drawn(op, a), Since(op, a))]
  BY <1>1
<1>3. PICK new, began, w : new = Drawn(op, a) /\ began = Since(op, a) /\ w = Arrival(op, a, x, new, began)
  OBVIOUS
<1>4. req' = Put(req, r, w)
  BY <1>2, <1>3 DEF Put
<1>5. /\ w.op = op /\ w.who = a /\ w.x = x /\ w.at = FirstPlace(op) /\ w.new = new /\ w.began = began
      /\ w.tx = (IF FirstPlace(op) = "account" THEN "open" ELSE "none") /\ w.phase = "none"
  BY <1>3 DEF NoWork, Arrival
<1>6. ASSUME NEW y \in new
      PROVE  y \in Credentials /\ Owner[y] = a /\ cur[y].st = "none" /\ y \notin Reserved
  <2>1. PICK S \in Creates(op) : y = CHOOSE z \in Unused(S, a) : TRUE
    BY <1>3, <1>6 DEF Drawn
  <2>2. y \in Unused(S, a)
    BY <1>1, <2>1
  <2>3. S \in {Tokens, Sessions}
    BY DEF Creates
  <2> QED
    BY <2>2, <2>3 DEF Unused, Credentials
<1>7. x \in Credentials \cup {Nothing} /\ (op = "refresh" => x \in Tokens)
      /\ (op \in {"me", "revoke"} => x \in Sessions) /\ (op = "logout" => x \in Sessions \cup {Nothing})
  BY DEF Named, TheirOwn, Credentials
<1>8. /\ FirstPlace(op) = "account" => op = "adminLogin"
      /\ FirstPlace(op) = "gate" => op \in LoginOps
      /\ FirstPlace(op) = "present" => op = "refresh"
      /\ FirstPlace(op) \in {"account", "gate", "present", "auth"}
  BY DEF FirstPlace
<1>9. \A y \in Accounts \cup Credentials : db[y].st \in States /\ began[y] \in {"none", db[y].st}
  BY <1>3 DEF IInv, TypeOK, Row, Rows, Since
<1>10. w \in Work
  <2>1. new \in SUBSET Credentials /\ began \in [Accounts \cup Credentials -> States]
    BY <1>3, <1>6, <1>9 DEF States, Since
  <2>2. FirstPlace(op) \in Places
    BY <1>8 DEF Places
  <2>3. w = [at |-> FirstPlace(op), op |-> op, who |-> a, x |-> x, new |-> new, c |-> Nothing, n |-> 0,
             phase |-> "none", todo |-> {}, status |-> 0,
             tx |-> IF FirstPlace(op) = "account" THEN "open" ELSE "none", began |-> began]
    BY <1>3 DEF Arrival, NoWork
  <2> QED
    BY <1>7, <2>1, <2>2, <2>3 DEF Work, TxStates, Phases, AnswerStatuses
<1>11. Local(w)
  <2>1. op \in LoginOps => op \notin {"refresh", "me", "revoke", "logout"}
    BY DEF LoginOps
  <2> QED
    BY <1>1, <1>5, <1>6, <1>7, <1>8, <2>1 DEF Local, LoginOps
<1>12. Facts(w, db)
  <2>1. \A y \in Credentials : began[y] # "none" => began[y] = db[y].st
    BY <1>9
  <2>2. began[a] \in Disabled => db[a].st \in Disabled
    BY <1>9 DEF Disabled
  <2> QED
    BY <1>5, <1>8, <2>1, <2>2 DEF Facts, Dead
<1>13. \A y \in w.new : cur[y].st = "none" /\ lock[y] = NoReq /\ \A s \in Reqs : y \notin req[s].new
  <2> SUFFICES ASSUME NEW y \in new
               PROVE  cur[y].st = "none" /\ lock[y] = NoReq /\ \A s \in Reqs : y \notin req[s].new
    BY <1>5
  <2>1. y \in Credentials /\ y \in Rows /\ cur[y].st = "none" /\ y \notin Reserved
    BY <1>6 DEF Rows
  <2> QED
    BY <2>1 DEF IInv, OwnPart, Reserved
<1>14. Sweeping(r)'
  <2>1. req'[r] = w
    BY <1>4, <1>10, PutOne DEF IInv
  <2> QED
    BY <1>5, <1>8, <2>1, Unswept
<1>15. req[r].at = "idle" /\ UNCHANGED Kept
  BY DEF Begin, At
<1> QED
  BY <1>4, <1>5, <1>8, <1>10, <1>11, <1>12, <1>13, <1>14, <1>15, QuietInv

Early == {"gate", "account", "find", "present", "holder", "auth", "read"}

LEMMA MoveInv ==
  ASSUME IInv, NEW r \in Reqs, NEW w \in Work, req' = Put(req, r, w), UNCHANGED Kept,
         Same(w, req[r]), req[r].at \in Early, w.at \notin {"respond", "sweep", "drop"},
         w.at = "scan" /\ w.op = "terminate" => w.phase # "tokens",
         Local(w), Facts(w, db),
         w.at = "count" /\ w.op = "unknown" => w.n <= tries
  PROVE  IInv'
<1>1. req'[r] = w
  BY PutOne DEF IInv
<1>2. Sweeping(r)'
  BY <1>1 DEF Sweeping, Swept, At
<1> QED
  BY <1>2, QuietInv DEF Same, Early

LEMMA GateInv ==
  ASSUME IInv, NEW r \in Reqs, Gate(r)
  PROVE  IInv'
<1>1. req[r] \in Work /\ Local(req[r]) /\ Facts(req[r], db) /\ req[r].at = "gate" /\ UNCHANGED Kept
  BY DEF IInv, TypeOK, ReqPart, Gate, At
<1>2. CASE req' = Answer(r, 429)
  BY <1>1, <1>2, AnswerInv DEF AnswerStatuses, Local, LoginOps, Sweepers
<1>3. ASSUME NEW w, req' = Put(req, r, w),
             \/ req[r].op = "unknown" /\ w = [req[r] EXCEPT !.at = "find"]
             \/ req[r].op # "unknown" /\ w = [req[r] EXCEPT !.at = "account", !.tx = "open"]
      PROVE  IInv'
  <2>1. /\ w \in Work /\ Same(w, req[r])
        /\ \/ req[r].op = "unknown" /\ w.at = "find" /\ w.tx = req[r].tx
           \/ req[r].op # "unknown" /\ w.at = "account" /\ w.tx = "open"
    <3>1. CASE req[r].op = "unknown" /\ w = [req[r] EXCEPT !.at = "find"]
      BY <1>1, <3>1 DEF Work, Places, Same
    <3>2. CASE req[r].op # "unknown" /\ w = [req[r] EXCEPT !.at = "account", !.tx = "open"]
      BY ZenonT(30), <1>1, <3>2 DEF Work, Places, TxStates, Same
    <3> QED
      BY <1>3, <3>1, <3>2
  <2>2. Local(w) /\ Facts(w, db)
    BY <1>1, <2>1 DEF Local, Facts, Same
  <2> QED
    BY <1>1, <1>3, <2>1, <2>2, MoveInv DEF Early
<1>4. CASE req[r].op = "unknown" /\ req' = Goto(r, "find")
  <2>1. req' = Put(req, r, [req[r] EXCEPT !.at = "find"])
    BY <1>4 DEF Goto, Put, IInv, TypeOK
  <2> QED
    BY <1>3, <1>4, <2>1
<1>5. CASE req[r].op # "unknown" /\ req' = [req EXCEPT ![r].at = "account", ![r].tx = "open"]
  <2>1. req' = Put(req, r, [req[r] EXCEPT !.at = "account", !.tx = "open"])
    BY <1>5 DEF Put, IInv, TypeOK
  <2> QED
    BY <1>3, <1>5, <2>1
<1> QED
  BY <1>2, <1>4, <1>5 DEF Gate

LEMMA FindCounterInv ==
  ASSUME IInv, NEW r \in Reqs, FindCounter(r)
  PROVE  IInv'
<1>1. req[r] \in Work /\ Local(req[r]) /\ Facts(req[r], db) /\ req[r].at = "find" /\ UNCHANGED Kept
  <2>1. req[r].at = "find" /\ UNCHANGED Kept
    BY Zenon DEF FindCounter, At
  <2> QED
    BY <2>1 DEF IInv, TypeOK, ReqPart
<1>2. CASE req' = Goto(r, "make")
  <2>1. PICK w : w = [req[r] EXCEPT !.at = "make"]
    OBVIOUS
  <2>2. req' = Put(req, r, w)
    BY <1>2, <2>1 DEF Goto, Put, IInv, TypeOK
  <2>3. w \in Work /\ Same(w, req[r]) /\ w.at = "make" /\ w.tx = req[r].tx
    BY <1>1, <2>1 DEF Work, Places, Same
  <2>4. Local(w) /\ Facts(w, db)
    BY <1>1, <2>3 DEF Local, Facts, Same
  <2> QED
    BY <1>1, <2>2, <2>3, <2>4, MoveInv DEF Early
<1>3. ASSUME NEW c \in CountersOf(r), req' = [req EXCEPT ![r].c = c, ![r].n = db[c].n, ![r].at = "count"],
             db[c].st # "none"
      PROVE  IInv'
  <2>1. PICK w : w = [req[r] EXCEPT !.c = c, !.n = db[c].n, !.at = "count"]
    OBVIOUS
  <2>2. req' = Put(req, r, w)
    BY <1>3, <2>1 DEF Put, IInv, TypeOK
  <2>3. c \in Counters /\ Kind[c] = KindOf(req[r].op) /\ db[c].n \in Nat
    BY DEF CountersOf, IInv, TypeOK, Row, Rows
  <2>4. w \in Work /\ Same(w, req[r]) /\ w.at = "count" /\ w.tx = req[r].tx /\ w.c = c /\ w.n = db[c].n
    BY <1>1, <2>1, <2>3 DEF Work, Places, Same
  <2>5. Local(w) /\ Facts(w, db)
    BY <1>1, <2>3, <2>4 DEF Local, Facts, Same
  <2>6. w.n <= tries
    BY <1>3, <2>3, <2>4 DEF IInv, CountPart, LocksAreEarned
  <2> QED
    BY <1>1, <2>2, <2>4, <2>5, <2>6, MoveInv DEF Early
<1>4. \/ req' = Goto(r, "make")
      \/ \E c \in CountersOf(r) : /\ db[c].st # "none"
                                 /\ req' = [req EXCEPT ![r].c = c, ![r].n = db[c].n, ![r].at = "count"]
  BY Zenon DEF FindCounter
<1> QED
  BY Zenon, <1>2, <1>3, <1>4

\* A login that fails goes on to the counter.
LEMMA FailInv ==
  ASSUME IInv, NEW r \in Reqs, req[r].at = "account", Fail(r)
  PROVE  IInv'
<1>1. req[r] \in Work /\ Local(req[r]) /\ Facts(req[r], db) /\ UNCHANGED Kept
  BY DEF IInv, TypeOK, ReqPart, Fail
<1>2. PICK w : w = [req[r] EXCEPT !.at = "find"]
  OBVIOUS
<1>3. req' = Put(req, r, w)
  BY <1>2 DEF Fail, Goto, Put, IInv, TypeOK
<1>4. w \in Work /\ Same(w, req[r]) /\ w.at = "find" /\ w.tx = req[r].tx
  BY <1>1, <1>2 DEF Work, Places, Same
<1>5. Local(w) /\ Facts(w, db)
  BY <1>1, <1>4 DEF Local, Facts, Same
<1> QED
  BY <1>1, <1>3, <1>4, <1>5, MoveInv DEF Early

LEMMA PresentInv ==
  ASSUME IInv, NEW r \in Reqs, Present(r)
  PROVE  IInv'
<1>1. req[r] \in Work /\ Local(req[r]) /\ Facts(req[r], db) /\ req[r].at = "present" /\ UNCHANGED Kept
  BY DEF IInv, TypeOK, ReqPart, Present, At
<1>2. PICK w : w = IF db[req[r].x].st = "live" THEN [req[r] EXCEPT !.at = "holder", !.tx = "open"]
                   ELSE [req[r] EXCEPT !.at = "scan", !.phase = "tokens"]
  OBVIOUS
<1>3. req' = Put(req, r, w)
  BY <1>2 DEF Present, Put, IInv, TypeOK
<1>4. /\ w \in Work /\ Same(w, req[r])
      /\ \/ db[req[r].x].st = "live" /\ w.at = "holder" /\ w.phase = req[r].phase
         \/ w.at = "scan" /\ w.phase = "tokens"
  BY <1>1, <1>2, ZenonT(60) DEF Work, Places, Phases, TxStates, Same
<1>5. Local(w)
  BY <1>1, <1>4 DEF Local, Same, Sweepers
<1>6. Facts(w, db)
  BY <1>1, <1>4 DEF Local, Facts, Same, Dead, Credentials
<1>7. w.op = "refresh"
  BY <1>1, <1>4 DEF Local, Same
<1> QED
  BY <1>1, <1>3, <1>4, <1>5, <1>6, <1>7, MoveInv DEF Early

LEMMA CheckHolderInv ==
  ASSUME IInv, NEW r \in Reqs, CheckHolder(r)
  PROVE  IInv'
<1>1. req[r] \in Work /\ Local(req[r]) /\ Facts(req[r], db) /\ req[r].at = "holder" /\ UNCHANGED Kept
  BY DEF IInv, TypeOK, ReqPart, CheckHolder, At
<1>2. req[r].op = "refresh" /\ req[r].phase = "none" /\ req[r].who \in Users
  BY <1>1 DEF Local, About
<1>3. CASE req' = Answer(r, 401)
  BY <1>1, <1>2, <1>3, AnswerInv DEF AnswerStatuses
<1>4. CASE db[req[r].who].st = "active" /\ req' = Goto(r, "rotate")
  <2>1. PICK w : w = [req[r] EXCEPT !.at = "rotate"]
    OBVIOUS
  <2>2. req' = Put(req, r, w)
    BY <1>4, <2>1 DEF Goto, Put, IInv, TypeOK
  <2>3. w \in Work /\ Same(w, req[r]) /\ w.at = "rotate" /\ w.phase = "none"
    BY <1>1, <1>2, <2>1 DEF Work, Places, Same
  <2>4. Local(w)
    BY <1>1, <1>2, <2>3 DEF Local, Same
  <2>5. Facts(w, db)
    BY <1>1, <1>2, <1>4, <2>3 DEF Facts, Same, Disabled
  <2> QED
    BY <1>1, <2>2, <2>3, <2>4, <2>5, MoveInv DEF Early
<1> QED
  BY <1>3, <1>4 DEF CheckHolder

LEMMA UserAuthInv ==
  ASSUME IInv, NEW r \in Reqs, UserAuth(r)
  PROVE  IInv'
<1>1. req[r] \in Work /\ Local(req[r]) /\ Facts(req[r], db) /\ UNCHANGED Kept
      /\ req[r].at = "auth" /\ req[r].op \in {"logout", "me"}
  BY DEF IInv, TypeOK, ReqPart, UserAuth, At, PlayerOps
<1>2. \A status \in {401, 403} : req' = Answer(r, status) => IInv'
  BY <1>1, AnswerInv DEF AnswerStatuses
<1>3. ASSUME req' = [req EXCEPT ![r].at = AuthPlace(req[r].op), ![r].tx = "open",
                            ![r].phase = IF req[r].op # "logout" THEN "none"
                                         ELSE IF req[r].x = Nothing THEN "sessions" ELSE "named"]
      PROVE  IInv'
  <2>1. PICK w : w = [req[r] EXCEPT !.at = AuthPlace(req[r].op), !.tx = "open",
                            !.phase = IF req[r].op # "logout" THEN "none"
                                      ELSE IF req[r].x = Nothing THEN "sessions" ELSE "named"]
    OBVIOUS
  <2>2. req' = Put(req, r, w)
    BY <1>3, <2>1 DEF Put, IInv, TypeOK
  <2>3. /\ w \in Work /\ Same(w, req[r])
        /\ \/ req[r].op = "me" /\ w.at = "read"
           \/ req[r].op = "logout" /\ w.at = "scan" /\ req[r].x = Nothing /\ w.phase = "sessions"
           \/ req[r].op = "logout" /\ w.at = "scan" /\ req[r].x # Nothing /\ w.phase = "named"
    <3>1. CASE req[r].op = "me"
      BY <1>1, <2>1, <3>1, ZenonT(60) DEF Work, Places, Phases, TxStates, Same, AuthPlace
    <3>2. CASE req[r].op = "logout"
      BY ZenonT(30), <1>1, <2>1, <3>2 DEF Work, Places, Phases, TxStates, Same, AuthPlace
    <3> QED
      BY <1>1, <3>1, <3>2
  <2>4. Local(w)
    BY <1>1, <2>3 DEF Local, Same, Sweepers
  <2>5. Facts(w, db)
    BY <1>1, <2>3 DEF Facts, Same
  <2> QED
    BY <1>1, <2>2, <2>3, <2>4, <2>5, MoveInv DEF Early, Same
<1> QED
  BY <1>2, <1>3 DEF UserAuth

LEMMA StaffAuthInv ==
  ASSUME IInv, NEW r \in Reqs, StaffAuth(r)
  PROVE  IInv'
<1>1. req[r] \in Work /\ Local(req[r]) /\ Facts(req[r], db) /\ UNCHANGED Kept
      /\ req[r].at = "auth" /\ req[r].op \in StaffOps
  BY DEF IInv, TypeOK, ReqPart, StaffAuth, At
<1>2. CASE req' = Answer(r, 403)
  BY <1>1, <1>2, AnswerInv DEF AnswerStatuses, StaffOps
<1>3. CASE req' = [req EXCEPT ![r].at = AuthPlace(req[r].op), ![r].tx = "open"]
  <2>1. PICK w : w = [req[r] EXCEPT !.at = AuthPlace(req[r].op), !.tx = "open"]
    OBVIOUS
  <2>2. req' = Put(req, r, w)
    BY <1>3, <2>1 DEF Put, IInv, TypeOK
  <2>3. AuthPlace(req[r].op) = IF req[r].op = "terminate" THEN "deactivate" ELSE "read"
    BY <1>1 DEF AuthPlace, StaffOps
  <2>4. /\ w \in Work /\ Same(w, req[r])
        /\ w.at = IF req[r].op = "terminate" THEN "deactivate" ELSE "read"
    BY <1>1, <2>1, <2>3 DEF Work, Places, TxStates, Same
  <2>5. Local(w)
    BY <1>1, <2>4 DEF Local, Same
  <2>6. Facts(w, db)
    BY <1>1, <2>4 DEF Facts, Same
  <2> QED
    BY <1>1, <2>2, <2>4, <2>5, <2>6, MoveInv DEF Early
<1> QED
  BY <1>2, <1>3 DEF StaffAuth

LEMMA ReadRowInv ==
  ASSUME IInv, NEW r \in Reqs, ReadRow(r)
  PROVE  IInv'
<1>1. req[r] \in Work /\ Local(req[r]) /\ Facts(req[r], db)
  BY DEF IInv, TypeOK, ReqPart
<1>2. req[r].at = "read" /\ UNCHANGED Kept
  BY DEF ReadRow, At
<1>3. \/ /\ \E status \in {200, 400, 404, 409} : req' = Answer(r, status)
         /\ req[r].op \in {"me", "revoke", "delete", "create", "patch"}
         /\ req[r].op = "delete" => req' \in {Answer(r, 400), Answer(r, 404)}
      \/ req[r].op = "me" /\ req' = Goto(r, "touch") /\ db[req[r].x].st = "live"
      \/ req[r].op = "revoke" /\ req' = Goto(r, "save") /\ db[req[r].x].st \in {"live", "revoked"}
      \/ req[r].op \in {"create", "patch"} /\ req' = Goto(r, "save")
      \/ req[r].op = "delete" /\ req' = [req EXCEPT ![r].at = "scan", ![r].phase = "sessions"]
  BY SMTT(30) DEF ReadRow
<1>4. ASSUME NEW status \in {200, 400, 404, 409}, req' = Answer(r, status),
             req[r].op \in {"me", "revoke", "delete", "create", "patch"},
             req[r].op = "delete" => status # 200
      PROVE  IInv'
  BY <1>1, <1>2, <1>4, AnswerInv DEF AnswerStatuses, Sweepers
<1>5. ASSUME NEW place \in {"touch", "save"}, req' = Goto(r, place),
             place = "touch" => req[r].op = "me" /\ db[req[r].x].st # "none",
             place = "save" => req[r].op \in {"revoke", "create", "patch"},
             place = "save" /\ req[r].op = "revoke" => db[req[r].x].st # "none"
      PROVE  IInv'
  <2>1. PICK w : w = [req[r] EXCEPT !.at = place]
    OBVIOUS
  <2>2. req' = Put(req, r, w)
    BY <1>5, <2>1 DEF Goto, Put, IInv, TypeOK
  <2>3. w \in Work /\ Same(w, req[r]) /\ w.at = place
    BY <1>1, <2>1 DEF Work, Places, Same
  <2>4. Local(w)
    BY <1>1, <1>2, <1>5, <2>3 DEF Local, Same
  <2>5. Facts(w, db)
    BY <1>1, <1>5, <2>3 DEF Facts, Same
  <2> QED
    BY <1>2, <2>2, <2>3, <2>4, <2>5, MoveInv DEF Early
<1>6. ASSUME req[r].op = "delete", req' = [req EXCEPT ![r].at = "scan", ![r].phase = "sessions"]
      PROVE  IInv'
  <2>1. PICK w : w = [req[r] EXCEPT !.at = "scan", !.phase = "sessions"]
    OBVIOUS
  <2>2. req' = Put(req, r, w)
    BY <1>6, <2>1 DEF Put, IInv, TypeOK
  <2>3. w \in Work /\ Same(w, req[r]) /\ w.at = "scan" /\ w.phase = "sessions"
    BY <1>1, <2>1 DEF Work, Places, Phases, Same
  <2>4. w.op = "delete"
    BY <1>6, <2>3 DEF Same
  <2>5. Local(w)
    BY <1>1, <1>2, <1>6, <2>3, <2>4 DEF Local, Same, Sweepers
  <2>6. Facts(w, db)
    BY <1>1, <2>3 DEF Facts, Same
  <2> QED
    BY <1>2, <2>2, <2>3, <2>4, <2>5, <2>6, MoveInv DEF Early
<1> QED
  BY <1>3, <1>4, <1>5, <1>6

(***************************************************************************)
(* Steps that write                                                        *)
(***************************************************************************)

\* One row written, and the answer.
LEMMA WriteOneInv ==
  ASSUME IInv, NEW r \in Reqs, NEW y \in Rows, y \notin Counters, NEW row \in Row,
         NEW status \in {200, 201}, Write(r, y, row, status),
         req[r].at \notin {"idle", "count", "respond"}, req[r].op # "refresh",
         Moves(y, db[y].st, row.st), y \in Credentials => db[y].st # "none",
         req[r].op \in Sweepers => y \in Accounts /\ OutBut(r, Promised(r), {})
  PROVE  IInv'
<1>2. req[r] \in Work /\ Local(req[r]) /\ Facts(req[r], db)
  BY DEF IInv, TypeOK, ReqPart
<1>12. /\ lock[y] = NoReq /\ lock' = [lock EXCEPT ![y] = r] /\ cur' = [cur EXCEPT ![y] = row]
       /\ req' = Answer(r, status) /\ UNCHANGED <<db, tries, menu>>
  BY Zenon DEF Write
<1>18. status \in AnswerStatuses /\ TypeOK
  BY DEF AnswerStatuses, IInv
<1>1. PICK w \in Work : /\ req' = Put(req, r, w) /\ Same(w, req[r])
                       /\ w.at = "respond" /\ w.status = status /\ w.phase = req[r].phase
  BY <1>12, <1>18, AnswerPuts
<1>5. req'[r] = w
  BY <1>1, PutOne DEF IInv
<1>6. Local(w) /\ Facts(w, db)
  BY <1>2, <1>1 DEF Local, Facts, Same
<1>13. lock \in [Rows -> Reqs \cup {NoReq}] /\ cur \in [Rows -> Row]
  BY DEF IInv, TypeOK
<1>14. lock' = [z \in Rows |-> IF z \in {y} THEN r ELSE lock[z]]
  BY ONLY <1>12, <1>13, y \in Rows, row \in Row
<1>15. cur' \in [Rows -> Row] /\ cur'[y] = row /\ \A z \in Rows : z \notin {y} => cur'[z] = cur[z]
  BY ONLY <1>12, <1>13, y \in Rows, row \in Row
<1>8. \A c \in Counters : lock'[c] # r
  <2> SUFFICES ASSUME NEW c \in Counters, lock'[c] = r PROVE FALSE
    OBVIOUS
  <2>1. c \in Rows /\ lock[c] = r /\ lock[c] # NoReq
    BY <1>14, NamesAssumption DEF Rows
  <2> QED
    BY <2>1 DEF IInv, OwnPart
<1>9. Sweeping(r)'
  <2>1. CASE req[r].op \notin Sweepers
    BY <1>1, <1>5, <2>1, Unswept DEF Same
  <2>2. CASE req[r].op \in Sweepers
    <3>1. Promised(r)' = Promised(r) /\ Promised(r) \subseteq Credentials
      <4>1. req'[r].op = req[r].op /\ req'[r].who = req[r].who /\ req'[r].phase = req[r].phase
        BY <1>1, <1>5 DEF Same
      <4> QED
        BY <4>1 DEF Promised, Credentials
    <3>2. ASSUME NEW z \in Promised(r), req'[r].began[z] = "live" PROVE Out(r, z)'
      <4>1. req[r].began[z] = "live" /\ Out(r, z)
        BY <1>1, <1>5, <2>2, <3>2 DEF OutBut, Same
      <4>2. z \in Rows /\ z # y
        BY <2>2, <3>1, NamesAssumption DEF Rows
      <4> QED
        BY <1>12, <1>14, <1>15, <4>1, <4>2 DEF Out
    <3> QED
      BY <1>1, <1>5, <3>1, <3>2 DEF Sweeping, OutBut, At
  <2> QED
    BY <2>1, <2>2
<1>10. y \in Credentials => row.st # "none"
  BY DEF Moves
<1>11. Holder(w) /\ w.new = req[r].new
  BY <1>1 DEF Holder, Holding, Same
<1>16. {y} \in SUBSET Rows
  OBVIOUS
<1>17. Takes(r, {y})
  BY <1>12, <1>14, <1>15, <1>16 DEF Takes
<1>19. Allowed(r, w, {y})
  BY <1>8, <1>10, <1>12, <1>15, <1>16 DEF Allowed
<1> QED
  BY <1>1, <1>6, <1>9, <1>11, <1>16, <1>17, <1>19, WriteInv

LEMMA TouchInv ==
  ASSUME IInv, NEW r \in Reqs, Touch(r)
  PROVE  IInv'
<1>1. req[r] \in Work /\ Local(req[r]) /\ Facts(req[r], db) /\ req[r].at = "touch"
  BY DEF IInv, TypeOK, ReqPart, Touch, At
<1>2. req[r].op = "me" /\ req[r].x \in Credentials /\ req[r].x \in Rows /\ req[r].x \notin Counters
  BY <1>1, NamesAssumption DEF Local, Credentials, Rows
<1>3. Write(r, req[r].x, cur[req[r].x], 200) /\ lock[req[r].x] = NoReq
  BY DEF Touch, Write
<1>4. cur[req[r].x] = db[req[r].x] /\ cur[req[r].x] \in Row
  BY <1>2, <1>3 DEF IInv, OwnPart, TypeOK
<1>5. db[req[r].x].st # "none"
  BY <1>1 DEF Facts
<1>6. Moves(req[r].x, db[req[r].x].st, cur[req[r].x].st)
  BY <1>2, <1>4 DEF Moves, IInv, RowsPart
<1> QED
  BY <1>1, <1>2, <1>3, <1>4, <1>5, <1>6, WriteOneInv DEF Sweepers

LEMMA RevokeInv ==
  ASSUME IInv, NEW r \in Reqs, Revoke(r)
  PROVE  IInv'
<1>1. req[r] \in Work /\ Local(req[r]) /\ Facts(req[r], db) /\ req[r].at = "save" /\ req[r].op = "revoke"
  BY DEF IInv, TypeOK, ReqPart, Revoke, At
<1>2. /\ req[r].x \in Credentials /\ req[r].x \in Rows /\ req[r].x \notin Counters
      /\ req[r].x \notin Users /\ req[r].x \notin Admins
  BY <1>1, NamesAssumption DEF Local, Credentials, Rows, Accounts
<1>3. PICK row : /\ row = Is(IF cur[req[r].x].st = "gone" THEN "gone" ELSE "revoked")
                 /\ Write(r, req[r].x, row, 200)
  BY DEF Revoke
<1>4. lock[req[r].x] = NoReq /\ cur[req[r].x] = db[req[r].x]
  BY <1>2, <1>3 DEF IInv, OwnPart, Write
<1>5. db[req[r].x].st # "none"
  BY <1>1 DEF Facts
<1>6. row \in Row /\ row.st \in {"gone", "revoked"}
  BY <1>3 DEF Is, Row, States
<1>7. Moves(req[r].x, db[req[r].x].st, row.st)
  BY <1>2, <1>6 DEF Moves, Dead, CredentialStates
<1> QED
  BY <1>1, <1>2, <1>3, <1>5, <1>6, <1>7, WriteOneInv DEF Sweepers

\* A staff member may be written in any way.
LEMMA WriteStaffInv ==
  ASSUME IInv, NEW r \in Reqs, req[r].at = "save", req[r].op \in {"create", "patch"},
         NEW st \in States, NEW status \in {200, 201}, Write(r, req[r].who, Is(st), status)
  PROVE  IInv'
<1>1. Local(req[r])
  BY DEF IInv, ReqPart
<1>2. req[r].who \in Staff
  BY <1>1 DEF Local, About
<1>3. /\ req[r].who \in Rows /\ req[r].who \notin Counters /\ req[r].who \notin Credentials
      /\ req[r].who \notin Users /\ req[r].who \notin Admins
  BY <1>2, NamesAssumption DEF Rows, Accounts
<1>4. Is(st) \in Row /\ Moves(req[r].who, db[req[r].who].st, Is(st).st)
  BY <1>3 DEF Is, Row, Moves
<1> QED
  BY <1>3, <1>4, WriteOneInv DEF Sweepers

LEMMA CreateStaffInv ==
  ASSUME IInv, NEW r \in Reqs, CreateStaff(r)
  PROVE  IInv'
<1>1. req[r].at = "save" /\ req[r].op = "create"
  BY DEF CreateStaff, At
<1>2. CASE Reply(r, 500)
  BY <1>1, <1>2, AnswerInv DEF Reply, AnswerStatuses, Sweepers
<1>3. ASSUME NEW st \in {"active", "inactive"}, Write(r, req[r].who, Is(st), 201)
      PROVE  IInv'
  BY <1>1, <1>3, WriteStaffInv DEF States
<1> QED
  BY <1>2, <1>3 DEF CreateStaff

LEMMA PatchStaffInv ==
  ASSUME IInv, NEW r \in Reqs, PatchStaff(r)
  PROVE  IInv'
<1>1. req[r].at = "save" /\ req[r].op = "patch" /\ req[r].who \in Rows
  BY DEF PatchStaff, At, IInv, ReqPart, Local, About, Rows, Accounts
<1>2. PICK st \in {cur[req[r].who].st, "active", "inactive"} : Write(r, req[r].who, Is(st), 200)
  BY DEF PatchStaff
<1>3. st \in States
  BY <1>1, <1>2 DEF IInv, TypeOK, Row, States
<1> QED
  BY <1>1, <1>2, <1>3, WriteStaffInv

LEMMA DropUserInv ==
  ASSUME IInv, NEW r \in Reqs, DropUser(r)
  PROVE  IInv'
<1>1. Local(req[r]) /\ req[r].at = "drop" /\ Sweeping(r)
  BY DEF IInv, ReqPart, SweepPart, DropUser, At
<1>2. req[r].op = "delete" /\ req[r].phase = "sessions" /\ req[r].who \in Users \ Admins
  BY <1>1 DEF Local, About
<1>3. /\ req[r].who \in Rows /\ req[r].who \notin Counters /\ req[r].who \notin Credentials
      /\ req[r].who \in Accounts
  BY <1>2, NamesAssumption DEF Rows, Accounts
<1>4. Is("gone") \in Row /\ Moves(req[r].who, db[req[r].who].st, Is("gone").st)
  BY <1>2, <1>3 DEF Is, Row, States, Moves, Disabled
<1>5. OutBut(r, Promised(r), {})
  BY <1>1, <1>2 DEF Sweeping, At, Promised, OwnSessions
<1>6. Write(r, req[r].who, Is("gone"), 200)
  BY DEF DropUser
<1> QED
  BY <1>1, <1>2, <1>3, <1>4, <1>5, <1>6, WriteOneInv

(***************************************************************************)
(* Logins                                                                  *)
(***************************************************************************)

\* A user who is let in was not disabled when the request arrived, and counters have
\* nothing to clear.
LEMMA LetInInv ==
  ASSUME IInv, NEW r \in Reqs, req[r].at = "account", NEW X, NEW status \in {200, 201},
         X \subseteq req[r].new \cup {req[r].who}, LetIn(r, X, status),
         req[r].who \in X => req[r].who \in Users /\ db[req[r].who].st = "none",
         X # {} /\ req[r].who \in Users => db[req[r].who].st \notin Disabled
  PROVE  IInv'
<1> DEFINE who == req[r].who
<1>1. req[r] \in Work /\ Local(req[r]) /\ Facts(req[r], db)
  BY DEF IInv, TypeOK, ReqPart
<1>2. /\ who \in Accounts /\ req[r].op \in LoginOps \ {"unknown"} /\ req[r].new \subseteq Credentials
      /\ \A y \in req[r].new : Owner[y] = who
  BY <1>1, NamesAssumption DEF Local, About, Accounts, Work
<1>3. Cleared(r) = {}
  <2>1. KindOf(req[r].op) # "unknown"
    BY <1>2 DEF KindOf, LoginOps
  <2>2. \A c \in Counters : db[c].st # "none" => Kind[c] = "unknown"
    BY DEF IInv, CountPart, LocksAreEarned
  <2> QED
    BY <2>1, <2>2 DEF Cleared, CountersOf
<1>4. PICK tx \in {"open", "aborted"} : req' = [Answer(r, status) EXCEPT ![r].tx = tx]
  <2>1. \E tx \in IF X \cap Sessions = {} THEN {"open"} ELSE {"open", "aborted"} :
          req' = [Answer(r, status) EXCEPT ![r].tx = tx]
    BY Zenon DEF LetIn
  <2> QED
    BY <2>1
<1>15. PICK v \in Work : /\ Answer(r, status) = Put(req, r, v) /\ Same(v, req[r])
                         /\ v.at = "respond" /\ v.status = status /\ v.phase = req[r].phase
  BY AnswerIs DEF IInv, AnswerStatuses
<1>5. PICK w : w = [v EXCEPT !.tx = tx]
  OBVIOUS
<1>6. req' = Put(req, r, w)
  <2>1. PICK a : a = Answer(r, status)
    OBVIOUS
  <2>2. a = Put(req, r, v)
    BY <1>15, <2>1
  <2>3. a[r] = v /\ a \in [Reqs -> Work]
    BY <1>15, <2>2 DEF Put, IInv, TypeOK
  <2>4. req' = [a EXCEPT ![r].tx = tx]
    BY <1>4, <2>1
  <2>5. req' = Put(a, r, w)
    BY <1>5, <2>3, <2>4 DEF Put
  <2> QED
    BY <2>2, <2>5 DEF Put, IInv, TypeOK
<1>7. w \in Work /\ Same(w, req[r]) /\ w.at = "respond" /\ w.status = status /\ w.phase = req[r].phase
  <2>1. tx \in TxStates
    BY <1>4 DEF TxStates
  <2> QED
    BY <1>5, <1>15, <2>1 DEF Work, Same
<1>8. /\ \A y \in X : lock[y] = NoReq
      /\ cur' = [y \in Rows |-> IF y \in X \cap Accounts THEN Is("active")
                                ELSE IF y \in X THEN Is("live") ELSE cur[y]]
      /\ lock' = [y \in Rows |-> IF y \in X THEN r ELSE lock[y]]
      /\ UNCHANGED <<db, tries, menu>>
  BY <1>3 DEF LetIn
<1>9. X \subseteq Accounts \cup Credentials /\ X \subseteq Rows /\ X \cap Counters = {}
  BY <1>2, NamesAssumption DEF Rows
<1>10. Takes(r, X)
  <2>1. cur' \in [Rows -> Row]
    BY <1>8 DEF IInv, TypeOK, Row, States, Is
  <2> QED
    BY <1>8, <1>9, <2>1 DEF Takes
<1>11. \A y \in X \cap Credentials :
         /\ y \in req[r].new /\ cur'[y].st = "live" /\ db[y].st = "none" /\ Owner[y] = who
         /\ y \notin Accounts /\ y \notin Admins
  <2> SUFFICES ASSUME NEW y \in X \cap Credentials
               PROVE  /\ y \in req[r].new /\ cur'[y].st = "live" /\ db[y].st = "none" /\ Owner[y] = who
                      /\ y \notin Accounts /\ y \notin Admins
    OBVIOUS
  <2>1. y \in Rows /\ y \notin Accounts /\ y \notin Admins /\ y \in req[r].new
    BY <1>2, <1>9, NamesAssumption DEF Accounts
  <2>2. cur[y].st = "none" /\ cur[y] = db[y]
    BY <1>8, <2>1 DEF IInv, NewPart, OwnPart
  <2> QED
    BY <1>2, <1>8, <2>1, <2>2 DEF Is
<1>12. Allowed(r, w, X)
  <2>1. \A y \in X \cap Credentials : Entitled(w, y)
    BY <1>1, <1>2, <1>7, <1>11 DEF Entitled, Facts, Same, LoginOps
  <2>2. ASSUME NEW y \in X PROVE Moves(y, db[y].st, cur'[y].st)
    <3>1. CASE y \in Credentials
      BY <1>11, <2>2, <3>1 DEF Moves, CredentialStates, Dead, Disabled, Accounts
    <3>2. CASE y \notin Credentials
      <4>1. y = who /\ cur'[y].st = "active" /\ db[y].st = "none"
        BY <1>2, <1>8, <1>9, <2>2, <3>2 DEF Is
      <4> QED
        BY <3>2, <4>1 DEF Moves, Disabled
    <3> QED
      BY <3>1, <3>2
  <2> QED
    <3>1. \A c \in Counters : lock'[c] # r
      BY <1>8, <1>9, NamesAssumption DEF IInv, OwnPart, Rows, Holder, Holding
    <3> QED
      BY <1>9, <1>11, <2>1, <2>2, <3>1 DEF Allowed
<1>13. Local(w) /\ Facts(w, db)
  BY <1>1, <1>7 DEF Local, Facts, Same
<1>14. Sweeping(r)'
  <2>1. req'[r] = w
    BY <1>6, <1>7, PutOne DEF IInv
  <2> QED
    BY <1>2, <1>7, <2>1, Unswept DEF Same, LoginOps, Sweepers
<1> QED
  BY <1>6, <1>7, <1>9, <1>10, <1>12, <1>13, <1>14, WriteInv DEF Holder, Holding, Same

LEMMA LoginInv ==
  ASSUME IInv, NEW r \in Reqs,
         \/ Login(r) \/ AdminLogin(r) \/ Register(r) \/ PlayerLogin(r) \/ StaffLogin(r) \/ Redeem(r)
  PROVE  IInv'
<1> DEFINE who == req[r].who
<1>1. Local(req[r]) /\ req[r].at = "account" /\ req[r] \in Work
  BY Zenon DEF IInv, TypeOK, ReqPart, Login, AdminLogin, Register, PlayerLogin, StaffLogin, Redeem, At
<1>2. who \in About(req[r].op) /\ req[r].new \subseteq Credentials /\ who \in Rows /\ who \notin req[r].new
  BY <1>1, NamesAssumption DEF Local, Work, About, Accounts, Rows
<1>3. ASSUME NEW status \in {403, 409}, Reply(r, status), req[r].op \in LoginOps PROVE IInv'
  BY <1>1, <1>3, AnswerInv DEF Reply, AnswerStatuses, LoginOps, Sweepers
<1>4. ASSUME NEW status \in {200, 201}, NEW X \in {req[r].new, req[r].new \cup {who}},
             LetIn(r, X, status),
             X # req[r].new => who \in Users /\ db[who].st = "none",
             who \in Users => db[who].st \notin Disabled
      PROVE  IInv'
  BY <1>1, <1>2, <1>4, LetInInv
<1>5. CASE Login(r)
  BY <1>1, <1>3, <1>4, <1>5, FailInv DEF Login, LoginOps, Disabled
<1>6. CASE AdminLogin(r)
  <2>1. who \in Admins
    BY <1>2, <1>6 DEF AdminLogin, About
  <2> QED
    BY <1>1, <1>4, <1>6, <2>1, FailInv DEF AdminLogin, IInv, RowsPart
<1>7. CASE Register(r)
  <2>1. who \in Users
    BY <1>2, <1>7 DEF Register, About
  <2> QED
    BY <1>1, <1>3, <1>4, <1>7, <2>1 DEF Register, LoginOps, Disabled
<1>8. CASE PlayerLogin(r)
  <2>1. who \in Users
    BY <1>2, <1>8 DEF PlayerLogin, About
  <2> QED
    BY <1>1, <1>3, <1>4, <1>8, <2>1, FailInv DEF PlayerLogin, LoginOps, Disabled
<1>9. CASE StaffLogin(r)
  <2>1. who \notin Users
    BY <1>2, <1>9, NamesAssumption DEF StaffLogin, About
  <2> QED
    BY <1>1, <1>4, <1>9, <2>1, FailInv DEF StaffLogin
<1>10. CASE Redeem(r)
  <2>1. ASSUME LetIn(r, {}, 200) PROVE IInv'
    BY <1>1, <2>1, LetInInv
  <2> QED
    BY <1>1, <1>10, <2>1, FailInv DEF Redeem
<1> QED
  BY <1>5, <1>6, <1>7, <1>8, <1>9, <1>10

\* A refresh whose token was not spent when it arrived spends it and writes its successor.
LEMMA RotateInv ==
  ASSUME IInv, NEW r \in Reqs, Rotate(r)
  PROVE  IInv'
<1> DEFINE t == req[r].x
           X == req[r].new \cup {t}
<1>1. req[r] \in Work /\ Local(req[r]) /\ Facts(req[r], db) /\ req[r].at = "rotate" /\ req' = Answer(r, 200)
  BY DEF IInv, TypeOK, ReqPart, Rotate, At
<1>2. /\ t \in Credentials /\ req[r].op = "refresh" /\ req[r].phase = "none" /\ req[r].new \subseteq Credentials
      /\ req[r].began[t] # "revoked" /\ req[r].began[req[r].who] \notin Disabled /\ db[t].st # "none"
      /\ \A y \in req[r].new : Owner[y] = req[r].who
  BY <1>1 DEF Local, Facts, Work, Credentials
<1>3. PICK w \in Work : /\ req' = Put(req, r, w) /\ Same(w, req[r])
                       /\ w.at = "respond" /\ w.status = 200 /\ w.phase = req[r].phase
  BY <1>1, AnswerPuts DEF IInv, AnswerStatuses
<1>4. /\ \A y \in X : lock[y] = NoReq
      /\ cur' = [y \in Rows |-> IF y = t THEN Is("revoked")
                                ELSE IF y \in req[r].new THEN Is("live") ELSE cur[y]]
      /\ lock' = [y \in Rows |-> IF y \in X THEN r ELSE lock[y]]
      /\ UNCHANGED <<db, tries, menu>>
  BY Zenon DEF Rotate
<1>5. X \subseteq Credentials /\ X \subseteq Rows /\ X \cap Counters = {}
  BY <1>2, NamesAssumption DEF Rows
<1>6. Takes(r, X)
  <2>1. cur' \in [Rows -> Row]
    BY <1>4 DEF IInv, TypeOK, Row, States, Is
  <2> QED
    BY <1>4, <1>5, <2>1 DEF Takes
<1>7. t \notin req[r].new
  BY <1>1, <1>2, <1>4, <1>5 DEF IInv, NewPart, OwnPart
<1>8. Allowed(r, w, X)
  <2>1. \A y \in X : Moves(y, db[y].st, cur'[y].st)
    <3>1. Moves(t, db[t].st, cur'[t].st)
      BY <1>2, <1>4, <1>5, NamesAssumption DEF Moves, Is, CredentialStates, Dead, Rows, Accounts
    <3>2. ASSUME NEW y \in req[r].new PROVE Moves(y, db[y].st, cur'[y].st)
      <4>1. cur'[y].st = "live" /\ db[y].st = "none"
        BY <1>1, <1>4, <1>5, <1>7 DEF Is, IInv, NewPart, OwnPart
      <4> QED
        BY <1>5, <4>1, NamesAssumption DEF Moves, CredentialStates, Dead, Rows, Accounts
    <3> QED
      BY <3>1, <3>2
  <2>2. \A y \in X : cur'[y].st # "none"
    BY <1>4, <1>5 DEF Is
  <2>3. \A y \in X : db[y].st = "none" => y \in req[r].new /\ Entitled(w, y)
    BY <1>2, <1>3 DEF Entitled, Same
  <2>4. \A c \in Counters : lock'[c] # r
    BY <1>1, <1>4, <1>5, NamesAssumption DEF IInv, OwnPart, Rows, Holder, Holding
  <2> QED
    BY <1>5, <2>1, <2>2, <2>3, <2>4 DEF Allowed
<1>9. Local(w) /\ Facts(w, db)
  BY <1>1, <1>3 DEF Local, Facts, Same
<1>10. Sweeping(r)'
  <2>1. req'[r] = w
    BY <1>3, PutOne DEF IInv
  <2> QED
    BY <1>2, <1>3, <2>1, Unswept DEF Same
<1>11. Holder(w) /\ w.new = req[r].new
  BY <1>3 DEF Holder, Holding, Same
<1> QED
  BY <1>1, <1>3, <1>5, <1>6, <1>8, <1>9, <1>10, <1>11, WriteInv

(***************************************************************************)
(* The counters                                                            *)
(***************************************************************************)

LEMMA LockEndsInv ==
  ASSUME IInv, NEW c \in Counters, LockEnds(c)
  PROVE  IInv'
<1>1. /\ db[c].st = "locked" /\ lock[c] = NoReq
      /\ db' = [db EXCEPT ![c].st = "open"] /\ cur' = [cur EXCEPT ![c].st = "open"]
      /\ UNCHANGED <<lock, req, tries, menu>>
  BY Zenon DEF LockEnds
<1>2. c \in Rows /\ cur[c] = db[c] /\ db[c] \in Row
  BY <1>1 DEF IInv, OwnPart, TypeOK, Rows
<1>3. PICK row : row = [db[c] EXCEPT !.st = "open"]
  OBVIOUS
<1>4. db' = Put(db, c, row) /\ cur' = Put(cur, c, row)
  BY <1>1, <1>2, <1>3 DEF Put, IInv, TypeOK
<1>5. row \in Row /\ row.st = "open" /\ row.n = db[c].n
  BY <1>2, <1>3 DEF Row, States
<1>6. Kind[c] = "unknown" /\ row.n <= tries /\ tries \in Nat
  BY <1>1, <1>5 DEF IInv, CountPart, LocksAreEarned, TypeOK
<1>7. req' \in [Reqs -> Work]
  BY <1>1 DEF IInv, TypeOK
<1> QED
  BY <1>1, <1>4, <1>5, <1>6, <1>7, CounterInv

\* A login that counts a failure belongs to no sweep.
LEMMA CountsInv ==
  ASSUME IInv, NEW r \in Reqs, NEW w \in Work, req' = Put(req, r, w),
         req[r].at \in {"make", "count"}, Same(w, req[r]), w.at \in {"count", "respond"},
         w.at = "count" => /\ w.c \in Counters /\ Kind[w.c] = KindOf(w.op) /\ w.tx = req[r].tx
                           /\ w.n = 0 /\ req[r].at = "make",
         w.at = "respond" => w.status = 401,
         NEW c \in Counters, Kind[c] = KindOf(req[r].op), lock[c] \in {r, NoReq}, NEW row \in Row,
         cur' = Put(cur, c, row), UNCHANGED menu,
         IF req[r].tx = "none"
         THEN /\ db' = Put(db, c, row) /\ UNCHANGED lock
              /\ tries' \in Nat /\ tries <= tries' /\ row.n <= tries'
              /\ row.st = "locked" => tries' >= Threshold
         ELSE lock' = Put(lock, c, r) /\ UNCHANGED <<db, tries>>
  PROVE  IInv'
<1>1. req[r] \in Work /\ Local(req[r]) /\ Facts(req[r], db) /\ c \in Rows
  BY DEF IInv, TypeOK, ReqPart, Rows
<1>2. /\ req' \in [Reqs -> Work] /\ req'[r] = w
      /\ \A s \in Reqs : s # r => req'[s] = req[s]
  BY PutOne DEF IInv
<1>3. Local(w) /\ Facts(w, db)
  BY <1>1 DEF Local, Facts, Same
<1>4. req[r].op \in LoginOps /\ w.op = req[r].op /\ w.new = req[r].new /\ (req[r].tx = "none" <=> req[r].op = "unknown")
  BY <1>1 DEF Local, Same
<1>5. CASE req[r].tx = "none"
  <2>1. req[r].op = "unknown" /\ Kind[c] = "unknown"
    BY <1>4, <1>5 DEF KindOf
  <2>2. lock[c] # r
    BY <1>1, <2>1, NamesAssumption DEF IInv, OwnPart
  <2>3. w.at = "count" => w.n <= tries'
    BY <1>5
  <2>4. \A s \in Reqs :
           \/ req'[s] = req[s]
           \/ /\ req[s].at \in {"make", "count"} /\ req'[s].at \in {"count", "respond"}
              /\ req[s].op = "unknown" /\ req'[s].op = "unknown" /\ req'[s].new = req[s].new
              /\ Local(req'[s]) /\ Facts(req'[s], db)
              /\ req'[s].at = "count" => req'[s].n <= tries'
    BY <1>2, <1>3, <1>4, <2>1, <2>3
  <2> QED
    BY <1>2, <1>5, <2>2, <2>4, <2>1, CounterInv
<1>6. CASE req[r].tx # "none"
  <2>1. Kind[c] # "unknown"
    BY <1>4, <1>6 DEF KindOf, LoginOps
  <2>2. /\ lock' = [y \in Rows |-> IF y \in {c} THEN r ELSE lock[y]]
        /\ cur' \in [Rows -> Row] /\ \A y \in Rows : y # c => cur'[y] = cur[y]
    BY <1>1, <1>6 DEF IInv, TypeOK, Put
  <2>3. Takes(r, {c})
    BY <1>6, <2>2 DEF Takes
  <2>4. c \notin Credentials /\ c \notin Users /\ c \notin Admins
    BY NamesAssumption DEF Accounts
  <2>5. Allowed(r, w, {c})
    BY <2>1, <2>4 DEF Allowed, Moves
  <2>6. Sweeping(r)'
    BY <1>2, <1>4, Unswept DEF LoginOps, Sweepers
  <2>7. Holder(w) /\ {c} \in SUBSET Rows
    BY <1>1, <1>4, <1>6 DEF Holder, Holding
  <2>8. w.at = "count" /\ w.op = "unknown" => w.n <= tries
    BY <1>4, <1>6
  <2> QED
    BY <1>3, <1>4, <2>3, <2>5, <2>6, <2>7, <2>8, WriteInv
<1> QED
  BY <1>5, <1>6

LEMMA MakeCounterInv ==
  ASSUME IInv, NEW r \in Reqs, MakeCounter(r)
  PROVE  IInv'
<1>1. req[r] \in Work /\ tries \in Nat /\ req[r].at = "make" /\ UNCHANGED <<tries, menu>>
  BY DEF IInv, TypeOK, MakeCounter, At
<1>2. PICK c \in CountersOf(r) :
        /\ lock[c] = NoReq
        /\ cur' = [cur EXCEPT ![c] = Is("open")]
        /\ IF req[r].tx = "none"
           THEN db' = [db EXCEPT ![c] = Is("open")] /\ UNCHANGED lock
           ELSE lock' = [lock EXCEPT ![c] = r] /\ UNCHANGED db
        /\ req' = [req EXCEPT ![r].c = c, ![r].n = 0, ![r].at = "count"]
  BY Zenon DEF MakeCounter
<1>3. c \in Counters /\ Kind[c] = KindOf(req[r].op)
  BY DEF CountersOf
<1>4. PICK w : w = [req[r] EXCEPT !.c = c, !.n = 0, !.at = "count"]
  OBVIOUS
<1>5. req' = Put(req, r, w)
  BY <1>2, <1>4 DEF Put, IInv, TypeOK
<1>6. w \in Work /\ Same(w, req[r]) /\ w.at = "count" /\ w.tx = req[r].tx /\ w.c = c /\ w.n = 0
  BY <1>1, <1>3, <1>4 DEF Work, Places, Same
<1>7. PICK row : row = Is("open")
  OBVIOUS
<1>8. row \in Row /\ row.n = 0 /\ row.st = "open"
  BY <1>7 DEF Is, Row, States
<1>9. /\ cur' = Put(cur, c, row)
      /\ IF req[r].tx = "none" THEN db' = Put(db, c, row) /\ UNCHANGED lock
                               ELSE lock' = Put(lock, c, r) /\ UNCHANGED db
  BY <1>2, <1>7 DEF Put
<1>10. w.op = req[r].op
  BY <1>6 DEF Same
<1> QED
  BY <1>1, <1>2, <1>3, <1>5, <1>6, <1>8, <1>9, <1>10, CountsInv

LEMMA CountFailureInv ==
  ASSUME IInv, NEW r \in Reqs, CountFailure(r)
  PROVE  IInv'
<1>1. req[r] \in Work /\ Local(req[r]) /\ tries \in Nat /\ req[r].at = "count" /\ req' = Answer(r, 401)
  BY DEF IInv, TypeOK, ReqPart, CountFailure, At
<1>2. PICK c, n : c = req[r].c /\ n = req[r].n + 1
  OBVIOUS
<1>3. c \in Counters /\ Kind[c] = KindOf(req[r].op) /\ n \in Nat /\ c \in Rows
  BY <1>1, <1>2 DEF Local, Work, Rows
<1>4. /\ lock[c] \in {r, NoReq}
      /\ cur' = [cur EXCEPT ![c] = Counted(@, n)] /\ UNCHANGED menu
      /\ IF req[r].tx = "none"
         THEN db' = [db EXCEPT ![c] = Counted(@, n)] /\ tries' = tries + 1 /\ UNCHANGED lock
         ELSE lock' = [lock EXCEPT ![c] = r] /\ UNCHANGED <<db, tries>>
  BY Zenon, <1>2 DEF CountFailure
<1>5. PICK w \in Work : /\ req' = Put(req, r, w) /\ Same(w, req[r])
                       /\ w.at = "respond" /\ w.status = 401 /\ w.phase = req[r].phase
  BY <1>1, AnswerPuts DEF IInv, AnswerStatuses
<1>6. PICK row : row = Counted(cur[c], n)
  OBVIOUS
<1>7. row \in Row /\ row.n = n /\ (row.st = "locked" => n >= Threshold \/ cur[c].st = "locked")
  BY <1>3, <1>6 DEF Counted, Locks, IInv, TypeOK, Row, States
<1>8. cur' = Put(cur, c, row)
  BY <1>4, <1>6 DEF Put
<1>9. CASE req[r].tx = "none"
  <2>1. req[r].op = "unknown" /\ req[r].n <= tries
    BY <1>1, <1>9 DEF Local, IInv, CountPart, At
  <2>2. lock[c] # r
    BY <1>3, <2>1, NamesAssumption DEF IInv, OwnPart, KindOf
  <2>3. cur[c] = db[c] /\ (db[c].st = "locked" => tries >= Threshold)
    BY <1>3, <1>4, <2>2 DEF IInv, OwnPart, CountPart, LocksAreEarned
  <2>4. db' = Put(db, c, row) /\ UNCHANGED lock /\ tries' = tries + 1
    BY <1>4, <1>6, <1>9, <2>3 DEF Put
  <2>5. req[r].n \in Nat /\ Threshold \in Nat
    BY <1>1, BoundAssumption DEF Work
  <2>6. tries' \in Nat /\ tries <= tries' /\ row.n <= tries' /\ (row.st = "locked" => tries' >= Threshold)
    BY <1>1, <1>2, <1>7, <2>1, <2>3, <2>4, <2>5
  <2> QED
    BY <1>1, <1>3, <1>4, <1>5, <1>7, <1>8, <1>9, <2>4, <2>6, CountsInv
<1>10. CASE req[r].tx # "none"
  <2>1. lock' = Put(lock, c, r) /\ UNCHANGED <<db, tries>>
    BY <1>4, <1>10 DEF Put
  <2> QED
    BY <1>1, <1>3, <1>4, <1>5, <1>7, <1>8, <1>10, <2>1, CountsInv
<1> QED
  BY <1>9, <1>10

(***************************************************************************)
(* Taking access away                                                      *)
(***************************************************************************)

LEMMA DeactivateInv ==
  ASSUME IInv, NEW r \in Reqs, Deactivate(r)
  PROVE  IInv'
<1> DEFINE u == req[r].who
<1>1. req[r] \in Work /\ Local(req[r]) /\ Facts(req[r], db) /\ req[r].at = "deactivate"
  BY DEF IInv, TypeOK, ReqPart, Deactivate, At
<1>2. req[r].op = "terminate" /\ u \in Users \ Admins
  BY <1>1 DEF Local, About
<1>3. CASE Reply(r, 400)
  BY <1>1, <1>2, <1>3, AnswerInv DEF Reply, AnswerStatuses, Sweepers
<1>4. CASE /\ db[u].st \in {"active", "inactive"} /\ lock[u] = NoReq
           /\ lock' = [lock EXCEPT ![u] = r]
           /\ cur' = [cur EXCEPT ![u] = Is("inactive")]
           /\ req' = [req EXCEPT ![r].at = "scan", ![r].phase = "sessions"]
           /\ UNCHANGED <<db, tries, menu>>
  <2>1. PICK w : w = [req[r] EXCEPT !.at = "scan", !.phase = "sessions"]
    OBVIOUS
  <2>2. req' = Put(req, r, w)
    BY <1>4, <2>1 DEF Put, IInv, TypeOK
  <2>3. w \in Work /\ Same(w, req[r]) /\ w.at = "scan" /\ w.phase = "sessions"
    BY <1>1, <2>1 DEF Work, Places, Phases, Same
  <2>4. Local(w) /\ Facts(w, db)
    BY <1>1, <1>2, <2>3 DEF Local, Facts, Same, Sweepers
  <2>5. u \in Rows /\ u \notin Credentials /\ u \notin Counters /\ {u} \in SUBSET Rows
    BY <1>2, NamesAssumption DEF Rows, Accounts
  <2>6. Is("inactive") \in Row /\ Is("inactive").st = "inactive"
    BY DEF Is, Row, States
  <2>7. /\ lock' = [y \in Rows |-> IF y \in {u} THEN r ELSE lock[y]]
        /\ cur' \in [Rows -> Row] /\ \A y \in Rows : y # u => cur'[y] = cur[y]
        /\ cur'[u].st = "inactive"
    BY <1>4, <2>5, <2>6 DEF IInv, TypeOK
  <2>8. Takes(r, {u})
    BY <1>4, <2>7 DEF Takes
  <2>9. \A c \in Counters : lock'[c] # r
    BY <1>1, <2>5, <2>7, NamesAssumption DEF IInv, OwnPart, Rows, Holder, Holding
  <2>10. Allowed(r, w, {u})
    BY <1>2, <2>5, <2>7, <2>9 DEF Allowed, Moves, Disabled
  <2>11. Sweeping(r)'
    <3>1. req'[r] = w
      BY <2>2, <2>3, PutOne DEF IInv
    <3> QED
      BY <2>3, <3>1 DEF Sweeping, At, Swept
  <2> QED
    BY <1>1, <2>2, <2>3, <2>4, <2>5, <2>8, <2>10, <2>11, WriteInv DEF Holder, Holding, Same
<1> QED
  BY Zenon, <1>3, <1>4 DEF Deactivate

\* The rows a statement starts with: the others it is about are not live, or were not
\* when the request arrived.
LEMMA ScanInv ==
  ASSUME IInv, NEW r \in Reqs, Scan(r)
  PROVE  IInv'
<1>1. /\ req[r] \in Work /\ Local(req[r]) /\ Facts(req[r], db) /\ req[r].at = "scan"
      /\ UNCHANGED Kept /\ Sweeping(r)
  BY DEF IInv, TypeOK, ReqPart, SweepPart, Scan, At
<1>2. PICK todo, w : /\ todo = {y \in InPhase(r) : db[y].st \in Wanted(r)}
                     /\ w = [req[r] EXCEPT !.at = "sweep", !.n = 0, !.todo = todo]
                     /\ req' = [req EXCEPT ![r].at = "sweep", ![r].n = 0, ![r].todo = todo]
  BY Zenon DEF Scan
<1>3. req' = Put(req, r, w)
  <2>1. /\ w = [req[r] EXCEPT !.at = "sweep", !.n = 0, !.todo = todo]
        /\ req' = [req EXCEPT ![r].at = "sweep", ![r].n = 0, ![r].todo = todo]
        /\ req \in [Reqs -> Work]
    BY <1>2 DEF IInv, TypeOK
  <2> QED
    BY ONLY <2>1, r \in Reqs DEF Put
<1>4. InPhase(r) \subseteq Credentials
  BY <1>1 DEF Local, InPhase, Credentials
<1>5. w \in Work /\ Same(w, req[r]) /\ w.at = "sweep" /\ w.phase = req[r].phase /\ w.todo = todo
  <2>1. todo \in SUBSET (Credentials \cup {Nothing})
    BY <1>2, <1>4
  <2> QED
    <3>1. w = [req[r] EXCEPT !.at = "sweep", !.n = 0, !.todo = todo]
      BY <1>2
    <3> QED
      BY ONLY <1>1, <2>1, <3>1 DEF Work, Places, Same
<1>6. Local(w) /\ Facts(w, db)
  BY <1>1, <1>2, <1>4, <1>5 DEF Local, Facts, Same
<1>7. req'[r] = w
  BY <1>3, <1>5, PutOne DEF IInv
<1>8. \A y \in Credentials : Out(r, y)' <=> Out(r, y)
  BY <1>1 DEF Out, Kept
<1>9. Sweeping(r)'
  <2>1. InPhase(r)' = InPhase(r) /\ OwnSessions(r)' = OwnSessions(r)
    BY <1>5, <1>7 DEF InPhase, OwnSessions, Same
  <2>2. ASSUME NEW y \in InPhase(r) \ todo, w.began[y] = "live" PROVE Out(r, y)
    <3>1. y \in Credentials /\ db[y].st \notin Wanted(r)
      BY <1>2, <1>4, <2>2
    <3>2. db[y].st \in CredentialStates /\ db[y].st # "none"
      BY <1>1, <1>5, <2>2, <3>1 DEF IInv, RowsPart, Facts, Same
    <3> QED
      BY <3>1, <3>2 DEF Wanted, CredentialStates, Dead, Out
  <2>3. OutBut(r, InPhase(r), req[r].todo)'
    BY <1>4, <1>5, <1>7, <1>8, <2>1, <2>2 DEF OutBut
  <2>4. w.op = "terminate" /\ w.phase = "tokens" => OutBut(r, OwnSessions(r), {})'
    <3>1. OwnSessions(r) \subseteq Credentials
      BY DEF OwnSessions, Credentials
    <3> QED
      BY <1>1, <1>5, <1>7, <1>8, <2>1, <3>1 DEF Sweeping, At, OutBut, Same
  <2> QED
    BY <1>5, <1>7, <2>3, <2>4 DEF Sweeping, At, Swept
<1>10. w.at = "sweep" /\ w.new = req[r].new
  BY <1>5 DEF Same
<1> QED
  BY <1>1, <1>3, <1>5, <1>6, <1>9, <1>10, QuietInv

LEMMA SweepRowInv ==
  ASSUME IInv, NEW r \in Reqs, SweepRow(r)
  PROVE  IInv'
<1>1. /\ req[r] \in Work /\ Local(req[r]) /\ Facts(req[r], db) /\ req[r].at = "sweep"
      /\ UNCHANGED <<db, tries, menu>> /\ Sweeping(r)
  BY DEF IInv, TypeOK, ReqPart, SweepPart, SweepRow, At
<1>2. PICK y \in req[r].todo :
        /\ lock[y] = NoReq
        /\ \/ /\ lock' = [lock EXCEPT ![y] = r]
              /\ cur' = [cur EXCEPT ![y] = Is(IF req[r].op = "delete" THEN "gone" ELSE "revoked")]
              /\ req' = [req EXCEPT ![r].todo = @ \ {y}, ![r].n = 1]
              /\ db[y].st \in Wanted(r)
           \/ /\ req' = [req EXCEPT ![r].todo = @ \ {y}]
              /\ UNCHANGED <<cur, lock>>
              /\ db[y].st \notin Wanted(r)
  BY Zenon DEF SweepRow
<1>3. /\ req[r].todo \subseteq Credentials /\ y \in Credentials /\ y \in Rows /\ y \notin Counters
      /\ y \notin Accounts /\ y \notin Admins
  BY <1>1, NamesAssumption DEF Local, Rows, Accounts
<1>4. ASSUME NEW w, w.todo = req[r].todo \ {y}, Same(w, req[r]), w \in Work,
             w.at = "sweep", w.phase = req[r].phase
      PROVE  Local(w) /\ Facts(w, db)
  BY <1>1, <1>4 DEF Local, Facts, Same
<1>5. ASSUME NEW w, w.todo = req[r].todo \ {y}, Same(w, req[r]), req'[r] = w,
             w.at = "sweep", w.phase = req[r].phase,
             w.began[y] = "live" => Out(r, y)',
             \A z \in Credentials : Out(r, z) => Out(r, z)'
      PROVE  Sweeping(r)'
  <2>1. InPhase(r)' = InPhase(r) /\ OwnSessions(r)' = OwnSessions(r)
    BY <1>5 DEF InPhase, OwnSessions, Same
  <2>2. InPhase(r) \subseteq Credentials /\ OwnSessions(r) \subseteq Credentials
    BY <1>1 DEF Local, InPhase, Credentials, OwnSessions
  <2>3. OutBut(r, InPhase(r), req[r].todo)'
    <3> SUFFICES ASSUME NEW z \in InPhase(r) \ (req[r].todo \ {y}), w.began[z] = "live" PROVE Out(r, z)'
      BY <1>5, <2>1 DEF OutBut
    <3>1. CASE z = y
      BY <1>5, <3>1
    <3>2. CASE z # y
      BY <1>1, <1>5, <2>2, <3>2 DEF Sweeping, At, OutBut, Same
    <3> QED
      BY <3>1, <3>2
  <2>4. w.op = "terminate" /\ w.phase = "tokens" => OutBut(r, OwnSessions(r), {})'
    BY <1>1, <1>5, <2>1, <2>2 DEF Sweeping, At, OutBut, Same
  <2> QED
    BY <1>5, <2>3, <2>4 DEF Sweeping, At, Swept
<1>6. CASE /\ req' = [req EXCEPT ![r].todo = @ \ {y}]
           /\ UNCHANGED <<cur, lock>>
           /\ db[y].st \notin Wanted(r)
  <2>1. PICK w : w = [req[r] EXCEPT !.todo = @ \ {y}]
    OBVIOUS
  <2>2. req' = Put(req, r, w)
    BY <1>6, <2>1 DEF Put, IInv, TypeOK
  <2>3. /\ w \in Work /\ Same(w, req[r]) /\ w.at = "sweep" /\ w.phase = req[r].phase
        /\ w.todo = req[r].todo \ {y} /\ w.new = req[r].new
    BY <1>1, <2>1 DEF Work, Same
  <2>4. w.began[y] = "live" => Out(r, y)'
    <3>1. w.began[y] = "live" => db[y].st \in CredentialStates /\ db[y].st # "none"
      BY <1>1, <1>3, <2>3 DEF IInv, RowsPart, Facts, Same
    <3> QED
      BY <1>1, <1>6, <3>1 DEF Wanted, CredentialStates, Dead, Out
  <2>5. \A z \in Credentials : Out(r, z) => Out(r, z)'
    BY <1>1, <1>6 DEF Out
  <2>6. req'[r] = w
    BY <2>2, <2>3, PutOne DEF IInv
  <2>7. Local(w) /\ Facts(w, db)
    BY <1>4, <2>3
  <2>8. Sweeping(r)'
    BY <1>5, <2>3, <2>4, <2>5, <2>6
  <2> QED
    BY <1>1, <1>6, <2>2, <2>3, <2>7, <2>8, QuietInv DEF Kept
<1>7. CASE /\ lock' = [lock EXCEPT ![y] = r]
           /\ cur' = [cur EXCEPT ![y] = Is(IF req[r].op = "delete" THEN "gone" ELSE "revoked")]
           /\ req' = [req EXCEPT ![r].todo = @ \ {y}, ![r].n = 1]
           /\ db[y].st \in Wanted(r)
  <2>1. PICK w, row : /\ w = [req[r] EXCEPT !.todo = @ \ {y}, !.n = 1]
                      /\ row = Is(IF req[r].op = "delete" THEN "gone" ELSE "revoked")
    OBVIOUS
  <2>2. req' = Put(req, r, w)
    BY <1>7, <2>1 DEF Put, IInv, TypeOK
  <2>3. /\ w \in Work /\ Same(w, req[r]) /\ w.at = "sweep" /\ w.phase = req[r].phase
        /\ w.todo = req[r].todo \ {y} /\ w.new = req[r].new
    BY <1>1, <2>1 DEF Work, Same
  <2>4. row \in Row /\ row.st \in Dead
    BY <2>1 DEF Is, Row, States, Dead
  <2>5. /\ lock' = [z \in Rows |-> IF z \in {y} THEN r ELSE lock[z]] /\ cur' = [cur EXCEPT ![y] = row]
        /\ cur' \in [Rows -> Row] /\ cur'[y] = row /\ \A z \in Rows : z # y => cur'[z] = cur[z]
    BY <1>3, <1>7, <2>1, <2>4 DEF IInv, TypeOK
  <2>6. Takes(r, {y})
    BY <1>1, <1>2, <2>5 DEF Takes
  <2>7. \A c \in Counters : lock'[c] # r
    BY <1>1, <1>3, <2>5, NamesAssumption DEF IInv, OwnPart, Rows, Holder, Holding
  <2>8. db[y].st # "none"
    BY <1>7 DEF Wanted
  <2>9. Allowed(r, w, {y})
    BY <1>3, <2>4, <2>5, <2>7, <2>8 DEF Allowed, Moves, Accounts, Dead, CredentialStates
  <2>10. Out(r, y)'
    BY <1>3, <2>4, <2>5 DEF Out
  <2>11. \A z \in Credentials : Out(r, z) => Out(r, z)'
    BY <1>1, <1>2, <2>5, NamesAssumption DEF Out, Rows
  <2>12. req'[r] = w
    BY <2>2, <2>3, PutOne DEF IInv
  <2>13. Local(w) /\ Facts(w, db)
    BY <1>4, <2>3
  <2>14. Sweeping(r)'
    BY <1>5, <2>3, <2>10, <2>11, <2>12
  <2>15. {y} \in SUBSET Rows /\ Holder(w)
    BY <1>3, <2>3 DEF Holder, Holding
  <2> QED
    BY <1>1, <2>2, <2>3, <2>6, <2>9, <2>13, <2>14, <2>15, WriteInv
<1> QED
  BY <1>2, <1>6, <1>7

LEMMA ReuseDoneInv ==
  ASSUME IInv, NEW r \in Reqs, ReuseDone(r)
  PROVE  IInv'
<1>1. /\ req[r] \in Work /\ Local(req[r]) /\ Facts(req[r], db) /\ Sweeping(r)
      /\ req[r].at = "sweep" /\ req[r].todo = {} /\ req[r].op = "refresh"
      /\ db' = Stored(r) /\ lock' = Free(r) /\ req' = Answer(r, 401) /\ UNCHANGED <<cur, tries, menu>>
  BY DEF IInv, TypeOK, ReqPart, SweepPart, ReuseDone, At
<1>2. PICK w \in Work : /\ req' = Put(req, r, w) /\ Same(w, req[r])
                       /\ w.at = "respond" /\ w.status = 401 /\ w.phase = req[r].phase
  BY <1>1, AnswerPuts DEF IInv, AnswerStatuses
<1>3. Local(w) /\ Facts(w, db)
  BY <1>1, <1>2 DEF Local, Facts, Same
<1>4. Grow(db, db')
  BY <1>1, StoredGrows
<1>5. Facts(w, db')
  BY <1>3, <1>4, FactsStable
<1>6. req'[r] = w
  BY <1>2, PutOne DEF IInv
<1>7. Sweeping(r)'
  <2>1. req[r].phase = "tokens"
    BY <1>1 DEF Local
  <2>2. Promised(r)' = InPhase(r) /\ InPhase(r) \subseteq Tokens
    BY <1>1, <1>2, <1>6, <2>1 DEF Promised, InPhase, Same
  <2>3. ASSUME NEW y \in InPhase(r), w.began[y] = "live" PROVE Out(r, y)'
    <3>1. Out(r, y)
      BY <1>1, <1>2, <2>3 DEF Sweeping, At, OutBut, Same
    <3>2. y \in Rows
      BY <2>2 DEF Rows, Credentials
    <3>3. db[y].st \in Dead => db'[y].st \in Dead
      BY <1>4, <2>2, <3>2 DEF Grow, Moves, Credentials
    <3>4. lock[y] = r => db'[y] = cur[y]
      BY <1>1, <3>2 DEF Stored
    <3> QED
      BY <3>1, <3>3, <3>4 DEF Out
  <2>4. OutBut(r, Promised(r), {})'
    BY <1>6, <2>2, <2>3 DEF OutBut
  <2> QED
    BY <1>2, <1>6, <2>4 DEF Sweeping, At
<1> QED
  BY <1>1, <1>2, <1>3, <1>5, <1>7, EndInv DEF Same

LEMMA SweepDoneInv ==
  ASSUME IInv, NEW r \in Reqs, SweepDone(r)
  PROVE  IInv'
<1>1. /\ req[r] \in Work /\ Local(req[r]) /\ Facts(req[r], db) /\ Sweeping(r)
      /\ req[r].at = "sweep" /\ req[r].todo = {} /\ req[r].op # "refresh" /\ UNCHANGED Kept
  BY DEF IInv, TypeOK, ReqPart, SweepPart, SweepDone, At
<1>2. \A y \in Credentials : Out(r, y)' <=> Out(r, y)
  BY <1>1 DEF Out, Kept
<1>3. /\ req[r].op \in {"logout", "terminate", "delete"}
      /\ OutBut(r, InPhase(r), {}) /\ InPhase(r) \subseteq Credentials /\ OwnSessions(r) \subseteq Credentials
      /\ req[r].op = "terminate" /\ req[r].phase = "tokens" => OutBut(r, OwnSessions(r), {})
  BY <1>1 DEF Local, Sweeping, At, InPhase, OwnSessions, Credentials, Sweepers
<1>4. ASSUME NEW w \in Work, req' = Put(req, r, w), Same(w, req[r]),
             w.at \in {"scan", "drop", "respond"},
             w.at = "scan" => (w.op = "logout" /\ w.phase = "sessions") \/ (w.op = "terminate" /\ w.phase = "tokens"),
             w.at = "drop" => w.op = "delete" /\ w.phase = "sessions",
             w.at = "scan" /\ w.op = "terminate" => OutBut(r, OwnSessions(r), {}),
             w.at = "drop" => OutBut(r, OwnSessions(r), {}),
             w.at = "respond" => w.phase = req[r].phase /\ OutBut(r, Promised(r), {})
      PROVE  IInv'
  <2>1. Local(w) /\ Facts(w, db)
    BY <1>1, <1>3, <1>4 DEF Local, Facts, Same, Sweepers
  <2>2. req'[r] = w
    BY <1>4, PutOne DEF IInv
  <2>3. OwnSessions(r)' = OwnSessions(r) /\ (w.at = "respond" => Promised(r)' = Promised(r))
    <3>1. w.who = req[r].who /\ w.op = req[r].op
      BY <1>4 DEF Same
    <3> QED
      BY <1>4, <2>2, <3>1 DEF OwnSessions, Promised
  <2>4. Promised(r) \subseteq Credentials
    BY DEF Promised, Credentials
  <2>5. Sweeping(r)'
    <3>1. w.at = "scan" /\ w.op = "terminate" => OutBut(r, OwnSessions(r), {})'
      BY <1>2, <1>3, <1>4, <2>2, <2>3 DEF OutBut, Same
    <3>2. w.at = "drop" => OutBut(r, OwnSessions(r), {})'
      BY <1>2, <1>3, <1>4, <2>2, <2>3 DEF OutBut, Same
    <3>3. w.at = "respond" => OutBut(r, Promised(r), {})'
      BY <1>2, <1>4, <2>2, <2>3, <2>4 DEF OutBut, Same
    <3> QED
      BY <1>4, <2>2, <3>1, <3>2, <3>3 DEF Sweeping, At, Swept
  <2> QED
    BY <1>1, <1>4, <2>1, <2>5, QuietInv DEF Same
<1>5. \/ req[r].op = "logout" /\ req' = [req EXCEPT ![r].at = "scan", ![r].phase = "sessions"]
      \/ /\ req[r].op = "terminate" /\ req[r].phase = "sessions"
         /\ req' = [req EXCEPT ![r].at = "scan", ![r].phase = "tokens"]
      \/ req[r].op = "delete" /\ req' = Goto(r, "drop")
      \/ /\ req[r].op # "delete" /\ ~ (req[r].op = "terminate" /\ req[r].phase = "sessions")
         /\ req' = Answer(r, 200)
  BY SMTT(30) DEF SweepDone
<1>6. ASSUME NEW phase \in {"sessions", "tokens"},
             req' = [req EXCEPT ![r].at = "scan", ![r].phase = phase],
             \/ req[r].op = "logout" /\ phase = "sessions"
             \/ req[r].op = "terminate" /\ phase = "tokens" /\ req[r].phase = "sessions"
      PROVE  IInv'
  <2>1. PICK w : w = [req[r] EXCEPT !.at = "scan", !.phase = phase]
    OBVIOUS
  <2>2. req' = Put(req, r, w)
    BY <1>6, <2>1 DEF Put, IInv, TypeOK
  <2>3. w \in Work /\ Same(w, req[r]) /\ w.at = "scan" /\ w.phase = phase
    BY <1>1, <2>1 DEF Work, Places, Phases, Same
  <2>4. req[r].op = "terminate" => OutBut(r, OwnSessions(r), {})
    BY <1>3, <1>6 DEF InPhase, OwnSessions
  <2> QED
    BY <1>4, <1>6, <2>2, <2>3, <2>4 DEF Same
<1>7. CASE req[r].op = "delete" /\ req' = Goto(r, "drop")
  <2>1. PICK w : w = [req[r] EXCEPT !.at = "drop"]
    OBVIOUS
  <2>2. req' = Put(req, r, w)
    BY <1>7, <2>1 DEF Goto, Put, IInv, TypeOK
  <2>3. w \in Work /\ Same(w, req[r]) /\ w.at = "drop" /\ w.phase = req[r].phase
    BY <1>1, <2>1 DEF Work, Places, Same
  <2>4. req[r].phase = "sessions" /\ OutBut(r, OwnSessions(r), {})
    BY <1>1, <1>3, <1>7 DEF Local, InPhase, OwnSessions
  <2> QED
    BY <1>4, <1>7, <2>2, <2>3, <2>4 DEF Same
<1>8. CASE /\ req[r].op # "delete" /\ ~ (req[r].op = "terminate" /\ req[r].phase = "sessions")
           /\ req' = Answer(r, 200)
  <2>1. PICK w \in Work : /\ req' = Put(req, r, w) /\ Same(w, req[r])
                         /\ w.at = "respond" /\ w.status = 200 /\ w.phase = req[r].phase
    BY <1>8, AnswerPuts DEF IInv, AnswerStatuses
  <2>2. OutBut(r, Promised(r), {})
    <3>1. CASE req[r].op = "terminate"
      <4>1. req[r].phase = "tokens"
        BY <1>1, <1>8, <3>1 DEF Local
      <4>2. Promised(r) \subseteq InPhase(r) \cup OwnSessions(r)
        BY <3>1, <4>1 DEF Promised, InPhase, OwnSessions, Credentials
      <4> QED
        BY <1>3, <3>1, <4>1, <4>2 DEF OutBut
    <3>2. CASE req[r].op = "logout"
      BY <1>3, <3>2 DEF Promised, InPhase, OutBut
    <3> QED
      BY <1>3, <1>8, <3>1, <3>2
  <2> QED
    BY <1>4, <2>1, <2>2
<1> QED
  BY <1>5, <1>6, <1>7, <1>8

(***************************************************************************)
(* The end of a request                                                    *)
(***************************************************************************)

LEMMA EndedInv ==
  ASSUME IInv, NEW r \in Reqs, req' = Ended(r), UNCHANGED <<tries, menu>>, lock' = Free(r),
         \/ /\ db' = Stored(r) /\ UNCHANGED cur
            /\ req[r].at # "count" /\ (req[r].at = "respond" => req[r].status < 400)
         \/ Rollback(r)
  PROVE  IInv'
<1>1. NoWork \in Work /\ NoWork.at = "idle" /\ NoWork.new = {} /\ req' = Put(req, r, NoWork)
  BY NoWorkIsWork DEF Ended, Put
<1>2. Local(NoWork)
  BY DEF Local, NoWork
<1>3. Facts(NoWork, db')
  BY NamesAssumption DEF Facts, NoWork, Dead, Disabled, Accounts, Rows
<1>4. Sweeping(r)'
  <2>1. req'[r] = NoWork
    BY <1>1, PutOne DEF IInv
  <2> QED
    BY <1>1, <2>1 DEF Sweeping, At, Swept
<1> QED
  BY <1>1, <1>2, <1>3, <1>4, EndInv

LEMMA FinishInv ==
  ASSUME IInv, NEW r \in Reqs, Finish(r)
  PROVE  IInv'
<1>1. /\ req[r].at = "respond" /\ req' = Ended(r) /\ UNCHANGED <<tries, menu>> /\ lock' = Free(r)
      /\ \/ db' = Stored(r) /\ UNCHANGED cur /\ req[r].status < 400
         \/ Rollback(r)
  BY DEF Finish, At
<1> QED
  BY <1>1, EndedInv

LEMMA CloseInv ==
  ASSUME IInv, NEW r \in Reqs, Close(r)
  PROVE  IInv'
BY EndedInv DEF Close

LEMMA DeadlockVictimInv ==
  ASSUME IInv, NEW r \in Reqs, DeadlockVictim(r)
  PROVE  IInv'
<1>1. Rollback(r) /\ lock' = Free(r) /\ req' = Answer(r, 500) /\ UNCHANGED <<tries, menu>>
  BY DEF DeadlockVictim
<1>2. req[r].at # "idle"
  <2>1. Awaits(r) # {}
    BY DEF DeadlockVictim
  <2> QED
    BY <2>1 DEF Awaits, At
<1>3. PICK w \in Work : /\ req' = Put(req, r, w) /\ Same(w, req[r])
                       /\ w.at = "respond" /\ w.status = 500 /\ w.phase = req[r].phase
  BY <1>1, AnswerPuts DEF IInv, AnswerStatuses
<1>4. Local(w) /\ Facts(w, db') /\ w.new = req[r].new
  <2>1. Local(req[r]) /\ Facts(req[r], db) /\ db' = db
    BY <1>1 DEF IInv, ReqPart, Rollback
  <2> QED
    BY <1>2, <1>3, <2>1 DEF Local, Facts, Same
<1>5. Sweeping(r)'
  <2>1. req'[r] = w
    BY <1>3, PutOne DEF IInv
  <2> QED
    BY <1>3, <2>1, Unswept
<1> QED
  BY <1>1, <1>3, <1>4, <1>5, EndInv

(***************************************************************************)
(* The theorems                                                            *)
(***************************************************************************)

LEMMA NextInv == IInv /\ [Next]_vars => IInv'
<1> SUFFICES ASSUME IInv, [Next]_vars PROVE IInv'
  OBVIOUS
<1>1. CASE UNCHANGED vars
  <2>1. UNCHANGED <<db, cur, lock, req, tries, menu>>
    BY <1>1 DEF vars
  <2>2. TypeOK' /\ RowsPart' /\ OwnPart'
    BY <2>1 DEF IInv, TypeOK, RowsPart, OwnPart, Grow
  <2>3. ReqPart' /\ NewPart' /\ GrantPart'
    BY <2>1 DEF IInv, ReqPart, NewPart, GrantPart
  <2>4. SweepPart'
    <3> SUFFICES ASSUME NEW s \in Reqs PROVE Sweeping(s)'
      BY DEF SweepPart
    <3> QED
      BY <2>1, SweepStays DEF Out
  <2>5. CountPart'
    BY <2>1 DEF IInv, CountPart, LocksAreEarned, At
  <2> QED
    BY <2>2, <2>3, <2>4, <2>5 DEF IInv
<1>2. ASSUME NEW r \in Reqs, Begin(r) \/ HandlerStep(r) \/ Close(r) \/ DeadlockVictim(r)
      PROVE  IInv'
  <2>1. CASE Begin(r)
    BY <2>1, BeginInv
  <2>2. CASE Gate(r) \/ FindCounter(r) \/ MakeCounter(r) \/ CountFailure(r)
    BY <2>2, GateInv, FindCounterInv, MakeCounterInv, CountFailureInv
  <2>3. CASE Login(r) \/ AdminLogin(r) \/ Register(r) \/ PlayerLogin(r) \/ StaffLogin(r) \/ Redeem(r)
    BY <2>3, LoginInv
  <2>4. CASE Present(r) \/ CheckHolder(r) \/ Rotate(r) \/ UserAuth(r) \/ StaffAuth(r)
    BY <2>4, PresentInv, CheckHolderInv, RotateInv, UserAuthInv, StaffAuthInv
  <2>5. CASE ReadRow(r) \/ Touch(r) \/ Revoke(r) \/ CreateStaff(r) \/ PatchStaff(r) \/ DropUser(r)
    BY <2>5, ReadRowInv, TouchInv, RevokeInv, CreateStaffInv, PatchStaffInv, DropUserInv
  <2>6. CASE Deactivate(r) \/ Scan(r) \/ SweepRow(r) \/ ReuseDone(r) \/ SweepDone(r)
    BY <2>6, DeactivateInv, ScanInv, SweepRowInv, ReuseDoneInv, SweepDoneInv
  <2>7. CASE Finish(r) \/ Close(r) \/ DeadlockVictim(r)
    BY <2>7, FinishInv, CloseInv, DeadlockVictimInv
  <2> QED
    BY Zenon, <1>2, <2>1, <2>2, <2>3, <2>4, <2>5, <2>6, <2>7 DEF HandlerStep
<1> QED
  BY Zenon, <1>1, <1>2, LockEndsInv DEF Next

\* Every reachable state satisfies the inductive invariant: what a request has read
\* without a lock stays true, because users and credentials that are out stay out.
THEOREM Invariance == Spec => []IInv
<1>1. Init => IInv
  BY InitInv
<1>2. IInv /\ [Next]_vars => IInv'
  BY NextInv
<1> QED
  BY <1>1, <1>2, PTL DEF Spec

\* The rows, their locks and the request records keep their types, for any number of
\* accounts, credentials and requests that overlap.
THEOREM TypeCorrect == Spec => []TypeOK
<1>1. IInv => TypeOK
  BY DEF IInv
<1> QED
  BY <1>1, Invariance, PTL

\* A counter that belongs to a tenant is never committed (the refusal it is written
\* before rolls it back), and no lock is set before FAIL_THRESHOLD failures, however
\* their increments overlap.
THEOREM LocksAreEarnedAlways == Spec => []LocksAreEarned
<1>1. IInv => LocksAreEarned
  BY DEF IInv, CountPart
<1> QED
  BY <1>1, Invariance, PTL

\* When a reuse, a termination, a logout or a deletion is answered, the credentials it
\* is about that were live when it arrived are out, for any number of them and of
\* requests that overlap.
THEOREM SweepsCompleteAlways == Spec => []SweepsComplete
<1>1. ASSUME IInv PROVE SweepsComplete
  <2> SUFFICES ASSUME NEW r \in Reqs, Swept(r), NEW y \in Promised(r), req[r].began[y] = "live"
               PROVE  cur[y].st # "live"
    BY DEF SweepsComplete
  <2>1. y \in Credentials /\ y \in Rows
    BY DEF Promised, Credentials, Rows
  <2>2. Out(r, y)
    BY <1>1 DEF IInv, SweepPart, Sweeping, OutBut
  <2>3. db[y].st \in Dead => cur[y].st \in Dead
    BY <1>1, <2>1 DEF IInv, RowsPart, Grow, Moves
  <2> QED
    BY <2>2, <2>3 DEF Out, Dead
<1> QED
  BY <1>1, Invariance, PTL

\* A step that commits: what it leaves of the rows.
LEMMA StepGrows == IInv /\ [Next]_vars => Grow(db, db')
<1> SUFFICES ASSUME IInv, [Next]_vars PROVE Grow(db, db')
  OBVIOUS
<1>1. ASSUME NEW r \in Reqs, db' = db \/ db' = Stored(r) PROVE Grow(db, db')
  BY <1>1, StoredGrows
<1>2. ASSUME db' = db PROVE Grow(db, db')
  BY <1>2 DEF IInv, RowsPart, Grow, Moves
<1>3. ASSUME NEW c \in Counters, NEW row, db' = Put(db, c, row) PROVE Grow(db, db')
  <2>1. ASSUME NEW y \in Rows PROVE Moves(y, db[y].st, db'[y].st)
    <3>1. Moves(y, db[y].st, db[y].st)
      BY DEF IInv, RowsPart, Moves
    <3>2. c \notin Credentials /\ c \notin Users /\ c \notin Admins
      BY NamesAssumption DEF Accounts
    <3>3. y # c => db'[y] = db[y]
      BY <1>3 DEF IInv, TypeOK, Put
    <3> QED
      BY <3>1, <3>2, <3>3 DEF Moves
  <2> QED
    BY <2>1 DEF Grow
<1>4. ASSUME NEW r \in Reqs, Begin(r) \/ HandlerStep(r) \/ Close(r) \/ DeadlockVictim(r)
      PROVE  Grow(db, db')
  <2>1. CASE MakeCounter(r)
    <3>1. PICK c \in Counters : db' = db \/ db' = Put(db, c, Is("open"))
      BY Zenon, <2>1 DEF MakeCounter, CountersOf, Put
    <3> QED
      BY <1>2, <1>3, <3>1
  <2>2. CASE CountFailure(r)
    <3>1. req[r].c \in Counters
      BY <2>2 DEF CountFailure, At, IInv, ReqPart, Local
    <3>2. db' = db \/ \E row : db' = Put(db, req[r].c, row)
      BY Zenon, <2>2 DEF CountFailure, Put
    <3> QED
      BY <1>2, <1>3, <3>1, <3>2
  <2>3. CASE ReuseDone(r) \/ Finish(r) \/ Close(r) \/ DeadlockVictim(r)
    BY <1>1, <2>3 DEF ReuseDone, Finish, Close, DeadlockVictim, Rollback
  <2>4. CASE Gate(r) \/ FindCounter(r) \/ Present(r) \/ CheckHolder(r) \/ UserAuth(r) \/ StaffAuth(r)
             \/ ReadRow(r) \/ Scan(r) \/ SweepDone(r) \/ Begin(r)
    <3>1. db' = db
      BY Zenon, <2>4 DEF Gate, FindCounter, Present, CheckHolder, UserAuth, StaffAuth, ReadRow, Scan,
                         SweepDone, Begin, Kept
    <3> QED
      BY <1>2, <3>1
  <2>5. CASE Login(r) \/ AdminLogin(r) \/ Register(r) \/ PlayerLogin(r) \/ StaffLogin(r) \/ Redeem(r)
             \/ Rotate(r)
    <3>1. db' = db
      BY Zenon, <2>5 DEF Login, AdminLogin, Register, PlayerLogin, StaffLogin, Redeem, Rotate,
                         LetIn, Fail, Reply, Kept
    <3> QED
      BY <1>2, <3>1
  <2>6. CASE Touch(r) \/ Revoke(r) \/ CreateStaff(r) \/ PatchStaff(r) \/ DropUser(r) \/ Deactivate(r)
             \/ SweepRow(r)
    <3>1. db' = db
      BY Zenon, <2>6 DEF Touch, Revoke, CreateStaff, PatchStaff, DropUser, Deactivate, SweepRow,
                         Write, Reply, Kept
    <3> QED
      BY <1>2, <3>1
  <2> QED
    BY Zenon, <1>4, <2>1, <2>2, <2>3, <2>4, <2>5, <2>6 DEF HandlerStep
<1>5. ASSUME NEW c \in Counters, LockEnds(c) PROVE Grow(db, db')
  <2>1. db' = [db EXCEPT ![c].st = "open"]
    BY Zenon, <1>5 DEF LockEnds
  <2>2. db' = Put(db, c, [db[c] EXCEPT !.st = "open"])
    BY <2>1 DEF Put, IInv, TypeOK
  <2> QED
    BY <1>3, <2>2
<1>6. CASE UNCHANGED vars
  BY <1>2, <1>6 DEF vars
<1> QED
  BY Zenon, <1>4, <1>5, <1>6 DEF Next

\* No step makes a credential that was revoked or deleted live again: neither a touch or
\* a rotation that read it before, nor a rollback, whatever the requests that overlap.
THEOREM RevokedForGoodAlways == Spec => RevokedForGood
<1>1. IInv /\ [Next]_vars =>
        [\A y \in Credentials : db[y].st \in {"revoked", "gone"} => db'[y].st # "live"]_vars
  <2> SUFFICES ASSUME IInv, [Next]_vars, NEW y \in Credentials, db[y].st \in {"revoked", "gone"}
               PROVE  db'[y].st # "live"
    OBVIOUS
  <2>1. y \in Rows /\ Grow(db, db')
    BY StepGrows DEF Rows
  <2> QED
    BY <2>1 DEF Grow, Moves, Dead
<1> QED
  BY <1>1, Invariance, PTL DEF Spec, RevokedForGood

\* A credential becomes live only for who was not disabled, and by a token that was not
\* spent, when its request arrived.
THEOREM GrantsAreEarnedAlways == Spec => GrantsAreEarned
<1>1. IInv /\ [Next]_vars =>
        [\A r \in Reqs, y \in Credentials :
           Grants(r, y) =>
             /\ Owner[y] \in Users => req[r].began[Owner[y]] \notin {"inactive", "gone"}
             /\ req[r].op = "refresh" => req[r].began[req[r].x] # "revoked"]_vars
  <2> SUFFICES ASSUME IInv, NEW r \in Reqs, NEW y \in Credentials, Grants(r, y)
               PROVE  /\ Owner[y] \in Users => req[r].began[Owner[y]] \notin {"inactive", "gone"}
                      /\ req[r].op = "refresh" => req[r].began[req[r].x] # "revoked"
    OBVIOUS
  <2>1. lock[y] = r /\ lock[y] # NoReq /\ db[y].st = "none"
    BY NamesAssumption DEF Grants
  <2> QED
    BY <2>1 DEF IInv, GrantPart, Entitled, Disabled
<1> QED
  BY <1>1, Invariance, PTL DEF Spec, GrantsAreEarned
=============================================================================
