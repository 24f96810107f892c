---------------------------- MODULE MCBackOffice ----------------------------
(***************************************************************************)
(* TLC instance of BackOffice.                                             *)
(***************************************************************************)
EXTENDS BackOffice, TLC

CONSTANTS r1, r2, r3, t1, t2, t3

MCTenants == {t1, t2, t3}
MCScopes == MCTenants \cup {"system", "brand"}
\* Two tenants want one identifier.
MCNameOf == t1 :> "acme" @@ t2 :> "acme" @@ t3 :> "other"

Numbered(T, s, k) == T \X {s} \X (1..k)
Basic == {"tenant", "distributor", "staff", "rootKey"} \cup Balances
MCRows ==
  Numbered(Tables \ (Single \cup {"settings"}), t1, 3) \cup Numbered(Single, t1, 1) \cup Numbered({"settings"}, t1, 2) \cup Numbered(Balances \cup {"audit"}, t2, 2) \cup Numbered(Balances \cup {"audit"}, t3, 2)
    \cup Numbered(Basic, t2, 1) \cup Numbered(Basic, t3, 1)
    \cup Numbered({"settings"}, "system", 2) \cup Numbered({"settings"}, "brand", 2)
AtFirst == Numbered(Basic, t1, 1)

\* What each of three slots takes.  A slot is used again: a third request may follow one of
\* the first two, and the third slot lets it come while both run.
Slots(A, B, C) == r1 :> A @@ r2 :> B @@ r3 :> C

\* Requests meet on tenant t1: the tables with three rows, with two and with one, and the tables
\* of `one` that start with their row.
Meet3(A, B, C, three, two, one, there) ==
  [meet |-> (A \cup B \cup C) \X {t1}, there |-> AtFirst \cup Numbered(there, t1, 1), slots |-> Slots(A, B, C),
   rows |-> AtFirst \cup Numbered(three, t1, 3) \cup Numbered(two, t1, 2) \cup Numbered(one, t1, 1)]
Meet(A, B, three, two, one, there) == Meet3(A, B, {}, three, two, one, there)

Global(op) ==
  [meet |-> {<<op, op>>}, there |-> {}, slots |-> Slots({op}, {op}, {}), rows |-> Numbered({"settings"}, op, 2)]
Tenant(t, k) == Numbered(Basic, t, 1) \cup Numbered(Balances \cup {"audit"}, t, k)

MCMenus ==
  {Global("brand"),
   [Global("system") EXCEPT !.slots = Slots({"system"}, {}, {})],
   Meet({"ownerConfig"}, {"config"}, {}, {"settings"}, {}, {}),
   Meet({"config"}, {"delete"}, {}, {"settings", "audit"}, {}, {}),
   Meet3({"reset"}, {"reset"}, {"reset"}, {"audit"}, {}, {}, {}),
   Meet3({"reset"}, {"reset"}, {"delete"}, {"audit"}, {}, {}, {}),
   Meet3({"markPaid"}, {"markPaid"}, {"bet"}, {}, {"payment"}, {"intent", "purse"}, {"intent", "purse"}),
   Meet({"markPaid"}, {"markPaid", "wipe"}, Balances, {"payment"}, {"intent", "purse"}, {"intent", "purse"}),
   Meet3({"markPaid"}, {"markPaid"}, {"delete"}, {}, {"payment", "audit"}, {"intent", "purse"}, {"intent", "purse"}),
   Meet3({"markSent"}, {"markSent"}, {"delete"}, {}, {"audit"}, {"withdrawal"}, {"withdrawal"}),
   Meet3({"close"}, {"close"}, {"delete"}, {}, {"closure", "audit"}, {}, {}),
   Meet3({"register"}, {"register"}, {"delete"}, {}, {"device", "audit"}, {}, {}),
   Meet({"register", "unregister"}, {"register", "test"}, {}, {"device"}, {}, {}),
   Meet({"send"}, {"test", "delete"}, {}, {"message", "audit"}, {"device"}, {"device"}),
   Meet({"send", "read"}, {"read", "drop", "thread"}, {}, {"message"}, {}, {"message"}),
   Meet({"inbox", "purge"}, {"read"}, {}, {}, {"message"}, {"message"}),
   Meet3({"wipe"}, {"wipe", "key"}, {"key"}, Balances, {}, {"key"}, {"key"}),
   Meet3({"credits"}, {"credits"}, {"wipe"}, Balances \cup {"audit"}, {}, {}, {}),
   [meet |-> {<<"create", t1>>, <<"create", t2>>, <<"delete", t1>>}, there |-> {},
    slots |-> Slots({"create"}, {"create"}, {"delete"}), rows |-> Tenant(t1, 2) \cup Tenant(t2, 2)],
   [meet |-> {<<"wipeAll", t1>>, <<"delete", t1>>}, there |-> AtFirst,
    slots |-> Slots({"wipeAll"}, {"wipeAll", "delete"}, {}), rows |-> Tenant(t1, 3)],
   [meet |-> {<<"wipeAll", t1>>, <<"create", t3>>}, there |-> AtFirst,
    slots |-> Slots({"wipeAll"}, {"create"}, {}), rows |-> Tenant(t1, 3) \cup Tenant(t3, 2)]}
=============================================================================
