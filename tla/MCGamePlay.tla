----------------------------- MODULE MCGamePlay -----------------------------
(***************************************************************************)
(* TLC instance of GamePlay.                                               *)
(***************************************************************************)
EXTENDS GamePlay, TLC

CONSTANTS r1, r2, v1, v2, g1, g2, l1, l2

\* The fixed percentage is not among the options: 200 is used, and 6 units are the cap.
MCPolicies == {[fixed |-> 125, options |-> {200}, randomOptions |-> {200}]}

\* A client that leaves the round alone, and two that name fields of their own.
MCMetadata == {Silent, [Silent EXCEPT !.before = 5, !.after = 1],
               [Silent EXCEPT !.cap = 100, !.balBefore = 1, !.balAfter = -1]}

Start(m, how, old, legacy, linked) ==
  [menu |-> m, mode |-> how, ledger |-> [loss |-> old, spins |-> old > 0], legacy |-> legacy, linked |-> linked]

\* Which requests meet each other, and from where; with "redeem" and "login" a second
\* voucher is redeemed while the player plays.
MCStarts ==
  {Start({"bet", "settle", "switch"}, "voucher_controlled", 0, FALSE, TRUE),
   Start({"bet", "settle", "switch"}, "pure_rng", 0, TRUE, FALSE),
   Start({"sessionBet", "settle"}, "voucher_controlled", 0, TRUE, TRUE),
   Start({"limit"}, "pure_rng", 0, FALSE, TRUE),
   Start({"sessionBet", "limit"}, "pure_rng", 1, FALSE, TRUE),
   Start({"bet", "settle", "redeem", "login"}, "voucher_controlled", 0, FALSE, TRUE),
   Start({"bet", "redeem", "login", "view"}, "voucher_controlled", 0, TRUE, FALSE),
   Start({"bet", "redeem", "login", "switch"}, "pure_rng", 0, FALSE, TRUE)}
  \cup {Start({"event"}, "pure_rng", old, FALSE, TRUE) : old \in {0, 1}}

\* Only bets of the session and its limit, in a session without old ledger rows.
MCLossStarts == {Start({"sessionBet", "limit"}, "voucher_controlled", 0, FALSE, TRUE)}

\* Requests are alike, and so are rounds and limit rows.
Symmetry == Permutations({r1, r2}) \cup Permutations({g1, g2}) \cup Permutations({l1, l2})
=============================================================================
