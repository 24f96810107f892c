--------------------------- MODULE MCPlayerAccount ---------------------------
(***************************************************************************)
(* TLC instances of PlayerAccount: one unit is 50 cents, so the bonus is   *)
(* released at a balance of one unit or less.                              *)
(***************************************************************************)
EXTENDS PlayerAccount_proofs, TLC

CONSTANTS r1, r2, r3, v1, v2, g1, g2, g3

MCReqs2 == {r1, r2}
MCReqs3 == {r1, r2, r3}
MCVouchers == {v1, v2}
MCRounds1 == {g1}
MCRounds2 == {g1, g2}
MCRounds3 == {g1, g2, g3}
MCStakes == {1}
MCWins == {0, 2}

LockingOps == Ops \ UnlockedRedeemers
Unadjusted == LockingOps \ {"adjust"}

Symmetry == Permutations({r1, r2, r3})
=============================================================================
