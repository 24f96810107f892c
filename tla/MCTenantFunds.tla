---------------------------- MODULE MCTenantFunds ----------------------------
(***************************************************************************)
(* TLC instance of TenantFunds: a few requests, small amounts, two codes.  *)
(***************************************************************************)
EXTENDS TenantFunds_proofs, TLC

CONSTANTS r1, r2, r3, c1, c2

MCReqs2 == {r1, r2}
MCReqs3 == {r1, r2, r3}
MCAmounts == {1, 2}
MCBonuses == {-2}
MCCodes == {c1, c2}

\* Requests and codes are interchangeable in the safety runs.
Symmetry == Permutations({r1, r2, r3}) \cup Permutations({c1, c2})
=============================================================================
