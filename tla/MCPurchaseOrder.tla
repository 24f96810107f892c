--------------------------- MODULE MCPurchaseOrder ---------------------------
(***************************************************************************)
(* TLC instances of PurchaseOrder.                                         *)
(***************************************************************************)
EXTENDS PurchaseOrder_proofs, TLC

CONSTANTS r1, r2, r3, o1, o2

MCReqs2 == {r1, r2}
MCReqs3 == {r1, r2, r3}
MCOrders1 == {o1}

Symmetry == Permutations({r1, r2, r3})
=============================================================================
