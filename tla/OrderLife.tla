------------------------------ MODULE OrderLife ------------------------------
(***************************************************************************)
(* What a purchase order promises: its status moves through the six stages *)
(* in order, one at a time, credit is issued to it once, and it may be     *)
(* deleted at any stage.  PurchaseOrder is shown to implement it when no   *)
(* two requests overlap.                                                   *)
(***************************************************************************)
EXTENDS Naturals

CONSTANT Orders

VARIABLES
  status,   \* PurchaseOrder.status, "unused" before the order and "deleted" after it
  issued    \* how often the owner issued the order's credit

vars == <<status, issued>>

Init ==
  /\ status = [o \in Orders |-> "unused"]
  /\ issued = [o \in Orders |-> 0]

\* The stage that follows each stage.
After ==
  [unused |-> "pending", pending |-> "approved", approved |-> "awaiting_credit",
   awaiting_credit |-> "credited", credited |-> "completed", completed |-> "acknowledged"]

Advance(o) ==
  /\ status[o] \in DOMAIN After
  /\ status' = [status EXCEPT ![o] = After[@]]
  /\ issued' = IF status'[o] = "credited" THEN [issued EXCEPT ![o] = @ + 1] ELSE issued

Delete(o) ==
  /\ status[o] \notin {"unused", "deleted"}
  /\ status' = [status EXCEPT ![o] = "deleted"]
  /\ UNCHANGED issued

Next == \E o \in Orders : Advance(o) \/ Delete(o)

Spec == Init /\ [][Next]_vars
=============================================================================
