----------------------------- MODULE VoucherLife -----------------------------
(***************************************************************************)
(* What a voucher promises, with no requests, locks or failures: it is     *)
(* redeemed at most once, its credit reaches the account in the same step, *)
(* and a terminated voucher is never usable again.  PlayerAccount is shown *)
(* to implement it when every redemption goes through a locking handler.   *)
(***************************************************************************)
EXTENDS Naturals

CONSTANT Vouchers

VARIABLES
  status,   \* Voucher.status
  credits   \* how often the voucher's amount was credited to a wallet

vars == <<status, credits>>

\* A voucher is issued new; the account may start with vouchers already redeemed.
Init ==
  /\ status \in [Vouchers -> {"new", "redeemed"}]
  /\ credits = [v \in Vouchers |-> IF status[v] = "new" THEN 0 ELSE 1]

Redeem(v) ==
  /\ status[v] = "new"
  /\ status' = [status EXCEPT ![v] = "redeemed"]
  /\ credits' = [credits EXCEPT ![v] = @ + 1]

Terminate(v) ==
  /\ status[v] \in {"new", "redeemed"}
  /\ status' = [status EXCEPT ![v] = "terminated"]
  /\ UNCHANGED credits

Next == \E v \in Vouchers : Redeem(v) \/ Terminate(v)

Spec == Init /\ [][Next]_vars
=============================================================================
