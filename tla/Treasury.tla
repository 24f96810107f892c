------------------------------ MODULE Treasury ------------------------------
(***************************************************************************)
(* What the funding side of one tenant promises, with no locks, requests   *)
(* or failures: credit issued by the owner, credit moved into the voucher  *)
(* pool, and vouchers paid from the pool, each as one indivisible          *)
(* transfer.  TenantFunds is shown to implement it.                        *)
(***************************************************************************)
EXTENDS Integers

CONSTANTS
  Amounts,   \* the cent amounts a request may name, a subset of Nat \ {0}
  Bonuses    \* the bonuses a voucher may carry, of either sign

VARIABLES
  wallet,   \* TenantWallet.balanceCents
  pool,     \* TenantVoucherPool.poolBalanceCents
  books     \* what went where since the tenant was created

vars == <<wallet, pool, books>>

\* The running totals that explain the two balances.  issued and allocated are
\* sums of CreditLedger rows, vouchers is the face value of all vouchers; drawn
\* (wallet money auto-topped-up into the pool) and minted (the owner override)
\* have no row anywhere.
Init ==
  /\ wallet \in Amounts \cup {0}
  /\ pool \in Amounts \cup {0}
  /\ books = [issued |-> wallet + pool, allocated |-> pool,
              vouchers |-> 0, drawn |-> 0, minted |-> 0]

IssueCredits(a) ==
  /\ wallet' = wallet + a
  /\ books' = [books EXCEPT !.issued = @ + a]
  /\ UNCHANGED pool

AllocatePool(a) ==
  /\ wallet >= a
  /\ wallet' = wallet - a
  /\ pool' = pool + a
  /\ books' = [books EXCEPT !.allocated = @ + a]

\* A voucher of total a is paid by the pool, after moving d from the wallet and
\* minting m into the pool when the pool alone is too small.
IssueVoucher(a, d, m) ==
  /\ d = 0 \/ m = 0
  /\ wallet >= d
  /\ pool + d + m >= a
  /\ wallet' = wallet - d
  /\ pool' = pool + d + m - a
  /\ books' = [books EXCEPT !.vouchers = @ + a, !.drawn = @ + d, !.minted = @ + m]

Shortfall(a) == IF pool < a THEN a - pool ELSE 0

\* What a voucher may cost; a negative total pays into the pool.
Totals == {a + bonus : a \in Amounts, bonus \in Bonuses \cup {0}}

Next ==
  \/ \E a \in Amounts : IssueCredits(a) \/ AllocatePool(a)
  \/ \E a \in Totals :
       \/ IssueVoucher(a, 0, 0)
       \/ IssueVoucher(a, Shortfall(a), 0)
       \/ IssueVoucher(a, 0, Shortfall(a))

Spec == Init /\ [][Next]_vars
=============================================================================
