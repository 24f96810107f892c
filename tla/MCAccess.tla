------------------------------ MODULE MCAccess ------------------------------
(***************************************************************************)
(* TLC instance of Access.                                                 *)
(***************************************************************************)
EXTENDS Access, TLC

CONSTANTS r1, r2, u1, u2, adm, st1, st0, tk1, tk2, tk3, tk4, tk5, tk6, se1, se2, se3, se4, cu, ca, cs, cv, cr, cx1, cx2

MCReqs == {r1, r2}
MCTokens == {tk1, tk2, tk3, tk4, tk5, tk6}
MCSessions == {se1, se2, se3, se4}
MCCounters == {cu, ca, cs, cv, cr, cx1, cx2}
MCOwner == tk1 :> u1 @@ tk2 :> u1 @@ tk3 :> u2 @@ tk4 :> adm @@ tk5 :> adm @@ tk6 :> adm
           @@ se1 :> u1 @@ se2 :> u1 @@ se3 :> u2 @@ se4 :> st1
MCKind == cu :> "user" @@ ca :> "staff_admin" @@ cs :> "staff" @@ cv :> "voucher_login"
          @@ cr :> "voucher_redeem" @@ cx1 :> "unknown" @@ cx2 :> "unknown"

\* Which requests meet each other, and on whom.
MCMenus ==
  {{"login", "refresh", "terminate"} \X {u1},
   {"playerLogin", "logout"} \X {u1},
   {"playerLogin", "me", "revoke"} \X {u1},
   {"playerLogin", "terminate", "delete"} \X {u2},
   {"adminLogin", "register", "refresh"} \X {adm},
   {"register", "redeem"} \X {u1},
   {"staffLogin", "create", "patch", "revoke"} \X {st1},
   {"unknown"} \X {u1}}
=============================================================================
