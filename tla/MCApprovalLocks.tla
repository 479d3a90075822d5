--------------------------- MODULE MCApprovalLocks ---------------------------
(***************************************************************************)
(* ApprovalLocks for TLC: of three requests the first is sent twice.       *)
(***************************************************************************)
EXTENDS ApprovalLocks, TLC

CONSTANTS first, second, third, t1, t2, t3, t4

FirstTwice == (t1 :> first) @@ (t2 :> first) @@ (t3 :> second) @@ (t4 :> third)
=============================================================================
