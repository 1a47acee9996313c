----------------------------- MODULE MCApprovals ------------------------------
(* Instances of Approvals for TLC: the configurations give it two lifetimes  *)
(* and two invokes that present the same approval.                          *)
EXTENDS Approvals
=============================================================================
