---------------------------- MODULE MCTenantGitOps ----------------------------
(* A small instance of TenantGitOps.                                       *)
EXTENDS TenantGitOps, TLC

CONSTANTS a, na

OneTenantName == a :> na
OneTenantGen == a :> 3
=============================================================================
