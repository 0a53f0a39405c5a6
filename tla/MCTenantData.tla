----------------------------- MODULE MCTenantData -----------------------------
(* Small instances of TenantData.                                          *)
EXTENDS TenantData, TLC

\* Processes run the same code: exchanging two of them changes nothing.
ProcSymmetry == Permutations(Procs)
====
