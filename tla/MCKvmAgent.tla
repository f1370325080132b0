----------------------------- MODULE MCKvmAgent -----------------------------
(* Two VCPUs whose threads may come and go.                                 *)
EXTENDS KvmAgent, TLC

Symmetric == Permutations(Threads) \cup Permutations(FDs)
=============================================================================
