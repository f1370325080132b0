-------------------------- MODULE MCMonitorThreads --------------------------
(* Model checking instance of MonitorThreads. *)
EXTENDS MonitorThreads, TLC

WorkerSymmetry == Permutations(Workers)
=============================================================================
