-------------------------- MODULE MCMonitorSignals --------------------------
EXTENDS MonitorSignals, TLC

CONSTANTS rt, usr, winch, kill, t1, t2

MCPreference == (rt :> 1) @@ (usr :> 2) @@ (winch :> 3) @@ (kill :> 4)
MCRequests == {{rt}, {rt, usr, winch, kill}}
ThreadSymmetry == Permutations(Threads)
=============================================================================
