---------------------------- MODULE MCWatchpoint ----------------------------
(* Watchpoint on small instances: two slots, two descriptors, accesses that   *)
(* abut, nest and coincide.                                                   *)
EXTENDS WatchpointPool

=============================================================================
