--------------------------- MODULE WatchpointPool ---------------------------
(* The watchpoint table of a thread implements WatchPool: the places are the *)
(* slots, and a place is in use while the thread's table is reachable and    *)
(* its slot is active.                                                       *)
EXTENDS Watchpoint

PoolView ==
    [i \in Slots |->
        IF tData = "live" /\ wp[i].isActive
        THEN [ev |-> wp[i].sampledEvent.id, va |-> wp[i].va, len |-> wp[i].wpLength]
        ELSE [ev |-> 0, va |-> 0, len |-> 1]]

Pool == INSTANCE WatchPool
    WITH Places <- Slots, Samples <- 1 .. MaxEvents, Addresses <- Addrs, watch <- PoolView

\* Every behaviour of the table is one of the pool: samples, replacements that fail
\* half-way, triggers, late signals and the dismantling of the table included.
ImplementsPool == Pool!Spec
=============================================================================
