------------------------------ MODULE WatchPool ------------------------------
(***************************************************************************)
(* What the watchpoint library promises its client: a pool with a fixed    *)
(* number of places for watched intervals. The intervals in the pool are   *)
(* disjoint, a place that is in use is taken over only when no place is    *)
(* free, and only by a newer sample.                                       *)
(***************************************************************************)
EXTENDS Integers

CONSTANTS
    Places,     \* the watchpoint places of the pool
    Samples,    \* numbers of the samples, later ones larger
    Addresses   \* addresses that may be sampled

VARIABLE watch

\* An unused place; no sample has number 0.
Free == [ev |-> 0, va |-> 0, len |-> 1]

Watch == [ev : Samples, va : Addresses, len : {1, 2, 4, 8}]

Disjoint(v, w) == (v.va .. v.va + v.len - 1) \cap (w.va .. w.va + w.len - 1) = {}

InUse == {p \in Places : watch[p] # Free}

\* A new sample gets a free place, or the place of any watchpoint of a full pool.
Take(p, w) ==
    /\ watch' = [watch EXCEPT ![p] = w]
    /\ \A q \in InUse : Disjoint(watch[q], w) /\ watch[q].ev < w.ev
    /\ p \in InUse => InUse = Places

\* A watchpoint ends: it triggered, or its replacement could not be armed.
Release(p) ==
    /\ p \in InUse
    /\ watch' = [watch EXCEPT ![p] = Free]

\* All watchpoints end: the session closes or a trigger asks for it.
Clear == watch' = [p \in Places |-> Free]

Init == watch = [p \in Places |-> Free]

Next ==
    \/ \E p \in Places : (watch'[p] \in Watch /\ Take(p, watch'[p])) \/ Release(p)
    \/ Clear

Spec == Init /\ [][Next]_watch
=============================================================================
