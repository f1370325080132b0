---------------------------- MODULE MonitorProofs ----------------------------
(***************************************************************************)
(* Proofs about libmonitor's threads and process exit, for every number of *)
(* threads, nodes and forks: one thread ends the process, the list that    *)
(* the shootdown walks without the lock stands still, no init_thread       *)
(* callback comes before init_process and the thread support callback, and *)
(* a thread node is in one place.                                          *)
(***************************************************************************)
EXTENDS MonitorThreads, FiniteSetTheorems, TLAPS

\* A thread on its way to its start routine, or back from it, has a node.
Carrying == {"wait", "linking", "init", "clean", "fini", "unlink", "unlinking"}
ArgSet == \A t \in Threads : pc[t] \in Carrying => arg[t] \in ArrayNodes

TInv == TypeOK /\ ArgSet

\* The thread list and the shootdown are used after the first pthread_create only.
ListInv ==
    /\ "has_used_threads" \notin flag /\ Frozen => thread_list = {}
    /\ \A t \in Threads :
          pc[t] \in Making \cup {"wait", "linking", "shoot", "shootset"} =>
              "has_used_threads" \in flag

\* The order of main's way to the application and the threads': the flags go up one
\* after the other, only the process's main thread goes that way, alone if it goes
\* there again in a forked child, and a thread that got past its wait found the
\* support callback done.  The pthread_t's of a process that runs are clean.
Started(t) ==
    \/ pc[t] \in Making \cup {"posting", "linking", "init", "app"}
    \/ pc[t] \in Winning \cup {"loser", "ending"} /\ how[t] = "exec"
OnTheWayToMain == {"begin", "release"}
OrderInv ==
    /\ "thread_support_done" \in flag => "has_reached_main" \in flag
    /\ "has_reached_main" \in flag => "main_called" \in flag
    /\ pc[Main] = "early" => "main_called" \notin flag
    /\ pc[Main] # "none" => main = Main
    /\ \A t \in Workers : pc[t] # "early" /\ (pc[t] \in OnTheWayToMain => t = main)
    /\ pc[Main] \in OnTheWayToMain /\ "has_reached_main" \in flag =>
          \A t \in Workers : pc[t] = "none"
    /\ \A t \in Workers :
          Started(t) /\ arg[t] # NoNode /\ t # main => "thread_support_done" \in flag
    /\ \A t \in Threads :
          /\ pc[t] \in OnTheWayToMain => "main_called" \in flag
          /\ pc[t] = "support" => "has_reached_main" \in flag
    /\ \A t, u \in Threads : pc[u] # "none" /\ pc[t] = "none" => arg[t] = NoNode

\* The array nodes that have not been handed out, and the node that a thread was
\* given and may still put on a list.
Handed == tn_array * ArraySize + tn_array_pos
Fresh == {n \in ArrayNodes : n > Handed}
Exempt(t) == t = main /\ pc[t] \notin {"wait", "linking", "init"}
Holds(t) == IF arg[t] = NoNode \/ Exempt(t) THEN {} ELSE {arg[t]}

\* A thread between linking and unlinking its node, or one that may come back to it.
Cleaning == {"clean", "fini", "unlink", "unlinking"}
Linked(t) ==
    \/ pc[t] \in Making \cup Cleaning \cup {"posting", "init", "app"}
    \/ pc[t] \in Winning \cup {"loser", "ending"} /\ how[t] = "exec"

\* Fresh nodes, the lists and the nodes that threads hold do not meet.
NodeInv ==
    /\ thread_list \cap free_list = {}
    /\ Fresh \cap (thread_list \cup free_list) = {}
    /\ \A t \in Threads : Holds(t) \cap (Fresh \cup free_list) = {}
    /\ \A t, u \in Threads : t # u => Holds(t) \cap Holds(u) = {}
    /\ \A t \in Threads :
          Linked(t) /\ arg[t] # NoNode /\ t # main => arg[t] \in thread_list
    /\ pc[main] \notin Cleaning
    /\ arg[Main] = NoNode
    /\ "has_used_threads" \notin flag =>
          thread_list = {} /\ free_list = {} /\ \A t \in Threads : Holds(t) = {}

\* The nodes that their creators have still to read are in use, one for each creator.
PostInv ==
    /\ \A u \in Threads : pc[u] = "posting" =>
          "has_used_threads" \in flag /\ made[u] \notin Fresh \cup free_list
    /\ \A t, u \in Threads :
          t # u /\ pc[t] = "posting" /\ pc[u] = "posting" => made[t] # made[u]

\* A thread that is not linked yet has a node that is not on the thread list.
WaitInv == \A t \in Threads : pc[t] \in {"wait", "linking"} => arg[t] \notin thread_list

\* The threads that were running when exit cleanup began stay on the list, started; the
\* walk has each of them ahead, or counted it as unfinished, or found its fini done.
ExitInv ==
    /\ at_exit \subseteq thread_list
    /\ at_exit # {} => Frozen /\ ~First
    /\ \A n \in at_exit : "appl_started" \in tn[n]
    /\ \A t \in Threads : pc[t] = "scan" =>
          \A n \in at_exit : \/ n \in shoot.todo \cup shoot.unfinished
                             \/ tn_self[n] = t
                             \/ "fini_done" \in tn[n]
    /\ ExitAlwaysWaits

-----------------------------------------------------------------------------
(* Types                                                                   *)

LEMMA SetFacts ==
    /\ ArrayNodes \subseteq Nodes /\ MainNode \in Nodes
    /\ NoNode \notin Nodes /\ Main \in Threads /\ Workers \subseteq Threads
  BY BoundsAssumption DEF ArrayNodes, Nodes, MainNode, NoNode, Threads

\* The sets of the walk are finite.
LEMMA CardFact ==
    ASSUME NEW S \in SUBSET ArrayNodes
    PROVE  Cardinality(S) \in Nat
  <1>1. IsFiniteSet(ArrayNodes)
    BY BoundsAssumption, FS_Interval DEF ArrayNodes
  <1>2. QED  BY <1>1, FS_Subset, FS_CardinalityType

LEMMA GetTnTyped ==
    ASSUME TypeOK, NEW t \in Threads
    PROVE  monitor_get_tn(t) \in Nodes \cup {NoNode}
  BY SetFacts DEF TypeOK, monitor_get_tn

LEMMA InitTInv == Init => TInv
  <1> SUFFICES ASSUME Init PROVE TInv
    OBVIOUS
  <1>1. TypeOK
    <2>1. strayed \in BOOLEAN /\ overtaken \in BOOLEAN
      BY Zenon DEF Init
    <2>2. shoot \in [todo : SUBSET ArrayNodes, my_tn : ArrayNodes \cup {NoNode},
                    started : SUBSET ArrayNodes, last : Nat,
                    unstarted : SUBSET ArrayNodes, unfinished : SUBSET ArrayNodes]
      BY DEF Init, NoShoot
    <2>3. pc \in [Threads -> Points] /\ how \in [Threads -> Hows]
      BY DEF Init, Points, Hows
    <2>4. QED
      BY <2>1, <2>2, <2>3, SetFacts, BoundsAssumption DEF Init, TypeOK, NodeFlags
  <1>2. ArgSet
    BY SetFacts DEF Init, ArgSet, Carrying
  <1>3. QED  BY <1>1, <1>2 DEF TInv

\* The first pthread_create.
LEMMA ListInitTyped ==
    ASSUME TypeOK, NEW t \in Threads, monitor_thread_list_init(t)
    PROVE  /\ thread_list' \subseteq ArrayNodes /\ free_list' \subseteq ArrayNodes
           /\ tn_array_pos' \in 0 .. ArraySize
           /\ key' \in [Threads -> Nodes \cup {NoNode}]
           /\ tn_self' \in [Nodes -> Threads \cup {NoThread}]
           /\ flag' \subseteq ProcessFlags
  <1>1. CASE "has_used_threads" \in flag
    BY <1>1 DEF TypeOK, monitor_thread_list_init
  <1>2. CASE "has_used_threads" \notin flag
    <2>1. 0 \in 0 .. ArraySize
      BY BoundsAssumption
    <2>2. /\ key' = [key EXCEPT ![t] = MainNode]
          /\ tn_self' = [tn_self EXCEPT ![MainNode] = t]
          /\ flag' = flag \cup {"has_used_threads"}
          /\ thread_list' = {} /\ free_list' = {} /\ tn_array_pos' = 0
      BY <1>2 DEF monitor_thread_list_init
    <2>3. flag' \subseteq ProcessFlags
      BY <2>2 DEF TypeOK, ProcessFlags
    <2>4. key' \in [Threads -> Nodes \cup {NoNode}]
      BY <2>2, SetFacts DEF TypeOK
    <2>5. tn_self' \in [Nodes -> Threads \cup {NoThread}]
      BY <2>2, SetFacts DEF TypeOK
    <2>6. QED  BY <2>1, <2>2, <2>3, <2>4, <2>5
  <1>3. QED  BY <1>1, <1>2

LEMMA StepTInv == TInv /\ Next => TInv'
  <1> SUFFICES ASSUME TInv, NEW t \in Threads,
                      Inside(t) \/ Outside(t) \/ ScanTimeout(t)
               PROVE  TInv'
    BY DEF Next
  <1>0. TypeOK /\ ArgSet
    BY DEF TInv
  <1>1. ASSUME MonitorMain(t)  PROVE TInv'
    <2>1. TypeOK'
      BY <1>0, <1>1
      DEF TypeOK, MonitorMain, At, Goto, nodeVars, listVars, threadVars, shootVars, procVars,
          Points, Making, Winning, NodeFlags, ProcessFlags, Hows
    <2>2. ArgSet'
      BY <1>0, <1>1
      DEF TypeOK, ArgSet, Carrying, MonitorMain, At, Goto, nodeVars, listVars, threadVars,
          shootVars, procVars,
          Points, Making, Winning
    <2>3. QED  BY <2>1, <2>2 DEF TInv
  <1>2. ASSUME ThreadRelease(t)  PROVE TInv'
    <2>1. TypeOK'
      BY <1>0, <1>2
      DEF TypeOK, ThreadRelease, At, Goto, nodeVars, listVars, threadVars, shootVars, procVars,
          Points, Making, Winning, NodeFlags, ProcessFlags, Hows
    <2>2. ArgSet'
      BY <1>0, <1>2
      DEF TypeOK, ArgSet, Carrying, ThreadRelease, At, Goto, nodeVars, listVars, threadVars,
          shootVars, procVars,
          Points, Making, Winning
    <2>3. QED  BY <2>1, <2>2 DEF TInv
  <1>3. ASSUME ThreadSupport(t)  PROVE TInv'
    <2>1. TypeOK'
      BY <1>0, <1>3
      DEF TypeOK, ThreadSupport, At, Goto, nodeVars, listVars, threadVars, shootVars, procVars,
          Points, Making, Winning, NodeFlags, ProcessFlags, Hows
    <2>2. ArgSet'
      BY <1>0, <1>3
      DEF TypeOK, ArgSet, Carrying, ThreadSupport, At, Goto, nodeVars, listVars, threadVars,
          shootVars, procVars,
          Points, Making, Winning
    <2>3. QED  BY <2>1, <2>2 DEF TInv
  <1>4. ASSUME NEW p \in {"make", "unlink", "shoot"},
               NEW q \in {"making", "unlinking", "shootset"},
               p = "unlink" <=> q = "unlinking", Lock(t, p, q)
        PROVE  TInv'
    <2>1. TypeOK'
      BY <1>0, <1>4
      DEF TypeOK, Lock, At, Goto, nodeVars, listVars, threadVars, shootVars, procVars,
          Points, Making, Winning, NodeFlags, ProcessFlags, Hows
    <2>2. ArgSet'
      BY <1>0, <1>4
      DEF TypeOK, ArgSet, Carrying, Lock, At, Goto, nodeVars, listVars, threadVars,
          shootVars, procVars,
          Points, Making, Winning
    <2>3. QED  BY <2>1, <2>2 DEF TInv
  <1>5. ASSUME CreateEnter(t)  PROVE TInv'
    <2>1. TypeOK'
      BY <1>0, <1>5, ListInitTyped
      DEF TypeOK, CreateEnter, At, Goto, shootVars, procVars, Points, Making, Winning
    <2>2. ArgSet'
      BY <1>0, <1>5, SetFacts, BoundsAssumption
      DEF TypeOK, ArgSet, Carrying, CreateEnter, monitor_thread_list_init, At, Goto,
          nodeVars, listVars, threadVars, shootVars, procVars,
          Points, Making, Winning
    <2>3. QED  BY <2>1, <2>2 DEF TInv
  <1>6. ASSUME NEW w \in Workers, CreateIgnored(t, w)  PROVE TInv'
    <2>1. TypeOK'
      BY <1>0, <1>6, ListInitTyped
      DEF TypeOK, CreateIgnored, At, Goto, shootVars, procVars, Points, Making, Winning
    <2>2. ArgSet'
      BY <1>0, <1>6, SetFacts, BoundsAssumption
      DEF TypeOK, ArgSet, Carrying, CreateIgnored, monitor_thread_list_init, At, Goto,
          nodeVars, listVars, threadVars, shootVars, procVars,
          Points, Making, Winning
    <2>3. QED  BY <2>1, <2>2 DEF TInv
  <1>7. ASSUME NEW w \in Workers, CreateThread(t, w)  PROVE TInv'
    <2>1. TypeOK'
      BY <1>0, <1>7, SetFacts, BoundsAssumption
      DEF TypeOK, CreateThread, MakeThreadNode, FromFreeList, FromArray, FromNewArray,
          Unlock, At, Goto, nodeVars, listVars, threadVars, shootVars, procVars,
          Points, Making, Winning, NodeFlags, ProcessFlags, Hows
    <2>2. ArgSet'
      BY <1>0, <1>7, SetFacts, BoundsAssumption
      DEF TypeOK, ArgSet, Carrying, CreateThread, MakeThreadNode, FromFreeList, FromArray,
          FromNewArray, Unlock, At, Goto, nodeVars, listVars, threadVars, shootVars,
          procVars,
          Points, Making, Winning
    <2>3. QED  BY <2>1, <2>2 DEF TInv
  <1>8. ASSUME CreateFails(t)  PROVE TInv'
    <2>1. TypeOK'
      BY <1>0, <1>8, SetFacts, BoundsAssumption
      DEF TypeOK, CreateFails, MakeThreadNode, FromFreeList, FromArray, FromNewArray,
          Unlock, At, Goto, nodeVars, listVars, threadVars, shootVars, procVars,
          Points, Making, Winning, NodeFlags, ProcessFlags, Hows
    <2>2. ArgSet'
      BY <1>0, <1>8, SetFacts, BoundsAssumption
      DEF TypeOK, ArgSet, Carrying, CreateFails, MakeThreadNode, FromFreeList, FromArray,
          FromNewArray, Unlock, At, Goto, nodeVars, listVars, threadVars, shootVars,
          procVars,
          Points, Making, Winning
    <2>3. QED  BY <2>1, <2>2 DEF TInv
  <1>9. ASSUME BeginThread(t)  PROVE TInv'
    <2>1. TypeOK'
      BY <1>0, <1>9, SetFacts
      DEF TypeOK, BeginThread, At, Goto, nodeVars, listVars, threadVars, shootVars, procVars,
          Points, Making, Winning, NodeFlags, ProcessFlags, Hows
    <2>2. ArgSet'
      BY <1>0, <1>9, SetFacts
      DEF TypeOK, ArgSet, Carrying, BeginThread, At, Goto, nodeVars, listVars, threadVars,
          shootVars, procVars,
          Points, Making, Winning
    <2>3. QED  BY <2>1, <2>2 DEF TInv
  <1>10. ASSUME LinkThreadNode(t)  PROVE TInv'
    <2>1. TypeOK'
      <3>1. arg[t] \in ArrayNodes
        BY <1>0, <1>10 DEF LinkThreadNode, At, ArgSet, Carrying
      <3>2. tn_tid' \in [Nodes -> Int]
        <4>1. thread_num + 1 \in Int /\ tn_tid \in [Nodes -> Int]
          BY <1>0 DEF TypeOK
        <4>2. tn_tid' = [tn_tid EXCEPT ![arg[t]] = thread_num + 1]
          BY <1>10 DEF LinkThreadNode
        <4>3. QED  BY <4>1, <4>2
      <3>3. QED
        BY <1>0, <1>10, <3>1, <3>2
        DEF TypeOK, LinkThreadNode, Unlock, Goto, shootVars, procVars, Points, Making, Winning
    <2>2. ArgSet'
      BY <1>0, <1>10
      DEF TypeOK, ArgSet, Carrying, LinkThreadNode, Unlock, At, Goto, nodeVars, listVars,
          threadVars, shootVars, procVars,
          Points, Making, Winning
    <2>3. QED  BY <2>1, <2>2 DEF TInv
  <1>11. ASSUME LinkRefused(t)  PROVE TInv'
    <2>1. TypeOK'
      BY <1>0, <1>11, SetFacts
      DEF TypeOK, LinkRefused, Unlock, Ends, At, Goto, nodeVars, listVars, threadVars,
          shootVars, procVars,
          Points, Making, Winning, NodeFlags, ProcessFlags, Hows
    <2>2. ArgSet'
      BY <1>0, <1>11, SetFacts
      DEF TypeOK, ArgSet, Carrying, LinkRefused, Unlock, Ends, At, Goto, nodeVars, listVars,
          threadVars, shootVars, procVars,
          Points, Making, Winning
    <2>3. QED  BY <2>1, <2>2 DEF TInv
  <1>12. ASSUME InitThread(t)  PROVE TInv'
    <2>1. TypeOK'
      BY <1>0, <1>12
      DEF TypeOK, InitThread, Raise, At, Goto, nodeVars, listVars, threadVars, shootVars,
          procVars,
          Points, Making, Winning, NodeFlags, ProcessFlags, Hows
    <2>2. ArgSet'
      BY <1>0, <1>12
      DEF TypeOK, ArgSet, Carrying, InitThread, Raise, At, Goto, nodeVars, listVars,
          threadVars, shootVars, procVars,
          Points, Making, Winning
    <2>3. QED  BY <2>1, <2>2 DEF TInv
  <1>13. ASSUME CancelInInit(t)  PROVE TInv'
    <2>1. TypeOK'
      BY <1>0, <1>13, SetFacts
      DEF TypeOK, CancelInInit, Ends, At, Goto, nodeVars, listVars, threadVars, shootVars,
          procVars,
          Points, Making, Winning, NodeFlags, ProcessFlags, Hows
    <2>2. ArgSet'
      BY <1>0, <1>13, SetFacts
      DEF TypeOK, ArgSet, Carrying, CancelInInit, Ends, At, Goto, nodeVars, listVars,
          threadVars, shootVars, procVars,
          Points, Making, Winning
    <2>3. QED  BY <2>1, <2>2 DEF TInv
  <1>14. ASSUME ThreadReturns(t)  PROVE TInv'
    <2>1. TypeOK'
      <3>1. strayed' \in BOOLEAN
        BY <1>0, <1>14, Zenon DEF TypeOK, ThreadReturns
      <3>2. main' \in Threads /\ pending' \subseteq Threads \cup {NoThread}
        BY <1>0, <1>14, SetFacts DEF TypeOK, ThreadReturns, Ends
      <3>3. /\ pc' \in [Threads -> Points]
            /\ key' \in [Threads -> Nodes \cup {NoNode}]
            /\ arg' \in [Threads -> ArrayNodes \cup {NoNode}]
        BY <1>0, <1>14 DEF TypeOK, ThreadReturns, Ends, Goto, Points
      <3>4. QED
        BY <1>0, <1>14, <3>1, <3>2, <3>3 DEF TypeOK, ThreadReturns, nodeVars, listVars
    <2>2. ArgSet'
      BY <1>0, <1>14, SetFacts
      DEF TypeOK, ArgSet, Carrying, ThreadReturns, Ends, WantsFini, At, Goto, nodeVars,
          listVars, threadVars, shootVars, procVars,
          Points, Making, Winning
    <2>3. QED  BY <2>1, <2>2 DEF TInv
  <1>15. ASSUME CleanupFini(t)  PROVE TInv'
    <2>1. TypeOK'
      BY <1>0, <1>15
      DEF TypeOK, CleanupFini, Raise, At, Goto, nodeVars, listVars, threadVars, shootVars,
          procVars,
          Points, Making, Winning, NodeFlags, ProcessFlags, Hows
    <2>2. ArgSet'
      BY <1>0, <1>15
      DEF TypeOK, ArgSet, Carrying, CleanupFini, Raise, At, Goto, nodeVars, listVars,
          threadVars, shootVars, procVars,
          Points, Making, Winning
    <2>3. QED  BY <2>1, <2>2 DEF TInv
  <1>16. ASSUME CleanupDone(t)  PROVE TInv'
    <2>1. TypeOK'
      BY <1>0, <1>16
      DEF TypeOK, CleanupDone, Raise, At, Goto, nodeVars, listVars, threadVars, shootVars,
          procVars,
          Points, Making, Winning, NodeFlags, ProcessFlags, Hows
    <2>2. ArgSet'
      BY <1>0, <1>16
      DEF TypeOK, ArgSet, Carrying, CleanupDone, Raise, At, Goto, nodeVars, listVars,
          threadVars, shootVars, procVars,
          Points, Making, Winning
    <2>3. QED  BY <2>1, <2>2 DEF TInv
  <1>17. ASSUME UnlinkThreadNode(t)  PROVE TInv'
    <2>1. TypeOK'
      <3>1. arg[t] \in ArrayNodes
        BY <1>0, <1>17 DEF UnlinkThreadNode, At, ArgSet, Carrying
      <3>2. /\ tn' \in [Nodes -> SUBSET NodeFlags]
            /\ tn_self' \in [Nodes -> Threads \cup {NoThread}]
            /\ tn_tid' \in [Nodes -> Int]
        BY <1>0, <1>17 DEF UnlinkThreadNode, TypeOK, Raise, NodeFlags
      <3>3. thread_list' \subseteq ArrayNodes /\ free_list' \subseteq ArrayNodes
        BY <1>0, <1>17, <3>1 DEF UnlinkThreadNode, ListRemove, TypeOK
      <3>4. QED
        BY <1>0, <1>17, <3>2, <3>3, SetFacts
        DEF TypeOK, UnlinkThreadNode, Unlock, Ends, Goto, procVars, Points
    <2>2. ArgSet'
      BY <1>0, <1>17, SetFacts
      DEF TypeOK, ArgSet, Carrying, UnlinkThreadNode, Raise, Unlock, Ends, At, Goto,
          nodeVars, listVars, threadVars, shootVars, procVars,
          Points, Making, Winning
    <2>3. QED  BY <2>1, <2>2 DEF TInv
  <1>18. ASSUME NEW h \in Hows, EndProcess(t, h) /\ handler' \subseteq handler  PROVE TInv'
    <2>1. TypeOK'
      <3>1. tn' \in [Nodes -> SUBSET NodeFlags]
        BY <1>0, <1>18 DEF EndProcess, TypeOK, Raise, NodeFlags
      <3>2. flag' \subseteq ProcessFlags
        BY <1>0, <1>18 DEF EndProcess, TypeOK, ProcessFlags
      <3>3. pc' \in [Threads -> Points]
        BY <1>0, <1>18 DEF EndProcess, TypeOK, Goto, Points, Winning
      <3>4. QED
        BY <1>0, <1>18, <3>1, <3>2, <3>3 DEF EndProcess, TypeOK, listVars, procVars
    <2>2. ArgSet'
      BY <1>0, <1>18
      DEF TypeOK, ArgSet, Carrying, EndProcess, Raise, At, Goto, nodeVars, listVars,
          threadVars, shootVars, procVars,
          Points, Making, Winning
    <2>3. QED  BY <2>1, <2>2 DEF TInv
  <1>19. ASSUME ShootBegin(t)  PROVE TInv'
    <2>1. TypeOK'
      BY <1>0, <1>19
      DEF TypeOK, ShootBegin, Unlock, NoShoot, At, Goto, nodeVars, listVars, threadVars,
          shootVars, procVars,
          Points, Making, Winning, NodeFlags, ProcessFlags, Hows
    <2>2. ArgSet'
      BY <1>0, <1>19
      DEF TypeOK, ArgSet, Carrying, ShootBegin, Unlock, NoShoot, At, Goto, nodeVars,
          listVars, threadVars, shootVars, procVars,
          Points, Making, Winning
    <2>3. QED  BY <2>1, <2>2 DEF TInv
  <1>20. ASSUME NEW n \in Nodes, ScanNode(t, n)  PROVE TInv'
    <2>1. TypeOK'
      <3>1. n \in ArrayNodes
        BY <1>0, <1>20 DEF ScanNode, TypeOK
      <3>2. shoot' \in [todo : SUBSET ArrayNodes, my_tn : ArrayNodes \cup {NoNode},
                        started : SUBSET ArrayNodes, last : Nat,
                        unstarted : SUBSET ArrayNodes, unfinished : SUBSET ArrayNodes]
        <4> DEFINE Shoots == [todo : SUBSET ArrayNodes, my_tn : ArrayNodes \cup {NoNode},
                              started : SUBSET ArrayNodes, last : Nat,
                              unstarted : SUBSET ArrayNodes, unfinished : SUBSET ArrayNodes]
        <4>1. shoot \in Shoots
          BY <1>0 DEF TypeOK
        <4>2. /\ [shoot EXCEPT !.todo = @ \ {n}, !.my_tn = n] \in Shoots
              /\ [shoot EXCEPT !.todo = @ \ {n}] \in Shoots
          BY <3>1, <4>1
        <4>3. /\ shoot.started \cup {n} \in SUBSET ArrayNodes
              /\ shoot.unstarted \cup {n} \in SUBSET ArrayNodes
              /\ shoot.unfinished \cup {n} \in SUBSET ArrayNodes
              /\ shoot.started \in SUBSET ArrayNodes
              /\ shoot.unstarted \in SUBSET ArrayNodes
              /\ shoot.unfinished \in SUBSET ArrayNodes
          BY <3>1, <4>1
        <4> DEFINE a == IF "fini_started" \in tn[n] THEN shoot.started \cup {n}
                                                     ELSE shoot.started
                   b == IF "fini_started" \in tn[n] THEN shoot.unstarted
                                                     ELSE shoot.unstarted \cup {n}
                   c == IF Unfinished(n) THEN shoot.unfinished \cup {n} ELSE shoot.unfinished
        <4>5. a \in SUBSET ArrayNodes /\ b \in SUBSET ArrayNodes /\ c \in SUBSET ArrayNodes
          BY <4>3
        <4>6. \/ shoot' = [shoot EXCEPT !.todo = @ \ {n}, !.my_tn = n]
              \/ shoot' = [shoot EXCEPT !.todo = @ \ {n}]
              \/ shoot' = [shoot EXCEPT !.todo = @ \ {n}, !.started = a, !.unstarted = b,
                                         !.unfinished = c]
          BY <1>20 DEF ScanNode
        <4> HIDE DEF a, b, c
        <4>7. [shoot EXCEPT !.todo = @ \ {n}, !.started = a, !.unstarted = b,
                            !.unfinished = c] \in Shoots
          BY <4>1, <4>5
        <4> HIDE DEF Shoots
        <4>8. shoot' \in Shoots
          BY <4>2, <4>6, <4>7
        <4>9. QED  BY <4>8 DEF Shoots
      <3>3. pending' \subseteq Threads \cup {NoThread}
        BY <1>0, <1>20, <3>1, SetFacts DEF ScanNode, TypeOK
      <3>4. QED
        BY <1>0, <1>20, <3>2, <3>3
        DEF ScanNode, TypeOK, nodeVars, listVars, threadVars, procVars
    <2>2. ArgSet'
      BY <1>0, <1>20
      DEF TypeOK, ArgSet, Carrying, ScanNode, At, Goto, nodeVars, listVars, threadVars,
          shootVars, procVars,
          Points, Making, Winning
    <2>3. QED  BY <2>1, <2>2 DEF TInv
  <1>21. ASSUME ScanAgain(t)  PROVE TInv'
    <2>1. TypeOK'
      BY <1>0, <1>21, CardFact
      DEF TypeOK, ScanAgain, At, Goto, nodeVars, listVars, threadVars, shootVars, procVars,
          Points, Making, Winning, NodeFlags, ProcessFlags, Hows
    <2>2. ArgSet'
      BY <1>0, <1>21, CardFact
      DEF TypeOK, ArgSet, Carrying, ScanAgain, At, Goto, nodeVars, listVars, threadVars,
          shootVars, procVars,
          Points, Making, Winning
    <2>3. QED  BY <2>1, <2>2 DEF TInv
  <1>22. ASSUME ThreadsDone(t)  PROVE TInv'
    <2>1. TypeOK'
      BY <1>0, <1>22
      DEF TypeOK, ThreadsDone, Raise, At, Goto, nodeVars, listVars, threadVars, shootVars,
          procVars,
          Points, Making, Winning, NodeFlags, ProcessFlags, Hows
    <2>2. ArgSet'
      BY <1>0, <1>22
      DEF TypeOK, ArgSet, Carrying, ThreadsDone, Raise, At, Goto, nodeVars, listVars,
          threadVars, shootVars, procVars,
          Points, Making, Winning
    <2>3. QED  BY <2>1, <2>2 DEF TInv
  <1>23. ASSUME OwnFini(t)  PROVE TInv'
    <2>1. TypeOK'
      BY <1>0, <1>23
      DEF TypeOK, OwnFini, Raise, At, Goto, nodeVars, listVars, threadVars, shootVars, procVars,
          Points, Making, Winning, NodeFlags, ProcessFlags, Hows
    <2>2. ArgSet'
      BY <1>0, <1>23
      DEF TypeOK, ArgSet, Carrying, OwnFini, Raise, At, Goto, nodeVars, listVars,
          threadVars, shootVars, procVars,
          Points, Making, Winning
    <2>3. QED  BY <2>1, <2>2 DEF TInv
  <1>24. ASSUME FiniProcess(t)  PROVE TInv'
    <2>1. TypeOK'
      BY <1>0, <1>24
      DEF TypeOK, FiniProcess, NoShoot, At, Goto, nodeVars, listVars, threadVars, shootVars,
          procVars,
          Points, Making, Winning, NodeFlags, ProcessFlags, Hows
    <2>2. ArgSet'
      BY <1>0, <1>24
      DEF TypeOK, ArgSet, Carrying, FiniProcess, NoShoot, At, Goto, nodeVars, listVars,
          threadVars, shootVars, procVars,
          Points, Making, Winning
    <2>3. QED  BY <2>1, <2>2 DEF TInv
  <1>25. ASSUME LoserLeaves(t)  PROVE TInv'
    <2>1. TypeOK'
      BY <1>0, <1>25
      DEF TypeOK, LoserLeaves, At, Goto, nodeVars, listVars, threadVars, shootVars, procVars,
          Points, Making, Winning, NodeFlags, ProcessFlags, Hows
    <2>2. ArgSet'
      BY <1>0, <1>25
      DEF TypeOK, ArgSet, Carrying, LoserLeaves, At, Goto, nodeVars, listVars, threadVars,
          shootVars, procVars,
          Points, Making, Winning
    <2>3. QED  BY <2>1, <2>2 DEF TInv
  <1>26. ASSUME ProcessEnds(t)  PROVE TInv'
    <2>1. TypeOK'
      BY <1>0, <1>26
      DEF TypeOK, ProcessEnds, At, Goto, nodeVars, listVars, threadVars, shootVars, procVars,
          Points, Making, Winning, NodeFlags, ProcessFlags, Hows
    <2>2. ArgSet'
      BY <1>0, <1>26
      DEF TypeOK, ArgSet, Carrying, ProcessEnds, At, Goto, nodeVars, listVars, threadVars,
          shootVars, procVars,
          Points, Making, Winning
    <2>3. QED  BY <2>1, <2>2 DEF TInv
  <1>27. ASSUME ExecFails(t)  PROVE TInv'
    <2>1. TypeOK'
      BY <1>0, <1>27
      DEF TypeOK, ExecFails, Home, At, Goto, nodeVars, listVars, threadVars, shootVars,
          procVars,
          Points, Making, Winning, NodeFlags, ProcessFlags, Hows
    <2>2. ArgSet'
      BY <1>0, <1>27
      DEF TypeOK, ArgSet, Carrying, ExecFails, Home, At, Goto, nodeVars, listVars,
          threadVars, shootVars, procVars,
          Points, Making, Winning
    <2>3. QED  BY <2>1, <2>2 DEF TInv
  <1>28. ASSUME MainThreadEnds(t)  PROVE TInv'
    <2>1. TypeOK'
      BY <1>0, <1>28, SetFacts
      DEF TypeOK, MainThreadEnds, Ends, At, Goto, nodeVars, listVars, threadVars, shootVars,
          procVars,
          Points, Making, Winning, NodeFlags, ProcessFlags, Hows
    <2>2. ArgSet'
      BY <1>0, <1>28, SetFacts
      DEF TypeOK, ArgSet, Carrying, MainThreadEnds, Ends, At, Goto, nodeVars, listVars,
          threadVars, shootVars, procVars,
          Points, Making, Winning
    <2>3. QED  BY <2>1, <2>2 DEF TInv
  <1>29. ASSUME ShootdownHandler(t)  PROVE TInv'
    <2>1. TypeOK'
      BY <1>0, <1>29
      DEF TypeOK, ShootdownHandler, Raise, At, Goto, nodeVars, listVars, threadVars,
          shootVars, procVars,
          Points, Making, Winning, NodeFlags, ProcessFlags, Hows
    <2>2. ArgSet'
      BY <1>0, <1>29
      DEF TypeOK, ArgSet, Carrying, ShootdownHandler, Raise, At, Goto, nodeVars, listVars,
          threadVars, shootVars, procVars,
          Points, Making, Winning
    <2>3. QED  BY <2>1, <2>2 DEF TInv
  <1>30. ASSUME HandlerReturns(t)  PROVE TInv'
    <2>1. TypeOK'
      BY <1>0, <1>30
      DEF TypeOK, HandlerReturns, Raise, At, Goto, nodeVars, listVars, threadVars,
          shootVars, procVars,
          Points, Making, Winning, NodeFlags, ProcessFlags, Hows
    <2>2. ArgSet'
      BY <1>0, <1>30
      DEF TypeOK, ArgSet, Carrying, HandlerReturns, Raise, At, Goto, nodeVars, listVars,
          threadVars, shootVars, procVars,
          Points, Making, Winning
    <2>3. QED  BY <2>1, <2>2 DEF TInv
  <1>31. ASSUME NEW f \in {"block_shootdown", "ignore_threads"}, ClientCall(t, f)  PROVE TInv'
    <2>1. TypeOK'
      BY <1>0, <1>31
      DEF TypeOK, ClientCall, Raise, At, Goto, nodeVars, listVars, threadVars, shootVars,
          procVars,
          Points, Making, Winning, NodeFlags, ProcessFlags, Hows
    <2>2. ArgSet'
      BY <1>0, <1>31
      DEF TypeOK, ArgSet, Carrying, ClientCall, Raise, At, Goto, nodeVars, listVars,
          threadVars, shootVars, procVars,
          Points, Making, Winning
    <2>3. QED  BY <2>1, <2>2 DEF TInv
  <1>32. ASSUME NEW real \in BOOLEAN, Fork(t, real)  PROVE TInv'
    <2>1. TypeOK'
      BY <1>0, <1>32, SetFacts, BoundsAssumption
      DEF TypeOK, Fork, monitor_reset_thread_list, NoShoot, At, Goto, nodeVars, listVars,
          threadVars, shootVars, procVars,
          Points, Making, Winning, NodeFlags, ProcessFlags, Hows
    <2>2. ArgSet'
      BY <1>0, <1>32, SetFacts, BoundsAssumption
      DEF TypeOK, ArgSet, Carrying, Fork, monitor_reset_thread_list, NoShoot, At, Goto,
          nodeVars, listVars, threadVars, shootVars, procVars,
          Points, Making, Winning
    <2>3. QED  BY <2>1, <2>2 DEF TInv
  <1>33. ASSUME PostCreate(t)  PROVE TInv'
    <2>1. TypeOK'
      BY <1>0, <1>33
      DEF TypeOK, PostCreate, Home, At, Goto, nodeVars, listVars, shootVars, procVars, Points
    <2>2. ArgSet'
      BY <1>0, <1>33
      DEF TypeOK, ArgSet, Carrying, PostCreate, Home, At, Goto, nodeVars
    <2>3. QED  BY <2>1, <2>2 DEF TInv
  <1>40. QED
    BY <1>1, <1>2, <1>3, <1>4, <1>5, <1>6, <1>7, <1>8, <1>9, <1>10, <1>11, <1>12, <1>13,
       <1>14, <1>15, <1>16, <1>17, <1>18, <1>19, <1>20, <1>21, <1>22, <1>23, <1>24, <1>25,
       <1>26, <1>27, <1>28, <1>29, <1>30, <1>31, <1>32, <1>33
    DEF Inside, Outside, ScanDone, ScanTimeout, Exit, Exec, PthreadExit, FatalSignal, Hows

\* The first thread in raises the cookie, and nobody passes it again.
LEMMA StepOneFiniProcess == TInv /\ OneFiniProcess /\ Next => OneFiniProcess'
  <1> SUFFICES ASSUME TInv, OneFiniProcess, NEW t \in Threads,
                      Inside(t) \/ Outside(t) \/ ScanTimeout(t)
               PROVE  OneFiniProcess'
    BY DEF Next
  <1>0. /\ pc \in [Threads -> Points] /\ arg \in [Threads -> ArrayNodes \cup {NoNode}]
        /\ how \in [Threads -> Hows] /\ main \in Threads /\ Main \in Threads
        /\ Workers \subseteq Threads /\ Main \notin Workers
        /\ NoNode \notin ArrayNodes
    BY SetFacts, ThreadsAssumption DEF TInv, TypeOK
  <1>1. ASSUME MonitorMain(t)  PROVE OneFiniProcess'
    BY <1>0, <1>1
    DEF OneFiniProcess, Winning, Making, First, MonitorMain, At, Goto, nodeVars, listVars,
        threadVars, shootVars, procVars
  <1>2. ASSUME ThreadRelease(t)  PROVE OneFiniProcess'
    BY <1>0, <1>2
    DEF OneFiniProcess, Winning, Making, First, ThreadRelease, At, Goto, nodeVars, listVars,
        threadVars, shootVars, procVars
  <1>3. ASSUME ThreadSupport(t)  PROVE OneFiniProcess'
    BY <1>0, <1>3
    DEF OneFiniProcess, Winning, Making, First, ThreadSupport, At, Goto, nodeVars, listVars,
        threadVars, shootVars, procVars
  <1>4. ASSUME NEW p \in {"make", "unlink", "shoot"},
               NEW q \in {"making", "unlinking", "shootset"},
               p = "make" <=> q = "making", p = "shoot" <=> q = "shootset", Lock(t, p, q)
        PROVE  OneFiniProcess'
    BY <1>0, <1>4
    DEF OneFiniProcess, Winning, Making, First, Lock, At, Goto, nodeVars, listVars,
        threadVars, shootVars, procVars
  <1>5. ASSUME CreateEnter(t)  PROVE OneFiniProcess'
    BY <1>0, <1>5
    DEF OneFiniProcess, Winning, Making, First, CreateEnter, monitor_thread_list_init, At,
        Goto, nodeVars, listVars, threadVars, shootVars, procVars
  <1>6. ASSUME NEW w \in Workers, CreateIgnored(t, w)  PROVE OneFiniProcess'
    BY <1>0, <1>6
    DEF OneFiniProcess, Winning, Making, First, CreateIgnored, monitor_thread_list_init, At,
        Goto, nodeVars, listVars, threadVars, shootVars, procVars
  <1>7. ASSUME NEW w \in Workers, CreateThread(t, w)  PROVE OneFiniProcess'
    BY <1>0, <1>7
    DEF OneFiniProcess, Winning, Making, First, CreateThread, At, Goto, nodeVars,
        listVars, threadVars, shootVars, procVars
  <1>8. ASSUME CreateFails(t)  PROVE OneFiniProcess'
    BY <1>0, <1>8
    DEF OneFiniProcess, Winning, Making, First, CreateFails, At, Goto, nodeVars,
        listVars, threadVars, shootVars, procVars
  <1>9. ASSUME BeginThread(t)  PROVE OneFiniProcess'
    BY <1>0, <1>9
    DEF OneFiniProcess, Winning, Making, First, BeginThread, At, Goto, nodeVars, listVars,
        threadVars, shootVars, procVars
  <1>10. ASSUME LinkThreadNode(t)  PROVE OneFiniProcess'
    BY <1>0, <1>10
    DEF OneFiniProcess, Winning, Making, First, LinkThreadNode, At, Goto, nodeVars,
        listVars, threadVars, shootVars, procVars
  <1>11. ASSUME LinkRefused(t)  PROVE OneFiniProcess'
    BY <1>0, <1>11
    DEF OneFiniProcess, Winning, Making, First, LinkRefused, Ends, At, Goto, nodeVars,
        listVars, threadVars, shootVars, procVars
  <1>12. ASSUME InitThread(t)  PROVE OneFiniProcess'
    BY <1>0, <1>12
    DEF OneFiniProcess, Winning, Making, First, InitThread, At, Goto, nodeVars, listVars,
        threadVars, shootVars, procVars
  <1>13. ASSUME CancelInInit(t)  PROVE OneFiniProcess'
    BY <1>0, <1>13
    DEF OneFiniProcess, Winning, Making, First, CancelInInit, Ends, At, Goto, nodeVars,
        listVars, threadVars, shootVars, procVars
  <1>14. ASSUME ThreadReturns(t)  PROVE OneFiniProcess'
    BY <1>0, <1>14
    DEF OneFiniProcess, Winning, Making, First, ThreadReturns, Ends, WantsFini, At, Goto,
        nodeVars, listVars, threadVars, shootVars, procVars
  <1>15. ASSUME CleanupFini(t)  PROVE OneFiniProcess'
    BY <1>0, <1>15
    DEF OneFiniProcess, Winning, Making, First, CleanupFini, At, Goto, nodeVars, listVars,
        threadVars, shootVars, procVars
  <1>16. ASSUME CleanupDone(t)  PROVE OneFiniProcess'
    BY <1>0, <1>16
    DEF OneFiniProcess, Winning, Making, First, CleanupDone, At, Goto, nodeVars, listVars,
        threadVars, shootVars, procVars
  <1>17. ASSUME UnlinkThreadNode(t)  PROVE OneFiniProcess'
    BY <1>0, <1>17
    DEF OneFiniProcess, Winning, Making, First, UnlinkThreadNode, Ends, At, Goto, nodeVars,
        listVars, threadVars, shootVars, procVars
  <1>18. ASSUME NEW h \in Hows, EndProcess(t, h), pc[t] # "none",
               h = "exec" => pc[t] \in {"early", "app"}
        PROVE  OneFiniProcess'
    BY <1>0, <1>18
    DEF OneFiniProcess, Winning, Making, First, EndProcess, At, Goto, nodeVars, listVars,
        threadVars, shootVars, procVars
  <1>19. ASSUME ShootBegin(t)  PROVE OneFiniProcess'
    BY <1>0, <1>19
    DEF OneFiniProcess, Winning, Making, First, ShootBegin, At, Goto, nodeVars, listVars,
        threadVars, shootVars, procVars
  <1>20. ASSUME NEW n \in Nodes, ScanNode(t, n)  PROVE OneFiniProcess'
    BY <1>0, <1>20
    DEF OneFiniProcess, Winning, Making, First, ScanNode, At, Goto, nodeVars, listVars,
        threadVars, shootVars, procVars
  <1>21. ASSUME ScanAgain(t)  PROVE OneFiniProcess'
    BY <1>0, <1>21
    DEF OneFiniProcess, Winning, Making, First, ScanAgain, At, Goto, nodeVars, listVars,
        threadVars, shootVars, procVars
  <1>22. ASSUME ThreadsDone(t), At(t, "scan")  PROVE OneFiniProcess'
    BY <1>0, <1>22
    DEF OneFiniProcess, Winning, Making, First, ThreadsDone, At, Goto, nodeVars, listVars,
        threadVars, shootVars, procVars
  <1>23. ASSUME OwnFini(t)  PROVE OneFiniProcess'
    BY <1>0, <1>23
    DEF OneFiniProcess, Winning, Making, First, OwnFini, At, Goto, nodeVars, listVars,
        threadVars, shootVars, procVars
  <1>24. ASSUME FiniProcess(t)  PROVE OneFiniProcess'
    BY <1>0, <1>24
    DEF OneFiniProcess, Winning, Making, First, FiniProcess, At, Goto, nodeVars, listVars,
        threadVars, shootVars, procVars
  <1>25. ASSUME LoserLeaves(t)  PROVE OneFiniProcess'
    BY <1>0, <1>25
    DEF OneFiniProcess, Winning, Making, First, LoserLeaves, At, Goto, nodeVars, listVars,
        threadVars, shootVars, procVars
  <1>26. ASSUME ProcessEnds(t)  PROVE OneFiniProcess'
    BY <1>0, <1>26
    DEF OneFiniProcess, Winning, Making, First, ProcessEnds, At, Goto, nodeVars, listVars,
        threadVars, shootVars, procVars
  <1>27. ASSUME ExecFails(t)  PROVE OneFiniProcess'
    BY <1>0, <1>27
    DEF OneFiniProcess, Winning, Making, First, ExecFails, Home, At, Goto, nodeVars,
        listVars, threadVars, shootVars, procVars
  <1>28. ASSUME MainThreadEnds(t)  PROVE OneFiniProcess'
    BY <1>0, <1>28
    DEF OneFiniProcess, Winning, Making, First, MainThreadEnds, Ends, At, Goto, nodeVars,
        listVars, threadVars, shootVars, procVars
  <1>29. ASSUME ShootdownHandler(t)  PROVE OneFiniProcess'
    BY <1>0, <1>29
    DEF OneFiniProcess, Winning, Making, First, ShootdownHandler, At, Goto, nodeVars,
        listVars, threadVars, shootVars, procVars
  <1>30. ASSUME HandlerReturns(t)  PROVE OneFiniProcess'
    BY <1>0, <1>30
    DEF OneFiniProcess, Winning, Making, First, HandlerReturns, At, Goto, nodeVars,
        listVars, threadVars, shootVars, procVars
  <1>31. ASSUME NEW f \in {"block_shootdown", "ignore_threads"}, ClientCall(t, f)
         PROVE  OneFiniProcess'
    BY <1>0, <1>31
    DEF OneFiniProcess, Winning, Making, First, ClientCall, At, Goto, nodeVars, listVars,
        threadVars, shootVars, procVars
  <1>32. ASSUME NEW real \in BOOLEAN, Fork(t, real)  PROVE OneFiniProcess'
    BY <1>0, <1>32
    DEF OneFiniProcess, Winning, Making, First, Fork, monitor_reset_thread_list, At, Goto,
        nodeVars, listVars, threadVars, shootVars, procVars
  <1>33. ASSUME PostCreate(t)  PROVE OneFiniProcess'
    BY <1>0, <1>33
    DEF OneFiniProcess, Winning, Making, First, PostCreate, Home, At, Goto, procVars
  <1>40. QED
    BY <1>1, <1>2, <1>3, <1>4, <1>5, <1>6, <1>7, <1>8, <1>9, <1>10, <1>11, <1>12, <1>13,
       <1>14, <1>15, <1>16, <1>17, <1>18, <1>19, <1>20, <1>21, <1>22, <1>23, <1>24, <1>25,
       <1>26, <1>27, <1>28, <1>29, <1>30, <1>31, <1>32, <1>33
    DEF Inside, Outside, ScanDone, ScanTimeout, Exit, Exec, PthreadExit, FatalSignal, Hows,
        InApplication, At

\* A fork that lowers has_used_threads empties the list and takes all others away.
LEMMA StepListInv == TInv /\ ListInv /\ Next => ListInv'
  <1> SUFFICES ASSUME TInv, ListInv, NEW t \in Threads,
                      Inside(t) \/ Outside(t) \/ ScanTimeout(t)
               PROVE  ListInv'
    BY DEF Next
  <1>0. /\ pc \in [Threads -> Points] /\ arg \in [Threads -> ArrayNodes \cup {NoNode}]
        /\ how \in [Threads -> Hows] /\ main \in Threads /\ Main \in Threads
        /\ Workers \subseteq Threads /\ Main \notin Workers
        /\ NoNode \notin ArrayNodes
    BY SetFacts, ThreadsAssumption DEF TInv, TypeOK
  <1>1. ASSUME MonitorMain(t)  PROVE ListInv'
    BY <1>0, <1>1
    DEF ListInv, Frozen, Making, Winning, MonitorMain, At, Goto, nodeVars, listVars, threadVars,
        shootVars, procVars
  <1>2. ASSUME ThreadRelease(t)  PROVE ListInv'
    BY <1>0, <1>2
    DEF ListInv, Frozen, Making, Winning, ThreadRelease, At, Goto, nodeVars, listVars, threadVars,
        shootVars, procVars
  <1>3. ASSUME ThreadSupport(t)  PROVE ListInv'
    BY <1>0, <1>3
    DEF ListInv, Frozen, Making, Winning, ThreadSupport, At, Goto, nodeVars, listVars, threadVars,
        shootVars, procVars
  <1>4. ASSUME NEW p \in {"make", "unlink", "shoot"},
               NEW q \in {"making", "unlinking", "shootset"},
               p = "make" <=> q = "making", p = "shoot" <=> q = "shootset", Lock(t, p, q)
        PROVE  ListInv'
    BY <1>0, <1>4
    DEF ListInv, Frozen, Making, Winning, Lock, At, Goto, nodeVars, listVars, threadVars, shootVars,
        procVars
  <1>5. ASSUME CreateEnter(t)  PROVE ListInv'
    BY <1>0, <1>5
    DEF ListInv, Frozen, Making, Winning, CreateEnter, monitor_thread_list_init, At, Goto, nodeVars,
        listVars, threadVars, shootVars, procVars
  <1>6. ASSUME NEW w \in Workers, CreateIgnored(t, w)  PROVE ListInv'
    BY <1>0, <1>6
    DEF ListInv, Frozen, Making, Winning, CreateIgnored, monitor_thread_list_init, At, Goto,
        nodeVars, listVars, threadVars, shootVars, procVars
  <1>7. ASSUME NEW w \in Workers, CreateThread(t, w)  PROVE ListInv'
    BY <1>0, <1>7
    DEF ListInv, Frozen, Making, Winning, CreateThread, At, Goto, nodeVars, listVars,
        threadVars, shootVars, procVars
  <1>8. ASSUME CreateFails(t)  PROVE ListInv'
    BY <1>0, <1>8
    DEF ListInv, Frozen, Making, Winning, CreateFails, At, Goto, nodeVars, listVars,
        threadVars, shootVars, procVars
  <1>9. ASSUME BeginThread(t)  PROVE ListInv'
    BY <1>0, <1>9
    DEF ListInv, Frozen, Making, Winning, BeginThread, At, Goto, nodeVars, listVars, threadVars,
        shootVars, procVars
  <1>10. ASSUME LinkThreadNode(t)  PROVE ListInv'
    BY <1>0, <1>10
    DEF ListInv, Frozen, Making, Winning, LinkThreadNode, At, Goto, nodeVars, listVars, threadVars,
        shootVars, procVars
  <1>11. ASSUME LinkRefused(t)  PROVE ListInv'
    BY <1>0, <1>11
    DEF ListInv, Frozen, Making, Winning, LinkRefused, Ends, At, Goto, nodeVars, listVars,
        threadVars, shootVars, procVars
  <1>12. ASSUME InitThread(t)  PROVE ListInv'
    BY <1>0, <1>12
    DEF ListInv, Frozen, Making, Winning, InitThread, At, Goto, nodeVars, listVars, threadVars,
        shootVars, procVars
  <1>13. ASSUME CancelInInit(t)  PROVE ListInv'
    BY <1>0, <1>13
    DEF ListInv, Frozen, Making, Winning, CancelInInit, Ends, At, Goto, nodeVars, listVars,
        threadVars, shootVars, procVars
  <1>14. ASSUME ThreadReturns(t)  PROVE ListInv'
    BY <1>0, <1>14
    DEF ListInv, Frozen, Making, Winning, ThreadReturns, Ends, WantsFini, At, Goto, nodeVars,
        listVars, threadVars, shootVars, procVars
  <1>15. ASSUME CleanupFini(t)  PROVE ListInv'
    BY <1>0, <1>15
    DEF ListInv, Frozen, Making, Winning, CleanupFini, At, Goto, nodeVars, listVars, threadVars,
        shootVars, procVars
  <1>16. ASSUME CleanupDone(t)  PROVE ListInv'
    BY <1>0, <1>16
    DEF ListInv, Frozen, Making, Winning, CleanupDone, At, Goto, nodeVars, listVars, threadVars,
        shootVars, procVars
  <1>17. ASSUME UnlinkThreadNode(t)  PROVE ListInv'
    BY <1>0, <1>17
    DEF ListInv, Frozen, Making, Winning, UnlinkThreadNode, Ends, At, Goto, nodeVars, listVars,
        threadVars, shootVars, procVars
  <1>18. ASSUME NEW h \in Hows, EndProcess(t, h), pc[t] # "none",
               h = "exec" => pc[t] \in {"early", "app"}
        PROVE  ListInv'
    BY <1>0, <1>18
    DEF ListInv, Frozen, Making, Winning, EndProcess, At, Goto, nodeVars, listVars, threadVars,
        shootVars, procVars
  <1>19. ASSUME ShootBegin(t)  PROVE ListInv'
    BY <1>0, <1>19
    DEF ListInv, Frozen, Making, Winning, ShootBegin, At, Goto, nodeVars, listVars, threadVars,
        shootVars, procVars
  <1>20. ASSUME NEW n \in Nodes, ScanNode(t, n)  PROVE ListInv'
    BY <1>0, <1>20
    DEF ListInv, Frozen, Making, Winning, ScanNode, At, Goto, nodeVars, listVars, threadVars,
        shootVars, procVars
  <1>21. ASSUME ScanAgain(t)  PROVE ListInv'
    BY <1>0, <1>21
    DEF ListInv, Frozen, Making, Winning, ScanAgain, At, Goto, nodeVars, listVars, threadVars,
        shootVars, procVars
  <1>22. ASSUME ThreadsDone(t), At(t, "scan")  PROVE ListInv'
    BY <1>0, <1>22
    DEF ListInv, Frozen, Making, Winning, ThreadsDone, At, Goto, nodeVars, listVars, threadVars,
        shootVars, procVars
  <1>23. ASSUME OwnFini(t)  PROVE ListInv'
    BY <1>0, <1>23
    DEF ListInv, Frozen, Making, Winning, OwnFini, At, Goto, nodeVars, listVars, threadVars,
        shootVars, procVars
  <1>24. ASSUME FiniProcess(t)  PROVE ListInv'
    BY <1>0, <1>24
    DEF ListInv, Frozen, Making, Winning, FiniProcess, At, Goto, nodeVars, listVars, threadVars,
        shootVars, procVars
  <1>25. ASSUME LoserLeaves(t)  PROVE ListInv'
    BY <1>0, <1>25
    DEF ListInv, Frozen, Making, Winning, LoserLeaves, At, Goto, nodeVars, listVars, threadVars,
        shootVars, procVars
  <1>26. ASSUME ProcessEnds(t)  PROVE ListInv'
    BY <1>0, <1>26
    DEF ListInv, Frozen, Making, Winning, ProcessEnds, At, Goto, nodeVars, listVars, threadVars,
        shootVars, procVars
  <1>27. ASSUME ExecFails(t)  PROVE ListInv'
    BY <1>0, <1>27
    DEF ListInv, Frozen, Making, Winning, ExecFails, Home, At, Goto, nodeVars, listVars, threadVars,
        shootVars, procVars
  <1>28. ASSUME MainThreadEnds(t)  PROVE ListInv'
    BY <1>0, <1>28
    DEF ListInv, Frozen, Making, Winning, MainThreadEnds, Ends, At, Goto, nodeVars, listVars,
        threadVars, shootVars, procVars
  <1>29. ASSUME ShootdownHandler(t)  PROVE ListInv'
    BY <1>0, <1>29
    DEF ListInv, Frozen, Making, Winning, ShootdownHandler, At, Goto, nodeVars, listVars,
        threadVars, shootVars, procVars
  <1>30. ASSUME HandlerReturns(t)  PROVE ListInv'
    BY <1>0, <1>30
    DEF ListInv, Frozen, Making, Winning, HandlerReturns, At, Goto, nodeVars, listVars, threadVars,
        shootVars, procVars
  <1>31. ASSUME NEW f \in {"block_shootdown", "ignore_threads"}, ClientCall(t, f)
         PROVE  ListInv'
    BY <1>0, <1>31
    DEF ListInv, Frozen, Making, Winning, ClientCall, At, Goto, nodeVars, listVars, threadVars,
        shootVars, procVars
  <1>32. ASSUME NEW real \in BOOLEAN, Fork(t, real)  PROVE ListInv'
    <2>1. Frozen' => thread_list' = {}
      BY <1>32 DEF Fork, monitor_reset_thread_list, ListInv, Frozen
    <2>2. \A u \in Threads : pc'[u] \in {"none", "begin", "early", "app"}
      BY <1>0, <1>32 DEF Fork, InApplication, At
    <2>3. QED  BY <2>1, <2>2 DEF ListInv, Making
  <1>33. ASSUME PostCreate(t)  PROVE ListInv'
    BY <1>0, <1>33
    DEF ListInv, Frozen, Making, Winning, PostCreate, Home, At, Goto, nodeVars, listVars,
        threadVars, shootVars, procVars
  <1>40. QED
    BY <1>1, <1>2, <1>3, <1>4, <1>5, <1>6, <1>7, <1>8, <1>9, <1>10, <1>11, <1>12, <1>13,
       <1>14, <1>15, <1>16, <1>17, <1>18, <1>19, <1>20, <1>21, <1>22, <1>23, <1>24, <1>25,
       <1>26, <1>27, <1>28, <1>29, <1>30, <1>31, <1>32, <1>33
    DEF Inside, Outside, ScanDone, ScanTimeout, Exit, Exec, PthreadExit, FatalSignal, Hows,
        InApplication, At

\* Main's way and the threads'.
LEMMA StepOrderInv == TInv /\ OrderInv /\ Next => OrderInv'
  <1> SUFFICES ASSUME TInv, OrderInv, NEW t \in Threads,
                      Inside(t) \/ Outside(t) \/ ScanTimeout(t)
               PROVE  OrderInv'
    BY DEF Next
  <1>0. /\ pc \in [Threads -> Points] /\ arg \in [Threads -> ArrayNodes \cup {NoNode}]
        /\ how \in [Threads -> Hows] /\ main \in Threads /\ Main \in Threads
        /\ Workers \subseteq Threads /\ Main \notin Workers
        /\ NoNode \notin ArrayNodes
    BY SetFacts, ThreadsAssumption DEF TInv, TypeOK
  <1>1. ASSUME MonitorMain(t)  PROVE OrderInv'
    BY <1>0, <1>1
    DEF OrderInv, Started, OnTheWayToMain, Making, Winning, SupportReady, InApplication,
        MonitorMain, At, Goto, nodeVars, listVars, threadVars, shootVars, procVars
  <1>2. ASSUME ThreadRelease(t)  PROVE OrderInv'
    <2>1. t \in Workers => t = main /\ pc[Main] = "none"
      BY <1>0, <1>2 DEF ThreadRelease, At, OrderInv, OnTheWayToMain
    <2>2. "main_called" \in flag
      BY <1>0, <1>2 DEF ThreadRelease, At, OrderInv, OnTheWayToMain
    <2>3. CASE t = Main
      BY <1>0, <1>2, <2>2, <2>3
      DEF ThreadRelease, OrderInv, Started, OnTheWayToMain, Making, Winning, At, Goto,
          procVars, threadVars
    <2>4. CASE t \in Workers
      BY <1>0, <1>2, <2>1, <2>2, <2>4
      DEF ThreadRelease, OrderInv, Started, OnTheWayToMain, Making, Winning, At, Goto,
          procVars, threadVars
    <2>5. QED  BY <2>3, <2>4 DEF Threads
  <1>3. ASSUME ThreadSupport(t)  PROVE OrderInv'
    <2>1. CASE At(t, "release")
      <3>1. t \in Workers => t = main /\ pc[Main] = "none"
        BY <1>0, <2>1 DEF At, OrderInv, OnTheWayToMain
      <3>2. "main_called" \in flag
        BY <1>0, <2>1 DEF At, OrderInv, OnTheWayToMain
      <3>3. CASE t = Main
        BY <1>0, <1>3, <2>1, <3>2, <3>3
        DEF ThreadSupport, OrderInv, Started, OnTheWayToMain, Making, Winning, At, Goto,
            procVars, threadVars
      <3>4. CASE t \in Workers
        BY <1>0, <1>3, <2>1, <3>1, <3>2, <3>4
        DEF ThreadSupport, OrderInv, Started, OnTheWayToMain, Making, Winning, At, Goto,
            procVars, threadVars
      <3>5. QED  BY <3>3, <3>4 DEF Threads
    <2>2. CASE At(t, "support")
      BY <1>0, <1>3, <2>2
      DEF ThreadSupport, OrderInv, Started, OnTheWayToMain, Making, Winning, At, Goto,
          procVars, threadVars
    <2>3. QED  BY <1>3, <2>1, <2>2 DEF ThreadSupport
  <1>4. ASSUME NEW p \in {"make", "unlink", "shoot"},
               NEW q \in {"making", "unlinking", "shootset"},
               p = "make" <=> q = "making", p = "shoot" <=> q = "shootset", Lock(t, p, q)
        PROVE  OrderInv'
    BY <1>0, <1>4
    DEF OrderInv, Started, OnTheWayToMain, Making, Winning, SupportReady, InApplication,
        Lock, At, Goto, nodeVars, listVars, threadVars, shootVars, procVars
  <1>5. ASSUME CreateEnter(t)  PROVE OrderInv'
    BY <1>0, <1>5
    DEF OrderInv, Started, OnTheWayToMain, Making, Winning, SupportReady, InApplication,
        CreateEnter, monitor_thread_list_init, At, Goto, nodeVars, listVars, threadVars,
        shootVars, procVars
  <1>6. ASSUME NEW w \in Workers, CreateIgnored(t, w)  PROVE OrderInv'
    <2>1. arg[w] = NoNode /\ w # Main /\ w # t /\ pc[t] # "none"
      BY <1>0, <1>6 DEF CreateIgnored, InApplication, At, OrderInv
    <2>2. ~(pc[Main] \in OnTheWayToMain /\ "has_reached_main" \in flag)
      BY <1>0, <1>6 DEF CreateIgnored, InApplication, At, OrderInv, OnTheWayToMain, Threads
    <2>3. /\ pc' = [pc EXCEPT ![w] = "app"]
          /\ flag' \in {flag, flag \cup {"has_used_threads"}}
          /\ arg' = arg /\ how' = how /\ main' = main
      BY <1>6 DEF CreateIgnored, monitor_thread_list_init, Goto, procVars
    <2>4. QED
      BY <1>0, <2>1, <2>2, <2>3
      DEF OrderInv, Started, OnTheWayToMain, Making, Winning
  <1>7. ASSUME NEW w \in Workers, CreateThread(t, w)  PROVE OrderInv'
    <2>1. w # Main /\ w # t /\ pc[w] = "none" /\ pc[t] = "making"
      BY <1>0, <1>7 DEF CreateThread, At
    <2>2. ~(pc[Main] \in OnTheWayToMain /\ "has_reached_main" \in flag)
      BY <1>0, <2>1 DEF OrderInv, OnTheWayToMain, Threads
    <2>3. /\ pc' = [pc EXCEPT ![t] = "posting", ![w] = "wait"]
          /\ flag' = flag /\ how' = how /\ main' = main
          /\ \E n \in ArrayNodes : arg' = [arg EXCEPT ![w] = n]
      BY <1>7 DEF CreateThread, procVars
    <2>4. QED
      BY <1>0, <2>1, <2>2, <2>3
      DEF OrderInv, Started, OnTheWayToMain, Making, Winning
  <1>8. ASSUME CreateFails(t)  PROVE OrderInv'
    BY <1>0, <1>8
    DEF OrderInv, Started, OnTheWayToMain, Making, Winning, SupportReady, InApplication,
        CreateFails, At, Goto, nodeVars, listVars, threadVars, shootVars, procVars
  <1>9. ASSUME BeginThread(t)  PROVE OrderInv'
    BY <1>0, <1>9
    DEF OrderInv, Started, OnTheWayToMain, Making, Winning, SupportReady, InApplication,
        BeginThread, At, Goto, nodeVars, listVars, threadVars, shootVars, procVars
  <1>10. ASSUME LinkThreadNode(t)  PROVE OrderInv'
    BY <1>0, <1>10
    DEF OrderInv, Started, OnTheWayToMain, Making, Winning, SupportReady, InApplication,
        LinkThreadNode, At, Goto, nodeVars, listVars, threadVars, shootVars, procVars
  <1>11. ASSUME LinkRefused(t)  PROVE OrderInv'
    BY <1>0, <1>11
    DEF OrderInv, Started, OnTheWayToMain, Making, Winning, SupportReady, InApplication,
        LinkRefused, Ends, At, Goto, nodeVars, listVars, threadVars, shootVars, procVars
  <1>12. ASSUME InitThread(t)  PROVE OrderInv'
    BY <1>0, <1>12
    DEF OrderInv, Started, OnTheWayToMain, Making, Winning, SupportReady, InApplication,
        InitThread, At, Goto, nodeVars, listVars, threadVars, shootVars, procVars
  <1>13. ASSUME CancelInInit(t)  PROVE OrderInv'
    BY <1>0, <1>13
    DEF OrderInv, Started, OnTheWayToMain, Making, Winning, SupportReady, InApplication,
        CancelInInit, Ends, At, Goto, nodeVars, listVars, threadVars, shootVars, procVars
  <1>14. ASSUME ThreadReturns(t)  PROVE OrderInv'
    BY <1>0, <1>14
    DEF OrderInv, Started, OnTheWayToMain, Making, Winning, SupportReady, InApplication,
        ThreadReturns, Ends, WantsFini, At, Goto, nodeVars, listVars, threadVars, shootVars,
        procVars
  <1>15. ASSUME CleanupFini(t)  PROVE OrderInv'
    BY <1>0, <1>15
    DEF OrderInv, Started, OnTheWayToMain, Making, Winning, SupportReady, InApplication,
        CleanupFini, At, Goto, nodeVars, listVars, threadVars, shootVars, procVars
  <1>16. ASSUME CleanupDone(t)  PROVE OrderInv'
    BY <1>0, <1>16
    DEF OrderInv, Started, OnTheWayToMain, Making, Winning, SupportReady, InApplication,
        CleanupDone, At, Goto, nodeVars, listVars, threadVars, shootVars, procVars
  <1>17. ASSUME UnlinkThreadNode(t)  PROVE OrderInv'
    BY <1>0, <1>17
    DEF OrderInv, Started, OnTheWayToMain, Making, Winning, SupportReady, InApplication,
        UnlinkThreadNode, Ends, At, Goto, nodeVars, listVars, threadVars, shootVars,
        procVars
  <1>18. ASSUME NEW h \in Hows, EndProcess(t, h), pc[t] # "none",
               h = "exec" => pc[t] \in {"early", "app"}
        PROVE  OrderInv'
    BY <1>0, <1>18
    DEF OrderInv, Started, OnTheWayToMain, Making, Winning, SupportReady, InApplication,
        EndProcess, At, Goto, nodeVars, listVars, threadVars, shootVars, procVars
  <1>19. ASSUME ShootBegin(t)  PROVE OrderInv'
    BY <1>0, <1>19
    DEF OrderInv, Started, OnTheWayToMain, Making, Winning, SupportReady, InApplication,
        ShootBegin, At, Goto, nodeVars, listVars, threadVars, shootVars, procVars
  <1>20. ASSUME NEW n \in Nodes, ScanNode(t, n)  PROVE OrderInv'
    BY <1>0, <1>20
    DEF OrderInv, Started, OnTheWayToMain, Making, Winning, SupportReady, InApplication,
        ScanNode, At, Goto, nodeVars, listVars, threadVars, shootVars, procVars
  <1>21. ASSUME ScanAgain(t)  PROVE OrderInv'
    BY <1>0, <1>21
    DEF OrderInv, Started, OnTheWayToMain, Making, Winning, SupportReady, InApplication,
        ScanAgain, At, Goto, nodeVars, listVars, threadVars, shootVars, procVars
  <1>22. ASSUME ThreadsDone(t), At(t, "scan")  PROVE OrderInv'
    BY <1>0, <1>22
    DEF OrderInv, Started, OnTheWayToMain, Making, Winning, SupportReady, InApplication,
        ThreadsDone, At, Goto, nodeVars, listVars, threadVars, shootVars, procVars
  <1>23. ASSUME OwnFini(t)  PROVE OrderInv'
    BY <1>0, <1>23
    DEF OrderInv, Started, OnTheWayToMain, Making, Winning, SupportReady, InApplication,
        OwnFini, At, Goto, nodeVars, listVars, threadVars, shootVars, procVars
  <1>24. ASSUME FiniProcess(t)  PROVE OrderInv'
    BY <1>0, <1>24
    DEF OrderInv, Started, OnTheWayToMain, Making, Winning, SupportReady, InApplication,
        FiniProcess, At, Goto, nodeVars, listVars, threadVars, shootVars, procVars
  <1>25. ASSUME LoserLeaves(t)  PROVE OrderInv'
    BY <1>0, <1>25
    DEF OrderInv, Started, OnTheWayToMain, Making, Winning, SupportReady, InApplication,
        LoserLeaves, At, Goto, nodeVars, listVars, threadVars, shootVars, procVars
  <1>26. ASSUME ProcessEnds(t)  PROVE OrderInv'
    BY <1>0, <1>26
    DEF OrderInv, Started, OnTheWayToMain, Making, Winning, SupportReady, InApplication,
        ProcessEnds, At, Goto, nodeVars, listVars, threadVars, shootVars, procVars
  <1>27. ASSUME ExecFails(t)  PROVE OrderInv'
    BY <1>0, <1>27
    DEF OrderInv, Started, OnTheWayToMain, Making, Winning, SupportReady, InApplication,
        ExecFails, Home, At, Goto, nodeVars, listVars, threadVars, shootVars, procVars
  <1>28. ASSUME MainThreadEnds(t)  PROVE OrderInv'
    BY <1>0, <1>28
    DEF OrderInv, Started, OnTheWayToMain, Making, Winning, SupportReady, InApplication,
        MainThreadEnds, Ends, At, Goto, nodeVars, listVars, threadVars, shootVars, procVars
  <1>29. ASSUME ShootdownHandler(t)  PROVE OrderInv'
    BY <1>0, <1>29
    DEF OrderInv, Started, OnTheWayToMain, Making, Winning, SupportReady, InApplication,
        ShootdownHandler, At, Goto, nodeVars, listVars, threadVars, shootVars, procVars
  <1>30. ASSUME HandlerReturns(t)  PROVE OrderInv'
    BY <1>0, <1>30
    DEF OrderInv, Started, OnTheWayToMain, Making, Winning, SupportReady, InApplication,
        HandlerReturns, At, Goto, nodeVars, listVars, threadVars, shootVars, procVars
  <1>31. ASSUME NEW f \in {"block_shootdown", "ignore_threads"}, ClientCall(t, f)
         PROVE  OrderInv'
    BY <1>0, <1>31
    DEF OrderInv, Started, OnTheWayToMain, Making, Winning, SupportReady, InApplication,
        ClientCall, At, Goto, nodeVars, listVars, threadVars, shootVars, procVars
  <1>32. ASSUME NEW real \in BOOLEAN, Fork(t, real)  PROVE OrderInv'
    BY <1>0, <1>32
    DEF OrderInv, Started, OnTheWayToMain, Making, Winning, SupportReady, InApplication,
        Fork, monitor_reset_thread_list, At, Goto, nodeVars, listVars, threadVars,
        shootVars, procVars
  <1>33. ASSUME PostCreate(t)  PROVE OrderInv'
    BY <1>0, <1>33
    DEF OrderInv, Started, OnTheWayToMain, Making, Winning, PostCreate, Home, At, Goto,
        nodeVars, listVars, threadVars, shootVars, procVars
  <1>40. QED
    BY <1>1, <1>2, <1>3, <1>4, <1>5, <1>6, <1>7, <1>8, <1>9, <1>10, <1>11, <1>12, <1>13,
       <1>14, <1>15, <1>16, <1>17, <1>18, <1>19, <1>20, <1>21, <1>22, <1>23, <1>24, <1>25,
       <1>26, <1>27, <1>28, <1>29, <1>30, <1>31, <1>32, <1>33
    DEF Inside, Outside, ScanDone, ScanTimeout, Exit, Exec, PthreadExit, FatalSignal, Hows,
        InApplication, At

\* A node that is handed out was fresh or free, and is neither any longer.
LEMMA MadeFact ==
    ASSUME TInv, NodeInv, NEW n \in ArrayNodes, MakeThreadNode(n)
    PROVE  /\ n \in Fresh \cup free_list /\ n \notin free_list'
           /\ Fresh' \subseteq Fresh \ {n} /\ free_list' \subseteq free_list
  <1>1. /\ tn_array \in Nat /\ tn_array_pos \in 0 .. ArraySize /\ ArraySize \in Nat
        /\ ArrayNodes \subseteq Int
    BY BoundsAssumption DEF TInv, TypeOK, ArrayNodes
  <1>2. CASE FromFreeList(n)
    <2>1. Fresh' = Fresh
      BY <1>2 DEF FromFreeList, Fresh, Handed
    <2>2. QED  BY <1>2, <2>1 DEF FromFreeList, NodeInv
  <1>3. CASE FromArray(n)
    <2>1. PICK b \in Nat : b = tn_array * ArraySize
      BY <1>1
    <2>2. /\ n = b + tn_array_pos + 1
          /\ Handed = b + tn_array_pos /\ Handed' = b + tn_array_pos + 1
      BY <1>1, <1>3, <2>1 DEF FromArray, Handed
    <2>3. free_list = {} /\ free_list' = {}
      BY <1>3 DEF FromArray
    <2>4. n > Handed /\ ~(n > Handed')
      BY <1>1, <2>2
    <2>5. \A m \in ArrayNodes : m > Handed' => m > Handed
      BY <1>1, <2>2
    <2>6. QED  BY <2>3, <2>4, <2>5 DEF Fresh
  <1>4. CASE FromNewArray(n)
    <2>1. PICK b \in Nat : b = tn_array * ArraySize
      BY <1>1
    <2>2. (tn_array + 1) * ArraySize = b + ArraySize
      BY <1>1, <2>1
    <2>3. /\ n = b + ArraySize + 1 /\ tn_array_pos = ArraySize
          /\ Handed = b + tn_array_pos /\ Handed' = b + ArraySize + 1
      BY <1>1, <1>4, <2>1, <2>2 DEF FromNewArray, Handed
    <2>4. free_list = {} /\ free_list' = {}
      BY <1>4 DEF FromNewArray
    <2>5. n > Handed /\ ~(n > Handed')
      BY <1>1, <2>3
    <2>6. \A m \in ArrayNodes : m > Handed' => m > Handed
      BY <1>1, <2>3
    <2>7. QED  BY <2>4, <2>5, <2>6 DEF Fresh
  <1>5. QED  BY <1>2, <1>3, <1>4 DEF MakeThreadNode

\* A thread that ends leaves its node where it is.
LEMMA EndKeeps ==
    ASSUME TInv, NodeInv, NEW t \in Threads, Ends(t), UNCHANGED <<flag, listVars>>,
           \A u \in Threads \ {t} : how'[u] = how[u]
    PROVE  NodeInv'
  <1>0. /\ pc \in [Threads -> Points] /\ arg \in [Threads -> ArrayNodes \cup {NoNode}]
        /\ main \in Threads /\ Main \in Threads
    BY SetFacts DEF TInv, TypeOK
  <1>1. /\ Fresh' = Fresh /\ UNCHANGED <<thread_list, free_list>>
        /\ pc'[t] = "none" /\ arg'[t] = NoNode
        /\ \A u \in Threads \ {t} : pc'[u] = pc[u] /\ arg'[u] = arg[u] /\ how'[u] = how[u]
        /\ main' = IF t = main THEN Main ELSE main
    BY <1>0 DEF Ends, Goto, Fresh, Handed, listVars
  <1>2. arg'[Main] = NoNode /\ arg[Main] = NoNode
    BY <1>0, <1>1 DEF NodeInv
  <1>3. Holds(t)' = {} /\ \A u \in Threads \ {t} : Holds(u)' = Holds(u)
    BY <1>0, <1>1, <1>2 DEF Holds, Exempt
  <1>4. \A u \in Threads : Linked(u)' /\ arg'[u] # NoNode /\ u # main' => arg'[u] \in thread_list'
    BY <1>0, <1>1, <1>2 DEF NodeInv, Linked
  <1>5. pc'[main'] \notin Cleaning
    <2>1. pc[Main] \notin Cleaning
      BY <1>0, <1>2, SetFacts DEF TInv, ArgSet, Carrying, Cleaning
    <2>2. QED  BY <1>0, <1>1, <2>1 DEF NodeInv, Cleaning
  <1>6. QED  BY <1>0, <1>1, <1>2, <1>3, <1>4, <1>5 DEF NodeInv

\* Nodes move between the fresh ones, the threads and the lists, one at a time.
LEMMA StepNodeInv ==
    TInv /\ ListInv /\ OrderInv /\ NodeInv /\ Next /\ ~strayed' => NodeInv'
  <1> SUFFICES ASSUME TInv, ListInv, OrderInv, NodeInv, ~strayed', NEW t \in Threads,
                      Inside(t) \/ Outside(t) \/ ScanTimeout(t)
               PROVE  NodeInv'
    BY DEF Next
  <1>0. /\ pc \in [Threads -> Points] /\ arg \in [Threads -> ArrayNodes \cup {NoNode}]
        /\ how \in [Threads -> Hows] /\ main \in Threads /\ Main \in Threads
        /\ Workers \subseteq Threads /\ Main \notin Workers /\ NoNode \notin ArrayNodes
        /\ TInv /\ ListInv /\ NodeInv
        /\ \A u \in Threads : pc[u] = "early" => u = Main
        /\ \A u \in Threads : pc[u] \in {"begin", "release"} => u \in {main, Main}
        /\ \A u, v \in Threads : pc[v] # "none" /\ pc[u] = "none" => arg[u] = NoNode
    BY SetFacts, ThreadsAssumption DEF TInv, TypeOK, OrderInv, OnTheWayToMain, Threads
  <1>1. ASSUME MonitorMain(t)  PROVE NodeInv'
    <2>1. Fresh' = Fresh
      BY <1>1 DEF MonitorMain, Fresh, Handed, listVars
    <2>2. QED
      BY <1>0, <1>1, <2>1
      DEF NodeInv, Holds, Exempt, Linked, Cleaning, Making, Winning, MonitorMain, At, Goto,
          nodeVars, listVars, threadVars, shootVars, procVars
  <1>2. ASSUME ThreadRelease(t)  PROVE NodeInv'
    <2>1. /\ Fresh' = Fresh
          /\ UNCHANGED <<thread_list, free_list, arg, how, main>>
      BY <1>2 DEF ThreadRelease, Fresh, Handed, listVars, procVars
    <2>2. /\ pc[t] \in {"begin", "release", "support"}
          /\ pc[t] # "support" => t \in {main, Main} /\ pc'[t] \in {"release", "app"}
          /\ pc[t] = "support" => pc'[t] = "make"
          /\ \A u \in Threads \ {t} : pc'[u] = pc[u]
      BY <1>0, <1>2 DEF ThreadRelease, At, Goto
    <2>3. \A u \in Threads : Holds(u)' = Holds(u)
      BY <1>0, <2>1, <2>2 DEF Holds, Exempt
    <2>4. \A u \in Threads : Linked(u)' => Linked(u) \/ u \in {main, Main}
      BY <1>0, <2>1, <2>2 DEF Linked, Making, Cleaning, Winning
    <2>5. pc'[main] \notin Cleaning
      BY <1>0, <2>2 DEF NodeInv, Cleaning
    <2>6. "has_used_threads" \notin flag' => "has_used_threads" \notin flag
      BY <1>2 DEF ThreadRelease
    <2>7. QED  BY <1>0, <2>1, <2>3, <2>4, <2>5, <2>6 DEF NodeInv
  <1>3. ASSUME ThreadSupport(t)  PROVE NodeInv'
    <2>1. /\ Fresh' = Fresh
          /\ UNCHANGED <<thread_list, free_list, arg, how, main>>
      BY <1>3 DEF ThreadSupport, Fresh, Handed, listVars, procVars
    <2>2. /\ pc[t] \in {"begin", "release", "support"}
          /\ pc[t] # "support" => t \in {main, Main} /\ pc'[t] \in {"release", "app"}
          /\ pc[t] = "support" => pc'[t] = "make"
          /\ \A u \in Threads \ {t} : pc'[u] = pc[u]
      BY <1>0, <1>3 DEF ThreadSupport, At, Goto
    <2>3. \A u \in Threads : Holds(u)' = Holds(u)
      BY <1>0, <2>1, <2>2 DEF Holds, Exempt
    <2>4. \A u \in Threads : Linked(u)' => Linked(u) \/ u \in {main, Main}
      BY <1>0, <2>1, <2>2 DEF Linked, Making, Cleaning, Winning
    <2>5. pc'[main] \notin Cleaning
      BY <1>0, <2>2 DEF NodeInv, Cleaning
    <2>6. "has_used_threads" \notin flag' => "has_used_threads" \notin flag
      BY <1>3 DEF ThreadSupport
    <2>7. QED  BY <1>0, <2>1, <2>3, <2>4, <2>5, <2>6 DEF NodeInv
  <1>4. ASSUME NEW p \in {"make", "unlink", "shoot"},
               NEW q \in {"making", "unlinking", "shootset"},
               p = "make" <=> q = "making", p = "shoot" <=> q = "shootset", Lock(t, p, q)
        PROVE  NodeInv'
    <2>1. Fresh' = Fresh
      BY <1>4 DEF Lock, Fresh, Handed, listVars
    <2>2. QED
      BY <1>0, <1>4, <2>1
      DEF NodeInv, Holds, Exempt, Linked, Cleaning, Making, Winning, Lock, At, Goto,
          nodeVars, listVars, threadVars, shootVars, procVars
  <1>5. ASSUME CreateEnter(t)  PROVE NodeInv'
    <2>1. CASE "has_used_threads" \in flag
      <3>1. Fresh' = Fresh
        BY <1>5, <2>1 DEF CreateEnter, monitor_thread_list_init, Fresh, Handed
      <3>2. QED
        BY <1>0, <1>5, <2>1, <3>1
        DEF CreateEnter, monitor_thread_list_init, InApplication, NodeInv, Holds, Exempt,
            Linked, Cleaning, Making, Winning, At, Goto, procVars
    <2>2. CASE "has_used_threads" \notin flag
      <3>1. thread_list' = {} /\ free_list' = {}
        BY <1>5, <2>2 DEF CreateEnter, monitor_thread_list_init
      <3>2. \A u \in Threads : Holds(u)' = {}
        BY <1>0, <1>5, <2>2
        DEF CreateEnter, InApplication, NodeInv, Holds, Exempt, At, Goto, procVars
      <3>3. \A u \in Threads : arg'[u] = NoNode \/ u = main'
        BY <1>0, <1>5, <3>2 DEF Holds, Exempt
      <3>4. pc'[main'] \notin Cleaning /\ arg'[Main] = NoNode
        BY <1>0, <1>5 DEF CreateEnter, InApplication, NodeInv, Cleaning, At, Goto, procVars
      <3>5. QED  BY <3>1, <3>2, <3>3, <3>4 DEF NodeInv
    <2>3. QED  BY <2>1, <2>2
  <1>6. ASSUME NEW w \in Workers, CreateIgnored(t, w)  PROVE NodeInv'
    <2>1. CASE "has_used_threads" \in flag
      <3>1. Fresh' = Fresh
        BY <1>6, <2>1 DEF CreateIgnored, monitor_thread_list_init, Fresh, Handed
      <3>2. QED
        BY <1>0, <1>6, <2>1, <3>1
        DEF CreateIgnored, monitor_thread_list_init, InApplication, NodeInv, Holds, Exempt,
            Linked, Cleaning, Making, Winning, At, Goto, procVars
    <2>2. CASE "has_used_threads" \notin flag
      <3>1. thread_list' = {} /\ free_list' = {}
        BY <1>6, <2>2 DEF CreateIgnored, monitor_thread_list_init
      <3>2. \A u \in Threads : Holds(u)' = {}
        BY <1>0, <1>6, <2>2
        DEF CreateIgnored, InApplication, NodeInv, Holds, Exempt, At, Goto, procVars
      <3>3. \A u \in Threads : arg'[u] = NoNode \/ u = main'
        BY <1>0, <1>6, <3>2 DEF Holds, Exempt
      <3>4. pc'[main'] \notin Cleaning /\ arg'[Main] = NoNode
        BY <1>0, <1>6 DEF CreateIgnored, InApplication, NodeInv, Cleaning, At, Goto, procVars
      <3>5. QED  BY <3>1, <3>2, <3>3, <3>4 DEF NodeInv
    <2>3. QED  BY <2>1, <2>2
  <1>7. ASSUME NEW w \in Workers, CreateThread(t, w)  PROVE NodeInv'
    <2>1. PICK n \in ArrayNodes : MakeThreadNode(n) /\ arg' = [arg EXCEPT ![w] = n]
      BY <1>7 DEF CreateThread
    <2>2. /\ n \in Fresh \cup free_list /\ n \notin free_list'
          /\ Fresh' \subseteq Fresh \ {n} /\ free_list' \subseteq free_list
      BY <1>0, <2>1, MadeFact
    <2>3. /\ w # t /\ w # Main /\ pc[w] = "none" /\ pc[t] = "making"
          /\ pc' = [pc EXCEPT ![t] = "posting", ![w] = "wait"]
          /\ UNCHANGED <<thread_list, flag, main, how>>
      BY <1>0, <1>7 DEF CreateThread, At, procVars
    <2>4. "has_used_threads" \in flag
      BY <1>0, <2>3 DEF ListInv, Making
    <2>5. /\ Holds(w)' = {n}
          /\ \A u \in Threads \ {w} : Holds(u)' = Holds(u)
      BY <1>0, <2>1, <2>3 DEF Holds, Exempt
    <2>6. \A u \in Threads : n \notin Holds(u)
      BY <1>0, <2>2 DEF NodeInv
    <2>7. n \notin thread_list
      BY <1>0, <2>2 DEF NodeInv
    <2>8. \A u \in Threads :
             Linked(u)' /\ arg'[u] # NoNode /\ u # main => arg[u] \in thread_list /\ u # w
      BY <1>0, <2>1, <2>3 DEF NodeInv, Linked, Making, Cleaning, Winning
    <2>9. \A u \in Threads :
             Linked(u)' /\ arg'[u] # NoNode /\ u # main => arg'[u] \in thread_list
      BY <1>0, <2>1, <2>8
    <2>10. pc'[main] \notin Cleaning /\ arg'[Main] = NoNode
      BY <1>0, <2>1, <2>3 DEF NodeInv, Cleaning
    <2>11. /\ \A u \in Threads : Holds(u)' \cap (Fresh' \cup free_list') = {}
           /\ \A u, v \in Threads : u # v => Holds(u)' \cap Holds(v)' = {}
      BY <1>0, <2>2, <2>5, <2>6 DEF NodeInv
    <2>12. /\ thread_list \cap free_list' = {}
           /\ Fresh' \cap (thread_list \cup free_list') = {}
      BY <1>0, <2>2 DEF NodeInv
    <2>13. QED
      BY <2>3, <2>4, <2>9, <2>10, <2>11, <2>12 DEF NodeInv
  <1>8. ASSUME CreateFails(t)  PROVE NodeInv'
    <2>1. PICK n \in ArrayNodes : MakeThreadNode(n)
      BY <1>8 DEF CreateFails
    <2>2. Fresh' \subseteq Fresh /\ free_list' \subseteq free_list
      BY <1>0, <2>1, MadeFact
    <2>3. "has_used_threads" \in flag
      BY <1>0, <1>8 DEF CreateFails, At, ListInv, Making
    <2>4. QED
      BY <1>0, <1>8, <2>2, <2>3
      DEF CreateFails, NodeInv, Holds, Exempt, Linked, Cleaning, Making, Winning,
          At, Goto, procVars
  <1>9. ASSUME BeginThread(t)  PROVE NodeInv'
    <2>1. Fresh' = Fresh
      BY <1>9 DEF BeginThread, Fresh, Handed, listVars
    <2>2. QED
      BY <1>0, <1>9, <2>1
      DEF NodeInv, Holds, Exempt, Linked, Cleaning, Making, Winning, BeginThread, At, Goto,
          nodeVars, listVars, threadVars, shootVars, procVars
  <1>10. ASSUME LinkThreadNode(t)  PROVE NodeInv'
    <2>1. /\ Fresh' = Fresh /\ UNCHANGED <<flag, free_list, arg, how, main>>
          /\ thread_list' = thread_list \cup {arg[t]}
          /\ pc[t] = "linking" /\ pc' = [pc EXCEPT ![t] = "init"]
      BY <1>10 DEF LinkThreadNode, Fresh, Handed, At, Goto, procVars
    <2>2. arg[t] \in ArrayNodes /\ "has_used_threads" \in flag
      BY <1>0, <2>1 DEF TInv, ArgSet, Carrying, ListInv
    <2>3. Holds(t) = {arg[t]} /\ \A u \in Threads : Holds(u)' = Holds(u)
      BY <1>0, <2>1, <2>2 DEF Holds, Exempt
    <2>4. arg[t] \notin Fresh \cup free_list
      BY <1>0, <2>3 DEF NodeInv
    <2>5. \A u \in Threads : Linked(u)' => Linked(u) \/ u = t
      BY <1>0, <2>1 DEF Linked, Making, Cleaning, Winning
    <2>6. pc'[main] \notin Cleaning
      BY <1>0, <2>1 DEF NodeInv, Cleaning
    <2>7. /\ thread_list' \cap free_list' = {}
          /\ Fresh' \cap (thread_list' \cup free_list') = {}
      BY <1>0, <2>1, <2>4 DEF NodeInv
    <2>8. \A u \in Threads :
             Linked(u)' /\ arg'[u] # NoNode /\ u # main' => arg'[u] \in thread_list'
      BY <1>0, <2>1, <2>5 DEF NodeInv
    <2>9. QED  BY <1>0, <2>1, <2>2, <2>3, <2>6, <2>7, <2>8 DEF NodeInv
  <1>11. ASSUME LinkRefused(t)  PROVE NodeInv'
    BY <1>0, <1>11, EndKeeps DEF LinkRefused
  <1>12. ASSUME InitThread(t)  PROVE NodeInv'
    <2>1. Fresh' = Fresh
      BY <1>12 DEF InitThread, Fresh, Handed, listVars
    <2>2. QED
      BY <1>0, <1>12, <2>1
      DEF NodeInv, Holds, Exempt, Linked, Cleaning, Making, Winning, InitThread, At, Goto,
          nodeVars, listVars, threadVars, shootVars, procVars
  <1>13. ASSUME CancelInInit(t)  PROVE NodeInv'
    BY <1>0, <1>13, EndKeeps DEF CancelInInit
  <1>14. ASSUME ThreadReturns(t)  PROVE NodeInv'
    <2>1. CASE WantsFini(arg[t])
      <3>1. /\ pc[t] = "app" /\ pc' = [pc EXCEPT ![t] = "clean"] /\ t # main
            /\ UNCHANGED <<flag, arg, main, how, listVars>>
        BY <1>0, <1>14, <2>1 DEF ThreadReturns, At, Goto
      <3>2. Fresh' = Fresh
        BY <3>1 DEF Fresh, Handed, listVars
      <3>3. QED
        BY <1>0, <3>1, <3>2
        DEF NodeInv, Holds, Exempt, Linked, Cleaning, Making, Winning, listVars
    <2>2. CASE ~WantsFini(arg[t])
      BY <1>0, <1>14, <2>2, EndKeeps DEF ThreadReturns
    <2>3. QED  BY <2>1, <2>2
  <1>15. ASSUME CleanupFini(t)  PROVE NodeInv'
    <2>1. Fresh' = Fresh
      BY <1>15 DEF CleanupFini, Fresh, Handed, listVars
    <2>2. QED
      BY <1>0, <1>15, <2>1
      DEF NodeInv, Holds, Exempt, Linked, Cleaning, Making, Winning, CleanupFini, At, Goto,
          nodeVars, listVars, threadVars, shootVars, procVars
  <1>16. ASSUME CleanupDone(t)  PROVE NodeInv'
    <2>1. Fresh' = Fresh
      BY <1>16 DEF CleanupDone, Fresh, Handed, listVars
    <2>2. QED
      BY <1>0, <1>16, <2>1
      DEF NodeInv, Holds, Exempt, Linked, Cleaning, Making, Winning, CleanupDone, At, Goto,
          nodeVars, listVars, threadVars, shootVars, procVars
  <1>17. ASSUME UnlinkThreadNode(t)  PROVE NodeInv'
    <2>1. pc[t] = "unlinking" /\ t # main /\ arg[t] \in ArrayNodes /\ arg[t] \in thread_list
      BY <1>0, <1>17 DEF UnlinkThreadNode, At, NodeInv, Linked, Cleaning, TInv, ArgSet, Carrying
    <2>2. /\ Fresh' = Fresh /\ UNCHANGED <<flag, main, how>>
          /\ pc' = [pc EXCEPT ![t] = "none"] /\ arg' = [arg EXCEPT ![t] = NoNode]
      BY <1>17, <2>1 DEF UnlinkThreadNode, Fresh, Handed, Ends, Goto
    <2>3. /\ Holds(t) = {arg[t]} /\ Holds(t)' = {}
          /\ \A u \in Threads \ {t} : Holds(u)' = Holds(u)
      BY <1>0, <2>1, <2>2 DEF Holds, Exempt
    <2>4. CASE Frozen
      BY <1>0, <1>17, <2>1, <2>2, <2>3, <2>4
      DEF UnlinkThreadNode, NodeInv, Linked, Cleaning, Making, Winning
    <2>5. CASE ~Frozen
      <3>1. /\ thread_list' = thread_list \ {arg[t]}
            /\ free_list' = free_list \cup {arg[t]}
        BY <1>17, <2>1, <2>5 DEF UnlinkThreadNode, ListRemove
      <3>2. \A u \in Threads \ {t} : arg[t] \notin Holds(u)
        BY <1>0, <2>3 DEF NodeInv
      <3>3. /\ thread_list' \cap free_list' = {}
            /\ Fresh' \cap (thread_list' \cup free_list') = {}
        BY <1>0, <2>1, <2>2, <3>1 DEF NodeInv
      <3>4. /\ \A u \in Threads : Holds(u)' \cap (Fresh' \cup free_list') = {}
            /\ \A u, v \in Threads : u # v => Holds(u)' \cap Holds(v)' = {}
        BY <1>0, <2>2, <2>3, <3>1, <3>2 DEF NodeInv
      <3>5. ASSUME NEW u \in Threads, Linked(u)', arg'[u] # NoNode, u # main
            PROVE  arg'[u] \in thread_list'
        <4>1. u # t /\ arg'[u] = arg[u] /\ Linked(u)
          BY <1>0, <2>2, <3>5 DEF Linked, Making, Cleaning, Winning
        <4>2. arg[u] \in thread_list /\ arg[u] # arg[t]
          BY <1>0, <3>2, <3>5, <4>1 DEF NodeInv, Holds, Exempt
        <4>3. QED  BY <3>1, <4>1, <4>2
      <3>6. pc'[main] \notin Cleaning /\ arg'[Main] = NoNode
        BY <1>0, <2>1, <2>2 DEF NodeInv, Cleaning
      <3>7. "has_used_threads" \in flag
        BY <1>0, <2>1 DEF NodeInv
      <3>8. QED  BY <2>2, <3>3, <3>4, <3>5, <3>6, <3>7 DEF NodeInv
    <2>6. QED  BY <2>4, <2>5
  <1>18. ASSUME NEW h \in Hows, EndProcess(t, h), pc[t] # "none",
               h = "exec" => pc[t] \in {"early", "app"} /\ (pc[t] = "early" => t = Main)
        PROVE  NodeInv'
    <2>1. Fresh' = Fresh
      BY <1>18 DEF EndProcess, Fresh, Handed, listVars
    <2>2. QED
      BY <1>0, <1>18, <2>1
      DEF NodeInv, Holds, Exempt, Linked, Cleaning, Making, Winning, EndProcess, At, Goto,
          nodeVars, listVars, threadVars, shootVars, procVars
  <1>19. ASSUME ShootBegin(t)  PROVE NodeInv'
    <2>1. Fresh' = Fresh
      BY <1>19 DEF ShootBegin, Fresh, Handed, listVars
    <2>2. QED
      BY <1>0, <1>19, <2>1
      DEF NodeInv, Holds, Exempt, Linked, Cleaning, Making, Winning, ShootBegin, At, Goto,
          nodeVars, listVars, threadVars, shootVars, procVars
  <1>20. ASSUME NEW n \in Nodes, ScanNode(t, n)  PROVE NodeInv'
    <2>1. Fresh' = Fresh
      BY <1>20 DEF ScanNode, Fresh, Handed, listVars
    <2>2. QED
      BY <1>0, <1>20, <2>1
      DEF NodeInv, Holds, Exempt, Linked, Cleaning, Making, Winning, ScanNode, At, Goto,
          nodeVars, listVars, threadVars, shootVars, procVars
  <1>21. ASSUME ScanAgain(t)  PROVE NodeInv'
    <2>1. Fresh' = Fresh
      BY <1>21 DEF ScanAgain, Fresh, Handed, listVars
    <2>2. QED
      BY <1>0, <1>21, <2>1
      DEF NodeInv, Holds, Exempt, Linked, Cleaning, Making, Winning, ScanAgain, At, Goto,
          nodeVars, listVars, threadVars, shootVars, procVars
  <1>22. ASSUME ThreadsDone(t), At(t, "scan")  PROVE NodeInv'
    <2>1. Fresh' = Fresh
      BY <1>22 DEF ThreadsDone, Fresh, Handed, listVars
    <2>2. QED
      BY <1>0, <1>22, <2>1
      DEF NodeInv, Holds, Exempt, Linked, Cleaning, Making, Winning, ThreadsDone, At, Goto,
          nodeVars, listVars, threadVars, shootVars, procVars
  <1>23. ASSUME OwnFini(t)  PROVE NodeInv'
    <2>1. Fresh' = Fresh
      BY <1>23 DEF OwnFini, Fresh, Handed, listVars
    <2>2. QED
      BY <1>0, <1>23, <2>1
      DEF NodeInv, Holds, Exempt, Linked, Cleaning, Making, Winning, OwnFini, At, Goto,
          nodeVars, listVars, threadVars, shootVars, procVars
  <1>24. ASSUME FiniProcess(t)  PROVE NodeInv'
    <2>1. Fresh' = Fresh
      BY <1>24 DEF FiniProcess, Fresh, Handed, listVars
    <2>2. QED
      BY <1>0, <1>24, <2>1
      DEF NodeInv, Holds, Exempt, Linked, Cleaning, Making, Winning, FiniProcess, At, Goto,
          nodeVars, listVars, threadVars, shootVars, procVars
  <1>25. ASSUME LoserLeaves(t)  PROVE NodeInv'
    <2>1. Fresh' = Fresh
      BY <1>25 DEF LoserLeaves, Fresh, Handed, listVars
    <2>2. QED
      BY <1>0, <1>25, <2>1
      DEF NodeInv, Holds, Exempt, Linked, Cleaning, Making, Winning, LoserLeaves, At, Goto,
          nodeVars, listVars, threadVars, shootVars, procVars
  <1>26. ASSUME ProcessEnds(t)  PROVE NodeInv'
    <2>1. Fresh' = Fresh
      BY <1>26 DEF ProcessEnds, Fresh, Handed, listVars
    <2>2. QED
      BY <1>0, <1>26, <2>1
      DEF NodeInv, Holds, Exempt, Linked, Cleaning, Making, Winning, ProcessEnds, At, Goto,
          nodeVars, listVars, threadVars, shootVars, procVars
  <1>27. ASSUME ExecFails(t)  PROVE NodeInv'
    <2>1. Fresh' = Fresh
      BY <1>27 DEF ExecFails, Fresh, Handed, listVars
    <2>2. QED
      BY <1>0, <1>27, <2>1
      DEF NodeInv, Holds, Exempt, Linked, Cleaning, Making, Winning, ExecFails, Home, At,
          Goto, nodeVars, listVars, threadVars, shootVars, procVars
  <1>28. ASSUME MainThreadEnds(t)  PROVE NodeInv'
    <2>1. Ends(t) /\ UNCHANGED <<flag, listVars>> /\ \A u \in Threads \ {t} : how'[u] = how[u]
      BY <1>0, <1>28 DEF MainThreadEnds
    <2>2. QED  BY <1>0, <2>1, EndKeeps
  <1>29. ASSUME ShootdownHandler(t)  PROVE NodeInv'
    <2>1. Fresh' = Fresh
      BY <1>29 DEF ShootdownHandler, Fresh, Handed, listVars
    <2>2. QED
      BY <1>0, <1>29, <2>1
      DEF NodeInv, Holds, Exempt, Linked, Cleaning, Making, Winning, ShootdownHandler, At,
          Goto, nodeVars, listVars, threadVars, shootVars, procVars
  <1>30. ASSUME HandlerReturns(t)  PROVE NodeInv'
    <2>1. Fresh' = Fresh
      BY <1>30 DEF HandlerReturns, Fresh, Handed, listVars
    <2>2. QED
      BY <1>0, <1>30, <2>1
      DEF NodeInv, Holds, Exempt, Linked, Cleaning, Making, Winning, HandlerReturns, At,
          Goto, nodeVars, listVars, threadVars, shootVars, procVars
  <1>31. ASSUME NEW f \in {"block_shootdown", "ignore_threads"}, ClientCall(t, f)
         PROVE  NodeInv'
    <2>1. Fresh' = Fresh
      BY <1>31 DEF ClientCall, Fresh, Handed, listVars
    <2>2. QED
      BY <1>0, <1>31, <2>1
      DEF NodeInv, Holds, Exempt, Linked, Cleaning, Making, Winning, ClientCall, At, Goto,
          nodeVars, listVars, threadVars, shootVars, procVars
  <1>32. ASSUME NEW real \in BOOLEAN, Fork(t, real)  PROVE NodeInv'
    <2>1. /\ main' = t /\ pc'[t] \in {"begin", "early", "app"}
          /\ \A u \in Threads \ {t} : arg'[u] = NoNode
          /\ arg'[Main] = NoNode
      BY <1>0, <1>32 DEF Fork, InApplication, At, NodeInv
    <2>2. thread_list' = {} /\ free_list' = {}
      BY <1>0, <1>32 DEF Fork, monitor_reset_thread_list, NodeInv
    <2>3. \A u \in Threads : Holds(u)' = {}
      BY <2>1 DEF Holds, Exempt
    <2>4. QED  BY <2>1, <2>2, <2>3 DEF NodeInv, Cleaning
  <1>33. ASSUME PostCreate(t)  PROVE NodeInv'
    <2>1. Fresh' = Fresh
      BY <1>33 DEF PostCreate, Fresh, Handed, listVars
    <2>2. QED
      BY <1>0, <1>33, <2>1
      DEF NodeInv, Holds, Exempt, Linked, Cleaning, Making, Winning, PostCreate, Home, At,
          Goto, listVars, procVars
  <1>40. QED
    BY <1>0, <1>1, <1>2, <1>3, <1>4, <1>5, <1>6, <1>7, <1>8, <1>9, <1>10, <1>11, <1>12,
       <1>13, <1>14, <1>15, <1>16, <1>17, <1>18, <1>19, <1>20, <1>21, <1>22, <1>23, <1>24,
       <1>25, <1>26, <1>27, <1>28, <1>29, <1>30, <1>31, <1>32, <1>33
    DEF Inside, Outside, ScanDone, ScanTimeout, Exit, Exec, PthreadExit, FatalSignal, Hows,
        InApplication, At
-----------------------------------------------------------------------------
(* The end of the process waits                                            *)

\* A step aside of the walk: the nodes of at_exit keep what the walk reads of them, nobody
\* joins the walk, and nobody waits with a linked node.
Aside ==
    /\ UNCHANGED <<at_exit, shoot>>
    /\ thread_list' \subseteq thread_list /\ at_exit \subseteq thread_list'
    /\ flag \cap {"in_exit_cleanup", "end_process_cookie"} \subseteq flag'
    /\ \A n \in at_exit : /\ tn_self'[n] = tn_self[n]
                          /\ tn[n] \cap {"appl_started", "fini_done"} \subseteq tn'[n]
    /\ \A u \in Threads :
          /\ pc'[u] = "scan" => pc[u] = "scan" \/ at_exit = {}
          /\ pc'[u] \in {"ownfini", "finiproc"} => pc[u] \in {"ownfini", "finiproc"} \/ at_exit = {}
          /\ pc'[u] \in {"wait", "linking"} => pc[u] \in {"wait", "linking"} /\ arg'[u] = arg[u]

LEMMA AsideKeeps ==
    ASSUME WaitInv, ExitInv, Aside
    PROVE  WaitInv' /\ ExitInv'
  <1>1. WaitInv'
    BY DEF WaitInv, Aside
  <1>2. /\ at_exit' \subseteq thread_list'
        /\ at_exit' # {} => Frozen' /\ ~First'
        /\ \A n \in at_exit' : "appl_started" \in tn'[n]
    BY DEF ExitInv, Aside, Frozen, First
  <1>3. \A t \in Threads : pc'[t] = "scan" =>
           \A n \in at_exit' : \/ n \in shoot'.todo \cup shoot'.unfinished
                               \/ tn_self'[n] = t
                               \/ "fini_done" \in tn'[n]
    BY DEF ExitInv, Aside
  <1>4. ExitAlwaysWaits'
    BY DEF ExitInv, ExitAlwaysWaits, Aside
  <1>5. QED  BY <1>1, <1>2, <1>3, <1>4 DEF ExitInv

\* Raising a flag of a node takes none down.
LEMMA RaiseFact ==
    ASSUME TypeOK, NEW m, NEW f, Raise(m, f)
    PROVE  \A n \in Nodes : tn[n] \subseteq tn'[n]
  BY DEF Raise, TypeOK

\* What does not touch the lists.
LEMMA AsideSteps ==
    ASSUME TInv, ExitInv, NEW t \in Threads,
           \/ MonitorMain(t) \/ ThreadRelease(t) \/ ThreadSupport(t) \/ PostCreate(t)
           \/ Lock(t, "make", "making") \/ Lock(t, "unlink", "unlinking")
           \/ Lock(t, "shoot", "shootset")
           \/ LinkRefused(t) \/ CancelInInit(t) \/ ThreadReturns(t) \/ LoserLeaves(t)
           \/ ProcessEnds(t) \/ ExecFails(t) \/ MainThreadEnds(t)
           \/ InitThread(t) \/ CleanupFini(t) \/ CleanupDone(t) \/ OwnFini(t)
           \/ ShootdownHandler(t) \/ HandlerReturns(t)
           \/ \E f \in {"block_shootdown", "ignore_threads"} : ClientCall(t, f)
           \/ Exit(t) \/ Exec(t) \/ PthreadExit(t) \/ FatalSignal(t)
    PROVE  Aside
  <1> USE DEF At, Goto, nodeVars, listVars, threadVars, shootVars, procVars
  <1>0. /\ TypeOK /\ pc \in [Threads -> Points]
        /\ at_exit \subseteq Nodes /\ at_exit \subseteq thread_list
        /\ tn \in [Nodes -> SUBSET NodeFlags]
    BY SetFacts DEF TInv, TypeOK, ExitInv
  <1>1. CASE \/ MonitorMain(t) \/ ThreadRelease(t) \/ ThreadSupport(t) \/ PostCreate(t)
             \/ Lock(t, "make", "making") \/ Lock(t, "unlink", "unlinking")
             \/ Lock(t, "shoot", "shootset")
    <2> USE DEF MonitorMain, ThreadRelease, ThreadSupport, PostCreate, Home, Lock
    <2>1. UNCHANGED <<at_exit, shoot, thread_list, tn, tn_self, arg>>
      BY <1>1
    <2>2. flag \cap {"in_exit_cleanup", "end_process_cookie"} \subseteq flag'
      BY <1>1
    <2>3. \A u \in Threads :
             pc'[u] = pc[u] \/ pc'[u] \in {"begin", "release", "early", "app", "make", "making",
                                          "unlinking", "shootset"}
      BY <1>0, <1>1
    <2>4. QED  BY <1>0, <2>1, <2>2, <2>3 DEF Aside
  <1>2. CASE \/ LinkRefused(t) \/ CancelInInit(t) \/ ThreadReturns(t) \/ LoserLeaves(t)
             \/ ProcessEnds(t) \/ ExecFails(t) \/ MainThreadEnds(t)
    <2> USE DEF LinkRefused, CancelInInit, ThreadReturns, LoserLeaves, ProcessEnds, ExecFails,
                MainThreadEnds, Ends
    <2>1. UNCHANGED <<at_exit, shoot, thread_list, tn, tn_self>>
      BY <1>2
    <2>2. flag \subseteq flag'
      BY <1>2
    <2>3. \A u \in Threads :
             \/ pc'[u] = pc[u] /\ (u # t => arg'[u] = arg[u])
             \/ pc'[u] \in {"none", "clean", "ending", "early", "app"}
      BY <1>0, <1>2 DEF Home, TypeOK
    <2>4. pc'[t] \notin {"wait", "linking"}
      BY <1>0, <1>2 DEF Home
    <2>5. QED  BY <1>0, <2>1, <2>2, <2>3, <2>4 DEF Aside
  <1>3. CASE \/ InitThread(t) \/ CleanupFini(t) \/ CleanupDone(t) \/ OwnFini(t)
             \/ ShootdownHandler(t) \/ HandlerReturns(t)
             \/ \E f \in {"block_shootdown", "ignore_threads"} : ClientCall(t, f)
    <2> USE DEF InitThread, CleanupFini, CleanupDone, OwnFini, ShootdownHandler, HandlerReturns,
                ClientCall
    <2>1. UNCHANGED <<at_exit, shoot, thread_list, tn_self, arg, flag>>
      BY <1>3
    <2>2. \A u \in Threads : \/ pc'[u] = pc[u]
                             \/ pc'[u] \in {"app", "fini", "unlink"}
                             \/ pc[u] = "ownfini" /\ pc'[u] = "finiproc"
      BY <1>0, <1>3
    <2>3. \A n \in Nodes : tn[n] \cap {"appl_started", "fini_done"} \subseteq tn'[n]
      BY <1>0, <1>3, RaiseFact DEF TypeOK
    <2>4. QED  BY <1>0, <2>1, <2>2, <2>3 DEF Aside
  <1>4. CASE Exit(t) \/ Exec(t) \/ PthreadExit(t) \/ FatalSignal(t)
    <2>1. PICK h : EndProcess(t, h)
      BY <1>4 DEF Exit, Exec, PthreadExit, FatalSignal
    <2>2. UNCHANGED <<at_exit, shoot, thread_list, tn_self, arg>> /\ flag \subseteq flag'
      BY <2>1 DEF EndProcess
    <2>3. \A n \in Nodes : tn[n] \subseteq tn'[n]
      BY <1>0, <2>1, RaiseFact DEF EndProcess
    <2>4. \/ pc'[t] \in {"loser", "ending"}
          \/ First /\ pc'[t] \in {"shoot", "finiproc"}
      BY <1>0, <2>1 DEF EndProcess
    <2>5. First => at_exit = {}
      BY DEF ExitInv
    <2>6. \A u \in Threads \ {t} : pc'[u] = pc[u]
      BY <1>0, <2>1 DEF EndProcess
    <2>7. QED  BY <1>0, <2>2, <2>3, <2>4, <2>5, <2>6 DEF Aside
  <1>5. QED  BY <1>1, <1>2, <1>3, <1>4

\* pthread_create and the lists: a node that is handed out is on no list, a thread that is
\* linked was not, and none is linked or unlinked during exit cleanup.
LEMMA ListSteps ==
    ASSUME TInv, ListInv, NodeInv, WaitInv, ExitInv, NEW t \in Threads,
           \/ CreateEnter(t) \/ \E w \in Workers : CreateIgnored(t, w)
           \/ (\E w \in Workers : CreateThread(t, w)) \/ CreateFails(t)
           \/ BeginThread(t) \/ LinkThreadNode(t) \/ UnlinkThreadNode(t)
    PROVE  WaitInv' /\ ExitInv'
  <1> USE DEF At, Goto, shootVars, procVars
  <1>0. /\ TypeOK /\ pc \in [Threads -> Points]
        /\ arg \in [Threads -> ArrayNodes \cup {NoNode}]
        /\ at_exit \subseteq ArrayNodes /\ at_exit \subseteq thread_list
        /\ ArrayNodes \subseteq Nodes /\ MainNode \notin ArrayNodes
        /\ tn \in [Nodes -> SUBSET NodeFlags]
        /\ tn_self \in [Nodes -> Threads \cup {NoThread}]
    BY SetFacts, BoundsAssumption DEF TInv, TypeOK, ExitInv, MainNode, ArrayNodes
  <1>1. CASE CreateEnter(t) \/ \E w \in Workers : CreateIgnored(t, w)
    <2> USE DEF CreateEnter, CreateIgnored
    <2>1. monitor_thread_list_init(t) /\ UNCHANGED <<at_exit, shoot, tn, arg>>
      BY <1>1
    <2>2. thread_list' = thread_list /\ flag \subseteq flag'
      BY <2>1 DEF monitor_thread_list_init, NodeInv
    <2>3. \A n \in at_exit : tn_self'[n] = tn_self[n]
      BY <1>0, <2>1 DEF monitor_thread_list_init
    <2>4. \A u \in Threads : pc'[u] = pc[u] \/ pc'[u] \in {"support", "make", "app"}
      BY <1>0, <1>1
    <2>5. Aside
      BY <1>0, <2>1, <2>2, <2>3, <2>4 DEF Aside
    <2>6. QED  BY <2>5, AsideKeeps
  <1>2. ASSUME NEW n \in ArrayNodes, MakeThreadNode(n)
        PROVE  /\ n \notin thread_list
               /\ \A m \in at_exit : tn_self'[m] = tn_self[m] /\ tn'[m] = tn[m]
    <2>1. n \notin thread_list
      BY <1>2, MadeFact DEF NodeInv
    <2>2. QED  BY <1>0, <1>2, <2>1 DEF MakeThreadNode
  <1>3. CASE CreateFails(t)
    <2>1. PICK n \in ArrayNodes : MakeThreadNode(n)
      BY <1>3 DEF CreateFails
    <2>2. UNCHANGED <<at_exit, shoot, thread_list, flag, arg>>
      BY <1>3 DEF CreateFails
    <2>3. \A u \in Threads : pc'[u] = pc[u] \/ pc'[u] = "posting"
      BY <1>0, <1>3 DEF CreateFails
    <2>4. Aside
      BY <1>0, <1>2, <2>1, <2>2, <2>3 DEF Aside
    <2>5. QED  BY <2>4, AsideKeeps
  <1>4. ASSUME NEW w \in Workers, CreateThread(t, w) PROVE WaitInv' /\ ExitInv'
    <2>0. w \in Threads
      BY SetFacts
    <2>1. PICK n \in ArrayNodes : MakeThreadNode(n) /\ arg' = [arg EXCEPT ![w] = n]
      BY <1>4 DEF CreateThread
    <2>2. UNCHANGED <<at_exit, shoot, thread_list, flag>>
      BY <1>4 DEF CreateThread
    <2>3. \A u \in Threads \ {w} :
             (pc'[u] = pc[u] \/ pc'[u] = "posting") /\ arg'[u] = arg[u]
      BY <1>0, <1>4, <2>1 DEF CreateThread
    <2>4. pc'[w] = "wait" /\ arg'[w] = n
      BY <1>0, <1>4, <2>0, <2>1 DEF CreateThread
    <2>5. WaitInv'
      BY <1>2, <2>1, <2>2, <2>3, <2>4 DEF WaitInv
    <2>6. /\ at_exit' \subseteq thread_list'
          /\ at_exit' # {} => Frozen' /\ ~First'
          /\ \A m \in at_exit' : "appl_started" \in tn'[m]
      BY <1>2, <2>1, <2>2 DEF ExitInv, Frozen, First
    <2>7. \A u \in Threads : pc'[u] \in {"scan", "ownfini", "finiproc"} => pc'[u] = pc[u]
      BY <2>3, <2>4
    <2>8. QED  BY <1>2, <2>1, <2>2, <2>5, <2>6, <2>7 DEF ExitInv, ExitAlwaysWaits
  <1>5. CASE BeginThread(t)
    <2>1. pc[t] = "wait" /\ UNCHANGED <<at_exit, shoot, thread_list, flag, tn, arg>>
      BY <1>5 DEF BeginThread, listVars
    <2>2. tn_self' = [tn_self EXCEPT ![arg[t]] = t] /\ arg[t] \notin thread_list
      BY <1>5, <2>1 DEF BeginThread, WaitInv
    <2>3. \A n \in at_exit : tn_self'[n] = tn_self[n]
      BY <1>0, <2>2
    <2>4. pc'[t] = "linking" /\ \A u \in Threads \ {t} : pc'[u] = pc[u]
      BY <1>0, <1>5 DEF BeginThread
    <2>5. Aside
      BY <1>0, <2>1, <2>3, <2>4 DEF Aside
    <2>6. QED  BY <2>5, AsideKeeps
  <1>6. CASE LinkThreadNode(t)
    <2>1. /\ pc[t] = "linking" /\ ~Frozen /\ UNCHANGED <<at_exit, shoot, flag, tn, arg>>
          /\ thread_list' = thread_list \cup {arg[t]}
          /\ pc'[t] = "init" /\ \A u \in Threads \ {t} : pc'[u] = pc[u]
      BY <1>0, <1>6 DEF LinkThreadNode
    <2>2. at_exit = {} /\ at_exit' = {}
      BY <2>1 DEF ExitInv
    <2>3. ExitInv'
      BY <2>2 DEF ExitInv, ExitAlwaysWaits
    <2>4. \A u \in Threads \ {t} : pc[u] \in {"wait", "linking"} => arg[u] # arg[t]
      <3>1. ASSUME NEW u \in Threads, pc[u] \in {"wait", "linking"} PROVE Holds(u) = {arg[u]}
        <4>1. arg[u] # NoNode
          BY <3>1, SetFacts DEF TInv, ArgSet, Carrying
        <4>2. QED  BY <3>1, <4>1 DEF Holds, Exempt
      <3>2. QED  BY <2>1, <3>1 DEF NodeInv
    <2>5. WaitInv'
      BY <2>1, <2>4 DEF WaitInv
    <2>6. QED  BY <2>3, <2>5
  <1>7. CASE UnlinkThreadNode(t)
    <2>0. arg[t] \in thread_list
      <3>1. pc[t] = "unlinking" /\ arg[t] \in ArrayNodes
        BY <1>7 DEF UnlinkThreadNode, TInv, ArgSet, Carrying
      <3>2. QED  BY <3>1, SetFacts DEF NodeInv, Linked, Cleaning
    <2>1. /\ UNCHANGED <<at_exit, shoot, flag>> /\ thread_list' \subseteq thread_list
          /\ pc'[t] = "none" /\ \A u \in Threads \ {t} : pc'[u] = pc[u] /\ arg'[u] = arg[u]
      BY <1>0, <1>7, <2>0 DEF UnlinkThreadNode, ListRemove, Ends
    <2>2. CASE Frozen
      <3>1. UNCHANGED <<thread_list, tn_self>> /\ Raise(arg[t], {"fini_started", "fini_done"})
        BY <1>7, <2>2 DEF UnlinkThreadNode
      <3>2. \A n \in Nodes : tn[n] \subseteq tn'[n]
        BY <1>0, <3>1, RaiseFact
      <3>3. Aside
        BY <1>0, <2>1, <3>1, <3>2 DEF Aside
      <3>4. QED  BY <3>3, AsideKeeps
    <2>3. CASE ~Frozen
      <3>1. at_exit = {}
        BY <2>3 DEF ExitInv
      <3>2. Aside
        BY <2>1, <3>1 DEF Aside
      <3>3. QED  BY <3>2, AsideKeeps
    <2>4. QED  BY <2>2, <2>3
  <1>8. QED  BY <1>1, <1>3, <1>4, <1>5, <1>6, <1>7

\* The walk itself: a pass that found nobody unfinished has seen every thread of at_exit.
LEMMA WalkSteps ==
    ASSUME TInv, OneFiniProcess, WaitInv, ExitInv, NEW t \in Threads,
           \/ ShootBegin(t) \/ (\E n \in Nodes : ScanNode(t, n)) \/ ScanAgain(t)
           \/ ScanDone(t) \/ ScanTimeout(t) \/ FiniProcess(t)
    PROVE  WaitInv' /\ ExitInv'
  <1> USE DEF At, Goto, shootVars, procVars, nodeVars, listVars, threadVars
  <1>0. /\ TypeOK /\ pc \in [Threads -> Points]
        /\ at_exit \subseteq ArrayNodes /\ at_exit \subseteq thread_list
        /\ thread_list \subseteq ArrayNodes /\ ArrayNodes \subseteq Nodes
        /\ tn \in [Nodes -> SUBSET NodeFlags]
        /\ shoot \in [todo : SUBSET ArrayNodes, my_tn : ArrayNodes \cup {NoNode},
                      started : SUBSET ArrayNodes, last : Nat,
                      unstarted : SUBSET ArrayNodes, unfinished : SUBSET ArrayNodes]
    BY SetFacts DEF TInv, TypeOK, ExitInv
  <1>1. /\ pc[t] \in Winning /\ "end_process_cookie" \in flag
        /\ \A u \in Threads \ {t} : pc[u] \notin Winning /\ pc'[u] = pc[u]
    <2>1. pc[t] \in Winning
      BY DEF ShootBegin, ScanNode, ScanAgain, ScanDone, ScanTimeout, FiniProcess, Winning
    <2>2. \A u \in Threads \ {t} : pc'[u] = pc[u]
      BY <1>0 DEF ShootBegin, ScanNode, ScanAgain, ScanDone, ScanTimeout, ThreadsDone, FiniProcess
    <2>3. QED  BY <2>1, <2>2 DEF OneFiniProcess
  <1>2. UNCHANGED <<thread_list, arg, tn_self>> /\ flag \subseteq flag' /\ pc'[t] \notin {"wait", "linking"}
    BY <1>0 DEF ShootBegin, ScanNode, ScanAgain, ScanDone, ScanTimeout, ThreadsDone, FiniProcess
  <1>3. WaitInv'
    BY <1>1, <1>2 DEF WaitInv
  <1>4. \A n \in Nodes : tn[n] \subseteq tn'[n]
    BY <1>0, RaiseFact
    DEF ShootBegin, ScanNode, ScanAgain, ScanDone, ScanTimeout, ThreadsDone, FiniProcess
  <1>5. \A u \in Threads \ {t} : pc'[u] \notin {"scan", "ownfini", "finiproc"}
    BY <1>1 DEF Winning
  <1>6. CASE ShootBegin(t)
    <2>1. /\ at_exit' = {n \in thread_list : "appl_started" \in tn[n]}
          /\ shoot'.todo = thread_list /\ pc'[t] = "scan"
          /\ "in_exit_cleanup" \in flag' /\ UNCHANGED tn
      BY <1>0, <1>6 DEF ShootBegin, NoShoot
    <2>2. QED  BY <1>1, <1>2, <1>3, <1>5, <2>1 DEF ExitInv, ExitAlwaysWaits, Frozen, First
  <1>7. CASE FiniProcess(t)
    <2>1. at_exit' = {}
      BY <1>7 DEF FiniProcess
    <2>2. QED  BY <1>3, <2>1 DEF ExitInv, ExitAlwaysWaits
  <1>8. ASSUME UNCHANGED at_exit,
               \A n \in at_exit : \/ pc'[t] = "scan" /\ n \in shoot'.todo
                                  \/ n \in shoot'.unfinished
                                  \/ tn_self[n] = t
                                  \/ "fini_done" \in tn[n]
                                  \/ pc'[t] # "scan" /\ shoot'.unfinished # {}
        PROVE  WaitInv' /\ ExitInv'
    <2>1. /\ at_exit' \subseteq thread_list'
          /\ at_exit' # {} => Frozen' /\ ~First'
          /\ \A n \in at_exit' : "appl_started" \in tn'[n]
      BY <1>0, <1>2, <1>4, <1>8 DEF ExitInv, Frozen, First
    <2>2. pc'[t] = "scan" => \A n \in at_exit' : \/ n \in shoot'.todo \cup shoot'.unfinished
                                                 \/ tn_self'[n] = t
                                                 \/ "fini_done" \in tn'[n]
      BY <1>0, <1>2, <1>4, <1>8
    <2>3. pc'[t] \in {"ownfini", "finiproc"} /\ shoot'.unfinished = {} =>
             \A n \in at_exit' : tn_self'[n] = t \/ "fini_done" \in tn'[n]
      BY <1>0, <1>2, <1>4, <1>8
    <2>4. ExitAlwaysWaits'
      BY <1>5, <2>3 DEF ExitAlwaysWaits
    <2>5. QED  BY <1>3, <1>5, <2>1, <2>2, <2>4 DEF ExitInv
  <1>9. ASSUME NEW m \in Nodes, ScanNode(t, m) PROVE WaitInv' /\ ExitInv'
    <2>1. UNCHANGED <<at_exit, tn>> /\ pc[t] = "scan" /\ pc'[t] = "scan"
      BY <1>9 DEF ScanNode
    <2>2. /\ shoot'.todo = shoot.todo \ {m} /\ shoot.unfinished \subseteq shoot'.unfinished
          /\ (m \in at_exit => tn_self[m] = t \/ "fini_done" \in tn[m] \/ m \in shoot'.unfinished)
      <3>1. CASE tn_self[m] = t
        BY <1>0, <1>9, <3>1 DEF ScanNode
      <3>2. CASE tn_self[m] # t /\ "appl_started" \in tn[m]
        <4>1. /\ shoot'.todo = shoot.todo \ {m}
              /\ shoot'.unfinished = IF Unfinished(m) THEN shoot.unfinished \cup {m}
                                                      ELSE shoot.unfinished
          BY <1>0, <1>9, <3>2 DEF ScanNode
        <4>2. QED  BY <4>1 DEF Unfinished
      <3>3. CASE tn_self[m] # t /\ "appl_started" \notin tn[m]
        BY <1>0, <1>9, <3>3 DEF ScanNode, ExitInv
      <3>4. QED  BY <3>1, <3>2, <3>3
    <2>3. QED  BY <1>8, <2>1, <2>2 DEF ExitInv
  <1>10. CASE ScanAgain(t)
    <2>1. UNCHANGED at_exit /\ pc'[t] = "scan" /\ shoot'.todo = thread_list
      BY <1>0, <1>10 DEF ScanAgain
    <2>2. QED  BY <1>0, <1>8, <2>1
  <1>11. CASE ScanDone(t) \/ ScanTimeout(t)
    <2>1. /\ UNCHANGED <<at_exit, shoot>> /\ pc[t] = "scan" /\ pc'[t] # "scan"
          /\ shoot.todo = {}
      BY <1>0, <1>11 DEF ScanDone, ScanTimeout, ThreadsDone
    <2>2. QED  BY <1>8, <2>1 DEF ExitInv
  <1>12. QED  BY <1>6, <1>7, <1>9, <1>10, <1>11

\* In a forked child the exit starts from nothing.
LEMMA ForkExit ==
    ASSUME NEW t \in Threads, NEW real \in BOOLEAN, Fork(t, real), TInv
    PROVE  WaitInv' /\ ExitInv'
  <1>1. at_exit' = {}
    BY DEF Fork
  <1>2. \A u \in Threads : pc'[u] \in {"none", "begin", "early", "app"}
    BY DEF Fork, InApplication, At
  <1>3. QED  BY <1>1, <1>2 DEF WaitInv, ExitInv, ExitAlwaysWaits

-----------------------------------------------------------------------------
(* The inductive invariant and the theorems                                *)

\* The process begins with main's node, no thread and no lists.
LEMMA InitInv == Init => TInv /\ OneFiniProcess /\ ListInv /\ OrderInv /\ NodeInv
  <1> SUFFICES ASSUME Init PROVE TInv /\ OneFiniProcess /\ ListInv /\ OrderInv /\ NodeInv
    OBVIOUS
  <1>1. \A t \in Threads :
           pc[t] \in {"early", "none"} /\ (pc[t] = "early" <=> t = Main) /\ arg[t] = NoNode
    BY DEF Init
  <1>2. OneFiniProcess
    BY <1>1 DEF OneFiniProcess, Winning
  <1>3. ListInv
    BY <1>1 DEF Init, ListInv, Making
  <1>4. OrderInv
    BY <1>1, SetFacts, ThreadsAssumption
    DEF Init, OrderInv, OnTheWayToMain, Started, Making, Winning
  <1>5. NodeInv
    <2>1. \A t \in Threads : Holds(t) = {}
      BY <1>1 DEF Holds
    <2>2. thread_list = {} /\ free_list = {} /\ main = Main /\ Main \in Threads
      BY SetFacts DEF Init
    <2>3. QED  BY <1>1, <2>1, <2>2 DEF NodeInv, Cleaning
  <1>6. QED  BY <1>2, <1>3, <1>4, <1>5, InitTInv

\* What holds throughout.
Inv == TInv /\ OneFiniProcess /\ ListInv /\ OrderInv

LEMMA StepInv == Inv /\ [Next]_vars => Inv'
  <1>1. Inv /\ Next => Inv'
    BY StepTInv, StepOneFiniProcess, StepListInv, StepOrderInv DEF Inv
  <1>2. Inv /\ UNCHANGED vars => Inv'
    BY DEF Inv, TInv, TypeOK, ArgSet, OneFiniProcess, ListInv, Frozen, OrderInv, Started,
           vars, nodeVars, listVars, threadVars, shootVars, procVars
  <1>3. QED  BY <1>1, <1>2

LEMMA SpecInv == Spec => []Inv
  <1>1. Init => Inv
    BY InitInv DEF Inv
  <1>2. QED  BY <1>1, StepInv, PTL DEF Spec

\* The state of libmonitor's threads (main.c, pthread.c, fork.c) keeps its types: no
\* thread is at a point outside its code and no node index leaves the arrays.
THEOREM ThreadsTypeCorrect == Spec => []TypeOK
  <1>1. Inv => TypeOK
    BY DEF Inv, TInv
  <1>2. QED  BY <1>1, SpecInv, PTL

\* However many threads exit, exec, pthread_exit or die of a signal at once, in
\* whatever order, one of them runs the shootdown and monitor_fini_process: the
\* cookie of monitor_end_process_fcn (main.c) elects one thread per process.
THEOREM OneThreadEnds == Spec => []OneFiniProcess
  <1>1. Inv => OneFiniProcess
    BY DEF Inv
  <1>2. QED  BY <1>1, SpecInv, PTL

\* A thread's init_thread callback, and its start routine, come after init_process
\* and the thread support callback of main.c, threads created by constructors
\* ahead of main included.
THEOREM InitIsOrdered == Spec => []InitOrder
  <1>1. Inv => InitOrder
    <2> SUFFICES ASSUME Inv, NEW t \in Workers, pc[t] \in {"init", "app"},
                        arg[t] # NoNode, t # main
                 PROVE  /\ "thread_support_done" \in flag
                        /\ pc[Main] \notin {"early", "begin", "release"}
      BY DEF InitOrder
    <2>1. "thread_support_done" \in flag
      BY DEF Inv, OrderInv, Started
    <2>2. "has_reached_main" \in flag /\ "main_called" \in flag
      BY <2>1 DEF Inv, OrderInv
    <2>3. pc[t] # "none"
      OBVIOUS
    <2>4. QED  BY <2>1, <2>2, <2>3 DEF Inv, OrderInv, OnTheWayToMain
  <1>2. QED  BY <1>1, SpecInv, PTL

\* The list that monitor_thread_shootdown walks without monitor_thread_lock
\* (pthread.c) stands still from the moment in_exit_cleanup is set until the end of
\* the process: no thread is linked, unlinked or, by a late first pthread_create,
\* dropped from it.
THEOREM ListStaysFrozen == Spec => ListFrozen
  <1>1. ASSUME Inv, Next
        PROVE  ("in_exit_cleanup" \in flag /\ forks' = forks) => thread_list' = thread_list
    <2> SUFFICES ASSUME "in_exit_cleanup" \in flag, forks' = forks
                 PROVE  thread_list' = thread_list
      OBVIOUS
    <2>1. PICK t \in Threads : Inside(t) \/ Outside(t) \/ ScanTimeout(t)
      BY <1>1 DEF Next
    <2>2. forks \in Nat /\ Frozen
      BY <1>1 DEF Inv, TInv, TypeOK, Frozen
    <2>3. ASSUME monitor_thread_list_init(t)  PROVE thread_list' = thread_list
      BY <1>1, <2>2, <2>3 DEF monitor_thread_list_init, Inv, ListInv
    <2>4. ~LinkThreadNode(t)
      BY <2>2 DEF LinkThreadNode
    <2>5. ASSUME UnlinkThreadNode(t)  PROVE thread_list' = thread_list
      BY <2>2, <2>5 DEF UnlinkThreadNode
    <2>6. \A real \in BOOLEAN : ~Fork(t, real)
      BY <2>2 DEF Fork
    <2>7. CASE Inside(t)
      BY <2>4, <2>5, <2>7
      DEF Inside, ThreadRelease, ThreadSupport, Lock, CreateThread, CreateFails,
          PostCreate, BeginThread, LinkRefused, InitThread, CleanupFini, CleanupDone, ShootBegin,
          ScanNode, ScanAgain, ScanDone, ThreadsDone, OwnFini, FiniProcess, LoserLeaves,
          HandlerReturns, listVars
    <2>8. CASE Outside(t)
      BY <2>3, <2>6, <2>8
      DEF Outside, MonitorMain, CreateEnter, CreateIgnored, CancelInInit, ThreadReturns,
          Exit, Exec, PthreadExit, FatalSignal, EndProcess, ProcessEnds, ExecFails,
          MainThreadEnds, ShootdownHandler, ClientCall, listVars
    <2>9. CASE ScanTimeout(t)
      BY <2>9 DEF ScanTimeout, ThreadsDone, listVars
    <2>10. QED  BY <2>1, <2>7, <2>8, <2>9
  <1>2. Inv /\ [Next]_vars =>
           [("in_exit_cleanup" \in flag /\ forks' = forks) => thread_list' = thread_list]_vars
    BY <1>1
  <1>3. QED  BY <1>2, SpecInv, PTL DEF Spec, ListFrozen

\* What a thread did too early, or in the wrong process, stays done.
LEMMA StepHistory == TInv /\ [Next]_vars => (strayed => strayed') /\ (overtaken => overtaken')
  <1> SUFFICES ASSUME TInv, [Next]_vars
               PROVE  (strayed => strayed') /\ (overtaken => overtaken')
    OBVIOUS
  <1>1. CASE UNCHANGED vars
    BY <1>1 DEF vars, procVars
  <1>2. CASE Next
    <2>1. PICK t \in Threads : Inside(t) \/ Outside(t) \/ ScanTimeout(t)
      BY <1>2 DEF Next
    <2>2. CASE ThreadReturns(t)
      BY <2>2, Zenon DEF ThreadReturns
    <2>3. CASE UnlinkThreadNode(t)
      BY <2>3, Zenon DEF UnlinkThreadNode
    <2>4. CASE Inside(t) /\ ~UnlinkThreadNode(t)
      <3>1. UNCHANGED <<strayed, overtaken>>
        BY <2>4
        DEF Inside, ThreadRelease, ThreadSupport, Lock, CreateThread, CreateFails, PostCreate,
            BeginThread, LinkThreadNode, LinkRefused, InitThread, CleanupFini, CleanupDone,
            ShootBegin, ScanNode, ScanAgain, ScanDone, ThreadsDone, OwnFini,
            FiniProcess, LoserLeaves, HandlerReturns, procVars
      <3>2. QED  BY <3>1, Zenon
    <2>5. CASE Outside(t) /\ ~ThreadReturns(t)
      <3>1. UNCHANGED <<strayed, overtaken>>
        BY <2>5
        DEF Outside, MonitorMain, CreateEnter, CreateIgnored, CancelInInit,
            Exit, Exec, PthreadExit, FatalSignal, EndProcess, ProcessEnds, ExecFails,
            MainThreadEnds, ShootdownHandler, ClientCall, Fork, procVars
      <3>2. QED  BY <3>1, Zenon
    <2>6. CASE ScanTimeout(t)
      BY <2>6 DEF ScanTimeout, ThreadsDone, procVars
    <2>7. QED  BY <2>1, <2>2, <2>3, <2>4, <2>5, <2>6, Zenon
  <1>3. QED  BY <1>1, <1>2

\* A step in which no node is made or freed and no thread becomes its creator.
LEMMA PostKeeps ==
    ASSUME PostInv, UNCHANGED <<free_list, tn_array, tn_array_pos>>,
           "has_used_threads" \in flag => "has_used_threads" \in flag',
           \A u \in Threads : pc'[u] = "posting" => pc[u] = "posting" /\ made'[u] = made[u]
    PROVE  PostInv'
  <1>1. Fresh' = Fresh
    BY DEF Fresh, Handed
  <1>2. QED  BY <1>1 DEF PostInv

\* pthread_create makes a node nobody has, and keeps it until it has read it again.
LEMMA StepPostInv ==
    TInv /\ ListInv /\ NodeInv /\ PostInv /\ Next /\ ~overtaken' => PostInv'
  <1> SUFFICES ASSUME TInv, ListInv, NodeInv, PostInv, ~overtaken', NEW t \in Threads,
                      Inside(t) \/ Outside(t) \/ ScanTimeout(t)
               PROVE  PostInv'
    BY DEF Next
  <1>0. /\ pc \in [Threads -> Points] /\ made \in [Threads -> ArrayNodes \cup {NoNode}]
        /\ Workers \subseteq Threads
    BY SetFacts DEF TInv, TypeOK
  <1>1. ASSUME NEW n \in ArrayNodes, MakeThreadNode(n), made' = [made EXCEPT ![t] = n],
               \A u \in Threads : pc'[u] = "posting" => u = t \/ pc[u] = "posting",
               "has_used_threads" \in flag'
        PROVE  PostInv'
    <2>1. /\ n \in Fresh \cup free_list /\ n \notin free_list'
          /\ Fresh' \subseteq Fresh \ {n} /\ free_list' \subseteq free_list
      BY <1>1, MadeFact
    <2>2. made'[t] = n /\ \A u \in Threads \ {t} : made'[u] = made[u]
      BY <1>0, <1>1
    <2>3. \A u \in Threads \ {t} : pc'[u] = "posting" =>
             made'[u] # n /\ made'[u] \notin Fresh' \cup free_list'
      BY <1>1, <2>1, <2>2 DEF PostInv
    <2>4. QED  BY <1>1, <2>1, <2>2, <2>3 DEF PostInv
  <1>2. ASSUME NEW w \in Workers, CreateThread(t, w)  PROVE PostInv'
    <2>1. "has_used_threads" \in flag'
      BY <1>2 DEF CreateThread, At, ListInv, Making
    <2>2. \A u \in Threads : pc'[u] = "posting" => u = t \/ pc[u] = "posting"
      BY <1>0, <1>2 DEF CreateThread
    <2>3. QED  BY <1>1, <1>2, <2>1, <2>2 DEF CreateThread
  <1>3. ASSUME CreateFails(t)  PROVE PostInv'
    <2>1. "has_used_threads" \in flag'
      BY <1>3 DEF CreateFails, At, ListInv, Making
    <2>2. \A u \in Threads : pc'[u] = "posting" => u = t \/ pc[u] = "posting"
      BY <1>0, <1>3 DEF CreateFails, Goto
    <2>3. QED  BY <1>1, <1>3, <2>1, <2>2 DEF CreateFails
  <1>4. ASSUME UnlinkThreadNode(t)  PROVE PostInv'
    <2>1. /\ UNCHANGED <<flag, tn_array, tn_array_pos, made>>
          /\ \A u \in Threads : pc'[u] = "posting" => pc[u] = "posting"
      BY <1>0, <1>4 DEF UnlinkThreadNode, Ends, Goto
    <2>2. CASE Frozen
      BY <1>4, <2>1, <2>2, PostKeeps DEF UnlinkThreadNode
    <2>3. CASE ~Frozen
      <3>1. /\ free_list' = free_list \cup {arg[t]}
            /\ overtaken' = (overtaken \/ \E u \in Threads : Reads(u, arg[t]))
        BY <1>4, <2>3 DEF UnlinkThreadNode
      <3>2. \A u \in Threads : pc[u] = "posting" => made[u] # arg[t]
        BY <3>1, Zenon DEF Reads
      <3>3. Fresh' = Fresh
        BY <2>1 DEF Fresh, Handed
      <3>4. QED  BY <2>1, <3>1, <3>2, <3>3 DEF PostInv
    <2>4. QED  BY <2>2, <2>3
  <1>5. ASSUME NEW x \in Threads, Goto(x, pc'[x]), pc'[x] # "posting",
               monitor_thread_list_init(t), UNCHANGED <<tn_array, made>>
        PROVE  PostInv'
    <2>1. \A u \in Threads : pc'[u] = "posting" => pc[u] = "posting" /\ made'[u] = made[u]
      BY <1>0, <1>5 DEF Goto
    <2>2. CASE "has_used_threads" \in flag
      BY <1>5, <2>1, <2>2, PostKeeps DEF monitor_thread_list_init
    <2>3. CASE "has_used_threads" \notin flag
      BY <2>1, <2>3 DEF PostInv
    <2>4. QED  BY <2>2, <2>3
  <1>6. ASSUME CreateEnter(t)  PROVE PostInv'
    <2>1. Goto(t, pc'[t]) /\ pc'[t] # "posting"
      BY <1>0, <1>6 DEF CreateEnter, Goto
    <2>2. QED  BY <1>5, <1>6, <2>1 DEF CreateEnter
  <1>7. ASSUME NEW w \in Workers, CreateIgnored(t, w)  PROVE PostInv'
    <2>1. Goto(w, pc'[w]) /\ pc'[w] # "posting"
      BY <1>0, <1>7 DEF CreateIgnored, Goto
    <2>2. QED  BY <1>0, <1>5, <1>7, <2>1 DEF CreateIgnored
  <1>8. ASSUME NEW real \in BOOLEAN, Fork(t, real)  PROVE PostInv'
    <2>1. \A u \in Threads : pc'[u] # "posting"
      BY <1>8 DEF Fork, InApplication, At
    <2>2. QED  BY <2>1 DEF PostInv
  <1>9. ASSUME UNCHANGED <<free_list, tn_array, tn_array_pos>>, flag \subseteq flag' \cup
                   {"fini_library_called", "fini_process_done"},
               \A u \in Threads : pc'[u] = "posting" => pc[u] = "posting" /\ made'[u] = made[u]
        PROVE  PostInv'
    BY <1>9, PostKeeps
  <1>10. CASE Inside(t)
    <2>1. ASSUME NEW p \in {"make", "unlink", "shoot"},
                 NEW q \in {"making", "unlinking", "shootset"}, Lock(t, p, q)
          PROVE  PostInv'
      BY <1>0, <1>9, <2>1 DEF Lock, Goto, listVars
    <2>2. CASE PostCreate(t)
      BY <1>0, <1>9, <2>2 DEF PostCreate, Home, Goto, listVars
    <2>3. CASE \/ ThreadRelease(t) \/ ThreadSupport(t) \/ BeginThread(t) \/ LinkThreadNode(t)
               \/ LinkRefused(t) \/ InitThread(t) \/ CleanupFini(t) \/ CleanupDone(t)
               \/ LoserLeaves(t) \/ HandlerReturns(t)
      BY <1>0, <1>9, <2>3
      DEF ThreadRelease, ThreadSupport, BeginThread, LinkThreadNode, LinkRefused, InitThread,
          CleanupFini, CleanupDone, LoserLeaves, HandlerReturns, Ends, Goto, listVars,
          threadVars
    <2>4. CASE \/ ShootBegin(t) \/ (\E n \in Nodes : ScanNode(t, n)) \/ ScanAgain(t)
               \/ ScanDone(t) \/ OwnFini(t) \/ FiniProcess(t)
      BY <1>0, <1>9, <2>4
      DEF ShootBegin, ScanNode, ScanAgain, ScanDone, ThreadsDone, OwnFini, FiniProcess, Goto,
          listVars, threadVars
    <2>5. QED  BY <1>2, <1>3, <1>4, <1>10, <2>1, <2>2, <2>3, <2>4 DEF Inside
  <1>11. CASE Outside(t)
    <2>1. ASSUME NEW h \in Hows, EndProcess(t, h)  PROVE PostInv'
      BY <1>0, <1>9, <2>1 DEF EndProcess, Goto, listVars
    <2>2. CASE \/ MonitorMain(t) \/ CancelInInit(t) \/ ThreadReturns(t) \/ ProcessEnds(t)
               \/ MainThreadEnds(t) \/ ShootdownHandler(t)
               \/ \E f \in {"block_shootdown", "ignore_threads"} : ClientCall(t, f)
      BY <1>0, <1>9, <2>2
      DEF MonitorMain, CancelInInit, ThreadReturns, ProcessEnds, MainThreadEnds,
          ShootdownHandler, ClientCall, Ends, Goto, listVars, threadVars
    <2>3. CASE ExecFails(t)
      BY <1>0, <1>9, <2>3 DEF ExecFails, Home, Goto, listVars
    <2>4. QED
      BY <1>6, <1>7, <1>8, <1>11, <2>1, <2>2, <2>3
      DEF Outside, Exit, Exec, PthreadExit, FatalSignal, Hows
  <1>12. CASE ScanTimeout(t)
    BY <1>0, <1>9, <1>12 DEF ScanTimeout, ThreadsDone, Goto, listVars
  <1>13. QED  BY <1>10, <1>11, <1>12

\* A thread node is in one place: no two threads have it as their own, no thread has a
\* free one, and monitor_unlink_thread_node (pthread.c) removes only what is on the list;
\* and pthread_create reads, at its end, the node it made and no other thread's.  In every
\* process, forked ones included, one step breaks the first: a worker that forked runs
\* the cleanup routine of its thread in the child; and one step more the second: a
\* thread frees the node that its creator has still to read.
THEOREM NodesAreOwned == Spec => []NodesOwned
  <1> DEFINE J == Inv /\ (strayed \/ (NodeInv /\ (overtaken \/ PostInv)))
  <1>1. Init => J
    <2> SUFFICES ASSUME Init PROVE PostInv
      BY InitInv DEF Inv
    <2>1. \A t \in Threads : pc[t] \in {"early", "none"}
      BY DEF Init
    <2>2. QED  BY <2>1 DEF PostInv
  <1>2. J /\ [Next]_vars => J'
    <2>1. ASSUME Inv, [Next]_vars
          PROVE  Inv' /\ (strayed => strayed') /\ (overtaken => overtaken')
      BY <2>1, StepInv, StepHistory DEF Inv
    <2>2. Inv /\ NodeInv /\ Next /\ ~strayed' => NodeInv'
      BY StepNodeInv DEF Inv
    <2>3. Inv /\ NodeInv /\ PostInv /\ Next /\ ~overtaken' => PostInv'
      BY StepPostInv DEF Inv
    <2>4. UNCHANGED vars => (NodeInv => NodeInv') /\ (PostInv => PostInv')
      BY DEF NodeInv, PostInv, Fresh, Handed, Holds, Exempt, Linked,
             vars, nodeVars, listVars, threadVars, shootVars, procVars
    <2>5. QED  BY <2>1, <2>2, <2>3, <2>4, Zenon
  <1>3. J => NodesOwned
    <2>1. PostInv => CreatorsKeep
      BY DEF PostInv, CreatorsKeep
    <2>2. ASSUME Inv, NodeInv PROVE InOnePlace
      <3>1. \A t \in Threads : Uses(t) \subseteq Holds(t)
        BY DEF Uses, Holds, Exempt
      <3>2. /\ \A t, u \in Threads : t # u => Uses(t) \cap Uses(u) = {}
            /\ \A t \in Threads : Uses(t) \cap free_list = {}
        BY <2>2, <3>1 DEF NodeInv
      <3>3. ASSUME NEW t \in Threads, pc[t] \in Cleaning  PROVE arg[t] \in thread_list
        <4>1. arg[t] # NoNode
          BY <2>2, <3>3, SetFacts DEF Inv, TInv, ArgSet, Carrying, Cleaning
        <4>2. t # main
          BY <2>2, <3>3 DEF NodeInv
        <4>3. QED  BY <2>2, <3>3, <4>1, <4>2 DEF NodeInv, Linked
      <3>4. QED  BY <2>2, <3>2, <3>3 DEF NodeInv, InOnePlace, Cleaning
    <2>3. QED  BY <2>1, <2>2, Zenon DEF NodesOwned
  <1> HIDE DEF J
  <1>4. QED  BY <1>1, <1>2, <1>3, PTL DEF Spec

\* When the callbacks of fini_process run and monitor_thread_shootdown did not give up
\* (pthread.c), every other thread that was running when exit cleanup began has had its
\* fini_thread to the end, whether it took the signal, returned by itself or was in its
\* cleanup already; until a worker that forked runs its cleanup routine in the child.
THEOREM ExitDoesWait == Spec => []ExitWaits
  <1> DEFINE K == NodeInv /\ WaitInv /\ ExitInv
             J == Inv /\ (strayed \/ K)
  <1>1. Init => J
    <2> SUFFICES ASSUME Init PROVE WaitInv /\ ExitInv
      BY InitInv DEF Inv
    <2>1. at_exit = {} /\ \A t \in Threads : pc[t] \in {"early", "none"}
      BY DEF Init
    <2>2. QED  BY <2>1 DEF WaitInv, ExitInv, ExitAlwaysWaits
  <1>2. J /\ [Next]_vars => J'
    <2>1. ASSUME Inv, K, Next, ~strayed' PROVE NodeInv'
      BY <2>1, StepNodeInv DEF Inv
    <2>2. ASSUME Inv, K, Next PROVE WaitInv' /\ ExitInv'
      <3>1. PICK t \in Threads : Inside(t) \/ Outside(t) \/ ScanTimeout(t)
        BY <2>2 DEF Next
      <3>2. TInv /\ OneFiniProcess /\ ListInv /\ NodeInv /\ WaitInv /\ ExitInv
        BY <2>2 DEF Inv
      <3>3. CASE Inside(t)
        BY <3>2, <3>3, AsideSteps, AsideKeeps, ListSteps, WalkSteps, Zenon DEF Inside
      <3>4. CASE Outside(t)
        BY <3>2, <3>4, AsideSteps, AsideKeeps, ListSteps, ForkExit, Zenon DEF Outside
      <3>5. CASE ScanTimeout(t)
        BY <3>2, <3>5, WalkSteps, Zenon
      <3>6. QED  BY <3>1, <3>3, <3>4, <3>5
    <2>3. ASSUME K, UNCHANGED vars PROVE K'
      BY <2>3 DEF NodeInv, Fresh, Handed, Holds, Exempt, Linked, WaitInv, ExitInv,
             ExitAlwaysWaits, Frozen, First, vars, nodeVars, listVars, threadVars, shootVars,
             procVars
    <2>4. J /\ [Next]_vars => Inv' /\ (strayed => strayed')
      BY StepInv, StepHistory DEF Inv
    <2>5. QED  BY <2>1, <2>2, <2>3, <2>4
  <1>3. J => ExitWaits
    BY DEF ExitInv, ExitWaits
  <1> HIDE DEF J
  <1>4. QED  BY <1>1, <1>2, <1>3, PTL DEF Spec

=============================================================================
