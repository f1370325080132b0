--------------------------- MODULE ToolInitProofs ---------------------------
(***************************************************************************)
(* Proofs about the start of the Witch tool, for any number of threads and *)
(* breakpoint registers: the watchpoint library is initialised once, and   *)
(* where the process comes before its threads every session finds its      *)
(* device and a complete table, although the singleton is made twice.      *)
(***************************************************************************)
EXTENDS ToolInit, FiniteSetTheorems, TLAPS

Points == {"out", "construct", "wpInit", "probe", "assign", "session", "device", "in"}

\* The types of what the arguments below look at.
InitTypes ==
    /\ processFirst \in BOOLEAN
    /\ pc \in [Threads -> Points]
    /\ made \in Nat /\ t_pInstance \in Nat
    /\ mine \in [Threads -> Nat]
    /\ probing \in [Threads -> Nat]
    /\ slots \in [Threads -> Nat] /\ maxWP \in Nat
    /\ initialiser \subseteq Threads

\* Who has initialised the library found the flag down.
OneInitialiser ==
    /\ ~WPInitFlag => initialiser = {}
    /\ \A t, u \in initialiser : t = u

\* The objects are numbered from 1, so a thread that constructs has a real one.
Made == \A t \in Threads : pc[t] \in {"construct", "wpInit", "probe", "assign"} => mine[t] # 0

\* The first thread goes alone, and leaves an object behind that stays: the threads
\* after it never construct one.
FirstAlone ==
    processFirst =>
        /\ pc[First] # "in" => \A t \in Threads \ {First} : pc[t] = "out"
        /\ pc[First] \in {"session", "device", "in"} => t_pInstance # 0
        /\ pc[First] = "in" =>
              \A t \in Threads : pc[t] \in {"out", "session", "device", "in"}

TInv ==
    /\ InitTypes
    /\ OneInitialiser
    /\ Made
    /\ FirstAlone
    /\ DevicesReachable
    /\ TablesComplete

-----------------------------------------------------------------------------

LEMMA InitTInv == Init => TInv
  BY ToolInitAssumption
  DEF Init, TInv, InitTypes, OneInitialiser, Made, FirstAlone, DevicesReachable,
      TablesComplete, Points

\* The test of the pointer: where the process comes first only its first thread finds
\* none.
LEMMA TestTInv ==
    ASSUME TInv, NEW t \in Threads, TestInstance(t)
    PROVE  TInv'
  <1>1. /\ UNCHANGED <<processFirst, t_pInstance, WPInitFlag, initialiser, probing, maxWP,
                       slots, devices>>
        /\ pc[t] = "out" /\ MayStart(t)
    BY DEF TestInstance, Goto
  <1>2. CASE t_pInstance # 0
    <2>1. pc' = [pc EXCEPT ![t] = "session"] /\ UNCHANGED <<made, mine>>
      BY <1>2 DEF TestInstance, Goto
    <2>2. QED
      BY <1>1, <1>2, <2>1, ToolInitAssumption
      DEF TInv, InitTypes, OneInitialiser, Made, FirstAlone, DevicesReachable,
          TablesComplete, Points, MayStart
  <1>3. CASE t_pInstance = 0
    <2>1. /\ pc' = [pc EXCEPT ![t] = "construct"]
          /\ made' = made + 1 /\ mine' = [mine EXCEPT ![t] = made + 1]
      BY <1>3 DEF TestInstance, Goto
    <2>2. made + 1 \in Nat /\ made + 1 # 0
      BY DEF TInv, InitTypes
    <2>3. InitTypes' /\ OneInitialiser' /\ Made'
      BY <1>1, <2>1, <2>2 DEF TInv, InitTypes, OneInitialiser, Made, Points
    <2>4. processFirst => t = First
      BY <1>1, <1>3, ToolInitAssumption DEF TInv, FirstAlone, MayStart
    <2>5. FirstAlone'
      BY <1>1, <2>1, <2>4, ToolInitAssumption DEF TInv, InitTypes, FirstAlone
    <2>6. DevicesReachable' /\ TablesComplete'
      BY <1>1, <2>1 DEF TInv, InitTypes, DevicesReachable, TablesComplete
    <2>7. QED  BY <2>3, <2>5, <2>6 DEF TInv
  <1>4. QED  BY <1>2, <1>3

\* The steps of a construction: the first thread takes them, or VCPU threads do.
LEMMA ConstructTInv ==
    ASSUME TInv, NEW t \in Threads,
           \/ WPInitOnce(t) \/ InnerInstance(t) \/ Probe(t) \/ ProbeDone(t)
           \/ AssignInstance(t)
    PROVE  TInv'
  <1>1. /\ pc[t] \in {"construct", "wpInit", "probe", "assign"}
        /\ UNCHANGED <<processFirst, mine, slots, devices>>
    BY DEF WPInitOnce, InnerInstance, Probe, ProbeDone, AssignInstance, Goto
  <1>2. processFirst => t = First /\ \A u \in Threads : pc[u] # "in" /\ pc[u] # "device"
    BY <1>1, ToolInitAssumption DEF TInv, InitTypes, FirstAlone
  <1>3. PICK q \in {"wpInit", "probe", "assign", "session"} : pc' = [pc EXCEPT ![t] = q]
    BY <1>1 DEF TInv, InitTypes, WPInitOnce, InnerInstance, Probe, ProbeDone,
                AssignInstance, Goto
  <1>4. mine[t] # 0 /\ mine[t] \in Nat
    BY <1>1 DEF TInv, Made, InitTypes
  <1>5. q = "session" => t_pInstance' = mine[t]
    BY <1>1, <1>3 DEF TInv, InitTypes, WPInitOnce, InnerInstance, Probe, ProbeDone,
                      AssignInstance, Goto
  <1>6. InitTypes'
    <2>1. pc' \in [Threads -> Points]
      BY <1>3 DEF TInv, InitTypes, Points
    <2>2. made' \in Nat /\ t_pInstance' \in Nat /\ maxWP' \in Nat
          /\ initialiser' \subseteq Threads
      BY <1>4 DEF TInv, InitTypes, WPInitOnce, InnerInstance, Probe, ProbeDone,
                  AssignInstance
    <2>3. probing' \in [Threads -> Nat]
      BY DEF TInv, InitTypes, WPInitOnce, InnerInstance, Probe, ProbeDone, AssignInstance
    <2>4. QED  BY <1>1, <2>1, <2>2, <2>3 DEF TInv, InitTypes
  <1>7. OneInitialiser'
    BY DEF TInv, OneInitialiser, WPInitOnce, InnerInstance, Probe, ProbeDone,
           AssignInstance
  <1>8. Made'
    BY <1>1, <1>3, <1>4 DEF TInv, InitTypes, Made
  <1>9. FirstAlone'
    BY <1>1, <1>2, <1>3, <1>4, <1>5, ToolInitAssumption DEF TInv, InitTypes, FirstAlone
  <1>10. DevicesReachable' /\ TablesComplete'
    BY <1>1, <1>2, <1>3 DEF TInv, InitTypes, DevicesReachable, TablesComplete
  <1>11. QED  BY <1>6, <1>7, <1>8, <1>9, <1>10 DEF TInv

\* A session's table and device.
LEMMA SessionTInv ==
    ASSUME TInv, NEW t \in Threads, ThreadInit(t) \/ RegisterDevice(t)
    PROVE  TInv'
  <1>1. /\ UNCHANGED <<processFirst, made, t_pInstance, mine, WPInitFlag, initialiser,
                       probing, maxWP>>
        /\ \/ /\ pc[t] = "session" /\ pc' = [pc EXCEPT ![t] = "device"]
              /\ slots' = [slots EXCEPT ![t] = maxWP] /\ devices' = devices
           \/ /\ pc[t] = "device" /\ pc' = [pc EXCEPT ![t] = "in"]
              /\ devices' = devices \cup {<<t_pInstance, t>>} /\ slots' = slots
    BY DEF ThreadInit, RegisterDevice, Goto
  <1>2. InitTypes' /\ OneInitialiser' /\ Made'
    BY <1>1 DEF TInv, InitTypes, OneInitialiser, Made, Points
  <1>3. FirstAlone'
    BY <1>1, ToolInitAssumption DEF TInv, InitTypes, FirstAlone
  <1>4. DevicesReachable' /\ TablesComplete'
    BY <1>1 DEF TInv, InitTypes, DevicesReachable, TablesComplete
  <1>5. QED  BY <1>2, <1>3, <1>4 DEF TInv

LEMMA NextTInv == TInv /\ [Next]_vars => TInv'
  <1> SUFFICES ASSUME TInv, [Next]_vars PROVE TInv'
    OBVIOUS
  <1>1. CASE UNCHANGED vars
    BY <1>1 DEF vars, TInv, InitTypes, OneInitialiser, Made, FirstAlone, DevicesReachable,
                TablesComplete
  <1>2. CASE Next
    BY <1>1, <1>2, TestTInv, ConstructTInv, SessionTInv DEF Next, Done
  <1>3. QED  BY <1>1, <1>2

-----------------------------------------------------------------------------

\* The invariant of the tool's start is preserved by every step of every thread, in both
\* ways a process starts.
THEOREM ToolInductive == Spec => []TInv
  BY InitTInv, NextTInv, PTL DEF Spec

\* WPInitOnce's test-and-set (mytool.cpp, watchpoint.cpp) lets one thread initialise
\* the watchpoint library, however many objects MyTool::Instance() constructs and
\* however many VCPU threads start together.
THEOREM LibraryInitialisedOnce == Spec => []InitialisedOnce
  <1>1. TInv => InitialisedOnce
    <2> SUFFICES ASSUME TInv PROVE Cardinality(initialiser) <= 1
      BY DEF InitialisedOnce
    <2>1. CASE initialiser = {}
      BY <2>1, FS_EmptySet
    <2>2. CASE initialiser # {}
      <3>1. PICK t \in initialiser : initialiser = {t}
        BY <2>2 DEF TInv, OneInitialiser
      <3>2. Cardinality({t}) = 1
        BY FS_Singleton
      <3>3. QED  BY <3>1, <3>2
    <2>3. QED  BY <2>1, <2>2
  <1>2. QED  BY <1>1, ToolInductive, PTL

\* When the process is initialised before its threads, every sampling device is filed
\* with the MyTool object that later lookups use, although the inner and the outer call
\* of MyTool::Instance() (mytool.cpp) construct two.
THEOREM DevicesAreReachable == Spec => []DevicesReachable
  <1>1. TInv => DevicesReachable
    BY DEF TInv
  <1>2. QED  BY <1>1, ToolInductive, PTL

\* When the process is initialised before its threads, WP_ThreadInit (watchpoint.cpp)
\* initialises all the slots that maxWP says are in use.
THEOREM TablesAreComplete == Spec => []TablesComplete
  <1>1. TInv => TablesComplete
    BY DEF TInv
  <1>2. QED  BY <1>1, ToolInductive, PTL

=============================================================================
