------------------------------ MODULE ToolInit ------------------------------
(***************************************************************************)
(* How the Witch tool comes to life (src/tools/witchTool/mytool.cpp,       *)
(* WP_Init of watchpoint.cpp): MyTool::Instance() constructs the           *)
(* singleton on first use, its constructor initialises the watchpoint      *)
(* library once, and that initialisation calls MyTool::Instance() again    *)
(* to count the breakpoint registers. Each monitored thread then opens a   *)
(* session whose watchpoint table and sampling device rely on the result.  *)
(***************************************************************************)
EXTENDS Integers, FiniteSets

CONSTANTS
    Threads,        \* monitored threads
    First,          \* the thread that runs monitor_init_process
    Registers,      \* breakpoint devices the kernel grants to a thread
    MAX_POSSIBLE_DEVICES

ASSUME ToolInitAssumption ==
    /\ First \in Threads
    /\ Registers \in Nat
    /\ MAX_POSSIBLE_DEVICES \in Nat

VARIABLES
    processFirst,   \* TRUE: libmonitor initialises the process before any thread starts
                    \* (native, python and sample agents); FALSE: VCPU threads start together
    pc,             \* where each thread is in MyTool::Instance() and tool_sessionInit
    made,           \* number of MyTool objects constructed so far; they are 1 .. made
    t_pInstance,    \* the singleton pointer, 0 for null
    mine,           \* the object a thread is constructing
    tool,           \* the object a thread works with
    WPInitFlag,     \* INITONCE flag
    initialiser,    \* threads that have run WP_Init
    probing,        \* devices getMaxDevices holds while it counts, per thread
    maxWP,          \* wpConfig.maxWP
    slots,          \* slots a thread's WP_ThreadInit has initialised
    devices         \* <<object, thread>>: sampling devices in the objects' maps

vars == <<processFirst, pc, made, t_pInstance, mine, tool, WPInitFlag, initialiser, probing, maxWP,
          slots, devices>>

\* The thread is at step from and goes to step to.
Goto(t, from, to) == pc[t] = from /\ pc' = [pc EXCEPT ![t] = to]

\* Mutant: threads do not wait for the process's initialisation.
AnyStart(t) == TRUE

\* A session may start: at once for the process's first thread and for VCPU threads.
MayStart(t) == processFirst /\ t # First => pc[First] = "in"

\* MyTool::Instance(): the test of t_pInstance,
TestInstance(t) ==
    /\ MayStart(t)
    /\ \/ /\ t_pInstance # 0
          /\ Goto(t, "out", "session")
          /\ tool' = [tool EXCEPT ![t] = t_pInstance]
          /\ UNCHANGED <<made, mine>>
       \/ /\ t_pInstance = 0
          /\ Goto(t, "out", "construct")
          /\ made' = made + 1
          /\ mine' = [mine EXCEPT ![t] = made + 1]
          /\ UNCHANGED tool
    /\ UNCHANGED <<processFirst, t_pInstance, WPInitFlag, initialiser, probing, maxWP, slots, devices>>

\* Mutant: the flag is tested and never set.
WPInitUnset(t) ==
    /\ Goto(t, "construct", IF WPInitFlag THEN "assign" ELSE "wpInit")
    /\ initialiser' = IF WPInitFlag THEN initialiser ELSE initialiser \cup {t}
    /\ UNCHANGED <<processFirst, made, t_pInstance, mine, tool, WPInitFlag, probing, maxWP, slots, devices>>

\* WPInitOnce in the constructor: an atomic test-and-set.
WPInitOnce(t) ==
    /\ Goto(t, "construct", IF WPInitFlag THEN "assign" ELSE "wpInit")
    /\ WPInitFlag' = TRUE
    /\ initialiser' = IF WPInitFlag THEN initialiser ELSE initialiser \cup {t}
    /\ UNCHANGED <<processFirst, made, t_pInstance, mine, tool, probing, maxWP, slots, devices>>

\* WP_Init calls MyTool::Instance() while the first object is under construction. The
\* inner constructor finds the flag set, so the inner call only creates and assigns.
InnerInstance(t) ==
    /\ Goto(t, "wpInit", "probe")
    /\ IF t_pInstance = 0
       THEN made' = made + 1 /\ t_pInstance' = made + 1
       ELSE UNCHANGED <<processFirst, made, t_pInstance>>
    /\ tool' = [tool EXCEPT ![t] = t_pInstance']
    /\ UNCHANGED <<processFirst, mine, WPInitFlag, initialiser, probing, maxWP, slots, devices>>

\* getMaxDevices: devices are registered until one is refused,
Probe(t) ==
    /\ pc[t] = "probe"
    /\ probing[t] < MAX_POSSIBLE_DEVICES
    /\ probing[t] < Registers
    /\ probing' = [probing EXCEPT ![t] = @ + 1]
    /\ UNCHANGED <<processFirst, pc, made, t_pInstance, mine, tool, WPInitFlag, initialiser, maxWP, slots, devices>>

\* then all are removed with their session and WP_Init stores the count.
ProbeDone(t) ==
    /\ probing[t] = MAX_POSSIBLE_DEVICES \/ probing[t] = Registers
    /\ Goto(t, "probe", "assign")
    /\ maxWP' = probing[t]
    /\ probing' = [probing EXCEPT ![t] = 0]
    /\ UNCHANGED <<processFirst, made, t_pInstance, mine, tool, WPInitFlag, initialiser, slots, devices>>

\* The outer new returns: t_pInstance is overwritten.
AssignInstance(t) ==
    /\ Goto(t, "assign", "session")
    /\ t_pInstance' = mine[t]
    /\ tool' = [tool EXCEPT ![t] = mine[t]]
    /\ UNCHANGED <<processFirst, made, mine, WPInitFlag, initialiser, probing, maxWP, slots, devices>>

\* tool_sessionInit: WPInitOnce finds the flag set, WP_ThreadInit fills maxWP slots,
ThreadInit(t) ==
    /\ Goto(t, "session", "device")
    /\ slots' = [slots EXCEPT ![t] = maxWP]
    /\ UNCHANGED <<processFirst, made, t_pInstance, mine, tool, WPInitFlag, initialiser, probing, maxWP, devices>>

\* and registerDevice files the sampling device with the current MyTool::Instance().
RegisterDevice(t) ==
    /\ Goto(t, "device", "in")
    /\ devices' = devices \cup {<<t_pInstance, t>>}
    /\ UNCHANGED <<processFirst, made, t_pInstance, mine, tool, WPInitFlag, initialiser, probing, maxWP, slots>>

Init ==
    /\ processFirst \in BOOLEAN
    /\ pc = [t \in Threads |-> "out"]
    /\ made = 0
    /\ t_pInstance = 0
    /\ mine = [t \in Threads |-> 0]
    /\ tool = [t \in Threads |-> 0]
    /\ WPInitFlag = FALSE
    /\ initialiser = {}
    /\ probing = [t \in Threads |-> 0]
    /\ maxWP = 0
    /\ slots = [t \in Threads |-> 0]
    /\ devices = {}

Started == \A t \in Threads : pc[t] = "in"

\* All sessions are open: initialisation has nothing left to do.
Done == Started /\ UNCHANGED vars

Next ==
    \/ \E t \in Threads :
          \/ TestInstance(t) \/ WPInitOnce(t) \/ InnerInstance(t) \/ Probe(t) \/ ProbeDone(t)
          \/ AssignInstance(t) \/ ThreadInit(t) \/ RegisterDevice(t)
    \/ Done

Spec == Init /\ [][Next]_vars

-----------------------------------------------------------------------------
(* Properties                                                              *)

\* However many objects are constructed and however the threads interleave, the
\* watchpoint library is initialised by one thread only.
InitialisedOnce == Cardinality(initialiser) <= 1

\* When the process is initialised before its threads, the second object does no harm:
\* every sampling device is filed with the object later lookups use,
DevicesReachable ==
    processFirst => \A t \in Threads : pc[t] = "in" => <<t_pInstance, t>> \in devices

\* and every thread's table is initialised up to the number of slots in use. VCPU
\* threads that start together have no such guarantee: INITONCE lets the second one
\* pass before the first has stored maxWP.
TablesComplete ==
    processFirst => \A t \in Threads : pc[t] \in {"device", "in"} => slots[t] = maxWP
=============================================================================
