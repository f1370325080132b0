--------------------------- MODULE MonitorThreads ---------------------------
(***************************************************************************)
(* libmonitor's threads and process exit: the thread nodes and their two   *)
(* lists (pthread.c), the life of a thread from pthread_create to its      *)
(* cleanup routine, the end of the process with its race of exits and the  *)
(* shootdown of the other threads (main.c, pthread.c), and fork and exec   *)
(* (fork.c).  The profiler's sessions live between the monitor_init_thread *)
(* and monitor_fini_thread callbacks issued here.                          *)
(*                                                                         *)
(* A thread is its pthread_t, which the system may give out again once the *)
(* thread has ended.  A process flag (and a flag of a node) is an element  *)
(* of the set of flags that are up.  A LIST of queue.h is the set of its   *)
(* members: LIST_FIRST takes any of them and a walk visits them in any     *)
(* order; removing a node that is not on the list leaves on it whatever    *)
(* the node's old links lead to.  A callback of the client is a program    *)
(* point: it runs from the step that reaches the point to the step that    *)
(* leaves it.                                                              *)
(***************************************************************************)
EXTENDS Integers, FiniteSets

CONSTANTS
    Main,           \* the thread the process starts with
    Workers,        \* the pthread_t's of the other threads
    NoThread,
    ArraySize,      \* MONITOR_TN_ARRAY_SIZE
    MaxArrays,      \* bound: thread node arrays (the static one and malloc'ed ones)
    MaxThreadNum,   \* bound: threads that may be linked
    MaxForks,       \* bound: forks whose child the behaviour follows
    ClientCalls,    \* whether the client blocks shootdown and ignores new threads
    FatalSignals    \* whether a signal with the default action may end the process

Threads == {Main} \cup Workers
MainNode == 0
ArrayNodes == 1 .. (ArraySize * MaxArrays)
Nodes == {MainNode} \cup ArrayNodes
NoNode == -1

ASSUME ThreadsAssumption ==
    /\ Main \notin Workers
    /\ NoThread \notin Threads
    /\ IsFiniteSet(Workers)
ASSUME BoundsAssumption ==
    /\ ArraySize \in Nat \ {0}
    /\ MaxArrays \in Nat \ {0}
    /\ MaxThreadNum \in Nat
    /\ MaxForks \in Nat
    /\ ClientCalls \in BOOLEAN
    /\ FatalSignals \in BOOLEAN

\* The static flags of main.c and pthread.c (main.c has a
\* monitor_has_reached_main of its own, here main_called).
ProcessFlags == {"main_called", "has_used_threads", "has_reached_main",
    "thread_support_done", "in_exit_cleanup", "fini_thread_done",
    "end_process_cookie", "fini_process_done", "fini_library_called"}

\* The char fields of struct monitor_thread_node, and its magic number.
NodeFlags == {"magic", "is_main", "appl_started", "fini_started", "fini_done",
    "exit_win", "block_shootdown", "ignore_threads"}

\* Where a thread is.  Ahead of main: early (constructors), begin (the
\* init_process callback), release.  In pthread_create: support, make, making,
\* posting (the real pthread_create has returned).
\* A new thread: wait, linking, init.  The application: app.  The cleanup
\* routine: clean (past its tests), fini, unlink, unlinking.  The end of the
\* process: shoot, shootset, scan, ownfini, finiproc, loser, ending.
Making  == {"support", "make", "making"}
Holding == {"making", "linking", "unlinking", "shootset"}
Winning == {"shoot", "shootset", "scan", "ownfini", "finiproc"}
Points  == {"none", "early", "begin", "release", "wait", "linking", "init",
            "app", "clean", "fini", "unlink", "unlinking", "loser",
            "ending", "posting"} \cup Making \cup Winning

\* What follows monitor_end_process_fcn: the end of the process, an exec, or the
\* end of the thread.
Hows == {"exit", "exec", "thread"}

VARIABLES
    flag,         \* the process flags that are up
    tn, tn_self, tn_tid,                \* the thread nodes
    thread_list, free_list,             \* monitor_thread_list, monitor_free_list
    tn_array, tn_array_pos, thread_num,
    thread_lock,  \* the holder of monitor_thread_lock
    pc,           \* where each thread is
    key,          \* each thread's value of monitor_pthread_key
    arg,          \* the node monitor_begin_thread was given
    made,         \* the node a thread in pthread_create has made
    how,          \* the exit a thread is carrying out
    pending,      \* threads with a shootdown signal pending
    handler,      \* threads in the fini_thread callback of the shootdown handler
    shoot,        \* locals of monitor_thread_shootdown
    at_exit,      \* ghost: nodes of started threads when exit cleanup began
    main,         \* ghost: the thread that runs as the process's main thread;
                  \* Main again once a worker that forked has ended
    strayed,      \* history: a worker that forked ran its cleanup in the child
    overtaken,    \* history: a thread freed its node before pthread_create, which
                  \* made it, had read the node for the last time
    forks         \* bound: forks followed so far

nodeVars   == <<tn, tn_self, tn_tid>>
listVars   == <<thread_list, free_list, tn_array, tn_array_pos, thread_num>>
threadVars == <<pc, key, arg, made, how>>
shootVars  == <<pending, handler, shoot, at_exit>>
procVars   == <<main, strayed, overtaken, forks>>
vars == <<flag, nodeVars, listVars, thread_lock, threadVars, shootVars, procVars>>

NoShoot == [todo |-> {}, my_tn |-> NoNode, started |-> {}, last |-> 0,
            unstarted |-> {}, unfinished |-> {}]
-----------------------------------------------------------------------------
\* monitor_early_init: only main's node exists.
Init ==
    /\ flag = {}
    /\ tn = [n \in Nodes |-> IF n = MainNode THEN {"magic", "is_main"} ELSE {}]
    /\ tn_self = [n \in Nodes |-> NoThread]
    /\ tn_tid = [n \in Nodes |-> 0]
    /\ thread_list = {} /\ free_list = {}
    /\ tn_array = 0 /\ tn_array_pos = 0
    /\ thread_num = 0
    /\ thread_lock = NoThread
    /\ pc = [t \in Threads |-> IF t = Main THEN "early" ELSE "none"]
    /\ key = [t \in Threads |-> NoNode]
    /\ arg = [t \in Threads |-> NoNode]
    /\ made = [t \in Threads |-> NoNode]
    /\ how = [t \in Threads |-> "exit"]
    /\ pending = {} /\ handler = {}
    /\ shoot = NoShoot
    /\ at_exit = {}
    /\ main = Main /\ strayed = FALSE /\ overtaken = FALSE
    /\ forks = 0

\* monitor_get_tn: the caller's node, or NoNode.
monitor_get_tn(t) ==
    IF "has_used_threads" \in flag
    THEN IF key[t] # NoNode /\ "magic" \in tn[key[t]] THEN key[t] ELSE NoNode
    ELSE MainNode

\* t takes its next step itself: it is not inside the shootdown handler.
At(t, point) == pc[t] = point /\ t \notin handler
Goto(t, point) == pc' = [pc EXCEPT ![t] = point]
Raise(n, f) == tn' = [tn EXCEPT ![n] = @ \cup f]

\* Where a call of the application returns to: a constructor or the application.
Home(t) == IF t = Main /\ "main_called" \notin flag THEN "early" ELSE "app"
InApplication(t) == At(t, "early") \/ At(t, "app")

\* The thread is gone; its pthread_t may be given out again.
Ends(t) ==
    /\ Goto(t, "none")
    /\ key' = [key EXCEPT ![t] = NoNode]
    /\ arg' = [arg EXCEPT ![t] = NoNode]
    /\ pending' = pending \ {t}
    /\ main' = IF t = main THEN Main ELSE main

\* spinlock_lock: spin until compare_and_swap takes the lock.
Lock(t, from, to) ==
    /\ At(t, from)
    /\ thread_lock = NoThread
    /\ thread_lock' = t
    /\ Goto(t, to)
    /\ UNCHANGED <<flag, nodeVars, listVars, key, arg, made, how, shootVars, procVars>>

Unlock(t) == thread_lock' = NoThread
-----------------------------------------------------------------------------
\* monitor_main up to the init_process callback.
MonitorMain(t) ==
    /\ t = Main /\ At(t, "early")
    /\ flag' = (flag \cup {"main_called"}) \ {"fini_library_called", "fini_process_done"}
    /\ Goto(t, "begin")
    /\ UNCHANGED <<nodeVars, listVars, thread_lock, key, arg, made, how, shootVars, procVars>>

\* init_process has returned; monitor_thread_release lets early threads go, but
\* runs the thread support callback first when there may be such threads.
ThreadRelease(t) ==
    /\ At(t, "begin")
    /\ IF "has_used_threads" \in flag /\ "thread_support_done" \notin flag
       THEN Goto(t, "release") /\ UNCHANGED flag
       ELSE Goto(t, "app") /\ flag' = flag \cup {"has_reached_main"}
    /\ UNCHANGED <<nodeVars, listVars, thread_lock, key, arg, made, how, shootVars, procVars>>

\* monitor_init_thread_support has returned, in release or in pthread_create.
ThreadSupport(t) ==
    /\ \/ /\ At(t, "release")
          /\ Goto(t, "app")
          /\ flag' = flag \cup {"thread_support_done", "has_reached_main"}
       \/ /\ At(t, "support")
          /\ Goto(t, "make")
          /\ flag' = flag \cup {"thread_support_done"}
    /\ UNCHANGED <<nodeVars, listVars, thread_lock, key, arg, made, how, shootVars, procVars>>
-----------------------------------------------------------------------------
\* pthread_create's first call: monitor_thread_list_init.
monitor_thread_list_init(t) ==
    IF "has_used_threads" \in flag
    THEN UNCHANGED <<thread_list, free_list, tn_array_pos, key, tn_self, flag>>
    ELSE /\ thread_list' = {} /\ free_list' = {}
         /\ tn_array_pos' = 0
         /\ key' = [key EXCEPT ![t] = MainNode]
         /\ tn_self' = [tn_self EXCEPT ![MainNode] = t]
         /\ flag' = flag \cup {"has_used_threads"}

\* The caller's node, as pthread_create sees it after the initialisation.
CreatorNode(t) ==
    IF "has_used_threads" \in flag THEN monitor_get_tn(t) ELSE MainNode

Ignoring(t) == CreatorNode(t) # NoNode /\ "ignore_threads" \in tn[CreatorNode(t)]

\* Bounds: a call of pthread_create ends with a node and, when its thread gets
\* that far, with a tid.
Creating == {t \in Threads : pc[t] \in Making}
Arriving == {t \in Threads : pc[t] \in Making \cup {"wait", "linking"}}
RoomForOneMore ==
    /\ Cardinality(Creating) + tn_array * ArraySize + tn_array_pos
           < ArraySize * MaxArrays + Cardinality(free_list)
    /\ Cardinality(Arriving) + thread_num < MaxThreadNum

\* pthread_create up to the making of the node: thread support now, or
\* deferred when main is not reached yet.
CreateEnter(t) ==
    /\ InApplication(t)
    /\ RoomForOneMore
    /\ ~Ignoring(t)
    /\ monitor_thread_list_init(t)
    /\ Goto(t, IF "thread_support_done" \notin flag /\ "has_reached_main" \in flag
               THEN "support" ELSE "make")
    /\ UNCHANGED <<tn, tn_tid, tn_array, thread_num, thread_lock, arg, made, how,
                   shootVars, procVars>>

\* pthread_create of a thread the client ignores: no node, no callbacks.
CreateIgnored(t, w) ==
    /\ InApplication(t)
    /\ Ignoring(t)
    /\ pc[w] = "none"
    /\ monitor_thread_list_init(t)
    /\ Goto(w, "app")
    /\ UNCHANGED <<tn, tn_tid, tn_array, thread_num, thread_lock, arg, made, how,
                   shootVars, procVars>>

\* monitor_make_thread_node, under the lock: the free list, then the array,
\* then a new array.
FromFreeListKept(n) ==
    /\ n \in free_list
    /\ UNCHANGED <<free_list, tn_array, tn_array_pos>>

FromFreeList(n) ==
    /\ n \in free_list
    /\ free_list' = free_list \ {n}
    /\ UNCHANGED <<tn_array, tn_array_pos>>

FromArray(n) ==
    /\ free_list = {}
    /\ tn_array_pos < ArraySize
    /\ n = tn_array * ArraySize + tn_array_pos + 1
    /\ tn_array_pos' = tn_array_pos + 1
    /\ UNCHANGED <<free_list, tn_array>>

FromNewArray(n) ==
    /\ free_list = {}
    /\ tn_array_pos >= ArraySize
    /\ tn_array + 1 < MaxArrays
    /\ n = (tn_array + 1) * ArraySize + 1
    /\ tn_array' = tn_array + 1
    /\ tn_array_pos' = 1
    /\ UNCHANGED free_list

MakeThreadNode(n) ==
    /\ FromFreeList(n) \/ FromArray(n) \/ FromNewArray(n)
    /\ tn' = [tn EXCEPT ![n] = {"magic"}]
    /\ tn_self' = [tn_self EXCEPT ![n] = NoThread]
    /\ tn_tid' = [tn_tid EXCEPT ![n] = -1]

\* With the new node the real pthread_create starts monitor_begin_thread in a
\* thread w ...
CreateThread(t, w) ==
    /\ At(t, "making")
    /\ pc[w] = "none"
    /\ \E n \in ArrayNodes :
          /\ MakeThreadNode(n)
          /\ arg' = [arg EXCEPT ![w] = n]
          /\ made' = [made EXCEPT ![t] = n]
    /\ pc' = [pc EXCEPT ![t] = "posting", ![w] = "wait"]
    /\ Unlock(t)
    /\ UNCHANGED <<flag, thread_list, thread_num, key, how, shootVars, procVars>>

\* ... or fails, and the node stays on no list.
CreateFails(t) ==
    /\ At(t, "making")
    /\ \E n \in ArrayNodes :
          /\ MakeThreadNode(n)
          /\ made' = [made EXCEPT ![t] = n]
    /\ Goto(t, "posting")
    /\ Unlock(t)
    /\ UNCHANGED <<flag, thread_list, thread_num, key, arg, how, shootVars, procVars>>

\* The rest of pthread_create: tn->tn_user_data of the node made[t] goes to
\* monitor_thread_post_create, whatever the new thread has done meanwhile.
PostCreate(t) ==
    /\ At(t, "posting")
    /\ made' = [made EXCEPT ![t] = NoNode]
    /\ Goto(t, Home(t))
    /\ UNCHANGED <<flag, nodeVars, listVars, thread_lock, key, arg, how, shootVars, procVars>>
-----------------------------------------------------------------------------
SupportReached == "main_called" \in flag
SupportReady == "thread_support_done" \in flag

\* monitor_begin_thread: wait for the thread support callback, become known as
\* the node's thread, and take the lock of monitor_link_thread_node.
BeginThread(t) ==
    /\ At(t, "wait")
    /\ SupportReady
    /\ thread_lock = NoThread
    /\ thread_lock' = t
    /\ tn_self' = [tn_self EXCEPT ![arg[t]] = t]
    /\ key' = [key EXCEPT ![t] = arg[t]]
    /\ Goto(t, "linking")
    /\ UNCHANGED <<flag, tn, tn_tid, listVars, arg, made, how, shootVars, procVars>>

FrozenWhenDone == "fini_thread_done" \in flag
Frozen == "in_exit_cleanup" \in flag

\* monitor_link_thread_node, under the lock.
LinkThreadNode(t) ==
    /\ At(t, "linking")
    /\ ~Frozen
    /\ tn_tid' = [tn_tid EXCEPT ![arg[t]] = thread_num + 1]
    /\ thread_num' = thread_num + 1
    /\ thread_list' = thread_list \cup {arg[t]}
    /\ Unlock(t)
    /\ Goto(t, "init")
    /\ UNCHANGED <<flag, tn, tn_self, free_list, tn_array, tn_array_pos, key, arg, made, how,
                   shootVars, procVars>>

\* At exit cleanup the thread is not started, though pthread_create succeeded.
LinkRefused(t) ==
    /\ At(t, "linking")
    /\ Frozen
    /\ Unlock(t)
    /\ Ends(t)
    /\ UNCHANGED <<flag, nodeVars, listVars, made, how, handler, shoot, at_exit, strayed,
                   overtaken, forks>>

\* monitor_init_thread has returned; the start routine runs.
InitThread(t) ==
    /\ At(t, "init")
    /\ Raise(arg[t], {"appl_started"})
    /\ Goto(t, "app")
    /\ UNCHANGED <<flag, tn_self, tn_tid, listVars, thread_lock, key, arg, made, how,
                   shootVars, procVars>>

\* Cancelled inside monitor_init_thread: the cleanup routine finds the
\* application not started and returns.
CancelInInit(t) ==
    /\ At(t, "init")
    /\ Ends(t)
    /\ UNCHANGED <<flag, nodeVars, listVars, thread_lock, made, how, handler, shoot, at_exit,
                   strayed, overtaken, forks>>

\* The tests of monitor_pthread_cleanup_routine (and of the shootdown handler).
WantsFini(n) ==
    /\ n # NoNode
    /\ "magic" \in tn[n]
    /\ "appl_started" \in tn[n]
    /\ tn[n] \cap {"fini_started", "block_shootdown"} = {}
    /\ "fini_thread_done" \notin flag

\* A thread that is not the process's first returns, calls pthread_exit or is
\* cancelled: one without a node just ends, for the others the cleanup routine
\* runs; for a worker that forked it does so in the child, with the node that it
\* had in the parent.
ThreadReturns(t) ==
    /\ At(t, "app")
    /\ t # Main
    /\ IF WantsFini(arg[t])
       THEN /\ Goto(t, "clean")
            /\ strayed' = (strayed \/ t = main)
            /\ UNCHANGED <<key, arg, pending, main>>
       ELSE Ends(t) /\ UNCHANGED strayed
    /\ UNCHANGED <<flag, nodeVars, listVars, thread_lock, made, how, handler, shoot, at_exit,
                   overtaken, forks>>

\* Its last assignments: the callback runs at "fini".
CleanupFini(t) ==
    /\ At(t, "clean")
    /\ Raise(arg[t], {"fini_started"})
    /\ Goto(t, "fini")
    /\ UNCHANGED <<flag, tn_self, tn_tid, listVars, thread_lock, key, arg, made, how,
                   shootVars, procVars>>

CleanupDone(t) ==
    /\ At(t, "fini")
    /\ Raise(arg[t], {"fini_done"})
    /\ Goto(t, "unlink")
    /\ UNCHANGED <<flag, tn_self, tn_tid, listVars, thread_lock, key, arg, made, how,
                   shootVars, procVars>>

\* LIST_REMOVE of a node that should be on the thread list.
ListRemove(n) ==
    IF n \in thread_list THEN thread_list' = thread_list \ {n}
                         ELSE thread_list' \in SUBSET ArrayNodes

\* u made the node n, for a thread of its own, and has still to read it.
Reads(u, n) == pc[u] = "posting" /\ made[u] = n

\* monitor_unlink_thread_node, under the lock.
UnlinkThreadNode(t) ==
    /\ At(t, "unlinking")
    /\ IF Frozen
       THEN /\ Raise(arg[t], {"fini_started", "fini_done"})
            /\ UNCHANGED <<tn_self, tn_tid, thread_list, free_list, overtaken>>
       ELSE /\ ListRemove(arg[t])
            /\ tn' = [tn EXCEPT ![arg[t]] = {}]
            /\ tn_self' = [tn_self EXCEPT ![arg[t]] = NoThread]
            /\ tn_tid' = [tn_tid EXCEPT ![arg[t]] = 0]
            /\ free_list' = free_list \cup {arg[t]}
            /\ overtaken' = (overtaken \/ \E u \in Threads : Reads(u, arg[t]))
    /\ Unlock(t)
    /\ Ends(t)
    /\ UNCHANGED <<flag, tn_array, tn_array_pos, thread_num, made, how, handler, shoot, at_exit,
                   strayed, forks>>
-----------------------------------------------------------------------------
\* The node of the thread that won the race to exit.
ExitWinner(n) == n # NoNode /\ "exit_win" \in tn[n]

FirstUntilDone == "fini_process_done" \notin flag
First == "end_process_cookie" \notin flag

\* monitor_end_process_fcn: the first thread in wins and runs the callbacks, the
\* same thread coming again passes, any other waits.
EndProcess(t, h) ==
    LET self == monitor_get_tn(t) IN
    /\ how' = [how EXCEPT ![t] = h]
    /\ \/ /\ First
          /\ flag' = flag \cup {"end_process_cookie"}
          /\ IF self # NoNode THEN Raise(self, {"exit_win"}) ELSE UNCHANGED tn
          /\ Goto(t, IF "has_used_threads" \in flag THEN "shoot" ELSE "finiproc")
       \/ /\ ~First
          /\ ExitWinner(self)
          /\ flag' = flag \cup {"fini_process_done"}
          /\ Goto(t, "ending")
          /\ UNCHANGED tn
       \/ /\ ~First
          /\ ~ExitWinner(self)
          /\ Goto(t, "loser")
          /\ UNCHANGED <<flag, tn>>
    /\ UNCHANGED <<tn_self, tn_tid, listVars, thread_lock, key, arg, made, pending, shoot, at_exit,
                   procVars>>

\* exit, _exit, _Exit, the return of main; execv and its kin of a file that
\* looks executable; pthread_exit of a thread that is main or has no node.
Exit(t) == InApplication(t) /\ EndProcess(t, "exit") /\ UNCHANGED handler
Exec(t) == InApplication(t) /\ EndProcess(t, "exec") /\ UNCHANGED handler
PthreadExit(t) ==
    /\ InApplication(t)
    /\ monitor_get_tn(t) \in {NoNode, MainNode}
    /\ EndProcess(t, "thread")
    /\ UNCHANGED handler

\* monitor_signal_handler with the default action: wherever the thread is.
FatalSignal(t) ==
    /\ FatalSignals
    /\ pc[t] \notin {"none", "loser", "ending"}
    /\ handler' = handler \ {t}
    /\ EndProcess(t, "exit")

\* monitor_thread_shootdown, under the lock: from here on the list stays as it is.
ShootBegin(t) ==
    /\ At(t, "shootset")
    /\ flag' = flag \cup {"in_exit_cleanup"}
    /\ at_exit' = {n \in thread_list : "appl_started" \in tn[n]}
    /\ shoot' = [NoShoot EXCEPT !.todo = thread_list]
    /\ Unlock(t)
    /\ Goto(t, "scan")
    /\ UNCHANGED <<nodeVars, listVars, key, arg, made, how, pending, handler, procVars>>

UnfinishedIfUnstarted(n) == "fini_started" \notin tn[n]
Unfinished(n) == "fini_done" \notin tn[n]

\* pthread_kill of a thread that is gone signals nobody.
Alive(u) == u \in Threads /\ pc[u] # "none"

\* One node of the walk: skip our own, signal a thread whose fini has not begun.
ScanNode(t, n) ==
    /\ At(t, "scan")
    /\ n \in shoot.todo
    /\ IF tn_self[n] = t
       THEN /\ shoot' = [shoot EXCEPT !.todo = @ \ {n}, !.my_tn = n]
            /\ UNCHANGED pending
       ELSE IF "appl_started" \in tn[n]
       THEN /\ shoot' = [shoot EXCEPT
                !.todo       = @ \ {n},
                !.started    = IF "fini_started" \in tn[n] THEN @ \cup {n} ELSE @,
                !.unstarted  = IF "fini_started" \in tn[n] THEN @ ELSE @ \cup {n},
                !.unfinished = IF Unfinished(n) THEN @ \cup {n} ELSE @]
            /\ pending' = IF "fini_started" \notin tn[n] /\ Alive(tn_self[n])
                          THEN pending \cup {tn_self[n]} ELSE pending
       ELSE /\ shoot' = [shoot EXCEPT !.todo = @ \ {n}]
            /\ UNCHANGED pending
    /\ UNCHANGED <<flag, nodeVars, listVars, thread_lock, threadVars, handler, at_exit, procVars>>

\* The end of a pass that leaves threads unfinished: progress, the timeout, or
\* another pass.
ScanAgain(t) ==
    /\ At(t, "scan")
    /\ shoot.todo = {}
    /\ shoot.unfinished # {}
    /\ shoot' = [shoot EXCEPT
            !.todo = thread_list, !.started = {}, !.unstarted = {}, !.unfinished = {},
            !.last = IF Cardinality(shoot.started) > @ THEN Cardinality(shoot.started) ELSE @]
    /\ UNCHANGED <<flag, nodeVars, listVars, thread_lock, threadVars, pending, handler, at_exit,
                   procVars>>

\* The walk is over: no fini_thread from now on, but for the thread that ends
\* the process.
ThreadsDone(t) ==
    /\ flag' = flag \cup {"fini_thread_done"}
    /\ IF shoot.my_tn # NoNode /\ "fini_started" \notin tn[shoot.my_tn]
       THEN Raise(shoot.my_tn, {"fini_started"}) /\ Goto(t, "ownfini")
       ELSE UNCHANGED tn /\ Goto(t, "finiproc")
    /\ UNCHANGED <<tn_self, tn_tid, listVars, thread_lock, key, arg, made, how, shootVars, procVars>>

ScanDone(t) ==
    /\ At(t, "scan")
    /\ shoot.todo = {}
    /\ shoot.unfinished = {}
    /\ ThreadsDone(t)

NoTimeout == FALSE

\* Ten seconds in which no further thread began its fini, while some have not.
Timeout == Cardinality(shoot.started) <= shoot.last /\ shoot.unstarted # {}

ScanTimeout(t) ==
    /\ At(t, "scan")
    /\ shoot.todo = {}
    /\ shoot.unfinished # {}
    /\ Timeout
    /\ ThreadsDone(t)

OwnFini(t) ==
    /\ At(t, "ownfini")
    /\ Raise(shoot.my_tn, {"fini_done"})
    /\ Goto(t, "finiproc")
    /\ UNCHANGED <<flag, tn_self, tn_tid, listVars, thread_lock, key, arg, made, how,
                   shootVars, procVars>>

\* monitor_fini_process has returned.
FiniProcess(t) ==
    /\ At(t, "finiproc")
    /\ flag' = flag \cup {"fini_process_done"}
    /\ shoot' = NoShoot /\ at_exit' = {}
    /\ Goto(t, "ending")
    /\ UNCHANGED <<nodeVars, listVars, thread_lock, key, arg, made, how, pending, handler, procVars>>

LoserLeaves(t) ==
    /\ At(t, "loser")
    /\ "fini_process_done" \in flag
    /\ Goto(t, "ending")
    /\ UNCHANGED <<flag, nodeVars, listVars, thread_lock, key, arg, made, how, shootVars, procVars>>

\* The real exit, exec or raise ends the process and every thread with it ...
ProcessEnds(t) ==
    /\ At(t, "ending")
    /\ how[t] # "thread"
    /\ flag' = flag \cup {"fini_library_called"}
    /\ pc' = [u \in Threads |-> "none"]
    /\ pending' = {} /\ handler' = {}
    /\ UNCHANGED <<nodeVars, listVars, thread_lock, key, arg, made, how, shoot, at_exit, procVars>>

\* ... an exec may fail and return ...
ExecFails(t) ==
    /\ At(t, "ending")
    /\ how[t] = "exec"
    /\ flag' = flag \cup {"fini_library_called"}
    /\ how' = [how EXCEPT ![t] = "exit"]
    /\ Goto(t, Home(t))
    /\ UNCHANGED <<nodeVars, listVars, thread_lock, key, arg, made, shootVars, procVars>>

\* ... and pthread_exit ends the thread.
MainThreadEnds(t) ==
    /\ At(t, "ending")
    /\ how[t] = "thread"
    /\ how' = [how EXCEPT ![t] = "exit"]
    /\ Ends(t)
    /\ UNCHANGED <<flag, nodeVars, listVars, thread_lock, made, handler, shoot, at_exit, strayed,
                   overtaken, forks>>
-----------------------------------------------------------------------------
\* The shootdown signal reaches a thread: monitor_shootdown_handler up to the
\* callback (sigwait gives the thread the same by monitor_sigwait_helper).
ShootdownHandler(t) ==
    /\ t \in pending
    /\ t \notin handler
    /\ pending' = pending \ {t}
    /\ IF WantsFini(key[t])
       THEN Raise(key[t], {"fini_started"}) /\ handler' = handler \cup {t}
       ELSE UNCHANGED <<tn, handler>>
    /\ UNCHANGED <<flag, tn_self, tn_tid, listVars, thread_lock, threadVars, shoot, at_exit, procVars>>

HandlerReturns(t) ==
    /\ t \in handler
    /\ Raise(key[t], {"fini_done"})
    /\ handler' = handler \ {t}
    /\ UNCHANGED <<flag, tn_self, tn_tid, listVars, thread_lock, threadVars, pending, shoot,
                   at_exit, procVars>>

\* monitor_block_shootdown, monitor_unblock_shootdown,
\* monitor_disable_new_threads, monitor_enable_new_threads.
ClientCall(t, f) ==
    /\ ClientCalls
    /\ InApplication(t)
    /\ monitor_get_tn(t) # NoNode
    /\ \/ Raise(monitor_get_tn(t), {f})
       \/ tn' = [tn EXCEPT ![monitor_get_tn(t)] = @ \ {f}]
    /\ UNCHANGED <<flag, tn_self, tn_tid, listVars, thread_lock, threadVars, shootVars, procVars>>
-----------------------------------------------------------------------------
\* monitor_reset_thread_list: the thread that forked is now the main thread.
monitor_reset_thread_list(t) ==
    IF "has_used_threads" \notin flag
    THEN UNCHANGED <<nodeVars, thread_list, free_list, tn_array_pos, key>>
    ELSE /\ IF monitor_get_tn(t) \notin {NoNode, MainNode}
            THEN /\ tn' = [tn EXCEPT ![MainNode] = {"magic", "is_main"}]
                 /\ tn_self' = [tn_self EXCEPT ![MainNode] = NoThread]
                 /\ UNCHANGED tn_tid
            ELSE UNCHANGED nodeVars
         /\ thread_list' = {} /\ free_list' = {}
         /\ tn_array_pos' = 0
         /\ key' = [u \in Threads |-> NoNode]

\* fork, followed into the child: the other threads are not there.  The
\* application's fork begins the process again (monitor_begin_process_fcn), the
\* client's monitor_real_fork only resets the thread list.
Fork(t, real) ==
    /\ InApplication(t)
    /\ forks < MaxForks
    /\ forks' = forks + 1
    /\ monitor_reset_thread_list(t)
    /\ flag' = (flag \ {"has_used_threads"})
                   \ (IF real THEN {} ELSE {"fini_library_called", "fini_process_done"})
    /\ main' = t
    /\ pc' = [u \in Threads |->
                 IF u # t THEN "none"
                 ELSE IF ~real /\ "main_called" \in flag THEN "begin" ELSE pc[t]]
    /\ arg' = [u \in Threads |-> IF u = t THEN arg[t] ELSE NoNode]
    /\ made' = [u \in Threads |-> NoNode]
    /\ how' = [u \in Threads |-> "exit"]
    /\ pending' = {} /\ handler' = {}
    /\ shoot' = NoShoot /\ at_exit' = {}
    /\ UNCHANGED <<tn_array, thread_num, thread_lock, strayed, overtaken>>
-----------------------------------------------------------------------------
\* What a thread does inside libmonitor once it is there.
Inside(t) ==
    \/ ThreadRelease(t) \/ ThreadSupport(t)
    \/ Lock(t, "make", "making")
    \/ (\E w \in Workers : CreateThread(t, w)) \/ CreateFails(t)
    \/ PostCreate(t)
    \/ BeginThread(t) \/ LinkThreadNode(t) \/ LinkRefused(t)
    \/ InitThread(t)
    \/ CleanupFini(t) \/ CleanupDone(t)
    \/ Lock(t, "unlink", "unlinking") \/ UnlinkThreadNode(t)
    \/ Lock(t, "shoot", "shootset") \/ ShootBegin(t)
    \/ (\E n \in Nodes : ScanNode(t, n)) \/ ScanAgain(t) \/ ScanDone(t)
    \/ OwnFini(t) \/ FiniProcess(t)
    \/ LoserLeaves(t)
    \/ HandlerReturns(t)

\* What the application, the client and the system choose.
Outside(t) ==
    \/ MonitorMain(t)
    \/ CreateEnter(t)
    \/ \E w \in Workers : CreateIgnored(t, w)
    \/ CancelInInit(t)
    \/ ThreadReturns(t)
    \/ Exit(t) \/ Exec(t) \/ PthreadExit(t) \/ FatalSignal(t)
    \/ ProcessEnds(t) \/ ExecFails(t) \/ MainThreadEnds(t)
    \/ ShootdownHandler(t)
    \/ \E f \in {"block_shootdown", "ignore_threads"} : ClientCall(t, f)
    \/ \E real \in BOOLEAN : Fork(t, real)

Next == \E t \in Threads : Inside(t) \/ Outside(t) \/ ScanTimeout(t)

Spec == Init /\ [][Next]_vars

\* The scheduler runs every thread, and the client's callbacks return; time
\* passes, so that a scan which makes no progress times out.
Fairness ==
    \A t \in Threads : WF_vars(Inside(t)) /\ SF_vars(ScanTimeout(t))

FairSpec == Spec /\ Fairness
-----------------------------------------------------------------------------
(***************************************************************************)
(* Properties                                                              *)
(***************************************************************************)
TypeOK ==
    /\ flag \subseteq ProcessFlags
    /\ tn \in [Nodes -> SUBSET NodeFlags]
    /\ tn_self \in [Nodes -> Threads \cup {NoThread}]
    /\ tn_tid \in [Nodes -> Int]
    /\ thread_list \subseteq ArrayNodes /\ free_list \subseteq ArrayNodes
    /\ tn_array \in 0 .. (MaxArrays - 1) /\ tn_array_pos \in 0 .. ArraySize
    /\ thread_num \in Nat
    /\ thread_lock \in Threads \cup {NoThread}
    /\ pc \in [Threads -> Points]
    /\ key \in [Threads -> Nodes \cup {NoNode}]
    /\ arg \in [Threads -> ArrayNodes \cup {NoNode}]
    /\ made \in [Threads -> ArrayNodes \cup {NoNode}]
    /\ how \in [Threads -> Hows]
    /\ pending \subseteq Threads \cup {NoThread} /\ handler \subseteq Threads
    /\ shoot \in [todo : SUBSET ArrayNodes, my_tn : ArrayNodes \cup {NoNode},
                  started : SUBSET ArrayNodes, last : Nat,
                  unstarted : SUBSET ArrayNodes, unfinished : SUBSET ArrayNodes]
    /\ at_exit \subseteq ArrayNodes
    /\ main \in Threads /\ strayed \in BOOLEAN /\ overtaken \in BOOLEAN
    /\ forks \in Nat

\* The node a thread has as its own, unless it forked: it is the main thread now.
Uses(t) == IF t = main THEN {} ELSE {arg[t]} \ {NoNode}

\* A node is in one place: no two threads have one node as their own, no thread's node
\* is on the free list, no node is on both lists; and LIST_REMOVE is only asked to
\* remove a node that is on the list (pthread.c:434).
InOnePlace ==
    /\ thread_list \cap free_list = {}
    /\ \A t, u \in Threads : t # u => Uses(t) \cap Uses(u) = {}
    /\ \A t \in Threads : Uses(t) \cap free_list = {}
    /\ \A t \in Threads :
          pc[t] \in {"clean", "fini", "unlink", "unlinking"} => arg[t] \in thread_list

\* The node that pthread_create reads once more (pthread.c:1086) is the one it made: it
\* is not on the free list and was not handed out to another pthread_create.
CreatorsKeep ==
    /\ \A u \in Threads : pc[u] = "posting" => made[u] \notin free_list
    /\ \A t, u \in Threads :
          t # u /\ pc[t] = "posting" /\ pc[u] = "posting" => made[t] # made[u]

\* A node is in one place until a worker that forked runs, in the child, the cleanup
\* routine of its thread in the parent; and until then pthread_create reads its own
\* node, or a thread has ended ahead of its creator's last read: nothing else takes a
\* node from its users, no fork by itself, no exit, no cancellation, no failed create
\* and no reuse of a node or of a pthread_t.  Both exceptions do happen: "The values
\* inside a single node don't really need a mutex" (pthread.c:173) does not hold
\* there.
NodesOwned == strayed \/ (InOnePlace /\ (overtaken \/ CreatorsKeep))

\* Once exit cleanup has begun the list of threads stays as it is in this
\* process, so that the shootdown may walk it without the lock (pthread.c:176).
ListFrozen ==
    [][("in_exit_cleanup" \in flag /\ forks' = forks) => thread_list' = thread_list]_vars

\* When the client's fini_process runs and the shootdown did not give up on a
\* thread, every other thread that was running when the exit began has had its
\* fini_thread to the end.
ExitAlwaysWaits ==
    \A t \in Threads :
        pc[t] \in {"ownfini", "finiproc"} /\ shoot.unfinished = {} =>
            \A n \in at_exit : tn_self[n] = t \/ "fini_done" \in tn[n]

\* The same, as long as no worker that forked has run its cleanup in the child, on a
\* node that may be another thread's there.
ExitWaits == strayed \/ ExitAlwaysWaits

\* No thread's init_thread (or application code) runs before init_process and the
\* thread support callback have returned, early threads included.
InitOrder ==
    \A t \in Workers :
        (pc[t] \in {"init", "app"} /\ arg[t] # NoNode /\ t # main) =>
            /\ "thread_support_done" \in flag
            /\ pc[Main] \notin {"early", "begin", "release"}

\* Of all the threads that exit at once one runs the callbacks, and
\* fini_process runs once per process (tests/exit.c:5).
OneFiniProcess ==
    /\ \A t, u \in Threads : pc[t] \in Winning /\ pc[u] \in Winning => t = u
    /\ \A t \in Threads : pc[t] \in Winning => "end_process_cookie" \in flag

\* The thread lock will never be free again: its holder is no longer in the
\* section it guards (it vanished in a fork, or a signal took it out of there).
LockStuck == thread_lock # NoThread /\ pc[thread_lock] \notin Holding

\* A thread was taken out of its fini_thread callback, by a signal that ends
\* the process: its node will never say that fini is done.
InFini(t) == {n \in Nodes : \/ t \in handler /\ n = key[t]
                            \/ t \notin handler /\ pc[t] = "fini" /\ n = arg[t]}
FiniAbandoned ==
    \E n \in thread_list :
        /\ "fini_started" \in tn[n] /\ "fini_done" \notin tn[n]
        /\ \A t \in Threads : n \notin InFini(t)

\* An exit that has begun reaches the end of its callbacks whatever the other
\* threads do, the ones that never get the signal included; the only ways to
\* wait for ever are a stuck lock and an abandoned fini_thread.
ExitCompletes ==
    \A t \in Threads :
        pc[t] = "shoot" ~> (pc[t] \notin Winning \/ LockStuck \/ FiniAbandoned)

\* fini_thread is called once for each thread (tests/exit.c:5): a thread past the
\* tests of its cleanup routine has not had it yet.
FiniThreadOnce ==
    \A t \in Threads : pc[t] = "clean" => "fini_started" \notin tn[arg[t]]

=============================================================================
