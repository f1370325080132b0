------------------------------ MODULE Platform ------------------------------
(***************************************************************************)
(* The platform layer (includes/platform/platform.hpp,                     *)
(* src/platform/platform.cpp, src/platform/device/device.cpp): sessions,   *)
(* the two device maps behind devicemap_mtx, and the signal handler that   *)
(* pauses every device, serves one and resumes them all. This is the       *)
(* regime of the native, python and sample agents, which do not set        *)
(* requestWillBeNotified.                                                  *)
(*                                                                         *)
(* A thread runs its own code (init, exit) and, on top of it, at most one  *)
(* handler: the handler's sa_mask blocks all signals. A signal interrupts  *)
(* the thread anywhere, also while it holds devicemap_mtx. Each session    *)
(* registers one sampling device, as tool_sessionInit does.                *)
(***************************************************************************)
EXTENDS Integers

CONSTANTS
    Threads,      \* the process's threads
    Main,         \* the thread whose tid is getpid()
    FDs,          \* file descriptors the kernel may hand out
    MaxSessions,  \* bound: sessions opened in one behaviour
    None          \* no thread, no descriptor

ASSUME PlatformAssumption ==
    /\ Main \in Threads
    /\ FDs \subseteq Nat
    /\ MaxSessions \in Nat
    /\ None \notin Threads
    /\ None \notin FDs

VARIABLES
    prog,           \* where each thread's own code is
    newFd,          \* the descriptor a thread is registering, or None
    sessionKey,     \* Platform::sessionKey, thread_local
    sKey,           \* next session key
    deviceMap,      \* by <<thread, descriptor>>: the device's session and whether it counts
    sessionMap,     \* deviceSessionMultiMap as a set of <<session, descriptor>>
    mtx,            \* holder of devicemap_mtx
    handler,        \* where each thread's signal handler is, "none" outside
    served,         \* the signal a thread's handler serves
    signals,        \* raised and not yet delivered signals
    signalUnsafe    \* thread_local: set around malloc and its relatives

vars == <<prog, newFd, sessionKey, sKey, deviceMap, sessionMap, mtx, handler, served, signals,
          signalUnsafe>>

own == <<prog, newFd, sessionKey, sKey>>
maps == <<deviceMap, sessionMap>>
sigs == <<handler, served, signals>>

\* A signal of a device: its descriptor, the thread it is sent to (si_fd and the owner
\* set by F_SETOWN_EX) and, for the properties only, the thread that registered it.
Signal == [fd : FDs, to : Threads, by : Threads]
NoSignal == [fd |-> None, to |-> None, by |-> None]

Device == [session : Nat, counts : BOOLEAN]

\* The descriptors that are open: in the map, or being registered or removed.
Open == {k[2] : k \in DOMAIN deviceMap} \cup ({newFd[t] : t \in Threads} \ {None})

Counting(devs, b) == [k \in DOMAIN devs |-> [devs[k] EXCEPT !.counts = b]]

-----------------------------------------------------------------------------
(* A thread's own code; suspended while its handler runs                   *)

Runs(t) == handler[t] = "none"

\* devicemap_mtx.lock() in the thread's own code.
Lock(t, from, to) ==
    /\ Runs(t)
    /\ prog[t] = from
    /\ mtx = None
    /\ mtx' = t
    /\ prog' = [prog EXCEPT ![t] = to]

\* Mutant: a return path without unlock().
UnlockForgotten(t, from, to) ==
    /\ Runs(t)
    /\ prog[t] = from
    /\ mtx = t
    /\ mtx' = t
    /\ prog' = [prog EXCEPT ![t] = to]

Unlock(t, from, to) ==
    /\ Runs(t)
    /\ prog[t] = from
    /\ mtx = t
    /\ mtx' = None
    /\ prog' = [prog EXCEPT ![t] = to]

\* generate_session_key, then registerDevice up to add_new_device. Opening fails when
\* the kernel refuses the event; tool_sessionInit ignores the failure.
SessionInit(t) ==
    /\ Runs(t)
    /\ prog[t] = "out"
    /\ sKey < MaxSessions
    /\ sessionKey' = [sessionKey EXCEPT ![t] = sKey]
    /\ sKey' = sKey + 1
    /\ \/ \E fd \in FDs \ Open :
             /\ newFd' = [newFd EXCEPT ![t] = fd]
             /\ prog' = [prog EXCEPT ![t] = "opened"]
       \/ /\ prog' = [prog EXCEPT ![t] = "in"]
          /\ UNCHANGED newFd
    /\ UNCHANGED <<maps, mtx, sigs, signalUnsafe>>

\* add_new_device
AddLock(t) ==
    /\ Lock(t, "opened", "adding")
    /\ UNCHANGED <<newFd, sessionKey, sKey, maps, sigs, signalUnsafe>>

AddDevice(t) ==
    /\ Unlock(t, "adding", "added")
    /\ deviceMap' = [k \in DOMAIN deviceMap \cup {<<t, newFd[t]>>} |->
                        IF k = <<t, newFd[t]>> THEN [session |-> sessionKey[t], counts |-> TRUE]
                                               ELSE deviceMap[k]]
    /\ UNCHANGED <<newFd, sessionKey, sKey, sessionMap, sigs, signalUnsafe>>

\* add_new_device_to_session takes the lock a second time.
LinkLock(t) ==
    /\ Lock(t, "added", "linking")
    /\ UNCHANGED <<newFd, sessionKey, sKey, maps, sigs, signalUnsafe>>

\* Mutant: the device is listed under the newest session instead of the thread's own.
LinkToNewest(t) ==
    /\ Unlock(t, "linking", "in")
    /\ sessionMap' = sessionMap \cup {<<sKey - 1, newFd[t]>>}
    /\ newFd' = [newFd EXCEPT ![t] = None]
    /\ UNCHANGED <<sessionKey, sKey, deviceMap, sigs, signalUnsafe>>

LinkDevice(t) ==
    /\ Unlock(t, "linking", "in")
    /\ sessionMap' = sessionMap \cup {<<sessionKey[t], newFd[t]>>}
    /\ newFd' = [newFd EXCEPT ![t] = None]
    /\ UNCHANGED <<sessionKey, sKey, deviceMap, sigs, signalUnsafe>>

\* tool_sessionExit: remove_device_by_session. The session key is never cleared.
ExitLock(t) ==
    /\ Lock(t, "in", "removing")
    /\ UNCHANGED <<newFd, sessionKey, sKey, maps, sigs, signalUnsafe>>

\* remove_device(fd, false): found by <<gettid(), fd>>, ended, closed and erased.
RemoveDevice(t, fd) ==
    /\ Runs(t)
    /\ prog[t] = "removing"
    /\ mtx = t
    /\ <<sessionKey[t], fd>> \in sessionMap
    /\ <<t, fd>> \in DOMAIN deviceMap
    /\ deviceMap' = [k \in DOMAIN deviceMap \ {<<t, fd>>} |-> deviceMap[k]]
    /\ UNCHANGED <<own, sessionMap, mtx, sigs, signalUnsafe>>

\* Mutant: the devices go, their entries in the session's list stay.
ExitKeepsList(t) ==
    /\ \A fd \in FDs : <<sessionKey[t], fd>> \in sessionMap => <<t, fd>> \notin DOMAIN deviceMap
    /\ Unlock(t, "removing", "out")
    /\ UNCHANGED <<newFd, sessionKey, sKey, maps, sigs, signalUnsafe>>

\* deviceSessionMultiMap.erase(sessionId) and the unlock.
ExitUnlock(t) ==
    /\ \A fd \in FDs : <<sessionKey[t], fd>> \in sessionMap => <<t, fd>> \notin DOMAIN deviceMap
    /\ Unlock(t, "removing", "out")
    /\ sessionMap' = {e \in sessionMap : e[1] # sessionKey[t]}
    /\ UNCHANGED <<newFd, sessionKey, sKey, deviceMap, sigs, signalUnsafe>>

\* monitor_pre_malloc and monitor_post_malloc, and their relatives.
PreMalloc(t) ==
    /\ Runs(t)
    /\ signalUnsafe' = [signalUnsafe EXCEPT ![t] = TRUE]
    /\ UNCHANGED <<own, maps, mtx, sigs>>

PostMalloc(t) ==
    /\ Runs(t)
    /\ signalUnsafe[t]
    /\ signalUnsafe' = [signalUnsafe EXCEPT ![t] = FALSE]
    /\ UNCHANGED <<own, maps, mtx, sigs>>

-----------------------------------------------------------------------------
(* Devices and signals                                                     *)

\* F_SETOWN_EX with F_OWNER_TID and getpid(): the main thread, whoever registers.
SignalOwner(t) == Main

\* A counting device overflows. After IOC_REFRESH(1) it stops, freshly opened it goes
\* on. registerDevice opens it enabled and sets its owner before it enters the map.
Fire(t, fd) ==
    LET sig == [fd |-> fd, to |-> SignalOwner(t), by |-> t]
    IN  /\ sig \notin signals
        /\ signals' = signals \cup {sig}
        /\ \/ /\ <<t, fd>> \in DOMAIN deviceMap
              /\ deviceMap[<<t, fd>>].counts
              /\ \E still \in BOOLEAN : deviceMap' = [deviceMap EXCEPT ![<<t, fd>>].counts = still]
           \/ /\ newFd[t] = fd
              /\ prog[t] \in {"opened", "adding"}
              /\ UNCHANGED deviceMap
        /\ UNCHANGED <<own, sessionMap, mtx, handler, served, signalUnsafe>>

Deliver(sig) ==
    /\ Runs(sig.to)
    /\ handler' = [handler EXCEPT ![sig.to] = "pauseWait"]
    /\ served' = [served EXCEPT ![sig.to] = sig]
    /\ signals' = signals \ {sig}
    /\ UNCHANGED <<own, maps, mtx, signalUnsafe>>

-----------------------------------------------------------------------------
(* generic_dev_signal_handler                                              *)

HandlerLock(t, from, to) ==
    /\ handler[t] = from
    /\ mtx = None
    /\ mtx' = t
    /\ handler' = [handler EXCEPT ![t] = to]
    /\ UNCHANGED <<own, maps, served, signals, signalUnsafe>>

\* pause_all_devices takes the lock before anything is checked.
PauseLock(t) == HandlerLock(t, "pauseWait", "pausing")

\* Mutant: the early return does not resume.
PauseAndReturn(t) ==
    /\ handler[t] = "pausing"
    /\ deviceMap' = Counting(deviceMap, FALSE)
    /\ mtx' = None
    /\ handler' = [handler EXCEPT ![t] = IF signalUnsafe[t] THEN "none" ELSE "lookupWait"]
    /\ UNCHANGED <<own, sessionMap, served, signals, signalUnsafe>>

PauseAll(t) ==
    /\ handler[t] = "pausing"
    /\ deviceMap' = Counting(deviceMap, FALSE)
    /\ mtx' = None
    /\ handler' = [handler EXCEPT ![t] = IF signalUnsafe[t] THEN "resumeWait" ELSE "lookupWait"]
    /\ UNCHANGED <<own, sessionMap, served, signals, signalUnsafe>>

LookupLock(t) == HandlerLock(t, "lookupWait", "lookup")

\* get_device(gettid(), fd)
GetDevice(t) ==
    /\ handler[t] = "lookup"
    /\ mtx' = None
    /\ handler' = [handler EXCEPT ![t] = IF <<t, served[t].fd>> \in DOMAIN deviceMap
                                         THEN "serve" ELSE "resumeWait"]
    /\ UNCHANGED <<own, maps, served, signals, signalUnsafe>>

\* dev_signal_handler: the tool's work on the event.
Serve(t) ==
    /\ handler[t] = "serve"
    /\ handler' = [handler EXCEPT ![t] = "resumeWait"]
    /\ UNCHANGED <<own, maps, mtx, served, signals, signalUnsafe>>

ResumeLock(t) == HandlerLock(t, "resumeWait", "resuming")

ResumeAll(t) ==
    /\ handler[t] = "resuming"
    /\ deviceMap' = Counting(deviceMap, TRUE)
    /\ mtx' = None
    /\ handler' = [handler EXCEPT ![t] = "none"]
    /\ served' = [served EXCEPT ![t] = NoSignal]
    /\ UNCHANGED <<own, sessionMap, signals, signalUnsafe>>

-----------------------------------------------------------------------------

Init ==
    /\ prog = [t \in Threads |-> "out"]
    /\ newFd = [t \in Threads |-> None]
    /\ sessionKey = [t \in Threads |-> -1]
    /\ sKey = 0
    /\ deviceMap = [k \in {} |-> {}]
    /\ sessionMap = {}
    /\ mtx = None
    /\ handler = [t \in Threads |-> "none"]
    /\ served = [t \in Threads |-> NoSignal]
    /\ signals = {}
    /\ signalUnsafe = [t \in Threads |-> FALSE]

\* What a thread does once it is in a registration, a removal or a handler.
Progress(t) ==
    \/ AddLock(t) \/ AddDevice(t) \/ LinkLock(t) \/ LinkDevice(t)
    \/ \E fd \in FDs : RemoveDevice(t, fd)
    \/ ExitUnlock(t)
    \/ PauseLock(t) \/ PauseAll(t) \/ LookupLock(t) \/ GetDevice(t) \/ Serve(t)
    \/ ResumeLock(t) \/ ResumeAll(t)

Next ==
    \/ \E t \in Threads : SessionInit(t) \/ ExitLock(t) \/ PreMalloc(t) \/ PostMalloc(t)
    \/ \E t \in Threads, fd \in FDs : Fire(t, fd)
    \/ \E sig \in signals : Deliver(sig)
    \/ \E t \in Threads : Progress(t)

Spec == Init /\ [][Next]_vars

\* The operating system runs every thread that can run and delivers signals that are
\* not blocked; nobody is obliged to open or close a session or to touch memory.
FairSpec ==
    /\ Spec
    /\ \A t \in Threads : WF_vars(Progress(t))
    /\ WF_vars(\E sig \in signals : Deliver(sig))

-----------------------------------------------------------------------------
(* Properties                                                              *)

\* The two maps, updated under two acquisitions of the lock and, on exit, one after the
\* other, tell the same story to whoever holds the lock: a device belongs to the
\* session of the thread it is filed under and is in that session's list unless it is
\* just being registered, and a listed descriptor is a device of the session's thread
\* unless that session is just being removed.
MapsAgree ==
    /\ \A k \in DOMAIN deviceMap :
          /\ deviceMap[k].session = sessionKey[k[1]]
          /\ \/ <<deviceMap[k].session, k[2]>> \in sessionMap
             \/ prog[k[1]] \in {"added", "linking"} /\ newFd[k[1]] = k[2]
    /\ \A e \in sessionMap : \E t \in Threads :
          /\ sessionKey[t] = e[1]
          /\ <<t, e[2]>> \in DOMAIN deviceMap \/ prog[t] = "removing"

\* A thread that has left its session owns no device and no session lists one for it.
NothingLeftBehind ==
    \A t \in Threads : prog[t] = "out" =>
        /\ \A k \in DOMAIN deviceMap : k[1] # t
        /\ \A e \in sessionMap : e[1] # sessionKey[t]

\* Pausing everything for one event never leaves a device stopped for good: a device
\* that does not count has a signal on its way, or some handler has yet to resume.
NoneLeftPaused ==
    \A k \in DOMAIN deviceMap :
        \/ deviceMap[k].counts
        \/ \E sig \in signals : sig.fd = k[2]
        \/ \E t \in Threads : handler[t] # "none"

\* "Deliver the signal to this thread": a handler serves signals of devices its own
\* thread registered.
DeliveredToRegistrant ==
    \A t \in Threads : handler[t] # "none" => served[t].by = t

\* devicemap_mtx is not recursive: a thread that was interrupted while it held the lock
\* waits for itself.
SelfDeadlock ==
    \E t \in Threads : mtx = t /\ handler[t] \in {"pauseWait", "lookupWait", "resumeWait"}

\* Every handler finishes, whatever the other threads do, unless a thread interrupted
\* itself inside the lock: that is the only way the layer can hang.
HandlersEnd ==
    \A t \in Threads : handler[t] # "none" ~> handler[t] = "none" \/ SelfDeadlock
=============================================================================
