------------------------------ MODULE KvmAgent ------------------------------
(***************************************************************************)
(* The KVM agent (src/agent/kvmAgent/myagent.cpp, kvminterface.cpp,        *)
(* src/agent/agent.cpp) and what it shares with the platform: VCPU threads *)
(* open and close sessions, breakpoint devices take one of HBP_NUM slots   *)
(* of their VCPU, the hypervisor pauses a VCPU's devices when an event is  *)
(* delivered to the guest and hands the event back when the guest has      *)
(* resolved its context.                                                   *)
(*                                                                         *)
(* External: the hypervisor behind KVMInterface and the guest driver. One  *)
(* VCPU per thread, so that getVCPU is the thread; pauseBP and resumeBP    *)
(* succeed, updateBPAddress may fail. Under KVM the watchpoint library     *)
(* keeps the devices of disabled watchpoints (isWPModifyEnabled), so a     *)
(* breakpoint device is removed when its VCPU ends and not before.         *)
(* requestWillBeNotified keeps its initial value.                          *)
(*                                                                         *)
(* The agent's maps are std::map. A descriptor that is not in              *)
(* deviceVCPUMap is looked up as VCPU 0, which has no descriptor in its    *)
(* slots; here both that and -1 are None. A VCPU that is not in            *)
(* VCPUBPdeviceSlotMap is one whose slots are all -1.                      *)
(***************************************************************************)
EXTENDS Integers, FiniteSets

CONSTANTS
    Threads,      \* VCPU threads
    FDs,          \* descriptors the kernel may hand out
    HBP_NUM,      \* breakpoint slots of a VCPU
    MaxWP,        \* wpConfig.maxWP: breakpoint devices of a thread
    MaxSessions,  \* bound: sessions opened in one behaviour
    MaxEvents,    \* bound: events of one VCPU the guest has at a time
    None          \* no thread, no descriptor

ASSUME KvmAssumption ==
    /\ None \notin Threads /\ None \notin FDs
    /\ HBP_NUM \in Nat \ {0}
    /\ MaxWP \in Nat
    /\ MaxSessions \in Nat /\ MaxEvents \in Nat

Slots == 0 .. HBP_NUM - 1

VARIABLES
    pc,                     \* where each VCPU thread is
    newDev,                 \* the device a thread is registering or removing
    sessionKey,             \* sessionKey and threadSessionMap of each thread, -1 before the first
    sKey,                   \* next session key
    open,                   \* open descriptors
    deviceMap,              \* devices by <<thread, descriptor>>
    deviceSessionMultiMap,  \* set of <<session, descriptor>>
    mtx,                    \* holder of devicemap_mtx
    hyPerfDev,              \* the hypervisor has registered its interface
    deviceVCPUMap,
    VCPUBPdeviceSlotMap,
    guestBP,                \* hypervisor: which slots of which VCPU are switched on
    guest,                  \* events the guest driver is resolving
    allCalls,               \* the guest driver also uses kvm__enable/disableAllEBSDevice
    tested,                 \* devices kvm__enableAllEBSDevice is going to resume
    fault                   \* a null device was used

session == <<sessionKey, sKey>>
maps == <<deviceMap, deviceSessionMultiMap>>
agent == <<hyPerfDev, deviceVCPUMap, VCPUBPdeviceSlotMap, guestBP>>
calls == <<allCalls, tested>>

vars == <<pc, newDev, session, open, maps, mtx, agent, guest, calls, fault>>

\* Whether the host's perf event counts. A sampling device is opened switched off ("new").
Counting == {"new", "on", "off"}

Device == [type : {"PEBS", "BP"}, session : Nat, isDisabled : BOOLEAN, on : Counting]
NewDevice == [fd : FDs \cup {None}, type : {"PEBS", "BP"}]
GuestEvent == [fd : FDs, session : Nat]

Goto(t, from, to) == pc[t] = from /\ pc' = [pc EXCEPT ![t] = to]

DevicesOf(t) == {k \in DOMAIN deviceMap : k[1] = t}
Breakpoints(t) == {k \in DevicesOf(t) : deviceMap[k].type = "BP"}

\* Devices of a session that the thread finds: the maps are searched with gettid().
SessionDevices(t, s) == {k \in DevicesOf(t) : <<s, k[2]>> \in deviceSessionMultiMap}

-----------------------------------------------------------------------------
(* Switching devices on and off                                            *)

\* pauseDevice, resumeDevice and updateBPAddress find the device's slot: the
\* hypervisor is asked. Otherwise the event of the host kernel is switched.
SlotsOf(k) ==
    IF hyPerfDev /\ deviceVCPUMap[k[2]] # None
    THEN {i \in Slots : VCPUBPdeviceSlotMap[deviceVCPUMap[k[2]]][i] = k[2]}
    ELSE {}

ByHypervisor(k) == deviceMap[k].type = "BP" /\ SlotsOf(k) # {}

Watches(k) ==
    IF ByHypervisor(k) THEN \E i \in SlotsOf(k) : guestBP[deviceVCPUMap[k[2]]][i]
                       ELSE deviceMap[k].on = "on"

\* disable_device (b is FALSE) or enable_device (TRUE) of the devices K: the events ...
SwitchedEvents(devs, K, b) ==
    [k \in DOMAIN devs |-> IF k \in K /\ ~ByHypervisor(k)
                           THEN [devs[k] EXCEPT !.on = IF b THEN "on" ELSE "off"]
                           ELSE devs[k]]

\* ... and the slots.
SwitchedSlots(K, b) ==
    [v \in Threads |-> [i \in Slots |->
        IF \E k \in K : ByHypervisor(k) /\ deviceVCPUMap[k[2]] = v /\ i \in SlotsOf(k)
        THEN b ELSE guestBP[v][i]]]

Switch(K, b) ==
    /\ deviceMap' = SwitchedEvents(deviceMap, K, b)
    /\ guestBP' = SwitchedSlots(K, b)

Flagged(devs, K, b) ==
    [k \in DOMAIN devs |-> IF k \in K THEN [devs[k] EXCEPT !.isDisabled = b] ELSE devs[k]]

\* Mutant: the flag is set and the device keeps watching.
EndUnpaused(K) ==
    /\ deviceMap' = Flagged(deviceMap, K, TRUE)
    /\ UNCHANGED guestBP

\* end_device
End(K) ==
    /\ deviceMap' = SwitchedEvents(Flagged(deviceMap, K, TRUE), K, FALSE)
    /\ guestBP' = SwitchedSlots(K, FALSE)

NotDisabled(K) == {k \in K : ~deviceMap[k].isDisabled}

-----------------------------------------------------------------------------
(* Registering a device: Device::registerDevice                            *)

\* perf_event_open, mmap, the signal. Failing, the caller goes on.
Register(t, type, orElse) ==
    \/ \E fd \in FDs \ open :
          /\ open' = open \cup {fd}
          /\ newDev' = [newDev EXCEPT ![t] = [fd |-> fd, type |-> type]]
          /\ pc' = [pc EXCEPT ![t] = "opened"]
    \/ /\ pc' = [pc EXCEPT ![t] = orElse]
       /\ UNCHANGED <<open, newDev>>

\* Mutant: every session has the first key.
KeyReused == 0

Key == sKey

\* kvm__VCPU_start: generate_session_key and the sampling device.
kvm__VCPU_start(t) ==
    /\ pc[t] = "out"
    /\ sKey < MaxSessions
    /\ sessionKey' = [sessionKey EXCEPT ![t] = Key]
    /\ sKey' = sKey + 1
    /\ Register(t, "PEBS", "guest")
    /\ UNCHANGED <<maps, mtx, agent, guest, calls, fault>>

\* What registerThisDevice asks of perf_event_open: with the KVM agent a sampling device
\* is opened disabled, until the guest enables it; a breakpoint counts at once.
OpenedSampling == "new"
OpenedBP == "on"

add_new_device(t) ==
    /\ mtx = None
    /\ Goto(t, "opened", "added")
    /\ deviceMap' =
          [k \in DOMAIN deviceMap \cup {<<t, newDev[t].fd>>} |->
              IF k = <<t, newDev[t].fd>>
              THEN [type |-> newDev[t].type, session |-> sessionKey[t], isDisabled |-> FALSE,
                    on |-> IF newDev[t].type = "PEBS" THEN OpenedSampling ELSE OpenedBP]
              ELSE deviceMap[k]]
    /\ UNCHANGED <<newDev, session, open, deviceSessionMultiMap, mtx, agent, guest, calls, fault>>

add_new_device_to_session(t) ==
    /\ mtx = None
    /\ Goto(t, "added", "linked")
    /\ deviceSessionMultiMap' = deviceSessionMultiMap \cup {<<sessionKey[t], newDev[t].fd>>}
    /\ UNCHANGED <<newDev, session, open, deviceMap, mtx, agent, guest, calls, fault>>

\* MyAgent::registerDevice, without a lock. A breakpoint takes the first free slot and
\* the hypervisor is told its address; without a free slot it is nobody's.
registerDevice(t) ==
    LET fd   == newDev[t].fd
        free == {i \in Slots : VCPUBPdeviceSlotMap[t][i] = None}
    IN  /\ pc[t] = "linked"
        /\ pc' = [pc EXCEPT ![t] = IF newDev[t].type = "PEBS" THEN "guest" ELSE "resume"]
        /\ newDev' = [newDev EXCEPT ![t].fd = None]
        /\ \/ /\ ~hyPerfDev
              /\ UNCHANGED <<deviceVCPUMap, VCPUBPdeviceSlotMap, guestBP>>
           \/ /\ hyPerfDev
              /\ newDev[t].type = "PEBS"
              /\ deviceVCPUMap' = [deviceVCPUMap EXCEPT ![fd] = t]
              /\ UNCHANGED <<VCPUBPdeviceSlotMap, guestBP>>
           \/ /\ hyPerfDev
              /\ newDev[t].type = "BP"
              /\ free = {}
              /\ deviceVCPUMap' = [deviceVCPUMap EXCEPT ![fd] = None]
              /\ UNCHANGED <<VCPUBPdeviceSlotMap, guestBP>>
           \/ /\ hyPerfDev
              /\ newDev[t].type = "BP"
              /\ \E i \in free :
                    /\ \A j \in free : i <= j
                    /\ deviceVCPUMap' = [deviceVCPUMap EXCEPT ![fd] = t]
                    /\ VCPUBPdeviceSlotMap' = [VCPUBPdeviceSlotMap EXCEPT ![t][i] = fd]
                    /\ guestBP' \in {guestBP, [guestBP EXCEPT ![t][i] = TRUE]}
        /\ UNCHANGED <<session, open, maps, mtx, hyPerfDev, guest, calls, fault>>

-----------------------------------------------------------------------------
(* The hypervisor                                                          *)

\* kvm__register_HyPerf, at any time.
set_hyPerfDev ==
    /\ ~hyPerfDev
    /\ hyPerfDev' = TRUE
    /\ UNCHANGED <<pc, newDev, session, open, maps, mtx, deviceVCPUMap, VCPUBPdeviceSlotMap,
                   guestBP, guest, calls, fault>>

\* A device of a running VCPU has an event, which the guest's driver takes over. A perf
\* event that IOC_REFRESH(1) switched on stops, one that was just opened goes on.
Fire(t, k) ==
    /\ pc[t] = "guest"
    /\ Cardinality(guest[t]) < MaxEvents
    /\ Watches(k)
    /\ guest' = [guest EXCEPT ![t] = @ \cup {[fd |-> k[2], session |-> sessionKey[t]]}]
    /\ deviceMap' \in {deviceMap, SwitchedEvents(deviceMap, {k}, FALSE)}
    /\ UNCHANGED <<pc, newDev, session, open, deviceSessionMultiMap, mtx, agent, calls, fault>>

\* The VCPU's devices are paused while the guest resolves an event. A second event may
\* have come before that.
kvm__disableEBSDevicesThisSession(t) ==
    /\ pc[t] = "guest"
    /\ guest[t] # {}
    /\ mtx = None
    /\ Switch(NotDisabled(SessionDevices(t, sessionKey[t])), FALSE)
    /\ UNCHANGED <<pc, newDev, session, open, deviceSessionMultiMap, mtx, hyPerfDev,
                   deviceVCPUMap, VCPUBPdeviceSlotMap, guest, calls, fault>>

kvm__disableAllEBSDevice(t) ==
    /\ allCalls
    /\ pc[t] = "guest"
    /\ mtx = None
    /\ Switch(DOMAIN deviceMap, FALSE)
    /\ UNCHANGED <<pc, newDev, session, open, deviceSessionMultiMap, mtx, hyPerfDev,
                   deviceVCPUMap, VCPUBPdeviceSlotMap, guest, calls, fault>>

\* kvm__enableAllEBSDevice tests isDisabled, which end_device of another thread sets
\* without the lock, and then resumes.
TestAll(t) ==
    /\ allCalls
    /\ mtx = None
    /\ mtx' = t
    /\ Goto(t, "guest", "resumeAll")
    /\ tested' = NotDisabled(DOMAIN deviceMap)
    /\ UNCHANGED <<newDev, session, open, maps, agent, guest, allCalls, fault>>

ResumeAll(t) ==
    /\ Goto(t, "resumeAll", "guest")
    /\ mtx' = None
    /\ Switch(tested, TRUE)
    /\ tested' = {}
    /\ UNCHANGED <<newDev, session, open, deviceSessionMultiMap, hyPerfDev, deviceVCPUMap,
                   VCPUBPdeviceSlotMap, guest, allCalls, fault>>

-----------------------------------------------------------------------------
(* kvm__doneEventProcessing_HyPerf                                         *)

\* The guest hands an event back.
Returned(t, e) == guest' = [guest EXCEPT ![t] = @ \ {e}]

\* The guest gave up (ip is 0) or the address is not of a kind that is profiled: no event
\* is built and the devices are resumed.
Skip(t, e) ==
    /\ <<t, e.fd>> \in DOMAIN deviceMap
    /\ Goto(t, "guest", "resume")
    /\ Returned(t, e)
    /\ UNCHANGED <<newDev, session, open, maps, mtx, agent, calls, fault>>

\* done_processEvent finds no device, says so, and uses it all the same. Without an event
\* nothing of the device is read.
NoDevice(t, e) ==
    /\ pc[t] \in {"guest", "out"}
    /\ <<t, e.fd>> \notin DOMAIN deviceMap
    /\ pc' = [pc EXCEPT ![t] = IF @ = "guest" THEN "resume" ELSE "out"]
    /\ fault' \in BOOLEAN
    /\ Returned(t, e)
    /\ UNCHANGED <<newDev, session, open, maps, mtx, agent, calls>>

\* tool_PEBSEventHandler drops the sample ...
OnSample(t, e) ==
    /\ Goto(t, "guest", "resume")
    /\ <<t, e.fd>> \in DOMAIN deviceMap
    /\ deviceMap[<<t, e.fd>>].type = "PEBS"
    /\ Returned(t, e)
    /\ UNCHANGED <<newDev, session, open, maps, mtx, agent, calls, fault>>

\* ... or arms a slot that has no device yet ...
OnSampleFresh(t, e) ==
    /\ pc[t] = "guest"
    /\ <<t, e.fd>> \in DOMAIN deviceMap
    /\ deviceMap[<<t, e.fd>>].type = "PEBS"
    /\ Cardinality(Breakpoints(t)) < MaxWP
    /\ Returned(t, e)
    /\ Register(t, "BP", "resume")
    /\ UNCHANGED <<session, maps, mtx, agent, calls, fault>>

\* ... or re-aims one of its devices: DisableWatchpoint, BPDevice::updateBPAddress (the
\* hypervisor, else the host kernel, else it stays disabled), start_device, which
\* switches the host's event and not the slot.
OnSampleModify(t, e, k) ==
    /\ Goto(t, "guest", "resume")
    /\ <<t, e.fd>> \in DOMAIN deviceMap
    /\ deviceMap[<<t, e.fd>>].type = "PEBS"
    /\ k \in Breakpoints(t)
    /\ Returned(t, e)
    /\ \/ End({k})
       \/ /\ deviceMap' = [Flagged(deviceMap, {k}, FALSE) EXCEPT ![k].on = "on"]
          /\ \/ ByHypervisor(k) /\ guestBP' = SwitchedSlots({k}, TRUE)
             \/ guestBP' = SwitchedSlots({k}, FALSE)
    /\ UNCHANGED <<newDev, session, open, deviceSessionMultiMap, mtx, hyPerfDev, deviceVCPUMap,
                   VCPUBPdeviceSlotMap, calls, fault>>

\* OnWatchPoint: the verdict disables no watchpoint, this one, or all of the thread.
OnTrigger(t, e, K) ==
    /\ Goto(t, "guest", "resume")
    /\ <<t, e.fd>> \in DOMAIN deviceMap
    /\ deviceMap[<<t, e.fd>>].type = "BP"
    /\ K \in {{}, {<<t, e.fd>>}, Breakpoints(t)}
    /\ Returned(t, e)
    /\ End(K)
    /\ UNCHANGED <<newDev, session, open, deviceSessionMultiMap, mtx, hyPerfDev, deviceVCPUMap,
                   VCPUBPdeviceSlotMap, calls, fault>>

\* Mutant: only the sampling device is resumed.
ResumableSampling(t) ==
    {k \in NotDisabled(SessionDevices(t, sessionKey[t])) : deviceMap[k].type = "PEBS"}

Resumable(t) == NotDisabled(SessionDevices(t, sessionKey[t]))

\* The end of postAgentProcessing, whatever came before.
resume_devices_by_session(t) ==
    /\ mtx = None
    /\ Goto(t, "resume", "guest")
    /\ Switch(Resumable(t), TRUE)
    /\ UNCHANGED <<newDev, session, open, deviceSessionMultiMap, mtx, hyPerfDev, deviceVCPUMap,
                   VCPUBPdeviceSlotMap, guest, calls, fault>>

\* The guest driver may also resume the session itself.
kvm__enableEBSDevicesThisSession(t) ==
    /\ pc[t] = "guest"
    /\ mtx = None
    /\ Switch(Resumable(t), TRUE)
    /\ UNCHANGED <<pc, newDev, session, open, deviceSessionMultiMap, mtx, hyPerfDev,
                   deviceVCPUMap, VCPUBPdeviceSlotMap, guest, calls, fault>>

-----------------------------------------------------------------------------
(* kvm__VCPU_end: WP_ThreadTerminate, then remove_device_by_session        *)

kvm__VCPU_end(t) ==
    /\ Goto(t, "guest", "ending")
    /\ UNCHANGED <<newDev, session, open, maps, mtx, agent, guest, calls, fault>>

\* remove_device up to unRegisterDevice: out of the session's list, and ended.
Take(t, k, links) ==
    /\ newDev' = [newDev EXCEPT ![t] = [fd |-> k[2], type |-> deviceMap[k].type]]
    /\ deviceSessionMultiMap' = deviceSessionMultiMap \ links
    /\ End({k})
    /\ UNCHANGED <<session, open, hyPerfDev, deviceVCPUMap, VCPUBPdeviceSlotMap, guest, calls, fault>>

\* DisArm locks for one device; which slot's comes first does not matter.
DisArm(t, k) ==
    /\ mtx = None
    /\ mtx' = t
    /\ Goto(t, "ending", "closing")
    /\ k \in Breakpoints(t)
    /\ Take(t, k, {<<deviceMap[k].session, k[2]>>})

\* remove_device_by_session locks for all that are left ...
LockSession(t) ==
    /\ Breakpoints(t) = {}
    /\ mtx = None
    /\ mtx' = t
    /\ Goto(t, "ending", "sweep")
    /\ UNCHANGED <<newDev, session, open, maps, agent, guest, calls, fault>>

RemoveOfSession(t, k) ==
    /\ Goto(t, "sweep", "closing")
    /\ k \in SessionDevices(t, sessionKey[t])
    /\ Take(t, k, {})
    /\ UNCHANGED mtx

\* ... and erases the session's list.
UnlockSession(t) ==
    /\ Goto(t, "sweep", "out")
    /\ SessionDevices(t, sessionKey[t]) = {}
    /\ deviceSessionMultiMap' = {l \in deviceSessionMultiMap : l[1] # sessionKey[t]}
    /\ mtx' = None
    /\ UNCHANGED <<newDev, session, open, deviceMap, agent, guest, calls, fault>>

\* Mutant: the lock is given back before the agent forgets the device.
CloseUnlocked(t) ==
    /\ Goto(t, "closing", "closed")
    /\ open' = open \ {newDev[t].fd}
    /\ mtx' = None
    /\ UNCHANGED <<newDev, session, maps, agent, guest, calls, fault>>

\* unRegisterDevice closes the descriptor, which the kernel may hand out again ...
Close(t) ==
    /\ Goto(t, "closing", "closed")
    /\ open' = open \ {newDev[t].fd}
    /\ UNCHANGED <<newDev, session, maps, mtx, agent, guest, calls, fault>>

\* Mutant: the slot is not given back.
SlotsKept(v, fd) == VCPUBPdeviceSlotMap

SlotsFreed(v, fd) ==
    [w \in Threads |-> [i \in Slots |->
        IF w = v /\ VCPUBPdeviceSlotMap[w][i] = fd THEN None ELSE VCPUBPdeviceSlotMap[w][i]]]

\* ... and only then tells the agent (MyAgent::unRegisterDevice).
unRegisterDevice(t) ==
    LET fd == newDev[t].fd
    IN  /\ pc[t] = "closed"
        /\ VCPUBPdeviceSlotMap' = IF newDev[t].type = "BP" THEN SlotsFreed(deviceVCPUMap[fd], fd)
                                                          ELSE VCPUBPdeviceSlotMap
        /\ deviceVCPUMap' = [deviceVCPUMap EXCEPT ![fd] = None]
        /\ deviceMap' = [k \in DOMAIN deviceMap \ {<<t, fd>>} |-> deviceMap[k]]
        /\ newDev' = [newDev EXCEPT ![t].fd = None]
        /\ \/ /\ newDev[t].type = "BP"
              /\ mtx' = None
              /\ pc' = [pc EXCEPT ![t] = "ending"]
           \/ /\ newDev[t].type = "PEBS"
              /\ pc' = [pc EXCEPT ![t] = "sweep"]
              /\ UNCHANGED mtx
        /\ UNCHANGED <<session, open, deviceSessionMultiMap, hyPerfDev, guestBP, guest, calls, fault>>

-----------------------------------------------------------------------------

Init ==
    /\ pc = [t \in Threads |-> "out"]
    /\ newDev = [t \in Threads |-> [fd |-> None, type |-> "PEBS"]]
    /\ sessionKey = [t \in Threads |-> -1]
    /\ sKey = 0
    /\ open = {}
    /\ deviceMap = [k \in {} |-> CHOOSE d \in Device : TRUE]
    /\ deviceSessionMultiMap = {}
    /\ mtx = None
    /\ hyPerfDev = FALSE
    /\ deviceVCPUMap = [fd \in FDs |-> None]
    /\ VCPUBPdeviceSlotMap = [t \in Threads |-> [i \in Slots |-> None]]
    /\ guestBP = [t \in Threads |-> [i \in Slots |-> FALSE]]
    /\ guest = [t \in Threads |-> {}]
    /\ allCalls \in BOOLEAN
    /\ tested = {}
    /\ fault = FALSE

kvm__doneEventProcessing_HyPerf(t, e) ==
    \/ Skip(t, e)
    \/ NoDevice(t, e)
    \/ OnSample(t, e)
    \/ OnSampleFresh(t, e)
    \/ \E k \in DOMAIN deviceMap : OnSampleModify(t, e, k)
    \/ \E K \in SUBSET Breakpoints(t) : OnTrigger(t, e, K)

VCPU(t) ==
    \/ kvm__VCPU_start(t)
    \/ add_new_device(t) \/ add_new_device_to_session(t) \/ registerDevice(t)
    \/ \E k \in DevicesOf(t) : Fire(t, k)
    \/ kvm__disableEBSDevicesThisSession(t)
    \/ kvm__disableAllEBSDevice(t) \/ TestAll(t) \/ ResumeAll(t)
    \/ \E e \in guest[t] : kvm__doneEventProcessing_HyPerf(t, e)
    \/ resume_devices_by_session(t) \/ kvm__enableEBSDevicesThisSession(t)
    \/ kvm__VCPU_end(t)
    \/ \E k \in DevicesOf(t) : DisArm(t, k) \/ RemoveOfSession(t, k)
    \/ LockSession(t) \/ UnlockSession(t)
    \/ Close(t) \/ unRegisterDevice(t)

Next == ~fault /\ (set_hyPerfDev \/ \E t \in Threads : VCPU(t))

Spec == Init /\ [][Next]_vars

-----------------------------------------------------------------------------
(* Properties                                                              *)

PCs == {"out", "opened", "added", "linked", "guest", "resume", "resumeAll", "ending", "sweep",
        "closing", "closed"}

TypeOK ==
    /\ pc \in [Threads -> PCs]
    /\ newDev \in [Threads -> NewDevice]
    /\ sessionKey \in [Threads -> Nat \cup {-1}] /\ sKey \in Nat
    /\ open \subseteq FDs
    /\ DOMAIN deviceMap \subseteq Threads \X FDs
    /\ \A k \in DOMAIN deviceMap : deviceMap[k] \in Device
    /\ deviceSessionMultiMap \subseteq Nat \X FDs
    /\ mtx \in Threads \cup {None}
    /\ hyPerfDev \in BOOLEAN
    /\ deviceVCPUMap \in [FDs -> Threads \cup {None}]
    /\ VCPUBPdeviceSlotMap \in [Threads -> [Slots -> FDs \cup {None}]]
    /\ guestBP \in [Threads -> [Slots -> BOOLEAN]]
    /\ guest \in [Threads -> SUBSET GuestEvent]
    /\ allCalls \in BOOLEAN
    /\ tested \subseteq Threads \X FDs
    /\ fault \in BOOLEAN

\* A slot of a VCPU is held by a breakpoint device of that VCPU and by no other slot, and
\* the agent's two maps agree, although the descriptor of a removed device is free for
\* other VCPUs before the agent forgets it: no slot leaks, none is lost to a stranger.
SlotsAgree ==
    \A v \in Threads, i \in Slots :
        LET fd == VCPUBPdeviceSlotMap[v][i]
        IN  fd # None =>
                /\ deviceVCPUMap[fd] = v
                /\ <<v, fd>> \in DOMAIN deviceMap
                /\ deviceMap[<<v, fd>>].type = "BP"
                /\ \A j \in Slots \ {i} : VCPUBPdeviceSlotMap[v][j] # fd

\* The guest is only watched for devices that exist and are not disabled: pausing and
\* resuming a VCPU never revives a watchpoint. kvm__enableAllEBSDevice does not have this
\* guarantee, since it may have tested a device that is then disabled.
OnlyArmedWatch ==
    ~allCalls =>
        \A v \in Threads, i \in Slots :
            guestBP[v][i] =>
                LET k == <<v, VCPUBPdeviceSlotMap[v][i]>>
                IN  k \in DOMAIN deviceMap /\ ~deviceMap[k].isDisabled

\* When the guest has handed back a VCPU's events, also those it skipped, every device of
\* the VCPU that is not disabled watches again, the sampling device once it was enabled.
NoneLeftPaused ==
    ~allCalls =>
        \A t \in Threads : pc[t] = "guest" /\ guest[t] = {} =>
            \A k \in NotDisabled(DevicesOf(t)) : Watches(k) \/ deviceMap[k].on = "new"

\* A VCPU that ended leaves no device, no entry of its session and no slot behind.
NothingLeftOfVCPU ==
    \A t \in Threads : pc[t] = "out" =>
        /\ DevicesOf(t) = {}
        /\ \A l \in deviceSessionMultiMap : l[1] # sessionKey[t]
        /\ \A i \in Slots : VCPUBPdeviceSlotMap[t][i] = None

\* An event that is handed back in the session it was taken in finds its device
\* (done_processEvent would use a null pointer).
EventsResolve ==
    \A t \in Threads : pc[t] = "guest" =>
        \A e \in guest[t] : e.session = sessionKey[t] => <<t, e.fd>> \in DOMAIN deviceMap
=============================================================================
