----------------------------- MODULE KvmProofs -----------------------------
(***************************************************************************)
(* Proofs about the KVM agent, for every set of VCPU threads and           *)
(* descriptors, every number of slots, sessions and events: the slots of a *)
(* VCPU belong to its breakpoint devices although a descriptor is handed   *)
(* out again before the agent forgets it, and what that ownership gives a  *)
(* session: its events find their devices, it leaves nothing behind, and   *)
(* pausing and resuming it neither revives a disabled watchpoint nor       *)
(* leaves another paused.                                                  *)
(***************************************************************************)
EXTENDS KvmAgent, TLAPS

Registering == {"opened", "added", "linked"}
Removing == {"closing", "closed"}
Locking == Removing \cup {"sweep", "resumeAll"}

\* The device a thread is registering or removing.
Current(t) == <<t, newDev[t].fd>>

\* Whoever removes or sweeps holds devicemap_mtx.
LockHeld == \A t \in Threads : pc[t] \in Locking => mtx = t

\* A thread that is not out has a session.
InSession == \A t \in Threads : pc[t] # "out" => sessionKey[t] \in Nat

\* A device in deviceMap has its descriptor, or its thread has just closed it.
DevicesOpen ==
    \A k \in DOMAIN deviceMap :
        k[2] \notin open => pc[k[1]] = "closed" /\ newDev[k[1]].fd = k[2]

\* Two threads have no descriptor in common ...
OneOwner == \A k, l \in DOMAIN deviceMap : k[2] = l[2] => k = l

\* ... not even while one of them is registering it, except that the kernel may hand out
\* a descriptor whose device is still to be forgotten.
Registrations ==
    \A t \in Threads : pc[t] \in Registering =>
        /\ newDev[t].fd \in open
        /\ \A u \in Threads \ {t} : pc[u] \in Registering => newDev[u].fd # newDev[t].fd

Reopened ==
    \A t \in Threads : pc[t] = "opened" =>
        \A k \in DOMAIN deviceMap : k[2] = newDev[t].fd =>
            pc[k[1]] = "closed" /\ newDev[k[1]].fd = k[2]

\* A device is in the map before it has a slot and until its slot is free.
Mapped ==
    \A t \in Threads :
        /\ pc[t] \in {"added", "linked"} \cup Removing =>
              Current(t) \in DOMAIN deviceMap /\ deviceMap[Current(t)].type = newDev[t].type
        /\ pc[t] \in {"added", "linked"} =>
              \A i \in Slots : VCPUBPdeviceSlotMap[t][i] # newDev[t].fd

\* The inductive invariant of the slots.
KInv ==
    /\ TypeOK
    /\ LockHeld
    /\ InSession
    /\ DevicesOpen
    /\ OneOwner
    /\ Registrations
    /\ Reopened
    /\ Mapped
    /\ SlotsAgree

\* deviceMap keeps its devices and what never changes of a device.
SameDevices ==
    /\ DOMAIN deviceMap' = DOMAIN deviceMap
    /\ \A k \in DOMAIN deviceMap :
          /\ deviceMap'[k] \in Device
          /\ deviceMap'[k].type = deviceMap[k].type
          /\ deviceMap'[k].session = deviceMap[k].session

-----------------------------------------------------------------------------
(* Facts about the operators                                               *)

\* Switching events on or off changes nothing else of a device.
LEMMA SwitchedEventsFacts ==
    ASSUME NEW devs, \A k \in DOMAIN devs : devs[k] \in Device, NEW K, NEW b \in BOOLEAN
    PROVE  /\ DOMAIN SwitchedEvents(devs, K, b) = DOMAIN devs
           /\ \A k \in DOMAIN devs :
                 /\ SwitchedEvents(devs, K, b)[k] \in Device
                 /\ SwitchedEvents(devs, K, b)[k].type = devs[k].type
                 /\ SwitchedEvents(devs, K, b)[k].session = devs[k].session
                 /\ SwitchedEvents(devs, K, b)[k].isDisabled = devs[k].isDisabled
  BY DEF SwitchedEvents, Device, Counting

\* Switching slots on or off leaves a table of switches.
LEMMA SwitchedSlotsType ==
    ASSUME TypeOK, NEW K, NEW b \in BOOLEAN
    PROVE  SwitchedSlots(K, b) \in [Threads -> [Slots -> BOOLEAN]]
  BY DEF SwitchedSlots, TypeOK

\* Pausing and resuming keep the devices.
LEMMA SwitchKeeps ==
    ASSUME TypeOK, NEW K, NEW b \in BOOLEAN, Switch(K, b)
    PROVE  SameDevices /\ guestBP' \in [Threads -> [Slots -> BOOLEAN]]
  <1>1. \A k \in DOMAIN deviceMap : deviceMap[k] \in Device
    BY DEF TypeOK
  <1>2. QED  BY <1>1, SwitchedEventsFacts, SwitchedSlotsType DEF Switch, SameDevices

\* So does ending them.
LEMMA EndKeeps ==
    ASSUME TypeOK, NEW K, End(K)
    PROVE  SameDevices /\ guestBP' \in [Threads -> [Slots -> BOOLEAN]]
  <1>1. \A k \in DOMAIN deviceMap : deviceMap[k] \in Device
    BY DEF TypeOK
  <1>2. SameDevices
    <2> DEFINE F == Flagged(deviceMap, K, TRUE)
    <2>1. /\ DOMAIN F = DOMAIN deviceMap
          /\ \A k \in DOMAIN deviceMap : /\ F[k] \in Device
                                        /\ F[k].type = deviceMap[k].type
                                        /\ F[k].session = deviceMap[k].session
      BY <1>1 DEF Flagged, Device
    <2>2. deviceMap' = SwitchedEvents(F, K, FALSE)
      BY DEF End
    <2> HIDE DEF F
    <2>3. QED  BY <2>1, <2>2 DEF SwitchedEvents, SameDevices, Device, Counting
  <1>3. guestBP' \in [Threads -> [Slots -> BOOLEAN]]
    BY DEF End, SwitchedSlots, TypeOK
  <1>4. QED  BY <1>2, <1>3

-----------------------------------------------------------------------------
(* Steps that leave devices and slots to their owners                      *)

Calm == PCs \ (Registering \cup Removing)

\* The parts of KInv about who owns what.
Owners ==
    /\ DevicesOpen
    /\ OneOwner
    /\ Registrations
    /\ Reopened
    /\ Mapped
    /\ SlotsAgree

\* A step that neither registers nor removes a device disturbs no owner.
LEMMA CalmStep ==
    ASSUME KInv, SameDevices,
           UNCHANGED <<newDev, open, deviceVCPUMap, VCPUBPdeviceSlotMap>>,
           \A u \in Threads : pc'[u] = pc[u] \/ (pc[u] \in Calm /\ pc'[u] \in Calm)
    PROVE  Owners'
  <1> USE DEF KInv, SameDevices, Calm, Registering, Removing, PCs
  <1>0. DOMAIN deviceMap \subseteq Threads \X FDs
    BY DEF TypeOK
  <1>1. DevicesOpen'
    BY <1>0 DEF DevicesOpen
  <1>2. OneOwner'
    BY DEF OneOwner
  <1>3. Registrations'
    BY DEF Registrations
  <1>4. Reopened'
    BY <1>0 DEF Reopened
  <1>5. Mapped'
    BY DEF Mapped, Current
  <1>6. SlotsAgree'
    BY DEF SlotsAgree
  <1>7. QED  BY <1>1, <1>2, <1>3, <1>4, <1>5, <1>6 DEF Owners

-----------------------------------------------------------------------------
(* The steps of the hypervisor and of the guest                            *)

\* Registering the hypervisor moves nothing yet.
LEMMA HypervisorKInv == KInv /\ set_hyPerfDev => KInv'
  <1> SUFFICES ASSUME KInv, set_hyPerfDev PROVE KInv'
    OBVIOUS
  <1> USE DEF set_hyPerfDev, session, maps, calls
  <1>1. SameDevices
    BY DEF KInv, TypeOK, SameDevices
  <1>2. TypeOK' /\ LockHeld' /\ InSession'
    BY DEF KInv, TypeOK, LockHeld, InSession
  <1>3. Owners'
    BY <1>1, CalmStep
  <1>4. QED  BY <1>2, <1>3 DEF KInv, Owners

\* An event may stop its own perf event and nothing else.
LEMMA FireKeeps ==
    ASSUME KInv, NEW t \in Threads, NEW k \in DevicesOf(t), Fire(t, k)
    PROVE  /\ SameDevices
           /\ \A l \in DOMAIN deviceMap : deviceMap'[l].isDisabled = deviceMap[l].isDisabled
  <1>1. \A l \in DOMAIN deviceMap : deviceMap[l] \in Device
    BY DEF KInv, TypeOK
  <1>2. CASE deviceMap' = deviceMap
    BY <1>1, <1>2 DEF SameDevices
  <1>3. CASE deviceMap' = SwitchedEvents(deviceMap, {k}, FALSE)
    <2> DEFINE K == {k}
    <2>1. FALSE \in BOOLEAN /\ deviceMap' = SwitchedEvents(deviceMap, K, FALSE)
      BY <1>3
    <2> HIDE DEF K
    <2>2. QED  BY <1>1, <2>1, SwitchedEventsFacts DEF SameDevices
  <1>4. QED  BY <1>2, <1>3 DEF Fire

\* Calls of the hypervisor and of the guest that leave the devices alone: only the lock, the
\* thread's place and its events change.
LEMMA PlainKInv ==
    ASSUME KInv, NEW t \in Threads,
           \/ \E k \in DevicesOf(t) : Fire(t, k)
           \/ TestAll(t)
           \/ \E e \in guest[t] : Skip(t, e) \/ NoDevice(t, e) \/ OnSample(t, e)
           \/ kvm__VCPU_end(t)
           \/ LockSession(t)
           \/ UnlockSession(t)
    PROVE  KInv'
  <1> USE DEF Goto, Returned, session, maps, agent, calls
  <1>1. ASSUME NEW k \in DevicesOf(t), Fire(t, k) PROVE KInv'
    <2>1. sessionKey[t] \in Nat /\ k[2] \in FDs
      BY <1>1 DEF Fire, KInv, InSession, TypeOK, DevicesOf
    <2>2. guest' \in [Threads -> SUBSET GuestEvent]
      BY <1>1, <2>1 DEF Fire, KInv, TypeOK, GuestEvent
    <2>3. SameDevices
      BY <1>1, FireKeeps
    <2>4. TypeOK' /\ LockHeld' /\ InSession'
      BY <1>1, <2>2, <2>3 DEF Fire, KInv, TypeOK, LockHeld, InSession, SameDevices
    <2>5. QED  BY <1>1, <2>3, <2>4, CalmStep DEF Fire, KInv, Owners
  <1>2. CASE TestAll(t)
    <2>1. SameDevices
      BY <1>2 DEF TestAll, KInv, TypeOK, SameDevices
    <2>2. TypeOK'
      BY <1>2 DEF TestAll, KInv, TypeOK, PCs, NotDisabled
    <2>3. LockHeld' /\ InSession'
      BY <1>2, KvmAssumption DEF TestAll, KInv, TypeOK, LockHeld, InSession
    <2>4. QED  BY <1>2, <2>1, <2>2, <2>3, CalmStep
               DEF TestAll, KInv, TypeOK, Owners, Calm, PCs, Registering, Removing
  <1>3. ASSUME NEW e \in guest[t], Skip(t, e) \/ NoDevice(t, e) \/ OnSample(t, e) PROVE KInv'
    <2>1. guest' \in [Threads -> SUBSET GuestEvent]
      <3>1. guest \in [Threads -> SUBSET GuestEvent] /\ guest[t] \ {e} \in SUBSET GuestEvent
        BY DEF KInv, TypeOK
      <3>2. guest' = [guest EXCEPT ![t] = @ \ {e}]
        BY <1>3 DEF Skip, NoDevice, OnSample
      <3>3. QED  BY <3>1, <3>2
    <2>2. SameDevices
      BY <1>3 DEF Skip, NoDevice, OnSample, KInv, TypeOK, SameDevices
    <2>3. TypeOK'
      <3>1. pc' \in [Threads -> PCs]
        BY <1>3 DEF Skip, NoDevice, OnSample, KInv, TypeOK, PCs
      <3>2. fault' \in BOOLEAN
        BY <1>3 DEF Skip, NoDevice, OnSample, KInv, TypeOK
      <3>3. QED  BY <1>3, <2>1, <3>1, <3>2 DEF Skip, NoDevice, OnSample, KInv, TypeOK
    <2>4. LockHeld' /\ InSession'
      BY <1>3 DEF Skip, NoDevice, OnSample, KInv, TypeOK, LockHeld, InSession, Locking, Removing
    <2>5. QED  BY <1>3, <2>2, <2>3, <2>4, CalmStep
               DEF Skip, NoDevice, OnSample, KInv, TypeOK, Owners, Calm, PCs, Registering, Removing
  <1>4. CASE kvm__VCPU_end(t) \/ LockSession(t) \/ UnlockSession(t)
    <2> USE DEF kvm__VCPU_end, LockSession, UnlockSession
    <2>1. SameDevices
      BY <1>4 DEF KInv, TypeOK, SameDevices
    <2>2. TypeOK'
      BY <1>4 DEF KInv, TypeOK, PCs
    <2>3. LockHeld' /\ InSession'
      BY <1>4, KvmAssumption DEF KInv, TypeOK, LockHeld, InSession, Locking, Removing
    <2>4. QED  BY <1>4, <2>1, <2>2, <2>3, CalmStep
               DEF KInv, TypeOK, Owners, Calm, PCs, Registering, Removing
  <1>5. QED  BY <1>1, <1>2, <1>3, <1>4

\* Pausing and resuming keep the devices.
LEMMA SwitchingKeeps ==
    ASSUME KInv, NEW t \in Threads,
           \/ kvm__disableEBSDevicesThisSession(t)
           \/ kvm__disableAllEBSDevice(t)
           \/ ResumeAll(t)
           \/ resume_devices_by_session(t)
           \/ kvm__enableEBSDevicesThisSession(t)
    PROVE  SameDevices /\ guestBP' \in [Threads -> [Slots -> BOOLEAN]]
  <1>1. \/ Switch(NotDisabled(SessionDevices(t, sessionKey[t])), FALSE)
        \/ Switch(DOMAIN deviceMap, FALSE)
        \/ Switch(tested, TRUE)
        \/ Switch(Resumable(t), TRUE)
    BY Zenon DEF kvm__disableEBSDevicesThisSession, kvm__disableAllEBSDevice, ResumeAll,
                 resume_devices_by_session, kvm__enableEBSDevicesThisSession
  <1>2. TypeOK /\ TRUE \in BOOLEAN /\ FALSE \in BOOLEAN
    BY DEF KInv
  <1>3. QED  BY <1>1, <1>2, SwitchKeeps, Zenon

\* So the invariant holds after it.
LEMMA SwitchingKInv ==
    ASSUME KInv, NEW t \in Threads,
           \/ kvm__disableEBSDevicesThisSession(t)
           \/ kvm__disableAllEBSDevice(t)
           \/ ResumeAll(t)
           \/ resume_devices_by_session(t)
           \/ kvm__enableEBSDevicesThisSession(t)
    PROVE  KInv'
  <1>1. SameDevices /\ guestBP' \in [Threads -> [Slots -> BOOLEAN]]
    BY SwitchingKeeps, Zenon
  <1> USE DEF kvm__disableEBSDevicesThisSession, kvm__disableAllEBSDevice, ResumeAll,
              resume_devices_by_session, kvm__enableEBSDevicesThisSession,
              Goto, session, maps, agent, calls
  <1>2. pc' \in [Threads -> PCs] /\ mtx' \in Threads \cup {None} /\ tested' \subseteq Threads \X FDs
    BY DEF KInv, TypeOK, PCs
  <1>3. TypeOK'
    BY <1>1, <1>2 DEF KInv, TypeOK, SameDevices
  <1>4. LockHeld' /\ InSession'
    BY KvmAssumption DEF KInv, TypeOK, LockHeld, InSession, Locking, Removing
  <1>5. Owners'
    BY <1>1, CalmStep DEF KInv, TypeOK, Calm, PCs, Registering, Removing
  <1>6. QED  BY <1>3, <1>4, <1>5 DEF KInv, Owners

\* Ending watchpoints, or re-aiming one, keeps the devices.
LEMMA ToolKeeps ==
    ASSUME KInv, NEW t \in Threads, NEW e \in guest[t],
           \/ \E k \in DOMAIN deviceMap : OnSampleModify(t, e, k)
           \/ \E K \in SUBSET Breakpoints(t) : OnTrigger(t, e, K)
    PROVE  SameDevices /\ guestBP' \in [Threads -> [Slots -> BOOLEAN]]
  <1>1. ASSUME NEW K, End(K)
        PROVE  SameDevices /\ guestBP' \in [Threads -> [Slots -> BOOLEAN]]
    BY <1>1, EndKeeps DEF KInv
  <1>2. ASSUME NEW k \in DOMAIN deviceMap, OnSampleModify(t, e, k), ~End({k})
        PROVE  SameDevices /\ guestBP' \in [Threads -> [Slots -> BOOLEAN]]
    <2>1. \A l \in DOMAIN deviceMap : deviceMap[l] \in Device
      BY DEF KInv, TypeOK
    <2>2. /\ deviceMap' = [Flagged(deviceMap, {k}, FALSE) EXCEPT ![k].on = "on"]
          /\ guestBP' \in {SwitchedSlots({k}, TRUE), SwitchedSlots({k}, FALSE)}
      BY <1>2 DEF OnSampleModify
    <2>3. SameDevices
      BY <2>1, <2>2 DEF SameDevices, Flagged, Device, Counting
    <2>4. guestBP \in [Threads -> [Slots -> BOOLEAN]]
      BY DEF KInv, TypeOK
    <2>5. /\ SwitchedSlots({k}, TRUE) \in [Threads -> [Slots -> BOOLEAN]]
          /\ SwitchedSlots({k}, FALSE) \in [Threads -> [Slots -> BOOLEAN]]
      BY <2>4 DEF SwitchedSlots
    <2>6. QED  BY <2>2, <2>3, <2>5
  <1>3. CASE \E K \in SUBSET Breakpoints(t) : OnTrigger(t, e, K)
    <2>1. PICK K \in SUBSET Breakpoints(t) : End(K)
      BY <1>3, Zenon DEF OnTrigger
    <2>2. QED  BY <1>1, <2>1
  <1>4. ASSUME NEW k \in DOMAIN deviceMap, OnSampleModify(t, e, k)
        PROVE  SameDevices /\ guestBP' \in [Threads -> [Slots -> BOOLEAN]]
    <2>1. CASE End({k})
      BY <1>1, <2>1
    <2>2. CASE ~End({k})
      BY <1>2, <1>4, <2>2
    <2>3. QED  BY <2>1, <2>2
  <1>5. QED  BY <1>3, <1>4

\* The tool ends watchpoints, or re-aims one.
LEMMA ToolKInv ==
    ASSUME KInv, NEW t \in Threads, NEW e \in guest[t],
           \/ \E k \in DOMAIN deviceMap : OnSampleModify(t, e, k)
           \/ \E K \in SUBSET Breakpoints(t) : OnTrigger(t, e, K)
    PROVE  KInv'
  <1>1. SameDevices /\ guestBP' \in [Threads -> [Slots -> BOOLEAN]]
    BY ToolKeeps, Zenon
  <1> USE DEF Goto, Returned, session, maps, agent, calls
  <1>2. guest' \in [Threads -> SUBSET GuestEvent]
    <2>1. guest \in [Threads -> SUBSET GuestEvent] /\ guest[t] \ {e} \in SUBSET GuestEvent
      BY DEF KInv, TypeOK
    <2>2. guest' = [guest EXCEPT ![t] = @ \ {e}]
      BY DEF OnTrigger, OnSampleModify
    <2>3. QED  BY <2>1, <2>2
  <1>3. /\ pc[t] = "guest" /\ pc' = [pc EXCEPT ![t] = "resume"]
        /\ UNCHANGED <<newDev, session, open, deviceSessionMultiMap, mtx, hyPerfDev,
                        deviceVCPUMap, VCPUBPdeviceSlotMap, calls, fault>>
    BY DEF OnTrigger, OnSampleModify
  <1>4. TypeOK'
    BY <1>1, <1>2, <1>3 DEF KInv, TypeOK, PCs, SameDevices
  <1>5. LockHeld' /\ InSession'
    BY <1>3 DEF KInv, TypeOK, LockHeld, InSession, Locking, Removing
  <1>6. Owners'
    BY <1>1, <1>3, CalmStep DEF KInv, TypeOK, Calm, PCs, Registering, Removing
  <1>7. QED  BY <1>4, <1>5, <1>6 DEF KInv, Owners

-----------------------------------------------------------------------------
(* Registering a device                                                    *)

\* A descriptor the kernel hands out is nobody's, or its device is about to be forgotten.
LEMMA RegisterOwners ==
    ASSUME KInv, NEW t \in Threads, pc[t] \in {"out", "guest"},
           NEW type \in {"PEBS", "BP"}, NEW orElse \in {"guest", "resume"},
           Register(t, type, orElse), SameDevices,
           UNCHANGED <<deviceVCPUMap, VCPUBPdeviceSlotMap>>
    PROVE  /\ Owners'
           /\ pc' \in [Threads -> PCs]
           /\ newDev' \in [Threads -> NewDevice]
           /\ open' \subseteq FDs
  <1>1. CASE pc' = [pc EXCEPT ![t] = orElse] /\ UNCHANGED <<open, newDev>>
    <2>1. Owners'
      BY <1>1, CalmStep DEF KInv, TypeOK, Calm, PCs, Registering, Removing
    <2>2. QED  BY <1>1, <2>1 DEF KInv, TypeOK, PCs
  <1>2. ASSUME NEW fd \in FDs \ open,
               open' = open \cup {fd},
               newDev' = [newDev EXCEPT ![t] = [fd |-> fd, type |-> type]],
               pc' = [pc EXCEPT ![t] = "opened"]
        PROVE  /\ Owners'
               /\ pc' \in [Threads -> PCs]
               /\ newDev' \in [Threads -> NewDevice]
               /\ open' \subseteq FDs
    <2>0. /\ pc \in [Threads -> PCs] /\ newDev \in [Threads -> NewDevice]
          /\ DOMAIN deviceMap \subseteq Threads \X FDs /\ open \subseteq FDs
      BY DEF KInv, TypeOK
    <2>1. /\ pc' \in [Threads -> PCs]
          /\ newDev' \in [Threads -> NewDevice]
          /\ open' \subseteq FDs
      BY <1>2, <2>0 DEF NewDevice, PCs
    <2>2. newDev'[t].fd = fd /\ pc'[t] = "opened"
      BY <1>2, <2>0
    <2>3. \A u \in Threads \ {t} : newDev'[u] = newDev[u] /\ pc'[u] = pc[u]
      BY <1>2, <2>0
    <2>4. \A k \in DOMAIN deviceMap : k[1] = t => k[2] \in open
      BY <2>0 DEF KInv, DevicesOpen
    <2>5. DevicesOpen'
      BY <1>2, <2>0, <2>3, <2>4 DEF KInv, DevicesOpen, SameDevices
    <2>6. OneOwner'
      BY DEF KInv, OneOwner, SameDevices
    <2>7. Registrations'
      BY <1>2, <2>2, <2>3 DEF KInv, Registrations
    <2>8. Reopened'
      <3> SUFFICES ASSUME NEW u \in Threads, pc'[u] = "opened",
                          NEW k \in DOMAIN deviceMap, k[2] = newDev'[u].fd
                   PROVE  pc'[k[1]] = "closed" /\ newDev'[k[1]].fd = k[2]
        BY DEF Reopened, SameDevices
      <3>1. k[1] \in Threads
        BY <2>0
      <3>2. CASE u = t
        BY <1>2, <2>0, <2>2, <2>3, <2>4, <3>1, <3>2 DEF KInv, DevicesOpen
      <3>3. CASE u # t
        BY <2>0, <2>3, <3>1, <3>3 DEF KInv, Reopened
      <3>4. QED  BY <3>2, <3>3
    <2>9. Mapped'
      BY <2>2, <2>3 DEF KInv, Mapped, Current, Removing, SameDevices
    <2>10. SlotsAgree'
      BY DEF KInv, SlotsAgree, SameDevices
    <2>11. QED  BY <2>1, <2>5, <2>6, <2>7, <2>8, <2>9, <2>10 DEF Owners
  <1>3. QED  BY <1>1, <1>2 DEF Register

\* A VCPU starts, or a sample needs a new breakpoint.
LEMMA OpenKInv ==
    ASSUME KInv, NEW t \in Threads,
           kvm__VCPU_start(t) \/ \E e \in guest[t] : OnSampleFresh(t, e)
    PROVE  KInv'
  <1>1. CASE kvm__VCPU_start(t)
    <2> USE DEF kvm__VCPU_start, maps, agent, calls
    <2>1. SameDevices
      BY <1>1 DEF KInv, TypeOK, SameDevices
    <2>2. /\ Owners' /\ pc' \in [Threads -> PCs] /\ newDev' \in [Threads -> NewDevice]
          /\ open' \subseteq FDs
      BY <1>1, <2>1, RegisterOwners
    <2>3. sessionKey' \in [Threads -> Nat \cup {-1}] /\ sKey' \in Nat /\ sessionKey'[t] \in Nat
      BY <1>1 DEF KInv, TypeOK, Key
    <2>4. TypeOK'
      BY <1>1, <2>1, <2>2, <2>3 DEF KInv, TypeOK, SameDevices
    <2>5. \A u \in Threads \ {t} : pc'[u] = pc[u] /\ sessionKey'[u] = sessionKey[u]
      BY <1>1 DEF Register, KInv, TypeOK
    <2>6. pc'[t] \in {"opened", "guest"}
      BY <1>1 DEF Register, KInv, TypeOK
    <2>7. LockHeld' /\ InSession'
      BY <1>1, <2>3, <2>5, <2>6 DEF KInv, LockHeld, InSession, Locking, Removing
    <2>8. QED  BY <2>2, <2>4, <2>7 DEF KInv, Owners
  <1>2. ASSUME NEW e \in guest[t], OnSampleFresh(t, e) PROVE KInv'
    <2> USE DEF OnSampleFresh, Returned, session, maps, agent, calls
    <2>1. SameDevices
      BY <1>2 DEF KInv, TypeOK, SameDevices
    <2>2. /\ Owners' /\ pc' \in [Threads -> PCs] /\ newDev' \in [Threads -> NewDevice]
          /\ open' \subseteq FDs
      BY <1>2, <2>1, RegisterOwners
    <2>3. guest' \in [Threads -> SUBSET GuestEvent]
      <3>1. guest \in [Threads -> SUBSET GuestEvent] /\ guest[t] \ {e} \in SUBSET GuestEvent
        BY DEF KInv, TypeOK
      <3>2. guest' = [guest EXCEPT ![t] = @ \ {e}]
        BY <1>2
      <3>3. QED  BY <3>1, <3>2
    <2>4. TypeOK'
      BY <1>2, <2>1, <2>2, <2>3 DEF KInv, TypeOK, SameDevices
    <2>5. \A u \in Threads \ {t} : pc'[u] = pc[u]
      BY <1>2 DEF Register, KInv, TypeOK
    <2>6. pc'[t] \in {"opened", "resume"}
      BY <1>2 DEF Register, KInv, TypeOK
    <2>7. LockHeld' /\ InSession'
      BY <1>2, <2>5, <2>6 DEF KInv, LockHeld, InSession, Locking, Removing
    <2>8. QED  BY <2>2, <2>4, <2>7 DEF KInv, Owners
  <1>3. QED  BY <1>1, <1>2

\* A device enters the map under the lock, when nobody is between closing a descriptor and
\* forgetting it: only so does each descriptor keep one owner.
LEMMA AddKInv ==
    ASSUME KInv, NEW t \in Threads, add_new_device(t)
    PROVE  KInv'
  <1> USE DEF add_new_device, Goto, session, agent, calls
  <1> DEFINE new == <<t, newDev[t].fd>>
  <1>0. /\ pc \in [Threads -> PCs] /\ newDev \in [Threads -> NewDevice]
        /\ DOMAIN deviceMap \subseteq Threads \X FDs
        /\ sessionKey[t] \in Nat
    BY DEF KInv, TypeOK, InSession
  <1>1. \A u \in Threads : pc[u] \notin Locking
    BY KvmAssumption DEF KInv, LockHeld
  <1>2. \A k \in DOMAIN deviceMap : k[2] \in open /\ k[2] # newDev[t].fd
    BY <1>0, <1>1 DEF KInv, DevicesOpen, Reopened, Locking, Removing
  <1>3. newDev[t].fd \in open
    BY DEF KInv, Registrations, Registering
  <1>4. /\ DOMAIN deviceMap' = DOMAIN deviceMap \cup {new}
        /\ \A k \in DOMAIN deviceMap : deviceMap'[k] = deviceMap[k]
        /\ deviceMap'[new] =
              [type |-> newDev[t].type, session |-> sessionKey[t], isDisabled |-> FALSE,
               on |-> IF newDev[t].type = "PEBS" THEN OpenedSampling ELSE OpenedBP]
    BY <1>2
  <1>5. new \in Threads \X FDs
    BY <1>3 DEF KInv, TypeOK
  <1>6. deviceMap'[new] \in Device /\ deviceMap'[new].type = newDev[t].type
    BY <1>0, <1>4 DEF Device, NewDevice, Counting, OpenedSampling, OpenedBP
  <1>7. pc'[t] = "added" /\ \A u \in Threads \ {t} : pc'[u] = pc[u]
    BY <1>0
  <1>8. TypeOK'
    <2>1. DOMAIN deviceMap' \subseteq Threads \X FDs
      BY <1>0, <1>4, <1>5
    <2>2. \A k \in DOMAIN deviceMap' : deviceMap'[k] \in Device
      BY <1>4, <1>6 DEF KInv, TypeOK
    <2>3. pc' \in [Threads -> PCs]
      BY <1>0 DEF PCs
    <2>4. QED  BY <2>1, <2>2, <2>3 DEF KInv, TypeOK
  <1>9. LockHeld' /\ InSession'
    BY <1>0, <1>7 DEF KInv, LockHeld, InSession, Locking, Removing
  <1>10. DevicesOpen'
    BY <1>2, <1>3, <1>4 DEF DevicesOpen
  <1>11. OneOwner'
    BY <1>2, <1>4 DEF KInv, OneOwner
  <1>12. Registrations'
    BY <1>7 DEF KInv, Registrations, Registering
  <1>13. Reopened'
    <2> SUFFICES ASSUME NEW u \in Threads, pc'[u] = "opened",
                        NEW k \in DOMAIN deviceMap', k[2] = newDev[u].fd
                 PROVE  pc'[k[1]] = "closed" /\ newDev[k[1]].fd = k[2]
      BY DEF Reopened
    <2>1. u # t /\ pc[u] = "opened"
      BY <1>7
    <2>2. k # new
      BY <2>1 DEF KInv, Registrations, Registering
    <2>3. k \in DOMAIN deviceMap /\ k[1] \in Threads
      BY <1>0, <1>4, <2>2
    <2>4. pc[k[1]] = "closed" /\ newDev[k[1]].fd = k[2]
      BY <2>1, <2>3 DEF KInv, Reopened
    <2>5. QED  BY <1>1, <2>3, <2>4 DEF Locking, Removing
  <1>14. Mapped'
    <2>1. \A i \in Slots : VCPUBPdeviceSlotMap[t][i] # newDev[t].fd
      BY <1>2, KvmAssumption, <1>5 DEF KInv, SlotsAgree
    <2>2. QED  BY <1>4, <1>6, <1>7, <2>1 DEF KInv, Mapped, Current, Removing
  <1>15. SlotsAgree'
    BY <1>4 DEF KInv, SlotsAgree
  <1>16. QED  BY <1>8, <1>9, <1>10, <1>11, <1>12, <1>13, <1>14, <1>15 DEF KInv

\* Filing a device under its session moves no owner.
LEMMA LinkKInv ==
    ASSUME KInv, NEW t \in Threads, add_new_device_to_session(t)
    PROVE  KInv'
  <1> USE DEF add_new_device_to_session, Goto, session, agent, calls
  <1>0. pc \in [Threads -> PCs] /\ sessionKey[t] \in Nat
    BY DEF KInv, TypeOK, InSession
  <1>1. newDev[t].fd \in FDs
    BY DEF KInv, TypeOK, Registrations, Registering
  <1>2. pc'[t] = "linked" /\ \A u \in Threads \ {t} : pc'[u] = pc[u]
    BY <1>0
  <1>3. TypeOK'
    BY <1>0, <1>1 DEF KInv, TypeOK, PCs
  <1>4. LockHeld' /\ InSession'
    BY <1>0, <1>2 DEF KInv, LockHeld, InSession, Locking, Removing
  <1>5. DevicesOpen'
    BY <1>2 DEF KInv, TypeOK, DevicesOpen
  <1>6. OneOwner' /\ SlotsAgree'
    BY DEF KInv, OneOwner, SlotsAgree
  <1>7. Registrations'
    BY <1>2 DEF KInv, Registrations, Registering
  <1>8. Reopened'
    BY <1>2 DEF KInv, TypeOK, Reopened
  <1>9. Mapped'
    BY <1>2 DEF KInv, Mapped, Current, Removing
  <1>10. QED  BY <1>3, <1>4, <1>5, <1>6, <1>7, <1>8, <1>9 DEF KInv

\* The agent gives the device a free slot of its VCPU, or none. No slot held its
\* descriptor before.
LEMMA SlotKInv ==
    ASSUME KInv, NEW t \in Threads, registerDevice(t)
    PROVE  KInv'
  <1> DEFINE fd == newDev[t].fd
  <1>0. /\ pc \in [Threads -> PCs] /\ newDev \in [Threads -> NewDevice]
        /\ deviceVCPUMap \in [FDs -> Threads \cup {None}]
        /\ VCPUBPdeviceSlotMap \in [Threads -> [Slots -> FDs \cup {None}]]
        /\ guestBP \in [Threads -> [Slots -> BOOLEAN]]
    BY DEF KInv, TypeOK
  <1>1. pc[t] = "linked" /\ fd \in FDs /\ fd # None
    BY KvmAssumption DEF registerDevice, KInv, TypeOK, Registrations, Registering
  <1>2. <<t, fd>> \in DOMAIN deviceMap /\ deviceMap[<<t, fd>>].type = newDev[t].type
    BY <1>1 DEF KInv, Mapped, Current
  <1>3. \A v \in Threads, i \in Slots : VCPUBPdeviceSlotMap[v][i] # fd
    <2> SUFFICES ASSUME NEW v \in Threads, NEW i \in Slots, VCPUBPdeviceSlotMap[v][i] = fd
                 PROVE  FALSE
      OBVIOUS
    <2>1. <<v, fd>> \in DOMAIN deviceMap
      BY <1>1 DEF KInv, SlotsAgree
    <2>2. v = t
      BY <1>2, <2>1 DEF KInv, OneOwner
    <2>3. QED  BY <1>1, <2>2 DEF KInv, Mapped
  <1>4. /\ pc' \in [Threads -> PCs] /\ pc'[t] \in {"guest", "resume"}
        /\ \A u \in Threads \ {t} : pc'[u] = pc[u] /\ newDev'[u] = newDev[u]
        /\ newDev' \in [Threads -> NewDevice]
    <2>1. pc' = [pc EXCEPT ![t] = IF newDev[t].type = "PEBS" THEN "guest" ELSE "resume"]
      BY DEF registerDevice
    <2>2. newDev' = [newDev EXCEPT ![t].fd = None]
      BY DEF registerDevice
    <2>3. newDev' \in [Threads -> NewDevice]
      BY <1>0, <2>2 DEF NewDevice
    <2>4. QED  BY <1>0, <2>1, <2>2, <2>3 DEF PCs
  <1>5. UNCHANGED <<session, open, maps, mtx, hyPerfDev, guest, calls, fault>>
    BY DEF registerDevice
  <1>6. \/ UNCHANGED <<deviceVCPUMap, VCPUBPdeviceSlotMap, guestBP>>
        \/ /\ \E v \in {t, None} : deviceVCPUMap' = [deviceVCPUMap EXCEPT ![fd] = v]
           /\ UNCHANGED <<VCPUBPdeviceSlotMap, guestBP>>
        \/ /\ newDev[t].type = "BP"
           /\ deviceVCPUMap' = [deviceVCPUMap EXCEPT ![fd] = t]
           /\ \E i \in Slots :
                 /\ VCPUBPdeviceSlotMap[t][i] = None
                 /\ VCPUBPdeviceSlotMap' = [VCPUBPdeviceSlotMap EXCEPT ![t][i] = fd]
                 /\ guestBP' \in {guestBP, [guestBP EXCEPT ![t][i] = TRUE]}
    BY DEF registerDevice
  <1>7. /\ deviceVCPUMap' \in [FDs -> Threads \cup {None}]
        /\ VCPUBPdeviceSlotMap' \in [Threads -> [Slots -> FDs \cup {None}]]
        /\ guestBP' \in [Threads -> [Slots -> BOOLEAN]]
    <2>1. deviceVCPUMap' \in [FDs -> Threads \cup {None}]
      BY <1>0, <1>1, <1>6
    <2>2. \A i \in Slots : [VCPUBPdeviceSlotMap EXCEPT ![t][i] = fd] \in
                              [Threads -> [Slots -> FDs \cup {None}]]
      BY <1>0, <1>1
    <2>3. \A i \in Slots : [guestBP EXCEPT ![t][i] = TRUE] \in [Threads -> [Slots -> BOOLEAN]]
      BY <1>0
    <2>4. QED  BY <1>0, <1>6, <2>1, <2>2, <2>3
  <1>8. TypeOK'
    BY <1>4, <1>5, <1>7 DEF KInv, TypeOK, session, maps, calls
  <1>9. LockHeld' /\ InSession'
    BY <1>1, <1>4, <1>5 DEF KInv, LockHeld, InSession, Locking, Removing, session
  <1>10. DevicesOpen' /\ OneOwner' /\ Reopened'
    <2>1. DOMAIN deviceMap \subseteq Threads \X FDs
      BY DEF KInv, TypeOK
    <2>2. DevicesOpen'
      BY <1>1, <1>4, <1>5, <2>1 DEF KInv, DevicesOpen, maps
    <2>3. Reopened'
      BY <1>1, <1>4, <1>5, <2>1 DEF KInv, Reopened, maps
    <2>4. QED  BY <1>5, <2>2, <2>3 DEF KInv, OneOwner, maps
  <1>11. Registrations'
    BY <1>1, <1>4, <1>5 DEF KInv, Registrations, Registering
  <1>12. \A u \in Threads \ {t}, i \in Slots :
             VCPUBPdeviceSlotMap'[u][i] = VCPUBPdeviceSlotMap[u][i]
    BY <1>0, <1>6
  <1>13. Mapped'
    BY <1>1, <1>4, <1>5, <1>12 DEF KInv, Mapped, Current, Removing, maps
  <1>14. SlotsAgree'
    <2> SUFFICES ASSUME NEW v \in Threads, NEW i \in Slots, VCPUBPdeviceSlotMap'[v][i] # None
                 PROVE  LET f == VCPUBPdeviceSlotMap'[v][i]
                        IN  /\ deviceVCPUMap'[f] = v
                            /\ <<v, f>> \in DOMAIN deviceMap
                            /\ deviceMap[<<v, f>>].type = "BP"
                            /\ \A j \in Slots \ {i} : VCPUBPdeviceSlotMap'[v][j] # f
      BY <1>5 DEF SlotsAgree, maps
    <2>1. CASE UNCHANGED VCPUBPdeviceSlotMap
      <3>1. VCPUBPdeviceSlotMap[v][i] \in FDs /\ VCPUBPdeviceSlotMap[v][i] # fd
        BY <1>0, <1>3, <2>1
      <3>2. deviceVCPUMap'[VCPUBPdeviceSlotMap[v][i]] = deviceVCPUMap[VCPUBPdeviceSlotMap[v][i]]
        BY <1>0, <1>6, <3>1
      <3>3. QED  BY <2>1, <3>1, <3>2 DEF KInv, SlotsAgree
    <2>2. ASSUME newDev[t].type = "BP",
                 deviceVCPUMap' = [deviceVCPUMap EXCEPT ![fd] = t],
                 NEW n \in Slots,
                 VCPUBPdeviceSlotMap' = [VCPUBPdeviceSlotMap EXCEPT ![t][n] = fd]
          PROVE  LET f == VCPUBPdeviceSlotMap'[v][i]
                 IN  /\ deviceVCPUMap'[f] = v
                     /\ <<v, f>> \in DOMAIN deviceMap
                     /\ deviceMap[<<v, f>>].type = "BP"
                     /\ \A j \in Slots \ {i} : VCPUBPdeviceSlotMap'[v][j] # f
      <3>1. \A w \in Threads, j \in Slots :
               VCPUBPdeviceSlotMap'[w][j] = IF w = t /\ j = n THEN fd
                                                               ELSE VCPUBPdeviceSlotMap[w][j]
        BY <1>0, <2>2
      <3>2. CASE v = t /\ i = n
        BY <1>0, <1>1, <1>2, <1>3, <2>2, <3>1, <3>2
      <3>3. CASE ~(v = t /\ i = n)
        <4>1. VCPUBPdeviceSlotMap'[v][i] = VCPUBPdeviceSlotMap[v][i]
          BY <3>1, <3>3
        <4>2. VCPUBPdeviceSlotMap[v][i] \in FDs /\ VCPUBPdeviceSlotMap[v][i] # fd
          BY <1>0, <1>3, <4>1
        <4>3. deviceVCPUMap'[VCPUBPdeviceSlotMap[v][i]] = deviceVCPUMap[VCPUBPdeviceSlotMap[v][i]]
          BY <1>0, <2>2, <4>2
        <4>4. QED  BY <3>1, <4>1, <4>2, <4>3 DEF KInv, SlotsAgree
      <3>4. QED  BY <3>2, <3>3
    <2>3. QED  BY <1>6, <2>1, <2>2
  <1>15. QED  BY <1>8, <1>9, <1>10, <1>11, <1>13, <1>14 DEF KInv

-----------------------------------------------------------------------------
(* Removing a device                                                       *)

\* A thread ends one of its devices and is going to close it.
LEMMA TakeKInv ==
    ASSUME KInv, NEW t \in Threads, NEW k \in DevicesOf(t), DisArm(t, k) \/ RemoveOfSession(t, k)
    PROVE  KInv'
  <1>0. /\ pc \in [Threads -> PCs] /\ newDev \in [Threads -> NewDevice]
        /\ DOMAIN deviceMap \subseteq Threads \X FDs
        /\ k \in DOMAIN deviceMap /\ k = <<t, k[2]>> /\ k[2] \in FDs
        /\ deviceMap[k].type \in {"PEBS", "BP"}
    BY DEF DevicesOf, KInv, TypeOK, Device
  <1>1. /\ pc[t] \in {"ending", "sweep"} /\ pc' = [pc EXCEPT ![t] = "closing"]
        /\ newDev' = [newDev EXCEPT ![t] = [fd |-> k[2], type |-> deviceMap[k].type]]
        /\ deviceSessionMultiMap' \subseteq deviceSessionMultiMap
        /\ End({k})
        /\ UNCHANGED <<session, open, hyPerfDev, deviceVCPUMap, VCPUBPdeviceSlotMap, guest, calls, fault>>
    BY DEF DisArm, RemoveOfSession, Take, Goto
  <1>2. /\ mtx' = t
        /\ mtx = None \/ mtx = t
    BY DEF DisArm, RemoveOfSession, KInv, LockHeld, Locking, Goto
  <1>3. SameDevices /\ guestBP' \in [Threads -> [Slots -> BOOLEAN]]
    BY <1>1, EndKeeps DEF KInv
  <1>4. /\ pc'[t] = "closing" /\ newDev'[t] = [fd |-> k[2], type |-> deviceMap[k].type]
        /\ \A u \in Threads \ {t} : pc'[u] = pc[u] /\ newDev'[u] = newDev[u]
        /\ newDev' \in [Threads -> NewDevice]
    BY <1>0, <1>1 DEF NewDevice
  <1>5. TypeOK'
    <2>1. pc' \in [Threads -> PCs]
      BY <1>0, <1>1 DEF PCs
    <2>2. QED  BY <1>1, <1>2, <1>3, <1>4, <2>1 DEF KInv, TypeOK, session, calls, SameDevices
  <1>6. LockHeld' /\ InSession'
    BY <1>1, <1>2, <1>4, KvmAssumption DEF KInv, LockHeld, InSession, session
  <1>7. DevicesOpen' /\ OneOwner'
    BY <1>0, <1>1, <1>3, <1>4 DEF KInv, DevicesOpen, OneOwner, SameDevices
  <1>8. Registrations'
    BY <1>1, <1>4 DEF KInv, Registrations, Registering
  <1>9. Reopened'
    BY <1>0, <1>1, <1>3, <1>4 DEF KInv, Reopened, SameDevices
  <1>10. Mapped'
    <2>1. <<t, newDev'[t].fd>> = k /\ newDev'[t].type = deviceMap[k].type
      BY <1>0, <1>4
    <2>2. k \in DOMAIN deviceMap' /\ deviceMap'[k].type = deviceMap[k].type
      BY <1>0, <1>3 DEF SameDevices
    <2>3. QED  BY <1>1, <1>3, <1>4, <2>1, <2>2 DEF KInv, Mapped, Current, Removing, SameDevices
  <1>11. SlotsAgree'
    BY <1>1, <1>3 DEF KInv, SlotsAgree, SameDevices
  <1>12. QED  BY <1>5, <1>6, <1>7, <1>8, <1>9, <1>10, <1>11 DEF KInv

\* The descriptor is closed while the maps still name it.
LEMMA CloseKInv ==
    ASSUME KInv, NEW t \in Threads, Close(t)
    PROVE  KInv'
  <1> USE DEF Close, Goto, session, maps, agent, calls
  <1>0. /\ pc \in [Threads -> PCs]
        /\ DOMAIN deviceMap \subseteq Threads \X FDs
        /\ pc'[t] = "closed" /\ \A u \in Threads \ {t} : pc'[u] = pc[u]
    BY DEF KInv, TypeOK
  <1>1. Current(t) \in DOMAIN deviceMap
    BY DEF KInv, Mapped, Removing
  <1>2. TypeOK'
    BY <1>0 DEF KInv, TypeOK, PCs
  <1>3. LockHeld' /\ InSession'
    BY <1>0 DEF KInv, LockHeld, InSession, Locking, Removing
  <1>4. DevicesOpen'
    BY <1>0, <1>1 DEF KInv, DevicesOpen, OneOwner, Current
  <1>5. Registrations'
    <2> SUFFICES ASSUME NEW u \in Threads, pc'[u] \in Registering
                 PROVE  newDev[u].fd \in open'
      BY <1>0 DEF KInv, Registrations, Registering
    <2>1. u # t /\ pc[u] \in Registering
      BY <1>0 DEF Registering
    <2>2. newDev[u].fd # newDev[t].fd
      <3>1. CASE pc[u] = "opened"
        BY <1>1, <3>1 DEF KInv, Reopened, Current
      <3>2. CASE pc[u] \in {"added", "linked"}
        BY <1>1, <2>1, <3>2 DEF KInv, Mapped, OneOwner, Current
      <3>3. QED  BY <2>1, <3>1, <3>2 DEF Registering
    <2>3. QED  BY <2>1, <2>2 DEF KInv, Registrations
  <1>6. Reopened'
    BY <1>0 DEF KInv, Reopened
  <1>7. Mapped'
    BY <1>0 DEF KInv, Mapped, Current, Removing
  <1>8. OneOwner' /\ SlotsAgree'
    BY DEF KInv, OneOwner, SlotsAgree
  <1>9. QED  BY <1>2, <1>3, <1>4, <1>5, <1>6, <1>7, <1>8 DEF KInv

\* The agent and the map forget the device: no slot names it any more.
LEMMA ForgetKInv ==
    ASSUME KInv, NEW t \in Threads, unRegisterDevice(t)
    PROVE  KInv'
  <1> DEFINE fd == newDev[t].fd
  <1>0. /\ pc \in [Threads -> PCs] /\ newDev \in [Threads -> NewDevice]
        /\ DOMAIN deviceMap \subseteq Threads \X FDs
        /\ deviceVCPUMap \in [FDs -> Threads \cup {None}]
        /\ VCPUBPdeviceSlotMap \in [Threads -> [Slots -> FDs \cup {None}]]
    BY DEF KInv, TypeOK
  <1>1. /\ pc[t] = "closed" /\ mtx = t
        /\ <<t, fd>> \in DOMAIN deviceMap /\ deviceMap[<<t, fd>>].type = newDev[t].type
        /\ fd \in FDs
    BY <1>0 DEF unRegisterDevice, KInv, LockHeld, Locking, Removing, Mapped, Current
  <1>2. /\ pc' \in [Threads -> PCs] /\ pc'[t] \in {"ending", "sweep"}
        /\ pc'[t] = "sweep" => mtx' = t
        /\ mtx' \in {t, None}
        /\ \A u \in Threads \ {t} : pc'[u] = pc[u]
    BY <1>0, <1>1 DEF unRegisterDevice, PCs
  <1>3. newDev' \in [Threads -> NewDevice] /\ \A u \in Threads \ {t} : newDev'[u] = newDev[u]
    <2>1. newDev' = [newDev EXCEPT ![t].fd = None]
      BY DEF unRegisterDevice
    <2>2. QED  BY <1>0, <2>1 DEF NewDevice
  <1>4. /\ DOMAIN deviceMap' = DOMAIN deviceMap \ {<<t, fd>>}
        /\ \A k \in DOMAIN deviceMap' : deviceMap'[k] = deviceMap[k]
    BY DEF unRegisterDevice
  <1>5. deviceVCPUMap' = [deviceVCPUMap EXCEPT ![fd] = None]
    BY DEF unRegisterDevice
  <1>6. /\ VCPUBPdeviceSlotMap' \in [Threads -> [Slots -> FDs \cup {None}]]
        /\ \A v \in Threads, i \in Slots :
               VCPUBPdeviceSlotMap'[v][i] \in {VCPUBPdeviceSlotMap[v][i], None}
    BY <1>0 DEF unRegisterDevice, SlotsFreed
  <1>7. \A v \in Threads, i \in Slots : VCPUBPdeviceSlotMap'[v][i] # fd
    <2> SUFFICES ASSUME NEW v \in Threads, NEW i \in Slots, VCPUBPdeviceSlotMap[v][i] = fd
                 PROVE  VCPUBPdeviceSlotMap'[v][i] = None
      BY <1>1, <1>6, KvmAssumption
    <2>1. /\ deviceVCPUMap[fd] = v
          /\ <<v, fd>> \in DOMAIN deviceMap /\ deviceMap[<<v, fd>>].type = "BP"
      BY <1>1, KvmAssumption DEF KInv, SlotsAgree
    <2>2. v = t
      BY <1>1, <2>1 DEF KInv, OneOwner
    <2>3. VCPUBPdeviceSlotMap' = SlotsFreed(deviceVCPUMap[fd], fd)
      BY <1>1, <2>1, <2>2 DEF unRegisterDevice
    <2>4. QED  BY <2>1, <2>3 DEF SlotsFreed
  <1>8. UNCHANGED <<session, open, deviceSessionMultiMap, hyPerfDev, guestBP, guest, calls, fault>>
    BY DEF unRegisterDevice
  <1>9. TypeOK'
    <2>1. deviceVCPUMap' \in [FDs -> Threads \cup {None}]
      BY <1>0, <1>5
    <2>2. \A k \in DOMAIN deviceMap' : deviceMap'[k] \in Device
      BY <1>4 DEF KInv, TypeOK
    <2>3. QED  BY <1>0, <1>2, <1>3, <1>4, <1>6, <1>8, <2>1, <2>2
               DEF KInv, TypeOK, session, calls
  <1>10. LockHeld' /\ InSession'
    BY <1>1, <1>2, <1>8 DEF KInv, LockHeld, InSession, Locking, Removing, session
  <1>11. DevicesOpen'
    <2> SUFFICES ASSUME NEW k \in DOMAIN deviceMap', k[2] \notin open
                 PROVE  pc'[k[1]] = "closed" /\ newDev'[k[1]].fd = k[2]
      BY <1>8 DEF DevicesOpen
    <2>1. /\ k \in DOMAIN deviceMap /\ k = <<k[1], k[2]>> /\ k[1] \in Threads /\ k # <<t, fd>>
      BY <1>0, <1>4
    <2>2. pc[k[1]] = "closed" /\ newDev[k[1]].fd = k[2]
      BY <2>1 DEF KInv, DevicesOpen
    <2>3. k[1] # t
      BY <2>1, <2>2
    <2>4. QED  BY <1>2, <1>3, <2>1, <2>2, <2>3
  <1>12. OneOwner'
    BY <1>4 DEF KInv, OneOwner
  <1>13. Registrations'
    BY <1>2, <1>3, <1>8 DEF KInv, Registrations, Registering
  <1>14. Reopened'
    <2> SUFFICES ASSUME NEW u \in Threads, pc'[u] = "opened",
                        NEW k \in DOMAIN deviceMap', k[2] = newDev'[u].fd
                 PROVE  pc'[k[1]] = "closed" /\ newDev'[k[1]].fd = k[2]
      BY DEF Reopened
    <2>1. u # t /\ pc[u] = "opened" /\ newDev'[u] = newDev[u]
      BY <1>2, <1>3
    <2>2. /\ k \in DOMAIN deviceMap /\ k = <<k[1], k[2]>> /\ k[1] \in Threads /\ k # <<t, fd>>
      BY <1>0, <1>4
    <2>3. pc[k[1]] = "closed" /\ newDev[k[1]].fd = k[2]
      BY <2>1, <2>2 DEF KInv, Reopened
    <2>4. k[1] # t
      BY <2>2, <2>3
    <2>5. QED  BY <1>2, <1>3, <2>2, <2>3, <2>4
  <1>15. Mapped'
    <2> SUFFICES ASSUME NEW u \in Threads, u # t
                 PROVE  /\ pc[u] \in {"added", "linked"} \cup Removing =>
                              Current(u) \in DOMAIN deviceMap'
                              /\ deviceMap'[Current(u)].type = newDev[u].type
                        /\ pc[u] \in {"added", "linked"} =>
                              \A i \in Slots : VCPUBPdeviceSlotMap'[u][i] # newDev[u].fd
      BY <1>2, <1>3 DEF Mapped, Current, Removing
    <2>1. Current(u) # <<t, fd>>
      BY DEF Current
    <2>2. pc[u] \in {"added", "linked"} => newDev[u].fd # None
      BY KvmAssumption DEF KInv, TypeOK, Registrations, Registering
    <2>3. QED  BY <1>4, <1>6, <2>1, <2>2 DEF KInv, Mapped
  <1>16. SlotsAgree'
    <2> SUFFICES ASSUME NEW v \in Threads, NEW i \in Slots, VCPUBPdeviceSlotMap'[v][i] # None
                 PROVE  LET f == VCPUBPdeviceSlotMap'[v][i]
                        IN  /\ deviceVCPUMap'[f] = v
                            /\ <<v, f>> \in DOMAIN deviceMap'
                            /\ deviceMap'[<<v, f>>].type = "BP"
                            /\ \A j \in Slots \ {i} : VCPUBPdeviceSlotMap'[v][j] # f
      BY DEF SlotsAgree
    <2> DEFINE f == VCPUBPdeviceSlotMap'[v][i]
    <2>1. f = VCPUBPdeviceSlotMap[v][i] /\ f \in FDs /\ f # fd
      BY <1>0, <1>6, <1>7
    <2>2. /\ deviceVCPUMap[f] = v
          /\ <<v, f>> \in DOMAIN deviceMap /\ deviceMap[<<v, f>>].type = "BP"
          /\ \A j \in Slots \ {i} : VCPUBPdeviceSlotMap[v][j] # f
      BY <2>1 DEF KInv, SlotsAgree
    <2>3. deviceVCPUMap'[f] = v
      BY <1>0, <1>5, <2>1, <2>2
    <2>4. <<v, f>> \in DOMAIN deviceMap' /\ deviceMap'[<<v, f>>].type = "BP"
      BY <1>4, <2>1, <2>2
    <2>5. \A j \in Slots \ {i} : VCPUBPdeviceSlotMap'[v][j] # f
      BY <1>6, <2>2
    <2>6. QED  BY <2>3, <2>4, <2>5
  <1>17. QED  BY <1>9, <1>10, <1>11, <1>12, <1>13, <1>14, <1>15, <1>16 DEF KInv

-----------------------------------------------------------------------------
(* The theorems                                                            *)

\* Nothing is open, mapped or held at the start.
LEMMA InitKInv == Init => KInv
  <1> SUFFICES ASSUME Init PROVE KInv
    OBVIOUS
  <1>1. TypeOK
    BY KvmAssumption DEF Init, TypeOK, PCs, NewDevice
  <1>2. LockHeld /\ InSession /\ DevicesOpen /\ OneOwner
    BY DEF Init, LockHeld, InSession, DevicesOpen, OneOwner, Locking, Removing
  <1>3. Registrations /\ Reopened /\ Mapped /\ SlotsAgree
    BY DEF Init, Registrations, Reopened, Mapped, SlotsAgree, Registering, Removing
  <1>4. QED  BY <1>1, <1>2, <1>3 DEF KInv

\* Every step preserves the invariant.
LEMMA NextKInv == KInv /\ [Next]_vars => KInv'
  <1> SUFFICES ASSUME KInv, [Next]_vars PROVE KInv'
    OBVIOUS
  <1>1. CASE UNCHANGED vars
    <2>1. SameDevices
      BY <1>1 DEF vars, maps, KInv, TypeOK, SameDevices
    <2>2. TypeOK' /\ LockHeld' /\ InSession'
      BY <1>1 DEF vars, session, maps, agent, calls, KInv, TypeOK, LockHeld, InSession
    <2>3. QED  BY <1>1, <2>1, <2>2, CalmStep DEF vars, agent, KInv, Owners
  <1>2. CASE set_hyPerfDev
    BY <1>2, HypervisorKInv
  <1>3. ASSUME NEW t \in Threads, VCPU(t) PROVE KInv'
    <2>1. \A e \in guest[t] : kvm__doneEventProcessing_HyPerf(t, e) => KInv'
      BY PlainKInv, ToolKInv, OpenKInv, Zenon DEF kvm__doneEventProcessing_HyPerf
    <2>2. QED  BY <1>3, <2>1, PlainKInv, SwitchingKInv, OpenKInv, AddKInv, LinkKInv, SlotKInv,
                  TakeKInv, CloseKInv, ForgetKInv, Zenon DEF VCPU
  <1>4. QED  BY <1>1, <1>2, <1>3 DEF Next

\* The invariant of the slots holds for every number of VCPUs, descriptors, slots, sessions
\* and events: the agent's handlers, which take no lock, keep the ownership of slots.
THEOREM KvmInductive == Spec => []KInv
  BY InitKInv, NextKInv, PTL DEF Spec

\* Every variable of the agent keeps its type.
THEOREM KvmTypeCorrect == Spec => []TypeOK
  <1>1. KInv => TypeOK
    BY DEF KInv
  <1>2. QED  BY <1>1, KvmInductive, PTL

\* A slot of a VCPU belongs to one breakpoint device of that VCPU, although descriptors are
\* closed, and handed out again, before the agent forgets their devices.
THEOREM SlotsOwned == Spec => []SlotsAgree
  <1>1. KInv => SlotsAgree
    BY DEF KInv
  <1>2. QED  BY <1>1, KvmInductive, PTL

-----------------------------------------------------------------------------
(* Events                                                                  *)

Running == Registering \cup {"guest", "resume", "resumeAll"}

\* Events come from sessions that were opened. While a session runs, the devices of its
\* events stay in the map.
EventInv ==
    /\ \A t \in Threads : sessionKey[t] < sKey /\ \A e \in guest[t] : e.session < sKey
    /\ \A t \in Threads : pc[t] \in Running =>
          \A e \in guest[t] : e.session = sessionKey[t] => <<t, e.fd>> \in DOMAIN deviceMap

\* A step that raises no event and starts no session, and removes devices of threads only
\* that are not running.
LEMMA EventFrame ==
    ASSUME KInv, EventInv, UNCHANGED <<sessionKey, sKey>>,
           \A u \in Threads : guest'[u] \subseteq guest[u],
           \A u \in Threads : pc'[u] \in Running => pc[u] \in Running,
           \A u \in Threads, fd \in FDs :
               pc'[u] \in Running /\ <<u, fd>> \in DOMAIN deviceMap => <<u, fd>> \in DOMAIN deviceMap'
    PROVE  EventInv'
  <1>1. \A u \in Threads : \A e \in guest[u] : e.fd \in FDs
    BY DEF KInv, TypeOK, GuestEvent
  <1>2. QED  BY <1>1 DEF EventInv

\* A step of a VCPU keeps its events tied to their devices.
LEMMA VCPUEvents ==
    ASSUME KInv, EventInv, NEW t \in Threads, VCPU(t)
    PROVE  EventInv'
  <1> USE DEF Goto, session, maps, agent, calls
  <1>0. /\ pc \in [Threads -> PCs] /\ guest \in [Threads -> SUBSET GuestEvent]
        /\ sessionKey \in [Threads -> Nat \cup {-1}] /\ sKey \in Nat
        /\ \A e \in guest[t] : e.session \in Nat
    BY DEF KInv, TypeOK, GuestEvent
  <1>1. CASE kvm__VCPU_start(t)
    <2>1. /\ sessionKey' = [sessionKey EXCEPT ![t] = sKey] /\ sKey' = sKey + 1
          /\ UNCHANGED <<guest, deviceMap>>
          /\ \A u \in Threads \ {t} : pc'[u] = pc[u]
      BY <1>0, <1>1 DEF kvm__VCPU_start, Register, Key
    <2>2. \A u \in Threads : \A e \in guest[u] : e.session \in Nat
      BY DEF KInv, TypeOK, GuestEvent
    <2>3. \A u \in Threads \ {t} : sessionKey'[u] = sessionKey[u]
      BY <1>0, <2>1
    <2>4. sessionKey'[t] = sKey
      BY <1>0, <2>1
    <2>5. \A u \in Threads : sessionKey'[u] < sKey' /\ \A e \in guest'[u] : e.session < sKey'
      <3>1. \A u \in Threads : sessionKey[u] < sKey /\ \A e \in guest[u] : e.session < sKey
        BY DEF EventInv
      <3>2. \A u \in Threads : sessionKey'[u] < sKey + 1
        BY <1>0, <2>3, <2>4, <3>1
      <3>3. \A u \in Threads : \A e \in guest[u] : e.session < sKey + 1
        BY <1>0, <2>2, <3>1
      <3>4. QED  BY <2>1, <3>2, <3>3
    <2>6. \A e \in guest[t] : e.session # sessionKey'[t]
      BY <1>0, <2>2, <2>4 DEF EventInv
    <2>7. QED  BY <2>1, <2>3, <2>5, <2>6 DEF EventInv
  <1>2. ASSUME NEW k \in DevicesOf(t), Fire(t, k) PROVE EventInv'
    <2> DEFINE new == [fd |-> k[2], session |-> sessionKey[t]]
    <2>0. DOMAIN deviceMap' = DOMAIN deviceMap
      BY <1>2, FireKeeps DEF SameDevices
    <2>1. guest' = [guest EXCEPT ![t] = @ \cup {new}] /\ UNCHANGED <<pc, sessionKey, sKey>>
      BY <1>2 DEF Fire
    <2>2. k = <<t, k[2]>> /\ k \in DOMAIN deviceMap
      BY DEF DevicesOf, KInv, TypeOK
    <2>3. new.fd = k[2] /\ new.session = sessionKey[t]
      OBVIOUS
    <2> HIDE DEF new
    <2>4. guest'[t] = guest[t] \cup {new} /\ \A u \in Threads \ {t} : guest'[u] = guest[u]
      BY <1>0, <2>1
    <2>5. QED  BY <2>0, <2>1, <2>2, <2>3, <2>4 DEF EventInv
  <1>3. CASE add_new_device(t) \/ add_new_device_to_session(t) \/ registerDevice(t)
    <2>1. DOMAIN deviceMap \subseteq DOMAIN deviceMap'
      BY <1>3 DEF add_new_device, add_new_device_to_session, registerDevice
    <2>2. \A u \in Threads : pc'[u] \in Running => pc[u] \in Running
      BY <1>0, <1>3 DEF add_new_device, add_new_device_to_session, registerDevice, Running, Registering
    <2>3. UNCHANGED <<sessionKey, sKey, guest>>
      BY <1>3 DEF add_new_device, add_new_device_to_session, registerDevice
    <2>4. QED  BY <2>1, <2>2, <2>3, EventFrame
  <1>4. CASE \/ kvm__disableEBSDevicesThisSession(t) \/ kvm__disableAllEBSDevice(t)
             \/ ResumeAll(t) \/ resume_devices_by_session(t)
             \/ kvm__enableEBSDevicesThisSession(t)
    <2> USE DEF kvm__disableEBSDevicesThisSession, kvm__disableAllEBSDevice, ResumeAll,
                resume_devices_by_session, kvm__enableEBSDevicesThisSession
    <2>1. DOMAIN deviceMap' = DOMAIN deviceMap
      BY <1>4, SwitchingKeeps, Zenon DEF SameDevices
    <2>2. /\ UNCHANGED <<sessionKey, sKey, guest>>
          /\ \A u \in Threads : pc'[u] \in Running => pc[u] \in Running
      BY <1>0, <1>4 DEF Running
    <2>3. QED  BY <2>1, <2>2, EventFrame
  <1>5. CASE TestAll(t) \/ kvm__VCPU_end(t) \/ LockSession(t) \/ UnlockSession(t) \/ Close(t)
    <2>1. /\ UNCHANGED <<sessionKey, sKey, guest, deviceMap>>
          /\ \A u \in Threads : pc'[u] \in Running => pc[u] \in Running
      BY <1>0, <1>5 DEF TestAll, kvm__VCPU_end, LockSession, UnlockSession, Close, Running, Registering
    <2>2. QED  BY <2>1, EventFrame
  <1>6. ASSUME NEW e \in guest[t], kvm__doneEventProcessing_HyPerf(t, e) PROVE EventInv'
    <2>1. UNCHANGED <<sessionKey, sKey>> /\ guest' = [guest EXCEPT ![t] = @ \ {e}]
      BY <1>6 DEF kvm__doneEventProcessing_HyPerf, Skip, NoDevice, OnSample, OnSampleFresh,
                  OnSampleModify, OnTrigger, Returned
    <2>2. DOMAIN deviceMap' = DOMAIN deviceMap
      <3>1. CASE Skip(t, e) \/ NoDevice(t, e) \/ OnSample(t, e) \/ OnSampleFresh(t, e)
        BY <3>1 DEF Skip, NoDevice, OnSample, OnSampleFresh
      <3>2. CASE \/ \E k \in DOMAIN deviceMap : OnSampleModify(t, e, k)
                 \/ \E K \in SUBSET Breakpoints(t) : OnTrigger(t, e, K)
        BY <3>2, ToolKeeps, Zenon DEF SameDevices
      <3>3. QED  BY <1>6, <3>1, <3>2 DEF kvm__doneEventProcessing_HyPerf
    <2>3. \A u \in Threads : pc'[u] \in Running => pc[u] \in Running
      BY <1>0, <1>6 DEF kvm__doneEventProcessing_HyPerf, Skip, NoDevice, OnSample, OnSampleFresh,
                  OnSampleModify, OnTrigger, Register, Running
    <2>4. \A u \in Threads : guest'[u] \subseteq guest[u]
      BY <1>0, <2>1
    <2>5. QED  BY <2>1, <2>2, <2>3, <2>4, EventFrame
  <1>7. ASSUME NEW k \in DevicesOf(t), DisArm(t, k) \/ RemoveOfSession(t, k) PROVE EventInv'
    <2>1. DOMAIN deviceMap' = DOMAIN deviceMap
      <3>1. End({k})
        BY <1>7 DEF DisArm, RemoveOfSession, Take
      <3>2. QED  BY <3>1, EndKeeps DEF KInv, SameDevices
    <2>2. /\ UNCHANGED <<sessionKey, sKey, guest>>
          /\ \A u \in Threads : pc'[u] \in Running => pc[u] \in Running
      BY <1>0, <1>7 DEF DisArm, RemoveOfSession, Take, Running, Registering
    <2>3. QED  BY <2>1, <2>2, EventFrame
  <1>8. CASE unRegisterDevice(t)
    <2>1. /\ UNCHANGED <<sessionKey, sKey, guest>>
          /\ pc'[t] \in {"ending", "sweep"} /\ \A u \in Threads \ {t} : pc'[u] = pc[u]
      BY <1>0, <1>8 DEF unRegisterDevice
    <2>2. DOMAIN deviceMap' = DOMAIN deviceMap \ {<<t, newDev[t].fd>>}
      BY <1>8 DEF unRegisterDevice
    <2>3. QED  BY <2>1, <2>2, EventFrame DEF Running, Registering
  <1>9. QED  BY <1>1, <1>2, <1>3, <1>4, <1>5, <1>6, <1>7, <1>8, Zenon DEF VCPU

\* An event that comes back to the session it was taken in finds its device, so that
\* done_processEvent uses no null pointer for it.
THEOREM EventsFindDevices == Spec => []EventsResolve
  <1>1. Init => EventInv
    BY DEF Init, EventInv, Running, Registering
  <1>2. KInv /\ EventInv /\ [Next]_vars => EventInv'
    <2> SUFFICES ASSUME KInv, EventInv, [Next]_vars PROVE EventInv'
      OBVIOUS
    <2>1. CASE set_hyPerfDev \/ UNCHANGED vars
      <3>1. UNCHANGED <<pc, guest, sessionKey, sKey, deviceMap>>
        BY <2>1 DEF set_hyPerfDev, vars, session, maps
      <3>2. QED  BY <3>1 DEF EventInv
    <2>2. CASE \E t \in Threads : VCPU(t)
      BY <2>2, VCPUEvents
    <2>3. QED  BY <2>1, <2>2 DEF Next
  <1>3. EventInv => EventsResolve
    BY DEF EventInv, EventsResolve, Running
  <1>4. QED  BY <1>1, <1>2, <1>3, KvmInductive, PTL DEF Spec

-----------------------------------------------------------------------------
(* The end of a session                                                    *)

\* Threads have different sessions, and every entry of deviceSessionMultiMap one of those
\* that were opened.
SessionKeys ==
    /\ \A t \in Threads : sessionKey[t] < sKey
    /\ \A t, u \in Threads : t # u /\ sessionKey[t] # -1 => sessionKey[t] # sessionKey[u]
    /\ \A l \in deviceSessionMultiMap : l[1] < sKey

\* A device belongs to the running session of its thread, which finds it in the session's
\* list unless it is only just being filed or already being removed.
Listed ==
    \A k \in DOMAIN deviceMap :
        /\ pc[k[1]] # "out"
        /\ deviceMap[k].session = sessionKey[k[1]]
        /\ \/ <<sessionKey[k[1]], k[2]>> \in deviceSessionMultiMap
           \/ pc[k[1]] \in {"added"} \cup Removing /\ newDev[k[1]].fd = k[2]

\* A session that ended has no list.
Unlisted ==
    \A t \in Threads : pc[t] = "out" => \A l \in deviceSessionMultiMap : l[1] # sessionKey[t]

SessionInv == SessionKeys /\ Listed /\ Unlisted

\* A step that neither files nor removes a device.
LEMMA SessionFrame ==
    ASSUME KInv, SessionInv, SameDevices,
           UNCHANGED <<sessionKey, sKey, deviceSessionMultiMap, newDev>>,
           \A u \in Threads : pc'[u] = pc[u] \/ (pc[u] \notin {"added"} \cup Removing /\ pc[u] # "out" /\ pc'[u] # "out")
    PROVE  SessionInv'
  <1>1. DOMAIN deviceMap \subseteq Threads \X FDs
    BY DEF KInv, TypeOK
  <1>2. SessionKeys' /\ Unlisted'
    BY DEF SessionInv, SessionKeys, Unlisted
  <1>3. Listed'
    BY <1>1 DEF SessionInv, Listed, SameDevices
  <1>4. QED  BY <1>2, <1>3 DEF SessionInv

\* Opening a descriptor files nothing yet.
LEMMA RegisterFrame ==
    ASSUME KInv, NEW t \in Threads, NEW type, NEW orElse \in {"guest", "resume"},
           Register(t, type, orElse), pc[t] \in {"out", "guest"}
    PROVE  /\ pc'[t] \in {"opened", orElse}
           /\ \A u \in Threads \ {t} : pc'[u] = pc[u] /\ newDev'[u] = newDev[u]
  BY DEF Register, KInv, TypeOK

\* Starting, filing and removing: what a VCPU does to the lists.
LEMMA FilingSession ==
    ASSUME KInv, SessionInv, NEW t \in Threads,
           \/ kvm__VCPU_start(t)
           \/ \E e \in guest[t] : OnSampleFresh(t, e)
           \/ add_new_device(t) \/ add_new_device_to_session(t) \/ registerDevice(t)
    PROVE  SessionInv'
  <1> USE DEF Goto, session, maps, agent, calls
  <1>0. /\ pc \in [Threads -> PCs] /\ sKey \in Nat
        /\ sessionKey \in [Threads -> Nat \cup {-1}]
        /\ newDev \in [Threads -> NewDevice]
        /\ DOMAIN deviceMap \subseteq Threads \X FDs
        /\ deviceSessionMultiMap \subseteq Nat \X FDs
    BY DEF KInv, TypeOK
  <1>1. CASE kvm__VCPU_start(t)
    <2>1. /\ sessionKey' = [sessionKey EXCEPT ![t] = sKey] /\ sKey' = sKey + 1
          /\ pc[t] = "out" /\ UNCHANGED <<deviceMap, deviceSessionMultiMap>>
          /\ pc'[t] # "out" /\ \A u \in Threads \ {t} : pc'[u] = pc[u] /\ newDev'[u] = newDev[u]
      BY <1>1, RegisterFrame DEF kvm__VCPU_start, Key
    <2>2. sessionKey'[t] = sKey /\ \A u \in Threads \ {t} : sessionKey'[u] = sessionKey[u]
      BY <1>0, <2>1
    <2>3. SessionKeys'
      <3>1. \A u \in Threads : sessionKey'[u] < sKey'
        BY <1>0, <2>1, <2>2 DEF SessionInv, SessionKeys
      <3>2. \A u \in Threads \ {t} : sessionKey'[u] # sKey
        BY <1>0, <2>2 DEF SessionInv, SessionKeys
      <3>3. \A u, v \in Threads : u # v /\ sessionKey'[u] # -1 => sessionKey'[u] # sessionKey'[v]
        BY <2>2, <3>2 DEF SessionInv, SessionKeys
      <3>4. \A l \in deviceSessionMultiMap : l[1] < sKey + 1
        <4>1. \A l \in deviceSessionMultiMap : l[1] \in Nat /\ l[1] < sKey
          BY <1>0 DEF SessionInv, SessionKeys
        <4>2. QED  BY <1>0, <4>1
      <3>5. QED  BY <2>1, <3>1, <3>3, <3>4 DEF SessionKeys
    <2>4. \A k \in DOMAIN deviceMap : k[1] \in Threads \ {t}
      BY <1>0, <2>1 DEF SessionInv, Listed
    <2>5. Listed'
      BY <2>1, <2>2, <2>4 DEF SessionInv, Listed
    <2>6. Unlisted'
      BY <2>1, <2>2 DEF SessionInv, Unlisted
    <2>7. QED  BY <2>3, <2>5, <2>6 DEF SessionInv
  <1>2. ASSUME NEW e \in guest[t], OnSampleFresh(t, e) PROVE SessionInv'
    <2>1. /\ pc[t] = "guest" /\ UNCHANGED <<sessionKey, sKey, deviceMap, deviceSessionMultiMap>>
          /\ pc'[t] # "out" /\ \A u \in Threads \ {t} : pc'[u] = pc[u] /\ newDev'[u] = newDev[u]
      BY <1>2, RegisterFrame DEF OnSampleFresh
    <2>2. Listed'
      BY <1>0, <2>1 DEF SessionInv, Listed, Removing
    <2>3. QED  BY <2>1, <2>2 DEF SessionInv, SessionKeys, Unlisted
  <1>3. CASE add_new_device(t)
    <2> DEFINE new == <<t, newDev[t].fd>>
    <2>1. /\ pc[t] = "opened" /\ pc'[t] = "added" /\ \A u \in Threads \ {t} : pc'[u] = pc[u]
          /\ DOMAIN deviceMap' = DOMAIN deviceMap \cup {new}
          /\ \A k \in DOMAIN deviceMap \ {new} : deviceMap'[k] = deviceMap[k]
          /\ deviceMap'[new].session = sessionKey[t]
          /\ UNCHANGED <<sessionKey, sKey, deviceSessionMultiMap, newDev>>
      BY <1>0, <1>3 DEF add_new_device
    <2>2. \A k \in DOMAIN deviceMap \ {new} :
             /\ k[1] \in Threads /\ pc'[k[1]] # "out"
             /\ deviceMap[k].session = sessionKey[k[1]]
             /\ \/ <<sessionKey[k[1]], k[2]>> \in deviceSessionMultiMap
                \/ pc'[k[1]] \in {"added"} \cup Removing /\ newDev[k[1]].fd = k[2]
      BY <1>0, <2>1 DEF SessionInv, Listed, Removing
    <2>3. new[1] = t /\ new[2] = newDev[t].fd
      OBVIOUS
    <2> HIDE DEF new
    <2>4. Listed'
      BY <2>1, <2>2, <2>3 DEF Listed
    <2>5. QED  BY <2>1, <2>4 DEF SessionInv, SessionKeys, Unlisted
  <1>4. CASE add_new_device_to_session(t)
    <2>1. /\ pc[t] = "added" /\ pc'[t] = "linked" /\ \A u \in Threads \ {t} : pc'[u] = pc[u]
          /\ deviceSessionMultiMap' = deviceSessionMultiMap \cup {<<sessionKey[t], newDev[t].fd>>}
          /\ UNCHANGED <<sessionKey, sKey, deviceMap, newDev>>
      BY <1>0, <1>4 DEF add_new_device_to_session
    <2>2. SessionKeys'
      BY <2>1 DEF SessionInv, SessionKeys
    <2>3. Listed'
      BY <1>0, <2>1 DEF SessionInv, Listed, Removing
    <2>4. sessionKey[t] # -1
      BY <1>0, <2>1 DEF KInv, InSession
    <2>5. Unlisted'
      BY <2>1, <2>4 DEF SessionInv, SessionKeys, Unlisted
    <2>6. QED  BY <2>2, <2>3, <2>5 DEF SessionInv
  <1>5. CASE registerDevice(t)
    <2>1. /\ pc[t] = "linked" /\ pc'[t] \in {"guest", "resume"}
          /\ \A u \in Threads \ {t} : pc'[u] = pc[u] /\ newDev'[u] = newDev[u]
          /\ UNCHANGED <<sessionKey, sKey, deviceMap, deviceSessionMultiMap>>
      BY <1>0, <1>5 DEF registerDevice
    <2>2. Listed'
      BY <1>0, <2>1 DEF SessionInv, Listed, Removing
    <2>3. QED  BY <2>1, <2>2 DEF SessionInv, SessionKeys, Unlisted
  <1>6. QED  BY <1>1, <1>2, <1>3, <1>4, <1>5

LEMMA RemovingSession ==
    ASSUME KInv, SessionInv, NEW t \in Threads,
           \/ \E k \in DevicesOf(t) : DisArm(t, k) \/ RemoveOfSession(t, k)
           \/ Close(t) \/ unRegisterDevice(t) \/ UnlockSession(t)
    PROVE  SessionInv'
  <1> USE DEF Goto, session, maps, agent, calls
  <1>0. /\ pc \in [Threads -> PCs] /\ newDev \in [Threads -> NewDevice]
        /\ DOMAIN deviceMap \subseteq Threads \X FDs
    BY DEF KInv, TypeOK
  <1>1. ASSUME NEW k \in DevicesOf(t), DisArm(t, k) \/ RemoveOfSession(t, k) PROVE SessionInv'
    <2>1. SameDevices
      <3>1. End({k})
        BY <1>1 DEF DisArm, RemoveOfSession, Take
      <3>2. QED  BY <3>1, EndKeeps DEF KInv
    <2>2. k \in DOMAIN deviceMap /\ k = <<t, k[2]>>
      BY <1>0 DEF DevicesOf
    <2>3. /\ pc[t] \in {"ending", "sweep"} /\ pc'[t] = "closing"
          /\ \A u \in Threads \ {t} : pc'[u] = pc[u] /\ newDev'[u] = newDev[u]
          /\ newDev'[t].fd = k[2]
          /\ UNCHANGED <<sessionKey, sKey>>
      BY <1>0, <1>1 DEF DisArm, RemoveOfSession, Take
    <2>4. /\ deviceSessionMultiMap' \subseteq deviceSessionMultiMap
          /\ \A l \in deviceSessionMultiMap : l # <<sessionKey[t], k[2]>> => l \in deviceSessionMultiMap'
      <3>1. \E links : /\ deviceSessionMultiMap' = deviceSessionMultiMap \ links
                        /\ links \in {{}, {<<deviceMap[k].session, k[2]>>}}
        BY <1>1 DEF DisArm, RemoveOfSession, Take
      <3>2. deviceMap[k].session = sessionKey[t]
        BY <2>2 DEF SessionInv, Listed
      <3>3. QED  BY <3>1, <3>2
    <2>5. sessionKey[t] # -1
      BY <1>0, <2>3 DEF KInv, InSession
    <2>6. \A u \in Threads \ {t} : sessionKey[u] # sessionKey[t]
      BY <2>5 DEF SessionInv, SessionKeys
    <2>7. \A l \in DOMAIN deviceMap :
             /\ l[1] \in Threads /\ pc[l[1]] # "out" /\ deviceMap[l].session = sessionKey[l[1]]
             /\ \/ <<sessionKey[l[1]], l[2]>> \in deviceSessionMultiMap
                \/ pc[l[1]] \in {"added"} \cup Removing /\ newDev[l[1]].fd = l[2]
      BY <1>0 DEF SessionInv, Listed
    <2>8. Listed'
      <3> SUFFICES ASSUME NEW l \in DOMAIN deviceMap
                   PROVE  /\ pc'[l[1]] # "out"
                          /\ deviceMap'[l].session = sessionKey[l[1]]
                          /\ \/ <<sessionKey[l[1]], l[2]>> \in deviceSessionMultiMap'
                             \/ pc'[l[1]] \in {"added"} \cup Removing /\ newDev'[l[1]].fd = l[2]
        BY <2>1, <2>3 DEF Listed, SameDevices
      <3>1. CASE l[1] = t /\ l[2] = k[2]
        BY <2>1, <2>3, <2>7, <3>1 DEF SameDevices, Removing
      <3>2. CASE l[1] = t /\ l[2] # k[2]
        BY <2>1, <2>3, <2>4, <2>7, <3>2 DEF SameDevices, Removing
      <3>3. CASE l[1] # t
        BY <2>1, <2>3, <2>4, <2>6, <2>7, <3>3 DEF SameDevices
      <3>4. QED  BY <3>1, <3>2, <3>3
    <2>9. SessionKeys' /\ Unlisted'
      BY <2>3, <2>4 DEF SessionInv, SessionKeys, Unlisted
    <2>10. QED  BY <2>8, <2>9 DEF SessionInv
  <1>2. CASE Close(t)
    <2>1. /\ pc[t] = "closing" /\ pc'[t] = "closed" /\ \A u \in Threads \ {t} : pc'[u] = pc[u]
          /\ UNCHANGED <<sessionKey, sKey, deviceMap, deviceSessionMultiMap, newDev>>
      BY <1>0, <1>2 DEF Close
    <2>2. Listed'
      BY <1>0, <2>1 DEF SessionInv, Listed, Removing
    <2>3. QED  BY <2>1, <2>2 DEF SessionInv, SessionKeys, Unlisted
  <1>3. CASE unRegisterDevice(t)
    <2>1. /\ pc[t] = "closed" /\ pc'[t] \in {"ending", "sweep"}
          /\ \A u \in Threads \ {t} : pc'[u] = pc[u] /\ newDev'[u] = newDev[u]
          /\ DOMAIN deviceMap' = DOMAIN deviceMap \ {<<t, newDev[t].fd>>}
          /\ \A k \in DOMAIN deviceMap' : deviceMap'[k] = deviceMap[k]
          /\ UNCHANGED <<sessionKey, sKey, deviceSessionMultiMap>>
      BY <1>0, <1>3 DEF unRegisterDevice
    <2>2. Listed'
      <3> SUFFICES ASSUME NEW k \in DOMAIN deviceMap'
                   PROVE  /\ pc'[k[1]] # "out"
                          /\ deviceMap[k].session = sessionKey[k[1]]
                          /\ \/ <<sessionKey[k[1]], k[2]>> \in deviceSessionMultiMap
                             \/ pc'[k[1]] \in {"added"} \cup Removing /\ newDev'[k[1]].fd = k[2]
        BY <2>1 DEF Listed
      <3>1. k \in DOMAIN deviceMap /\ k = <<k[1], k[2]>> /\ k[1] \in Threads
        BY <1>0, <2>1
      <3>2. k[1] = t => k[2] # newDev[t].fd
        BY <2>1, <3>1
      <3>3. QED  BY <2>1, <3>1, <3>2 DEF SessionInv, Listed
    <2>3. QED  BY <2>1, <2>2 DEF SessionInv, SessionKeys, Unlisted
  <1>4. CASE UnlockSession(t)
    <2>1. /\ pc[t] = "sweep" /\ pc'[t] = "out" /\ \A u \in Threads \ {t} : pc'[u] = pc[u]
          /\ SessionDevices(t, sessionKey[t]) = {}
          /\ deviceSessionMultiMap' = {l \in deviceSessionMultiMap : l[1] # sessionKey[t]}
          /\ UNCHANGED <<sessionKey, sKey, deviceMap, newDev>>
      BY <1>0, <1>4 DEF UnlockSession
    <2>2. \A k \in DOMAIN deviceMap : k[1] \in Threads \ {t}
      BY <1>0, <2>1 DEF SessionInv, Listed, SessionDevices, DevicesOf, Removing
    <2>3. sessionKey[t] # -1
      BY <1>0, <2>1 DEF KInv, InSession
    <2>4. Listed'
      BY <2>1, <2>2, <2>3 DEF SessionInv, SessionKeys, Listed
    <2>5. SessionKeys' /\ Unlisted'
      BY <2>1 DEF SessionInv, SessionKeys, Unlisted
    <2>6. QED  BY <2>4, <2>5 DEF SessionInv
  <1>5. QED  BY <1>1, <1>2, <1>3, <1>4

\* Everything else leaves the lists alone.
LEMMA OtherSession ==
    ASSUME KInv, SessionInv, NEW t \in Threads,
           \/ \E k \in DevicesOf(t) : Fire(t, k)
           \/ kvm__disableEBSDevicesThisSession(t) \/ kvm__disableAllEBSDevice(t)
           \/ TestAll(t) \/ ResumeAll(t)
           \/ \E e \in guest[t] : /\ kvm__doneEventProcessing_HyPerf(t, e)
                                  /\ ~OnSampleFresh(t, e)
           \/ resume_devices_by_session(t) \/ kvm__enableEBSDevicesThisSession(t)
           \/ kvm__VCPU_end(t) \/ LockSession(t)
    PROVE  SessionInv'
  <1> USE DEF Goto, session, maps, agent, calls
  <1>0. pc \in [Threads -> PCs] /\ \A k \in DOMAIN deviceMap : deviceMap[k] \in Device
    BY DEF KInv, TypeOK
  <1>1. ASSUME UNCHANGED deviceMap PROVE SameDevices
    BY <1>0, <1>1 DEF SameDevices
  <1>2. CASE \/ \E k \in DevicesOf(t) : Fire(t, k)
             \/ TestAll(t) \/ kvm__VCPU_end(t) \/ LockSession(t)
    <2>1. /\ UNCHANGED <<sessionKey, sKey, deviceSessionMultiMap, newDev>>
          /\ \A u \in Threads : \/ pc'[u] = pc[u]
                                \/ pc[u] \notin {"added"} \cup Removing /\ pc[u] # "out" /\ pc'[u] # "out"
      BY <1>0, <1>2 DEF Fire, TestAll, kvm__VCPU_end, LockSession, Removing
    <2>2. SameDevices
      <3>1. CASE \E k \in DevicesOf(t) : Fire(t, k)
        BY <3>1, FireKeeps
      <3>2. CASE TestAll(t) \/ kvm__VCPU_end(t) \/ LockSession(t)
        BY <1>1, <3>2 DEF TestAll, kvm__VCPU_end, LockSession
      <3>3. QED  BY <1>2, <3>1, <3>2
    <2>3. QED  BY <2>1, <2>2, SessionFrame
  <1>3. CASE \/ kvm__disableEBSDevicesThisSession(t) \/ kvm__disableAllEBSDevice(t) \/ ResumeAll(t)
             \/ resume_devices_by_session(t) \/ kvm__enableEBSDevicesThisSession(t)
    <2>1. SameDevices
      BY <1>3, SwitchingKeeps, Zenon
    <2>2. /\ UNCHANGED <<sessionKey, sKey, deviceSessionMultiMap, newDev>>
          /\ \A u \in Threads : \/ pc'[u] = pc[u]
                                \/ pc[u] \notin {"added"} \cup Removing /\ pc[u] # "out" /\ pc'[u] # "out"
      BY <1>0, <1>3 DEF kvm__disableEBSDevicesThisSession, kvm__disableAllEBSDevice, ResumeAll,
                        resume_devices_by_session, kvm__enableEBSDevicesThisSession, Removing
    <2>3. QED  BY <2>1, <2>2, SessionFrame
  <1>4. ASSUME NEW e \in guest[t], kvm__doneEventProcessing_HyPerf(t, e), ~OnSampleFresh(t, e)
        PROVE  SessionInv'
    <2>1. SameDevices
      <3>1. CASE Skip(t, e) \/ NoDevice(t, e) \/ OnSample(t, e)
        BY <1>1, <3>1 DEF Skip, NoDevice, OnSample
      <3>2. CASE \/ \E k \in DOMAIN deviceMap : OnSampleModify(t, e, k)
                 \/ \E K \in SUBSET Breakpoints(t) : OnTrigger(t, e, K)
        BY <3>2, ToolKeeps, Zenon
      <3>3. QED  BY <1>4, <3>1, <3>2 DEF kvm__doneEventProcessing_HyPerf
    <2>2. /\ UNCHANGED <<sessionKey, sKey, deviceSessionMultiMap, newDev>>
          /\ \A u \in Threads : \/ pc'[u] = pc[u]
                                \/ pc[u] \notin {"added"} \cup Removing /\ pc[u] # "out" /\ pc'[u] # "out"
      BY <1>0, <1>4 DEF kvm__doneEventProcessing_HyPerf, Skip, NoDevice, OnSample, OnSampleModify,
                        OnTrigger, Removing
    <2>3. QED  BY <2>1, <2>2, SessionFrame
  <1>5. QED  BY <1>2, <1>3, <1>4

\* The lists of the sessions always agree with the devices.
LEMMA SessionInductive == Spec => []SessionInv
  <1>1. Init => SessionInv
    BY DEF Init, SessionInv, SessionKeys, Listed, Unlisted
  <1>2. KInv /\ SessionInv /\ [Next]_vars => SessionInv'
    <2> SUFFICES ASSUME KInv, SessionInv, [Next]_vars PROVE SessionInv'
      OBVIOUS
    <2>1. CASE set_hyPerfDev \/ UNCHANGED vars
      <3>1. UNCHANGED <<pc, sessionKey, sKey, deviceMap, deviceSessionMultiMap, newDev>>
        BY <2>1 DEF set_hyPerfDev, vars, session, maps
      <3>2. QED  BY <3>1 DEF SessionInv, SessionKeys, Listed, Unlisted
    <2>2. ASSUME NEW t \in Threads, VCPU(t) PROVE SessionInv'
      BY <2>2, FilingSession, RemovingSession, OtherSession, Zenon
         DEF VCPU, kvm__doneEventProcessing_HyPerf
    <2>3. QED  BY <2>1, <2>2 DEF Next
  <1>3. QED  BY <1>1, <1>2, KvmInductive, PTL DEF Spec

\* A VCPU that ended leaves no device, no list entry and no slot, so that sessions may come
\* and go for ever without using descriptors or slots up.
THEOREM SessionsCleanUp == Spec => []NothingLeftOfVCPU
  <1>1. KInv /\ SessionInv => NothingLeftOfVCPU
    <2> SUFFICES ASSUME KInv, SessionInv, NEW t \in Threads, pc[t] = "out"
                 PROVE  /\ DevicesOf(t) = {}
                        /\ \A l \in deviceSessionMultiMap : l[1] # sessionKey[t]
                        /\ \A i \in Slots : VCPUBPdeviceSlotMap[t][i] = None
      BY DEF NothingLeftOfVCPU
    <2>1. DevicesOf(t) = {}
      BY DEF DevicesOf, SessionInv, Listed
    <2>2. \A i \in Slots : VCPUBPdeviceSlotMap[t][i] = None
      <3> SUFFICES ASSUME NEW i \in Slots, VCPUBPdeviceSlotMap[t][i] # None PROVE FALSE
        OBVIOUS
      <3> DEFINE k == <<t, VCPUBPdeviceSlotMap[t][i]>>
      <3>1. k \in DOMAIN deviceMap
        BY DEF KInv, SlotsAgree
      <3>2. k[1] = t
        OBVIOUS
      <3>3. QED  BY <2>1, <3>1, <3>2 DEF DevicesOf
    <2>3. QED  BY <2>1, <2>2 DEF SessionInv, Unlisted
  <1>2. QED  BY <1>1, SessionInductive, KvmInductive, PTL

-----------------------------------------------------------------------------
(* Only enabled watchpoints watch the guest                                *)

SlotsNeedHypervisor ==
    \A v \in Threads, i \in Slots : VCPUBPdeviceSlotMap[v][i] # None => hyPerfDev

FiledEnabled ==
    \A t \in Threads : pc[t] \in {"added", "linked"} => ~deviceMap[Current(t)].isDisabled

RemovedDisabled ==
    \A t \in Threads : pc[t] \in Removing => deviceMap[Current(t)].isDisabled

ResumingAll == \A t \in Threads : pc[t] = "resumeAll" => allCalls

\* A device is not disabled before it has a slot, and disabled before it loses it.
ArmInv ==
    /\ SlotsNeedHypervisor
    /\ FiledEnabled
    /\ RemovedDisabled
    /\ ResumingAll
    /\ OnlyArmedWatch

\* The device in a slot is the one the slot is found for.
LEMMA SlotOwner ==
    ASSUME KInv, SlotsNeedHypervisor, NEW v \in Threads, NEW i \in Slots,
           NEW k \in DOMAIN deviceMap
    PROVE  k = <<v, VCPUBPdeviceSlotMap[v][i]>>
              <=> ByHypervisor(k) /\ deviceVCPUMap[k[2]] = v /\ i \in SlotsOf(k)
  <1>0. /\ k \in Threads \X FDs /\ None \notin FDs /\ None \notin Threads
        /\ VCPUBPdeviceSlotMap[v][i] \in FDs \cup {None}
    BY KvmAssumption DEF KInv, TypeOK
  <1>1. ASSUME k = <<v, VCPUBPdeviceSlotMap[v][i]>>
        PROVE  ByHypervisor(k) /\ deviceVCPUMap[k[2]] = v /\ i \in SlotsOf(k)
    <2>1. k[1] = v /\ k[2] = VCPUBPdeviceSlotMap[v][i] /\ k[2] # None
      BY <1>0, <1>1
    <2>2. deviceVCPUMap[k[2]] = v /\ deviceMap[k].type = "BP" /\ hyPerfDev
      BY <1>1, <2>1 DEF KInv, SlotsAgree, SlotsNeedHypervisor
    <2>3. i \in SlotsOf(k)
      BY <1>0, <2>1, <2>2 DEF SlotsOf
    <2>4. QED  BY <2>2, <2>3 DEF ByHypervisor
  <1>2. ASSUME deviceVCPUMap[k[2]] = v, i \in SlotsOf(k)
        PROVE  k = <<v, VCPUBPdeviceSlotMap[v][i]>>
    <2>1. VCPUBPdeviceSlotMap[v][i] = k[2] /\ k[2] # None
      BY <1>0, <1>2 DEF SlotsOf
    <2>2. <<v, VCPUBPdeviceSlotMap[v][i]>> \in DOMAIN deviceMap
      BY <2>1 DEF KInv, SlotsAgree
    <2>3. QED  BY <2>1, <2>2 DEF KInv, OneOwner
  <1>3. QED  BY <1>1, <1>2

\* Switching devices switches the slots they are in.
LEMMA SwitchedSlot ==
    ASSUME KInv, SlotsNeedHypervisor, NEW v \in Threads, NEW i \in Slots,
           NEW K \in SUBSET DOMAIN deviceMap, NEW b \in BOOLEAN
    PROVE  SwitchedSlots(K, b)[v][i]
              = IF <<v, VCPUBPdeviceSlotMap[v][i]>> \in K THEN b ELSE guestBP[v][i]
  <1>1. SwitchedSlots(K, b)[v][i]
           = IF \E k \in K : ByHypervisor(k) /\ deviceVCPUMap[k[2]] = v /\ i \in SlotsOf(k)
             THEN b ELSE guestBP[v][i]
    BY DEF SwitchedSlots
  <1>2. (\E k \in K : ByHypervisor(k) /\ deviceVCPUMap[k[2]] = v /\ i \in SlotsOf(k))
           <=> <<v, VCPUBPdeviceSlotMap[v][i]>> \in K
    BY SlotOwner
  <1>3. QED  BY <1>1, <1>2

\* A step that registers and removes nothing, switches on only slots of enabled devices and
\* leaves none on whose device it disables.
LEMMA ArmFrame ==
    ASSUME KInv, ArmInv, SameDevices,
           UNCHANGED <<newDev, VCPUBPdeviceSlotMap, allCalls>>, hyPerfDev => hyPerfDev',
           \A u \in Threads : pc'[u] = pc[u] \/ (pc[u] \in Calm /\ pc'[u] \in Calm),
           \A u \in Threads : pc'[u] = "resumeAll" => allCalls,
           \A k \in DOMAIN deviceMap :
               pc[k[1]] \notin Calm => deviceMap'[k].isDisabled = deviceMap[k].isDisabled,
           ~allCalls => \A v \in Threads, i \in Slots : guestBP'[v][i] =>
               LET k == <<v, VCPUBPdeviceSlotMap[v][i]>>
               IN  k \in DOMAIN deviceMap /\ ~deviceMap'[k].isDisabled
    PROVE  ArmInv'
  <1>1. \A u \in Threads : pc[u] \in {"added", "linked"} \cup Removing =>
           Current(u) \in DOMAIN deviceMap /\ Current(u)[1] = u
    BY DEF KInv, Mapped, Current
  <1>2. FiledEnabled' /\ RemovedDisabled'
    BY <1>1 DEF ArmInv, FiledEnabled, RemovedDisabled, Current, Calm, Registering, Removing
  <1>3. SlotsNeedHypervisor' /\ ResumingAll'
    BY DEF ArmInv, SlotsNeedHypervisor, ResumingAll
  <1>4. OnlyArmedWatch'
    BY DEF OnlyArmedWatch, SameDevices
  <1>5. QED  BY <1>2, <1>3, <1>4 DEF ArmInv

\* Pausing devices, or resuming enabled ones, switches on no slot of a disabled device.
LEMMA SwitchArms ==
    ASSUME KInv, ArmInv, NEW K \in SUBSET DOMAIN deviceMap, NEW b \in BOOLEAN, Switch(K, b),
           b /\ ~allCalls => K \subseteq NotDisabled(K)
    PROVE  /\ \A k \in DOMAIN deviceMap : deviceMap'[k].isDisabled = deviceMap[k].isDisabled
           /\ ~allCalls => \A v \in Threads, i \in Slots : guestBP'[v][i] =>
                  LET k == <<v, VCPUBPdeviceSlotMap[v][i]>>
                  IN  k \in DOMAIN deviceMap /\ ~deviceMap'[k].isDisabled
  <1>1. \A k \in DOMAIN deviceMap : deviceMap[k] \in Device
    BY DEF KInv, TypeOK
  <1>2. \A k \in DOMAIN deviceMap : deviceMap'[k].isDisabled = deviceMap[k].isDisabled
    BY <1>1, SwitchedEventsFacts DEF Switch
  <1>3. ASSUME ~allCalls, NEW v \in Threads, NEW i \in Slots, guestBP'[v][i]
        PROVE  LET k == <<v, VCPUBPdeviceSlotMap[v][i]>>
               IN  k \in DOMAIN deviceMap /\ ~deviceMap[k].isDisabled
    <2> DEFINE k == <<v, VCPUBPdeviceSlotMap[v][i]>>
    <2>1. IF k \in K THEN b ELSE guestBP[v][i]
      BY <1>3, SwitchedSlot DEF Switch, ArmInv
    <2>2. CASE k \in K /\ b
      BY <1>3, <2>2 DEF NotDisabled
    <2>3. CASE k \notin K /\ guestBP[v][i]
      BY <1>3, <2>3 DEF ArmInv, OnlyArmedWatch
    <2>4. QED  BY <2>1, <2>2, <2>3
  <1>4. QED  BY <1>2, <1>3

\* Ending devices leaves none of them watching.
LEMMA EndArms ==
    ASSUME KInv, ArmInv, NEW K \in SUBSET DOMAIN deviceMap, End(K)
    PROVE  /\ \A k \in DOMAIN deviceMap :
                 deviceMap'[k].isDisabled = IF k \in K THEN TRUE ELSE deviceMap[k].isDisabled
           /\ ~allCalls => \A v \in Threads, i \in Slots : guestBP'[v][i] =>
                  LET k == <<v, VCPUBPdeviceSlotMap[v][i]>>
                  IN  k \in DOMAIN deviceMap /\ ~deviceMap'[k].isDisabled
  <1>1. \A k \in DOMAIN deviceMap :
           deviceMap'[k].isDisabled = IF k \in K THEN TRUE ELSE deviceMap[k].isDisabled
    <2> DEFINE F == Flagged(deviceMap, K, TRUE)
    <2>1. /\ DOMAIN F = DOMAIN deviceMap
          /\ \A k \in DOMAIN deviceMap :
                /\ F[k] \in Device
                /\ F[k].isDisabled = IF k \in K THEN TRUE ELSE deviceMap[k].isDisabled
      BY DEF KInv, TypeOK, Flagged, Device, Counting
    <2>2. deviceMap' = SwitchedEvents(F, K, FALSE)
      BY DEF End
    <2> HIDE DEF F
    <2>3. FALSE \in BOOLEAN /\ \A k \in DOMAIN F : F[k] \in Device
      BY <2>1
    <2>4. \A k \in DOMAIN F : SwitchedEvents(F, K, FALSE)[k].isDisabled = F[k].isDisabled
      BY <2>3, SwitchedEventsFacts
    <2>5. QED  BY <2>1, <2>2, <2>4
  <1>2. ASSUME ~allCalls, NEW v \in Threads, NEW i \in Slots, guestBP'[v][i]
        PROVE  LET k == <<v, VCPUBPdeviceSlotMap[v][i]>>
               IN  k \in DOMAIN deviceMap /\ ~deviceMap'[k].isDisabled
    <2> DEFINE k == <<v, VCPUBPdeviceSlotMap[v][i]>>
    <2>1. k \notin K /\ guestBP[v][i]
      <3>1. FALSE \in BOOLEAN /\ SlotsNeedHypervisor
        BY DEF ArmInv
      <3>2. SwitchedSlots(K, FALSE)[v][i] = IF k \in K THEN FALSE ELSE guestBP[v][i]
        BY <3>1, SwitchedSlot
      <3>3. SwitchedSlots(K, FALSE)[v][i]
        BY <1>2 DEF End
      <3>4. QED  BY <3>2, <3>3
    <2>2. k \in DOMAIN deviceMap /\ ~deviceMap[k].isDisabled
      BY <1>2, <2>1 DEF ArmInv, OnlyArmedWatch
    <2>3. QED  BY <1>1, <2>1, <2>2
  <1>3. QED  BY <1>1, <1>2

\* Registering a device: it is enabled until it has its slot.
LEMMA RegisterArms ==
    ASSUME KInv, ArmInv, NEW t \in Threads,
           \/ kvm__VCPU_start(t)
           \/ \E e \in guest[t] : OnSampleFresh(t, e)
           \/ add_new_device(t) \/ add_new_device_to_session(t) \/ registerDevice(t)
    PROVE  ArmInv'
  <1> USE DEF Goto, session, maps, agent, calls
  <1>0. /\ pc \in [Threads -> PCs] /\ newDev \in [Threads -> NewDevice]
        /\ DOMAIN deviceMap \subseteq Threads \X FDs
        /\ None \notin FDs /\ None \notin Threads
    BY KvmAssumption DEF KInv, TypeOK
  <1>1. CASE kvm__VCPU_start(t) \/ \E e \in guest[t] : OnSampleFresh(t, e)
    <2>1. /\ UNCHANGED <<deviceMap, guestBP, VCPUBPdeviceSlotMap, hyPerfDev, allCalls>>
          /\ pc'[t] \in {"opened", "guest", "resume"}
          /\ \A u \in Threads \ {t} : pc'[u] = pc[u] /\ newDev'[u] = newDev[u]
      BY <1>1, RegisterFrame DEF kvm__VCPU_start, OnSampleFresh
    <2>2. FiledEnabled' /\ RemovedDisabled' /\ ResumingAll'
      BY <2>1 DEF ArmInv, FiledEnabled, RemovedDisabled, ResumingAll, Current, Removing
    <2>3. SlotsNeedHypervisor' /\ OnlyArmedWatch'
      BY <2>1 DEF ArmInv, SlotsNeedHypervisor, OnlyArmedWatch
    <2>4. QED  BY <2>2, <2>3 DEF ArmInv
  <1>2. CASE add_new_device(t)
    <2> DEFINE new == <<t, newDev[t].fd>>
    <2>1. /\ pc[t] = "opened" /\ pc'[t] = "added" /\ \A u \in Threads \ {t} : pc'[u] = pc[u]
          /\ DOMAIN deviceMap' = DOMAIN deviceMap \cup {new}
          /\ \A k \in DOMAIN deviceMap \ {new} : deviceMap'[k] = deviceMap[k]
          /\ ~deviceMap'[new].isDisabled
          /\ UNCHANGED <<newDev, guestBP, VCPUBPdeviceSlotMap, hyPerfDev, allCalls>>
      BY <1>0, <1>2 DEF add_new_device
    <2>2. new \notin DOMAIN deviceMap /\ new = Current(t)
      BY <2>1 DEF KInv, Reopened, Current
    <2>3. \A u \in Threads \ {t} : pc[u] \in {"added", "linked"} \cup Removing =>
             Current(u) \in DOMAIN deviceMap \ {new}
      BY <2>2 DEF KInv, Mapped
    <2> HIDE DEF new
    <2>4. FiledEnabled' /\ RemovedDisabled' /\ ResumingAll'
      <3>1. \A u \in Threads : Current(u)' = Current(u)
        BY <2>1 DEF Current
      <3>2. QED  BY <2>1, <2>2, <2>3, <3>1 DEF ArmInv, FiledEnabled, RemovedDisabled, ResumingAll, Removing
    <2>5. SlotsNeedHypervisor' /\ OnlyArmedWatch'
      BY <2>1, <2>2 DEF ArmInv, SlotsNeedHypervisor, OnlyArmedWatch
    <2>6. QED  BY <2>4, <2>5 DEF ArmInv
  <1>3. CASE add_new_device_to_session(t)
    <2>1. /\ pc[t] = "added" /\ pc'[t] = "linked" /\ \A u \in Threads \ {t} : pc'[u] = pc[u]
          /\ UNCHANGED <<deviceMap, newDev, guestBP, VCPUBPdeviceSlotMap, hyPerfDev, allCalls>>
      BY <1>0, <1>3 DEF add_new_device_to_session
    <2>2. FiledEnabled' /\ RemovedDisabled' /\ ResumingAll'
      BY <2>1 DEF ArmInv, FiledEnabled, RemovedDisabled, ResumingAll, Current, Removing
    <2>3. SlotsNeedHypervisor' /\ OnlyArmedWatch'
      BY <2>1 DEF ArmInv, SlotsNeedHypervisor, OnlyArmedWatch
    <2>4. QED  BY <2>2, <2>3 DEF ArmInv
  <1>4. CASE registerDevice(t)
    <2>1. /\ pc[t] = "linked" /\ pc'[t] \in {"guest", "resume"}
          /\ \A u \in Threads \ {t} : pc'[u] = pc[u] /\ newDev'[u] = newDev[u]
          /\ UNCHANGED <<deviceMap, hyPerfDev, allCalls>>
      BY <1>0, <1>4 DEF registerDevice
    <2>2. FiledEnabled' /\ RemovedDisabled' /\ ResumingAll'
      BY <2>1 DEF ArmInv, FiledEnabled, RemovedDisabled, ResumingAll, Current, Removing
    <2>3. Current(t) \in DOMAIN deviceMap /\ ~deviceMap[Current(t)].isDisabled
      BY <2>1 DEF KInv, Mapped, ArmInv, FiledEnabled
    <2>4. CASE UNCHANGED <<VCPUBPdeviceSlotMap, guestBP>>
      BY <2>1, <2>2, <2>4 DEF ArmInv, SlotsNeedHypervisor, OnlyArmedWatch
    <2>5. ASSUME hyPerfDev, NEW i \in Slots, VCPUBPdeviceSlotMap[t][i] = None,
                 VCPUBPdeviceSlotMap' = [VCPUBPdeviceSlotMap EXCEPT ![t][i] = newDev[t].fd],
                 guestBP' \in {guestBP, [guestBP EXCEPT ![t][i] = TRUE]}
          PROVE  ArmInv'
      <3>1. SlotsNeedHypervisor'
        BY <2>1, <2>5 DEF SlotsNeedHypervisor
      <3>2. /\ VCPUBPdeviceSlotMap'[t][i] = newDev[t].fd
            /\ \A v \in Threads, j \in Slots : <<v, j>> # <<t, i>> =>
                  /\ VCPUBPdeviceSlotMap'[v][j] = VCPUBPdeviceSlotMap[v][j]
                  /\ guestBP'[v][j] = guestBP[v][j]
        BY <2>5 DEF KInv, TypeOK
      <3>3. OnlyArmedWatch'
        <4> SUFFICES ASSUME ~allCalls, NEW v \in Threads, NEW j \in Slots, guestBP'[v][j]
                     PROVE  /\ <<v, VCPUBPdeviceSlotMap'[v][j]>> \in DOMAIN deviceMap
                            /\ ~deviceMap[<<v, VCPUBPdeviceSlotMap'[v][j]>>].isDisabled
          BY <2>1 DEF OnlyArmedWatch
        <4>1. CASE <<v, j>> = <<t, i>>
          BY <2>3, <3>2, <4>1 DEF Current
        <4>2. CASE <<v, j>> # <<t, i>>
          BY <3>2, <4>2 DEF ArmInv, OnlyArmedWatch
        <4>3. QED  BY <4>1, <4>2
      <3>4. QED  BY <2>2, <3>1, <3>3 DEF ArmInv
    <2>6. QED  BY <1>4, <2>4, <2>5 DEF registerDevice
  <1>5. QED  BY <1>1, <1>2, <1>3, <1>4

\* Removing a device: it is disabled before it loses its slot.
LEMMA RemoveArms ==
    ASSUME KInv, ArmInv, NEW t \in Threads,
           \/ \E k \in DevicesOf(t) : DisArm(t, k) \/ RemoveOfSession(t, k)
           \/ Close(t) \/ unRegisterDevice(t)
    PROVE  ArmInv'
  <1> USE DEF Goto, session, maps, agent, calls
  <1>0. /\ pc \in [Threads -> PCs] /\ newDev \in [Threads -> NewDevice]
        /\ DOMAIN deviceMap \subseteq Threads \X FDs
        /\ None \notin FDs /\ None \notin Threads
    BY KvmAssumption DEF KInv, TypeOK
  <1>1. ASSUME NEW k \in DevicesOf(t), DisArm(t, k) \/ RemoveOfSession(t, k) PROVE ArmInv'
    <2>1. End({k})
      BY <1>1 DEF DisArm, RemoveOfSession, Take
    <2>2. SameDevices
      BY <2>1, EndKeeps DEF KInv
    <2>3. k \in DOMAIN deviceMap /\ k = <<t, k[2]>>
      BY <1>0 DEF DevicesOf
    <2>4. /\ pc[t] \in {"ending", "sweep"} /\ pc'[t] = "closing"
          /\ \A u \in Threads \ {t} : pc'[u] = pc[u] /\ newDev'[u] = newDev[u]
          /\ newDev'[t].fd = k[2]
          /\ UNCHANGED <<hyPerfDev, VCPUBPdeviceSlotMap, allCalls>>
      BY <1>0, <1>1 DEF DisArm, RemoveOfSession, Take
    <2>5. /\ \A l \in DOMAIN deviceMap :
                deviceMap'[l].isDisabled = IF l \in {k} THEN TRUE ELSE deviceMap[l].isDisabled
          /\ ~allCalls => \A v \in Threads, i \in Slots : guestBP'[v][i] =>
                 LET l == <<v, VCPUBPdeviceSlotMap[v][i]>>
                 IN  l \in DOMAIN deviceMap /\ ~deviceMap'[l].isDisabled
      BY <2>1, <2>3, EndArms
    <2>6. Current(t)' = k /\ \A u \in Threads \ {t} : Current(u)' = Current(u) /\ Current(u) # k
      BY <2>3, <2>4 DEF Current
    <2>7. \A u \in Threads \ {t} : pc[u] \in {"added", "linked"} \cup Removing =>
             Current(u) \in DOMAIN deviceMap
      BY DEF KInv, Mapped
    <2>8. FiledEnabled' /\ RemovedDisabled' /\ ResumingAll'
      <3>1. \A u \in Threads \ {t} : pc[u] \in {"added", "linked"} \cup Removing =>
               deviceMap'[Current(u)'].isDisabled = deviceMap[Current(u)].isDisabled
        BY <2>5, <2>6, <2>7
      <3>2. deviceMap'[Current(t)'].isDisabled
        BY <2>3, <2>5, <2>6
      <3>3. RemovedDisabled'
        BY <2>4, <3>1, <3>2 DEF ArmInv, RemovedDisabled
      <3>4. FiledEnabled' /\ ResumingAll'
        BY <2>4, <3>1 DEF ArmInv, FiledEnabled, ResumingAll
      <3>5. QED  BY <3>3, <3>4
    <2>9. SlotsNeedHypervisor' /\ OnlyArmedWatch'
      BY <2>2, <2>4, <2>5 DEF ArmInv, SlotsNeedHypervisor, OnlyArmedWatch, SameDevices
    <2>10. QED  BY <2>8, <2>9 DEF ArmInv
  <1>2. CASE Close(t)
    <2>1. /\ pc[t] = "closing" /\ pc'[t] = "closed" /\ \A u \in Threads \ {t} : pc'[u] = pc[u]
          /\ UNCHANGED <<deviceMap, newDev, guestBP, VCPUBPdeviceSlotMap, hyPerfDev, allCalls>>
      BY <1>0, <1>2 DEF Close
    <2>2. FiledEnabled' /\ RemovedDisabled' /\ ResumingAll'
      BY <2>1 DEF ArmInv, FiledEnabled, RemovedDisabled, ResumingAll, Current, Removing
    <2>3. SlotsNeedHypervisor' /\ OnlyArmedWatch'
      BY <2>1 DEF ArmInv, SlotsNeedHypervisor, OnlyArmedWatch
    <2>4. QED  BY <2>2, <2>3 DEF ArmInv
  <1>3. CASE unRegisterDevice(t)
    <2> DEFINE fd == newDev[t].fd
    <2>1. /\ pc[t] = "closed" /\ pc'[t] \in {"ending", "sweep"}
          /\ \A u \in Threads \ {t} : pc'[u] = pc[u] /\ newDev'[u] = newDev[u]
          /\ DOMAIN deviceMap' = DOMAIN deviceMap \ {Current(t)}
          /\ \A k \in DOMAIN deviceMap' : deviceMap'[k] = deviceMap[k]
          /\ UNCHANGED <<hyPerfDev, guestBP, allCalls>>
      BY <1>0, <1>3 DEF unRegisterDevice, Current
    <2>2. Current(t) \in DOMAIN deviceMap /\ deviceMap[Current(t)].isDisabled
      BY <2>1 DEF KInv, Mapped, ArmInv, RemovedDisabled, Removing
    <2>3. \A v \in Threads, i \in Slots :
             \/ VCPUBPdeviceSlotMap'[v][i] = VCPUBPdeviceSlotMap[v][i]
             \/ VCPUBPdeviceSlotMap'[v][i] = None /\ VCPUBPdeviceSlotMap[v][i] = fd
      BY <1>3 DEF unRegisterDevice, SlotsFreed
    <2>4. SlotsNeedHypervisor'
      BY <2>1, <2>3 DEF ArmInv, SlotsNeedHypervisor
    <2>5. OnlyArmedWatch'
      <3> SUFFICES ASSUME ~allCalls, NEW v \in Threads, NEW i \in Slots, guestBP[v][i]
                   PROVE  /\ <<v, VCPUBPdeviceSlotMap'[v][i]>> \in DOMAIN deviceMap'
                          /\ ~deviceMap'[<<v, VCPUBPdeviceSlotMap'[v][i]>>].isDisabled
        BY <2>1 DEF OnlyArmedWatch
      <3> DEFINE k == <<v, VCPUBPdeviceSlotMap[v][i]>>
      <3>1. k \in DOMAIN deviceMap /\ ~deviceMap[k].isDisabled
        BY DEF ArmInv, OnlyArmedWatch
      <3>2. VCPUBPdeviceSlotMap[v][i] # fd
        <4>1. k[2] = VCPUBPdeviceSlotMap[v][i] /\ Current(t)[2] = fd
          BY DEF Current
        <4>2. k # Current(t)
          BY <2>2, <3>1
        <4> HIDE DEF k
        <4>3. QED  BY <2>2, <3>1, <4>1, <4>2 DEF KInv, OneOwner
      <3>3. VCPUBPdeviceSlotMap'[v][i] = VCPUBPdeviceSlotMap[v][i] /\ k # Current(t)
        BY <2>2, <2>3, <3>1, <3>2
      <3>4. QED  BY <2>1, <3>1, <3>3
    <2>6. FiledEnabled' /\ RemovedDisabled' /\ ResumingAll'
      <3>1. \A u \in Threads \ {t} : pc[u] \in {"added", "linked"} \cup Removing =>
               Current(u) \in DOMAIN deviceMap' /\ Current(u)' = Current(u)
        BY <2>1 DEF KInv, Mapped, Current
      <3>2. QED  BY <2>1, <3>1 DEF ArmInv, FiledEnabled, RemovedDisabled, ResumingAll, Removing
    <2>7. QED  BY <2>4, <2>5, <2>6 DEF ArmInv
  <1>4. QED  BY <1>1, <1>2, <1>3

\* Pausing, resuming and handing events back.
LEMMA CalmArms ==
    ASSUME KInv, ArmInv, NEW t \in Threads,
           \/ \E k \in DevicesOf(t) : Fire(t, k)
           \/ kvm__disableEBSDevicesThisSession(t) \/ kvm__disableAllEBSDevice(t)
           \/ TestAll(t) \/ ResumeAll(t)
           \/ \E e \in guest[t] : /\ kvm__doneEventProcessing_HyPerf(t, e)
                                  /\ ~OnSampleFresh(t, e)
           \/ resume_devices_by_session(t) \/ kvm__enableEBSDevicesThisSession(t)
           \/ kvm__VCPU_end(t) \/ LockSession(t) \/ UnlockSession(t)
    PROVE  ArmInv'
  <1> USE DEF Goto, session, maps, agent, calls
  <1>0. /\ pc \in [Threads -> PCs] /\ \A k \in DOMAIN deviceMap : deviceMap[k] \in Device
        /\ DOMAIN deviceMap \subseteq Threads \X FDs
    BY DEF KInv, TypeOK
  <1>1. ASSUME UNCHANGED <<guestBP, newDev, VCPUBPdeviceSlotMap, allCalls, hyPerfDev>>, SameDevices,
               \A k \in DOMAIN deviceMap : deviceMap'[k].isDisabled = deviceMap[k].isDisabled,
               \A u \in Threads : pc'[u] = pc[u] \/ (pc[u] \in Calm /\ pc'[u] \in Calm),
               \A u \in Threads : pc'[u] = "resumeAll" => allCalls
        PROVE  ArmInv'
    <2>1. ~allCalls => \A v \in Threads, i \in Slots : guestBP'[v][i] =>
             LET k == <<v, VCPUBPdeviceSlotMap[v][i]>>
             IN  k \in DOMAIN deviceMap /\ ~deviceMap'[k].isDisabled
      BY <1>1 DEF ArmInv, OnlyArmedWatch
    <2>2. QED  BY <1>1, <2>1, ArmFrame
  <1>2. CASE \/ \E k \in DevicesOf(t) : Fire(t, k)
             \/ TestAll(t) \/ kvm__VCPU_end(t) \/ LockSession(t) \/ UnlockSession(t)
             \/ \E e \in guest[t] : Skip(t, e) \/ NoDevice(t, e) \/ OnSample(t, e)
    <2>1. UNCHANGED <<guestBP, newDev, VCPUBPdeviceSlotMap, allCalls, hyPerfDev>>
      BY <1>2 DEF Fire, TestAll, kvm__VCPU_end, LockSession, UnlockSession, Skip, NoDevice, OnSample
    <2>2. /\ \A u \in Threads : pc'[u] = pc[u] \/ (pc[u] \in Calm /\ pc'[u] \in Calm)
          /\ \A u \in Threads : pc'[u] = "resumeAll" => allCalls
      BY <1>0, <1>2 DEF Fire, TestAll, kvm__VCPU_end, LockSession, UnlockSession, Skip, NoDevice,
                        OnSample, Calm, PCs, Registering, Removing, ArmInv, ResumingAll
    <2>3. /\ SameDevices
          /\ \A k \in DOMAIN deviceMap : deviceMap'[k].isDisabled = deviceMap[k].isDisabled
      <3>1. CASE \E k \in DevicesOf(t) : Fire(t, k)
        BY <3>1, FireKeeps
      <3>2. CASE UNCHANGED deviceMap
        BY <1>0, <3>2 DEF SameDevices
      <3>3. QED  BY <1>2, <3>1, <3>2
                 DEF TestAll, kvm__VCPU_end, LockSession, UnlockSession, Skip, NoDevice, OnSample
    <2>4. QED  BY <1>1, <2>1, <2>2, <2>3
  <1>3. CASE \/ kvm__disableEBSDevicesThisSession(t) \/ kvm__disableAllEBSDevice(t) \/ ResumeAll(t)
             \/ resume_devices_by_session(t) \/ kvm__enableEBSDevicesThisSession(t)
    <2> USE DEF kvm__disableEBSDevicesThisSession, kvm__disableAllEBSDevice, ResumeAll,
                resume_devices_by_session, kvm__enableEBSDevicesThisSession
    <2>1. SameDevices
      BY <1>3, SwitchingKeeps, Zenon
    <2>2. /\ UNCHANGED <<newDev, VCPUBPdeviceSlotMap, allCalls, hyPerfDev>>
          /\ \A u \in Threads : pc'[u] = pc[u] \/ (pc[u] \in Calm /\ pc'[u] \in Calm)
          /\ \A u \in Threads : pc'[u] = "resumeAll" => allCalls
      BY <1>0, <1>3 DEF Calm, PCs, Registering, Removing, ArmInv, ResumingAll
    <2>3. /\ \A k \in DOMAIN deviceMap : deviceMap'[k].isDisabled = deviceMap[k].isDisabled
          /\ ~allCalls => \A v \in Threads, i \in Slots : guestBP'[v][i] =>
                 LET k == <<v, VCPUBPdeviceSlotMap[v][i]>>
                 IN  k \in DOMAIN deviceMap /\ ~deviceMap'[k].isDisabled
      <3>1. CASE Switch(NotDisabled(SessionDevices(t, sessionKey[t])), FALSE)
        <4>1. NotDisabled(SessionDevices(t, sessionKey[t])) \in SUBSET DOMAIN deviceMap
          BY DEF NotDisabled, SessionDevices, DevicesOf
        <4>2. QED  BY <3>1, <4>1, SwitchArms
      <3>2. CASE Switch(DOMAIN deviceMap, FALSE)
        BY <3>2, SwitchArms
      <3>3. CASE Switch(Resumable(t), TRUE)
        <4>1. /\ Resumable(t) \in SUBSET DOMAIN deviceMap
              /\ Resumable(t) \subseteq NotDisabled(Resumable(t))
          BY DEF Resumable, NotDisabled, SessionDevices, DevicesOf
        <4>2. QED  BY <3>3, <4>1, SwitchArms
      <3>4. CASE Switch(tested, TRUE) /\ allCalls
        BY <1>0, <3>4, SwitchedEventsFacts DEF Switch
      <3>5. QED  BY <1>3, <3>1, <3>2, <3>3, <3>4 DEF ArmInv, ResumingAll
    <2>4. QED  BY <2>1, <2>2, <2>3, ArmFrame
  <1>4. ASSUME NEW e \in guest[t],
               \/ \E k \in DOMAIN deviceMap : OnSampleModify(t, e, k)
               \/ \E K \in SUBSET Breakpoints(t) : OnTrigger(t, e, K)
        PROVE  ArmInv'
    <2>1. SameDevices
      BY <1>4, ToolKeeps, Zenon
    <2>2. /\ pc[t] = "guest" /\ UNCHANGED <<newDev, VCPUBPdeviceSlotMap, allCalls, hyPerfDev>>
          /\ \A u \in Threads : pc'[u] = pc[u] \/ (pc[u] \in Calm /\ pc'[u] \in Calm)
          /\ \A u \in Threads : pc'[u] = "resumeAll" => allCalls
      BY <1>0, <1>4 DEF OnSampleModify, OnTrigger, Calm, PCs, Registering, Removing, ArmInv, ResumingAll
    <2>3. "guest" \in Calm
      BY DEF Calm, PCs, Registering, Removing
    <2>4. ASSUME NEW K \in SUBSET Breakpoints(t), End(K) PROVE ArmInv'
      <3>1. K \in SUBSET DOMAIN deviceMap /\ \A k \in K : k[1] = t
        BY DEF Breakpoints, DevicesOf
      <3>2. /\ \A k \in DOMAIN deviceMap :
                  deviceMap'[k].isDisabled = IF k \in K THEN TRUE ELSE deviceMap[k].isDisabled
            /\ ~allCalls => \A v \in Threads, i \in Slots : guestBP'[v][i] =>
                   LET k == <<v, VCPUBPdeviceSlotMap[v][i]>>
                   IN  k \in DOMAIN deviceMap /\ ~deviceMap'[k].isDisabled
        BY <2>4, <3>1, EndArms
      <3>3. \A k \in DOMAIN deviceMap :
               pc[k[1]] \notin Calm => deviceMap'[k].isDisabled = deviceMap[k].isDisabled
        BY <2>2, <2>3, <3>1, <3>2
      <3>4. QED  BY <2>1, <2>2, <3>2, <3>3, ArmFrame
    <2>5. ASSUME NEW k \in Breakpoints(t),
                 deviceMap' = [Flagged(deviceMap, {k}, FALSE) EXCEPT ![k].on = "on"],
                 guestBP' = SwitchedSlots({k}, TRUE) \/ guestBP' = SwitchedSlots({k}, FALSE)
          PROVE  ArmInv'
      <3>1. k \in DOMAIN deviceMap /\ k[1] = t
        BY DEF Breakpoints, DevicesOf
      <3>2. /\ \A l \in DOMAIN deviceMap : l # k => deviceMap'[l] = deviceMap[l]
            /\ ~deviceMap'[k].isDisabled
        BY <1>0, <2>5, <3>1 DEF Flagged, Device, Counting
      <3>3. ASSUME ~allCalls, NEW v \in Threads, NEW i \in Slots, guestBP'[v][i]
            PROVE  LET l == <<v, VCPUBPdeviceSlotMap[v][i]>>
                   IN  l \in DOMAIN deviceMap /\ ~deviceMap'[l].isDisabled
        <4> DEFINE l == <<v, VCPUBPdeviceSlotMap[v][i]>>
        <4>1. ASSUME l # k PROVE guestBP[v][i]
          <5> DEFINE K == {k}
          <5>1. SlotsNeedHypervisor /\ K \in SUBSET DOMAIN deviceMap /\ l \notin K
            BY <3>1, <4>1 DEF ArmInv
          <5>2. guestBP' = SwitchedSlots(K, TRUE) \/ guestBP' = SwitchedSlots(K, FALSE)
            BY <2>5
          <5> HIDE DEF K
          <5>3. CASE guestBP' = SwitchedSlots(K, TRUE)
            <6>1. SwitchedSlots(K, TRUE)[v][i] = IF l \in K THEN TRUE ELSE guestBP[v][i]
              BY <5>1, SwitchedSlot
            <6>2. QED  BY <3>3, <5>1, <5>3, <6>1
          <5>4. CASE guestBP' = SwitchedSlots(K, FALSE)
            <6>1. SwitchedSlots(K, FALSE)[v][i] = IF l \in K THEN FALSE ELSE guestBP[v][i]
              BY <5>1, SwitchedSlot
            <6>2. QED  BY <3>3, <5>1, <5>4, <6>1
          <5>5. QED  BY <5>2, <5>3, <5>4
        <4>2. CASE l = k
          BY <3>1, <3>2, <4>2
        <4>3. CASE l # k
          BY <3>2, <3>3, <4>1, <4>3 DEF ArmInv, OnlyArmedWatch
        <4>4. QED  BY <4>2, <4>3
      <3>4. \A l \in DOMAIN deviceMap :
               pc[l[1]] \notin Calm => deviceMap'[l].isDisabled = deviceMap[l].isDisabled
        BY <2>2, <2>3, <3>1, <3>2
      <3>5. ~allCalls => \A v \in Threads, i \in Slots : guestBP'[v][i] =>
               LET l == <<v, VCPUBPdeviceSlotMap[v][i]>>
               IN  l \in DOMAIN deviceMap /\ ~deviceMap'[l].isDisabled
        BY <3>3
      <3>6. QED  BY <2>1, <2>2, <3>4, <3>5, ArmFrame
    <2>6. CASE \E K \in SUBSET Breakpoints(t) : OnTrigger(t, e, K)
      BY <2>4, <2>6, Zenon DEF OnTrigger
    <2>7. ASSUME NEW k \in DOMAIN deviceMap, OnSampleModify(t, e, k) PROVE ArmInv'
      <3>1. k \in Breakpoints(t) /\ {k} \in SUBSET Breakpoints(t)
        BY <2>7 DEF OnSampleModify
      <3>2. \/ End({k})
            \/ /\ deviceMap' = [Flagged(deviceMap, {k}, FALSE) EXCEPT ![k].on = "on"]
               /\ guestBP' = SwitchedSlots({k}, TRUE) \/ guestBP' = SwitchedSlots({k}, FALSE)
        BY <2>7, Zenon DEF OnSampleModify
      <3>3. QED  BY <2>4, <2>5, <3>1, <3>2
    <2>8. QED  BY <1>4, <2>6, <2>7
  <1>5. QED  BY <1>2, <1>3, <1>4, Zenon DEF kvm__doneEventProcessing_HyPerf

\* The slots and the flags of their devices always agree.
LEMMA ArmInductive == Spec => []ArmInv
  <1>1. Init => ArmInv
    BY DEF Init, ArmInv, SlotsNeedHypervisor, FiledEnabled, RemovedDisabled, ResumingAll,
           OnlyArmedWatch, Removing
  <1>2. KInv /\ ArmInv /\ [Next]_vars => ArmInv'
    <2> SUFFICES ASSUME KInv, ArmInv, [Next]_vars PROVE ArmInv'
      OBVIOUS
    <2>1. CASE set_hyPerfDev \/ UNCHANGED vars
      <3>1. /\ UNCHANGED <<pc, newDev, deviceMap, VCPUBPdeviceSlotMap, guestBP, allCalls>>
            /\ hyPerfDev => hyPerfDev'
        BY <2>1 DEF set_hyPerfDev, vars, session, maps, agent, calls
      <3>2. FiledEnabled' /\ RemovedDisabled' /\ ResumingAll'
        BY <3>1 DEF ArmInv, FiledEnabled, RemovedDisabled, ResumingAll, Current
      <3>3. SlotsNeedHypervisor' /\ OnlyArmedWatch'
        BY <3>1 DEF ArmInv, SlotsNeedHypervisor, OnlyArmedWatch
      <3>4. QED  BY <3>2, <3>3 DEF ArmInv
    <2>2. ASSUME NEW t \in Threads, VCPU(t) PROVE ArmInv'
      BY <2>2, RegisterArms, RemoveArms, CalmArms, Zenon
         DEF VCPU, kvm__doneEventProcessing_HyPerf
    <2>3. QED  BY <2>1, <2>2 DEF Next
  <1>3. QED  BY <1>1, <1>2, KvmInductive, PTL DEF Spec

\* The guest is only watched for devices that exist and are not disabled: whatever the
\* guest's driver and the watchpoint tool do in between, pausing and resuming a session
\* revives no watchpoint that was disabled.
THEOREM DisabledStaysOff == Spec => []OnlyArmedWatch
  <1>1. ArmInv => OnlyArmedWatch
    BY DEF ArmInv
  <1>2. QED  BY <1>1, ArmInductive, PTL

-----------------------------------------------------------------------------
(* Devices that were paused are resumed                                    *)

\* The slots a device is in, and whether it watches, read off its own VCPU's slots.
HeldSlots(k) == {i \in Slots : VCPUBPdeviceSlotMap[k[1]][i] = k[2]}

Seen(k) ==
    IF HeldSlots(k) # {} THEN \E i \in HeldSlots(k) : guestBP[k[1]][i]
                         ELSE deviceMap[k].on = "on"

\* A VCPU that has no event in the guest watches with every device that is not disabled.
Awake(t) ==
    pc[t] = "guest" /\ guest[t] = {} =>
        \A k \in NotDisabled(DevicesOf(t)) : Seen(k) \/ deviceMap[k].on = "new"

\* The sampling device is the first of its session and not switched on while it is filed.
FirstNew(t) ==
    pc[t] \in Registering /\ newDev[t].type = "PEBS" =>
        \A k \in DevicesOf(t) : deviceMap[k].on = "new"

PauseInv == ~allCalls => \A t \in Threads : Awake(t) /\ FirstNew(t)

\* Looking a slot up by the device's VCPU gives the slots of the device's thread.
LEMMA OwnSlots ==
    ASSUME KInv, SlotsNeedHypervisor, NEW k \in DOMAIN deviceMap
    PROVE  /\ HeldSlots(k) # {} => ByHypervisor(k) /\ deviceVCPUMap[k[2]] = k[1]
                                   /\ SlotsOf(k) = HeldSlots(k)
           /\ HeldSlots(k) = {} => ~ByHypervisor(k)
  <1>0. k \in Threads \X FDs /\ k = <<k[1], k[2]>> /\ k[1] \in Threads /\ k[2] \in FDs
    BY DEF KInv, TypeOK
  <1>1. ASSUME NEW i \in HeldSlots(k)
        PROVE  ByHypervisor(k) /\ deviceVCPUMap[k[2]] = k[1] /\ i \in SlotsOf(k)
    <2>1. i \in Slots /\ k = <<k[1], VCPUBPdeviceSlotMap[k[1]][i]>>
      BY <1>0 DEF HeldSlots
    <2>2. QED  BY <1>0, <2>1, SlotOwner
  <1>2. ASSUME NEW i \in SlotsOf(k)
        PROVE  i \in HeldSlots(k)
    <2>1. deviceVCPUMap[k[2]] # None /\ i \in Slots
      BY DEF SlotsOf
    <2>2. deviceVCPUMap[k[2]] \in Threads
      BY <1>0, <2>1 DEF KInv, TypeOK
    <2>3. VCPUBPdeviceSlotMap[deviceVCPUMap[k[2]]][i] = k[2] /\ k[2] # None
      BY <1>0, KvmAssumption DEF SlotsOf
    <2>4. <<deviceVCPUMap[k[2]], k[2]>> \in DOMAIN deviceMap
      BY <2>1, <2>2, <2>3 DEF KInv, SlotsAgree
    <2>5. k = <<deviceVCPUMap[k[2]], k[2]>>
      BY <2>4 DEF KInv, OneOwner
    <2>6. deviceVCPUMap[k[2]] = k[1]
      BY <1>0, <2>5
    <2>7. QED  BY <2>1, <2>3, <2>6 DEF HeldSlots
  <1>3. QED  BY <1>1, <1>2 DEF ByHypervisor

\* So a device is seen when it watches.
LEMMA SeenWatches ==
    ASSUME KInv, SlotsNeedHypervisor, NEW k \in DOMAIN deviceMap, Seen(k)
    PROVE  Watches(k)
  <1>1. CASE HeldSlots(k) # {}
    BY <1>1, OwnSlots DEF Seen, Watches
  <1>2. CASE HeldSlots(k) = {}
    BY <1>2, OwnSlots DEF Seen, Watches
  <1>3. QED  BY <1>1, <1>2

\* What a step of another VCPU leaves alone.
Untouched(u) ==
    /\ pc'[u] = pc[u] /\ newDev'[u] = newDev[u] /\ guest'[u] = guest[u]
    /\ \A k \in DOMAIN deviceMap' : k[1] = u =>
          k \in DOMAIN deviceMap /\ deviceMap'[k] = deviceMap[k]
    /\ \A i \in Slots : /\ VCPUBPdeviceSlotMap'[u][i] = VCPUBPdeviceSlotMap[u][i]
                        /\ guestBP'[u][i] = guestBP[u][i]

LEMMA UntouchedKeeps ==
    ASSUME KInv, NEW u \in Threads, Untouched(u), Awake(u), FirstNew(u)
    PROVE  Awake(u)' /\ FirstNew(u)'
  <1>1. ASSUME NEW k \in DOMAIN deviceMap', k[1] = u, Seen(k)
        PROVE  Seen(k)'
    <2>1. HeldSlots(k)' = HeldSlots(k) /\ HeldSlots(k) \subseteq Slots
      BY <1>1 DEF HeldSlots, Untouched
    <2>2. deviceMap'[k] = deviceMap[k] /\ \A i \in HeldSlots(k) : guestBP'[k[1]][i] = guestBP[k[1]][i]
      BY <1>1, <2>1 DEF Untouched
    <2>3. QED  BY <1>1, <2>1, <2>2 DEF Seen
  <1>2. Awake(u)'
    BY <1>1 DEF Awake, Untouched, NotDisabled, DevicesOf
  <1>3. FirstNew(u)'
    BY DEF FirstNew, Untouched, DevicesOf
  <1>4. QED  BY <1>2, <1>3

\* Pausing, resuming and ending the devices of one VCPU changes no other VCPU's.
LEMMA SlotsOfOthers ==
    ASSUME KInv, SlotsNeedHypervisor, NEW t \in Threads, NEW K \in SUBSET DOMAIN deviceMap,
           \A k \in K : k[1] = t, NEW b \in BOOLEAN
    PROVE  \A u \in Threads \ {t}, i \in Slots : SwitchedSlots(K, b)[u][i] = guestBP[u][i]
  <1> SUFFICES ASSUME NEW u \in Threads \ {t}, NEW i \in Slots
               PROVE  SwitchedSlots(K, b)[u][i] = guestBP[u][i]
    OBVIOUS
  <1> DEFINE l == <<u, VCPUBPdeviceSlotMap[u][i]>>
  <1>1. l[1] = u
    OBVIOUS
  <1>2. SwitchedSlots(K, b)[u][i] = IF l \in K THEN b ELSE guestBP[u][i]
    BY SwitchedSlot
  <1> HIDE DEF l
  <1>3. QED  BY <1>1, <1>2

LEMMA SwitchOfOthers ==
    ASSUME KInv, SlotsNeedHypervisor, NEW t \in Threads, NEW K \in SUBSET DOMAIN deviceMap,
           \A k \in K : k[1] = t, NEW b \in BOOLEAN, Switch(K, b)
    PROVE  /\ \A k \in DOMAIN deviceMap' : k[1] # t =>
                 k \in DOMAIN deviceMap /\ deviceMap'[k] = deviceMap[k]
           /\ \A u \in Threads \ {t}, i \in Slots : guestBP'[u][i] = guestBP[u][i]
  <1>1. \A u \in Threads \ {t}, i \in Slots : SwitchedSlots(K, b)[u][i] = guestBP[u][i]
    BY SlotsOfOthers
  <1>2. QED  BY <1>1 DEF Switch, SwitchedEvents

LEMMA EndOfOthers ==
    ASSUME KInv, SlotsNeedHypervisor, NEW t \in Threads, NEW K \in SUBSET DOMAIN deviceMap,
           \A k \in K : k[1] = t, End(K)
    PROVE  /\ \A k \in DOMAIN deviceMap' : k[1] # t =>
                 k \in DOMAIN deviceMap /\ deviceMap'[k] = deviceMap[k]
           /\ \A u \in Threads \ {t}, i \in Slots : guestBP'[u][i] = guestBP[u][i]
  <1>1. \A u \in Threads \ {t}, i \in Slots : SwitchedSlots(K, FALSE)[u][i] = guestBP[u][i]
    <2>1. FALSE \in BOOLEAN
      OBVIOUS
    <2>2. QED  BY <2>1, SlotsOfOthers
  <1>2. \A k \in DOMAIN deviceMap : k \notin K => Flagged(deviceMap, K, TRUE)[k] = deviceMap[k]
    BY DEF Flagged
  <1>3. DOMAIN Flagged(deviceMap, K, TRUE) = DOMAIN deviceMap
    BY DEF Flagged
  <1>4. QED  BY <1>1, <1>2, <1>3 DEF End, SwitchedEvents

\* A device that is resumed watches.
LEMMA ResumedSeen ==
    ASSUME KInv, SlotsNeedHypervisor, NEW K \in SUBSET DOMAIN deviceMap, Switch(K, TRUE),
           UNCHANGED VCPUBPdeviceSlotMap, NEW k \in K
    PROVE  Seen(k)'
  <1>0. /\ k \in DOMAIN deviceMap /\ k = <<k[1], k[2]>> /\ k[1] \in Threads
        /\ deviceMap[k] \in Device
    BY DEF KInv, TypeOK
  <1>1. HeldSlots(k)' = HeldSlots(k)
    BY DEF HeldSlots
  <1>2. CASE HeldSlots(k) # {}
    <2>1. PICK i \in Slots : i \in HeldSlots(k) /\ VCPUBPdeviceSlotMap[k[1]][i] = k[2]
      BY <1>2 DEF HeldSlots
    <2>2. <<k[1], VCPUBPdeviceSlotMap[k[1]][i]>> \in K
      BY <1>0, <2>1
    <2>3. TRUE \in BOOLEAN
      OBVIOUS
    <2>4. SwitchedSlots(K, TRUE)[k[1]][i]
      BY <1>0, <2>2, <2>3, SwitchedSlot
    <2>5. QED  BY <1>1, <1>2, <2>1, <2>4 DEF Switch, Seen
  <1>3. CASE HeldSlots(k) = {}
    <2>1. ~ByHypervisor(k)
      BY <1>0, <1>3, OwnSlots
    <2>2. deviceMap'[k].on = "on"
      BY <1>0, <2>1 DEF Switch, SwitchedEvents, Device
    <2>3. QED  BY <1>1, <1>3, <2>2 DEF Seen
  <1>4. QED  BY <1>2, <1>3

\* A step of a VCPU leaves the other VCPUs' devices, slots and events alone, unless it calls
\* for all devices.
LEMMA OthersUntouched ==
    ASSUME KInv, ArmInv, ~allCalls, NEW t \in Threads, VCPU(t), NEW u \in Threads \ {t}
    PROVE  Untouched(u)
  <1> USE DEF Goto, session, maps, agent, calls
  <1>0. /\ pc \in [Threads -> PCs] /\ newDev \in [Threads -> NewDevice]
        /\ guest \in [Threads -> SUBSET GuestEvent]
        /\ DOMAIN deviceMap \subseteq Threads \X FDs
        /\ VCPUBPdeviceSlotMap \in [Threads -> [Slots -> FDs \cup {None}]]
        /\ guestBP \in [Threads -> [Slots -> BOOLEAN]]
        /\ SlotsNeedHypervisor
    BY DEF KInv, TypeOK, ArmInv
  <1>1. ASSUME UNCHANGED VCPUBPdeviceSlotMap,
               pc'[u] = pc[u] /\ newDev'[u] = newDev[u] /\ guest'[u] = guest[u],
               \A k \in DOMAIN deviceMap' : k[1] # t =>
                   k \in DOMAIN deviceMap /\ deviceMap'[k] = deviceMap[k],
               \A i \in Slots : guestBP'[u][i] = guestBP[u][i]
        PROVE  Untouched(u)
    BY <1>1 DEF Untouched
  <1>2. CASE \/ kvm__VCPU_start(t) \/ add_new_device(t) \/ add_new_device_to_session(t)
             \/ kvm__VCPU_end(t) \/ LockSession(t) \/ UnlockSession(t) \/ Close(t)
             \/ \E e \in guest[t] : \/ Skip(t, e) \/ NoDevice(t, e) \/ OnSample(t, e)
                                    \/ OnSampleFresh(t, e)
    <2>1. UNCHANGED <<VCPUBPdeviceSlotMap, guestBP>>
      BY <1>2 DEF kvm__VCPU_start, add_new_device, add_new_device_to_session, kvm__VCPU_end,
                  LockSession, UnlockSession, Close, Skip, NoDevice, OnSample, OnSampleFresh
    <2>2. pc'[u] = pc[u] /\ newDev'[u] = newDev[u] /\ guest'[u] = guest[u]
      BY <1>0, <1>2 DEF kvm__VCPU_start, add_new_device, add_new_device_to_session, kvm__VCPU_end,
                  LockSession, UnlockSession, Close, Skip, NoDevice, OnSample, OnSampleFresh,
                  Register, Returned
    <2>3. \A k \in DOMAIN deviceMap' : k[1] # t =>
             k \in DOMAIN deviceMap /\ deviceMap'[k] = deviceMap[k]
      <3>1. CASE add_new_device(t)
        <4> DEFINE new == <<t, newDev[t].fd>>
        <4>1. /\ DOMAIN deviceMap' = DOMAIN deviceMap \cup {new}
              /\ \A k \in DOMAIN deviceMap \ {new} : deviceMap'[k] = deviceMap[k]
          BY <3>1 DEF add_new_device
        <4>2. new[1] = t
          OBVIOUS
        <4> HIDE DEF new
        <4>3. QED  BY <4>1, <4>2
      <3>2. CASE UNCHANGED deviceMap
        BY <3>2
      <3>3. QED  BY <1>2, <3>1, <3>2 DEF kvm__VCPU_start, add_new_device_to_session, kvm__VCPU_end,
                  LockSession, UnlockSession, Close, Skip, NoDevice, OnSample, OnSampleFresh
    <2>4. QED  BY <1>1, <2>1, <2>2, <2>3
  <1>3. CASE \/ kvm__disableEBSDevicesThisSession(t)
             \/ resume_devices_by_session(t) \/ kvm__enableEBSDevicesThisSession(t)
    <2> USE DEF kvm__disableEBSDevicesThisSession, resume_devices_by_session,
                kvm__enableEBSDevicesThisSession
    <2> DEFINE K == NotDisabled(SessionDevices(t, sessionKey[t]))
    <2>1. K \in SUBSET DOMAIN deviceMap /\ \A k \in K : k[1] = t
      BY DEF NotDisabled, SessionDevices, DevicesOf
    <2>2. PICK b \in BOOLEAN : Switch(K, b)
      BY <1>3, Zenon DEF Resumable
    <2>3. UNCHANGED VCPUBPdeviceSlotMap /\ pc'[u] = pc[u] /\ newDev'[u] = newDev[u] /\ guest'[u] = guest[u]
      BY <1>0, <1>3
    <2> HIDE DEF K
    <2>4. /\ \A k \in DOMAIN deviceMap' : k[1] # t =>
                k \in DOMAIN deviceMap /\ deviceMap'[k] = deviceMap[k]
          /\ \A v \in Threads \ {t}, i \in Slots : guestBP'[v][i] = guestBP[v][i]
      BY <1>0, <2>1, <2>2, SwitchOfOthers
    <2>5. QED  BY <1>1, <2>3, <2>4
  <1>4. CASE kvm__disableAllEBSDevice(t) \/ TestAll(t) \/ ResumeAll(t)
    BY <1>4 DEF kvm__disableAllEBSDevice, TestAll, ResumeAll, ArmInv, ResumingAll
  <1>5. ASSUME NEW k \in DevicesOf(t), Fire(t, k) PROVE Untouched(u)
    <2>1. UNCHANGED <<pc, newDev, VCPUBPdeviceSlotMap, guestBP>> /\ guest'[u] = guest[u]
      BY <1>0, <1>5 DEF Fire
    <2>2. \A l \in DOMAIN deviceMap' : l[1] # t =>
             l \in DOMAIN deviceMap /\ deviceMap'[l] = deviceMap[l]
      BY <1>5 DEF Fire, SwitchedEvents, DevicesOf
    <2>3. QED  BY <1>1, <2>1, <2>2
  <1>6. ASSUME NEW K \in SUBSET DOMAIN deviceMap, \A k \in K : k[1] = t, End(K),
               UNCHANGED VCPUBPdeviceSlotMap,
               pc'[u] = pc[u] /\ newDev'[u] = newDev[u] /\ guest'[u] = guest[u]
        PROVE  Untouched(u)
    BY <1>0, <1>1, <1>6, EndOfOthers
  <1>7. ASSUME NEW e \in guest[t], NEW K \in SUBSET Breakpoints(t), OnTrigger(t, e, K)
        PROVE  Untouched(u)
    <2>1. K \in SUBSET DOMAIN deviceMap /\ \A k \in K : k[1] = t
      BY DEF Breakpoints, DevicesOf
    <2>2. /\ UNCHANGED VCPUBPdeviceSlotMap /\ End(K)
          /\ pc'[u] = pc[u] /\ newDev'[u] = newDev[u] /\ guest'[u] = guest[u]
      BY <1>0, <1>7 DEF OnTrigger, Returned
    <2>3. QED  BY <1>6, <2>1, <2>2
  <1>8. ASSUME NEW e \in guest[t], NEW k \in DOMAIN deviceMap, OnSampleModify(t, e, k)
        PROVE  Untouched(u)
    <2> DEFINE K == {k}
    <2>1. K \in SUBSET DOMAIN deviceMap /\ (\A l \in K : l[1] = t) /\ k[1] = t
      BY <1>8 DEF OnSampleModify, Breakpoints, DevicesOf
    <2>2. /\ UNCHANGED VCPUBPdeviceSlotMap
          /\ pc'[u] = pc[u] /\ newDev'[u] = newDev[u] /\ guest'[u] = guest[u]
      BY <1>0, <1>8 DEF OnSampleModify, Returned
    <2>3. CASE End({k})
      BY <1>6, <2>1, <2>2, <2>3
    <2>4. CASE deviceMap' = [Flagged(deviceMap, {k}, FALSE) EXCEPT ![k].on = "on"]
               /\ (guestBP' = SwitchedSlots({k}, TRUE) \/ guestBP' = SwitchedSlots({k}, FALSE))
      <3>1. \A l \in DOMAIN deviceMap' : l[1] # t =>
               l \in DOMAIN deviceMap /\ deviceMap'[l] = deviceMap[l]
        BY <2>1, <2>4 DEF Flagged
      <3>2. PICK b \in BOOLEAN : guestBP' = SwitchedSlots(K, b)
        BY <2>4
      <3> HIDE DEF K
      <3>3. \A i \in Slots : guestBP'[u][i] = guestBP[u][i]
        <4>1. \A v \in Threads \ {t}, i \in Slots : SwitchedSlots(K, b)[v][i] = guestBP[v][i]
          BY <1>0, <2>1, SlotsOfOthers
        <4>2. QED  BY <3>2, <4>1
      <3>4. QED  BY <1>1, <2>2, <3>1, <3>3
    <2>5. QED  BY <1>8, <2>3, <2>4, Zenon DEF OnSampleModify
  <1>9. ASSUME NEW k \in DevicesOf(t), DisArm(t, k) \/ RemoveOfSession(t, k)
        PROVE  Untouched(u)
    <2>1. {k} \in SUBSET DOMAIN deviceMap /\ \A l \in {k} : l[1] = t
      BY DEF DevicesOf
    <2>2. /\ UNCHANGED VCPUBPdeviceSlotMap /\ End({k})
          /\ pc'[u] = pc[u] /\ newDev'[u] = newDev[u] /\ guest'[u] = guest[u]
      BY <1>0, <1>9 DEF DisArm, RemoveOfSession, Take
    <2>3. QED  BY <1>6, <2>1, <2>2
  <1>10. CASE registerDevice(t)
    <2>1. /\ UNCHANGED <<deviceMap, guest>> /\ pc'[u] = pc[u] /\ newDev'[u] = newDev[u]
      BY <1>0, <1>10 DEF registerDevice
    <2>2. \A i \in Slots : /\ VCPUBPdeviceSlotMap'[u][i] = VCPUBPdeviceSlotMap[u][i]
                           /\ guestBP'[u][i] = guestBP[u][i]
      BY <1>0, <1>10 DEF registerDevice
    <2>3. QED  BY <2>1, <2>2 DEF Untouched
  <1>11. CASE unRegisterDevice(t)
    <2> DEFINE fd == newDev[t].fd
    <2>1. /\ pc[t] = "closed" /\ UNCHANGED <<guestBP, guest>>
          /\ pc'[u] = pc[u] /\ newDev'[u] = newDev[u]
          /\ \A k \in DOMAIN deviceMap' : k \in DOMAIN deviceMap /\ deviceMap'[k] = deviceMap[k]
      BY <1>0, <1>11 DEF unRegisterDevice
    <2>2. <<t, fd>> \in DOMAIN deviceMap /\ fd \in FDs /\ fd # None
      BY <1>0, <2>1, KvmAssumption DEF KInv, Mapped, Removing, Current
    <2>3. \A i \in Slots : VCPUBPdeviceSlotMap[u][i] # fd
      <3> SUFFICES ASSUME NEW i \in Slots, VCPUBPdeviceSlotMap[u][i] = fd PROVE FALSE
        OBVIOUS
      <3>1. <<u, fd>> \in DOMAIN deviceMap
        BY <2>2 DEF KInv, SlotsAgree
      <3>2. <<u, fd>> = <<t, fd>>
        BY <2>2, <3>1 DEF KInv, OneOwner
      <3>3. QED  BY <3>2
    <2>4. \A i \in Slots : VCPUBPdeviceSlotMap'[u][i] = VCPUBPdeviceSlotMap[u][i]
      BY <1>0, <1>11, <2>3 DEF unRegisterDevice, SlotsFreed
    <2>5. QED  BY <2>1, <2>4 DEF Untouched
  <1>12. QED  BY <1>2, <1>3, <1>4, <1>5, <1>7, <1>8, <1>9, <1>10, <1>11, Zenon
              DEF VCPU, kvm__doneEventProcessing_HyPerf

\* A thread that is not filing or removing a device finds all its devices in its session.
LEMMA AllListed ==
    ASSUME KInv, SessionInv, NEW t \in Threads, pc[t] \in {"guest", "resume"}
    PROVE  SessionDevices(t, sessionKey[t]) = DevicesOf(t)
  BY DEF SessionInv, Listed, SessionDevices, DevicesOf, Removing

\* A step of a VCPU: paused devices are resumed before it runs without an event.
LEMMA OwnPause ==
    ASSUME KInv, SessionInv, ArmInv, ~allCalls, NEW t \in Threads, VCPU(t),
           Awake(t), FirstNew(t)
    PROVE  Awake(t)' /\ FirstNew(t)'
  <1> USE DEF Goto, session, maps, agent, calls
  <1>0. /\ pc \in [Threads -> PCs] /\ newDev \in [Threads -> NewDevice]
        /\ guest \in [Threads -> SUBSET GuestEvent]
        /\ DOMAIN deviceMap \subseteq Threads \X FDs
        /\ SlotsNeedHypervisor
    BY DEF KInv, TypeOK, ArmInv
  <1>1. CASE kvm__VCPU_start(t)
    <2>1. DevicesOf(t)' = {}
      BY <1>1 DEF kvm__VCPU_start, SessionInv, Listed, DevicesOf
    <2>2. QED  BY <2>1 DEF Awake, FirstNew, NotDisabled
  <1>2. CASE add_new_device(t)
    <2> DEFINE new == <<t, newDev[t].fd>>
    <2>1. /\ pc[t] = "opened" /\ pc'[t] = "added" /\ UNCHANGED newDev
          /\ DOMAIN deviceMap' = DOMAIN deviceMap \cup {new}
          /\ \A k \in DOMAIN deviceMap \ {new} : deviceMap'[k] = deviceMap[k]
          /\ newDev[t].type = "PEBS" => deviceMap'[new].on = "new"
      BY <1>0, <1>2 DEF add_new_device, OpenedSampling
    <2> HIDE DEF new
    <2>2. FirstNew(t)'
      BY <2>1 DEF FirstNew, DevicesOf, Registering
    <2>3. QED  BY <2>1, <2>2 DEF Awake
  <1>3. CASE add_new_device_to_session(t)
    <2>1. pc[t] = "added" /\ pc'[t] = "linked" /\ UNCHANGED <<newDev, deviceMap>>
      BY <1>0, <1>3 DEF add_new_device_to_session
    <2>2. QED  BY <2>1 DEF Awake, FirstNew, DevicesOf, Registering
  <1>4. CASE registerDevice(t)
    <2>1. /\ pc[t] = "linked" /\ UNCHANGED deviceMap
          /\ pc'[t] = IF newDev[t].type = "PEBS" THEN "guest" ELSE "resume"
      BY <1>0, <1>4 DEF registerDevice
    <2>2. FirstNew(t)'
      BY <2>1 DEF FirstNew, Registering
    <2>3. CASE newDev[t].type = "PEBS"
      <3>1. \A k \in DevicesOf(t)' : deviceMap'[k].on = "new"
        BY <2>1, <2>3 DEF FirstNew, DevicesOf, Registering
      <3>2. QED  BY <2>2, <3>1 DEF Awake, NotDisabled
    <2>4. CASE newDev[t].type # "PEBS"
      BY <2>1, <2>2, <2>4 DEF Awake
    <2>5. QED  BY <2>3, <2>4
  <1>5. ASSUME NEW k \in DevicesOf(t), Fire(t, k) PROVE Awake(t)' /\ FirstNew(t)'
    <2>1. pc[t] = "guest" /\ UNCHANGED pc /\ guest'[t] # {}
      BY <1>0, <1>5 DEF Fire
    <2>2. QED  BY <2>1 DEF Awake, FirstNew, Registering
  <1>6. CASE kvm__disableEBSDevicesThisSession(t)
    <2>1. pc[t] = "guest" /\ UNCHANGED pc /\ guest'[t] # {}
      BY <1>0, <1>6 DEF kvm__disableEBSDevicesThisSession
    <2>2. QED  BY <2>1 DEF Awake, FirstNew, Registering
  <1>7. CASE kvm__disableAllEBSDevice(t) \/ TestAll(t) \/ ResumeAll(t)
    BY <1>7 DEF kvm__disableAllEBSDevice, TestAll, ResumeAll, ArmInv, ResumingAll
  <1>8. CASE resume_devices_by_session(t) \/ kvm__enableEBSDevicesThisSession(t)
    <2> USE DEF resume_devices_by_session, kvm__enableEBSDevicesThisSession
    <2>1. /\ pc[t] \in {"guest", "resume"} /\ pc'[t] = "guest" /\ Switch(Resumable(t), TRUE)
          /\ UNCHANGED VCPUBPdeviceSlotMap
      BY <1>0, <1>8
    <2>2. Resumable(t) = NotDisabled(DevicesOf(t))
      BY <2>1, AllListed DEF Resumable
    <2>3. Resumable(t) \in SUBSET DOMAIN deviceMap
      BY <2>2 DEF NotDisabled, DevicesOf
    <2>4. \A k \in Resumable(t) : Seen(k)'
      BY <1>0, <2>1, <2>3, ResumedSeen
    <2>5. NotDisabled(DevicesOf(t))' \subseteq Resumable(t)
      <3>1. /\ DOMAIN deviceMap' = DOMAIN deviceMap
            /\ \A k \in DOMAIN deviceMap : deviceMap'[k].isDisabled = deviceMap[k].isDisabled
        <4>1. (\A k \in DOMAIN deviceMap : deviceMap[k] \in Device) /\ TRUE \in BOOLEAN
          BY DEF KInv, TypeOK
        <4>2. QED  BY <2>1, <4>1, SwitchedEventsFacts DEF Switch
      <3>2. QED  BY <2>2, <3>1 DEF NotDisabled, DevicesOf
    <2>6. Awake(t)'
      BY <2>4, <2>5 DEF Awake
    <2>7. QED  BY <2>1, <2>6 DEF FirstNew, Registering
  <1>9. CASE \/ \E e \in guest[t] : kvm__doneEventProcessing_HyPerf(t, e)
             \/ kvm__VCPU_end(t) \/ LockSession(t) \/ UnlockSession(t)
             \/ \E k \in DevicesOf(t) : DisArm(t, k) \/ RemoveOfSession(t, k)
             \/ Close(t) \/ unRegisterDevice(t)
    <2>1. /\ pc'[t] # "guest"
          /\ pc'[t] \in Registering => newDev'[t].type = "BP"
      <3>1. CASE \E e \in guest[t] : kvm__doneEventProcessing_HyPerf(t, e)
        <4>1. PICK e \in guest[t] : kvm__doneEventProcessing_HyPerf(t, e)
          BY <3>1
        <4>2. CASE OnSampleFresh(t, e)
          <5>1. \/ pc'[t] = "opened" /\ newDev'[t] = [fd |-> newDev'[t].fd, type |-> "BP"]
                \/ pc'[t] = "resume"
            BY <1>0, <4>2 DEF OnSampleFresh, Register
          <5>2. QED  BY <5>1 DEF Registering
        <4>3. CASE Skip(t, e) \/ NoDevice(t, e) \/ OnSample(t, e)
          BY <1>0, <4>3 DEF Skip, NoDevice, OnSample, Registering
        <4>4. CASE \/ \E k \in DOMAIN deviceMap : OnSampleModify(t, e, k)
                   \/ \E K \in SUBSET Breakpoints(t) : OnTrigger(t, e, K)
          <5>1. Goto(t, "guest", "resume")
            BY <4>4, Zenon DEF OnSampleModify, OnTrigger
          <5>2. QED  BY <1>0, <5>1 DEF Registering
        <4>5. QED  BY <4>1, <4>2, <4>3, <4>4 DEF kvm__doneEventProcessing_HyPerf
      <3>2. CASE \/ kvm__VCPU_end(t) \/ LockSession(t) \/ UnlockSession(t)
                 \/ \E k \in DevicesOf(t) : DisArm(t, k) \/ RemoveOfSession(t, k)
                 \/ Close(t) \/ unRegisterDevice(t)
        BY <1>0, <3>2 DEF kvm__VCPU_end, LockSession, UnlockSession, DisArm, RemoveOfSession,
                          Close, unRegisterDevice, Registering
      <3>3. QED  BY <1>9, <3>1, <3>2
    <2>2. QED  BY <2>1 DEF Awake, FirstNew
  <1>10. QED  BY <1>1, <1>2, <1>3, <1>4, <1>5, <1>6, <1>7, <1>8, <1>9, Zenon DEF VCPU

\* When the guest has handed back a VCPU's events, by whichever way done_processEvent took,
\* every device of the VCPU that is not disabled watches again, also where the breakpoint
\* moved between the hypervisor's slot and the host's event; the sampling device from the
\* first time the guest's driver enabled it.
THEOREM PausedAreResumed == Spec => []NoneLeftPaused
  <1>1. Init => PauseInv
    BY DEF Init, PauseInv, Awake, FirstNew, Registering
  <1>2. KInv /\ SessionInv /\ ArmInv /\ PauseInv /\ [Next]_vars => PauseInv'
    <2> SUFFICES ASSUME KInv, SessionInv, ArmInv, PauseInv, [Next]_vars PROVE PauseInv'
      OBVIOUS
    <2>1. CASE set_hyPerfDev \/ UNCHANGED vars
      <3>1. UNCHANGED <<pc, newDev, guest, deviceMap, VCPUBPdeviceSlotMap, guestBP, allCalls>>
        BY <2>1 DEF set_hyPerfDev, vars, session, maps, agent, calls
      <3>2. \A k : Seen(k)' <=> Seen(k)
        BY <3>1 DEF Seen, HeldSlots
      <3>3. \A t \in Threads : (Awake(t) => Awake(t)') /\ (FirstNew(t) => FirstNew(t)')
        BY <3>1, <3>2 DEF Awake, FirstNew, NotDisabled, DevicesOf
      <3>4. QED  BY <3>1, <3>3 DEF PauseInv
    <2>2. ASSUME NEW t \in Threads, VCPU(t), ~allCalls' PROVE PauseInv'
      <3>1. ~allCalls
        BY <2>2 DEF VCPU, kvm__VCPU_start, add_new_device, add_new_device_to_session,
           registerDevice, Fire, kvm__disableEBSDevicesThisSession, kvm__disableAllEBSDevice,
           TestAll, ResumeAll, kvm__doneEventProcessing_HyPerf, Skip, NoDevice, OnSample,
           OnSampleFresh, OnSampleModify, OnTrigger, resume_devices_by_session,
           kvm__enableEBSDevicesThisSession, kvm__VCPU_end, DisArm, RemoveOfSession, Take,
           LockSession, UnlockSession, Close, unRegisterDevice, calls
      <3>2. \A u \in Threads : Awake(u) /\ FirstNew(u)
        BY <3>1 DEF PauseInv
      <3>3. Awake(t)' /\ FirstNew(t)'
        BY <2>2, <3>1, <3>2, OwnPause
      <3>4. \A u \in Threads \ {t} : Awake(u)' /\ FirstNew(u)'
        BY <2>2, <3>1, <3>2, OthersUntouched, UntouchedKeeps
      <3>5. QED  BY <3>3, <3>4 DEF PauseInv
    <2>3. QED  BY <2>1, <2>2 DEF Next, PauseInv
  <1>3. KInv /\ ArmInv /\ PauseInv => NoneLeftPaused
    <2> SUFFICES ASSUME KInv, ArmInv, PauseInv, ~allCalls, NEW t \in Threads, pc[t] = "guest",
                        guest[t] = {}, NEW k \in NotDisabled(DevicesOf(t))
                 PROVE  Watches(k) \/ deviceMap[k].on = "new"
      BY DEF NoneLeftPaused
    <2>1. k \in DOMAIN deviceMap /\ SlotsNeedHypervisor
      BY DEF NotDisabled, DevicesOf, ArmInv
    <2>2. Seen(k) \/ deviceMap[k].on = "new"
      BY DEF PauseInv, Awake
    <2>3. QED  BY <2>1, <2>2, SeenWatches
  <1>4. QED  BY <1>1, <1>2, <1>3, KvmInductive, SessionInductive, ArmInductive, PTL DEF Spec

=============================================================================
