----------------------------- MODULE Watchpoint -----------------------------
(***************************************************************************)
(* The watchpoint library of the Witch tool                                *)
(* (src/tools/witchTool/watchpoint-lib/src/watchpoint.cpp): the table of   *)
(* hardware watchpoint slots of ONE thread, the breakpoint devices behind  *)
(* the slots and the sampled events the slots point to.                    *)
(*                                                                         *)
(* The table lives in thread-specific data, and the handlers that touch it *)
(* run one at a time on its thread: from the signal handler, installed     *)
(* with a full sa_mask, or, under the KVM agent, from the calls in which   *)
(* the VCPU thread hands back the guest's events. A handler is therefore   *)
(* one action. Other threads reach this state only through                 *)
(* pause_all_devices and resume_all_devices; WP_ThreadTerminate runs       *)
(* outside the handlers and is a sequence of steps that signals may        *)
(* interrupt.                                                              *)
(*                                                                         *)
(* A device that fires leaves a record in its ring buffer and queues a     *)
(* signal. A handler reads the whole ring and keeps the newest record, so  *)
(* that the signals of the records it has read find the ring empty.        *)
(***************************************************************************)
EXTENDS Integers, FiniteSets

CONSTANTS
    MaxWP,          \* wpConfig.maxWP: breakpoint devices the kernel granted at start-up
    FDs,            \* file descriptors the kernel may hand out
    Addrs,          \* sampled data addresses (never 0: the PEBS handler drops 0)
    AccessLens,     \* access lengths the instruction decoder may report
    ModifyEnabled,  \* wpConfig.isWPModifyEnabled: a device can be re-aimed in place
    InstWatch,      \* TRUE for DupSpy, whose watchpoints are WP_INST and whose va is an ip
    Concurrent,     \* TRUE when other monitored threads pause and resume all devices
    MaxEvents,      \* bound: samples taken in one behaviour
    MaxPending      \* bound: undelivered watchpoint signals

\* Five slots are what WP_ThreadData_t has room for; the code never compares
\* maxWP with MAX_WP_SLOTS.
MAX_WP_SLOTS == 5

SAMPLES_POST_FULL_RESET_VAL == 1

ASSUME WPAssumption ==
    /\ MaxWP \in 1..MAX_WP_SLOTS
    /\ FDs \subseteq Nat
    /\ Addrs \subseteq Nat \ {0}
    /\ AccessLens \subseteq Nat
    /\ ModifyEnabled \in BOOLEAN
    /\ InstWatch \in BOOLEAN
    /\ Concurrent \in BOOLEAN
    /\ MaxEvents \in Nat
    /\ MaxPending \in Nat

VARIABLES
    tData,          \* "none", "live" (TD_GET() is not NULL) or "term" (being dismantled)
    wp,             \* tData->watchPointArray
    deviceMap,      \* this thread's breakpoint devices, by file descriptor
    pending,        \* raised and not yet handled watchpoint signals
    ring,           \* by descriptor, the address in the newest unread record of the ring
    nextEvent,      \* id of the next sampled event
    freed,          \* ids of the sampled events that were deleted
    exited,         \* the library called exit(0), or the process died of a wild read
    badReads        \* history: reads through event pointers that are deleted or not set

vars == <<tData, wp, deviceMap, pending, ring, nextEvent, freed, exited, badReads>>

Slots == 0 .. MaxWP - 1
WPLengths == {1, 2, 4, 8}

\* No address: the ring holds no unread record.
NoAddr == 0

\* An uninitialised or never set sampledEvent pointer: no event has id 0.
NoEvent == [id |-> 0, data_addr |-> NoAddr]

SampledEvent == [id : Nat, data_addr : Nat]

\* WP_RegisterInfo_t
RegisterInfo ==
    [isActive : BOOLEAN, fileHandle : FDs \cup {-1}, va : Nat, wpLength : WPLengths,
     sampledEvent : SampledEvent, samplePostFull : Nat]

\* BPDevice: the interval it watches, the software flag isDisabled, and whether
\* the hardware counts.
BPDevice == [address : Nat, length : WPLengths, isDisabled : BOOLEAN, hw : BOOLEAN]

\* A queued watchpoint signal, which carries its descriptor only; n tells the signals of
\* one arming apart. Not visible to the code: ev, the event of the arming that raised it,
\* and read, whether an earlier signal's handler has read its record.
Trigger == [n : 1 .. MaxPending, fd : FDs, ev : Nat, read : BOOLEAN]

\* A read through an event pointer: where, and what became of the event.
EventRead == [site : {"log", "search", "report"}, state : {"unset", "deleted"}]

-----------------------------------------------------------------------------
(* Geometry of watched intervals                                           *)

GetFloorWPLength(accessLen) ==
    CASE accessLen \in 4..7 -> 4
      [] accessLen \in 2..3 -> 2
      [] accessLen = 1      -> 1
      [] OTHER              -> 8

IS_ALIGNED(address, alignment) == address % alignment = 0

ADDRESSES_OVERLAP(addr1, len1, addr2, len2) ==
    addr1 + len1 > addr2 /\ addr2 + len2 > addr1

ValidateWPData(va, wpLength) == wpLength \in WPLengths /\ IS_ALIGNED(va, wpLength)

\* Mutant: a watchpoint is compared by its first byte only.
IsOverlappedFirstByte(va, wpLength) ==
    /\ tData = "live"
    /\ \E i \in Slots :
          wp[i].isActive /\ wp[i].va <= va /\ va < wp[i].va + wp[i].wpLength

IsOveralpped(va, wpLength) ==
    /\ tData = "live"
    /\ \E i \in Slots :
          /\ wp[i].isActive
          /\ ADDRESSES_OVERLAP(wp[i].va, wp[i].wpLength, va, wpLength)

-----------------------------------------------------------------------------
(* Devices                                                                 *)

\* registerDevice of a new BPDevice: opened with attr.disabled = 0. address is the
\* device's own field, the interval the slot is after: the KVM agent opens the
\* perf_event on a dummy variable and watches the interval inside the guest.
AddDevice(devs, fd, va, len) ==
    [f \in DOMAIN devs \cup {fd} |->
        IF f = fd THEN [address |-> va, length |-> len, isDisabled |-> FALSE, hw |-> TRUE]
                  ELSE devs[f]]

\* remove_device: the device is ended, unmapped, closed and erased from the map.
RemoveDevice(devs, fd) == [f \in DOMAIN devs \ {fd} |-> devs[f]]

\* Mutant: disable_device without the flag isDisabled.
EndDevicesPaused(devs, fds, late) ==
    [f \in DOMAIN devs |-> IF f \in fds THEN [devs[f] EXCEPT !.hw = f \in late] ELSE devs[f]]

\* end_device of DisableWatchpoint, which does not hold devicemap_mtx: of the devices
\* that end, the ones in late are enabled again by another thread's
\* resume_all_devices that had tested isDisabled before it was set.
EndDevices(devs, fds, late) ==
    [f \in DOMAIN devs |->
        IF f \in fds THEN [devs[f] EXCEPT !.isDisabled = TRUE, !.hw = f \in late] ELSE devs[f]]

LateResumes(fds) == IF Concurrent THEN SUBSET fds ELSE {{}}

\* updateBPAddress followed by start_device
UpdateBPAddress(devs, fd, va, len) ==
    [devs EXCEPT ![fd] = [address |-> va, length |-> len, isDisabled |-> FALSE, hw |-> TRUE]]

\* Mutant: every device is enabled, ended or not.
ResumedAll(devs) == [f \in DOMAIN devs |-> [devs[f] EXCEPT !.hw = TRUE]]

\* resume_all_devices and resume_devices_by_session: only devices that were not ended.
Resumed(devs) ==
    [f \in DOMAIN devs |-> [devs[f] EXCEPT !.hw = IF devs[f].isDisabled THEN @ ELSE TRUE]]

\* pause_all_devices and pause_devices_by_session
Paused(devs) == [f \in DOMAIN devs |-> [devs[f] EXCEPT !.hw = FALSE]]

\* Mutant: the records of all descriptors are dropped.
RingLostAll(r, fds) == [f \in FDs |-> NoAddr]

\* Closing descriptors unmaps their rings; the signals stay queued.
RingLost(r, fds) == [f \in FDs |-> IF f \in fds THEN NoAddr ELSE r[f]]

\* handle_perf_event reads all the records of the ring, each over the one before,
RingRead(fd) == [ring EXCEPT ![fd] = NoAddr]

\* and leaves the other signals of this descriptor without a record.
SignalsLeft(p) ==
    {IF q.fd = p.fd THEN [q EXCEPT !.read = TRUE] ELSE q : q \in pending \ {p}}

\* The address in the Event that handle_perf_event returns. From an empty ring the
\* Event keeps the value its memory held before: data_addr is not initialised.
EventAddrs(fd) == IF ring[fd] = NoAddr THEN Addrs \cup {NoAddr} ELSE {ring[fd]}

-----------------------------------------------------------------------------
(* Slots                                                                   *)

\* DisableWatchpoint, the slot's half: the descriptor is kept.
Disabled(s) == [s EXCEPT !.isActive = FALSE]

\* DisArm, the slot's half.
DisArmed(s) == [s EXCEPT !.isActive = FALSE, !.fileHandle = -1]

\* Mutant: the slot keeps the event of its last arming.
ArmedStaleEvent(s, fd, va, len, event) ==
    [s EXCEPT !.isActive = TRUE, !.fileHandle = fd, !.va = va, !.wpLength = len]

\* Mutant: the slot keeps the length of its last arming.
ArmedStaleLength(s, fd, va, len, event) ==
    [s EXCEPT !.isActive = TRUE, !.fileHandle = fd, !.va = va, !.sampledEvent = event]

\* The last lines of CreateWatchPoint.
Armed(s, fd, va, len, event) ==
    [s EXCEPT !.isActive = TRUE, !.fileHandle = fd, !.va = va, !.wpLength = len,
              !.sampledEvent = event]

\* Mutant: nothing is counted while a slot is free.
SurvivedWhenFull(slots) ==
    [i \in Slots |->
        IF \A j \in Slots : slots[j].isActive THEN [slots[i] EXCEPT !.samplePostFull = @ + 1]
                                              ELSE slots[i]]

\* GetVictim's counters: every watchpoint that was active when the sample came
\* has survived one more sample, the chosen victim included.
Survived(slots) ==
    [i \in Slots |->
        IF slots[i].isActive THEN [slots[i] EXCEPT !.samplePostFull = @ + 1] ELSE slots[i]]

Inactive == {i \in Slots : ~wp[i].isActive}

\* Mutant: an armed slot may be taken while another is free.
AnyVictim(i) == i \in Slots

\* GetVictim under WP_REPLACEMENT_AUTO, the only policy WP_Init selects: the
\* first inactive slot; or any slot, each being replaced with a probability that
\* is neither 0 nor 1.
GetVictim(i) ==
    IF Inactive # {} THEN i \in Inactive /\ \A j \in Inactive : i <= j ELSE i \in Slots

\* The other outcome of WP_REPLACEMENT_AUTO: no slot is given up.
NoVictim == Inactive = {}

\* CreateWatchPoint with modify: DisableWatchpoint, updateBPAddress and, when the
\* device took the new address, EnableWatchpoint and the slot's new contents.
ModifyWatchPoint(i, va, len, event) ==
    LET fd   == wp[i].fileHandle
        next == Survived(wp)
    IN  /\ \/ /\ wp' = [next EXCEPT ![i] = Armed(next[i], fd, va, len, event)]
              /\ deviceMap' = Resumed(UpdateBPAddress(deviceMap, fd, va, len))
           \/ /\ wp' = [next EXCEPT ![i] = Disabled(next[i])]
              /\ \E late \in LateResumes({fd}) :
                    deviceMap' = Resumed(EndDevices(deviceMap, {fd}, late))
        /\ UNCHANGED ring

\* ArmWatchPoint's other branch: DisArm if active, then CreateWatchPoint with a
\* fresh device, which may fail to register.
FreshWatchPoint(i, va, len, event) ==
    LET next == Survived(wp)
        devs == IF wp[i].isActive THEN RemoveDevice(deviceMap, wp[i].fileHandle)
                                  ELSE deviceMap
    IN  /\ \/ \E fd \in FDs \ DOMAIN devs :
                 /\ wp' = [next EXCEPT ![i] = Armed(next[i], fd, va, len, event)]
                 /\ deviceMap' = Resumed(AddDevice(devs, fd, va, len))
           \/ /\ wp' = [next EXCEPT ![i] = DisArmed(next[i])]
              /\ deviceMap' = Resumed(devs)
        /\ ring' = IF wp[i].isActive THEN RingLost(ring, {wp[i].fileHandle}) ELSE ring

ArmWatchPoint(i, va, len, event) ==
    IF ModifyEnabled /\ wp[i].fileHandle # -1
    THEN ModifyWatchPoint(i, va, len, event)
    ELSE FreshWatchPoint(i, va, len, event)

-----------------------------------------------------------------------------
(* Interface                                                               *)

\* WP_ThreadInit: a malloc'd table, so va, wpLength and sampledEvent hold garbage
\* until a slot is armed; no code path may depend on them.
WP_ThreadInit ==
    /\ ~exited
    /\ tData = "none"
    /\ tData' = "live"
    /\ wp' = [i \in Slots |->
                [isActive |-> FALSE, fileHandle |-> -1, va |-> 0, wpLength |-> 1,
                 sampledEvent |-> NoEvent,
                 samplePostFull |-> SAMPLES_POST_FULL_RESET_VAL]]
    /\ UNCHANGED <<deviceMap, pending, ring, nextEvent, freed, exited, badReads>>

\* WP_Subscribe from the PEBS handler, which ignores its result and ends, like
\* every handler, by resuming the devices. Without a victim, and when the sample is
\* refused, the event stays allocated.
WP_Subscribe(va, accessLen) ==
    LET len   == IF InstWatch THEN 8 ELSE GetFloorWPLength(accessLen)
        event == [id |-> nextEvent, data_addr |-> va]
    IN  /\ ~exited
        /\ tData # "none"
        /\ nextEvent <= MaxEvents
        /\ nextEvent' = nextEvent + 1
        /\ \/ /\ \/ ~InstWatch /\ ~ValidateWPData(va, len)
                 \/ IsOveralpped(va, len)
                 \/ tData # "live"
              /\ deviceMap' = Resumed(deviceMap)
              /\ UNCHANGED <<wp, ring>>
           \/ /\ InstWatch \/ ValidateWPData(va, len)
              /\ ~IsOveralpped(va, len)
              /\ tData = "live"
              /\ \/ \E i \in Slots : GetVictim(i) /\ ArmWatchPoint(i, va, len, event)
                 \/ /\ NoVictim
                    /\ wp' = Survived(wp)
                    /\ deviceMap' = Resumed(deviceMap)
                    /\ UNCHANGED ring
        /\ UNCHANGED <<tData, pending, freed, exited, badReads>>

\* tool_PEBSEventHandler without a subscription: an address or IP that is zero or out
\* of range, an IP that cannot be fixed, an instruction to skip, or a client that
\* refuses the sample.
SampleDropped ==
    /\ ~exited
    /\ deviceMap' = Resumed(deviceMap)
    /\ UNCHANGED <<tData, wp, pending, ring, nextEvent, freed, exited, badReads>>

tool_PEBSEventHandler ==
    \/ SampleDropped
    \/ \E va \in Addrs, accessLen \in AccessLens : WP_Subscribe(va, accessLen)

\* The test of OnWatchPoint's search for the slot that fired.
Matches(i, fd, addr) ==
    /\ wp[i].isActive
    /\ wp[i].fileHandle = fd
    /\ wp[i].sampledEvent.data_addr = addr

\* DisableWatchpointWrapper: keep the device and end it, or give it up.
SwitchedOff(s) == IF ModifyEnabled THEN Disabled(s) ELSE DisArmed(s)

DevicesOff(fds, late) ==
    IF ModifyEnabled THEN EndDevices(deviceMap, fds, late)
                     ELSE [f \in DOMAIN deviceMap \ fds |-> deviceMap[f]]

RingOff(fd, fds) == IF ModifyEnabled THEN RingRead(fd) ELSE RingLost(RingRead(fd), fds)

\* "Reset per WP probability"
ResetProbability(s) == [s EXCEPT !.samplePostFull = SAMPLES_POST_FULL_RESET_VAL]

\* What slot i's sampledEvent points to: nothing before its first arming, since the table
\* is malloc'd; an event that may have been deleted afterwards.
EventState(i) ==
    IF wp[i].sampledEvent.id = NoEvent.id THEN "unset"
    ELSE IF wp[i].sampledEvent.id \in freed THEN "deleted" ELSE "live"

DeadReads(site, slots) ==
    {[site |-> site, state |-> EventState(i)] : i \in {j \in slots : EventState(j) # "live"}}

\* The line that logs the search reads the event of slot 0, active or not; the search
\* reads the events of the active slots that own the descriptor.
SearchReads(fd) ==
    DeadReads("log", {0})
        \cup DeadReads("search", {i \in Slots : wp[i].isActive /\ wp[i].fileHandle = fd})

\* The report of an unknown trigger reads the event of every slot. It is left out when
\* the address is oldBadAddress, which is 0 until the report that ends the process.
ReportReads(addr) == IF addr = NoAddr THEN {} ELSE DeadReads("report", Slots)

\* OnWatchPoint, case WP_DISABLE: also the outcome of a zero h_ip_addr and of an IP
\* that cannot be fixed. The clean-up deletes the slot's sampledEvent and leaves the
\* pointer in the slot.
OnDisable(p, i) ==
    /\ wp' = [wp EXCEPT ![i] = ResetProbability(SwitchedOff(wp[i]))]
    /\ \E late \in LateResumes({wp[i].fileHandle}) :
          deviceMap' = Resumed(DevicesOff({wp[i].fileHandle}, late))
    /\ ring' = RingOff(p.fd, {wp[i].fileHandle})
    /\ freed' = freed \cup {wp[i].sampledEvent.id}
    /\ UNCHANGED exited

\* Case WP_DISABLE_ALL; the clean-up still deletes one sampledEvent only.
OnDisableAll(p, i) ==
    LET fds == {wp[j].fileHandle : j \in Slots \ Inactive}
    IN  /\ wp' = [j \in Slots |->
                    ResetProbability(IF wp[j].isActive THEN SwitchedOff(wp[j]) ELSE wp[j])]
        /\ \E late \in LateResumes(fds) : deviceMap' = Resumed(DevicesOff(fds, late))
        /\ ring' = RingOff(p.fd, fds)
        /\ freed' = freed \cup {wp[i].sampledEvent.id}
        /\ UNCHANGED exited

\* Case WP_RETAIN: returns before the clean-up.
OnRetain(p) ==
    /\ ring' = RingRead(p.fd)
    /\ deviceMap' = Resumed(deviceMap)
    /\ UNCHANGED <<wp, freed, exited>>

\* The thread's table is gone: nothing but the event of the signal itself is deleted.
OnNoTable(p) ==
    /\ tData # "live"
    /\ ring' = RingRead(p.fd)
    /\ deviceMap' = Resumed(deviceMap)
    /\ UNCHANGED <<wp, freed, exited, badReads>>

\* "WP trigger did not match any known active WP": exit(0).
OnUnknown(p, addr) ==
    /\ \A i \in Slots : ~Matches(i, p.fd, addr)
    /\ exited' = TRUE
    /\ ring' = RingRead(p.fd)
    /\ badReads' = badReads \cup SearchReads(p.fd) \cup ReportReads(addr)
    /\ UNCHANGED <<wp, deviceMap, freed>>

\* The slot that fired is found and the client gives its verdict.
OnKnown(p, addr) ==
    /\ \E i \in Slots :
          /\ Matches(i, p.fd, addr)
          /\ \/ OnDisable(p, i)
             \/ OnDisableAll(p, i)
             \/ OnRetain(p)
    /\ badReads' = badReads \cup SearchReads(p.fd)

\* A read through a pointer to no event may end the process before the search does.
OnFault(p) ==
    /\ SearchReads(p.fd) # {}
    /\ exited' = TRUE
    /\ ring' = RingRead(p.fd)
    /\ badReads' = badReads \cup SearchReads(p.fd)
    /\ UNCHANGED <<wp, deviceMap, freed>>

\* generic_dev_signal_handler drops a signal that finds no device, or that arrives inside
\* signal-unsafe code: the ring is not read.
OnDropped(p) ==
    /\ pending' = pending \ {p}
    /\ deviceMap' = Resumed(deviceMap)
    /\ UNCHANGED <<wp, ring, freed, exited, badReads>>

OnWatchPoint(p) ==
    /\ ~exited
    /\ \/ OnDropped(p)
       \/ /\ p.fd \in DOMAIN deviceMap
          /\ pending' = SignalsLeft(p)
          /\ \/ OnNoTable(p)
             \/ /\ tData = "live"
                /\ \E addr \in EventAddrs(p.fd) :
                      OnKnown(p, addr) \/ OnUnknown(p, addr) \/ OnFault(p)
    /\ UNCHANGED <<tData, nextEvent>>

\* WP_ThreadTerminate clears the thread-specific pointer first,
TerminateBegin ==
    /\ ~exited
    /\ tData = "live"
    /\ tData' = "term"
    /\ UNCHANGED <<wp, deviceMap, pending, ring, nextEvent, freed, exited, badReads>>

\* disarms the slots that own a descriptor one after the other,
TerminateDisArm(i) ==
    /\ ~exited
    /\ tData = "term"
    /\ wp[i].fileHandle # -1
    /\ \A j \in 0 .. i - 1 : wp[j].fileHandle = -1
    /\ wp' = [wp EXCEPT ![i] = DisArmed(wp[i])]
    /\ deviceMap' = RemoveDevice(deviceMap, wp[i].fileHandle)
    /\ ring' = RingLost(ring, {wp[i].fileHandle})
    /\ UNCHANGED <<tData, pending, nextEvent, freed, exited, badReads>>

\* and frees the table. The thread may start a session again.
TerminateEnd ==
    /\ ~exited
    /\ tData = "term"
    /\ \A i \in Slots : wp[i].fileHandle = -1
    /\ tData' = "none"
    /\ UNCHANGED <<wp, deviceMap, pending, ring, nextEvent, freed, exited, badReads>>

\* The watched interval of slot i's device is accessed: a record, and a signal in the
\* first free place. A device that was resumed by IOC_REFRESH(1) stops counting, a device
\* that was just opened goes on.
Fire(i) ==
    LET fd == wp[i].fileHandle
    IN  /\ ~exited
        /\ fd \in DOMAIN deviceMap
        /\ deviceMap[fd].hw
        /\ \E n \in 1 .. MaxPending :
              /\ \A p \in pending : p.n # n
              /\ \A m \in 1 .. n - 1 : \E p \in pending : p.n = m
              /\ pending' = pending \cup
                    {[n |-> n, fd |-> fd, ev |-> wp[i].sampledEvent.id, read |-> FALSE]}
        /\ ring' = [ring EXCEPT ![fd] = deviceMap[fd].address]
        /\ \E still \in BOOLEAN : deviceMap' = [deviceMap EXCEPT ![fd].hw = still]
        /\ UNCHANGED <<tData, wp, nextEvent, freed, exited, badReads>>

\* The handler of another thread pauses and resumes the devices of every thread.
OtherPauses ==
    /\ ~exited
    /\ Concurrent
    /\ deviceMap' = Paused(deviceMap)
    /\ UNCHANGED <<tData, wp, pending, ring, nextEvent, freed, exited, badReads>>

OtherResumes ==
    /\ ~exited
    /\ Concurrent
    /\ deviceMap' = Resumed(deviceMap)
    /\ UNCHANGED <<tData, wp, pending, ring, nextEvent, freed, exited, badReads>>

-----------------------------------------------------------------------------

Init ==
    /\ tData = "none"
    /\ wp = [i \in Slots |->
               [isActive |-> FALSE, fileHandle |-> -1, va |-> 0, wpLength |-> 1,
                sampledEvent |-> NoEvent, samplePostFull |-> SAMPLES_POST_FULL_RESET_VAL]]
    /\ deviceMap = [f \in {} |-> {}]
    /\ pending = {}
    /\ ring = [f \in FDs |-> NoAddr]
    /\ nextEvent = 1
    /\ freed = {}
    /\ exited = FALSE
    /\ badReads = {}

Next ==
    \/ WP_ThreadInit
    \/ tool_PEBSEventHandler
    \/ \E p \in pending : OnWatchPoint(p)
    \/ TerminateBegin
    \/ \E i \in Slots : TerminateDisArm(i)
    \/ TerminateEnd
    \/ \E i \in Slots : Fire(i)
    \/ OtherPauses
    \/ OtherResumes

Spec == Init /\ [][Next]_vars

-----------------------------------------------------------------------------
(* Properties                                                              *)

TypeOK ==
    /\ tData \in {"none", "live", "term"}
    /\ wp \in [Slots -> RegisterInfo]
    /\ DOMAIN deviceMap \subseteq FDs
    /\ deviceMap \in [DOMAIN deviceMap -> BPDevice]
    /\ pending \subseteq Trigger
    /\ ring \in [FDs -> Nat]
    /\ nextEvent \in Nat \ {0}
    /\ freed \subseteq 0 .. nextEvent - 1
    /\ exited \in BOOLEAN
    /\ badReads \subseteq EventRead

Bytes(i) == wp[i].va .. wp[i].va + wp[i].wpLength - 1

\* No byte is watched by two armed slots of a thread, whatever was sampled, replaced
\* and retained before: IsOveralpped drops the samples that would break it.
NoOverlap ==
    \A i, j \in Slots :
        i # j /\ wp[i].isActive /\ wp[j].isActive => Bytes(i) \cap Bytes(j) = {}

\* Slots and devices correspond: every device of the thread belongs to exactly one
\* slot and every descriptor a slot keeps is an open device, so nothing leaks and
\* the thread never holds more than maxWP breakpoint registers.
SlotsOwnDevices ==
    /\ DOMAIN deviceMap = {wp[i].fileHandle : i \in Slots} \ {-1}
    /\ \A i, j \in Slots :
          i # j /\ wp[i].fileHandle # -1 => wp[i].fileHandle # wp[j].fileHandle

\* An armed slot watches what it says: its device is aimed at the slot's interval
\* and is not ended.
ArmedDeviceAimed ==
    \A i \in Slots : wp[i].isActive =>
        /\ wp[i].fileHandle \in DOMAIN deviceMap
        /\ deviceMap[wp[i].fileHandle].address = wp[i].va
        /\ deviceMap[wp[i].fileHandle].length = wp[i].wpLength
        /\ ~deviceMap[wp[i].fileHandle].isDisabled

\* Only armed slots count in hardware: the resume at the end of every handler never
\* revives a watchpoint that was disabled. A library that keeps the devices of disabled
\* slots has this guarantee only while no other thread resumes devices.
QuietWhenDisarmed ==
    ~(ModifyEnabled /\ Concurrent) =>
        \A i \in Slots :
            wp[i].fileHandle \in DOMAIN deviceMap /\ deviceMap[wp[i].fileHandle].hw
                => wp[i].isActive

\* The event an armed slot points to has not been deleted and belongs to no other
\* armed slot: the clean-up of OnWatchPoint never deletes one twice.
ArmedEventLive ==
    \A i \in Slots : wp[i].isActive =>
        /\ wp[i].sampledEvent.id \in 1 .. nextEvent - 1
        /\ wp[i].sampledEvent.id \notin freed
        /\ \A j \in Slots :
              wp[j].isActive /\ j # i => wp[j].sampledEvent.id # wp[i].sampledEvent.id

\* Where OnWatchPoint reads an event that is not there. The search, and with it the
\* callback and the clean-up of the slot it finds, never does. The logging line before it
\* may read an event that was deleted, but no pointer that was never set, since GetVictim
\* arms slot 0 before any other; only the report before exit(0) may read either.
DeadEventReads ==
    \A r \in badReads :
        r.site = "report" \/ (r.site = "log" /\ r.state = "deleted")

\* A signal whose watchpoint is still the one that raised it, and whose record no earlier
\* handler has read, finds its device and is recognised. exit(0) is left to stale signals
\* (disabled, replaced or reused since) and to the further signals of a watchpoint in
\* force, as after WP_RETAIN: the first handler took their records, and the line that
\* ends the process, "WP trigger did not match any known active WP", is then not true.
FreshSignalRecognised ==
    \A p \in pending, i \in Slots :
        /\ tData = "live"
        /\ wp[i].isActive
        /\ wp[i].fileHandle = p.fd
        /\ wp[i].sampledEvent.id = p.ev
        /\ ~p.read
        => /\ p.fd \in DOMAIN deviceMap
           /\ \A addr \in EventAddrs(p.fd) : Matches(i, p.fd, addr)

\* Reservoir sampling: when a sample is armed every watchpoint armed until then, the
\* victim included, has aged by exactly one sample, and a counter falls back only
\* with a watchpoint that ends. Replacement chances are 1/(1 + samplePostFull).
SurvivorsAge ==
    [][/\ (\E j \in Slots : wp'[j].isActive /\ wp'[j].sampledEvent.id = nextEvent)
            => \A i \in Slots : wp[i].isActive
                 => wp'[i].samplePostFull = wp[i].samplePostFull + 1
       /\ \A i \in Slots : wp'[i].samplePostFull < wp[i].samplePostFull
            => ~wp'[i].isActive]_vars

-----------------------------------------------------------------------------
(* The inductive invariant behind the safety properties                    *)

\* A slot that keeps a device without being armed has ended it, and only a library
\* that re-aims devices keeps one; without other threads an ended device does not
\* count; a table that is gone left no descriptor behind.
SlotStates ==
    /\ \A i \in Slots : wp[i].fileHandle # -1 /\ ~wp[i].isActive =>
          ModifyEnabled /\ deviceMap[wp[i].fileHandle].isDisabled
    /\ ~Concurrent => \A f \in DOMAIN deviceMap : deviceMap[f].isDisabled => ~deviceMap[f].hw
    /\ tData = "none" => \A i \in Slots : wp[i].fileHandle = -1

\* Signals come from armings of the past, and a signal whose arming is in force still
\* has a record unless a handler has read it.
SignalsTraceable ==
    /\ \A p \in pending : p.ev < nextEvent
    /\ \A i \in Slots : wp[i].sampledEvent.id < nextEvent
    /\ \A i \in Slots : wp[i].isActive =>
          wp[i].sampledEvent.data_addr = wp[i].va /\ wp[i].va # NoAddr
    /\ \A p \in pending, i \in Slots :
          /\ wp[i].isActive /\ wp[i].fileHandle = p.fd /\ wp[i].sampledEvent.id = p.ev
          /\ ~p.read
          => ring[p.fd] = wp[i].va

\* A slot that owns a device has been armed, and no slot is armed before the ones below it.
EventsSet ==
    /\ \A i \in Slots : wp[i].fileHandle # -1 => wp[i].sampledEvent.id # 0
    /\ \A i, j \in Slots :
          j < i /\ wp[i].sampledEvent.id # 0 => wp[j].sampledEvent.id # 0

IInv ==
    /\ TypeOK
    /\ NoOverlap
    /\ SlotsOwnDevices
    /\ ArmedDeviceAimed
    /\ ArmedEventLive
    /\ SlotStates
    /\ SignalsTraceable
    /\ EventsSet
    /\ DeadEventReads

=============================================================================
