-------------------------- MODULE WatchpointProofs --------------------------
(***************************************************************************)
(* Proofs about the watchpoint table, for every number of slots, every set *)
(* of descriptors and addresses, and both ways of arming a slot.           *)
(***************************************************************************)
EXTENDS WatchpointPool, TLAPS

-----------------------------------------------------------------------------
(* Facts about the operators                                               *)

\* GetFloorWPLength yields a length the hardware supports, whatever the decoder says.
LEMMA FloorLength ==
    ASSUME NEW n \in Nat
    PROVE  GetFloorWPLength(n) \in WPLengths
  BY DEF GetFloorWPLength, WPLengths

\* ADDRESSES_OVERLAP is exactly "the two intervals share a byte".
LEMMA OverlapIsSharedByte ==
    ASSUME NEW a \in Nat, NEW b \in Nat, NEW m \in Nat \ {0}, NEW n \in Nat \ {0}
    PROVE  ADDRESSES_OVERLAP(a, m, b, n)
             <=> (a .. a + m - 1) \cap (b .. b + n - 1) # {}
  <1>1. ASSUME ADDRESSES_OVERLAP(a, m, b, n)
        PROVE  (a .. a + m - 1) \cap (b .. b + n - 1) # {}
    <2>1. CASE a <= b
      <3>1. b \in a .. a + m - 1 /\ b \in b .. b + n - 1
        BY <1>1, <2>1 DEF ADDRESSES_OVERLAP
      <3>2. QED  BY <3>1
    <2>2. CASE b <= a
      <3>1. a \in a .. a + m - 1 /\ a \in b .. b + n - 1
        BY <1>1, <2>2 DEF ADDRESSES_OVERLAP
      <3>2. QED  BY <3>1
    <2>3. QED  BY <2>1, <2>2
  <1>2. ASSUME NEW x \in (a .. a + m - 1) \cap (b .. b + n - 1)
        PROVE  ADDRESSES_OVERLAP(a, m, b, n)
    BY <1>2 DEF ADDRESSES_OVERLAP
  <1>3. QED  BY <1>1, <1>2

\* Resuming changes no device but its hardware state, and never wakes an ended one.
LEMMA ResumedFacts ==
    ASSUME NEW devs, DOMAIN devs \subseteq FDs, devs \in [DOMAIN devs -> BPDevice]
    PROVE  /\ DOMAIN Resumed(devs) = DOMAIN devs
           /\ Resumed(devs) \in [DOMAIN devs -> BPDevice]
           /\ \A f \in DOMAIN devs :
                 /\ Resumed(devs)[f].address = devs[f].address
                 /\ Resumed(devs)[f].length = devs[f].length
                 /\ Resumed(devs)[f].isDisabled = devs[f].isDisabled
                 /\ (devs[f].isDisabled => Resumed(devs)[f].hw = devs[f].hw)
  BY DEF Resumed, BPDevice

-----------------------------------------------------------------------------

\* The empty table satisfies the invariant.
LEMMA InitIInv == Init => IInv
  <1> SUFFICES ASSUME Init PROVE IInv
    OBVIOUS
  <1>1. TypeOK
    <2>1. wp \in [Slots -> RegisterInfo]
      BY DEF Init, RegisterInfo, SampledEvent, NoEvent, NoAddr, WPLengths,
         SAMPLES_POST_FULL_RESET_VAL
    <2>2. DOMAIN deviceMap = {} /\ deviceMap \in [DOMAIN deviceMap -> BPDevice]
      BY DEF Init
    <2>3. /\ tData = "none" /\ pending = {} /\ nextEvent = 1 /\ freed = {} /\ exited = FALSE
      BY DEF Init
    <2>4. /\ DOMAIN deviceMap \subseteq FDs /\ pending \subseteq Trigger
          /\ ring \in [FDs -> Nat] /\ badReads \subseteq EventRead
      BY <2>2, <2>3 DEF Init, NoAddr
    <2>5. nextEvent \in Nat \ {0} /\ freed \subseteq 0 .. nextEvent - 1
      BY <2>3
    <2>6. tData \in {"none", "live", "term"} /\ exited \in BOOLEAN
      BY <2>3, Zenon
    <2>7. QED  BY <2>1, <2>2, <2>4, <2>5, <2>6 DEF TypeOK
  <1>2. \A i \in Slots : ~wp[i].isActive /\ wp[i].fileHandle = -1 /\ wp[i].sampledEvent.id = 0
    BY DEF Init, NoEvent
  <1>3. NoOverlap /\ ArmedDeviceAimed /\ ArmedEventLive
    BY <1>2 DEF NoOverlap, ArmedDeviceAimed, ArmedEventLive
  <1>4. SlotsOwnDevices /\ SlotStates
    BY <1>2 DEF Init, SlotsOwnDevices, SlotStates
  <1>5. SignalsTraceable
    BY <1>2 DEF Init, SignalsTraceable
  <1>6. EventsSet /\ DeadEventReads
    BY <1>2 DEF Init, EventsSet, DeadEventReads
  <1>7. QED  BY <1>1, <1>3, <1>4, <1>5, <1>6 DEF IInv

\* A fresh table is as good as none: its slots own nothing.
LEMMA ThreadInitIInv == IInv /\ WP_ThreadInit => IInv'
  <1> SUFFICES ASSUME IInv, WP_ThreadInit PROVE IInv'
    OBVIOUS
  <1>1. /\ UNCHANGED <<deviceMap, pending, ring, nextEvent, freed, exited, badReads>>
        /\ tData = "none" /\ tData' = "live"
    BY DEF WP_ThreadInit
  <1>2. wp' \in [Slots -> RegisterInfo]
    BY DEF WP_ThreadInit, RegisterInfo, SampledEvent, NoEvent, NoAddr, WPLengths,
       SAMPLES_POST_FULL_RESET_VAL
  <1>3. \A i \in Slots :
           ~wp'[i].isActive /\ wp'[i].fileHandle = -1 /\ wp'[i].sampledEvent.id = 0
    BY DEF WP_ThreadInit, NoEvent
  <1>4. TypeOK'
    BY <1>1, <1>2 DEF IInv, TypeOK
  <1>5. NoOverlap' /\ ArmedDeviceAimed' /\ ArmedEventLive' /\ EventsSet' /\ DeadEventReads'
    BY <1>1, <1>3
       DEF NoOverlap, ArmedDeviceAimed, ArmedEventLive, EventsSet, IInv, DeadEventReads
  <1>6. DOMAIN deviceMap = {}
    BY <1>1 DEF IInv, SlotStates, SlotsOwnDevices
  <1>7. SlotsOwnDevices' /\ SlotStates'
    BY <1>1, <1>3, <1>6 DEF SlotsOwnDevices, SlotStates
  <1>8. SignalsTraceable'
    BY <1>1, <1>3 DEF IInv, TypeOK, SignalsTraceable
  <1>9. QED  BY <1>4, <1>5, <1>7, <1>8 DEF IInv

\* GetVictim changes nothing but the counters.
LEMMA SurvivedFacts ==
    ASSUME wp \in [Slots -> RegisterInfo]
    PROVE  /\ Survived(wp) \in [Slots -> RegisterInfo]
           /\ \A i \in Slots :
                 /\ Survived(wp)[i].isActive = wp[i].isActive
                 /\ Survived(wp)[i].fileHandle = wp[i].fileHandle
                 /\ Survived(wp)[i].va = wp[i].va
                 /\ Survived(wp)[i].wpLength = wp[i].wpLength
                 /\ Survived(wp)[i].sampledEvent = wp[i].sampledEvent
  BY DEF Survived, RegisterInfo

\* Slot i has been armed on descriptor fd and the others have kept their watchpoints.
ArmedAt(i, fd, va, len, event) ==
    /\ wp' \in [Slots -> RegisterInfo]
    /\ wp'[i].isActive /\ wp'[i].fileHandle = fd /\ wp'[i].va = va
    /\ wp'[i].wpLength = len /\ wp'[i].sampledEvent = event
    /\ \A j \in Slots \ {i} :
          /\ wp'[j].isActive = wp[j].isActive
          /\ wp'[j].fileHandle = wp[j].fileHandle
          /\ wp'[j].va = wp[j].va
          /\ wp'[j].wpLength = wp[j].wpLength
          /\ wp'[j].sampledEvent = wp[j].sampledEvent

\* Arming a slot after GetVictim has counted is what ArmedAt describes.
LEMMA ArmedFacts ==
    ASSUME wp \in [Slots -> RegisterInfo], NEW i \in Slots, NEW fd \in FDs, NEW va \in Nat,
           NEW len \in WPLengths, NEW event \in SampledEvent,
           wp' = [Survived(wp) EXCEPT ![i] = Armed(Survived(wp)[i], fd, va, len, event)]
    PROVE  ArmedAt(i, fd, va, len, event)
  BY SurvivedFacts DEF Armed, RegisterInfo, ArmedAt

\* The new watchpoint shares no byte with the ones that stay armed.
LEMMA ArmedNoOverlap ==
    ASSUME IInv, tData = "live", NEW i \in Slots, NEW fd \in FDs, NEW va \in Nat,
           NEW len \in WPLengths, NEW event \in SampledEvent, ~IsOveralpped(va, len),
           ArmedAt(i, fd, va, len, event)
    PROVE  NoOverlap'
  <1> USE DEF IInv, TypeOK
  <1>1. ASSUME NEW j \in Slots \ {i}, wp[j].isActive
        PROVE  Bytes(j) \cap (va .. va + len - 1) = {}
    <2>1. ~ADDRESSES_OVERLAP(wp[j].va, wp[j].wpLength, va, len)
      BY <1>1 DEF IsOveralpped
    <2>2. wp[j].va \in Nat /\ wp[j].wpLength \in Nat \ {0} /\ len \in Nat \ {0}
      BY <1>1 DEF RegisterInfo, WPLengths
    <2>3. QED  BY <2>1, <2>2, OverlapIsSharedByte DEF Bytes
  <1>2. Bytes(i)' = va .. va + len - 1
    BY DEF ArmedAt, Bytes
  <1>3. \A j \in Slots \ {i} : Bytes(j)' = Bytes(j) /\ wp'[j].isActive = wp[j].isActive
    BY DEF ArmedAt, Bytes
  <1>4. ASSUME NEW j \in Slots, NEW k \in Slots, j # k, wp'[j].isActive, wp'[k].isActive
        PROVE  Bytes(j)' \cap Bytes(k)' = {}
    <2>1. CASE j = i
      BY <1>1, <1>2, <1>3, <1>4, <2>1
    <2>2. CASE k = i
      BY <1>1, <1>2, <1>3, <1>4, <2>2
    <2>3. CASE j # i /\ k # i
      BY <1>3, <1>4, <2>3 DEF NoOverlap
    <2>4. QED  BY <2>1, <2>2, <2>3
  <1>5. QED  BY <1>4 DEF NoOverlap

\* The events of the table stay distinct and live: the new one is the youngest.
LEMMA ArmedEvents ==
    ASSUME IInv, NEW i \in Slots, NEW fd \in FDs, NEW va \in Nat, NEW len \in WPLengths,
           ArmedAt(i, fd, va, len, [id |-> nextEvent, data_addr |-> va]),
           nextEvent' = nextEvent + 1, UNCHANGED freed
    PROVE  ArmedEventLive'
  <1>1. ASSUME NEW j \in Slots, wp'[j].isActive
        PROVE  /\ wp'[j].sampledEvent.id \in 1 .. nextEvent
               /\ wp'[j].sampledEvent.id \notin freed'
    BY <1>1 DEF ArmedAt, IInv, TypeOK, ArmedEventLive
  <1>2. ASSUME NEW j \in Slots, NEW k \in Slots, wp'[j].isActive, wp'[k].isActive, j # k
        PROVE  wp'[j].sampledEvent.id # wp'[k].sampledEvent.id
    BY <1>2 DEF ArmedAt, IInv, TypeOK, ArmedEventLive
  <1>3. QED  BY <1>1, <1>2 DEF ArmedEventLive, IInv, TypeOK

\* Slots are armed from the first one on.
LEMMA ArmedPointers ==
    ASSUME IInv, NEW i \in Slots, NEW fd \in FDs, NEW va \in Nat, NEW len \in WPLengths,
           ArmedAt(i, fd, va, len, [id |-> nextEvent, data_addr |-> va]), GetVictim(i)
    PROVE  EventsSet'
  <1>1. ASSUME NEW j \in Slots, j < i
        PROVE  wp[j].sampledEvent.id # 0
    <2>1. wp[j].isActive
      BY <1>1, WPAssumption DEF GetVictim, Inactive, Slots
    <2>2. QED  BY <2>1 DEF IInv, ArmedEventLive
  <1>2. wp'[i].sampledEvent.id # 0
    BY DEF ArmedAt, IInv, TypeOK
  <1>3. \A j \in Slots \ {i} :
           wp'[j].sampledEvent = wp[j].sampledEvent /\ wp'[j].fileHandle = wp[j].fileHandle
    BY DEF ArmedAt
  <1>4. QED
    BY <1>1, <1>2, <1>3 DEF IInv, EventsSet

\* No signal was raised by the arming that has just been made.
LEMMA ArmedSignals ==
    ASSUME IInv, NEW i \in Slots, NEW fd \in FDs, NEW va \in Nat \ {0}, NEW len \in WPLengths,
           ArmedAt(i, fd, va, len, [id |-> nextEvent, data_addr |-> va]),
           nextEvent' = nextEvent + 1, UNCHANGED pending,
           NEW fds, \A j \in Slots \ {i} : wp[j].isActive => wp[j].fileHandle \notin fds,
           \A f \in FDs \ fds : ring'[f] = ring[f]
    PROVE  SignalsTraceable'
  <1>1. \A p \in pending : p.ev < nextEvent /\ p.fd \in FDs
    BY DEF IInv, TypeOK, Trigger, SignalsTraceable
  <1>2. \A j \in Slots : wp'[j].isActive =>
           wp'[j].sampledEvent.data_addr = wp'[j].va /\ wp'[j].va # NoAddr
    BY DEF ArmedAt, IInv, SignalsTraceable, NoAddr
  <1>3. \A j \in Slots : wp'[j].sampledEvent.id <= nextEvent
    BY DEF ArmedAt, IInv, TypeOK, SignalsTraceable, RegisterInfo, SampledEvent
  <1>4. ASSUME NEW p \in pending, NEW j \in Slots, wp'[j].isActive, wp'[j].fileHandle = p.fd,
               wp'[j].sampledEvent.id = p.ev, ~p.read
        PROVE  ring'[p.fd] = wp'[j].va
    <2>1. j # i
      BY <1>1, <1>4 DEF ArmedAt, IInv, TypeOK
    <2>2. /\ wp[j].isActive /\ wp[j].fileHandle = p.fd /\ wp[j].sampledEvent.id = p.ev
          /\ wp'[j].va = wp[j].va
      BY <1>4, <2>1 DEF ArmedAt
    <2>3. ring'[p.fd] = ring[p.fd]
      BY <1>1, <2>1, <2>2
    <2>4. QED  BY <1>4, <2>2, <2>3 DEF IInv, SignalsTraceable
  <1>5. /\ pending' \subseteq Trigger /\ nextEvent \in Nat
        /\ \A j \in Slots : wp'[j].sampledEvent.id \in Nat
    BY DEF ArmedAt, IInv, TypeOK, RegisterInfo, SampledEvent
  <1>6. \A p \in pending' : p.ev < nextEvent'
    BY <1>1, <1>5 DEF Trigger
  <1>7. \A j \in Slots : wp'[j].sampledEvent.id < nextEvent'
    BY <1>3, <1>5
  <1>8. QED  BY <1>2, <1>4, <1>6, <1>7 DEF SignalsTraceable

-----------------------------------------------------------------------------
(* Watchpoints that end                                                    *)

\* The slots of S are switched off, keeping their descriptors or not; the others keep
\* their watchpoints.
SlotsOff(S, keep) ==
    /\ wp' \in [Slots -> RegisterInfo]
    /\ \A i \in S :
          /\ ~wp'[i].isActive
          /\ wp'[i].fileHandle = IF keep THEN wp[i].fileHandle ELSE -1
          /\ wp'[i].sampledEvent = wp[i].sampledEvent
    /\ \A j \in Slots \ S :
          /\ wp'[j].isActive = wp[j].isActive
          /\ wp'[j].fileHandle = wp[j].fileHandle
          /\ wp'[j].va = wp[j].va
          /\ wp'[j].wpLength = wp[j].wpLength
          /\ wp'[j].sampledEvent = wp[j].sampledEvent

\* Their devices, whose descriptors are fds, are ended or gone; an ended device stays ended.
DevsOff(fds, keep) ==
    /\ DOMAIN deviceMap' = IF keep THEN DOMAIN deviceMap ELSE DOMAIN deviceMap \ fds
    /\ deviceMap' \in [DOMAIN deviceMap' -> BPDevice]
    /\ \A f \in DOMAIN deviceMap' :
          /\ deviceMap'[f].address = deviceMap[f].address
          /\ deviceMap'[f].length = deviceMap[f].length
          /\ f \notin fds => deviceMap'[f].isDisabled = deviceMap[f].isDisabled
          /\ f \in fds => deviceMap'[f].isDisabled
          /\ ~Concurrent /\ deviceMap'[f].isDisabled => ~deviceMap'[f].hw

\* Signals are taken, and a record is lost only with its signals marked as read or its
\* descriptor among fds.
SigsOff(fds) ==
    /\ pending' \subseteq Trigger /\ ring' \in [FDs -> Nat]
    /\ \A p \in pending' : \E q \in pending :
          /\ p.ev = q.ev /\ p.fd = q.fd
          /\ ~p.read => ~q.read
          /\ ~p.read /\ p.fd \notin fds => ring'[p.fd] = ring[p.fd]

\* The event pointers of a table whose reads were harmless so far.
ReadsKept == badReads' \subseteq EventRead /\ DeadEventReads'

\* Switching a slot off, or resetting its counter, leaves the rest of it alone.
LEMMA OffFacts ==
    ASSUME NEW s \in RegisterInfo
    PROVE  /\ Disabled(s) \in RegisterInfo /\ DisArmed(s) \in RegisterInfo
           /\ ~Disabled(s).isActive /\ Disabled(s).fileHandle = s.fileHandle
           /\ Disabled(s).sampledEvent = s.sampledEvent
           /\ ~DisArmed(s).isActive /\ DisArmed(s).fileHandle = -1
           /\ DisArmed(s).va = s.va /\ DisArmed(s).wpLength = s.wpLength
           /\ DisArmed(s).sampledEvent = s.sampledEvent
           /\ ResetProbability(s) \in RegisterInfo
           /\ ResetProbability(s).isActive = s.isActive
           /\ ResetProbability(s).fileHandle = s.fileHandle
           /\ ResetProbability(s).va = s.va
           /\ ResetProbability(s).wpLength = s.wpLength
           /\ ResetProbability(s).sampledEvent = s.sampledEvent
  BY DEF Disabled, DisArmed, ResetProbability, RegisterInfo, SAMPLES_POST_FULL_RESET_VAL

\* Whatever ends watchpoints this way preserves the invariant: triggers, failed armings,
\* the dismantling of the table.
LEMMA OffIInv ==
    ASSUME IInv, NEW S \in SUBSET Slots, NEW keep \in BOOLEAN, NEW fds,
           fds = {wp[i].fileHandle : i \in S},
           keep /\ S # {} => ModifyEnabled,
           SlotsOff(S, keep), DevsOff(fds, keep), SigsOff(fds),
           \A i \in S : wp[i].fileHandle # -1,
           nextEvent' \in {nextEvent, nextEvent + 1},
           freed' = freed \/ \E i \in S : wp[i].isActive /\ freed' = freed \cup {wp[i].sampledEvent.id},
           UNCHANGED tData, exited' \in BOOLEAN, ReadsKept
    PROVE  IInv'
  <1> USE DEF IInv, TypeOK
  <1>1. NoOverlap'
    BY DEF SlotsOff, NoOverlap, Bytes
  <1>2. SlotsOwnDevices'
    BY WPAssumption DEF SlotsOff, DevsOff, SlotsOwnDevices, RegisterInfo
  <1>3. ArmedDeviceAimed'
    BY DEF SlotsOff, DevsOff, SlotsOwnDevices, ArmedDeviceAimed
  <1>4. ArmedEventLive'
    BY DEF SlotsOff, ArmedEventLive
  <1>5. SlotStates'
    BY WPAssumption DEF SlotsOff, DevsOff, SlotStates, SlotsOwnDevices, ArmedDeviceAimed
  <1>6. SignalsTraceable'
    <2>1. ASSUME NEW p \in pending'
          PROVE  p.ev < nextEvent'
      <3>1. PICK q \in pending : p.ev = q.ev
        BY DEF SigsOff
      <3>2. QED  BY <3>1 DEF SignalsTraceable, Trigger
    <2>2. \A i \in Slots : wp'[i].isActive =>
             wp'[i].sampledEvent.data_addr = wp'[i].va /\ wp'[i].va # NoAddr
      BY DEF SlotsOff, SignalsTraceable
    <2>3. ASSUME NEW p \in pending', NEW i \in Slots, wp'[i].isActive, wp'[i].fileHandle = p.fd,
                 wp'[i].sampledEvent.id = p.ev, ~p.read
          PROVE  ring'[p.fd] = wp'[i].va
      <3>1. PICK q \in pending :
                /\ p.ev = q.ev /\ p.fd = q.fd /\ ~q.read
                /\ p.fd \notin fds => ring'[p.fd] = ring[p.fd]
        BY <2>3 DEF SigsOff
      <3>2. i \in Slots \ S
        BY <2>3 DEF SlotsOff
      <3>3. p.fd \notin fds
        BY <2>3, <3>2 DEF SlotsOff, SlotsOwnDevices
      <3>4. QED  BY <2>3, <3>1, <3>2, <3>3 DEF SlotsOff, SignalsTraceable
    <2>4. \A i \in Slots : wp'[i].sampledEvent.id < nextEvent'
      BY DEF SlotsOff, SignalsTraceable, RegisterInfo, SampledEvent
    <2>5. QED  BY <2>1, <2>2, <2>3, <2>4 DEF SignalsTraceable
  <1>7. TypeOK'
    BY DEF SlotsOff, DevsOff, SigsOff, RegisterInfo, SampledEvent, ArmedEventLive, ReadsKept
  <1>8. EventsSet'
    BY DEF SlotsOff, EventsSet
  <1>9. QED
    BY <1>1, <1>2, <1>3, <1>4, <1>5, <1>6, <1>7, <1>8 DEF ReadsKept

\* Ending devices, with or without a late resume, ends exactly those.
LEMMA EndDevicesFacts ==
    ASSUME IInv, NEW fds, NEW late \in LateResumes(fds),
           deviceMap' = Resumed(EndDevices(deviceMap, fds, late))
    PROVE  DevsOff(fds, TRUE)
  <1> DEFINE devs == EndDevices(deviceMap, fds, late)
  <1>1. /\ DOMAIN devs = DOMAIN deviceMap
        /\ devs \in [DOMAIN deviceMap -> BPDevice]
        /\ \A f \in DOMAIN deviceMap :
              /\ devs[f].address = deviceMap[f].address
              /\ devs[f].length = deviceMap[f].length
              /\ f \notin fds => devs[f] = deviceMap[f]
              /\ f \in fds => devs[f].isDisabled = TRUE
              /\ f \in fds /\ f \notin late => devs[f].hw = FALSE
    <2>1. \A f : (f \in late) \in BOOLEAN
      OBVIOUS
    <2>2. \A f \in DOMAIN deviceMap : devs[f] \in BPDevice
      BY <2>1 DEF EndDevices, IInv, TypeOK, BPDevice
    <2>3. QED  BY <2>2 DEF EndDevices, IInv, TypeOK, BPDevice
  <1>2. ~Concurrent => late = {}
    BY WPAssumption DEF LateResumes
  <1> HIDE DEF devs
  <1>3. DOMAIN devs \subseteq FDs /\ deviceMap' = Resumed(devs)
    BY <1>1 DEF devs, IInv, TypeOK
  <1>4. ~Concurrent => \A f \in DOMAIN devs : devs[f].isDisabled => ~devs[f].hw
    BY <1>1, <1>2 DEF IInv, SlotStates
  <1>5. QED
    BY <1>1, <1>3, <1>4, ResumedFacts DEF DevsOff

\* ArmWatchPoint on a device that is kept.
LEMMA ModifyIInv ==
    ASSUME IInv, tData = "live", NEW i \in Slots, NEW va \in Nat \ {0}, NEW len \in WPLengths,
           ~IsOveralpped(va, len), ModifyEnabled, wp[i].fileHandle # -1, GetVictim(i),
           ModifyWatchPoint(i, va, len, [id |-> nextEvent, data_addr |-> va]),
           nextEvent' = nextEvent + 1, UNCHANGED <<tData, pending, freed, exited, badReads>>
    PROVE  IInv'
  <1> DEFINE fd    == wp[i].fileHandle
             event == [id |-> nextEvent, data_addr |-> va]
  <1>1. fd \in FDs /\ fd \in DOMAIN deviceMap /\ event \in SampledEvent
    BY DEF IInv, TypeOK, RegisterInfo, SlotsOwnDevices, SampledEvent
  <1>2. CASE /\ wp' = [Survived(wp) EXCEPT ![i] = Armed(Survived(wp)[i], fd, va, len, event)]
             /\ deviceMap' = Resumed(UpdateBPAddress(deviceMap, fd, va, len))
             /\ UNCHANGED ring
    <2>1. ArmedAt(i, fd, va, len, event)
      BY <1>1, <1>2, ArmedFacts DEF IInv, TypeOK
    <2>2. /\ DOMAIN deviceMap' = DOMAIN deviceMap
          /\ deviceMap' \in [DOMAIN deviceMap -> BPDevice]
          /\ \A f \in DOMAIN deviceMap \ {fd} :
                /\ deviceMap'[f].address = deviceMap[f].address
                /\ deviceMap'[f].length = deviceMap[f].length
                /\ deviceMap'[f].isDisabled = deviceMap[f].isDisabled
                /\ deviceMap[f].isDisabled => deviceMap'[f].hw = deviceMap[f].hw
          /\ deviceMap'[fd].address = va /\ deviceMap'[fd].length = len
          /\ ~deviceMap'[fd].isDisabled
      <3> DEFINE devs == UpdateBPAddress(deviceMap, fd, va, len)
      <3>1. /\ DOMAIN devs = DOMAIN deviceMap
            /\ devs \in [DOMAIN deviceMap -> BPDevice]
            /\ \A f \in DOMAIN deviceMap \ {fd} : devs[f] = deviceMap[f]
            /\ devs[fd].address = va /\ devs[fd].length = len /\ devs[fd].isDisabled = FALSE
        BY <1>1 DEF IInv, TypeOK, UpdateBPAddress, BPDevice
      <3> HIDE DEF devs
      <3>2. DOMAIN devs \subseteq FDs /\ deviceMap' = Resumed(devs)
        BY <1>2, <3>1 DEF IInv, TypeOK, devs
      <3>3. QED  BY <1>1, <3>1, <3>2, ResumedFacts
    <2>3. QED
      <3>1. NoOverlap'  BY <1>1, <2>1, ArmedNoOverlap
      <3>2. ArmedEventLive'  BY <1>1, <2>1, ArmedEvents
      <3>3. SignalsTraceable'
        <4> DEFINE none == {}
        <4>1. \A j \in Slots \ {i} : wp[j].isActive => wp[j].fileHandle \notin none
          OBVIOUS
        <4>2. \A f \in FDs \ none : ring'[f] = ring[f]
          BY <1>2
        <4>3. fd \in FDs /\ ArmedAt(i, fd, va, len, event)
          BY <1>1, <2>1
        <4>4. nextEvent' = nextEvent + 1 /\ UNCHANGED pending
          OBVIOUS
        <4> HIDE DEF fd, none
        <4>5. QED  BY <4>1, <4>2, <4>3, <4>4, ArmedSignals DEF event
      <3>4. TypeOK'  BY <1>1, <1>2, <2>1, <2>2 DEF IInv, TypeOK, ArmedAt
      <3>5. SlotsOwnDevices' BY <1>1, <2>1, <2>2 DEF IInv, TypeOK, ArmedAt, SlotsOwnDevices
      <3>6. ArmedDeviceAimed' BY <1>1, <2>1, <2>2 DEF IInv, TypeOK, ArmedAt, SlotsOwnDevices, ArmedDeviceAimed
      <3>7. SlotStates'
        <4>1. \A j \in Slots : wp'[j].fileHandle # -1 /\ ~wp'[j].isActive =>
                 ModifyEnabled /\ deviceMap'[wp'[j].fileHandle].isDisabled
          BY <1>1, <2>1, <2>2 DEF IInv, TypeOK, ArmedAt, SlotsOwnDevices, SlotStates
        <4>2. ~Concurrent =>
                 \A f \in DOMAIN deviceMap' : deviceMap'[f].isDisabled => ~deviceMap'[f].hw
          BY <1>1, <2>2 DEF IInv, SlotStates
        <4>3. QED  BY <4>1, <4>2 DEF SlotStates
      <3>8. EventsSet' BY <1>1, <2>1, ArmedPointers
      <3>9. DeadEventReads' BY DEF IInv, DeadEventReads
      <3>10. QED BY <3>1, <3>2, <3>3, <3>4, <3>5, <3>6, <3>7, <3>8, <3>9 DEF IInv
  <1>3. ASSUME NEW late \in LateResumes({fd}),
               wp' = [Survived(wp) EXCEPT ![i] = Disabled(Survived(wp)[i])],
               deviceMap' = Resumed(EndDevices(deviceMap, {fd}, late)),
               UNCHANGED ring
        PROVE  IInv'
    <2>1. SlotsOff({i}, TRUE)
      <3>1. Survived(wp)[i] \in RegisterInfo
        BY SurvivedFacts DEF IInv, TypeOK
      <3>2. QED  BY <1>3, <3>1, SurvivedFacts, OffFacts DEF SlotsOff, IInv, TypeOK
    <2>2. DevsOff({fd}, TRUE)
      BY <1>3, EndDevicesFacts
    <2>3. SigsOff({fd})
      BY <1>3 DEF SigsOff, IInv, TypeOK
    <2>4. {fd} = {wp[j].fileHandle : j \in {i}} /\ {i} \in SUBSET Slots
      OBVIOUS
    <2>5. ReadsKept
      BY DEF ReadsKept, IInv, TypeOK, DeadEventReads
    <2>6. QED
      BY <1>1, <2>1, <2>2, <2>3, <2>4, <2>5, OffIInv DEF IInv, TypeOK
  <1>4. QED
    BY <1>2, <1>3 DEF ModifyWatchPoint

\* Closing a descriptor is what SigsOff describes,
LEMMA RingLostSigsOff ==
    ASSUME IInv, NEW fds, UNCHANGED pending, ring' \in {ring, RingLost(ring, fds)}
    PROVE  SigsOff(fds)
  <1>1. /\ ring' \in [FDs -> Nat]
        /\ \A f \in FDs \ fds : ring'[f] = ring[f]
    BY DEF RingLost, NoAddr, IInv, TypeOK
  <1>2. QED  BY <1>1 DEF SigsOff, IInv, TypeOK, Trigger

\* so is dropping a signal,
LEMMA DroppedSigsOff ==
    ASSUME IInv, pending' \subseteq pending, UNCHANGED ring, NEW fds
    PROVE  SigsOff(fds)
  BY DEF SigsOff, IInv, TypeOK

\* and reading the ring, which marks the signals whose records it takes.
LEMMA ReadSigsOff ==
    ASSUME IInv, NEW p \in pending, NEW fds, pending' = SignalsLeft(p),
           ring' \in {RingRead(p.fd), RingLost(RingRead(p.fd), fds)}
    PROVE  SigsOff(fds)
  <1>1. p.fd \in FDs
    BY DEF IInv, TypeOK, Trigger
  <1>2. /\ ring' \in [FDs -> Nat]
        /\ \A f \in FDs \ fds : f # p.fd => ring'[f] = ring[f]
    BY <1>1 DEF RingLost, RingRead, NoAddr, IInv, TypeOK
  <1>3. ASSUME NEW q \in pending'
        PROVE  /\ q \in Trigger
               /\ \E o \in pending :
                     /\ q.ev = o.ev /\ q.fd = o.fd
                     /\ ~q.read => ~o.read
                     /\ ~q.read /\ q.fd \notin fds => ring'[q.fd] = ring[q.fd]
    <2>1. PICK o \in pending \ {p} : q = IF o.fd = p.fd THEN [o EXCEPT !.read = TRUE] ELSE o
      BY DEF SignalsLeft
    <2>2. o \in Trigger
      BY DEF IInv, TypeOK
    <2>3. CASE o.fd = p.fd
      <3>1. q \in Trigger /\ q.ev = o.ev /\ q.fd = o.fd /\ q.read = TRUE
        BY <2>1, <2>2, <2>3 DEF Trigger
      <3>2. QED  BY <3>1
    <2>4. CASE o.fd # p.fd
      <3>1. q = o /\ q.fd \in FDs
        BY <2>1, <2>2, <2>4 DEF Trigger
      <3>2. QED  BY <1>2, <2>2, <2>4, <3>1
    <2>5. QED  BY <2>3, <2>4
  <1>4. QED  BY <1>2, <1>3 DEF SigsOff

\* ArmWatchPoint with a fresh device.
LEMMA FreshIInv ==
    ASSUME IInv, tData = "live", NEW i \in Slots, NEW va \in Nat \ {0}, NEW len \in WPLengths,
           ~IsOveralpped(va, len), ~(ModifyEnabled /\ wp[i].fileHandle # -1), GetVictim(i),
           FreshWatchPoint(i, va, len, [id |-> nextEvent, data_addr |-> va]),
           nextEvent' = nextEvent + 1, UNCHANGED <<tData, pending, freed, exited, badReads>>
    PROVE  IInv'
  <1> DEFINE old   == wp[i].fileHandle
             event == [id |-> nextEvent, data_addr |-> va]
             devs  == IF wp[i].isActive THEN RemoveDevice(deviceMap, old) ELSE deviceMap
  <1>1. /\ event \in SampledEvent
        /\ wp[i].isActive <=> old # -1
        /\ wp[i].isActive => old \in DOMAIN deviceMap
    BY WPAssumption DEF IInv, TypeOK, SampledEvent, ArmedDeviceAimed, SlotStates
  <1>2. /\ DOMAIN devs = DOMAIN deviceMap \ {old}
        /\ devs \in [DOMAIN devs -> BPDevice]
        /\ \A f \in DOMAIN devs : devs[f] = deviceMap[f]
        /\ DOMAIN devs \subseteq FDs
    BY <1>1, WPAssumption DEF IInv, TypeOK, RemoveDevice
  <1>3. /\ SigsOff({old}) /\ ring' \in [FDs -> Nat]
        /\ ~wp[i].isActive => UNCHANGED ring
        /\ \A f \in FDs \ {old} : ring'[f] = ring[f]
    <2>1. ring' \in {ring, RingLost(ring, {old})} /\ (~wp[i].isActive => UNCHANGED ring)
      BY DEF FreshWatchPoint
    <2>2. ring' \in [FDs -> Nat] /\ \A f \in FDs \ {old} : ring'[f] = ring[f]
      BY <2>1 DEF RingLost, NoAddr, IInv, TypeOK
    <2>3. QED  BY <2>1, <2>2, RingLostSigsOff
  <1> HIDE DEF devs
  <1>4. ASSUME NEW fd \in FDs \ DOMAIN devs,
               wp' = [Survived(wp) EXCEPT ![i] = Armed(Survived(wp)[i], fd, va, len, event)],
               deviceMap' = Resumed(AddDevice(devs, fd, va, len))
        PROVE  IInv'
    <2>1. ArmedAt(i, fd, va, len, event)
      BY <1>1, <1>4, ArmedFacts DEF IInv, TypeOK
    <2>2. /\ DOMAIN deviceMap' = (DOMAIN deviceMap \ {old}) \cup {fd}
          /\ deviceMap' \in [DOMAIN deviceMap' -> BPDevice]
          /\ \A f \in DOMAIN deviceMap \ {old} :
                /\ deviceMap'[f].address = deviceMap[f].address
                /\ deviceMap'[f].length = deviceMap[f].length
                /\ deviceMap'[f].isDisabled = deviceMap[f].isDisabled
                /\ deviceMap[f].isDisabled => deviceMap'[f].hw = deviceMap[f].hw
          /\ deviceMap'[fd].address = va /\ deviceMap'[fd].length = len
          /\ ~deviceMap'[fd].isDisabled
      <3> DEFINE new == AddDevice(devs, fd, va, len)
      <3>1. /\ DOMAIN new = DOMAIN devs \cup {fd}
            /\ new \in [DOMAIN new -> BPDevice]
            /\ \A f \in DOMAIN devs : new[f] = devs[f]
            /\ new[fd].address = va /\ new[fd].length = len /\ new[fd].isDisabled = FALSE
        BY <1>2, <1>4 DEF AddDevice, BPDevice
      <3> HIDE DEF new
      <3>2. DOMAIN new \subseteq FDs /\ deviceMap' = Resumed(new)
        BY <1>2, <1>4, <3>1 DEF new
      <3>3. QED  BY <1>2, <3>1, <3>2, ResumedFacts
    <2>3. NoOverlap'
      BY <1>1, <2>1, ArmedNoOverlap
    <2>4. ArmedEventLive'
      BY <1>1, <2>1, ArmedEvents
    <2>5. TypeOK'
      BY <1>2, <1>3, <2>1, <2>2 DEF IInv, TypeOK, ArmedAt, SigsOff
    <2>6. SlotsOwnDevices'
      BY <1>1, <1>2, <1>4, <2>1, <2>2, WPAssumption DEF IInv, TypeOK, ArmedAt, SlotsOwnDevices
    <2>7. ArmedDeviceAimed'
      BY <1>1, <1>2, <1>4, <2>1, <2>2 DEF IInv, TypeOK, ArmedAt, SlotsOwnDevices, ArmedDeviceAimed
    <2>8. SlotStates'
      <3>1. \A j \in Slots : wp'[j].fileHandle # -1 /\ ~wp'[j].isActive =>
               ModifyEnabled /\ deviceMap'[wp'[j].fileHandle].isDisabled
        BY <1>1, <1>2, <1>4, <2>1, <2>2 DEF IInv, TypeOK, ArmedAt, SlotsOwnDevices, SlotStates
      <3>2. ~Concurrent => \A f \in DOMAIN deviceMap' : deviceMap'[f].isDisabled => ~deviceMap'[f].hw
        BY <2>2, WPAssumption DEF IInv, SlotStates
      <3>3. QED  BY <3>1, <3>2 DEF SlotStates
    <2>9. SignalsTraceable'
      <3>1. \A j \in Slots \ {i} : wp[j].isActive => wp[j].fileHandle \notin {old}
        BY <1>1, WPAssumption DEF IInv, TypeOK, SlotsOwnDevices, ArmedDeviceAimed
      <3>2. QED  BY <1>3, <2>1, <3>1, ArmedSignals
    <2>10. EventsSet'
      BY <1>1, <2>1, ArmedPointers
    <2>11. DeadEventReads'
      BY DEF IInv, DeadEventReads
    <2>12. QED
      BY <2>3, <2>4, <2>5, <2>6, <2>7, <2>8, <2>9, <2>10, <2>11 DEF IInv
  <1>5. ASSUME wp' = [Survived(wp) EXCEPT ![i] = DisArmed(Survived(wp)[i])],
               deviceMap' = Resumed(devs)
        PROVE  IInv'
    <2> DEFINE S == IF wp[i].isActive THEN {i} ELSE {}
               fds == {wp[j].fileHandle : j \in S}
    <2>1. SlotsOff(S, FALSE)
      <3>1. Survived(wp)[i] \in RegisterInfo
        BY SurvivedFacts DEF IInv, TypeOK
      <3>2. CASE wp[i].isActive
        BY <1>1, <1>5, <3>1, <3>2, SurvivedFacts, OffFacts DEF SlotsOff, IInv, TypeOK
      <3>3. CASE ~wp[i].isActive
        <4>1. ~wp'[i].isActive /\ wp'[i].fileHandle = -1 /\ wp[i].fileHandle = -1
          BY <1>1, <1>5, <3>1, <3>3, OffFacts, SurvivedFacts DEF IInv, TypeOK
        <4>2. /\ wp'[i].va = wp[i].va /\ wp'[i].wpLength = wp[i].wpLength
              /\ wp'[i].sampledEvent = wp[i].sampledEvent
          BY <1>5, <3>1, OffFacts, SurvivedFacts DEF IInv, TypeOK
        <4>3. wp'[i].isActive = wp[i].isActive
          <5>1. wp'[i].isActive \in BOOLEAN /\ wp[i].isActive \in BOOLEAN
            BY <1>5, <3>1, OffFacts, SurvivedFacts DEF IInv, TypeOK, RegisterInfo
          <5>2. QED  BY <3>3, <4>1, <5>1
        <4>4. QED
          BY <1>5, <3>1, <3>3, <4>1, <4>2, <4>3, SurvivedFacts, OffFacts
             DEF SlotsOff, IInv, TypeOK
      <3>4. QED  BY <3>2, <3>3
    <2>2. /\ S \in SUBSET Slots
          /\ \A j \in S : wp[j].fileHandle # -1
          /\ DOMAIN devs = DOMAIN deviceMap \ fds
          /\ fds = {old} \/ fds = {}
      BY <1>1, <1>2, WPAssumption DEF IInv, TypeOK
    <2>3. DevsOff(fds, FALSE)
      BY <1>2, <1>5, <2>2, ResumedFacts DEF DevsOff, IInv, SlotStates
    <2>4. SigsOff(fds)
      <3>1. CASE wp[i].isActive
        BY <1>3, <3>1
      <3>2. CASE ~wp[i].isActive
        BY <1>3, <3>2, DroppedSigsOff
      <3>3. QED  BY <3>1, <3>2
    <2>5. fds = {wp[j].fileHandle : j \in S} /\ exited' \in BOOLEAN /\ tData' = tData
      BY DEF IInv, TypeOK
    <2>6. ReadsKept
      BY DEF ReadsKept, IInv, TypeOK, DeadEventReads
    <2> HIDE DEF S, fds
    <2>7. QED
      BY <2>1, <2>2, <2>3, <2>4, <2>5, <2>6, OffIInv
  <1>6. QED
    BY <1>4, <1>5 DEF FreshWatchPoint, devs

-----------------------------------------------------------------------------
(* The steps                                                               *)

\* A step that arms and ends nothing: counters may grow, devices may be paused or
\* resumed and signals taken.
LEMMA QuietIInv ==
    ASSUME IInv, wp' \in {wp, Survived(wp)},
           deviceMap' \in {deviceMap, Resumed(deviceMap), Paused(deviceMap)},
           SigsOff({}), nextEvent' \in {nextEvent, nextEvent + 1},
           UNCHANGED <<freed, tData>>, exited' \in BOOLEAN, ReadsKept
    PROVE  IInv'
  <1>1. SlotsOff({}, TRUE)
    BY SurvivedFacts DEF SlotsOff, IInv, TypeOK
  <1>2. DevsOff({}, TRUE)
    <2>1. CASE deviceMap' = Paused(deviceMap)
      <3>1. /\ DOMAIN deviceMap' = DOMAIN deviceMap
            /\ deviceMap' \in [DOMAIN deviceMap -> BPDevice]
            /\ \A f \in DOMAIN deviceMap :
                  /\ deviceMap'[f].address = deviceMap[f].address
                  /\ deviceMap'[f].length = deviceMap[f].length
                  /\ deviceMap'[f].isDisabled = deviceMap[f].isDisabled
                  /\ deviceMap'[f].hw = FALSE
        BY <2>1 DEF IInv, TypeOK, Paused, BPDevice
      <3>2. QED  BY <3>1 DEF DevsOff
    <2>2. CASE deviceMap' = Resumed(deviceMap)
      BY <2>2, ResumedFacts DEF DevsOff, IInv, TypeOK, SlotStates
    <2>3. CASE deviceMap' = deviceMap
      BY <2>3 DEF DevsOff, IInv, TypeOK, SlotStates
    <2>4. QED  BY <2>1, <2>2, <2>3
  <1>3. \A j \in {} : wp[j].fileHandle # -1
    OBVIOUS
  <1>4. {} = {wp[j].fileHandle : j \in {}} /\ {} \in SUBSET Slots
    OBVIOUS
  <1>5. QED
    BY <1>1, <1>2, <1>3, <1>4, OffIInv

\* WP_Subscribe, with every outcome of validation, victim choice and arming.
LEMMA SubscribeIInv ==
    ASSUME IInv, NEW va \in Addrs, NEW accessLen \in AccessLens, WP_Subscribe(va, accessLen)
    PROVE  IInv'
  <1> DEFINE len   == IF InstWatch THEN 8 ELSE GetFloorWPLength(accessLen)
             event == [id |-> nextEvent, data_addr |-> va]
  <1>1. va \in Nat \ {0} /\ len \in WPLengths
    BY WPAssumption, FloorLength DEF WPLengths
  <1>2. /\ nextEvent' = nextEvent + 1 /\ exited' \in BOOLEAN
        /\ UNCHANGED <<tData, pending, freed, exited, badReads>>
    BY DEF WP_Subscribe, IInv, TypeOK
  <1> HIDE DEF len
  <1>3. CASE wp' \in {wp, Survived(wp)} /\ deviceMap' = Resumed(deviceMap) /\ UNCHANGED ring
    <2>1. SigsOff({})
      BY <1>2, <1>3, DroppedSigsOff
    <2>2. ReadsKept
      BY <1>2 DEF ReadsKept, IInv, TypeOK, DeadEventReads
    <2>3. QED  BY <1>2, <1>3, <2>1, <2>2, QuietIInv
  <1>4. ASSUME NEW i \in Slots, tData = "live", ~IsOveralpped(va, len), GetVictim(i),
               ArmWatchPoint(i, va, len, event)
        PROVE  IInv'
    <2>1. CASE ModifyEnabled /\ wp[i].fileHandle # -1
      BY <1>1, <1>2, <1>4, <2>1, ModifyIInv DEF ArmWatchPoint
    <2>2. CASE ~(ModifyEnabled /\ wp[i].fileHandle # -1)
      BY <1>1, <1>2, <1>4, <2>2, FreshIInv DEF ArmWatchPoint
    <2>3. QED  BY <2>1, <2>2
  <1>5. QED
    BY <1>3, <1>4 DEF WP_Subscribe, len

\* The devices of the slots that are switched off, after the handler has resumed the rest.
LEMMA DevicesOffFacts ==
    ASSUME IInv, NEW fds, NEW late \in LateResumes(fds), deviceMap' = Resumed(DevicesOff(fds, late))
    PROVE  DevsOff(fds, ModifyEnabled)
  <1>1. CASE ModifyEnabled
    <2>1. DevsOff(fds, TRUE)
      BY <1>1, EndDevicesFacts DEF DevicesOff
    <2>2. QED  BY <1>1, <2>1 DEF DevsOff
  <1>2. CASE ~ModifyEnabled
    <2> DEFINE devs == DevicesOff(fds, late)
    <2>1. /\ DOMAIN devs = DOMAIN deviceMap \ fds
          /\ devs \in [DOMAIN devs -> BPDevice]
          /\ \A f \in DOMAIN devs : devs[f] = deviceMap[f]
          /\ DOMAIN devs \subseteq FDs
      BY <1>2 DEF DevicesOff, IInv, TypeOK
    <2> HIDE DEF devs
    <2>2. deviceMap' = Resumed(devs)
      BY DEF devs
    <2>3. QED
      BY <1>2, <2>1, <2>2, ResumedFacts DEF DevsOff, IInv, SlotStates
  <1>3. QED  BY <1>1, <1>2

\* The search reads live events, and the line before it no pointer that was never set:
\* a signal that finds its device finds a table in which slot 0 was armed before.
LEMMA SearchReadsFacts ==
    ASSUME IInv, NEW fd \in DOMAIN deviceMap
    PROVE  /\ SearchReads(fd) \subseteq EventRead
           /\ \A r \in SearchReads(fd) : r.site = "log" /\ r.state = "deleted"
  <1> DEFINE own == {i \in Slots : wp[i].isActive /\ wp[i].fileHandle = fd}
  <1>1. \A i \in own : EventState(i) = "live"
    BY DEF EventState, IInv, ArmedEventLive, NoEvent
  <1>2. DeadReads("search", own) = {}
    BY <1>1 DEF DeadReads
  <1>3. PICK i \in Slots : wp[i].fileHandle = fd /\ fd # -1
    BY DEF IInv, SlotsOwnDevices
  <1>4. 0 \in Slots /\ wp[0].sampledEvent.id # 0
    <2>1. 0 \in Slots /\ i \in Nat
      BY WPAssumption DEF Slots
    <2>2. wp[i].sampledEvent.id # 0
      BY <1>3 DEF IInv, EventsSet
    <2>3. CASE i = 0
      BY <2>1, <2>2, <2>3
    <2>4. CASE 0 < i
      BY <2>1, <2>2, <2>4 DEF IInv, EventsSet
    <2>5. QED  BY <2>1, <2>3, <2>4
  <1>5. EventState(0) \in {"live", "deleted"}
    BY <1>4 DEF EventState, NoEvent
  <1>6. \A r \in DeadReads("log", {0}) : r = [site |-> "log", state |-> "deleted"]
    BY <1>5 DEF DeadReads
  <1>7. SearchReads(fd) = DeadReads("log", {0})
    BY <1>2 DEF SearchReads
  <1>8. [site |-> "log", state |-> "deleted"] \in EventRead
    BY DEF EventRead
  <1>9. QED  BY <1>6, <1>7, <1>8

\* The report reads whatever the table holds.
LEMMA ReportReadsFacts ==
    ASSUME NEW addr
    PROVE  /\ ReportReads(addr) \subseteq EventRead
           /\ \A r \in ReportReads(addr) : r.site = "report"
  <1>1. \A i \in Slots : EventState(i) # "live" => EventState(i) \in {"unset", "deleted"}
    BY DEF EventState
  <1>2. \A i \in Slots : EventState(i) # "live"
           => [site |-> "report", state |-> EventState(i)] \in EventRead
    BY <1>1 DEF EventRead
  <1>3. QED  BY <1>2 DEF ReportReads, DeadReads

\* The reads of a handler that finds its device keep the property.
LEMMA HandlerReads ==
    ASSUME IInv, NEW fd \in DOMAIN deviceMap, NEW addr,
           badReads' \in {badReads, badReads \cup SearchReads(fd),
                          badReads \cup SearchReads(fd) \cup ReportReads(addr)}
    PROVE  ReadsKept
  BY SearchReadsFacts, ReportReadsFacts DEF ReadsKept, DeadEventReads, IInv, TypeOK

\* DisableWatchpointWrapper and the reset of the counter, on one slot.
LEMMA SwitchedOffFacts ==
    ASSUME NEW s \in RegisterInfo
    PROVE  /\ ResetProbability(SwitchedOff(s)) \in RegisterInfo
           /\ ~ResetProbability(SwitchedOff(s)).isActive
           /\ ResetProbability(SwitchedOff(s)).fileHandle = IF ModifyEnabled THEN s.fileHandle ELSE -1
           /\ ResetProbability(SwitchedOff(s)).sampledEvent = s.sampledEvent
  BY OffFacts DEF SwitchedOff

\* A trigger that ends its watchpoint.
LEMMA DisableIInv ==
    ASSUME IInv, NEW p \in pending, NEW i \in Slots, wp[i].isActive, OnDisable(p, i),
           pending' = SignalsLeft(p), ReadsKept, UNCHANGED <<tData, nextEvent>>
    PROVE  IInv'
  <1>1. SlotsOff({i}, ModifyEnabled)
    BY SwitchedOffFacts DEF SlotsOff, OnDisable, IInv, TypeOK
  <1>2. DevsOff({wp[i].fileHandle}, ModifyEnabled)
    <2>1. PICK late \in LateResumes({wp[i].fileHandle}) :
             deviceMap' = Resumed(DevicesOff({wp[i].fileHandle}, late))
      BY DEF OnDisable
    <2>2. QED  BY <2>1, DevicesOffFacts
  <1>3. SigsOff({wp[i].fileHandle})
    BY ReadSigsOff DEF OnDisable, RingOff
  <1>4. /\ {wp[i].fileHandle} = {wp[j].fileHandle : j \in {i}} /\ {i} \in SUBSET Slots
        /\ \A j \in {i} : wp[j].fileHandle # -1
    BY WPAssumption DEF IInv, TypeOK, ArmedDeviceAimed
  <1>5. exited' \in BOOLEAN /\ freed' = freed \cup {wp[i].sampledEvent.id}
    BY DEF OnDisable, IInv, TypeOK
  <1>6. QED
    BY <1>1, <1>2, <1>3, <1>4, <1>5, OffIInv, WPAssumption

\* A trigger that ends every watchpoint of the thread.
LEMMA DisableAllIInv ==
    ASSUME IInv, NEW p \in pending, NEW i \in Slots, wp[i].isActive, OnDisableAll(p, i),
           pending' = SignalsLeft(p), ReadsKept, UNCHANGED <<tData, nextEvent>>
    PROVE  IInv'
  <1> DEFINE S   == Slots \ Inactive
             fds == {wp[j].fileHandle : j \in S}
  <1>1. SlotsOff(S, ModifyEnabled)
    BY SwitchedOffFacts, OffFacts DEF SlotsOff, OnDisableAll, Inactive, IInv, TypeOK
  <1>2. DevsOff(fds, ModifyEnabled)
    <2>1. PICK late \in LateResumes(fds) : deviceMap' = Resumed(DevicesOff(fds, late))
      BY DEF OnDisableAll
    <2>2. QED  BY <2>1, DevicesOffFacts
  <1>3. SigsOff(fds)
    BY ReadSigsOff DEF OnDisableAll, RingOff
  <1>4. /\ S \in SUBSET Slots /\ i \in S
        /\ \A j \in S : wp[j].fileHandle # -1
    BY WPAssumption DEF IInv, TypeOK, ArmedDeviceAimed, Inactive
  <1>5. exited' \in BOOLEAN /\ freed' = freed \cup {wp[i].sampledEvent.id}
    BY DEF OnDisableAll, IInv, TypeOK
  <1>6. fds = {wp[j].fileHandle : j \in S}
    OBVIOUS
  <1> HIDE DEF S, fds
  <1>7. QED
    BY <1>1, <1>2, <1>3, <1>4, <1>5, <1>6, OffIInv, WPAssumption

\* OnWatchPoint with every outcome of its search and of the tool's verdict.
LEMMA OnWatchPointIInv ==
    ASSUME IInv, NEW p \in pending, OnWatchPoint(p)
    PROVE  IInv'
  <1>1. UNCHANGED <<tData, nextEvent>>
    BY DEF OnWatchPoint
  <1>2. CASE OnDropped(p)
    <2>1. SigsOff({})
      BY <1>2, DroppedSigsOff DEF OnDropped
    <2>2. ReadsKept
      BY <1>2 DEF OnDropped, ReadsKept, IInv, TypeOK, DeadEventReads
    <2>3. QED
      BY <1>1, <1>2, <2>1, <2>2, QuietIInv DEF OnDropped, IInv, TypeOK
  <1>3. ASSUME p.fd \in DOMAIN deviceMap, pending' = SignalsLeft(p),
               UNCHANGED <<wp, freed>>, deviceMap' \in {deviceMap, Resumed(deviceMap)},
               ring' = RingRead(p.fd), ReadsKept, exited' \in BOOLEAN
        PROVE  IInv'
    <2>1. SigsOff({})
      BY <1>3, ReadSigsOff
    <2>2. QED  BY <1>1, <1>3, <2>1, QuietIInv
  <1>4. ASSUME p.fd \in DOMAIN deviceMap, pending' = SignalsLeft(p), OnNoTable(p)
        PROVE  IInv'
    <2>1. ReadsKept
      BY <1>4 DEF OnNoTable, ReadsKept, IInv, TypeOK, DeadEventReads
    <2>2. QED  BY <1>3, <1>4, <2>1 DEF OnNoTable, IInv, TypeOK
  <1>5. ASSUME p.fd \in DOMAIN deviceMap, pending' = SignalsLeft(p),
               NEW addr, OnUnknown(p, addr) \/ OnFault(p)
        PROVE  IInv'
    <2>1. ReadsKept
      BY <1>5, HandlerReads DEF OnUnknown, OnFault
    <2>2. QED  BY <1>3, <1>5, <2>1 DEF OnUnknown, OnFault
  <1>6. ASSUME p.fd \in DOMAIN deviceMap, pending' = SignalsLeft(p),
               NEW addr, OnKnown(p, addr)
        PROVE  IInv'
    <2>1. ReadsKept
      BY <1>6, HandlerReads DEF OnKnown
    <2>2. PICK i \in Slots :
             Matches(i, p.fd, addr) /\ (OnDisable(p, i) \/ OnDisableAll(p, i) \/ OnRetain(p))
      BY <1>6 DEF OnKnown
    <2>3. CASE OnRetain(p)
      BY <1>3, <1>6, <2>1, <2>3 DEF OnRetain, IInv, TypeOK
    <2>4. CASE OnDisable(p, i) \/ OnDisableAll(p, i)
      BY <1>1, <1>6, <2>1, <2>2, <2>4, DisableIInv, DisableAllIInv DEF Matches
    <2>5. QED  BY <2>2, <2>3, <2>4
  <1>7. QED
    BY <1>2, <1>4, <1>5, <1>6 DEF OnWatchPoint

\* Dismantling the table: each DisArm gives back one device.
LEMMA TerminateIInv ==
    ASSUME IInv, TerminateBegin \/ TerminateEnd \/ \E i \in Slots : TerminateDisArm(i)
    PROVE  IInv'
  <1>1. CASE TerminateBegin \/ TerminateEnd
    <2>1. UNCHANGED <<wp, deviceMap, pending, ring, nextEvent, freed, exited, badReads>>
      BY <1>1 DEF TerminateBegin, TerminateEnd
    <2>2. TypeOK' /\ SlotStates'
      BY <1>1, <2>1 DEF TerminateBegin, TerminateEnd, IInv, TypeOK, SlotStates
    <2>3. NoOverlap' /\ SlotsOwnDevices' /\ ArmedDeviceAimed'
      BY <2>1 DEF IInv, NoOverlap, Bytes, SlotsOwnDevices, ArmedDeviceAimed
    <2>4. ArmedEventLive' /\ SignalsTraceable' /\ EventsSet' /\ DeadEventReads'
      BY <2>1 DEF IInv, ArmedEventLive, SignalsTraceable, EventsSet, DeadEventReads
    <2>5. QED  BY <2>2, <2>3, <2>4 DEF IInv
  <1>2. ASSUME NEW i \in Slots, TerminateDisArm(i)
        PROVE  IInv'
    <2> DEFINE fd == wp[i].fileHandle
    <2>1. SlotsOff({i}, FALSE)
      BY <1>2, OffFacts DEF SlotsOff, TerminateDisArm, IInv, TypeOK
    <2>2. DevsOff({fd}, FALSE)
      BY <1>2 DEF DevsOff, TerminateDisArm, RemoveDevice, IInv, TypeOK, SlotStates
    <2>3. SigsOff({fd}) /\ ReadsKept
      BY <1>2, RingLostSigsOff
         DEF TerminateDisArm, IInv, TypeOK, ReadsKept, DeadEventReads
    <2>4. {fd} = {wp[j].fileHandle : j \in {i}} /\ {i} \in SUBSET Slots
      OBVIOUS
    <2>5. fd # -1 /\ UNCHANGED <<tData, nextEvent, freed>> /\ exited' \in BOOLEAN
      BY <1>2 DEF TerminateDisArm, IInv, TypeOK
    <2>6. QED
      BY <2>1, <2>2, <2>3, <2>4, <2>5, OffIInv
  <1>3. QED  BY <1>1, <1>2

\* A watchpoint that fires names the arming that is in force.
LEMMA FireIInv ==
    ASSUME IInv, NEW i \in Slots, Fire(i)
    PROVE  IInv'
  <1> DEFINE fd == wp[i].fileHandle
             id == wp[i].sampledEvent.id
  <1>1. /\ fd \in DOMAIN deviceMap /\ deviceMap[fd].hw
        /\ ring' = [ring EXCEPT ![fd] = deviceMap[fd].address]
        /\ UNCHANGED <<tData, wp, nextEvent, freed, exited, badReads>>
    BY DEF Fire
  <1>2. PICK n \in 1 .. MaxPending :
           pending' = pending \cup {[n |-> n, fd |-> fd, ev |-> id, read |-> FALSE]}
    BY DEF Fire
  <1> DEFINE p == [n |-> n, fd |-> fd, ev |-> id, read |-> FALSE]
  <1>3. p \in Trigger /\ p.fd = fd /\ p.ev = id
    BY <1>1 DEF Trigger, IInv, TypeOK, RegisterInfo, SampledEvent
  <1>4. /\ DOMAIN deviceMap' = DOMAIN deviceMap
        /\ deviceMap' \in [DOMAIN deviceMap -> BPDevice]
        /\ \A f \in DOMAIN deviceMap :
              /\ deviceMap'[f].address = deviceMap[f].address
              /\ deviceMap'[f].length = deviceMap[f].length
              /\ deviceMap'[f].isDisabled = deviceMap[f].isDisabled
              /\ ~Concurrent /\ deviceMap[f].isDisabled => ~deviceMap'[f].hw
    BY <1>1 DEF Fire, IInv, TypeOK, BPDevice, SlotStates
  <1> HIDE DEF p
  <1>5. TypeOK'
    <2>1. ring' \in [FDs -> Nat]
      BY <1>1 DEF IInv, TypeOK, BPDevice
    <2>2. pending' \subseteq Trigger
      BY <1>2, <1>3 DEF IInv, TypeOK, p
    <2>3. QED  BY <1>1, <1>4, <2>1, <2>2 DEF IInv, TypeOK
  <1>6. NoOverlap' /\ ArmedEventLive' /\ EventsSet' /\ DeadEventReads'
    BY <1>1 DEF IInv, NoOverlap, Bytes, ArmedEventLive, EventsSet, DeadEventReads
  <1>7. SlotsOwnDevices' /\ ArmedDeviceAimed'
    BY <1>1, <1>4 DEF IInv, SlotsOwnDevices, ArmedDeviceAimed
  <1>8. SlotStates'
    BY <1>1, <1>4 DEF IInv, TypeOK, SlotsOwnDevices, SlotStates
  <1>9. SignalsTraceable'
    <2>1. p.ev < nextEvent
      BY <1>3 DEF IInv, SignalsTraceable
    <2>2. fd # -1 /\ fd \in FDs
      BY <1>1, WPAssumption DEF IInv, TypeOK
    <2>3. ASSUME NEW q \in pending', NEW j \in Slots, wp[j].isActive, wp[j].fileHandle = q.fd,
                 wp[j].sampledEvent.id = q.ev, ~q.read
          PROVE  ring'[q.fd] = wp[j].va
      <3>1. CASE q.fd = fd
        <4>1. j = i
          BY <2>2, <2>3, <3>1 DEF IInv, SlotsOwnDevices
        <4>2. ring'[fd] = deviceMap[fd].address
          BY <1>1, <2>2 DEF IInv, TypeOK
        <4>3. QED  BY <2>3, <3>1, <4>1, <4>2 DEF IInv, ArmedDeviceAimed
      <3>2. CASE q.fd # fd
        <4>1. q \in pending /\ q.fd \in FDs
          BY <1>2, <1>3, <2>3, <3>2 DEF p, IInv, TypeOK, Trigger
        <4>2. ring'[q.fd] = ring[q.fd]
          BY <1>1, <3>2, <4>1 DEF IInv, TypeOK
        <4>3. QED  BY <2>3, <4>1, <4>2 DEF IInv, SignalsTraceable
      <3>3. QED  BY <3>1, <3>2
    <2>4. \A q \in pending' : q.ev < nextEvent
      BY <1>2, <2>1 DEF IInv, SignalsTraceable, p
    <2>5. QED
      BY <1>1, <2>3, <2>4 DEF IInv, SignalsTraceable
  <1>10. QED  BY <1>5, <1>6, <1>7, <1>8, <1>9 DEF IInv

-----------------------------------------------------------------------------
(* The theorems                                                            *)

\* The invariant is inductive: every step of the library, of the hardware and of other
\* threads preserves it.
THEOREM Inductive == Spec => []IInv
  <1>0. ASSUME IInv, wp' = wp, deviceMap' \in {deviceMap, Resumed(deviceMap), Paused(deviceMap)},
               UNCHANGED <<pending, ring, nextEvent, freed, tData, exited, badReads>>
        PROVE  IInv'
    <2>1. SigsOff({})
      BY <1>0, DroppedSigsOff
    <2>2. ReadsKept /\ exited' \in BOOLEAN
      BY <1>0 DEF ReadsKept, IInv, TypeOK, DeadEventReads
    <2>3. QED  BY <1>0, <2>1, <2>2, QuietIInv
  <1>1. ASSUME IInv, [Next]_vars
        PROVE  IInv'
    <2>1. CASE WP_ThreadInit
      BY <1>1, <2>1, ThreadInitIInv
    <2>2. CASE tool_PEBSEventHandler
      <3>1. CASE SampleDropped
        BY <1>0, <1>1, <3>1 DEF SampleDropped
      <3>2. CASE \E va \in Addrs, accessLen \in AccessLens : WP_Subscribe(va, accessLen)
        BY <1>1, <3>2, SubscribeIInv
      <3>3. QED
        BY <2>2, <3>1, <3>2 DEF tool_PEBSEventHandler
    <2>3. CASE \E p \in pending : OnWatchPoint(p)
      BY <1>1, <2>3, OnWatchPointIInv
    <2>4. CASE TerminateBegin \/ TerminateEnd \/ \E i \in Slots : TerminateDisArm(i)
      BY <1>1, <2>4, TerminateIInv
    <2>5. CASE \E i \in Slots : Fire(i)
      BY <1>1, <2>5, FireIInv
    <2>6. CASE OtherPauses \/ OtherResumes
      BY <1>0, <1>1, <2>6 DEF OtherPauses, OtherResumes
    <2>7. CASE UNCHANGED vars
      BY <1>0, <1>1, <2>7 DEF vars
    <2>8. QED
      BY <1>1, <2>1, <2>2, <2>3, <2>4, <2>5, <2>6, <2>7 DEF Next
  <1>2. QED
    BY <1>1, InitIInv, PTL DEF Spec

\* Slots, devices, signals and events keep their types.
THEOREM TypeCorrect == Spec => []TypeOK
  BY Inductive, PTL DEF IInv

\* Two armed slots never watch a common byte, whatever sequence of samples,
\* replacements, triggers and terminations led there.
THEOREM Disjointness == Spec => []NoOverlap
  BY Inductive, PTL DEF IInv

\* No breakpoint device leaks and no slot keeps a descriptor that was closed.
THEOREM Ownership == Spec => []SlotsOwnDevices
  BY Inductive, PTL DEF IInv

\* The device behind an armed slot is open, not ended and aimed at the slot's interval.
THEOREM Aim == Spec => []ArmedDeviceAimed
  BY Inductive, PTL DEF IInv

\* No resume revives a watchpoint that ended, unless devices are kept for re-aiming and
\* another thread resumes them.
THEOREM Quiet == Spec => []QuietWhenDisarmed
  <1>1. IInv => QuietWhenDisarmed
    BY WPAssumption DEF IInv, TypeOK, QuietWhenDisarmed, SlotStates
  <1>2. QED  BY <1>1, Inductive, PTL

\* Armed slots point to events that were not deleted, each to its own: none is deleted twice.
THEOREM EventsLive == Spec => []ArmedEventLive
  BY Inductive, PTL DEF IInv

\* The search of OnWatchPoint and what follows it use live events; its logging line may
\* read a deleted event, and only the report before exit(0) a pointer that was never set.
THEOREM EventReads == Spec => []DeadEventReads
  BY Inductive, PTL DEF IInv

\* The exit(0) of OnWatchPoint is never taken for a signal of a watchpoint in force whose
\* record no earlier handler has read.
THEOREM Recognition == Spec => []FreshSignalRecognised
  <1>1. ASSUME IInv, NEW p \in pending, NEW i \in Slots, wp[i].isActive,
               wp[i].fileHandle = p.fd, wp[i].sampledEvent.id = p.ev, ~p.read
        PROVE  /\ p.fd \in DOMAIN deviceMap
               /\ \A addr \in EventAddrs(p.fd) : Matches(i, p.fd, addr)
    <2>1. ring[p.fd] = wp[i].va /\ wp[i].va # NoAddr /\ wp[i].sampledEvent.data_addr = wp[i].va
      BY <1>1 DEF IInv, SignalsTraceable
    <2>2. EventAddrs(p.fd) = {wp[i].va}
      BY <2>1 DEF EventAddrs
    <2>3. QED  BY <1>1, <2>1, <2>2 DEF IInv, ArmedDeviceAimed, Matches
  <1>2. IInv => FreshSignalRecognised
    BY <1>1 DEF FreshSignalRecognised
  <1>3. QED  BY <1>2, Inductive, PTL

-----------------------------------------------------------------------------
(* What a step does to the slots, for the properties of steps              *)

\* Arming gives one slot new contents, after GetVictim has counted: the new watchpoint,
\* or none if its device could not be had.
LEMMA ArmShape ==
    ASSUME IInv, NEW i \in Slots, NEW va \in Nat, NEW len \in WPLengths,
           NEW event \in SampledEvent, ArmWatchPoint(i, va, len, event)
    PROVE  \E s \in RegisterInfo :
              /\ wp' = [Survived(wp) EXCEPT ![i] = s]
              /\ s.samplePostFull = Survived(wp)[i].samplePostFull
              /\ s.isActive => s.va = va /\ s.wpLength = len /\ s.sampledEvent = event
  <1> DEFINE old == Survived(wp)[i]
  <1>1. old \in RegisterInfo
    BY SurvivedFacts DEF IInv, TypeOK
  <1> HIDE DEF old
  <1>2. ASSUME NEW fd \in FDs
        PROVE  /\ Armed(old, fd, va, len, event) \in RegisterInfo
               /\ Armed(old, fd, va, len, event).samplePostFull = old.samplePostFull
               /\ Armed(old, fd, va, len, event).va = va
               /\ Armed(old, fd, va, len, event).wpLength = len
               /\ Armed(old, fd, va, len, event).sampledEvent = event
    BY <1>1 DEF Armed, RegisterInfo
  <1>3. /\ Disabled(old) \in RegisterInfo /\ DisArmed(old) \in RegisterInfo
        /\ ~Disabled(old).isActive /\ ~DisArmed(old).isActive
        /\ Disabled(old).samplePostFull = old.samplePostFull
        /\ DisArmed(old).samplePostFull = old.samplePostFull
    BY <1>1 DEF Disabled, DisArmed, RegisterInfo
  <1>4. \/ \E fd \in FDs : wp' = [Survived(wp) EXCEPT ![i] = Armed(old, fd, va, len, event)]
        \/ wp' = [Survived(wp) EXCEPT ![i] = Disabled(old)]
        \/ wp' = [Survived(wp) EXCEPT ![i] = DisArmed(old)]
    <2>1. CASE ModifyEnabled /\ wp[i].fileHandle # -1
      <3>1. wp[i].fileHandle \in FDs
        BY <2>1 DEF IInv, TypeOK, RegisterInfo
      <3>2. QED  BY <2>1, <3>1 DEF ArmWatchPoint, ModifyWatchPoint, old
    <2>2. CASE ~(ModifyEnabled /\ wp[i].fileHandle # -1)
      BY <2>2 DEF ArmWatchPoint, FreshWatchPoint, old
    <2>3. QED  BY <2>1, <2>2
  <1>5. QED  BY <1>2, <1>3, <1>4 DEF old

\* The counters of GetVictim.
LEMMA SurvivedCounts ==
    ASSUME wp \in [Slots -> RegisterInfo], NEW i \in Slots
    PROVE  /\ wp[i].samplePostFull \in Nat
           /\ wp[i].isActive =>
                 Survived(wp)[i].samplePostFull = wp[i].samplePostFull + 1
           /\ ~wp[i].isActive => Survived(wp)[i].samplePostFull = wp[i].samplePostFull
  BY DEF Survived, RegisterInfo

\* WP_Subscribe, by what it does to the table.
LEMMA SubscribeShape ==
    ASSUME IInv, NEW va \in Addrs, NEW accessLen \in AccessLens, WP_Subscribe(va, accessLen)
    PROVE  /\ UNCHANGED tData /\ nextEvent <= MaxEvents
           /\ \/ UNCHANGED wp
              \/ tData = "live" /\ wp' = Survived(wp)
              \/ \E i \in Slots, len \in WPLengths, s \in RegisterInfo :
                    /\ tData = "live" /\ GetVictim(i) /\ ~IsOveralpped(va, len)
                    /\ wp' = [Survived(wp) EXCEPT ![i] = s]
                    /\ s.samplePostFull = Survived(wp)[i].samplePostFull
                    /\ s.isActive => /\ s.va = va /\ s.wpLength = len
                                     /\ s.sampledEvent = [id |-> nextEvent, data_addr |-> va]
  <1> DEFINE len   == IF InstWatch THEN 8 ELSE GetFloorWPLength(accessLen)
             event == [id |-> nextEvent, data_addr |-> va]
  <1>1. va \in Nat /\ len \in WPLengths
    BY WPAssumption, FloorLength DEF WPLengths
  <1>2. event \in SampledEvent
    BY <1>1 DEF SampledEvent, IInv, TypeOK
  <1>3. \/ UNCHANGED wp
        \/ tData = "live" /\ wp' = Survived(wp)
        \/ \E i \in Slots : /\ tData = "live" /\ GetVictim(i) /\ ~IsOveralpped(va, len)
                            /\ ArmWatchPoint(i, va, len, event)
    BY DEF WP_Subscribe
  <1>4. UNCHANGED tData /\ nextEvent <= MaxEvents
    BY DEF WP_Subscribe
  <1> HIDE DEF len, event
  <1>5. ASSUME NEW i \in Slots, tData = "live", GetVictim(i), ~IsOveralpped(va, len),
               ArmWatchPoint(i, va, len, event)
        PROVE  \E s \in RegisterInfo :
                  /\ wp' = [Survived(wp) EXCEPT ![i] = s]
                  /\ s.samplePostFull = Survived(wp)[i].samplePostFull
                  /\ s.isActive => s.va = va /\ s.wpLength = len /\ s.sampledEvent = event
    BY <1>1, <1>2, <1>5, ArmShape
  <1>6. QED  BY <1>1, <1>3, <1>4, <1>5 DEF event

\* Every other step: what is still armed was armed and is as it was.
LEMMA OtherSteps ==
    ASSUME IInv, [Next]_vars,
           ~\E va \in Addrs, accessLen \in AccessLens : WP_Subscribe(va, accessLen)
    PROVE  \A j \in Slots : wp'[j].isActive => wp'[j] = wp[j]
  <1>1. CASE WP_ThreadInit
    BY <1>1 DEF WP_ThreadInit
  <1>2. CASE SampleDropped \/ OtherPauses \/ OtherResumes \/ (\E i \in Slots : Fire(i))
             \/ TerminateBegin \/ TerminateEnd \/ UNCHANGED vars
    BY <1>2 DEF SampleDropped, OtherPauses, OtherResumes, Fire, TerminateBegin,
                TerminateEnd, vars
  <1>3. ASSUME NEW i \in Slots, TerminateDisArm(i)
        PROVE  \A j \in Slots : wp'[j].isActive => wp'[j] = wp[j]
    BY <1>3, OffFacts DEF TerminateDisArm, IInv, TypeOK
  <1>4. ASSUME NEW p \in pending, OnWatchPoint(p)
        PROVE  \A j \in Slots : wp'[j].isActive => wp'[j] = wp[j]
    <2>1. CASE UNCHANGED wp
      BY <2>1
    <2>2. ASSUME NEW i \in Slots, OnDisable(p, i)
          PROVE  \A j \in Slots : wp'[j].isActive => wp'[j] = wp[j]
      BY <2>2, SwitchedOffFacts DEF OnDisable, IInv, TypeOK
    <2>3. ASSUME NEW i \in Slots, OnDisableAll(p, i)
          PROVE  \A j \in Slots : ~wp'[j].isActive
      BY <2>3, SwitchedOffFacts, OffFacts DEF OnDisableAll, IInv, TypeOK
    <2>4. QED
      BY <1>4, <2>1, <2>2, <2>3 DEF OnWatchPoint, OnDropped, OnNoTable, OnUnknown, OnFault, OnKnown, OnRetain
  <1>5. QED
    BY <1>1, <1>2, <1>3, <1>4 DEF Next, tool_PEBSEventHandler

\* Reservoir sampling (GetVictim, watchpoint.cpp): a sample that is armed has aged every
\* watchpoint armed before it by one, and a watchpoint that goes on never grows younger.
THEOREM Reservoir == Spec => SurvivorsAge
  <1> DEFINE Ages ==
        /\ (\E j \in Slots : wp'[j].isActive /\ wp'[j].sampledEvent.id = nextEvent)
             => \A i \in Slots : wp[i].isActive
                  => wp'[i].samplePostFull = wp[i].samplePostFull + 1
        /\ \A i \in Slots : wp'[i].samplePostFull < wp[i].samplePostFull
             => ~wp'[i].isActive
  <1>1. ASSUME IInv, [Next]_vars
        PROVE  Ages
    <2>0. wp \in [Slots -> RegisterInfo] /\ \A i \in Slots : wp[i].samplePostFull \in Nat
      BY <1>1, SurvivedCounts DEF IInv, TypeOK
    <2>1. ASSUME \A j \in Slots : wp'[j].isActive => wp'[j] = wp[j]
          PROVE  Ages
      <3>1. \A j \in Slots : wp[j].isActive => wp[j].sampledEvent.id # nextEvent
        BY <1>1 DEF IInv, TypeOK, ArmedEventLive
      <3>2. QED  BY <2>0, <2>1, <3>1
    <2>2. ASSUME \A i \in Slots : wp'[i].samplePostFull = Survived(wp)[i].samplePostFull
          PROVE  Ages
      BY <2>0, <2>2, SurvivedCounts
    <2>3. ASSUME NEW va \in Addrs, NEW accessLen \in AccessLens, WP_Subscribe(va, accessLen)
          PROVE  Ages
      <3>1. CASE UNCHANGED wp
        BY <2>1, <3>1
      <3>2. CASE wp' = Survived(wp)
        BY <2>2, <3>2
      <3>3. ASSUME NEW i \in Slots, NEW s \in RegisterInfo,
                   wp' = [Survived(wp) EXCEPT ![i] = s],
                   s.samplePostFull = Survived(wp)[i].samplePostFull
            PROVE  Ages
        <4>1. Survived(wp) \in [Slots -> RegisterInfo]
          BY <2>0, SurvivedFacts
        <4>2. \A j \in Slots : wp'[j].samplePostFull = Survived(wp)[j].samplePostFull
          BY <3>3, <4>1
        <4>3. QED  BY <2>2, <4>2
      <3> HIDE DEF Ages
      <3>4. QED  BY <1>1, <2>3, <3>1, <3>2, <3>3, SubscribeShape
    <2> HIDE DEF Ages
    <2>4. QED  BY <1>1, <2>1, <2>3, OtherSteps
  <1>2. QED  BY <1>1, Inductive, PTL DEF Spec, SurvivorsAge

-----------------------------------------------------------------------------
(* The table implements the pool                                           *)

\* A place of the pool is in use exactly while its slot can be seen and is armed.
LEMMA ViewFacts ==
    ASSUME IInv, NEW i \in Slots
    PROVE  /\ tData = "live" /\ wp[i].isActive =>
                 /\ PoolView[i] = [ev |-> wp[i].sampledEvent.id, va |-> wp[i].va,
                                   len |-> wp[i].wpLength]
                 /\ PoolView[i] # Pool!Free
           /\ ~(tData = "live" /\ wp[i].isActive) => PoolView[i] = Pool!Free
  BY DEF PoolView, Pool!Free, IInv, TypeOK, ArmedEventLive

\* Two tables that show the same watchpoints are the same pool.
LEMMA SameView ==
    ASSUME IInv, UNCHANGED tData,
           tData = "live" => \A i \in Slots :
              /\ wp'[i].isActive = wp[i].isActive
              /\ wp[i].isActive => /\ wp'[i].sampledEvent = wp[i].sampledEvent
                                   /\ wp'[i].va = wp[i].va
                                   /\ wp'[i].wpLength = wp[i].wpLength
    PROVE  UNCHANGED PoolView
  BY DEF PoolView

\* Ending one watchpoint is Release, or nothing if it was not armed.
LEMMA ReleaseView ==
    ASSUME IInv, UNCHANGED tData, NEW i \in Slots, ~wp'[i].isActive,
           \A j \in Slots \ {i} :
              /\ wp'[j].isActive = wp[j].isActive
              /\ wp'[j].sampledEvent = wp[j].sampledEvent
              /\ wp'[j].va = wp[j].va
              /\ wp'[j].wpLength = wp[j].wpLength
    PROVE  [Pool!Next]_PoolView
  <1>1. PoolView' = [PoolView EXCEPT ![i] = Pool!Free]
    BY DEF PoolView, Pool!Free
  <1>2. CASE tData = "live" /\ wp[i].isActive
    BY <1>1, <1>2, ViewFacts DEF Pool!Next, Pool!Release, Pool!InUse
  <1>3. CASE ~(tData = "live" /\ wp[i].isActive)
    <2>1. PoolView[i] = Pool!Free
      BY <1>3, ViewFacts
    <2>2. PoolView' = PoolView
      BY <1>1, <2>1 DEF PoolView
    <2>3. QED  BY <2>2
  <1>4. QED  BY <1>2, <1>3

\* Ending them all, or losing sight of the table, is Clear.
LEMMA ClearView ==
    ASSUME tData' # "live" \/ \A i \in Slots : ~wp'[i].isActive
    PROVE  [Pool!Next]_PoolView
  <1>1. PoolView' = [i \in Slots |-> Pool!Free]
    BY DEF PoolView, Pool!Free
  <1>2. QED  BY <1>1 DEF Pool!Next, Pool!Clear

\* Arming a slot is Take: IsOveralpped keeps the intervals apart, event ids grow, and
\* GetVictim gives up an armed slot of a full table only.
LEMMA TakeView ==
    ASSUME IInv, UNCHANGED tData, tData = "live", NEW va \in Addrs, NEW i \in Slots,
           NEW len \in WPLengths, NEW s \in RegisterInfo, nextEvent <= MaxEvents,
           GetVictim(i), ~IsOveralpped(va, len), wp' = [Survived(wp) EXCEPT ![i] = s],
           s.isActive, s.va = va, s.wpLength = len,
           s.sampledEvent = [id |-> nextEvent, data_addr |-> va]
    PROVE  Pool!Next
  <1> DEFINE w == [ev |-> nextEvent, va |-> va, len |-> len]
  <1>1. wp \in [Slots -> RegisterInfo] /\ nextEvent \in Nat \ {0} /\ va \in Nat
    BY WPAssumption DEF IInv, TypeOK
  <1>2. w \in Pool!Watch
    BY <1>1, WPAssumption DEF Pool!Watch, WPLengths
  <1>3. PoolView' = [PoolView EXCEPT ![i] = w]
    <2>1. wp'[i] = s /\ \A j \in Slots \ {i} : wp'[j] = Survived(wp)[j]
      BY <1>1, SurvivedFacts
    <2>2. \A j \in Slots \ {i} :
             /\ wp'[j].isActive = wp[j].isActive
             /\ wp'[j].sampledEvent = wp[j].sampledEvent
             /\ wp'[j].va = wp[j].va
             /\ wp'[j].wpLength = wp[j].wpLength
      BY <1>1, <2>1, SurvivedFacts
    <2>3. PoolView'[i] = w
      <3>1. tData' = "live" /\ wp'[i].isActive
        BY <2>1
      <3>2. PoolView'[i] = [ev |-> wp'[i].sampledEvent.id, va |-> wp'[i].va,
                            len |-> wp'[i].wpLength]
        BY <3>1 DEF PoolView
      <3>3. QED  BY <2>1, <3>2
    <2>4. \A j \in Slots \ {i} : PoolView'[j] = PoolView[j]
      BY <2>2 DEF PoolView
    <2>5. PoolView' = [j \in Slots |-> PoolView'[j]] /\ PoolView = [j \in Slots |-> PoolView[j]]
      BY DEF PoolView
    <2> HIDE DEF w
    <2>6. QED  BY <2>3, <2>4, <2>5
  <1>4. \A q \in Slots : q \in Pool!InUse <=> wp[q].isActive
    BY ViewFacts DEF Pool!InUse
  <1>5. ASSUME NEW q \in Slots, wp[q].isActive
        PROVE  Pool!Disjoint(PoolView[q], w) /\ PoolView[q].ev < w.ev
    <2>1. PoolView[q] = [ev |-> wp[q].sampledEvent.id, va |-> wp[q].va,
                         len |-> wp[q].wpLength]
      BY <1>5, ViewFacts
    <2>2. wp[q].va \in Nat /\ wp[q].wpLength \in Nat \ {0} /\ len \in Nat \ {0}
      BY <1>1 DEF RegisterInfo, WPLengths
    <2>3. ~ADDRESSES_OVERLAP(wp[q].va, wp[q].wpLength, va, len)
      BY <1>5 DEF IsOveralpped
    <2>4. (wp[q].va .. wp[q].va + wp[q].wpLength - 1) \cap (va .. va + len - 1) = {}
      BY <1>1, <2>2, <2>3, OverlapIsSharedByte
    <2>5. wp[q].sampledEvent.id < nextEvent
      BY DEF IInv, SignalsTraceable
    <2>6. QED  BY <2>1, <2>4, <2>5 DEF Pool!Disjoint
  <1>6. wp[i].isActive => \A q \in Slots : wp[q].isActive
    BY DEF GetVictim, Inactive
  <1>7. Pool!InUse \subseteq Slots
    BY DEF Pool!InUse
  <1>8. i \in Pool!InUse => Pool!InUse = Slots
    BY <1>4, <1>6, <1>7
  <1>9. PoolView'[i] = w
    <2>1. i \in DOMAIN PoolView
      BY DEF PoolView
    <2> HIDE DEF w
    <2>2. QED  BY <1>3, <2>1
  <1> HIDE DEF w
  <1>10. Pool!Take(i, w)
    BY <1>3, <1>4, <1>5, <1>7, <1>8 DEF Pool!Take
  <1>11. Pool!Take(i, PoolView'[i]) /\ PoolView'[i] \in Pool!Watch
    BY <1>2, <1>9, <1>10
  <1>12. QED  BY <1>11 DEF Pool!Next

\* WP_Subscribe: a new place, a place lost half-way, or nothing.
LEMMA SubscribeView ==
    ASSUME IInv, NEW va \in Addrs, NEW accessLen \in AccessLens, WP_Subscribe(va, accessLen)
    PROVE  [Pool!Next]_PoolView
  <1>0. UNCHANGED tData /\ nextEvent <= MaxEvents /\ wp \in [Slots -> RegisterInfo]
    BY SubscribeShape DEF IInv, TypeOK
  <1>1. CASE UNCHANGED wp \/ wp' = Survived(wp)
    <2>1. UNCHANGED PoolView
      BY <1>0, <1>1, SameView, SurvivedFacts
    <2>2. QED  BY <2>1
  <1>2. ASSUME NEW i \in Slots, NEW len \in WPLengths, NEW s \in RegisterInfo,
               tData = "live", GetVictim(i), ~IsOveralpped(va, len),
               wp' = [Survived(wp) EXCEPT ![i] = s],
               s.isActive => /\ s.va = va /\ s.wpLength = len
                             /\ s.sampledEvent = [id |-> nextEvent, data_addr |-> va]
        PROVE  [Pool!Next]_PoolView
    <2>1. CASE s.isActive
      BY <1>0, <1>2, <2>1, TakeView
    <2>2. CASE ~s.isActive
      <3>1. wp'[i] = s /\ \A j \in Slots \ {i} : wp'[j] = Survived(wp)[j]
        BY <1>0, <1>2, SurvivedFacts
      <3>2. \A j \in Slots \ {i} :
               /\ wp'[j].isActive = wp[j].isActive
               /\ wp'[j].sampledEvent = wp[j].sampledEvent
               /\ wp'[j].va = wp[j].va
               /\ wp'[j].wpLength = wp[j].wpLength
        BY <1>0, <3>1, SurvivedFacts
      <3>3. QED  BY <1>0, <2>2, <3>1, <3>2, ReleaseView
    <2>3. QED  BY <2>1, <2>2
  <1>3. QED  BY <1>1, <1>2, SubscribeShape

\* OnWatchPoint: one watchpoint ends, all end, or none does.
LEMMA OnWatchPointView ==
    ASSUME IInv, NEW p \in pending, OnWatchPoint(p)
    PROVE  [Pool!Next]_PoolView
  <1>0. UNCHANGED tData /\ wp \in [Slots -> RegisterInfo]
    BY DEF OnWatchPoint, IInv, TypeOK
  <1>1. CASE UNCHANGED wp
    <2>1. UNCHANGED PoolView
      BY <1>0, <1>1, SameView
    <2>2. QED  BY <2>1
  <1>2. ASSUME NEW i \in Slots, OnDisable(p, i)  PROVE [Pool!Next]_PoolView
    <2>1. ~wp'[i].isActive /\ \A j \in Slots \ {i} : wp'[j] = wp[j]
      BY <1>0, <1>2, SwitchedOffFacts DEF OnDisable
    <2>2. QED  BY <1>0, <2>1, ReleaseView
  <1>3. ASSUME NEW i \in Slots, OnDisableAll(p, i)  PROVE [Pool!Next]_PoolView
    <2>1. \A j \in Slots : ~wp'[j].isActive
      BY <1>0, <1>3, SwitchedOffFacts, OffFacts DEF OnDisableAll
    <2>2. QED  BY <2>1, ClearView
  <1>4. QED
    BY <1>1, <1>2, <1>3 DEF OnWatchPoint, OnDropped, OnNoTable, OnUnknown, OnFault, OnKnown, OnRetain

\* Every behaviour of the watchpoint table (watchpoint.cpp) is a behaviour of the pool of
\* disjoint intervals it promises its clients: each step is a Take, a Release, a Clear or
\* none of the client's concern.
THEOREM TableImplementsPool == Spec => ImplementsPool
  <1>1. Init => Pool!Init
    BY DEF Init, Pool!Init, Pool!Free, PoolView
  <1>2. ASSUME IInv, [Next]_vars
        PROVE  [Pool!Next]_PoolView
    <2>1. CASE WP_ThreadInit \/ TerminateBegin \/ TerminateEnd
               \/ (\E i \in Slots : TerminateDisArm(i))
      <3>1. tData' # "live" \/ \A i \in Slots : ~wp'[i].isActive
        <4>1. CASE WP_ThreadInit
          BY <4>1 DEF WP_ThreadInit
        <4>2. CASE TerminateBegin \/ TerminateEnd
          BY <4>2 DEF TerminateBegin, TerminateEnd
        <4>3. ASSUME NEW i \in Slots, TerminateDisArm(i)  PROVE tData' # "live"
          BY <4>3 DEF TerminateDisArm
        <4>4. QED  BY <2>1, <4>1, <4>2, <4>3
      <3>2. QED  BY <3>1, ClearView
    <2>2. CASE SampleDropped \/ OtherPauses \/ OtherResumes \/ (\E i \in Slots : Fire(i))
               \/ UNCHANGED vars
      <3>1. UNCHANGED <<wp, tData>>
        BY <2>2 DEF SampleDropped, OtherPauses, OtherResumes, Fire, vars
      <3>2. UNCHANGED PoolView
        BY <1>2, <3>1, SameView
      <3>3. QED  BY <3>2
    <2>3. QED
      BY <1>2, <2>1, <2>2, SubscribeView, OnWatchPointView DEF Next, tool_PEBSEventHandler
  <1>3. QED  BY <1>1, <1>2, Inductive, PTL DEF Spec, ImplementsPool, Pool!Spec
=============================================================================
