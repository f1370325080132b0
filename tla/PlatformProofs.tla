--------------------------- MODULE PlatformProofs ---------------------------
(***************************************************************************)
(* Proofs about the platform layer, for any number of threads, descriptors *)
(* and sessions: the two device maps agree, a session leaves nothing       *)
(* behind, and no device stays paused.                                     *)
(***************************************************************************)
EXTENDS Platform, TLAPS

Progs == {"out", "opened", "adding", "added", "linking", "in", "removing"}
Handlers == {"none", "pauseWait", "pausing", "lookupWait", "lookup", "serve", "resumeWait",
             "resuming"}

PlatformTypes ==
    /\ prog \in [Threads -> Progs]
    /\ newFd \in [Threads -> FDs \cup {None}]
    /\ sessionKey \in [Threads -> Int]
    /\ sKey \in Nat
    /\ DOMAIN deviceMap \subseteq Threads \X FDs
    /\ deviceMap \in [DOMAIN deviceMap -> [session : Int, counts : BOOLEAN]]
    /\ sessionMap \subseteq Int \X FDs
    /\ handler \in [Threads -> Handlers]
    /\ signals \subseteq Signal

\* Session keys are handed out once: those in use are below the next one, no two
\* threads have the same, and a thread that has none yet is in no session.
Keys ==
    /\ \A t \in Threads : sessionKey[t] < sKey
    /\ \A t \in Threads : sessionKey[t] >= 0 \/ prog[t] = "out"
    /\ \A t, u \in Threads : t # u /\ sessionKey[t] >= 0 => sessionKey[t] # sessionKey[u]

\* A thread that is registering has its descriptor, and no device yet before it is
\* added.
Registering ==
    /\ \A t \in Threads : prog[t] \in {"opened", "adding", "added", "linking"} =>
          newFd[t] \in FDs
    /\ \A t \in Threads : prog[t] \in {"opened", "adding"} =>
          \A k \in DOMAIN deviceMap : k[1] # t
    /\ \A t \in Threads : prog[t] \in {"added", "linking"} =>
          <<t, newFd[t]>> \in DOMAIN deviceMap

\* The two maps, one after the other.
DevicesListed ==
    \A k \in DOMAIN deviceMap :
        /\ deviceMap[k].session = sessionKey[k[1]]
        /\ \/ <<deviceMap[k].session, k[2]>> \in sessionMap
           \/ prog[k[1]] \in {"added", "linking"} /\ newFd[k[1]] = k[2]
ListedOwned ==
    \A e \in sessionMap : \E t \in Threads :
        /\ sessionKey[t] = e[1]
        /\ <<t, e[2]>> \in DOMAIN deviceMap \/ prog[t] = "removing"

PInv ==
    /\ PlatformTypes
    /\ Keys
    /\ Registering
    /\ DevicesListed
    /\ ListedOwned
    /\ NothingLeftBehind
    /\ NoneLeftPaused

MapsInv == Keys /\ Registering /\ DevicesListed /\ ListedOwned /\ NothingLeftBehind

-----------------------------------------------------------------------------

LEMMA InitPInv == Init => PInv
  <1> SUFFICES ASSUME Init PROVE PInv
    OBVIOUS
  <1>1. /\ DOMAIN deviceMap = {}
        /\ deviceMap \in [DOMAIN deviceMap -> [session : Int, counts : BOOLEAN]]
    BY DEF Init
  <1>2. PlatformTypes
    BY <1>1 DEF Init, PlatformTypes, Progs, Handlers
  <1>3. Keys
    BY DEF Init, Keys
  <1>4. QED
    BY <1>1, <1>2, <1>3
    DEF Init, PInv, Registering, DevicesListed, ListedOwned, NothingLeftBehind,
        NoneLeftPaused

\* Steps that leave a thread's own code and the session lists alone, and of the devices
\* change at most whether they count: everything that handlers, signals and the
\* allocator hooks do.
LEMMA CalmMaps ==
    ASSUME PlatformTypes, MapsInv, UNCHANGED <<own, sessionMap>>,
           DOMAIN deviceMap' = DOMAIN deviceMap,
           \A k \in DOMAIN deviceMap : deviceMap'[k].session = deviceMap[k].session
    PROVE  MapsInv'
  BY DEF MapsInv, Keys, Registering, DevicesListed, ListedOwned, NothingLeftBehind, own

\* The steps that move a thread along without touching the maps.
LEMMA MoveMaps ==
    ASSUME PlatformTypes, MapsInv, NEW t \in Threads,
           UNCHANGED <<newFd, sessionKey, sKey, maps>>,
           NEW p \in Progs, NEW q \in Progs, prog[t] = p, prog' = [prog EXCEPT ![t] = q],
           <<p, q>> \in {<<"opened", "adding">>, <<"added", "linking">>, <<"in", "removing">>}
    PROVE  MapsInv'
  <1>1. \A u \in Threads : u # t => prog'[u] = prog[u]
    BY DEF PlatformTypes
  <1>2. prog'[t] = q
    BY DEF PlatformTypes
  <1>3. /\ p # "out" /\ q # "out" /\ p # "removing"
        /\ p = "opened" => q = "adding"
        /\ p = "added" <=> q = "linking"
        /\ q \in {"opened", "adding"} => p = "opened"
        /\ p \in {"opened", "added", "in"} /\ q \in {"adding", "linking", "removing"}
    OBVIOUS
  <1>4. Keys' /\ Registering'
    BY <1>1, <1>2, <1>3 DEF MapsInv, Keys, Registering, maps
  <1>5. DevicesListed'
    BY <1>1, <1>2, <1>3 DEF MapsInv, PlatformTypes, DevicesListed, maps
  <1>6. ListedOwned'
    BY <1>1, <1>2, <1>3 DEF MapsInv, ListedOwned, maps
  <1>7. NothingLeftBehind'
    BY <1>1, <1>2, <1>3 DEF MapsInv, NothingLeftBehind, maps
  <1>8. QED  BY <1>4, <1>5, <1>6, <1>7 DEF MapsInv

\* A session begins with a key that no thread, device or list has seen.
LEMMA SessionMaps ==
    ASSUME PlatformTypes, MapsInv, NEW t \in Threads, SessionInit(t)
    PROVE  MapsInv'
  <1>1. /\ prog[t] = "out" /\ UNCHANGED maps /\ sKey' = sKey + 1
        /\ sessionKey' = [sessionKey EXCEPT ![t] = sKey]
    BY DEF SessionInit
  <1>2. /\ prog'[t] \in {"opened", "in"} /\ (prog'[t] = "opened" => newFd'[t] \in FDs)
        /\ \A u \in Threads \ {t} : prog'[u] = prog[u] /\ newFd'[u] = newFd[u]
    BY DEF SessionInit, PlatformTypes
  <1>3. /\ sessionKey'[t] = sKey /\ \A u \in Threads \ {t} : sessionKey'[u] = sessionKey[u]
        /\ sKey \in Nat
    BY <1>1 DEF PlatformTypes
  <1>4. /\ \A k \in DOMAIN deviceMap : k[1] # t
        /\ \A e \in sessionMap : e[1] # sessionKey[t] /\ e[1] # sKey
    <2>1. ASSUME NEW e \in sessionMap PROVE e[1] # sKey
      <3>1. PICK u \in Threads : sessionKey[u] = e[1]
        BY DEF MapsInv, ListedOwned
      <3>2. sessionKey[u] < sKey /\ sessionKey[u] \in Int
        BY DEF MapsInv, Keys, PlatformTypes
      <3>3. QED  BY <1>3, <3>1, <3>2
    <2>2. QED  BY <1>1, <2>1 DEF MapsInv, NothingLeftBehind
  <1>5. \A k \in DOMAIN deviceMap : k[1] \in Threads \ {t} /\ k[2] \in FDs
    BY <1>4 DEF PlatformTypes
  <1>6. Keys'
    BY <1>1, <1>2, <1>3 DEF MapsInv, Keys, PlatformTypes
  <1>7. Registering'
    BY <1>1, <1>2, <1>4 DEF MapsInv, Registering, maps
  <1>8. DevicesListed'
    BY <1>1, <1>2, <1>3, <1>5 DEF MapsInv, DevicesListed, maps
  <1>9. ListedOwned'
    <2> SUFFICES ASSUME NEW e \in sessionMap
                 PROVE  \E u \in Threads :
                           /\ sessionKey'[u] = e[1]
                           /\ <<u, e[2]>> \in DOMAIN deviceMap \/ prog'[u] = "removing"
      BY <1>1 DEF ListedOwned, maps
    <2>1. PICK u \in Threads : /\ sessionKey[u] = e[1]
                               /\ <<u, e[2]>> \in DOMAIN deviceMap \/ prog[u] = "removing"
      BY DEF MapsInv, ListedOwned
    <2>2. u # t
      BY <1>4, <2>1
    <2>3. QED  BY <1>2, <1>3, <2>1, <2>2
  <1>10. NothingLeftBehind'
    BY <1>1, <1>2, <1>3, <1>4 DEF MapsInv, NothingLeftBehind, maps
  <1>11. QED  BY <1>6, <1>7, <1>8, <1>9, <1>10 DEF MapsInv

\* add_new_device: the thread's first and only device.
LEMMA AddMaps ==
    ASSUME PlatformTypes, MapsInv, NEW t \in Threads, AddDevice(t)
    PROVE  MapsInv'
  <1>1. /\ prog[t] = "adding" /\ prog' = [prog EXCEPT ![t] = "added"]
        /\ UNCHANGED <<newFd, sessionKey, sKey, sessionMap>>
    BY DEF AddDevice, Unlock
  <1>2. newFd[t] \in FDs /\ \A k \in DOMAIN deviceMap : k[1] # t
    BY <1>1 DEF MapsInv, Registering
  <1>3. /\ DOMAIN deviceMap' = DOMAIN deviceMap \cup {<<t, newFd[t]>>}
        /\ deviceMap'[<<t, newFd[t]>>].session = sessionKey[t]
        /\ \A k \in DOMAIN deviceMap : deviceMap'[k] = deviceMap[k]
    BY <1>2 DEF AddDevice
  <1>4. prog'[t] = "added" /\ \A u \in Threads \ {t} : prog'[u] = prog[u]
    BY <1>1 DEF PlatformTypes
  <1>5. \A k \in DOMAIN deviceMap : k[1] \in Threads \ {t} /\ k[2] \in FDs
    BY <1>2 DEF PlatformTypes
  <1>6. Keys'
    BY <1>1, <1>4 DEF MapsInv, Keys
  <1>7. Registering'
    BY <1>1, <1>3, <1>4 DEF MapsInv, Registering
  <1>8. DevicesListed'
    BY <1>1, <1>3, <1>4, <1>5 DEF MapsInv, DevicesListed
  <1>9. ListedOwned'
    <2>1. \A u \in Threads : prog[u] = "removing" => prog'[u] = "removing"
      BY <1>1, <1>4
    <2>2. QED  BY <1>1, <1>3, <2>1 DEF MapsInv, ListedOwned
  <1>10. NothingLeftBehind'
    BY <1>1, <1>3, <1>4 DEF MapsInv, NothingLeftBehind
  <1>11. QED  BY <1>6, <1>7, <1>8, <1>9, <1>10 DEF MapsInv

\* add_new_device_to_session: the device that was added is listed.
LEMMA LinkMaps ==
    ASSUME PlatformTypes, MapsInv, NEW t \in Threads, LinkDevice(t)
    PROVE  MapsInv'
  <1>1. /\ prog[t] = "linking" /\ prog' = [prog EXCEPT ![t] = "in"]
        /\ sessionMap' = sessionMap \cup {<<sessionKey[t], newFd[t]>>}
        /\ newFd' = [newFd EXCEPT ![t] = None]
        /\ UNCHANGED <<sessionKey, sKey, deviceMap>>
    BY DEF LinkDevice, Unlock
  <1>2. /\ newFd[t] \in FDs /\ <<t, newFd[t]>> \in DOMAIN deviceMap
        /\ sessionKey[t] >= 0 /\ sessionKey[t] \in Int
    BY <1>1 DEF MapsInv, Registering, Keys, PlatformTypes
  <1>3. /\ prog'[t] = "in"
        /\ \A u \in Threads \ {t} : prog'[u] = prog[u] /\ newFd'[u] = newFd[u]
    BY <1>1 DEF PlatformTypes
  <1>4. Keys'
    BY <1>1, <1>3 DEF MapsInv, Keys
  <1>5. Registering'
    BY <1>1, <1>3 DEF MapsInv, Registering
  <1>6. DevicesListed'
    <2> SUFFICES ASSUME NEW k \in DOMAIN deviceMap
                 PROVE  \/ <<deviceMap[k].session, k[2]>> \in sessionMap'
                        \/ prog'[k[1]] \in {"added", "linking"} /\ newFd'[k[1]] = k[2]
      BY <1>1 DEF DevicesListed, MapsInv
    <2>1. k[1] \in Threads /\ deviceMap[k].session = sessionKey[k[1]]
      BY DEF PlatformTypes, MapsInv, DevicesListed
    <2>2. CASE k[1] = t
      BY <1>1, <1>3, <2>1, <2>2 DEF MapsInv, DevicesListed
    <2>3. CASE k[1] # t
      BY <1>1, <1>3, <2>1, <2>3 DEF MapsInv, DevicesListed
    <2>4. QED  BY <2>2, <2>3
  <1>7. ListedOwned'
    <2>1. \A u \in Threads : prog[u] = "removing" => prog'[u] = "removing"
      BY <1>1, <1>3
    <2>2. \A e \in sessionMap : \E u \in Threads :
             /\ sessionKey[u] = e[1]
             /\ <<u, e[2]>> \in DOMAIN deviceMap \/ prog'[u] = "removing"
      BY <2>1 DEF MapsInv, ListedOwned
    <2>3. ASSUME NEW e \in sessionMap'
          PROVE  \E u \in Threads :
                    /\ sessionKey[u] = e[1]
                    /\ <<u, e[2]>> \in DOMAIN deviceMap \/ prog'[u] = "removing"
      <3>1. CASE e \in sessionMap
        BY <2>2, <3>1
      <3>2. CASE e = <<sessionKey[t], newFd[t]>>
        BY <1>2, <3>2
      <3>3. QED  BY <1>1, <3>1, <3>2
    <2>4. QED  BY <1>1, <2>3 DEF ListedOwned
  <1>8. NothingLeftBehind'
    BY <1>1, <1>2, <1>3 DEF MapsInv, NothingLeftBehind, Keys
  <1>9. QED  BY <1>4, <1>5, <1>6, <1>7, <1>8 DEF MapsInv

\* remove_device, while its session is being removed.
LEMMA RemoveMaps ==
    ASSUME PlatformTypes, MapsInv, NEW t \in Threads, NEW fd \in FDs, RemoveDevice(t, fd)
    PROVE  MapsInv'
  <1>1. prog[t] = "removing" /\ UNCHANGED <<own, sessionMap>>
    BY DEF RemoveDevice
  <1>2. /\ DOMAIN deviceMap' = DOMAIN deviceMap \ {<<t, fd>>}
        /\ \A k \in DOMAIN deviceMap' : deviceMap'[k] = deviceMap[k]
    BY DEF RemoveDevice
  <1>3. Keys' /\ NothingLeftBehind'
    BY <1>1, <1>2 DEF MapsInv, Keys, NothingLeftBehind, own
  <1>4. Registering'
    BY <1>1, <1>2 DEF MapsInv, Registering, own
  <1>5. DevicesListed'
    BY <1>1, <1>2 DEF MapsInv, DevicesListed, own
  <1>6. ListedOwned'
    BY <1>1, <1>2 DEF MapsInv, ListedOwned, own
  <1>7. QED  BY <1>3, <1>4, <1>5, <1>6 DEF MapsInv

\* The end of a session: its list goes once it names no device any longer, and by
\* then the thread has none.
LEMMA ExitMaps ==
    ASSUME PlatformTypes, MapsInv, NEW t \in Threads, ExitUnlock(t)
    PROVE  MapsInv'
  <1>1. /\ prog[t] = "removing" /\ prog' = [prog EXCEPT ![t] = "out"]
        /\ sessionMap' = {e \in sessionMap : e[1] # sessionKey[t]}
        /\ UNCHANGED <<newFd, sessionKey, sKey, deviceMap>>
    BY DEF ExitUnlock, Unlock
  <1>2. prog'[t] = "out" /\ \A u \in Threads \ {t} : prog'[u] = prog[u]
    BY <1>1 DEF PlatformTypes
  <1>3. \A k \in DOMAIN deviceMap : k[1] # t
    <2> SUFFICES ASSUME NEW k \in DOMAIN deviceMap, k[1] = t PROVE FALSE
      OBVIOUS
    <2>1. k[2] \in FDs /\ k = <<t, k[2]>>
      BY DEF PlatformTypes
    <2>2. <<sessionKey[t], k[2]>> \in sessionMap
      BY <1>1, <2>1 DEF MapsInv, DevicesListed
    <2>3. QED  BY <2>1, <2>2 DEF ExitUnlock
  <1>4. Keys'
    BY <1>1, <1>2 DEF MapsInv, Keys
  <1>5. Registering'
    BY <1>1, <1>2 DEF MapsInv, Registering
  <1>6. DevicesListed'
    <2> SUFFICES ASSUME NEW k \in DOMAIN deviceMap
                 PROVE  \/ <<deviceMap[k].session, k[2]>> \in sessionMap'
                        \/ prog'[k[1]] \in {"added", "linking"} /\ newFd'[k[1]] = k[2]
      BY <1>1 DEF DevicesListed, MapsInv
    <2>1. k[1] \in Threads \ {t} /\ deviceMap[k].session = sessionKey[k[1]]
      BY <1>3 DEF PlatformTypes, MapsInv, DevicesListed
    <2>2. prog[k[1]] # "out"
      BY <2>1 DEF MapsInv, NothingLeftBehind
    <2>3. sessionKey[k[1]] # sessionKey[t]
      BY <2>1, <2>2 DEF MapsInv, Keys
    <2>4. CASE <<deviceMap[k].session, k[2]>> \in sessionMap
      BY <1>1, <2>1, <2>3, <2>4
    <2>5. CASE prog[k[1]] \in {"added", "linking"} /\ newFd[k[1]] = k[2]
      BY <1>1, <1>2, <2>1, <2>5
    <2>6. QED  BY <2>4, <2>5 DEF MapsInv, DevicesListed
  <1>7. ListedOwned'
    BY <1>1, <1>2 DEF MapsInv, ListedOwned
  <1>8. NothingLeftBehind'
    BY <1>1, <1>2, <1>3 DEF MapsInv, NothingLeftBehind
  <1>9. QED  BY <1>4, <1>5, <1>6, <1>7, <1>8 DEF MapsInv

-----------------------------------------------------------------------------

\* What pausing and resuming do to the devices.
LEMMA CountingFacts ==
    ASSUME PlatformTypes, NEW b \in BOOLEAN
    PROVE  /\ DOMAIN Counting(deviceMap, b) = DOMAIN deviceMap
           /\ \A k \in DOMAIN deviceMap :
                 /\ Counting(deviceMap, b)[k].session = deviceMap[k].session
                 /\ Counting(deviceMap, b)[k].counts = b
                 /\ Counting(deviceMap, b)[k] \in [session : Int, counts : BOOLEAN]
  BY DEF PlatformTypes, Counting

\* A thread's own code: the types, and devices stay as they are or begin to count.
LEMMA OwnStep ==
    ASSUME PInv, NEW t \in Threads,
           \/ SessionInit(t) \/ ExitLock(t) \/ AddLock(t) \/ AddDevice(t) \/ LinkLock(t)
           \/ LinkDevice(t) \/ (\E fd \in FDs : RemoveDevice(t, fd)) \/ ExitUnlock(t)
    PROVE  PlatformTypes' /\ NoneLeftPaused'
  <1>1. UNCHANGED sigs
    BY DEF SessionInit, ExitLock, AddLock, AddDevice, LinkLock, LinkDevice, RemoveDevice,
           ExitUnlock
  <1>2. prog' \in [Threads -> Progs]
    BY DEF SessionInit, ExitLock, AddLock, AddDevice, LinkLock, LinkDevice, RemoveDevice,
           ExitUnlock, Lock, Unlock, own, PInv, PlatformTypes, Progs
  <1>3. newFd' \in [Threads -> FDs \cup {None}]
    BY DEF SessionInit, ExitLock, AddLock, AddDevice, LinkLock, LinkDevice, RemoveDevice,
           ExitUnlock, own, PInv, PlatformTypes
  <1>4. sessionKey' \in [Threads -> Int] /\ sKey' \in Nat
    <2>1. CASE SessionInit(t)
      <3>1. sKey \in Int /\ sKey + 1 \in Nat
        BY DEF PInv, PlatformTypes
      <3>2. QED  BY <2>1, <3>1 DEF SessionInit, PInv, PlatformTypes
    <2>2. CASE ~SessionInit(t)
      BY <2>2 DEF ExitLock, AddLock, AddDevice, LinkLock, LinkDevice, RemoveDevice,
                  ExitUnlock, own, PInv, PlatformTypes
    <2>3. QED  BY <2>1, <2>2
  <1>5. sessionMap' \subseteq Int \X FDs
    <2>1. CASE LinkDevice(t)
      <3>1. sessionKey[t] \in Int /\ newFd[t] \in FDs
        BY <2>1 DEF LinkDevice, Unlock, PInv, PlatformTypes, Registering
      <3>2. QED  BY <2>1, <3>1 DEF LinkDevice, PInv, PlatformTypes
    <2>2. CASE ~LinkDevice(t)
      <3>1. sessionMap' \subseteq sessionMap
        BY <2>2 DEF SessionInit, ExitLock, AddLock, AddDevice, LinkLock, RemoveDevice,
                    ExitUnlock, maps
      <3>2. QED  BY <3>1 DEF PInv, PlatformTypes
    <2>3. QED  BY <2>1, <2>2
  <1>6. /\ DOMAIN deviceMap' \subseteq Threads \X FDs
        /\ deviceMap' \in [DOMAIN deviceMap' -> [session : Int, counts : BOOLEAN]]
        /\ \A k \in DOMAIN deviceMap' :
              \/ deviceMap'[k].counts
              \/ k \in DOMAIN deviceMap /\ deviceMap'[k] = deviceMap[k]
    <2>1. CASE AddDevice(t)
      <3> DEFINE new == <<t, newFd[t]>>
                 dev == [session |-> sessionKey[t], counts |-> TRUE]
      <3>1. newFd[t] \in FDs /\ new \in Threads \X FDs
        BY <2>1 DEF AddDevice, Unlock, PInv, Registering
      <3>2. dev \in [session : Int, counts : BOOLEAN] /\ dev.counts
        BY DEF PInv, PlatformTypes
      <3>3. deviceMap' = [k \in DOMAIN deviceMap \cup {new} |->
                            IF k = new THEN dev ELSE deviceMap[k]]
        BY <2>1 DEF AddDevice
      <3> HIDE DEF new, dev
      <3>4. QED  BY <3>1, <3>2, <3>3 DEF PInv, PlatformTypes
    <2>2. CASE \E fd \in FDs : RemoveDevice(t, fd)
      BY <2>2 DEF RemoveDevice, PInv, PlatformTypes
    <2>3. CASE UNCHANGED deviceMap
      BY <2>3 DEF PInv, PlatformTypes
    <2>4. QED
      BY <2>1, <2>2, <2>3
      DEF SessionInit, ExitLock, AddLock, LinkLock, LinkDevice, ExitUnlock, maps
  <1>7. PlatformTypes'
    BY <1>1, <1>2, <1>3, <1>4, <1>5, <1>6 DEF PInv, PlatformTypes, sigs
  <1>8. NoneLeftPaused'
    BY <1>1, <1>6 DEF PInv, NoneLeftPaused, sigs
  <1>9. QED  BY <1>7, <1>8

\* Signals and handlers: a handler that paused resumes before it is over.
LEMMA HandlerStep ==
    ASSUME PInv, NEW t \in Threads,
           \/ PauseLock(t) \/ PauseAll(t) \/ LookupLock(t) \/ GetDevice(t) \/ Serve(t)
           \/ ResumeLock(t) \/ ResumeAll(t)
    PROVE  PInv'
  <1>1. UNCHANGED <<own, sessionMap, signals>>
    BY DEF PauseLock, PauseAll, LookupLock, GetDevice, Serve, ResumeLock, ResumeAll,
           HandlerLock, maps
  <1>2. handler' \in [Threads -> Handlers]
    BY DEF PauseLock, PauseAll, LookupLock, GetDevice, Serve, ResumeLock, ResumeAll,
           HandlerLock, PInv, PlatformTypes, Handlers
  <1>3. /\ \/ UNCHANGED deviceMap
           \/ \E b \in BOOLEAN : deviceMap' = Counting(deviceMap, b)
        /\ handler'[t] # "none" \/ deviceMap' = Counting(deviceMap, TRUE)
    BY DEF PauseLock, PauseAll, LookupLock, GetDevice, Serve, ResumeLock, ResumeAll,
           HandlerLock, maps, PInv, PlatformTypes
  <1>4. /\ DOMAIN deviceMap' = DOMAIN deviceMap
        /\ \A k \in DOMAIN deviceMap : deviceMap'[k].session = deviceMap[k].session
        /\ \A k \in DOMAIN deviceMap : deviceMap'[k] \in [session : Int, counts : BOOLEAN]
        /\ handler'[t] # "none" \/ \A k \in DOMAIN deviceMap : deviceMap'[k].counts
    <2>1. CASE deviceMap' = Counting(deviceMap, TRUE)
      BY <2>1, CountingFacts DEF PInv
    <2>2. CASE deviceMap' = Counting(deviceMap, FALSE) /\ handler'[t] # "none"
      BY <2>2, CountingFacts DEF PInv
    <2>3. CASE UNCHANGED deviceMap /\ handler'[t] # "none"
      BY <2>3 DEF PInv, PlatformTypes
    <2>4. QED  BY <1>3, <2>1, <2>2, <2>3
  <1>5. deviceMap' = [k \in DOMAIN deviceMap' |-> deviceMap'[k]]
    BY <1>3 DEF Counting, PInv, PlatformTypes
  <1>6. deviceMap' \in [DOMAIN deviceMap' -> [session : Int, counts : BOOLEAN]]
    BY <1>4, <1>5
  <1>7. PlatformTypes'
    BY <1>1, <1>2, <1>4, <1>6 DEF PInv, PlatformTypes, own
  <1>8. NoneLeftPaused'
    BY <1>4 DEF NoneLeftPaused
  <1>9. MapsInv'
    BY <1>1, <1>4, CalmMaps DEF PInv, MapsInv
  <1>10. QED  BY <1>7, <1>8, <1>9 DEF PInv, MapsInv

\* A device overflows: it may stop, but then its signal is on its way.
LEMMA FireStep ==
    ASSUME PInv, NEW t \in Threads, NEW fd \in FDs, Fire(t, fd)
    PROVE  PInv'
  <1>1. /\ UNCHANGED <<own, sessionMap, handler>>
        /\ \E sig \in Signal : sig.fd = fd /\ signals' = signals \cup {sig}
    BY PlatformAssumption DEF Fire, Signal, SignalOwner
  <1>2. /\ DOMAIN deviceMap' = DOMAIN deviceMap
        /\ deviceMap' \in [DOMAIN deviceMap -> [session : Int, counts : BOOLEAN]]
        /\ \A k \in DOMAIN deviceMap : deviceMap'[k].session = deviceMap[k].session
        /\ \A k \in DOMAIN deviceMap : deviceMap'[k] = deviceMap[k] \/ k = <<t, fd>>
    <2>1. CASE UNCHANGED deviceMap
      BY <2>1 DEF PInv, PlatformTypes
    <2>2. CASE /\ <<t, fd>> \in DOMAIN deviceMap
               /\ \E still \in BOOLEAN :
                     deviceMap' = [deviceMap EXCEPT ![<<t, fd>>].counts = still]
      <3>1. PICK still \in BOOLEAN :
               deviceMap' = [deviceMap EXCEPT ![<<t, fd>>].counts = still]
        BY <2>2
      <3> DEFINE dev == [deviceMap[<<t, fd>>] EXCEPT !.counts = still]
      <3>2. deviceMap' = [deviceMap EXCEPT ![<<t, fd>>] = dev]
        BY <3>1
      <3>3. /\ dev \in [session : Int, counts : BOOLEAN]
            /\ dev.session = deviceMap[<<t, fd>>].session
        BY <2>2 DEF PInv, PlatformTypes
      <3> HIDE DEF dev
      <3>4. QED  BY <2>2, <3>2, <3>3 DEF PInv, PlatformTypes
    <2>3. QED  BY <2>1, <2>2 DEF Fire
  <1>3. PlatformTypes'
    BY <1>1, <1>2 DEF PInv, PlatformTypes, own
  <1>4. NoneLeftPaused'
    BY <1>1, <1>2 DEF PInv, NoneLeftPaused
  <1>5. MapsInv'
    BY <1>1, <1>2, CalmMaps DEF PInv, MapsInv
  <1>6. QED  BY <1>3, <1>4, <1>5 DEF PInv, MapsInv

\* A signal is delivered: its handler now stands for it.
LEMMA DeliverStep ==
    ASSUME PInv, NEW sig \in signals, Deliver(sig)
    PROVE  PInv'
  <1>1. sig.to \in Threads /\ UNCHANGED <<own, maps>> /\ signals' \subseteq signals
    BY DEF PInv, PlatformTypes, Signal, Deliver
  <1>2. handler' \in [Threads -> Handlers] /\ handler'[sig.to] # "none"
    BY <1>1 DEF PInv, PlatformTypes, Deliver, Handlers
  <1>3. PlatformTypes'
    BY <1>1, <1>2 DEF PInv, PlatformTypes, own, maps
  <1>4. NoneLeftPaused'
    BY <1>1, <1>2 DEF NoneLeftPaused
  <1>5. MapsInv'
    BY <1>1, CalmMaps DEF PInv, MapsInv, maps
  <1>6. QED  BY <1>3, <1>4, <1>5 DEF PInv, MapsInv

LEMMA OwnPInv ==
    ASSUME PInv, NEW t \in Threads,
           \/ SessionInit(t) \/ ExitLock(t) \/ AddLock(t) \/ AddDevice(t) \/ LinkLock(t)
           \/ LinkDevice(t) \/ (\E fd \in FDs : RemoveDevice(t, fd)) \/ ExitUnlock(t)
    PROVE  PInv'
  <1>0. PlatformTypes /\ MapsInv
    BY DEF PInv, MapsInv
  <1>1. CASE ExitLock(t) \/ AddLock(t) \/ LinkLock(t)
    <2>1. PICK p \in Progs, q \in Progs :
             /\ <<p, q>> \in {<<"opened", "adding">>, <<"added", "linking">>,
                              <<"in", "removing">>}
             /\ Lock(t, p, q)
      BY <1>1 DEF ExitLock, AddLock, LinkLock, Progs
    <2>2. UNCHANGED <<newFd, sessionKey, sKey, maps>>
      BY <1>1 DEF ExitLock, AddLock, LinkLock
    <2>3. MapsInv'
      BY <1>0, <2>1, <2>2, MoveMaps DEF Lock
    <2>4. QED  BY <2>3, OwnStep DEF PInv, MapsInv
  <1>2. CASE \/ SessionInit(t) \/ AddDevice(t) \/ LinkDevice(t)
             \/ (\E fd \in FDs : RemoveDevice(t, fd)) \/ ExitUnlock(t)
    <2>1. MapsInv'
      BY <1>0, <1>2, SessionMaps, AddMaps, LinkMaps, RemoveMaps, ExitMaps
    <2>2. QED  BY <2>1, OwnStep DEF PInv, MapsInv
  <1>3. QED  BY <1>1, <1>2

LEMMA NextPInv == PInv /\ [Next]_vars => PInv'
  <1> SUFFICES ASSUME PInv, [Next]_vars PROVE PInv'
    OBVIOUS
  <1>1. CASE UNCHANGED <<own, maps, handler, signals>>
    <2>1. MapsInv'
      BY <1>1, CalmMaps DEF PInv, MapsInv, maps
    <2>2. QED  BY <1>1, <2>1 DEF PInv, MapsInv, PlatformTypes, NoneLeftPaused, own, maps
  <1>2. CASE UNCHANGED vars
    BY <1>1, <1>2 DEF vars, own, maps
  <1>3. ASSUME NEW t \in Threads, PreMalloc(t) \/ PostMalloc(t)  PROVE PInv'
    BY <1>1, <1>3 DEF PreMalloc, PostMalloc, sigs
  <1>4. CASE Next
    BY <1>3, <1>4, OwnPInv, HandlerStep, FireStep, DeliverStep DEF Next, Progress
  <1>5. QED  BY <1>2, <1>4

-----------------------------------------------------------------------------

\* The invariant of the device maps is preserved by every step of the threads' own code,
\* of signals and of handlers.
THEOREM PlatformInductive == Spec => []PInv
  BY InitPInv, NextPInv, PTL DEF Spec

\* deviceMap and deviceSessionMultiMap (platform.hpp), which registration and removal
\* update one after the other and signals interrupt in between, agree.
THEOREM MapsAlwaysAgree == Spec => []MapsAgree
  <1>1. PInv => MapsAgree
    BY DEF PInv, MapsAgree, DevicesListed, ListedOwned
  <1>2. QED  BY <1>1, PlatformInductive, PTL

\* remove_device_by_session (platform.cpp) takes every device of the session with it,
\* and its list.
THEOREM SessionsLeaveNothing == Spec => []NothingLeftBehind
  <1>1. PInv => NothingLeftBehind
    BY DEF PInv
  <1>2. QED  BY <1>1, PlatformInductive, PTL

\* generic_dev_signal_handler (platform.cpp) pauses the devices of all threads; however
\* many handlers run at once and whatever they find, a device that does not count has
\* its signal or a handler yet to come.
THEOREM DevicesComeBack == Spec => []NoneLeftPaused
  <1>1. PInv => NoneLeftPaused
    BY DEF PInv
  <1>2. QED  BY <1>1, PlatformInductive, PTL

=============================================================================
