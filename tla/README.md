# A TLA+ model of the Kognizance profiler

Kognizance (`src/kvmTest`) is a sampling profiler for memory inefficiencies. A
library that is preloaded into the monitored program, or linked into a
hypervisor, opens hardware sampling counters (PEBS). Each sampled access is
turned into a hardware *watchpoint* on its address; when the watchpoint fires, a
client (DeadSpy, LoadSpy, RedSpy, DupSpy, FalseSharing) judges the pair of
accesses and charges the bytes to their calling contexts.

This directory holds TLA+ modules translated from that code, the TLC
configurations that check them on small instances, and proofs checked by TLAPS.
`PROJECT.json` lists components, runs, mutants, hazards, theorems and, for every
definition that models code, the source lines it stands for.

Paths below are relative to `src/kvmTest`.

## 1. The system

| Part | State it keeps | Operations | Talks to |
|---|---|---|---|
| Watchpoint library (`src/tools/witchTool/watchpoint-lib`) | per thread: table of slots (active, descriptor, interval, sampled event, survival counter); global: `wpConfig` | `WP_Init`, `WP_ThreadInit`, `WP_Subscribe`, `OnWatchPoint`, `WP_ThreadTerminate` | opens, re-aims, ends and removes devices; calls the client on a trigger |
| Devices (`platform/device`) | descriptor, attributes, `isDisabled`, ring buffer | register, unregister, start, end, pause, resume, `updateBPAddress` | kernel perf events, or the KVM agent |
| Platform (`platform.hpp`, `platform.cpp`) | session keys, `deviceMap` by (thread, descriptor), `deviceSessionMultiMap`, event map, `devicemap_mtx` | add, find, remove devices; pause and resume all, or a session's; the signal handler; `getMaxDevices` | every thread's signals |
| Witch tool (`tools/witchTool/mytool.cpp`) | the singleton, `WPInitFlag`, logic type | session init and exit, PEBS and breakpoint handlers, `fixIP` | watchpoint library, clients, agent |
| Witch logic (`tools/witchTool/witchLogic`) | context tree, per-context sample and byte counters | `Witch_OnSample_Callback`, `Witch_OnWP_Callback`, clean and print | agent (values, frames) |
| Agents (native, python, KVM, sample) | KVM: device to VCPU slot maps, events in the guest | registers, values, back traces, pause and resume through the hypervisor | kernel, interpreter, guest |
| Perf ring reader (`perf_parser.cpp`) | read head, data tail, the copy of the ring | `perf_mmap_read` | kernel; the device that makes the event |
| libmonitor (`dependencies/libmonitor`) | thread nodes, thread list and free list, exit flags, one entry per signal, the shootdown signal | `pthread_create`, cleanup, exit, exec, fork, shootdown; `sigaction`, `sigprocmask`, its own signal handler | issues `monitor_init_process`, `monitor_init_thread`, `monitor_fini_thread`, `monitor_fini_process`, in which agents open and end sessions |
| Logger | output | | |

How it runs. With the native, python and sample agents every counter overflow
raises a signal. The handler blocks all other signals, pauses **all** devices of
**all** threads, looks its own device up, lets the tool work and resumes all
devices. With the KVM agent the devices are paused per session and the tool's
handlers run on the VCPU thread when the guest hands an event back.

What is hard about it:

* the slot table sees signals that were raised before a watchpoint was ended,
  replaced, or had its descriptor reused, and several of one watchpoint; a signal that matches no slot ends the
  application with `exit(0)`;
* arming can fail half-way, with the old watchpoint already given up;
* ending a device sets a flag without the lock under which other threads test it
  when they resume all devices;
* one read of the ring consumes the records of all the signals that are queued for
  it;
* sampled events are deleted while slots keep pointers to them, and a logging line
  and a report read the events of slots that are not active;
* `WP_ThreadTerminate` is interrupted by signals of watchpoints it has not yet
  disarmed;
* the signal handler takes a lock that is not recursive and may interrupt its
  own holder;
* one device enters two maps under two acquisitions of that lock;
* the singleton's constructor calls back into `Instance()`, and `INITONCE` does
  not make later callers wait;
* the kernel writes into the ring while it is read, and the reader finds the next
  record by adding up sizes it expects;
* threads start, end, fork and exit at once: sessions open and close in
  callbacks whose order libmonitor guarantees with one spin lock, flags that are
  tested and set without it, a signal to every thread and a timeout;
* the application may block, or take for itself, the signals that the profiler and
  the shootdown need.

What makes each part correct:

* *watchpoint table*: armed intervals are disjoint; devices and slots correspond;
  an armed slot's device is aimed at the slot's interval; armed slots point to
  live events, and no search uses another; a signal that is in force and still has its
  record is recognised; survivors age by one
  with every sample that is armed;
* *platform*: the two maps agree, a session that ended left nothing behind, no
  device stays paused, handlers end;
* *initialisation*: the library is initialised once, devices can be found again,
  no table is used beyond what was initialised;
* *witch logic*: bytes are charged once, to the pair of contexts that caused
  them, and every context's counters survive the clean-up or are all dropped;
* *KVM agent*: a VCPU's breakpoint slots are used by one device each; a paused
  session is resumed when its event comes back;
* *ring reader*: each record is parsed once, an event is one sample and the newest,
  samples do not stay unread;
* *libmonitor, threads*: a node belongs to one thread, and to its creator until it was read, no `init_thread` runs before
  `init_process`, one thread ends the process, the list it walks stands still, it
  waits for the others' `fini_thread`, and it does end;
* *libmonitor, signals*: a signal is always left for the shootdown, and once it is
  reserved no mask of any thread or handler covers it.

## 2. Modules

| Module | Models |
|---|---|
| `Watchpoint` | slot table of one thread, its breakpoint devices, its undelivered signals, other threads' pause and resume |
| `WatchPool` | abstract specification: a pool of disjoint watched intervals |
| `WatchpointPool` | refinement mapping from `Watchpoint` to `WatchPool` |
| `WatchpointProofs` | inductive invariant of `Watchpoint` and its consequences |
| `Platform` | threads with sessions, the two device maps, the lock, the signal handler |
| `PlatformProofs` | inductive invariant of `Platform`: the two maps, the sessions, the paused devices |
| `ToolInit` | `MyTool::Instance()`, `WPInitOnce`, `getMaxDevices`, session start |
| `ToolInitProofs` | inductive invariant of `ToolInit` and its consequences |
| `WitchLogic` | the five clients: samples, triggers, proportional attribution, totals, reports |
| `WitchProofs` | sums over finite sets; the inductive invariants of `WitchLogic`: map of leaves, deleted nodes, counters, bytes, totals |
| `KvmAgent` | VCPU threads with sessions, the agent's slot map, the hypervisor's breakpoints, events in the guest |
| `KvmProofs` | who owns a descriptor and a slot of `KvmAgent`, and what that gives a session: its events, its end, its disabled and its paused watchpoints |
| `PerfRing` | the ring of one device, the kernel that fills it, the handler that copies, parses and releases it |
| `PerfRingProofs` | the layout of records, the log of what was written, and the inductive invariant of `PerfRing` |
| `MonitorThreads` | libmonitor's thread nodes and lists, creation and cleanup of threads, exit, shootdown, fork, exec |
| `MonitorProofs` | who ends the process, the order of the callbacks, the list and the nodes of `MonitorThreads`, and that the end of the process waits |
| `MonitorSignals` | libmonitor's signal table, masks, nested handlers, the choice of the shootdown signal |
| `SignalProofs` | the signal that is left and the masks of `MonitorSignals` |
| `MCWatchpoint`, `MCPlatform`, `MCToolInit`, `MCWitchLogic`, `MCKvmAgent`, `MCPerfRing`, `MCMonitorThreads`, `MCMonitorSignals` | the instances TLC checks |

Definitions called `Mutant: ...` in their comment are wrong variants of the
definition that follows them (a dropped guard, a missing reset); substituted for
it, each makes a property fail, which shows that the property depends on that
piece of code.

### Watchpoint

The table is thread-specific data and its handlers run one at a time on its
thread: from the signal handler (full `sa_mask`) or, in KVM mode, from the call
that returns the guest's events. Each handler is therefore one action, its final
resume of the devices included:

* `tool_PEBSEventHandler` - a sample that is dropped, or `WP_Subscribe`: floor
  length, alignment, overlap test, `GetVictim`, `ArmWatchPoint`. `ArmWatchPoint`
  re-aims the device of the slot (`ModifyWatchPoint`; possible under KVM and
  where the kernel has `PERF_EVENT_IOC_MODIFY_ATTRIBUTES`) or opens a new one
  (`FreshWatchPoint`); both can fail;
* `OnWatchPoint` - a signal: dropped before the ring is read (`OnDropped`: no device,
  or signal-unsafe code), read and then without a table (`OnNoTable`), unknown
  (`OnUnknown`: `exit(0)`), matched to a slot (`OnKnown`) with the verdict disable,
  disable all or retain, or dead of a wild pointer (`OnFault`);
* `TerminateBegin`, `TerminateDisArm`, `TerminateEnd` - the thread ends its
  session step by step, with signals and samples in between;
* `Fire` (hardware), `OtherPauses`, `OtherResumes` (another thread's handler).

`pending` holds raised, undelivered signals; several may come from one arming (a
device that was just opened goes on counting, and a retained one is resumed). `ring` is,
for each descriptor, the address in the newest record that was not read: a handler reads
all the records of its ring into one Event (`RingRead`), so that the other signals of
that descriptor find the ring empty (`SignalsLeft`), and closing the descriptor unmaps
it (`RingLost`). From an empty ring the handler gets an event field nobody
initialised, modelled as any address. Under the KVM agent the breakpoints' events come
from the guest and not from a signal; what is taken there and handed back is
`KvmAgent`'s. Descriptors are reused as the kernel does. The fields `ev` of a signal,
the arming that raised it, and `read` are for the properties only.

`badReads` is the history of reads through a slot's `sampledEvent` that meet a deleted
event, or a pointer of the malloc'd table that was never set: the line that logs the
search reads slot 0's (`watchpoint.cpp:330`), the search those of the active slots that
own the descriptor, the report before `exit(0)` those of all slots (`:372`). The search
may only find an event that is not there after the logging line did not end the process
(`OnFault`).

An `EndDevices` with `late` devices is `end_device` racing a `resume_all_devices` that has already
tested `isDisabled`.

Abstracted: what an address and an event are beyond identity and interval;
instruction patching (`GetPatchedIP`, no state); the random number of the
replacement policy (any slot, or none, whenever the table is full). The overlap
test is on integers: it differs from 64-bit arithmetic only for an interval that
ends at the very top of the address space.

### Platform

A thread has its own program (`prog`: open, add, link, remove) and, above it, at
most one handler (`handler`). Waiting for `devicemap_mtx` and working under it
are separate steps, so a signal can arrive inside the lock. `SignalOwner` is the
main thread, since registration passes `getpid()` as the owner. A device is open
and enabled before it enters the maps, so it may fire early. A registration that
fails is one in which `perf_event_open` or `mmap` fails; the failures of
`sigaction` and `fcntl`, which leave the descriptor open, are not modelled. The
devices a handler opens and removes while it serves an event are in `Watchpoint`.

### ToolInit

Each thread walks through `Instance()` (test, construct, `WPInitOnce`, inner
`Instance()` of `WP_Init`, probing for registers, assignment) and
`tool_sessionInit`. `processFirst` tells the order libmonitor imposes (process
first, threads later; `InitOrder` of `MonitorThreads` shows it) from VCPU threads
that start together. The module shows that the constructor reaches `Instance()`
again before the pointer is set, so that two objects are made by one thread, though
the comment at `mytool.cpp:47` allows one; the second object is the one the probing
devices are filed with, and `DevicesReachable` says when that does no harm.

### KvmAgent

With the KVM agent there is one thread per VCPU and nothing is delivered by a
signal. The hypervisor calls `kvm__VCPU_start` and `kvm__VCPU_end`, pauses the
VCPU's devices when it delivers an event to the guest
(`kvm__disableEBSDevicesThisSession`), and calls `kvm__doneEventProcessing_HyPerf`
when the guest's driver has resolved it. That call runs the tool's handler, if
there is a device and something to profile, and always ends in
`resume_devices_by_session`.

The handler is one action, and the resume at its end another (`pc` is `resume`),
since it waits for `devicemap_mtx`. Registration and removal are step by step,
because they touch the descriptor, `deviceMap`, the session's list and the agent's
maps one after the other. Registration locks for each of the two maps and not for
the agent's. Removal holds the lock throughout and closes the descriptor
(`Close`) before the agent forgets it (`unRegisterDevice`): in between, `open` and
`deviceVCPUMap` disagree, and another VCPU may be given the same number. It then
waits in `add_new_device` until the old owner has left; `SlotsAgree` depends on
that wait, and its mutant gives the lock back one step too early.

`guestBP` is what the hypervisor watches; a breakpoint without a slot, or one that was
registered before the hypervisor, is a perf event of the host and its state is the
field `on` of the device. A pause or a resume goes to whichever of the two the
device has at that moment, and `updateBPAddress` followed by `start_device` may
switch on both.

With this agent `PEBSDevice` opens its event with `disabled = 1`, a breakpoint's is
enabled at once: `on` starts as `"new"` or `"on"`. The sampling device counts only
after the guest's driver has enabled it. `enable_device` is `IOC_REFRESH` by one, so
`Fire` may leave the event switched off.

`allCalls` is chosen once: in such a behaviour the guest's driver also uses
`kvm__enableAllEBSDevice` and `kvm__disableAllEBSDevice`, which reach across VCPUs.
`resume_all_devices` tests `isDisabled` under a lock that `end_device` does not
take, so it is two actions (`TestAll`, `ResumeAll`).

External and abstracted: the hypervisor and the guest; `pauseBP` and `resumeBP`
succeed, `updateBPAddress` may fail; the hypervisor passes the identifier of the
thread that calls; the two `int` results that mean *none* (-1, and the 0 a
`std::map` returns for a missing key, a VCPU without that descriptor) are one
value `None`. What is watched, and what the tool decides, is in `Watchpoint`
and `WitchLogic` and a free choice here. An event may outlive its session:
`NoDevice` then dereferences a null device (`fault`), unless the guest skipped the
event. `requestWillBeNotified` is `TRUE`, as the constructor sets it. The devices
that `getMaxDevices` opens and removes to count registers are left out.

### WitchLogic

`Witch_OnSample_Callback` and `Witch_OnWP_Callback` hold `contextTree_mtx` from
beginning to end and are one action each. A trigger is retained (wrong type of
access), rejected before or after the counters are caught up (`OnRejected`,
`OnUncharged`), or charged (`OnCharged`); which tests come first differs by
logic, and `Triggers` enumerates what the tests look at. `build` is the logic
and whether its `*_INST` macro is set.

A report is three actions that callbacks interleave with: `printContextTree`
and `cleanContextTree` take the mutex, one after the other; `resetWitchLogic`
zeroes the totals **without** it. A charge at that moment races with the reset,
and `RacedTotals` lists what each counter may hold afterwards. `Settled` are the
states in which totals and tree describe the same triggers; the properties about
totals are stated there.

Cleaning deletes the root's children and leaves them in `contextTreeRoot.children`.
They move from `sampled` to `dangling`; a later look-up of the same trace, or a
later walk over the children, uses a deleted node, which has no defined outcome:
the action sets `fault` and the behaviour ends there.

Abstracted: sampled contexts are one frame below the root, none a prefix of
another, and a trigger's context is one frame below the sampled one. `fixIP`
writes the instruction's address into the first frame, so the only thing that
matters of a trigger's trace is whether that address is the sample's (`place`)
and whether the trace is empty. Bytes are in units of the sampling threshold.
`avgDistance` is an exact fraction. `StaleAfterClean` says
that deleted nodes are met only in a build that cleans and only after a report.
`Forgotten` is the watchpoint library giving
a sample up (`Watchpoint` says when), which the logic is never told. The variants of
DupSpy that `WITCHTOOL_DUPSPY_LOAD` and `WITCHTOOL_DUPSPY_OVERLAP` select
(`dupSpy.cpp:50`, `74`, `95`) are left out; `CMakeLists.txt` has both commented out.

Behaviour of the code worth knowing when reading the module:

* DupSpy's float comparison needs an overlap that the triggers it accepts never
  have; it always compares bytes.
* The sums of `calculateForAllContext` are added to the same nodes again by every
  report that does not clean, so the root's sums compound.
* The `*_INST` report of DeadSpy sums used and redundant bytes only; dead bytes
  are not summed up the tree.
* A trigger without a back trace charges its wasted bytes to the sampled context
  twice, which is why `TotalsAttributed` is an inequality for wasted bytes.
* "calculate running avg" (`WitchLogic.hpp:200`) divides the sum of the old mean and
  the new distance by the number of samples: the result is no average of the
  distances.

### PerfRing

The ring is counted in 8-byte words. A word knows the record and the field it
belongs to, which is all the properties tell apart, and a number where the parser
uses its value (the size in a header, the count before a call chain). The kernel's
side is external: `rb` is the ring with its head, its count of lost records and the
history of what was written; `KernelStart` says where the fields of a sample start,
`Record` which words a record has, and `Output` that a record which does not fit is
counted and the next one that does is written after a LOST record. An overflow writes a
sample, and a THROTTLE record before it if the event is throttled (`Overflow`); each of
the two may be lost by itself. The reader's side is the handler step by step, since the kernel writes
between any two of them: `ReadHead`, `CopyEnd` and `CopyStart` (the two `memcpy`s),
`ParseRecord` once per record, `Release` (`data_tail` and `read_head`), `Deliver`.
`FieldSize` and `RecordSize` are what the parser adds up (`ParserStart` for a sample);
it does not use `event->size`, so that `ParsedOnce` compares two independent definitions of the
layout.

`disable_device` leaves the event's limit alone and `enable_device` *adds* one to it
(`PERF_EVENT_IOC_REFRESH`): a device that other handlers paused and resumed before
it had fired may count two samples and queue two signals, of which the first read
takes both samples and the second finds none. `loose` records that this, or an event
that was opened enabled, has happened, and `dropped` that a signal came in code
that is not signal safe; `NoEmptyEvent` and `SampleRead` name them as the only ways
to an event without a sample and to a sample that nobody reads.

Abstracted: the values of the fields; the contents of counted fields; printing. The
kernel never writes a record with a `sample_id`, since no device asks for it. AUX,
SWITCH, LOST_SAMPLES and IDENTIFIER are laid out otherwise than the parser expects;
no device asks for them either, and no run's sample types contain them.

### MonitorThreads

A thread is a `pthread_t`, which may be given out again after the thread ended. A
node is a number, its `char` fields the set of flags that are up, and a LIST of
`queue.h` the set of its members, since no property depends on the order of a list.
The points where a thread holds `monitor_thread_lock` are `Holding`; all accesses
outside it are steps of their own, in particular the tests and the assignments of
`monitor_pthread_cleanup_routine` (`ThreadReturns`, `CleanupFini`, `CleanupDone`).
A client callback is a program point: it lasts from the step that reaches the point
to the step that leaves it. Exit is `EndProcess` (the race), `ShootBegin`,
`ScanNode` once per node, `ScanAgain`, `ScanDone` or `ScanTimeout`, then the
callbacks of the winner; the shootdown signal of another thread is
`ShootdownHandler` and `HandlerReturns`.

`main_called` is the static flag of `main.c` and `has_reached_main` its namesake in
`pthread.c`; a constructor may create threads, fork or exit ahead of both. `Fork`
follows the child, in which only the forking thread exists; the parent goes on as
if nothing happened and needs no action. `FatalSignals` lets a signal with the
default action take a thread from anywhere into the end of the process, also out
of a critical section.

A worker that forked is the main thread of the child, with the node and the cleanup
handler it had in the parent. When it returns there from its start routine, its cleanup
routine runs `LIST_REMOVE` on a node that is off the emptied list (`ListRemove` leaves
on the list whatever the old links lead to) and puts a node of the reset array on the
free list, from where and from the array it is then handed out twice. Nothing keeps the
application from that, and `strayed` records that it has happened: `NodesOwned` and
`ExitWaits` hold until then.

`PostCreate` is the rest of `pthread_create` after the real one has returned, which
reads `tn->tn_user_data` once more (`Reads`). The new thread may have ended by then and
its node be free, or another thread's: `overtaken` records that a thread freed a node
that its creator had still to read. Until then `CreatorsKeep`, a part of `NodesOwned`,
says that pthread_create reads the node it made.

Abstracted: `tn_start_routine`, stack and address bookkeeping of a node; the
passing of ten seconds (`Timeout` is possible whenever no progress was made);
`system()`, which forks and execs through the same functions; the link modes that
only differ in how the real functions are found.

### MonitorSignals

A thread is a stack of calls, since a handler may call `sigaction` and
`sigprocmask` in the middle of the call it interrupted: `call[t][0]` is the thread
and `call[t][d]` the `d`-th nested handler. A call goes through its unlocked
writes, `LockFilter`, `monitor_remove_client_signals` under the lock and, outside
it again, the real `sigprocmask` (`ApplyMask`) or `sigaction` (`InstallAction`).
The entries' fields are the sets `keep_open`, `blocked`, `client_handler`,
`appl_hand`; `mask` and `installed` belong to the kernel. The end of the process is
cut down to what the signals need of it (`MonitorThreads` has the rest).

`Inherited`, the mask the process was started with, appears in the properties:
monitor marks only what passes through its overrides. A signal that is chosen at
exit is not marked as kept open, so a call that masks it afterwards hides it from
the shootdown, which then waits for its timeout; `ReservedOpen` is about signals
reserved before (`forced`).

`mse_kern_act` is written before the lock is taken, examined and filtered under it
(`ReserveSignal`, then `RemoveKeptOpen` in place) and installed after it: two calls for
one signal, of two threads or of a thread and a handler in the middle of it, share that
entry. `rewritten` records that a mask was replaced between being examined and being
marked, after which every candidate may be blocked with none reserved (the exception of
`SignalLeft`). `Torn` is the part of an installed mask that
nobody has marked: the kernel was given the mask of a call that had not filtered it yet.
That lasts until this call installs its own, but a handler entered meanwhile runs with
it, and may mask the reserved signal (the exception of `ReservedOpen`);
`torn` of a handler keeps what its mask then held. The kernel's copy of a mask
that changes meanwhile is taken in one step.

Not modelled: `sa_flags`, `sigwait` beyond the shootdown, `monitor_real_abort`.

## 3. Runs

| Run | Configuration | Shows |
|---|---|---|
| `wp_fresh` | `MCWatchpointFresh.cfg` | with a new device per arming: disjointness, aim, aging, refinement of `WatchPool`; with several signals of one arming, whose records one read consumes, which event pointers are read dead, and that a signal in force with a record is recognised |
| `wp_alone` | `MCWatchpointAlone.cfg` | one monitored thread, unaligned eight-byte instruction watchpoints: with devices re-aimed in place: no resume revives an ended watchpoint; the whole inductive invariant |
| `platform` | `MCPlatform.cfg` | maps agree, nothing left behind, no device left paused, handlers end unless a thread interrupts itself inside the lock |
| `signal_owner` | `MCPlatformOwner.cfg` | *violation*: signals of worker threads' devices are served by the main thread |
| `tool_init` | `MCToolInit.cfg` | racing threads: one initialisation; process first: devices are reachable, tables complete |
| `kvm_agent` | `MCKvmAgent.cfg` | VCPUs come and go: slots and maps agree, disabled watchpoints never watch the guest, nothing stays paused or behind, events of the running session find their device |
| `witch` | `MCWitchLogic.cfg` | all five logics, with reports that delete the tree or keep it: map, counters and nodes stay together, bytes are charged once and attributed, deleted nodes are met only after a report deleted them |
| `perf_ring` | `MCPerfRing.cfg` | records are parsed once and whole for the devices' sample types; an event without a sample and a sample that stays unread have one cause each |
| `monitor_threads` | `MCMonitorThreads.cfg` | threads before and after main, failing, cancelled, forking, reusing nodes: a node is in one place, `pthread_create` reads its own node, no `init_thread` is early, `fini_process` waits for the `fini_thread`s |
| `monitor_exit` | `MCMonitorExit.cfg` | exits, failing execs, fatal signals, forks and client calls race: one winner, a list that stands still, an exit that completes |
| `monitor_fini_once` | `MCMonitorFiniOnce.cfg` | *violation*: `monitor_fini_thread` runs twice for a thread |
| `monitor_signals` | `MCMonitorSignals.cfg` | with overlapping calls for one signal: what is left for the shootdown, what is marked, where a reserved signal may be masked, that the signal lock is granted |

The two violations are disagreements between what the repository says and what the
code does. "Deliver the signal to this thread" (`device.cpp:130`) stands above
`owner.pid = getpid()`. `libmonitor/tests/exit.c:5` says that each thread's fini is
called once; `monitor_pthread_cleanup_routine` tests `tn_fini_started` and sets it in
two steps (`pthread.c:869-879`), and the shootdown signal between them makes the
handler call `monitor_fini_thread`, which the routine then calls again. For the
profiler that is a second end of the thread's session.

Five more have no run of their own. The passing runs reach each of them, and the
property it concerns names it as its exception: with the exception struck out the
property is violated in the same instance.

| The repository says | The code | Exception |
|---|---|---|
| "WP trigger did not match any known active WP" (`watchpoint.cpp:370`), before `exit(0)` | is also reached by a signal of an active watchpoint: the handler of an earlier signal read both records and the client retained the watchpoint, so the second Event's address is never set (`device.cpp:67-80`, `context.hpp:194`) | `~p.read` in `FreshSignalRecognised` |
| "The values inside a single node don't really need a mutex" (`pthread.c:173`) | `pthread_create` reads `tn->tn_user_data` (`pthread.c:1086`) when the new thread may have unlinked, cleared and freed the node | `overtaken` in `NodesOwned` |
| "The thread that fork()ed is now the main thread" (`pthread.c:334`) | it still has the node and the cleanup handler of the parent: when it returns in the child, `LIST_REMOVE` (`pthread.c:434`) runs on a node that is off the list | `strayed` in `NodesOwned` |
| "there should always at least one available signal in the old mask" (`signal.c:419`) | an overlapping `sigaction` for the same signal replaces `mse_kern_act.sa_mask` (`signal.c:656`) between its examination and its marking | `rewritten` in `SignalLeft` |
| "Always leave at least one unmasked signal to use for thread shootdown" (`signal.c:401`) | an overlapping `sigaction` has stored an unfiltered mask when the first hands the entry to the kernel (`signal.c:658`), and a handler entered then applies it | `TornIn` in `ReservedOpen` |

`ExitWaits` names `strayed` as well, since its proof rests on `NodeInv`; no instance with
two or three workers needs the exception.

`QuietWhenDisarmed`, `DevicesReachable`, `TablesComplete`, and `OnlyArmedWatch` and
`NoneLeftPaused` of `KvmAgent`, carry their condition in the formula: without it they do not hold, and the comment on each
says which interleaving breaks it. `FreshSignalRecognised`, `DeadEventReads`, `NodesOwned`,
`ExitWaits`, `ExitCompletes`, `SignalLeft`, `BlockedIsMarked`, `ReservedOpen`,
`LockGranted`, `NoEmptyEvent` and `SampleRead` name their exceptions in the same way.

### Bounds

* Two slots, two descriptors: enough for a full and a partly full table, for
  replacement, for two slots that could share an interval, and, since both
  descriptors are used up by two slots, for every reuse of a closed one.
* Addresses 8, 12 and 16 with lengths 4 and 8: intervals that coincide, nest and
  abut, an unaligned one (12 with 8), and always one that is free when the table
  is full, so that watchpoints really are replaced. `wp_alone` uses 8, 11, 17 and
  26: overlap without alignment, and intervals that leave a byte between them.
* Three samples fill a table of two slots and replace an entry or arm a slot again
  after a trigger; `wp_alone` takes a fourth. Two signals may be undelivered, of one
  arming, of two armings of a descriptor, or of two slots; in `wp_fresh` another thread
  pauses and resumes meanwhile. The proofs have no bound on either.
* `platform`: two threads, two descriptors, three sessions, so that one thread
  opens a second session, with a descriptor the other has used.
* `tool_init` has three threads that race: one that constructs, one that constructs
  beside it, and one that finds a pointer.
* `kvm_agent`: two VCPUs with one slot each; two breakpoints of a thread, so that
  one finds no slot and falls back to the host; three descriptors, so that a thread
  has its sampling device and both breakpoints, or two threads compete for a number
  that was just closed; three sessions, so that a thread opens a second one while the
  other's runs, and finds what the first left; one event of a VCPU in the guest at a
  time, which may outlive its session. The properties also hold with `MaxEvents = 2`
  (3.3 million states, too long to repeat on every change), and the proofs have no
  bound on slots, sessions or events.
* `witch`: two contexts, so that a context may be clean, dangling or known while
  the other is not; two samples, so that one context has a pending sample when the
  next triggers or replaces it, of length 1 or 2, so that a charge is told from a
  doubled one; two reports, so that sums compound where the tree is kept and a
  second report meets what the first one deleted.
* `perf_ring`: a ring of 20 words and 32 words written, while a sample has 6 to 8
  words: the ring wraps, fills up and loses samples, and two or three records are
  read at once. Call chains of length 0 and 1 move the following record. A device may be
  armed for two samples, so that one read takes the sample of the next signal. At most
  two records in a row are lost, which is the throttled overflow. The proofs have no
  bound on the ring, the call chains, the records, the samples armed for or the losses.
* `monitor_threads`: two workers, arrays of one node, two arrays: the free list, the
  array and a new array all supply nodes, and a `pthread_t` is used again. One fork, by
  the main thread or by a worker, also ahead of main, so that a worker returns in the
  child and is followed by the child's own threads.
* `monitor_exit`: one worker is enough for an exit race, a signal to the other thread
  and a fork by either; with client calls, fatal signals and a fork the instance has
  everything a second worker adds but the order of the walk.
* `monitor_fini_once`: one worker that returns while main exits.
* `monitor_signals`: two threads, one nested handler each, two calls in all. Two
  candidates and the last resort, so that the masks of two calls together cover the
  list, and a hands-off signal that a full mask contains. Both calls may be about the one
  signal that actions are installed for and that arrives, so that threads and handlers
  overlap in it. The application asks for handlers; a signal that it ignores behaves like
  one that the client takes (`HandlerReturns`), and is covered by the proofs.

The proofs have no bound on samples, reports, contexts or lengths.

Deadlock is not checked where the program really may stop: after `exit(0)`, at
the bound on samples or sessions, in the self-deadlocks that
`Platform` and `MonitorSignals` name, at the end of the monitored process, behind a lock
whose holder was torn away (`LockStuck`), or where a deleted node was used.

### Fairness

* `HandlersEnd` (`Platform`): weak fairness of `Progress(t)` for every thread (the
  operating system schedules runnable threads; a lock that is free goes to a
  waiter) and of signal delivery.
* `SampleRead` (`PerfRing`): weak fairness of the handler's steps, the delivery of a
  queued signal included, and of the resume that ends another device's handler.
* `ExitCompletes` (`MonitorThreads`): weak fairness of what a thread does inside
  libmonitor (it runs, and callbacks return) and strong fairness of `ScanTimeout`:
  passes alternate with the test, and while no thread makes progress the ten seconds
  run out. Nothing is assumed of the delivery of the shootdown signal, which a thread
  may mask for ever.
* `LockGranted` (`MonitorSignals`): weak fairness of the steps inside monitor, and
  strong fairness of taking the spin lock, which is free again and again:
  `compare_and_swap` gives no order, but a waiter that spins while the other threads
  make finitely many calls, or are scheduled away, meets it free.

No fairness is assumed of opening or closing sessions, of memory accesses, of the
allocator hooks, of the application's calls or of the signals that arrive.

## 4. Proofs

### Watchpoint

`WatchpointProofs` proves, for every number of slots up to `MAX_WP_SLOTS`, every
set of descriptors, addresses and lengths, any number of samples and signals,
both ways of arming, with and without other threads:

| Theorem | Property |
|---|---|
| `Inductive` | `IInv`, the inductive invariant |
| `TypeCorrect` | `TypeOK` |
| `Disjointness` | `NoOverlap` |
| `Ownership` | `SlotsOwnDevices` |
| `Aim` | `ArmedDeviceAimed` |
| `Quiet` | `QuietWhenDisarmed` |
| `EventsLive` | `ArmedEventLive` |
| `EventReads` | `DeadEventReads` |
| `Recognition` | `FreshSignalRecognised` |
| `Reservoir` | `SurvivorsAge` (an action property) |
| `TableImplementsPool` | `ImplementsPool` (the refinement of `WatchPool`) |

`IInv` is the conjunction of the safety properties with three strengthenings.
`SlotStates` says what an *inactive* slot may hold: a descriptor only if devices
are kept, and then an ended device. Without it `ArmedDeviceAimed` is not
preserved when a kept device is armed again, and `Quiet` does not follow.
`SignalsTraceable` says that undelivered signals come from past armings and that a
signal whose arming is in force has its record in the ring unless a handler has read it.
Without it a descriptor that was closed and reused could carry a signal that looks in
force; `Recognition` follows from it. `EventsSet` says that a slot that owns a device has
been armed and that slots are armed in their order, so that slot 0's pointer is set
before a signal of the table can arrive: with `ArmedEventLive` it gives `EventReads`.

The proof has one lemma per action and, under it, one step per conjunct. Three
families of steps share a lemma each: switching slots off (triggers and
termination), steps that only move hardware flags (pause, resume, dropped
samples), and arming.

`Reservoir` and `TableImplementsPool` speak of steps. Both rest on a description of
what a sample does to the table (`SubscribeShape`): nothing; every armed slot older by
one (`Survived`), the new interval armed nowhere; or the same with one slot replaced by a
slot that, if it is armed, holds the new interval, its length and its event. `OtherSteps`
says that after any other step what is armed is as it was. For the refinement every step is then a
step of the pool or a stutter: an armed sample is `Take`, or `Release` where the old
watchpoint was given up and the new one failed; a trigger is `Release` of its slot, or
`Clear` when all are disabled or the thread ends its session. `TakeView` is the lemma
that matters: the overlap test keeps the new interval apart from all armed ones, event
numbers grow, and an armed slot is only given up when the table is full. The abstract
specification has no fairness, so the refinement is of safety.

The assumption is `WPAssumption`. Its part `MaxWP \in
1..MAX_WP_SLOTS` is *not* enforced by the code: `maxWP` is what `getMaxDevices`
counts, while the array has five entries.

### Platform

`PlatformProofs` proves, for every set of threads and descriptors and any number of
sessions and signals:

| Theorem | Property |
|---|---|
| `PlatformInductive` | `PInv`, the inductive invariant |
| `MapsAlwaysAgree` | `MapsAgree` |
| `SessionsLeaveNothing` | `NothingLeftBehind` |
| `DevicesComeBack` | `NoneLeftPaused` |

`PInv` adds to the three properties types, `Keys` and `Registering`. `Keys`: a session
key is given to one thread, once. Without it the exit of one session could remove the
list of another, and a thread's new session could inherit entries. `Registering`: a
thread that opened a descriptor has no other device, and once it added it the device is
there until it is linked. The lock appears in none of them: the maps agree at each
moment because of what the thread itself has still to do, and `devicemap_mtx` only makes
each of the two updates one step. Steps of handlers share `CalmMaps` (they change at most
whether devices count), steps that wait for the lock `MoveMaps`. The assumption is
`PlatformAssumption`.

### ToolInit

`ToolInitProofs` proves, for every set of threads and any number of breakpoint
registers:

| Theorem | Property |
|---|---|
| `ToolInductive` | `TInv`, the inductive invariant |
| `LibraryInitialisedOnce` | `InitialisedOnce` |
| `DevicesAreReachable` | `DevicesReachable` |
| `TablesAreComplete` | `TablesComplete` |

`OneInitialiser` ties the initialiser to the flag that `INITONCE` sets. The other two
need `FirstAlone`: where the process comes first, nobody else moves until its first
thread has its session, and afterwards there is a pointer, so no thread constructs and
the pointer and `maxWP` do not change any more. `Made` is needed because the pointer that
counts as *there* is one that is not null. The assumption is `ToolInitAssumption`.

### WitchLogic

`WitchProofs` proves, for every set of contexts, lengths and builds and any number
of samples and reports:

| Theorem | Property |
|---|---|
| `WitchInductive` | `WInv`, the inductive invariant |
| `LeafMapIsSound` | `LeafMapResolves` |
| `AnsweredOnce` | `DisabledIsForgotten` |
| `StaleOnlyAfterClean` | `StaleAfterClean` |
| `CatchupStaysBehind` | `CatchupBehind` |
| `WatchedStayWithin` | `WatchedWithinSampled` |
| `TotalsInductive` | `WInv`, `CInv`, `MInv`, `RInv` and `SInv` together |
| `SamplesChargedOnce` | `ChargedOnce` |
| `ReportAccounts` | `TotalsAttributed` |

`WInv` adds to the two properties that events are numbered `1..n` (so that the
entry of a new sample replaces none) and that no child of the root is both
allocated and deleted: without it a sample could find its context in a deleted
node and `LeafMapResolves` would be lost at the next report. One lemma per handler;
the three kinds of answer to a trigger share the lemma that settling a sample, by
removing its entry or leaving it in a `*_INST` build, preserves the invariant.

On top of it stand four more invariants, each of which needs those before it:

* `RInv` places the report: it is between two of its parts only in a logic that
  deletes its tree, and only after it began. `StaleAfterClean` is not inductive without
  that, since the deletion is the second part.
* `CInv` types the counters and says that a context in the table has at least one sample
  (the denominator of `avgDistance` is not zero), and that at most the samples taken are
  counted, at most the counted ones caught up. The increment of a charge is the
  difference, so it is not negative.
* `MInv` types the bytes and adds that used bytes are charged to the sampled context
  only and that a context without a node has none: a new node starts at zero.
* `SInv` has the two sums. Between the deletion of the tree and the reset of the totals
  the totals are those of the tree that is gone, which is why both are stated in
  `Settled` states; `CleanBeforeReset` says that in that window, while no trigger has
  raced, nothing has been charged again, so that the reset meets an empty tree.

The totals are compared with sums over the contexts in the tree, `SumFunction` of the
community modules, which is a recursive function over finite sets. The section *Sums over
finite sets* proves what is needed of it for every finite set: that it is defined by the
recursion its definition states (`SumsDefined`, `SumsEquation`), that an element can be
taken out (`SumTakesOut`), that it is monotone, and what it becomes when one value
changes or one element is added (`SumOneChanged`, `SumOneMore`). Those are inductions
over data, possible here because each is about a *set* of numbers or subsets that a leaf
can write down: `LeastNumber` gives a least counterexample from the well-foundedness of
the natural numbers, and `SubsetInduction` follows from it. `ChargedOnce` then moves by
one product, increment times length, which `ProductBounds` puts between the shortest and
the longest length times the samples caught up.

The assumption is `WitchAssumption`. Its part `Lens # {}` is what gives the shortest and
the longest length a meaning.

### KvmAgent

`KvmProofs` proves, for every set of VCPU threads and descriptors, every `HBP_NUM`
and `maxWP`, and any number of sessions and events:

| Theorem | Property |
|---|---|
| `KvmInductive` | `KInv`, the inductive invariant |
| `KvmTypeCorrect` | `TypeOK` |
| `SlotsOwned` | `SlotsAgree` |
| `EventsFindDevices` | `EventsResolve` |
| `SessionsCleanUp` | `NothingLeftOfVCPU` |
| `DisabledStaysOff` | `OnlyArmedWatch` |
| `PausedAreResumed` | `NoneLeftPaused` |

`SlotsAgree` alone is not inductive: a registration could take a descriptor that
some slot still holds. `KInv` follows a descriptor through its life: it is open
from `perf_event_open` (`Registrations`) to `close` (`DevicesOpen`), a device is in
`deviceMap` before it has a slot and until it has none (`Mapped`), and no two
threads have the same number in the map (`OneOwner`). The one exception is a number
that was closed and handed out again (`Reopened`); its new thread cannot add it,
since the old one is inside the lock (`LockHeld`). `AddKInv` is the lemma where that
argument is made, `ForgetKInv` the one where the slot is given back. All steps of
the guest, the hypervisor and the tool that only pause, resume, flag or re-aim devices
share the lemma `CalmStep`.

Each of the other four has an invariant of its own on top of `KInv`. `EventInv`:
session keys are never used twice, and the device of an event of the running session
is not removed before `kvm__VCPU_end`. `SessionInv`: a device in the map is also in its
session's list, except while it is filed or removed, so that the sweep at the end
misses none. `ArmInv`: a device is not disabled before it has a slot, disabled before
it loses it, and no slot is held before the hypervisor has registered; `SlotOwner`
says that pausing or resuming a device reaches exactly the slot it is in, which is
where `OneOwner` is needed. `PauseInv`: a VCPU that is in the guest without an event
watches with every device that is not disabled (`Awake`), and the sampling device, first
of its session, is not switched on while it is filed (`FirstNew`). Whether a device
watches is read off its own VCPU's slots (`Seen`), while the code looks the VCPU up by
descriptor; `OwnSlots` shows from `KInv` that these are the same, so that what other
VCPUs do to their slots, the end of their sessions included, does not change it. The step
that matters is the resume at the end of an event (`ResumedSeen`): it goes through the
session's list, in which by `SessionInv` no device is missing (`AllListed`). The
assumption of all seven is `KvmAssumption`.

### MonitorThreads

`MonitorProofs` proves, for every set of worker threads, every array size and any
number of arrays, threads and forks, with and without client calls and fatal
signals:

| Theorem | Property |
|---|---|
| `ThreadsTypeCorrect` | `TypeOK` |
| `OneThreadEnds` | `OneFiniProcess` |
| `InitIsOrdered` | `InitOrder` |
| `ListStaysFrozen` | `ListFrozen` (an action property) |
| `NodesAreOwned` | `NodesOwned` |
| `ExitDoesWait` | `ExitWaits` |

The type invariant needs `ArgSet`: a thread between its creation and its end was
given a node. `OneFiniProcess` is inductive with it, because the cookie goes up in
the step that wins and no step, a fork included, takes it down.

`ListInv` says that the thread list is empty until the first `pthread_create`.
`ListStaysFrozen` needs it: `monitor_thread_list_init` empties the list without
looking at `in_exit_cleanup`, and runs again in a forked child.

`OrderInv` orders the flags (`main_called`, `has_reached_main`,
`thread_support_done`) and says who may be on the way to main: the process's main
thread, and alone when it goes there a second time in a forked child. The support
callback is only done after main was reached, which is what makes waiting for the
one flag in `monitor_begin_thread` enough for both callbacks.

`NodeInv` follows a node from the array (`Fresh`) to the thread that holds it, the
thread list, the free list and back; the four places do not meet, and a thread
that may still unlink its node has it on the thread list. The thread that forked
holds nothing in the child (`Exempt`): the child starts the arrays again, so its old
node is handed out while its argument still names it. `NodeInv` is therefore preserved
until that thread runs its cleanup routine in the child. `PostInv` says that the nodes
which creators have still to read are neither fresh nor free, and differ; it is preserved
until a thread frees such a node, since a node that is made was fresh or free
(`MadeFact`). `StepHistory` says that either is recorded for good, and the theorem is
about `strayed \/ (NodeInv /\ (overtaken \/ PostInv))`. What a fork in the
middle of `pthread_create` or of a constructor leaves behind, the threads of the child and
their exit are included.

`ExitInv` follows the threads that were running when exit cleanup began (`at_exit`)
through the walk of the shootdown: their nodes stay on the list, which is frozen, they
have started, and the walk has each of them ahead, or has counted it as unfinished, or it
is the walker's own, or its `fini_thread` is done. When a pass ends with nobody unfinished
only the last two are left, and the walker runs its own `fini_thread` next. `NodeInv` is
needed so that a node the walk looks at is not handed to another thread, `WaitInv` so
that a thread that begins late does not find its own node on the list. Most steps do
not touch what the walk reads; `Aside` says what that is, and `AsideKeeps` covers them.

One step per action in each of the inductions. The assumptions are
`ThreadsAssumption` and `BoundsAssumption`.

### MonitorSignals

`SignalProofs` proves, for every set of threads and signals, every list of
preferences, any depth of nested handlers and any order of calls:

| Theorem | Property |
|---|---|
| `SignalsTypeCorrect` | `TypeOK` |
| `AlwaysOneLeft` | `SignalLeft` |
| `MasksAreMarked` | `BlockedIsMarked` |
| `ReservedStaysOpen` | `ReservedOpen` |

`SInv` is `TypeOK` and `Reserved`: a reserved signal is marked to be kept open and was
never marked blocked. None of it depends on the masks being still the ones that were
examined.

`LInv` adds what `SignalLeft` needs: the lock has one holder (`OneHolder`), and a holder
that has examined its mask, which nobody replaced, will not mark the last candidate
(`Examined`). `ReserveLInv` and `RemoveLInv` are the steps that matter: a mask that would
cover the last candidates reserves the first of them instead of blocking it. That there
is a first one (`FirstFact`) is the well-founded minimum of the preferences.

`MInv` adds that a mask is bounded by what is marked wherever it is: filtered and on its
way to the kernel (`OnTheWay`), in an entry or installed with the kernel (`KernMarked`,
`InstalledMarked`), in force or saved to be restored by a handler that returns
(`MasksBounded`). An entry or an installed mask may be unmarked in part, but then a call
for that signal is under way, in any thread and at any depth, that has still to filter
the entry and to install it: `CallAtKept` and `InstallMInv` follow that call through the
steps of all others. A handler carries in `torn` what its mask held unmarked. A reserved
signal is in none of the marked masks since it is never marked.

### PerfRing

`PerfRingProofs` proves, for every size of the ring, every set of sample types made of
one-word fields and the call chain, every set of lengths of call chains and any number of
records, wraps, signals and losses:

| Theorem | Property |
|---|---|
| `RingInductive` | `RingInv`, the inductive invariant |
| `RecordsParsedOnce` | `ParsedOnce` |
| `EventsAreWhole` | `EventWhole` |
| `NoEventIsEmpty` | `NoEmptyEvent` |

The argument has three layers.

*Layout.* The kernel's and the parser's offsets are recursive functions over two orders of
19 fields. `StartFacts` shows that the kernel's is defined and satisfies its recursion,
`FieldWord` that the fields do not overlap and which word each starts with. `ParserWalk`
is the lemma that matters: on a sample that lies in the copy the parser's offsets exist
and are the kernel's, because the first 13 fields of both orders agree (`Orders`), no
other is in the devices' sample types, and `FieldSize` of a count that was read is
`KernelWords` of the count that was written. These are inductions along the fields; like
those of `WitchProofs` they go through a least counterexample in a set that is written
down (`CountUp`).

*Ring.* None of the properties is inductive, since the ring forgets what was read and its
words do not say where they were written. `RingInv` therefore claims that there *is* a
log: for every record its kind, count and position, such that the records follow each
other up to the head (`Logged`), and the ring (`InRing`) and the copy (`Copied`) hold at
each position the word that was written there. `PutKeeps` shows that a record with room
overwrites nothing between tail and head: seen from the head, `FromHead`, an unread word
is the last part of a round away. `Rotated` shows that the two `memcpy`s put the words in
order. What is appended changes nothing for a handler in the middle of its read (`Grown`,
`KernelKeeps`). `Reader` says that the handler and the head it read stand at starts of
records; `NextRecord` gives the whole next record in the copy, and `RecordParsed` that
the parser advances by its size and an Event becomes that sample.

*Device.* `Armed`: as long as the device was armed only when it was served, it is armed
for one sample, or one signal is queued, or the handler runs. `Found`: then a signal and
the read that serves it have a sample to find. That is preserved only because the next
sample has room whenever no other is unread: `Room` bounds what may lie in the ring by a
LOST and an UNTHROTTLE record, of which the second is written without a signal, also
between the handler's steps. `NothingLost` is the sharper bound while no signal was
dropped.

The assumptions are `RingAssumption`, `LayoutAssumption` (the fields just named, the
instruction pointer among them; the devices' three sample types satisfy it) and
`RoomAssumption`: the ring holds a sample and three throttle records. The ring has
`NUM_MMAP_PAGES` pages, 4096 words, and a call chain some hundred entries at most.

### Only proved, only model-checked

`TypeOK` of `Watchpoint`, `KvmAgent`, `MonitorThreads` and `MonitorSignals`,
`SlotsOwnDevices` and `DisabledIsForgotten`
are proved and not checked by a run of their own; nor is `ArmedEventLive`, which is, like
`SlotsOwnDevices`, a conjunct of `IInv`.

Only model-checked: liveness (`HandlersEnd`, `SampleRead`, `ExitCompletes`,
`LockGranted`), which is out of the prover's reach. Every invariant and action property
that a passing run checks is also the statement of a theorem.

## 5. Plan

Done: the watchpoint table with its abstract pool, devices and signals, tool
initialisation, the witch logics, the KVM agent, the ring reader, libmonitor's
threads, exit and signals, with the theorems of section 4. Next:

* Composition of `KvmAgent` with the slot table: which verdicts and replacements
  reach `updateBPAddress`, instead of a free choice on both sides.

## 6. Not modelled

Decoders and symbolisers (calls into XED, libunwind, BFD without state of their
own), the python agent's frame reading, the sample tools, the logger. Of
libmonitor: the MPI, `dlopen` and memory wrappers, which issue a callback before and
after the real call and keep no state (the malloc callbacks appear in `Platform`),
`system()`, `sigwait`, and what the module sections above name. Of the ring reader:
the printing of records and the IBS dumps. A breakpoint device that
refuses a new address is a free choice in `ModifyWatchPoint`. Of the KVM agent:
`setupPEBSbuffer` (nothing calls it), recording the guest's frames, reading guest
memory, and the data race of two threads inside one `std::map`. The clients' verdicts are a free choice in
`OnWatchPoint` and the watchpoint library is a free choice (`Forgotten`) in
`WitchLogic`: each module is checked against every behaviour of the other. The
paths of symbols in a report and the arithmetic of its percentages are not modelled.
