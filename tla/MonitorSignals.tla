--------------------------- MODULE MonitorSignals ---------------------------
(***************************************************************************)
(* libmonitor's signal layer: monitor's own handler for every signal, the  *)
(* application's and the client's sigaction, the overrides of sigprocmask  *)
(* and pthread_sigmask, and the choice of the signal that thread shootdown *)
(* uses when the process exits.                                            *)
(*                                                                         *)
(* A thread is a stack of calls: call[t][0] is the thread itself and       *)
(* call[t][d] the d-th signal handler nested in it.  Only the top runs.    *)
(* monitor_signal_array is split into one variable per field.              *)
(***************************************************************************)
EXTENDS Naturals

CONSTANTS
    Threads,          \* threads of the process
    NoThread,
    Signals,          \* 1 .. MONITOR_NSIG - 1
    NoSignal,         \* the -1 of shootdown_signal
    Avoid,            \* monitor_signal_avoid_list
    Invalid,          \* signals whose first sigaction fails
    NoTerm,           \* monitor_signal_noterm_list
    Stop,             \* monitor_signal_stop_list
    Ignored,          \* signals the process was started with ignored
    OpenList,         \* MONITOR_CLIENT_SIGNALS_LIST of configure
    Candidates,       \* the eight real-time signals and monitor_extra_list
    LastResort,       \* last_resort_signal
    Preference,       \* the position of a signal in the shootdown list
    EnvSignal,        \* MONITOR_SHOOTDOWN_SIGNAL, or NoSignal when unset
    Inherited,        \* the mask the process was started with
    Requests,         \* the masks that callers ask for
    Acts,             \* the dispositions the application asks for
    Handled,          \* the signals that callers install actions for
    Arriving,         \* the signals that arrive
    MaxDepth,         \* bound: nested signal handlers
    MaxCalls          \* bound: calls of the application and the client

HandsOff == Avoid \cup Invalid

ASSUME SignalsAssumption ==
    /\ NoSignal \notin Signals /\ NoThread \notin Threads
    /\ Avoid \cup Invalid \cup NoTerm \cup Stop \cup Ignored \cup OpenList
           \subseteq Signals
    /\ Candidates \subseteq Signals /\ Inherited \subseteq Signals
    /\ LastResort \in Signals \ HandsOff
    /\ Preference \in [Signals -> Nat]
    /\ EnvSignal \in Signals \cup {NoSignal}
    /\ Requests \subseteq SUBSET Signals /\ Handled \cup Arriving \subseteq Signals
    /\ Acts \subseteq {"default", "ignore", "handler"}
    /\ MaxDepth \in Nat /\ MaxCalls \in Nat

VARIABLES
    keep_open, blocked, client_handler, appl_hand,  \* the signals so marked
    appl_act,          \* mse_appl_act.sa_handler of each signal
    kern_mask,         \* mse_kern_act.sa_mask of each signal
    installed,         \* sa_mask of the action the kernel holds (external)
    shootdown_signal,
    signal_lock,       \* the thread that holds monitor_signal_lock
    mask,              \* each thread's signal mask (external)
    depth, call,       \* each thread's stack
    ending,            \* the thread that ends the process
    shooting,          \* the shootdown handler is installed
    reached,           \* threads the shootdown signal got to
    forced,            \* history: shootdown_signal was chosen to be kept open
    rewritten,         \* history: a mask was replaced between choice and marking
    calls

marks == <<keep_open, blocked, client_handler, appl_hand>>
actions == <<appl_act, kern_mask, installed>>
exit == <<ending, shooting, reached>>
history == <<forced, rewritten>>
vars == <<marks, actions, shootdown_signal, signal_lock, mask, depth, call,
          exit, history, calls>>

(***************************************************************************)
(* How far a call of the stack has come: running the code of application   *)
(* or client; waiting for the lock, holding it, marking and removing under *)
(* it, about to give the filtered mask to the kernel or to install the     *)
(* action; entering monitor's handler; ending the process: testing         *)
(* shootdown_signal, waiting for the lock, choosing under it, about to     *)
(* install the shootdown handler, signalling the threads, gone; or waiting *)
(* for the thread that ends the process.  torn is history: the signals of  *)
(* the handler's mask that were unmarked when the kernel applied it.       *)
(***************************************************************************)
Pcs == {"run", "filter", "locked", "marking", "apply", "install", "handler",
        "end", "pick", "picking", "shoot", "shooting", "over", "waits"}

Call == [pc : Pcs, how : {"block", "setmask"}, set : SUBSET Signals,
         target : Signals \cup {NoSignal},
         handling : Signals \cup {NoSignal}, saved : SUBSET (Signals \ HandsOff),
         torn : SUBSET Signals]

Running == [pc |-> "run", how |-> "block", set |-> {}, target |-> NoSignal,
            handling |-> NoSignal, saved |-> {}, torn |-> {}]

Top(t) == call[t][depth[t]]
Alive == \A t \in Threads : Top(t).pc # "over"
At(t, p) == Top(t).pc = p
Goto(t, p) == call' = [call EXCEPT ![t][depth[t]].pc = p]
Done(t) == call' = [call EXCEPT ![t][depth[t]] =
                        [@ EXCEPT !.pc = "run", !.how = "block", !.set = {},
                                  !.target = NoSignal]]

\* monitor_shootdown_list, and the signals of it that no mask has covered.
ShootdownList ==
    {s \in Candidates : s \notin HandsOff \cup Stop \cup OpenList} \cup {LastResort}
Available == ShootdownList \ blocked
First(S) == CHOOSE s \in S : \A u \in S : Preference[s] <= Preference[u]

EnvValid == EnvSignal \in Signals \ (HandsOff \cup Stop)

Init ==
    /\ keep_open = OpenList \cup (IF EnvValid THEN {EnvSignal} ELSE {})
    /\ blocked = {} /\ client_handler = {} /\ appl_hand = {}
    /\ appl_act = [s \in Signals |-> IF s \in Ignored THEN "ignore" ELSE "default"]
    /\ kern_mask = [s \in Signals |-> {}]
    /\ installed = [s \in Signals |-> {}]
    /\ shootdown_signal = IF EnvValid THEN EnvSignal ELSE NoSignal
    /\ forced = EnvValid
    /\ signal_lock = NoThread
    /\ mask = [t \in Threads |-> Inherited \ HandsOff]
    /\ depth = [t \in Threads |-> 0]
    /\ call = [t \in Threads |-> [d \in 0 .. MaxDepth |-> Running]]
    /\ ending = NoThread /\ shooting = FALSE /\ reached = {}
    /\ rewritten = FALSE /\ calls = 0

-----------------------------------------------------------------------------
(***************************************************************************)
(* Calls of the application and the client.                                *)
(***************************************************************************)
Calls(t) == At(t, "run") /\ calls < MaxCalls /\ calls' = calls + 1

\* sigprocmask and pthread_sigmask that unblock: nothing to filter.
Unblock(t, set) ==
    /\ Calls(t)
    /\ mask' = [mask EXCEPT ![t] = @ \ set]
    /\ UNCHANGED <<marks, actions, shootdown_signal, signal_lock, depth, call,
                   exit, history>>

SigmaskUnfiltered(t, how, set) ==
    /\ Calls(t)
    /\ call' = [call EXCEPT ![t][depth[t]] =
                    [@ EXCEPT !.pc = IF how = "block" THEN "filter" ELSE "apply",
                              !.how = how, !.set = set, !.target = NoSignal]]
    /\ UNCHANGED <<marks, actions, shootdown_signal, signal_lock, mask, depth,
                   exit, history>>

\* sigprocmask and pthread_sigmask with SIG_BLOCK or SIG_SETMASK.
Sigmask(t, how, set) ==
    /\ Calls(t)
    /\ call' = [call EXCEPT ![t][depth[t]] =
                    [@ EXCEPT !.pc = "filter", !.how = how, !.set = set,
                              !.target = NoSignal]]
    /\ UNCHANGED <<marks, actions, shootdown_signal, signal_lock, mask, depth,
                   exit, history>>

\* A call that has written s's kern_act and not yet installed it, at one of pcs.
CallAt(s, pcs) ==
    \E u \in Threads : \E d \in 0 .. depth[u] :
        call[u][d].target = s /\ call[u][d].pc \in pcs

\* kern_act is written outside the lock: no two calls of sigaction for one signal
\* are kept apart, neither of two threads nor of a thread and its handler.
WriteKernAct(t, s, set) ==
    /\ kern_mask' = [kern_mask EXCEPT ![s] = set]
    /\ rewritten' = (rewritten \/ CallAt(s, {"marking"}))
    /\ call' = [call EXCEPT ![t][depth[t]] =
                    [@ EXCEPT !.pc = "filter", !.target = s]]

\* sigaction, and signal, which asks for an empty mask.
monitor_appl_sigaction(t, s, act, set) ==
    /\ Calls(t)
    /\ s \notin HandsOff
    /\ appl_hand' = IF act = "handler" THEN appl_hand \cup {s} ELSE appl_hand
    /\ appl_act' = [appl_act EXCEPT ![s] = act]
    /\ WriteKernAct(t, s, set)
    /\ UNCHANGED <<keep_open, blocked, client_handler, installed,
                   shootdown_signal, signal_lock, mask, depth, exit, forced>>

\* The client's sigaction without an action of its own.
monitor_sigaction(t, s) ==
    /\ Calls(t)
    /\ s \notin HandsOff
    /\ keep_open' = keep_open \cup {s}
    /\ client_handler' = client_handler \cup {s}
    /\ UNCHANGED <<blocked, appl_hand, actions, shootdown_signal, signal_lock,
                   mask, depth, call, exit, history>>

\* The client's sigaction with flags and a mask.
monitor_sigaction_act(t, s, set) ==
    /\ Calls(t)
    /\ s \notin HandsOff
    /\ keep_open' = keep_open \cup {s}
    /\ client_handler' = client_handler \cup {s}
    /\ WriteKernAct(t, s, set)
    /\ UNCHANGED <<blocked, appl_hand, appl_act, installed, shootdown_signal,
                   signal_lock, mask, depth, exit, forced>>

-----------------------------------------------------------------------------
(***************************************************************************)
(* monitor_remove_client_signals: one critical section, on the caller's    *)
(* copy of the mask or on kern_act's, which reserves a shootdown signal if *)
(* the mask covers all, and then marks and removes: kern_act's mask may    *)
(* have been replaced in between.  The loop that marks is one step; a mask *)
(* that changes under it is, signal by signal, the old or the new one.     *)
(***************************************************************************)
Lock(t, from, to) ==
    /\ At(t, from)
    /\ signal_lock = NoThread
    /\ signal_lock' = t
    /\ Goto(t, to)
    /\ UNCHANGED <<marks, actions, shootdown_signal, mask, depth, exit, history,
                   calls>>

ReleaseForgotten == UNCHANGED signal_lock
Release == signal_lock' = NoThread

LockFilter(t) == Lock(t, "filter", "locked")

CoversNever(set) == FALSE

\* The new mask covers every signal still available: choose one now.
Covers(set) ==
    shootdown_signal = NoSignal /\ Available # {} /\ Available \subseteq set

KeptOpenBefore(set) == keep_open
KeptOpen(set) == keep_open \cup (IF Covers(set) THEN {First(Available)} ELSE {})
\* The mask that a call filters: its own copy, or kern_act's, in place.
Asked(c) == IF c.target = NoSignal THEN c.set ELSE kern_mask[c.target]

ReserveSignal(t) ==
    LET set == Asked(Top(t)) IN
    /\ At(t, "locked")
    /\ shootdown_signal' = IF Covers(set) THEN First(Available) ELSE shootdown_signal
    /\ forced' = (forced \/ Covers(set))
    /\ keep_open' = KeptOpen(set)
    /\ Goto(t, "marking")
    /\ UNCHANGED <<blocked, client_handler, appl_hand, actions, signal_lock, mask,
                   depth, exit, rewritten, calls>>

Filtered(set) == set \ (keep_open \ HandsOff)

RemoveKeptOpen(t) ==
    LET c == Top(t)
        set == Filtered(Asked(c))
    IN
    /\ At(t, "marking")
    /\ blocked' = blocked \cup (set \ HandsOff)
    /\ IF c.target = NoSignal
       THEN /\ call' = [call EXCEPT ![t][depth[t]] =
                           [@ EXCEPT !.pc = "apply", !.set = set]]
            /\ UNCHANGED kern_mask
       ELSE /\ Goto(t, "install")
            /\ kern_mask' = [kern_mask EXCEPT ![c.target] = set]
    /\ Release
    /\ UNCHANGED <<keep_open, client_handler, appl_hand, appl_act, installed,
                   shootdown_signal, mask, depth, exit, history, calls>>

\* The real sigprocmask; the kernel never masks the hands-off signals.
ApplyMask(t) ==
    LET c == Top(t) IN
    /\ At(t, "apply")
    /\ mask' = [mask EXCEPT ![t] =
                   (IF c.how = "block" THEN @ \cup c.set ELSE c.set) \ HandsOff]
    /\ Done(t)
    /\ UNCHANGED <<marks, actions, shootdown_signal, signal_lock, depth, exit,
                   history, calls>>

\* The real sigaction reads kern_act outside the lock.
InstallAction(t) ==
    LET s == Top(t).target IN
    /\ At(t, "install")
    /\ installed' = [installed EXCEPT ![s] = kern_mask[s]]
    /\ Done(t)
    /\ UNCHANGED <<marks, appl_act, kern_mask, shootdown_signal, signal_lock,
                   mask, depth, exit, history, calls>>

-----------------------------------------------------------------------------
(***************************************************************************)
(* Signals arrive between any two steps of a thread.                       *)
(***************************************************************************)

\* The part of an installed mask that no call has marked.
Torn(s) == installed[s] \ (blocked \cup HandsOff)

Push(t, s) ==
    /\ depth[t] < MaxDepth
    /\ depth' = [depth EXCEPT ![t] = @ + 1]
    /\ call' = [call EXCEPT ![t][depth[t] + 1] =
                    [Running EXCEPT !.pc = "handler", !.handling = s,
                                    !.saved = mask[t], !.torn = Torn(s)]]
    /\ mask' = [mask EXCEPT ![t] = (@ \cup installed[s] \cup {s}) \ HandsOff]

Pop(t) ==
    /\ depth[t] > 0
    /\ depth' = [depth EXCEPT ![t] = @ - 1]
    /\ mask' = [mask EXCEPT ![t] = Top(t).saved]
    /\ call' = [call EXCEPT ![t][depth[t]] = Running]

IsShootdown(s) == shooting /\ s = shootdown_signal

\* The kernel delivers s to t: monitor_signal_handler starts.
Deliver(t, s) ==
    /\ s \notin HandsOff
    /\ s \notin mask[t] /\ ~IsShootdown(s)
    /\ Push(t, s)
    /\ UNCHANGED <<marks, actions, shootdown_signal, signal_lock, exit, history,
                   calls>>

\* The signals whose disposition in the application is to ignore them, to do
\* nothing by default, or to stop and later continue the process.
Harmless == {s \in Signals : appl_act[s] = "ignore"}
                \cup {s \in NoTerm \cup Stop : appl_act[s] = "default"}

\* The client takes the signal, or it is harmless.
HandlerReturns(t) ==
    /\ At(t, "handler")
    /\ Top(t).handling \in client_handler \cup Harmless
    /\ Pop(t)
    /\ UNCHANGED <<marks, actions, shootdown_signal, signal_lock, exit, history,
                   calls>>

\* The client is not there or passes, and the application has a handler.
HandlerRuns(t) ==
    /\ At(t, "handler")
    /\ appl_act[Top(t).handling] = "handler"
    /\ Goto(t, "run")
    /\ UNCHANGED <<marks, actions, shootdown_signal, signal_lock, mask, depth,
                   exit, history, calls>>

\* The application's handler returns.
Return(t) ==
    /\ At(t, "run")
    /\ Pop(t)
    /\ UNCHANGED <<marks, actions, shootdown_signal, signal_lock, exit, history,
                   calls>>

\* monitor_end_process_fcn: the first thread ends the process, others wait.
EndProcess(t) ==
    /\ ending' = IF ending = NoThread THEN t ELSE ending
    /\ Goto(t, IF ending = NoThread THEN "end" ELSE "waits")
    /\ UNCHANGED <<marks, actions, shootdown_signal, signal_lock, mask, depth,
                   shooting, reached, history, calls>>

\* The default action terminates the process.
HandlerEnds(t) ==
    LET s == Top(t).handling IN
    /\ At(t, "handler")
    /\ appl_act[s] = "default" /\ s \notin NoTerm \cup Stop
    /\ EndProcess(t)

\* The application calls exit.
Exit(t) == At(t, "run") /\ EndProcess(t)

-----------------------------------------------------------------------------
(***************************************************************************)
(* monitor_shootdown_signal, called once when the process ends.            *)
(***************************************************************************)
ShootdownTest(t) ==
    /\ At(t, "end")
    /\ Goto(t, IF shootdown_signal # NoSignal THEN "shoot" ELSE "pick")
    /\ UNCHANGED <<marks, actions, shootdown_signal, signal_lock, mask, depth,
                   exit, history, calls>>

LockPick(t) == Lock(t, "pick", "picking")

\* Unused by client and application, else unused by the client, else any.
Unused == Available \ (client_handler \cup appl_hand)
NotClients == Available \ client_handler

PickShootdown(t) ==
    /\ At(t, "picking")
    /\ shootdown_signal' = CASE Unused # {}     -> First(Unused)
                             [] Unused = {} /\ NotClients # {} -> First(NotClients)
                             [] NotClients = {} /\ Available # {} -> First(Available)
                             [] OTHER           -> LastResort
    /\ forced' = (forced /\ shootdown_signal' = shootdown_signal)
    /\ Release
    /\ Goto(t, "shoot")
    /\ UNCHANGED <<marks, actions, mask, depth, exit, rewritten, calls>>

\* monitor_thread_shootdown installs its handler and signals every thread.
Shoot(t) ==
    /\ At(t, "shoot")
    /\ shooting' = TRUE
    /\ Goto(t, "shooting")
    /\ UNCHANGED <<marks, actions, shootdown_signal, signal_lock, mask, depth,
                   ending, reached, history, calls>>

\* The shootdown handler runs in a thread that does not mask the signal.
Reach(t) ==
    /\ shooting /\ t \notin (reached \cup {ending})
    /\ shootdown_signal \notin mask[t]
    /\ reached' = reached \cup {t}
    /\ UNCHANGED <<marks, actions, shootdown_signal, signal_lock, mask, depth,
                   call, ending, shooting, history, calls>>

\* The threads are done or monitor gives up on them, and the process ends: by
\* exit, or with the default action restored, the mask emptied and the signal
\* raised again.
ProcessEnds(t) ==
    /\ At(t, "shooting")
    /\ Goto(t, "over")
    /\ mask' = [mask EXCEPT ![t] = IF Top(t).handling = NoSignal THEN @ ELSE {}]
    /\ UNCHANGED <<marks, actions, shootdown_signal, signal_lock, depth, exit,
                   history, calls>>

-----------------------------------------------------------------------------
Monitor(t) ==
    /\ Alive
    /\ \/ ReserveSignal(t) \/ RemoveKeptOpen(t) \/ ApplyMask(t) \/ InstallAction(t)
       \/ HandlerReturns(t) \/ HandlerRuns(t) \/ HandlerEnds(t)
       \/ ShootdownTest(t) \/ PickShootdown(t) \/ Shoot(t) \/ ProcessEnds(t)

GetLock(t) == Alive /\ (LockFilter(t) \/ LockPick(t))

Application(t) ==
    \/ \E set \in Requests :
          \/ Unblock(t, set)
          \/ \E how \in {"block", "setmask"} : Sigmask(t, how, set)
          \/ \E s \in Handled :
                \/ monitor_sigaction_act(t, s, set)
                \/ \E act \in Acts :
                      monitor_appl_sigaction(t, s, act, set)
    \/ \E s \in Handled : monitor_sigaction(t, s)
    \/ \E s \in Arriving : Deliver(t, s)
    \/ Return(t) \/ Exit(t) \/ Reach(t)

Next ==
    \E t \in Threads :
        Monitor(t) \/ GetLock(t) \/ (Alive /\ Application(t))

Spec == Init /\ [][Next]_vars

(***************************************************************************)
(* A thread inside monitor goes on; one that spins on the lock gets it if  *)
(* it is free again and again.  Nothing is assumed of the application, nor *)
(* of the signals that arrive.                                             *)
(***************************************************************************)
Fairness ==
    \A t \in Threads : WF_vars(Monitor(t)) /\ SF_vars(GetLock(t))

FairSpec == Spec /\ Fairness

-----------------------------------------------------------------------------
TypeOK ==
    /\ keep_open \subseteq Signals /\ blocked \subseteq Signals \ HandsOff
    /\ client_handler \subseteq Signals /\ appl_hand \subseteq Signals
    /\ appl_act \in [Signals -> {"default", "ignore", "handler"}]
    /\ kern_mask \in [Signals -> SUBSET Signals]
    /\ installed \in [Signals -> SUBSET Signals]
    /\ shootdown_signal \in Signals \cup {NoSignal}
    /\ signal_lock \in Threads \cup {NoThread}
    /\ mask \in [Threads -> SUBSET (Signals \ HandsOff)]
    /\ depth \in [Threads -> 0 .. MaxDepth]
    /\ call \in [Threads -> [0 .. MaxDepth -> Call]]
    /\ ending \in Threads \cup {NoThread}
    /\ shooting \in BOOLEAN /\ reached \subseteq Threads
    /\ forced \in BOOLEAN /\ rewritten \in BOOLEAN /\ calls \in 0 .. MaxCalls

\* The signals a thread is handling: the kernel masks each in its own handler.
Handling(t) == {call[t][d].handling : d \in 1 .. depth[t]}

\* ... and what their masks held unmarked when they were entered.
TornIn(t) == UNION {call[t][d].torn : d \in 1 .. depth[t]}

(***************************************************************************)
(* "There should always [be] at least one available signal in the old      *)
(* mask", "Probably can never get here" (signal.c): until a shootdown      *)
(* signal is chosen, whatever masks all the threads and handlers together  *)
(* asked for, one signal of the shootdown list is still unmarked, unless a *)
(* second sigaction replaced the mask that a first had just examined: that *)
(* call marks what the first was about to reserve.                         *)
(***************************************************************************)
SignalLeft == rewritten \/ (shootdown_signal = NoSignal => Available # {})

(***************************************************************************)
(* mse_blocked is sticky and global, so it bounds every mask there is.     *)
(* The mask of an installed action was marked, or a sigaction for that     *)
(* signal is still under way and puts it right.  What a thread masks was   *)
(* marked before the real sigprocmask, came with the process, is the       *)
(* signal of a handler that is running, or came with a handler entered     *)
(* while its signal's action was unmarked.                                 *)
(***************************************************************************)
UnderWay == {"filter", "locked", "marking", "install"}

BlockedIsMarked ==
    /\ \A s \in Signals : Torn(s) = {} \/ CallAt(s, UnderWay)
    /\ \A t \in Threads :
          mask[t] \subseteq blocked \cup Inherited \cup Handling(t) \cup TornIn(t)

(***************************************************************************)
(* "Always leave at least one unmasked signal to use for thread shootdown" *)
(* (signal.c): the signal that monitor_remove_client_signals reserved, or  *)
(* the environment named, stays out of the mask of every thread and of     *)
(* every handler, also of the calls that were under way when it was        *)
(* reserved and of the masks that handlers restore when they return.  The  *)
(* exception is a thread inside a handler that was entered while its mask  *)
(* was not filtered yet: there the comment does not hold.                  *)
(***************************************************************************)
ReservedOpen ==
    forced => \A t \in Threads :
        \/ shootdown_signal \in Inherited \cup Handling(t) \cup TornIn(t)
        \/ /\ shootdown_signal \notin mask[t]
           /\ Top(t).pc = "apply" => shootdown_signal \notin Top(t).set

(***************************************************************************)
(* A thread that waits for monitor_signal_lock gets it, or the holder sits *)
(* under a signal handler of its own: the lock is not reentrant and the    *)
(* critical sections leave signals unmasked.                               *)
(***************************************************************************)
HolderInterrupted ==
    \E t \in Threads : \E d \in 0 .. MaxDepth :
        d < depth[t] /\ call[t][d].pc \in {"locked", "marking", "picking"}

LockGranted ==
    \A t \in Threads :
        (Top(t).pc \in {"filter", "pick"})
            ~> (Top(t).pc \notin {"filter", "pick"} \/ HolderInterrupted \/ ~Alive)

=============================================================================
