---------------------------- MODULE SignalProofs ----------------------------
(***************************************************************************)
(* Proofs about libmonitor's signal layer, for every number of threads,    *)
(* signals, nested handlers and calls: a signal is left for the shootdown, *)
(* what is masked was marked, and a reserved signal stays open.            *)
(***************************************************************************)
EXTENDS MonitorSignals, WellFoundedInduction, TLAPS

\* The signal that was reserved is marked as kept open and no mask covered it.
Reserved == forced => shootdown_signal \in (keep_open \ blocked) \ HandsOff

\* The types and the reserved signal.
SInv == TypeOK /\ Reserved

-----------------------------------------------------------------------------
(* Facts about the operators                                               *)

\* The list has a first signal: the preferences are natural numbers.
LEMMA FirstFact ==
    ASSUME NEW S \in SUBSET Signals, S # {}
    PROVE  First(S) \in S
  <1> DEFINE T == {Preference[s] : s \in S}
             R == OpToRel(<, Nat)
  <1>1. T \subseteq Nat /\ T # {}
    BY SignalsAssumption
  <1>2. \E x \in T : \A y \in T : ~ (<<y, x>> \in R)
    <2> HIDE DEF R, T
    <2>1. IsWellFoundedOn(R, Nat)
      BY NatLessThanWellFounded DEF R
    <2>2. QED  BY <1>1, <2>1, WFMin
  <1>3. PICK x \in T : \A y \in T : ~ (<<y, x>> \in R)
    BY <1>2
  <1>4. PICK s \in S : Preference[s] = x
    OBVIOUS
  <1>5. ASSUME NEW u \in S PROVE Preference[s] <= Preference[u]
    <2>1. Preference[u] \in T /\ Preference[u] \in Nat /\ x \in Nat
      BY <1>1
    <2>2. ~ (<<Preference[u], x>> \in R)
      BY <1>3, <2>1
    <2>3. ~ (Preference[u] < x)
      BY <2>1, <2>2 DEF OpToRel
    <2>4. QED  BY <1>4, <2>1, <2>3
  <1>6. QED  BY <1>5 DEF First

\* The signals of the shootdown list can be masked, so monitor marks them.
LEMMA ShootdownListFact ==
    /\ ShootdownList \subseteq Signals \ HandsOff
    /\ LastResort \in ShootdownList
  BY SignalsAssumption DEF ShootdownList, HandsOff

\* The step puts c in place of the k-th call of t and leaves the others alone.
Replaces(t, k, c) ==
    /\ c \in Call
    /\ call' \in [Threads -> [0 .. MaxDepth -> Call]]
    /\ call'[t][k] = c
    /\ \A u \in Threads, d \in 0 .. MaxDepth :
          u # t \/ d # k => call'[u][d] = call[u][d]

LEMMA CallSet ==
    ASSUME TypeOK, NEW t \in Threads, NEW k \in 0 .. MaxDepth, NEW c \in Call,
           call' = [call EXCEPT ![t][k] = c]
    PROVE  Replaces(t, k, c)
  <1>1. call \in [Threads -> [0 .. MaxDepth -> Call]]
    BY DEF TypeOK
  <1> HIDE DEF Call
  <1>2. QED  BY <1>1, Zenon DEF Replaces

LEMMA TopTyped ==
    ASSUME TypeOK, NEW t \in Threads
    PROVE  /\ Top(t) \in Call
           /\ depth[t] \in 0 .. MaxDepth
  BY DEF TypeOK, Top

\* The moves of a call, as a replacement of the call on top of the stack.
LEMMA GotoFact ==
    ASSUME TypeOK, NEW t \in Threads, NEW p \in Pcs, Goto(t, p)
    PROVE  Replaces(t, depth[t], [Top(t) EXCEPT !.pc = p])
  <1>1. Top(t) \in Call
    BY TopTyped
  <1>2. /\ [Top(t) EXCEPT !.pc = p] \in Call
        /\ call' = [call EXCEPT ![t][depth[t]] = [Top(t) EXCEPT !.pc = p]]
    BY <1>1 DEF Goto, Top, Call
  <1>3. QED  BY <1>2, TopTyped, CallSet

\* A call that is over.
Finished(c) == [c EXCEPT !.pc = "run", !.how = "block", !.set = {}, !.target = NoSignal]

LEMMA DoneFact ==
    ASSUME TypeOK, NEW t \in Threads, Done(t)
    PROVE  Replaces(t, depth[t], Finished(Top(t)))
  <1>1. Top(t) \in Call
    BY TopTyped
  <1>2. /\ Finished(Top(t)) \in Call
        /\ call' = [call EXCEPT ![t][depth[t]] = Finished(Top(t))]
    BY <1>1 DEF Done, Top, Call, Finished, Pcs
  <1>3. QED  BY <1>2, TopTyped, CallSet

\* A call of the mask functions.
Asks(c, how, set) ==
    [c EXCEPT !.pc = "filter", !.how = how, !.set = set, !.target = NoSignal]

LEMMA SigmaskFact ==
    ASSUME TypeOK, NEW t \in Threads, NEW how \in {"block", "setmask"},
           NEW set \in SUBSET Signals, Sigmask(t, how, set)
    PROVE  Replaces(t, depth[t], Asks(Top(t), how, set))
  <1>1. Top(t) \in Call
    BY TopTyped
  <1>2. /\ Asks(Top(t), how, set) \in Call
        /\ call' = [call EXCEPT ![t][depth[t]] = Asks(Top(t), how, set)]
    BY <1>1 DEF Sigmask, Top, Call, Asks, Pcs
  <1>3. QED  BY <1>2, TopTyped, CallSet

\* A call that installs an action of s.
Targets(c, s) == [c EXCEPT !.pc = "filter", !.target = s]

LEMMA WriteFact ==
    ASSUME TypeOK, NEW t \in Threads, NEW s \in Signals, NEW set, WriteKernAct(t, s, set)
    PROVE  Replaces(t, depth[t], Targets(Top(t), s))
  <1>1. Top(t) \in Call
    BY TopTyped
  <1>2. /\ Targets(Top(t), s) \in Call
        /\ call' = [call EXCEPT ![t][depth[t]] = Targets(Top(t), s)]
    BY <1>1 DEF WriteKernAct, Top, Call, Targets, Pcs
  <1>3. QED  BY <1>2, TopTyped, CallSet

\* A call whose mask was filtered.
Filters(c, set) == [c EXCEPT !.pc = "apply", !.set = set]

\* A handler of s on top of the stack.
Enters(t, s) == [Running EXCEPT !.pc = "handler", !.handling = s, !.saved = mask[t],
                         !.torn = Torn(s)]

LEMMA PushFact ==
    ASSUME TypeOK, NEW t \in Threads, NEW s \in Signals, Push(t, s)
    PROVE  /\ depth[t] + 1 \in 0 .. MaxDepth
           /\ Replaces(t, depth[t] + 1, Enters(t, s))
  <1>1. /\ depth[t] \in 0 .. MaxDepth /\ depth[t] < MaxDepth
        /\ mask[t] \in SUBSET (Signals \ HandsOff)
    BY DEF TypeOK, Push
  <1>2. depth[t] + 1 \in 0 .. MaxDepth
    BY <1>1, SignalsAssumption
  <1>3. Enters(t, s) \in Call
    <2>1. Torn(s) \subseteq Signals
      BY DEF TypeOK, Torn
    <2>2. QED  BY <1>1, <2>1 DEF Enters, Running, Call, Pcs
  <1>4. call' = [call EXCEPT ![t][depth[t] + 1] = Enters(t, s)]
    BY DEF Push, Enters
  <1>5. QED  BY <1>2, <1>3, <1>4, CallSet

LEMMA PopFact ==
    ASSUME TypeOK, NEW t \in Threads, Pop(t)
    PROVE  Replaces(t, depth[t], Running)
  <1>1. Running \in Call
    BY DEF Running, Call, Pcs
  <1>2. QED  BY <1>1, TopTyped, CallSet DEF Pop

\* The mask that a call filters is one of signals.
LEMMA AskedFact ==
    ASSUME TypeOK, NEW t \in Threads
    PROVE  Asked(Top(t)) \subseteq Signals
  BY TopTyped DEF TypeOK, Call, Asked

\* What the critical section makes of its call.
LEMMA RemoveFact ==
    ASSUME TypeOK, NEW t \in Threads, RemoveKeptOpen(t)
    PROVE  \/ /\ Top(t).target = NoSignal
              /\ Replaces(t, depth[t], Filters(Top(t), Filtered(Asked(Top(t)))))
              /\ UNCHANGED kern_mask
           \/ /\ Top(t).target \in Signals
              /\ Replaces(t, depth[t], [Top(t) EXCEPT !.pc = "install"])
              /\ kern_mask' = [kern_mask EXCEPT ![Top(t).target] = Filtered(Asked(Top(t)))]
  <1>1. Top(t) \in Call /\ Filtered(Asked(Top(t))) \subseteq Signals
    BY TopTyped, AskedFact DEF Filtered
  <1>2. CASE Top(t).target = NoSignal
    <2> DEFINE f == Filtered(Asked(Top(t)))
    <2>1. call' = [call EXCEPT ![t][depth[t]] = Filters(Top(t), f)] /\ UNCHANGED kern_mask
      BY <1>2 DEF RemoveKeptOpen, Filters, Top
    <2>2. f \subseteq Signals
      BY <1>1
    <2> HIDE DEF f
    <2>3. Filters(Top(t), f) \in Call
      BY <1>1, <2>2 DEF Filters, Call, Pcs
    <2>4. Replaces(t, depth[t], Filters(Top(t), f)) /\ UNCHANGED kern_mask
      BY <2>1, <2>3, TopTyped, CallSet
    <2>5. QED  BY <1>2, <2>4 DEF f
  <1>3. CASE Top(t).target # NoSignal
    <2>1. Top(t).target \in Signals
      BY <1>1, <1>3 DEF Call
    <2>2. /\ Goto(t, "install")
          /\ kern_mask' = [kern_mask EXCEPT ![Top(t).target] = Filtered(Asked(Top(t)))]
      BY <1>3 DEF RemoveKeptOpen
    <2>3. QED  BY <2>1, <2>2, GotoFact DEF Pcs
  <1>4. QED  BY <1>2, <1>3

-----------------------------------------------------------------------------
(* Types, and the reserved signal                                          *)

LEMMA InitSInv == Init => SInv
  <1> SUFFICES ASSUME Init PROVE SInv
    OBVIOUS
  <1>1. Running \in Call
    BY DEF Running, Call, Pcs
  <1>2. call \in [Threads -> [0 .. MaxDepth -> Call]]
    BY <1>1 DEF Init
  <1>3. TypeOK
    <2>1. /\ keep_open \subseteq Signals
          /\ shootdown_signal \in Signals \cup {NoSignal}
          /\ forced \in BOOLEAN
      BY SignalsAssumption DEF Init, EnvValid
    <2>2. /\ 0 \in 0 .. MaxDepth /\ calls \in 0 .. MaxCalls
          /\ mask \in [Threads -> SUBSET (Signals \ HandsOff)]
      BY SignalsAssumption DEF Init
    <2>3. /\ appl_act \in [Signals -> {"default", "ignore", "handler"}]
          /\ kern_mask \in [Signals -> SUBSET Signals]
          /\ installed \in [Signals -> SUBSET Signals]
      BY DEF Init
    <2>4. QED  BY <1>2, <2>1, <2>2, <2>3 DEF Init, TypeOK
  <1>4. Reserved
    BY SignalsAssumption DEF Init, Reserved, EnvValid
  <1>5. QED  BY <1>3, <1>4 DEF SInv

\* Steps that leave the marks and the choice of the signal alone.
LEMMA SInvKept ==
    ASSUME SInv, TypeOK', keep_open \subseteq keep_open',
           UNCHANGED <<blocked, shootdown_signal, forced>>
    PROVE  SInv'
  BY DEF SInv, Reserved, HandsOff

\* A handler returns.
LEMMA PopSInv ==
    ASSUME SInv, NEW t \in Threads, Pop(t),
           UNCHANGED <<marks, actions, shootdown_signal, signal_lock, exit, history, calls>>
    PROVE  SInv'
  <1>1. TypeOK
    BY DEF SInv
  <1>2. call' \in [Threads -> [0 .. MaxDepth -> Call]]
    BY <1>1, PopFact DEF Replaces
  <1>3. Top(t).saved \in SUBSET (Signals \ HandsOff)
    BY <1>1, TopTyped DEF Call
  <1>4. mask' \in [Threads -> SUBSET (Signals \ HandsOff)]
    BY <1>1, <1>3 DEF Pop, TypeOK
  <1>5. depth' \in [Threads -> 0 .. MaxDepth]
    <2>1. depth[t] \in 0 .. MaxDepth /\ depth[t] > 0 /\ MaxDepth \in Nat
      BY <1>1, SignalsAssumption DEF TypeOK, Pop
    <2>2. depth[t] - 1 \in 0 .. MaxDepth
      BY <2>1
    <2>3. QED  BY <1>1, <2>2 DEF TypeOK, Pop
  <1>6. TypeOK'
    BY <1>1, <1>2, <1>4, <1>5 DEF TypeOK, marks, actions, exit, history
  <1>7. QED  BY <1>6, SInvKept DEF marks, history

\* A step that only moves on the call on top of the stack, and the exit with it.
LEMMA MoveSInv ==
    ASSUME SInv, NEW t \in Threads, NEW p \in Pcs, Goto(t, p),
           ending' \in Threads \cup {NoThread}, shooting' \in BOOLEAN,
           signal_lock' \in Threads \cup {NoThread},
           UNCHANGED <<marks, actions, shootdown_signal, mask, depth, reached,
                       history, calls>>
    PROVE  SInv'
  <1>1. TypeOK
    BY DEF SInv
  <1>2. call' \in [Threads -> [0 .. MaxDepth -> Call]]
    BY <1>1, GotoFact DEF Replaces
  <1>3. TypeOK'
    BY <1>1, <1>2 DEF TypeOK, marks, actions, history
  <1>4. QED  BY <1>3, SInvKept DEF marks, history

LEMMA EndSInv ==
    ASSUME SInv, NEW t \in Threads, EndProcess(t)
    PROVE  SInv'
  <1>1. TypeOK
    BY DEF SInv
  <1>2. PICK p \in Pcs : Goto(t, p)
    BY DEF EndProcess, Pcs
  <1>3. ending' \in Threads \cup {NoThread} /\ shooting' \in BOOLEAN
    BY <1>1 DEF EndProcess, TypeOK
  <1>4. signal_lock' \in Threads \cup {NoThread}
    BY <1>1 DEF EndProcess, TypeOK
  <1>5. QED  BY <1>2, <1>3, <1>4, MoveSInv DEF EndProcess

\* The bound on calls.
LEMMA CallsFact ==
    ASSUME TypeOK, NEW t, Calls(t)
    PROVE  calls' \in 0 .. MaxCalls
  BY SignalsAssumption DEF TypeOK, Calls

LEMMA WroteFact ==
    ASSUME NEW t, NEW s, NEW set, WriteKernAct(t, s, set)
    PROVE  rewritten' \in BOOLEAN
  BY DEF WriteKernAct

\* The calls of application and client, up to the lock.
LEMMA CallsSInv ==
    ASSUME SInv, NEW t \in Threads, Application(t)
    PROVE  SInv'
  <1>1. TypeOK
    BY DEF SInv
  <1>2. ASSUME NEW set \in Requests, Unblock(t, set)  PROVE SInv'
    <2>1. TypeOK'
      BY <1>1, <1>2, CallsFact DEF Unblock, TypeOK, marks, actions, exit, history
    <2>2. QED  BY <1>2, <2>1, SInvKept DEF Unblock, marks, history
  <1>3. ASSUME NEW set \in Requests, NEW how \in {"block", "setmask"},
               Sigmask(t, how, set)
        PROVE  SInv'
    <2>1. call' \in [Threads -> [0 .. MaxDepth -> Call]]
      BY <1>1, <1>3, SignalsAssumption, SigmaskFact DEF Replaces
    <2>2. TypeOK'
      BY <1>1, <1>3, <2>1, CallsFact DEF Sigmask, TypeOK, marks, actions, exit, history
    <2>3. QED  BY <1>3, <2>2, SInvKept DEF Sigmask, marks, history
  <1>4. ASSUME NEW s \in Handled, NEW set \in Requests, NEW act \in Acts,
               monitor_appl_sigaction(t, s, act, set)
        PROVE  SInv'
    <2>1. s \in Signals /\ set \in SUBSET Signals /\ act \in {"default", "ignore", "handler"}
      BY SignalsAssumption
    <2>2. WriteKernAct(t, s, set)
      BY <1>4 DEF monitor_appl_sigaction
    <2>3. call' \in [Threads -> [0 .. MaxDepth -> Call]]
      BY <1>1, <2>1, <2>2, WriteFact DEF Replaces
    <2>4. kern_mask' \in [Signals -> SUBSET Signals]
      BY <1>1, <2>1, <2>2 DEF WriteKernAct, TypeOK
    <2>5. TypeOK'
      BY <1>1, <1>4, <2>1, <2>2, <2>3, <2>4, CallsFact, WroteFact
      DEF monitor_appl_sigaction, TypeOK, exit, history
    <2>6. QED  BY <1>4, <2>5, SInvKept DEF monitor_appl_sigaction, history
  <1>5. ASSUME NEW s \in Handled, NEW set \in Requests,
               monitor_sigaction_act(t, s, set)
        PROVE  SInv'
    <2>1. s \in Signals /\ set \in SUBSET Signals
      BY SignalsAssumption
    <2>2. WriteKernAct(t, s, set)
      BY <1>5 DEF monitor_sigaction_act
    <2>3. call' \in [Threads -> [0 .. MaxDepth -> Call]]
      BY <1>1, <2>1, <2>2, WriteFact DEF Replaces
    <2>4. kern_mask' \in [Signals -> SUBSET Signals]
      BY <1>1, <2>1, <2>2 DEF WriteKernAct, TypeOK
    <2>5. TypeOK'
      BY <1>1, <1>5, <2>1, <2>2, <2>3, <2>4, CallsFact, WroteFact
      DEF monitor_sigaction_act, TypeOK, exit, history
    <2>6. QED  BY <1>5, <2>5, SInvKept DEF monitor_sigaction_act, history
  <1>6. ASSUME NEW s \in Handled, monitor_sigaction(t, s)  PROVE SInv'
    <2>1. TypeOK'
      BY <1>1, <1>6, SignalsAssumption, CallsFact DEF monitor_sigaction, TypeOK, actions, exit, history
    <2>2. QED  BY <1>6, <2>1, SInvKept DEF monitor_sigaction, history
  <1>7. ASSUME NEW s \in Arriving, Deliver(t, s)  PROVE SInv'
    <2>1. s \in Signals /\ Push(t, s)
      BY <1>7, SignalsAssumption DEF Deliver
    <2>2. /\ depth[t] + 1 \in 0 .. MaxDepth
          /\ call' \in [Threads -> [0 .. MaxDepth -> Call]]
      BY <1>1, <2>1, PushFact DEF Replaces
    <2>3. mask' \in [Threads -> SUBSET (Signals \ HandsOff)]
      BY <1>1, <2>1 DEF Push, TypeOK
    <2>4. depth' \in [Threads -> 0 .. MaxDepth]
      BY <1>1, <2>1, <2>2 DEF Push, TypeOK
    <2>5. TypeOK'
      BY <1>1, <1>7, <2>2, <2>3, <2>4 DEF Deliver, TypeOK, marks, actions, exit, history
    <2>6. QED  BY <1>7, <2>5, SInvKept DEF Deliver, marks, history
  <1>8. ASSUME Return(t)  PROVE SInv'
    BY <1>8, PopSInv DEF Return
  <1>9. ASSUME Exit(t)  PROVE SInv'
    BY <1>9, EndSInv DEF Exit
  <1>10. ASSUME Reach(t)  PROVE SInv'
    <2>1. TypeOK'
      BY <1>1, <1>10 DEF Reach, TypeOK, marks, actions, history
    <2>2. QED  BY <1>10, <2>1, SInvKept DEF Reach, marks, history
  <1>11. QED
    BY <1>2, <1>3, <1>4, <1>5, <1>6, <1>7, <1>8, <1>9, <1>10 DEF Application

\* The critical section reserves a signal that no mask covered ...
LEMMA ReserveSInv ==
    ASSUME SInv, NEW t \in Threads, ReserveSignal(t)
    PROVE  SInv'
  <1>1. TypeOK
    BY DEF SInv
  <1> DEFINE set == Asked(Top(t))
  <1>2. /\ shootdown_signal' = IF Covers(set) THEN First(Available) ELSE shootdown_signal
        /\ forced' = (forced \/ Covers(set))
        /\ keep_open' = KeptOpen(set)
    BY DEF ReserveSignal
  <1> HIDE DEF set
  <1>3. Available \subseteq Signals \ HandsOff
    BY ShootdownListFact DEF Available
  <1>4. Covers(set) => First(Available) \in Available
    BY <1>3, FirstFact DEF Covers
  <1>5. /\ keep_open' \subseteq Signals
        /\ shootdown_signal' \in Signals \cup {NoSignal}
        /\ forced' \in BOOLEAN
    BY <1>1, <1>2, <1>3, <1>4 DEF TypeOK, KeptOpen
  <1>6. call' \in [Threads -> [0 .. MaxDepth -> Call]]
    BY <1>1, GotoFact DEF ReserveSignal, Replaces, Pcs
  <1>7. TypeOK'
    BY <1>1, <1>5, <1>6 DEF ReserveSignal, TypeOK, actions, exit
  <1>8. Reserved'
    <2>1. UNCHANGED blocked
      BY DEF ReserveSignal
    <2>2. CASE Covers(set)
      BY <1>2, <1>3, <1>4, <2>1, <2>2 DEF Reserved, KeptOpen, Available
    <2>3. CASE ~Covers(set)
      BY <1>2, <2>1, <2>3 DEF SInv, Reserved, KeptOpen
    <2>4. QED  BY <2>2, <2>3
  <1>9. QED  BY <1>7, <1>8 DEF SInv

\* ... and marks what is not kept open.
LEMMA RemoveSInv ==
    ASSUME SInv, NEW t \in Threads, RemoveKeptOpen(t)
    PROVE  SInv'
  <1>1. TypeOK
    BY DEF SInv
  <1> DEFINE set == Filtered(Asked(Top(t)))
  <1>2. set \subseteq Signals \ (keep_open \ HandsOff)
    BY <1>1, AskedFact DEF Filtered
  <1>3. blocked' = blocked \cup (set \ HandsOff)
    BY DEF RemoveKeptOpen
  <1>4. call' \in [Threads -> [0 .. MaxDepth -> Call]]
    BY <1>1, RemoveFact DEF Replaces
  <1>5. kern_mask' \in [Signals -> SUBSET Signals]
    <2>1. \/ UNCHANGED kern_mask
          \/ kern_mask' = [kern_mask EXCEPT ![Top(t).target] = set]
      BY <1>1, RemoveFact
    <2>2. set \in SUBSET Signals
      BY <1>2
    <2> HIDE DEF set
    <2>3. QED  BY <1>1, <2>1, <2>2 DEF TypeOK
  <1> HIDE DEF set
  <1>6. TypeOK'
    BY <1>1, <1>2, <1>3, <1>4, <1>5
    DEF RemoveKeptOpen, TypeOK, Release, exit, history
  <1>7. Reserved'
    BY <1>2, <1>3 DEF RemoveKeptOpen, SInv, Reserved, history
  <1>8. QED  BY <1>6, <1>7 DEF SInv

\* At exit some signal is chosen.
LEMMA PickSignal ==
    ASSUME NEW t \in Threads, PickShootdown(t)
    PROVE  shootdown_signal' \in Signals
  <1>1. /\ Available \subseteq Signals \ HandsOff
        /\ Unused \subseteq Available /\ NotClients \subseteq Available
    BY ShootdownListFact DEF Available, Unused, NotClients
  <1>2. /\ Unused # {} => First(Unused) \in Signals
        /\ NotClients # {} => First(NotClients) \in Signals
        /\ Available # {} => First(Available) \in Signals
    <2>1. /\ Unused \in SUBSET Signals /\ NotClients \in SUBSET Signals
          /\ Available \in SUBSET Signals
      BY <1>1
    <2>2. QED  BY <2>1, FirstFact
  <1>3. shootdown_signal' \in Signals
    <2>1. LastResort \in Signals
      BY ShootdownListFact
    <2>2. \/ Unused # {} /\ shootdown_signal' = First(Unused)
          \/ NotClients # {} /\ shootdown_signal' = First(NotClients)
          \/ Available # {} /\ shootdown_signal' = First(Available)
          \/ shootdown_signal' = LastResort
      BY <1>1 DEF PickShootdown
    <2>3. QED  BY <1>2, <2>1, <2>2
  <1>4. QED  BY <1>3

LEMMA PickSInv ==
    ASSUME SInv, NEW t \in Threads, PickShootdown(t)
    PROVE  SInv'
  <1>1. TypeOK
    BY DEF SInv
  <1>4. shootdown_signal' \in Signals
    BY PickSignal
  <1>5. call' \in [Threads -> [0 .. MaxDepth -> Call]]
    BY <1>1, GotoFact DEF PickShootdown, Replaces, Pcs
  <1>6. forced' \in BOOLEAN
    BY DEF PickShootdown
  <1>7. TypeOK'
    BY <1>1, <1>4, <1>5, <1>6 DEF PickShootdown, TypeOK, Release, marks, actions, exit
  <1>8. Reserved'
    BY DEF PickShootdown, SInv, Reserved, marks
  <1>9. QED  BY <1>7, <1>8 DEF SInv

\* The steps inside monitor.
LEMMA MonitorSInv ==
    ASSUME SInv, NEW t \in Threads, Monitor(t) \/ GetLock(t)
    PROVE  SInv'
  <1>1. TypeOK
    BY DEF SInv
  <1>2. ASSUME NEW p \in {"filter", "pick"}, NEW q \in {"locked", "picking"},
               Lock(t, p, q)
        PROVE  SInv'
    BY <1>1, <1>2, MoveSInv DEF Lock, TypeOK, Pcs, exit
  <1>3. ASSUME ApplyMask(t)  PROVE SInv'
    <2>1. call' \in [Threads -> [0 .. MaxDepth -> Call]]
      BY <1>1, <1>3, DoneFact DEF ApplyMask, Replaces
    <2>2. Top(t).set \subseteq Signals
      BY <1>1, TopTyped DEF Call
    <2>3. mask' \in [Threads -> SUBSET (Signals \ HandsOff)]
      BY <1>1, <1>3, <2>2 DEF ApplyMask, TypeOK
    <2>4. TypeOK'
      BY <1>1, <1>3, <2>1, <2>3 DEF ApplyMask, TypeOK, marks, actions, exit, history
    <2>5. QED  BY <1>3, <2>4, SInvKept DEF ApplyMask, marks, history
  <1>4. ASSUME InstallAction(t)  PROVE SInv'
    <2>1. call' \in [Threads -> [0 .. MaxDepth -> Call]]
      BY <1>1, <1>4, DoneFact DEF InstallAction, Replaces
    <2>2. installed' \in [Signals -> SUBSET Signals]
      BY <1>1, <1>4 DEF InstallAction, TypeOK
    <2>3. TypeOK'
      BY <1>1, <1>4, <2>1, <2>2 DEF InstallAction, TypeOK, marks, exit, history
    <2>4. QED  BY <1>4, <2>3, SInvKept DEF InstallAction, marks, history
  <1>5. ASSUME HandlerReturns(t)  PROVE SInv'
    BY <1>5, PopSInv DEF HandlerReturns
  <1>6. ASSUME HandlerRuns(t)  PROVE SInv'
    BY <1>1, <1>6, MoveSInv DEF HandlerRuns, TypeOK, Pcs, exit
  <1>7. ASSUME HandlerEnds(t)  PROVE SInv'
    BY <1>7, EndSInv DEF HandlerEnds
  <1>8. ASSUME ShootdownTest(t)  PROVE SInv'
    <2>1. PICK p \in {"shoot", "pick"} : Goto(t, p)
      BY <1>8 DEF ShootdownTest
    <2>2. QED  BY <1>1, <1>8, <2>1, MoveSInv DEF ShootdownTest, TypeOK, Pcs, exit
  <1>9. ASSUME Shoot(t)  PROVE SInv'
    BY <1>1, <1>9, MoveSInv DEF Shoot, TypeOK, Pcs
  <1>10. ASSUME ProcessEnds(t)  PROVE SInv'
    <2>1. call' \in [Threads -> [0 .. MaxDepth -> Call]]
      BY <1>1, <1>10, GotoFact DEF ProcessEnds, Replaces, Pcs
    <2>2. mask' \in [Threads -> SUBSET (Signals \ HandsOff)]
      BY <1>1, <1>10 DEF ProcessEnds, TypeOK
    <2>3. TypeOK'
      BY <1>1, <1>10, <2>1, <2>2 DEF ProcessEnds, TypeOK, marks, actions, exit, history
    <2>4. QED  BY <1>10, <2>3, SInvKept DEF ProcessEnds, marks, history
  <1>11. QED
    BY <1>2, <1>3, <1>4, <1>5, <1>6, <1>7, <1>8, <1>9, <1>10, ReserveSInv, RemoveSInv, PickSInv
    DEF Monitor, GetLock, LockFilter, LockPick

LEMMA StepSInv == SInv /\ [Next]_vars => SInv'
  <1> SUFFICES ASSUME SInv, [Next]_vars PROVE SInv'
    OBVIOUS
  <1>1. CASE Next
    BY <1>1, MonitorSInv, CallsSInv DEF Next
  <1>2. CASE UNCHANGED vars
    <2>1. TypeOK'
      BY <1>2 DEF SInv, TypeOK, vars, marks, actions, exit, history
    <2>2. QED  BY <1>2, <2>1, SInvKept DEF vars, marks, history, history
  <1>3. QED  BY <1>1, <1>2

\* Whatever actions and masks threads, handlers, client and application ask for,
\* the tables, masks and stacks of the signal layer keep their types.
THEOREM SignalsTypeCorrect == Spec => []TypeOK
  <1>1. SInv => TypeOK
    BY DEF SInv
  <1>2. QED  BY <1>1, InitSInv, StepSInv, PTL DEF Spec

-----------------------------------------------------------------------------
(* A signal is left                                                        *)

Critical == {"locked", "marking", "picking"}

\* One call at most is inside the critical sections, in the thread with the lock.
OneHolder ==
    /\ \A u \in Threads, d \in 0 .. MaxDepth :
          call[u][d].pc \in Critical => signal_lock = u
    /\ \A u \in Threads, d, e \in 0 .. MaxDepth :
          call[u][d].pc \in Critical /\ call[u][e].pc \in Critical => d = e

\* The mask that call c filters if kern_act's masks are km.
AskedIn(c, km) == IF c.target = NoSignal THEN c.set ELSE km[c.target]

\* A call that is about to mark has seen that its mask leaves a signal.
Examined ==
    \A u \in Threads : \A d \in 0 .. depth[u] :
        call[u][d].pc = "marking" =>
            \/ rewritten \/ shootdown_signal # NoSignal
            \/ ~ (Available \subseteq AskedIn(call[u][d], kern_mask))

\* The inductive invariant.
LInv == SInv /\ OneHolder /\ Examined /\ SignalLeft

LEMMA InitLInv == Init => LInv
  <1> SUFFICES ASSUME Init PROVE LInv
    OBVIOUS
  <1>1. \A u \in Threads, d \in 0 .. MaxDepth : call[u][d].pc = "run"
    BY DEF Init, Running
  <1>2. \A u \in Threads : depth[u] = 0 /\ 0 \in 0 .. MaxDepth
    BY SignalsAssumption DEF Init
  <1>3. OneHolder
    BY <1>1 DEF OneHolder, Critical
  <1>4. Examined
    BY <1>1, <1>2 DEF Examined
  <1>5. SignalLeft
    BY ShootdownListFact DEF Init, SignalLeft, Available
  <1>6. QED  BY <1>3, <1>4, <1>5, InitSInv DEF LInv

\* What a marking call will filter stays what it examined, or was rewritten.
AskedKept ==
    \A u \in Threads : \A d \in 0 .. depth[u] :
        call[u][d].pc = "marking" =>
            \/ rewritten'
            \/ call[u][d].target \in Signals =>
                  kern_mask'[call[u][d].target] = kern_mask[call[u][d].target]

\* A step that leaves one call outside the critical sections.
LEMMA QuietLInv ==
    ASSUME LInv, SInv', NEW t \in Threads, NEW k \in 0 .. MaxDepth, NEW c,
           Replaces(t, k, c), c.pc \notin Critical,
           UNCHANGED <<blocked, shootdown_signal, signal_lock>>,
           rewritten => rewritten', AskedKept,
           \A u \in Threads : \A d \in 0 .. depth'[u] :
               d \in 0 .. depth[u] \/ (u = t /\ d = k)
    PROVE  LInv'
  <1>1. TypeOK /\ TypeOK' /\ OneHolder /\ Examined /\ SignalLeft
    BY DEF LInv, SInv
  <1>2. OneHolder'
    <2>1. ASSUME NEW u \in Threads, NEW d \in 0 .. MaxDepth, call'[u][d].pc \in Critical
          PROVE  call'[u][d] = call[u][d] /\ call[u][d].pc \in Critical
      BY <2>1 DEF Replaces
    <2>2. QED  BY <1>1, <2>1 DEF OneHolder
  <1>3. Available' = Available
    BY DEF Available, ShootdownList, HandsOff
  <1>4. SignalLeft'
    BY <1>1, <1>3 DEF SignalLeft
  <1>5. Examined'
    <2> SUFFICES ASSUME NEW u \in Threads, NEW d \in 0 .. depth'[u],
                        call'[u][d].pc = "marking", ~rewritten',
                        shootdown_signal = NoSignal
                 PROVE  ~ (Available \subseteq AskedIn(call'[u][d], kern_mask'))
      BY <1>3 DEF Examined
    <2>1. d \in 0 .. MaxDepth /\ depth[u] \in 0 .. MaxDepth
      <3>1. depth'[u] \in 0 .. MaxDepth /\ depth[u] \in 0 .. MaxDepth
        BY <1>1 DEF TypeOK
      <3>2. QED  BY <3>1, SignalsAssumption
    <2>2. ~ (u = t /\ d = k)
      BY <2>1 DEF Replaces, Critical
    <2>2a. call[u][d].pc = "marking" /\ d \in 0 .. depth[u]
      BY <2>1, <2>2 DEF Replaces
    <2>3. call'[u][d] = call[u][d] /\ d \in 0 .. depth[u]
      BY <2>1, <2>2 DEF Replaces
    <2>4. call[u][d].target \in Signals \cup {NoSignal}
      <3>0. TypeOK
        BY <1>1
      <3>1. call[u][d] \in Call
        BY <2>1, <3>0 DEF TypeOK
      <3>2. QED  BY <3>1 DEF Call
    <2>5. ~ (Available \subseteq AskedIn(call[u][d], kern_mask))
      BY <1>1, <2>3 DEF Examined
    <2>6. AskedIn(call'[u][d], kern_mask') = AskedIn(call[u][d], kern_mask)
      BY <2>2a, <2>3, <2>4 DEF AskedKept, AskedIn
    <2>7. QED  BY <2>5, <2>6
  <1>6. QED  BY <1>2, <1>4, <1>5 DEF LInv

\* Nothing happens to calls and masks.
LEMMA StayLInv ==
    ASSUME LInv, SInv',
           UNCHANGED <<blocked, shootdown_signal, signal_lock, kern_mask, depth, call,
                       rewritten>>
    PROVE  LInv'
  <1>1. Available' = Available
    BY DEF Available, ShootdownList, HandsOff
  <1>2. OneHolder' /\ SignalLeft'
    BY <1>1 DEF LInv, OneHolder, SignalLeft
  <1>3. Examined'
    BY <1>1 DEF LInv, Examined
  <1>4. QED  BY <1>2, <1>3 DEF LInv

\* A step of the call on top of the stack that leaves kern_act alone.
LEMMA TopLInv ==
    ASSUME LInv, SInv', NEW t \in Threads, NEW c, Replaces(t, depth[t], c),
           c.pc \notin Critical,
           UNCHANGED <<blocked, shootdown_signal, signal_lock, kern_mask, depth, rewritten>>
    PROVE  LInv'
  <1>1. depth[t] \in 0 .. MaxDepth
    BY TopTyped DEF LInv, SInv
  <1>2. AskedKept
    BY DEF AskedKept
  <1>3. QED  BY <1>1, <1>2, QuietLInv

LEMMA MoveLInv ==
    ASSUME LInv, SInv', NEW t \in Threads, NEW p \in Pcs \ Critical, Goto(t, p),
           UNCHANGED <<blocked, shootdown_signal, signal_lock, kern_mask, depth, rewritten>>
    PROVE  LInv'
  <1>1. Replaces(t, depth[t], [Top(t) EXCEPT !.pc = p]) /\ Top(t) \in Call
    BY GotoFact, TopTyped DEF LInv, SInv
  <1>2. [Top(t) EXCEPT !.pc = p].pc \notin Critical
    BY <1>1 DEF Call
  <1>3. QED  BY <1>1, <1>2, TopLInv

LEMMA EndLInv ==
    ASSUME LInv, SInv', NEW t \in Threads, EndProcess(t)
    PROVE  LInv'
  <1>1. PICK p \in {"end", "waits"} : Goto(t, p)
    BY DEF EndProcess
  <1>2. QED  BY <1>1, MoveLInv DEF EndProcess, Pcs, Critical, marks, actions, history

LEMMA PopLInv ==
    ASSUME LInv, SInv', NEW t \in Threads, Pop(t),
           UNCHANGED <<blocked, shootdown_signal, signal_lock, kern_mask, rewritten>>
    PROVE  LInv'
  <1>1. TypeOK /\ depth[t] \in 0 .. MaxDepth
    BY TopTyped DEF LInv, SInv
  <1>2. Replaces(t, depth[t], Running) /\ Running.pc \notin Critical
    BY <1>1, PopFact DEF Running, Critical
  <1>3. AskedKept
    BY DEF AskedKept
  <1>4. ASSUME NEW u \in Threads, NEW d \in 0 .. depth'[u]
        PROVE  d \in 0 .. depth[u]
    <2>1. depth[u] \in 0 .. MaxDepth /\ depth' = [depth EXCEPT ![t] = @ - 1]
      BY <1>1 DEF TypeOK, Pop
    <2>2. depth'[u] = depth[u] \/ depth'[u] = depth[u] - 1
      BY <1>1, <2>1 DEF TypeOK
    <2>3. QED  BY <2>1, <2>2, SignalsAssumption
  <1>5. QED  BY <1>1, <1>2, <1>3, <1>4, QuietLInv

LEMMA PushLInv ==
    ASSUME LInv, SInv', NEW t \in Threads, NEW s \in Signals, Push(t, s),
           UNCHANGED <<blocked, shootdown_signal, signal_lock, kern_mask, rewritten>>
    PROVE  LInv'
  <1>1. TypeOK /\ depth[t] \in 0 .. MaxDepth
    BY TopTyped DEF LInv, SInv
  <1>2. /\ depth[t] + 1 \in 0 .. MaxDepth
        /\ Replaces(t, depth[t] + 1, Enters(t, s)) /\ Enters(t, s).pc \notin Critical
    BY <1>1, PushFact DEF Enters, Running, Critical
  <1>3. AskedKept
    BY DEF AskedKept
  <1>4. ASSUME NEW u \in Threads, NEW d \in 0 .. depth'[u]
        PROVE  d \in 0 .. depth[u] \/ (u = t /\ d = depth[t] + 1)
    <2>1. depth[u] \in 0 .. MaxDepth /\ depth' = [depth EXCEPT ![t] = @ + 1]
      BY <1>1 DEF TypeOK, Push
    <2>2. depth'[u] = depth[u] \/ (u = t /\ depth'[u] = depth[u] + 1)
      BY <1>1, <2>1 DEF TypeOK
    <2>3. QED  BY <2>1, <2>2, SignalsAssumption
  <1>5. QED  BY <1>2, <1>3, <1>4, QuietLInv

\* A call that writes kern_act rewrites what another may have examined.
LEMMA WriteLInv ==
    ASSUME LInv, SInv', NEW t \in Threads, NEW s \in Signals, NEW set,
           WriteKernAct(t, s, set),
           UNCHANGED <<blocked, shootdown_signal, signal_lock, depth>>
    PROVE  LInv'
  <1>1. TypeOK /\ depth[t] \in 0 .. MaxDepth /\ Top(t) \in Call
    BY TopTyped DEF LInv, SInv
  <1>2. /\ Replaces(t, depth[t], Targets(Top(t), s))
        /\ Targets(Top(t), s).pc \notin Critical
    BY <1>1, WriteFact DEF Targets, Call, Critical
  <1>3. AskedKept
    <2> SUFFICES ASSUME NEW u \in Threads, NEW d \in 0 .. depth[u],
                        call[u][d].pc = "marking", ~rewritten'
                 PROVE  kern_mask'[call[u][d].target] = kern_mask[call[u][d].target]
      BY DEF AskedKept
    <2>1. call[u][d].target # s
      BY DEF WriteKernAct, CallAt
    <2>2. QED  BY <1>1, <2>1 DEF WriteKernAct, TypeOK
  <1>4. QED  BY <1>1, <1>2, <1>3, QuietLInv DEF WriteKernAct

\* The lock is taken when no call is in the critical sections.
LEMMA LockLInv ==
    ASSUME LInv, SInv', NEW t \in Threads, NEW p, NEW q \in {"locked", "picking"},
           Lock(t, p, q)
    PROVE  LInv'
  <1>1. TypeOK /\ OneHolder /\ Examined /\ depth[t] \in 0 .. MaxDepth /\ Top(t) \in Call
    BY TopTyped DEF LInv, SInv
  <1>2. /\ signal_lock = NoThread /\ signal_lock' = t
        /\ Replaces(t, depth[t], [Top(t) EXCEPT !.pc = q])
    BY <1>1, GotoFact DEF Lock, Pcs
  <1>3. \A u \in Threads, d \in 0 .. MaxDepth : call[u][d].pc \notin Critical
    BY <1>1, <1>2, SignalsAssumption DEF OneHolder
  <1>4. \A u \in Threads, d \in 0 .. MaxDepth :
            call'[u][d].pc \in Critical => u = t /\ d = depth[t]
    BY <1>2, <1>3 DEF Replaces
  <1>5. OneHolder'
    BY <1>2, <1>4 DEF OneHolder
  <1>6. Examined'
    <2> SUFFICES ASSUME NEW u \in Threads, NEW d \in 0 .. depth[u],
                        call'[u][d].pc = "marking"
                 PROVE  FALSE
      BY DEF Examined, Lock
    <2>1. d \in 0 .. MaxDepth
      BY <1>1, SignalsAssumption DEF TypeOK
    <2>2. u = t /\ d = depth[t]
      BY <1>4, <2>1 DEF Critical
    <2>3. call'[t][depth[t]].pc = q
      BY <1>1, <1>2 DEF Replaces, Call
    <2>4. QED  BY <2>2, <2>3
  <1>7. SignalLeft'
    BY DEF Lock, LInv, SignalLeft, Available, ShootdownList, HandsOff,
           marks, history
  <1>8. QED  BY <1>5, <1>6, <1>7 DEF LInv

\* The call in the critical section is the only one there.
LEMMA HolderFact ==
    ASSUME LInv, NEW t \in Threads, Top(t).pc \in Critical,
           NEW u \in Threads, NEW d \in 0 .. MaxDepth, call[u][d].pc \in Critical
    PROVE  u = t /\ d = depth[t]
  <1>1. depth[t] \in 0 .. MaxDepth /\ OneHolder
    BY TopTyped DEF LInv, SInv
  <1>2. QED  BY <1>1 DEF OneHolder, Top

\* It reserves a signal, or its mask leaves one.
LEMMA ReserveLInv ==
    ASSUME LInv, SInv', NEW t \in Threads, ReserveSignal(t)
    PROVE  LInv'
  <1>1. TypeOK /\ OneHolder /\ SignalLeft /\ depth[t] \in 0 .. MaxDepth /\ Top(t) \in Call
    BY TopTyped DEF LInv, SInv
  <1> DEFINE c == [Top(t) EXCEPT !.pc = "marking"]
             set == Asked(Top(t))
  <1>2. /\ Replaces(t, depth[t], c) /\ Top(t).pc \in Critical
        /\ c.pc = "marking" /\ c.set = Top(t).set /\ c.target = Top(t).target
        /\ UNCHANGED <<signal_lock, depth, kern_mask, blocked, rewritten>>
    BY <1>1, GotoFact DEF ReserveSignal, At, Pcs, Critical, Call, actions
  <1>3. AskedIn(c, kern_mask') = set
    BY <1>2 DEF Asked, AskedIn
  <1>4. \A u \in Threads, d \in 0 .. MaxDepth :
            call'[u][d].pc \in Critical => u = t /\ d = depth[t]
    BY <1>2, HolderFact DEF Replaces
  <1>5. shootdown_signal' = IF Covers(set) THEN First(Available) ELSE shootdown_signal
    BY DEF ReserveSignal
  <1>6. call'[t][depth[t]] = c
    BY <1>2 DEF Replaces
  <1> HIDE DEF set, c
  <1>7. OneHolder'
    BY <1>1, <1>2, <1>4 DEF OneHolder, Top
  <1>8. Available' = Available
    BY <1>2 DEF Available, ShootdownList, HandsOff
  <1>9. Covers(set) => shootdown_signal' # NoSignal
    <2>1. Available \in SUBSET Signals
      BY ShootdownListFact DEF Available
    <2>2. Covers(set) => First(Available) \in Signals
      BY <2>1, FirstFact DEF Covers
    <2>3. QED  BY <1>5, <2>2, SignalsAssumption
  <1>10. SignalLeft'
    BY <1>1, <1>2, <1>5, <1>8, <1>9 DEF SignalLeft
  <1>11. Examined'
    <2> SUFFICES ASSUME NEW u \in Threads, NEW d \in 0 .. depth[u],
                        call'[u][d].pc = "marking", ~rewritten,
                        shootdown_signal' = NoSignal
                 PROVE  ~ (Available \subseteq AskedIn(call'[u][d], kern_mask'))
      BY <1>2, <1>8 DEF Examined
    <2>1. d \in 0 .. MaxDepth
      BY <1>1, SignalsAssumption DEF TypeOK
    <2>2. call'[u][d] = c
      BY <1>4, <1>6, <2>1 DEF Critical
    <2>3. ~ (Available \subseteq set)
      BY <1>1, <1>5, <1>9 DEF Covers, SignalLeft
    <2>4. QED  BY <1>3, <2>2, <2>3
  <1>12. QED  BY <1>7, <1>10, <1>11 DEF LInv

\* A call that leaves the critical sections.
LEMMA LeaveLInv ==
    ASSUME LInv, SInv', NEW t \in Threads, NEW c, Replaces(t, depth[t], c),
           Top(t).pc \in Critical, c.pc \notin Critical, UNCHANGED depth, SignalLeft'
    PROVE  LInv'
  <1>1. TypeOK
    BY DEF LInv, SInv
  <1>2. \A u \in Threads, d \in 0 .. MaxDepth : call'[u][d].pc \notin Critical
    BY HolderFact DEF Replaces
  <1>3. OneHolder'
    BY <1>2 DEF OneHolder
  <1>4. Examined'
    <2>1. \A u \in Threads : \A d \in 0 .. depth[u] : d \in 0 .. MaxDepth
      BY <1>1, SignalsAssumption DEF TypeOK
    <2>2. QED  BY <1>2, <2>1 DEF Examined, Critical
  <1>5. QED  BY <1>3, <1>4 DEF LInv

LEMMA RemoveLInv ==
    ASSUME LInv, SInv', NEW t \in Threads, RemoveKeptOpen(t)
    PROVE  LInv'
  <1>1. TypeOK /\ Examined /\ SignalLeft /\ depth[t] \in 0 .. MaxDepth /\ Top(t) \in Call
    BY TopTyped DEF LInv, SInv
  <1>2. PICK c : Replaces(t, depth[t], c) /\ c.pc \notin Critical
    <2>1. /\ Filters(Top(t), Filtered(Asked(Top(t)))).pc = "apply"
          /\ [Top(t) EXCEPT !.pc = "install"].pc = "install"
      BY <1>1 DEF Filters, Call
    <2>2. QED  BY <1>1, <2>1, RemoveFact DEF Critical
  <1>3. SignalLeft'
    <2> SUFFICES ASSUME ~rewritten, shootdown_signal = NoSignal PROVE Available' # {}
      BY DEF SignalLeft, RemoveKeptOpen, history
    <2>1. Top(t).pc = "marking" /\ depth[t] \in 0 .. depth[t]
      BY <1>1, SignalsAssumption DEF RemoveKeptOpen, At
    <2>2. PICK s \in Available : s \notin Asked(Top(t))
      BY <1>1, <2>1 DEF Examined, Top, Asked, AskedIn
    <2>3. blocked' = blocked \cup (Filtered(Asked(Top(t))) \ HandsOff)
      BY DEF RemoveKeptOpen
    <2>4. s \in Available'
      BY <2>2, <2>3 DEF Available, Filtered, ShootdownList, HandsOff
    <2>5. QED  BY <2>4
  <1>4. QED  BY <1>2, <1>3, LeaveLInv DEF RemoveKeptOpen, At, Critical

LEMMA PickLInv ==
    ASSUME LInv, SInv', NEW t \in Threads, PickShootdown(t)
    PROVE  LInv'
  <1>1. Top(t) \in Call /\ Replaces(t, depth[t], [Top(t) EXCEPT !.pc = "shoot"])
    BY TopTyped, GotoFact DEF LInv, SInv, PickShootdown, Pcs
  <1>2. [Top(t) EXCEPT !.pc = "shoot"].pc \notin Critical
    BY <1>1 DEF Call, Critical
  <1>3. SignalLeft'
    BY PickSignal, SignalsAssumption DEF LInv, SInv, SignalLeft
  <1>4. QED  BY <1>1, <1>2, <1>3, LeaveLInv DEF PickShootdown, At, Critical

LEMMA StepLInv == LInv /\ [Next]_vars => LInv'
  <1> SUFFICES ASSUME LInv, [Next]_vars PROVE LInv'
    OBVIOUS
  <1>1. SInv' /\ TypeOK
    BY StepSInv DEF LInv, SInv
  <1>2. CASE UNCHANGED vars
    BY <1>1, <1>2, StayLInv DEF vars, marks, actions, history
  <1>3. ASSUME NEW t \in Threads, Monitor(t) \/ GetLock(t)  PROVE LInv'
    <2> DEFINE f == Finished(Top(t))
    <2>1. f.pc \notin Critical
      BY <1>1, TopTyped DEF Finished, Call, Critical
    <2>2. Done(t) => Replaces(t, depth[t], f)
      BY <1>1, DoneFact
    <2> HIDE DEF f
    <2>3. ASSUME ApplyMask(t) \/ InstallAction(t)  PROVE LInv'
      BY <1>1, <2>1, <2>2, <2>3, TopLInv
      DEF ApplyMask, InstallAction, marks, actions, history
    <2>4. ASSUME HandlerReturns(t)  PROVE LInv'
      BY <1>1, <2>4, PopLInv DEF HandlerReturns, marks, actions, history
    <2>5. ASSUME HandlerEnds(t)  PROVE LInv'
      BY <1>1, <2>5, EndLInv DEF HandlerEnds
    <2>6. ASSUME ShootdownTest(t)  PROVE LInv'
      <3>1. PICK p \in {"shoot", "pick"} : Goto(t, p)
        BY <2>6 DEF ShootdownTest
      <3>2. QED
        BY <1>1, <2>6, <3>1, MoveLInv
        DEF ShootdownTest, Pcs, Critical, marks, actions, history
    <2>7. ASSUME HandlerRuns(t) \/ Shoot(t) \/ ProcessEnds(t)  PROVE LInv'
      BY <1>1, <2>7, MoveLInv
      DEF HandlerRuns, Shoot, ProcessEnds, Pcs, Critical, marks, actions, history
    <2>8. QED
      BY <1>1, <1>3, <2>3, <2>4, <2>5, <2>6, <2>7, LockLInv, ReserveLInv, RemoveLInv,
         PickLInv
      DEF Monitor, GetLock, LockFilter, LockPick
  <1>4. ASSUME NEW t \in Threads, Application(t)  PROVE LInv'
    <2>1. ASSUME NEW set \in Requests, NEW how \in {"block", "setmask"},
                 Sigmask(t, how, set)
          PROVE  LInv'
      <3>1. /\ Replaces(t, depth[t], Asks(Top(t), how, set))
            /\ Asks(Top(t), how, set).pc \notin Critical
        <4>1. Top(t) \in Call /\ set \in SUBSET Signals
          BY <1>1, SignalsAssumption, TopTyped
        <4>2. Asks(Top(t), how, set).pc = "filter"
          BY <4>1 DEF Asks, Call
        <4>3. QED  BY <1>1, <2>1, <4>1, <4>2, SigmaskFact DEF Critical
      <3>2. QED  BY <1>1, <2>1, <3>1, TopLInv DEF Sigmask, marks, actions, history
    <2>2. ASSUME NEW set \in Requests, NEW s \in Handled, NEW act \in Acts,
                 \/ monitor_appl_sigaction(t, s, act, set)
                 \/ monitor_sigaction_act(t, s, set)
          PROVE  LInv'
      BY <1>1, <2>2, SignalsAssumption, WriteLInv
      DEF monitor_appl_sigaction, monitor_sigaction_act
    <2>3. ASSUME NEW set \in Requests, NEW s \in Handled,
                 monitor_sigaction_act(t, s, set)
          PROVE  LInv'
      BY <1>1, <2>3, SignalsAssumption, WriteLInv DEF monitor_sigaction_act
    <2>4. ASSUME NEW set \in Requests, Unblock(t, set)  PROVE LInv'
      BY <1>1, <2>4, StayLInv DEF Unblock, marks, actions, history
    <2>5. ASSUME NEW s \in Handled, monitor_sigaction(t, s)  PROVE LInv'
      BY <1>1, <2>5, StayLInv DEF monitor_sigaction, actions, history
    <2>6. ASSUME Reach(t)  PROVE LInv'
      BY <1>1, <2>6, StayLInv DEF Reach, marks, actions, history
    <2>7. ASSUME NEW s \in Arriving, Deliver(t, s)  PROVE LInv'
      BY <1>1, <2>7, SignalsAssumption, PushLInv DEF Deliver, marks, actions, history
    <2>8. ASSUME Return(t)  PROVE LInv'
      BY <1>1, <2>8, PopLInv DEF Return, marks, actions, history
    <2>9. ASSUME Exit(t)  PROVE LInv'
      BY <1>1, <2>9, EndLInv DEF Exit
    <2>10. QED
      BY <1>4, <2>1, <2>2, <2>3, <2>4, <2>5, <2>6, <2>7, <2>8, <2>9 DEF Application
  <1>5. QED  BY <1>2, <1>3, <1>4 DEF Next

\* Until one is chosen, a signal that no mask covered is left for the thread
\* shootdown, as monitor_remove_client_signals assumes when it chooses, unless a
\* mask was replaced between the choice and the marking: whatever calls and nested
\* handlers interleave.
THEOREM AlwaysOneLeft == Spec => []SignalLeft
  <1>1. LInv => SignalLeft
    BY DEF LInv
  <1>2. QED  BY <1>1, InitLInv, StepLInv, PTL DEF Spec

-----------------------------------------------------------------------------
(* What is masked was marked                                               *)

\* The signals of the first d handlers of t's stack and the unmarked parts of their
\* masks, and what may be masked there.
HandlingTo(t, d) ==
    {call[t][e].handling : e \in 1 .. d} \cup UNION {call[t][e].torn : e \in 1 .. d}
MayMask(t, d) == (blocked \cup Inherited) \cup HandlingTo(t, d)

\* A filtered mask on its way to sigprocmask was marked ...
OnTheWay ==
    \A u \in Threads, d \in 0 .. MaxDepth :
        call[u][d].pc = "apply" => call[u][d].set \ HandsOff \subseteq blocked

\* ... what kern_act holds was marked, or a call has yet to filter it ...
ToFilter == {"filter", "locked", "marking"}

KernMarked ==
    \A s \in Signals : kern_mask[s] \ HandsOff \subseteq blocked \/ CallAt(s, ToFilter)

\* ... and the masks of the installed actions, or a call has yet to install it ...
InstalledMarked == \A s \in Signals : Torn(s) = {} \/ CallAt(s, UnderWay)

\* ... and the masks of the threads, those that handlers will restore included.
MasksBounded ==
    \A u \in Threads :
        /\ mask[u] \subseteq MayMask(u, depth[u])
        /\ \A d \in 1 .. depth[u] : call[u][d].saved \subseteq MayMask(u, d - 1)

\* The inductive invariant.
MInv == SInv /\ OnTheWay /\ KernMarked /\ InstalledMarked /\ MasksBounded

LEMMA InitMInv == Init => MInv
  <1> SUFFICES ASSUME Init PROVE MInv
    OBVIOUS
  <1>1. \A u \in Threads, d \in 0 .. MaxDepth : call[u][d].pc = "run"
    BY DEF Init, Running
  <1>2. OnTheWay
    BY <1>1 DEF OnTheWay
  <1>3. KernMarked /\ InstalledMarked
    BY DEF Init, KernMarked, InstalledMarked, Torn
  <1>4. MasksBounded
    <2> SUFFICES ASSUME NEW u \in Threads
                 PROVE  /\ mask[u] \subseteq MayMask(u, depth[u])
                        /\ \A d \in 1 .. depth[u] : call[u][d].saved \subseteq MayMask(u, d - 1)
      BY DEF MasksBounded
    <2>1. mask[u] \subseteq Inherited /\ depth[u] = 0
      BY DEF Init
    <2>2. QED  BY <2>1 DEF MayMask
  <1>5. QED  BY <1>2, <1>3, <1>4, InitSInv DEF MInv

\* What a call keeps until it ends.
SameFrame(b, c) ==
    b.handling = c.handling /\ b.saved = c.saved /\ b.torn = c.torn

\* The handlers of a stack stay what they are when a call of it moves on.
LEMMA StackKept ==
    ASSUME TypeOK, NEW t \in Threads, NEW k \in 0 .. MaxDepth, NEW c,
           Replaces(t, k, c), SameFrame(c, call[t][k]),
           NEW u \in Threads, NEW n \in 0 .. MaxDepth
    PROVE  HandlingTo(u, n)' = HandlingTo(u, n)
  <1>1. \A e \in 1 .. n : /\ call'[u][e].handling = call[u][e].handling
                          /\ call'[u][e].torn = call[u][e].torn
    <2>1. \A e \in 1 .. n : e \in 0 .. MaxDepth
      BY SignalsAssumption
    <2>2. QED  BY <2>1 DEF Replaces, SameFrame
  <1>2. QED  BY <1>1 DEF HandlingTo

\* A call of the stack stays at the points pcs for s unless it is the one replaced.
LEMMA CallAtKept ==
    ASSUME TypeOK, NEW t \in Threads, NEW k \in 0 .. MaxDepth, NEW c,
           Replaces(t, k, c), NEW s \in Signals, NEW pcs, CallAt(s, pcs),
           \/ c.target = s /\ c.pc \in pcs /\ k \in 0 .. depth'[t]
           \/ ~ (k \in 0 .. depth[t] /\ call[t][k].target = s /\ call[t][k].pc \in pcs),
           \A u \in Threads : \A d \in 0 .. depth[u] :
               d \in 0 .. depth'[u] \/ (u = t /\ d = k)
    PROVE  CallAt(s, pcs)'
  <1>0. PICK u \in Threads :
            \E d \in 0 .. depth[u] : call[u][d].target = s /\ call[u][d].pc \in pcs
    BY DEF CallAt
  <1>1. PICK d \in 0 .. depth[u] : call[u][d].target = s /\ call[u][d].pc \in pcs
    BY <1>0
  <1>2. d \in 0 .. MaxDepth /\ d <= depth[u] /\ depth[u] \in 0 .. MaxDepth
    <2>1. depth[u] \in 0 .. MaxDepth
      BY DEF TypeOK
    <2>2. QED  BY <2>1, SignalsAssumption
  <1>3. CASE u = t /\ d = k
    <2>1. c.target = s /\ c.pc \in pcs /\ k \in 0 .. depth'[t]
      BY <1>1, <1>3
    <2>2. call'[t][k] = c
      BY DEF Replaces
    <2>3. QED  BY <2>1, <2>2 DEF CallAt
  <1>4. CASE ~ (u = t /\ d = k)
    <2>1. call'[u][d] = call[u][d] /\ d \in 0 .. depth'[u]
      BY <1>2, <1>4 DEF Replaces
    <2>2. QED  BY <1>1, <2>1 DEF CallAt
  <1>5. QED  BY <1>3, <1>4

\* No call of the stack but one outside sigaction is replaced: those in it stay.
LEMMA TopKept ==
    ASSUME TypeOK, NEW t \in Threads, NEW c, Replaces(t, depth[t], c), UNCHANGED depth,
           \/ Top(t).pc \notin UnderWay
           \/ Top(t).pc \in ToFilter /\ c.pc \in ToFilter /\ c.target = Top(t).target,
           NEW s \in Signals
    PROVE  /\ CallAt(s, ToFilter) => CallAt(s, ToFilter)'
           /\ CallAt(s, UnderWay) => CallAt(s, UnderWay)'
  <1>1. depth[t] \in 0 .. MaxDepth /\ depth[t] \in 0 .. depth[t]
    BY TopTyped, SignalsAssumption
  <1>2. ASSUME NEW pcs \in {ToFilter, UnderWay}
        PROVE  CallAt(s, pcs) => CallAt(s, pcs)'
    <2>1. \/ c.target = s /\ c.pc \in pcs /\ depth[t] \in 0 .. depth'[t]
          \/ ~ (/\ depth[t] \in 0 .. depth[t]
                /\ call[t][depth[t]].target = s /\ call[t][depth[t]].pc \in pcs)
      BY <1>1 DEF Top, UnderWay, ToFilter
    <2>2. \A u \in Threads : \A d \in 0 .. depth[u] : d \in 0 .. depth'[u]
      OBVIOUS
    <2>3. QED  BY <1>1, <2>1, <2>2, CallAtKept
  <1>3. QED  BY <1>2

\* The table keeps being marked while those calls stay.
LEMMA TableKept ==
    ASSUME KernMarked, InstalledMarked, UNCHANGED <<kern_mask, installed>>,
           blocked \subseteq blocked',
           \A s \in Signals : /\ CallAt(s, ToFilter) => CallAt(s, ToFilter)'
                              /\ CallAt(s, UnderWay) => CallAt(s, UnderWay)'
    PROVE  KernMarked' /\ InstalledMarked'
  <1>1. KernMarked'
    <2> SUFFICES ASSUME NEW s \in Signals, ~ CallAt(s, ToFilter)'
                 PROVE  kern_mask'[s] \ HandsOff \subseteq blocked'
      BY DEF KernMarked
    <2>1. ~ CallAt(s, ToFilter)
      OBVIOUS
    <2>2. kern_mask[s] \ HandsOff \subseteq blocked
      BY <2>1 DEF KernMarked
    <2>3. QED  BY <2>2
  <1>2. InstalledMarked'
    <2> SUFFICES ASSUME NEW s \in Signals, ~ CallAt(s, UnderWay)'
                 PROVE  installed'[s] \ (blocked' \cup HandsOff) = {}
      BY DEF InstalledMarked, Torn
    <2>1. ~ CallAt(s, UnderWay)
      OBVIOUS
    <2>2. installed[s] \ (blocked \cup HandsOff) = {}
      BY <2>1 DEF InstalledMarked, Torn
    <2>3. QED  BY <2>2
  <1>3. QED  BY <1>1, <1>2

\* Steps that add nothing but marked signals to the masks, keep the stacks and put
\* no mask on its way.
LEMMA CalmStep ==
    ASSUME MInv, SInv', NEW t \in Threads, NEW c, Replaces(t, depth[t], c),
           c.pc # "apply", SameFrame(c, Top(t)),
           UNCHANGED <<blocked, depth>>, KernMarked', InstalledMarked',
           \A u \in Threads : mask'[u] \subseteq mask[u] \cup blocked
    PROVE  MInv'
  <1>1. TypeOK /\ OnTheWay /\ MasksBounded /\ depth[t] \in 0 .. MaxDepth
    BY TopTyped DEF MInv, SInv
  <1>2. OnTheWay'
    <2> SUFFICES ASSUME NEW u \in Threads, NEW d \in 0 .. MaxDepth
                 PROVE  call'[u][d].pc = "apply" =>
                            call'[u][d].set \ HandsOff \subseteq blocked
      BY DEF OnTheWay
    <2>1. CASE u = t /\ d = depth[t]
      BY <2>1 DEF Replaces
    <2>2. CASE ~(u = t /\ d = depth[t])
      <3>1. call'[u][d] = call[u][d]
        BY <2>2 DEF Replaces
      <3>2. QED  BY <1>1, <3>1 DEF OnTheWay
    <2>3. QED  BY <2>1, <2>2
  <1>3. MasksBounded'
    <2> SUFFICES ASSUME NEW u \in Threads
                 PROVE  /\ mask'[u] \subseteq MayMask(u, depth[u])'
                        /\ \A d \in 1 .. depth[u] :
                              call'[u][d].saved \subseteq MayMask(u, d - 1)'
      BY DEF MasksBounded, MayMask, HandlingTo
    <2>1. depth[u] \in 0 .. MaxDepth
      BY <1>1 DEF TypeOK
    <2>2. ASSUME NEW n \in 0 .. depth[u]  PROVE MayMask(u, n)' = MayMask(u, n)
      <3>1. n \in 0 .. MaxDepth
        BY <2>1, SignalsAssumption
      <3>2. SameFrame(c, call[t][depth[t]])
        BY DEF Top
      <3>3. HandlingTo(u, n)' = HandlingTo(u, n)
        BY <1>1, <3>1, <3>2, StackKept
      <3>4. QED  BY <3>3 DEF MayMask
    <2>3. mask'[u] \subseteq MayMask(u, depth[u])'
      <3>1. mask[u] \cup blocked \subseteq MayMask(u, depth[u])
        BY <1>1 DEF MasksBounded, MayMask
      <3>2. QED  BY <2>1, <2>2, <3>1
    <2>4. ASSUME NEW d \in 1 .. depth[u]
          PROVE  call'[u][d].saved \subseteq MayMask(u, d - 1)'
      <3>1. d \in 0 .. MaxDepth /\ d - 1 \in 0 .. depth[u]
        BY <2>1, SignalsAssumption
      <3>2. call'[u][d].saved = call[u][d].saved
        BY <3>1 DEF Replaces, Top, SameFrame
      <3>3. QED  BY <1>1, <2>2, <3>1, <3>2 DEF MasksBounded
    <2>5. QED  BY <2>3, <2>4
  <1>4. QED  BY <1>2, <1>3 DEF MInv

\* A move of the program counter alone.
LEMMA MoveMInv ==
    ASSUME MInv, SInv', NEW t \in Threads, NEW p \in Pcs \ {"apply"}, Goto(t, p),
           Top(t).pc \in UnderWay => Top(t).pc \in ToFilter /\ p \in ToFilter,
           UNCHANGED <<blocked, kern_mask, installed, mask, depth>>
    PROVE  MInv'
  <1>1. TypeOK /\ KernMarked /\ InstalledMarked
    BY DEF MInv, SInv
  <1> DEFINE c == [Top(t) EXCEPT !.pc = p]
  <1>2. Replaces(t, depth[t], c)
    BY <1>1, GotoFact
  <1>3. c.pc = p /\ SameFrame(c, Top(t)) /\ c.target = Top(t).target
    BY <1>1, TopTyped DEF Call, SameFrame
  <1> HIDE DEF c
  <1>4. KernMarked' /\ InstalledMarked'
    <2>1. ASSUME NEW s \in Signals
          PROVE  /\ CallAt(s, ToFilter) => CallAt(s, ToFilter)'
                 /\ CallAt(s, UnderWay) => CallAt(s, UnderWay)'
      BY <1>1, <1>2, <1>3, TopKept
    <2>2. QED  BY <1>1, <2>1, TableKept
  <1>5. QED  BY <1>2, <1>3, <1>4, CalmStep

LEMMA EndMInv ==
    ASSUME MInv, SInv', NEW t \in Threads, EndProcess(t), Top(t).pc \notin UnderWay
    PROVE  MInv'
  <1>1. PICK p \in {"end", "waits"} : Goto(t, p)
    BY DEF EndProcess
  <1>2. QED  BY <1>1, MoveMInv DEF EndProcess, Pcs, marks, actions

\* A call that writes kern_act has yet to filter and to install it.
LEMMA WriteMInv ==
    ASSUME MInv, SInv', NEW t \in Threads, NEW s \in Signals, NEW set, At(t, "run"),
           WriteKernAct(t, s, set), UNCHANGED <<blocked, installed, mask, depth>>
    PROVE  MInv'
  <1>1. TypeOK /\ KernMarked /\ InstalledMarked
    BY DEF MInv, SInv
  <1> DEFINE c == Targets(Top(t), s)
  <1>2. Replaces(t, depth[t], c) /\ Top(t).pc \notin UnderWay
    BY <1>1, WriteFact DEF At, UnderWay
  <1>3. c.pc = "filter" /\ c.target = s /\ SameFrame(c, Top(t))
    BY <1>1, TopTyped DEF Call, Targets, SameFrame
  <1> HIDE DEF c
  <1>4. ASSUME NEW u \in Signals
        PROVE  /\ CallAt(u, ToFilter) => CallAt(u, ToFilter)'
               /\ CallAt(u, UnderWay) => CallAt(u, UnderWay)'
    BY <1>1, <1>2, TopKept
  <1>5. CallAt(s, ToFilter)'
    <2>1. depth[t] \in 0 .. depth[t]
      BY <1>1, TopTyped, SignalsAssumption
    <2>2. call'[t][depth[t]] = c
      BY <1>2 DEF Replaces
    <2>3. QED  BY <1>3, <2>1, <2>2 DEF CallAt, ToFilter
  <1>6. KernMarked'
    <2>1. \A u \in Signals : u # s => kern_mask'[u] = kern_mask[u]
      BY <1>1 DEF WriteKernAct, TypeOK
    <2>2. QED  BY <1>1, <1>4, <1>5, <2>1 DEF KernMarked
  <1>7. InstalledMarked'
    BY <1>1, <1>4 DEF InstalledMarked, Torn
  <1>8. QED  BY <1>2, <1>3, <1>6, <1>7, CalmStep

\* The real sigaction installs what was filtered, or written by a later call.
LEMMA InstallMInv ==
    ASSUME MInv, SInv', NEW t \in Threads, InstallAction(t)
    PROVE  MInv'
  <1>1. TypeOK /\ KernMarked /\ InstalledMarked /\ depth[t] \in 0 .. MaxDepth
    BY TopTyped DEF MInv, SInv
  <1> DEFINE c == Finished(Top(t))
             r == Top(t).target
  <1>2. /\ Replaces(t, depth[t], c) /\ Top(t).pc = "install"
        /\ UNCHANGED <<blocked, kern_mask, mask, depth>>
        /\ installed' = [installed EXCEPT ![r] = kern_mask[r]]
    BY <1>1, DoneFact DEF InstallAction, At, marks
  <1>3. c.pc = "run" /\ SameFrame(c, Top(t))
    BY <1>1, TopTyped DEF Finished, Call, SameFrame
  <1>4. r = call[t][depth[t]].target /\ call[t][depth[t]].pc = "install"
    BY <1>2 DEF Top
  <1> HIDE DEF c, r
  <1>5. \A u \in Threads : \A d \in 0 .. depth[u] : d \in 0 .. depth'[u]
    BY <1>2
  <1>6. ASSUME NEW s \in Signals, CallAt(s, ToFilter)  PROVE CallAt(s, ToFilter)'
    <2>1. "install" \notin ToFilter
      BY DEF ToFilter
    <2>2. QED  BY <1>1, <1>2, <1>4, <1>5, <1>6, <2>1, CallAtKept
  <1>7. ASSUME NEW s \in Signals, s # r, CallAt(s, UnderWay)  PROVE CallAt(s, UnderWay)'
    BY <1>1, <1>2, <1>4, <1>5, <1>7, CallAtKept
  <1>8. KernMarked'
    BY <1>1, <1>2, <1>6 DEF KernMarked
  <1>9. InstalledMarked'
    <2> SUFFICES ASSUME NEW s \in Signals
                 PROVE  installed'[s] \ (blocked \cup HandsOff) = {} \/ CallAt(s, UnderWay)'
      BY <1>2 DEF InstalledMarked, Torn
    <2>1. CASE s # r
      <3>1. installed'[s] = installed[s]
        BY <1>1, <1>2, <2>1 DEF TypeOK
      <3>2. QED  BY <1>1, <1>7, <2>1, <3>1 DEF InstalledMarked, Torn
    <2>2. CASE s = r
      <3>1. installed'[s] = kern_mask[s]
        BY <1>1, <1>2, <2>2 DEF TypeOK
      <3>2. CASE kern_mask[s] \ HandsOff \subseteq blocked
        BY <3>1, <3>2
      <3>3. CASE CallAt(s, ToFilter)
        <4>1. CallAt(s, ToFilter)'
          BY <1>6, <3>3
        <4>2. QED  BY <4>1 DEF CallAt, ToFilter, UnderWay
      <3>4. QED  BY <1>1, <3>2, <3>3 DEF KernMarked
    <2>3. QED  BY <2>1, <2>2
  <1>10. QED  BY <1>2, <1>3, <1>8, <1>9, CalmStep

\* The critical section marks what it lets through.
LEMMA RemoveMInv ==
    ASSUME MInv, SInv', NEW t \in Threads, RemoveKeptOpen(t)
    PROVE  MInv'
  <1>1. /\ TypeOK /\ OnTheWay /\ KernMarked /\ InstalledMarked /\ MasksBounded
        /\ depth[t] \in 0 .. MaxDepth /\ depth[t] \in 0 .. depth[t] /\ Top(t) \in Call
    BY TopTyped, SignalsAssumption DEF MInv, SInv
  <1> DEFINE set == Filtered(Asked(Top(t)))
             r == Top(t).target
  <1>2. /\ blocked' = blocked \cup (set \ HandsOff) /\ Top(t).pc = "marking"
        /\ UNCHANGED <<installed, mask, depth>>
    BY DEF RemoveKeptOpen, At
  <1>3. PICK c : /\ Replaces(t, depth[t], c) /\ SameFrame(c, Top(t))
                 /\ \/ /\ r = NoSignal /\ c.pc = "apply" /\ c.set = set
                       /\ UNCHANGED kern_mask
                    \/ /\ r \in Signals /\ c.pc = "install" /\ c.target = r
                       /\ kern_mask' = [kern_mask EXCEPT ![r] = set]
    <2>1. CASE r = NoSignal
      <3>1. Replaces(t, depth[t], Filters(Top(t), set)) /\ UNCHANGED kern_mask
        BY <1>1, <2>1, RemoveFact, SignalsAssumption
      <3>2. /\ SameFrame(Filters(Top(t), set), Top(t))
            /\ Filters(Top(t), set).pc = "apply" /\ Filters(Top(t), set).set = set
        <4> HIDE DEF set
        <4>1. QED  BY <1>1 DEF Filters, Call, SameFrame
      <3> HIDE DEF set, r
      <3>3. QED  BY <2>1, <3>1, <3>2
    <2>2. CASE r # NoSignal
      <3> DEFINE f == [Top(t) EXCEPT !.pc = "install"]
      <3>1. /\ r \in Signals /\ Replaces(t, depth[t], f)
            /\ kern_mask' = [kern_mask EXCEPT ![r] = set]
        BY <1>1, <2>2, RemoveFact
      <3>2. SameFrame(f, Top(t)) /\ f.pc = "install" /\ f.target = r
        BY <1>1 DEF Call, SameFrame
      <3> HIDE DEF set, r, f
      <3>3. QED  BY <3>1, <3>2
    <2>3. QED  BY <2>1, <2>2
  <1>4. r = call[t][depth[t]].target /\ call[t][depth[t]].pc = "marking"
    BY <1>2 DEF Top
  <1> HIDE DEF set, r
  <1>5. \A u \in Threads : \A d \in 0 .. depth[u] : d \in 0 .. depth'[u]
    BY <1>2
  <1>6. ASSUME NEW s \in Signals, s # r, CallAt(s, ToFilter)  PROVE CallAt(s, ToFilter)'
    BY <1>1, <1>3, <1>4, <1>5, <1>6, CallAtKept
  <1>7. ASSUME NEW s \in Signals, CallAt(s, UnderWay)  PROVE CallAt(s, UnderWay)'
    <2>1. s = r => c.target = s /\ c.pc \in UnderWay /\ depth[t] \in 0 .. depth'[t]
      BY <1>1, <1>2, <1>3, SignalsAssumption DEF UnderWay
    <2>2. QED  BY <1>1, <1>3, <1>4, <1>5, <1>7, <2>1, CallAtKept
  <1>8. KernMarked'
    <2> SUFFICES ASSUME NEW s \in Signals
                 PROVE  kern_mask'[s] \ HandsOff \subseteq blocked' \/ CallAt(s, ToFilter)'
      BY DEF KernMarked
    <2>1. CASE s # r
      <3>1. kern_mask'[s] = kern_mask[s]
        BY <1>1, <1>3, <2>1 DEF TypeOK
      <3>2. QED  BY <1>1, <1>2, <1>6, <2>1, <3>1 DEF KernMarked
    <2>2. CASE s = r
      <3>1. kern_mask'[s] = set
        BY <1>1, <1>3, <2>2, SignalsAssumption DEF TypeOK
      <3>2. QED  BY <1>2, <3>1
    <2>3. QED  BY <2>1, <2>2
  <1>9. InstalledMarked'
    BY <1>1, <1>2, <1>7 DEF InstalledMarked, Torn
  <1>10. OnTheWay'
    <2> SUFFICES ASSUME NEW u \in Threads, NEW d \in 0 .. MaxDepth
                 PROVE  call'[u][d].pc = "apply" =>
                            call'[u][d].set \ HandsOff \subseteq blocked'
      BY DEF OnTheWay
    <2>1. CASE u = t /\ d = depth[t]
      BY <1>2, <1>3, <2>1 DEF Replaces
    <2>2. CASE ~(u = t /\ d = depth[t])
      <3>1. call'[u][d] = call[u][d]
        BY <1>3, <2>2 DEF Replaces
      <3>2. QED  BY <1>1, <1>2, <3>1 DEF OnTheWay
    <2>3. QED  BY <2>1, <2>2
  <1>11. MasksBounded'
    <2> SUFFICES ASSUME NEW u \in Threads
                 PROVE  /\ mask[u] \subseteq MayMask(u, depth[u])'
                        /\ \A d \in 1 .. depth[u] :
                              call'[u][d].saved \subseteq MayMask(u, d - 1)'
      BY <1>2 DEF MasksBounded, MayMask, HandlingTo
    <2>1. depth[u] \in 0 .. MaxDepth
      BY <1>1 DEF TypeOK
    <2>2. ASSUME NEW n \in 0 .. depth[u]  PROVE MayMask(u, n) \subseteq MayMask(u, n)'
      <3>1. n \in 0 .. MaxDepth
        BY <2>1, SignalsAssumption
      <3>2. SameFrame(c, call[t][depth[t]])
        BY <1>3 DEF Top
      <3>3. HandlingTo(u, n)' = HandlingTo(u, n)
        BY <1>1, <1>3, <3>1, <3>2, StackKept
      <3>4. QED  BY <1>2, <3>3 DEF MayMask
    <2>3. mask[u] \subseteq MayMask(u, depth[u])'
      BY <1>1, <1>2, <2>1, <2>2 DEF MasksBounded
    <2>4. ASSUME NEW d \in 1 .. depth[u]
          PROVE  call'[u][d].saved \subseteq MayMask(u, d - 1)'
      <3>1. d \in 0 .. MaxDepth /\ d - 1 \in 0 .. depth[u]
        BY <2>1, SignalsAssumption
      <3>2. call'[u][d].saved = call[u][d].saved
        BY <1>3, <3>1 DEF Replaces, Top, SameFrame
      <3>3. QED  BY <1>1, <2>2, <3>1, <3>2 DEF MasksBounded
    <2>5. QED  BY <2>3, <2>4
  <1>12. QED  BY <1>8, <1>9, <1>10, <1>11 DEF MInv

\* Nothing happens to masks, marks and stacks.
LEMMA StayMInv ==
    ASSUME MInv, SInv', UNCHANGED <<blocked, kern_mask, installed, mask, depth, call>>
    PROVE  MInv'
  <1>1. OnTheWay' /\ KernMarked' /\ InstalledMarked'
    BY DEF MInv, OnTheWay, KernMarked, InstalledMarked, Torn, CallAt
  <1>2. MasksBounded'
    BY DEF MInv, MasksBounded, MayMask, HandlingTo
  <1>3. QED  BY <1>1, <1>2 DEF MInv

\* A signal is delivered: the handler masks it and what its action masks.
LEMMA PushMInv ==
    ASSUME MInv, SInv', NEW t \in Threads, NEW s \in Signals, Push(t, s),
           UNCHANGED <<blocked, kern_mask, installed>>
    PROVE  MInv'
  <1>1. TypeOK /\ OnTheWay /\ KernMarked /\ InstalledMarked /\ MasksBounded
    BY DEF MInv, SInv
  <1> DEFINE c == Enters(t, s)
  <1>1a. /\ depth[t] \in 0 .. MaxDepth /\ depth[t] + 1 \in 0 .. MaxDepth
        /\ Replaces(t, depth[t] + 1, c)
    BY <1>1, TopTyped, PushFact
  <1>1b. PICK k \in 0 .. MaxDepth : k = depth[t] + 1
    BY <1>1a
  <1>2. /\ depth[t] \in 0 .. MaxDepth /\ k = depth[t] + 1 /\ k \in 1 .. MaxDepth
        /\ Replaces(t, k, c)
    BY <1>1a, <1>1b, SignalsAssumption
  <1>3. c.pc = "handler" /\ c.handling = s /\ c.saved = mask[t] /\ c.torn = Torn(s)
    BY DEF Enters, Running
  <1>4. /\ depth' = [depth EXCEPT ![t] = k]
        /\ mask' = [mask EXCEPT ![t] = (@ \cup installed[s] \cup {s}) \ HandsOff]
    BY <1>2 DEF Push
  <1> HIDE DEF c
  <1>5. KernMarked' /\ InstalledMarked'
    <2>1. \A u \in Threads : \A d \in 0 .. depth[u] : d \in 0 .. depth'[u]
      BY <1>1, <1>2, <1>4 DEF TypeOK
    <2>2. ~ (k \in 0 .. depth[t])
      BY <1>2
    <2>3. ASSUME NEW u \in Signals, NEW pcs, CallAt(u, pcs)  PROVE CallAt(u, pcs)'
      BY <1>1, <1>2, <2>1, <2>2, <2>3, CallAtKept
    <2>4. QED  BY <1>1, <2>3, TableKept
  <1>6. OnTheWay'
    <2> SUFFICES ASSUME NEW u \in Threads, NEW d \in 0 .. MaxDepth
                 PROVE  call'[u][d].pc = "apply" =>
                            call'[u][d].set \ HandsOff \subseteq blocked
      BY DEF OnTheWay
    <2>1. CASE u = t /\ d = k
      BY <1>2, <1>3, <2>1 DEF Replaces
    <2>2. CASE ~(u = t /\ d = k)
      BY <1>1, <1>2, <2>2 DEF Replaces, OnTheWay
    <2>3. QED  BY <2>1, <2>2
  <1>7. ASSUME NEW u \in Threads, NEW n \in 0 .. depth[u]
        PROVE  MayMask(u, n)' = MayMask(u, n)
    <2>1. \A e \in 1 .. n : e \in 0 .. MaxDepth /\ (u = t => e # k)
      BY <1>1, <1>2, SignalsAssumption DEF TypeOK
    <2>2. \A e \in 1 .. n : call'[u][e] = call[u][e]
      BY <1>2, <2>1 DEF Replaces
    <2>3. HandlingTo(u, n)' = HandlingTo(u, n)
      BY <2>2 DEF HandlingTo
    <2>4. QED  BY <2>3 DEF MayMask
  <1>8. MasksBounded'
    <2> SUFFICES ASSUME NEW u \in Threads, NEW n, n = depth'[u]
                 PROVE  /\ mask'[u] \subseteq MayMask(u, n)'
                        /\ \A d \in 1 .. n : call'[u][d].saved \subseteq MayMask(u, d - 1)'
      BY DEF MasksBounded, MayMask, HandlingTo
    <2>1. CASE u # t
      <3>1. n = depth[u] /\ mask'[u] = mask[u] /\ depth[u] \in 0 .. MaxDepth
        BY <1>1, <1>4, <2>1 DEF TypeOK
      <3>2. mask'[u] \subseteq MayMask(u, n)'
        BY <1>1, <1>7, <3>1 DEF MasksBounded
      <3>3. ASSUME NEW d \in 1 .. n
            PROVE  call'[u][d].saved \subseteq MayMask(u, d - 1)'
        <4>1. d \in 1 .. depth[u] /\ d - 1 \in 0 .. depth[u] /\ d \in 0 .. MaxDepth
          BY <3>1, SignalsAssumption
        <4>2. call'[u][d] = call[u][d]
          BY <1>2, <2>1, <4>1 DEF Replaces
        <4>3. QED  BY <1>1, <1>7, <4>1, <4>2 DEF MasksBounded
      <3>4. QED  BY <3>2, <3>3
    <2>2. CASE u = t
      <3>1. /\ n = k
            /\ mask'[t] = (mask[t] \cup installed[s] \cup {s}) \ HandsOff
        BY <1>1, <1>4, <2>2 DEF TypeOK
      <3>2. MayMask(t, depth[t]) \cup {s} \cup Torn(s) \subseteq MayMask(t, k)'
        <4>1. ASSUME NEW e \in 1 .. depth[t]
              PROVE  e \in 1 .. k /\ call'[t][e] = call[t][e]
          <5>1. e \in 1 .. k /\ e \in 0 .. MaxDepth /\ e # k
            BY <1>2, SignalsAssumption
          <5>2. QED  BY <1>2, <5>1 DEF Replaces
        <4>2. k \in 1 .. k /\ call'[t][k].handling = s /\ call'[t][k].torn = Torn(s)
          BY <1>2, <1>3 DEF Replaces
        <4>3. HandlingTo(t, depth[t]) \cup {s} \cup Torn(s) \subseteq HandlingTo(t, k)'
          BY <4>1, <4>2 DEF HandlingTo
        <4>4. QED  BY <4>3 DEF MayMask
      <3>3. mask'[t] \subseteq MayMask(t, k)'
        <4>1. mask[t] \subseteq MayMask(t, depth[t])
          BY <1>1 DEF MasksBounded
        <4>2. installed[s] \ HandsOff \subseteq MayMask(t, depth[t]) \cup Torn(s)
          BY DEF MayMask, Torn
        <4>3. QED  BY <3>1, <3>2, <4>1, <4>2
      <3>4. ASSUME NEW d \in 1 .. k
            PROVE  call'[t][d].saved \subseteq MayMask(t, d - 1)'
        <4>1. d \in 0 .. MaxDepth /\ d - 1 \in 0 .. depth[t]
          BY <1>2, SignalsAssumption
        <4>2. CASE d = k
          <5>1. call'[t][d].saved = mask[t] /\ d - 1 = depth[t]
            BY <1>2, <1>3, <4>2 DEF Replaces
          <5>2. QED  BY <1>1, <1>7, <4>1, <5>1 DEF MasksBounded
        <4>3. CASE d # k
          <5>1. call'[t][d] = call[t][d] /\ d \in 1 .. depth[t]
            BY <1>2, <4>1, <4>3 DEF Replaces
          <5>2. QED  BY <1>1, <1>7, <4>1, <5>1 DEF MasksBounded
        <4>4. QED  BY <4>2, <4>3
      <3>5. QED  BY <2>2, <3>1, <3>3, <3>4
    <2>3. QED  BY <2>1, <2>2
  <1>9. QED  BY <1>5, <1>6, <1>8 DEF MInv

\* A handler returns, and the mask of the call below it is in force again.
LEMMA PopMInv ==
    ASSUME MInv, SInv', NEW t \in Threads, Pop(t), Top(t).pc \notin UnderWay,
           UNCHANGED <<blocked, kern_mask, installed>>
    PROVE  MInv'
  <1>1. TypeOK /\ OnTheWay /\ KernMarked /\ InstalledMarked /\ MasksBounded
    BY DEF MInv, SInv
  <1>2. PICK k \in 0 .. MaxDepth : k = depth[t]
    BY <1>1, TopTyped
  <1>3. /\ k > 0 /\ k \in 1 .. MaxDepth /\ k - 1 \in 0 .. MaxDepth
        /\ Replaces(t, k, Running)
        /\ depth' = [depth EXCEPT ![t] = k - 1]
        /\ mask' = [mask EXCEPT ![t] = call[t][k].saved]
    <2>1. Replaces(t, k, Running)
      BY <1>1, <1>2, PopFact
    <2>2. /\ k > 0 /\ depth' = [depth EXCEPT ![t] = k - 1]
          /\ mask' = [mask EXCEPT ![t] = call[t][k].saved]
      BY <1>1, <1>2 DEF Pop, Top, TypeOK
    <2>3. k \in 1 .. MaxDepth /\ k - 1 \in 0 .. MaxDepth
      BY <2>2, SignalsAssumption
    <2>4. QED  BY <2>1, <2>2, <2>3
  <1>4. KernMarked' /\ InstalledMarked'
    <2>1. \A u \in Threads : \A d \in 0 .. depth[u] :
              d \in 0 .. depth'[u] \/ (u = t /\ d = k)
      BY <1>1, <1>2, <1>3 DEF TypeOK
    <2>2. call[t][k].pc \notin UnderWay /\ call[t][k].pc \notin ToFilter
      BY <1>2 DEF Top, UnderWay, ToFilter
    <2>3. ASSUME NEW u \in Signals, NEW pcs \in {ToFilter, UnderWay}, CallAt(u, pcs)
          PROVE  CallAt(u, pcs)'
      BY <1>1, <1>3, <2>1, <2>2, <2>3, CallAtKept
    <2>4. QED  BY <1>1, <2>3, TableKept
  <1>5. OnTheWay'
    <2> SUFFICES ASSUME NEW u \in Threads, NEW d \in 0 .. MaxDepth
                 PROVE  call'[u][d].pc = "apply" =>
                            call'[u][d].set \ HandsOff \subseteq blocked
      BY DEF OnTheWay
    <2>1. CASE u = t /\ d = k
      BY <1>3, <2>1 DEF Replaces, Running
    <2>2. CASE ~(u = t /\ d = k)
      BY <1>1, <1>3, <2>2 DEF Replaces, OnTheWay
    <2>3. QED  BY <2>1, <2>2
  <1>6. ASSUME NEW u \in Threads, NEW n \in 0 .. MaxDepth, u = t => n < k
        PROVE  MayMask(u, n)' = MayMask(u, n)
    <2>1. \A e \in 1 .. n : e \in 0 .. MaxDepth /\ (u = t => e # k)
      BY <1>6, SignalsAssumption
    <2>2. \A e \in 1 .. n : call'[u][e] = call[u][e]
      BY <1>3, <2>1 DEF Replaces
    <2>3. HandlingTo(u, n)' = HandlingTo(u, n)
      BY <2>2 DEF HandlingTo
    <2>4. QED  BY <2>3 DEF MayMask
  <1>7. MasksBounded'
    <2> SUFFICES ASSUME NEW u \in Threads, NEW n, n = depth'[u]
                 PROVE  /\ mask'[u] \subseteq MayMask(u, n)'
                        /\ \A d \in 1 .. n : call'[u][d].saved \subseteq MayMask(u, d - 1)'
      BY DEF MasksBounded, MayMask, HandlingTo
    <2>1. /\ n \in 0 .. MaxDepth /\ depth[u] \in 0 .. MaxDepth
          /\ u = t => n = k - 1
          /\ u # t => n = depth[u] /\ mask'[u] = mask[u]
      BY <1>1, <1>3 DEF TypeOK
    <2>2. mask'[u] \subseteq MayMask(u, n)
      <3>1. CASE u = t
        <4>1. mask'[t] = call[t][k].saved /\ k \in 1 .. depth[t]
          BY <1>1, <1>2, <1>3 DEF TypeOK
        <4>2. QED  BY <1>1, <2>1, <3>1, <4>1 DEF MasksBounded
      <3>2. CASE u # t
        BY <1>1, <2>1, <3>2 DEF MasksBounded
      <3>3. QED  BY <3>1, <3>2
    <2>3. mask'[u] \subseteq MayMask(u, n)'
      BY <1>3, <1>6, <2>1, <2>2
    <2>4. ASSUME NEW d \in 1 .. n
          PROVE  call'[u][d].saved \subseteq MayMask(u, d - 1)'
      <3>1. /\ d \in 1 .. depth[u] /\ d - 1 \in 0 .. MaxDepth /\ d \in 0 .. MaxDepth
            /\ u = t => d < k /\ d - 1 < k
        BY <1>2, <1>3, <2>1, SignalsAssumption
      <3>2. call'[u][d] = call[u][d]
        BY <1>3, <3>1 DEF Replaces
      <3>3. QED  BY <1>1, <1>6, <3>1, <3>2 DEF MasksBounded
    <2>5. QED  BY <2>3, <2>4
  <1>8. QED  BY <1>4, <1>5, <1>7 DEF MInv

\* A step of a call outside sigaction that leaves the table alone.
LEMMA TopMInv ==
    ASSUME MInv, SInv', NEW t \in Threads, NEW c, Replaces(t, depth[t], c),
           Top(t).pc \notin UnderWay, c.pc # "apply", SameFrame(c, Top(t)),
           UNCHANGED <<blocked, depth, kern_mask, installed>>,
           \A u \in Threads : mask'[u] \subseteq mask[u] \cup blocked
    PROVE  MInv'
  <1>1. TypeOK /\ KernMarked /\ InstalledMarked
    BY DEF MInv, SInv
  <1>2. \A s \in Signals : /\ CallAt(s, ToFilter) => CallAt(s, ToFilter)'
                           /\ CallAt(s, UnderWay) => CallAt(s, UnderWay)'
    BY <1>1, TopKept
  <1>3. KernMarked' /\ InstalledMarked'
    BY <1>1, <1>2, TableKept
  <1>4. QED  BY <1>3, CalmStep

\* The calls of application and client.
LEMMA CallsMInv ==
    ASSUME MInv, SInv', NEW t \in Threads, Application(t)
    PROVE  MInv'
  <1>1. TypeOK
    BY DEF MInv, SInv
  <1>2. ASSUME NEW set \in Requests, Unblock(t, set)  PROVE MInv'
    <2>1. Replaces(t, depth[t], Top(t)) /\ Top(t).pc = "run"
      BY <1>1, <1>2, TopTyped DEF Unblock, Replaces, TypeOK, Top, Calls, At
    <2>2. \A u \in Threads : mask'[u] \subseteq mask[u] \cup blocked
      BY <1>1, <1>2 DEF Unblock, TypeOK
    <2>3. QED
      BY <1>2, <2>1, <2>2, TopMInv DEF Unblock, UnderWay, SameFrame, marks, actions
  <1>3. ASSUME NEW set \in Requests, NEW how \in {"block", "setmask"},
               Sigmask(t, how, set)
        PROVE  MInv'
    <2> DEFINE c == Asks(Top(t), how, set)
    <2>1. Replaces(t, depth[t], c)
      BY <1>1, <1>3, SignalsAssumption, SigmaskFact
    <2>2. c.pc = "filter" /\ SameFrame(c, Top(t)) /\ Top(t).pc = "run"
      BY <1>1, <1>3, TopTyped DEF Asks, Call, SameFrame, Sigmask, Calls, At
    <2> HIDE DEF c
    <2>3. QED  BY <1>3, <2>1, <2>2, TopMInv DEF Sigmask, UnderWay, marks, actions
  <1>4. ASSUME NEW s \in Handled, NEW set \in Requests, NEW act \in Acts,
               monitor_appl_sigaction(t, s, act, set)
        PROVE  MInv'
    BY <1>4, SignalsAssumption, WriteMInv DEF monitor_appl_sigaction, Calls
  <1>5. ASSUME NEW s \in Handled, NEW set \in Requests,
               monitor_sigaction_act(t, s, set)
        PROVE  MInv'
    BY <1>5, SignalsAssumption, WriteMInv DEF monitor_sigaction_act, Calls
  <1>6. ASSUME NEW s \in Handled, monitor_sigaction(t, s)  PROVE MInv'
    BY <1>6, StayMInv DEF monitor_sigaction, actions
  <1>7. ASSUME NEW s \in Arriving, Deliver(t, s)  PROVE MInv'
    BY <1>7, SignalsAssumption, PushMInv DEF Deliver, marks, actions
  <1>8. ASSUME Return(t)  PROVE MInv'
    BY <1>8, PopMInv DEF Return, At, UnderWay, marks, actions
  <1>9. ASSUME Exit(t)  PROVE MInv'
    BY <1>9, EndMInv DEF Exit, At, UnderWay
  <1>10. ASSUME Reach(t)  PROVE MInv'
    BY <1>10, StayMInv DEF Reach, marks, actions
  <1>11. QED
    BY <1>2, <1>3, <1>4, <1>5, <1>6, <1>7, <1>8, <1>9, <1>10 DEF Application

\* The steps inside monitor.
LEMMA MonitorMInv ==
    ASSUME MInv, SInv', NEW t \in Threads, Monitor(t) \/ GetLock(t)
    PROVE  MInv'
  <1>1. TypeOK /\ OnTheWay
    BY DEF MInv, SInv
  <1>2. ASSUME LockFilter(t)  PROVE MInv'
    BY <1>2, MoveMInv DEF LockFilter, Lock, At, UnderWay, ToFilter, Pcs, marks, actions
  <1>3. ASSUME LockPick(t)  PROVE MInv'
    BY <1>3, MoveMInv DEF LockPick, Lock, At, UnderWay, Pcs, marks, actions
  <1>4. ASSUME ReserveSignal(t)  PROVE MInv'
    BY <1>4, MoveMInv DEF ReserveSignal, At, UnderWay, ToFilter, Pcs, actions
  <1>5. ASSUME ApplyMask(t)  PROVE MInv'
    <2> DEFINE f == Finished(Top(t))
    <2>1. Top(t).set \ HandsOff \subseteq blocked /\ Top(t).pc = "apply"
      BY <1>1, <1>5, TopTyped DEF ApplyMask, At, Top, OnTheWay
    <2>2. \A u \in Threads : mask'[u] \subseteq mask[u] \cup blocked
      BY <1>1, <1>5, <2>1 DEF ApplyMask, TypeOK
    <2>3. Replaces(t, depth[t], f) /\ f.pc = "run" /\ SameFrame(f, Top(t))
      BY <1>1, <1>5, DoneFact, TopTyped DEF ApplyMask, Finished, Call, SameFrame
    <2> HIDE DEF f
    <2>4. QED
      BY <1>5, <2>1, <2>2, <2>3, TopMInv DEF ApplyMask, UnderWay, marks, actions
  <1>6. ASSUME HandlerReturns(t)  PROVE MInv'
    BY <1>6, PopMInv DEF HandlerReturns, At, UnderWay, marks, actions
  <1>7. ASSUME HandlerRuns(t)  PROVE MInv'
    BY <1>7, MoveMInv DEF HandlerRuns, At, UnderWay, Pcs, marks, actions
  <1>8. ASSUME HandlerEnds(t)  PROVE MInv'
    BY <1>8, EndMInv DEF HandlerEnds, At, UnderWay
  <1>9. ASSUME ShootdownTest(t)  PROVE MInv'
    <2>1. PICK p \in {"shoot", "pick"} : Goto(t, p)
      BY <1>9 DEF ShootdownTest
    <2>2. QED
      BY <1>9, <2>1, MoveMInv DEF ShootdownTest, At, UnderWay, Pcs, marks, actions
  <1>10. ASSUME PickShootdown(t)  PROVE MInv'
    BY <1>10, MoveMInv DEF PickShootdown, At, UnderWay, Pcs, marks, actions
  <1>11. ASSUME Shoot(t)  PROVE MInv'
    BY <1>11, MoveMInv DEF Shoot, At, UnderWay, Pcs, marks, actions
  <1>12. ASSUME ProcessEnds(t)  PROVE MInv'
    <2> DEFINE c == [Top(t) EXCEPT !.pc = "over"]
    <2>1. Replaces(t, depth[t], c) /\ Top(t).pc = "shooting"
      BY <1>1, <1>12, GotoFact DEF ProcessEnds, At, Pcs
    <2>2. c.pc = "over" /\ SameFrame(c, Top(t))
      BY <1>1, TopTyped DEF Call, SameFrame
    <2> HIDE DEF c
    <2>3. \A u \in Threads : mask'[u] \subseteq mask[u] \cup blocked
      BY <1>1, <1>12 DEF ProcessEnds, TypeOK
    <2>4. QED
      BY <1>12, <2>1, <2>2, <2>3, TopMInv DEF ProcessEnds, UnderWay, marks, actions
  <1>13. QED
    BY <1>2, <1>3, <1>4, <1>5, <1>6, <1>7, <1>8, <1>9, <1>10, <1>11, <1>12, RemoveMInv,
       InstallMInv
    DEF Monitor, GetLock

LEMMA StepMInv == MInv /\ [Next]_vars => MInv'
  <1> SUFFICES ASSUME MInv, [Next]_vars PROVE MInv'
    OBVIOUS
  <1>1. SInv'
    BY StepSInv DEF MInv
  <1>2. CASE Next
    BY <1>1, <1>2, MonitorMInv, CallsMInv DEF Next
  <1>3. CASE UNCHANGED vars
    BY <1>1, <1>3, StayMInv DEF vars, marks, actions
  <1>4. QED  BY <1>2, <1>3

\* What follows from the invariant.
LEMMA MInvMarked == MInv => BlockedIsMarked
  BY DEF MInv, InstalledMarked, MasksBounded, MayMask, HandlingTo, BlockedIsMarked,
         Handling, TornIn

LEMMA MInvReserved == MInv => ReservedOpen
  <1> SUFFICES ASSUME MInv, forced, NEW t \in Threads,
                      shootdown_signal \notin Inherited \cup Handling(t) \cup TornIn(t)
               PROVE  /\ shootdown_signal \notin mask[t]
                      /\ Top(t).pc = "apply" => shootdown_signal \notin Top(t).set
    BY DEF ReservedOpen
  <1>1. shootdown_signal \notin blocked \cup HandsOff
    BY DEF MInv, SInv, Reserved
  <1>2. shootdown_signal \notin mask[t]
    BY <1>1, MInvMarked DEF BlockedIsMarked
  <1>3. ASSUME Top(t).pc = "apply"  PROVE shootdown_signal \notin Top(t).set
    <2>1. Top(t).set \ HandsOff \subseteq blocked
      BY <1>3, TopTyped DEF MInv, SInv, OnTheWay, Top
    <2>2. QED  BY <1>1, <2>1
  <1>4. QED  BY <1>2, <1>3

\* Whatever calls and nested handlers interleave, calls of sigaction for one signal
\* included: an installed mask that is not marked has a call under way that puts it
\* right, and mse_blocked covers what the threads mask but for what handlers entered
\* in the meantime brought.
THEOREM MasksAreMarked == Spec => []BlockedIsMarked
  <1>1. QED  BY InitMInv, StepMInv, MInvMarked, PTL DEF Spec

\* And the signal that was reserved for the thread shootdown, by
\* monitor_remove_client_signals or the environment, is masked by no other thread, by
\* no call of sigprocmask under way and by no other handler.
THEOREM ReservedStaysOpen == Spec => []ReservedOpen
  <1>1. QED  BY InitMInv, StepMInv, MInvReserved, PTL DEF Spec

=============================================================================
