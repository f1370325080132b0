----------------------------- MODULE WitchLogic -----------------------------
(***************************************************************************)
(* The witch logics (includes/tools/witchTool/witchLogic/WitchLogic.hpp and *)
(* the five subclasses under src/tools/witchTool/witchLogic): what a       *)
(* sample and a watchpoint trigger do to the calling context tree, to the  *)
(* table of proportional attribution and to the totals, and what a report  *)
(* does to them.                                                           *)
(*                                                                         *)
(* Every callback holds contextTree_mtx from beginning to end and is one   *)
(* action. A report takes the mutex twice and then resets the totals       *)
(* without it, so it is three actions that the callbacks of the VCPU       *)
(* threads interleave with.                                                *)
(*                                                                         *)
(* Data. A context is a back trace. The ones of samples are one frame      *)
(* below the root, the ones of triggers one frame below the sampled        *)
(* context. fixIP writes the instruction's address into the first frame,   *)
(* so a trigger's node has the address of its sampled node exactly when    *)
(* both accesses were made by the same instruction. Bytes are counted in   *)
(* units of the sampling threshold, the constant factor 100003.            *)
(***************************************************************************)
EXTENDS Integers, FiniteSets, FiniteSetsExt

CONSTANTS
    Contexts,       \* back traces of samples
    Builds,         \* pairs <<logicType, inst>> under consideration
    Lens,           \* access lengths of samples
    Dists,          \* event_time differences between a sample and its trigger
    MaxSamples,     \* bound: samples with a back trace in one behaviour
    MaxReports      \* bound: reports in one behaviour

Logics == {"DEADSPY", "FALSESHARE", "LOADSPY", "REDSPY", "DUPSPY"}

ASSUME WitchAssumption ==
    /\ IsFiniteSet(Contexts)
    \* WITCHTOOL_*_INST exists for three of the logics
    /\ Builds \subseteq {"DEADSPY", "LOADSPY", "REDSPY"} \X BOOLEAN
                        \cup {"FALSESHARE", "DUPSPY"} \X {FALSE}
    /\ Lens \subseteq Nat \ {0} /\ IsFiniteSet(Lens) /\ Lens # {}
    /\ Dists \subseteq Nat
    /\ MaxSamples \in Nat
    /\ MaxReports \in Nat

Kinds == {"USEDBYTES", "REDBYTES", "APPROXREDBYTES", "DEADBYTES"}
Counters == Kinds \cup {"WATCHEDCOUNT"}

\* Whether a trigger's first frame has the address of the sampled one.
Places == {"same", "other"}

VARIABLES
    build,                  \* MyTool::logicType and whether the *_INST macro is set
    events,                 \* the samples that were taken, by eventId
    eventToContextLeafMap,
    propAttrTable,
    sampled,                \* children of contextTreeRoot that are allocated
    dangling,               \* children of contextTreeRoot that were deleted
    metrics,                \* metrics of the sampled contexts
    watchedMetrics,         \* metrics of the triggers' contexts below them
    rootMetrics,            \* metrics of contextTreeRoot
    total,                  \* totalUsedBytes, totalDeadBytes, ... watchedSampleCount
    report,                 \* where the reporting thread is: "idle", "clean" or "reset"
    reports,                \* reports so far
    raced,                  \* a trigger charged bytes while the last report was at "reset"
    fault                   \* a deleted node was used

vars == <<build, events, eventToContextLeafMap, propAttrTable, sampled, dangling, metrics,
          watchedMetrics, rootMetrics, total, report, reports, raced, fault>>

logicType == build[1]
inst == build[2]

\* A sample: its back trace, its access length, and whether its watchpoint can
\* still trigger ("armed"), was given up by the watchpoint library ("gone") or
\* was disabled by this callback ("done").
SampledEvent == [context : Contexts, len : Lens, state : {"armed", "gone", "done"}]

\* SampleNum; avgDistance is the fraction num / den.
SampleNum == [cur_num : Nat, catchup_num : Nat, num : Nat, den : Nat \ {0}]

Bytes == [Kinds -> Nat]
NoBytes == [k \in Kinds |-> 0]

NewSample == [cur_num |-> 1, catchup_num |-> 0, num |-> 0, den |-> 1]

AccessType == {"LOAD", "STORE", "LOAD_AND_STORE", "UNKNOWN"}

\* A trigger as the callback sees it. overlap is the sign of overlapBytes ("none"
\* negative, "touch" zero, "some" positive) and "far" when an offset of the
\* overlap is more than 16. float: the float comparison applies (type, alignment);
\* equal: the compared values agree. A field the logic never reads has one value.
Triggers ==
    LET Compares == logicType \in {"LOADSPY", "REDSPY", "DUPSPY"}
    IN  [access  : AccessType,
         overlap : {"none", "touch", "some", "far"},
         sameCpu : IF logicType = "FALSESHARE" THEN BOOLEAN ELSE {TRUE},
         float   : IF logicType \in {"LOADSPY", "REDSPY"} THEN BOOLEAN ELSE {FALSE},
         equal   : IF Compares THEN BOOLEAN ELSE {FALSE},
         \* an instruction breakpoint is hit by the sampled instruction
         place   : IF logicType = "DUPSPY" THEN {"same"} ELSE Places,
         empty   : BOOLEAN,  \* the trigger has no back trace
         dist    : Dists]

-----------------------------------------------------------------------------
(* Samples                                                                 *)

Counted(c) ==
    [d \in DOMAIN propAttrTable \cup {c} |->
        IF d \notin DOMAIN propAttrTable THEN NewSample
        ELSE [propAttrTable[d] EXCEPT !.cur_num = IF d = c THEN @ + 1 ELSE @]]

\* addFramesToContextTree from the root: looking a trace up compares it with the
\* child of the same frame, which may be deleted.
StaleLookup(c) ==
    /\ c \in dangling
    /\ fault' = TRUE
    /\ UNCHANGED <<build, events, eventToContextLeafMap, propAttrTable, sampled, dangling,
                   metrics, watchedMetrics, rootMetrics, total, report, reports, raced>>

Witch_OnSample_Callback(c, len) ==
    /\ ~fault
    /\ Cardinality(DOMAIN events) < MaxSamples
    /\ \/ StaleLookup(c)
       \/ LET id == Cardinality(DOMAIN events) + 1
          IN  /\ c \notin dangling
              /\ sampled' = sampled \cup {c}
              /\ eventToContextLeafMap' =
                    [e \in DOMAIN eventToContextLeafMap \cup {id} |->
                        IF e = id THEN c ELSE eventToContextLeafMap[e]]
              /\ propAttrTable' = Counted(c)
              /\ events' = [e \in DOMAIN events \cup {id} |->
                              IF e = id THEN [context |-> c, len |-> len, state |-> "armed"]
                                        ELSE events[e]]
              /\ UNCHANGED <<build, dangling, metrics, watchedMetrics, rootMetrics, total,
                             report, reports, raced, fault>>

\* A sample without a back trace ends at the root and is refused.
SampleRefused ==
    /\ ~fault
    /\ UNCHANGED vars

\* The watchpoint library refuses or replaces a sample, or disables its watchpoint
\* without the callback: no one tells the witch logic.
Forgotten(e) ==
    /\ ~fault
    /\ events[e].state = "armed"
    /\ events' = [events EXCEPT ![e].state = "gone"]
    /\ UNCHANGED <<build, eventToContextLeafMap, propAttrTable, sampled, dangling, metrics,
                   watchedMetrics, rootMetrics, total, report, reports, raced, fault>>

-----------------------------------------------------------------------------
(* Triggers: Witch_OnWP_Callback of the five logics                        *)

\* The access is of a type the logic does not look at: WP_RETAIN.
Retained(t) ==
    \/ logicType = "LOADSPY" /\ t.access \notin {"LOAD", "LOAD_AND_STORE"}
    \/ logicType \in {"REDSPY", "DUPSPY"} /\ t.access \notin {"STORE", "LOAD_AND_STORE"}

UnknownAccess(t) == logicType \in {"DEADSPY", "FALSESHARE"} /\ t.access = "UNKNOWN"

\* The *_INST builds only look at pairs of accesses of one instruction.
OtherInstruction(t) == inst /\ t.place = "other"

\* LoadSpy and RedSpy want bytes in common, at offsets their buffers have ...
NotCommon(t) == t.overlap # "some"

\* ... and DupSpy wants accesses that do not even touch.
NotDisjoint(t) == t.overlap # "none"

\* The tests that come before GetNumDiffSamplesAndReset ...
RejectedEarly(t) ==
    \/ logicType \in {"LOADSPY", "REDSPY"} /\ NotCommon(t)
    \/ logicType = "DUPSPY" /\ NotDisjoint(t)

\* ... and the one that comes after it.
RejectedLate(t) == logicType \in {"DEADSPY", "FALSESHARE"} /\ t.overlap \in {"none", "touch"}

\* A stored value is used by the next access if that loads.
DeadStoreKind(t) ==
    IF t.access \in {"LOAD", "LOAD_AND_STORE"} THEN "USEDBYTES" ELSE "DEADBYTES"

FalseSharingKind(t) == IF t.sameCpu THEN "USEDBYTES" ELSE "DEADBYTES"

\* LoadSpy and RedSpy compare the values, as floats where they can.
RedundantKind(t) ==
    CASE ~t.equal           -> "USEDBYTES"
      [] t.equal /\ t.float -> "APPROXREDBYTES"
      [] OTHER              -> "REDBYTES"

\* DupSpy's float comparison asks for overlapping bytes, which a trigger it accepts
\* has none of: it always compares the bytes.
DuplicateKind(t) == IF t.equal THEN "REDBYTES" ELSE "USEDBYTES"

\* Which bytes a trigger charges.
Kind(t) ==
    CASE logicType = "DEADSPY"    -> DeadStoreKind(t)
      [] logicType = "FALSESHARE" -> FalseSharingKind(t)
      [] logicType = "DUPSPY"     -> DuplicateKind(t)
      [] OTHER                    -> RedundantKind(t)

removeEventContextMapEntry(e) ==
    [f \in DOMAIN eventToContextLeafMap \ {e} |-> eventToContextLeafMap[f]]

\* Mutant: catchup_num is not brought up to date.
CaughtUpNot(c, dist) == propAttrTable

\* Mutant: catching up counts the sample that triggered once more.
CaughtUpPast(c, dist) ==
    [propAttrTable EXCEPT ![c] =
        [cur_num     |-> @.cur_num,
         catchup_num |-> @.cur_num + 1,
         num         |-> @.num + dist * @.den,
         den         |-> @.den * @.cur_num]]

\* The table after GetNumDiffSamplesAndReset.
CaughtUp(c, dist) ==
    [propAttrTable EXCEPT ![c] =
        [cur_num     |-> @.cur_num,
         catchup_num |-> @.cur_num,
         num         |-> @.num + dist * @.den,
         den         |-> @.den * @.cur_num]]

\* The value it returns, times the access length of the sample that triggered.
Inc(e) ==
    LET c == eventToContextLeafMap[e]
    IN  (propAttrTable[c].cur_num - propAttrTable[c].catchup_num) * events[e].len

Disabled(e) == events' = [events EXCEPT ![e].state = "done"]

\* WP_DISABLE with nothing looked up or counted.
OnRejected(e, t) ==
    /\ \/ UnknownAccess(t) /\ eventToContextLeafMap' = removeEventContextMapEntry(e)
       \/ OtherInstruction(t) /\ ~UnknownAccess(t) /\ UNCHANGED eventToContextLeafMap
       \/ /\ ~UnknownAccess(t) /\ ~OtherInstruction(t)
          /\ e \notin DOMAIN eventToContextLeafMap \/ RejectedEarly(t)
          /\ eventToContextLeafMap' = removeEventContextMapEntry(e)
    /\ UNCHANGED <<propAttrTable, metrics, watchedMetrics, total, report, raced>>

Accepted(e, t) ==
    /\ ~UnknownAccess(t) /\ ~OtherInstruction(t) /\ ~RejectedEarly(t)
    /\ e \in DOMAIN eventToContextLeafMap

\* The samples are counted as caught up and nothing is charged.
OnUncharged(e, t) ==
    /\ Accepted(e, t)
    /\ \/ RejectedLate(t)
       \/ logicType \in {"LOADSPY", "REDSPY", "DUPSPY"} /\ Inc(e) = 0
    /\ propAttrTable' = CaughtUp(eventToContextLeafMap[e], t.dist)
    /\ eventToContextLeafMap' = removeEventContextMapEntry(e)
    /\ UNCHANGED <<metrics, watchedMetrics, total, report, raced>>

\* resetWitchLogic does not hold the mutex: each counter that a charge at that
\* moment adds to may keep its old value, lose the old value, or lose both.
RacedTotals(k, inc) ==
    {[n \in Counters |-> CASE n = k -> v [] n = "WATCHEDCOUNT" -> w [] OTHER -> 0] :
        v \in {total[k] + inc, inc, 0}, w \in {total["WATCHEDCOUNT"] + 1, 1, 0}}

\* Mutant: the wasted bytes only go to the trigger's node.
SampledChargeUsed(c, k, inc, twice) ==
    [metrics EXCEPT ![c][k] = IF k = "USEDBYTES" THEN @ + inc ELSE @]

\* What the sampled context is charged: when the trigger has no back trace,
\* the node found for it is the sampled one, which is then charged twice.
SampledCharge(c, k, inc, twice) ==
    [metrics EXCEPT ![c][k] = IF twice THEN @ + inc + inc ELSE @ + inc]

WatchedCharge(c, p, k, inc, none) ==
    IF none THEN watchedMetrics ELSE [watchedMetrics EXCEPT ![c][p][k] = @ + inc]

OnCharged(e, t) ==
    LET c   == eventToContextLeafMap[e]
        k   == Kind(t)
        inc == Inc(e)
    IN  /\ Accepted(e, t)
        /\ ~RejectedLate(t)
        /\ logicType \in {"DEADSPY", "FALSESHARE"} \/ inc # 0
        /\ propAttrTable' = CaughtUp(c, t.dist)
        /\ metrics' = SampledCharge(c, k, inc, k # "USEDBYTES" /\ t.empty)
        /\ watchedMetrics' =
              WatchedCharge(c, t.place, k, inc, k = "USEDBYTES" \/ t.empty)
        /\ eventToContextLeafMap' = removeEventContextMapEntry(e)
        /\ \/ /\ total' = [total EXCEPT ![k] = @ + inc, !["WATCHEDCOUNT"] = @ + 1]
              /\ raced' = (raced \/ report = "reset")
              /\ UNCHANGED report
           \/ /\ report = "reset"
              /\ total' \in RacedTotals(k, inc)
              /\ raced' = TRUE
              /\ report' = "idle"

Witch_OnWP_Callback(e, t) ==
    /\ ~fault
    /\ events[e].state = "armed"
    /\ \/ Retained(t) /\ UNCHANGED vars
       \/ /\ ~Retained(t)
          /\ OnRejected(e, t) \/ OnUncharged(e, t) \/ OnCharged(e, t)
          /\ Disabled(e)
          /\ UNCHANGED <<build, sampled, dangling, rootMetrics, reports, fault>>

-----------------------------------------------------------------------------
(* Reports: printContextTree and cleanContextTree                          *)

\* calculateForAllContext and the deletion walk over the root's children.
StaleWalk ==
    /\ dangling # {}
    /\ fault' = TRUE
    /\ UNCHANGED <<build, events, eventToContextLeafMap, propAttrTable, sampled, dangling,
                   metrics, watchedMetrics, rootMetrics, total, report, reports, raced>>

\* Mutant: every logic's report deletes the tree.
CleansAlways == TRUE

Calculates == inst \/ logicType = "DUPSPY"
Cleans == logicType \in {"DEADSPY", "LOADSPY", "REDSPY"}

\* Only these two are summed; a child with its parent's address is skipped.
SummedUp(c) ==
    [k \in Kinds |-> IF k \in {"REDBYTES", "USEDBYTES"}
                     THEN metrics[c][k] + watchedMetrics[c]["other"][k] ELSE metrics[c][k]]

calculateForAllContext ==
    /\ metrics' = [c \in Contexts |-> SummedUp(c)]
    /\ rootMetrics' =
          [k \in Kinds |-> IF k \in {"REDBYTES", "USEDBYTES"}
                           THEN rootMetrics[k] + SumFunction([c \in sampled |-> SummedUp(c)[k]])
                           ELSE rootMetrics[k]]

printContextTree ==
    /\ ~fault
    /\ report = "idle"
    /\ reports < MaxReports
    /\ \/ Calculates /\ StaleWalk
       \/ /\ ~Calculates \/ dangling = {}
          /\ IF Calculates THEN calculateForAllContext ELSE UNCHANGED <<metrics, rootMetrics>>
          /\ reports' = reports + 1
          /\ report' = IF Cleans THEN "clean" ELSE "idle"
          /\ UNCHANGED <<build, events, eventToContextLeafMap, propAttrTable, sampled,
                         dangling, watchedMetrics, total, raced, fault>>

\* Mutant: the event map survives the cleaning.
MapKept == eventToContextLeafMap

\* eventToContextLeafMap.erase
MapErased == [e \in {} |-> CHOOSE c \in Contexts : TRUE]

\* The nodes are deleted but stay in contextTreeRoot.children.
cleanContextTree ==
    /\ ~fault
    /\ report = "clean"
    /\ \/ StaleWalk
       \/ /\ dangling = {}
          /\ propAttrTable' = [c \in {} |-> NewSample]
          /\ eventToContextLeafMap' = MapErased
          /\ dangling' = sampled
          /\ sampled' = {}
          /\ metrics' = [c \in Contexts |-> NoBytes]
          /\ watchedMetrics' = [c \in Contexts |-> [p \in Places |-> NoBytes]]
          /\ report' = "reset"
          /\ raced' = FALSE
          /\ UNCHANGED <<build, events, rootMetrics, total, reports, fault>>

\* Mutant: the used bytes survive the reset.
NoTotalsButUsed == [n \in Counters |-> IF n = "USEDBYTES" THEN total[n] ELSE 0]

NoTotals == [n \in Counters |-> 0]

resetWitchLogic ==
    /\ ~fault
    /\ report = "reset"
    /\ total' = NoTotals
    /\ report' = "idle"
    /\ UNCHANGED <<build, events, eventToContextLeafMap, propAttrTable, sampled, dangling,
                   metrics, watchedMetrics, rootMetrics, reports, raced, fault>>

-----------------------------------------------------------------------------

Init ==
    /\ build \in Builds
    /\ events = [e \in {} |-> [context |-> CHOOSE c \in Contexts : TRUE, len |-> 1,
                               state |-> "gone"]]
    /\ eventToContextLeafMap = [e \in {} |-> CHOOSE c \in Contexts : TRUE]
    /\ propAttrTable = [c \in {} |-> NewSample]
    /\ sampled = {}
    /\ dangling = {}
    /\ metrics = [c \in Contexts |-> NoBytes]
    /\ watchedMetrics = [c \in Contexts |-> [p \in Places |-> NoBytes]]
    /\ rootMetrics = NoBytes
    /\ total = [n \in Counters |-> 0]
    /\ report = "idle"
    /\ reports = 0
    /\ raced = FALSE
    /\ fault = FALSE

Next ==
    \/ \E c \in Contexts, len \in Lens : Witch_OnSample_Callback(c, len)
    \/ SampleRefused
    \/ \E e \in DOMAIN events : Forgotten(e)
    \/ \E e \in DOMAIN events, t \in Triggers : Witch_OnWP_Callback(e, t)
    \/ printContextTree
    \/ cleanContextTree
    \/ resetWitchLogic

Spec == Init /\ [][Next]_vars

-----------------------------------------------------------------------------
(* Properties                                                              *)

\* A trigger that finds its sample in eventToContextLeafMap finds the sample's own
\* context, with an allocated node and counters in propAttrTable, however reports
\* clean the three in between (GetNumDiffSamplesAndReset's "could not find
\* propattribute entry" never happens).
LeafMapResolves ==
    \A e \in DOMAIN eventToContextLeafMap :
        /\ eventToContextLeafMap[e] = events[e].context
        /\ eventToContextLeafMap[e] \in DOMAIN propAttrTable
        /\ eventToContextLeafMap[e] \in sampled

\* A sample whose watchpoint the callback disabled has left eventToContextLeafMap,
\* so its sample is not charged again; only the early return of the *_INST builds
\* leaves an entry behind.
DisabledIsForgotten ==
    \A e \in DOMAIN eventToContextLeafMap : events[e].state = "done" => inst

\* The totals and the tree describe the same triggers: no report is between its two
\* locked parts and its reset, and no trigger ran in that window.
Settled == report # "reset" /\ ~raced

MaxLen == CHOOSE n \in Lens : \A m \in Lens : m <= n
MinLen == CHOOSE n \in Lens : \A m \in Lens : n <= m

TotalBytes ==
    total["USEDBYTES"] + total["REDBYTES"] + total["APPROXREDBYTES"] + total["DEADBYTES"]

CaughtUpSamples == SumFunction([c \in DOMAIN propAttrTable |-> propAttrTable[c].catchup_num])

\* Proportional attribution charges a sample at most once, with the length of the
\* sample that triggered, and the logics that test before they catch up charge
\* every sample they count as caught up.
ChargedOnce ==
    Settled =>
        /\ TotalBytes <= MaxLen * CaughtUpSamples
        /\ logicType \in {"LOADSPY", "REDSPY", "DUPSPY"} =>
              TotalBytes >= MinLen * CaughtUpSamples

\* No sample is caught up before it is taken, and samples that nobody triggered
\* on stay to be charged: a context is behind by at most its samples.
CatchupBehind ==
    \A c \in DOMAIN propAttrTable :
        /\ propAttrTable[c].catchup_num <= propAttrTable[c].cur_num
        /\ propAttrTable[c].cur_num <= Cardinality({e \in DOMAIN events : events[e].context = c})

\* The contexts of a report account for its totals: used bytes exactly, wasted
\* bytes at least (a trigger without a back trace is charged twice to its sample).
TotalsAttributed ==
    Settled =>
        \A k \in Kinds :
            LET attributed == SumFunction([c \in sampled |-> metrics[c][k]])
            IN  /\ total[k] <= attributed
                /\ k = "USEDBYTES" => total[k] = attributed

\* The triggers below a sampled context never show more bytes than the context.
WatchedWithinSampled ==
    \A c \in Contexts, k \in Kinds :
        watchedMetrics[c]["same"][k] + watchedMetrics[c]["other"][k] <= metrics[c][k]

\* Deleted nodes are met only in the logics whose report deletes the tree and only
\* after a report did: until then every lookup and every walk uses allocated nodes,
\* and a deleted context is never allocated a second time (the pointer left in
\* contextTreeRoot.children is found first, and used).
StaleAfterClean ==
    /\ fault \/ dangling # {} => reports > 0 /\ logicType \in {"DEADSPY", "LOADSPY", "REDSPY"}
    /\ sampled \cap dangling = {}
=============================================================================
