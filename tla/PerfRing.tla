------------------------------ MODULE PerfRing ------------------------------
(***************************************************************************)
(* The ring buffer between the kernel and a device: the kernel writes      *)
(* records at data_head, the device's signal handler copies the ring,      *)
(* parses the new records into one Event and gives the space back by       *)
(* advancing data_tail.  The kernel writes between any two steps of the    *)
(* handler.                                                                *)
(*                                                                         *)
(* The unit is the 8-byte word: every record is a whole number of words.   *)
(* A word is told by the record and the field it belongs to, and carries a *)
(* number where the parser uses its value: a header its size, a counted    *)
(* field the words that follow.                                            *)
(***************************************************************************)
EXTENDS Integers, Sequences

CONSTANTS
    Cap,           \* words in the ring: NUM_MMAP_PAGES * getpagesize() / 8
    SampleTypes,   \* the sample_type of the devices
    Chains,        \* the counts of call chains and other counted fields
    MaxHead,       \* bound: words written
    MaxLimit,      \* bound: samples a device is armed for
    MaxSignals,    \* bound: queued signals of a device without a limit
    MaxLost        \* bound: records lost in a row

VARIABLES
    rb,                           \* the ring and the kernel's side of it
    data_tail,                    \* where the reader is, in the mapped control page
    throttled,                    \* the kernel has throttled the event
    sample_type,                  \* pe_attr.sample_type of the device
    enabled, limit,               \* the event counts; its event_limit, 0: none
    signals,                      \* signals queued for the device
    loose,                        \* history: armed again before it was served
    dropped,                      \* history: a signal came in unsafe code
    pc, read_head, head, data, offset, event,    \* the handler's own
    parsed                        \* history: records parsed

kernel == <<rb, throttled, sample_type>>
device == <<enabled, limit, signals, loose, dropped>>
reader == <<pc, read_head, head, data, offset, event, parsed>>
vars == <<kernel, device, reader, data_tail>>

Word(r, f, n) == [rec |-> r, field |-> f, n |-> n]
Blank == Word(0, "blank", 0)
Empty == [i \in 0 .. Cap - 1 |-> Blank]

\* The fields of an Event; uninitialised until the parser sets them.
Kept == {"IP", "TID", "TIME", "ADDR", "CPU"}
NewEvent == [f \in Kept |-> Blank]

-----------------------------------------------------------------------------
(***************************************************************************)
(* The kernel's side of the layout (external).                             *)
(***************************************************************************)
KernelOrder == <<"IDENTIFIER", "IP", "TID", "TIME", "ADDR", "ID", "STREAM_ID",
                 "CPU", "PERIOD", "READ", "CALLCHAIN", "RAW", "BRANCH_STACK",
                 "REGS_USER", "STACK_USER", "WEIGHT", "DATA_SRC", "TRANSACTION",
                 "REGS_INTR">>

Counted == {"CALLCHAIN", "RAW", "BRANCH_STACK", "STACK_USER"}

\* The words of one field of a sample with n entries.
KernelWords(f, n) ==
    CASE f \notin Counted           -> 1
      [] f = "BRANCH_STACK"         -> 1 + 3 * n
      [] f = "STACK_USER"           -> IF n = 0 THEN 1 ELSE 2 + n
      [] f \in {"CALLCHAIN", "RAW"} -> 1 + n

\* Where each field of a sample starts, after the header at 0; last, its size.
KernelStart(type, n) ==
    LET start[k \in 1 .. Len(KernelOrder) + 1] ==
            IF k = 1 THEN 1
            ELSE IF KernelOrder[k - 1] \in type
                 THEN start[k - 1] + KernelWords(KernelOrder[k - 1], n)
                 ELSE start[k - 1]
    IN  start

\* The records other than samples; none has a sample_id.
KernelSize == [LOST |-> 3, THROTTLE |-> 4, UNTHROTTLE |-> 4]

Size(type, kind, n) ==
    IF kind = "SAMPLE" THEN KernelStart(type, n)[Len(KernelOrder) + 1] ELSE KernelSize[kind]

ASSUME RingAssumption ==
    /\ Cap \in Nat \ {0} /\ Chains \subseteq Nat /\ Chains # {}
    /\ MaxHead \in Nat /\ MaxSignals \in Nat /\ MaxLost \in Nat
    /\ MaxLimit \in Nat /\ MaxSignals <= MaxLimit

\* The fields of one word and the call chain, which the kernel writes and the parser reads
\* in the same order. The devices ask for five or six of them, the instruction pointer
\* always.
SameOrder == {"IP", "TID", "TIME", "ADDR", "ID", "STREAM_ID", "CPU", "PERIOD", "CALLCHAIN"}

ASSUME LayoutAssumption ==
    \A type \in SampleTypes : "IP" \in type /\ type \subseteq SameOrder

\* The ring, 4096 words with pages of 4 kilobytes, holds a sample between an UNTHROTTLE
\* and a THROTTLE record before and an UNTHROTTLE record after it: a call chain has at
\* most some hundred entries.
ASSUME RoomAssumption ==
    \A type \in SampleTypes, n \in Chains :
        Size(type, "SAMPLE", n) + 3 * KernelSize["THROTTLE"] <= Cap

\* The words of record r.
Record(type, r, kind, n) ==
    LET start == KernelStart(type, n)
        Fields(j) == {k \in 1 .. Len(KernelOrder) :
                        kind = "SAMPLE" /\ KernelOrder[k] \in type /\ start[k] = j}
        field(j)  == KernelOrder[CHOOSE k \in Fields(j) : TRUE]
    IN  [j \in 0 .. Size(type, kind, n) - 1 |->
           IF j = 0 THEN Word(r, kind, Size(type, kind, n))
           ELSE IF Fields(j) = {} THEN Word(r, "entry", 0)
           ELSE Word(r, field(j), IF field(j) \in Counted THEN n ELSE 0)]

\* The buffer b with one more record.
Put(b, kind, n) ==
    LET words == Record(sample_type, b.written + 1, kind, n)
        sz    == Size(sample_type, kind, n)
    IN
    [b EXCEPT !.ring = [i \in 0 .. Cap - 1 |->
                          LET k == (i - b.data_head) % Cap
                          IN  IF k < sz THEN words[k] ELSE b.ring[i]],
              !.data_head = @ + sz,
              !.written = @ + 1,
              !.samples = IF kind = "SAMPLE" THEN @ \cup {b.written + 1} ELSE @]

\* A record that fits is written after the LOST record that is due, if any; one that
\* does not is counted as lost.
Output(b, kind, n) ==
    LET due == IF b.lost > 0 THEN Put(b, "LOST", 0) ELSE b
    IN  IF due.data_head + Size(sample_type, kind, n) - data_tail <= Cap
        THEN [Put(due, kind, n) EXCEPT !.lost = 0]
        ELSE [b EXCEPT !.lost = @ + 1]

Bounded(b) == b.data_head <= MaxHead /\ b.lost <= MaxLost

\* The event overflows: the kernel may throttle it, writes a sample, queues a
\* signal, and disables the event when its limit is reached.
Overflow(throttle, n) ==
    /\ enabled
    /\ limit > 0 \/ signals < MaxSignals
    /\ throttle => ~throttled
    /\ rb' = Output(IF throttle THEN Output(rb, "THROTTLE", 0) ELSE rb, "SAMPLE", n)
    /\ Bounded(rb')
    /\ throttled' = (throttled \/ throttle)
    /\ signals' = signals + 1
    /\ limit' = IF limit > 0 THEN limit - 1 ELSE 0
    /\ enabled' = (limit # 1)
    /\ UNCHANGED <<sample_type, loose, dropped, reader, data_tail>>

\* A later tick lets it count again: a record without a signal.
Unthrottle ==
    /\ throttled
    /\ throttled' = FALSE
    /\ rb' = Output(rb, "UNTHROTTLE", 0)
    /\ Bounded(rb')
    /\ UNCHANGED <<sample_type, device, reader, data_tail>>

\* PERF_EVENT_IOC_DISABLE leaves the limit alone.
disable_device == enabled' = FALSE /\ UNCHANGED limit

enable_device_twice ==
    /\ limit' = limit + 2
    /\ enabled' = TRUE
    /\ loose' = (loose \/ enabled \/ limit > 0 \/ signals > 0)

\* PERF_EVENT_IOC_REFRESH adds one to it and enables.
enable_device ==
    /\ limit' = limit + 1
    /\ enabled' = TRUE
    /\ loose' = (loose \/ enabled \/ limit > 0 \/ signals > 0)
-----------------------------------------------------------------------------
(***************************************************************************)
(* The signal handler.                                                     *)
(***************************************************************************)
Init ==
    /\ rb = [ring |-> Empty, data_head |-> 0, lost |-> 0, written |-> 0, samples |-> {}]
    /\ data_tail = 0
    /\ sample_type \in SampleTypes /\ throttled = FALSE
    /\ enabled \in BOOLEAN /\ limit = 0 /\ signals = 0
    /\ loose = enabled /\ dropped = FALSE
    /\ pc = "idle" /\ read_head = 0 /\ head = 0 /\ offset = 0
    /\ data = Empty /\ event = NewEvent /\ parsed = 0

\* The handler of another device of the thread pauses and resumes this one.
OthersPause ==
    /\ pc = "idle" /\ limit + signals < MaxLimit
    /\ pc' = "others"
    /\ disable_device
    /\ UNCHANGED <<kernel, signals, loose, dropped, read_head, head, data, offset, event,
                   parsed, data_tail>>

OthersResume ==
    /\ pc = "others"
    /\ pc' = "idle"
    /\ enable_device
    /\ UNCHANGED <<kernel, signals, dropped, read_head, head, data, offset, event,
                   parsed, data_tail>>

\* generic_dev_signal_handler for this device: pause every device.
Signal ==
    /\ pc = "idle" /\ signals > 0
    /\ signals' = signals - 1
    /\ pc' = "paused"
    /\ disable_device
    /\ UNCHANGED <<kernel, loose, dropped, read_head, head, data, offset, event,
                   parsed, data_tail>>

\* The signal came in signal-unsafe code: resume and return.
Unsafe ==
    /\ pc = "paused"
    /\ pc' = "idle"
    /\ dropped' = TRUE
    /\ enable_device
    /\ UNCHANGED <<kernel, signals, read_head, head, data, offset, event, parsed,
                   data_tail>>

\* handle_perf_event makes an Event and calls perf_mmap_read, which loads
\* data_head.
ReadHead ==
    /\ pc = "paused"
    /\ pc' = "copy"
    /\ event' = NewEvent
    /\ head' = rb.data_head
    /\ offset' = 0
    /\ UNCHANGED <<kernel, device, read_head, data, parsed, data_tail>>

size == head - read_head
prev_head_wrap == read_head % Cap

\* The two memcpys rotate the ring so that it starts at the first new record.
CopyEnd ==
    /\ pc = "copy"
    /\ pc' = "wrap"
    /\ data' = [i \in 0 .. Cap - 1 |->
                  IF i < Cap - prev_head_wrap THEN rb.ring[prev_head_wrap + i]
                                              ELSE data[i]]
    /\ UNCHANGED <<kernel, device, read_head, head, offset, event, parsed, data_tail>>

CopyStart ==
    /\ pc = "wrap"
    /\ pc' = "parse"
    /\ data' = [i \in 0 .. Cap - 1 |->
                  IF i < Cap - prev_head_wrap THEN data[i]
                                              ELSE rb.ring[i - (Cap - prev_head_wrap)]]
    /\ UNCHANGED <<kernel, device, read_head, head, offset, event, parsed, data_tail>>

\* What the parser reads at a word; past the copy it reads anything.
At(i) == IF i < Cap THEN data[i] ELSE Blank

\* The words the parser takes for one field of a sample, of which it has read
\* the first.
FieldSize(f, w) ==
    CASE f \in {"CALLCHAIN", "RAW"}                -> 1 + w.n
      [] f = "BRANCH_STACK"                        -> 1 + 3 * w.n
      [] f = "STACK_USER"                          -> 2 + w.n
      [] OTHER                                     -> 1

ParserOrderIdFirst ==
    <<"IP", "TID", "TIME", "ID", "ADDR", "STREAM_ID", "CPU", "PERIOD", "READ",
      "CALLCHAIN">>

ParserOrder == <<"IP", "TID", "TIME", "ADDR", "ID", "STREAM_ID", "CPU", "PERIOD",
                 "READ", "CALLCHAIN", "RAW", "BRANCH_STACK", "REGS_USER",
                 "REGS_INTR", "STACK_USER", "WEIGHT", "DATA_SRC", "IDENTIFIER",
                 "TRANSACTION">>

\* Where the parser finds each field of a sample, one after the other; last, the
\* next record.
ParserStart(from) ==
    LET start[k \in 1 .. Len(ParserOrder) + 1] ==
            IF k = 1 THEN from
            ELSE IF ParserOrder[k - 1] \in sample_type
                 THEN start[k - 1] + FieldSize(ParserOrder[k - 1], At(start[k - 1]))
                 ELSE start[k - 1]
    IN  start

\* The Event with the fields it keeps.
ParsedEvent(start) ==
    [f \in Kept |->
        IF f \in sample_type
        THEN At(start[CHOOSE k \in 1 .. Len(ParserOrder) : ParserOrder[k] = f])
        ELSE event[f]]

RecordSizeNoId(w) ==
    CASE w.field \in {"COMM", "MMAP", "MMAP2"} -> w.n
      [] w.field \in {"FORK", "EXIT"}         -> 4
      [] OTHER                                -> 3

\* The words the parser takes for any other record, header included: what the
\* header says for the records that end in a string, otherwise what it expects.
StringRecords == {"COMM", "MMAP", "MMAP2"}
TaskRecords == {"FORK", "EXIT", "THROTTLE", "UNTHROTTLE"}
LaterRecords == [AUX |-> 5, ITRACE_START |-> 2, LOST_SAMPLES |-> 3, SWITCH |-> 2,
                 SWITCH_CPU_WIDE |-> 3]

RecordSize(w) ==
    CASE w.field \in StringRecords       -> w.n
      [] w.field \in TaskRecords         -> 4
      [] w.field \in DOMAIN LaterRecords -> LaterRecords[w.field]
      [] w.field = "LOST"                -> 3
      [] OTHER                           -> 1

ParseRecord ==
    LET w == At(offset) IN
    /\ pc = "parse" /\ offset < size
    /\ IF w.field = "SAMPLE"
       THEN LET start == ParserStart(offset + 1)
            IN  /\ offset' = start[Len(ParserOrder) + 1]
                /\ event' = ParsedEvent(start)
       ELSE offset' = offset + RecordSize(w) /\ UNCHANGED event
    /\ parsed' = parsed + 1
    /\ UNCHANGED <<kernel, device, pc, read_head, head, data, data_tail>>

ReleaseAfterOne ==
    /\ pc = "parse" /\ (offset > 0 \/ size = 0)
    /\ pc' = "deliver"
    /\ data_tail' = head
    /\ read_head' = head
    /\ data' = Empty
    /\ UNCHANGED <<kernel, device, head, offset, event, parsed>>

\* data_tail gives the space back, and read_head is where the next read starts.
Release ==
    /\ pc = "parse" /\ offset >= size
    /\ pc' = "deliver"
    /\ data_tail' = head
    /\ read_head' = head
    /\ data' = Empty
    /\ UNCHANGED <<kernel, device, head, offset, event, parsed>>

\* The tool handles the event, the devices are resumed and the handler is left.
Deliver ==
    /\ pc = "deliver"
    /\ pc' = "idle"
    /\ enable_device
    /\ head' = 0 /\ offset' = 0 /\ event' = NewEvent
    /\ UNCHANGED <<kernel, signals, dropped, read_head, data, parsed, data_tail>>

Handler == Signal \/ ReadHead \/ CopyEnd \/ CopyStart \/ ParseRecord \/ Release \/ Deliver

Next ==
    \/ \E throttle \in BOOLEAN, n \in Chains : Overflow(throttle, n)
    \/ Unthrottle
    \/ OthersPause \/ OthersResume \/ Unsafe
    \/ Handler

Spec == Init /\ [][Next]_vars

\* A handler that has started goes on, and a queued signal is delivered.
FairSpec == Spec /\ WF_vars(Handler) /\ WF_vars(OthersResume)

-----------------------------------------------------------------------------
(***************************************************************************)
(* perf_mmap_read never looks at event->size: it finds the next record by  *)
(* adding up the fields it expects.  Over wraps of the ring, records of    *)
(* several kinds in one read and the kernel writing meanwhile, the parser  *)
(* always stands on the header of the record after the last one it parsed, *)
(* and it ends exactly at the head it read, with every record before it    *)
(* parsed once.                                                            *)
(***************************************************************************)
ParsedOnce ==
    pc = "parse" =>
        IF offset < size
        THEN At(offset).rec = parsed + 1 /\ At(offset).field # "entry"
        ELSE /\ offset = size
             /\ \A i \in 0 .. size - 1 : data[i].rec <= parsed
             /\ size > 0 => data[size - 1].rec = parsed

(***************************************************************************)
(* The Event that the device hands to the tool is one sample, the newest   *)
(* that was read: no field is left over from an earlier sample of the same *)
(* read or taken from the wrong word, whatever the sample_type.            *)
(***************************************************************************)
EventWhole ==
    pc = "deliver" /\ event["IP"] # Blank =>
        LET r == event["IP"].rec IN
        /\ \A f \in Kept \cap sample_type : event[f] = Word(r, f, 0)
        /\ \A q \in rb.samples : q <= parsed => q <= r

(***************************************************************************)
(* Event() leaves its fields uninitialised, so a read that finds no sample *)
(* hands the tool an address that was never sampled.  A device that is     *)
(* only armed (PERF_EVENT_IOC_REFRESH, 1) when its limit is used up and    *)
(* its signals are served never does: each signal finds a sample, and the  *)
(* ring overflows only if signals were dropped in signal-unsafe code.      *)
(***************************************************************************)
NoEmptyEvent ==
    /\ pc = "deliver" /\ event["IP"] = Blank => loose
    /\ rb.lost > 0 => loose \/ dropped

(***************************************************************************)
(* Every sample in the ring is eventually parsed, unless its signal came   *)
(* in signal-unsafe code (generic_dev_signal_handler returns at once and   *)
(* the sample waits for the next signal, which may never come).            *)
(***************************************************************************)
Unread == {r \in rb.samples : r > parsed}

SampleRead == (Unread # {}) ~> (Unread = {} \/ dropped)
=============================================================================
