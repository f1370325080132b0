--------------------------- MODULE PerfRingProofs ---------------------------
(***************************************************************************)
(* Proofs about the ring buffer between the kernel and a device, for every *)
(* size of the ring, every set of sample types whose fields the parser and *)
(* the kernel order alike, every length of call chains and any number of   *)
(* records: the parser stays on the records although it never looks at     *)
(* their sizes, an Event is one sample, and a device that is armed only    *)
(* when it was served never hands out an empty one.                        *)
(***************************************************************************)
EXTENDS PerfRing, WellFoundedInduction, TLAPS

-----------------------------------------------------------------------------
(* Positions modulo the size of the ring                                   *)

LEMMA ModFacts ==
    ASSUME NEW a \in Int
    PROVE  /\ a % Cap \in 0 .. Cap - 1
           /\ a \div Cap \in Int
           /\ a = Cap * (a \div Cap) + (a % Cap)
  <1>1. Cap \in Nat \ {0}
    BY RingAssumption
  <1>2. a % Cap \in 0 .. Cap - 1
    BY <1>1
  <1>3. a \div Cap \in Int
    BY <1>1
  <1>4. a = Cap * (a \div Cap) + (a % Cap)
    BY <1>1
  <1>5. QED  BY <1>2, <1>3, <1>4

LEMMA ModUnique ==
    ASSUME NEW q \in Int, NEW r \in 0 .. Cap - 1
    PROVE  (Cap * q + r) % Cap = r
  BY RingAssumption

\* Put looks at a word of the ring from the head: a word still to be written is as far
\* from it as its position, a word that is in the ring is one round further.
LEMMA FromHead ==
    ASSUME NEW p \in Int, NEW h \in Int
    PROVE  /\ p - h \in 0 .. Cap - 1 => ((p % Cap) - h) % Cap = p - h
           /\ h - p \in 1 .. Cap => ((p % Cap) - h) % Cap = Cap - (h - p)
  <1>0. PICK m, q : m = p % Cap /\ q = p \div Cap
    OBVIOUS
  <1>1. q \in Int /\ m \in Int /\ p = Cap * q + m /\ Cap \in Int
    BY <1>0, ModFacts, RingAssumption
  <1>2. Cap * (0 - q) \in Int /\ Cap * (0 - q) = 0 - Cap * q
    BY <1>1
  <1>3. Cap * (0 - q - 1) = 0 - Cap * q - Cap
    BY <1>1
  <1>4. Cap * q \in Int /\ 0 - q \in Int /\ 0 - q - 1 \in Int
    BY <1>1
  <1>5. m - h = Cap * (0 - q) + (p - h)
    BY <1>1, <1>2, <1>4
  <1>6. m - h = Cap * (0 - q - 1) + (Cap - (h - p))
    BY <1>1, <1>3, <1>4
  <1>7. ASSUME p - h \in 0 .. Cap - 1  PROVE (m - h) % Cap = p - h
    <2>1. (Cap * (0 - q) + (p - h)) % Cap = p - h
      BY <1>4, <1>7, ModUnique
    <2>2. QED  BY <1>5, <2>1
  <1>8. ASSUME h - p \in 1 .. Cap  PROVE (m - h) % Cap = Cap - (h - p)
    <2>1. Cap - (h - p) \in 0 .. Cap - 1
      BY <1>1, <1>8
    <2>2. (Cap * (0 - q - 1) + (Cap - (h - p))) % Cap = Cap - (h - p)
      BY <1>4, <2>1, ModUnique
    <2>3. QED  BY <1>6, <2>2
  <1>9. QED  BY <1>0, <1>7, <1>8

\* The two memcpys of perf_mmap_read: where word i of the copy comes from.
LEMMA Rotated ==
    ASSUME NEW h \in Nat, NEW i \in 0 .. Cap - 1
    PROVE  (h + i) % Cap = IF i < Cap - (h % Cap) THEN (h % Cap) + i ELSE i - (Cap - (h % Cap))
  <1>0. PICK m, q : m = h % Cap /\ q = h \div Cap
    OBVIOUS
  <1>1. q \in Int /\ m \in 0 .. Cap - 1 /\ h = Cap * q + m /\ Cap \in Int /\ i \in Int
    BY <1>0, ModFacts, RingAssumption
  <1>2. Cap * q \in Int /\ Cap * (q + 1) = Cap * q + Cap /\ q + 1 \in Int
    BY <1>1
  <1>3. ASSUME i < Cap - m  PROVE (h + i) % Cap = m + i
    <2>1. h + i = Cap * q + (m + i) /\ m + i \in 0 .. Cap - 1
      BY <1>1, <1>2, <1>3
    <2>2. (Cap * q + (m + i)) % Cap = m + i
      BY <1>1, <2>1, ModUnique
    <2>3. QED  BY <2>1, <2>2
  <1>4. ASSUME ~(i < Cap - m)  PROVE (h + i) % Cap = i - (Cap - m)
    <2>1. h + i = Cap * (q + 1) + (i - (Cap - m)) /\ i - (Cap - m) \in 0 .. Cap - 1
      BY <1>1, <1>2, <1>4
    <2>2. (Cap * (q + 1) + (i - (Cap - m))) % Cap = i - (Cap - m)
      BY <1>2, <2>1, ModUnique
    <2>3. QED  BY <2>1, <2>2
  <1>5. QED  BY <1>0, <1>3, <1>4

-----------------------------------------------------------------------------
(* The layout of a sample                                                  *)

\* Induction over 1 .. N + 1, the property given as the set Good.
LEMMA CountUp ==
    ASSUME NEW N \in Nat, NEW Good, 1 \in Good, \A k \in 1 .. N : k \in Good => k + 1 \in Good
    PROVE  1 .. N + 1 \subseteq Good
  <1> DEFINE Bad == {k \in 1 .. N + 1 : k \notin Good}
  <1> SUFFICES ASSUME Bad # {} PROVE FALSE
    OBVIOUS
  <1>1. Bad \subseteq Nat
    OBVIOUS
  <1> HIDE DEF Bad
  <1>2. PICK m \in Bad : \A k \in Bad : ~ (<<k, m>> \in OpToRel(<, Nat))
    BY <1>1, NatLessThanWellFounded, WFMin
  <1>3. \A k \in Bad : ~(k < m)
    BY <1>1, <1>2 DEF OpToRel
  <1>4. m \in 1 .. N + 1 /\ m # 1 /\ m - 1 \in 1 .. N /\ m - 1 \notin Bad
    BY <1>3 DEF Bad
  <1>5. QED  BY <1>4 DEF Bad

\* The number of fields, and that the parser reads the first 13 as the kernel orders them.
LEMMA Orders ==
    /\ Len(KernelOrder) = 19 /\ Len(ParserOrder) = 19
    /\ \A k \in 1 .. 13 : KernelOrder[k + 1] = ParserOrder[k]
    /\ \A k \in 14 .. 19 : ParserOrder[k] \notin SameOrder
    /\ \A k \in {1} \cup 15 .. 19 : KernelOrder[k] \notin SameOrder
  BY DEF KernelOrder, ParserOrder, SameOrder

LEMMA PositiveWords ==
    ASSUME NEW f, NEW n \in Nat
    PROVE  KernelWords(f, n) \in Nat \ {0}
  BY DEF KernelWords, Counted

\* One step of the walk along the fields.
Along(type, n, f, k) ==
    IF k = 1 THEN 1
    ELSE IF KernelOrder[k - 1] \in type THEN f[k - 1] + KernelWords(KernelOrder[k - 1], n)
                                        ELSE f[k - 1]

\* The walk is defined: it can be continued field by field.
LEMMA WalkDefined ==
    ASSUME NEW type, NEW n \in Nat
    PROVE  \E f \in [1 .. 20 -> Nat] : f = [k \in 1 .. 20 |-> Along(type, n, f, k)]
  <1> DEFINE Solved(m) == \E f \in [1 .. m -> Nat] : f = [k \in 1 .. m |-> Along(type, n, f, k)]
             Good == {m \in 1 .. 20 : Solved(m)}
  <1>1. 1 \in Good
    <2> DEFINE f == [k \in 1 .. 1 |-> 1]
    <2>1. f \in [1 .. 1 -> Nat] /\ f = [k \in 1 .. 1 |-> Along(type, n, f, k)]
      BY DEF Along
    <2>2. QED  BY <2>1
  <1>2. ASSUME NEW m \in 1 .. 19, m \in Good  PROVE m + 1 \in Good
    <2>1. PICK f \in [1 .. m -> Nat] : f = [k \in 1 .. m |-> Along(type, n, f, k)]
      BY <1>2
    <2> DEFINE g == [k \in 1 .. m + 1 |-> Along(type, n, f, k)]
    <2>2. \A k \in 1 .. m : g[k] = f[k]
      BY <2>1
    <2>3. \A k \in 1 .. m + 1 : Along(type, n, f, k) = Along(type, n, g, k)
      <3> HIDE DEF g
      <3>1. \A k \in 1 .. m + 1 : k # 1 => k - 1 \in 1 .. m
        OBVIOUS
      <3>2. QED  BY <2>2, <3>1 DEF Along
    <2>4. \A k \in 1 .. m + 1 : Along(type, n, f, k) \in Nat
      <3>1. \A k \in 1 .. m + 1 : k # 1 => k - 1 \in 1 .. m
        OBVIOUS
      <3>2. \A k \in 1 .. m : f[k] \in Nat
        OBVIOUS
      <3>3. QED  BY <3>1, <3>2, PositiveWords DEF Along
    <2>5. g \in [1 .. m + 1 -> Nat] /\ g = [k \in 1 .. m + 1 |-> Along(type, n, g, k)]
      <3> HIDE DEF Along
      <3>1. QED  BY <2>3, <2>4
    <2> HIDE DEF g
    <2>6. Solved(m + 1)
      BY <2>5
    <2>7. QED  BY <2>6
  <1>3. 1 .. 19 + 1 \subseteq Good
    <2> HIDE DEF Good
    <2>1. QED  BY <1>1, <1>2, CountUp
  <1>4. QED  BY <1>3

\* What KernelStart is.
LEMMA StartFacts ==
    ASSUME NEW type, NEW n \in Nat
    PROVE  /\ KernelStart(type, n) \in [1 .. 20 -> Nat]
           /\ KernelStart(type, n)[1] = 1
           /\ \A k \in 1 .. 19 : KernelStart(type, n)[k + 1] =
                 IF KernelOrder[k] \in type
                 THEN KernelStart(type, n)[k] + KernelWords(KernelOrder[k], n)
                 ELSE KernelStart(type, n)[k]
  <1> DEFINE K == CHOOSE f : f = [k \in 1 .. 20 |-> Along(type, n, f, k)]
  <1>1. KernelStart(type, n) = K
    BY Orders DEF KernelStart, Along
  <1>2. PICK f \in [1 .. 20 -> Nat] : f = [k \in 1 .. 20 |-> Along(type, n, f, k)]
    BY WalkDefined
  <1>3. K = [k \in 1 .. 20 |-> Along(type, n, K, k)]
    BY <1>2
  <1> HIDE DEF K
  <1>4. K[1] = 1
    BY <1>3 DEF Along
  <1>5. \A k \in 1 .. 19 : K[k + 1] = IF KernelOrder[k] \in type
                                      THEN K[k] + KernelWords(KernelOrder[k], n) ELSE K[k]
    <2> SUFFICES ASSUME NEW k \in 1 .. 19
                 PROVE  K[k + 1] = IF KernelOrder[k] \in type
                                   THEN K[k] + KernelWords(KernelOrder[k], n) ELSE K[k]
      OBVIOUS
    <2>1. k + 1 \in 1 .. 20 /\ k + 1 # 1 /\ (k + 1) - 1 = k
      OBVIOUS
    <2>2. K[k + 1] = Along(type, n, K, k + 1)
      BY <1>3, <2>1
    <2>3. QED  BY <2>1, <2>2 DEF Along
  <1>6. K \in [1 .. 20 -> Nat]
    <2> DEFINE Good == {k \in 1 .. 20 : K[k] \in Nat}
    <2>1. 1 \in Good
      BY <1>4
    <2>2. ASSUME NEW k \in 1 .. 19, k \in Good  PROVE k + 1 \in Good
      BY <1>5, <2>2, PositiveWords
    <2>3. 1 .. 19 + 1 \subseteq Good
      <3> HIDE DEF Good
      <3>1. QED  BY <2>1, <2>2, CountUp
    <2>4. \A k \in 1 .. 20 : K[k] \in Nat
      BY <2>3
    <2>5. QED  BY <1>3, <2>4
  <1>7. QED  BY <1>1, <1>4, <1>5, <1>6

\* The fields follow each other.
LEMMA Later ==
    ASSUME NEW type, NEW n \in Nat
    PROVE  \A m \in 1 .. 20 : \A k \in 1 .. m :
              KernelStart(type, n)[k] <= KernelStart(type, n)[m]
  <1>1. PICK K : K = KernelStart(type, n)
    OBVIOUS
  <1>2. K \in [1 .. 20 -> Nat]
    BY <1>1, StartFacts
  <1>3. \A k \in 1 .. 19 : K[k] <= K[k + 1]
    <2> TAKE k \in 1 .. 19
    <2>1. K[k + 1] = IF KernelOrder[k] \in type THEN K[k] + KernelWords(KernelOrder[k], n)
                                                ELSE K[k]
      BY <1>1, StartFacts
    <2>2. KernelWords(KernelOrder[k], n) \in Nat
      BY PositiveWords
    <2>3. QED  BY <1>2, <2>1, <2>2
  <1> DEFINE Good == {m \in 1 .. 20 : \A k \in 1 .. m : K[k] <= K[m]}
  <1>4. 1 \in Good
    BY <1>2
  <1>5. ASSUME NEW m \in 1 .. 19, m \in Good  PROVE m + 1 \in Good
    <2>1. \A k \in 1 .. m + 1 : k \in 1 .. m \/ k = m + 1
      OBVIOUS
    <2>2. \A k \in 1 .. m + 1 : K[k] \in Nat /\ K[m] \in Nat /\ K[m + 1] \in Nat
      BY <1>2
    <2>3. \A k \in 1 .. m + 1 : K[k] <= K[m + 1]
      BY <1>3, <1>5, <2>1, <2>2
    <2>4. QED  BY <2>3
  <1>6. 1 .. 19 + 1 \subseteq Good
    <2> HIDE DEF Good
    <2>1. QED  BY <1>4, <1>5, CountUp
  <1>7. QED  BY <1>1, <1>6

\* A field is over before the next one starts.
LEMMA FieldEnds ==
    ASSUME NEW type, NEW n \in Nat, NEW k \in 1 .. 19, KernelOrder[k] \in type,
           NEW m \in k + 1 .. 20
    PROVE  /\ KernelStart(type, n)[k] + KernelWords(KernelOrder[k], n) <= KernelStart(type, n)[m]
           /\ KernelStart(type, n)[k] < KernelStart(type, n)[m]
  <1>1. KernelStart(type, n)[k + 1] = KernelStart(type, n)[k] + KernelWords(KernelOrder[k], n)
    BY StartFacts
  <1>2. KernelStart(type, n)[k + 1] <= KernelStart(type, n)[m]
    BY Later
  <1>3. /\ KernelStart(type, n)[k] \in Nat /\ KernelStart(type, n)[m] \in Nat
        /\ KernelWords(KernelOrder[k], n) \in Nat \ {0}
    BY StartFacts, PositiveWords
  <1>4. QED  BY <1>1, <1>2, <1>3

Kinds == {"SAMPLE"} \cup DOMAIN KernelSize

LEMMA SizeFacts ==
    ASSUME NEW type, NEW kind \in Kinds, NEW n \in Nat
    PROVE  Size(type, kind, n) \in Nat \ {0}
  <1>1. KernelStart(type, n)[20] \in Nat /\ KernelStart(type, n)[1] = 1
    BY StartFacts
  <1>2. KernelStart(type, n)[1] <= KernelStart(type, n)[20]
    BY Later
  <1>3. QED  BY <1>1, <1>2, Orders DEF Size, Kinds, KernelSize

\* Every word of a record says which record it is part of, and the first is its header.
LEMMA RecordWords ==
    ASSUME NEW type, NEW r, NEW kind \in Kinds, NEW n \in Nat
    PROVE  /\ Record(type, r, kind, n)[0] = Word(r, kind, Size(type, kind, n))
           /\ \A j \in 0 .. Size(type, kind, n) - 1 : Record(type, r, kind, n)[j].rec = r
  BY SizeFacts DEF Record, Word

\* The number in the first word of a field.
Entries(f, n) == IF f \in Counted THEN n ELSE 0

\* The word at the start of a field of a sample.
LEMMA FieldWord ==
    ASSUME NEW type, NEW r, NEW n \in Nat, NEW k \in 1 .. 19, KernelOrder[k] \in type
    PROVE  /\ KernelStart(type, n)[k] \in 1 .. Size(type, "SAMPLE", n) - 1
           /\ Record(type, r, "SAMPLE", n)[KernelStart(type, n)[k]] =
                 Word(r, KernelOrder[k], Entries(KernelOrder[k], n))
  <1>1. PICK K : K = KernelStart(type, n)
    OBVIOUS
  <1>2. K \in [1 .. 20 -> Nat] /\ K[1] = 1 /\ Size(type, "SAMPLE", n) = K[20]
    BY <1>1, StartFacts, Orders DEF Size
  <1>3. K[1] <= K[k] /\ K[k] < K[20]
    BY <1>1, Later, FieldEnds
  <1>4. K[k] \in 1 .. K[20] - 1
    BY <1>2, <1>3
  <1>5. ASSUME NEW m \in 1 .. 19, KernelOrder[m] \in type, K[m] = K[k]  PROVE m = k
    <2>1. CASE m < k
      <3>1. K[m] < K[k]
        BY <1>1, <1>5, <2>1, FieldEnds
      <3>2. QED  BY <1>2, <1>5, <3>1
    <2>2. CASE k < m
      <3>1. K[k] < K[m]
        BY <1>1, <2>2, FieldEnds
      <3>2. QED  BY <1>2, <1>5, <3>1
    <2>3. QED  BY <2>1, <2>2
  <1> DEFINE F == {m \in 1 .. 19 : KernelOrder[m] \in type /\ K[m] = K[k]}
  <1>6. F = {k}
    BY <1>5
  <1>7. (CHOOSE m \in F : TRUE) = k
    BY <1>6
  <1>8. Record(type, r, "SAMPLE", n)[K[k]] =
           IF F = {} THEN Word(r, "entry", 0)
           ELSE Word(r, KernelOrder[CHOOSE m \in F : TRUE],
                     IF KernelOrder[CHOOSE m \in F : TRUE] \in Counted THEN n ELSE 0)
    <2> DEFINE G(j) == {m \in 1 .. Len(KernelOrder) :
                         "SAMPLE" = "SAMPLE" /\ KernelOrder[m] \in type
                           /\ KernelStart(type, n)[m] = j}
               g(j) == KernelOrder[CHOOSE m \in G(j) : TRUE]
    <2>1. F = G(K[k])
      BY <1>1, Orders
    <2>2. Record(type, r, "SAMPLE", n) =
             [j \in 0 .. Size(type, "SAMPLE", n) - 1 |->
                IF j = 0 THEN Word(r, "SAMPLE", Size(type, "SAMPLE", n))
                ELSE IF G(j) = {} THEN Word(r, "entry", 0)
                ELSE Word(r, g(j), IF g(j) \in Counted THEN n ELSE 0)]
      BY DEF Record
    <2>3. K[k] \in 0 .. K[20] - 1 /\ K[k] # 0
      BY <1>2, <1>4
    <2> HIDE DEF F, G
    <2>4. Record(type, r, "SAMPLE", n)[K[k]] =
             IF G(K[k]) = {} THEN Word(r, "entry", 0)
             ELSE Word(r, g(K[k]), IF g(K[k]) \in Counted THEN n ELSE 0)
      BY <1>2, <2>2, <2>3
    <2>5. QED  BY <2>1, <2>4
  <1> HIDE DEF F
  <1>9. Record(type, r, "SAMPLE", n)[K[k]] =
           Word(r, KernelOrder[k], Entries(KernelOrder[k], n))
    BY <1>6, <1>7, <1>8 DEF Entries
  <1>10. QED  BY <1>1, <1>2, <1>4, <1>9

-----------------------------------------------------------------------------
(* The parser on a sample                                                  *)

\* Of the fields a device asks for, the identifier that the kernel puts first and those
\* after the 14th are not among them.
LEMMA NoOtherFields ==
    ASSUME NEW type \in SampleTypes, NEW n \in Nat
    PROVE  /\ KernelStart(type, n)[2] = 1
           /\ \A k \in 15 .. 20 : KernelStart(type, n)[k] = KernelStart(type, n)[20]
           /\ \A k \in 14 .. 19 : ParserOrder[k] \notin type
  <1>1. type \subseteq SameOrder
    BY LayoutAssumption
  <1>2. PICK K : K = KernelStart(type, n)
    OBVIOUS
  <1>3. \A k \in 1 .. 19 : KernelOrder[k] \notin type => K[k + 1] = K[k]
    BY <1>2, StartFacts
  <1>4. \A k \in {1} \cup 15 .. 19 : KernelOrder[k] \notin type
    BY <1>1, Orders
  <1>5. K[1 + 1] = K[1] /\ K[1] = 1
    BY <1>2, <1>3, <1>4, StartFacts
  <1>6. /\ K[15 + 1] = K[15] /\ K[16 + 1] = K[16] /\ K[17 + 1] = K[17] /\ K[18 + 1] = K[18]
        /\ K[19 + 1] = K[19]
    BY <1>3, <1>4
  <1>7. \A k \in 15 .. 20 : K[k] = K[20]
    BY <1>6
  <1>8. \A k \in 14 .. 19 : ParserOrder[k] \notin type
    BY <1>1, Orders
  <1>9. QED  BY <1>2, <1>5, <1>7, <1>8

\* For the fields the devices ask for, the parser expects what the kernel writes.
LEMMA SameWords ==
    ASSUME NEW f \in SameOrder, NEW r, NEW n \in Nat
    PROVE  FieldSize(f, Word(r, f, Entries(f, n))) = KernelWords(f, n)
  BY DEF FieldSize, Word, KernelWords, SameOrder, Counted, Entries

\* One step of the parser's walk along the fields.
Parsing(from, f, k) ==
    IF k = 1 THEN from
    ELSE IF ParserOrder[k - 1] \in sample_type
         THEN f[k - 1] + FieldSize(ParserOrder[k - 1], At(f[k - 1]))
         ELSE f[k - 1]

\* Sample r, with n entries, is in the copy at the offset.
SampleAt(r, n) ==
    /\ offset + Size(sample_type, "SAMPLE", n) <= Cap
    /\ \A j \in 0 .. Size(sample_type, "SAMPLE", n) - 1 :
          data[offset + j] = Record(sample_type, r, "SAMPLE", n)[j]

\* Where the parser's walk meets the kernel's.
LEMMA ParserWord ==
    ASSUME sample_type \in SampleTypes, offset \in Nat, NEW r, NEW n \in Nat, SampleAt(r, n),
           NEW k \in 1 .. 13, ParserOrder[k] \in sample_type
    PROVE  At(offset + KernelStart(sample_type, n)[k + 1]) =
              Word(r, ParserOrder[k], Entries(ParserOrder[k], n))
  <1>1. PICK K : K = KernelStart(sample_type, n)
    OBVIOUS
  <1>2. k + 1 \in 1 .. 19 /\ KernelOrder[k + 1] = ParserOrder[k]
    BY Orders
  <1>3. /\ K[k + 1] \in 1 .. Size(sample_type, "SAMPLE", n) - 1
        /\ Record(sample_type, r, "SAMPLE", n)[K[k + 1]] =
              Word(r, ParserOrder[k], Entries(ParserOrder[k], n))
    <2>1. \A m \in 1 .. 19 : KernelOrder[m] \in sample_type =>
             /\ K[m] \in 1 .. Size(sample_type, "SAMPLE", n) - 1
             /\ Record(sample_type, r, "SAMPLE", n)[K[m]] =
                   Word(r, KernelOrder[m], Entries(KernelOrder[m], n))
      BY <1>1, FieldWord
    <2>2. KernelOrder[k + 1] \in sample_type
      BY <1>2
    <2>3. QED  BY <1>2, <2>1, <2>2
  <1>4. Size(sample_type, "SAMPLE", n) \in Nat /\ Cap \in Nat
    BY SizeFacts, RingAssumption DEF Kinds
  <1>5. offset + K[k + 1] < Cap
    BY <1>3, <1>4 DEF SampleAt
  <1>6. At(offset + K[k + 1]) = data[offset + K[k + 1]]
    BY <1>5 DEF At
  <1>7. K[k + 1] \in 0 .. Size(sample_type, "SAMPLE", n) - 1
    BY <1>3, <1>4
  <1>8. data[offset + K[k + 1]] = Record(sample_type, r, "SAMPLE", n)[K[k + 1]]
    BY <1>7 DEF SampleAt
  <1>9. QED  BY <1>1, <1>3, <1>6, <1>8

\* The parser's walk is defined, and goes where the kernel put the fields.
LEMMA ParserWalk ==
    ASSUME sample_type \in SampleTypes, offset \in Nat, NEW r, NEW n \in Nat, SampleAt(r, n)
    PROVE  /\ \A k \in 1 .. 14 : ParserStart(offset + 1)[k] =
                                    offset + KernelStart(sample_type, n)[k + 1]
           /\ ParserStart(offset + 1)[20] = offset + Size(sample_type, "SAMPLE", n)
  <1>1. PICK K : K = KernelStart(sample_type, n)
    OBVIOUS
  <1>2. /\ K \in [1 .. 20 -> Nat] /\ Size(sample_type, "SAMPLE", n) = K[20] /\ K[2] = 1
        /\ K[15] = K[20]
    BY <1>1, StartFacts, NoOtherFields, Orders DEF Size
  <1> DEFINE g == [k \in 1 .. 20 |-> IF k <= 14 THEN offset + K[k + 1] ELSE offset + K[20]]
  <1>3. ASSUME NEW k \in 1 .. 13
        PROVE  offset + K[k + 2] =
                  IF ParserOrder[k] \in sample_type
                  THEN offset + K[k + 1] + FieldSize(ParserOrder[k], At(offset + K[k + 1]))
                  ELSE offset + K[k + 1]
    <2>1. k + 1 \in 1 .. 19 /\ (k + 1) + 1 = k + 2 /\ KernelOrder[k + 1] = ParserOrder[k]
      BY Orders
    <2>2. K[(k + 1) + 1] = IF KernelOrder[k + 1] \in sample_type
                           THEN K[k + 1] + KernelWords(KernelOrder[k + 1], n) ELSE K[k + 1]
      BY <1>1, <2>1, StartFacts
    <2>3. ASSUME ParserOrder[k] \in sample_type
          PROVE  FieldSize(ParserOrder[k], At(offset + K[k + 1])) = KernelWords(ParserOrder[k], n)
      <3>1. At(offset + K[k + 1]) =
               Word(r, ParserOrder[k], Entries(ParserOrder[k], n))
        BY <1>1, <2>3, ParserWord
      <3>2. ParserOrder[k] \in SameOrder
        BY <2>3, LayoutAssumption
      <3>3. QED  BY <3>1, <3>2, SameWords
    <2>4. K[k + 1] \in Nat /\ KernelWords(ParserOrder[k], n) \in Nat
      BY <1>2, PositiveWords
    <2>5. QED  BY <2>1, <2>2, <2>3, <2>4
  <1>4. g = [k \in 1 .. 20 |-> Parsing(offset + 1, g, k)]
    <2> SUFFICES ASSUME NEW k \in 1 .. 20 PROVE g[k] = Parsing(offset + 1, g, k)
      OBVIOUS
    <2>1. CASE k = 1
      <3>1. k <= 14 /\ k + 1 = 2
        BY <2>1
      <3>2. QED  BY <1>2, <2>1, <3>1 DEF Parsing
    <2>2. CASE k \in 2 .. 14
      <3>1. PICK m \in 1 .. 13 : k = m + 1
        BY <2>2
      <3>2. g[k] = offset + K[m + 2] /\ g[m] = offset + K[m + 1] /\ k - 1 = m /\ k # 1
        BY <3>1
      <3> HIDE DEF g
      <3>3. QED  BY <1>3, <3>2 DEF Parsing
    <2>3. CASE k \in 15 .. 20
      <3>1. PICK m \in 14 .. 19 : k = m + 1
        BY <2>3
      <3>2. g[k] = offset + K[20] /\ g[m] = offset + K[20] /\ k - 1 = m /\ k # 1
        BY <1>2, <3>1
      <3>3. ParserOrder[m] \notin sample_type
        BY <3>1, NoOtherFields
      <3> HIDE DEF g
      <3>4. QED  BY <3>2, <3>3 DEF Parsing
    <2>4. QED  BY <2>1, <2>2, <2>3
  <1> DEFINE P == CHOOSE f : f = [k \in 1 .. 20 |-> Parsing(offset + 1, f, k)]
  <1>5. ParserStart(offset + 1) = P
    BY Orders DEF ParserStart, Parsing
  <1> HIDE DEF g
  <1>6. P = [k \in 1 .. 20 |-> Parsing(offset + 1, P, k)]
    BY <1>4
  <1> HIDE DEF P
  <1> DEFINE Good == {k \in 1 .. 20 : P[k] = g[k]}
  <1>7. 1 \in Good
    BY <1>4, <1>6 DEF Parsing
  <1>8. ASSUME NEW k \in 1 .. 19, k \in Good  PROVE k + 1 \in Good
    <2>1. k + 1 \in 1 .. 20 /\ (k + 1) - 1 = k
      OBVIOUS
    <2>2. P[k + 1] = Parsing(offset + 1, P, k + 1) /\ g[k + 1] = Parsing(offset + 1, g, k + 1)
      BY <1>4, <1>6, <2>1
    <2>3. P[k] = g[k]
      BY <1>8
    <2>4. Parsing(offset + 1, P, k + 1) = Parsing(offset + 1, g, k + 1)
      BY <2>1, <2>3 DEF Parsing
    <2>5. QED  BY <2>1, <2>2, <2>4
  <1>9. 1 .. 19 + 1 \subseteq Good
    <2> HIDE DEF Good
    <2>1. QED  BY <1>7, <1>8, CountUp
  <1>10. \A k \in 1 .. 20 : P[k] = g[k]
    BY <1>9
  <1>11. (\A k \in 1 .. 14 : P[k] = offset + K[k + 1]) /\ P[20] = offset + K[20]
    BY <1>10 DEF g
  <1>12. QED  BY <1>1, <1>2, <1>5, <1>11

\* So it takes the fields of the sample and ends at the next record.
LEMMA SampleParsed ==
    ASSUME sample_type \in SampleTypes, offset \in Nat, NEW r, NEW n \in Nat, SampleAt(r, n)
    PROVE  /\ ParserStart(offset + 1)[Len(ParserOrder) + 1] =
                 offset + Size(sample_type, "SAMPLE", n)
           /\ ParsedEvent(ParserStart(offset + 1)) =
                 [f \in Kept |-> IF f \in sample_type THEN Word(r, f, 0) ELSE event[f]]
  <1>1. PICK P : P = ParserStart(offset + 1)
    OBVIOUS
  <1>2. \A k \in 1 .. 13 : P[k] = offset + KernelStart(sample_type, n)[k + 1]
    BY <1>1, ParserWalk
  <1>3. P[20] = offset + Size(sample_type, "SAMPLE", n)
    BY <1>1, ParserWalk
  <1>4. ASSUME NEW f \in Kept, f \in sample_type
        PROVE  At(P[CHOOSE k \in 1 .. Len(ParserOrder) : ParserOrder[k] = f]) = Word(r, f, 0)
    <2>1. PICK k \in 1 .. 13 : ParserOrder[k] = f
      <3>1. /\ ParserOrder[1] = "IP" /\ ParserOrder[2] = "TID" /\ ParserOrder[3] = "TIME"
            /\ ParserOrder[4] = "ADDR" /\ ParserOrder[7] = "CPU"
        BY DEF ParserOrder
      <3>2. QED  BY <3>1 DEF Kept
    <2>2. \A m \in 1 .. 19 : ParserOrder[m] = f => m = k
      <3>1. \A l, m \in 1 .. 19 : ParserOrder[l] = ParserOrder[m] => l = m
        BY DEF ParserOrder
      <3>2. QED  BY <2>1, <3>1
    <2>3. (CHOOSE m \in 1 .. Len(ParserOrder) : ParserOrder[m] = f) = k
      BY <2>1, <2>2, Orders
    <2>4. At(offset + KernelStart(sample_type, n)[k + 1]) =
             Word(r, f, Entries(f, n))
      BY <1>4, <2>1, ParserWord
    <2>5. f \notin Counted
      BY DEF Kept, Counted
    <2>6. QED  BY <1>2, <2>3, <2>4, <2>5 DEF Entries
  <1>5. ParsedEvent(P) = [f \in Kept |-> IF f \in sample_type THEN Word(r, f, 0) ELSE event[f]]
    BY <1>4 DEF ParsedEvent
  <1>6. QED  BY <1>1, <1>3, <1>5, Orders

-----------------------------------------------------------------------------
(* The log of the records the kernel wrote                                 *)

\* The ring forgets the records that were read. The log keeps, for each record, its kind,
\* the entries of its counted field and the position it was written at.
LogEntry == [kind : Kinds, n : Nat, at : Nat]
SizeOf(type, e) == Size(type, e.kind, e.n)

\* Where record r starts; the record after the last one will start at the head.
Start(b, log, r) == IF r <= b.written THEN log[r].at ELSE b.data_head

\* Word w is the one that was written at position p.
Holds(type, log, p, w) ==
    /\ w.rec \in DOMAIN log
    /\ p - log[w.rec].at \in 0 .. SizeOf(type, log[w.rec]) - 1
    /\ w = Record(type, w.rec, log[w.rec].kind, log[w.rec].n)[p - log[w.rec].at]

\* The log is one of the buffer b: its records follow each other up to the head.
Logged(type, b, log) ==
    /\ b = [ring |-> b.ring, data_head |-> b.data_head, lost |-> b.lost,
            written |-> b.written, samples |-> b.samples]
    /\ b.data_head \in Nat /\ b.lost \in Nat /\ b.written \in Nat
    /\ log \in [1 .. b.written -> LogEntry]
    /\ b.samples = {r \in 1 .. b.written : log[r].kind = "SAMPLE"}
    /\ \A r \in 1 .. b.written : log[r].at + SizeOf(type, log[r]) = Start(b, log, r + 1)
    /\ \A r \in 1 .. b.written : \A s \in r + 1 .. b.written + 1 :
          log[r].at + SizeOf(type, log[r]) <= Start(b, log, s)

\* The ring holds what was written from the tail to the head.
InRing(type, b, log, tail) ==
    /\ tail <= b.data_head /\ b.data_head <= tail + Cap
    /\ \A p \in tail .. b.data_head - 1 : Holds(type, log, p, b.ring[p % Cap])

\* The buffer b and its log went on to c and its log.
Grown(b, log, c, more) ==
    /\ b.written <= c.written /\ b.data_head <= c.data_head
    /\ \A r \in 1 .. b.written : more[r] = log[r]
    /\ \A r \in b.written + 1 .. c.written : b.data_head <= more[r].at
    /\ \A r \in 1 .. b.written + 1 : Start(c, more, r) = Start(b, log, r)

LEMMA EntryFacts ==
    ASSUME NEW type, NEW e \in LogEntry
    PROVE  e.at \in Nat /\ e.kind \in Kinds /\ e.n \in Nat /\ SizeOf(type, e) \in Nat \ {0}
  <1>1. e.at \in Nat /\ e.kind \in Kinds /\ e.n \in Nat
    BY DEF LogEntry
  <1>2. QED  BY <1>1, SizeFacts DEF SizeOf

LEMMA StartIsNat ==
    ASSUME NEW type, NEW b, NEW log, Logged(type, b, log), NEW r \in 1 .. b.written + 1
    PROVE  Start(b, log, r) \in Nat
  <1>1. b.written \in Nat /\ b.data_head \in Nat /\ log \in [1 .. b.written -> LogEntry]
    BY DEF Logged
  <1>2. r <= b.written => r \in 1 .. b.written
    BY <1>1
  <1>3. r <= b.written => log[r].at \in Nat
    BY <1>1, <1>2, EntryFacts
  <1>4. QED  BY <1>1, <1>3 DEF Start

\* The records of a log do not overlap.
LEMMA OneRecord ==
    ASSUME NEW type, NEW b, NEW log, Logged(type, b, log), NEW p \in Int,
           NEW r \in 1 .. b.written, p - log[r].at \in 0 .. SizeOf(type, log[r]) - 1,
           NEW s \in 1 .. b.written, p - log[s].at \in 0 .. SizeOf(type, log[s]) - 1
    PROVE  r = s
  <1>1. /\ log[r].at \in Nat /\ SizeOf(type, log[r]) \in Nat
        /\ log[s].at \in Nat /\ SizeOf(type, log[s]) \in Nat
    BY EntryFacts DEF Logged
  <1>2. b.written \in Nat
    BY DEF Logged
  <1>3. \A k \in 1 .. b.written : \A m \in k + 1 .. b.written + 1 :
           log[k].at + SizeOf(type, log[k]) <= Start(b, log, m)
    BY DEF Logged
  <1>4. Start(b, log, r) = log[r].at /\ Start(b, log, s) = log[s].at
    BY <1>2 DEF Start
  <1>5. CASE r < s
    <2>1. s \in r + 1 .. b.written + 1
      BY <1>2, <1>5
    <2>2. log[r].at + SizeOf(type, log[r]) <= log[s].at
      BY <1>3, <1>4, <2>1
    <2>3. QED  BY <1>1, <2>2
  <1>6. CASE s < r
    <2>1. r \in s + 1 .. b.written + 1
      BY <1>2, <1>6
    <2>2. log[s].at + SizeOf(type, log[s]) <= log[r].at
      BY <1>3, <1>4, <2>1
    <2>3. QED  BY <1>1, <2>2
  <1>7. QED  BY <1>5, <1>6

\* A position before the start of record s belongs to an earlier record, one from there
\* on to s or a later one.
LEMMA BeforeStart ==
    ASSUME NEW type, NEW b, NEW log, Logged(type, b, log), NEW p \in Int,
           NEW r \in 1 .. b.written, p - log[r].at \in 0 .. SizeOf(type, log[r]) - 1,
           NEW s \in 1 .. b.written + 1
    PROVE  p < Start(b, log, s) <=> r < s
  <1>1. log[r].at \in Nat /\ SizeOf(type, log[r]) \in Nat /\ b.written \in Nat
    BY EntryFacts DEF Logged
  <1>2. Start(b, log, s) \in Nat
    BY StartIsNat
  <1>3. CASE r < s
    <2>1. s \in r + 1 .. b.written + 1
      BY <1>1, <1>3
    <2>2. log[r].at + SizeOf(type, log[r]) <= Start(b, log, s)
      BY <2>1 DEF Logged
    <2>3. QED  BY <1>1, <1>2, <1>3, <2>2
  <1>4. CASE s = r
    <2>1. Start(b, log, s) = log[r].at
      BY <1>1, <1>4 DEF Start
    <2>2. QED  BY <1>1, <1>4, <2>1
  <1>5. CASE s < r
    <2>1. s \in 1 .. b.written /\ r \in s + 1 .. b.written + 1
      BY <1>1, <1>5
    <2>2. log[s].at + SizeOf(type, log[s]) <= Start(b, log, r)
      BY <2>1 DEF Logged
    <2>3. Start(b, log, r) = log[r].at /\ Start(b, log, s) = log[s].at
      BY <1>1, <2>1 DEF Start
    <2>4. SizeOf(type, log[s]) \in Nat
      BY <2>1, EntryFacts DEF Logged
    <2>5. QED  BY <1>1, <1>2, <1>5, <2>2, <2>3, <2>4
  <1>6. QED  BY <1>1, <1>3, <1>4, <1>5

\* Records that are written later change nothing for the earlier ones.
LEMMA HoldsOn ==
    ASSUME NEW type, NEW b, NEW log, NEW c, NEW more, Logged(type, b, log),
           Logged(type, c, more), Grown(b, log, c, more), NEW p, NEW w, Holds(type, log, p, w)
    PROVE  Holds(type, more, p, w)
  <1>1. DOMAIN log = 1 .. b.written /\ DOMAIN more = 1 .. c.written
    BY DEF Logged
  <1>2. b.written \in Nat /\ c.written \in Nat /\ b.written <= c.written
    BY DEF Logged, Grown
  <1>3. w.rec \in 1 .. b.written
    BY <1>1 DEF Holds
  <1>4. w.rec \in 1 .. c.written /\ more[w.rec] = log[w.rec]
    BY <1>2, <1>3 DEF Grown
  <1>5. QED  BY <1>1, <1>4 DEF Holds

LEMMA GrownTwice ==
    ASSUME NEW type, NEW b, NEW log, NEW c, NEW more, NEW d, NEW most, Logged(type, b, log),
           Logged(type, c, more), Logged(type, d, most), Grown(b, log, c, more),
           Grown(c, more, d, most)
    PROVE  Grown(b, log, d, most)
  <1>1. /\ b.written \in Nat /\ c.written \in Nat /\ d.written \in Nat
        /\ b.data_head \in Nat /\ c.data_head \in Nat /\ d.data_head \in Nat
    BY DEF Logged
  <1>2. /\ b.written <= c.written /\ c.written <= d.written
        /\ b.data_head <= c.data_head /\ c.data_head <= d.data_head
    BY DEF Grown
  <1>3. \A r \in 1 .. b.written : most[r] = log[r]
    <2>1. \A r \in 1 .. b.written : r \in 1 .. c.written
      BY <1>1, <1>2
    <2>2. QED  BY <2>1 DEF Grown
  <1>4. ASSUME NEW r \in b.written + 1 .. d.written  PROVE b.data_head <= most[r].at
    <2>1. CASE r <= c.written
      <3>1. r \in b.written + 1 .. c.written /\ r \in 1 .. c.written
        BY <1>1, <2>1
      <3>2. QED  BY <3>1 DEF Grown
    <2>2. CASE ~(r <= c.written)
      <3>1. r \in c.written + 1 .. d.written /\ r \in 1 .. d.written
        BY <1>1, <2>2
      <3>2. c.data_head <= most[r].at
        BY <3>1 DEF Grown
      <3>3. most[r].at \in Nat
        BY <3>1, EntryFacts DEF Logged
      <3>4. QED  BY <1>1, <1>2, <3>2, <3>3
    <2>3. QED  BY <2>1, <2>2
  <1>5. \A r \in 1 .. b.written + 1 : Start(d, most, r) = Start(b, log, r)
    <2>1. \A r \in 1 .. b.written + 1 : r \in 1 .. c.written + 1
      BY <1>1, <1>2
    <2>2. QED  BY <2>1 DEF Grown
  <1>6. QED  BY <1>1, <1>2, <1>3, <1>4, <1>5 DEF Grown

LEMMA GrownNot ==
    ASSUME NEW b, NEW log, NEW c, b.written \in Nat, b.data_head \in Nat,
           c.written = b.written, c.data_head = b.data_head
    PROVE  Grown(b, log, c, log)
  BY DEF Grown, Start

\* One more record: Put keeps a log and the ring's contents if there is room.
LEMMA PutKeeps ==
    ASSUME NEW b, NEW log, NEW kind \in Kinds, NEW n \in Nat, NEW tail \in Nat,
           Logged(sample_type, b, log), InRing(sample_type, b, log, tail),
           b.data_head + Size(sample_type, kind, n) <= tail + Cap
    PROVE  LET c == Put(b, kind, n) IN
           \E more :
              /\ Logged(sample_type, c, more) /\ InRing(sample_type, c, more, tail)
              /\ Grown(b, log, c, more)
              /\ c.data_head = b.data_head + Size(sample_type, kind, n)
              /\ c.lost = b.lost /\ c.written = b.written + 1
              /\ more[c.written] = [kind |-> kind, n |-> n, at |-> b.data_head]
  <1>1. PICK sz, type : sz = Size(sample_type, kind, n) /\ type = sample_type
    OBVIOUS
  <1>2. PICK c : c = Put(b, kind, n)
    OBVIOUS
  <1> DEFINE new == [kind |-> kind, n |-> n, at |-> b.data_head]
             words == Record(type, b.written + 1, kind, n)
             ring2 == [i \in 0 .. Cap - 1 |->
                         IF (i - b.data_head) % Cap < sz THEN words[(i - b.data_head) % Cap]
                                                         ELSE b.ring[i]]
  <1>3. PICK more : more = [r \in 1 .. b.written + 1 |-> IF r <= b.written THEN log[r] ELSE new]
    OBVIOUS
  <1>4. /\ sz \in Nat \ {0} /\ Cap \in Nat \ {0}
        /\ b.data_head \in Nat /\ b.lost \in Nat /\ b.written \in Nat
        /\ b.data_head + sz <= tail + Cap /\ tail <= b.data_head
        /\ log \in [1 .. b.written -> LogEntry]
    BY <1>1, SizeFacts, RingAssumption DEF Logged, InRing
  <1>5. c = [ring |-> ring2, data_head |-> b.data_head + sz, lost |-> b.lost,
             written |-> b.written + 1,
             samples |-> IF kind = "SAMPLE" THEN b.samples \cup {b.written + 1} ELSE b.samples]
    <2>1. b = [ring |-> b.ring, data_head |-> b.data_head, lost |-> b.lost,
               written |-> b.written, samples |-> b.samples]
      BY DEF Logged
    <2>2. Put(b, kind, n) = [b EXCEPT !.ring = ring2, !.data_head = b.data_head + sz,
               !.written = b.written + 1,
               !.samples = IF kind = "SAMPLE" THEN b.samples \cup {b.written + 1}
                                              ELSE b.samples]
      BY <1>1 DEF Put
    <2> HIDE DEF ring2
    <2>3. QED  BY <1>2, <2>1, <2>2
  <1>6. /\ c.ring = ring2 /\ c.data_head = b.data_head + sz /\ c.lost = b.lost
        /\ c.written = b.written + 1
        /\ c.samples = IF kind = "SAMPLE" THEN b.samples \cup {b.written + 1} ELSE b.samples
    <2> HIDE DEF ring2
    <2>1. QED  BY <1>5
  <1>7. /\ new \in LogEntry /\ SizeOf(type, new) = sz /\ new.kind = kind
        /\ new.at = b.data_head /\ new.n = n
    BY <1>1, <1>4 DEF LogEntry, SizeOf
  <1> HIDE DEF new, ring2, words
  <1>a. /\ c.written = b.written + 1 /\ c.data_head = b.data_head + sz /\ c.lost = b.lost
        /\ b.written \in Nat /\ b.data_head \in Nat /\ b.lost \in Nat /\ sz \in Nat \ {0}
    BY <1>4, <1>6
  <1>8. /\ more \in [1 .. c.written -> LogEntry]
        /\ \A r \in 1 .. b.written : more[r] = log[r]
        /\ more[b.written + 1] = new
    <2>1. \A r \in 1 .. b.written + 1 : r <= b.written => r \in 1 .. b.written
      BY <1>4
    <2>2. \A r \in 1 .. b.written : r <= b.written /\ r \in 1 .. b.written + 1
      BY <1>4
    <2>3. b.written + 1 \in 1 .. b.written + 1 /\ ~(b.written + 1 <= b.written)
      BY <1>4
    <2>4. \A r \in 1 .. b.written + 1 : (IF r <= b.written THEN log[r] ELSE new) \in LogEntry
      BY <1>4, <1>7, <2>1
    <2>5. QED  BY <1>3, <1>6, <2>2, <2>3, <2>4
  <1>9. \A r \in 1 .. b.written + 1 : Start(c, more, r) = Start(b, log, r)
    <2>1. \A r \in 1 .. b.written + 1 : r \in 1 .. b.written \/ r = b.written + 1
      BY <1>4
    <2>2. \A r \in 1 .. b.written : Start(c, more, r) = Start(b, log, r)
      BY <1>4, <1>6, <1>8 DEF Start
    <2>3. Start(c, more, b.written + 1) = Start(b, log, b.written + 1)
      BY <1>4, <1>6, <1>7, <1>8 DEF Start
    <2>4. QED  BY <2>1, <2>2, <2>3
  <1>10. Start(c, more, b.written + 2) = b.data_head + sz
    BY <1>4, <1>6 DEF Start
  <1>11. c.samples = {r \in 1 .. c.written : more[r].kind = "SAMPLE"}
    <2>1. b.samples = {r \in 1 .. b.written : log[r].kind = "SAMPLE"}
      BY DEF Logged
    <2>2. \A r : r \in 1 .. c.written <=> r \in 1 .. b.written \/ r = b.written + 1
      <3>1. \A w \in Nat : \A r : r \in 1 .. w + 1 <=> r \in 1 .. w \/ r = w + 1
        OBVIOUS
      <3>2. QED  BY <1>a, <3>1
    <2>3. b.written + 1 \notin 1 .. b.written
      BY <1>4
    <2>4. QED  BY <1>6, <1>7, <1>8, <2>1, <2>2, <2>3
  <1>12. ASSUME NEW r \in 1 .. c.written
         PROVE  more[r].at + SizeOf(type, more[r]) = Start(c, more, r + 1)
    <2>1. CASE r \in 1 .. b.written
      <3>1. log[r].at + SizeOf(type, log[r]) = Start(b, log, r + 1)
        BY <1>1, <2>1 DEF Logged
      <3>2. r + 1 \in 1 .. b.written + 1
        BY <1>4, <2>1
      <3>3. QED  BY <1>8, <1>9, <2>1, <3>1, <3>2
    <2>2. CASE r = b.written + 1
      <3>1. r + 1 = b.written + 2
        BY <1>4, <2>2
      <3>2. QED  BY <1>7, <1>8, <1>10, <2>2, <3>1
    <2>3. r \in 1 .. b.written \/ r = b.written + 1
      BY <1>a
    <2>4. QED  BY <2>1, <2>2, <2>3
  <1>13. ASSUME NEW r \in 1 .. c.written, NEW s \in r + 1 .. c.written + 1
         PROVE  more[r].at + SizeOf(type, more[r]) <= Start(c, more, s)
    <2>1. CASE r \in 1 .. b.written /\ s \in r + 1 .. b.written + 1
      <3>1. log[r].at + SizeOf(type, log[r]) <= Start(b, log, s)
        BY <1>1, <2>1 DEF Logged
      <3>2. s \in 1 .. b.written + 1
        BY <1>4, <2>1
      <3>3. QED  BY <1>8, <1>9, <2>1, <3>1, <3>2
    <2>2. CASE r \in 1 .. b.written /\ s = b.written + 2
      <3>1. b.written + 1 \in r + 1 .. b.written + 1
        BY <1>4, <2>2
      <3>2. log[r].at + SizeOf(type, log[r]) <= Start(b, log, b.written + 1)
        BY <1>1, <2>2, <3>1 DEF Logged
      <3>3. Start(b, log, b.written + 1) = b.data_head
        BY <1>4 DEF Start
      <3>4. log[r].at \in Nat /\ SizeOf(type, log[r]) \in Nat
        BY <1>4, <2>2, EntryFacts
      <3>5. log[r].at + SizeOf(type, log[r]) <= b.data_head + sz
        BY <1>4, <3>2, <3>3, <3>4
      <3>6. QED  BY <1>8, <1>10, <2>2, <3>5
    <2>3. CASE r = b.written + 1 /\ s = b.written + 2
      <3>1. b.data_head + sz <= b.data_head + sz
        BY <1>4
      <3>2. QED  BY <1>7, <1>8, <1>10, <2>3, <3>1
    <2>4. r \in 1 .. b.written + 1 /\ s \in r + 1 .. b.written + 2
      BY <1>a
    <2>5. \/ r \in 1 .. b.written /\ s \in r + 1 .. b.written + 1
          \/ r \in 1 .. b.written /\ s = b.written + 2
          \/ r = b.written + 1 /\ s = b.written + 2
      <3>1. r \in 1 .. b.written \/ r = b.written + 1
        BY <1>4, <2>4
      <3>2. s \in r + 1 .. b.written + 1 \/ s = b.written + 2
        BY <1>4, <2>4
      <3>3. r = b.written + 1 => s = b.written + 2
        BY <1>4, <2>4
      <3>4. QED  BY <3>1, <3>2, <3>3
    <2>6. QED  BY <2>1, <2>2, <2>3, <2>5
  <1>14. Logged(type, c, more)
    <2>1. c = [ring |-> c.ring, data_head |-> c.data_head, lost |-> c.lost,
               written |-> c.written, samples |-> c.samples]
      BY <1>5, <1>6
    <2>2. c.data_head \in Nat /\ c.lost \in Nat /\ c.written \in Nat
      BY <1>a
    <2>3. QED  BY <1>8, <1>11, <1>12, <1>13, <2>1, <2>2 DEF Logged
  <1>15. Grown(b, log, c, more)
    <2>1. \A r \in b.written + 1 .. c.written : b.data_head <= more[r].at
      <3>1. \A r \in b.written + 1 .. c.written : r = b.written + 1
        BY <1>a
      <3>2. b.data_head <= b.data_head
        BY <1>4
      <3>3. QED  BY <1>7, <1>8, <3>1, <3>2
    <2>2. b.written <= c.written /\ b.data_head <= c.data_head
      BY <1>a
    <2>3. QED  BY <1>8, <1>9, <2>1, <2>2 DEF Grown
  <1>16. InRing(type, c, more, tail)
    <2>1. tail <= c.data_head /\ c.data_head <= tail + Cap
      BY <1>4, <1>a
    <2>2. ASSUME NEW p \in tail .. c.data_head - 1
          PROVE  Holds(type, more, p, c.ring[p % Cap])
      <3>1. c.data_head = b.data_head + sz
        BY <1>6
      <3>2. p \in Int /\ tail <= p /\ p < b.data_head + sz
        BY <1>4, <3>1
      <3>3. p % Cap \in 0 .. Cap - 1
        BY <3>2, ModFacts
      <3> PICK h : h = b.data_head
        OBVIOUS
      <3>4. h \in Int /\ h <= tail + Cap - sz /\ sz >= 1
        BY <1>4
      <3>5. /\ p - h \in 0 .. Cap - 1 => ((p % Cap) - h) % Cap = p - h
            /\ h - p \in 1 .. Cap => ((p % Cap) - h) % Cap = Cap - (h - p)
        BY <3>2, <3>4, FromHead
      <3>6. CASE p < b.data_head
        <4>1. p \in tail .. b.data_head - 1 /\ b.data_head - p \in 1 .. Cap
          BY <1>4, <3>2, <3>6, <3>4
        <4>2. ((p % Cap) - b.data_head) % Cap = Cap - (b.data_head - p)
          BY <3>5, <4>1
        <4>3. ~(Cap - (b.data_head - p) < sz)
          BY <1>4, <3>2, <3>4, <4>1
        <4>4. c.ring[p % Cap] = b.ring[p % Cap]
          BY <1>6, <3>3, <4>2, <4>3 DEF ring2
        <4>5. Holds(type, log, p, b.ring[p % Cap])
          BY <1>1, <4>1 DEF InRing
        <4>6. Logged(type, b, log)
          BY <1>1
        <4>7. QED  BY <1>14, <1>15, <4>4, <4>5, <4>6, HoldsOn
      <3>7. CASE ~(p < b.data_head)
        <4>1. p - b.data_head \in 0 .. sz - 1 /\ p - b.data_head \in 0 .. Cap - 1
          BY <1>4, <3>2, <3>7
        <4>2. ((p % Cap) - b.data_head) % Cap = p - b.data_head
          BY <3>5, <4>1
        <4>3. p - b.data_head < sz
          BY <1>4, <4>1
        <4>4. c.ring[p % Cap] = words[p - b.data_head]
          BY <1>6, <3>3, <4>2, <4>3 DEF ring2
        <4>5. words[p - b.data_head].rec = b.written + 1
          BY <1>1, <4>1, RecordWords DEF words
        <4>6. b.written + 1 \in DOMAIN more
          BY <1>3, <1>4
        <4>7. QED  BY <1>7, <1>8, <4>1, <4>4, <4>5, <4>6 DEF Holds, words
      <3>8. QED  BY <3>6, <3>7
    <2>3. QED  BY <2>1, <2>2 DEF InRing
  <1>17. more[c.written] = [kind |-> kind, n |-> n, at |-> b.data_head]
    BY <1>6, <1>8 DEF new
  <1>18. QED  BY <1>1, <1>2, <1>6, <1>14, <1>15, <1>16, <1>17

\* What becomes of one output: the record did not fit and is counted, or it was written
\* after the LOST record that was due.
Due(b) == IF b.lost > 0 THEN KernelSize["LOST"] ELSE 0

Outcome(b, c, more, kind, sz, tail) ==
    \/ /\ b.data_head + Due(b) + sz > tail + Cap
       /\ c.lost = b.lost + 1 /\ c.data_head = b.data_head
    \/ /\ b.data_head + Due(b) + sz <= tail + Cap
       /\ c.lost = 0 /\ c.data_head = b.data_head + Due(b) + sz
       /\ kind = "SAMPLE" => \E r \in c.samples : b.data_head <= more[r].at

\* Only the count of the lost records differs.
LEMMA CountChanged ==
    ASSUME NEW type, NEW b, NEW log, NEW tail, NEW l \in Nat, Logged(type, b, log),
           InRing(type, b, log, tail)
    PROVE  LET c == [b EXCEPT !.lost = l] IN
           /\ Logged(type, c, log) /\ InRing(type, c, log, tail)
           /\ c.lost = l /\ c.data_head = b.data_head /\ c.written = b.written
           /\ c.samples = b.samples
  <1>1. PICK c : c = [b EXCEPT !.lost = l]
    OBVIOUS
  <1>2. b = [ring |-> b.ring, data_head |-> b.data_head, lost |-> b.lost,
             written |-> b.written, samples |-> b.samples]
    BY DEF Logged
  <1>3. c = [ring |-> b.ring, data_head |-> b.data_head, lost |-> l,
             written |-> b.written, samples |-> b.samples]
    BY <1>1, <1>2
  <1>4. /\ c.ring = b.ring /\ c.data_head = b.data_head /\ c.lost = l
        /\ c.written = b.written /\ c.samples = b.samples
    BY <1>3
  <1>5. \A r : Start(c, log, r) = Start(b, log, r)
    BY <1>4 DEF Start
  <1>6. Logged(type, c, log)
    <2>1. c = [ring |-> c.ring, data_head |-> c.data_head, lost |-> c.lost,
               written |-> c.written, samples |-> c.samples]
      BY <1>3, <1>4
    <2>2. QED  BY <1>4, <1>5, <2>1 DEF Logged
  <1>7. InRing(type, c, log, tail)
    BY <1>4 DEF InRing
  <1>8. QED  BY <1>1, <1>4, <1>6, <1>7

\* The kernel's output keeps the log and the ring.
LEMMA OutputKeeps ==
    ASSUME NEW b, NEW log, NEW kind \in Kinds, NEW n \in Nat, data_tail \in Nat,
           Logged(sample_type, b, log), InRing(sample_type, b, log, data_tail)
    PROVE  LET c == Output(b, kind, n) IN
           \E more :
              /\ Logged(sample_type, c, more) /\ InRing(sample_type, c, more, data_tail)
              /\ Grown(b, log, c, more)
              /\ Outcome(b, c, more, kind, Size(sample_type, kind, n), data_tail)
  <1>1. PICK sz, c, tail :
           sz = Size(sample_type, kind, n) /\ c = Output(b, kind, n) /\ tail = data_tail
    OBVIOUS
  <1>2. /\ sz \in Nat \ {0} /\ Cap \in Nat /\ tail \in Nat
        /\ b.lost \in Nat /\ b.data_head \in Nat /\ b.written \in Nat
    BY <1>1, SizeFacts, RingAssumption DEF Logged
  <1>3. PICK due : due = IF b.lost > 0 THEN Put(b, "LOST", 0) ELSE b
    OBVIOUS
  <1>4. c = IF due.data_head + sz - tail <= Cap THEN [Put(due, kind, n) EXCEPT !.lost = 0]
                                                ELSE [b EXCEPT !.lost = b.lost + 1]
    BY <1>1, <1>3 DEF Output
  <1>5. Size(sample_type, "LOST", 0) = 3 /\ "LOST" \in Kinds /\ 0 \in Nat
    BY DEF Size, Kinds, KernelSize
  <1>6. Due(b) = IF b.lost > 0 THEN 3 ELSE 0
    BY DEF Due, KernelSize
  <1>7. due.data_head = b.data_head + Due(b)
    <2>1. CASE b.lost > 0
      <3>1. b = [ring |-> b.ring, data_head |-> b.data_head, lost |-> b.lost,
                 written |-> b.written, samples |-> b.samples]
        BY DEF Logged
      <3>2. Put(b, "LOST", 0).data_head = b.data_head + 3
        BY <1>5, <3>1 DEF Put
      <3>3. QED  BY <1>3, <1>6, <2>1, <3>2
    <2>2. CASE ~(b.lost > 0)
      BY <1>2, <1>3, <1>6, <2>2
    <2>3. QED  BY <2>1, <2>2
  <1>8. CASE b.data_head + Due(b) + sz <= tail + Cap
    <2>1. PICK mid : /\ Logged(sample_type, due, mid) /\ InRing(sample_type, due, mid, tail)
                     /\ Grown(b, log, due, mid)
      <3>1. CASE b.lost > 0
        <4>1. b.data_head + Size(sample_type, "LOST", 0) <= tail + Cap
          BY <1>2, <1>5, <1>6, <1>8, <3>1
        <4>2. \E more : /\ Logged(sample_type, Put(b, "LOST", 0), more)
                        /\ InRing(sample_type, Put(b, "LOST", 0), more, tail)
                        /\ Grown(b, log, Put(b, "LOST", 0), more)
          BY <1>1, <1>2, <1>5, <4>1, PutKeeps
        <4>3. QED  BY <1>3, <3>1, <4>2
      <3>2. CASE ~(b.lost > 0)
        <4>1. Grown(b, log, b, log)
          BY <1>2, GrownNot
        <4>2. QED  BY <1>1, <1>3, <3>2, <4>1
      <3>3. QED  BY <3>1, <3>2
    <2>2. PICK d : d = Put(due, kind, n)
      OBVIOUS
    <2>3. due.data_head + sz <= tail + Cap
      BY <1>7, <1>8
    <2>4. PICK more : /\ Logged(sample_type, d, more) /\ InRing(sample_type, d, more, tail)
                      /\ Grown(due, mid, d, more)
                      /\ d.data_head = due.data_head + sz /\ d.written = due.written + 1
                      /\ more[d.written] = [kind |-> kind, n |-> n, at |-> due.data_head]
      BY <1>1, <1>2, <2>1, <2>2, <2>3, PutKeeps
    <2>5. c = [d EXCEPT !.lost = 0]
      <3>1. Due(b) \in Nat
        BY <1>6
      <3>2. due.data_head + sz - tail <= Cap
        BY <1>2, <1>7, <1>8, <3>1
      <3>3. QED  BY <1>4, <2>2, <3>2
    <2>6. /\ Logged(sample_type, c, more) /\ InRing(sample_type, c, more, tail)
          /\ c.lost = 0 /\ c.data_head = d.data_head /\ c.written = d.written
          /\ c.samples = d.samples
      BY <2>4, <2>5, CountChanged
    <2>7. Grown(b, log, c, more)
      <3>1. Grown(b, log, d, more)
        BY <2>1, <2>4, GrownTwice
      <3>2. \A r : Start(c, more, r) = Start(d, more, r)
        BY <2>6 DEF Start
      <3>3. QED  BY <2>6, <3>1, <3>2 DEF Grown
    <2>8. \/ d.written \in c.samples /\ b.data_head <= more[d.written].at
          \/ kind # "SAMPLE"
      <3>1. due.written \in Nat /\ due.data_head \in Nat /\ b.data_head <= due.data_head
        BY <2>1 DEF Logged, Grown
      <3>2. d.written \in 1 .. d.written
        BY <2>4, <3>1
      <3>3. d.samples = {r \in 1 .. d.written : more[r].kind = "SAMPLE"}
        BY <2>4 DEF Logged
      <3>4. QED  BY <2>4, <2>6, <3>1, <3>2, <3>3
    <2>9. Outcome(b, c, more, kind, sz, tail)
      <3>1. c.data_head = b.data_head + Due(b) + sz
        BY <1>7, <2>4, <2>6
      <3>2. QED  BY <1>8, <2>6, <2>8, <3>1 DEF Outcome
    <2>10. QED  BY <1>1, <2>6, <2>7, <2>9
  <1>9. CASE ~(b.data_head + Due(b) + sz <= tail + Cap)
    <2>1. Due(b) \in Nat
      BY <1>6
    <2>2. ~(due.data_head + sz - tail <= Cap) /\ b.data_head + Due(b) + sz > tail + Cap
      BY <1>2, <1>7, <1>9, <2>1
    <2>3. c = [b EXCEPT !.lost = b.lost + 1]
      BY <1>4, <2>2
    <2>4. b.lost + 1 \in Nat
      BY <1>2
    <2>5. /\ Logged(sample_type, c, log) /\ InRing(sample_type, c, log, tail)
          /\ c.lost = b.lost + 1 /\ c.data_head = b.data_head /\ c.written = b.written
      BY <1>1, <2>3, <2>4, CountChanged
    <2>6. Grown(b, log, c, log)
      BY <1>2, <2>5, GrownNot
    <2>7. Outcome(b, c, log, kind, sz, tail)
      BY <2>2, <2>5 DEF Outcome
    <2>8. QED  BY <1>1, <2>5, <2>6, <2>7
  <1>10. QED  BY <1>8, <1>9

-----------------------------------------------------------------------------
(* The reader                                                              *)

Types ==
    /\ sample_type \in SampleTypes
    /\ throttled \in BOOLEAN /\ enabled \in BOOLEAN /\ loose \in BOOLEAN /\ dropped \in BOOLEAN
    /\ limit \in Nat /\ signals \in Nat
    /\ pc \in {"idle", "others", "paused", "copy", "wrap", "parse", "deliver"}

Reading == pc \in {"copy", "wrap", "parse"}

\* The handler stands at the start of a record, and so does the head it read.
Reader(log) ==
    /\ read_head \in Nat /\ offset \in Nat /\ data_tail = read_head
    /\ parsed \in 0 .. rb.written
    /\ pc # "parse" => read_head = Start(rb, log, parsed + 1)
    /\ pc = "parse" => read_head + offset = Start(rb, log, parsed + 1)
    /\ pc \in {"copy", "wrap"} => offset = 0
    /\ Reading => \E h \in parsed .. rb.written : head = Start(rb, log, h + 1)

\* What it has copied is what was written between the tail and that head.
Copied(log) ==
    /\ pc = "wrap" => \A i \in 0 .. Cap - 1 :
          i < Cap - prev_head_wrap /\ read_head + i < head =>
             Holds(sample_type, log, read_head + i, data[i])
    /\ pc = "parse" => \A i \in 0 .. Cap - 1 :
          read_head + i < head => Holds(sample_type, log, read_head + i, data[i])

\* The Event of sample r.
EventOf(r) == [f \in Kept |-> IF f \in sample_type THEN Word(r, f, 0) ELSE Blank]

\* r is the newest sample that was parsed.
Newest(r) == r \in rb.samples /\ r <= parsed /\ \A q \in rb.samples : q <= parsed => q <= r

\* The Event is as new and no sample of this read was parsed, or it is the newest sample.
Filled(log) ==
    /\ pc \in {"copy", "wrap"} => event = NewEvent
    /\ pc \in {"parse", "deliver"} =>
          \/ /\ event = NewEvent
             /\ pc = "parse" => \A q \in rb.samples : q <= parsed => log[q].at < read_head
          \/ \E r \in rb.samples : Newest(r) /\ event = EventOf(r)

ReaderInv(log) ==
    /\ Logged(sample_type, rb, log) /\ InRing(sample_type, rb, log, data_tail)
    /\ Reader(log) /\ Copied(log) /\ Filled(log)

\* The starts of the records are in order.
LEMMA StartsOrdered ==
    ASSUME NEW type, NEW b, NEW log, Logged(type, b, log), NEW s \in 1 .. b.written + 1,
           NEW r \in 1 .. s
    PROVE  /\ Start(b, log, r) \in Nat /\ Start(b, log, s) \in Nat
           /\ Start(b, log, r) <= Start(b, log, s)
           /\ r < s => Start(b, log, r) + SizeOf(type, log[r]) <= Start(b, log, s)
           /\ Start(b, log, b.written + 1) = b.data_head
  <1>1. b.written \in Nat /\ b.data_head \in Nat
    BY DEF Logged
  <1>2. r \in 1 .. b.written + 1 /\ b.written + 1 \in 1 .. b.written + 1
    BY <1>1
  <1>3. Start(b, log, r) \in Nat /\ Start(b, log, s) \in Nat
    BY <1>2, StartIsNat
  <1>4. Start(b, log, b.written + 1) = b.data_head
    BY <1>1 DEF Start
  <1>5. CASE r < s
    <2>1. r \in 1 .. b.written /\ s \in r + 1 .. b.written + 1
      BY <1>1, <1>5
    <2>2. Start(b, log, r) = log[r].at
      BY <1>1, <2>1 DEF Start
    <2>3. log[r].at + SizeOf(type, log[r]) <= Start(b, log, s)
      BY <2>1 DEF Logged
    <2>4. SizeOf(type, log[r]) \in Nat
      BY <2>1, EntryFacts DEF Logged
    <2>5. QED  BY <1>3, <1>4, <2>2, <2>3, <2>4
  <1>6. CASE ~(r < s)
    <2>1. r = s
      BY <1>1, <1>6
    <2>2. QED  BY <1>3, <1>4, <1>6, <2>1
  <1>7. QED  BY <1>5, <1>6

\* The head that was read lies between the tail and the kernel's head.
LEMMA HeadBetween ==
    ASSUME NEW log, ReaderInv(log), Reading
    PROVE  /\ head \in Nat /\ read_head \in Nat /\ rb.data_head \in Nat /\ Cap \in Nat
           /\ read_head + (IF pc = "parse" THEN offset ELSE 0) <= head
           /\ read_head <= head /\ head <= rb.data_head /\ rb.data_head <= read_head + Cap
           /\ size \in 0 .. Cap
  <1>1. PICK h \in parsed .. rb.written : head = Start(rb, log, h + 1)
    BY DEF ReaderInv, Reader
  <1>2. /\ rb.written \in Nat /\ parsed \in 0 .. rb.written /\ rb.data_head \in Nat
        /\ Cap \in Nat /\ read_head \in Nat /\ offset \in Nat
    BY RingAssumption DEF ReaderInv, Logged, Reader
  <1>3. /\ h + 1 \in 1 .. rb.written + 1 /\ parsed + 1 \in 1 .. h + 1
        /\ rb.written + 1 \in 1 .. rb.written + 1 /\ h + 1 \in 1 .. rb.written + 1
    BY <1>2
  <1>4. Start(rb, log, parsed + 1) \in Nat /\ head \in Nat /\ Start(rb, log, parsed + 1) <= head
    BY <1>1, <1>3, StartsOrdered DEF ReaderInv
  <1>5. head <= rb.data_head
    BY <1>1, <1>3, StartsOrdered DEF ReaderInv
  <1>6. read_head + (IF pc = "parse" THEN offset ELSE 0) = Start(rb, log, parsed + 1)
    <2>1. CASE pc = "parse"
      BY <2>1 DEF ReaderInv, Reader
    <2>2. CASE pc # "parse"
      <3>1. read_head = Start(rb, log, parsed + 1)
        BY <2>2 DEF ReaderInv, Reader
      <3>2. QED  BY <1>2, <2>2, <3>1
    <2>3. QED  BY <2>1, <2>2
  <1>7. read_head <= head
    BY <1>2, <1>4, <1>6
  <1>8. rb.data_head <= read_head + Cap
    BY DEF ReaderInv, InRing, Reader
  <1>9. size \in 0 .. Cap
    BY <1>2, <1>4, <1>5, <1>7, <1>8 DEF size
  <1>10. QED  BY <1>2, <1>4, <1>5, <1>6, <1>7, <1>8, <1>9

\* While the head is not reached, the next record is in the copy, whole.
LEMMA NextRecord ==
    ASSUME NEW log, ReaderInv(log), pc = "parse", offset < size
    PROVE  /\ parsed + 1 \in 1 .. rb.written
           /\ offset + SizeOf(sample_type, log[parsed + 1]) <= size
           /\ \A j \in 0 .. SizeOf(sample_type, log[parsed + 1]) - 1 :
                 data[offset + j] = Record(sample_type, parsed + 1, log[parsed + 1].kind,
                                           log[parsed + 1].n)[j]
           /\ \E h \in parsed + 1 .. rb.written : head = Start(rb, log, h + 1)
           /\ log[parsed + 1].at = read_head + offset
           /\ Start(rb, log, parsed + 2) =
                 read_head + offset + SizeOf(sample_type, log[parsed + 1])
  <1>1. PICK h \in parsed .. rb.written : head = Start(rb, log, h + 1)
    BY DEF ReaderInv, Reader, Reading
  <1>2. /\ rb.written \in Nat /\ parsed \in 0 .. rb.written /\ read_head \in Nat
        /\ offset \in Nat /\ size = head - read_head
        /\ read_head + offset = Start(rb, log, parsed + 1)
    BY DEF ReaderInv, Logged, Reader, size
  <1>3. head \in Nat /\ size \in 0 .. Cap /\ Cap \in Nat
    BY HeadBetween DEF Reading
  <1>4. h # parsed
    <2> SUFFICES ASSUME h = parsed PROVE FALSE
      OBVIOUS
    <2>1. head = read_head + offset
      BY <1>1, <1>2
    <2>2. QED  BY <1>2, <1>3, <2>1
  <1>5. /\ parsed + 1 \in 1 .. rb.written /\ h \in parsed + 1 .. rb.written
        /\ parsed + 1 \in 1 .. h + 1 /\ parsed + 1 < h + 1 /\ h + 1 \in 1 .. rb.written + 1
        /\ (parsed + 1) + 1 = parsed + 2
    BY <1>2, <1>4
  <1>6. PICK r, sz : r = parsed + 1 /\ sz = SizeOf(sample_type, log[r])
    OBVIOUS
  <1>7. log[r].at = read_head + offset
    BY <1>2, <1>5, <1>6 DEF Start
  <1>8. sz \in Nat \ {0} /\ log[r].kind \in Kinds /\ log[r].n \in Nat
    BY <1>5, <1>6, EntryFacts DEF ReaderInv, Logged
  <1>9. read_head + offset + sz <= head
    BY <1>1, <1>2, <1>5, <1>6, StartsOrdered DEF ReaderInv
  <1>10. offset + sz <= size
    BY <1>2, <1>3, <1>8, <1>9
  <1>11. Start(rb, log, r + 1) = read_head + offset + sz
    BY <1>5, <1>6, <1>7 DEF ReaderInv, Logged
  <1>12. ASSUME NEW j \in 0 .. sz - 1
         PROVE  data[offset + j] = Record(sample_type, r, log[r].kind, log[r].n)[j]
    <2>1. PICK i, w, p : i = offset + j /\ w = data[i] /\ p = read_head + i
      OBVIOUS
    <2>2. /\ i \in 0 .. Cap - 1 /\ read_head + i < head /\ p \in Int
          /\ p - (read_head + offset) = j
      BY <1>2, <1>3, <1>8, <1>10, <2>1
    <2>3. Holds(sample_type, log, p, w)
      BY <2>1, <2>2 DEF ReaderInv, Copied
    <2>4. DOMAIN log = 1 .. rb.written
      BY DEF ReaderInv, Logged
    <2>5. /\ w.rec \in 1 .. rb.written
          /\ p - log[w.rec].at \in 0 .. SizeOf(sample_type, log[w.rec]) - 1
          /\ w = Record(sample_type, w.rec, log[w.rec].kind, log[w.rec].n)[p - log[w.rec].at]
      BY <2>3, <2>4 DEF Holds
    <2>6. r \in 1 .. rb.written /\ p - log[r].at \in 0 .. SizeOf(sample_type, log[r]) - 1
      BY <1>5, <1>6, <1>7, <2>2
    <2>7. w.rec = r
      BY <2>2, <2>5, <2>6, OneRecord DEF ReaderInv
    <2>8. QED  BY <1>7, <2>1, <2>2, <2>5, <2>7
  <1>13. QED  BY <1>1, <1>5, <1>6, <1>7, <1>10, <1>11, <1>12

\* Otherwise the parser stands at the head that was read.
LEMMA LastRecord ==
    ASSUME NEW log, ReaderInv(log), pc = "parse", ~(offset < size)
    PROVE  offset = size /\ head = Start(rb, log, parsed + 1)
  <1>1. /\ head \in Nat /\ read_head \in Nat /\ read_head + offset <= head
    BY HeadBetween DEF Reading
  <1>2. offset \in Nat /\ read_head + offset = Start(rb, log, parsed + 1)
    BY DEF ReaderInv, Reader
  <1>3. offset = size
    BY <1>1, <1>2 DEF size
  <1>4. QED  BY <1>1, <1>2, <1>3 DEF size

-----------------------------------------------------------------------------
(* The steps keep the reader's part of the invariant                       *)

LEMMA BufferKept ==
    ASSUME NEW log, ReaderInv(log), UNCHANGED <<rb, sample_type, data_tail>>
    PROVE  Logged(sample_type, rb, log)' /\ InRing(sample_type, rb, log, data_tail)'
  BY DEF ReaderInv

\* The kernel writes.
LEMMA KernelKeeps ==
    ASSUME NEW log, ReaderInv(log), UNCHANGED <<sample_type, reader, data_tail>>, NEW more,
           Logged(sample_type, rb', more), InRing(sample_type, rb', more, data_tail),
           Grown(rb, log, rb', more)
    PROVE  ReaderInv(more)'
  <1>1. /\ rb.written \in Nat /\ rb'.written \in Nat /\ rb.written <= rb'.written
        /\ parsed \in 0 .. rb.written
    BY DEF ReaderInv, Logged, Grown, Reader
  <1>2. /\ sample_type' = sample_type /\ data_tail' = data_tail /\ pc' = pc
        /\ read_head' = read_head /\ head' = head /\ data' = data /\ offset' = offset
        /\ event' = event /\ parsed' = parsed
    BY DEF reader
  <1>3. Logged(sample_type, rb, more)' /\ InRing(sample_type, rb, more, data_tail)'
    BY <1>2
  <1>4. \A r \in 1 .. rb.written + 1 : Start(rb', more, r) = Start(rb, log, r)
    BY DEF Grown
  <1>5. Reader(more)'
    <2>1. parsed + 1 \in 1 .. rb.written + 1 /\ parsed \in 0 .. rb'.written
      BY <1>1
    <2>2. \A h \in parsed .. rb.written : h + 1 \in 1 .. rb.written + 1 /\ h \in parsed .. rb'.written
      BY <1>1
    <2>3. ASSUME Reading  PROVE \E h \in parsed .. rb'.written : head = Start(rb', more, h + 1)
      <3>1. PICK h \in parsed .. rb.written : head = Start(rb, log, h + 1)
        BY <2>3 DEF ReaderInv, Reader
      <3>2. h + 1 \in 1 .. rb.written + 1 /\ h \in parsed .. rb'.written
        BY <2>2
      <3>3. head = Start(rb', more, h + 1)
        BY <1>4, <3>1, <3>2
      <3>4. QED  BY <3>2, <3>3
    <2>4. Start(rb', more, parsed + 1) = Start(rb, log, parsed + 1)
      BY <1>4, <2>1
    <2>5. /\ read_head \in Nat /\ offset \in Nat /\ data_tail = read_head
          /\ pc # "parse" => read_head = Start(rb, log, parsed + 1)
          /\ pc = "parse" => read_head + offset = Start(rb, log, parsed + 1)
          /\ pc \in {"copy", "wrap"} => offset = 0
      BY DEF ReaderInv, Reader
    <2>6. QED  BY <1>2, <2>1, <2>3, <2>4, <2>5 DEF Reader, Reading
  <1>6. Copied(more)'
    <2>1. \A p, w : Holds(sample_type, log, p, w) => Holds(sample_type, more, p, w)
      BY HoldsOn DEF ReaderInv
    <2>2. QED  BY <1>2, <2>1 DEF ReaderInv, Copied, prev_head_wrap
  <1>7. Filled(more)'
    <2>1. ASSUME NEW q, q <= parsed
          PROVE  (q \in rb'.samples <=> q \in rb.samples) /\ (q \in rb.samples => more[q] = log[q])
      <3>1. /\ rb.samples = {r \in 1 .. rb.written : log[r].kind = "SAMPLE"}
            /\ rb'.samples = {r \in 1 .. rb'.written : more[r].kind = "SAMPLE"}
        BY DEF ReaderInv, Logged
      <3>2. \A r \in 1 .. rb.written : more[r] = log[r] /\ r \in 1 .. rb'.written
        BY <1>1 DEF Grown
      <3>3. q \in 1 .. rb'.written => q \in 1 .. rb.written
        BY <1>1, <2>1
      <3>4. QED  BY <3>1, <3>2, <3>3
    <2>2. ASSUME NEW r \in rb.samples, Newest(r), event = EventOf(r)
          PROVE  r \in rb'.samples /\ Newest(r)' /\ event' = EventOf(r)'
      <3>1. r <= parsed
        BY <2>2 DEF Newest
      <3>2. QED  BY <1>2, <2>1, <2>2, <3>1 DEF Newest, EventOf
    <2>3. CASE pc \in {"parse", "deliver"} /\ event = NewEvent
               /\ (pc = "parse" => \A q \in rb.samples : q <= parsed => log[q].at < read_head)
      BY <1>2, <2>1, <2>3 DEF Filled
    <2>4. CASE pc \in {"parse", "deliver"} /\ \E r \in rb.samples : Newest(r) /\ event = EventOf(r)
      <3>1. PICK r \in rb.samples : Newest(r) /\ event = EventOf(r)
        BY <2>4
      <3>2. r \in rb'.samples /\ Newest(r)' /\ event' = EventOf(r)'
        BY <2>2, <3>1
      <3>3. QED  BY <1>2, <2>4, <3>2 DEF Filled
    <2>5. CASE pc \notin {"parse", "deliver"}
      BY <1>2, <2>5 DEF ReaderInv, Filled
    <2>6. QED  BY <2>3, <2>4, <2>5 DEF ReaderInv, Filled
  <1>8. QED  BY <1>3, <1>5, <1>6, <1>7 DEF ReaderInv

\* Steps that move the handler outside of a read.
LEMMA OutsideKeeps ==
    ASSUME NEW log, ReaderInv(log), UNCHANGED <<kernel, read_head, parsed, data_tail>>,
           pc # "parse", pc' \in {"idle", "others", "paused"}, offset' \in Nat
    PROVE  ReaderInv(log)'
  <1>1. /\ rb' = rb /\ sample_type' = sample_type /\ data_tail' = data_tail
        /\ read_head' = read_head /\ parsed' = parsed
    BY DEF kernel
  <1>2. Logged(sample_type, rb, log)' /\ InRing(sample_type, rb, log, data_tail)'
    BY <1>1, BufferKept
  <1>3. Reader(log)'
    BY <1>1 DEF ReaderInv, Reader, Reading
  <1>4. Copied(log)' /\ Filled(log)'
    BY DEF Copied, Filled
  <1>5. QED  BY <1>2, <1>3, <1>4 DEF ReaderInv

LEMMA ReadHeadKeeps ==
    ASSUME NEW log, ReaderInv(log), ReadHead
    PROVE  ReaderInv(log)'
  <1>1. /\ rb' = rb /\ sample_type' = sample_type /\ data_tail' = data_tail
        /\ read_head' = read_head /\ parsed' = parsed /\ pc = "paused" /\ pc' = "copy"
        /\ event' = NewEvent /\ head' = rb.data_head /\ offset' = 0
    BY DEF ReadHead, kernel
  <1>2. Logged(sample_type, rb, log)' /\ InRing(sample_type, rb, log, data_tail)'
    BY <1>1, BufferKept
  <1>3. Reader(log)'
    <2>1. rb.written \in Nat /\ parsed \in 0 .. rb.written
      BY DEF ReaderInv, Logged, Reader
    <2>2. rb.written \in parsed .. rb.written /\ head' = Start(rb, log, rb.written + 1)
      BY <1>1, <2>1 DEF Start
    <2>3. read_head \in Nat /\ data_tail = read_head /\ read_head = Start(rb, log, parsed + 1)
      BY <1>1 DEF ReaderInv, Reader
    <2>4. QED  BY <1>1, <2>1, <2>2, <2>3 DEF Reader, Reading
  <1>4. Copied(log)' /\ Filled(log)'
    BY <1>1 DEF Copied, Filled
  <1>5. QED  BY <1>2, <1>3, <1>4 DEF ReaderInv

\* Both memcpys copy the words that the ring holds, wherever the kernel has got to.
LEMMA CopyKeeps ==
    ASSUME NEW log, ReaderInv(log), CopyEnd \/ CopyStart
    PROVE  ReaderInv(log)'
  <1>1. /\ rb' = rb /\ sample_type' = sample_type /\ data_tail' = data_tail
        /\ read_head' = read_head /\ parsed' = parsed /\ event' = event /\ head' = head
        /\ offset' = offset
    BY DEF CopyEnd, CopyStart, kernel
  <1>2. (pc = "copy" /\ pc' = "wrap") \/ (pc = "wrap" /\ pc' = "parse")
    BY DEF CopyEnd, CopyStart
  <1>3. Logged(sample_type, rb, log)' /\ InRing(sample_type, rb, log, data_tail)'
    BY <1>1, BufferKept
  <1>4. /\ Cap \in Nat \ {0} /\ read_head \in Nat /\ head \in Nat /\ rb.data_head \in Nat
        /\ head <= rb.data_head
    BY <1>2, HeadBetween, RingAssumption DEF Reading
  <1>5. Reader(log)'
    <2>1. /\ read_head \in Nat /\ offset = 0 /\ data_tail = read_head
          /\ parsed \in 0 .. rb.written /\ read_head = Start(rb, log, parsed + 1)
          /\ \E h \in parsed .. rb.written : head = Start(rb, log, h + 1)
      BY <1>2 DEF ReaderInv, Reader, Reading
    <2>2. read_head + offset = read_head
      BY <2>1
    <2>3. QED  BY <1>1, <1>2, <2>1, <2>2 DEF Reader, Reading
  <1>6. Filled(log)'
    <2>1. event = NewEvent
      BY <1>2 DEF ReaderInv, Filled
    <2>2. ASSUME NEW q \in rb.samples, q <= parsed  PROVE log[q].at < read_head
      <3>1. q \in 1 .. rb.written /\ rb.written \in Nat /\ parsed \in 0 .. rb.written
        BY DEF ReaderInv, Logged, Reader
      <3>2. parsed + 1 \in 1 .. rb.written + 1 /\ q \in 1 .. parsed + 1 /\ q < parsed + 1
        BY <2>2, <3>1
      <3>3. Start(rb, log, q) + SizeOf(sample_type, log[q]) <= Start(rb, log, parsed + 1)
        BY <3>2, StartsOrdered DEF ReaderInv
      <3>4. Start(rb, log, q) = log[q].at /\ Start(rb, log, parsed + 1) = read_head
        BY <1>2, <3>1 DEF ReaderInv, Reader, Start
      <3>5. log[q].at \in Nat /\ SizeOf(sample_type, log[q]) \in Nat \ {0}
        BY <3>1, EntryFacts DEF ReaderInv, Logged
      <3>6. QED  BY <1>4, <3>3, <3>4, <3>5
    <2>3. QED  BY <1>1, <1>2, <2>1, <2>2 DEF Filled
  <1>7. ASSUME NEW i \in 0 .. Cap - 1, read_head + i < head
        PROVE  Holds(sample_type, log, read_head + i, rb.ring[(read_head + i) % Cap])
    <2>1. read_head + i \in data_tail .. rb.data_head - 1
      <3>1. data_tail = read_head
        BY DEF ReaderInv, Reader
      <3>2. QED  BY <1>4, <1>7, <3>1
    <2>2. QED  BY <2>1 DEF ReaderInv, InRing
  <1>8. PICK m : m = prev_head_wrap
    OBVIOUS
  <1>9. ASSUME NEW i \in 0 .. Cap - 1
        PROVE  (read_head + i) % Cap = IF i < Cap - m THEN m + i ELSE i - (Cap - m)
    BY <1>4, <1>8, Rotated DEF prev_head_wrap
  <1>10. Copied(log)'
    <2>1. CASE CopyEnd
      <3>1. pc' = "wrap" /\ \A i \in 0 .. Cap - 1 : i < Cap - m => data'[i] = rb.ring[m + i]
        BY <1>8, <2>1 DEF CopyEnd
      <3>2. \A i \in 0 .. Cap - 1 : i < Cap - m /\ read_head + i < head =>
               Holds(sample_type, log, read_head + i, data'[i])
        BY <1>7, <1>9, <3>1
      <3>3. QED  BY <1>1, <1>8, <3>1, <3>2 DEF Copied, prev_head_wrap
    <2>2. CASE CopyStart
      <3>1. /\ pc = "wrap" /\ pc' = "parse"
            /\ \A i \in 0 .. Cap - 1 : data'[i] = IF i < Cap - m THEN data[i]
                                                                 ELSE rb.ring[i - (Cap - m)]
        BY <1>8, <2>2 DEF CopyStart
      <3>2. \A i \in 0 .. Cap - 1 : i < Cap - m /\ read_head + i < head =>
               Holds(sample_type, log, read_head + i, data[i])
        BY <1>8, <3>1 DEF ReaderInv, Copied
      <3>3. \A i \in 0 .. Cap - 1 : read_head + i < head =>
               Holds(sample_type, log, read_head + i, data'[i])
        BY <1>7, <1>9, <3>1, <3>2
      <3>4. QED  BY <1>1, <3>1, <3>3 DEF Copied
    <2>3. QED  BY <2>1, <2>2
  <1>11. QED  BY <1>3, <1>5, <1>6, <1>10 DEF ReaderInv

\* The parser takes the record it stands on for what it is.
LEMMA HeaderRead ==
    ASSUME NEW log, ReaderInv(log), pc = "parse", offset < size
    PROVE  /\ At(offset).rec = parsed + 1
           /\ At(offset).field = log[parsed + 1].kind
           /\ log[parsed + 1] \in LogEntry
           /\ offset + SizeOf(sample_type, log[parsed + 1]) <= Cap
  <1>1. PICK r, e, sz : r = parsed + 1 /\ e = log[r] /\ sz = SizeOf(sample_type, e)
    OBVIOUS
  <1>2. e \in LogEntry
    BY <1>1, NextRecord DEF ReaderInv, Logged
  <1>3. e.kind \in Kinds /\ e.n \in Nat /\ sz \in Nat \ {0}
    BY <1>1, <1>2, EntryFacts
  <1>4. offset \in Nat /\ size \in 0 .. Cap /\ Cap \in Nat
    BY HeadBetween DEF ReaderInv, Reader, Reading
  <1>5. offset + sz <= size
    BY <1>1, NextRecord
  <1>6. offset < Cap /\ offset + sz <= Cap /\ 0 \in 0 .. sz - 1 /\ offset + 0 = offset
    BY <1>3, <1>4, <1>5
  <1>7. data[offset + 0] = Record(sample_type, r, e.kind, e.n)[0]
    BY <1>1, <1>6, NextRecord
  <1>8. Record(sample_type, r, e.kind, e.n)[0] = Word(r, e.kind, Size(sample_type, e.kind, e.n))
    BY <1>3, RecordWords
  <1>9. At(offset) = Word(r, e.kind, Size(sample_type, e.kind, e.n))
    BY <1>6, <1>7, <1>8 DEF At
  <1>10. QED  BY <1>1, <1>2, <1>6, <1>9 DEF Word

\* It advances by the size of the record, and an Event that it fills is one sample.
LEMMA RecordParsed ==
    ASSUME NEW log, ReaderInv(log), sample_type \in SampleTypes, ParseRecord
    PROVE  /\ offset' = offset + SizeOf(sample_type, log[parsed + 1])
           /\ log[parsed + 1].kind = "SAMPLE" => event' = EventOf(parsed + 1)
           /\ log[parsed + 1].kind # "SAMPLE" => event' = event
  <1>1. PICK r, e : r = parsed + 1 /\ e = log[r]
    OBVIOUS
  <1>2. /\ pc = "parse" /\ offset < size
        /\ At(offset).field = e.kind /\ e \in LogEntry
        /\ offset + SizeOf(sample_type, e) <= Cap
    BY <1>1, HeaderRead DEF ParseRecord
  <1>3. e.kind \in Kinds /\ e.n \in Nat /\ offset \in Nat
    BY <1>2, EntryFacts DEF ReaderInv, Reader
  <1>4. CASE e.kind = "SAMPLE"
    <2>1. SampleAt(r, e.n)
      <3>1. SizeOf(sample_type, e) = Size(sample_type, "SAMPLE", e.n)
        BY <1>4 DEF SizeOf
      <3>2. \A j \in 0 .. SizeOf(sample_type, e) - 1 :
               data[offset + j] = Record(sample_type, r, "SAMPLE", e.n)[j]
        BY <1>1, <1>2, <1>4, NextRecord
      <3>3. QED  BY <1>2, <3>1, <3>2 DEF SampleAt
    <2>2. /\ offset' = ParserStart(offset + 1)[Len(ParserOrder) + 1]
          /\ event' = ParsedEvent(ParserStart(offset + 1))
      BY <1>2, <1>4 DEF ParseRecord
    <2>3. /\ offset' = offset + Size(sample_type, "SAMPLE", e.n)
          /\ event' = [f \in Kept |-> IF f \in sample_type THEN Word(r, f, 0) ELSE event[f]]
      BY <1>3, <2>1, <2>2, SampleParsed
    <2>4. \A f \in Kept : f \notin sample_type => event[f] = Blank
      <3>1. event = NewEvent \/ \E q \in rb.samples : event = EventOf(q)
        BY <1>2 DEF ReaderInv, Filled
      <3>2. QED  BY <3>1 DEF NewEvent, EventOf
    <2>5. event' = EventOf(r)
      BY <2>3, <2>4 DEF EventOf
    <2>6. QED  BY <1>1, <1>4, <2>3, <2>5 DEF SizeOf
  <1>5. CASE e.kind # "SAMPLE"
    <2>1. offset' = offset + RecordSize(At(offset)) /\ event' = event
      BY <1>2, <1>5 DEF ParseRecord
    <2>2. e.kind \in {"LOST", "THROTTLE", "UNTHROTTLE"}
      BY <1>3, <1>5 DEF Kinds, KernelSize
    <2>3. RecordSize(At(offset)) = SizeOf(sample_type, e)
      BY <1>2, <2>2
      DEF RecordSize, SizeOf, Size, KernelSize, StringRecords, TaskRecords, LaterRecords
    <2>4. QED  BY <1>1, <1>5, <2>1, <2>3
  <1>6. QED  BY <1>4, <1>5

LEMMA ParseKeeps ==
    ASSUME NEW log, ReaderInv(log), sample_type \in SampleTypes, ParseRecord
    PROVE  ReaderInv(log)'
  <1>1. /\ rb' = rb /\ sample_type' = sample_type /\ data_tail' = data_tail /\ pc = "parse"
        /\ read_head' = read_head /\ parsed' = parsed + 1 /\ head' = head /\ data' = data
        /\ pc' = "parse" /\ offset < size
    BY DEF ParseRecord, kernel
  <1>2. Logged(sample_type, rb, log)' /\ InRing(sample_type, rb, log, data_tail)'
    BY <1>1, BufferKept
  <1>3. PICK r, sz : r = parsed + 1 /\ sz = SizeOf(sample_type, log[r])
    OBVIOUS
  <1>4. /\ rb.written \in Nat /\ parsed \in 0 .. rb.written /\ offset \in Nat
        /\ r \in 1 .. rb.written /\ sz \in Nat \ {0} /\ read_head \in Nat
    <2>1. r \in 1 .. rb.written
      BY <1>1, <1>3, NextRecord
    <2>2. log[r] \in LogEntry
      BY <2>1 DEF ReaderInv, Logged
    <2>3. sz \in Nat \ {0}
      BY <1>3, <2>2, EntryFacts
    <2>4. QED  BY <2>1, <2>3 DEF ReaderInv, Logged, Reader
  <1>5. /\ offset' = offset + sz
        /\ log[r].kind = "SAMPLE" => event' = EventOf(r)
        /\ log[r].kind # "SAMPLE" => event' = event
    BY <1>3, RecordParsed
  <1>6. Reader(log)'
    <2>1. read_head + offset' = Start(rb, log, (parsed + 1) + 1)
      <3>1. Start(rb, log, parsed + 2) = read_head + offset + sz
        BY <1>1, <1>3, NextRecord
      <3>2. (parsed + 1) + 1 = parsed + 2 /\ read_head + (offset + sz) = read_head + offset + sz
        BY <1>4
      <3>3. QED  BY <1>5, <3>1, <3>2
    <2>2. \E h \in parsed + 1 .. rb.written : head = Start(rb, log, h + 1)
      BY <1>1, NextRecord
    <2>3. parsed + 1 \in 0 .. rb.written /\ offset' \in Nat
      BY <1>3, <1>4, <1>5
    <2>4. data_tail = read_head
      BY DEF ReaderInv, Reader
    <2>5. QED  BY <1>1, <1>4, <2>1, <2>2, <2>3, <2>4 DEF Reader, Reading
  <1>7. Copied(log)'
    BY <1>1 DEF ReaderInv, Copied, prev_head_wrap
  <1>8. Filled(log)'
    <2>1. rb.samples = {q \in 1 .. rb.written : log[q].kind = "SAMPLE"}
      BY DEF ReaderInv, Logged
    <2>2. CASE log[r].kind = "SAMPLE"
      <3>1. r \in rb.samples
        BY <1>4, <2>1, <2>2
      <3>2. Newest(r)'
        <4>1. r <= parsed'
          BY <1>1, <1>3, <1>4
        <4>2. \A q \in rb.samples : q <= parsed' => q <= r
          BY <1>1, <1>3
        <4>3. QED  BY <1>1, <3>1, <4>1, <4>2 DEF Newest
      <3>3. event' = EventOf(r)'
        BY <1>1, <1>5, <2>2 DEF EventOf
      <3>4. QED  BY <1>1, <3>1, <3>2, <3>3 DEF Filled
    <2>3. CASE log[r].kind # "SAMPLE"
      <3>1. \A q \in rb.samples : q <= parsed' => q <= parsed
        BY <1>1, <1>3, <1>4, <2>1, <2>3
      <3>2. event' = event
        BY <1>5, <2>3
      <3>3. CASE event = NewEvent /\ \A q \in rb.samples : q <= parsed => log[q].at < read_head
        BY <1>1, <3>1, <3>2, <3>3 DEF Filled
      <3>4. CASE \E q \in rb.samples : Newest(q) /\ event = EventOf(q)
        <4>1. PICK q \in rb.samples : Newest(q) /\ event = EventOf(q)
          BY <3>4
        <4>2. q \in 1 .. rb.written /\ q <= parsed
          BY <2>1, <4>1 DEF Newest
        <4>3. q <= parsed'
          BY <1>1, <1>4, <4>2
        <4>4. Newest(q)'
          BY <1>1, <3>1, <4>1, <4>3 DEF Newest
        <4>5. event' = EventOf(q)'
          BY <1>1, <3>2, <4>1 DEF EventOf
        <4>6. QED  BY <1>1, <4>1, <4>4, <4>5 DEF Filled
      <3>5. QED  BY <1>1, <3>3, <3>4 DEF ReaderInv, Filled
    <2>4. QED  BY <2>2, <2>3
  <1>9. QED  BY <1>2, <1>6, <1>7, <1>8 DEF ReaderInv

\* data_tail moves to the head that was read: the kernel may overwrite only what is parsed.
LEMMA ReleaseKeeps ==
    ASSUME NEW log, ReaderInv(log), Release
    PROVE  ReaderInv(log)'
  <1>1. /\ rb' = rb /\ sample_type' = sample_type /\ data_tail' = head /\ pc = "parse"
        /\ read_head' = head /\ parsed' = parsed /\ head' = head /\ event' = event
        /\ pc' = "deliver" /\ offset >= size /\ offset' = offset
    BY DEF Release, kernel
  <1>2. /\ head \in Nat /\ read_head \in Nat /\ rb.data_head \in Nat /\ Cap \in Nat
        /\ read_head <= head /\ head <= rb.data_head /\ rb.data_head <= read_head + Cap
        /\ size \in 0 .. Cap /\ offset \in Nat /\ data_tail = read_head
    BY <1>1, HeadBetween DEF Reading, ReaderInv, Reader
  <1>3. ~(offset < size)
    BY <1>1, <1>2
  <1>4. head = Start(rb, log, parsed + 1)
    BY <1>1, <1>3, LastRecord
  <1>5. Logged(sample_type, rb, log)'
    BY <1>1 DEF ReaderInv
  <1>6. InRing(sample_type, rb, log, data_tail)'
    <2>1. head <= rb.data_head /\ rb.data_head <= head + Cap
      BY <1>2
    <2>2. \A p \in head .. rb.data_head - 1 : p \in data_tail .. rb.data_head - 1
      BY <1>2
    <2>3. \A p \in head .. rb.data_head - 1 : Holds(sample_type, log, p, rb.ring[p % Cap])
      BY <2>2 DEF ReaderInv, InRing
    <2>4. InRing(sample_type, rb, log, head)
      BY <2>1, <2>3 DEF InRing
    <2>5. QED  BY <1>1, <2>4
  <1>7. Reader(log)'
    <2>1. parsed \in 0 .. rb.written
      BY DEF ReaderInv, Reader
    <2>2. QED  BY <1>1, <1>2, <1>4, <2>1 DEF Reader, Reading
  <1>8. Copied(log)'
    BY <1>1 DEF Copied
  <1>9. Filled(log)'
    <2>1. CASE event = NewEvent
      BY <1>1, <2>1 DEF Filled
    <2>2. CASE event # NewEvent
      <3>1. PICK r \in rb.samples : Newest(r) /\ event = EventOf(r)
        BY <1>1, <2>2 DEF ReaderInv, Filled
      <3>2. Newest(r)' /\ event' = EventOf(r)'
        BY <1>1, <3>1 DEF Newest, EventOf
      <3>3. QED  BY <1>1, <3>1, <3>2 DEF Filled
    <2>3. QED  BY <2>1, <2>2
  <1>10. QED  BY <1>5, <1>6, <1>7, <1>8, <1>9 DEF ReaderInv

-----------------------------------------------------------------------------
(* The device                                                              *)

\* A sample was written at position p or later.
Fresh(b, log, p) == \E r \in b.samples : p <= log[r].at

\* Where what the handler has not read yet starts.
Sent == IF Reading THEN head ELSE data_tail

\* One sample at a time: the device is armed for it, or its signal is queued, or the
\* handler runs.
Armed ==
    /\ limit + signals <= 1
    /\ enabled => limit = 1 /\ pc = "idle"
    /\ limit + signals = 1 => pc \in {"idle", "others"}

\* There is a sample to find for a signal and for the read that serves it.
Found(log) ==
    /\ signals = 1 \/ pc = "paused" => Fresh(rb, log, data_tail)
    /\ Reading => \E r \in rb.samples : data_tail <= log[r].at /\ log[r].at < head
    /\ pc = "deliver" => event # NewEvent

\* Where there is none, there is room for the next: at most a LOST and an UNTHROTTLE record.
Room(log) ==
    ~ Fresh(rb, log, Sent) =>
        /\ rb.data_head <= Sent + (IF throttled THEN 0 ELSE 7)
        /\ rb.data_head # Sent => rb.lost = 0

\* While no signal was dropped, what is in the ring is one sample and the records of one
\* throttling, and nothing is lost.
Pending == signals = 1 \/ pc = "paused" \/ Reading

NothingLost ==
    /\ rb.lost = 0
    /\ Reading => rb.data_head <= head + (IF throttled THEN 0 ELSE 4)
    /\ Pending => rb.data_head <= data_tail + Cap - (IF throttled THEN 4 ELSE 0)
    /\ ~Pending => rb.data_head <= data_tail + (IF throttled THEN 0 ELSE 4)

DeviceInv(log) ==
    /\ ~loose => Armed /\ Found(log) /\ Room(log)
    /\ ~loose /\ ~dropped => NothingLost

LEMMA FreshOn ==
    ASSUME NEW type, NEW b, NEW log, NEW c, NEW more, NEW p, Logged(type, b, log),
           Logged(type, c, more), Grown(b, log, c, more), Fresh(b, log, p)
    PROVE  Fresh(c, more, p)
  <1>1. PICK r \in b.samples : p <= log[r].at
    BY DEF Fresh
  <1>2. /\ b.samples = {q \in 1 .. b.written : log[q].kind = "SAMPLE"}
        /\ c.samples = {q \in 1 .. c.written : more[q].kind = "SAMPLE"}
        /\ b.written \in Nat /\ c.written \in Nat /\ b.written <= c.written
    BY DEF Logged, Grown
  <1>3. r \in 1 .. b.written /\ r \in 1 .. c.written
    BY <1>2
  <1>4. more[r] = log[r]
    BY <1>3 DEF Grown
  <1>5. QED  BY <1>1, <1>2, <1>3, <1>4 DEF Fresh

LEMMA SampleFits ==
    ASSUME sample_type \in SampleTypes, NEW n \in Chains
    PROVE  /\ Size(sample_type, "SAMPLE", n) \in Nat \ {0} /\ n \in Nat /\ Cap \in Nat
           /\ Size(sample_type, "SAMPLE", n) + 12 <= Cap
           /\ Size(sample_type, "THROTTLE", 0) = 4 /\ Size(sample_type, "UNTHROTTLE", 0) = 4
           /\ "SAMPLE" \in Kinds /\ "THROTTLE" \in Kinds /\ "UNTHROTTLE" \in Kinds
  <1>1. "SAMPLE" \in Kinds /\ "THROTTLE" \in Kinds /\ "UNTHROTTLE" \in Kinds
    BY DEF Kinds, KernelSize
  <1>2. n \in Nat /\ Cap \in Nat
    BY RingAssumption
  <1>3. Size(sample_type, "THROTTLE", 0) = 4 /\ Size(sample_type, "UNTHROTTLE", 0) = 4
    BY DEF Size, KernelSize
  <1>4. Size(sample_type, "SAMPLE", n) \in Nat \ {0}
    BY <1>1, <1>2, SizeFacts
  <1>5. Size(sample_type, "SAMPLE", n) + 3 * 4 <= Cap
    BY RoomAssumption DEF KernelSize
  <1>6. QED  BY <1>1, <1>2, <1>3, <1>4, <1>5

\* A sample that was written is fresh.
LEMMA WrittenFresh ==
    ASSUME NEW type, NEW b, NEW c, NEW more, NEW sz, NEW tail \in Nat, Logged(type, c, more),
           Outcome(b, c, more, "SAMPLE", sz, tail), b.data_head \in Nat,
           tail <= b.data_head, b.data_head + Due(b) + sz <= tail + Cap,
           Due(b) \in Nat, sz \in Nat, Cap \in Nat
    PROVE  Fresh(c, more, tail) /\ c.lost = 0 /\ c.data_head = b.data_head + Due(b) + sz
  <1>1. ~(b.data_head + Due(b) + sz > tail + Cap)
    OBVIOUS
  <1>2. /\ c.lost = 0 /\ c.data_head = b.data_head + Due(b) + sz
        /\ \E r \in c.samples : b.data_head <= more[r].at
    BY <1>1 DEF Outcome
  <1>3. PICK r \in c.samples : b.data_head <= more[r].at
    BY <1>2
  <1>4. more[r].at \in Nat
    BY EntryFacts DEF Logged
  <1>5. tail <= more[r].at
    BY <1>3, <1>4
  <1>6. QED  BY <1>2, <1>5 DEF Fresh

\* The event overflows: there is room for its sample if there was no other to be read.
LEMMA OverflowWrites ==
    ASSUME NEW log, Types, ReaderInv(log), NEW throttle \in BOOLEAN, NEW n \in Chains,
           Overflow(throttle, n)
    PROVE  \E more :
              /\ Logged(sample_type, rb', more) /\ InRing(sample_type, rb', more, data_tail)
              /\ Grown(rb, log, rb', more)
              /\ (/\ rb.data_head <= data_tail + (IF throttled THEN 0 ELSE 7)
                  /\ rb.data_head # data_tail => rb.lost = 0) => Fresh(rb', more, data_tail)
              /\ (/\ rb.data_head <= data_tail + (IF throttled THEN 0 ELSE 4)
                  /\ rb.lost = 0) =>
                    /\ rb'.lost = 0
                    /\ rb'.data_head <= data_tail + Cap - (IF throttled' THEN 4 ELSE 0)
  <1>1. PICK sz : sz = Size(sample_type, "SAMPLE", n)
    OBVIOUS
  <1>2. /\ sz \in Nat \ {0} /\ n \in Nat /\ Cap \in Nat /\ sz + 12 <= Cap
        /\ Size(sample_type, "THROTTLE", 0) = 4
        /\ "SAMPLE" \in Kinds /\ "THROTTLE" \in Kinds
    BY <1>1, SampleFits DEF Types
  <1>3. /\ data_tail \in Nat /\ data_tail <= rb.data_head /\ rb.data_head \in Nat
        /\ rb.lost \in Nat
        /\ Logged(sample_type, rb, log) /\ InRing(sample_type, rb, log, data_tail)
    BY DEF ReaderInv, Logged, InRing, Reader
  <1>4. \A b : Due(b) = IF b.lost > 0 THEN 3 ELSE 0
    BY DEF Due, KernelSize
  <1>5. CASE ~throttle
    <2>1. rb' = Output(rb, "SAMPLE", n)
      BY <1>5 DEF Overflow
    <2>2. throttled' = throttled
      BY <1>5 DEF Overflow, Types
    <2>3. PICK more : /\ Logged(sample_type, rb', more)
                      /\ InRing(sample_type, rb', more, data_tail)
                      /\ Grown(rb, log, rb', more)
                      /\ Outcome(rb, rb', more, "SAMPLE", sz, data_tail)
      BY <1>1, <1>2, <1>3, <2>1, OutputKeeps
    <2>4. Due(rb) \in Nat
      BY <1>4
    <2>5. ASSUME rb.data_head <= data_tail + (IF throttled THEN 0 ELSE 7),
                 rb.data_head # data_tail => rb.lost = 0
          PROVE  Fresh(rb', more, data_tail)
      <3>1. rb.data_head <= data_tail + 7
        BY <1>3, <2>5
      <3>2. rb.data_head + Due(rb) + sz <= data_tail + Cap
        BY <1>2, <1>3, <1>4, <2>5, <3>1
      <3>3. QED  BY <1>2, <1>3, <2>3, <2>4, <3>2, WrittenFresh
    <2>6. ASSUME rb.data_head <= data_tail + (IF throttled THEN 0 ELSE 4), rb.lost = 0
          PROVE  /\ rb'.lost = 0
                 /\ rb'.data_head <= data_tail + Cap - (IF throttled' THEN 4 ELSE 0)
      <3>1. Due(rb) = 0
        BY <1>3, <1>4, <2>6
      <3>2. rb.data_head + Due(rb) + sz <= data_tail + Cap
        BY <1>2, <1>3, <2>6, <3>1
      <3>3. rb'.lost = 0 /\ rb'.data_head = rb.data_head + Due(rb) + sz
        BY <1>2, <1>3, <2>3, <2>4, <3>2, WrittenFresh
      <3>4. QED  BY <1>2, <1>3, <2>2, <2>6, <3>1, <3>3
    <2>7. QED  BY <2>3, <2>5, <2>6
  <1>6. CASE throttle
    <2>1. PICK d : d = Output(rb, "THROTTLE", 0)
      OBVIOUS
    <2>2. rb' = Output(d, "SAMPLE", n)
      BY <1>6, <2>1 DEF Overflow
    <2>3. throttled' /\ ~throttled
      BY <1>6 DEF Overflow, Types
    <2>4. PICK mid : /\ Logged(sample_type, d, mid) /\ InRing(sample_type, d, mid, data_tail)
                     /\ Grown(rb, log, d, mid)
                     /\ Outcome(rb, d, mid, "THROTTLE", 4, data_tail)
      BY <1>2, <1>3, <2>1, OutputKeeps
    <2>5. PICK more : /\ Logged(sample_type, rb', more)
                      /\ InRing(sample_type, rb', more, data_tail)
                      /\ Grown(d, mid, rb', more)
                      /\ Outcome(d, rb', more, "SAMPLE", sz, data_tail)
      BY <1>1, <1>2, <1>3, <2>2, <2>4, OutputKeeps
    <2>6. Grown(rb, log, rb', more)
      BY <1>3, <2>4, <2>5, GrownTwice
    <2>7. /\ Due(rb) \in Nat /\ Due(d) \in Nat /\ d.data_head \in Nat /\ d.lost \in Nat
          /\ data_tail <= d.data_head
      BY <1>4, <2>4 DEF Logged, InRing
    <2>8. ASSUME rb.data_head + Due(rb) <= data_tail + 7
          PROVE  /\ d.data_head = rb.data_head + Due(rb) + 4
                 /\ d.data_head + Due(d) + sz <= data_tail + Cap /\ Due(d) = 0
      <3>1. ~(rb.data_head + Due(rb) + 4 > data_tail + Cap)
        BY <1>2, <1>3, <2>7, <2>8
      <3>2. d.lost = 0 /\ d.data_head = rb.data_head + Due(rb) + 4
        BY <2>4, <3>1 DEF Outcome
      <3>3. Due(d) = 0
        BY <1>4, <3>2
      <3>4. QED  BY <1>2, <1>3, <2>7, <2>8, <3>2, <3>3
    <2>9. ASSUME rb.data_head <= data_tail + (IF throttled THEN 0 ELSE 7),
                 rb.data_head # data_tail => rb.lost = 0
          PROVE  Fresh(rb', more, data_tail)
      <3>1. rb.data_head <= data_tail + 7
        BY <1>3, <2>9
      <3>2. rb.data_head + Due(rb) <= data_tail + 7
        BY <1>3, <1>4, <2>9, <3>1
      <3>3. d.data_head + Due(d) + sz <= data_tail + Cap
        BY <2>8, <3>2
      <3>4. QED  BY <1>2, <1>3, <2>5, <2>7, <3>3, WrittenFresh
    <2>10. ASSUME rb.data_head <= data_tail + (IF throttled THEN 0 ELSE 4), rb.lost = 0
           PROVE  /\ rb'.lost = 0
                  /\ rb'.data_head <= data_tail + Cap - (IF throttled' THEN 4 ELSE 0)
      <3>1. Due(rb) = 0 /\ rb.data_head <= data_tail + 4
        BY <1>3, <1>4, <2>3, <2>10
      <3>2. /\ d.data_head = rb.data_head + Due(rb) + 4 /\ Due(d) = 0
            /\ d.data_head + Due(d) + sz <= data_tail + Cap
        BY <1>3, <2>8, <3>1
      <3>3. rb'.lost = 0 /\ rb'.data_head = d.data_head + Due(d) + sz
        BY <1>2, <1>3, <2>5, <2>7, <3>2, WrittenFresh
      <3>4. rb'.data_head <= data_tail + Cap - 4
        BY <1>2, <1>3, <3>1, <3>2, <3>3
      <3>5. QED  BY <2>3, <3>3, <3>4
    <2>11. QED  BY <2>5, <2>6, <2>9, <2>10
  <1>7. QED  BY <1>5, <1>6

-----------------------------------------------------------------------------
(* The invariant                                                           *)

RingInv == Types /\ \E log : ReaderInv(log) /\ DeviceInv(log)

LEMMA TypesKept ==
    ASSUME Types, [Next]_vars
    PROVE  Types'
  <1>1. CASE UNCHANGED vars
    BY <1>1 DEF Types, vars, kernel, device, reader
  <1>2. ASSUME NEW throttle \in BOOLEAN, NEW n \in Chains, Overflow(throttle, n)  PROVE Types'
    <2>1. /\ sample_type' = sample_type /\ loose' = loose /\ dropped' = dropped /\ pc' = pc
          /\ throttled' \in BOOLEAN /\ enabled' \in BOOLEAN
          /\ signals' = signals + 1 /\ limit' = IF limit > 0 THEN limit - 1 ELSE 0
      BY <1>2 DEF Overflow, reader, Types
    <2>2. QED  BY <2>1 DEF Types
  <1>3. CASE Unthrottle
    <2>1. /\ sample_type' = sample_type /\ loose' = loose /\ dropped' = dropped /\ pc' = pc
          /\ throttled' = FALSE /\ enabled' = enabled /\ signals' = signals /\ limit' = limit
      BY <1>3 DEF Unthrottle, device, reader
    <2>2. QED  BY <2>1 DEF Types
  <1>4. CASE OthersPause
    BY <1>4 DEF OthersPause, disable_device, kernel, Types
  <1>5. CASE OthersResume
    BY <1>5 DEF OthersResume, enable_device, kernel, Types
  <1>6. CASE Signal
    <2>1. /\ sample_type' = sample_type /\ throttled' = throttled /\ loose' = loose
          /\ dropped' = dropped /\ enabled' = FALSE /\ pc' = "paused"
      BY <1>6 DEF Signal, disable_device, kernel
    <2>2. limit' = limit /\ signals' = signals - 1 /\ signals > 0
      BY <1>6 DEF Signal, disable_device
    <2>3. limit' \in Nat /\ signals' \in Nat
      BY <2>2 DEF Types
    <2>4. QED  BY <2>1, <2>3 DEF Types
  <1>7. CASE Unsafe
    BY <1>7 DEF Unsafe, enable_device, kernel, Types
  <1>8. CASE Deliver
    BY <1>8 DEF Deliver, enable_device, kernel, Types
  <1>9. CASE ReadHead \/ CopyEnd \/ CopyStart \/ ParseRecord \/ Release
    BY <1>9 DEF ReadHead, CopyEnd, CopyStart, ParseRecord, Release, kernel, device, Types
  <1>10. QED
    BY <1>1, <1>2, <1>3, <1>4, <1>5, <1>6, <1>7, <1>8, <1>9 DEF Next, Handler

LEMMA OverflowKeeps ==
    ASSUME NEW log, Types, ReaderInv(log), DeviceInv(log), NEW throttle \in BOOLEAN,
           NEW n \in Chains, Overflow(throttle, n)
    PROVE  \E more : ReaderInv(more)' /\ DeviceInv(more)'
  <1>1. PICK more :
           /\ Logged(sample_type, rb', more) /\ InRing(sample_type, rb', more, data_tail)
           /\ Grown(rb, log, rb', more)
           /\ (/\ rb.data_head <= data_tail + (IF throttled THEN 0 ELSE 7)
               /\ rb.data_head # data_tail => rb.lost = 0) => Fresh(rb', more, data_tail)
           /\ (/\ rb.data_head <= data_tail + (IF throttled THEN 0 ELSE 4)
               /\ rb.lost = 0) =>
                 /\ rb'.lost = 0
                 /\ rb'.data_head <= data_tail + Cap - (IF throttled' THEN 4 ELSE 0)
    BY OverflowWrites
  <1>2. UNCHANGED <<sample_type, reader, data_tail>>
    BY DEF Overflow
  <1>3. ReaderInv(more)'
    BY <1>1, <1>2, KernelKeeps
  <1>4. /\ enabled /\ signals' = signals + 1 /\ limit' = (IF limit > 0 THEN limit - 1 ELSE 0)
        /\ enabled' = (limit # 1) /\ loose' = loose /\ dropped' = dropped
        /\ pc' = pc /\ data_tail' = data_tail
    BY DEF Overflow, reader
  <1>5. limit \in Nat /\ signals \in Nat
    BY DEF Types
  <1>6. ASSUME ~loose  PROVE Armed' /\ Found(more)' /\ Room(more)'
    <2>1. limit = 1 /\ signals = 0 /\ pc = "idle"
      BY <1>4, <1>5, <1>6 DEF DeviceInv, Armed
    <2>2. limit' = 0 /\ signals' = 1 /\ pc' = "idle" /\ enabled' = FALSE
      <3>1. limit' = 0 /\ signals' = 1 /\ pc' = "idle"
        BY <1>4, <2>1
      <3>2. enabled' = FALSE
        BY <1>4, <2>1
      <3>3. QED  BY <3>1, <3>2
    <2>3. Armed'
      BY <2>2 DEF Armed
    <2>4. Fresh(rb', more, data_tail)
      <3>1. CASE Fresh(rb, log, data_tail)
        BY <1>1, <3>1, FreshOn DEF ReaderInv
      <3>2. CASE ~ Fresh(rb, log, data_tail)
        <4>1. Sent = data_tail
          BY <2>1 DEF Sent, Reading
        <4>2. QED  BY <1>1, <1>6, <3>2, <4>1 DEF DeviceInv, Room
      <3>3. QED  BY <3>1, <3>2
    <2>5. Fresh(rb, more, data_tail)'
      BY <1>4, <2>4
    <2>6. Found(more)'
      BY <2>2, <2>5 DEF Found, Reading
    <2>7. Sent' = data_tail'
      BY <2>2 DEF Sent, Reading
    <2>8. Room(more)'
      BY <2>5, <2>7 DEF Room
    <2>9. QED  BY <2>3, <2>6, <2>8
  <1>7. ASSUME ~loose, ~dropped  PROVE NothingLost'
    <2>1. limit = 1 /\ signals = 0 /\ pc = "idle"
      BY <1>4, <1>5, <1>7 DEF DeviceInv, Armed
    <2>2. signals' = 1 /\ pc' = "idle"
      BY <1>4, <2>1
    <2>3. ~Pending
      BY <2>1 DEF Pending, Reading
    <2>4. rb.data_head <= data_tail + (IF throttled THEN 0 ELSE 4) /\ rb.lost = 0
      BY <1>7, <2>3 DEF DeviceInv, NothingLost
    <2>5. rb'.lost = 0 /\ rb'.data_head <= data_tail + Cap - (IF throttled' THEN 4 ELSE 0)
      BY <1>1, <2>4
    <2>6. QED  BY <1>4, <2>2, <2>5 DEF NothingLost, Pending, Reading
  <1>8. DeviceInv(more)'
    BY <1>4, <1>6, <1>7 DEF DeviceInv
  <1>9. QED  BY <1>3, <1>8

LEMMA UnthrottleKeeps ==
    ASSUME NEW log, Types, ReaderInv(log), DeviceInv(log), Unthrottle
    PROVE  \E more : ReaderInv(more)' /\ DeviceInv(more)'
  <1>1. /\ data_tail \in Nat /\ rb.data_head \in Nat /\ rb.lost \in Nat /\ Cap \in Nat
        /\ Logged(sample_type, rb, log) /\ InRing(sample_type, rb, log, data_tail)
    BY RingAssumption DEF ReaderInv, Logged, Reader
  <1>2. /\ Size(sample_type, "UNTHROTTLE", 0) = 4 /\ "UNTHROTTLE" \in Kinds /\ 0 \in Nat
        /\ \A b : Due(b) = IF b.lost > 0 THEN 3 ELSE 0
    BY DEF Size, Kinds, KernelSize, Due
  <1>3. rb' = Output(rb, "UNTHROTTLE", 0)
    BY DEF Unthrottle
  <1>4. PICK more :
           /\ Logged(sample_type, rb', more) /\ InRing(sample_type, rb', more, data_tail)
           /\ Grown(rb, log, rb', more)
           /\ Outcome(rb, rb', more, "UNTHROTTLE", 4, data_tail)
    BY <1>1, <1>2, <1>3, OutputKeeps
  <1>5. UNCHANGED <<sample_type, reader, data_tail>>
    BY DEF Unthrottle
  <1>6. ReaderInv(more)'
    BY <1>4, <1>5, KernelKeeps
  <1>7. /\ throttled /\ throttled' = FALSE /\ signals' = signals /\ limit' = limit
        /\ pc' = pc /\ data_tail' = data_tail /\ head' = head /\ event' = event
    BY DEF Unthrottle, device, reader
  <1>8. enabled' = enabled /\ loose' = loose /\ dropped' = dropped
    BY DEF Unthrottle, device
  <1>9. (Reading' <=> Reading) /\ Sent' = Sent
    BY <1>7 DEF Reading, Sent
  <1>10. Sent \in Nat /\ rb'.data_head \in Nat
    <2>1. Reading => head \in Nat
      BY HeadBetween
    <2>2. QED  BY <1>1, <1>4, <2>1 DEF Sent, Logged
  <1>11. \/ rb'.lost = rb.lost + 1 /\ rb'.data_head = rb.data_head
            /\ rb.data_head + Due(rb) + 4 > data_tail + Cap
         \/ rb'.lost = 0 /\ rb'.data_head = rb.data_head + Due(rb) + 4
            /\ rb.data_head + Due(rb) + 4 <= data_tail + Cap
    BY <1>4 DEF Outcome
  <1>12. ASSUME ~loose  PROVE Armed' /\ Found(more)' /\ Room(more)'
    <2>1. Armed'
      BY <1>7, <1>8, <1>12 DEF DeviceInv, Armed
    <2>2. \A p : Fresh(rb, log, p) => Fresh(rb', more, p)
      BY <1>1, <1>4, FreshOn
    <2>3. ASSUME Reading
          PROVE  \E r \in rb'.samples : data_tail <= more[r].at /\ more[r].at < head
      <3>1. PICK r \in rb.samples : data_tail <= log[r].at /\ log[r].at < head
        BY <1>12, <2>3 DEF DeviceInv, Found
      <3>2. /\ rb.samples = {q \in 1 .. rb.written : log[q].kind = "SAMPLE"}
            /\ rb'.samples = {q \in 1 .. rb'.written : more[q].kind = "SAMPLE"}
            /\ rb.written \in Nat /\ rb'.written \in Nat /\ rb.written <= rb'.written
        BY <1>1, <1>4 DEF Logged, Grown
      <3>3. r \in 1 .. rb.written /\ r \in 1 .. rb'.written
        BY <3>2
      <3>4. more[r] = log[r]
        BY <1>4, <3>3 DEF Grown
      <3>5. QED  BY <3>1, <3>2, <3>3, <3>4
    <2>4. (signals = 1 \/ pc = "paused") => Fresh(rb', more, data_tail)
      BY <1>12, <2>2 DEF DeviceInv, Found
    <2>5. pc = "deliver" => event # NewEvent
      BY <1>12 DEF DeviceInv, Found
    <2>6. event' # NewEvent' <=> event # NewEvent
      BY <1>7 DEF NewEvent
    <2>7. Found(more)'
      BY <1>7, <1>9, <2>3, <2>4, <2>5, <2>6 DEF Found
    <2>8. ASSUME ~ Fresh(rb', more, Sent)
          PROVE  rb'.data_head <= Sent + 7 /\ (rb'.data_head # Sent => rb'.lost = 0)
      <3>1. ~ Fresh(rb, log, Sent)
        BY <2>2, <2>8
      <3>2. rb.data_head <= Sent /\ (rb.data_head # Sent => rb.lost = 0)
        BY <1>7, <1>10, <1>12, <3>1 DEF DeviceInv, Room
      <3>3. Sent <= rb.data_head
        <4>1. Reading => head <= rb.data_head
          BY HeadBetween
        <4>2. data_tail <= rb.data_head
          BY <1>1 DEF InRing
        <4>3. QED  BY <4>1, <4>2 DEF Sent
      <3>4. rb.data_head = Sent
        BY <1>1, <1>10, <3>2, <3>3
      <3>5. QED  BY <1>1, <1>2, <1>10, <1>11, <3>4
    <2>9. Room(more)'
      BY <1>7, <1>9, <2>8 DEF Room
    <2>10. QED  BY <2>1, <2>7, <2>9
  <1>13. ASSUME ~loose, ~dropped  PROVE NothingLost'
    <2>1. Pending' <=> Pending
      BY <1>7, <1>9 DEF Pending
    <2>2. /\ rb.lost = 0
          /\ Reading => rb.data_head <= head + 0
          /\ Pending => rb.data_head <= data_tail + Cap - 4
          /\ ~Pending => rb.data_head <= data_tail + 0
      BY <1>7, <1>13 DEF DeviceInv, NothingLost
    <2>3. Reading => head \in Nat /\ Pending
      BY HeadBetween DEF Pending
    <2>4. Due(rb) = 0
      BY <1>2, <2>2
    <2>5. data_tail + 4 <= data_tail + Cap
      <3>1. Cap >= 4
        <4>1. PICK n \in Chains : TRUE
          BY RingAssumption
        <4>2. Size(sample_type, "SAMPLE", n) \in Nat /\ Size(sample_type, "SAMPLE", n) + 12 <= Cap
          BY SampleFits DEF Types
        <4>3. QED  BY <1>1, <4>2
      <3>2. QED  BY <1>1, <3>1
    <2>6. rb'.lost = 0 /\ rb'.data_head = rb.data_head + 4
      BY <1>1, <1>11, <2>2, <2>4, <2>5
    <2>7. /\ Reading => rb'.data_head <= head + 4
          /\ Pending => rb'.data_head <= data_tail + Cap - 0
          /\ ~Pending => rb'.data_head <= data_tail + 4
      BY <1>1, <2>2, <2>3, <2>6
    <2>8. QED  BY <1>7, <1>9, <2>1, <2>6, <2>7 DEF NothingLost
  <1>14. DeviceInv(more)'
    BY <1>8, <1>12, <1>13 DEF DeviceInv
  <1>15. QED  BY <1>6, <1>14

\* Outside of a read, a step that leaves the ring alone leaves what was said of it.
LEMMA QuietKeeps ==
    ASSUME NEW log, UNCHANGED <<rb, throttled, data_tail>>, ~Reading, ~Reading'
    PROVE  /\ Fresh(rb, log, data_tail)' <=> Fresh(rb, log, data_tail)
           /\ Room(log) => Room(log)'
           /\ NothingLost /\ (Pending' <=> Pending) => NothingLost'
  <1>1. rb' = rb /\ throttled' = throttled /\ data_tail' = data_tail
    OBVIOUS
  <1>2. Sent = data_tail /\ Sent' = data_tail
    BY <1>1 DEF Sent
  <1>3. \A q : Fresh(rb, log, q)' <=> Fresh(rb, log, q)
    BY <1>1 DEF Fresh
  <1>4. Fresh(rb, log, data_tail)' <=> Fresh(rb, log, data_tail)
    BY <1>1 DEF Fresh
  <1>5. Room(log) => Room(log)'
    BY <1>1, <1>2 DEF Room, Fresh
  <1>6. NothingLost /\ (Pending' <=> Pending) => NothingLost'
    BY <1>1 DEF NothingLost
  <1>7. QED  BY <1>4, <1>5, <1>6

\* Arming a device that was served.
LEMMA EnableFacts ==
    ASSUME Types, enable_device, ~loose'
    PROVE  ~loose /\ limit = 0 /\ signals = 0 /\ limit' = 1
  <1>1. ~(loose \/ enabled \/ limit > 0 \/ signals > 0) /\ limit' = limit + 1
    BY DEF enable_device
  <1>2. ~loose /\ ~(limit > 0) /\ ~(signals > 0)
    BY <1>1
  <1>3. limit = 0 /\ signals = 0
    BY <1>2 DEF Types
  <1>4. QED  BY <1>1, <1>2, <1>3

LEMMA PauseKeeps ==
    ASSUME NEW log, Types, DeviceInv(log), OthersPause
    PROVE  DeviceInv(log)'
  <1>1. /\ UNCHANGED <<rb, throttled, data_tail, limit, signals, loose, dropped>>
        /\ pc = "idle" /\ pc' = "others" /\ enabled' = FALSE
    BY DEF OthersPause, kernel, disable_device
  <1>2. ~Reading /\ ~Reading' /\ (Pending' <=> Pending)
    BY <1>1 DEF Reading, Pending
  <1>3. /\ Fresh(rb, log, data_tail)' <=> Fresh(rb, log, data_tail)
        /\ Room(log) => Room(log)'
        /\ NothingLost => NothingLost'
    BY <1>1, <1>2, QuietKeeps
  <1>4. Armed => Armed'
    BY <1>1 DEF Armed
  <1>5. Found(log) => Found(log)'
    BY <1>1, <1>2, <1>3 DEF Found
  <1>6. (loose' <=> loose) /\ (dropped' <=> dropped)
    BY <1>1
  <1>7. QED  BY <1>3, <1>4, <1>5, <1>6 DEF DeviceInv

LEMMA ResumeKeeps ==
    ASSUME NEW log, Types, DeviceInv(log), OthersResume
    PROVE  DeviceInv(log)'
  <1>1. /\ UNCHANGED <<rb, throttled, data_tail, signals, dropped>>
        /\ pc = "others" /\ pc' = "idle" /\ enable_device
    BY DEF OthersResume, kernel
  <1>2. ~Reading /\ ~Reading' /\ (Pending' <=> Pending)
    BY <1>1 DEF Reading, Pending
  <1>3. /\ Room(log) => Room(log)'
        /\ NothingLost => NothingLost'
    BY <1>1, <1>2, QuietKeeps
  <1>4. ASSUME ~loose'  PROVE Armed' /\ Found(log)' /\ ~loose
    <2>1. ~loose /\ limit = 0 /\ signals = 0 /\ limit' = 1
      BY <1>1, <1>4, EnableFacts
    <2>2. Armed'
      BY <1>1, <2>1 DEF Armed
    <2>3. Found(log)'
      BY <1>1, <1>2, <2>1 DEF Found
    <2>4. QED  BY <2>1, <2>2, <2>3
  <1>5. dropped' <=> dropped
    BY <1>1
  <1>6. QED  BY <1>3, <1>4, <1>5 DEF DeviceInv

LEMMA SignalKeeps ==
    ASSUME NEW log, Types, DeviceInv(log), Signal
    PROVE  DeviceInv(log)'
  <1>1. /\ UNCHANGED <<rb, throttled, data_tail, limit, loose, dropped>>
        /\ pc = "idle" /\ pc' = "paused" /\ enabled' = FALSE
        /\ signals > 0 /\ signals' = signals - 1
    BY DEF Signal, kernel, disable_device
  <1>2. ~Reading /\ ~Reading'
    BY <1>1 DEF Reading
  <1>3. /\ Fresh(rb, log, data_tail)' <=> Fresh(rb, log, data_tail)
        /\ Room(log) => Room(log)'
        /\ NothingLost /\ (Pending' <=> Pending) => NothingLost'
    BY <1>1, <1>2, QuietKeeps
  <1>4. (loose' <=> loose) /\ (dropped' <=> dropped)
    BY <1>1
  <1>5. ASSUME ~loose  PROVE Armed' /\ Found(log)' /\ Room(log)' /\ (Pending' <=> Pending)
    <2>1. limit = 0 /\ signals = 1 /\ signals' = 0
      BY <1>1, <1>5 DEF DeviceInv, Armed, Types
    <2>2. Armed'
      BY <1>1, <2>1 DEF Armed
    <2>3. Fresh(rb, log, data_tail)
      BY <1>5, <2>1 DEF DeviceInv, Found
    <2>4. Found(log)'
      BY <1>1, <1>2, <1>3, <2>3 DEF Found
    <2>5. Pending' /\ Pending
      BY <1>1, <2>1 DEF Pending
    <2>6. Room(log)'
      BY <1>3, <1>5 DEF DeviceInv
    <2>7. QED  BY <2>2, <2>4, <2>5, <2>6
  <1>6. QED  BY <1>3, <1>4, <1>5 DEF DeviceInv

LEMMA UnsafeKeeps ==
    ASSUME NEW log, Types, DeviceInv(log), Unsafe
    PROVE  DeviceInv(log)'
  <1>1. /\ UNCHANGED <<rb, throttled, data_tail, signals>>
        /\ pc = "paused" /\ pc' = "idle" /\ enable_device
    BY DEF Unsafe, kernel
  <1>2. ~Reading /\ ~Reading'
    BY <1>1 DEF Reading
  <1>3. Room(log) => Room(log)'
    BY <1>1, <1>2, QuietKeeps
  <1>4. ASSUME ~loose'  PROVE Armed' /\ Found(log)' /\ ~loose
    <2>1. ~loose /\ limit = 0 /\ signals = 0 /\ limit' = 1
      BY <1>1, <1>4, EnableFacts
    <2>2. Armed'
      BY <1>1, <2>1 DEF Armed
    <2>3. Found(log)'
      BY <1>1, <1>2, <2>1 DEF Found
    <2>4. QED  BY <2>1, <2>2, <2>3
  <1>5. dropped'
    BY DEF Unsafe
  <1>6. QED  BY <1>3, <1>4, <1>5 DEF DeviceInv

LEMMA DeliverKeeps ==
    ASSUME NEW log, Types, DeviceInv(log), Deliver
    PROVE  DeviceInv(log)'
  <1>1. /\ UNCHANGED <<rb, throttled, data_tail, signals, dropped>>
        /\ pc = "deliver" /\ pc' = "idle" /\ enable_device
    BY DEF Deliver, kernel
  <1>2. ~Reading /\ ~Reading' /\ (Pending' <=> Pending)
    BY <1>1 DEF Reading, Pending
  <1>3. /\ Room(log) => Room(log)'
        /\ NothingLost => NothingLost'
    BY <1>1, <1>2, QuietKeeps
  <1>4. ASSUME ~loose'  PROVE Armed' /\ Found(log)' /\ ~loose
    <2>1. ~loose /\ limit = 0 /\ signals = 0 /\ limit' = 1
      BY <1>1, <1>4, EnableFacts
    <2>2. Armed'
      BY <1>1, <2>1 DEF Armed
    <2>3. Found(log)'
      BY <1>1, <1>2, <2>1 DEF Found
    <2>4. QED  BY <2>1, <2>2, <2>3
  <1>5. dropped' <=> dropped
    BY <1>1
  <1>6. QED  BY <1>3, <1>4, <1>5 DEF DeviceInv

\* The samples that wait are the ones before the head that is read.
LEMMA ReadHeadServes ==
    ASSUME NEW log, Types, ReaderInv(log), DeviceInv(log), ReadHead
    PROVE  DeviceInv(log)'
  <1>1. /\ UNCHANGED <<rb, throttled, data_tail, limit, signals>>
        /\ pc = "paused" /\ pc' = "copy" /\ head' = rb.data_head
    BY DEF ReadHead, kernel, device
  <1>2. enabled' = enabled /\ loose' = loose /\ dropped' = dropped
    BY DEF ReadHead, device
  <1>3. Sent' = rb.data_head /\ Reading' /\ Pending' /\ Pending
    BY <1>1 DEF Sent, Reading, Pending
  <1>4. rb.data_head \in Nat
    BY DEF ReaderInv, Logged
  <1>5. Room(log)'
    BY <1>1, <1>3, <1>4 DEF Room
  <1>6. ASSUME ~loose  PROVE Armed' /\ Found(log)'
    <2>1. limit + signals <= 1 /\ limit + signals # 1 /\ ~enabled
      BY <1>1, <1>6 DEF DeviceInv, Armed
    <2>2. Armed'
      BY <1>1, <1>2, <2>1 DEF Armed
    <2>3. signals # 1
      BY <2>1 DEF Types
    <2>4. PICK r \in rb.samples : data_tail <= log[r].at
      BY <1>1, <1>6 DEF DeviceInv, Found, Fresh
    <2>5. r \in 1 .. rb.written /\ rb.written \in Nat
      BY DEF ReaderInv, Logged
    <2>6. r \in 1 .. rb.written + 1 /\ r < rb.written + 1 /\ rb.written + 1 \in 1 .. rb.written + 1
      BY <2>5
    <2>7. Start(rb, log, r) + SizeOf(sample_type, log[r]) <= rb.data_head
      BY <2>6, StartsOrdered DEF ReaderInv
    <2>8. Start(rb, log, r) = log[r].at
      BY <2>5 DEF Start
    <2>9. log[r].at \in Nat /\ SizeOf(sample_type, log[r]) \in Nat \ {0}
      BY <2>5, EntryFacts DEF ReaderInv, Logged
    <2>10. log[r].at < rb.data_head
      BY <1>4, <2>7, <2>8, <2>9
    <2>11. Found(log)'
      BY <1>1, <2>3, <2>4, <2>10 DEF Found
    <2>12. QED  BY <2>2, <2>11
  <1>7. NothingLost => NothingLost'
    BY <1>1, <1>3, <1>4 DEF NothingLost
  <1>8. QED  BY <1>2, <1>5, <1>6, <1>7 DEF DeviceInv

\* Copying and parsing change nothing of it.
LEMMA CopyParseServe ==
    ASSUME NEW log, Types, DeviceInv(log), CopyEnd \/ CopyStart \/ ParseRecord
    PROVE  DeviceInv(log)'
  <1>1. /\ UNCHANGED <<rb, throttled, data_tail, limit, signals, head>>
        /\ Reading /\ Reading' /\ pc' \in {"wrap", "parse"}
    BY DEF CopyEnd, CopyStart, ParseRecord, kernel, device, Reading
  <1>2. enabled' = enabled /\ loose' = loose /\ dropped' = dropped
    BY DEF CopyEnd, CopyStart, ParseRecord, device
  <1>3. Sent' = Sent /\ Pending' /\ Pending
    BY <1>1 DEF Sent, Pending
  <1>4. Room(log) => Room(log)'
    BY <1>1, <1>3 DEF Room, Fresh
  <1>5. NothingLost => NothingLost'
    BY <1>1, <1>3 DEF NothingLost
  <1>6. ASSUME ~loose  PROVE Armed' /\ Found(log)'
    <2>1. limit + signals <= 1 /\ limit + signals # 1 /\ ~enabled
      BY <1>1, <1>6 DEF DeviceInv, Armed, Reading
    <2>2. Armed'
      BY <1>1, <1>2, <2>1 DEF Armed
    <2>3. signals # 1
      BY <2>1 DEF Types
    <2>4. \E r \in rb.samples : data_tail <= log[r].at /\ log[r].at < head
      BY <1>1, <1>6 DEF DeviceInv, Found
    <2>5. Found(log)'
      BY <1>1, <2>3, <2>4 DEF Found
    <2>6. QED  BY <2>2, <2>5
  <1>7. QED  BY <1>2, <1>4, <1>5, <1>6 DEF DeviceInv

\* The sample that the signal announced was parsed before the space is given back.
LEMMA ReleaseServes ==
    ASSUME NEW log, Types, ReaderInv(log), DeviceInv(log), Release
    PROVE  DeviceInv(log)'
  <1>1. /\ UNCHANGED <<rb, throttled, limit, signals, head, event>>
        /\ pc = "parse" /\ pc' = "deliver" /\ data_tail' = head /\ offset >= size
    BY DEF Release, kernel, device
  <1>2. enabled' = enabled /\ loose' = loose /\ dropped' = dropped
    BY DEF Release, device
  <1>3. Reading /\ ~Reading' /\ Sent' = head /\ Sent = head
    BY <1>1 DEF Reading, Sent
  <1>4. Room(log) => Room(log)'
    BY <1>1, <1>3 DEF Room, Fresh
  <1>5. ASSUME ~loose  PROVE Armed' /\ Found(log)' /\ signals = 0
    <2>1. limit + signals <= 1 /\ limit + signals # 1 /\ ~enabled
      BY <1>1, <1>5 DEF DeviceInv, Armed
    <2>2. Armed'
      BY <1>1, <1>2, <2>1 DEF Armed
    <2>3. signals = 0
      BY <2>1 DEF Types
    <2>4. event # NewEvent
      <3> SUFFICES ASSUME event = NewEvent PROVE FALSE
        OBVIOUS
      <3>1. PICK r \in rb.samples : data_tail <= log[r].at /\ log[r].at < head
        BY <1>3, <1>5 DEF DeviceInv, Found
      <3>2. /\ rb.written \in Nat /\ parsed \in 0 .. rb.written /\ r \in 1 .. rb.written
            /\ data_tail = read_head /\ read_head \in Nat /\ offset \in Nat
        BY DEF ReaderInv, Logged, Reader
      <3>3. size \in 0 .. Cap /\ Cap \in Nat
        BY <1>3, HeadBetween
      <3>4. head = Start(rb, log, parsed + 1)
        <4>1. ~(offset < size)
          BY <1>1, <3>2, <3>3
        <4>2. QED  BY <1>1, <4>1, LastRecord
      <3>5. log[r].at \in Nat /\ SizeOf(sample_type, log[r]) \in Nat \ {0}
        BY <3>2, EntryFacts DEF ReaderInv, Logged
      <3>6. r < parsed + 1
        <4>1. log[r].at \in Int /\ log[r].at - log[r].at \in 0 .. SizeOf(sample_type, log[r]) - 1
          BY <3>5
        <4>2. parsed + 1 \in 1 .. rb.written + 1
          BY <3>2
        <4>3. log[r].at < Start(rb, log, parsed + 1) <=> r < parsed + 1
          BY <3>2, <4>1, <4>2, BeforeStart DEF ReaderInv
        <4>4. QED  BY <3>1, <3>4, <4>3
      <3>7. r <= parsed
        BY <3>2, <3>6
      <3>8. CASE \A q \in rb.samples : q <= parsed => log[q].at < read_head
        BY <3>1, <3>2, <3>5, <3>7, <3>8
      <3>9. CASE \E q \in rb.samples : Newest(q) /\ event = EventOf(q)
        <4>1. PICK q \in rb.samples : event = EventOf(q)
          BY <3>9
        <4>2. q \in 1 .. rb.written
          BY <4>1 DEF ReaderInv, Logged
        <4>3. EventOf(q)["IP"] = Word(q, "IP", 0)
          BY LayoutAssumption DEF EventOf, Kept, Types
        <4>4. NewEvent["IP"] = Blank
          BY DEF NewEvent, Kept
        <4>5. Word(q, "IP", 0).rec = q /\ Blank.rec = 0
          BY DEF Word, Blank
        <4>6. q = 0
          BY <4>1, <4>3, <4>4, <4>5
        <4>7. QED  BY <3>2, <4>2, <4>6
      <3>10. QED  BY <1>1, <3>8, <3>9 DEF ReaderInv, Filled
    <2>5. Found(log)'
      <3>1. event' # NewEvent'
        BY <1>1, <2>4 DEF NewEvent
      <3>2. signals' # 1
        BY <1>1, <2>3
      <3>3. QED  BY <1>1, <1>3, <3>1, <3>2 DEF Found
    <2>6. QED  BY <2>2, <2>3, <2>5
  <1>6. ASSUME NothingLost, signals = 0  PROVE NothingLost'
    <2>1. rb.lost = 0 /\ rb.data_head <= head + (IF throttled THEN 0 ELSE 4)
      BY <1>3, <1>6 DEF NothingLost
    <2>2. ~Pending'
      BY <1>1, <1>3, <1>6 DEF Pending
    <2>3. QED  BY <1>1, <1>3, <2>1, <2>2 DEF NothingLost
  <1>7. QED  BY <1>2, <1>4, <1>5, <1>6 DEF DeviceInv

-----------------------------------------------------------------------------
(* The theorems                                                            *)

LEMMA RingInit ==
    ASSUME Init
    PROVE  RingInv
  <1>1. Types
    BY DEF Init, Types
  <1>2. /\ rb = [ring |-> Empty, data_head |-> 0, lost |-> 0, written |-> 0, samples |-> {}]
        /\ data_tail = 0 /\ read_head = 0 /\ offset = 0 /\ parsed = 0 /\ pc = "idle"
        /\ limit = 0 /\ signals = 0 /\ loose = enabled
    BY DEF Init
  <1>3. /\ rb.ring = Empty /\ rb.data_head = 0 /\ rb.lost = 0 /\ rb.written = 0
        /\ rb.samples = {}
    BY <1>2
  <1>4. PICK log : log = [r \in 1 .. 0 |-> 0]
    OBVIOUS
  <1>5. 1 .. 0 = {}
    OBVIOUS
  <1>6. Logged(sample_type, rb, log)
    <2>1. log \in [1 .. rb.written -> LogEntry] /\ 1 .. rb.written = {}
      BY <1>3, <1>4, <1>5
    <2>2. QED  BY <1>2, <1>3, <2>1 DEF Logged
  <1>7. InRing(sample_type, rb, log, data_tail)
    <2>1. Cap \in Nat
      BY RingAssumption
    <2>2. data_tail .. rb.data_head - 1 = {}
      BY <1>2, <1>3
    <2>3. QED  BY <1>2, <1>3, <2>1, <2>2 DEF InRing
  <1>8. Start(rb, log, parsed + 1) = 0
    BY <1>2, <1>3 DEF Start
  <1>9. Reader(log) /\ Copied(log) /\ Filled(log)
    BY <1>2, <1>3, <1>8 DEF Reader, Copied, Filled, Reading
  <1>10. DeviceInv(log)
    <2>1. Sent = 0 /\ ~Reading /\ ~Pending
      BY <1>2 DEF Sent, Reading, Pending
    <2>2. ~loose => ~enabled
      BY <1>2
    <2>3. ~loose => Armed /\ Found(log) /\ Room(log)
      BY <1>2, <1>3, <2>1, <2>2 DEF Armed, Found, Room
    <2>4. NothingLost
      BY <1>2, <1>3, <2>1 DEF NothingLost
    <2>5. QED  BY <2>3, <2>4 DEF DeviceInv
  <1>11. ReaderInv(log)
    BY <1>6, <1>7, <1>9 DEF ReaderInv
  <1>12. QED  BY <1>1, <1>10, <1>11 DEF RingInv

LEMMA RingNext ==
    ASSUME RingInv, [Next]_vars
    PROVE  RingInv'
  <1>1. Types /\ Types'
    BY TypesKept DEF RingInv
  <1>2. PICK log : ReaderInv(log) /\ DeviceInv(log)
    BY DEF RingInv
  <1>3. sample_type \in SampleTypes
    BY <1>1 DEF Types
  <1>4. offset \in Nat
    BY <1>2 DEF ReaderInv, Reader
  <1>5. CASE UNCHANGED vars
    <2>1. UNCHANGED <<rb, sample_type, data_tail, reader>>
      BY <1>5 DEF vars, kernel
    <2>2. Grown(rb, log, rb', log)
      BY <1>2, <2>1, GrownNot DEF ReaderInv, Logged
    <2>3. ReaderInv(log)'
      <3>1. Logged(sample_type, rb', log) /\ InRing(sample_type, rb', log, data_tail)
        BY <1>2, <2>1 DEF ReaderInv
      <3>2. QED  BY <1>2, <2>1, <2>2, <3>1, KernelKeeps
    <2>4. /\ UNCHANGED <<rb, throttled, data_tail, limit, signals, head, pc, event>>
          /\ enabled' = enabled /\ loose' = loose /\ dropped' = dropped
      BY <1>5 DEF vars, kernel, device, reader
    <2>5. DeviceInv(log)'
      BY <1>2, <2>4
      DEF DeviceInv, Armed, Found, Room, NothingLost, Pending, Reading, Sent, Fresh, NewEvent
    <2>6. QED  BY <1>1, <2>3, <2>5 DEF RingInv
  <1>6. ASSUME NEW throttle \in BOOLEAN, NEW n \in Chains, Overflow(throttle, n)
        PROVE  RingInv'
    <2>1. \E more : ReaderInv(more)' /\ DeviceInv(more)'
      BY <1>1, <1>2, <1>6, OverflowKeeps
    <2>2. QED  BY <1>1, <2>1 DEF RingInv
  <1>7. CASE Unthrottle
    <2>1. \E more : ReaderInv(more)' /\ DeviceInv(more)'
      BY <1>1, <1>2, <1>7, UnthrottleKeeps
    <2>2. QED  BY <1>1, <2>1 DEF RingInv
  <1>8. CASE OthersPause \/ OthersResume \/ Signal \/ Unsafe \/ Deliver
    <2>1. /\ UNCHANGED <<kernel, read_head, parsed, data_tail>>
          /\ pc # "parse" /\ pc' \in {"idle", "others", "paused"} /\ offset' \in Nat
      BY <1>4, <1>8 DEF OthersPause, OthersResume, Signal, Unsafe, Deliver
    <2>2. ReaderInv(log)'
      BY <1>2, <2>1, OutsideKeeps
    <2>3. DeviceInv(log)'
      BY <1>1, <1>2, <1>8, PauseKeeps, ResumeKeeps, SignalKeeps, UnsafeKeeps, DeliverKeeps
    <2>4. QED  BY <1>1, <2>2, <2>3 DEF RingInv
  <1>9. CASE ReadHead
    BY <1>1, <1>2, <1>9, ReadHeadKeeps, ReadHeadServes DEF RingInv
  <1>10. CASE CopyEnd \/ CopyStart
    BY <1>1, <1>2, <1>10, CopyKeeps, CopyParseServe DEF RingInv
  <1>11. CASE ParseRecord
    BY <1>1, <1>2, <1>3, <1>11, ParseKeeps, CopyParseServe DEF RingInv
  <1>12. CASE Release
    BY <1>1, <1>2, <1>12, ReleaseKeeps, ReleaseServes DEF RingInv
  <1>13. QED
    BY <1>5, <1>6, <1>7, <1>8, <1>9, <1>10, <1>11, <1>12 DEF Next, Handler

(***************************************************************************)
(* The inductive invariant: perf_mmap_read and the kernel agree on where   *)
(* the records are, and generic_dev_signal_handler on what a signal finds. *)
(***************************************************************************)
THEOREM RingInductive == Spec => []RingInv
  <1>1. Init => RingInv
    BY RingInit
  <1>2. RingInv /\ [Next]_vars => RingInv'
    BY RingNext
  <1>3. QED  BY <1>1, <1>2, PTL DEF Spec

(***************************************************************************)
(* perf_mmap_read parses every record once: it always stands on the header *)
(* of the next one, although it adds up the fields it expects and never    *)
(* looks at the size in the header, and it ends at the head it read.       *)
(***************************************************************************)
THEOREM RecordsParsedOnce == Spec => []ParsedOnce
  <1>1. ASSUME RingInv  PROVE ParsedOnce
    <2> SUFFICES ASSUME pc = "parse" PROVE ParsedOnce
      BY DEF ParsedOnce
    <2>1. PICK log : ReaderInv(log)
      BY <1>1 DEF RingInv
    <2>2. CASE offset < size
      <3>1. At(offset).rec = parsed + 1 /\ At(offset).field = log[parsed + 1].kind
        BY <2>1, <2>2, HeaderRead
      <3>2. log[parsed + 1] \in LogEntry
        BY <2>1, <2>2, HeaderRead
      <3>3. log[parsed + 1].kind # "entry"
        BY <3>2, EntryFacts DEF Kinds, KernelSize
      <3>4. QED  BY <2>2, <3>1, <3>3 DEF ParsedOnce
    <2>3. CASE ~(offset < size)
      <3>1. offset = size /\ head = Start(rb, log, parsed + 1)
        BY <2>1, <2>3, LastRecord
      <3>2. /\ size \in 0 .. Cap /\ Cap \in Nat /\ head \in Nat /\ read_head \in Nat
            /\ size = head - read_head
        BY <2>1, HeadBetween DEF Reading, size
      <3>3. rb.written \in Nat /\ parsed \in 0 .. rb.written
        BY <2>1 DEF ReaderInv, Logged, Reader
      <3>4. parsed + 1 \in 1 .. rb.written + 1 /\ Logged(sample_type, rb, log)
        BY <2>1, <3>3 DEF ReaderInv
      <3>5. ASSUME NEW i \in 0 .. size - 1, NEW r, r = data[i].rec, NEW p, p = read_head + i
            PROVE  /\ r \in 1 .. rb.written /\ p \in Int /\ r <= parsed
                   /\ p - log[r].at \in 0 .. SizeOf(sample_type, log[r]) - 1
        <4>1. i \in 0 .. Cap - 1 /\ read_head + i < head /\ p \in Int
          BY <3>2, <3>5
        <4>2. Holds(sample_type, log, p, data[i])
          BY <2>1, <3>5, <4>1 DEF ReaderInv, Copied
        <4>3. DOMAIN log = 1 .. rb.written
          BY <3>4 DEF Logged
        <4>4. r \in 1 .. rb.written /\ p - log[r].at \in 0 .. SizeOf(sample_type, log[r]) - 1
          BY <3>5, <4>2, <4>3 DEF Holds
        <4>5. p < Start(rb, log, parsed + 1) <=> r < parsed + 1
          BY <3>4, <4>1, <4>4, BeforeStart
        <4>6. r < parsed + 1
          BY <3>1, <3>5, <4>1, <4>5
        <4>7. r <= parsed
          BY <3>3, <4>4, <4>6
        <4>8. QED  BY <4>1, <4>4, <4>7
      <3>6. ASSUME size > 0  PROVE data[size - 1].rec = parsed
        <4>1. PICK i, r, p : i = size - 1 /\ r = data[i].rec /\ p = read_head + i
          OBVIOUS
        <4>2. i \in 0 .. size - 1
          BY <3>2, <3>6, <4>1
        <4>3. /\ r \in 1 .. rb.written /\ p \in Int /\ r <= parsed
              /\ p - log[r].at \in 0 .. SizeOf(sample_type, log[r]) - 1
          BY <3>5, <4>1, <4>2
        <4>4. parsed \in 1 .. rb.written /\ parsed \in 1 .. rb.written + 1
          BY <3>3, <4>3
        <4>5. p < Start(rb, log, parsed) <=> r < parsed
          BY <3>4, <4>3, <4>4, BeforeStart
        <4>6. /\ log[parsed].at + SizeOf(sample_type, log[parsed]) = Start(rb, log, parsed + 1)
              /\ Start(rb, log, parsed) = log[parsed].at
          BY <3>3, <3>4, <4>4 DEF Logged, Start
        <4>7. log[parsed].at \in Nat /\ SizeOf(sample_type, log[parsed]) \in Nat \ {0}
          BY <3>4, <4>4, EntryFacts DEF Logged
        <4>8. ~(p < Start(rb, log, parsed))
          BY <3>1, <3>2, <4>1, <4>6, <4>7
        <4>9. QED  BY <3>3, <4>1, <4>3, <4>5, <4>8
      <3>7. \A i \in 0 .. size - 1 : data[i].rec <= parsed
        BY <3>5
      <3>8. QED  BY <2>3, <3>1, <3>6, <3>7 DEF ParsedOnce
    <2>4. QED  BY <2>2, <2>3
  <1>2. QED  BY <1>1, RingInductive, PTL

(***************************************************************************)
(* The Event of handle_perf_event is one sample and the newest that was    *)
(* read: no field comes from another sample or from the wrong word.        *)
(***************************************************************************)
THEOREM EventsAreWhole == Spec => []EventWhole
  <1>1. ASSUME RingInv  PROVE EventWhole
    <2> SUFFICES ASSUME pc = "deliver", event["IP"] # Blank PROVE EventWhole
      BY DEF EventWhole
    <2>1. PICK log : ReaderInv(log)
      BY <1>1 DEF RingInv
    <2>2. NewEvent["IP"] = Blank
      BY DEF NewEvent, Kept
    <2>3. PICK r \in rb.samples : Newest(r) /\ event = EventOf(r)
      BY <2>1, <2>2 DEF ReaderInv, Filled
    <2>4. "IP" \in sample_type
      BY <1>1, LayoutAssumption DEF RingInv, Types
    <2>5. \A f \in Kept \cap sample_type : event[f] = Word(r, f, 0)
      BY <2>3 DEF EventOf
    <2>6. "IP" \in Kept \cap sample_type
      BY <2>4 DEF Kept
    <2>7. event["IP"].rec = r
      <3>1. event["IP"] = Word(r, "IP", 0)
        BY <2>5, <2>6
      <3>2. QED  BY <3>1 DEF Word
    <2>8. \A q \in rb.samples : q <= parsed => q <= r
      BY <2>3 DEF Newest
    <2>9. QED  BY <2>5, <2>7, <2>8 DEF EventWhole
  <1>2. QED  BY <1>1, RingInductive, PTL

(***************************************************************************)
(* A device that enable_device arms only when its limit is used up and its *)
(* signals are served never hands the tool an uninitialised Event, and     *)
(* loses no record unless a signal came in signal-unsafe code.             *)
(***************************************************************************)
THEOREM NoEventIsEmpty == Spec => []NoEmptyEvent
  <1>1. ASSUME RingInv  PROVE NoEmptyEvent
    <2>1. PICK log : ReaderInv(log) /\ DeviceInv(log)
      BY <1>1 DEF RingInv
    <2>2. ASSUME pc = "deliver", event["IP"] = Blank, ~loose  PROVE FALSE
      <3>1. event # NewEvent
        BY <2>1, <2>2 DEF DeviceInv, Found
      <3>2. PICK r \in rb.samples : event = EventOf(r)
        BY <2>1, <2>2, <3>1 DEF ReaderInv, Filled
      <3>3. EventOf(r)["IP"] = Word(r, "IP", 0)
        BY <1>1, LayoutAssumption DEF RingInv, Types, EventOf, Kept
      <3>4. Word(r, "IP", 0).rec = r /\ Blank.rec = 0
        BY DEF Word, Blank
      <3>5. r = 0
        BY <2>2, <3>2, <3>3, <3>4
      <3>6. r \in 1 .. rb.written
        BY <2>1, <3>2 DEF ReaderInv, Logged
      <3>7. QED  BY <3>5, <3>6
    <2>3. ASSUME rb.lost > 0, ~loose, ~dropped  PROVE FALSE
      <3>1. rb.lost = 0
        BY <2>1, <2>3 DEF DeviceInv, NothingLost
      <3>2. QED  BY <2>3, <3>1
    <2>4. QED  BY <2>2, <2>3 DEF NoEmptyEvent
  <1>2. QED  BY <1>1, RingInductive, PTL
=============================================================================
