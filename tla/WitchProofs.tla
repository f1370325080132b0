----------------------------- MODULE WitchProofs -----------------------------
(***************************************************************************)
(* Proofs about the witch logics, for every set of contexts, every number  *)
(* of samples and reports and every build: what the event map promises to  *)
(* the triggers, and that it forgets the samples it has answered.          *)
(***************************************************************************)
EXTENDS WitchLogic, FiniteSetTheorems, WellFoundedInduction, TLAPS

-----------------------------------------------------------------------------
(* Sums over finite sets                                                   *)

\* A set of natural numbers that has an element has a least one. The induction theorems
\* of the library take the property as an operator; this form takes it as a set.
LEMMA LeastNumber ==
    ASSUME NEW T, T \subseteq Nat, T # {}
    PROVE  \E m \in T : \A k \in T : m <= k
  <1>1. PICK m \in T : \A k \in T : ~ (<<k, m>> \in OpToRel(<, Nat))
    BY NatLessThanWellFounded, WFMin
  <1>2. \A k \in T : ~(k < m)
    BY <1>1 DEF OpToRel
  <1>3. QED  BY <1>2

\* The equation that SumFunctionOnSet unfolds: one element after the other.
Summand(f, g, s) ==
    IF s = {} THEN 0 ELSE f[CHOOSE x \in s : TRUE] + g[s \ {CHOOSE x \in s : TRUE}]

\* The sums of f over all subsets of S.
Sums(f, S) == CHOOSE g : g = [s \in SUBSET S |-> Summand(f, g, s)]

\* What SumFunctionOnSet means, in these terms.
LEMMA SumIsSums ==
    ASSUME NEW f, NEW S
    PROVE  SumFunctionOnSet(f, S) = Sums(f, S)[S]
  BY DEF SumFunctionOnSet, FoldFunctionOnSet, MapThenFoldSet, Sums, Summand

\* On a finite set the equation has a solution: the solutions for the subsets of up to n
\* elements extend to those of up to n + 1.
LEMMA SumsDefined ==
    ASSUME NEW f, NEW S, IsFiniteSet(S)
    PROVE  \E g : g = [s \in SUBSET S |-> Summand(f, g, s)]
  <1> DEFINE Upto(n) == {s \in SUBSET S : Cardinality(s) <= n}
             Solved(n) == \E g : g = [s \in Upto(n) |-> Summand(f, g, s)]
             Failed == {n \in Nat : ~Solved(n)}
  <1>1. \A s \in SUBSET S : IsFiniteSet(s) /\ Cardinality(s) \in Nat
    BY FS_Subset, FS_CardinalityType
  <1>2. \A s \in SUBSET S : s # {} =>
           LET x == CHOOSE x \in s : TRUE
           IN  s \ {x} \in SUBSET S /\ Cardinality(s \ {x}) = Cardinality(s) - 1
    <2> SUFFICES ASSUME NEW s \in SUBSET S, s # {}
                 PROVE  LET x == CHOOSE x \in s : TRUE
                        IN  s \ {x} \in SUBSET S /\ Cardinality(s \ {x}) = Cardinality(s) - 1
      OBVIOUS
    <2> DEFINE x == CHOOSE x \in s : TRUE
    <2>1. x \in s
      OBVIOUS
    <2> HIDE DEF x
    <2>2. s \ {x} \in SUBSET S /\ Cardinality(s \ {x}) = Cardinality(s) - 1
      BY <1>1, <2>1, FS_RemoveElement
    <2>3. QED  BY <2>2 DEF x
  <1>3. Solved(0)
    <2> DEFINE g == [s \in Upto(0) |-> 0]
    <2>1. \A s \in Upto(0) : s = {}
      BY <1>1, FS_EmptySet
    <2>2. g = [s \in Upto(0) |-> Summand(f, g, s)]
      BY <2>1 DEF Summand
    <2>3. QED  BY <2>2
  <1>4. ASSUME NEW n \in Nat, Solved(n)  PROVE Solved(n + 1)
    <2>1. PICK g : g = [s \in Upto(n) |-> Summand(f, g, s)]
      BY <1>4
    <2> DEFINE h == [s \in Upto(n + 1) |-> Summand(f, g, s)]
    <2>2. \A s \in Upto(n) : s \in Upto(n + 1) /\ h[s] = g[s]
      <3>1. \A s \in Upto(n) : s \in Upto(n + 1)
        BY <1>1
      <3> HIDE DEF Upto
      <3>2. QED  BY <2>1, <3>1
    <2>3. \A s \in Upto(n + 1) : Summand(f, g, s) = Summand(f, h, s)
      <3>1. \A s \in Upto(n + 1) : s # {} => s \ {CHOOSE x \in s : TRUE} \in Upto(n)
        BY <1>1, <1>2
      <3> HIDE DEF Upto, h
      <3>2. QED  BY <2>2, <3>1 DEF Summand
    <2>4. h = [s \in Upto(n + 1) |-> Summand(f, h, s)]
      <3> HIDE DEF Upto
      <3>1. QED  BY <2>3
    <2>5. QED  BY <2>4
  <1>5. Failed = {}
    <2> SUFFICES ASSUME Failed # {} PROVE FALSE
      OBVIOUS
    <2> HIDE DEF Solved
    <2>1. PICK m \in Failed : \A k \in Failed : m <= k
      BY LeastNumber
    <2>2. m # 0 /\ m - 1 \in Nat /\ m - 1 \notin Failed
      BY <1>3, <2>1
    <2>3. QED  BY <1>4, <2>1, <2>2
  <1>6. Solved(Cardinality(S))
    <2> HIDE DEF Solved
    <2>1. QED  BY <1>1, <1>5
  <1>7. Upto(Cardinality(S)) = SUBSET S
    BY FS_Subset
  <1>8. QED
    <2> HIDE DEF Upto
    <2>1. QED  BY <1>6, <1>7

\* Induction over the subsets of a finite set, the property given as the set Good.
LEMMA SubsetInduction ==
    ASSUME NEW S, IsFiniteSet(S), NEW Good,
           ASSUME NEW s \in SUBSET S, \A r \in SUBSET s : r # s => r \in Good
           PROVE  s \in Good
    PROVE  SUBSET S \subseteq Good
  <1> DEFINE Bad == {s \in SUBSET S : s \notin Good}
             Sizes == {n \in Nat : \E s \in Bad : n = Cardinality(s)}
  <1> SUFFICES ASSUME Bad # {} PROVE FALSE
    OBVIOUS
  <1>1. \A s \in SUBSET S : IsFiniteSet(s) /\ Cardinality(s) \in Nat
    BY FS_Subset, FS_CardinalityType
  <1>2. Sizes # {}
    BY <1>1
  <1>3. PICK m \in Sizes : \A k \in Sizes : m <= k
    <2> HIDE DEF Bad
    <2>1. Sizes \subseteq Nat
      OBVIOUS
    <2> HIDE DEF Sizes
    <2>2. QED  BY <1>2, <2>1, LeastNumber
  <1>4. PICK s \in Bad : m = Cardinality(s)
    OBVIOUS
  <1>5. ASSUME NEW r \in SUBSET s, r # s  PROVE r \in Good
    <2>1. r \in SUBSET S /\ IsFiniteSet(s) /\ s \in SUBSET S
      BY <1>1
    <2>2. Cardinality(r) <= Cardinality(s) /\ Cardinality(r) # Cardinality(s)
      BY <1>5, <2>1, FS_Subset
    <2>3. Cardinality(r) \in Nat /\ Cardinality(s) \in Nat
      BY <1>1, <2>1
    <2>4. r \in Bad => Cardinality(r) \in Sizes
      BY <2>3
    <2> HIDE DEF Sizes
    <2>5. r \notin Bad
      BY <1>3, <1>4, <2>2, <2>3, <2>4
    <2>6. QED  BY <2>1, <2>5
  <1>6. s \in SUBSET S /\ s \notin Good
    OBVIOUS
  <1>7. QED  BY <1>5, <1>6

\* So the sums satisfy the equation that defines them.
LEMMA SumsEquation ==
    ASSUME NEW f, NEW S, IsFiniteSet(S)
    PROVE  \A s \in SUBSET S : Sums(f, S)[s] = Summand(f, Sums(f, S), s)
  <1>1. Sums(f, S) = [s \in SUBSET S |-> Summand(f, Sums(f, S), s)]
    BY SumsDefined DEF Sums
  <1> DEFINE g == Sums(f, S)
  <1>2. g = [s \in SUBSET S |-> Summand(f, g, s)]
    BY <1>1
  <1> HIDE DEF g
  <1>3. \A s \in SUBSET S : g[s] = Summand(f, g, s)
    BY <1>2
  <1>4. QED  BY <1>3 DEF g

\* The sum over a subset depends on the subset's own values only.
LEMMA SumsAgree ==
    ASSUME NEW S, IsFiniteSet(S), NEW T \in SUBSET S, NEW f, NEW h,
           \A x \in T : f[x] = h[x]
    PROVE  \A s \in SUBSET T : Sums(f, S)[s] = Sums(h, T)[s]
  <1> DEFINE g == Sums(f, S)
             k == Sums(h, T)
             Good == {s \in SUBSET T : g[s] = k[s]}
  <1>1. IsFiniteSet(T)
    BY FS_Subset
  <1>2. /\ \A s \in SUBSET S : g[s] = Summand(f, g, s)
        /\ \A s \in SUBSET T : k[s] = Summand(h, k, s)
    BY <1>1, SumsEquation
  <1> HIDE DEF g, k
  <1>3. ASSUME NEW s \in SUBSET T, \A r \in SUBSET s : r # s => r \in Good
        PROVE  s \in Good
    <2>1. s \in SUBSET S
      OBVIOUS
    <2>2. g[s] = Summand(f, g, s) /\ k[s] = Summand(h, k, s)
      BY <1>2, <2>1
    <2>3. CASE s = {}
      BY <2>2, <2>3 DEF Summand
    <2>4. CASE s # {}
      <3> DEFINE x == CHOOSE x \in s : TRUE
      <3>1. x \in s
        BY <2>4
      <3>2. g[s] = f[x] + g[s \ {x}] /\ k[s] = h[x] + k[s \ {x}]
        BY <2>2, <2>4 DEF Summand
      <3> HIDE DEF x
      <3>3. s \ {x} \in Good
        BY <1>3, <3>1
      <3>4. QED  BY <3>1, <3>2, <3>3
    <2>5. QED  BY <2>3, <2>4
  <1> HIDE DEF Good
  <1>4. SUBSET T \subseteq Good
    BY <1>1, <1>3, SubsetInduction
  <1>5. QED  BY <1>4 DEF Good, g, k

\* Functions that agree on a set have the same sum over it.
LEMMA SumAgrees ==
    ASSUME NEW S, IsFiniteSet(S), NEW f, NEW h, \A x \in S : f[x] = h[x]
    PROVE  SumFunctionOnSet(f, S) = SumFunctionOnSet(h, S)
  <1>1. S \in SUBSET S
    OBVIOUS
  <1>2. Sums(f, S)[S] = Sums(h, S)[S]
    BY <1>1, SumsAgree
  <1>3. QED  BY <1>2, SumIsSums

\* The empty sum.
LEMMA SumEmpty ==
    ASSUME NEW f
    PROVE  SumFunctionOnSet(f, {}) = 0
  <1>1. IsFiniteSet({})
    BY FS_EmptySet
  <1>2. Sums(f, {})[{}] = Summand(f, Sums(f, {}), {})
    BY <1>1, SumsEquation
  <1>3. QED  BY <1>2, SumIsSums DEF Summand

\* A sum of natural numbers is one.
LEMMA SumType ==
    ASSUME NEW S, IsFiniteSet(S), NEW f, \A x \in S : f[x] \in Nat
    PROVE  SumFunctionOnSet(f, S) \in Nat
  <1> DEFINE g == Sums(f, S)
             Good == {s \in SUBSET S : g[s] \in Nat}
  <1>1. \A s \in SUBSET S : g[s] = Summand(f, g, s)
    BY SumsEquation
  <1> HIDE DEF g
  <1>2. ASSUME NEW s \in SUBSET S, \A r \in SUBSET s : r # s => r \in Good
        PROVE  s \in Good
    <2>1. g[s] = Summand(f, g, s)
      BY <1>1
    <2>2. CASE s = {}
      BY <2>1, <2>2 DEF Summand
    <2>3. CASE s # {}
      <3> DEFINE x == CHOOSE x \in s : TRUE
      <3>1. x \in s
        BY <2>3
      <3>2. g[s] = f[x] + g[s \ {x}]
        BY <2>1, <2>3 DEF Summand
      <3> HIDE DEF x
      <3>3. s \ {x} \in Good
        BY <1>2, <3>1
      <3>4. QED  BY <3>1, <3>2, <3>3
    <2>4. QED  BY <2>2, <2>3
  <1> HIDE DEF Good
  <1>3. SUBSET S \subseteq Good
    BY <1>2, SubsetInduction
  <1>4. QED  BY <1>3, SumIsSums DEF Good, g

\* Any element may be taken out first, not only the one CHOOSE picks.
LEMMA SumTakesOut ==
    ASSUME NEW S, IsFiniteSet(S), NEW f, \A x \in S : f[x] \in Nat, NEW y \in S
    PROVE  SumFunctionOnSet(f, S) = f[y] + SumFunctionOnSet(f, S \ {y})
  <1> DEFINE g == Sums(f, S)
             Good == {s \in SUBSET S : \A z \in s : g[s] = f[z] + g[s \ {z}]}
  <1>1. \A s \in SUBSET S : g[s] = Summand(f, g, s)
    BY SumsEquation
  <1>2. \A s \in SUBSET S : g[s] \in Nat
    <2> SUFFICES ASSUME NEW s \in SUBSET S PROVE g[s] \in Nat
      OBVIOUS
    <2>1. IsFiniteSet(s) /\ \A x \in s : f[x] \in Nat
      BY FS_Subset
    <2>2. SumFunctionOnSet(f, s) \in Nat
      BY <2>1, SumType
    <2>3. g[s] = SumFunctionOnSet(f, s)
      <3>1. s \in SUBSET s
        OBVIOUS
      <3>2. Sums(f, S)[s] = Sums(f, s)[s]
        BY <3>1, SumsAgree
      <3>3. QED  BY <3>2, SumIsSums
    <2>4. QED  BY <2>2, <2>3
  <1> HIDE DEF g
  <1>3. ASSUME NEW s \in SUBSET S, \A r \in SUBSET s : r # s => r \in Good
        PROVE  s \in Good
    <2> SUFFICES ASSUME NEW z \in s PROVE g[s] = f[z] + g[s \ {z}]
      OBVIOUS
    <2> DEFINE x == CHOOSE x \in s : TRUE
    <2>1. x \in s
      OBVIOUS
    <2>2. g[s] = f[x] + g[s \ {x}]
      BY <1>1, <2>1 DEF Summand
    <2> HIDE DEF x
    <2>3. CASE z = x
      BY <2>2, <2>3
    <2>4. CASE z # x
      <3>1. s \ {x} \in Good /\ s \ {z} \in Good
        BY <1>3, <2>1
      <3>2. /\ g[s \ {x}] = f[z] + g[(s \ {x}) \ {z}]
            /\ g[s \ {z}] = f[x] + g[(s \ {z}) \ {x}]
        BY <2>1, <2>4, <3>1
      <3>3. (s \ {x}) \ {z} = (s \ {z}) \ {x} /\ (s \ {x}) \ {z} \in SUBSET S
        OBVIOUS
      <3>4. f[x] \in Nat /\ f[z] \in Nat /\ g[(s \ {x}) \ {z}] \in Nat
        BY <1>2, <2>1, <3>3
      <3> DEFINE rest == g[(s \ {x}) \ {z}]
      <3>5. g[s \ {x}] = f[z] + rest /\ g[s \ {z}] = f[x] + rest
        BY <3>2, <3>3
      <3>6. f[x] + (f[z] + rest) = f[z] + (f[x] + rest)
        BY <3>4
      <3> HIDE DEF rest
      <3>7. QED  BY <2>2, <3>5, <3>6
    <2>5. QED  BY <2>3, <2>4
  <1> HIDE DEF Good
  <1>4. SUBSET S \subseteq Good
    BY <1>3, SubsetInduction
  <1>5. g[S] = f[y] + g[S \ {y}]
    BY <1>4 DEF Good
  <1>6. g[S \ {y}] = SumFunctionOnSet(f, S \ {y})
    <2>1. S \ {y} \in SUBSET S
      OBVIOUS
    <2>2. Sums(f, S)[S \ {y}] = Sums(f, S \ {y})[S \ {y}]
      BY <2>1, SumsAgree
    <2>3. QED  BY <2>2, SumIsSums DEF g
  <1>7. QED  BY <1>5, <1>6, SumIsSums DEF g

\* Larger values have a larger sum.
LEMMA SumMonotone ==
    ASSUME NEW S, IsFiniteSet(S), NEW f \in [S -> Nat], NEW h \in [S -> Nat],
           \A x \in S : f[x] <= h[x]
    PROVE  SumFunction(f) <= SumFunction(h)
  <1> DEFINE Good == {s \in SUBSET S : SumFunctionOnSet(f, s) <= SumFunctionOnSet(h, s)}
  <1>1. ASSUME NEW s \in SUBSET S, \A r \in SUBSET s : r # s => r \in Good
        PROVE  s \in Good
    <2>1. CASE s = {}
      <3>1. SumFunctionOnSet(f, {}) = 0 /\ SumFunctionOnSet(h, {}) = 0
        BY SumEmpty
      <3>2. QED  BY <2>1, <3>1
    <2>2. CASE s # {}
      <3>1. PICK x \in s : TRUE
        BY <2>2
      <3>2. IsFiniteSet(s) /\ IsFiniteSet(s \ {x})
        BY FS_Subset
      <3>3. /\ SumFunctionOnSet(f, s) = f[x] + SumFunctionOnSet(f, s \ {x})
            /\ SumFunctionOnSet(h, s) = h[x] + SumFunctionOnSet(h, s \ {x})
        BY <3>2, SumTakesOut
      <3>4. s \ {x} \in Good
        BY <1>1
      <3>5. f[x] \in Nat /\ h[x] \in Nat /\ f[x] <= h[x]
        OBVIOUS
      <3>6. SumFunctionOnSet(f, s \ {x}) \in Nat /\ SumFunctionOnSet(h, s \ {x}) \in Nat
        BY <3>2, SumType
      <3>7. QED  BY <3>3, <3>4, <3>5, <3>6
    <2>3. QED  BY <2>1, <2>2
  <1> HIDE DEF Good
  <1>2. SUBSET S \subseteq Good
    BY <1>1, SubsetInduction
  <1>3. SumFunctionOnSet(f, S) <= SumFunctionOnSet(h, S)
    BY <1>2 DEF Good
  <1>4. QED  BY <1>3 DEF SumFunction

\* SumType for the sum of a whole function.
LEMMA SumNat ==
    ASSUME NEW S, IsFiniteSet(S), NEW f \in [S -> Nat]
    PROVE  SumFunction(f) \in Nat
  BY SumType DEF SumFunction

\* SumAgrees for the sum of a whole function.
LEMMA SumSame ==
    ASSUME NEW S, IsFiniteSet(S), NEW f \in [S -> Nat], NEW h \in [S -> Nat],
           \A x \in S : f[x] = h[x]
    PROVE  SumFunction(f) = SumFunction(h)
  <1>1. SumFunctionOnSet(f, S) = SumFunctionOnSet(h, S)
    BY SumAgrees
  <1>2. QED  BY <1>1 DEF SumFunction

\* SumEmpty for the sum of a whole function.
LEMMA SumNone ==
    ASSUME NEW f, DOMAIN f = {}
    PROVE  SumFunction(f) = 0
  BY SumEmpty DEF SumFunction

\* A function that differs at one place differs in its sum by as much.
LEMMA SumOneChanged ==
    ASSUME NEW S, IsFiniteSet(S), NEW f \in [S -> Nat], NEW h \in [S -> Nat],
           NEW c \in S, \A x \in S \ {c} : h[x] = f[x]
    PROVE  SumFunction(h) + f[c] = SumFunction(f) + h[c]
  <1>1. IsFiniteSet(S \ {c})
    BY FS_Subset
  <1>2. /\ SumFunctionOnSet(f, S) = f[c] + SumFunctionOnSet(f, S \ {c})
        /\ SumFunctionOnSet(h, S) = h[c] + SumFunctionOnSet(h, S \ {c})
    BY SumTakesOut
  <1>3. SumFunctionOnSet(h, S \ {c}) = SumFunctionOnSet(f, S \ {c})
    BY <1>1, SumAgrees
  <1>4. SumFunctionOnSet(f, S \ {c}) \in Nat /\ f[c] \in Nat /\ h[c] \in Nat
    BY <1>1, SumType
  <1>5. SumFunctionOnSet(h, S) + f[c] = SumFunctionOnSet(f, S) + h[c]
    BY <1>2, <1>3, <1>4
  <1>6. QED  BY <1>5 DEF SumFunction

\* A new place adds its value.
LEMMA SumOneMore ==
    ASSUME NEW S, IsFiniteSet(S), NEW c, c \notin S, NEW f \in [S -> Nat],
           NEW h \in [S \cup {c} -> Nat], \A x \in S : h[x] = f[x]
    PROVE  SumFunction(h) = SumFunction(f) + h[c]
  <1>1. IsFiniteSet(S \cup {c}) /\ (S \cup {c}) \ {c} = S /\ c \in S \cup {c}
    BY FS_AddElement
  <1>2. SumFunctionOnSet(h, S \cup {c}) = h[c] + SumFunctionOnSet(h, (S \cup {c}) \ {c})
    BY <1>1, SumTakesOut
  <1>3. SumFunctionOnSet(h, S) = SumFunctionOnSet(f, S)
    BY SumAgrees
  <1>4. SumFunctionOnSet(f, S) \in Nat /\ h[c] \in Nat
    BY <1>1, SumType
  <1>5. SumFunctionOnSet(h, S \cup {c}) = SumFunctionOnSet(f, S) + h[c]
    BY <1>1, <1>2, <1>3, <1>4
  <1>6. QED  BY <1>5 DEF SumFunction

\* A sum of zeros is zero.
LEMMA SumOfZeros ==
    ASSUME NEW S, IsFiniteSet(S), NEW f \in [S -> Nat], \A x \in S : f[x] = 0
    PROVE  SumFunction(f) = 0
  <1> DEFINE Good == {s \in SUBSET S : SumFunctionOnSet(f, s) = 0}
  <1>1. ASSUME NEW s \in SUBSET S, \A r \in SUBSET s : r # s => r \in Good
        PROVE  s \in Good
    <2>1. CASE s = {}
      BY <2>1, SumEmpty
    <2>2. CASE s # {}
      <3>1. PICK x \in s : TRUE
        BY <2>2
      <3>2. IsFiniteSet(s)
        BY FS_Subset
      <3>3. SumFunctionOnSet(f, s) = f[x] + SumFunctionOnSet(f, s \ {x})
        BY <3>2, SumTakesOut
      <3>4. s \ {x} \in Good
        BY <1>1
      <3>5. QED  BY <3>3, <3>4
    <2>3. QED  BY <2>1, <2>2
  <1> HIDE DEF Good
  <1>2. SUBSET S \subseteq Good
    BY <1>1, SubsetInduction
  <1>3. SumFunctionOnSet(f, S) = 0
    BY <1>2 DEF Good
  <1>4. QED  BY <1>3 DEF SumFunction

\* A finite set of natural numbers that has an element has a largest one.
LEMMA LargestOf ==
    ASSUME NEW S, IsFiniteSet(S), S \subseteq Nat, S # {}
    PROVE  \E n \in S : \A m \in S : m <= n
  <1> DEFINE Good == {s \in SUBSET S : s = {} \/ \E n \in s : \A m \in s : m <= n}
  <1>1. ASSUME NEW s \in SUBSET S, \A r \in SUBSET s : r # s => r \in Good
        PROVE  s \in Good
    <2>1. CASE s # {}
      <3>1. PICK x \in s : TRUE
        BY <2>1
      <3>2. s \ {x} \in Good
        BY <1>1
      <3>3. CASE s \ {x} = {}
        BY <3>3
      <3>4. CASE s \ {x} # {}
        <4>1. PICK n \in s \ {x} : \A m \in s \ {x} : m <= n
          BY <3>2, <3>4
        <4>2. CASE x <= n
          BY <4>1, <4>2
        <4>3. CASE ~(x <= n)
          BY <4>1, <4>3
        <4>4. QED  BY <4>2, <4>3
      <3>5. QED  BY <3>3, <3>4
    <2>2. QED  BY <2>1
  <1> HIDE DEF Good
  <1>2. SUBSET S \subseteq Good
    BY <1>1, SubsetInduction
  <1>3. QED  BY <1>2 DEF Good

-----------------------------------------------------------------------------
(* The event map and the trees                                             *)

\* The tables hold what their names say; events are numbered from 1.
TablesTyped ==
    /\ \E n \in Nat : events \in [1..n -> SampledEvent]
    /\ DOMAIN eventToContextLeafMap \subseteq DOMAIN events
    /\ DOMAIN propAttrTable \subseteq Contexts

\* The inductive invariant. Nothing is in both halves of the root's children, so
\* a context that is looked up and found is found in an allocated node.
WInv ==
    /\ TablesTyped
    /\ LeafMapResolves
    /\ DisabledIsForgotten
    /\ sampled \cap dangling = {}

-----------------------------------------------------------------------------
(* Facts about the operators                                               *)

\* The number of the next sample is one that no sample has.
LEMMA NextId ==
    ASSUME NEW n \in Nat
    PROVE  Cardinality(1..n) = n
  <1>1. n = IF 1 > n THEN 0 ELSE n - 1 + 1
    OBVIOUS
  <1>2. QED  BY <1>1, FS_Interval

\* Removing an entry removes that entry and no other.
LEMMA RemovedFacts ==
    ASSUME NEW e
    PROVE  /\ DOMAIN removeEventContextMapEntry(e) = DOMAIN eventToContextLeafMap \ {e}
           /\ \A f \in DOMAIN eventToContextLeafMap \ {e} :
                 removeEventContextMapEntry(e)[f] = eventToContextLeafMap[f]
  BY DEF removeEventContextMapEntry

\* Counting a sample adds its context to the table and drops none.
LEMMA CountedFacts ==
    ASSUME NEW c
    PROVE  DOMAIN Counted(c) = DOMAIN propAttrTable \cup {c}
  BY DEF Counted

\* Catching up changes counters, not the set of contexts.
LEMMA CaughtUpFacts ==
    ASSUME NEW c, NEW d
    PROVE  DOMAIN CaughtUp(c, d) = DOMAIN propAttrTable
  BY DEF CaughtUp

-----------------------------------------------------------------------------

\* The empty tables satisfy the invariant.
LEMMA InitWInv == Init => WInv
  <1> SUFFICES ASSUME Init PROVE WInv
    OBVIOUS
  <1>1. events \in [1..0 -> SampledEvent]
    BY DEF Init
  <1>2. TablesTyped
    BY <1>1 DEF Init, TablesTyped
  <1>3. QED  BY <1>2 DEF Init, WInv, LeafMapResolves, DisabledIsForgotten

\* A sample: its entry, its counters and its node appear together.
LEMMA SampleWInv ==
    ASSUME WInv, NEW c \in Contexts, NEW len \in Lens, Witch_OnSample_Callback(c, len)
    PROVE  WInv'
  <1>1. CASE StaleLookup(c)
    BY <1>1 DEF StaleLookup, WInv, TablesTyped, LeafMapResolves, DisabledIsForgotten, inst
  <1>2. CASE ~StaleLookup(c)
    <2> DEFINE id == Cardinality(DOMAIN events) + 1
               new == [context |-> c, len |-> len, state |-> "armed"]
    <2>1. PICK n \in Nat : events \in [1..n -> SampledEvent]
      BY DEF WInv, TablesTyped
    <2>2. id = n + 1 /\ DOMAIN events = 1..n
      BY <2>1, NextId
    <2>3. /\ c \notin dangling
          /\ sampled' = sampled \cup {c}
          /\ eventToContextLeafMap' = [e \in DOMAIN eventToContextLeafMap \cup {id} |->
                                         IF e = id THEN c ELSE eventToContextLeafMap[e]]
          /\ propAttrTable' = Counted(c)
          /\ events' = [e \in DOMAIN events \cup {id} |-> IF e = id THEN new ELSE events[e]]
          /\ UNCHANGED <<build, dangling>>
      BY <1>2 DEF Witch_OnSample_Callback
    <2>4. new \in SampledEvent
      BY DEF SampledEvent
    <2>5. DOMAIN events' = 1..(n + 1) /\ events' \in [1..(n + 1) -> SampledEvent]
      <3>1. 1..n \cup {n + 1} = 1..(n + 1)
        BY <2>1
      <3>2. QED  BY <2>1, <2>2, <2>3, <2>4, <3>1
    <2>6. id \notin DOMAIN events
      BY <2>2
    <2>7. TablesTyped'
      <3>1. n + 1 \in Nat
        BY <2>1
      <3>2. DOMAIN eventToContextLeafMap' \subseteq DOMAIN events'
        BY <2>3 DEF WInv, TablesTyped
      <3>3. DOMAIN propAttrTable' \subseteq Contexts
        <4>1. DOMAIN propAttrTable' = DOMAIN propAttrTable \cup {c}
          BY <2>3 DEF Counted
        <4>2. QED  BY <4>1 DEF WInv, TablesTyped
      <3>4. QED  BY <2>5, <3>1, <3>2, <3>3 DEF TablesTyped
    <2>8. LeafMapResolves'
      <3> SUFFICES ASSUME NEW e \in DOMAIN eventToContextLeafMap'
                   PROVE  /\ eventToContextLeafMap'[e] = events'[e].context
                          /\ eventToContextLeafMap'[e] \in DOMAIN propAttrTable'
                          /\ eventToContextLeafMap'[e] \in sampled'
        BY DEF LeafMapResolves
      <3>1. CASE e = id
        BY <2>3, <3>1, CountedFacts
      <3>2. CASE e # id
        <4>1. e \in DOMAIN eventToContextLeafMap /\ e \in DOMAIN events
          BY <2>3, <3>2 DEF WInv, TablesTyped
        <4>2. eventToContextLeafMap'[e] = eventToContextLeafMap[e] /\ events'[e] = events[e]
          BY <2>3, <3>2, <4>1
        <4>3. QED  BY <2>3, <4>1, <4>2, CountedFacts DEF WInv, LeafMapResolves
      <3>3. QED  BY <3>1, <3>2
    <2>9. DisabledIsForgotten'
      <3> SUFFICES ASSUME NEW e \in DOMAIN eventToContextLeafMap', events'[e].state = "done"
                   PROVE  inst'
        BY DEF DisabledIsForgotten
      <3>1. e # id
        BY <2>3
      <3>2. e \in DOMAIN eventToContextLeafMap /\ events'[e] = events[e]
        BY <2>3, <3>1 DEF WInv, TablesTyped
      <3>3. QED  BY <2>3, <3>2 DEF WInv, DisabledIsForgotten, inst
    <2>10. QED  BY <2>3, <2>7, <2>8, <2>9 DEF WInv
  <1>3. QED  BY <1>1, <1>2

\* Changing the state of one sample and removing its entry, or nothing, keeps the
\* invariant as long as a done sample that keeps its entry belongs to an *_INST build.
LEMMA SettleWInv ==
    ASSUME WInv, NEW e \in DOMAIN events, NEW s \in {"gone", "done"},
           events' = [events EXCEPT ![e].state = s],
           \/ eventToContextLeafMap' = removeEventContextMapEntry(e)
           \/ eventToContextLeafMap' = eventToContextLeafMap /\ (s = "done" => inst),
           DOMAIN propAttrTable' = DOMAIN propAttrTable,
           UNCHANGED <<build, sampled, dangling>>
    PROVE  WInv'
  <1>1. PICK n \in Nat : events \in [1..n -> SampledEvent]
    BY DEF WInv, TablesTyped
  <1>2. events' \in [1..n -> SampledEvent] /\ DOMAIN events' = DOMAIN events
    BY <1>1 DEF SampledEvent
  <1>3. \A f \in DOMAIN events :
          /\ events'[f].context = events[f].context
          /\ f # e => events'[f].state = events[f].state
          /\ events'[e].state = s
    BY <1>1 DEF SampledEvent
  <1>4. /\ DOMAIN eventToContextLeafMap' \subseteq DOMAIN eventToContextLeafMap
        /\ \A f \in DOMAIN eventToContextLeafMap' :
              eventToContextLeafMap'[f] = eventToContextLeafMap[f]
        /\ e \in DOMAIN eventToContextLeafMap' => (s = "done" => inst)
    BY RemovedFacts
  <1>5. TablesTyped'
    BY <1>1, <1>2, <1>4 DEF WInv, TablesTyped
  <1>6. LeafMapResolves'
    BY <1>3, <1>4 DEF WInv, TablesTyped, LeafMapResolves
  <1>7. DisabledIsForgotten'
    <2> SUFFICES ASSUME NEW f \in DOMAIN eventToContextLeafMap', events'[f].state = "done"
                 PROVE  inst'
      BY DEF DisabledIsForgotten
    <2>1. CASE f = e
      BY <1>3, <1>4, <2>1 DEF inst
    <2>2. CASE f # e
      BY <1>3, <1>4, <2>2 DEF WInv, TablesTyped, DisabledIsForgotten, inst
    <2>3. QED  BY <2>1, <2>2
  <1>8. QED  BY <1>5, <1>6, <1>7 DEF WInv

\* A trigger: retained, rejected, counted only, or charged.
LEMMA TriggerWInv ==
    ASSUME WInv, NEW e \in DOMAIN events, NEW t, Witch_OnWP_Callback(e, t)
    PROVE  WInv'
  <1>1. CASE UNCHANGED vars
    BY <1>1 DEF vars, WInv, TablesTyped, LeafMapResolves, DisabledIsForgotten, inst
  <1>2. CASE ~UNCHANGED vars
    <2>1. /\ OnRejected(e, t) \/ OnUncharged(e, t) \/ OnCharged(e, t)
          /\ events' = [events EXCEPT ![e].state = "done"]
          /\ UNCHANGED <<build, sampled, dangling>>
      BY <1>2 DEF Witch_OnWP_Callback, Disabled
    <2>2. CASE OnRejected(e, t)
      <3>1. \/ eventToContextLeafMap' = removeEventContextMapEntry(e)
            \/ eventToContextLeafMap' = eventToContextLeafMap /\ inst
        BY <2>2 DEF OnRejected, OtherInstruction
      <3>2. propAttrTable' = propAttrTable
        BY <2>2 DEF OnRejected
      <3>3. QED  BY <2>1, <3>1, <3>2, SettleWInv
    <2>3. CASE OnUncharged(e, t)
      <3>1. /\ eventToContextLeafMap' = removeEventContextMapEntry(e)
            /\ propAttrTable' = CaughtUp(eventToContextLeafMap[e], t.dist)
        BY <2>3 DEF OnUncharged
      <3>2. QED  BY <2>1, <3>1, CaughtUpFacts, SettleWInv
    <2>4. CASE OnCharged(e, t)
      <3>1. /\ eventToContextLeafMap' = removeEventContextMapEntry(e)
            /\ propAttrTable' = CaughtUp(eventToContextLeafMap[e], t.dist)
        BY <2>4 DEF OnCharged
      <3>2. QED  BY <2>1, <3>1, CaughtUpFacts, SettleWInv
    <2>5. QED  BY <2>1, <2>2, <2>3, <2>4
  <1>3. QED  BY <1>1, <1>2

\* A report drops the event map, the table and the nodes together or not at all.
LEMMA ReportWInv ==
    ASSUME WInv, printContextTree \/ cleanContextTree \/ resetWitchLogic
    PROVE  WInv'
  <1>1. CASE UNCHANGED <<build, events, eventToContextLeafMap, propAttrTable, sampled, dangling>>
    BY <1>1 DEF WInv, TablesTyped, LeafMapResolves, DisabledIsForgotten, inst
  <1>2. CASE printContextTree
    BY <1>1, <1>2 DEF printContextTree, StaleWalk
  <1>3. CASE resetWitchLogic
    BY <1>1, <1>3 DEF resetWitchLogic
  <1>4. CASE cleanContextTree
    <2>1. CASE StaleWalk
      BY <1>1, <2>1 DEF StaleWalk
    <2>2. CASE ~StaleWalk
      <3>1. /\ DOMAIN propAttrTable' = {}
            /\ DOMAIN eventToContextLeafMap' = {}
            /\ sampled' = {}
            /\ events' = events
        BY <1>4, <2>2 DEF cleanContextTree, MapErased
      <3>2. QED
        BY <3>1 DEF WInv, TablesTyped, LeafMapResolves, DisabledIsForgotten
    <2>3. QED  BY <2>1, <2>2
  <1>5. QED  BY <1>2, <1>3, <1>4

\* Every step keeps the invariant.
LEMMA NextWInv == WInv /\ [Next]_vars => WInv'
  <1> SUFFICES ASSUME WInv, [Next]_vars PROVE WInv'
    OBVIOUS
  <1>1. CASE UNCHANGED vars
    BY <1>1 DEF vars, WInv, TablesTyped, LeafMapResolves, DisabledIsForgotten, inst
  <1>2. ASSUME NEW c \in Contexts, NEW len \in Lens, Witch_OnSample_Callback(c, len)
        PROVE  WInv'
    BY <1>2, SampleWInv
  <1>3. CASE SampleRefused
    BY <1>1, <1>3 DEF SampleRefused
  <1>4. ASSUME NEW e \in DOMAIN events, Forgotten(e)
        PROVE  WInv'
    <2>1. /\ events' = [events EXCEPT ![e].state = "gone"]
          /\ UNCHANGED <<build, eventToContextLeafMap, propAttrTable, sampled, dangling>>
      BY <1>4 DEF Forgotten
    <2>2. QED  BY <2>1, SettleWInv
  <1>5. ASSUME NEW e \in DOMAIN events, NEW t \in Triggers, Witch_OnWP_Callback(e, t)
        PROVE  WInv'
    BY <1>5, TriggerWInv
  <1>6. CASE printContextTree \/ cleanContextTree \/ resetWitchLogic
    BY <1>6, ReportWInv
  <1>7. QED  BY <1>1, <1>2, <1>3, <1>4, <1>5, <1>6 DEF Next

-----------------------------------------------------------------------------

\* The invariant of the tables holds in every reachable state.
THEOREM WitchInductive == Spec => []WInv
  BY InitWInv, NextWInv, PTL DEF Spec

\* A trigger that finds its sample finds the sample's own context, allocated and
\* with counters, whatever reports ran since the sample was taken
\* (Witch_OnWP_Callback, cleanContextTree).
THEOREM LeafMapIsSound == Spec => []LeafMapResolves
  <1>1. WInv => LeafMapResolves
    BY DEF WInv
  <1>2. QED  BY <1>1, WitchInductive, PTL

\* Outside the *_INST builds a sample whose watchpoint was disabled by the callback
\* can never be found and charged again (removeEventContextMapEntry on every path).
THEOREM AnsweredOnce == Spec => []DisabledIsForgotten
  <1>1. WInv => DisabledIsForgotten
    BY DEF WInv
  <1>2. QED  BY <1>1, WitchInductive, PTL

-----------------------------------------------------------------------------
(* Deleted nodes                                                           *)

\* Where a report is: between its parts only if its logic deletes the tree.
ReportStates ==
    /\ report \in {"idle", "clean", "reset"}
    /\ reports \in Nat
    /\ report # "idle" => reports > 0 /\ Cleans

RInv == ReportStates /\ StaleAfterClean

\* A step that leaves the report and the root's children alone.
LEMMA SameRInv ==
    ASSUME RInv, UNCHANGED <<build, report, reports, sampled, dangling, fault>>
    PROVE  RInv'
  BY DEF RInv, ReportStates, StaleAfterClean, Cleans, logicType

\* A lookup or a walk that meets a deleted node meets one that a report left behind.
LEMMA StaleRInv ==
    ASSUME RInv, dangling # {},
           UNCHANGED <<build, report, reports, sampled, dangling>>
    PROVE  RInv'
  BY DEF RInv, ReportStates, StaleAfterClean, Cleans, logicType

\* Every step keeps it: only cleanContextTree deletes, and only where a report of such a
\* logic has come that far.
LEMMA NextRInv == RInv /\ [Next]_vars => RInv'
  <1> SUFFICES ASSUME RInv, [Next]_vars PROVE RInv'
    OBVIOUS
  <1>1. CASE UNCHANGED vars \/ SampleRefused \/ \E e \in DOMAIN events : Forgotten(e)
    BY <1>1, SameRInv DEF vars, SampleRefused, Forgotten
  <1>2. ASSUME NEW c \in Contexts, NEW len \in Lens, Witch_OnSample_Callback(c, len)
        PROVE  RInv'
    <2>1. CASE StaleLookup(c)
      BY <2>1, StaleRInv DEF StaleLookup
    <2>2. CASE ~StaleLookup(c)
      <3>1. /\ c \notin dangling /\ sampled' = sampled \cup {c}
            /\ UNCHANGED <<build, report, reports, dangling, fault>>
        BY <1>2, <2>2 DEF Witch_OnSample_Callback
      <3>2. QED  BY <3>1 DEF RInv, ReportStates, StaleAfterClean, Cleans, logicType
    <2>3. QED  BY <2>1, <2>2
  <1>3. ASSUME NEW e \in DOMAIN events, NEW t \in Triggers, Witch_OnWP_Callback(e, t)
        PROVE  RInv'
    <2>1. CASE UNCHANGED vars
      BY <1>1, <2>1
    <2>2. CASE ~UNCHANGED vars
      <3>1. /\ OnRejected(e, t) \/ OnUncharged(e, t) \/ OnCharged(e, t)
            /\ UNCHANGED <<build, sampled, dangling, reports, fault>>
        BY <1>3, <2>2 DEF Witch_OnWP_Callback
      <3>2. report' = report \/ report' = "idle"
        BY <3>1 DEF OnRejected, OnUncharged, OnCharged
      <3>3. QED  BY <3>1, <3>2 DEF RInv, ReportStates, StaleAfterClean, Cleans, logicType
    <2>3. QED  BY <2>1, <2>2
  <1>4. CASE printContextTree
    <2>1. CASE StaleWalk
      BY <2>1, StaleRInv DEF StaleWalk
    <2>2. CASE ~StaleWalk
      <3>1. /\ reports' = reports + 1
            /\ report' = IF Cleans THEN "clean" ELSE "idle"
            /\ UNCHANGED <<build, sampled, dangling, fault>>
        BY <1>4, <2>2 DEF printContextTree
      <3>2. QED  BY <3>1 DEF RInv, ReportStates, StaleAfterClean, Cleans, logicType
    <2>3. QED  BY <2>1, <2>2
  <1>5. CASE cleanContextTree
    <2>1. CASE StaleWalk
      BY <2>1, StaleRInv DEF StaleWalk
    <2>2. CASE ~StaleWalk
      <3>1. /\ report = "clean" /\ report' = "reset"
            /\ dangling' = sampled /\ sampled' = {}
            /\ UNCHANGED <<build, reports, fault>>
        BY <1>5, <2>2 DEF cleanContextTree
      <3>2. QED  BY <3>1 DEF RInv, ReportStates, StaleAfterClean, Cleans, logicType
    <2>3. QED  BY <2>1, <2>2
  <1>6. CASE resetWitchLogic
    BY <1>6 DEF resetWitchLogic, RInv, ReportStates, StaleAfterClean, Cleans, logicType
  <1>7. QED  BY <1>1, <1>2, <1>3, <1>4, <1>5, <1>6 DEF Next

\* Deleted nodes are met only in the logics whose report deletes the tree (cleanContextTree)
\* and only after a report has, and no deleted context is allocated a second time.
THEOREM StaleOnlyAfterClean == Spec => []StaleAfterClean
  <1>1. Init => RInv
    BY DEF Init, RInv, ReportStates, StaleAfterClean
  <1>2. RInv => StaleAfterClean
    BY DEF RInv
  <1>3. QED  BY <1>1, <1>2, NextRInv, PTL DEF Spec

-----------------------------------------------------------------------------
(* Proportional attribution                                                *)

\* propAttrTable is a table of SampleNums, none of which is without a sample: the average
\* distance is a fraction whose denominator is not zero.
CountersTyped ==
    /\ propAttrTable \in [DOMAIN propAttrTable -> SampleNum]
    /\ \A c \in DOMAIN propAttrTable : propAttrTable[c].cur_num > 0

SamplesOf(c) == {e \in DOMAIN events : events[e].context = c}

CInv == CountersTyped /\ CatchupBehind

\* A step that neither takes nor counts a sample.
LEMMA SameCInv ==
    ASSUME CInv, UNCHANGED propAttrTable, \A c \in Contexts : UNCHANGED SamplesOf(c),
           DOMAIN propAttrTable \subseteq Contexts
    PROVE  CInv'
  BY DEF CInv, CountersTyped, CatchupBehind, SamplesOf

\* A change of a sample's state does not change whose sample it is.
LEMMA SameSamples ==
    ASSUME WInv, NEW e \in DOMAIN events, NEW s, events' = [events EXCEPT ![e].state = s],
           NEW c
    PROVE  SamplesOf(c)' = SamplesOf(c)
  <1>1. PICK n \in Nat : events \in [1..n -> SampledEvent]
    BY DEF WInv, TablesTyped
  <1>2. DOMAIN events' = DOMAIN events /\ \A f \in DOMAIN events :
           events'[f].context = events[f].context
    BY <1>1 DEF SampledEvent
  <1>3. QED  BY <1>2 DEF SamplesOf

\* A sample is counted for its context and for no other.
LEMMA CountedValues ==
    ASSUME NEW c, CountersTyped
    PROVE  /\ DOMAIN Counted(c) = DOMAIN propAttrTable \cup {c}
           /\ Counted(c) \in [DOMAIN propAttrTable \cup {c} -> SampleNum]
           /\ \A d \in DOMAIN propAttrTable \ {c} : Counted(c)[d] = propAttrTable[d]
           /\ c \in DOMAIN propAttrTable =>
                 /\ Counted(c)[c].cur_num = propAttrTable[c].cur_num + 1
                 /\ Counted(c)[c].catchup_num = propAttrTable[c].catchup_num
           /\ c \notin DOMAIN propAttrTable =>
                 Counted(c)[c].cur_num = 1 /\ Counted(c)[c].catchup_num = 0
  <1>1. NewSample \in SampleNum /\ NewSample.cur_num = 1 /\ NewSample.catchup_num = 0
    BY DEF NewSample, SampleNum
  <1>2. \A d \in DOMAIN propAttrTable \ {c} : Counted(c)[d] = propAttrTable[d]
    BY DEF Counted, CountersTyped, SampleNum
  <1>3. CASE c \in DOMAIN propAttrTable
    <2>1. Counted(c)[c] = [propAttrTable[c] EXCEPT !.cur_num = @ + 1]
      BY <1>3 DEF Counted
    <2>2. propAttrTable[c] \in SampleNum
      BY <1>3 DEF CountersTyped
    <2>3. /\ Counted(c)[c] \in SampleNum
          /\ Counted(c)[c].cur_num = propAttrTable[c].cur_num + 1
          /\ Counted(c)[c].catchup_num = propAttrTable[c].catchup_num
      BY <2>1, <2>2 DEF SampleNum
    <2>4. QED  BY <1>2, <1>3, <2>3 DEF Counted, CountersTyped
  <1>4. CASE c \notin DOMAIN propAttrTable
    <2>1. Counted(c)[c] = NewSample
      BY <1>4 DEF Counted
    <2>2. QED  BY <1>1, <1>2, <1>4, <2>1 DEF Counted, CountersTyped
  <1>5. QED  BY <1>3, <1>4

\* A product of positive numbers is one.
LEMMA PositiveProduct ==
    ASSUME NEW a \in Nat \ {0}, NEW b \in Nat \ {0}
    PROVE  a * b \in Nat \ {0}
  OBVIOUS

\* Catching up brings one context up to its samples and leaves the others alone.
LEMMA CaughtUpValues ==
    ASSUME CountersTyped, NEW c \in DOMAIN propAttrTable, NEW dist \in Nat
    PROVE  /\ DOMAIN CaughtUp(c, dist) = DOMAIN propAttrTable
           /\ CaughtUp(c, dist) \in [DOMAIN propAttrTable -> SampleNum]
           /\ \A d \in DOMAIN propAttrTable \ {c} : CaughtUp(c, dist)[d] = propAttrTable[d]
           /\ CaughtUp(c, dist)[c].cur_num = propAttrTable[c].cur_num
           /\ CaughtUp(c, dist)[c].catchup_num = propAttrTable[c].cur_num
  <1> DEFINE old == propAttrTable[c]
             new == [cur_num |-> old.cur_num, catchup_num |-> old.cur_num,
                     num |-> old.num + dist * old.den, den |-> old.den * old.cur_num]
  <1>1. CaughtUp(c, dist) = [propAttrTable EXCEPT ![c] = new]
    BY DEF CaughtUp
  <1>2. old \in SampleNum /\ old.cur_num > 0
    BY DEF CountersTyped
  <1>3. /\ old.cur_num \in Nat \ {0} /\ old.num \in Nat /\ old.den \in Nat \ {0}
        /\ old.catchup_num \in Nat
    BY <1>2 DEF SampleNum
  <1>4. old.den * old.cur_num \in Nat \ {0} /\ old.num + dist * old.den \in Nat
    <2> HIDE DEF old
    <2>1. QED  BY <1>3, PositiveProduct
  <1>5. new \in SampleNum
    BY <1>3, <1>4 DEF SampleNum
  <1> HIDE DEF new
  <1>6. QED
    <2>1. new.cur_num = old.cur_num /\ new.catchup_num = old.cur_num
      BY DEF new
    <2>2. QED  BY <1>1, <1>5, <2>1 DEF CountersTyped

\* The counters grow with the samples.
LEMMA NextCInv == WInv /\ CInv /\ [Next]_vars => CInv'
  <1> SUFFICES ASSUME WInv, CInv, [Next]_vars PROVE CInv'
    OBVIOUS
  <1>0. DOMAIN propAttrTable \subseteq Contexts
    BY DEF WInv, TablesTyped
  <1>1. ASSUME UNCHANGED <<events, propAttrTable>>  PROVE CInv'
    BY <1>1, <1>0, SameCInv DEF SamplesOf
  <1>2. ASSUME NEW e \in DOMAIN events, Forgotten(e)  PROVE CInv'
    BY <1>0, <1>2, SameSamples, SameCInv DEF Forgotten
  <1>3. ASSUME NEW c \in Contexts, NEW len \in Lens, Witch_OnSample_Callback(c, len)
        PROVE  CInv'
    <2>1. CASE StaleLookup(c)
      BY <1>1, <2>1 DEF StaleLookup
    <2>2. CASE ~StaleLookup(c)
      <3> DEFINE id == Cardinality(DOMAIN events) + 1
                 new == [context |-> c, len |-> len, state |-> "armed"]
      <3>1. PICK n \in Nat : events \in [1..n -> SampledEvent]
        BY DEF WInv, TablesTyped
      <3>2. id = n + 1 /\ DOMAIN events = 1..n /\ IsFiniteSet(DOMAIN events)
        BY <3>1, NextId, FS_Interval
      <3>3. /\ propAttrTable' = Counted(c)
            /\ events' = [e \in DOMAIN events \cup {id} |-> IF e = id THEN new ELSE events[e]]
        BY <1>3, <2>2 DEF Witch_OnSample_Callback
      <3>4. id \notin DOMAIN events
        BY <3>2
      <3> HIDE DEF id
      <3>5. SamplesOf(c)' = SamplesOf(c) \cup {id} /\ id \notin SamplesOf(c)
        BY <3>3, <3>4 DEF SamplesOf
      <3>6. \A d \in Contexts \ {c} : SamplesOf(d)' = SamplesOf(d)
        BY <3>3, <3>4 DEF SamplesOf
      <3>7. IsFiniteSet(SamplesOf(c)) /\ Cardinality(SamplesOf(c)) \in Nat
        <4>1. SamplesOf(c) \in SUBSET DOMAIN events
          BY DEF SamplesOf
        <4>2. QED  BY <3>2, <4>1, FS_Subset, FS_CardinalityType
      <3>8. Cardinality(SamplesOf(c)') = Cardinality(SamplesOf(c)) + 1
        BY <3>5, <3>7, FS_AddElement
      <3>9. CountersTyped /\ \A d \in DOMAIN propAttrTable :
               /\ propAttrTable[d].cur_num \in Nat /\ propAttrTable[d].catchup_num \in Nat
               /\ propAttrTable[d].catchup_num <= propAttrTable[d].cur_num
               /\ propAttrTable[d].cur_num <= Cardinality(SamplesOf(d))
        BY DEF CInv, CountersTyped, CatchupBehind, SamplesOf, SampleNum
      <3>10. \A d \in DOMAIN propAttrTable' :
                /\ propAttrTable'[d].cur_num > 0
                /\ propAttrTable'[d].catchup_num <= propAttrTable'[d].cur_num
                /\ propAttrTable'[d].cur_num <= Cardinality(SamplesOf(d)')
        <4> SUFFICES ASSUME NEW d \in DOMAIN propAttrTable'
                     PROVE  /\ propAttrTable'[d].cur_num > 0
                            /\ propAttrTable'[d].catchup_num <= propAttrTable'[d].cur_num
                            /\ propAttrTable'[d].cur_num <= Cardinality(SamplesOf(d)')
          OBVIOUS
        <4>1. CASE d = c
          <5>1. CASE c \in DOMAIN propAttrTable
            <6>1. /\ propAttrTable'[c].cur_num = propAttrTable[c].cur_num + 1
                  /\ propAttrTable'[c].catchup_num = propAttrTable[c].catchup_num
              BY <3>3, <3>9, <5>1, CountedValues
            <6>2. /\ propAttrTable[c].cur_num \in Nat /\ propAttrTable[c].catchup_num \in Nat
                  /\ propAttrTable[c].catchup_num <= propAttrTable[c].cur_num
                  /\ propAttrTable[c].cur_num <= Cardinality(SamplesOf(c))
              BY <3>9, <5>1
            <6>3. propAttrTable'[c].cur_num <= Cardinality(SamplesOf(c)')
              BY <3>7, <3>8, <6>1, <6>2
            <6>4. QED  BY <4>1, <6>1, <6>2, <6>3
          <5>2. CASE c \notin DOMAIN propAttrTable
            <6>1. propAttrTable'[c].cur_num = 1 /\ propAttrTable'[c].catchup_num = 0
              BY <3>3, <3>9, <5>2, CountedValues
            <6>2. QED  BY <3>7, <3>8, <4>1, <6>1
          <5>3. QED  BY <5>1, <5>2
        <4>2. CASE d # c
          <5>1. d \in DOMAIN propAttrTable \ {c} /\ d \in Contexts \ {c}
            BY <1>0, <3>3, <4>2, CountedFacts
          <5>2. propAttrTable'[d] = propAttrTable[d] /\ SamplesOf(d)' = SamplesOf(d)
            BY <3>3, <3>6, <3>9, <5>1, CountedValues
          <5>3. QED  BY <3>9, <5>1, <5>2 DEF CountersTyped
        <4>3. QED  BY <4>1, <4>2
      <3>11. CountersTyped'
        BY <3>3, <3>9, <3>10, CountedValues DEF CountersTyped
      <3>12. CatchupBehind'
        BY <3>10 DEF CatchupBehind, SamplesOf
      <3>13. QED  BY <3>11, <3>12 DEF CInv
    <2>3. QED  BY <2>1, <2>2
  <1>4. ASSUME NEW e \in DOMAIN events, NEW t \in Triggers, Witch_OnWP_Callback(e, t)
        PROVE  CInv'
    <2>1. CASE UNCHANGED vars
      BY <1>1, <2>1 DEF vars
    <2>2. CASE ~UNCHANGED vars
      <3>1. /\ OnRejected(e, t) \/ OnUncharged(e, t) \/ OnCharged(e, t)
            /\ events' = [events EXCEPT ![e].state = "done"]
        BY <1>4, <2>2 DEF Witch_OnWP_Callback, Disabled
      <3>2. \A d : SamplesOf(d)' = SamplesOf(d)
        BY <3>1, SameSamples
      <3>3. CASE OnRejected(e, t)
        BY <1>0, <3>2, <3>3, SameCInv DEF OnRejected
      <3>4. CASE OnUncharged(e, t) \/ OnCharged(e, t)
        <4> DEFINE c == eventToContextLeafMap[e]
        <4>1. propAttrTable' = CaughtUp(c, t.dist) /\ e \in DOMAIN eventToContextLeafMap
          BY <3>4 DEF OnUncharged, OnCharged, Accepted
        <4>2. c \in DOMAIN propAttrTable
          BY <4>1 DEF WInv, LeafMapResolves
        <4>3. t.dist \in Nat
          BY WitchAssumption DEF Triggers
        <4> HIDE DEF c
        <4>4. CountersTyped /\ \A d \in DOMAIN propAttrTable :
                 /\ propAttrTable[d].cur_num \in Nat /\ propAttrTable[d].catchup_num \in Nat
                 /\ propAttrTable[d].cur_num > 0
                 /\ propAttrTable[d].catchup_num <= propAttrTable[d].cur_num
                 /\ propAttrTable[d].cur_num <= Cardinality(SamplesOf(d))
          BY DEF CInv, CountersTyped, CatchupBehind, SamplesOf, SampleNum
        <4>5. \A d \in DOMAIN propAttrTable' :
                 /\ propAttrTable'[d].cur_num > 0
                 /\ propAttrTable'[d].catchup_num <= propAttrTable'[d].cur_num
                 /\ propAttrTable'[d].cur_num <= Cardinality(SamplesOf(d)')
          BY <3>2, <4>1, <4>2, <4>3, <4>4, CaughtUpValues
        <4>6. CountersTyped'
          BY <4>1, <4>2, <4>3, <4>4, <4>5, CaughtUpValues DEF CountersTyped
        <4>7. QED  BY <4>5, <4>6 DEF CInv, CatchupBehind, SamplesOf
      <3>5. QED  BY <3>1, <3>3, <3>4
    <2>3. QED  BY <2>1, <2>2
  <1>5. CASE printContextTree \/ resetWitchLogic
    BY <1>1, <1>5 DEF printContextTree, StaleWalk, resetWitchLogic
  <1>6. CASE cleanContextTree
    <2>1. CASE StaleWalk
      BY <1>1, <2>1 DEF StaleWalk
    <2>2. CASE ~StaleWalk
      <3>1. propAttrTable' = [c \in {} |-> NewSample]
        BY <1>6, <2>2 DEF cleanContextTree
      <3>2. QED  BY <3>1 DEF CInv, CountersTyped, CatchupBehind
    <2>3. QED  BY <2>1, <2>2
  <1>7. QED
    BY <1>1, <1>2, <1>3, <1>4, <1>5, <1>6 DEF Next, vars, SampleRefused

\* The attribution's counters are sound in every reachable state.
LEMMA CountersInductive == Spec => [](WInv /\ CInv)
  <1>1. Init => CInv
    BY DEF Init, CInv, CountersTyped, CatchupBehind
  <1>2. QED  BY <1>1, InitWInv, NextWInv, NextCInv, PTL DEF Spec

\* No sample is counted as caught up before it is taken, and a context never counts more
\* samples than it had (GetNumDiffSamplesAndReset), however the callbacks of the VCPU
\* threads and the reports interleave.
THEOREM CatchupStaysBehind == Spec => []CatchupBehind
  <1>1. CInv => CatchupBehind
    BY DEF CInv
  <1>2. QED  BY <1>1, CountersInductive, PTL

-----------------------------------------------------------------------------
(* Bytes                                                                   *)

MetricsTyped ==
    /\ metrics \in [Contexts -> Bytes]
    /\ watchedMetrics \in [Contexts -> [Places -> Bytes]]
    /\ total \in [Counters -> Nat]

\* A used byte is charged to the sampled context only.
UsedNotWatched == \A c \in Contexts, p \in Places : watchedMetrics[c][p]["USEDBYTES"] = 0

\* Nothing is charged to a context without a node.
UnsampledEmpty ==
    \A c \in Contexts \ sampled, k \in Kinds :
        metrics[c][k] = 0 /\ \A p \in Places : watchedMetrics[c][p][k] = 0

MInv == MetricsTyped /\ UsedNotWatched /\ UnsampledEmpty /\ WatchedWithinSampled

\* The charge to the sampled context.
LEMMA SampledChargeValues ==
    ASSUME MetricsTyped, NEW c \in Contexts, NEW k \in Kinds, NEW inc \in Nat,
           NEW twice \in BOOLEAN
    PROVE  /\ SampledCharge(c, k, inc, twice) \in [Contexts -> Bytes]
           /\ SampledCharge(c, k, inc, twice)[c][k] =
                 IF twice THEN metrics[c][k] + inc + inc ELSE metrics[c][k] + inc
           /\ \A d \in Contexts, j \in Kinds :
                 d # c \/ j # k => SampledCharge(c, k, inc, twice)[d][j] = metrics[d][j]
  BY DEF SampledCharge, MetricsTyped, Bytes

\* The charge to the trigger's context below it.
LEMMA WatchedChargeValues ==
    ASSUME MetricsTyped, NEW c \in Contexts, NEW p \in Places, NEW k \in Kinds,
           NEW inc \in Nat, NEW none \in BOOLEAN
    PROVE  /\ WatchedCharge(c, p, k, inc, none) \in [Contexts -> [Places -> Bytes]]
           /\ ~none => WatchedCharge(c, p, k, inc, none)[c][p][k] =
                          watchedMetrics[c][p][k] + inc
           /\ \A d \in Contexts, q \in Places, j \in Kinds :
                 none \/ d # c \/ q # p \/ j # k =>
                    WatchedCharge(c, p, k, inc, none)[d][q][j] = watchedMetrics[d][q][j]
  <1>1. CASE none
    BY <1>1 DEF WatchedCharge, MetricsTyped
  <1>2. CASE ~none
    BY <1>2 DEF WatchedCharge, MetricsTyped, Bytes
  <1>3. QED  BY <1>1, <1>2

\* A product of natural numbers is one.
LEMMA NatProduct ==
    ASSUME NEW a \in Nat, NEW b \in Nat
    PROVE  a * b \in Nat
  OBVIOUS

\* What a trigger that is charged is charged to, as what, and how much.
LEMMA Charging ==
    ASSUME WInv, CInv, NEW e \in DOMAIN events, NEW t \in Triggers,
           e \in DOMAIN eventToContextLeafMap
    PROVE  LET c == eventToContextLeafMap[e]
           IN  /\ c \in Contexts /\ c \in sampled /\ c \in DOMAIN propAttrTable
               /\ propAttrTable[c].cur_num - propAttrTable[c].catchup_num \in Nat
               /\ propAttrTable[c].cur_num \in Nat /\ propAttrTable[c].catchup_num \in Nat
               /\ events[e].len \in Lens /\ events[e].len \in Nat
               /\ Inc(e) = (propAttrTable[c].cur_num - propAttrTable[c].catchup_num)
                              * events[e].len
               /\ Inc(e) \in Nat
               /\ Kind(t) \in Kinds
               /\ t.place \in Places /\ t.empty \in BOOLEAN /\ t.dist \in Nat
  <1> DEFINE c == eventToContextLeafMap[e]
             n == propAttrTable[c].cur_num - propAttrTable[c].catchup_num
  <1>1. c \in Contexts /\ c \in sampled /\ c \in DOMAIN propAttrTable
    BY DEF WInv, TablesTyped, LeafMapResolves
  <1>2. /\ propAttrTable[c].cur_num \in Nat /\ propAttrTable[c].catchup_num \in Nat
        /\ propAttrTable[c].catchup_num <= propAttrTable[c].cur_num
    BY <1>1 DEF CInv, CountersTyped, CatchupBehind, SampleNum
  <1>3. n \in Nat
    BY <1>2
  <1>4. events[e].len \in Lens /\ events[e].len \in Nat
    BY WitchAssumption DEF WInv, TablesTyped, SampledEvent
  <1>5. Inc(e) = n * events[e].len
    BY DEF Inc
  <1> HIDE DEF n
  <1>6. Inc(e) \in Nat
    BY <1>3, <1>4, <1>5, NatProduct
  <1>7. Kind(t) \in Kinds
    BY DEF Kind, Kinds, DeadStoreKind, FalseSharingKind, DuplicateKind, RedundantKind
  <1>8. t.place \in Places /\ t.empty \in BOOLEAN /\ t.dist \in Nat
    BY WitchAssumption DEF Triggers, Places
  <1>9. QED  BY <1>1, <1>2, <1>3, <1>4, <1>5, <1>6, <1>7, <1>8 DEF n

\* A step that charges nothing.
LEMMA SameMInv ==
    ASSUME MInv, UNCHANGED <<metrics, watchedMetrics, total>>, sampled \subseteq sampled'
    PROVE  MInv'
  BY DEF MInv, MetricsTyped, UsedNotWatched, UnsampledEmpty, WatchedWithinSampled

\* The totals that a charge may leave behind, the reset racing with it or not.
LEMMA TotalsTyped ==
    ASSUME MetricsTyped, NEW k \in Kinds, NEW inc \in Nat
    PROVE  /\ [total EXCEPT ![k] = @ + inc, !["WATCHEDCOUNT"] = @ + 1] \in [Counters -> Nat]
           /\ RacedTotals(k, inc) \subseteq [Counters -> Nat]
  <1>1. k \in Counters /\ "WATCHEDCOUNT" \in Counters
    BY DEF Counters
  <1>2. total[k] \in Nat /\ total["WATCHEDCOUNT"] \in Nat
    BY <1>1 DEF MetricsTyped
  <1>3. [total EXCEPT ![k] = @ + inc, !["WATCHEDCOUNT"] = @ + 1] \in [Counters -> Nat]
    BY <1>1, <1>2 DEF MetricsTyped
  <1>4. \A v \in {total[k] + inc, inc, 0}, w \in {total["WATCHEDCOUNT"] + 1, 1, 0} :
           v \in Nat /\ w \in Nat
    BY <1>2
  <1>5. RacedTotals(k, inc) \subseteq [Counters -> Nat]
    BY <1>4 DEF RacedTotals
  <1>6. QED  BY <1>3, <1>5

\* A trigger is charged to its sampled context, and what its own context gets, the sampled
\* one gets too.
LEMMA ChargedMInv ==
    ASSUME WInv, CInv, MInv, NEW e \in DOMAIN events, NEW t \in Triggers, OnCharged(e, t),
           UNCHANGED sampled
    PROVE  MInv'
  <1> DEFINE c == eventToContextLeafMap[e]
             k == Kind(t)
             inc == Inc(e)
             twice == (k # "USEDBYTES" /\ t.empty)
             none == (k = "USEDBYTES" \/ t.empty)
  <1>0. e \in DOMAIN eventToContextLeafMap
    BY DEF OnCharged, Accepted
  <1>1. /\ c \in Contexts /\ c \in sampled /\ inc \in Nat /\ k \in Kinds
        /\ t.place \in Places /\ t.empty \in BOOLEAN
    BY <1>0, Charging
  <1>2. /\ metrics' = SampledCharge(c, k, inc, twice)
        /\ watchedMetrics' = WatchedCharge(c, t.place, k, inc, none)
        /\ \/ total' = [total EXCEPT ![k] = @ + inc, !["WATCHEDCOUNT"] = @ + 1]
           \/ total' \in RacedTotals(k, inc)
    BY DEF OnCharged
  <1>3. twice \in BOOLEAN /\ none \in BOOLEAN /\ (~none => k # "USEDBYTES" /\ ~twice)
    BY <1>1
  <1>4. MetricsTyped
    BY DEF MInv
  <1> HIDE DEF c, k, inc, twice, none
  <1>5. /\ metrics' \in [Contexts -> Bytes]
        /\ metrics'[c][k] = IF twice THEN metrics[c][k] + inc + inc ELSE metrics[c][k] + inc
        /\ \A d \in Contexts, j \in Kinds : d # c \/ j # k => metrics'[d][j] = metrics[d][j]
    BY <1>1, <1>2, <1>3, <1>4, SampledChargeValues
  <1>6. /\ watchedMetrics' \in [Contexts -> [Places -> Bytes]]
        /\ ~none => watchedMetrics'[c][t.place][k] = watchedMetrics[c][t.place][k] + inc
        /\ \A d \in Contexts, q \in Places, j \in Kinds :
              none \/ d # c \/ q # t.place \/ j # k =>
                 watchedMetrics'[d][q][j] = watchedMetrics[d][q][j]
    BY <1>1, <1>2, <1>3, <1>4, WatchedChargeValues
  <1>7. MetricsTyped'
    <2>1. total' \in [Counters -> Nat]
      BY <1>1, <1>2, <1>4, TotalsTyped
    <2>2. QED  BY <1>5, <1>6, <2>1 DEF MetricsTyped
  <1>8. UsedNotWatched'
    <2> SUFFICES ASSUME NEW d \in Contexts, NEW q \in Places
                 PROVE  watchedMetrics'[d][q]["USEDBYTES"] = 0
      BY DEF UsedNotWatched
    <2>1. watchedMetrics'[d][q]["USEDBYTES"] = watchedMetrics[d][q]["USEDBYTES"]
      BY <1>3, <1>6 DEF Kinds
    <2>2. QED  BY <2>1 DEF MInv, UsedNotWatched
  <1>9. UnsampledEmpty'
    <2> SUFFICES ASSUME NEW d \in Contexts \ sampled, NEW j \in Kinds
                 PROVE  metrics'[d][j] = 0 /\ \A q \in Places : watchedMetrics'[d][q][j] = 0
      BY DEF UnsampledEmpty
    <2>1. d # c
      BY <1>1
    <2>2. metrics'[d][j] = metrics[d][j]
      BY <1>5, <2>1
    <2>3. \A q \in Places : watchedMetrics'[d][q][j] = watchedMetrics[d][q][j]
      BY <1>6, <2>1
    <2>4. QED  BY <2>2, <2>3 DEF MInv, UnsampledEmpty
  <1>10. WatchedWithinSampled'
    <2> SUFFICES ASSUME NEW d \in Contexts, NEW j \in Kinds
                 PROVE  watchedMetrics'[d]["same"][j] + watchedMetrics'[d]["other"][j]
                          <= metrics'[d][j]
      BY DEF WatchedWithinSampled
    <2>1. /\ watchedMetrics[d]["same"][j] \in Nat /\ watchedMetrics[d]["other"][j] \in Nat
          /\ metrics[d][j] \in Nat
          /\ watchedMetrics[d]["same"][j] + watchedMetrics[d]["other"][j] <= metrics[d][j]
      BY <1>4 DEF MInv, MetricsTyped, WatchedWithinSampled, Bytes, Places
    <2>2. CASE d # c \/ j # k
      BY <1>5, <1>6, <2>1, <2>2 DEF Places
    <2>3. CASE d = c /\ j = k
      <3>1. CASE none
        <4>1. /\ watchedMetrics'[d]["same"][j] = watchedMetrics[d]["same"][j]
              /\ watchedMetrics'[d]["other"][j] = watchedMetrics[d]["other"][j]
          BY <1>6, <3>1 DEF Places
        <4>2. metrics'[d][j] >= metrics[d][j]
          BY <1>1, <1>5, <2>1, <2>3
        <4>3. QED  BY <1>1, <1>5, <2>1, <2>3, <4>1, <4>2
      <3>2. CASE ~none /\ t.place = "same"
        <4>1. /\ watchedMetrics'[d]["same"][j] = watchedMetrics[d]["same"][j] + inc
              /\ watchedMetrics'[d]["other"][j] = watchedMetrics[d]["other"][j]
          BY <1>6, <2>3, <3>2 DEF Places
        <4>2. metrics'[d][j] = metrics[d][j] + inc
          BY <1>3, <1>5, <2>3, <3>2
        <4>3. QED  BY <1>1, <2>1, <4>1, <4>2
      <3>3. CASE ~none /\ t.place = "other"
        <4>1. /\ watchedMetrics'[d]["same"][j] = watchedMetrics[d]["same"][j]
              /\ watchedMetrics'[d]["other"][j] = watchedMetrics[d]["other"][j] + inc
          BY <1>6, <2>3, <3>3 DEF Places
        <4>2. metrics'[d][j] = metrics[d][j] + inc
          BY <1>3, <1>5, <2>3, <3>3
        <4>3. QED  BY <1>1, <2>1, <4>1, <4>2
      <3>4. QED  BY <1>1, <3>1, <3>2, <3>3 DEF Places
    <2>4. QED  BY <2>2, <2>3
  <1>11. QED  BY <1>7, <1>8, <1>9, <1>10 DEF MInv

\* What calculateForAllContext adds to a sampled context.
LEMMA SummedUpValues ==
    ASSUME MInv, NEW c \in Contexts
    PROVE  /\ SummedUp(c) \in Bytes
           /\ \A k \in Kinds : metrics[c][k] <= SummedUp(c)[k]
           /\ SummedUp(c)["USEDBYTES"] = metrics[c]["USEDBYTES"]
           /\ c \notin sampled => \A k \in Kinds : SummedUp(c)[k] = 0
  <1>1. \A k \in Kinds : metrics[c][k] \in Nat /\ watchedMetrics[c]["other"][k] \in Nat
    BY DEF MInv, MetricsTyped, Bytes, Places
  <1>2. watchedMetrics[c]["other"]["USEDBYTES"] = 0
    BY DEF MInv, UsedNotWatched, Places
  <1>3. c \notin sampled => \A k \in Kinds :
           metrics[c][k] = 0 /\ watchedMetrics[c]["other"][k] = 0
    BY DEF MInv, UnsampledEmpty, Places
  <1>4. SummedUp(c) \in Bytes /\ \A k \in Kinds : metrics[c][k] <= SummedUp(c)[k]
    BY <1>1 DEF SummedUp, Bytes
  <1>5. SummedUp(c)["USEDBYTES"] = metrics[c]["USEDBYTES"]
    BY <1>1, <1>2 DEF SummedUp, Kinds
  <1>6. c \notin sampled => \A k \in Kinds : SummedUp(c)[k] = 0
    BY <1>1, <1>3 DEF SummedUp
  <1>7. QED  BY <1>4, <1>5, <1>6

\* A report only adds to the sampled contexts, or starts again from nothing.
LEMMA ReportMInv ==
    ASSUME MInv, printContextTree \/ cleanContextTree \/ resetWitchLogic
    PROVE  MInv'
  <1>1. CASE printContextTree
    <2>1. CASE UNCHANGED metrics
      BY <1>1, <2>1, SameMInv DEF printContextTree, StaleWalk
    <2>2. CASE metrics' = [c \in Contexts |-> SummedUp(c)]
      <3>1. UNCHANGED <<watchedMetrics, total, sampled>>
        BY <1>1 DEF printContextTree, StaleWalk
      <3>2. /\ metrics' \in [Contexts -> Bytes]
            /\ \A c \in Contexts, k \in Kinds : metrics[c][k] <= metrics'[c][k]
            /\ \A c \in Contexts \ sampled, k \in Kinds : metrics'[c][k] = 0
        BY <2>2, SummedUpValues
      <3>3. MetricsTyped' /\ UsedNotWatched' /\ UnsampledEmpty'
        BY <3>1, <3>2 DEF MInv, MetricsTyped, UsedNotWatched, UnsampledEmpty
      <3>4. WatchedWithinSampled'
        <4> SUFFICES ASSUME NEW d \in Contexts, NEW j \in Kinds
                     PROVE  watchedMetrics'[d]["same"][j] + watchedMetrics'[d]["other"][j]
                              <= metrics'[d][j]
          BY DEF WatchedWithinSampled
        <4>1. /\ watchedMetrics[d]["same"][j] \in Nat /\ watchedMetrics[d]["other"][j] \in Nat
              /\ metrics[d][j] \in Nat /\ metrics'[d][j] \in Nat
              /\ watchedMetrics[d]["same"][j] + watchedMetrics[d]["other"][j] <= metrics[d][j]
          BY <3>2 DEF MInv, MetricsTyped, WatchedWithinSampled, Bytes, Places
        <4>2. QED  BY <3>1, <3>2, <4>1
      <3>5. QED  BY <3>3, <3>4 DEF MInv
    <2>3. QED
      BY <1>1, <2>1, <2>2 DEF printContextTree, StaleWalk, calculateForAllContext
  <1>2. CASE cleanContextTree
    <2>1. CASE StaleWalk
      BY <2>1, SameMInv DEF StaleWalk
    <2>2. CASE ~StaleWalk
      <3>1. /\ metrics' = [c \in Contexts |-> NoBytes]
            /\ watchedMetrics' = [c \in Contexts |-> [p \in Places |-> NoBytes]]
            /\ UNCHANGED total
        BY <1>2, <2>2 DEF cleanContextTree
      <3>2. NoBytes \in Bytes /\ \A k \in Kinds : NoBytes[k] = 0
        BY DEF NoBytes, Bytes
      <3>3. MetricsTyped'
        BY <3>1, <3>2 DEF MInv, MetricsTyped
      <3>4. \A c \in Contexts, k \in Kinds : metrics'[c][k] = 0 /\
               \A p \in Places : watchedMetrics'[c][p][k] = 0
        BY <3>1, <3>2
      <3>5. QED
        BY <3>3, <3>4 DEF MInv, UsedNotWatched, UnsampledEmpty, WatchedWithinSampled, Kinds,
                          Places
    <2>3. QED  BY <2>1, <2>2
  <1>3. CASE resetWitchLogic
    BY <1>3 DEF resetWitchLogic, NoTotals, MInv, MetricsTyped, UsedNotWatched, UnsampledEmpty,
                WatchedWithinSampled
  <1>4. QED  BY <1>1, <1>2, <1>3

\* Every step keeps it.
LEMMA NextMInv == WInv /\ CInv /\ MInv /\ [Next]_vars => MInv'
  <1> SUFFICES ASSUME WInv, CInv, MInv, [Next]_vars PROVE MInv'
    OBVIOUS
  <1>1. CASE UNCHANGED vars \/ SampleRefused \/ \E e \in DOMAIN events : Forgotten(e)
    BY <1>1, SameMInv DEF vars, SampleRefused, Forgotten
  <1>2. ASSUME NEW c \in Contexts, NEW len \in Lens, Witch_OnSample_Callback(c, len)
        PROVE  MInv'
    BY <1>2, SameMInv DEF Witch_OnSample_Callback, StaleLookup
  <1>3. ASSUME NEW e \in DOMAIN events, NEW t \in Triggers, Witch_OnWP_Callback(e, t)
        PROVE  MInv'
    <2>1. CASE UNCHANGED vars
      BY <1>1, <2>1
    <2>2. CASE ~UNCHANGED vars
      <3>1. /\ OnRejected(e, t) \/ OnUncharged(e, t) \/ OnCharged(e, t)
            /\ UNCHANGED sampled
        BY <1>3, <2>2 DEF Witch_OnWP_Callback
      <3>2. CASE OnRejected(e, t) \/ OnUncharged(e, t)
        BY <3>1, <3>2, SameMInv DEF OnRejected, OnUncharged
      <3>3. CASE OnCharged(e, t)
        BY <3>1, <3>3, ChargedMInv
      <3>4. QED  BY <3>1, <3>2, <3>3
    <2>3. QED  BY <2>1, <2>2
  <1>4. CASE printContextTree \/ cleanContextTree \/ resetWitchLogic
    BY <1>4, ReportMInv
  <1>5. QED  BY <1>1, <1>2, <1>3, <1>4 DEF Next

\* The trees are sound in every reachable state.
LEMMA BytesInductive == Spec => [](WInv /\ CInv /\ MInv)
  <1>1. Init => MInv
    BY DEF Init, MInv, MetricsTyped, UsedNotWatched, UnsampledEmpty, WatchedWithinSampled,
           NoBytes, Bytes, Kinds, Places
  <1>2. QED  BY <1>1, CountersInductive, NextMInv, PTL DEF Spec

\* The contexts of the triggers below a sampled context never show more bytes than the
\* context itself, through any number of triggers and of reports that sum the tree up
\* (Witch_OnWP_Callback, calculateForAllContext).
THEOREM WatchedStayWithin == Spec => []WatchedWithinSampled
  <1>1. MInv => WatchedWithinSampled
    BY DEF MInv
  <1>2. QED  BY <1>1, BytesInductive, PTL

-----------------------------------------------------------------------------
(* Totals                                                                  *)

\* Between the deletion of the tree and the reset of the totals nothing has been charged,
\* and what the strict logics count as caught up they have charged.
CleanBeforeReset ==
    report = "reset" /\ ~raced =>
        /\ \A c \in Contexts, k \in Kinds : metrics[c][k] = 0
        /\ logicType \in {"LOADSPY", "REDSPY", "DUPSPY"} => CaughtUpSamples = 0

NodesTyped == sampled \subseteq Contexts /\ raced \in BOOLEAN

SInv == NodesTyped /\ CleanBeforeReset /\ ChargedOnce /\ TotalsAttributed

Catchups == [c \in DOMAIN propAttrTable |-> propAttrTable[c].catchup_num]

BytesOf(k) == [c \in sampled |-> metrics[c][k]]

\* The sums are sums of natural numbers over finite sets.
LEMMA SumsTyped ==
    ASSUME WInv, CInv, MInv, NodesTyped
    PROVE  /\ IsFiniteSet(DOMAIN propAttrTable) /\ IsFiniteSet(sampled)
           /\ Catchups \in [DOMAIN propAttrTable -> Nat]
           /\ CaughtUpSamples = SumFunction(Catchups) /\ CaughtUpSamples \in Nat
           /\ \A k \in Kinds : /\ BytesOf(k) \in [sampled -> Nat]
                               /\ SumFunction(BytesOf(k)) \in Nat
  <1>1. IsFiniteSet(DOMAIN propAttrTable) /\ IsFiniteSet(sampled)
    <2>1. DOMAIN propAttrTable \in SUBSET Contexts /\ sampled \in SUBSET Contexts
      BY DEF WInv, TablesTyped, NodesTyped
    <2>2. QED  BY <2>1, FS_Subset, WitchAssumption
  <1>2. Catchups \in [DOMAIN propAttrTable -> Nat]
    BY DEF Catchups, CInv, CountersTyped, SampleNum
  <1>3. CaughtUpSamples = SumFunction(Catchups)
    BY DEF CaughtUpSamples, Catchups
  <1>4. CaughtUpSamples \in Nat
    BY <1>1, <1>2, <1>3, SumNat
  <1>5. ASSUME NEW k \in Kinds
        PROVE  BytesOf(k) \in [sampled -> Nat] /\ SumFunction(BytesOf(k)) \in Nat
    <2>1. BytesOf(k) \in [sampled -> Nat]
      BY DEF BytesOf, MInv, MetricsTyped, Bytes, NodesTyped
    <2>2. QED  BY <1>1, <2>1, SumNat
  <1>6. QED  BY <1>1, <1>2, <1>3, <1>4, <1>5

\* The longest and the shortest access bound every access.
LEMMA LenBounds ==
    /\ MaxLen \in Nat /\ MinLen \in Nat
    /\ \A len \in Lens : len \in Nat \ {0} /\ MinLen <= len /\ len <= MaxLen
  <1>1. Lens \subseteq Nat /\ IsFiniteSet(Lens) /\ Lens # {} /\ 0 \notin Lens
    BY WitchAssumption
  <1>2. \E n \in Lens : \A m \in Lens : m <= n
    BY <1>1, LargestOf
  <1>3. \E n \in Lens : \A m \in Lens : n <= m
    BY <1>1, LeastNumber
  <1>4. MaxLen \in Lens /\ \A m \in Lens : m <= MaxLen
    BY <1>2 DEF MaxLen
  <1>5. MinLen \in Lens /\ \A m \in Lens : MinLen <= m
    BY <1>3 DEF MinLen
  <1>6. QED  BY <1>1, <1>4, <1>5

\* A larger factor has a larger product.
LEMMA ProductBounds ==
    ASSUME NEW n \in Nat, NEW a \in Nat, NEW b \in Nat, a <= b
    PROVE  n * a <= n * b
  OBVIOUS

\* n samples charged with a length between the bounds keep a total between its bounds.
LEMMA BoundsKept ==
    ASSUME NEW total0 \in Nat, NEW caught \in Nat, NEW n \in Nat, NEW len \in Nat,
           NEW bound \in Nat
    PROVE  /\ total0 <= bound * caught /\ len <= bound =>
                 total0 + n * len <= bound * (caught + n)
           /\ total0 >= bound * caught /\ bound <= len =>
                 total0 + n * len >= bound * (caught + n)
  <1>1. bound * (caught + n) = bound * caught + n * bound
    OBVIOUS
  <1>2. /\ len <= bound => n * len <= n * bound
        /\ bound <= len => n * bound <= n * len
    BY ProductBounds
  <1>3. n * len \in Nat /\ n * bound \in Nat /\ bound * caught \in Nat
    BY NatProduct
  <1> DEFINE x == n * len  y == n * bound  z == bound * caught
  <1>4. /\ x \in Nat /\ y \in Nat /\ z \in Nat /\ bound * (caught + n) = z + y
        /\ len <= bound => x <= y
        /\ bound <= len => y <= x
    BY <1>1, <1>2, <1>3
  <1>5. /\ total0 <= z /\ x <= y => total0 + x <= z + y
        /\ total0 >= z /\ y <= x => total0 + x >= z + y
    <2> HIDE DEF x, y, z
    <2>1. QED  BY <1>4
  <1>6. QED  BY <1>4, <1>5

\* A new sample is not caught up, and its node, if it is new, has no bytes.
LEMMA SampleSums ==
    ASSUME WInv, CInv, MInv, NodesTyped, NEW c \in Contexts, propAttrTable' = Counted(c),
           sampled' = sampled \cup {c}, UNCHANGED metrics
    PROVE  /\ UNCHANGED CaughtUpSamples
           /\ \A k \in Kinds : SumFunction(BytesOf(k)') = SumFunction(BytesOf(k))
  <1>1. CountersTyped
    BY DEF CInv
  <1>2. UNCHANGED CaughtUpSamples
    <2>1. /\ DOMAIN propAttrTable' = DOMAIN propAttrTable \cup {c}
          /\ Catchups' \in [DOMAIN propAttrTable \cup {c} -> Nat]
          /\ \A d \in DOMAIN propAttrTable : Catchups'[d] = Catchups[d]
          /\ c \notin DOMAIN propAttrTable => Catchups'[c] = 0
      <3>1. /\ DOMAIN propAttrTable' = DOMAIN propAttrTable \cup {c}
            /\ propAttrTable' \in [DOMAIN propAttrTable \cup {c} -> SampleNum]
            /\ \A d \in DOMAIN propAttrTable :
                  propAttrTable'[d].catchup_num = propAttrTable[d].catchup_num
            /\ c \notin DOMAIN propAttrTable => propAttrTable'[c].catchup_num = 0
        <4>1. /\ DOMAIN Counted(c) = DOMAIN propAttrTable \cup {c}
              /\ Counted(c) \in [DOMAIN propAttrTable \cup {c} -> SampleNum]
              /\ \A d \in DOMAIN propAttrTable \ {c} : Counted(c)[d] = propAttrTable[d]
              /\ c \in DOMAIN propAttrTable =>
                    Counted(c)[c].catchup_num = propAttrTable[c].catchup_num
              /\ c \notin DOMAIN propAttrTable => Counted(c)[c].catchup_num = 0
          BY <1>1, CountedValues
        <4>2. \A d \in DOMAIN propAttrTable :
                 Counted(c)[d].catchup_num = propAttrTable[d].catchup_num
          BY <4>1
        <4>3. QED  BY <4>1, <4>2
      <3>2. QED  BY <3>1 DEF Catchups, SampleNum
    <2>2. CaughtUpSamples' = SumFunction(Catchups')
      BY DEF CaughtUpSamples, Catchups
    <2>3. CASE c \in DOMAIN propAttrTable
      <3>1. DOMAIN propAttrTable \cup {c} = DOMAIN propAttrTable
        BY <2>3
      <3>2. SumFunction(Catchups') = SumFunction(Catchups)
        BY <2>1, <3>1, SumsTyped, SumSame
      <3>3. QED  BY <2>2, <3>2, SumsTyped
    <2>4. CASE c \notin DOMAIN propAttrTable
      <3>1. SumFunction(Catchups') = SumFunction(Catchups) + Catchups'[c]
        <4>1. IsFiniteSet(DOMAIN propAttrTable) /\ Catchups \in [DOMAIN propAttrTable -> Nat]
          BY SumsTyped
        <4>2. QED  BY <2>1, <2>4, <4>1, SumOneMore
      <3>2. QED  BY <2>1, <2>2, <2>4, <3>1, SumsTyped
    <2>5. QED  BY <2>3, <2>4
  <1>3. ASSUME NEW k \in Kinds
        PROVE  SumFunction(BytesOf(k)') = SumFunction(BytesOf(k))
    <2>1. /\ BytesOf(k)' \in [sampled \cup {c} -> Nat]
          /\ \A d \in sampled : BytesOf(k)'[d] = BytesOf(k)[d]
          /\ c \notin sampled => BytesOf(k)'[c] = 0
      BY DEF BytesOf, MInv, MetricsTyped, UnsampledEmpty, Bytes, NodesTyped
    <2>2. CASE c \in sampled
      <3>1. sampled \cup {c} = sampled
        BY <2>2
      <3>2. QED  BY <2>1, <3>1, SumsTyped, SumSame
    <2>3. CASE c \notin sampled
      <3>1. SumFunction(BytesOf(k)') = SumFunction(BytesOf(k)) + BytesOf(k)'[c]
        <4>1. IsFiniteSet(sampled) /\ BytesOf(k) \in [sampled -> Nat]
          BY SumsTyped
        <4>2. QED  BY <2>1, <2>3, <4>1, SumOneMore
      <3>2. QED  BY <2>1, <2>3, <3>1, SumsTyped
    <2>4. QED  BY <2>2, <2>3
  <1>4. QED  BY <1>2, <1>3

\* Catching up a context counts the samples it was behind.
LEMMA CatchUpSums ==
    ASSUME WInv, CInv, MInv, NodesTyped, NEW c \in DOMAIN propAttrTable, NEW dist \in Nat,
           propAttrTable' = CaughtUp(c, dist)
    PROVE  CaughtUpSamples' =
              CaughtUpSamples + (propAttrTable[c].cur_num - propAttrTable[c].catchup_num)
  <1>1. /\ DOMAIN propAttrTable' = DOMAIN propAttrTable
        /\ propAttrTable' \in [DOMAIN propAttrTable -> SampleNum]
        /\ \A d \in DOMAIN propAttrTable \ {c} : propAttrTable'[d] = propAttrTable[d]
        /\ propAttrTable'[c].catchup_num = propAttrTable[c].cur_num
    BY CaughtUpValues DEF CInv
  <1>2. /\ Catchups' \in [DOMAIN propAttrTable -> Nat]
        /\ \A d \in DOMAIN propAttrTable \ {c} : Catchups'[d] = Catchups[d]
        /\ Catchups'[c] = propAttrTable[c].cur_num
        /\ Catchups[c] = propAttrTable[c].catchup_num
    BY <1>1 DEF Catchups, SampleNum
  <1>3. SumFunction(Catchups') + Catchups[c] = SumFunction(Catchups) + Catchups'[c]
    BY <1>2, SumsTyped, SumOneChanged
  <1>4. CaughtUpSamples' = SumFunction(Catchups')
    BY DEF CaughtUpSamples, Catchups
  <1>5. Catchups[c] \in Nat /\ Catchups'[c] \in Nat /\ SumFunction(Catchups') \in Nat
    BY <1>2, SumsTyped, SumNat
  <1>6. QED  BY <1>2, <1>3, <1>4, <1>5, SumsTyped

\* A charge is attributed to a sampled context, as one kind of byte.
LEMMA ChargeSums ==
    ASSUME WInv, CInv, MInv, NodesTyped, NEW c \in sampled, NEW k \in Kinds, NEW inc \in Nat,
           NEW twice \in BOOLEAN, metrics' = SampledCharge(c, k, inc, twice),
           UNCHANGED sampled
    PROVE  /\ SumFunction(BytesOf(k)') =
                 SumFunction(BytesOf(k)) + (IF twice THEN inc + inc ELSE inc)
           /\ \A j \in Kinds \ {k} : SumFunction(BytesOf(j)') = SumFunction(BytesOf(j))
  <1>1. c \in Contexts /\ sampled \subseteq Contexts /\ MetricsTyped
    BY DEF NodesTyped, MInv
  <1>2. /\ metrics' \in [Contexts -> Bytes]
        /\ metrics'[c][k] = IF twice THEN metrics[c][k] + inc + inc ELSE metrics[c][k] + inc
        /\ \A d \in Contexts, j \in Kinds : d # c \/ j # k => metrics'[d][j] = metrics[d][j]
    BY <1>1, SampledChargeValues
  <1>3. \A j \in Kinds : BytesOf(j)' \in [sampled -> Nat]
    BY <1>1, <1>2 DEF BytesOf, Bytes
  <1>4. \A j \in Kinds \ {k} : \A d \in sampled : BytesOf(j)'[d] = BytesOf(j)[d]
    BY <1>1, <1>2 DEF BytesOf
  <1>5. \A j \in Kinds \ {k} : SumFunction(BytesOf(j)') = SumFunction(BytesOf(j))
    BY <1>3, <1>4, SumsTyped, SumSame
  <1>6. SumFunction(BytesOf(k)') + BytesOf(k)[c] = SumFunction(BytesOf(k)) + BytesOf(k)'[c]
    <2>1. \A d \in sampled \ {c} : BytesOf(k)'[d] = BytesOf(k)[d]
      BY <1>1, <1>2 DEF BytesOf
    <2>2. QED  BY <1>3, <2>1, SumsTyped, SumOneChanged
  <1>7. /\ BytesOf(k)'[c] = BytesOf(k)[c] + (IF twice THEN inc + inc ELSE inc)
        /\ BytesOf(k)[c] \in Nat
    <2>1. BytesOf(k)'[c] = metrics'[c][k] /\ BytesOf(k)[c] = metrics[c][k]
      BY DEF BytesOf
    <2>2. metrics[c][k] \in Nat
      BY <1>1 DEF MetricsTyped, Bytes
    <2>3. QED  BY <1>2, <2>1, <2>2
  <1>8. SumFunction(BytesOf(k)') \in Nat /\ SumFunction(BytesOf(k)) \in Nat
    BY <1>3, SumsTyped, SumNat
  <1>9. QED  BY <1>5, <1>6, <1>7, <1>8

\* TotalsAttributed in terms of BytesOf.
LEMMA AttributedMeans ==
    TotalsAttributed <=>
        (Settled => \A k \in Kinds :
            /\ total[k] <= SumFunction(BytesOf(k))
            /\ k = "USEDBYTES" => total[k] = SumFunction(BytesOf(k)))
  BY DEF TotalsAttributed, BytesOf

\* A step that charges nothing, catches nothing up and does not end a report.
LEMMA SameSInv ==
    ASSUME SInv, NodesTyped', UNCHANGED <<build, total, metrics, raced>>,
           UNCHANGED CaughtUpSamples, report' = "reset" <=> report = "reset",
           \A k \in Kinds : SumFunction(BytesOf(k)') = SumFunction(BytesOf(k))
    PROVE  SInv'
  <1>1. Settled' <=> Settled
    BY DEF Settled
  <1>2. CleanBeforeReset'
    BY DEF SInv, CleanBeforeReset, logicType
  <1>3. ChargedOnce'
    BY <1>1 DEF SInv, ChargedOnce, TotalBytes, MaxLen, MinLen, logicType
  <1>4. TotalsAttributed'
    <2>1. ASSUME Settled', NEW k \in Kinds
          PROVE  /\ total'[k] <= SumFunction(BytesOf(k)')
                 /\ k = "USEDBYTES" => total'[k] = SumFunction(BytesOf(k)')
      BY <1>1, <2>1, AttributedMeans DEF SInv
    <2>2. QED  BY <2>1 DEF TotalsAttributed, BytesOf
  <1>5. QED  BY <1>2, <1>3, <1>4 DEF SInv

\* A step that leaves the counters, the nodes and the bytes alone leaves the sums alone.
LEMMA SameSums ==
    ASSUME UNCHANGED <<propAttrTable, sampled, metrics>>
    PROVE  /\ UNCHANGED CaughtUpSamples
           /\ \A k \in Kinds : SumFunction(BytesOf(k)') = SumFunction(BytesOf(k))
  BY DEF CaughtUpSamples, BytesOf

\* A trigger that is caught up and not charged: the strict logics had nothing to catch up.
LEMMA UnchargedSInv ==
    ASSUME WInv, CInv, MInv, SInv, NEW e \in DOMAIN events, NEW t \in Triggers,
           OnUncharged(e, t), UNCHANGED <<build, sampled>>
    PROVE  SInv'
  <1> DEFINE c == eventToContextLeafMap[e]
             n == propAttrTable[c].cur_num - propAttrTable[c].catchup_num
  <1>0. e \in DOMAIN eventToContextLeafMap
    BY DEF OnUncharged, Accepted
  <1>1. /\ c \in DOMAIN propAttrTable /\ n \in Nat
        /\ events[e].len \in Lens /\ events[e].len \in Nat
        /\ Inc(e) = n * events[e].len
        /\ t.dist \in Nat
    BY <1>0, Charging
  <1>2. /\ propAttrTable' = CaughtUp(c, t.dist)
        /\ UNCHANGED <<metrics, total, report, raced>>
        /\ RejectedLate(t) \/ (logicType \in {"LOADSPY", "REDSPY", "DUPSPY"} /\ Inc(e) = 0)
    <2>1. propAttrTable' = CaughtUp(c, t.dist) /\ UNCHANGED <<metrics, total, report>>
      BY DEF OnUncharged
    <2>2. UNCHANGED raced
      BY DEF OnUncharged
    <2>3. RejectedLate(t) \/ (logicType \in {"LOADSPY", "REDSPY", "DUPSPY"} /\ Inc(e) = 0)
      BY DEF OnUncharged
    <2>4. QED  BY <2>1, <2>2, <2>3
  <1>3. CaughtUpSamples' = CaughtUpSamples + n
    BY <1>1, <1>2, CatchUpSums DEF SInv
  <1> HIDE DEF n, c
  <1>4. \A k \in Kinds : SumFunction(BytesOf(k)') = SumFunction(BytesOf(k))
    BY <1>2 DEF BytesOf
  <1>5. NodesTyped'
    BY <1>2 DEF SInv, NodesTyped
  <1>6. CaughtUpSamples \in Nat
    BY SumsTyped DEF SInv
  <1>7. CASE logicType \in {"LOADSPY", "REDSPY", "DUPSPY"}
    <2>1. Inc(e) = 0
      BY <1>2, <1>7 DEF RejectedLate
    <2>2. n = 0
      <3>1. events[e].len \in Nat \ {0}
        BY <1>1, LenBounds
      <3>2. n # 0 => n * events[e].len \in Nat \ {0}
        BY <1>1, <3>1, PositiveProduct
      <3>3. QED  BY <1>1, <2>1, <3>2
    <2>3. CaughtUpSamples' = CaughtUpSamples
      BY <1>3, <1>6, <2>2
    <2>4. QED  BY <1>2, <1>4, <1>5, <2>3, SameSInv
  <1>8. CASE logicType \notin {"LOADSPY", "REDSPY", "DUPSPY"}
    <2>1. Settled' <=> Settled
      BY <1>2 DEF Settled
    <2>2. logicType' = logicType /\ TotalBytes' = TotalBytes
      BY <1>2 DEF logicType, TotalBytes
    <2>3. CleanBeforeReset'
      BY <1>2, <1>8, <2>2 DEF SInv, CleanBeforeReset
    <2>4. ChargedOnce'
      <3>1. ASSUME Settled  PROVE TotalBytes <= MaxLen * (CaughtUpSamples + n)
        <4>1. TotalBytes <= MaxLen * CaughtUpSamples
          BY <3>1 DEF SInv, ChargedOnce
        <4>2. TotalBytes \in Nat
          BY DEF TotalBytes, MInv, MetricsTyped, Counters, Kinds
        <4>3. TotalBytes + n * 0 <= MaxLen * (CaughtUpSamples + n)
          BY <1>1, <1>6, <4>1, <4>2, BoundsKept, LenBounds
        <4>4. QED  BY <1>1, <4>2, <4>3
      <3>2. QED  BY <1>3, <1>8, <2>1, <2>2, <3>1 DEF ChargedOnce, MaxLen, MinLen
    <2>5. TotalsAttributed'
      <3>1. ASSUME Settled', NEW k \in Kinds
            PROVE  /\ total'[k] <= SumFunction(BytesOf(k)')
                   /\ k = "USEDBYTES" => total'[k] = SumFunction(BytesOf(k)')
        BY <1>2, <1>4, <2>1, <3>1, AttributedMeans DEF SInv
      <3>2. QED  BY <3>1 DEF TotalsAttributed, BytesOf
    <2>6. QED  BY <1>5, <2>3, <2>4, <2>5 DEF SInv
  <1>9. QED  BY <1>7, <1>8

\* The total of all bytes grows by the charge.
LEMMA TotalGrows ==
    ASSUME MetricsTyped, NEW k \in Kinds, NEW inc \in Nat,
           total' = [total EXCEPT ![k] = @ + inc, !["WATCHEDCOUNT"] = @ + 1]
    PROVE  /\ TotalBytes \in Nat
           /\ TotalBytes' = TotalBytes + inc
           /\ \A j \in Kinds : total[j] \in Nat /\
                 total'[j] = IF j = k THEN total[j] + inc ELSE total[j]
  <1>1. \A j \in Kinds : total[j] \in Nat
    BY DEF MetricsTyped, Counters
  <1>2. \A j \in Kinds : total'[j] = IF j = k THEN total[j] + inc ELSE total[j]
    BY DEF MetricsTyped, Counters, Kinds
  <1>3. TotalBytes \in Nat
    BY <1>1 DEF TotalBytes, Kinds
  <1>4. k \in {"USEDBYTES", "REDBYTES", "APPROXREDBYTES", "DEADBYTES"}
    BY DEF Kinds
  <1>5. TotalBytes' = TotalBytes + inc
    BY <1>1, <1>2, <1>4 DEF TotalBytes, Kinds
  <1>6. QED  BY <1>1, <1>2, <1>3, <1>5

\* A trigger that is charged: what is caught up, attributed and added to the totals agrees,
\* or the trigger raced with the reset.
LEMMA ChargedSInv ==
    ASSUME WInv, CInv, MInv, SInv, NEW e \in DOMAIN events, NEW t \in Triggers,
           OnCharged(e, t), UNCHANGED <<build, sampled>>
    PROVE  SInv'
  <1>0. e \in DOMAIN eventToContextLeafMap
    BY DEF OnCharged, Accepted
  <1>kind. PICK k \in Kinds : k = Kind(t)
    BY <1>0, Charging
  <1> DEFINE c == eventToContextLeafMap[e]
             n == propAttrTable[c].cur_num - propAttrTable[c].catchup_num
             len == events[e].len
             twice == (k # "USEDBYTES" /\ t.empty)
  <1>1. /\ c \in DOMAIN propAttrTable /\ c \in sampled /\ n \in Nat
        /\ len \in Lens /\ len \in Nat /\ Inc(e) = n * len /\ Inc(e) \in Nat
        /\ t.dist \in Nat /\ t.empty \in BOOLEAN
    BY <1>0, Charging
  <1>2. /\ propAttrTable' = CaughtUp(c, t.dist)
        /\ metrics' = SampledCharge(c, k, Inc(e), twice)
    BY <1>kind DEF OnCharged
  <1>3. CaughtUpSamples' = CaughtUpSamples + n
    BY <1>1, <1>2, CatchUpSums DEF SInv
  <1>4. twice \in BOOLEAN /\ (k = "USEDBYTES" => ~twice)
    BY <1>1
  <1>5. /\ SumFunction(BytesOf(k)') =
              SumFunction(BytesOf(k)) + (IF twice THEN Inc(e) + Inc(e) ELSE Inc(e))
        /\ \A j \in Kinds \ {k} : SumFunction(BytesOf(j)') = SumFunction(BytesOf(j))
    <2>1. NodesTyped
      BY DEF SInv
    <2> DEFINE inc == Inc(e)
    <2>2. inc \in Nat /\ metrics' = SampledCharge(c, k, inc, twice)
      BY <1>1, <1>2
    <2> HIDE DEF c, twice, inc
    <2>3. /\ SumFunction(BytesOf(k)') =
                SumFunction(BytesOf(k)) + (IF twice THEN inc + inc ELSE inc)
          /\ \A j \in Kinds \ {k} : SumFunction(BytesOf(j)') = SumFunction(BytesOf(j))
      BY <1>1, <1>4, <2>1, <2>2, ChargeSums
    <2>4. QED  BY <2>3 DEF inc
  <1>6. /\ sampled' \subseteq Contexts
        /\ raced' \in BOOLEAN
    BY DEF OnCharged, SInv, NodesTyped
  <1>7. CaughtUpSamples \in Nat /\ \A j \in Kinds : SumFunction(BytesOf(j)) \in Nat
    BY SumsTyped DEF SInv
  <1>8. CASE raced'
    BY <1>6, <1>8 DEF SInv, NodesTyped, CleanBeforeReset, ChargedOnce, TotalsAttributed, Settled
  <1>9. CASE ~raced'
    <2>1. /\ total' = [total EXCEPT ![k] = @ + Inc(e), !["WATCHEDCOUNT"] = @ + 1]
          /\ ~raced /\ report # "reset" /\ report' = report
      BY <1>9, <1>kind DEF OnCharged
    <2>2. Settled
      BY <2>1 DEF Settled
    <2>3. /\ TotalBytes \in Nat /\ TotalBytes' = TotalBytes + Inc(e)
          /\ \A j \in Kinds : total[j] \in Nat /\
                total'[j] = IF j = k THEN total[j] + Inc(e) ELSE total[j]
      BY <1>1, <2>1, TotalGrows DEF MInv
    <2> HIDE DEF c, n, len, twice
    <2>4. ChargedOnce'
      <3>1. /\ TotalBytes <= MaxLen * CaughtUpSamples
            /\ logicType \in {"LOADSPY", "REDSPY", "DUPSPY"} =>
                  TotalBytes >= MinLen * CaughtUpSamples
        BY <2>2 DEF SInv, ChargedOnce
      <3>2. MaxLen \in Nat /\ MinLen \in Nat /\ len <= MaxLen /\ MinLen <= len
        BY <1>1, LenBounds
      <3>3. TotalBytes + n * len <= MaxLen * (CaughtUpSamples + n)
        BY <1>1, <1>7, <2>3, <3>1, <3>2, BoundsKept
      <3>4. logicType \in {"LOADSPY", "REDSPY", "DUPSPY"} =>
               TotalBytes + n * len >= MinLen * (CaughtUpSamples + n)
        BY <1>1, <1>7, <2>3, <3>1, <3>2, BoundsKept
      <3>5. TotalBytes' = TotalBytes + n * len /\ logicType' = logicType
        BY <1>1, <2>3 DEF logicType
      <3>6. QED  BY <1>3, <3>3, <3>4, <3>5 DEF ChargedOnce, MaxLen, MinLen
    <2>5. TotalsAttributed'
      <3>1. ASSUME NEW j \in Kinds
            PROVE  /\ total'[j] <= SumFunction(BytesOf(j)')
                   /\ j = "USEDBYTES" => total'[j] = SumFunction(BytesOf(j)')
        <4>1. /\ total[j] <= SumFunction(BytesOf(j))
              /\ j = "USEDBYTES" => total[j] = SumFunction(BytesOf(j))
          BY <2>2, AttributedMeans DEF SInv
        <4>2. total[j] \in Nat /\ SumFunction(BytesOf(j)) \in Nat
          BY <1>7, <2>3
        <4>3. CASE j = k
          <5>1. /\ total'[j] = total[j] + Inc(e)
                /\ SumFunction(BytesOf(j)') = SumFunction(BytesOf(j)) +
                      (IF twice THEN Inc(e) + Inc(e) ELSE Inc(e))
            <6>1. total'[j] = total[j] + Inc(e)
              BY <2>3, <4>3
            <6>2. BytesOf(j)' = BytesOf(k)' /\ BytesOf(j) = BytesOf(k)
              BY <4>3
            <6>3. QED  BY <1>5, <6>1, <6>2
          <5>2. CASE twice
            BY <1>1, <1>4, <4>1, <4>2, <4>3, <5>1, <5>2
          <5>3. CASE ~twice
            BY <1>1, <4>1, <4>2, <5>1, <5>3
          <5>4. QED  BY <1>4, <5>2, <5>3
        <4>4. CASE j # k
          BY <1>5, <2>3, <4>1, <4>4
        <4>5. QED  BY <4>3, <4>4
      <3>2. QED  BY <3>1 DEF TotalsAttributed, BytesOf
    <2>6. CleanBeforeReset'
      BY <2>1 DEF CleanBeforeReset
    <2>7. QED  BY <1>6, <2>4, <2>5, <2>6 DEF SInv, NodesTyped
  <1>10. QED  BY <1>8, <1>9

\* A report: summing up only adds, and after the deletion and the reset the totals and the
\* tree start from nothing together, unless a trigger came in between.
LEMMA ReportSInv ==
    ASSUME WInv, CInv, MInv, SInv, RInv, printContextTree \/ cleanContextTree \/ resetWitchLogic
    PROVE  SInv'
  <1>0. CaughtUpSamples \in Nat /\ \A j \in Kinds : SumFunction(BytesOf(j)) \in Nat
    BY SumsTyped DEF SInv
  <1>1. ASSUME StaleWalk  PROVE SInv'
    <2>1. UNCHANGED <<build, total, metrics, sampled, propAttrTable, report>> /\ UNCHANGED raced
      BY <1>1 DEF StaleWalk
    <2>2. NodesTyped'
      BY <2>1 DEF SInv, NodesTyped
    <2>3. QED  BY <2>1, <2>2, SameSums, SameSInv
  <1>2. CASE printContextTree /\ ~StaleWalk
    <2>1. /\ report = "idle" /\ report' # "reset"
          /\ UNCHANGED <<build, total, sampled, propAttrTable>>
          /\ metrics' = metrics \/ metrics' = [c \in Contexts |-> SummedUp(c)]
      BY <1>2 DEF printContextTree, calculateForAllContext
    <2>2. UNCHANGED raced
      BY <1>2 DEF printContextTree
    <2>3. NodesTyped' /\ UNCHANGED CaughtUpSamples
      BY <2>1, <2>2 DEF SInv, NodesTyped, CaughtUpSamples
    <2>4. CASE metrics' = metrics
      BY <2>1, <2>2, <2>3, <2>4, SameSums, SameSInv
    <2>5. CASE metrics' = [c \in Contexts |-> SummedUp(c)]
      <3>1. Settled' <=> Settled
        BY <2>1, <2>2 DEF Settled
      <3>2. ChargedOnce'
        BY <2>1, <2>3, <3>1 DEF SInv, ChargedOnce, TotalBytes, MaxLen, MinLen, logicType
      <3>3. TotalsAttributed'
        <4>1. ASSUME Settled', NEW k \in Kinds
              PROVE  /\ total'[k] <= SumFunction(BytesOf(k)')
                     /\ k = "USEDBYTES" => total'[k] = SumFunction(BytesOf(k)')
          <5>1. /\ total[k] <= SumFunction(BytesOf(k))
                /\ k = "USEDBYTES" => total[k] = SumFunction(BytesOf(k))
            BY <3>1, <4>1, AttributedMeans DEF SInv
          <5>2. /\ BytesOf(k)' \in [sampled -> Nat]
                /\ \A c \in sampled : BytesOf(k)[c] <= BytesOf(k)'[c]
                /\ k = "USEDBYTES" => \A c \in sampled : BytesOf(k)[c] = BytesOf(k)'[c]
            BY <2>1, <2>5, SummedUpValues DEF BytesOf, SInv, NodesTyped, Bytes
          <5>3. IsFiniteSet(sampled) /\ BytesOf(k) \in [sampled -> Nat]
            BY SumsTyped DEF SInv
          <5>4. SumFunction(BytesOf(k)) <= SumFunction(BytesOf(k)')
            BY <5>2, <5>3, SumMonotone
          <5>5. k = "USEDBYTES" => SumFunction(BytesOf(k)) = SumFunction(BytesOf(k)')
            BY <5>2, <5>3, SumSame
          <5>6. total[k] \in Nat /\ SumFunction(BytesOf(k)') \in Nat
            BY <5>2, <5>3, SumNat DEF MInv, MetricsTyped, Counters
          <5>7. QED  BY <1>0, <2>1, <5>1, <5>4, <5>5, <5>6
        <4>2. QED  BY <4>1 DEF TotalsAttributed, BytesOf
      <3>4. CleanBeforeReset'
        BY <2>1 DEF CleanBeforeReset
      <3>5. QED  BY <2>3, <3>2, <3>3, <3>4 DEF SInv
    <2>6. QED  BY <2>1, <2>4, <2>5
  <1>3. CASE cleanContextTree /\ ~StaleWalk
    <2>1. /\ report' = "reset" /\ propAttrTable' = [c \in {} |-> NewSample] /\ sampled' = {}
          /\ metrics' = [c \in Contexts |-> NoBytes]
      BY <1>3 DEF cleanContextTree
    <2>2. raced' = FALSE
      BY <1>3 DEF cleanContextTree
    <2>3. CaughtUpSamples' = 0
      <3>1. DOMAIN Catchups' = {} /\ CaughtUpSamples' = SumFunction(Catchups')
        BY <2>1 DEF Catchups, CaughtUpSamples
      <3>2. QED  BY <3>1, SumNone
    <2>4. CleanBeforeReset'
      BY <2>1, <2>3 DEF CleanBeforeReset, NoBytes
    <2>5. QED
      BY <2>1, <2>2, <2>4 DEF SInv, NodesTyped, ChargedOnce, TotalsAttributed, Settled
  <1>4. CASE resetWitchLogic
    <2>1. /\ report = "reset" /\ report' = "idle" /\ total' = NoTotals
          /\ UNCHANGED <<build, metrics, sampled, propAttrTable>>
      BY <1>4 DEF resetWitchLogic
    <2>2. UNCHANGED raced
      BY <1>4 DEF resetWitchLogic
    <2>3. NodesTyped' /\ CleanBeforeReset'
      BY <2>1, <2>2 DEF SInv, NodesTyped, CleanBeforeReset
    <2>4. CASE raced
      BY <2>2, <2>3, <2>4 DEF SInv, ChargedOnce, TotalsAttributed, Settled
    <2>5. CASE ~raced
      <3>1. /\ \A c \in Contexts, k \in Kinds : metrics[c][k] = 0
            /\ logicType \in {"LOADSPY", "REDSPY", "DUPSPY"} => CaughtUpSamples = 0
        BY <2>1, <2>5 DEF SInv, CleanBeforeReset
      <3>2. \A k \in Kinds : total'[k] = 0 /\ TotalBytes' = 0
        BY <2>1 DEF NoTotals, TotalBytes, Counters, Kinds
      <3>3. CaughtUpSamples' = CaughtUpSamples /\ logicType' = logicType
        BY <2>1 DEF CaughtUpSamples, logicType
      <3>4. ChargedOnce'
        <4>1. 0 <= MaxLen * CaughtUpSamples
          BY <1>0, LenBounds, NatProduct
        <4>2. CaughtUpSamples = 0 => 0 >= MinLen * CaughtUpSamples
          BY LenBounds
        <4>3. TotalBytes' = 0
          BY <3>2 DEF Kinds
        <4>4. QED  BY <3>1, <3>3, <4>1, <4>2, <4>3 DEF ChargedOnce, MaxLen, MinLen
      <3>5. TotalsAttributed'
        <4>1. ASSUME NEW k \in Kinds
              PROVE  total'[k] = 0 /\ SumFunction(BytesOf(k)') = 0
          <5>1. BytesOf(k)' = BytesOf(k)
            BY <2>1 DEF BytesOf
          <5>2. IsFiniteSet(sampled) /\ BytesOf(k) \in [sampled -> Nat]
            BY SumsTyped DEF SInv
          <5>3. \A c \in sampled : BytesOf(k)[c] = 0
            BY <3>1 DEF BytesOf, SInv, NodesTyped
          <5>4. SumFunction(BytesOf(k)) = 0
            BY <5>2, <5>3, SumOfZeros
          <5>5. QED  BY <3>2, <5>1, <5>4
        <4>2. \A k \in Kinds : total'[k] <= SumFunction(BytesOf(k)')
                               /\ total'[k] = SumFunction(BytesOf(k)')
          BY <4>1
        <4>3. QED  BY <4>2 DEF TotalsAttributed, BytesOf
      <3>6. QED  BY <2>3, <3>4, <3>5 DEF SInv
    <2>6. QED  BY <2>4, <2>5
  <1>5. QED
    BY <1>1, <1>2, <1>3, <1>4

\* Every step keeps it.
LEMMA NextSInv == WInv /\ CInv /\ MInv /\ RInv /\ SInv /\ [Next]_vars => SInv'
  <1> SUFFICES ASSUME WInv, CInv, MInv, RInv, SInv, [Next]_vars PROVE SInv'
    OBVIOUS
  <1>0. ASSUME UNCHANGED <<build, total, metrics, sampled, propAttrTable, report>>,
               UNCHANGED raced
        PROVE  SInv'
    <2>1. NodesTyped'
      BY <1>0 DEF SInv, NodesTyped
    <2>2. QED  BY <1>0, <2>1, SameSums, SameSInv
  <1>1. CASE UNCHANGED vars
    BY <1>0, <1>1 DEF vars
  <1>2. ASSUME NEW c \in Contexts, NEW len \in Lens, Witch_OnSample_Callback(c, len)
        PROVE  SInv'
    <2>1. CASE StaleLookup(c)
      BY <1>0, <2>1 DEF StaleLookup
    <2>2. CASE ~StaleLookup(c)
      <3>1. /\ propAttrTable' = Counted(c) /\ sampled' = sampled \cup {c}
            /\ UNCHANGED <<build, total, metrics, report>>
        BY <1>2, <2>2 DEF Witch_OnSample_Callback
      <3>2. UNCHANGED raced
        BY <1>2, <2>2 DEF Witch_OnSample_Callback
      <3>3. NodesTyped'
        BY <3>1, <3>2 DEF SInv, NodesTyped
      <3>4. NodesTyped
        BY DEF SInv
      <3>5. QED  BY <3>1, <3>2, <3>3, <3>4, SampleSums, SameSInv
    <2>3. QED  BY <2>1, <2>2
  <1>3. CASE SampleRefused
    BY <1>1, <1>3 DEF SampleRefused
  <1>4. ASSUME NEW e \in DOMAIN events, Forgotten(e)  PROVE SInv'
    BY <1>0, <1>4 DEF Forgotten
  <1>5. ASSUME NEW e \in DOMAIN events, NEW t \in Triggers, Witch_OnWP_Callback(e, t)
        PROVE  SInv'
    <2>1. CASE UNCHANGED vars
      BY <1>1, <2>1
    <2>2. CASE ~UNCHANGED vars
      <3>1. /\ OnRejected(e, t) \/ OnUncharged(e, t) \/ OnCharged(e, t)
            /\ UNCHANGED <<build, sampled>>
        BY <1>5, <2>2 DEF Witch_OnWP_Callback
      <3>2. CASE OnRejected(e, t)
        BY <1>0, <3>1, <3>2 DEF OnRejected
      <3>3. CASE OnUncharged(e, t)
        BY <3>1, <3>3, UnchargedSInv
      <3>4. CASE OnCharged(e, t)
        BY <3>1, <3>4, ChargedSInv
      <3>5. QED  BY <3>1, <3>2, <3>3, <3>4
    <2>3. QED  BY <2>1, <2>2
  <1>6. CASE printContextTree \/ cleanContextTree \/ resetWitchLogic
    BY <1>6, ReportSInv
  <1>7. QED  BY <1>1, <1>2, <1>3, <1>4, <1>5, <1>6 DEF Next

\* Initially there is nothing to sum.
LEMMA InitSInv == Init => SInv
  <1> SUFFICES ASSUME Init PROVE SInv
    OBVIOUS
  <1>1. DOMAIN Catchups = {} /\ CaughtUpSamples = SumFunction(Catchups)
    BY DEF Init, Catchups, CaughtUpSamples
  <1>2. CaughtUpSamples = 0
    BY <1>1, SumNone
  <1>3. TotalBytes = 0
    BY DEF Init, TotalBytes, Counters, Kinds
  <1>4. ChargedOnce
    BY <1>2, <1>3, LenBounds DEF ChargedOnce
  <1>5. \A k \in Kinds : SumFunction(BytesOf(k)) = 0
    BY SumNone DEF Init, BytesOf
  <1>6. \A k \in Kinds : total[k] = 0
    BY DEF Init, Counters
  <1>7. TotalsAttributed
    BY <1>5, <1>6, AttributedMeans
  <1>8. NodesTyped /\ CleanBeforeReset
    BY DEF Init, NodesTyped, CleanBeforeReset
  <1>9. QED  BY <1>4, <1>7, <1>8 DEF SInv

\* Everything the witch logics keep, together.
THEOREM TotalsInductive == Spec => [](WInv /\ CInv /\ MInv /\ RInv /\ SInv)
  <1>1. Init => RInv
    BY DEF Init, RInv, ReportStates, StaleAfterClean
  <1>2. QED  BY <1>1, InitSInv, NextRInv, NextSInv, BytesInductive, PTL DEF Spec

\* Proportional attribution (GetNumDiffSamplesAndReset): the bytes of a report are the
\* samples that were caught up, each charged at most once and with the length of a sample,
\* and by the logics that test first exactly once.
THEOREM SamplesChargedOnce == Spec => []ChargedOnce
  <1>1. SInv => ChargedOnce
    BY DEF SInv
  <1>2. QED  BY <1>1, TotalsInductive, PTL

\* The contexts of a report account for its totals: used bytes exactly, wasted bytes at
\* least, unless a trigger raced with the unlocked resetWitchLogic.
THEOREM ReportAccounts == Spec => []TotalsAttributed
  <1>1. SInv => TotalsAttributed
    BY DEF SInv
  <1>2. QED  BY <1>1, TotalsInductive, PTL
=============================================================================
