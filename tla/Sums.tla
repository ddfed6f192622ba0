-------------------------------- MODULE Sums --------------------------------
(***************************************************************************)
(* What the proofs of several components need of finite sets and of sums   *)
(* over them. The library defines a sum by a recursive function; that      *)
(* there is such a function, and that the order in which it takes the      *)
(* elements does not matter, is shown by minimal counterexamples (WFMin):  *)
(* the library's induction theorems take operators.                        *)
(***************************************************************************)
EXTENDS Integers, FiniteSetsExt, FiniteSetTheorems, WellFoundedInduction, TLAPS

-----------------------------------------------------------------------------
\* Minimal counterexamples

\* Some of the subsets of a finite set: one of them has no other as a proper subset.
LEMMA Minimal ==
  ASSUME NEW D, IsFiniteSet(D), NEW Sets \in SUBSET (SUBSET D), Sets # {}
  PROVE  \E S \in Sets : \A T \in SUBSET S : T # S => T \notin Sets
<1> DEFINE Order == StrictSubsetOrdering(D)
<1>1. IsWellFoundedOn(Order, SUBSET D)
  <2>1. \A U : IsFiniteSet(U) => IsWellFoundedOn(StrictSubsetOrdering(U), SUBSET U)
    BY FS_FiniteSubsetsOfFinite, FS_StrictSubsetOrderingWellFounded
  <2> QED
    BY <2>1
<1>2. PICK S \in Sets : \A T \in Sets : <<T, S>> \notin Order
  <2> HIDE DEF Order
  <2> QED
    BY <1>1, WFMin
<1>3. ASSUME NEW T \in SUBSET S, T # S PROVE T \notin Sets
  BY <1>2, <1>3 DEF StrictSubsetOrdering
<1> QED
  BY <1>3

\* A set of numbers up to n has a least one.
LEMMA Least ==
  ASSUME NEW n \in Nat, NEW T \in SUBSET (0 .. n), T # {}
  PROVE  \E k \in T : \A m \in 0 .. k - 1 : m \notin T
<1> DEFINE Below(k) == 0 .. k - 1
           Sets == {Below(k) : k \in T}
<1>1. Sets \in SUBSET (SUBSET (0 .. n)) /\ Sets # {} /\ IsFiniteSet(0 .. n)
  <2>1. \A k \in T : Below(k) \in SUBSET (0 .. n)
    OBVIOUS
  <2>2. IsFiniteSet(0 .. n)
    <3>1. 0 \in Int /\ n \in Int
      OBVIOUS
    <3> QED
      BY <3>1, FS_Interval
  <2>3. Sets \in SUBSET (SUBSET (0 .. n)) /\ Sets # {}
    BY <2>1
  <2> QED
    BY <2>2, <2>3
<1>2. PICK S \in Sets : \A R \in SUBSET S : R # S => R \notin Sets
  <2> HIDE DEF Sets
  <2> QED
    BY <1>1, Minimal
<1>3. PICK k \in T : S = Below(k)
  OBVIOUS
<1>4. ASSUME NEW m \in 0 .. k - 1, m \in T PROVE FALSE
  <2>1. Below(m) \in Sets /\ Below(m) \subseteq Below(k)
    BY <1>4
  <2>2. m \in Below(k) /\ m \notin Below(m)
    BY <1>4
  <2> HIDE DEF Below, Sets
  <2> QED
    BY <1>2, <1>3, <2>1, <2>2
<1> QED
  BY <1>4

\* A set of numbers up to n that holds 0 and, with each number, the next.
LEMMA UpTo ==
  ASSUME NEW n \in Nat, NEW T, 0 \in T, \A k \in 1 .. n : k - 1 \in T => k \in T
  PROVE  0 .. n \subseteq T
<1> DEFINE Bad == (0 .. n) \ T
<1>1. SUFFICES ASSUME Bad # {} PROVE FALSE
  OBVIOUS
<1>2. PICK k \in Bad : \A m \in 0 .. k - 1 : m \notin Bad
  <2>1. Bad \in SUBSET (0 .. n)
    OBVIOUS
  <2> HIDE DEF Bad
  <2> QED
    BY <1>1, <2>1, Least
<1>3. k \in 0 .. n /\ k # 0
  OBVIOUS
<1>4. k \in 1 .. n /\ k - 1 \in 0 .. k - 1 /\ k - 1 \in 0 .. n
  BY <1>3
<1>5. k - 1 \in T
  BY <1>2, <1>4
<1> QED
  BY <1>4, <1>5

\* A set of numbers up to n has a greatest one, which Max finds.
LEMMA Greatest ==
  ASSUME NEW n \in Nat, NEW T \in SUBSET (0 .. n), T # {}
  PROVE  Max(T) \in T /\ \A m \in T : Max(T) >= m
<1> DEFINE D == {n - x : x \in T}
<1>1. D \in SUBSET (0 .. n) /\ D # {}
  <2>1. \A x \in T : n - x \in 0 .. n
    OBVIOUS
  <2> QED
    BY <2>1
<1>2. PICK d \in D : \A m \in 0 .. d - 1 : m \notin D
  <2> HIDE DEF D
  <2> QED
    BY <1>1, Least
<1>3. PICK x \in T : d = n - x
  OBVIOUS
<1>4. ASSUME NEW m \in T PROVE x >= m
  <2>1. n - m \in D /\ x \in 0 .. n /\ m \in 0 .. n
    BY <1>4
  <2>2. n - m \notin 0 .. d - 1
    BY <1>2, <2>1
  <2> QED
    BY <1>3, <2>1, <2>2
<1>5. \E y \in T : \A m \in T : y >= m
  BY <1>4
<1> QED
  BY <1>5 DEF Max

-----------------------------------------------------------------------------
\* Sums

SumOf(f, S) == MapThenSumSet(LAMBDA k : f[k], S)

Chosen(s) == CHOOSE k \in s : TRUE

\* g adds f up over the subsets of S.
Adds(g, f, S) ==
  g = [s \in SUBSET S |-> IF s = {} THEN 0 ELSE f[Chosen(s)] + g[s \ {Chosen(s)}]]

\* The function the library chooses.
Adder(f, S) == CHOOSE g : Adds(g, f, S)

\* The library's sum is that function's value.
LEMMA SumIsAdder == ASSUME NEW f, NEW S PROVE SumOf(f, S) = Adder(f, S)[S]
  BY DEF SumOf, MapThenSumSet, MapThenFoldSet, Adder, Adds, Chosen

\* Two functions that add up agree where both are defined.
LEMMA AddersAgree ==
  ASSUME NEW D, IsFiniteSet(D), NEW f, NEW T \in SUBSET D, NEW U \in SUBSET D,
         NEW g, NEW h, Adds(g, f, T), Adds(h, f, U), NEW s \in SUBSET (T \cap U)
  PROVE  g[s] = h[s]
<1> DEFINE Bad == {S \in SUBSET (T \cap U) : g[S] # h[S]}
<1>1. SUFFICES ASSUME Bad # {} PROVE FALSE
  OBVIOUS
<1>2. Bad \in SUBSET (SUBSET D)
  OBVIOUS
<1>3. PICK S \in Bad : \A R \in SUBSET S : R # S => R \notin Bad
  <2> HIDE DEF Bad
  <2> QED
    BY <1>1, <1>2, Minimal
<1>4. S \in SUBSET T /\ S \in SUBSET U
  OBVIOUS
<1>5. g[S] = (IF S = {} THEN 0 ELSE f[Chosen(S)] + g[S \ {Chosen(S)}])
  BY <1>4 DEF Adds
<1>6. h[S] = (IF S = {} THEN 0 ELSE f[Chosen(S)] + h[S \ {Chosen(S)}])
  BY <1>4 DEF Adds
<1>7. CASE S = {}
  BY <1>5, <1>6, <1>7
<1>8. CASE S # {}
  <2>1. Chosen(S) \in S
    BY <1>8 DEF Chosen
  <2>2. g[S \ {Chosen(S)}] = h[S \ {Chosen(S)}]
    BY <2>1, <1>3
  <2> QED
    BY <1>5, <1>6, <1>8, <2>2
<1> QED
  BY <1>7, <1>8

\* There is a function that adds up.
LEMMA AdderAdds ==
  ASSUME NEW D, IsFiniteSet(D), NEW f, NEW S \in SUBSET D
  PROVE  Adds(Adder(f, S), f, S)
<1> DEFINE Bad == {T \in SUBSET D : ~ \E g : Adds(g, f, T)}
<1>1. Bad = {}
  <2>1. SUFFICES ASSUME Bad # {} PROVE FALSE
    OBVIOUS
  <2>2. PICK T \in Bad : \A R \in SUBSET T : R # T => R \notin Bad
    <3>1. Bad \in SUBSET (SUBSET D)
      OBVIOUS
    <3> HIDE DEF Bad
    <3> QED
      BY <2>1, <3>1, Minimal
  <2>3. \A R \in SUBSET T : R # T => Adds(Adder(f, R), f, R)
    BY <2>2 DEF Adder
  <2> DEFINE g == [s \in SUBSET T |->
                     IF s # T THEN Adder(f, s)[s]
                     ELSE IF T = {} THEN 0
                     ELSE f[Chosen(T)] + Adder(f, T \ {Chosen(T)})[T \ {Chosen(T)}]]
  <2>4. ASSUME NEW s \in SUBSET T
        PROVE  g[s] = (IF s = {} THEN 0 ELSE f[Chosen(s)] + g[s \ {Chosen(s)}])
    <3>1. CASE s = {}
      <4>1. CASE s = T
        BY <3>1, <4>1
      <4>2. CASE s # T
        BY <2>3, <3>1, <4>2 DEF Adds
      <4> QED
        BY <4>1, <4>2
    <3>2. CASE s # {}
      <4> DEFINE r == s \ {Chosen(s)}
      <4>1. Chosen(s) \in s /\ r \in SUBSET T /\ r # T /\ r # s /\ r \in SUBSET s
        BY <3>2 DEF Chosen
      <4>2. g[r] = Adder(f, r)[r]
        BY <4>1
      <4>3. CASE s = T
        BY <3>2, <4>2, <4>3
      <4>4. CASE s # T
        <5>1. Adds(Adder(f, s), f, s) /\ Adds(Adder(f, r), f, r)
          BY <2>3, <4>1, <4>4
        <5>2. Adder(f, s)[s] = f[Chosen(s)] + Adder(f, s)[r]
          BY <3>2, <5>1 DEF Adds
        <5>3. Adder(f, s)[r] = Adder(f, r)[r]
          <6>1. s \in SUBSET D /\ r \in SUBSET D /\ r \in SUBSET (s \cap r)
            BY <4>1
          <6> HIDE DEF r
          <6> QED
            BY <5>1, <6>1, AddersAgree
        <5> QED
          BY <3>2, <4>2, <4>4, <5>2, <5>3
      <4> QED
        BY <4>3, <4>4
    <3> QED
      BY <3>1, <3>2
  <2>5. Adds(g, f, T)
    BY <2>4 DEF Adds
  <2> QED
    BY <2>5
<1> QED
  BY <1>1 DEF Adder

-----------------------------------------------------------------------------
\* Sums, element by element

LEMMA SumEmpty == ASSUME NEW f PROVE SumOf(f, {}) = 0
<1>1. IsFiniteSet({})
  BY FS_EmptySet
<1>2. Adds(Adder(f, {}), f, {})
  BY <1>1, AdderAdds
<1> QED
  BY <1>2, SumIsAdder DEF Adds

\* The element the library takes out first.
LEMMA SumChosen ==
  ASSUME NEW S, IsFiniteSet(S), NEW f, S # {}
  PROVE  SumOf(f, S) = f[Chosen(S)] + SumOf(f, S \ {Chosen(S)})
<1> DEFINE R == S \ {Chosen(S)}
<1>1. Adds(Adder(f, S), f, S) /\ Adds(Adder(f, R), f, R)
  BY AdderAdds
<1>2. Adder(f, S)[S] = f[Chosen(S)] + Adder(f, S)[R]
  BY <1>1 DEF Adds
<1>3. Adder(f, S)[R] = Adder(f, R)[R]
  <2>1. R \in SUBSET S /\ R \in SUBSET (S \cap R)
    OBVIOUS
  <2> HIDE DEF R
  <2> QED
    BY <1>1, <2>1, AddersAgree
<1> QED
  BY <1>2, <1>3, SumIsAdder

\* Part of a finite set.
LEMMA FinitePart == ASSUME NEW S, IsFiniteSet(S), NEW T \in SUBSET S PROVE IsFiniteSet(T)
  BY FS_Subset

\* The sum of numbers is a number.
LEMMA SumType ==
  ASSUME NEW S, IsFiniteSet(S), NEW f, \A k \in S : f[k] \in Nat
  PROVE  SumOf(f, S) \in Nat
<1> DEFINE Bad == {T \in SUBSET S : SumOf(f, T) \notin Nat}
<1>1. SUFFICES ASSUME Bad # {} PROVE FALSE
  OBVIOUS
<1>2. PICK T \in Bad : \A R \in SUBSET T : R # T => R \notin Bad
  <2>1. Bad \in SUBSET (SUBSET S)
    OBVIOUS
  <2> HIDE DEF Bad
  <2> QED
    BY <1>1, <2>1, Minimal
<1>3. T # {}
  BY SumEmpty
<1>4. Chosen(T) \in T /\ IsFiniteSet(T)
  BY <1>3, FinitePart DEF Chosen
<1>5. SumOf(f, T \ {Chosen(T)}) \in Nat
  BY <1>2, <1>4
<1>6. f[Chosen(T)] \in Nat
  BY <1>4
<1> QED
  BY <1>3, <1>4, <1>5, <1>6, SumChosen

\* Any element may be taken out first.
LEMMA SumElement ==
  ASSUME NEW S, IsFiniteSet(S), NEW f, \A k \in S : f[k] \in Nat, NEW k \in S
  PROVE  SumOf(f, S) = f[k] + SumOf(f, S \ {k})
<1> DEFINE Fine(T) == \A j \in T : SumOf(f, T) = f[j] + SumOf(f, T \ {j})
           Bad == {T \in SUBSET S : ~Fine(T)}
<1>1. SUFFICES ASSUME Bad # {} PROVE FALSE
  OBVIOUS
<1>2. PICK T \in Bad : \A R \in SUBSET T : R # T => R \notin Bad
  <2>1. Bad \in SUBSET (SUBSET S)
    OBVIOUS
  <2> HIDE DEF Bad
  <2> QED
    BY <1>1, <2>1, Minimal
<1>3. PICK j \in T : SumOf(f, T) # f[j] + SumOf(f, T \ {j})
  BY <1>2
<1> DEFINE i == Chosen(T)
           R == (T \ {i}) \ {j}
<1>4. i \in T /\ IsFiniteSet(T) /\ T # {}
  BY <1>3, FinitePart DEF Chosen
<1>5. SumOf(f, T) = f[i] + SumOf(f, T \ {i})
  BY <1>4, SumChosen
<1>6. i # j
  BY <1>3, <1>5
<1>7. SumOf(f, T \ {i}) = f[j] + SumOf(f, R)
  <2>1. T \ {i} \in SUBSET T /\ T \ {i} # T /\ j \in T \ {i}
    BY <1>4, <1>6
  <2>2. Fine(T \ {i})
    BY <1>2, <2>1
  <2> QED
    BY <2>1, <2>2
<1>8. SumOf(f, T \ {j}) = f[i] + SumOf(f, R)
  <2>1. T \ {j} \in SUBSET T /\ T \ {j} # T /\ i \in T \ {j} /\ (T \ {j}) \ {i} = R
    BY <1>4, <1>6
  <2>2. Fine(T \ {j})
    BY <1>2, <2>1
  <2> QED
    BY <2>1, <2>2
<1>9. SumOf(f, R) \in Nat /\ f[i] \in Nat /\ f[j] \in Nat
  <2>1. IsFiniteSet(R) /\ \A m \in R : f[m] \in Nat
    BY FinitePart
  <2>2. i \in S /\ j \in S
    BY <1>4
  <2> HIDE DEF R
  <2> QED
    BY <2>1, <2>2, SumType
<1> QED
  BY <1>3, <1>5, <1>7, <1>8, <1>9

\* The sum of one number.
LEMMA SumOne == ASSUME NEW f, NEW k, f[k] \in Nat PROVE SumOf(f, {k}) = f[k]
<1>1. IsFiniteSet({k}) /\ {k} \ {k} = {}
  BY FS_Singleton
<1>2. SumOf(f, {k}) = f[k] + SumOf(f, {k} \ {k})
  BY <1>1, SumElement
<1> QED
  BY <1>1, <1>2, SumEmpty

\* What two sets have apart adds up.
LEMMA SumUnion ==
  ASSUME NEW D, IsFiniteSet(D), NEW f, \A k \in D : f[k] \in Nat,
         NEW S \in SUBSET D, NEW U \in SUBSET D, S \cap U = {}
  PROVE  SumOf(f, S \cup U) = SumOf(f, S) + SumOf(f, U)
<1> DEFINE Bad == {T \in SUBSET D : S \cap T = {} /\ SumOf(f, S \cup T) # SumOf(f, S) + SumOf(f, T)}
<1>1. SUFFICES ASSUME Bad # {} PROVE FALSE
  OBVIOUS
<1>2. PICK T \in Bad : \A R \in SUBSET T : R # T => R \notin Bad
  <2>1. Bad \in SUBSET (SUBSET D)
    OBVIOUS
  <2> HIDE DEF Bad
  <2> QED
    BY <1>1, <2>1, Minimal
<1>3. \A R \in SUBSET D : SumOf(f, R) \in Nat
  <2> TAKE R \in SUBSET D
  <2>1. IsFiniteSet(R) /\ \A k \in R : f[k] \in Nat
    BY FinitePart
  <2> QED
    BY <2>1, SumType
<1>4. CASE T = {}
  BY <1>3, <1>4, SumEmpty
<1>5. CASE T # {}
  <2>1. PICK k \in T : TRUE
    BY <1>5
  <2> DEFINE R == T \ {k}
  <2>2. R \in SUBSET T /\ R # T /\ S \cap R = {} /\ (S \cup T) \ {k} = S \cup R
    OBVIOUS
  <2>3. SumOf(f, S \cup R) = SumOf(f, S) + SumOf(f, R)
    BY <1>2, <2>2
  <2>4. \A V \in SUBSET D : k \in V => SumOf(f, V) = f[k] + SumOf(f, V \ {k})
    <3> TAKE V \in SUBSET D
    <3>1. IsFiniteSet(V) /\ \A m \in V : f[m] \in Nat
      BY FinitePart
    <3> QED
      BY <3>1, SumElement
  <2>5. SumOf(f, T) = f[k] + SumOf(f, R)
    BY <2>4
  <2>6. SumOf(f, S \cup T) = f[k] + SumOf(f, S \cup R)
    <3>1. S \cup T \in SUBSET D /\ k \in S \cup T
      OBVIOUS
    <3>2. SumOf(f, S \cup T) = f[k] + SumOf(f, (S \cup T) \ {k})
      BY <2>4, <3>1
    <3> QED
      BY <2>2, <3>2
  <2>7. SumOf(f, R) \in Nat /\ f[k] \in Nat
    <3>1. R \in SUBSET D /\ k \in D
      OBVIOUS
    <3> QED
      BY <1>3, <3>1
  <2> QED
    BY <1>3, <2>3, <2>5, <2>6, <2>7
<1> QED
  BY <1>4, <1>5

\* A part is no larger than the whole, which is it and the rest.
LEMMA SumPart ==
  ASSUME NEW S, IsFiniteSet(S), NEW f, \A k \in S : f[k] \in Nat, NEW T \in SUBSET S
  PROVE  /\ SumOf(f, S \ T) = SumOf(f, S) - SumOf(f, T)
         /\ SumOf(f, T) <= SumOf(f, S)
<1>1. (S \ T) \cup T = S /\ S \ T \in SUBSET S /\ (S \ T) \cap T = {}
  OBVIOUS
<1>2. SumOf(f, S) = SumOf(f, S \ T) + SumOf(f, T)
  BY <1>1, SumUnion
<1>3. /\ IsFiniteSet(T) /\ IsFiniteSet(S \ T)
      /\ \A k \in T : f[k] \in Nat /\ \A m \in S \ T : f[m] \in Nat
  BY FinitePart
<1>4. SumOf(f, T) \in Nat /\ SumOf(f, S \ T) \in Nat
  BY <1>3, SumType
<1> QED
  BY <1>2, <1>4

\* Functions that agree on a set have one sum over it.
LEMMA SumAgrees ==
  ASSUME NEW S, IsFiniteSet(S), NEW f, NEW g, \A k \in S : f[k] = g[k]
  PROVE  SumOf(f, S) = SumOf(g, S)
<1> DEFINE Bad == {T \in SUBSET S : SumOf(f, T) # SumOf(g, T)}
<1>1. SUFFICES ASSUME Bad # {} PROVE FALSE
  OBVIOUS
<1>2. PICK T \in Bad : \A R \in SUBSET T : R # T => R \notin Bad
  <2>1. Bad \in SUBSET (SUBSET S)
    OBVIOUS
  <2> HIDE DEF Bad
  <2> QED
    BY <1>1, <2>1, Minimal
<1>3. T # {}
  BY SumEmpty
<1>4. Chosen(T) \in T /\ IsFiniteSet(T)
  BY <1>3, FinitePart DEF Chosen
<1>5. SumOf(f, T \ {Chosen(T)}) = SumOf(g, T \ {Chosen(T)})
  BY <1>2, <1>4
<1>6. f[Chosen(T)] = g[Chosen(T)]
  BY <1>4
<1> QED
  BY <1>3, <1>4, <1>5, <1>6, SumChosen
=============================================================================
