----------------------------- MODULE ItemProofs -----------------------------
(***************************************************************************)
(* Proofs about Kit and Shop, which both count items: for any ids, prices, *)
(* capacities, orders of requests and players, nothing a player owns is    *)
(* doubled or lost but at a limit, what is worn is what is shown, a death  *)
(* spares the dearest items, and, as long as no two trades overlap, what a *)
(* shop lists and what players hold add up, and trading makes nobody rich. *)
(*                                                                         *)
(* The amounts are sums over entries, pieces or players, folds of the      *)
(* library.  That a sum is well defined, and follows a change of one       *)
(* summand, is an induction over subsets, made here by looking at a        *)
(* smallest subset for which it would fail: the order of finite subsets is *)
(* well founded.                                                           *)
(***************************************************************************)
EXTENDS Kit, Shop, SequenceTheorems, FiniteSetTheorems, TLAPS

-----------------------------------------------------------------------------
(* Sums. *)

(* The definition of MapThenFoldSet, unfolded for a sum: h adds up f over every
   subset of S, one element after the other. *)
Pick(s) == CHOOSE x \in s : TRUE
Adds(f, S, h) == h = [s \in SUBSET S |-> IF s = {} THEN 0 ELSE f[Pick(s)] + h[s \ {Pick(s)}]]
Adder(f, S) == CHOOSE h : Adds(f, S, h)

LEMMA SumIs ==
  ASSUME NEW f, NEW S
  PROVE  SumFunctionOnSet(f, S) = Adder(f, S)[S]
BY DEF SumFunctionOnSet, FoldFunctionOnSet, MapThenFoldSet, Adder, Adds, Pick

(* Among subsets of a finite set there is always one none of whose own subsets
   is among them. *)
LEMMA SubsetMin ==
  ASSUME NEW S, IsFiniteSet(S), NEW B \in SUBSET (SUBSET S), B # {}
  PROVE  \E T \in B : \A U \in SUBSET T : U # T => U \notin B
<1>1. IsWellFoundedOn(StrictSubsetOrdering(S), SUBSET S)
  BY FS_StrictSubsetOrderingWellFounded, FS_FiniteSubsetsOfFinite
<1>2. PICK T \in B : \A U \in B : ~(<<U, T>> \in StrictSubsetOrdering(S))
  BY <1>1, WFMin
<1>3. ASSUME NEW U \in SUBSET T, U # T PROVE U \notin B
  BY <1>2, <1>3 DEF StrictSubsetOrdering
<1> QED BY <1>3

LEMMA Picked ==
  ASSUME NEW s, s # {}
  PROVE  Pick(s) \in s
BY DEF Pick

LEMMA AddsStep ==
  ASSUME NEW f, NEW S, NEW h, Adds(f, S, h), NEW s \in SUBSET S
  PROVE  /\ s = {} => h[s] = 0
         /\ s # {} => h[s] = f[Pick(s)] + h[s \ {Pick(s)}]
<1>1. h = [t \in SUBSET S |-> IF t = {} THEN 0 ELSE f[Pick(t)] + h[t \ {Pick(t)}]]
  BY DEF Adds
<1> QED BY <1>1

(* Two such functions agree where both are defined, ... *)
LEMMA AddersAgree ==
  ASSUME NEW f, NEW S, IsFiniteSet(S), NEW U \in SUBSET S, NEW V \in SUBSET S,
         NEW g, NEW h, Adds(f, U, g), Adds(f, V, h), NEW s \in SUBSET (U \cap V)
  PROVE  g[s] = h[s]
<1> DEFINE B == {t \in SUBSET (U \cap V) : g[t] # h[t]}
<1> SUFFICES ASSUME B # {} PROVE FALSE
  OBVIOUS
<1>1. IsFiniteSet(U \cap V) /\ B \in SUBSET (SUBSET (U \cap V))
  BY FS_Subset
<1>2. PICK T \in B : \A W \in SUBSET T : W # T => W \notin B
  <2> HIDE DEF B
  <2> QED BY <1>1, SubsetMin
<1>3. T \in SUBSET U /\ T \in SUBSET V /\ g[T] # h[T]
  BY <1>2
<1>4. T # {}
  <2>1. T = {} => g[T] = 0
    BY <1>3, AddsStep
  <2>2. T = {} => h[T] = 0
    BY <1>3, AddsStep
  <2> QED BY <1>3, <2>1, <2>2
<1>5. Pick(T) \in T /\ T \ {Pick(T)} \in SUBSET (U \cap V) /\ T \ {Pick(T)} # T
  BY <1>3, <1>4, Picked
<1>6. g[T \ {Pick(T)}] = h[T \ {Pick(T)}]
  BY <1>2, <1>5
<1> QED BY <1>3, <1>4, <1>6, AddsStep

(* ... and there is one: on a smallest subset T without one, it is put together
   from those of the subsets of T. *)
LEMMA AdderExists ==
  ASSUME NEW f, NEW S, IsFiniteSet(S)
  PROVE  Adds(f, S, Adder(f, S))
<1> DEFINE B == {U \in SUBSET S : ~ \E h : Adds(f, U, h)}
<1>1. ASSUME B # {} PROVE FALSE
  <2>1. PICK T \in B : \A U \in SUBSET T : U # T => U \notin B
    <3>1. B \in SUBSET (SUBSET S)
      OBVIOUS
    <3> HIDE DEF B
    <3> QED BY <1>1, <3>1, SubsetMin
  <2>2. T \in SUBSET S /\ ~ \E h : Adds(f, T, h)
    BY <2>1
  <2>3. \A U \in SUBSET T : U # T => Adds(f, U, Adder(f, U))
    <3>1. \A U \in SUBSET T : U # T => \E h : Adds(f, U, h)
      BY <2>1, <2>2
    <3> QED BY <3>1 DEF Adder
  <2> DEFINE p == Pick(T)
             Rest(s) == s \ {Pick(s)}
             h == [s \in SUBSET T |-> IF s = {} THEN 0 ELSE f[Pick(s)] + Adder(f, Rest(s))[Rest(s)]]
  <2>4. \A s \in SUBSET T : s # {} => Pick(s) \in s /\ Rest(s) \in SUBSET T /\ Rest(s) # T
    BY Picked
  <2>5. ASSUME NEW s \in SUBSET T, s # {}
        PROVE  h[Rest(s)] = Adder(f, Rest(s))[Rest(s)]
    <3> DEFINE r == Rest(s)
    <3>1. r \in SUBSET T /\ r # T
      BY <2>4, <2>5
    <3>2. Adds(f, r, Adder(f, r))
      BY <2>3, <3>1
    <3>3. CASE r = {}
      <4>1. Adder(f, r)[r] = 0
        BY <3>2, <3>3, AddsStep
      <4> QED BY <3>1, <3>3, <4>1
    <3>4. CASE r # {}
      <4>1. Rest(r) \in SUBSET T /\ Rest(r) # T /\ Rest(r) \in SUBSET r
        BY <2>4, <3>1, <3>4
      <4>2. Adds(f, Rest(r), Adder(f, Rest(r)))
        BY <2>3, <4>1
      <4>3. Adder(f, Rest(r))[Rest(r)] = Adder(f, r)[Rest(r)]
        <5> DEFINE q == Rest(r)
        <5>1. q \in SUBSET S /\ r \in SUBSET S /\ q \in SUBSET (q \cap r)
          BY <2>2, <3>1, <4>1
        <5>2. Adds(f, q, Adder(f, q))
          BY <4>2
        <5> HIDE DEF q, r
        <5>3. Adder(f, q)[q] = Adder(f, r)[q]
          BY <3>2, <5>1, <5>2, AddersAgree
        <5> QED BY <5>3 DEF q
      <4>4. Adder(f, r)[r] = f[Pick(r)] + Adder(f, r)[Rest(r)]
        <5>1. r \in SUBSET r
          OBVIOUS
        <5> HIDE DEF r
        <5> QED BY <3>2, <3>4, <5>1, AddsStep
      <4>5. h[r] = f[Pick(r)] + Adder(f, Rest(r))[Rest(r)]
        BY <3>1, <3>4
      <4> QED BY <4>3, <4>4, <4>5
    <3> QED BY <3>3, <3>4
  <2>6. Adds(f, T, h)
    <3>1. \A s \in SUBSET T : h[s] = IF s = {} THEN 0 ELSE f[Pick(s)] + h[s \ {Pick(s)}]
      BY <2>5
    <3> DEFINE k == [s \in SUBSET T |-> IF s = {} THEN 0 ELSE f[Pick(s)] + h[s \ {Pick(s)}]]
    <3>2. \A s \in SUBSET T : h[s] = k[s]
      <4> HIDE DEF h
      <4> QED BY <3>1
    <3>3. h = k
      BY <3>2
    <3> HIDE DEF h
    <3> QED BY <3>3 DEF Adds
  <2> QED BY <2>2, <2>6
<1>2. \E h : Adds(f, S, h)
  BY <1>1
<1> QED BY <1>2 DEF Adder

(* From here on Adder is used only through these two facts. *)
LEMMA AdderEmpty ==
  ASSUME NEW f, NEW S, IsFiniteSet(S)
  PROVE  Adder(f, S)[{}] = 0
<1> DEFINE A == Adder(f, S)
<1>1. Adds(f, S, A) /\ {} \in SUBSET S
  BY AdderExists
<1> HIDE DEF A
<1>2. A[{}] = 0
  BY <1>1, AddsStep
<1> QED BY <1>2 DEF A

LEMMA AdderStep ==
  ASSUME NEW f, NEW S, IsFiniteSet(S), NEW s \in SUBSET S, s # {}
  PROVE  Adder(f, S)[s] = f[Pick(s)] + Adder(f, S)[s \ {Pick(s)}]
<1> DEFINE A == Adder(f, S)
<1>1. Adds(f, S, A)
  BY AdderExists
<1> HIDE DEF A
<1>2. A[s] = f[Pick(s)] + A[s \ {Pick(s)}]
  BY <1>1, AddsStep
<1> QED BY <1>2 DEF A

LEMMA AdderType ==
  ASSUME NEW f, NEW S, IsFiniteSet(S), \A k \in S : f[k] \in Int, NEW s \in SUBSET S
  PROVE  Adder(f, S)[s] \in Int
<1> DEFINE B == {t \in SUBSET S : Adder(f, S)[t] \notin Int}
<1> SUFFICES ASSUME B # {} PROVE FALSE
  OBVIOUS
<1>1. PICK T \in B : \A W \in SUBSET T : W # T => W \notin B
  <2>1. B \in SUBSET (SUBSET S)
    OBVIOUS
  <2> HIDE DEF B
  <2> QED BY <2>1, SubsetMin
<1>2. T \in SUBSET S /\ Adder(f, S)[T] \notin Int
  BY <1>1
<1>3. T # {}
  BY <1>2, AdderEmpty
<1>4. Pick(T) \in T /\ T \ {Pick(T)} # T
  BY <1>3, Picked
<1>5. Adder(f, S)[T \ {Pick(T)}] \in Int
  BY <1>1, <1>2, <1>4
<1>6. Adder(f, S)[T] = f[Pick(T)] + Adder(f, S)[T \ {Pick(T)}]
  <2>1. T \in SUBSET S /\ T # {} /\ IsFiniteSet(S)
    BY <1>2, <1>3
  <2> QED BY ONLY <2>1, AdderStep
<1> QED BY <1>2, <1>4, <1>5, <1>6

(* The order of the elements does not matter. *)
LEMMA AnyFirst ==
  ASSUME NEW f, NEW S, IsFiniteSet(S), \A k \in S : f[k] \in Int, NEW s \in SUBSET S, NEW x \in s
  PROVE  Adder(f, S)[s] = f[x] + Adder(f, S)[s \ {x}]
<1> DEFINE A == Adder(f, S)
           B == {t \in SUBSET S : \E y \in t : A[t] # f[y] + A[t \ {y}]}
<1> SUFFICES ASSUME B # {} PROVE FALSE
  OBVIOUS
<1>1. PICK T \in B : \A W \in SUBSET T : W # T => W \notin B
  <2>1. B \in SUBSET (SUBSET S)
    OBVIOUS
  <2> HIDE DEF B
  <2> QED BY <2>1, SubsetMin
<1>2. PICK y \in T : A[T] # f[y] + A[T \ {y}]
  BY <1>1
<1>3. T \in SUBSET S /\ T # {}
  BY <1>1, <1>2
<1> DEFINE p == Pick(T)
<1>4. p \in T
  BY <1>3, Picked
<1>5. A[T] = f[p] + A[T \ {p}]
  BY <1>3, AdderStep
<1>6. p # y
  BY <1>2, <1>5
<1>7. A[T \ {p}] = f[y] + A[(T \ {p}) \ {y}] /\ A[T \ {y}] = f[p] + A[(T \ {y}) \ {p}]
  <2>1. T \ {p} \in SUBSET T /\ T \ {p} # T /\ y \in T \ {p}
    BY <1>2, <1>4, <1>6
  <2>2. T \ {y} \in SUBSET T /\ T \ {y} # T /\ p \in T \ {y}
    BY <1>2, <1>4, <1>6
  <2>3. T \ {p} \notin B /\ T \ {y} \notin B
    BY <1>1, <2>1, <2>2
  <2> HIDE DEF A, p
  <2> QED BY <1>3, <2>1, <2>2, <2>3
<1>8. (T \ {p}) \ {y} = (T \ {y}) \ {p}
  OBVIOUS
<1>9. A[(T \ {p}) \ {y}] \in Int /\ f[p] \in Int /\ f[y] \in Int
  <2>1. (T \ {p}) \ {y} \in SUBSET S
    BY <1>3
  <2> HIDE DEF p
  <2> QED BY <1>2, <1>3, <1>4, <2>1, AdderType
<1> QED
  <2> DEFINE z == A[(T \ {p}) \ {y}]  a == f[p]  b == f[y]
  <2>1. A[T] = a + (b + z)
    BY <1>5, <1>7
  <2>2. A[T \ {y}] = a + z
    BY <1>7, <1>8
  <2>3. z \in Int /\ a \in Int /\ b \in Int /\ A[T] # b + A[T \ {y}]
    BY <1>2, <1>9
  <2> HIDE DEF A, p, z, a, b
  <2> QED BY <2>1, <2>2, <2>3

(* A sum over s depends on what is in s only. *)
LEMMA SameAdder ==
  ASSUME NEW f, NEW g, NEW S, IsFiniteSet(S), NEW s \in SUBSET S, \A k \in s : f[k] = g[k]
  PROVE  Adder(f, S)[s] = Adder(g, S)[s]
<1> DEFINE B == {t \in SUBSET s : Adder(f, S)[t] # Adder(g, S)[t]}
<1> SUFFICES ASSUME B # {} PROVE FALSE
  OBVIOUS
<1>1. PICK T \in B : \A W \in SUBSET T : W # T => W \notin B
  <2>1. B \in SUBSET (SUBSET S)
    OBVIOUS
  <2> HIDE DEF B
  <2> QED BY <2>1, SubsetMin
<1>2. T \in SUBSET s /\ T \in SUBSET S /\ Adder(f, S)[T] # Adder(g, S)[T]
  BY <1>1
<1>3. T # {}
  BY <1>2, AdderEmpty
<1>4. Pick(T) \in T /\ T \ {Pick(T)} # T
  BY <1>3, Picked
<1>5. Adder(f, S)[T \ {Pick(T)}] = Adder(g, S)[T \ {Pick(T)}]
  BY <1>1, <1>2, <1>4
<1>6. f[Pick(T)] = g[Pick(T)]
  BY <1>2, <1>4
<1>7. /\ Adder(f, S)[T] = f[Pick(T)] + Adder(f, S)[T \ {Pick(T)}]
      /\ Adder(g, S)[T] = g[Pick(T)] + Adder(g, S)[T \ {Pick(T)}]
  <2>1. T \in SUBSET S /\ T # {} /\ IsFiniteSet(S)
    BY <1>2, <1>3
  <2> QED BY ONLY <2>1, AdderStep
<1> QED BY <1>2, <1>5, <1>6, <1>7

-----------------------------------------------------------------------------
(* What is used of sums: SumFunctionOnSet(f, S) adds up f over S. *)

LEMMA SumOfNone ==
  ASSUME NEW f
  PROVE  SumFunctionOnSet(f, {}) = 0
BY SumIs, AdderEmpty, FS_EmptySet

LEMMA SumInt ==
  ASSUME NEW S, IsFiniteSet(S), NEW f, \A k \in S : f[k] \in Int
  PROVE  SumFunctionOnSet(f, S) \in Int
BY SumIs, AdderType

LEMMA SumSame ==
  ASSUME NEW S, IsFiniteSet(S), NEW f, NEW g, \A k \in S : f[k] = g[k]
  PROVE  SumFunctionOnSet(f, S) = SumFunctionOnSet(g, S)
BY SumIs, SameAdder

(* One element more. *)
LEMMA SumOneMore ==
  ASSUME NEW S, IsFiniteSet(S), NEW f, \A k \in S : f[k] \in Int, NEW x \in S
  PROVE  /\ SumFunctionOnSet(f, S) = f[x] + SumFunctionOnSet(f, S \ {x})
         /\ SumFunctionOnSet(f, S \ {x}) \in Int
<1> DEFINE R == S \ {x}
<1>1. IsFiniteSet(R) /\ R \in SUBSET S /\ S \in SUBSET S /\ R \in SUBSET (S \cap R)
  BY FS_Subset
<1>2. Adder(f, S)[S] = f[x] + Adder(f, S)[R]
  BY <1>1, AnyFirst
<1>3. Adds(f, S, Adder(f, S)) /\ Adds(f, R, Adder(f, R))
  <2> HIDE DEF R
  <2> QED BY <1>1, AdderExists
<1>4. Adder(f, S)[R] = Adder(f, R)[R]
  <2> HIDE DEF R
  <2> QED BY <1>1, <1>3, AddersAgree
<1>5. Adder(f, R)[R] \in Int
  <2>1. \A k \in R : f[k] \in Int
    OBVIOUS
  <2> HIDE DEF R
  <2> QED BY <1>1, <2>1, AdderType
<1> HIDE DEF R
<1>6. SumFunctionOnSet(f, S) = Adder(f, S)[S] /\ SumFunctionOnSet(f, R) = Adder(f, R)[R]
  BY SumIs
<1>7. SumFunctionOnSet(f, S) = f[x] + SumFunctionOnSet(f, R) /\ SumFunctionOnSet(f, R) \in Int
  BY <1>2, <1>4, <1>5, <1>6
<1> QED BY <1>7 DEF R

(* What holds of the empty set, and of a set when it holds of the set without
   one of its elements, holds of a finite set: B are the sets it does not hold of. *)
LEMMA SetInduction ==
  ASSUME NEW S, IsFiniteSet(S), NEW B, {} \notin B,
         \A T \in SUBSET S : T \in B => \E x \in T : T \ {x} \in B
  PROVE  S \notin B
<1> SUFFICES ASSUME S \in B PROVE FALSE
  OBVIOUS
<1> DEFINE D == {T \in SUBSET S : T \in B}
<1>1. PICK T \in D : \A U \in SUBSET T : U # T => U \notin D
  <2>1. D \in SUBSET (SUBSET S) /\ D # {}
    OBVIOUS
  <2> HIDE DEF D
  <2> QED BY <2>1, SubsetMin
<1>2. PICK x \in T : T \ {x} \in B
  BY <1>1
<1> QED BY <1>1, <1>2

(* Two parts. *)
LEMMA SumSplit ==
  ASSUME NEW S, IsFiniteSet(S), NEW f, \A k \in S : f[k] \in Int, NEW T \in SUBSET S
  PROVE  /\ SumFunctionOnSet(f, S) = SumFunctionOnSet(f, T) + SumFunctionOnSet(f, S \ T)
         /\ SumFunctionOnSet(f, T) \in Int /\ SumFunctionOnSet(f, S \ T) \in Int
<1> DEFINE Z(U) == SumFunctionOnSet(f, U)
           B == {U \in SUBSET S : Z(S) # Z(U) + Z(S \ U)}
<1>1. ASSUME NEW U \in SUBSET S PROVE IsFiniteSet(U) /\ Z(U) \in Int
  <2>1. IsFiniteSet(U) /\ \A k \in U : f[k] \in Int
    BY FS_Subset
  <2> QED BY <2>1, SumInt
<1>2. {} \notin B
  <2>1. Z({}) = 0 /\ S \ {} = S
    BY SumOfNone
  <2>2. Z(S) \in Int
    BY <1>1
  <2> HIDE DEF Z
  <2> QED BY <2>1, <2>2
<1>3. ASSUME NEW U \in SUBSET T, U \in B
      PROVE  \E x \in U : U \ {x} \in B
  <2>1. U # {}
    BY <1>2, <1>3
  <2>2. PICK x \in U : TRUE
    BY <2>1
  <2>3. Z(U) = f[x] + Z(U \ {x}) /\ Z(U \ {x}) \in Int
    <3>1. IsFiniteSet(U) /\ \A k \in U : f[k] \in Int
      BY <1>1
    <3> QED BY <3>1, <2>2, SumOneMore
  <2>4. Z(S \ (U \ {x})) = f[x] + Z(S \ U) /\ Z(S \ U) \in Int
    <3> DEFINE V == S \ (U \ {x})
    <3>1. IsFiniteSet(V) /\ x \in V /\ V \ {x} = S \ U /\ \A k \in V : f[k] \in Int
      BY <1>1, <1>3
    <3> HIDE DEF V
    <3>2. Z(V) = f[x] + Z(V \ {x}) /\ Z(V \ {x}) \in Int
      BY <3>1, SumOneMore
    <3>3. Z(V) = f[x] + Z(S \ U) /\ Z(S \ U) \in Int
      BY <3>1, <3>2
    <3> QED BY <3>3 DEF V
  <2>5. f[x] \in Int /\ U \ {x} \in SUBSET S
    BY <2>2
  <2>6. Z(S) # Z(U) + Z(S \ U)
    BY <1>3
  <2> HIDE DEF Z
  <2>7. Z(S) # Z(U \ {x}) + Z(S \ (U \ {x}))
    BY <2>3, <2>4, <2>5, <2>6
  <2> QED BY <2>5, <2>7
<1>4. T \notin B
  <2>1. IsFiniteSet(T) /\ \A U \in SUBSET T : U \in B => \E x \in U : U \ {x} \in B
    BY <1>1, <1>3
  <2> HIDE DEF B
  <2> QED BY <1>2, <2>1, SetInduction
<1>5. Z(T) \in Int /\ Z(S \ T) \in Int
  <2>1. T \in SUBSET S /\ S \ T \in SUBSET S
    OBVIOUS
  <2> HIDE DEF Z
  <2> QED BY <1>1, <2>1
<1> QED BY <1>4, <1>5

LEMMA ImageFinite ==
  ASSUME NEW S, IsFiniteSet(S), NEW h
  PROVE  /\ IsFiniteSet({h[k] : k \in S})
         /\ (\A a, b \in S : h[a] = h[b] => a = b) => Cardinality({h[k] : k \in S}) = Cardinality(S)
<1> DEFINE T == {h[k] : k \in S}
           m == [k \in S |-> h[k]]
<1>1. m \in Surjection(S, T)
  BY DEF Surjection
<1>2. (\A a, b \in S : h[a] = h[b] => a = b) => m \in Injection(S, T)
  BY DEF Injection, IsInjective
<1> HIDE DEF m, T
<1>3. IsFiniteSet(T) /\ (m \in Injection(S, T) => Cardinality(T) = Cardinality(S))
  BY <1>1, FS_Surjection
<1> QED BY <1>2, <1>3 DEF T

(* The same summands under other indices. *)
LEMMA SumMapped ==
  ASSUME NEW S, IsFiniteSet(S), NEW T, NEW h \in Bijection(S, T), NEW f, NEW g,
         \A k \in S : f[k] \in Int /\ f[k] = g[h[k]]
  PROVE  SumFunctionOnSet(f, S) = SumFunctionOnSet(g, T)
<1>0. (\A a, b \in S : h[a] = h[b] => a = b) /\ T = {h[k] : k \in S}
  BY DEF Bijection, Injection, Surjection, IsInjective
<1> DEFINE To(U) == {h[k] : k \in U}
           Y(U) == SumFunctionOnSet(f, U)
           Z(U) == SumFunctionOnSet(g, To(U))
           B == {U \in SUBSET S : Y(U) # Z(U)}
<1>1. {} \notin B
  <2>1. To({}) = {}
    OBVIOUS
  <2>2. Y({}) = 0 /\ SumFunctionOnSet(g, {}) = 0
    BY SumOfNone
  <2>3. Z({}) = 0
    <3> HIDE DEF To
    <3> QED BY <2>1, <2>2
  <2> HIDE DEF Y, Z
  <2> QED BY <2>2, <2>3
<1>2. ASSUME NEW U \in SUBSET S, U \in B
      PROVE  \E x \in U : U \ {x} \in B
  <2>1. U # {} /\ Y(U) # Z(U)
    BY <1>1, <1>2
  <2>2. PICK x \in U : TRUE
    BY <2>1
  <2>3. Y(U) = f[x] + Y(U \ {x})
    <3>1. IsFiniteSet(U) /\ \A k \in U : f[k] \in Int
      BY FS_Subset
    <3> QED BY <2>2, <3>1, SumOneMore
  <2>4. Z(U) = f[x] + Z(U \ {x})
    <3> DEFINE V == To(U)
    <3>1. IsFiniteSet(V) /\ h[x] \in V /\ \A k \in V : g[k] \in Int
      <4>1. IsFiniteSet(U)
        BY FS_Subset
      <4>2. IsFiniteSet(V)
        BY <4>1, ImageFinite
      <4>3. \A u \in U : g[h[u]] \in Int
        OBVIOUS
      <4>4. h[x] \in V /\ \A k \in V : g[k] \in Int
        BY <2>2, <4>3
      <4> QED BY <4>2, <4>4
    <3>2. V \ {h[x]} = To(U \ {x})
      BY <1>0, <2>2
    <3>3. g[h[x]] = f[x]
      BY <2>2
    <3> HIDE DEF V
    <3>4. SumFunctionOnSet(g, V) = g[h[x]] + SumFunctionOnSet(g, V \ {h[x]})
      BY <3>1, SumOneMore
    <3>5. SumFunctionOnSet(g, V) = f[x] + SumFunctionOnSet(g, To(U \ {x}))
      BY <3>2, <3>3, <3>4
    <3> QED BY <3>5 DEF V
  <2>5. Y(U \ {x}) # Z(U \ {x})
    <3> HIDE DEF Y, Z
    <3> QED BY <2>1, <2>3, <2>4
  <2> HIDE DEF Y, Z
  <2> QED BY <2>5
<1>3. S \notin B
  <2>1. \A U \in SUBSET S : U \in B => \E x \in U : U \ {x} \in B
    BY <1>2
  <2> HIDE DEF B
  <2> QED BY <1>1, <2>1, SetInduction
<1>4. Y(S) = Z(S)
  <2> HIDE DEF Y, Z
  <2> QED BY <1>3
<1>5. To(S) = T
  BY <1>0
<1> QED
  <2> HIDE DEF To
  <2> QED BY <1>4, <1>5

(* Equal summands. *)
LEMMA SumOfEqual ==
  ASSUME NEW S, IsFiniteSet(S), NEW c \in Int, NEW f, \A k \in S : f[k] = c
  PROVE  SumFunctionOnSet(f, S) = Cardinality(S) * c
<1> DEFINE Z(U) == SumFunctionOnSet(f, U)
           B == {U \in SUBSET S : Z(U) # Cardinality(U) * c}
<1>1. {} \notin B
  <2>1. Z({}) = 0 /\ Cardinality({}) = 0 /\ 0 * c = 0
    BY SumOfNone, FS_EmptySet
  <2> HIDE DEF Z
  <2> QED BY <2>1
<1>2. ASSUME NEW U \in SUBSET S, U \in B
      PROVE  \E x \in U : U \ {x} \in B
  <2>1. U # {} /\ Z(U) # Cardinality(U) * c
    BY <1>1, <1>2
  <2>2. PICK x \in U : TRUE
    BY <2>1
  <2>3. IsFiniteSet(U) /\ f[x] = c /\ \A k \in U : f[k] \in Int
    BY <2>2, FS_Subset
  <2>4. Z(U) = c + Z(U \ {x})
    BY <2>2, <2>3, SumOneMore
  <2>5. Cardinality(U \ {x}) = Cardinality(U) - 1 /\ Cardinality(U) \in Nat
    BY <2>2, <2>3, FS_RemoveElement, FS_CardinalityType
  <2>6. c + (Cardinality(U) - 1) * c = Cardinality(U) * c
    BY <2>5
  <2>7. Z(U \ {x}) # Cardinality(U \ {x}) * c
    <3> HIDE DEF Z
    <3> QED BY <2>1, <2>4, <2>5, <2>6
  <2> HIDE DEF Z
  <2> QED BY <2>7
<1>3. S \notin B
  <2>1. \A U \in SUBSET S : U \in B => \E x \in U : U \ {x} \in B
    BY <1>2
  <2> HIDE DEF B
  <2> QED BY <1>1, <2>1, SetInduction
<1>4. Z(S) = Cardinality(S) * c
  <2> HIDE DEF Z
  <2> QED BY <1>3
<1> QED BY <1>4

(* A sum of sums. *)
LEMMA SumPlus ==
  ASSUME NEW S, IsFiniteSet(S), NEW f, NEW g, NEW h,
         \A k \in S : f[k] \in Int /\ g[k] \in Int /\ h[k] = f[k] + g[k]
  PROVE  SumFunctionOnSet(h, S) = SumFunctionOnSet(f, S) + SumFunctionOnSet(g, S)
<1> DEFINE X(U) == SumFunctionOnSet(f, U)
           Y(U) == SumFunctionOnSet(g, U)
           Z(U) == SumFunctionOnSet(h, U)
           B == {U \in SUBSET S : Z(U) # X(U) + Y(U)}
<1>1. {} \notin B
  <2>1. X({}) = 0 /\ Y({}) = 0 /\ Z({}) = 0
    BY SumOfNone
  <2> HIDE DEF X, Y, Z
  <2> QED BY <2>1
<1>2. ASSUME NEW U \in SUBSET S, U \in B
      PROVE  \E x \in U : U \ {x} \in B
  <2>1. U # {} /\ Z(U) # X(U) + Y(U)
    BY <1>1, <1>2
  <2>2. PICK x \in U : TRUE
    BY <2>1
  <2>3. IsFiniteSet(U) /\ \A k \in U : f[k] \in Int /\ g[k] \in Int /\ h[k] \in Int
    BY FS_Subset
  <2>4. X(U) = f[x] + X(U \ {x}) /\ X(U \ {x}) \in Int
    BY <2>2, <2>3, SumOneMore
  <2>5. Y(U) = g[x] + Y(U \ {x}) /\ Y(U \ {x}) \in Int
    BY <2>2, <2>3, SumOneMore
  <2>6. Z(U) = h[x] + Z(U \ {x})
    BY <2>2, <2>3, SumOneMore
  <2>7. f[x] \in Int /\ g[x] \in Int /\ h[x] = f[x] + g[x]
    BY <2>2
  <2> HIDE DEF X, Y, Z
  <2>8. Z(U \ {x}) # X(U \ {x}) + Y(U \ {x})
    BY <2>1, <2>4, <2>5, <2>6, <2>7
  <2> QED BY <2>8
<1>3. S \notin B
  <2>1. \A U \in SUBSET S : U \in B => \E x \in U : U \ {x} \in B
    BY <1>2
  <2> HIDE DEF B
  <2> QED BY <1>1, <2>1, SetInduction
<1>4. Z(S) = X(S) + Y(S)
  <2> HIDE DEF X, Y, Z
  <2> QED BY <1>3
<1> QED BY <1>4

(* Over its whole domain. *)
LEMMA SumType ==
  ASSUME NEW S, IsFiniteSet(S), NEW f \in [S -> Int]
  PROVE  SumFunction(f) \in Int
<1>1. DOMAIN f = S /\ \A k \in S : f[k] \in Int
  OBVIOUS
<1> QED BY <1>1, SumInt DEF SumFunction

(* Changing one summand changes the sum by as much. *)
LEMMA SumChanges ==
  ASSUME NEW S, IsFiniteSet(S), NEW f \in [S -> Int], NEW g \in [S -> Int], NEW x \in S,
         \A k \in S \ {x} : f[k] = g[k]
  PROVE  SumFunction(g) = SumFunction(f) - f[x] + g[x]
<1>1. DOMAIN f = S /\ DOMAIN g = S /\ \A k \in S : f[k] \in Int /\ g[k] \in Int
  OBVIOUS
<1>2. /\ SumFunctionOnSet(f, S) = f[x] + SumFunctionOnSet(f, S \ {x})
      /\ SumFunctionOnSet(g, S) = g[x] + SumFunctionOnSet(g, S \ {x})
      /\ SumFunctionOnSet(f, S \ {x}) \in Int
  BY <1>1, SumOneMore
<1>3. SumFunctionOnSet(f, S \ {x}) = SumFunctionOnSet(g, S \ {x})
  <2> DEFINE R == S \ {x}
  <2>1. IsFiniteSet(R) /\ \A k \in R : f[k] = g[k]
    BY FS_Subset
  <2> HIDE DEF R
  <2>2. SumFunctionOnSet(f, R) = SumFunctionOnSet(g, R)
    BY <2>1, SumSame
  <2> QED BY <2>2 DEF R
<1>4. SumFunction(f) = SumFunctionOnSet(f, S) /\ SumFunction(g) = SumFunctionOnSet(g, S)
  BY <1>1 DEF SumFunction
<1> QED BY <1>1, <1>2, <1>3, <1>4

-----------------------------------------------------------------------------
(* Trades. *)

(* The trades that have taken a piece from the players and not yet given it to
   the shop, and the other way round. *)
Bringing(g) == {p \in Player : pc[p] \in {"sold", "adding"} /\ good[p] = g}
Fetching(g) == {p \in Player : pc[p] \in {"paid", "counted", "removing"} /\ good[p] = g}

(* A handler is about a good. *)
Aimed == \A p \in Player : pc[p] # "idle" => good[p] \in Good

(* One trade at a time. *)
Alone == \A p, q \in Player : pc[p] # "idle" /\ pc[q] # "idle" => p = q

(* A buyer's good is in the list until it is removed, and what a handler has
   read is still there when it stores. *)
Followed ==
  \A p \in Player :
    /\ pc[p] \in {"buying", "paid", "counted", "removing"} => good[p] \in listed /\ amount[good[p]] >= 1
    /\ pc[p] = "adding" => good[p] \in listed
    /\ pc[p] \in {"removing", "adding"} => read[p] = amount[good[p]]

Balanced ==
  \A g \in listed :
    /\ amount[g] >= 0
    /\ Fetching(g) = {} /\ Bringing(g) = {} => amount[g] + Held(g) = supply[g]
    /\ Fetching(g) # {} => amount[g] + Held(g) = supply[g] + 1
    /\ Bringing(g) # {} => amount[g] + Held(g) = supply[g] - 1

StockListed == \A g \in Good : Stock[g] > 0 => g \in listed

Settled == ~raced => Alone /\ Followed /\ Balanced /\ StockListed

Typed == TypeOK /\ Aimed
ShopInv == Typed /\ Settled

-----------------------------------------------------------------------------
LEMMA Prices ==
  ASSUME TypeOK, NEW g \in Good
  PROVE  AppraiseItem(g) \in Nat /\ SalePrice(g) \in Nat
<1>1. ASSUME NEW n \in Int PROVE Scale(n) \in Nat
  <2>1. Max({10, n}) \in Int /\ Max({10, n}) >= 10
    <3>1. \E x \in {10, n} : \A y \in {10, n} : x >= y
      OBVIOUS
    <3>2. Max({10, n}) \in {10, n} /\ \A y \in {10, n} : Max({10, n}) >= y
      BY <3>1 DEF Max
    <3> QED BY <3>2
  <2> DEFINE m == Max({10, n})
  <2> HIDE DEF m
  <2>2. m * BasePrice \in Nat
    BY <2>1, ShopAssumption DEF m
  <2>3. (m * BasePrice) \div 100 \in Nat
    BY <2>2
  <2> QED BY <2>3 DEF Scale, m
<1>2. DeltaPercentMod(g) \in Int
  <2>1. Count(g) \in Int /\ Stock[g] \in Nat /\ ShopNormalDeltaRate \in Nat
    BY ShopAssumption DEF Count, TypeOK
  <2> QED BY <2>1 DEF DeltaPercentMod
<1>3. BasePurchasePercent + DeltaPercentMod(g) \in Int /\ BaseSalePercent + DeltaPercentMod(g) \in Int
  BY <1>2, ShopAssumption
<1> QED BY <1>1, <1>3 DEF AppraiseItem, SalePrice

(* What the players hold, when one of them gets or gives one piece. *)
LEMMA HeldChanges ==
  ASSUME TypeOK, inventory' \in [Player -> [Good -> Nat]], NEW p \in Player, NEW g \in Good, NEW d \in Int,
         inventory'[p][g] = inventory[p][g] + d,
         \A q \in Player, h \in Good : q # p \/ h # g => inventory'[q][h] = inventory[q][h]
  PROVE  /\ Held(g) \in Int /\ Held(g)' = Held(g) + d
         /\ \A h \in Good \ {g} : Held(h)' = Held(h)
<1> DEFINE before == [q \in Player |-> inventory[q][g]]
           after == [q \in Player |-> inventory'[q][g]]
<1>1. before \in [Player -> Int] /\ after \in [Player -> Int] /\ IsFiniteSet(Player)
  BY ShopAssumption DEF TypeOK
<1>2. before[p] \in Int /\ after[p] = before[p] + d /\ \A q \in Player \ {p} : before[q] = after[q]
  BY <1>1
<1>3. Held(g) = SumFunction(before) /\ Held(g)' = SumFunction(after)
  BY DEF Held
<1>4. \A h \in Good \ {g} : Held(h)' = Held(h)
  <2>1. ASSUME NEW h \in Good \ {g} PROVE Held(h)' = Held(h)
    <3>1. [q \in Player |-> inventory'[q][h]] = [q \in Player |-> inventory[q][h]]
      BY <2>1
    <3> QED BY <3>1 DEF Held
  <2> QED BY <2>1
<1> HIDE DEF before, after
<1>5. SumFunction(before) \in Int
  BY <1>1, SumType
<1>6. SumFunction(after) = SumFunction(before) - before[p] + after[p]
  BY <1>1, <1>2, SumChanges
<1> QED BY <1>2, <1>3, <1>4, <1>5, <1>6

LEMMA HeldStays ==
  ASSUME TypeOK, UNCHANGED inventory
  PROVE  \A g \in Good : Held(g) \in Int /\ Held(g)' = Held(g)
<1> SUFFICES ASSUME NEW g \in Good PROVE Held(g) \in Int /\ Held(g)' = Held(g)
  OBVIOUS
<1> DEFINE f == [q \in Player |-> inventory[q][g]]
<1>1. f \in [Player -> Int] /\ IsFiniteSet(Player)
  BY ShopAssumption DEF TypeOK
<1>2. Held(g) = SumFunction(f) /\ Held(g)' = SumFunction(f)
  BY DEF Held
<1> HIDE DEF f
<1> QED BY <1>1, <1>2, SumType

LEMMA InitShop == Init => ShopInv
<1> SUFFICES ASSUME Init PROVE ShopInv
  OBVIOUS
<1>1. TypeOK
  <2>1. Cardinality(Player) \in Nat
    BY ShopAssumption, FS_CardinalityType
  <2>2. \A g \in Good : Stock[g] \in Nat /\ Owned[g] \in Nat /\ Cardinality(Player) * Owned[g] \in Nat
    BY <2>1, ShopAssumption
  <2>3. supply \in [Good -> Int]
    BY <2>2 DEF Init
  <2>4. amount \in [Good -> Int] /\ shopTicker \in 0..RestockTicks - 1 /\ listed \subseteq Good
    BY ShopAssumption DEF Init
  <2>5. pc = [p \in Player |-> "idle"] /\ AllIdle /\ good \in [Player -> Good \cup {Nothing}]
    BY DEF Init, AllIdle
  <2>6. read \in [Player -> Int] /\ coins \in [Player -> Nat] /\ inventory \in [Player -> [Good -> Nat]]
        /\ trades \in 0..MaxTrades
    BY ShopAssumption DEF Init
  <2> QED BY <2>3, <2>4, <2>5, <2>6 DEF Init, TypeOK
<1>2. \A g \in Good : Held(g) = Cardinality(Player) * Owned[g]
  <2> SUFFICES ASSUME NEW g \in Good PROVE Held(g) = Cardinality(Player) * Owned[g]
    OBVIOUS
  <2>1. PICK f : f = [q \in Player |-> Owned[g]]
    OBVIOUS
  <2>2. Held(g) = SumFunctionOnSet(f, Player)
    <3>1. Held(g) = SumFunction(f) /\ DOMAIN f = Player
      BY <2>1 DEF Held, Init
    <3> QED BY <3>1 DEF SumFunction
  <2>3. Owned[g] \in Int /\ IsFiniteSet(Player) /\ \A q \in Player : f[q] = Owned[g]
    BY <2>1, ShopAssumption
  <2> QED BY <2>2, <2>3, SumOfEqual
<1>3. \A g \in Good : amount[g] + Held(g) = supply[g] /\ amount[g] \in Nat
  BY <1>2, ShopAssumption DEF Init
<1>4. \A g \in Good : Fetching(g) = {} /\ Bringing(g) = {}
  BY DEF Init, Fetching, Bringing
<1>5. Alone /\ Followed /\ StockListed
  BY DEF Init, Alone, Followed, StockListed
<1>6. Balanced
  BY <1>1, <1>3, <1>4 DEF Balanced, TypeOK
<1>7. Aimed
  BY DEF Init, Aimed
<1> QED BY <1>1, <1>5, <1>6, <1>7 DEF ShopInv, Settled, Typed

LEMMA TypesKept == Typed /\ [Next]_vars => Typed'
<1> SUFFICES ASSUME Typed, [Next]_vars PROVE Typed'
  OBVIOUS
<1> USE DEF Typed, Aimed, TypeOK, At, Goto, Done, AllIdle, purse, clock, history
<1>1. ASSUME NEW p \in Player, NEW g \in Good, Buy(p, g) PROVE Typed'
  BY <1>1, ShopAssumption DEF Buy, Begin
<1>2. ASSUME NEW p \in Player, NEW g \in Good, Sell(p, g) PROVE Typed'
  <2>1. inventory' \in [Player -> [Good -> Nat]]
    BY <1>2 DEF Sell
  <2>2. coins' \in [Player -> Nat]
    <3>1. coins[p] + AppraiseItem(g) \in Nat
      BY Prices
    <3>2. coins' = [coins EXCEPT ![p] = coins[p] + AppraiseItem(g)]
      BY <1>2 DEF Sell
    <3> QED BY <3>1, <3>2
  <2> QED BY <1>2, <2>1, <2>2, ShopAssumption DEF Sell, Begin
<1>3. ASSUME NEW p \in Player, Pay(p) PROVE Typed'
  <2>1. good[p] \in Good
    BY <1>3 DEF Pay
  <2>2. coins' \in [Player -> Nat]
    <3>1. SalePrice(good[p]) \in Nat /\ coins[p] \in Nat /\ coins[p] >= SalePrice(good[p])
      BY <1>3, <2>1, Prices DEF Pay, CanPay
    <3>2. coins[p] - SalePrice(good[p]) \in Nat
      BY <3>1
    <3>3. coins' = [coins EXCEPT ![p] = coins[p] - SalePrice(good[p])]
      BY <1>3 DEF Pay
    <3> QED BY <3>2, <3>3
  <2>3. inventory' \in [Player -> [Good -> Nat]]
    BY <1>3, <2>1 DEF Pay
  <2> QED BY <1>3, <2>1, <2>2, <2>3 DEF Pay
<1>4. ASSUME NEW p \in Player, Refuse(p) \/ CheckCount(p) \/ RemoveLoad(p) \/ Forget(p) \/ AddLoad(p) PROVE Typed'
  <2>1. UNCHANGED <<listed, amount, phase, shopTicker, coins, inventory, trades, raced, supply>> /\ phase = "packets"
    BY <1>4 DEF Refuse, CheckCount, RemoveLoad, Forget, AddLoad
  <2>2. /\ pc' \in [Player -> {"idle", "buying", "paid", "counted", "removing", "sold", "adding"}]
        /\ good' \in [Player -> Good \cup {Nothing}]
        /\ \A q \in Player : pc'[q] # "idle" => pc[q] # "idle" /\ good'[q] = good[q]
    BY <1>4 DEF Refuse, CheckCount, RemoveLoad, Forget, AddLoad
  <2>3. read' \in [Player -> Int]
    <3>1. \A g \in Good : amount[g] \in Int
      OBVIOUS
    <3>2. pc[p] # "idle" /\ good[p] \in Good
      BY <1>4 DEF Refuse, CheckCount, RemoveLoad, Forget, AddLoad
    <3>3. \E n \in Int : read' = [read EXCEPT ![p] = n] \/ read' = read
      BY <1>4, <3>1, <3>2 DEF Refuse, CheckCount, RemoveLoad, Forget, AddLoad
    <3> QED BY <3>3
  <2> QED BY <2>1, <2>2, <2>3
<1>5. ASSUME NEW p \in Player, RemoveStore(p) \/ AddStore(p) PROVE Typed'
  <2>1. UNCHANGED <<listed, phase, shopTicker, coins, inventory, trades, raced, supply>> /\ phase = "packets"
        /\ pc' = [pc EXCEPT ![p] = "idle"] /\ good' = [good EXCEPT ![p] = Nothing] /\ read' = [read EXCEPT ![p] = 0]
    BY <1>5 DEF RemoveStore, AddStore
  <2>2. amount' \in [Good -> Int]
    <3>1. read[p] - 1 \in Int /\ read[p] + 1 \in Int
      OBVIOUS
    <3>2. \E n \in Int : amount' = [amount EXCEPT ![good[p]] = n]
      BY <1>5, <3>1 DEF RemoveStore, AddStore
    <3> QED BY <3>2
  <2>3. \A q \in Player : pc'[q] # "idle" => pc[q] # "idle" /\ good'[q] = good[q]
    BY <2>1
  <2> QED BY <2>1, <2>2, <2>3
<1>6. CASE StartTasks
  BY <1>6 DEF StartTasks
<1>7. CASE RunTicker
  BY <1>7, ShopAssumption DEF RunTicker, Restocked, StepToward
<1>8. CASE UNCHANGED vars
  BY <1>8 DEF vars
<1> QED
  BY <1>1, <1>2, <1>3, <1>4, <1>5, <1>6, <1>7, <1>8 DEF Next, Continue

-----------------------------------------------------------------------------
(* When everybody but p is idle, before and after a step. *)
Only(p) == \A q \in Player \ {p} : pc[q] = "idle" /\ pc'[q] = "idle"

LEMMA OnlyOne ==
  ASSUME Typed, Typed', NEW p \in Player, Only(p)
  PROVE  /\ Alone'
         /\ \A g \in Good :
              /\ Fetching(g) # {} <=> pc[p] \in {"paid", "counted", "removing"} /\ good[p] = g
              /\ Bringing(g) # {} <=> pc[p] \in {"sold", "adding"} /\ good[p] = g
              /\ Fetching(g)' # {} <=> pc'[p] \in {"paid", "counted", "removing"} /\ good'[p] = g
              /\ Bringing(g)' # {} <=> pc'[p] \in {"sold", "adding"} /\ good'[p] = g
<1>1. Alone'
  BY DEF Alone, Only
<1> QED BY <1>1 DEF Only, Fetching, Bringing

(* A handler's step, by what it does to what is listed, held and read. *)
LEMMA HandlerKeeps ==
  ASSUME ShopInv, Typed', NEW p \in Player, Continue(p), ~raced'
  PROVE  Settled'
<1>0. /\ Typed /\ TypeOK /\ ~raced /\ Alone /\ Followed /\ Balanced /\ StockListed
  BY DEF ShopInv, Settled, Typed, Continue, Pay, Refuse, CheckCount, RemoveLoad, RemoveStore, Forget,
         AddLoad, AddStore, history
<1>1. /\ pc[p] # "idle" /\ good[p] \in Good /\ UNCHANGED <<listed, supply>>
      /\ \E l \in {"idle", "paid", "counted", "removing", "adding"} : pc' = [pc EXCEPT ![p] = l]
      /\ \A q \in Player \ {p} : good'[q] = good[q] /\ read'[q] = read[q]
  BY <1>0 DEF Continue, Pay, Refuse, CheckCount, RemoveLoad, RemoveStore, Forget, AddLoad, AddStore,
              At, Goto, Done, history, Typed, Aimed, TypeOK
<1>2. Only(p)
  BY <1>0, <1>1 DEF Alone, Only, TypeOK
<1>3. /\ Alone'
      /\ \A g \in Good :
              /\ Fetching(g) # {} <=> pc[p] \in {"paid", "counted", "removing"} /\ good[p] = g
              /\ Bringing(g) # {} <=> pc[p] \in {"sold", "adding"} /\ good[p] = g
              /\ Fetching(g)' # {} <=> pc'[p] \in {"paid", "counted", "removing"} /\ good'[p] = g
              /\ Bringing(g)' # {} <=> pc'[p] \in {"sold", "adding"} /\ good'[p] = g
  BY <1>0, <1>2, OnlyOne
<1>4. StockListed'
  BY <1>0, <1>1 DEF StockListed
<1>5. listed \subseteq Good /\ \A g \in Good : amount[g] \in Int /\ supply[g] \in Int
  BY <1>0 DEF TypeOK
<1>6. SUFFICES Followed' /\ Balanced'
  BY <1>3, <1>4 DEF Settled
<1>12. PICK g \in Good : good[p] = g
  BY <1>1
<1>7. CASE Pay(p)
  <2>1. /\ pc[p] = "buying" /\ pc'[p] = "paid" /\ UNCHANGED <<amount, good, read>>
    BY <1>12, <1>0, <1>7 DEF Pay, At, Goto, TypeOK
  <2>2. inventory'[p][g] = inventory[p][g] + 1 /\ \A q \in Player, h \in Good : q # p \/ h # g => inventory'[q][h] = inventory[q][h]
    <3>1. inventory' = [inventory EXCEPT ![p][g] = inventory[p][g] + 1] /\ inventory \in [Player -> [Good -> Nat]]
      BY <1>12, <1>0, <1>7 DEF Pay, TypeOK
    <3> QED BY <1>12, <1>1, <3>1
  <2>3. inventory' \in [Player -> [Good -> Nat]]
    BY DEF Typed, TypeOK
  <2>4. Held(g) \in Int /\ Held(g)' = Held(g) + 1 /\ \A h \in Good \ {g} : Held(h)' = Held(h)
    BY <1>0, <2>2, <2>3, HeldChanges
  <2>5. Followed'
    BY <1>12, <1>0, <1>1, <1>2, <2>1 DEF Followed, Only
  <2>6. Balanced'
    <3>1. ASSUME NEW h \in listed, h # g PROVE amount[h] + Held(h)' = supply[h] /\ amount[h] >= 0
      BY <1>12, <1>0, <1>3, <1>5, <2>1, <2>4, <3>1 DEF Balanced
    <3>2. g \in listed => amount[g] + Held(g)' = supply[g] + 1 /\ amount[g] >= 0
      BY <1>12, <1>0, <1>1, <1>3, <1>5, <2>1, <2>4 DEF Balanced
    <3>3. \A h \in listed : (Fetching(h)' # {} <=> h = g) /\ Bringing(h)' = {}
      BY <1>12, <1>3, <1>5, <2>1
    <3> QED BY <1>12, <1>1, <2>1, <3>1, <3>2, <3>3 DEF Balanced
  <2> QED BY <2>5, <2>6
<1>8. ASSUME UNCHANGED inventory PROVE \A h \in Good : Held(h) \in Int /\ Held(h)' = Held(h)
  BY <1>12, <1>0, <1>8, HeldStays
<1>9. CASE Refuse(p) \/ Forget(p)
  <2>1. /\ pc[p] \in {"buying", "sold"} /\ pc'[p] = "idle" /\ UNCHANGED <<amount, inventory>>
        /\ pc[p] = "sold" => g \notin listed
    BY <1>12, <1>0, <1>9 DEF Refuse, Forget, At, Goto, Done, purse, TypeOK
  <2>2. Followed'
    BY <1>12, <1>0, <1>1, <1>2, <2>1 DEF Followed, Only
  <2>3. ASSUME NEW h \in listed PROVE amount[h] + Held(h)' = supply[h] /\ amount[h] >= 0
    BY <1>12, <1>0, <1>3, <1>5, <1>8, <2>1 DEF Balanced
  <2>4. \A h \in listed : Fetching(h)' = {} /\ Bringing(h)' = {}
    BY <1>12, <1>3, <1>5, <2>1
  <2> QED BY <1>12, <1>1, <2>1, <2>2, <2>3, <2>4 DEF Balanced
<1>10. CASE CheckCount(p) \/ RemoveLoad(p) \/ AddLoad(p)
  <2>1. /\ UNCHANGED <<amount, inventory, good>>
        /\ \/ pc[p] = "paid" /\ pc'[p] = "counted" /\ read' = read
           \/ pc[p] = "counted" /\ pc'[p] = "removing" /\ read'[p] = amount[g]
           \/ pc[p] = "sold" /\ pc'[p] = "adding" /\ read'[p] = amount[g] /\ g \in listed
    <3>1. CASE CheckCount(p)
      <4>1. pc[p] = "paid"
        BY <3>1 DEF CheckCount, At
      <4>2. Count(g) >= 1
        BY <1>12, <1>0, <4>1 DEF Followed, Count
      <4> QED BY <1>12, <1>0, <3>1, <4>1, <4>2 DEF CheckCount, Goto, purse, TypeOK
    <3>2. CASE RemoveLoad(p)
      BY <1>12, <1>0, <3>2 DEF RemoveLoad, At, Goto, purse, TypeOK
    <3>3. CASE AddLoad(p)
      BY <1>12, <1>0, <3>3 DEF AddLoad, At, Goto, purse, TypeOK
    <3> QED BY <1>10, <3>1, <3>2, <3>3
  <2>2. Followed'
    BY <1>12, <1>0, <1>1, <1>2, <2>1 DEF Followed, Only
  <2>3. \A h \in Good : (Fetching(h)' # {} <=> Fetching(h) # {}) /\ (Bringing(h)' # {} <=> Bringing(h) # {})
    BY <1>12, <1>3, <2>1
  <2> QED BY <1>12, <1>0, <1>1, <1>5, <1>8, <2>1, <2>2, <2>3 DEF Balanced
<1>11. CASE RemoveStore(p) \/ AddStore(p)
  <2>1. /\ pc'[p] = "idle" /\ UNCHANGED inventory /\ g \in listed /\ read[p] = amount[g]
        /\ \/ pc[p] = "removing" /\ amount' = [amount EXCEPT ![g] = read[p] - 1] /\ amount[g] >= 1
           \/ pc[p] = "adding" /\ amount' = [amount EXCEPT ![g] = read[p] + 1]
    BY <1>12, <1>0, <1>11 DEF RemoveStore, AddStore, At, Goto, Done, purse, TypeOK, Followed
  <2>2. /\ \A h \in listed : h # g => amount'[h] = amount[h]
        /\ \/ pc[p] = "removing" /\ amount'[g] = amount[g] - 1 /\ amount[g] >= 1
           \/ pc[p] = "adding" /\ amount'[g] = amount[g] + 1
    BY <1>12, <1>0, <1>5, <2>1 DEF TypeOK
  <2>3. Followed'
    BY <1>12, <1>0, <1>1, <1>2, <2>1 DEF Followed, Only
  <2>4. amount'[g] + Held(g)' = supply[g] /\ amount'[g] >= 0
    <3>1. Held(g) \in Int /\ Held(g)' = Held(g)
      BY <1>8, <2>1
    <3>2. amount[g] >= 0 /\ amount[g] \in Int /\ supply[g] \in Int
      BY <1>0, <1>5, <2>1 DEF Balanced
    <3>3. CASE pc[p] = "removing"
      <4>1. amount[g] + Held(g) = supply[g] + 1
        BY <1>12, <1>0, <1>3, <2>1, <3>3 DEF Balanced
      <4>2. amount'[g] = amount[g] - 1 /\ amount[g] >= 1
        BY <2>2, <3>3
      <4> QED BY <3>1, <3>2, <4>1, <4>2
    <3>4. CASE pc[p] = "adding"
      <4>1. amount[g] + Held(g) = supply[g] - 1
        BY <1>12, <1>0, <1>3, <2>1, <3>4 DEF Balanced
      <4>2. amount'[g] = amount[g] + 1
        BY <2>2, <3>4
      <4> QED BY <3>1, <3>2, <4>1, <4>2
    <3> QED BY <2>1, <3>3, <3>4
  <2>6. ASSUME NEW h \in listed, h # g PROVE amount'[h] + Held(h)' = supply[h] /\ amount'[h] >= 0
    BY <1>12, <1>0, <1>3, <1>5, <1>8, <2>1, <2>2, <2>6 DEF Balanced
  <2>5. \A h \in listed : Fetching(h)' = {} /\ Bringing(h)' = {}
    BY <1>12, <1>3, <1>5, <2>1
  <2> QED BY <1>12, <1>1, <2>3, <2>4, <2>5, <2>6 DEF Balanced
<1> QED BY <1>7, <1>9, <1>10, <1>11 DEF Continue

(* A trade begins. *)
LEMMA BuyKeeps ==
  ASSUME ShopInv, Typed', NEW p \in Player, NEW g \in Good, Buy(p, g), ~raced'
  PROVE  Settled'
<1>0. /\ Typed /\ TypeOK /\ ~raced /\ AllIdle /\ Alone /\ Followed /\ Balanced /\ StockListed
  BY DEF Buy, Begin, ShopInv, Settled, Typed
<1>1. /\ UNCHANGED <<listed, amount, inventory, supply>>
      /\ pc[p] = "idle" /\ pc'[p] = "buying" /\ good'[p] = g
      /\ \A q \in Player \ {p} : pc[q] = "idle" /\ pc'[q] = "idle"
  BY <1>0 DEF Buy, Begin, At, Goto, purse, TypeOK, AllIdle
<1>2. Only(p)
  BY <1>1 DEF Only
<1>3. Alone' /\ \A h \in Good : Fetching(h) = {} /\ Bringing(h) = {} /\ Fetching(h)' = {} /\ Bringing(h)' = {}
  BY <1>0, <1>1, <1>2, OnlyOne
<1>4. listed \subseteq Good /\ amount[g] \in Int
  BY <1>0 DEF TypeOK
<1>5. g \in listed /\ amount[g] >= 1
  <2>1. Count(g) # 0
    BY DEF Buy, InStock
  <2>2. g \in listed /\ amount[g] # 0
    BY <2>1 DEF Count
  <2>3. amount[g] >= 0
    BY <1>0, <2>2 DEF Balanced
  <2> QED BY <1>4, <2>2, <2>3
<1>6. \A h \in Good : Held(h)' = Held(h)
  BY <1>0, <1>1, HeldStays
<1>7. Followed'
  BY <1>1, <1>5 DEF Followed
<1>8. Balanced'
  BY <1>0, <1>1, <1>3, <1>4, <1>6 DEF Balanced
<1> QED BY <1>0, <1>1, <1>3, <1>7, <1>8 DEF Settled, StockListed

LEMMA SellKeeps ==
  ASSUME ShopInv, Typed', NEW p \in Player, NEW g \in Good, Sell(p, g), ~raced'
  PROVE  Settled'
<1>0. /\ Typed /\ TypeOK /\ ~raced /\ AllIdle /\ Alone /\ Followed /\ Balanced /\ StockListed
  BY DEF Sell, Begin, ShopInv, Settled, Typed
<1>1. /\ UNCHANGED <<listed, amount, supply>>
      /\ pc[p] = "idle" /\ pc'[p] = "sold" /\ good'[p] = g
      /\ \A q \in Player \ {p} : pc[q] = "idle" /\ pc'[q] = "idle"
  BY <1>0 DEF Sell, Begin, At, Goto, TypeOK, AllIdle
<1>2. Only(p)
  BY <1>1 DEF Only
<1>3. /\ Alone'
      /\ \A h \in Good : Fetching(h) = {} /\ Bringing(h) = {} /\ Fetching(h)' = {} /\ (Bringing(h)' # {} <=> h = g)
  BY <1>0, <1>1, <1>2, OnlyOne
<1>4. listed \subseteq Good /\ \A h \in Good : amount[h] \in Int /\ supply[h] \in Int
  BY <1>0 DEF TypeOK
<1>5. inventory' \in [Player -> [Good -> Nat]] /\ inventory'[p][g] = inventory[p][g] + (-1)
      /\ \A q \in Player, h \in Good : q # p \/ h # g => inventory'[q][h] = inventory[q][h]
  <2>1. inventory' = [inventory EXCEPT ![p][g] = inventory[p][g] - 1] /\ inventory \in [Player -> [Good -> Nat]]
    BY <1>0 DEF Sell, TypeOK
  <2>2. inventory' \in [Player -> [Good -> Nat]]
    BY DEF Typed, TypeOK
  <2> QED BY <2>1, <2>2
<1>6. Held(g) \in Int /\ Held(g)' = Held(g) + (-1) /\ \A h \in Good \ {g} : Held(h)' = Held(h)
  <2>1. -1 \in Int
    OBVIOUS
  <2> QED BY <1>0, <1>5, <2>1, HeldChanges
<1>7. Followed'
  BY <1>1 DEF Followed
<1>8. Balanced'
  <2>1. ASSUME NEW h \in listed, h # g PROVE amount[h] + Held(h)' = supply[h] /\ amount[h] >= 0
    BY <1>0, <1>3, <1>4, <1>6, <2>1 DEF Balanced
  <2>2. g \in listed => amount[g] + Held(g)' = supply[g] - 1 /\ amount[g] >= 0
    <3>1. g \in listed => amount[g] + Held(g) = supply[g] /\ amount[g] >= 0
      BY <1>0, <1>3, <1>4 DEF Balanced
    <3> QED BY <1>4, <1>6, <3>1
  <2> QED BY <1>1, <1>3, <1>4, <2>1, <2>2 DEF Balanced
<1> QED BY <1>0, <1>1, <1>3, <1>7, <1>8 DEF Settled, StockListed

(* The ticker: what it adds or takes is in supply, and it drops only a good that
   is normally unstocked. *)
LEMMA TickerKeeps ==
  ASSUME ShopInv, Typed', RunTicker, ~raced'
  PROVE  Settled'
<1>0. /\ TypeOK /\ ~raced /\ AllIdle /\ Alone /\ Followed /\ Balanced /\ StockListed
  BY DEF RunTicker, ShopInv, Settled, Typed, TypeOK
<1>1. UNCHANGED <<pc, good, read, inventory>>
  BY DEF RunTicker, purse
<1>2. \A h \in Good : Held(h) \in Int /\ Held(h)' = Held(h)
  BY <1>0, <1>1, HeldStays
<1>3. Alone' /\ Followed' /\ \A h \in Good : Fetching(h) = {} /\ Bringing(h) = {} /\ Fetching(h)' = {} /\ Bringing(h)' = {}
  BY <1>0, <1>1 DEF AllIdle, Alone, Followed, Fetching, Bringing
<1>4. listed \subseteq Good /\ \A h \in Good : amount[h] \in Int /\ supply[h] \in Int /\ Stock[h] \in Nat
  BY <1>0, ShopAssumption DEF TypeOK
<1>5. \A h \in listed : amount[h] >= 0 /\ amount[h] + Held(h) = supply[h]
  BY <1>0, <1>3, <1>4 DEF Balanced
<1>6. CASE UNCHANGED <<listed, amount, supply>>
  BY <1>0, <1>2, <1>3, <1>4, <1>5, <1>6 DEF Settled, Balanced, StockListed
<1>7. CASE /\ amount' = Restocked
           /\ listed' = listed \ Emptied
           /\ supply' = [g \in Good |-> supply[g] + Restocked[g] - amount[g]]
  <2>1. \A h \in listed : Restocked[h] \in Int /\ Restocked[h] >= 0 /\ (Stock[h] > 0 => h \notin Emptied)
    <3> SUFFICES ASSUME NEW h \in listed
                 PROVE  Restocked[h] \in Int /\ Restocked[h] >= 0 /\ (Stock[h] > 0 => h \notin Emptied)
      OBVIOUS
    <3>1. amount[h] \in Int /\ amount[h] >= 0 /\ Stock[h] \in Nat /\ h \in Good
      BY <1>4, <1>5
    <3>2. Restocked[h] = IF amount[h] # Stock[h] THEN StepToward(h) ELSE amount[h]
      BY <3>1 DEF Restocked
    <3>3. StepToward(h) = IF Stock[h] > amount[h] THEN amount[h] + 1 ELSE amount[h] - 1
      BY <3>1 DEF StepToward
    <3>4. Restocked[h] \in Int /\ Restocked[h] >= 0 /\ (amount[h] # Stock[h] /\ Restocked[h] = 0 => Stock[h] = 0)
      BY <3>1, <3>2, <3>3
    <3> QED BY <3>1, <3>4 DEF Emptied
  <2>2. \A h \in listed : amount'[h] + Held(h)' = supply'[h] /\ amount'[h] >= 0
    <3> SUFFICES ASSUME NEW h \in listed PROVE amount'[h] + Held(h)' = supply'[h] /\ amount'[h] >= 0
      OBVIOUS
    <3>1. amount'[h] = Restocked[h] /\ supply'[h] = supply[h] + Restocked[h] - amount[h]
      BY <1>4, <1>7
    <3>2. Restocked[h] \in Int /\ Restocked[h] >= 0 /\ amount[h] \in Int /\ supply[h] \in Int
          /\ Held(h) \in Int /\ Held(h)' = Held(h) /\ amount[h] + Held(h) = supply[h]
      BY <1>2, <1>4, <1>5, <2>1
    <3> QED BY <3>1, <3>2
  <2>3. Balanced'
    BY <1>3, <1>4, <1>7, <2>2 DEF Balanced
  <2>4. StockListed'
    BY <1>0, <1>7, <2>1 DEF StockListed
  <2> QED BY <1>3, <2>3, <2>4 DEF Settled
<1> QED BY <1>6, <1>7 DEF RunTicker

LEMMA NextShop == ShopInv /\ [Next]_vars => ShopInv'
<1> SUFFICES ASSUME ShopInv, [Next]_vars PROVE ShopInv'
  OBVIOUS
<1>1. Typed'
  BY TypesKept DEF ShopInv
<1>2. SUFFICES ASSUME ~raced' PROVE Settled'
  BY <1>1 DEF ShopInv, Settled
<1>3. ASSUME NEW p \in Player, Continue(p) PROVE Settled'
  BY <1>1, <1>2, <1>3, HandlerKeeps
<1>4. ASSUME NEW p \in Player, NEW g \in Good, Buy(p, g) PROVE Settled'
  BY <1>1, <1>2, <1>4, BuyKeeps
<1>5. ASSUME NEW p \in Player, NEW g \in Good, Sell(p, g) PROVE Settled'
  BY <1>1, <1>2, <1>5, SellKeeps
<1>6. CASE StartTasks \/ UNCHANGED vars
  <2>1. UNCHANGED <<listed, amount, pc, good, read, inventory, raced, supply>>
    BY <1>6 DEF StartTasks, purse, history, vars
  <2>2. TypeOK /\ Alone /\ Followed /\ Balanced /\ StockListed
    BY <1>2, <2>1 DEF ShopInv, Settled, Typed
  <2>3. \A g \in Good : Held(g)' = Held(g) /\ Fetching(g)' = Fetching(g) /\ Bringing(g)' = Bringing(g)
    BY <2>1, <2>2, HeldStays DEF Fetching, Bringing
  <2>4. listed \subseteq Good
    BY <2>2 DEF TypeOK
  <2> QED BY <2>1, <2>2, <2>3, <2>4 DEF Settled, Alone, Followed, Balanced, StockListed
<1>7. CASE RunTicker
  BY <1>1, <1>2, <1>7, TickerKeeps
<1> QED
  BY <1>3, <1>4, <1>5, <1>6, <1>7 DEF Next

(* Every variable stays in its type, a handler that has begun is about a good,
   and as long as no two trades have overlapped one handler runs at a time, what
   it has read is still true when it stores, and the books are out by the piece
   it carries and by nothing else. *)
THEOREM ShopInvariant == Spec => []ShopInv
<1>1. Init => ShopInv
  BY InitShop
<1>2. ShopInv /\ [Next]_vars => ShopInv'
  BY NextShop
<1> QED BY <1>1, <1>2, PTL DEF Spec

(* Every variable of Shop stays in its type, for any bounds and prices. *)
THEOREM ShopTypes == Spec => []TypeOK
<1>1. ShopInv => TypeOK
  BY DEF ShopInv, Typed
<1> QED BY <1>1, ShopInvariant, PTL

(* ShopItems without races: whatever the trades, one after the other, and the
   ticker's restocks, what the shop lists and what the players hold adds up,
   nothing is oversold, and a stocked good is never dropped from the list. *)
THEOREM AloneIsExact == Spec => []ExactWhenAlone
<1>1. ShopInv => ExactWhenAlone
  <2> SUFFICES ASSUME ShopInv, AllIdle, ~raced, NEW g \in Good
               PROVE  /\ g \in listed => Exact(g) /\ amount[g] >= 0
                      /\ Stock[g] > 0 => g \in listed
    BY DEF ExactWhenAlone
  <2>1. Balanced /\ StockListed
    BY DEF ShopInv, Settled
  <2>2. Fetching(g) = {} /\ Bringing(g) = {}
    BY DEF AllIdle, Fetching, Bringing
  <2> QED BY <2>1, <2>2 DEF Balanced, StockListed, Exact
<1> QED BY <1>1, ShopInvariant, PTL

-----------------------------------------------------------------------------
(* Prices, and what the players are worth. *)

(* What the shop pays, and asks, for a good of which it lists x more than it
   normally has. *)
Bid(x) == Scale(BasePurchasePercent + (0 - x) * ShopNormalDeltaRate)
Ask(x) == Scale(BaseSalePercent + (0 - x) * ShopNormalDeltaRate)

(* How far the shop's list has gone from its normal amount, once the trades that
   have begun are done. *)
Level(g) == IF g \in listed THEN supply[g] - Held(g) - Stock[g] ELSE 0

(* What the players have paid more than Bid(0) a piece to bring a level to x, or
   have been paid less. *)
Slope == [k \in Int |-> IF k >= 0 THEN Bid(0) - Bid(k) ELSE Bid(k) - Bid(0)]
Span(x) == IF x >= 0 THEN 0..(x - 1) ELSE x..(0 - 1)
Drift(x) == SumFunctionOnSet(Slope, Span(x))

(* The players' pieces of a good, more or less than at first, at Bid(0) each. *)
Worth(g) == Bid(0) * (Held(g) - Cardinality(Player) * Owned[g]) + Drift(Level(g))
Stake == SumFunction([g \in Good |-> Worth(g)])
Purse == SumFunction(coins)
NoGain == Purse + Stake <= Cardinality(Player) * Coins

LEMMA ScaleRises ==
  ASSUME NEW a \in Int, NEW b \in Int, a <= b
  PROVE  Scale(a) \in Nat /\ Scale(b) \in Nat /\ Scale(a) <= Scale(b)
<1>1. ASSUME NEW n \in Int PROVE Max({10, n}) = IF n >= 10 THEN n ELSE 10
  <2>1. \E x \in {10, n} : \A y \in {10, n} : x >= y
    OBVIOUS
  <2>2. Max({10, n}) \in {10, n} /\ \A y \in {10, n} : Max({10, n}) >= y
    BY <2>1 DEF Max
  <2> QED BY <2>2
<1>2. PICK u, v : u = Max({10, a}) /\ v = Max({10, b})
  OBVIOUS
<1>3. u \in Nat /\ v \in Nat /\ u <= v
  BY <1>1, <1>2
<1>4. PICK s, t : s = u * BasePrice /\ t = v * BasePrice
  OBVIOUS
<1>5. s \in Nat /\ t \in Nat /\ s <= t
  <2>1. BasePrice \in Nat
    BY ShopAssumption
  <2>2. PICK d \in Nat : v = u + d
    <3>1. v - u \in Nat /\ v = u + (v - u)
      BY <1>3
    <3> QED BY <3>1
  <2>3. s \in Nat /\ d * BasePrice \in Nat
    BY <1>3, <1>4, <2>1
  <2>4. t = s + d * BasePrice
    BY <1>3, <1>4, <2>1, <2>2
  <2> QED BY <2>3, <2>4
<1>6. s \div 100 \in Nat /\ t \div 100 \in Nat /\ s \div 100 <= t \div 100
  BY <1>5
<1> QED BY <1>2, <1>4, <1>6 DEF Scale

(* Prices fall as the list grows, and a piece is never bought below the bid that
   follows. *)
LEMMA PricesFall ==
  ASSUME NEW x \in Int, NEW y \in Int, x <= y
  PROVE  Bid(x) \in Nat /\ Bid(y) \in Nat /\ Bid(y) <= Bid(x) /\ Ask(x) \in Nat
<1>1. PICK r, c, d : r = ShopNormalDeltaRate /\ c = BasePurchasePercent /\ d = BaseSalePercent
  OBVIOUS
<1>2. r \in Nat /\ c \in Nat /\ d \in Nat
  BY <1>1, ShopAssumption
<1>3. PICK n \in Nat : y = x + n
  <2>1. y - x \in Nat /\ y = x + (y - x)
    OBVIOUS
  <2> QED BY <2>1
<1>4. PICK s, t : s = (0 - x) * r /\ t = (0 - y) * r
  OBVIOUS
<1>5. s \in Int /\ t \in Int /\ t + n * r = s /\ n * r \in Nat
  BY <1>2, <1>3, <1>4
<1>6. c + s \in Int /\ c + t \in Int /\ c + t <= c + s /\ d + s \in Int /\ d + s <= d + s
  BY <1>2, <1>5
<1>7. Scale(c + t) \in Nat /\ Scale(c + s) \in Nat /\ Scale(c + t) <= Scale(c + s)
  BY <1>6, ScaleRises
<1>8. Scale(d + s) \in Nat
  BY <1>6, ScaleRises
<1>9. Bid(x) = Scale(c + s) /\ Bid(y) = Scale(c + t) /\ Ask(x) = Scale(d + s)
  BY <1>1, <1>4 DEF Bid, Ask
<1> QED BY <1>7, <1>8, <1>9

LEMMA AskAboveBid ==
  ASSUME Margin, NEW x \in Int
  PROVE  Bid(x - 1) <= Ask(x)
<1>1. PICK r, c, d : r = ShopNormalDeltaRate /\ c = BasePurchasePercent /\ d = BaseSalePercent
  OBVIOUS
<1>2. r \in Nat /\ c \in Nat /\ d \in Nat /\ c + r <= d
  BY <1>1, ShopAssumption DEF Margin
<1>3. PICK s, t : s = (0 - x) * r /\ t = (0 - (x - 1)) * r
  OBVIOUS
<1>4. s \in Int /\ t \in Int /\ t = s + r
  BY <1>2, <1>3
<1>5. c + t \in Int /\ d + s \in Int /\ c + t <= d + s
  BY <1>2, <1>4
<1>6. Scale(c + t) <= Scale(d + s)
  BY <1>5, ScaleRises
<1>7. Bid(x - 1) = Scale(c + t) /\ Ask(x) = Scale(d + s)
  BY <1>1, <1>3 DEF Bid, Ask
<1> QED BY <1>6, <1>7

LEMMA SlopeIs ==
  /\ \A k \in Int : Slope[k] \in Nat
  /\ \A k \in Int : Slope[k] = IF k >= 0 THEN Bid(0) - Bid(k) ELSE Bid(k) - Bid(0)
<1>1. \A k \in Int : Slope[k] = IF k >= 0 THEN Bid(0) - Bid(k) ELSE Bid(k) - Bid(0)
  BY DEF Slope
<1>2. ASSUME NEW k \in Int PROVE Slope[k] \in Nat
  <2>1. CASE k >= 0
    <3>1. Bid(0) \in Nat /\ Bid(k) \in Nat /\ Bid(k) <= Bid(0)
      BY <2>1, PricesFall
    <3> QED BY <1>1, <2>1, <3>1
  <2>2. CASE k < 0
    <3>1. Bid(0) \in Nat /\ Bid(k) \in Nat /\ Bid(0) <= Bid(k)
      BY <2>2, PricesFall
    <3>2. ~(k >= 0)
      BY <2>2
    <3> QED BY <1>1, <3>1, <3>2
  <2> QED BY <2>1, <2>2
<1> QED BY <1>1, <1>2

(* Summands that are not negative. *)
LEMMA SumOfNats ==
  ASSUME NEW S, IsFiniteSet(S), NEW f, \A k \in S : f[k] \in Nat
  PROVE  SumFunctionOnSet(f, S) \in Nat
<1> DEFINE Z(U) == SumFunctionOnSet(f, U)
           B == {U \in SUBSET S : Z(U) \notin Nat}
<1>1. {} \notin B
  <2>1. Z({}) = 0
    BY SumOfNone
  <2> HIDE DEF Z
  <2> QED BY <2>1
<1>2. ASSUME NEW U \in SUBSET S, U \in B
      PROVE  \E x \in U : U \ {x} \in B
  <2>1. U # {} /\ Z(U) \notin Nat
    BY <1>1, <1>2
  <2>2. PICK x \in U : TRUE
    BY <2>1
  <2>3. IsFiniteSet(U) /\ f[x] \in Nat /\ \A k \in U : f[k] \in Int
    BY <2>2, FS_Subset
  <2>4. Z(U) = f[x] + Z(U \ {x}) /\ Z(U \ {x}) \in Int
    BY <2>2, <2>3, SumOneMore
  <2> HIDE DEF Z
  <2>5. Z(U \ {x}) \notin Nat
    BY <2>1, <2>3, <2>4
  <2> QED BY <2>5
<1>3. S \notin B
  <2>1. \A U \in SUBSET S : U \in B => \E x \in U : U \ {x} \in B
    BY <1>2
  <2> HIDE DEF B
  <2> QED BY <1>1, <2>1, SetInduction
<1>4. Z(S) \in Nat
  <2> HIDE DEF Z
  <2> QED BY <1>3
<1> QED BY <1>4

LEMMA SpanIs ==
  ASSUME NEW x \in Int
  PROVE  /\ IsFiniteSet(Span(x)) /\ \A k \in Span(x) : k \in Int
         /\ x >= 0 => x \in Span(x + 1) /\ Span(x + 1) \ {x} = Span(x)
         /\ x < 0 => x \in Span(x) /\ Span(x) \ {x} = Span(x + 1)
<1>1. x - 1 \in Int /\ 0 - 1 \in Int /\ 0 \in Int
  OBVIOUS
<1>2. IsFiniteSet(0..(x - 1)) /\ IsFiniteSet(x..(0 - 1))
  BY <1>1, FS_Interval
<1>3. x >= 0 => x \in Span(x + 1) /\ Span(x + 1) \ {x} = Span(x)
  BY DEF Span
<1>4. x < 0 => x \in Span(x) /\ Span(x) \ {x} = Span(x + 1)
  BY DEF Span
<1> QED BY <1>2, <1>3, <1>4 DEF Span

(* One piece more in the list. *)
LEMMA DriftSteps ==
  ASSUME NEW x \in Int
  PROVE  /\ Drift(x) \in Nat /\ Drift(x + 1) \in Nat
         /\ Drift(x + 1) = Drift(x) + Bid(0) - Bid(x)
         /\ Bid(0) \in Nat /\ Bid(x) \in Nat
<1>0. \A k \in Int : Slope[k] \in Nat /\ Slope[k] \in Int
  BY SlopeIs
<1>1. ASSUME NEW y \in Int PROVE Drift(y) \in Nat
  <2>1. IsFiniteSet(Span(y)) /\ \A k \in Span(y) : Slope[k] \in Nat
    BY <1>0, SpanIs
  <2> QED BY <2>1, SumOfNats DEF Drift
<1>2. x + 1 \in Int
  OBVIOUS
<1>3. Bid(0) \in Nat /\ Bid(x) \in Nat
  <2>1. 0 \in Int /\ 0 <= 0 /\ x <= x
    OBVIOUS
  <2> QED BY <2>1, PricesFall
<1>4. CASE x >= 0
  <2>1. PICK S, T : S = Span(x + 1) /\ T = Span(x)
    OBVIOUS
  <2>2. IsFiniteSet(S) /\ x \in S /\ S \ {x} = T /\ \A k \in S : Slope[k] \in Int
    BY <1>0, <1>2, <1>4, <2>1, SpanIs
  <2>3. SumFunctionOnSet(Slope, S) = Slope[x] + SumFunctionOnSet(Slope, S \ {x})
    BY ONLY <2>2, SumOneMore
  <2>4. Drift(x + 1) = Slope[x] + Drift(x)
    BY <2>1, <2>2, <2>3 DEF Drift
  <2>5. Slope[x] = Bid(0) - Bid(x)
    BY <1>4, SlopeIs
  <2> QED BY <1>1, <1>2, <1>3, <2>4, <2>5
<1>5. CASE x < 0
  <2>1. PICK S, T : S = Span(x) /\ T = Span(x + 1)
    OBVIOUS
  <2>2. IsFiniteSet(S) /\ x \in S /\ S \ {x} = T /\ \A k \in S : Slope[k] \in Int
    BY <1>0, <1>5, <2>1, SpanIs
  <2>3. SumFunctionOnSet(Slope, S) = Slope[x] + SumFunctionOnSet(Slope, S \ {x})
    BY ONLY <2>2, SumOneMore
  <2>4. Drift(x) = Slope[x] + Drift(x + 1)
    BY <2>1, <2>2, <2>3 DEF Drift
  <2>5. Slope[x] = Bid(x) - Bid(0)
    <3>1. ~(x >= 0)
      BY <1>5
    <3> QED BY <3>1, SlopeIs
  <2>6. Drift(x) \in Nat /\ Drift(x + 1) \in Nat
    BY <1>1, <1>2
  <2> QED BY <1>3, <2>4, <2>5, <2>6
<1> QED BY <1>4, <1>5

LEMMA DriftAtRest ==
  Drift(0) = 0
<1>1. Span(0) = {}
  BY DEF Span
<1> QED BY <1>1, SumOfNone DEF Drift

(* Where no piece is between players and shop, prices are those of the level. *)
LEMMA LevelIs ==
  ASSUME ShopInv, ~raced, NEW g \in Good, Fetching(g) = {}, Bringing(g) = {}
  PROVE  /\ AppraiseItem(g) = Bid(Level(g)) /\ SalePrice(g) = Ask(Level(g))
         /\ g \in listed => Level(g) = amount[g] - Stock[g] /\ Held(g) \in Int /\ amount[g] \in Nat
<1>1. TypeOK /\ Balanced /\ StockListed /\ Stock[g] \in Nat
  BY ShopAssumption DEF ShopInv, Typed, Settled
<1>2. Held(g) \in Int
  <2>1. PICK f : f = [q \in Player |-> inventory[q][g]]
    OBVIOUS
  <2>2. f \in [Player -> Int] /\ IsFiniteSet(Player)
    BY <1>1, <2>1, ShopAssumption DEF TypeOK
  <2>3. SumFunction(f) \in Int
    BY <2>2, SumType
  <2> QED BY <2>1, <2>3 DEF Held
<1>3. CASE g \in listed
  <2>1. amount[g] + Held(g) = supply[g] /\ amount[g] >= 0 /\ amount[g] \in Int /\ supply[g] \in Int
    BY <1>1, <1>3 DEF Balanced, TypeOK
  <2>2. Level(g) = amount[g] - Stock[g]
    BY <1>1, <1>2, <1>3, <2>1 DEF Level
  <2>3. Stock[g] - Count(g) = 0 - Level(g)
    BY <1>1, <1>3, <2>1, <2>2 DEF Count
  <2>4. DeltaPercentMod(g) = (0 - Level(g)) * ShopNormalDeltaRate
    BY <2>3 DEF DeltaPercentMod
  <2> QED BY <1>2, <2>1, <2>2, <2>4 DEF AppraiseItem, SalePrice, Bid, Ask
<1>4. CASE g \notin listed
  <2>1. Stock[g] = 0 /\ Count(g) = 0 /\ Level(g) = 0
    BY <1>1, <1>4 DEF StockListed, Count, Level
  <2>2. DeltaPercentMod(g) = (0 - Level(g)) * ShopNormalDeltaRate
    BY <2>1 DEF DeltaPercentMod
  <2> QED BY <1>4, <2>2 DEF AppraiseItem, SalePrice, Bid, Ask
<1> QED BY <1>3, <1>4

LEMMA WorthType ==
  ASSUME TypeOK, NEW g \in Good
  PROVE  /\ Held(g) \in Int /\ Cardinality(Player) * Owned[g] \in Int /\ Level(g) \in Int
         /\ Bid(0) \in Nat /\ Drift(Level(g)) \in Nat /\ Worth(g) \in Int
<1>1. Held(g) \in Int
  <2>1. PICK f : f = [q \in Player |-> inventory[q][g]]
    OBVIOUS
  <2>2. f \in [Player -> Int] /\ IsFiniteSet(Player)
    BY <2>1, ShopAssumption DEF TypeOK
  <2>3. SumFunction(f) \in Int
    BY <2>2, SumType
  <2> QED BY <2>1, <2>3 DEF Held
<1>2. Cardinality(Player) * Owned[g] \in Int
  <2>1. Cardinality(Player) \in Nat /\ Owned[g] \in Nat
    BY ShopAssumption, FS_CardinalityType
  <2> QED BY <2>1
<1>3. Level(g) \in Int
  <2>1. supply[g] \in Int /\ Stock[g] \in Nat
    BY ShopAssumption DEF TypeOK
  <2> QED BY <1>1, <2>1 DEF Level
<1>4. Bid(0) \in Nat /\ Drift(Level(g)) \in Nat
  BY <1>3, DriftSteps
<1>5. Worth(g) \in Int
  <2>1. Held(g) - Cardinality(Player) * Owned[g] \in Int
    BY <1>1, <1>2
  <2>2. Bid(0) * (Held(g) - Cardinality(Player) * Owned[g]) \in Int
    BY <1>4, <2>1
  <2> QED BY <1>4, <2>2 DEF Worth
<1> QED BY <1>1, <1>2, <1>3, <1>4, <1>5

LEMMA WorthTyped == TypeOK => \A g \in Good : Worth(g) \in Int
BY WorthType

(* ... after a step as before it. *)
LEMMA WorthNext == (TypeOK => \A g \in Good : Worth(g) \in Int)'
BY WorthTyped, PTL

(* A trade changes one purse, and the worth of one good. *)
LEMMA OneTrade ==
  ASSUME TypeOK, TypeOK', NEW p \in Player, NEW g \in Good,
         \A q \in Player \ {p} : coins'[q] = coins[q],
         \A h \in Good \ {g} : Worth(h)' = Worth(h),
         coins'[p] + Worth(g)' <= coins[p] + Worth(g),
         NoGain
  PROVE  NoGain'
<1>1. PICK f, e : f = [h \in Good |-> Worth(h)] /\ e = [h \in Good |-> Worth(h)']
  OBVIOUS
<1>2. \A h \in Good : Worth(h) \in Int
  BY WorthType
<1>3. \A h \in Good : Worth(h)' \in Int
  BY WorthNext
<1>4. f \in [Good -> Int] /\ e \in [Good -> Int] /\ f[g] = Worth(g) /\ e[g] = Worth(g)' /\ \A h \in Good \ {g} : f[h] = e[h]
  BY <1>1, <1>2, <1>3
<1>5. SumFunction(e) = SumFunction(f) - f[g] + e[g] /\ SumFunction(f) \in Int /\ IsFiniteSet(Good)
  BY <1>4, SumChanges, SumType, ShopAssumption
<1>6. Stake = SumFunction(f) /\ Stake' = SumFunction(e)
  BY <1>1 DEF Stake
<1>7. PICK c, d : c = coins /\ d = coins'
  OBVIOUS
<1>8. c \in [Player -> Int] /\ d \in [Player -> Int] /\ IsFiniteSet(Player) /\ \A q \in Player \ {p} : c[q] = d[q]
  BY <1>7, ShopAssumption DEF TypeOK
<1>9. SumFunction(d) = SumFunction(c) - c[p] + d[p] /\ SumFunction(c) \in Int
  BY <1>8, SumChanges, SumType
<1>10. Purse = SumFunction(c) /\ Purse' = SumFunction(d)
  BY <1>7 DEF Purse
<1>11. c[p] \in Int /\ d[p] \in Int /\ f[g] \in Int /\ e[g] \in Int /\ d[p] + e[g] <= c[p] + f[g]
  BY <1>4, <1>7, <1>8
<1>12. Purse' + Stake' <= Purse + Stake /\ {Purse, Purse', Stake, Stake'} \subseteq Int
  BY <1>5, <1>6, <1>9, <1>10, <1>11
<1>13. Cardinality(Player) * Coins \in Int
  <2>1. Cardinality(Player) \in Nat /\ Coins \in Nat
    BY ShopAssumption, FS_CardinalityType
  <2> QED BY <2>1
<1> QED BY <1>12, <1>13 DEF NoGain

LEMMA NoTrade ==
  ASSUME TypeOK, UNCHANGED <<listed, inventory, supply, coins>>
  PROVE  NoGain' <=> NoGain
<1>1. \A h \in Good : Held(h)' = Held(h)
  BY HeldStays
<1>2. \A h \in Good : Worth(h)' = Worth(h)
  BY <1>1 DEF Worth, Level
<1>3. Stake' = Stake
  BY <1>2 DEF Stake
<1> QED BY <1>3 DEF NoGain, Purse

LEMMA SellGainsNone ==
  ASSUME ShopInv, Typed', NEW p \in Player, NEW g \in Good, Sell(p, g), ~raced, ~raced', NoGain
  PROVE  NoGain'
<1>1. TypeOK /\ TypeOK' /\ AllIdle
  BY DEF ShopInv, Typed, Sell, Begin
<1>2. Fetching(g) = {} /\ Bringing(g) = {}
  BY <1>1 DEF AllIdle, Fetching, Bringing
<1>3. inventory'[p][g] = inventory[p][g] + (-1) /\ inventory' \in [Player -> [Good -> Nat]]
      /\ \A q \in Player, h \in Good : q # p \/ h # g => inventory'[q][h] = inventory[q][h]
  <2>1. inventory' = [inventory EXCEPT ![p][g] = inventory[p][g] - 1] /\ inventory \in [Player -> [Good -> Nat]]
    BY <1>1 DEF Sell, TypeOK
  <2>2. inventory' \in [Player -> [Good -> Nat]]
    BY <1>1 DEF TypeOK
  <2> QED BY <2>1, <2>2
<1>4. Held(g)' = Held(g) + (-1) /\ \A h \in Good \ {g} : Held(h)' = Held(h)
  <2>1. -1 \in Int
    OBVIOUS
  <2> QED BY <1>1, <1>3, <2>1, HeldChanges
<1>5. UNCHANGED <<listed, supply>>
  BY DEF Sell, Begin
<1>6. \A h \in Good \ {g} : Worth(h)' = Worth(h)
  BY <1>4, <1>5 DEF Worth, Level
<1>7. PICK b, x, n, u, o : b = Bid(0) /\ x = Level(g) /\ n = Cardinality(Player) * Owned[g] /\ u = Held(g) /\ o = Bid(x)
  OBVIOUS
<1>8. b \in Nat /\ x \in Int /\ n \in Int /\ u \in Int
  BY <1>1, <1>7, WorthType
<1>9. o \in Nat /\ Drift(x) \in Nat /\ Drift(x + 1) \in Nat /\ Drift(x + 1) = Drift(x) + b - o
  BY <1>7, <1>8, DriftSteps
<1>10. AppraiseItem(g) = o
  BY <1>2, <1>7, LevelIs
<1>11. coins'[p] = coins[p] + o /\ coins[p] \in Int /\ \A q \in Player \ {p} : coins'[q] = coins[q]
  BY <1>1, <1>10 DEF Sell, TypeOK
<1>12. b * (u - n) \in Int /\ b * (u - 1 - n) = b * (u - n) - b
  BY <1>8
<1>13. Worth(g) = b * (u - n) + Drift(x) /\ Worth(g)' = b * (u - 1 - n) + Drift(Level(g)')
  <2>1. Held(g)' = u - 1
    BY <1>4, <1>7, <1>8
  <2> QED BY <1>7, <2>1 DEF Worth
<1>14. Worth(g)' = Worth(g) - o /\ Worth(g) \in Int
  <2>1. CASE g \in listed
    <3>1. supply[g] \in Int /\ Stock[g] \in Nat
      BY <1>1, ShopAssumption DEF TypeOK
    <3>2. x = supply[g] - u - Stock[g] /\ Level(g)' = supply[g] - (u - 1) - Stock[g]
      BY <1>4, <1>5, <1>7, <1>8, <2>1 DEF Level
    <3>3. Level(g)' = x + 1
      BY <1>8, <3>1, <3>2
    <3> QED BY <1>8, <1>9, <1>12, <1>13, <3>3
  <2>2. CASE g \notin listed
    <3>1. x = 0 /\ Level(g)' = 0
      BY <1>5, <1>7, <2>2 DEF Level
    <3>2. o = b
      BY <1>7, <3>1
    <3> QED BY <1>8, <1>9, <1>12, <1>13, <3>1, <3>2
  <2> QED BY <2>1, <2>2
<1>15. coins'[p] + Worth(g)' <= coins[p] + Worth(g)
  BY <1>9, <1>11, <1>14
<1> QED BY <1>1, <1>6, <1>11, <1>15, OneTrade

LEMMA PayGainsNone ==
  ASSUME ShopInv, Typed', NEW p \in Player, Pay(p), ~raced, NoGain, Margin
  PROVE  NoGain'
<1>1. TypeOK /\ TypeOK' /\ Alone /\ Followed
  BY DEF ShopInv, Typed, Settled
<1>2. PICK g \in Good : g = good[p] /\ g \in listed
  BY <1>1 DEF Pay, At, Followed, ShopInv, Typed, Aimed
<1>3. Fetching(g) = {} /\ Bringing(g) = {}
  BY <1>1 DEF Pay, At, Alone, Fetching, Bringing
<1>4. inventory'[p][g] = inventory[p][g] + 1 /\ inventory' \in [Player -> [Good -> Nat]]
      /\ \A q \in Player, h \in Good : q # p \/ h # g => inventory'[q][h] = inventory[q][h]
  <2>1. inventory' = [inventory EXCEPT ![p][g] = inventory[p][g] + 1] /\ inventory \in [Player -> [Good -> Nat]]
    BY <1>1, <1>2 DEF Pay, TypeOK
  <2>2. inventory' \in [Player -> [Good -> Nat]]
    BY <1>1 DEF TypeOK
  <2> QED BY <2>1, <2>2
<1>5. Held(g)' = Held(g) + 1 /\ \A h \in Good \ {g} : Held(h)' = Held(h)
  BY <1>1, <1>4, HeldChanges
<1>6. UNCHANGED <<listed, supply>>
  BY DEF Pay, history
<1>7. \A h \in Good \ {g} : Worth(h)' = Worth(h)
  BY <1>5, <1>6 DEF Worth, Level
<1>8. PICK b, x, n, u, o, a : b = Bid(0) /\ x = Level(g) /\ n = Cardinality(Player) * Owned[g] /\ u = Held(g)
                               /\ o = Bid(x - 1) /\ a = Ask(x)
  OBVIOUS
<1>9. b \in Nat /\ x \in Int /\ n \in Int /\ u \in Int
  BY <1>1, <1>8, WorthType
<1>10. o \in Nat /\ Drift(x - 1) \in Nat /\ Drift(x) \in Nat /\ Drift(x) = Drift(x - 1) + b - o
  <2>1. PICK y \in Int : y = x - 1
    BY <1>9
  <2>2. y + 1 = x
    BY <1>9, <2>1
  <2>3. /\ Drift(y) \in Nat /\ Drift(y + 1) \in Nat /\ Bid(y) \in Nat
        /\ Drift(y + 1) = Drift(y) + Bid(0) - Bid(y)
    BY DriftSteps
  <2> QED BY <1>8, <2>1, <2>2, <2>3
<1>11. o <= a /\ a \in Nat
  <2>1. x <= x
    BY <1>9
  <2> QED BY <1>8, <1>9, <2>1, AskAboveBid, PricesFall
<1>12. SalePrice(g) = a
  BY <1>3, <1>8, LevelIs
<1>13. coins'[p] = coins[p] - a /\ coins[p] \in Int /\ \A q \in Player \ {p} : coins'[q] = coins[q]
  BY <1>1, <1>2, <1>12 DEF Pay, TypeOK
<1>14. b * (u - n) \in Int /\ b * (u + 1 - n) = b * (u - n) + b
  BY <1>9
<1>15. Worth(g) = b * (u - n) + Drift(x) /\ Worth(g)' = b * (u + 1 - n) + Drift(Level(g)')
  <2>1. Held(g)' = u + 1
    BY <1>5, <1>8, <1>9
  <2>2. Worth(g)' = Bid(0) * (Held(g)' - Cardinality(Player) * Owned[g]) + Drift(Level(g)')
    BY DEF Worth
  <2>3. Worth(g) = Bid(0) * (Held(g) - Cardinality(Player) * Owned[g]) + Drift(Level(g))
    BY DEF Worth
  <2>4. Worth(g) = b * (u - n) + Drift(x)
    BY <1>8, <2>3
  <2>5. Worth(g)' = b * (u + 1 - n) + Drift(Level(g)')
    BY <1>8, <1>9, <2>1, <2>2
  <2> QED BY <2>4, <2>5
<1>16. Level(g)' = x - 1
  <2>1. supply[g] \in Int /\ Stock[g] \in Nat
    BY <1>1, ShopAssumption DEF TypeOK
  <2>2. x = supply[g] - u - Stock[g] /\ Level(g)' = supply[g] - (u + 1) - Stock[g]
    BY <1>2, <1>5, <1>6, <1>8 DEF Level
  <2> QED BY <1>9, <2>1, <2>2
<1>17. Worth(g)' = Worth(g) + o /\ Worth(g) \in Int
  BY <1>9, <1>10, <1>14, <1>15, <1>16
<1>18. coins'[p] + Worth(g)' <= coins[p] + Worth(g)
  BY <1>10, <1>11, <1>13, <1>17
<1> QED BY <1>1, <1>7, <1>13, <1>18, OneTrade

(* What the ticker does to a level: below 0 it rises, above 0 it falls.  The
   players never gain by it. *)
Eases(x, y) == y = x \/ (x < 0 /\ y = x + 1) \/ (x > 0 /\ y = x - 1)

LEMMA DriftEases ==
  ASSUME NEW x \in Int, NEW y \in Int, Eases(x, y)
  PROVE  Drift(y) <= Drift(x)
<1>1. CASE y = x
  <2>1. Drift(x) \in Nat
    BY DriftSteps
  <2> QED BY <1>1, <2>1
<1>2. CASE x < 0 /\ y = x + 1
  <2>1. /\ Drift(x) \in Nat /\ Drift(x + 1) \in Nat /\ Bid(x) \in Nat /\ Bid(0) \in Nat
        /\ Drift(x + 1) = Drift(x) + Bid(0) - Bid(x)
    BY DriftSteps
  <2>2. Bid(0) <= Bid(x)
    <3>1. 0 \in Int /\ x <= 0
      BY <1>2
    <3> QED BY <3>1, PricesFall
  <2> QED BY <1>2, <2>1, <2>2
<1>3. CASE x > 0 /\ y = x - 1
  <2>1. y + 1 = x
    BY <1>3
  <2>2. /\ Drift(y) \in Nat /\ Drift(y + 1) \in Nat /\ Bid(y) \in Nat /\ Bid(0) \in Nat
        /\ Drift(y + 1) = Drift(y) + Bid(0) - Bid(y)
    BY DriftSteps
  <2>3. Bid(y) <= Bid(0)
    <3>1. 0 \in Int /\ 0 <= y
      BY <1>3
    <3> QED BY <3>1, PricesFall
  <2> QED BY <2>1, <2>2, <2>3
<1> QED BY <1>1, <1>2, <1>3 DEF Eases

LEMMA SumOfLess ==
  ASSUME NEW S, IsFiniteSet(S), NEW f \in [S -> Int], NEW g \in [S -> Int], \A k \in S : g[k] <= f[k]
  PROVE  SumFunction(g) <= SumFunction(f) /\ SumFunction(f) \in Int /\ SumFunction(g) \in Int
<1>1. PICK h : h = [k \in S |-> f[k] - g[k]]
  OBVIOUS
<1>2. \A k \in S : h[k] \in Nat /\ h[k] \in Int /\ g[k] \in Int /\ f[k] = h[k] + g[k]
  BY <1>1
<1>3. SumFunctionOnSet(h, S) \in Nat
  BY <1>2, SumOfNats
<1>4. SumFunctionOnSet(f, S) = SumFunctionOnSet(h, S) + SumFunctionOnSet(g, S)
  BY <1>2, SumPlus
<1>5. SumFunction(f) = SumFunctionOnSet(f, S) /\ SumFunction(g) = SumFunctionOnSet(g, S)
  <2>1. DOMAIN f = S /\ DOMAIN g = S
    OBVIOUS
  <2> QED BY <2>1 DEF SumFunction
<1>6. SumFunction(f) \in Int /\ SumFunction(g) \in Int
  BY SumType
<1> QED BY <1>3, <1>4, <1>5, <1>6

LEMMA TickerGainsNone ==
  ASSUME ShopInv, Typed', RunTicker, ~raced, NoGain
  PROVE  NoGain'
<1>1. TypeOK /\ TypeOK' /\ AllIdle /\ StockListed /\ UNCHANGED <<inventory, coins>>
  BY DEF ShopInv, Typed, Settled, RunTicker, TypeOK, purse
<1>2. CASE UNCHANGED <<listed, supply>>
  BY <1>1, <1>2, NoTrade
<1>3. CASE /\ amount' = Restocked
           /\ listed' = listed \ Emptied
           /\ supply' = [g \in Good |-> supply[g] + Restocked[g] - amount[g]]
  <2>1. \A g \in Good : Held(g)' = Held(g)
    BY <1>1, HeldStays
  <2>2. ASSUME NEW g \in Good PROVE Worth(g)' <= Worth(g)
    <3>1. PICK x, y : x = Level(g) /\ y = Level(g)'
      OBVIOUS
    <3>2. Fetching(g) = {} /\ Bringing(g) = {}
      BY <1>1 DEF AllIdle, Fetching, Bringing
    <3>3. g \in listed => x = amount[g] - Stock[g] /\ Held(g) \in Int /\ amount[g] \in Nat
      BY <3>1, <3>2, LevelIs
    <3>4. Stock[g] \in Nat /\ supply[g] \in Int /\ Held(g) \in Int
      BY <1>1, ShopAssumption, WorthType DEF TypeOK
    <3>5. x \in Int /\ y \in Int /\ (y = x \/ (x < 0 /\ y = x + 1) \/ (x > 0 /\ y = x - 1))
      <4>1. CASE g \notin listed
        <5>1. x = 0 /\ y = 0
          BY <1>3, <3>1, <4>1 DEF Level
        <5> QED BY <5>1
      <4>2. CASE g \in listed
        <5>1. x = amount[g] - Stock[g] /\ amount[g] \in Nat /\ x = supply[g] - Held(g) - Stock[g]
          BY <3>1, <3>3, <4>2 DEF Level
        <5>2. Restocked[g] = IF amount[g] # Stock[g] THEN StepToward(g) ELSE amount[g]
          BY <4>2 DEF Restocked
        <5>3. StepToward(g) = IF Stock[g] > amount[g] THEN amount[g] + 1 ELSE amount[g] - 1
          BY <3>4, <5>1 DEF StepToward
        <5>4. /\ Restocked[g] \in Int
              /\ \/ amount[g] = Stock[g] /\ Restocked[g] = amount[g]
                 \/ amount[g] < Stock[g] /\ Restocked[g] = amount[g] + 1
                 \/ amount[g] > Stock[g] /\ Restocked[g] = amount[g] - 1
          BY <3>4, <5>1, <5>2, <5>3
        <5>5. CASE g \in listed'
          <6>1. y = (supply[g] + Restocked[g] - amount[g]) - Held(g) - Stock[g]
            BY <1>3, <2>1, <3>1, <5>5 DEF Level
          <6> QED BY <3>4, <5>1, <5>4, <6>1
        <5>6. CASE g \notin listed'
          <6>1. g \in Emptied
            BY <1>3, <4>2, <5>6
          <6>2. Restocked[g] = 0 /\ amount[g] # Stock[g]
            BY <6>1 DEF Emptied
          <6>3. x = 1 /\ y = 0
            BY <3>1, <3>4, <5>1, <5>4, <5>6, <6>2 DEF Level
          <6> QED BY <6>3
        <5> QED BY <5>5, <5>6
      <4> QED BY <4>1, <4>2
    <3>6. Drift(y) <= Drift(x) /\ Drift(x) \in Nat /\ Drift(y) \in Nat
      <4>1. Drift(x) \in Nat /\ Drift(y) \in Nat
        BY <3>5, DriftSteps
      <4>2. Eases(x, y)
        BY <3>5 DEF Eases
      <4>3. Drift(y) <= Drift(x)
        BY <3>5, <4>2, DriftEases
      <4> QED BY <4>1, <4>3
    <3>7. PICK w : w = Bid(0) * (Held(g) - Cardinality(Player) * Owned[g])
      OBVIOUS
    <3>8. w \in Int
      <4>1. Held(g) - Cardinality(Player) * Owned[g] \in Int /\ Bid(0) \in Int
        BY <1>1, WorthType
      <4> QED BY <3>7, <4>1
    <3>9. Worth(g) = w + Drift(x) /\ Worth(g)' = w + Drift(y)
      BY <2>1, <3>1, <3>7 DEF Worth
    <3> QED BY <3>6, <3>8, <3>9
  <2>3. PICK f, e : f = [h \in Good |-> Worth(h)] /\ e = [h \in Good |-> Worth(h)']
    OBVIOUS
  <2>4. f \in [Good -> Int] /\ e \in [Good -> Int] /\ IsFiniteSet(Good) /\ \A h \in Good : e[h] <= f[h]
    <3>1. \A h \in Good : Worth(h) \in Int /\ Worth(h)' \in Int
      BY <1>1, WorthTyped, WorthNext
    <3> QED BY <2>2, <2>3, <3>1, ShopAssumption
  <2>5. SumFunction(e) <= SumFunction(f) /\ SumFunction(f) \in Int /\ SumFunction(e) \in Int
    BY <2>4, SumOfLess
  <2>6. Stake = SumFunction(f) /\ Stake' = SumFunction(e)
    BY <2>3 DEF Stake
  <2>7. Purse' = Purse /\ Purse \in Int
    <3>1. coins \in [Player -> Int] /\ IsFiniteSet(Player)
      BY <1>1, ShopAssumption DEF TypeOK
    <3> QED BY <1>1, <3>1, SumType DEF Purse
  <2>8. Cardinality(Player) * Coins \in Int
    <3>1. Cardinality(Player) \in Nat /\ Coins \in Nat
      BY ShopAssumption, FS_CardinalityType
    <3> QED BY <3>1
  <2> QED BY <2>5, <2>6, <2>7, <2>8 DEF NoGain
<1> QED BY <1>1, <1>2, <1>3 DEF RunTicker

LEMMA FirstNoGain ==
  ASSUME Init
  PROVE  NoGain
<1>1. ShopInv /\ TypeOK
  BY InitShop DEF ShopInv, Typed
<1>2. ASSUME NEW g \in Good PROVE Worth(g) = 0
  <2>1. PICK f, n : f = [q \in Player |-> inventory[q][g]] /\ n = Cardinality(Player) * Owned[g]
    OBVIOUS
  <2>2. Held(g) = SumFunctionOnSet(f, Player)
    <3>1. Held(g) = SumFunction(f) /\ DOMAIN f = Player
      BY <2>1 DEF Held
    <3> QED BY <3>1 DEF SumFunction
  <2>3. Owned[g] \in Int /\ IsFiniteSet(Player) /\ \A q \in Player : f[q] = Owned[g]
    BY <2>1, ShopAssumption DEF Init
  <2>4. Held(g) = n
    BY <2>1, <2>2, <2>3, SumOfEqual
  <2>5. n \in Int /\ Bid(0) \in Nat /\ Stock[g] \in Nat
    BY <1>1, <2>1, WorthType, ShopAssumption
  <2>6. Level(g) = 0
    <3>1. supply[g] = Stock[g] + n
      BY <2>1 DEF Init
    <3> QED BY <2>4, <2>5, <3>1 DEF Level
  <2>7. Bid(0) * (n - n) = 0
    BY <2>5
  <2> QED BY <2>1, <2>4, <2>6, <2>7, DriftAtRest DEF Worth
<1>3. PICK f : f = [h \in Good |-> Worth(h)]
  OBVIOUS
<1>4. Stake = 0
  <2>1. IsFiniteSet(Good) /\ 0 \in Int /\ DOMAIN f = Good /\ \A h \in Good : f[h] = 0
    BY <1>2, <1>3, ShopAssumption
  <2>2. SumFunctionOnSet(f, Good) = Cardinality(Good) * 0 /\ Cardinality(Good) \in Nat
    BY <2>1, SumOfEqual, FS_CardinalityType
  <2>3. Stake = SumFunctionOnSet(f, Good)
    BY <1>3, <2>1 DEF Stake, SumFunction
  <2> QED BY <2>2, <2>3
<1>5. Purse = Cardinality(Player) * Coins
  <2>1. IsFiniteSet(Player) /\ Coins \in Int /\ DOMAIN coins = Player /\ \A q \in Player : coins[q] = Coins
    BY ShopAssumption DEF Init
  <2>2. SumFunctionOnSet(coins, Player) = Cardinality(Player) * Coins
    BY <2>1, SumOfEqual
  <2> QED BY <2>1, <2>2 DEF Purse, SumFunction
<1>6. Cardinality(Player) * Coins \in Int
  <2>1. Cardinality(Player) \in Nat /\ Coins \in Nat
    BY ShopAssumption, FS_CardinalityType
  <2> QED BY <2>1
<1> QED BY <1>4, <1>5, <1>6 DEF NoGain

LEMMA NoGainTells ==
  ASSUME TypeOK, NoGain
  PROVE  NoMoneyPump
<1> SUFFICES ASSUME \A g \in Good : Held(g) >= Cardinality(Player) * Owned[g]
             PROVE  SumFunction(coins) <= Cardinality(Player) * Coins
  BY DEF NoMoneyPump
<1>1. ASSUME NEW g \in Good PROVE Worth(g) \in Nat
  <2>1. PICK b, u, n, d : b = Bid(0) /\ u = Held(g) /\ n = Cardinality(Player) * Owned[g] /\ d = Drift(Level(g))
    OBVIOUS
  <2>2. b \in Nat /\ u \in Int /\ n \in Int /\ d \in Nat /\ u >= n
    BY <2>1, WorthType
  <2>3. u - n \in Nat
    BY <2>2
  <2>4. b * (u - n) \in Nat
    BY <2>2, <2>3
  <2>5. Worth(g) = b * (u - n) + d
    BY <2>1 DEF Worth
  <2> QED BY <2>2, <2>4, <2>5
<1>2. PICK f : f = [h \in Good |-> Worth(h)]
  OBVIOUS
<1>3. Stake \in Nat
  <2>1. IsFiniteSet(Good) /\ DOMAIN f = Good /\ \A h \in Good : f[h] \in Nat
    BY <1>1, <1>2, ShopAssumption
  <2>2. SumFunctionOnSet(f, Good) \in Nat
    BY <2>1, SumOfNats
  <2> QED BY <1>2, <2>1, <2>2 DEF Stake, SumFunction
<1>4. Purse \in Int
  <2>1. coins \in [Player -> Int] /\ IsFiniteSet(Player)
    BY ShopAssumption DEF TypeOK
  <2> QED BY <2>1, SumType DEF Purse
<1>5. Cardinality(Player) * Coins \in Int
  <2>1. Cardinality(Player) \in Nat /\ Coins \in Nat
    BY ShopAssumption, FS_CardinalityType
  <2> QED BY <2>1
<1>6. Purse <= Cardinality(Player) * Coins
  BY <1>3, <1>4, <1>5 DEF NoGain
<1> QED BY <1>6 DEF Purse

LEMMA StepGainsNone ==
  ASSUME Margin, ShopInv, [Next]_vars, ~raced => NoGain
  PROVE  ~raced' => NoGain'
<1> SUFFICES ASSUME ~raced' PROVE NoGain'
  OBVIOUS
<1>1. TypeOK /\ Typed'
  BY TypesKept DEF ShopInv, Typed
<1>2. ~raced /\ NoGain
  <2>1. ~raced
    BY <1>1 DEF Next, Continue, Pay, Refuse, CheckCount, RemoveLoad, RemoveStore, Forget, AddLoad, AddStore,
                Buy, Sell, Begin, StartTasks, RunTicker, history, vars, TypeOK
  <2> QED BY <2>1
<1>3. ASSUME NEW p \in Player, Pay(p) PROVE NoGain'
  BY <1>1, <1>2, <1>3, PayGainsNone
<1>4. ASSUME NEW p \in Player, NEW g \in Good, Sell(p, g) PROVE NoGain'
  BY <1>1, <1>2, <1>4, SellGainsNone
<1>5. CASE RunTicker
  BY <1>1, <1>2, <1>5, TickerGainsNone
<1>6. CASE UNCHANGED <<listed, inventory, supply, coins>>
  BY <1>1, <1>2, <1>6, NoTrade
<1>7. ASSUME NEW p \in Player, Continue(p), ~Pay(p) PROVE UNCHANGED <<listed, inventory, supply, coins>>
  BY <1>7 DEF Continue, Refuse, CheckCount, RemoveLoad, RemoveStore, Forget, AddLoad, AddStore, purse, history
<1>8. ASSUME NEW p \in Player, NEW g \in Good, Buy(p, g) PROVE UNCHANGED <<listed, inventory, supply, coins>>
  BY <1>8 DEF Buy, Begin, purse
<1>9. CASE StartTasks \/ UNCHANGED vars
  BY <1>6, <1>9 DEF StartTasks, purse, history, vars
<1> QED BY <1>3, <1>4, <1>5, <1>6, <1>7, <1>8, <1>9 DEF Next

(* No trades one after the other and no restocks, in whatever order, make the
   players richer: for any stock, any prices and any number of players, at a shop
   that asks for a piece at least what it then pays to have it back. *)
THEOREM TradingMakesNoneRich == Margin => (Spec => []NoMoneyPump)
<1> SUFFICES ASSUME Margin PROVE Spec => []NoMoneyPump
  OBVIOUS
<1> DEFINE I == ShopInv /\ (~raced => NoGain)
<1>1. Init => I
  BY InitShop, FirstNoGain
<1>2. I /\ [Next]_vars => I'
  BY NextShop, StepGainsNone
<1>3. I => NoMoneyPump
  <2>1. ASSUME I, ~raced PROVE NoMoneyPump
    BY <2>1, NoGainTells DEF ShopInv, Typed
  <2>2. ASSUME raced PROVE NoMoneyPump
    BY <2>2 DEF NoMoneyPump
  <2> QED BY <2>1, <2>2
<1> QED BY <1>1, <1>2, <1>3, PTL DEF Spec

-----------------------------------------------------------------------------
(* Lists of items. *)

LEMMA ListFacts ==
  ASSUME NEW l \in Seq(Item)
  PROVE  /\ Len(l) \in Nat /\ DOMAIN l = 1..Len(l) /\ IsFiniteSet(DOMAIN l) /\ Cardinality(DOMAIN l) = Len(l)
         /\ \A i \in DOMAIN l : l[i] \in Item /\ l[i].id \in Id /\ l[i].amount \in Nat /\ l[i].worn \in BOOLEAN
<1>1. Len(l) \in Nat /\ DOMAIN l = 1..Len(l) /\ \A i \in DOMAIN l : l[i] \in Item
  OBVIOUS
<1>2. IsFiniteSet(1..Len(l)) /\ Cardinality(1..Len(l)) = Len(l)
  BY <1>1, FS_Interval
<1>3. \A i \in DOMAIN l : l[i].id \in Id /\ l[i].amount \in Nat /\ l[i].worn \in BOOLEAN
  BY <1>1 DEF Item
<1> QED BY <1>1, <1>2, <1>3

(* The sum of what w gives each entry: the amount of an id, or the bonus of what is worn. *)
Weigh(l, w) == SumFunction([i \in DOMAIN l |-> w[l[i]]])

LEMMA WeighIs ==
  ASSUME NEW l \in Seq(Item), NEW w \in [Item -> Int], NEW f, \A i \in DOMAIN l : f[i] = w[l[i]]
  PROVE  /\ Weigh(l, w) = SumFunctionOnSet(f, DOMAIN l)
         /\ Weigh(l, w) \in Int /\ \A i \in DOMAIN l : f[i] \in Int
<1> DEFINE g == [i \in DOMAIN l |-> w[l[i]]]
<1>1. IsFiniteSet(DOMAIN l) /\ \A i \in DOMAIN l : w[l[i]] \in Int
  BY ListFacts
<1>2. DOMAIN g = DOMAIN l /\ \A i \in DOMAIN l : g[i] = f[i] /\ g[i] \in Int
  BY <1>1
<1>3. Weigh(l, w) = SumFunctionOnSet(g, DOMAIN l)
  BY <1>2 DEF Weigh, SumFunction
<1> HIDE DEF g
<1>4. SumFunctionOnSet(g, DOMAIN l) = SumFunctionOnSet(f, DOMAIN l) /\ SumFunctionOnSet(g, DOMAIN l) \in Int
  BY <1>1, <1>2, SumSame, SumInt
<1> QED BY <1>2, <1>3, <1>4

(* One entry changes. *)
LEMMA WeighChanges ==
  ASSUME NEW l \in Seq(Item), NEW m \in Seq(Item), NEW w \in [Item -> Int], Len(m) = Len(l),
         NEW i \in DOMAIN l, \A j \in DOMAIN l \ {i} : m[j] = l[j]
  PROVE  Weigh(m, w) = Weigh(l, w) - w[l[i]] + w[m[i]]
<1> DEFINE S == 1..Len(l)
           f == [j \in S |-> w[l[j]]]
           g == [j \in S |-> w[m[j]]]
<1>1. DOMAIN l = S /\ DOMAIN m = S /\ IsFiniteSet(S) /\ \A j \in S : l[j] \in Item /\ m[j] \in Item
  <2>1. DOMAIN l = 1..Len(l) /\ IsFiniteSet(DOMAIN l) /\ \A j \in DOMAIN l : l[j] \in Item
    BY ListFacts
  <2>2. DOMAIN m = 1..Len(m) /\ \A j \in DOMAIN m : m[j] \in Item
    BY ListFacts
  <2> QED BY <2>1, <2>2
<1>2. f \in [S -> Int] /\ g \in [S -> Int] /\ i \in S /\ \A j \in S \ {i} : f[j] = g[j]
  BY <1>1
<1>3. f[i] = w[l[i]] /\ g[i] = w[m[i]]
  BY <1>1
<1>4. Weigh(l, w) = SumFunction(f) /\ Weigh(m, w) = SumFunction(g)
  BY <1>1 DEF Weigh
<1> HIDE DEF f, g, S
<1>5. SumFunction(g) = SumFunction(f) - f[i] + g[i]
  BY ONLY <1>1, <1>2, SumChanges
<1> QED BY <1>3, <1>4, <1>5

(* One list after another. *)
LEMMA WeighConcat ==
  ASSUME NEW l \in Seq(Item), NEW m \in Seq(Item), NEW w \in [Item -> Int]
  PROVE  l \o m \in Seq(Item) /\ Weigh(l \o m, w) = Weigh(l, w) + Weigh(m, w)
<1> DEFINE c == l \o m
           A == 1..Len(l)
           B == {Len(l) + k : k \in 1..Len(m)}
           f == [i \in 1..Len(c) |-> w[c[i]]]
<1>1. /\ c \in Seq(Item) /\ Len(c) = Len(l) + Len(m) /\ Len(l) \in Nat /\ Len(m) \in Nat
      /\ \A i \in A : c[i] = l[i]
      /\ \A k \in 1..Len(m) : c[Len(l) + k] = m[k]
  <2>1. /\ c \in Seq(Item) /\ Len(c) = Len(l) + Len(m)
        /\ \A i \in 1..Len(l) + Len(m) : c[i] = IF i <= Len(l) THEN l[i] ELSE m[i - Len(l)]
    BY ConcatProperties
  <2>2. Len(l) \in Nat /\ Len(m) \in Nat
    BY ListFacts
  <2> HIDE DEF c
  <2>3. \A i \in A : c[i] = l[i]
    BY <2>1, <2>2
  <2>4. ASSUME NEW k \in 1..Len(m) PROVE c[Len(l) + k] = m[k]
    <3>1. Len(l) + k \in 1..Len(l) + Len(m) /\ ~(Len(l) + k <= Len(l)) /\ (Len(l) + k) - Len(l) = k
      BY <2>2
    <3> QED BY <2>1, <3>1
  <2> QED BY <2>1, <2>2, <2>3, <2>4
<1> HIDE DEF c
<1>2. DOMAIN c = 1..Len(c) /\ DOMAIN l = A /\ DOMAIN m = 1..Len(m) /\ IsFiniteSet(DOMAIN c) /\ IsFiniteSet(DOMAIN m)
  BY <1>1, ListFacts
<1>3. \A i \in DOMAIN c : f[i] = w[c[i]]
  BY <1>2
<1>4. A \in SUBSET (DOMAIN c) /\ (DOMAIN c) \ A = B
  <2>1. A \in SUBSET (DOMAIN c)
    BY <1>1, <1>2
  <2>2. ASSUME NEW i \in (DOMAIN c) \ A PROVE i \in B
    <3>1. i - Len(l) \in 1..Len(m) /\ i = Len(l) + (i - Len(l))
      BY <1>1, <1>2, <2>2
    <3> QED BY <3>1
  <2>3. ASSUME NEW k \in 1..Len(m) PROVE Len(l) + k \in (DOMAIN c) \ A
    BY <1>1, <1>2
  <2> QED BY <2>1, <2>2, <2>3
<1>5. \A i \in A : f[i] = w[l[i]]
  BY <1>1, <1>2, <1>4
<1>6. SumFunctionOnSet(f, DOMAIN c) = SumFunctionOnSet(f, A) + SumFunctionOnSet(f, (DOMAIN c) \ A)
  <2>1. \A i \in DOMAIN c : f[i] \in Int
    <3> HIDE DEF f
    <3> QED BY <1>1, <1>3, WeighIs
  <2> HIDE DEF f, A
  <2>2. PICK D, g, T : D = DOMAIN c /\ g = f /\ T = A
    OBVIOUS
  <2>3. IsFiniteSet(D) /\ T \in SUBSET D /\ \A i \in D : g[i] \in Int
    BY <1>2, <1>4, <2>1, <2>2
  <2>4. SumFunctionOnSet(g, D) = SumFunctionOnSet(g, T) + SumFunctionOnSet(g, D \ T)
    BY ONLY <2>3, SumSplit
  <2> QED BY <2>2, <2>4
<1>7. Weigh(c, w) = SumFunctionOnSet(f, DOMAIN c)
  <2> HIDE DEF f
  <2> QED BY <1>1, <1>3, WeighIs
<1>8. Weigh(l, w) = SumFunctionOnSet(f, A)
  <2> HIDE DEF f, A
  <2> QED BY <1>2, <1>5, WeighIs
<1>9. Weigh(m, w) = SumFunctionOnSet(f, B)
  <2> DEFINE S == 1..Len(m)
             g == [k \in S |-> w[m[k]]]
             h == [k \in S |-> Len(l) + k]
  <2>1. \A k \in S : g[k] \in Int /\ g[k] = f[h[k]]
    <3>1. ASSUME NEW k \in S PROVE g[k] \in Int /\ g[k] = f[h[k]]
      <4>1. Len(l) + k \in 1..Len(c) /\ c[Len(l) + k] = m[k] /\ m[k] \in Item
        BY <1>1, <1>2, ListFacts
      <4> QED BY <4>1
    <3> QED BY <3>1
  <2>2. \A a, b \in S : h[a] = h[b] => a = b
    BY <1>1
  <2>3. h \in Bijection(S, B)
    <3>1. h \in [S -> B] /\ \A t \in B : \E k \in S : h[k] = t
      OBVIOUS
    <3> QED BY <2>2, <3>1 DEF Bijection, Injection, Surjection, IsInjective
  <2>4. IsFiniteSet(S) /\ \A k \in DOMAIN m : g[k] = w[m[k]]
    BY <1>2
  <2>5. SumFunctionOnSet(g, S) = SumFunctionOnSet(f, B)
    <3> HIDE DEF g, h, f, S, B
    <3> QED BY <2>1, <2>3, <2>4, SumMapped
  <2>6. Weigh(m, w) = SumFunctionOnSet(g, DOMAIN m)
    <3> HIDE DEF g
    <3> QED BY <2>4, WeighIs
  <2> HIDE DEF g, h, f, B
  <2> QED BY <1>2, <2>5, <2>6
<1> HIDE DEF f, A, B
<1>10. Weigh(c, w) = Weigh(l, w) + Weigh(m, w)
  BY <1>4, <1>6, <1>7, <1>8, <1>9
<1> QED BY <1>1, <1>10 DEF c

(* Copies of one item. *)
LEMMA WeighCopies ==
  ASSUME NEW n \in Nat, NEW x \in Item, NEW w \in [Item -> Int]
  PROVE  /\ [k \in 1..n |-> x] \in Seq(Item) /\ Len([k \in 1..n |-> x]) = n
         /\ Weigh([k \in 1..n |-> x], w) = n * w[x]
<1> DEFINE m == [k \in 1..n |-> x]
           f == [k \in 1..n |-> w[x]]
<1>1. m \in Seq(Item) /\ Len(m) = n /\ DOMAIN m = 1..n
  OBVIOUS
<1>2. \A k \in DOMAIN m : f[k] = w[m[k]]
  OBVIOUS
<1>3. IsFiniteSet(1..n) /\ Cardinality(1..n) = n /\ w[x] \in Int /\ \A k \in 1..n : f[k] = w[x]
  BY FS_Interval
<1> HIDE DEF m, f
<1>4. Weigh(m, w) = SumFunctionOnSet(f, 1..n)
  BY <1>1, <1>2, WeighIs
<1>5. SumFunctionOnSet(f, 1..n) = Cardinality(1..n) * w[x]
  <2> DEFINE S == 1..n
  <2>1. IsFiniteSet(S) /\ w[x] \in Int /\ \A k \in S : f[k] = w[x]
    BY <1>3
  <2> HIDE DEF S
  <2>2. SumFunctionOnSet(f, S) = Cardinality(S) * w[x]
    BY <2>1, SumOfEqual
  <2> QED BY <2>2 DEF S
<1>6. m \in Seq(Item) /\ Len(m) = n /\ Weigh(m, w) = n * w[x]
  BY <1>1, <1>3, <1>4, <1>5
<1> QED BY <1>6 DEF m

LEMMA WeighAppend ==
  ASSUME NEW l \in Seq(Item), NEW x \in Item, NEW w \in [Item -> Int]
  PROVE  /\ Append(l, x) \in Seq(Item)
         /\ Weigh(Append(l, x), w) = Weigh(l, w) + w[x]
<1> DEFINE m == [k \in 1..1 |-> x]
<1>1. m \in Seq(Item) /\ Weigh(m, w) = 1 * w[x] /\ Append(l, x) = l \o m
  <2>1. m \in Seq(Item) /\ Len(m) = 1 /\ Weigh(m, w) = 1 * w[x]
    BY WeighCopies
  <2>2. Append(l, x) = l \o m
    OBVIOUS
  <2> QED BY <2>1, <2>2
<1> HIDE DEF m
<1>2. l \o m \in Seq(Item) /\ Weigh(l \o m, w) = Weigh(l, w) + Weigh(m, w)
  BY <1>1, WeighConcat
<1> QED BY <1>1, <1>2

-----------------------------------------------------------------------------
(* Indices. *)

LEMMA LargestExists ==
  ASSUME NEW S \in SUBSET Int, IsFiniteSet(S), S # {}
  PROVE  \E m \in S : \A k \in S : k <= m
<1> DEFINE B == {U \in SUBSET S : U # {} /\ ~ \E m \in U : \A k \in U : k <= m}
<1>1. ASSUME NEW T \in SUBSET S, T \in B PROVE \E x \in T : T \ {x} \in B
  <2>1. PICK x \in T : TRUE
    BY <1>1
  <2>2. T \ {x} # {}
    BY <1>1, <2>1
  <2>3. ASSUME NEW m \in T \ {x}, \A k \in T \ {x} : k <= m PROVE FALSE
    <3>1. m \in Int /\ x \in Int
      BY <2>1
    <3>2. \A k \in T : k <= (IF x <= m THEN m ELSE x)
      BY <2>3, <3>1
    <3> QED BY <1>1, <2>1, <2>3, <3>1, <3>2
  <2> QED BY <2>1, <2>2, <2>3
<1>2. {} \notin B
  OBVIOUS
<1>3. S \notin B
  <2> HIDE DEF B
  <2> QED BY <1>1, <1>2, SetInduction
<1> QED BY <1>3

LEMMA SmallestExists ==
  ASSUME NEW S \in SUBSET Int, IsFiniteSet(S), S # {}
  PROVE  \E m \in S : \A k \in S : m <= k
<1> DEFINE B == {U \in SUBSET S : U # {} /\ ~ \E m \in U : \A k \in U : m <= k}
<1>1. ASSUME NEW T \in SUBSET S, T \in B PROVE \E x \in T : T \ {x} \in B
  <2>1. PICK x \in T : TRUE
    BY <1>1
  <2>2. T \ {x} # {}
    BY <1>1, <2>1
  <2>3. ASSUME NEW m \in T \ {x}, \A k \in T \ {x} : m <= k PROVE FALSE
    <3>1. m \in Int /\ x \in Int
      BY <2>1
    <3>2. \A k \in T : (IF x <= m THEN x ELSE m) <= k
      BY <2>3, <3>1
    <3> QED BY <1>1, <2>1, <2>3, <3>1, <3>2
  <2> QED BY <2>1, <2>2, <2>3
<1>2. {} \notin B
  OBVIOUS
<1>3. S \notin B
  <2> HIDE DEF B
  <2> QED BY <1>1, <1>2, SetInduction
<1> QED BY <1>3

Rising(f, S) == f \in [1..Cardinality(S) -> S] /\ \A a, b \in 1..Cardinality(S) : a < b => f[a] < f[b]

LEMMA RisingExists ==
  ASSUME NEW S \in SUBSET Int, IsFiniteSet(S)
  PROVE  \E f : Rising(f, S)
<1> DEFINE B == {U \in SUBSET S : ~ \E f : Rising(f, U)}
<1>1. {} \notin B
  <2>1. Rising(<<>>, {})
    BY FS_EmptySet DEF Rising
  <2> QED BY <2>1
<1>2. ASSUME NEW T \in SUBSET S, T \in B PROVE \E x \in T : T \ {x} \in B
  <2>1. T # {} /\ IsFiniteSet(T) /\ T \in SUBSET Int
    BY <1>1, <1>2, FS_Subset
  <2>2. PICK x \in T : \A k \in T : k <= x
    BY <2>1, LargestExists
  <2>3. ASSUME NEW f, Rising(f, T \ {x}) PROVE FALSE
    <3> DEFINE n == Cardinality(T)
               g == [k \in 1..n |-> IF k = n THEN x ELSE f[k]]
    <3>1. n \in Nat /\ n # 0 /\ Cardinality(T \ {x}) = n - 1
      BY <2>1, <2>2, FS_RemoveElement, FS_CardinalityType, FS_EmptySet
    <3>2. f \in [1..n - 1 -> T \ {x}] /\ \A a, b \in 1..n - 1 : a < b => f[a] < f[b]
      BY <2>3, <3>1 DEF Rising
    <3> HIDE DEF n
    <3>3. g \in [1..n -> T]
      BY <2>2, <3>1, <3>2
    <3>4. ASSUME NEW a \in 1..n, NEW b \in 1..n, a < b PROVE g[a] < g[b]
      <4>1. a \in 1..n - 1 /\ g[a] = f[a] /\ f[a] \in T /\ f[a] # x
        BY <3>1, <3>2, <3>4
      <4>2. CASE b = n
        <5>1. g[b] = x /\ f[a] <= x /\ f[a] \in Int /\ x \in Int
          BY <2>1, <2>2, <4>1, <4>2
        <5> QED BY <4>1, <5>1
      <4>3. CASE b # n
        BY <3>1, <3>2, <3>4, <4>1, <4>3
      <4> QED BY <4>2, <4>3
    <3>5. Rising(g, T)
      <4> HIDE DEF g
      <4> QED BY <3>3, <3>4 DEF Rising, n
    <3> QED BY <1>2, <3>5
  <2>4. T \ {x} \in B
    BY <2>3
  <2> QED BY <2>4
<1>3. S \notin B
  <2> HIDE DEF B
  <2> QED BY <1>1, <1>2, SetInduction
<1> QED BY <1>3

LEMMA RisingOnto ==
  ASSUME NEW S \in SUBSET Int, IsFiniteSet(S), NEW f, Rising(f, S)
  PROVE  f \in Bijection(1..Cardinality(S), S)
<1> DEFINE n == Cardinality(S)
<1>1. n \in Nat
  BY FS_CardinalityType
<1>2. f \in [1..n -> S] /\ \A a, b \in 1..n : a < b => f[a] < f[b]
  BY DEF Rising
<1> HIDE DEF n
<1>3. IsFiniteSet(1..n) /\ Cardinality(1..n) = n
  BY <1>1, FS_Interval
<1>4. ASSUME NEW a \in 1..n, NEW b \in 1..n, f[a] = f[b] PROVE a = b
  <2>1. a \in Int /\ b \in Int /\ f[a] \in Int /\ f[b] \in Int
    <3>1. a \in Int /\ b \in Int /\ f[a] \in S /\ f[b] \in S
      BY <1>1, <1>2
    <3> QED BY <3>1
  <2> QED BY <1>2, <1>4, <2>1
<1>5. f \in Injection(1..n, S)
  BY <1>2, <1>4 DEF Injection, IsInjective
<1>6. f \in Surjection(1..n, S)
  BY <1>3, <1>5, FS_Injection DEF n
<1> QED BY <1>5, <1>6 DEF Bijection, n

LEMMA RisingUnique ==
  ASSUME NEW S \in SUBSET Int, IsFiniteSet(S), NEW f, Rising(f, S), NEW g, Rising(g, S)
  PROVE  f = g
<1> DEFINE n == Cardinality(S)
<1>1. n \in Nat
  BY FS_CardinalityType
<1>2. /\ f \in [1..n -> S] /\ \A a, b \in 1..n : a < b => f[a] < f[b]
      /\ g \in [1..n -> S] /\ \A a, b \in 1..n : a < b => g[a] < g[b]
  BY DEF Rising
<1>3. \A s \in S : (\E a \in 1..n : f[a] = s) /\ (\E a \in 1..n : g[a] = s)
  BY RisingOnto DEF Bijection, Surjection
<1> HIDE DEF n
<1>4. ASSUME NEW k \in 1..n, f[k] # g[k], \A j \in 1..n : j < k => f[j] = g[j] PROVE FALSE
  <2>1. f[k] \in S /\ g[k] \in S /\ f[k] \in Int /\ g[k] \in Int /\ k \in Int
    <3>1. k \in Int /\ f[k] \in S /\ g[k] \in S
      BY <1>1, <1>2
    <3> QED BY <3>1
  <2>2. CASE f[k] < g[k]
    <3>1. PICK a \in 1..n : g[a] = f[k]
      BY <1>3, <2>1
    <3>2. a \in Int /\ a # k
      BY <1>1, <1>4, <3>1
    <3>3. CASE a < k
      <4>1. f[a] = g[a] /\ f[a] < f[k]
        BY <1>2, <1>4, <3>3
      <4> QED BY <2>1, <3>1, <4>1
    <3>4. CASE k < a
      <4>1. g[k] < g[a]
        BY <1>2, <3>4
      <4> QED BY <2>1, <2>2, <3>1, <4>1
    <3> QED BY <2>1, <3>2, <3>3, <3>4
  <2>3. CASE g[k] < f[k]
    <3>1. PICK a \in 1..n : f[a] = g[k]
      BY <1>3, <2>1
    <3>2. a \in Int /\ a # k
      BY <1>1, <1>4, <3>1
    <3>3. CASE a < k
      <4>1. f[a] = g[a] /\ g[a] < g[k]
        BY <1>2, <1>4, <3>3
      <4> QED BY <2>1, <3>1, <4>1
    <3>4. CASE k < a
      <4>1. f[k] < f[a]
        BY <1>2, <3>4
      <4> QED BY <2>1, <2>3, <3>1, <4>1
    <3> QED BY <2>1, <3>2, <3>3, <3>4
  <2> QED BY <1>4, <2>1, <2>2, <2>3
<1>5. \A k \in 1..n : f[k] = g[k]
  <2> DEFINE D == {k \in 1..n : f[k] # g[k]}
  <2>1. D \in SUBSET Int /\ IsFiniteSet(D)
    <3> DEFINE A == 1..n
    <3>1. IsFiniteSet(A) /\ A \in SUBSET Int /\ D \in SUBSET A
      BY <1>1, FS_Interval
    <3> HIDE DEF D, A
    <3> QED BY <3>1, FS_Subset
  <2>2. ASSUME D # {} PROVE FALSE
    <3>1. PICK k \in D : \A j \in D : k <= j
      <4> HIDE DEF D
      <4> QED BY <2>1, <2>2, SmallestExists
    <3>2. \A j \in 1..n : j < k => f[j] = g[j]
      BY <3>1
    <3> QED BY <1>4, <3>1, <3>2
  <2> QED BY <2>2
<1>6. f \in [1..n -> S] /\ g \in [1..n -> S]
  BY <1>2
<1>7. f = [k \in 1..n |-> f[k]] /\ g = [k \in 1..n |-> g[k]]
  BY <1>6
<1>8. [k \in 1..n |-> f[k]] = [k \in 1..n |-> g[k]]
  BY <1>5
<1> QED BY <1>7, <1>8

LEMMA AscendingIs ==
  ASSUME NEW S \in SUBSET Int, IsFiniteSet(S)
  PROVE  Rising(Ascending(S), S)
<1>1. \E f \in [1..Cardinality(S) -> S] : \A a, b \in DOMAIN f : a < b => f[a] < f[b]
  BY RisingExists DEF Rising
<1>2. /\ Ascending(S) \in [1..Cardinality(S) -> S]
      /\ \A a, b \in DOMAIN Ascending(S) : a < b => Ascending(S)[a] < Ascending(S)[b]
  BY <1>1 DEF Ascending
<1>3. DOMAIN Ascending(S) = 1..Cardinality(S)
  BY <1>2
<1> QED BY <1>2, <1>3 DEF Rising

(* The last n of S are n. *)
LEMMA LastOfCount ==
  ASSUME NEW S \in SUBSET Int, IsFiniteSet(S), NEW n \in Nat, n <= Cardinality(S)
  PROVE  /\ LastOf(S, n) \in SUBSET S /\ IsFiniteSet(LastOf(S, n))
         /\ Cardinality(LastOf(S, n)) = n
<1> DEFINE B == {U \in SUBSET S : \E k \in Nat : k <= Cardinality(U) /\ Cardinality(LastOf(U, k)) # k}
<1>1. {} \notin B
  <2>1. Cardinality({}) = 0 /\ \A k : LastOf({}, k) = {}
    BY FS_EmptySet DEF LastOf
  <2> QED BY <2>1
<1>2. ASSUME NEW T \in SUBSET S, T \in B PROVE \E x \in T : T \ {x} \in B
  <2>1. T # {} /\ IsFiniteSet(T) /\ T \in SUBSET Int /\ Cardinality(T) \in Nat
    BY <1>1, <1>2, FS_Subset, FS_CardinalityType
  <2>2. PICK x \in T : \A k \in T : k <= x
    BY <2>1, LargestExists
  <2>3. PICK k \in Nat : k <= Cardinality(T) /\ Cardinality(LastOf(T, k)) # k
    BY <1>2
  <2> DEFINE After(U, i) == {j \in U : j > i}
             R == T \ {x}
  <2>4. IsFiniteSet(R) /\ Cardinality(R) = Cardinality(T) - 1 /\ x \in Int
    BY <2>1, <2>2, FS_RemoveElement
  <2>5. \A i \in T : IsFiniteSet(After(T, i)) /\ Cardinality(After(T, i)) \in Nat
    <3>1. \A i \in T : After(T, i) \in SUBSET T
      OBVIOUS
    <3> HIDE DEF After
    <3> QED BY <2>1, <3>1, FS_Subset, FS_CardinalityType
  <2>6. After(T, x) = {} /\ Cardinality(After(T, x)) = 0
    <3>1. \A j \in T : ~(j > x)
      BY <2>1, <2>2, <2>4
    <3>2. After(T, x) = {}
      BY <3>1
    <3> QED BY <3>2, FS_EmptySet
  <2>7. ASSUME NEW i \in R PROVE Cardinality(After(R, i)) = Cardinality(After(T, i)) - 1
    <3>1. x \in After(T, i) /\ After(R, i) = After(T, i) \ {x}
      <4>1. i \in Int /\ i <= x /\ i # x
        BY <2>1, <2>2
      <4> QED BY <2>2, <2>4, <4>1
    <3> DEFINE A == After(T, i)
    <3>2. IsFiniteSet(A) /\ x \in A /\ After(R, i) = A \ {x}
      BY <2>5, <3>1
    <3> HIDE DEF After, A
    <3>3. Cardinality(A \ {x}) = Cardinality(A) - 1
      BY <3>2, FS_RemoveElement
    <3> QED BY <3>2, <3>3 DEF A
  <2>8. k # 0
    <3>1. \A i \in T : ~(Cardinality(After(T, i)) < 0)
      <4> HIDE DEF After
      <4> QED BY <2>5
    <3>2. LastOf(T, 0) = {}
      BY <3>1 DEF LastOf
    <3> QED BY <2>3, <3>2, FS_EmptySet
  <2>9. LastOf(T, k) = LastOf(R, k - 1) \cup {x}
    <3>1. \A i \in R : Cardinality(After(T, i)) < k <=> Cardinality(After(R, i)) < k - 1
      <4> HIDE DEF After
      <4> QED BY <2>3, <2>5, <2>7
    <3>2. Cardinality(After(T, x)) < k
      <4> HIDE DEF After
      <4> QED BY <2>3, <2>6, <2>8
    <3>3. LastOf(T, k) = {i \in T : Cardinality(After(T, i)) < k}
      BY DEF LastOf
    <3>4. LastOf(R, k - 1) = {i \in R : Cardinality(After(R, i)) < k - 1}
      BY DEF LastOf
    <3> HIDE DEF After
    <3> QED BY <2>2, <3>1, <3>2, <3>3, <3>4
  <2>10. LastOf(R, k - 1) \in SUBSET R /\ IsFiniteSet(LastOf(R, k - 1))
    <3>1. LastOf(R, k - 1) \in SUBSET R
      BY DEF LastOf
    <3> HIDE DEF R
    <3> QED BY <2>4, <3>1, FS_Subset
  <2>11. Cardinality(LastOf(T, k)) = Cardinality(LastOf(R, k - 1)) + 1
    <3> DEFINE L == LastOf(R, k - 1)
    <3>1. x \notin L /\ IsFiniteSet(L)
      BY <2>10
    <3> HIDE DEF L, R
    <3>2. Cardinality(L \cup {x}) = Cardinality(L) + 1
      BY <3>1, FS_AddElement
    <3> QED BY <2>9, <3>2 DEF L
  <2>12. Cardinality(LastOf(R, k - 1)) \in Nat
    BY <2>10, FS_CardinalityType
  <2>13. k - 1 \in Nat /\ k - 1 <= Cardinality(R) /\ Cardinality(LastOf(R, k - 1)) # k - 1
    <3> HIDE DEF R
    <3> QED BY <2>1, <2>3, <2>4, <2>8, <2>11, <2>12
  <2>14. R \in B
    BY <2>13
  <2> QED BY <2>2, <2>14
<1>3. S \notin B
  <2> HIDE DEF B
  <2> QED BY <1>1, <1>2, SetInduction
<1>4. LastOf(S, n) \in SUBSET S
  BY DEF LastOf
<1> QED BY <1>3, <1>4, FS_Subset

-----------------------------------------------------------------------------
(* What the operations on lists do. *)

LEMMA CountRest ==
  ASSUME NEW S, IsFiniteSet(S), NEW T \in SUBSET S
  PROVE  /\ IsFiniteSet(S \ T) /\ IsFiniteSet(T)
         /\ Cardinality(S \ T) \in Nat /\ Cardinality(T) \in Nat
         /\ Cardinality(S \ T) = Cardinality(S) - Cardinality(T)
<1> DEFINE f == [k \in S |-> 1]
           R == S \ T
<1>1. IsFiniteSet(T) /\ IsFiniteSet(R) /\ R \in SUBSET S
  BY FS_Subset
<1>2. Cardinality(T) \in Nat /\ Cardinality(R) \in Nat /\ Cardinality(S) \in Nat
  <2> HIDE DEF R
  <2> QED BY <1>1, FS_CardinalityType
<1>3. \A k \in S : f[k] = 1 /\ f[k] \in Int
  OBVIOUS
<1>4. \A k \in T : f[k] = 1
  OBVIOUS
<1>5. \A k \in R : f[k] = 1
  OBVIOUS
<1> HIDE DEF f
<1>6. SumFunctionOnSet(f, S) = Cardinality(S) * 1
  BY <1>3, SumOfEqual
<1>7. SumFunctionOnSet(f, T) = Cardinality(T) * 1
  BY <1>1, <1>4, SumOfEqual
<1>8. SumFunctionOnSet(f, R) = Cardinality(R) * 1
  <2> HIDE DEF R
  <2> QED BY <1>1, <1>5, SumOfEqual
<1>9. SumFunctionOnSet(f, S) = SumFunctionOnSet(f, T) + SumFunctionOnSet(f, R)
  BY <1>3, SumSplit
<1> HIDE DEF R
<1>10. Cardinality(R) = Cardinality(S) - Cardinality(T)
  BY <1>2, <1>6, <1>7, <1>8, <1>9
<1> QED BY <1>1, <1>2, <1>10 DEF R

(* Without keeps the entries not cut, in their order. *)
LEMMA WithoutIs ==
  ASSUME NEW l \in Seq(Item), NEW C \in SUBSET (DOMAIN l)
  PROVE  /\ Without(l, C) \in Seq(Item) /\ Len(Without(l, C)) = Cardinality((DOMAIN l) \ C)
         /\ \E f \in Bijection(DOMAIN Without(l, C), (DOMAIN l) \ C) :
              \A k \in DOMAIN Without(l, C) : Without(l, C)[k] = l[f[k]]
<1> DEFINE K == (DOMAIN l) \ C
           n == Cardinality(K)
<1>1. K \in SUBSET Int /\ IsFiniteSet(K) /\ n \in Nat
  <2>1. DOMAIN l = 1..Len(l) /\ Len(l) \in Nat /\ IsFiniteSet(DOMAIN l)
    BY ListFacts
  <2>2. K \in SUBSET Int
    BY <2>1
  <2>3. IsFiniteSet(K) /\ Cardinality(K) \in Nat
    BY <2>1, CountRest
  <2> QED BY <2>2, <2>3
<1>2. \A k \in K : l[k] \in Item
  BY ListFacts
<1> HIDE DEF n
<1>3. /\ Without(l, C) = [k \in DOMAIN Ascending(K) |-> l[Ascending(K)[k]]]
  BY DEF Without
<1> HIDE DEF K
<1>4. PICK f : f = Ascending(K)
  OBVIOUS
<1>5. Rising(f, K)
  BY <1>1, <1>4, AscendingIs
<1>6. f \in Bijection(1..n, K)
  BY <1>1, <1>5, RisingOnto DEF n
<1>7. f \in [1..n -> K]
  BY <1>5 DEF Rising, n
<1>8. PICK v : v = Without(l, C)
  OBVIOUS
<1>9. v = [k \in 1..n |-> l[f[k]]]
  BY <1>3, <1>4, <1>7, <1>8
<1>10. v \in [1..n -> Item] /\ \A k \in 1..n : v[k] = l[f[k]]
  BY <1>2, <1>7, <1>9
<1>11. v \in Seq(Item) /\ Len(v) = n /\ DOMAIN v = 1..n
  BY <1>1, <1>10
<1> QED BY <1>6, <1>8, <1>10, <1>11 DEF n, K

LEMMA WithoutNone ==
  ASSUME NEW l \in Seq(Item)
  PROVE  Without(l, {}) = l
<1> DEFINE K == DOMAIN l
<1>1. /\ K = 1..Len(l) /\ Len(l) \in Nat /\ IsFiniteSet(K) /\ Cardinality(K) = Len(l)
      /\ K \in SUBSET Int /\ K \ {} = K
  BY ListFacts
<1>2. Without(l, {}) = [k \in DOMAIN Ascending(K) |-> l[Ascending(K)[k]]]
  BY <1>1 DEF Without
<1> DEFINE g == [k \in 1..Len(l) |-> k]
<1>3. Rising(g, K)
  BY <1>1 DEF Rising
<1>4. \A k \in K : g[k] = k
  BY <1>1
<1>5. DOMAIN g = K
  BY <1>1
<1> HIDE DEF g
<1>6. Ascending(K) = g
  <2> HIDE DEF K
  <2>1. Rising(Ascending(K), K)
    BY <1>1, AscendingIs
  <2>2. PICK f : f = Ascending(K)
    OBVIOUS
  <2>3. f = g
    BY <1>1, <1>3, <2>1, <2>2, RisingUnique
  <2> QED BY <2>2, <2>3
<1>7. Without(l, {}) = [k \in K |-> l[k]]
  BY <1>2, <1>4, <1>5, <1>6
<1>8. l = [k \in K |-> l[k]]
  OBVIOUS
<1> QED BY <1>7, <1>8

LEMMA WeighWithout ==
  ASSUME NEW l \in Seq(Item), NEW C \in SUBSET (DOMAIN l), NEW w \in [Item -> Int],
         NEW f, \A i \in DOMAIN l : f[i] = w[l[i]]
  PROVE  /\ Weigh(l, w) = Weigh(Without(l, C), w) + SumFunctionOnSet(f, C)
         /\ SumFunctionOnSet(f, C) \in Int /\ Weigh(Without(l, C), w) \in Int
<1> DEFINE K == (DOMAIN l) \ C
<1>1. PICK v : v = Without(l, C)
  OBVIOUS
<1>2. v \in Seq(Item) /\ \E h \in Bijection(DOMAIN v, K) : \A k \in DOMAIN v : v[k] = l[h[k]]
  BY <1>1, WithoutIs
<1>3. PICK h \in Bijection(DOMAIN v, K) : \A k \in DOMAIN v : v[k] = l[h[k]]
  BY <1>2
<1>4. IsFiniteSet(DOMAIN l) /\ IsFiniteSet(DOMAIN v)
  BY <1>2, ListFacts
<1>5. Weigh(l, w) = SumFunctionOnSet(f, DOMAIN l) /\ \A i \in DOMAIN l : f[i] \in Int
  BY WeighIs
<1>6. /\ SumFunctionOnSet(f, DOMAIN l) = SumFunctionOnSet(f, C) + SumFunctionOnSet(f, K)
      /\ SumFunctionOnSet(f, C) \in Int /\ SumFunctionOnSet(f, K) \in Int
  BY <1>4, <1>5, SumSplit
<1> DEFINE g == [k \in DOMAIN v |-> w[v[k]]]
<1>7. \A k \in DOMAIN v : h[k] \in K /\ g[k] = w[v[k]] /\ g[k] = f[h[k]]
  <2>1. h \in [DOMAIN v -> K]
    BY DEF Bijection, Injection
  <2>2. ASSUME NEW k \in DOMAIN v PROVE h[k] \in K /\ g[k] = w[v[k]] /\ g[k] = f[h[k]]
    <3>1. h[k] \in K /\ h[k] \in DOMAIN l /\ v[k] = l[h[k]]
      BY <1>3, <2>1
    <3>2. f[h[k]] = w[l[h[k]]]
      BY <3>1
    <3> QED BY <3>1, <3>2
  <2> QED BY <2>2
<1> HIDE DEF g, K
<1>8. Weigh(v, w) = SumFunctionOnSet(g, DOMAIN v) /\ \A k \in DOMAIN v : g[k] \in Int
  BY <1>2, <1>7, WeighIs
<1>9. SumFunctionOnSet(g, DOMAIN v) = SumFunctionOnSet(f, K)
  <2>1. PICK D : D = DOMAIN v
    OBVIOUS
  <2>2. IsFiniteSet(D) /\ h \in Bijection(D, K) /\ \A k \in D : g[k] \in Int /\ g[k] = f[h[k]]
    BY <1>3, <1>4, <1>7, <1>8, <2>1
  <2>3. SumFunctionOnSet(g, D) = SumFunctionOnSet(f, K)
    BY ONLY <2>2, SumMapped
  <2> QED BY <2>1, <2>3
<1> QED BY <1>1, <1>5, <1>6, <1>8, <1>9

(* Amounts are such sums. *)
AmountWeight(id) == [x \in Item |-> IF x.id = id THEN x.amount ELSE 0]

LEMMA AmountIs ==
  ASSUME NEW l \in Seq(Item), NEW id
  PROVE  /\ AmountOf(l, id) = Weigh(l, AmountWeight(id)) /\ AmountOf(l, id) \in Int
         /\ AmountWeight(id) \in [Item -> Int]
         /\ \A x \in Item : AmountWeight(id)[x] = IF x.id = id THEN x.amount ELSE 0
<1>1. /\ AmountWeight(id) \in [Item -> Int]
      /\ \A x \in Item : AmountWeight(id)[x] = IF x.id = id THEN x.amount ELSE 0
  BY DEF AmountWeight, Item
<1> DEFINE f == [i \in DOMAIN l |-> IF l[i].id = id THEN l[i].amount ELSE 0]
<1>2. \A i \in DOMAIN l : f[i] = AmountWeight(id)[l[i]]
  <2>1. \A i \in DOMAIN l : l[i] \in Item
    BY ListFacts
  <2> QED BY <1>1, <2>1
<1>3. AmountOf(l, id) = SumFunctionOnSet(f, DOMAIN l)
  BY DEF AmountOf, SumFunction
<1> HIDE DEF f
<1>4. Weigh(l, AmountWeight(id)) = SumFunctionOnSet(f, DOMAIN l) /\ Weigh(l, AmountWeight(id)) \in Int
  BY <1>1, <1>2, WeighIs
<1> QED BY <1>1, <1>3, <1>4

IndicesOf(l, id) == {i \in DOMAIN l : l[i].id = id}

LEMMA IndicesFinite ==
  ASSUME NEW l \in Seq(Item), NEW id
  PROVE  /\ IndicesOf(l, id) \in SUBSET (DOMAIN l) /\ IndicesOf(l, id) \in SUBSET Int
         /\ IsFiniteSet(IndicesOf(l, id)) /\ Cardinality(IndicesOf(l, id)) \in Nat
<1>1. DOMAIN l = 1..Len(l) /\ Len(l) \in Nat /\ IsFiniteSet(DOMAIN l)
  BY ListFacts
<1>2. IndicesOf(l, id) \in SUBSET (DOMAIN l) /\ IndicesOf(l, id) \in SUBSET Int
  BY <1>1 DEF IndicesOf
<1> QED BY <1>1, <1>2, FS_Subset, FS_CardinalityType

(* An amount is that of the entries of the id, and cutting entries takes their amounts. *)
LEMMA AmountOfEntries ==
  ASSUME NEW l \in Seq(Item), NEW id
  PROVE  AmountOf(l, id) = SumFunctionOnSet([i \in DOMAIN l |-> l[i].amount], IndicesOf(l, id))
<1> DEFINE f == [i \in DOMAIN l |-> IF l[i].id = id THEN l[i].amount ELSE 0]
           g == [i \in DOMAIN l |-> l[i].amount]
           T == IndicesOf(l, id)
           R == (DOMAIN l) \ T
<1>1. IsFiniteSet(DOMAIN l) /\ T \in SUBSET (DOMAIN l) /\ IsFiniteSet(T) /\ IsFiniteSet(R)
  BY ListFacts, IndicesFinite, CountRest
<1>2. \A i \in DOMAIN l : f[i] \in Int
  BY ListFacts
<1>3. \A i \in T : f[i] = g[i]
  BY DEF IndicesOf
<1>4. \A i \in R : f[i] = 0
  BY DEF IndicesOf
<1>5. AmountOf(l, id) = SumFunctionOnSet(f, DOMAIN l)
  BY DEF AmountOf, SumFunction
<1>6. SumFunctionOnSet(f, DOMAIN l) = SumFunctionOnSet(f, T) + SumFunctionOnSet(f, R) /\ SumFunctionOnSet(f, T) \in Int
  <2> HIDE DEF f, T
  <2> QED BY <1>1, <1>2, SumSplit
<1>7. SumFunctionOnSet(f, R) = 0
  <2> HIDE DEF f, R
  <2>1. SumFunctionOnSet(f, R) = Cardinality(R) * 0 /\ Cardinality(R) \in Nat
    BY <1>1, <1>4, SumOfEqual, FS_CardinalityType
  <2> QED BY <2>1
<1>8. SumFunctionOnSet(f, T) = SumFunctionOnSet(g, T)
  <2> HIDE DEF f, g, T
  <2> QED BY <1>1, <1>3, SumSame
<1> HIDE DEF f, g, T, R
<1>9. AmountOf(l, id) = SumFunctionOnSet(g, T)
  BY <1>5, <1>6, <1>7, <1>8
<1> QED BY <1>9 DEF g, T

LEMMA GetIndexIs ==
  ASSUME NEW l \in Seq(Item), NEW id
  PROVE  /\ IndicesOf(l, id) = {} => GetIndex(l, id) = 0
         /\ IndicesOf(l, id) # {} => GetIndex(l, id) \in IndicesOf(l, id)
         /\ GetIndex(l, id) = 0 <=> IndicesOf(l, id) = {}
<1> DEFINE I == IndicesOf(l, id)
<1>1. {i \in 1..Len(l) : l[i].id = id} = I
  BY ListFacts DEF IndicesOf
<1>2. GetIndex(l, id) = IF I # {} THEN Max(I) ELSE 0
  BY <1>1 DEF GetIndex, SelectLastInSeq
<1>3. I \in SUBSET Int /\ IsFiniteSet(I) /\ 0 \notin I
  <2>1. DOMAIN l = 1..Len(l)
    BY ListFacts
  <2>2. 0 \notin I
    BY <2>1 DEF IndicesOf
  <2> QED BY <2>2, IndicesFinite
<1> HIDE DEF I
<1>4. ASSUME I # {} PROVE Max(I) \in I
  <2>1. \E m \in I : \A k \in I : k <= m
    BY <1>3, <1>4, LargestExists
  <2>2. \E m \in I : \A k \in I : m >= k
    BY <1>3, <2>1
  <2> QED BY <2>2 DEF Max
<1> QED BY <1>2, <1>3, <1>4 DEF I

(* The entries of l keep their place in m, their id and whether they are worn;
   further ones are not worn. *)
Extended(l, m) ==
  /\ m \in Seq(Item) /\ DOMAIN l \subseteq DOMAIN m
  /\ \A i \in DOMAIN l : m[i].id = l[i].id /\ m[i].worn = l[i].worn
  /\ \A i \in (DOMAIN m) \ (DOMAIN l) : ~m[i].worn

(* A new amount for one entry. *)
Reamount(l, m, i, n) == i \in DOMAIN l /\ n \in Nat /\ m = [l EXCEPT ![i].amount = n]
LEMMA Reamounted ==
  ASSUME NEW l \in Seq(Item), NEW m, NEW i, NEW n, Reamount(l, m, i, n)
  PROVE  /\ Extended(l, m) /\ DOMAIN m = DOMAIN l /\ Len(m) = Len(l)
         /\ m[i].amount = n /\ \A j \in DOMAIN l \ {i} : m[j] = l[j]
         /\ \A k : k # l[i].id => AmountOf(m, k) = AmountOf(l, k)
         /\ AmountOf(m, l[i].id) = AmountOf(l, l[i].id) + (n - l[i].amount)
<1>0. i \in DOMAIN l /\ n \in Nat /\ m = [l EXCEPT ![i].amount = n]
  BY DEF Reamount
<1>1. l[i] \in Item /\ l[i].amount \in Int /\ DOMAIN l = 1..Len(l)
  BY <1>0, ListFacts
<1>2. [l[i] EXCEPT !.amount = n] \in Item
  BY <1>0, <1>1 DEF Item
<1>3. m \in Seq(Item) /\ Len(m) = Len(l) /\ DOMAIN m = DOMAIN l
  BY <1>0, <1>2
<1>4. \A j \in DOMAIN l \ {i} : m[j] = l[j]
  BY <1>0
<1>5. m[i].amount = n /\ m[i].id = l[i].id /\ m[i].worn = l[i].worn /\ m[i] \in Item
  <2>1. m[i] = [l[i] EXCEPT !.amount = n]
    BY <1>0
  <2> QED BY <1>0, <1>1, <1>2, <2>1 DEF Item
<1>6. Extended(l, m)
  BY <1>3, <1>4, <1>5 DEF Extended
<1>7. ASSUME NEW k PROVE AmountOf(m, k) = AmountOf(l, k) + IF k = l[i].id THEN n - l[i].amount ELSE 0
  <2>0. PICK w : w = AmountWeight(k)
    OBVIOUS
  <2>1. /\ AmountOf(l, k) = Weigh(l, w) /\ AmountOf(l, k) \in Int /\ w \in [Item -> Int]
        /\ \A x \in Item : w[x] = IF x.id = k THEN x.amount ELSE 0
    BY <2>0, AmountIs
  <2>2. AmountOf(m, k) = Weigh(m, w)
    BY <1>3, <2>0, AmountIs
  <2>3. w[l[i]] = IF l[i].id = k THEN l[i].amount ELSE 0
    BY <1>1, <2>1
  <2>4. w[m[i]] = IF l[i].id = k THEN n ELSE 0
    BY <1>5, <2>1
  <2>5. l \in Seq(Item) /\ m \in Seq(Item) /\ w \in [Item -> Int] /\ i \in DOMAIN l /\ Len(m) = Len(l)
        /\ \A j \in DOMAIN l \ {i} : m[j] = l[j]
    BY <1>0, <1>3, <1>4, <2>1
  <2>6. Weigh(m, w) = Weigh(l, w) - w[l[i]] + w[m[i]]
    BY ONLY <2>5, WeighChanges
  <2> QED BY <1>0, <1>1, <2>1, <2>2, <2>3, <2>4, <2>6
<1>8. \A k : k # l[i].id => AmountOf(m, k) = AmountOf(l, k)
  <2>1. \A k : AmountOf(l, k) \in Int
    BY AmountIs
  <2> QED BY <1>7, <2>1
<1> QED BY <1>3, <1>4, <1>5, <1>6, <1>7, <1>8

(* A list, and after it copies of an item that is not worn. *)
Longer(l, m, x, n) == x \in Item /\ x.worn = FALSE /\ n \in Nat /\ m = l \o [k \in 1..n |-> x]
LEMMA Lengthened ==
  ASSUME NEW l \in Seq(Item), NEW m, NEW x, NEW n, Longer(l, m, x, n)
  PROVE  /\ Extended(l, m) /\ Len(m) = Len(l) + n
         /\ \A i \in DOMAIN l : m[i] = l[i]
         /\ \A i \in (DOMAIN m) \ (DOMAIN l) : m[i] = x
         /\ \A k : k # x.id => AmountOf(m, k) = AmountOf(l, k)
         /\ AmountOf(m, x.id) = AmountOf(l, x.id) + n * x.amount
<1>0. x \in Item /\ x.worn = FALSE /\ n \in Nat /\ m = l \o [k \in 1..n |-> x]
  BY DEF Longer
<1>1. PICK c : c = [k \in 1..n |-> x]
  OBVIOUS
<1>2. DOMAIN c = 1..n /\ (\A k \in 1..n : c[k] = x) /\ c \in Seq(Item) /\ Len(c) = n /\ m = l \o c
  BY <1>0, <1>1
<1>3. \A w \in [Item -> Int] : Weigh(c, w) = n * w[x]
  BY <1>0, <1>1, WeighCopies
<1>5. /\ m \in Seq(Item) /\ Len(m) = Len(l) + n
      /\ \A i \in 1..Len(l) + n : m[i] = IF i <= Len(l) THEN l[i] ELSE c[i - Len(l)]
  BY <1>2, ConcatProperties
<1>6. DOMAIN m = 1..Len(l) + n /\ DOMAIN l = 1..Len(l) /\ Len(l) \in Nat
  BY <1>5, ListFacts
<1>7. \A i \in DOMAIN l : i \in DOMAIN m /\ m[i] = l[i]
  BY <1>0, <1>5, <1>6
<1>8. ASSUME NEW i \in (DOMAIN m) \ (DOMAIN l) PROVE m[i] = x
  <2>1. i \in 1..Len(l) + n /\ ~(i <= Len(l)) /\ i - Len(l) \in 1..n
    BY <1>0, <1>6
  <2> QED BY <1>2, <1>5, <2>1
<1>9. Extended(l, m)
  BY <1>0, <1>5, <1>7, <1>8 DEF Extended
<1>10. ASSUME NEW k PROVE AmountOf(m, k) = AmountOf(l, k) + IF k = x.id THEN n * x.amount ELSE 0
  <2>0. PICK w : w = AmountWeight(k)
    OBVIOUS
  <2>1. /\ AmountOf(l, k) = Weigh(l, w) /\ AmountOf(l, k) \in Int /\ w \in [Item -> Int]
        /\ \A y \in Item : w[y] = IF y.id = k THEN y.amount ELSE 0
    BY <2>0, AmountIs
  <2>2. AmountOf(m, k) = Weigh(m, w)
    BY <1>5, <2>0, AmountIs
  <2>3. w[x] = IF x.id = k THEN x.amount ELSE 0
    BY <1>0, <2>1
  <2>4. Weigh(m, w) = Weigh(l, w) + Weigh(c, w) /\ Weigh(c, w) = n * w[x]
    BY <1>0, <1>2, <1>3, <2>1, WeighConcat
  <2>5. k = x.id => Weigh(c, w) = n * x.amount
    BY <2>3, <2>4
  <2>6. k # x.id => Weigh(c, w) = 0
    BY <1>0, <2>3, <2>4
  <2> QED BY <2>1, <2>2, <2>4, <2>5, <2>6
<1>11. \A k : k # x.id => AmountOf(m, k) = AmountOf(l, k)
  <2>1. \A k : AmountOf(l, k) \in Int
    BY AmountIs
  <2> QED BY <1>10, <2>1
<1>12. AmountOf(m, x.id) = AmountOf(l, x.id) + n * x.amount
  BY <1>0, <1>1, <1>10
<1> QED BY <1>1, <1>5, <1>7, <1>8, <1>9, <1>11, <1>12

(* What is added is there, but for what is over the maximum of a stack; a list
   that could hold it stays packed. *)
LEMMA AddedIs ==
  ASSUME NEW l \in Seq(Item), NEW id \in Id, NEW n \in 1..MaxAmount, NEW all \in BOOLEAN,
         NEW m, m = Added(l, id, n, all)
  PROVE  /\ Extended(l, m)
         /\ \A k : k # id => AmountOf(m, k) = AmountOf(l, k)
         /\ AmountOf(m, id) <= AmountOf(l, id) + n
         /\ AmountOf(m, id) = AmountOf(l, id) + n \/ \E i \in DOMAIN m : m[i].id = id /\ m[i].amount = MaxAmount
         /\ \A capacity \in Nat :
              Packed(l, capacity, all) /\ CanHold(l, capacity, id, n, all) /\ (Stacks(id, all) \/ n = 1)
                => Packed(m, capacity, all)
<1> DEFINE at == GetIndex(l, id)
<1>1. n \in Nat /\ MaxAmount \in Nat /\ n >= 1 /\ n <= MaxAmount
  BY InventoryAssumption
<1>2. \A k : AmountOf(l, k) \in Int
  BY AmountIs
<1>3. CASE Stacks(id, all) /\ at # 0
  <2>1. at \in DOMAIN l /\ l[at].id = id
    BY <1>3, GetIndexIs DEF IndicesOf
  <2> DEFINE old == l[at].amount
  <2>2. old \in Nat
    BY <2>1, ListFacts
  <2>3. PICK new : new = Merged(old, n)
    OBVIOUS
  <2>4. new \in Nat /\ new >= 1 /\ new <= MaxAmount /\ new <= old + n /\ (new = old + n \/ new = MaxAmount)
    BY <1>1, <2>2, <2>3 DEF Merged, Least
  <2>5. m = [l EXCEPT ![at].amount = new]
    BY <1>3, <2>3 DEF Added
  <2> HIDE DEF at, old
  <2>51. Reamount(l, m, at, new)
    BY <2>1, <2>4, <2>5 DEF Reamount
  <2>61. /\ Extended(l, m) /\ DOMAIN m = DOMAIN l /\ Len(m) = Len(l)
         /\ m[at].amount = new /\ \A j \in DOMAIN l \ {at} : m[j] = l[j]
    BY <2>51, Reamounted
  <2>62. \A k : k # l[at].id => AmountOf(m, k) = AmountOf(l, k)
    BY <2>51, Reamounted
  <2>63. AmountOf(m, l[at].id) = AmountOf(l, l[at].id) + (new - l[at].amount)
    BY <2>51, Reamounted
  <2>6. /\ Extended(l, m) /\ DOMAIN m = DOMAIN l
        /\ \A k : k # l[at].id => AmountOf(m, k) = AmountOf(l, k)
        /\ AmountOf(m, l[at].id) = AmountOf(l, l[at].id) + (new - l[at].amount)
    BY <2>61, <2>62, <2>63
  <2>7. \A i \in DOMAIN l : m[i].id = l[i].id
    BY <2>6 DEF Extended
  <2> HIDE DEF old
  <2>8. /\ \A k : k # id => AmountOf(m, k) = AmountOf(l, k)
        /\ AmountOf(m, id) = AmountOf(l, id) + (new - old)
    BY <1>2, <2>1, <2>6 DEF old
  <2>9. AmountOf(m, id) <= AmountOf(l, id) + n /\ (AmountOf(m, id) = AmountOf(l, id) + n \/ new = MaxAmount)
    BY <1>1, <1>2, <2>2, <2>4, <2>8
  <2>10. AmountOf(m, id) = AmountOf(l, id) + n \/ \E i \in DOMAIN m : m[i].id = id /\ m[i].amount = MaxAmount
    BY <2>1, <2>61, <2>6, <2>7, <2>9
  <2>11. ASSUME NEW capacity \in Nat, Packed(l, capacity, all) PROVE Packed(m, capacity, all)
    <3>1. \A i \in DOMAIN l : m[i].amount \in 1..MaxAmount
      BY <1>1, <2>4, <2>61, <2>7, <2>11 DEF Packed
    <3>2. \A i \in DOMAIN l : ~Stacks(l[i].id, all) => m[i].amount = 1
      BY <1>3, <2>1, <2>61, <2>11 DEF Packed
    <3> QED BY <2>61, <2>7, <2>11, <3>1, <3>2 DEF Packed, Extended
  <2> QED BY <2>6, <2>8, <2>9, <2>10, <2>11
<1>4. CASE ~(Stacks(id, all) /\ at # 0)
  <2>1. m = Append(l, NewItem(id, n))
    BY <1>4 DEF Added
  <2>20. PICK x : x = NewItem(id, n)
    OBVIOUS
  <2>21. x \in Item /\ x.id = id /\ x.worn = FALSE /\ x.amount = n
    BY <1>1, <2>20 DEF NewItem, Item
  <2>22. m = l \o [k \in 1..1 |-> x]
    BY <2>1, <2>20
  <2>23. Longer(l, m, x, 1)
    BY <2>21, <2>22 DEF Longer
  <2>25. /\ Extended(l, m) /\ Len(m) = Len(l) + 1 /\ \A i \in DOMAIN l : m[i] = l[i]
         /\ \A i \in (DOMAIN m) \ (DOMAIN l) : m[i] = x
    BY <2>23, Lengthened
  <2>26. \A k : k # id => AmountOf(m, k) = AmountOf(l, k)
    BY <2>21, <2>23, Lengthened
  <2>27. AmountOf(m, id) = AmountOf(l, id) + 1 * n
    BY <2>21, <2>23, Lengthened
  <2>3. /\ Extended(l, m) /\ Len(m) = Len(l) + 1
        /\ \A i \in DOMAIN l : m[i] = l[i]
        /\ \A i \in (DOMAIN m) \ (DOMAIN l) : m[i] = x
        /\ \A k : k # id => AmountOf(m, k) = AmountOf(l, k)
        /\ AmountOf(m, id) = AmountOf(l, id) + 1 * n
    BY <2>25, <2>26, <2>27
  <2>4. /\ \A k : k # id => AmountOf(m, k) = AmountOf(l, k)
        /\ AmountOf(m, id) = AmountOf(l, id) + n
    BY <1>1, <1>2, <2>3
  <2>5. ASSUME NEW capacity \in Nat, Packed(l, capacity, all), CanHold(l, capacity, id, n, all),
               Stacks(id, all) \/ n = 1
        PROVE  Packed(m, capacity, all)
    <3>1. Len(l) \in Nat /\ DOMAIN l = 1..Len(l) /\ m \in Seq(Item) /\ DOMAIN m = 1..Len(l) + 1
      BY <2>3, ListFacts DEF Extended
    <3>2. Len(l) + 1 <= capacity
      <4>1. SlotsNeeded(l, id, n, all) \in Int /\ SlotsNeeded(l, id, n, all) >= 1
        <5>1. n \div MaxAmount \in Int /\ n \div MaxAmount >= 0
          BY <1>1
        <5> QED BY <1>4, <5>1 DEF SlotsNeeded
      <4> QED BY <2>5, <3>1, <4>1 DEF CanHold
    <3>3. \A i \in DOMAIN m : m[i] = IF i \in DOMAIN l THEN l[i] ELSE NewItem(id, n)
      BY <2>3, <2>20
    <3>4. \A i \in DOMAIN m : m[i].amount \in 1..MaxAmount
      BY <1>1, <2>5, <3>3 DEF Packed, NewItem
    <3>5. \A i \in DOMAIN m : ~Stacks(m[i].id, all) => m[i].amount = 1
      BY <2>5, <3>3 DEF Packed, NewItem
    <3>6. ASSUME NEW i \in DOMAIN m, NEW j \in DOMAIN m \ {i}, Stacks(m[i].id, all) PROVE m[j].id # m[i].id
      <4>1. CASE i \in DOMAIN l /\ j \in DOMAIN l
        BY <2>5, <3>3, <3>6, <4>1 DEF Packed
      <4>2. ASSUME NEW k \in DOMAIN l, Stacks(id, all) PROVE l[k].id # id
        BY <1>4, <4>2, GetIndexIs DEF IndicesOf
      <4>3. CASE i \notin DOMAIN l /\ j \notin DOMAIN l
        BY <3>1, <4>3
      <4>4. CASE i \in DOMAIN l /\ j \notin DOMAIN l
        <5>1. m[i].id = l[i].id /\ m[j].id = id
          BY <3>3, <4>4 DEF NewItem
        <5> QED BY <3>6, <4>2, <4>4, <5>1
      <4>5. CASE i \notin DOMAIN l /\ j \in DOMAIN l
        <5>1. m[j].id = l[j].id /\ m[i].id = id
          BY <3>3, <4>5 DEF NewItem
        <5> QED BY <3>6, <4>2, <4>5, <5>1
      <4> QED BY <4>1, <4>3, <4>4, <4>5
    <3> QED BY <3>1, <3>2, <3>4, <3>5, <3>6, <2>3 DEF Packed
  <2>6. AmountOf(l, id) + n \in Int
    BY <1>1, <1>2
  <2> QED BY <2>3, <2>4, <2>5, <2>6
<1> QED BY <1>3, <1>4

(* Unstackable copies of one piece each, where there is room. *)
LEMMA LongerPacked ==
  ASSUME NEW l \in Seq(Item), NEW m, NEW x, NEW n, Longer(l, m, x, n),
         NEW capacity \in Nat, Packed(l, capacity, FALSE), Len(l) + n <= capacity,
         x.id \notin StackableId, x.amount = 1
  PROVE  Packed(m, capacity, FALSE)
<1>1. MaxAmount \in Nat /\ MaxAmount >= 1
  BY InventoryAssumption
<1>2. /\ m \in Seq(Item) /\ Len(m) = Len(l) + n /\ DOMAIN l \subseteq DOMAIN m
      /\ \A i \in DOMAIN m : m[i] = IF i \in DOMAIN l THEN l[i] ELSE x
  <2>1. /\ Extended(l, m) /\ Len(m) = Len(l) + n /\ \A i \in DOMAIN l : m[i] = l[i]
        /\ \A i \in (DOMAIN m) \ (DOMAIN l) : m[i] = x
    BY Lengthened
  <2>2. \A i \in DOMAIN m : m[i] = IF i \in DOMAIN l THEN l[i] ELSE x
    BY <2>1
  <2> QED BY <2>1, <2>2 DEF Extended
<1>3. \A i \in DOMAIN m : m[i].amount \in 1..MaxAmount
  <2>1. \A i \in DOMAIN l : l[i].amount \in 1..MaxAmount
    BY DEF Packed
  <2>2. x.amount \in 1..MaxAmount
    BY <1>1
  <2> QED BY <1>2, <2>1, <2>2
<1>4. ASSUME NEW i \in DOMAIN m, Stacks(m[i].id, FALSE), NEW j \in DOMAIN m \ {i} PROVE m[j].id # m[i].id
  <2>1. i \in DOMAIN l /\ m[i] = l[i]
    BY <1>2, <1>4 DEF Stacks
  <2>2. CASE j \in DOMAIN l
    BY <1>2, <1>4, <2>1, <2>2 DEF Packed
  <2>3. CASE j \notin DOMAIN l
    BY <1>2, <1>4, <2>1, <2>3 DEF Stacks
  <2> QED BY <2>2, <2>3
<1>5. \A i \in DOMAIN m : ~Stacks(m[i].id, FALSE) => m[i].amount = 1
  BY <1>2 DEF Packed
<1> QED BY <1>2, <1>3, <1>4, <1>5 DEF Packed

(* Every entry that is left was there. *)
LEMMA WithoutKeeps ==
  ASSUME NEW l \in Seq(Item), NEW C \in SUBSET (DOMAIN l), NEW m, m = Without(l, C)
  PROVE  /\ m \in Seq(Item) /\ Len(m) = Len(l) - Cardinality(C) /\ Len(m) <= Len(l)
         /\ \A k \in DOMAIN m : \E i \in (DOMAIN l) \ C : m[k] = l[i]
         /\ \A i \in (DOMAIN l) \ C : \E k \in DOMAIN m : m[k] = l[i]
         /\ \A capacity \in Nat, all \in BOOLEAN : Packed(l, capacity, all) => Packed(m, capacity, all)
<1>1. PICK K : K = (DOMAIN l) \ C
  OBVIOUS
<1>2. /\ m \in Seq(Item) /\ Len(m) = Cardinality(K)
      /\ \E f \in Bijection(DOMAIN m, K) : \A k \in DOMAIN m : m[k] = l[f[k]]
  BY <1>1, WithoutIs
<1>3. PICK f \in Bijection(DOMAIN m, K) : \A k \in DOMAIN m : m[k] = l[f[k]]
  BY <1>2
<1>4. f \in [DOMAIN m -> K] /\ (\A a, b \in DOMAIN m : f[a] = f[b] => a = b) /\ \A i \in K : \E k \in DOMAIN m : f[k] = i
  BY DEF Bijection, Injection, Surjection, IsInjective
<1>5. Len(l) \in Nat /\ IsFiniteSet(DOMAIN l) /\ Cardinality(DOMAIN l) = Len(l)
  BY ListFacts
<1>6. Len(m) = Len(l) - Cardinality(C) /\ Len(m) <= Len(l)
  <2>1. Cardinality(K) = Cardinality(DOMAIN l) - Cardinality(C) /\ Cardinality(C) \in Nat
    BY <1>1, <1>5, CountRest
  <2> QED BY <1>2, <1>5, <2>1
<1>7. \A k \in DOMAIN m : f[k] \in DOMAIN l /\ f[k] \in K
  BY <1>1, <1>4
<1>8. \A k \in DOMAIN m : \E i \in K : m[k] = l[i]
  BY <1>3, <1>7
<1>9. \A i \in K : \E k \in DOMAIN m : m[k] = l[i]
  BY <1>3, <1>4
<1>10. ASSUME NEW capacity \in Nat, NEW all \in BOOLEAN, Packed(l, capacity, all) PROVE Packed(m, capacity, all)
  <2>1. Len(m) <= capacity /\ Len(l) <= capacity
    BY <1>2, <1>5, <1>6, <1>10, ListFacts DEF Packed
  <2>2. \A k \in DOMAIN m : m[k].amount \in 1..MaxAmount
    BY <1>3, <1>7, <1>10 DEF Packed
  <2>3. \A k \in DOMAIN m : ~Stacks(m[k].id, all) => m[k].amount = 1
    BY <1>3, <1>7, <1>10 DEF Packed
  <2>4. ASSUME NEW a \in DOMAIN m, NEW b \in DOMAIN m \ {a}, Stacks(m[a].id, all) PROVE m[b].id # m[a].id
    <3>1. f[a] \in DOMAIN l /\ f[b] \in DOMAIN l /\ f[a] # f[b] /\ m[a] = l[f[a]] /\ m[b] = l[f[b]]
      BY <1>3, <1>4, <1>7
    <3> QED BY <1>10, <2>4, <3>1 DEF Packed
  <2> QED BY <2>1, <2>2, <2>3, <2>4 DEF Packed
<1> QED BY <1>1, <1>2, <1>6, <1>8, <1>9, <1>10

Amounts(l) == [i \in DOMAIN l |-> l[i].amount]

LEMMA AmountWithout ==
  ASSUME NEW l \in Seq(Item), NEW C \in SUBSET (DOMAIN l), NEW m, m = Without(l, C), NEW id
  PROVE  /\ AmountOf(l, id) = AmountOf(m, id) + SumFunctionOnSet(Amounts(l), C \cap IndicesOf(l, id))
         /\ AmountOf(l, id) \in Int /\ AmountOf(m, id) \in Int
<1> DEFINE f == [i \in DOMAIN l |-> IF l[i].id = id THEN l[i].amount ELSE 0]
           T == C \cap IndicesOf(l, id)
           R == C \ T
<1>1. m \in Seq(Item) /\ IsFiniteSet(C) /\ T \in SUBSET C /\ IsFiniteSet(T) /\ IsFiniteSet(R)
  <2>1. m \in Seq(Item) /\ IsFiniteSet(C) /\ T \in SUBSET C
    BY WithoutKeeps, ListFacts, FS_Subset
  <2> QED BY <2>1, CountRest
<1>2. PICK w : w = AmountWeight(id)
  OBVIOUS
<1>3. /\ AmountOf(l, id) = Weigh(l, w) /\ AmountOf(l, id) \in Int /\ w \in [Item -> Int]
      /\ \A y \in Item : w[y] = IF y.id = id THEN y.amount ELSE 0
  BY <1>2, AmountIs
<1>4. AmountOf(m, id) = Weigh(m, w) /\ AmountOf(m, id) \in Int
  BY <1>1, <1>2, AmountIs
<1>5. \A i \in DOMAIN l : f[i] = w[l[i]] /\ f[i] \in Int
  <2>1. \A i \in DOMAIN l : l[i] \in Item /\ l[i].amount \in Nat
    BY ListFacts
  <2> QED BY <1>3, <2>1
<1>6. \A i \in T : f[i] = Amounts(l)[i]
  BY DEF IndicesOf, Amounts
<1>7. \A i \in R : f[i] = 0
  BY DEF IndicesOf
<1>8. Weigh(l, w) = Weigh(m, w) + SumFunctionOnSet(f, C)
  <2> HIDE DEF f
  <2> QED BY <1>3, <1>5, WeighWithout
<1>9. SumFunctionOnSet(f, C) = SumFunctionOnSet(f, T) + SumFunctionOnSet(f, R) /\ SumFunctionOnSet(f, T) \in Int
  <2>1. \A i \in C : f[i] \in Int
    BY <1>5
  <2> HIDE DEF f, T
  <2> QED BY <1>1, <2>1, SumSplit
<1>10. SumFunctionOnSet(f, R) = 0
  <2> HIDE DEF f, R
  <2>1. SumFunctionOnSet(f, R) = Cardinality(R) * 0 /\ Cardinality(R) \in Nat
    BY <1>1, <1>7, SumOfEqual, FS_CardinalityType
  <2> QED BY <2>1
<1>11. SumFunctionOnSet(f, T) = SumFunctionOnSet(Amounts(l), T)
  <2> HIDE DEF f, T
  <2> QED BY <1>1, <1>6, SumSame
<1> HIDE DEF f, T, R
<1>12. AmountOf(l, id) = AmountOf(m, id) + SumFunctionOnSet(Amounts(l), T)
  BY <1>3, <1>4, <1>8, <1>9, <1>10, <1>11
<1> QED BY <1>3, <1>4, <1>12 DEF T

(* In a packed list an unstackable item is one piece; what stacks has one entry. *)
LEMMA PackedAmount ==
  ASSUME NEW l \in Seq(Item), NEW capacity, NEW all, Packed(l, capacity, all), NEW id
  PROVE  /\ ~Stacks(id, all) => /\ AmountOf(l, id) = Cardinality(IndicesOf(l, id))
                                /\ \A C \in SUBSET IndicesOf(l, id) :
                                     SumFunctionOnSet(Amounts(l), C) = Cardinality(C) /\ Cardinality(C) \in Nat
         /\ Stacks(id, all) => \A i \in IndicesOf(l, id) :
              /\ IndicesOf(l, id) = {i} /\ AmountOf(l, id) = l[i].amount
              /\ SumFunctionOnSet(Amounts(l), {i}) = l[i].amount
         /\ IndicesOf(l, id) = {} => AmountOf(l, id) = 0
<1> DEFINE I == IndicesOf(l, id)
<1>1. AmountOf(l, id) = SumFunctionOnSet(Amounts(l), I)
  BY AmountOfEntries DEF Amounts
<1>2. I \in SUBSET (DOMAIN l) /\ IsFiniteSet(I)
  BY IndicesFinite
<1>3. \A i \in DOMAIN l : Amounts(l)[i] = l[i].amount /\ Amounts(l)[i] \in Int
  BY ListFacts DEF Amounts
<1>4. ASSUME ~Stacks(id, all), NEW C \in SUBSET I
      PROVE  SumFunctionOnSet(Amounts(l), C) = Cardinality(C) /\ Cardinality(C) \in Nat
  <2>1. IsFiniteSet(C) /\ Cardinality(C) \in Nat
    BY <1>2, FS_Subset, FS_CardinalityType
  <2>2. \A i \in C : Amounts(l)[i] = 1
    BY <1>3, <1>4 DEF Packed, IndicesOf
  <2>3. SumFunctionOnSet(Amounts(l), C) = Cardinality(C) * 1
    BY <2>1, <2>2, SumOfEqual
  <2> QED BY <2>1, <2>3
<1>5. ASSUME Stacks(id, all), NEW i \in I
      PROVE  I = {i} /\ AmountOf(l, id) = l[i].amount /\ SumFunctionOnSet(Amounts(l), {i}) = l[i].amount
  <2>1. I = {i}
    BY <1>5 DEF Packed, IndicesOf
  <2>2. PICK T : T = {i}
    OBVIOUS
  <2>3. IsFiniteSet(T) /\ i \in T /\ T \ {i} = {} /\ \A k \in T : Amounts(l)[k] \in Int
    BY <1>2, <1>3, <2>1, <2>2
  <2>4. SumFunctionOnSet(Amounts(l), T) = Amounts(l)[i] + SumFunctionOnSet(Amounts(l), T \ {i})
    BY <2>3, SumOneMore
  <2>5. SumFunctionOnSet(Amounts(l), T) = Amounts(l)[i] + 0
    BY <2>3, <2>4, SumOfNone
  <2> HIDE DEF I
  <2> QED BY <1>1, <1>2, <1>3, <1>5, <2>1, <2>2, <2>5
<1>6. I = {} => AmountOf(l, id) = 0
  <2> HIDE DEF I
  <2> QED BY <1>1, SumOfNone
<1>7. ~Stacks(id, all) => AmountOf(l, id) = Cardinality(I)
  <2> HIDE DEF I
  <2> QED BY <1>1, <1>4
<1> QED BY <1>4, <1>5, <1>6, <1>7

(* RemoveByID takes just what it was asked for: entries of that id, or some of a stack. *)
LEMMA TakenIs ==
  ASSUME NEW l \in Seq(Item), NEW capacity, NEW all \in BOOLEAN, Packed(l, capacity, all), capacity \in Nat,
         NEW id, NEW n \in Nat, n >= 1, n <= AmountOf(l, id),
         NEW m, m = Taken(l, id, n, all), NEW C, C = Cut(l, id, n, all)
  PROVE  /\ C \in SUBSET IndicesOf(l, id) /\ C \in SUBSET (DOMAIN l)
         /\ C # {} => m = Without(l, C)
         /\ C = {} => Extended(l, m) /\ DOMAIN m = DOMAIN l
         /\ m \in Seq(Item) /\ Packed(m, capacity, all)
         /\ \A k : k # id => AmountOf(m, k) = AmountOf(l, k)
         /\ AmountOf(m, id) = AmountOf(l, id) - n
         /\ ~Stacks(id, all) => Len(m) = Len(l) - n
<1> DEFINE I == IndicesOf(l, id)
           at == GetIndex(l, id)
<1>1. I \in SUBSET (DOMAIN l) /\ I \in SUBSET Int /\ IsFiniteSet(I) /\ Cardinality(I) \in Nat
  BY IndicesFinite
<1>2. I # {} /\ at \in I
  <2>1. I # {}
    BY PackedAmount
  <2> QED BY <2>1, GetIndexIs
<1>3. C = IF Stacks(id, all) THEN {i \in LastOf(I, 1) : l[i].amount = n} ELSE LastOf(I, n)
  BY DEF Cut, IndicesOf
<1>4. m = IF C = {} THEN [l EXCEPT ![at].amount = @ - n] ELSE Without(l, C)
  BY DEF Taken
<1>5. \A k : AmountOf(l, k) \in Int
  BY AmountIs
<1>6. ASSUME C \in SUBSET I, C # {}, SumFunctionOnSet(Amounts(l), C) = n
      PROVE  /\ m = Without(l, C) /\ m \in Seq(Item) /\ Packed(m, capacity, all)
             /\ \A k : k # id => AmountOf(m, k) = AmountOf(l, k)
             /\ AmountOf(m, id) = AmountOf(l, id) - n
             /\ Len(m) = Len(l) - Cardinality(C)
  <2>1. m = Without(l, C) /\ C \in SUBSET (DOMAIN l)
    BY <1>1, <1>4, <1>6
  <2>2. m \in Seq(Item) /\ Len(m) = Len(l) - Cardinality(C) /\ Packed(m, capacity, all)
    BY <2>1, WithoutKeeps
  <2>3. ASSUME NEW k, k # id PROVE AmountOf(m, k) = AmountOf(l, k)
    <3>1. C \cap IndicesOf(l, k) = {}
      BY <1>6, <2>3 DEF IndicesOf
    <3>2. AmountOf(l, k) = AmountOf(m, k) + SumFunctionOnSet(Amounts(l), C \cap IndicesOf(l, k)) /\ AmountOf(m, k) \in Int
      BY <2>1, AmountWithout
    <3>3. AmountOf(l, k) = AmountOf(m, k) + 0
      BY <3>1, <3>2, SumOfNone
    <3> QED BY <1>5, <3>2, <3>3
  <2>4. AmountOf(m, id) = AmountOf(l, id) - n
    <3>1. C \cap IndicesOf(l, id) = C
      BY <1>6
    <3>2. AmountOf(l, id) = AmountOf(m, id) + SumFunctionOnSet(Amounts(l), C \cap IndicesOf(l, id)) /\ AmountOf(m, id) \in Int
      BY <2>1, AmountWithout
    <3>3. AmountOf(l, id) = AmountOf(m, id) + SumFunctionOnSet(Amounts(l), C)
      BY <3>1, <3>2
    <3> HIDE DEF I
    <3> QED BY <1>5, <1>6, <3>2, <3>3
  <2> QED BY <2>1, <2>2, <2>3, <2>4
<1>7. CASE ~Stacks(id, all)
  <2>1. AmountOf(l, id) = Cardinality(I)
    BY <1>7, PackedAmount
  <2>2. C = LastOf(I, n)
    BY <1>3, <1>7
  <2> HIDE DEF I
  <2>3. C \in SUBSET I /\ IsFiniteSet(C) /\ Cardinality(C) = n
    BY <1>1, <2>1, <2>2, LastOfCount
  <2>4. C # {}
    BY <2>3, FS_EmptySet
  <2>5. SumFunctionOnSet(Amounts(l), C) = n
    BY <1>7, <2>3, PackedAmount DEF I
  <2> QED BY <1>1, <1>6, <2>3, <2>4, <2>5 DEF I
<1>8. CASE Stacks(id, all)
  <2>1. I = {at} /\ AmountOf(l, id) = l[at].amount /\ SumFunctionOnSet(Amounts(l), {at}) = l[at].amount
    BY <1>2, <1>8, PackedAmount
  <2>2. LastOf(I, 1) = {at}
    <3>1. {j \in I : j > at} = {}
      <4> HIDE DEF at, I
      <4> QED BY <1>1, <1>2, <2>1
    <3> DEFINE After(i) == {j \in I : j > i}
    <3>2. Cardinality(After(at)) = 0
      BY <3>1, FS_EmptySet
    <3>3. \A i : i \in LastOf(I, 1) <=> i \in I /\ Cardinality(After(i)) < 1
      BY DEF LastOf
    <3> HIDE DEF After, I, at
    <3>4. at \in LastOf(I, 1)
      <4>1. at \in LastOf(I, 1) <=> at \in I /\ Cardinality(After(at)) < 1
        BY <3>3
      <4>2. at \in I
        BY <2>1
      <4>3. Cardinality(After(at)) < 1
        BY <3>2
      <4> QED BY <4>1, <4>2, <4>3
    <3>5. LastOf(I, 1) \subseteq I
      BY <3>3
    <3> QED BY <2>1, <3>4, <3>5
  <2>3. C = {i \in {at} : l[i].amount = n}
    BY <1>3, <1>8, <2>2
  <2>4. at \in DOMAIN l /\ l[at].id = id /\ l[at] \in Item /\ l[at].amount \in Nat
    BY <1>1, <1>2, ListFacts DEF IndicesOf
  <2> HIDE DEF at, I
  <2>5. CASE l[at].amount = n
    <3>1. C = {at}
      BY <2>3, <2>5
    <3>2. C \in SUBSET I /\ C # {} /\ SumFunctionOnSet(Amounts(l), C) = n
      BY <2>1, <2>5, <3>1
    <3> QED BY <1>1, <1>6, <1>8, <3>2 DEF I
  <2>6. CASE l[at].amount # n
    <3>1. C = {}
      BY <2>3, <2>6
    <3>2. m = [l EXCEPT ![at].amount = l[at].amount - n]
      BY <1>4, <3>1
    <3>3. l[at].amount - n \in Nat /\ l[at].amount - n >= 1 /\ l[at].amount \in 1..MaxAmount
      <4>1. l[at].amount \in 1..MaxAmount
        BY <2>4 DEF Packed
      <4> QED BY <2>1, <2>4, <2>6, <4>1
    <3>4. PICK rest : rest = l[at].amount - n
      OBVIOUS
    <3>41. rest \in Nat /\ rest >= 1 /\ rest <= MaxAmount /\ rest \in 1..MaxAmount
      BY <3>3, <3>4, InventoryAssumption
    <3>5. Reamount(l, m, at, rest)
      BY <2>4, <3>2, <3>4, <3>41 DEF Reamount
    <3>6. /\ Extended(l, m) /\ DOMAIN m = DOMAIN l /\ Len(m) = Len(l)
          /\ m[at].amount = rest /\ \A j \in DOMAIN l \ {at} : m[j] = l[j]
      BY <3>5, Reamounted
    <3>7. \A k : k # id => AmountOf(m, k) = AmountOf(l, k)
      BY <2>4, <3>5, Reamounted
    <3>8. AmountOf(m, id) = AmountOf(l, id) + (rest - l[at].amount)
      BY <2>4, <3>5, Reamounted
    <3>9. AmountOf(m, id) = AmountOf(l, id) - n
      BY <1>5, <2>4, <3>4, <3>8
    <3>10. Packed(m, capacity, all)
      <4>1. \A i \in DOMAIN l : m[i].amount \in 1..MaxAmount /\ m[i].id = l[i].id
        BY <2>4, <3>41, <3>6 DEF Packed, Extended
      <4>2. \A i \in DOMAIN l : ~Stacks(l[i].id, all) => m[i].amount = 1
        BY <1>8, <2>4, <3>6 DEF Packed
      <4> QED BY <3>6, <4>1, <4>2 DEF Packed, Extended
    <3> QED BY <1>1, <1>8, <3>1, <3>6, <3>7, <3>9, <3>10 DEF Extended
  <2> QED BY <2>5, <2>6
<1> QED BY <1>7, <1>8

-----------------------------------------------------------------------------
(* Items on the ground. *)

(* How much of an id lies in a bag. *)
Lying(b, id) == SumFunction([g \in BagToSet(b) |-> IF g.id = id THEN g.amount * b[g] ELSE 0])

(* A bag of what may lie on the ground: unstackable items piece by piece. *)
Heap(b) ==
  /\ IsFiniteSet(DOMAIN b) /\ b = [g \in DOMAIN b |-> b[g]]
  /\ \A g \in DOMAIN b : /\ g \in [id : Id, amount : 1..MaxAmount] /\ b[g] \in Nat /\ b[g] >= 1
                         /\ g.id \notin StackableId => g.amount = 1

Share(b, id, g) == IF g \in DOMAIN b /\ g.id = id THEN g.amount * b[g] ELSE 0

LEMMA ShareInt ==
  ASSUME NEW b, Heap(b), NEW id, NEW g
  PROVE  /\ Share(b, id, g) \in Int
         /\ g \in DOMAIN b => g.id \in Id /\ g.amount \in Nat /\ g.amount >= 1 /\ g.amount <= MaxAmount /\ b[g] \in Nat
<1>1. g \in DOMAIN b => g.id \in Id /\ g.amount \in Nat /\ g.amount >= 1 /\ g.amount <= MaxAmount /\ b[g] \in Nat
  BY InventoryAssumption DEF Heap
<1>2. ASSUME g \in DOMAIN b PROVE g.amount * b[g] \in Int
  <2>1. g.amount \in Int /\ b[g] \in Int
    BY <1>1, <1>2
  <2> QED BY <2>1
<1> QED BY <1>1, <1>2 DEF Share

LEMMA LyingIs ==
  ASSUME NEW b, Heap(b), NEW id, NEW D, IsFiniteSet(D), DOMAIN b \subseteq D,
         NEW f, \A g \in D : f[g] = Share(b, id, g)
  PROVE  Lying(b, id) = SumFunctionOnSet(f, D) /\ Lying(b, id) \in Int
<1> DEFINE B == DOMAIN b
           R == D \ B
           h == [g \in B |-> IF g.id = id THEN g.amount * b[g] ELSE 0]
<1>1. B \in SUBSET D /\ IsFiniteSet(B) /\ IsFiniteSet(R) /\ \A g \in D : f[g] \in Int
  <2>1. B \in SUBSET D /\ IsFiniteSet(B)
    BY DEF Heap
  <2>2. IsFiniteSet(R)
    BY <2>1, CountRest
  <2>3. \A g \in D : f[g] \in Int
    BY ShareInt
  <2> QED BY <2>1, <2>2, <2>3
<1>2. Lying(b, id) = SumFunctionOnSet(h, B)
  BY DEF Lying, SumFunction, BagToSet
<1>3. \A g \in B : h[g] = f[g]
  BY <1>1 DEF Share
<1>4. \A g \in R : f[g] = 0
  BY DEF Share
<1> HIDE DEF h, B
<1>5. SumFunctionOnSet(h, B) = SumFunctionOnSet(f, B)
  BY <1>1, <1>3, SumSame
<1>6. SumFunctionOnSet(f, D) = SumFunctionOnSet(f, B) + SumFunctionOnSet(f, R) /\ SumFunctionOnSet(f, B) \in Int
  BY <1>1, SumSplit
<1>7. SumFunctionOnSet(f, R) = 0
  <2> HIDE DEF R
  <2>1. SumFunctionOnSet(f, R) = Cardinality(R) * 0 /\ Cardinality(R) \in Nat
    BY <1>1, <1>4, SumOfEqual, FS_CardinalityType
  <2> QED BY <2>1
<1> QED BY <1>2, <1>5, <1>6, <1>7

LEMMA LyingInt ==
  ASSUME NEW b, Heap(b), NEW id
  PROVE  Lying(b, id) \in Int
<1> DEFINE f == [g \in DOMAIN b |-> Share(b, id, g)]
<1>1. \A g \in DOMAIN b : f[g] = Share(b, id, g)
  OBVIOUS
<1>2. IsFiniteSet(DOMAIN b)
  BY DEF Heap
<1> HIDE DEF f
<1> QED BY <1>1, <1>2, LyingIs

(* What lies in two bags lies in their sum. *)
LEMMA HeapJoin ==
  ASSUME NEW a, Heap(a), NEW b, Heap(b), NEW c, c = a (+) b
  PROVE  Heap(c) /\ \A id : Lying(c, id) = Lying(a, id) + Lying(b, id)
<1> DEFINE D == (DOMAIN a) \cup (DOMAIN b)
<1>1. c = [g \in D |-> (IF g \in DOMAIN a THEN a[g] ELSE 0) + (IF g \in DOMAIN b THEN b[g] ELSE 0)]
  BY DEF (+)
<1>2. /\ DOMAIN c = D /\ c = [g \in DOMAIN c |-> c[g]]
      /\ \A g \in D : c[g] = (IF g \in DOMAIN a THEN a[g] ELSE 0) + (IF g \in DOMAIN b THEN b[g] ELSE 0)
  BY <1>1
<1>3. IsFiniteSet(D)
  BY FS_Union DEF Heap
<1>4. \A g \in D : c[g] \in Nat /\ c[g] >= 1
  BY <1>2 DEF Heap
<1>5. \A g \in D : g \in [id : Id, amount : 1..MaxAmount] /\ (g.id \notin StackableId => g.amount = 1)
  BY DEF Heap
<1>6. Heap(c)
  <2> HIDE DEF D
  <2> QED BY <1>2, <1>3, <1>4, <1>5 DEF Heap
<1>7. ASSUME NEW id PROVE Lying(c, id) = Lying(a, id) + Lying(b, id)
  <2> DEFINE x == [g \in D |-> Share(a, id, g)]
             y == [g \in D |-> Share(b, id, g)]
             z == [g \in D |-> Share(c, id, g)]
  <2>1. \A g \in D : x[g] = Share(a, id, g) /\ y[g] = Share(b, id, g) /\ z[g] = Share(c, id, g)
    OBVIOUS
  <2>2. DOMAIN a \subseteq D /\ DOMAIN b \subseteq D /\ DOMAIN c \subseteq D
    BY <1>2
  <2>3. ASSUME NEW g \in D PROVE Share(c, id, g) = Share(a, id, g) + Share(b, id, g)
    <3>1. CASE g.id # id
      BY <3>1 DEF Share
    <3>2. CASE g.id = id
      <4>1. PICK m : m = g.amount
        OBVIOUS
      <4>2. m \in Int
        <5>1. g.amount \in 1..MaxAmount /\ MaxAmount \in Nat
          BY <1>5, InventoryAssumption
        <5> QED BY <4>1, <5>1
      <4>3. PICK p : p = IF g \in DOMAIN a THEN a[g] ELSE 0
        OBVIOUS
      <4>4. PICK q : q = IF g \in DOMAIN b THEN b[g] ELSE 0
        OBVIOUS
      <4>5. p \in Int /\ q \in Int
        BY <4>3, <4>4 DEF Heap
      <4>6. m * (p + q) = m * p + m * q /\ m * 0 = 0
        BY <4>2, <4>5
      <4>7. Share(a, id, g) = m * p
        BY <3>2, <4>1, <4>3, <4>6 DEF Share
      <4>8. Share(b, id, g) = m * q
        BY <3>2, <4>1, <4>4, <4>6 DEF Share
      <4>9. Share(c, id, g) = m * (p + q)
        BY <3>2, <1>2, <4>1, <4>3, <4>4 DEF Share
      <4> QED BY <4>6, <4>7, <4>8, <4>9
    <3> QED BY <3>1, <3>2
  <2> HIDE DEF x, y, z, D
  <2>4. \A g \in D : x[g] \in Int /\ y[g] \in Int /\ z[g] = x[g] + y[g]
    BY <2>1, <2>3, ShareInt
  <2>5. SumFunctionOnSet(z, D) = SumFunctionOnSet(x, D) + SumFunctionOnSet(y, D)
    BY <1>3, <2>4, SumPlus
  <2>6. Lying(a, id) = SumFunctionOnSet(x, D)
    BY <1>3, <2>1, <2>2, LyingIs
  <2>7. Lying(b, id) = SumFunctionOnSet(y, D)
    BY <1>3, <2>1, <2>2, LyingIs
  <2>8. Lying(c, id) = SumFunctionOnSet(z, D)
    BY <1>3, <1>6, <2>1, <2>2, LyingIs
  <2> QED BY <2>5, <2>6, <2>7, <2>8
<1> QED BY <1>6, <1>7

(* One item. *)
OneItem(b, id, n) == id \in Id /\ n \in 1..MaxAmount /\ (id \notin StackableId => n = 1) /\ b = Loose(id, n)
LEMMA HeapOne ==
  ASSUME NEW b, NEW id, NEW n, OneItem(b, id, n)
  PROVE  /\ Heap(b) /\ DOMAIN b = {[id |-> id, amount |-> n]} /\ b[[id |-> id, amount |-> n]] = 1
         /\ Lying(b, id) = n /\ \A k : k # id => Lying(b, k) = 0
<1>1. PICK g : g = [id |-> id, amount |-> n]
  OBVIOUS
<1>0. id \in Id /\ n \in 1..MaxAmount /\ (id \notin StackableId => n = 1) /\ b = Loose(id, n)
  BY DEF OneItem
<1>2. g.id = id /\ g.amount = n /\ g \in [id : Id, amount : 1..MaxAmount] /\ n \in Int
  BY <1>0, <1>1
<1>3. b = [e \in {g} |-> 1]
  BY <1>0, <1>1 DEF Loose, SetToBag
<1>4. DOMAIN b = {g} /\ b[g] = 1 /\ b = [e \in DOMAIN b |-> b[e]]
  BY <1>3
<1>5. PICK S : S = {g}
  OBVIOUS
<1>6. IsFiniteSet(S) /\ g \in S /\ S \ {g} = {}
  BY <1>5, FS_Singleton
<1>7. Heap(b)
  BY <1>0, <1>2, <1>4, <1>5, <1>6 DEF Heap
<1>8. ASSUME NEW k PROVE Lying(b, k) = IF k = id THEN n ELSE 0
  <2> DEFINE f == [e \in S |-> Share(b, k, e)]
  <2>1. \A e \in S : f[e] = Share(b, k, e) /\ f[e] \in Int
    BY <1>7, ShareInt
  <2>2. f[g] = IF k = id THEN n ELSE 0
    BY <1>2, <1>4, <1>6 DEF Share
  <2> HIDE DEF f
  <2>3. Lying(b, k) = SumFunctionOnSet(f, S)
    BY <1>4, <1>5, <1>6, <1>7, <2>1, LyingIs
  <2>4. SumFunctionOnSet(f, S) = f[g] + SumFunctionOnSet(f, S \ {g})
    BY <1>6, <2>1, SumOneMore
  <2>5. SumFunctionOnSet(f, S) = f[g] + 0
    BY <1>6, <2>4, SumOfNone
  <2> QED BY <1>2, <2>2, <2>3, <2>5
<1> QED BY <1>1, <1>4, <1>7, <1>8

(* Taking one item away. *)
LEMMA HeapTake ==
  ASSUME NEW a, Heap(a), NEW g \in DOMAIN a, NEW b, b = Loose(g.id, g.amount), NEW c, c = a (-) b
  PROVE  /\ Heap(c) /\ Lying(c, g.id) = Lying(a, g.id) - g.amount
         /\ \A k : k # g.id => Lying(c, k) = Lying(a, k)
         /\ g.id \in Id /\ g.amount \in 1..MaxAmount /\ (g.id \notin StackableId => g.amount = 1)
<1>1. g.id \in Id /\ g.amount \in 1..MaxAmount /\ (g.id \notin StackableId => g.amount = 1)
  BY DEF Heap
<1>2. g = [id |-> g.id, amount |-> g.amount]
  BY DEF Heap
<1>3. /\ Heap(b) /\ DOMAIN b = {g} /\ b[g] = 1 /\ Lying(b, g.id) = g.amount
      /\ \A k : k # g.id => Lying(b, k) = 0
  <2>1. OneItem(b, g.id, g.amount)
    BY <1>1 DEF OneItem
  <2> QED BY <1>2, <2>1, HeapOne
<1> DEFINE r == [e \in DOMAIN a |-> IF e \in DOMAIN b THEN a[e] - b[e] ELSE a[e]]
           E == {d \in DOMAIN r : r[d] > 0}
<1>4. c = [e \in E |-> r[e]]
  BY DEF (-)
<1>5. DOMAIN c = E /\ c = [e \in DOMAIN c |-> c[e]] /\ (\A e \in E : c[e] = r[e]) /\ E \in SUBSET (DOMAIN a)
  BY <1>4
<1>6. \A e \in DOMAIN a : /\ r[e] = IF e = g THEN a[e] - 1 ELSE a[e]
                          /\ a[e] \in Nat /\ a[e] >= 1 /\ r[e] \in Nat /\ (e # g => e \in E)
                          /\ e \in E <=> r[e] >= 1
  BY <1>3 DEF Heap
<1>7. IsFiniteSet(E)
  <2> HIDE DEF E
  <2> QED BY <1>5, FS_Subset DEF Heap
<1> HIDE DEF E, r
<1>8. Heap(c)
  <2>1. \A e \in E : /\ e \in [id : Id, amount : 1..MaxAmount] /\ c[e] \in Nat /\ c[e] >= 1
                     /\ e.id \notin StackableId => e.amount = 1
    BY <1>5, <1>6 DEF Heap
  <2> QED BY <1>5, <1>7, <2>1 DEF Heap
<1>9. a = c (+) b
  <2> DEFINE s == [e \in (DOMAIN c) \cup (DOMAIN b) |->
                     (IF e \in DOMAIN c THEN c[e] ELSE 0) + (IF e \in DOMAIN b THEN b[e] ELSE 0)]
  <2>1. c (+) b = s
    BY DEF (+)
  <2>2. (DOMAIN c) \cup (DOMAIN b) = DOMAIN a
    BY <1>3, <1>5, <1>6
  <2>3. ASSUME NEW e \in DOMAIN a
        PROVE a[e] = (IF e \in DOMAIN c THEN c[e] ELSE 0) + (IF e \in DOMAIN b THEN b[e] ELSE 0)
    <3>1. CASE e # g
      BY <1>3, <1>5, <1>6, <3>1
    <3>2. CASE e = g
      BY <1>3, <1>5, <1>6, <3>2
    <3> QED BY <3>1, <3>2
  <2>4. \A e \in DOMAIN a : s[e] = a[e]
    BY <2>2, <2>3
  <2>5. a = [e \in DOMAIN a |-> a[e]]
    BY DEF Heap
  <2> QED BY <2>1, <2>2, <2>4, <2>5
<1>10. \A k : Lying(a, k) = Lying(c, k) + Lying(b, k) /\ Lying(c, k) \in Int
  BY <1>3, <1>8, <1>9, HeapJoin, LyingInt
<1>11. Lying(c, g.id) = Lying(a, g.id) - g.amount
  BY <1>1, <1>3, <1>10, InventoryAssumption
<1>12. \A k : k # g.id => Lying(c, k) = Lying(a, k)
  BY <1>3, <1>10
<1> QED BY <1>1, <1>8, <1>11, <1>12

(* One entry more on a pile. *)
LEMMA PileMore ==
  ASSUME NEW T, IsFiniteSet(T), NEW i \in T
  PROVE  Pile(T) = Pile(T \ {i}) (+) Loose(inv[i].id, inv[i].amount)
<1> DEFINE R == T \ {i}
           Of(U, g) == {j \in U : Entry(j) = g}
           x == Entry(i)
           a == Pile(R)
           b == Loose(inv[i].id, inv[i].amount)
           D == (DOMAIN a) \cup (DOMAIN b)
<1>1. b = [e \in {x} |-> 1]
  BY DEF Loose, SetToBag, Entry
<1>2. DOMAIN b = {x} /\ b[x] = 1
  BY <1>1
<1>3. a = [g \in {Entry(j) : j \in R} |-> Cardinality(Of(R, g))]
  BY DEF Pile
<1>4. Pile(T) = [g \in {Entry(j) : j \in T} |-> Cardinality(Of(T, g))]
  BY DEF Pile
<1>5. \A g : Of(R, g) \in SUBSET R /\ Of(T, g) \in SUBSET T
  OBVIOUS
<1>6. \A g : IsFiniteSet(Of(R, g)) /\ IsFiniteSet(Of(T, g)) /\ Cardinality(Of(R, g)) \in Nat
  <2>1. IsFiniteSet(R)
    BY CountRest
  <2> HIDE DEF Of, R
  <2> QED BY <1>5, <2>1, FS_Subset, FS_CardinalityType
<1>7. Cardinality(Of(T, x)) = Cardinality(Of(R, x)) + 1
  <2>1. i \in Of(T, x) /\ Of(R, x) = Of(T, x) \ {i}
    OBVIOUS
  <2>2. PICK U : U = Of(T, x)
    OBVIOUS
  <2>3. IsFiniteSet(U) /\ i \in U /\ Of(R, x) = U \ {i}
    BY <1>6, <2>1, <2>2
  <2>4. Cardinality(U \ {i}) = Cardinality(U) - 1 /\ Cardinality(U) \in Nat
    BY <2>3, FS_RemoveElement, FS_CardinalityType
  <2> HIDE DEF Of, x, R
  <2> QED BY <2>2, <2>3, <2>4
<1>8. ASSUME NEW g, g # x PROVE Of(T, g) = Of(R, g)
  BY <1>8
<1>9. {Entry(j) : j \in T} = D
  <2>1. {Entry(j) : j \in T} = {Entry(j) : j \in R} \cup {x}
    BY DEF x
  <2>2. DOMAIN a = {Entry(j) : j \in R}
    BY <1>3
  <2> QED BY <1>2, <2>1, <2>2
<1>10. ASSUME NEW g \in D
       PROVE  Cardinality(Of(T, g)) = (IF g \in DOMAIN a THEN a[g] ELSE 0) + (IF g \in DOMAIN b THEN b[g] ELSE 0)
  <2>1. g \in DOMAIN a => a[g] = Cardinality(Of(R, g))
    BY <1>3
  <2>2. g \notin DOMAIN a => Cardinality(Of(R, g)) = 0
    <3>1. ASSUME g \notin DOMAIN a PROVE Of(R, g) = {}
      BY <1>3, <3>1
    <3> HIDE DEF Of
    <3> QED BY <3>1, FS_EmptySet
  <2>3. PICK n : n = Cardinality(Of(R, g))
    OBVIOUS
  <2>4. n \in Nat /\ n = IF g \in DOMAIN a THEN a[g] ELSE 0
    BY <1>6, <2>1, <2>2, <2>3
  <2>5. CASE g = x
    <3>1. Cardinality(Of(T, g)) = n + 1
      BY <1>7, <2>3, <2>5
    <3>2. g \in DOMAIN b /\ b[g] = 1
      BY <1>2, <2>5
    <3> HIDE DEF Of, a, b, D, x
    <3> QED BY <2>4, <3>1, <3>2
  <2>6. CASE g # x
    <3>1. Cardinality(Of(T, g)) = n
      BY <1>8, <2>3, <2>6
    <3>2. g \notin DOMAIN b
      BY <1>2, <2>6
    <3> HIDE DEF Of, a, b, D, x
    <3> QED BY <2>4, <3>1, <3>2
  <2> QED BY <2>5, <2>6
<1> DEFINE s == [e \in D |-> (IF e \in DOMAIN a THEN a[e] ELSE 0) + (IF e \in DOMAIN b THEN b[e] ELSE 0)]
<1>11. a (+) b = s
  BY DEF (+)
<1>12. Pile(T) = [g \in D |-> Cardinality(Of(T, g))]
  BY <1>4, <1>9
<1>13. Pile(T) = s
  <2> HIDE DEF Of, a, b, D
  <2> QED BY <1>10, <1>12
<1> QED BY <1>11, <1>13

(* What was carried at the indices lies on the ground. *)
LEMMA HeapPile ==
  ASSUME inv \in Seq(Item), Packed(inv, Capacity, FALSE), NEW S \in SUBSET (DOMAIN inv), NEW id
  PROVE  Heap(Pile(S)) /\ Lying(Pile(S), id) = SumFunctionOnSet(Amounts(inv), S \cap IndicesOf(inv, id))
<1> DEFINE Holds(U) == Heap(Pile(U)) /\ Lying(Pile(U), id) = SumFunctionOnSet(Amounts(inv), U \cap IndicesOf(inv, id))
           B == {U \in SUBSET S : ~Holds(U)}
<1>1. IsFiniteSet(S) /\ \A T \in SUBSET S : IsFiniteSet(T)
  BY ListFacts, FS_Subset
<1>2. {} \notin B
  <2>1. PICK e : e = Pile({})
    OBVIOUS
  <2>2. DOMAIN e = {} /\ e = [g \in DOMAIN e |-> e[g]]
    BY <2>1 DEF Pile
  <2>3. Heap(e)
    BY <2>2, FS_EmptySet DEF Heap
  <2>4. Lying(e, id) = 0
    <3>1. \A g \in {} : e[g] = Share(e, id, g)
      OBVIOUS
    <3>2. Lying(e, id) = SumFunctionOnSet(e, {})
      BY <2>2, <2>3, <3>1, FS_EmptySet, LyingIs
    <3> QED BY <3>2, SumOfNone
  <2>5. SumFunctionOnSet(Amounts(inv), {} \cap IndicesOf(inv, id)) = 0
    <3>1. {} \cap IndicesOf(inv, id) = {}
      OBVIOUS
    <3> QED BY <3>1, SumOfNone
  <2>6. Holds({})
    BY <2>1, <2>3, <2>4, <2>5
  <2> HIDE DEF Holds
  <2> QED BY <2>6
<1>3. ASSUME NEW T \in SUBSET S, T \in B PROVE \E i \in T : T \ {i} \in B
  <2>1. T # {}
    BY <1>2, <1>3
  <2>2. PICK i \in T : TRUE
    BY <2>1
  <2>3. PICK R : R = T \ {i}
    OBVIOUS
  <2>4. ASSUME Holds(R) PROVE Holds(T)
    <3>1. PICK a : a = Pile(R)
      OBVIOUS
    <3>2. PICK b : b = Loose(inv[i].id, inv[i].amount)
      OBVIOUS
    <3>3. PICK c : c = Pile(T)
      OBVIOUS
    <3>4. c = a (+) b
      BY <1>1, <2>3, <3>1, <3>2, <3>3, PileMore
    <3>5. /\ i \in DOMAIN inv /\ inv[i].id \in Id /\ inv[i].amount \in 1..MaxAmount
          /\ inv[i].id \notin StackableId => inv[i].amount = 1
      <4>1. i \in DOMAIN inv /\ inv[i].id \in Id
        BY ListFacts
      <4> QED BY <4>1 DEF Packed, Stacks
    <3>6. /\ Heap(b) /\ Lying(b, inv[i].id) = inv[i].amount
          /\ \A k : k # inv[i].id => Lying(b, k) = 0
      <4>1. OneItem(b, inv[i].id, inv[i].amount)
        BY <3>2, <3>5 DEF OneItem
      <4> QED BY <4>1, HeapOne
    <3>7. Heap(a) /\ Lying(a, id) = SumFunctionOnSet(Amounts(inv), R \cap IndicesOf(inv, id))
      BY <2>4, <3>1
    <3>8. Heap(c) /\ Lying(c, id) = Lying(a, id) + Lying(b, id)
      <4>1. Heap(a) /\ Heap(b) /\ c = a (+) b
        BY <3>4, <3>6, <3>7
      <4>2. Heap(c) /\ \A k : Lying(c, k) = Lying(a, k) + Lying(b, k)
        BY ONLY <4>1, HeapJoin
      <4> QED BY <4>2
    <3>9. PICK X : X = T \cap IndicesOf(inv, id)
      OBVIOUS
    <3>10. IsFiniteSet(X) /\ \A k \in X : Amounts(inv)[k] \in Int
      <4>1. X \in SUBSET (DOMAIN inv) /\ IsFiniteSet(DOMAIN inv)
        BY <3>9, ListFacts
      <4>2. \A k \in DOMAIN inv : inv[k].amount \in Nat
        BY ListFacts
      <4> QED BY <4>1, <4>2, FS_Subset DEF Amounts
    <3>11. Lying(a, id) \in Int
      BY <3>7, LyingInt
    <3> HIDE DEF Holds
    <3>12. CASE inv[i].id = id
      <4>1. i \in X /\ X \ {i} = R \cap IndicesOf(inv, id)
        BY <2>3, <3>5, <3>9, <3>12 DEF IndicesOf
      <4>2. SumFunctionOnSet(Amounts(inv), X) = Amounts(inv)[i] + SumFunctionOnSet(Amounts(inv), X \ {i})
        BY <3>10, <4>1, SumOneMore
      <4>3. Amounts(inv)[i] = inv[i].amount /\ inv[i].amount \in Int
        BY <3>5, ListFacts DEF Amounts
      <4>4. PICK y : y = SumFunctionOnSet(Amounts(inv), X \ {i})
        OBVIOUS
      <4>5. Lying(a, id) = y /\ y \in Int
        BY <3>7, <3>11, <4>1, <4>4
      <4>6. Lying(b, id) = Amounts(inv)[i] /\ Amounts(inv)[i] \in Int
        BY <3>6, <3>12, <4>3
      <4>7. Lying(c, id) = SumFunctionOnSet(Amounts(inv), X)
        BY <3>8, <4>2, <4>4, <4>5, <4>6
      <4> QED BY <3>3, <3>8, <3>9, <4>7 DEF Holds
    <3>13. CASE inv[i].id # id
      <4>1. X = R \cap IndicesOf(inv, id)
        BY <2>3, <3>9, <3>13 DEF IndicesOf
      <4>2. Lying(c, id) = SumFunctionOnSet(Amounts(inv), X)
        BY <3>6, <3>7, <3>8, <3>11, <3>13, <4>1
      <4> QED BY <3>3, <3>8, <3>9, <4>2 DEF Holds
    <3> QED BY <3>12, <3>13
  <2> HIDE DEF Holds
  <2>5. R \in B
    BY <1>3, <2>3, <2>4
  <2> QED BY <2>2, <2>3, <2>5
<1> HIDE DEF B
<1>4. S \notin B
  BY <1>1, <1>2, <1>3, SetInduction
<1>5. Holds(S)
  <2> HIDE DEF Holds
  <2> QED BY <1>4 DEF B
<1> QED BY <1>5

-----------------------------------------------------------------------------
(* Amounts and their bounds. *)

LEMMA SumNat ==
  ASSUME NEW S, IsFiniteSet(S), NEW f, \A k \in S : f[k] \in Nat
  PROVE  SumFunctionOnSet(f, S) \in Nat
<1> DEFINE Z(U) == SumFunctionOnSet(f, U)
           B == {U \in SUBSET S : Z(U) \notin Nat}
<1>1. {} \notin B
  BY SumOfNone
<1>2. ASSUME NEW T \in SUBSET S, T \in B PROVE \E x \in T : T \ {x} \in B
  <2>1. T # {} /\ IsFiniteSet(T)
    BY <1>1, <1>2, FS_Subset
  <2>2. PICK x \in T : TRUE
    BY <2>1
  <2>3. Z(T) = f[x] + Z(T \ {x}) /\ f[x] \in Nat
    BY <2>1, SumOneMore
  <2> HIDE DEF Z
  <2>4. Z(T \ {x}) \notin Nat
    BY <1>2, <2>3
  <2> QED BY <2>4
<1> HIDE DEF B
<1>3. S \notin B
  BY <1>1, <1>2, SetInduction
<1> QED BY <1>3 DEF B

LEMMA AmountNat ==
  ASSUME NEW l \in Seq(Item), NEW id
  PROVE  AmountOf(l, id) \in Nat
<1>1. AmountOf(l, id) = SumFunctionOnSet(Amounts(l), IndicesOf(l, id))
  BY AmountOfEntries DEF Amounts
<1>2. IsFiniteSet(IndicesOf(l, id)) /\ \A i \in IndicesOf(l, id) : Amounts(l)[i] \in Nat
  BY IndicesFinite, ListFacts DEF Amounts
<1> QED BY <1>1, <1>2, SumNat

(* CountID's answer bounds what is asked for. *)
LEMMA CountIs ==
  ASSUME NEW l \in Seq(Item), NEW id, NEW n \in 1..CountID(l, id)
  PROVE  n \in Nat /\ n >= 1 /\ n <= AmountOf(l, id)
<1>1. AmountOf(l, id) \in Nat
  BY AmountNat
<1>2. CountID(l, id) = AmountOf(l, id) \/ CountID(l, id) = -1
  BY DEF CountID
<1> QED BY <1>1, <1>2

LEMMA AmountBound ==
  ASSUME NEW l \in Seq(Item), NEW capacity \in Nat, NEW all \in BOOLEAN, Packed(l, capacity, all),
         all \/ capacity <= MaxAmount, NEW id
  PROVE  AmountOf(l, id) <= MaxAmount
<1> DEFINE I == IndicesOf(l, id)
<1>1. MaxAmount \in Nat /\ MaxAmount >= 1
  BY InventoryAssumption
<1>2. I \in SUBSET (DOMAIN l) /\ IsFiniteSet(DOMAIN l) /\ Cardinality(DOMAIN l) = Len(l) /\ Len(l) \in Nat
  BY IndicesFinite, ListFacts
<1>3. CASE ~Stacks(id, all)
  <2>1. AmountOf(l, id) = Cardinality(I)
    BY <1>3, PackedAmount
  <2>2. Cardinality(I) \in Nat /\ Cardinality((DOMAIN l) \ I) = Len(l) - Cardinality(I) /\ Cardinality((DOMAIN l) \ I) \in Nat
    <3>1. PICK S : S = DOMAIN l
      OBVIOUS
    <3>2. IsFiniteSet(S) /\ I \in SUBSET S /\ Cardinality(S) = Len(l)
      BY <1>2, <3>1
    <3> HIDE DEF I
    <3>3. Cardinality(I) \in Nat /\ Cardinality(S \ I) = Cardinality(S) - Cardinality(I) /\ Cardinality(S \ I) \in Nat
      BY <3>2, CountRest
    <3> QED BY <3>1, <3>2, <3>3
  <2>3. Len(l) <= capacity /\ capacity <= MaxAmount
    BY <1>3 DEF Packed, Stacks
  <2> HIDE DEF I
  <2> QED BY <1>1, <1>2, <2>1, <2>2, <2>3
<1>4. CASE Stacks(id, all)
  <2>1. I = {} => AmountOf(l, id) = 0
    BY PackedAmount
  <2>2. ASSUME NEW i \in I PROVE AmountOf(l, id) <= MaxAmount
    <3>1. AmountOf(l, id) = l[i].amount
      BY <1>4, PackedAmount
    <3>2. l[i].amount \in 1..MaxAmount
      BY <1>2 DEF Packed
    <3> QED BY <1>1, <3>1, <3>2
  <2> QED BY <1>1, <2>1, <2>2
<1> QED BY <1>3, <1>4

(* An entry goes. *)
LEMMA AmountWithoutOne ==
  ASSUME NEW l \in Seq(Item), NEW i \in DOMAIN l, NEW m, m = Without(l, {i})
  PROVE  /\ \A k : k # l[i].id => AmountOf(m, k) = AmountOf(l, k)
         /\ AmountOf(m, l[i].id) = AmountOf(l, l[i].id) - l[i].amount
<1>1. PICK C : C = {i}
  OBVIOUS
<1>2. C \in SUBSET (DOMAIN l) /\ m = Without(l, C)
  BY <1>1
<1>3. \A k : /\ AmountOf(l, k) = AmountOf(m, k) + SumFunctionOnSet(Amounts(l), C \cap IndicesOf(l, k))
             /\ AmountOf(l, k) \in Int /\ AmountOf(m, k) \in Int
  BY <1>2, AmountWithout
<1>4. ASSUME NEW k, k # l[i].id PROVE AmountOf(m, k) = AmountOf(l, k)
  <2>1. C \cap IndicesOf(l, k) = {}
    BY <1>1, <1>4 DEF IndicesOf
  <2>2. SumFunctionOnSet(Amounts(l), C \cap IndicesOf(l, k)) = 0
    BY <2>1, SumOfNone
  <2>3. /\ AmountOf(l, k) = AmountOf(m, k) + SumFunctionOnSet(Amounts(l), C \cap IndicesOf(l, k))
        /\ AmountOf(l, k) \in Int /\ AmountOf(m, k) \in Int
    BY <1>3
  <2> QED BY <2>2, <2>3
<1>5. AmountOf(m, l[i].id) = AmountOf(l, l[i].id) - l[i].amount
  <2>1. C \cap IndicesOf(l, l[i].id) = C
    BY <1>1 DEF IndicesOf
  <2>2. Amounts(l)[i] = l[i].amount /\ l[i].amount \in Int
    BY ListFacts DEF Amounts
  <2>3. IsFiniteSet(C) /\ i \in C /\ C \ {i} = {} /\ \A k \in C : Amounts(l)[k] \in Int
    BY <1>1, <2>2, FS_Singleton
  <2>4. SumFunctionOnSet(Amounts(l), C) = Amounts(l)[i] + SumFunctionOnSet(Amounts(l), C \ {i})
    BY <2>3, SumOneMore
  <2>5. SumFunctionOnSet(Amounts(l), C) = Amounts(l)[i] + 0
    BY <2>3, <2>4, SumOfNone
  <2>6. AmountOf(l, l[i].id) = AmountOf(m, l[i].id) + SumFunctionOnSet(Amounts(l), C)
    BY <1>3, <2>1
  <2>7. AmountOf(l, l[i].id) \in Int /\ AmountOf(m, l[i].id) \in Int
    BY <1>3
  <2> QED BY <2>2, <2>5, <2>6, <2>7
<1> QED BY <1>4, <1>5

(* Putting on and taking off moves nothing. *)
LEMMA AmountReworn ==
  ASSUME NEW l \in Seq(Item), NEW m \in Seq(Item), DOMAIN m = DOMAIN l,
         \A i \in DOMAIN l : m[i].id = l[i].id /\ m[i].amount = l[i].amount
  PROVE  /\ \A id : AmountOf(m, id) = AmountOf(l, id)
         /\ \A capacity, all : Packed(l, capacity, all) => Packed(m, capacity, all)
<1>1. ASSUME NEW id PROVE AmountOf(m, id) = AmountOf(l, id)
  <2>1. [i \in DOMAIN m |-> IF m[i].id = id THEN m[i].amount ELSE 0]
          = [i \in DOMAIN l |-> IF l[i].id = id THEN l[i].amount ELSE 0]
    OBVIOUS
  <2> QED BY <2>1 DEF AmountOf
<1>2. Len(m) = Len(l)
  OBVIOUS
<1>3. ASSUME NEW capacity, NEW all, Packed(l, capacity, all) PROVE Packed(m, capacity, all)
  BY <1>2, <1>3 DEF Packed
<1> QED BY <1>1, <1>3

(* Of each id, Killed removes as much as it drops. *)
LEMMA GoneIs ==
  ASSUME inv \in Seq(Item), Packed(inv, Capacity, FALSE), NEW dropped \in SUBSET (DOMAIN inv),
         NEW C, C = Gone(dropped)
  PROVE  /\ C \in SUBSET (DOMAIN inv)
         /\ \A id \in Id : SumFunctionOnSet(Amounts(inv), C \cap IndicesOf(inv, id))
                             = SumFunctionOnSet(Amounts(inv), dropped \cap IndicesOf(inv, id))
<1> DEFINE I(id) == IndicesOf(inv, id)
           L(id) == LastOf(I(id), LostOf(id, dropped))
<1>1. C = UNION {L(id) : id \in Id}
  BY DEF Gone, IndicesOf
<1>2. \A id : L(id) \in SUBSET I(id) /\ I(id) \in SUBSET (DOMAIN inv)
  BY DEF LastOf, IndicesOf
<1>3. C \in SUBSET (DOMAIN inv)
  <2> HIDE DEF L, I
  <2> QED BY <1>1, <1>2
<1>4. ASSUME NEW id \in Id PROVE C \cap I(id) = L(id)
  <2>1. ASSUME NEW k \in Id, k # id PROVE L(k) \cap I(id) = {}
    BY <1>2, <2>1 DEF IndicesOf
  <2> HIDE DEF L, I
  <2> QED BY <1>1, <1>2, <2>1
<1>5. ASSUME NEW id \in Id
      PROVE  SumFunctionOnSet(Amounts(inv), C \cap I(id)) = SumFunctionOnSet(Amounts(inv), dropped \cap I(id))
  <2>1. PICK S : S = I(id)
    OBVIOUS
  <2>2. PICK D : D = dropped \cap S
    OBVIOUS
  <2>3. PICK n : n = Cardinality(D)
    OBVIOUS
  <2>4. S \in SUBSET Int /\ IsFiniteSet(S) /\ D \in SUBSET S
    BY <2>1, <2>2, IndicesFinite
  <2>5. n \in Nat /\ n <= Cardinality(S) /\ IsFiniteSet(D)
    <3>1. Cardinality(S \ D) \in Nat /\ Cardinality(D) \in Nat /\ Cardinality(S \ D) = Cardinality(S) - Cardinality(D)
          /\ IsFiniteSet(D)
      BY <2>4, CountRest
    <3>2. Cardinality(S) \in Nat
      BY <2>4, FS_CardinalityType
    <3> QED BY <2>3, <3>1, <3>2
  <2>6. LostOf(id, dropped) = n
    <3>1. {i \in dropped : inv[i].id = id} = D
      BY <2>1, <2>2 DEF IndicesOf
    <3> QED BY <2>3, <3>1 DEF LostOf
  <2>7. PICK E : E = LastOf(S, n)
    OBVIOUS
  <2>8. E \in SUBSET S /\ IsFiniteSet(E) /\ Cardinality(E) = n
    BY <2>4, <2>5, <2>7, LastOfCount
  <2>9. C \cap I(id) = E
    BY <1>4, <2>1, <2>6, <2>7
  <2>10. SumFunctionOnSet(Amounts(inv), E) = SumFunctionOnSet(Amounts(inv), D)
    <3>1. CASE ~Stacks(id, FALSE)
      <4>1. \A T \in SUBSET S : SumFunctionOnSet(Amounts(inv), T) = Cardinality(T)
        <5>1. \A T \in SUBSET IndicesOf(inv, id) : SumFunctionOnSet(Amounts(inv), T) = Cardinality(T)
          BY <3>1, PackedAmount
        <5> QED BY <2>1, <5>1
      <4> QED BY <2>3, <2>4, <2>8, <4>1
    <3>2. CASE Stacks(id, FALSE)
      <4>1. \A i \in S : S = {i}
        BY <2>1, <3>2, PackedAmount
      <4>2. E = {} <=> Cardinality(E) = 0
        BY <2>8, FS_EmptySet
      <4>3. D = {} <=> Cardinality(D) = 0
        BY <2>5, FS_EmptySet
      <4>4. (E = {} <=> D = {}) /\ (E # {} => E = S) /\ (D # {} => D = S)
        <5>1. \A T \in SUBSET S : T # {} => T = S
          BY <4>1
        <5> QED BY <2>3, <2>4, <2>8, <4>2, <4>3, <5>1
      <4>5. E = D
        BY <4>4
      <4> QED BY <4>5
    <3> QED BY <3>1, <3>2
  <2> QED BY <2>1, <2>2, <2>9, <2>10
<1> QED BY <1>3, <1>5

-----------------------------------------------------------------------------
(* The inductive invariant, in parts, each of which is about the values of a few variables. *)

(* What is worn can be worn, and nothing of it is in the bank. *)
Lists(i, b) ==
  /\ i \in Seq(Item) /\ b \in Seq(Item)
  /\ Packed(i, Capacity, FALSE) /\ Packed(b, BankCapacity, TRUE)
  /\ \A k \in DOMAIN b : ~b[k].worn
  /\ \A k \in DOMAIN i : i[k].worn => Wieldable(i[k].id)

(* Unless the engine deleted entries meanwhile, the entry an item action is about
   to delete is of the item it was started with. *)
Tracks(a, i, late) ==
  /\ a \in [id : Id \cup {Skin}, index : Nat]
  /\ a = NoAction \/ a.id \in Consumable
  /\ a.index # 0 /\ ~late => a.id \in Consumable /\ a.index \in DOMAIN i /\ i[a.index].id = a.id

Looks(s, p) == s \in [Places -> Id \cup {Skin}] /\ p \in Int
Books(m, u, n) == m \in [Id -> Nat] /\ u \in [Id -> Nat] /\ n \in 0..MaxNew
Flags(open, tick, stop, late) ==
  open \in BOOLEAN /\ tick \in 0..Capacity /\ stop \in BOOLEAN /\ late \in BOOLEAN

HeldInAll(i, b, g, id) == AmountOf(i, id) + AmountOf(b, id) + Lying(g, id)

KitInv ==
  /\ Lists(inv, bank) /\ Heap(ground) /\ Tracks(action, inv, overtaken) /\ Looks(shown, points)
  /\ Books(minted, used, made) /\ Flags(banking, tickAction, broken, overtaken) /\ limits \in SUBSET Id
  /\ \A id \in Id :
       /\ HeldInAll(inv, bank, ground, id) <= minted[id]
       /\ \/ HeldInAll(inv, bank, ground, id) + used[id] = minted[id]
          \/ id \in limits \/ broken \/ overtaken

(* What a step owes: it makes nothing it does not enter as put into the world, and
   what it loses it loses at a full stack, with a full bank or to a late deletion. *)
Accounts ==
  \A id \in Id :
    /\ HeldInAll(inv', bank', ground', id) - minted'[id] <= HeldInAll(inv, bank, ground, id) - minted[id]
    /\ \/ HeldInAll(inv', bank', ground', id) + used'[id] - minted'[id] = HeldInAll(inv, bank, ground, id) + used[id] - minted[id]
       \/ id \in Full(inv') \cup Full(bank') \/ broken' \/ overtaken'

Kept ==
  /\ Lists(inv', bank') /\ Heap(ground') /\ Tracks(action', inv', overtaken') /\ Looks(shown', points')
  /\ Books(minted', used', made') /\ Flags(banking', tickAction', broken', overtaken')
  /\ Accounts /\ (broken => broken') /\ (overtaken => overtaken')

LEMMA HeldInt ==
  ASSUME NEW i, NEW b, NEW g, Lists(i, b), Heap(g), NEW id
  PROVE  AmountOf(i, id) \in Int /\ AmountOf(b, id) \in Int /\ Lying(g, id) \in Int /\ HeldInAll(i, b, g, id) \in Int
<1>1. AmountOf(i, id) \in Int /\ AmountOf(b, id) \in Int
  BY AmountIs DEF Lists
<1>2. Lying(g, id) \in Int
  BY LyingInt
<1> QED BY <1>1, <1>2 DEF HeldInAll

LEMMA FullIds ==
  ASSUME NEW l \in Seq(Item)
  PROVE  /\ Full(l) \in SUBSET Id
         /\ \A i \in DOMAIN l : l[i].amount = MaxAmount => l[i].id \in Full(l)
BY ListFacts DEF Full

LEMMA KitSettled ==
  ASSUME KitInv, Kept, limits' = limits \cup Full(inv') \cup Full(bank')
  PROVE  KitInv'
<1>1. Lists(inv', bank') /\ Heap(ground') /\ Books(minted', used', made') /\ Books(minted, used, made)
  BY DEF Kept, KitInv
<1>2. limits' \in SUBSET Id
  <2>1. inv' \in Seq(Item) /\ bank' \in Seq(Item)
    BY <1>1 DEF Lists
  <2>2. Full(inv') \in SUBSET Id /\ Full(bank') \in SUBSET Id
    BY <2>1, FullIds
  <2> QED BY <2>2 DEF KitInv
<1>3. ASSUME NEW id \in Id
      PROVE  /\ HeldInAll(inv', bank', ground', id) <= minted'[id]
             /\ \/ HeldInAll(inv', bank', ground', id) + used'[id] = minted'[id]
                \/ id \in limits' \/ broken' \/ overtaken'
  <2>1. PICK h : h = HeldInAll(inv, bank, ground, id)
    OBVIOUS
  <2>2. PICK k : k = HeldInAll(inv', bank', ground', id)
    OBVIOUS
  <2>3. h \in Int /\ k \in Int
    BY <1>1, <2>1, <2>2, HeldInt DEF KitInv
  <2>4. minted[id] \in Int /\ minted'[id] \in Int /\ used[id] \in Int /\ used'[id] \in Int
    BY <1>1 DEF Books
  <2>5. h <= minted[id] /\ (h + used[id] = minted[id] \/ id \in limits \/ broken \/ overtaken)
    BY <2>1 DEF KitInv
  <2>6. /\ k - minted'[id] <= h - minted[id]
        /\ \/ k + used'[id] - minted'[id] = h + used[id] - minted[id]
           \/ id \in Full(inv') \cup Full(bank') \/ broken' \/ overtaken'
    BY <2>1, <2>2 DEF Kept, Accounts
  <2>7. k <= minted'[id]
    BY <2>3, <2>4, <2>5, <2>6
  <2>8. CASE k + used'[id] - minted'[id] = h + used[id] - minted[id]
    <3>1. CASE h + used[id] = minted[id]
      <4>1. k + used'[id] = minted'[id]
        BY <2>3, <2>4, <2>8, <3>1
      <4> QED BY <2>2, <2>7, <4>1
    <3>2. CASE id \in limits \/ broken \/ overtaken
      BY <2>2, <2>7, <3>2 DEF Kept
    <3> QED BY <2>5, <3>1, <3>2
  <2>9. CASE id \in Full(inv') \cup Full(bank') \/ broken' \/ overtaken'
    BY <2>2, <2>7, <2>9
  <2> QED BY <2>6, <2>8, <2>9
<1> QED BY <1>2, <1>3 DEF Kept, KitInv

(* Nothing moves. *)
LEMMA Still ==
  ASSUME KitInv, inv' = inv, bank' = bank, ground' = ground, minted' = minted, used' = used
  PROVE  Lists(inv', bank') /\ Heap(ground') /\ Accounts
<1>1. Lists(inv', bank') /\ Heap(ground')
  BY DEF KitInv
<1>2. ASSUME NEW id \in Id
      PROVE HeldInAll(inv, bank, ground, id) - minted[id] <= HeldInAll(inv, bank, ground, id) - minted[id]
  <2>1. HeldInAll(inv, bank, ground, id) \in Int
    BY HeldInt DEF KitInv
  <2>2. minted[id] \in Int
    BY DEF KitInv, Books
  <2> QED BY <2>1, <2>2
<1> QED BY <1>1, <1>2 DEF Accounts

(* What moves between the inventory, the bank and the ground stays the same in all. *)
LEMMA MovedOnly ==
  ASSUME KitInv, Lists(inv', bank'), Heap(ground'), minted' = minted, used' = used,
         \A id \in Id : HeldInAll(inv', bank', ground', id) = HeldInAll(inv, bank, ground, id)
  PROVE  Accounts
<1>1. ASSUME NEW id \in Id
      PROVE HeldInAll(inv, bank, ground, id) - minted[id] <= HeldInAll(inv, bank, ground, id) - minted[id]
  <2>1. HeldInAll(inv, bank, ground, id) \in Int
    BY HeldInt DEF KitInv
  <2>2. minted[id] \in Int
    BY DEF KitInv, Books
  <2> QED BY <2>1, <2>2
<1> QED BY <1>1 DEF Accounts

(* Entries that stay where they are keep an item action on its track. *)
LEMMA TracksExtended ==
  ASSUME NEW a, NEW l, NEW late, Tracks(a, l, late), NEW m, Extended(l, m)
  PROVE  Tracks(a, m, late)
BY DEF Tracks, Extended

(* A deletion under way of an item action's entry is late. *)
LEMMA TracksRacing ==
  ASSUME NEW a, NEW l, NEW late, Tracks(a, l, late), NEW m, NEW now, now = (late \/ a.index # 0)
  PROVE  Tracks(a, m, now)
BY DEF Tracks

LEMMA BaredFinite ==
  ASSUME inv \in Seq(Item), NEW S \in SUBSET (DOMAIN inv)
  PROVE  Bared(S) \in SUBSET S /\ IsFiniteSet(Bared(S))
<1>1. Bared(S) \in SUBSET S /\ Bared(S) \in SUBSET (DOMAIN inv)
  BY DEF Bared
<1> QED BY <1>1, ListFacts, FS_Subset

LEMMA DequippedType ==
  ASSUME KitInv, NEW S \in SUBSET (DOMAIN inv), Dequipped(S)
  PROVE  Looks(shown', points')
<1>1. inv \in Seq(Item) /\ shown \in [Places -> Id \cup {Skin}] /\ points \in Int
  BY DEF KitInv, Lists, Looks
<1>2. Bared(S) \in SUBSET S /\ IsFiniteSet(Bared(S))
  BY <1>1, BaredFinite
<1>3. PICK f : f = [i \in Bared(S) |-> Bonus[inv[i].id]]
  OBVIOUS
<1>4. f \in [Bared(S) -> Int]
  <2>1. \A i \in DOMAIN inv : inv[i].id \in Id
    BY <1>1, ListFacts
  <2> QED BY <1>2, <1>3, <2>1, KitAssumption
<1>5. SumFunction(f) \in Int
  BY <1>2, <1>4, SumType
<1>6. points' \in Int
  BY <1>1, <1>3, <1>5 DEF Dequipped
<1>7. shown' \in [Places -> Id \cup {Skin}]
  BY <1>1 DEF Dequipped
<1> QED BY <1>6, <1>7 DEF Looks

(* How every action but Equip and Unequip treats what is worn: it takes off what it
   deletes, and then appends or counts entries, which puts nothing on. *)
Carried == \E C \in SUBSET (DOMAIN inv) : Dequipped(C) /\ Extended(Without(inv, C), inv')

LEMMA BaredNone ==
  ASSUME KitInv, NEW C, Bared(C) = {}, shown' = shown, points' = points
  PROVE  Dequipped(C)
<1>1. shown \in [Places -> Id \cup {Skin}] /\ points \in Int
  BY DEF KitInv, Looks
<1>2. PICK f : f = [i \in Bared(C) |-> Bonus[inv[i].id]]
  OBVIOUS
<1>3. DOMAIN f = {}
  BY <1>2
<1>4. SumFunction(f) = 0
  BY <1>3, SumOfNone DEF SumFunction
<1>5. points' = points - SumFunction(f)
  BY <1>1, <1>4
<1>6. shown' = [p \in Places |-> IF \E i \in Bared(C) : WieldPos[inv[i].id] = p THEN Skin ELSE shown[p]]
  BY <1>1
<1> QED BY <1>2, <1>5, <1>6 DEF Dequipped

LEMMA CarriedMore ==
  ASSUME KitInv, Extended(inv, inv'), Dequipped({}) \/ (shown' = shown /\ points' = points)
  PROVE  Carried
<1>1. inv \in Seq(Item) /\ shown \in [Places -> Id \cup {Skin}] /\ points \in Int
  BY DEF KitInv, Lists, Looks
<1>2. PICK C : C = {}
  OBVIOUS
<1>3. C \in SUBSET (DOMAIN inv) /\ Extended(Without(inv, C), inv')
  BY <1>1, <1>2, WithoutNone
<1>4. Dequipped(C)
  <2>1. CASE Dequipped({})
    BY <1>2, <2>1
  <2>2. CASE shown' = shown /\ points' = points
    <3>1. Bared(C) = {}
      BY <1>2 DEF Bared
    <3> QED BY <2>2, <3>1, BaredNone
  <2> QED BY <2>1, <2>2
<1> QED BY <1>3, <1>4 DEF Carried

LEMMA CarriedAway ==
  ASSUME KitInv, NEW C \in SUBSET (DOMAIN inv), Dequipped(C), inv' = Without(inv, C)
  PROVE  Carried
<1>1. inv \in Seq(Item)
  BY DEF KitInv, Lists
<1>2. inv' \in Seq(Item)
  BY <1>1, WithoutKeeps
<1>3. Extended(inv', inv')
  BY <1>2 DEF Extended
<1> QED BY <1>3 DEF Carried

-----------------------------------------------------------------------------
(* Each action keeps the invariant. *)

LEMMA EquipKeeps ==
  ASSUME KitInv, Equip
  PROVE  Kept
<1>1. PICK i \in DOMAIN inv : ~inv[i].worn /\ Wieldable(inv[i].id) /\ EquipItem(i)
  BY DEF Equip
<1>2. /\ Lists(inv, bank) /\ inv \in Seq(Item) /\ bank \in Seq(Item)
  BY DEF KitInv, Lists
<1>3. inv' = [j \in DOMAIN inv |-> [inv[j] EXCEPT !.worn = (j = i) \/ (@ /\ j \notin Replaced(i))]]
  BY <1>1 DEF EquipItem
<1>4. ASSUME NEW j \in DOMAIN inv
      PROVE  /\ inv'[j] \in Item /\ inv'[j].id = inv[j].id /\ inv'[j].amount = inv[j].amount
             /\ inv'[j].worn => inv[j].worn \/ j = i
  <2>1. inv[j] \in Item
    BY <1>2, ListFacts
  <2>2. PICK w \in BOOLEAN : w = ((j = i) \/ (inv[j].worn /\ j \notin Replaced(i)))
    OBVIOUS
  <2>3. inv'[j] = [inv[j] EXCEPT !.worn = w]
    BY <1>3, <2>2
  <2>4. inv'[j] \in Item /\ inv'[j].id = inv[j].id /\ inv'[j].amount = inv[j].amount /\ inv'[j].worn = w
    BY <2>1, <2>3 DEF Item
  <2> QED BY <2>2, <2>4
<1>5. inv' \in Seq(Item) /\ DOMAIN inv' = DOMAIN inv
  <2>1. DOMAIN inv' = DOMAIN inv /\ DOMAIN inv = 1..Len(inv) /\ Len(inv) \in Nat /\ inv' = [j \in DOMAIN inv' |-> inv'[j]]
    BY <1>2, <1>3, ListFacts
  <2>2. inv' \in [1..Len(inv) -> Item]
    BY <1>4, <2>1
  <2> QED BY <2>1, <2>2
<1>6. /\ \A id : AmountOf(inv', id) = AmountOf(inv, id)
      /\ Packed(inv, Capacity, FALSE) => Packed(inv', Capacity, FALSE)
  BY <1>2, <1>4, <1>5, AmountReworn
<1>7. bank' = bank /\ ground' = ground /\ minted' = minted /\ used' = used /\ made' = made
      /\ banking' = banking /\ tickAction' = tickAction /\ action' = action /\ overtaken' = overtaken /\ broken' = broken
  BY DEF Equip, Engine, ledger
<1>8. Lists(inv', bank')
  BY <1>1, <1>2, <1>4, <1>5, <1>6, <1>7 DEF Lists
<1>9. Tracks(action', inv', overtaken')
  BY <1>4, <1>5, <1>7 DEF KitInv, Tracks
<1>10. Looks(shown', points')
  <2>1. i \in DOMAIN inv /\ inv[i].id \in Id /\ Bonus[inv[i].id] \in Int
    BY <1>2, ListFacts, KitAssumption
  <2>2. IsFiniteSet(Replaced(i)) /\ Cardinality(Replaced(i)) \in Int
    <3>1. Replaced(i) \in SUBSET (DOMAIN inv)
      BY DEF Replaced
    <3> QED BY <1>2, <3>1, ListFacts, FS_Subset, FS_CardinalityType
  <2>3. points' \in Int
    <3>1. PICK c \in Int : c = Bonus[inv[i].id] * (1 - Cardinality(Replaced(i)))
      BY <2>1, <2>2
    <3>2. points' = points + c
      BY <1>1, <3>1 DEF EquipItem
    <3> QED BY <3>1, <3>2 DEF KitInv, Looks
  <2>4. shown' \in [Places -> Id \cup {Skin}]
    BY <1>1, <2>1 DEF KitInv, Looks, EquipItem
  <2> QED BY <2>3, <2>4 DEF Looks
<1>11. Accounts
  <2>1. \A id \in Id : HeldInAll(inv', bank', ground', id) = HeldInAll(inv, bank, ground, id)
    BY <1>6, <1>7 DEF HeldInAll
  <2>2. Heap(ground')
    BY <1>7 DEF KitInv
  <2> QED BY <1>7, <1>8, <2>1, <2>2, MovedOnly
<1> QED BY <1>7, <1>8, <1>9, <1>10, <1>11 DEF KitInv, Kept

LEMMA UnequipKeeps ==
  ASSUME KitInv, Unequip
  PROVE  Kept
<1>1. PICK i \in DOMAIN inv : inv[i].worn /\ Dequipped({i}) /\ inv' = [inv EXCEPT ![i].worn = FALSE]
  BY DEF Unequip
<1>2. /\ Lists(inv, bank) /\ inv \in Seq(Item) /\ bank \in Seq(Item)
  BY DEF KitInv, Lists
<1>4. ASSUME NEW j \in DOMAIN inv
      PROVE  /\ inv'[j] \in Item /\ inv'[j].id = inv[j].id /\ inv'[j].amount = inv[j].amount
             /\ inv'[j].worn => inv[j].worn
  <2>1. inv[j] \in Item
    BY <1>2, ListFacts
  <2>2. CASE j # i
    BY <1>1, <2>1, <2>2
  <2>3. CASE j = i
    <3>1. inv'[j] = [inv[j] EXCEPT !.worn = FALSE]
      BY <1>1, <2>3
    <3> QED BY <2>1, <3>1 DEF Item
  <2> QED BY <2>2, <2>3
<1>5. inv' \in Seq(Item) /\ DOMAIN inv' = DOMAIN inv
  <2>1. DOMAIN inv' = DOMAIN inv /\ DOMAIN inv = 1..Len(inv) /\ Len(inv) \in Nat /\ inv' = [j \in DOMAIN inv' |-> inv'[j]]
    BY <1>1, <1>2, ListFacts
  <2>2. inv' \in [1..Len(inv) -> Item]
    BY <1>4, <2>1
  <2> QED BY <2>1, <2>2
<1>6. /\ \A id : AmountOf(inv', id) = AmountOf(inv, id)
      /\ Packed(inv, Capacity, FALSE) => Packed(inv', Capacity, FALSE)
  BY <1>2, <1>4, <1>5, AmountReworn
<1>7. bank' = bank /\ ground' = ground /\ minted' = minted /\ used' = used /\ made' = made
      /\ banking' = banking /\ tickAction' = tickAction /\ action' = action /\ overtaken' = overtaken /\ broken' = broken
  BY DEF Unequip, Engine, ledger
<1>8. Lists(inv', bank')
  BY <1>2, <1>4, <1>5, <1>6, <1>7 DEF Lists
<1>9. Tracks(action', inv', overtaken')
  BY <1>4, <1>5, <1>7 DEF KitInv, Tracks
<1>10. Looks(shown', points')
  <2>1. PICK S : S = {i}
    OBVIOUS
  <2>2. S \in SUBSET (DOMAIN inv) /\ Dequipped(S)
    BY <1>1, <2>1
  <2> QED BY <2>2, DequippedType
<1>11. Accounts
  <2>1. \A id \in Id : HeldInAll(inv', bank', ground', id) = HeldInAll(inv, bank, ground, id)
    BY <1>6, <1>7 DEF HeldInAll
  <2>2. Heap(ground')
    BY <1>7 DEF KitInv
  <2> QED BY <1>7, <1>8, <2>1, <2>2, MovedOnly
<1> QED BY <1>7, <1>8, <1>9, <1>10, <1>11 DEF KitInv, Kept

(* Steps that move no item. *)
LEMMA QuietKeeps ==
  ASSUME KitInv, DropPacket \/ OpenBank \/ CloseBank \/ UseItem \/ FindUsed
  PROVE  Kept /\ Carried
<1>1. /\ inv' = inv /\ bank' = bank /\ ground' = ground /\ minted' = minted /\ used' = used /\ made' = made
      /\ shown' = shown /\ points' = points /\ overtaken' = overtaken /\ broken' = broken
  BY DEF DropPacket, OpenBank, CloseBank, UseItem, FindUsed, Engine, wear, ledger
<1>2. Lists(inv', bank') /\ Heap(ground') /\ Accounts
  BY <1>1, Still
<1>3. inv \in Seq(Item) /\ Tracks(action, inv, overtaken) /\ Flags(banking, tickAction, broken, overtaken)
  BY DEF KitInv, Lists
<1>4. Flags(banking', tickAction', broken', overtaken')
  <2>1. CASE DropPacket
    <3>1. PICK i \in DOMAIN inv : tickAction' = i
      BY <2>1 DEF DropPacket
    <3>2. i \in 0..Capacity
      BY <1>3, ListFacts, KitAssumption DEF KitInv, Lists, Packed
    <3> QED BY <1>1, <1>3, <2>1, <3>1, <3>2 DEF DropPacket, Flags
  <2>2. CASE ~DropPacket
    BY <1>1, <1>3, <2>2 DEF OpenBank, CloseBank, UseItem, FindUsed, Flags
  <2> QED BY <2>1, <2>2
<1>5. Tracks(action', inv', overtaken')
  <2>1. CASE DropPacket \/ OpenBank \/ CloseBank
    BY <1>1, <1>3, <2>1 DEF DropPacket, OpenBank, CloseBank
  <2>2. CASE UseItem
    <3>1. PICK i \in DOMAIN inv : inv[i].id \in Consumable /\ action' = [id |-> inv[i].id, index |-> 0]
      BY <2>2 DEF UseItem
    <3>2. inv[i].id \in Id
      BY <1>3, ListFacts
    <3> QED BY <3>1, <3>2 DEF Tracks
  <2>3. CASE FindUsed
    <3>1. action # NoAction /\ action \in [id : Id \cup {Skin}, index : Nat] /\ action.id \in Consumable
      BY <1>3, <2>3 DEF FindUsed, Tracks
    <3>2. PICK at : at = GetIndex(inv, action.id)
      OBVIOUS
    <3>3. action' = IF at = 0 THEN NoAction ELSE [action EXCEPT !.index = at]
      BY <2>3, <3>2 DEF FindUsed
    <3>4. CASE at = 0
      BY <3>3, <3>4 DEF Tracks, NoAction
    <3>5. CASE at # 0
      <4>1. at \in DOMAIN inv /\ inv[at].id = action.id
        BY <1>3, <3>2, <3>5, GetIndexIs DEF IndicesOf
      <4>2. at \in Nat
        BY <1>3, <4>1, ListFacts
      <4>3. action' \in [id : Id \cup {Skin}, index : Nat] /\ action'.id = action.id /\ action'.index = at
        BY <3>1, <3>3, <3>5, <4>2
      <4> QED BY <1>1, <3>1, <4>1, <4>3 DEF Tracks
    <3> QED BY <3>4, <3>5
  <2> QED BY <2>1, <2>2, <2>3
<1>6. Carried
  <2>1. Extended(inv, inv')
    BY <1>1, <1>3 DEF Extended
  <2> QED BY <1>1, <2>1, CarriedMore
<1> QED BY <1>1, <1>2, <1>4, <1>5, <1>6 DEF KitInv, Kept

(* An entry deleted from the inventory. *)
LEMMA ListsWithout ==
  ASSUME NEW l, NEW b, Lists(l, b), NEW C \in SUBSET (DOMAIN l), NEW m, m = Without(l, C)
  PROVE  Lists(m, b)
<1>0. PICK all \in BOOLEAN : all = FALSE
  OBVIOUS
<1>1. l \in Seq(Item) /\ Packed(l, Capacity, all) /\ Capacity \in Nat
  BY <1>0, KitAssumption DEF Lists
<1>2. m \in Seq(Item) /\ Packed(m, Capacity, all) /\ \A k \in DOMAIN m : \E i \in (DOMAIN l) \ C : m[k] = l[i]
  BY <1>1, WithoutKeeps
<1>3. \A k \in DOMAIN m : m[k].worn => Wieldable(m[k].id)
  BY <1>2 DEF Lists
<1> QED BY <1>0, <1>2, <1>3 DEF Lists

LEMMA ListsExtended ==
  ASSUME NEW l, NEW b, Lists(l, b), NEW m, Extended(l, m), Packed(m, Capacity, FALSE)
  PROVE  Lists(m, b)
BY DEF Lists, Extended

LEMMA DropKeeps ==
  ASSUME KitInv, DropAction
  PROVE  Kept /\ Carried
<1>1. bank' = bank /\ banking' = banking /\ action' = action /\ minted' = minted /\ used' = used /\ made' = made
      /\ broken' = broken /\ tickAction' = 0
  BY DEF DropAction, Engine, ledger
<1>2. Flags(banking', tickAction', broken', FALSE) /\ Books(minted', used', made') /\ overtaken \in BOOLEAN
  <2>1. 0 \in 0..Capacity
    BY KitAssumption
  <2> QED BY <1>1, <2>1 DEF KitInv, Flags, Books
<1>3. CASE Busy \/ tickAction \notin DOMAIN inv
  <2>1. inv' = inv /\ shown' = shown /\ points' = points /\ ground' = ground /\ overtaken' = overtaken
    BY <1>3 DEF DropAction, wear
  <2>2. Lists(inv', bank') /\ Heap(ground') /\ Accounts
    BY <1>1, <2>1, Still
  <2>3. Carried
    <3>1. Extended(inv, inv')
      BY <2>1 DEF KitInv, Lists, Extended
    <3> QED BY <2>1, <3>1, CarriedMore
  <2> QED BY <1>1, <1>2, <2>1, <2>2, <2>3 DEF KitInv, Kept, Flags
<1>4. CASE ~(Busy \/ tickAction \notin DOMAIN inv)
  <2>1. PICK i \in DOMAIN inv : i = tickAction
    BY <1>4
  <2>2. PICK C : C = {i}
    OBVIOUS
  <2>3. C \in SUBSET (DOMAIN inv) /\ Dequipped(C) /\ inv' = Without(inv, C) /\ inv' = Without(inv, {i})
    BY <1>4, <2>1, <2>2 DEF DropAction
  <2>4. PICK b : b = Loose(inv[i].id, inv[i].amount)
    OBVIOUS
  <2>5. ground' = ground (+) b
    BY <1>4, <2>1, <2>4 DEF DropAction
  <2>6. overtaken' = (overtaken \/ action.index # 0)
    BY <1>4 DEF DropAction, Racing
  <2>7. inv \in Seq(Item) /\ Lists(inv, bank) /\ Heap(ground)
    BY DEF KitInv, Lists
  <2>8. Lists(inv', bank')
    BY <1>1, <2>3, <2>7, ListsWithout
  <2>9. OneItem(b, inv[i].id, inv[i].amount)
    <3>1. inv[i].id \in Id
      BY <2>7, ListFacts
    <3>2. inv[i].amount \in 1..MaxAmount /\ (inv[i].id \notin StackableId => inv[i].amount = 1)
      BY <2>7 DEF Lists, Packed, Stacks
    <3> QED BY <2>4, <3>1, <3>2 DEF OneItem
  <2>10. Heap(b) /\ Lying(b, inv[i].id) = inv[i].amount /\ \A k : k # inv[i].id => Lying(b, k) = 0
    BY <2>9, HeapOne
  <2>11. Heap(ground') /\ \A k : Lying(ground', k) = Lying(ground, k) + Lying(b, k)
    BY <2>5, <2>7, <2>10, HeapJoin
  <2>12. /\ \A k : k # inv[i].id => AmountOf(inv', k) = AmountOf(inv, k)
         /\ AmountOf(inv', inv[i].id) = AmountOf(inv, inv[i].id) - inv[i].amount
    BY <2>3, <2>7, AmountWithoutOne
  <2>13. ASSUME NEW id \in Id PROVE HeldInAll(inv', bank', ground', id) = HeldInAll(inv, bank, ground, id)
    <3>1. AmountOf(inv, id) \in Int /\ AmountOf(bank, id) \in Int /\ Lying(ground, id) \in Int
      BY <2>7, HeldInt
    <3>2. PICK n : n = inv[i].amount
      OBVIOUS
    <3>3. n \in Int
      BY <2>7, <3>2, ListFacts
    <3>4. CASE id = inv[i].id
      <4>1. AmountOf(inv', id) = AmountOf(inv, id) - n /\ Lying(ground', id) = Lying(ground, id) + n
        BY <2>10, <2>11, <2>12, <3>2, <3>4
      <4> QED BY <1>1, <3>1, <3>3, <4>1 DEF HeldInAll
    <3>5. CASE id # inv[i].id
      <4>1. AmountOf(inv', id) = AmountOf(inv, id) /\ Lying(ground', id) = Lying(ground, id) + 0
        BY <2>10, <2>11, <2>12, <3>5
      <4> QED BY <1>1, <3>1, <4>1 DEF HeldInAll
    <3> QED BY <3>4, <3>5
  <2>14. Accounts
    BY <1>1, <2>8, <2>11, <2>13, MovedOnly
  <2>15. Looks(shown', points')
    BY <2>3, DequippedType
  <2>16. Tracks(action', inv', overtaken')
    BY <1>1, <2>6, TracksRacing DEF KitInv
  <2>17. Carried
    BY <2>3, CarriedAway
  <2> QED BY <1>1, <1>2, <2>6, <2>8, <2>11, <2>14, <2>15, <2>16, <2>17 DEF KitInv, Kept, Flags
<1> QED BY <1>3, <1>4

LEMMA PickupKeeps ==
  ASSUME KitInv, PickupAction
  PROVE  Kept /\ Carried
<1>1. /\ bank' = bank /\ banking' = banking /\ action' = action /\ minted' = minted /\ used' = used /\ made' = made
      /\ broken' = broken /\ tickAction' = tickAction /\ shown' = shown /\ points' = points /\ overtaken' = overtaken
  BY DEF PickupAction, Engine, ledger, wear
<1>2. PICK g \in DOMAIN ground : /\ CanHold(inv, Capacity, g.id, g.amount, FALSE)
                                 /\ ground' = ground (-) Loose(g.id, g.amount)
                                 /\ inv' = Added(inv, g.id, g.amount, FALSE)
  BY DEF PickupAction, BagToSet
<1>3. inv \in Seq(Item) /\ Lists(inv, bank) /\ Heap(ground) /\ Packed(inv, Capacity, FALSE) /\ Capacity \in Nat
  BY KitAssumption DEF KitInv, Lists
<1>4. PICK id, n : id = g.id /\ n = g.amount
  OBVIOUS
<1>5. PICK b : b = Loose(id, n)
  OBVIOUS
<1>6. /\ Heap(ground') /\ Lying(ground', id) = Lying(ground, id) - n
      /\ \A k : k # id => Lying(ground', k) = Lying(ground, k)
      /\ id \in Id /\ n \in 1..MaxAmount /\ (id \notin StackableId => n = 1)
  <2>1. b = Loose(g.id, g.amount) /\ ground' = ground (-) b
    BY <1>2, <1>4, <1>5
  <2>2. /\ Heap(ground') /\ Lying(ground', g.id) = Lying(ground, g.id) - g.amount
        /\ \A k : k # g.id => Lying(ground', k) = Lying(ground, k)
        /\ g.id \in Id /\ g.amount \in 1..MaxAmount /\ (g.id \notin StackableId => g.amount = 1)
    BY <1>3, <2>1, HeapTake
  <2> QED BY <1>4, <2>2
<1>0. PICK all \in BOOLEAN : all = FALSE
  OBVIOUS
<1>7. inv' = Added(inv, id, n, all) /\ CanHold(inv, Capacity, id, n, all)
  BY <1>0, <1>2, <1>4
<1>8. /\ Extended(inv, inv')
      /\ \A k : k # id => AmountOf(inv', k) = AmountOf(inv, k)
      /\ AmountOf(inv', id) <= AmountOf(inv, id) + n
      /\ AmountOf(inv', id) = AmountOf(inv, id) + n \/ \E i \in DOMAIN inv' : inv'[i].id = id /\ inv'[i].amount = MaxAmount
  BY <1>3, <1>6, <1>7, AddedIs
<1>9. Packed(inv', Capacity, FALSE)
  <2>1. Stacks(id, all) \/ n = 1
    BY <1>6 DEF Stacks
  <2>2. Packed(inv, Capacity, all)
    BY <1>0, <1>3
  <2>3. Packed(inv', Capacity, all)
    BY <1>3, <1>6, <1>7, <2>1, <2>2, AddedIs
  <2> QED BY <1>0, <2>3
<1>10. Lists(inv', bank') /\ inv' \in Seq(Item)
  BY <1>1, <1>3, <1>8, <1>9, ListsExtended DEF Extended
<1>11. Tracks(action', inv', overtaken')
  BY <1>1, <1>8, TracksExtended DEF KitInv
<1>12. AmountOf(inv', id) = AmountOf(inv, id) + n \/ id \in Full(inv')
  BY <1>8, <1>10, FullIds
<1>13. ASSUME NEW k \in Id
       PROVE  /\ HeldInAll(inv', bank', ground', k) <= HeldInAll(inv, bank, ground, k)
              /\ HeldInAll(inv', bank', ground', k) = HeldInAll(inv, bank, ground, k) \/ k \in Full(inv')
  <2>1. AmountOf(inv, k) \in Int /\ AmountOf(bank, k) \in Int /\ Lying(ground, k) \in Int
    BY <1>3, HeldInt
  <2>2. AmountOf(inv', k) \in Int /\ n \in Int
    BY <1>6, <1>10, AmountIs
  <2>3. CASE k = id
    BY <1>1, <1>6, <1>8, <1>12, <2>1, <2>2, <2>3 DEF HeldInAll
  <2>4. CASE k # id
    BY <1>1, <1>6, <1>8, <2>1, <2>2, <2>4 DEF HeldInAll
  <2> QED BY <2>3, <2>4
<1>14. Accounts
  <2>1. ASSUME NEW k \in Id
        PROVE  /\ HeldInAll(inv', bank', ground', k) \in Int /\ HeldInAll(inv, bank, ground, k) \in Int
               /\ minted[k] \in Int /\ used[k] \in Int
    BY <1>3, <1>6, <1>10, HeldInt DEF KitInv, Books
  <2> QED BY <1>1, <1>13, <2>1 DEF Accounts
<1>15. Carried
  BY <1>1, <1>8, CarriedMore
<1> QED BY <1>1, <1>6, <1>10, <1>11, <1>14, <1>15 DEF KitInv, Kept

LEMMA AddItemKeeps ==
  ASSUME KitInv, OneByOne, AddItem
  PROVE  Kept /\ Carried /\ Extended(inv, inv')
<1>1. /\ bank' = bank /\ banking' = banking /\ action' = action /\ used' = used
      /\ broken' = broken /\ tickAction' = tickAction /\ shown' = shown /\ points' = points /\ overtaken' = overtaken
  BY DEF AddItem, Engine, wear
<1>2. PICK g \in NewItems :
        /\ Supplied(g[1], g[2])
        /\ inv' = IF g[1] \notin StackableId THEN inv \o [k \in 1..Fitting(g[1], g[2]) |-> NewItem(g[1], g[2])]
                  ELSE IF Fitting(g[1], g[2]) = 1 THEN Added(inv, g[1], g[2], FALSE)
                  ELSE inv
        /\ ground' = IF Fitting(g[1], g[2]) < Copies(g[1], g[2]) THEN ground (+) Loose(g[1], g[2]) ELSE ground
  BY DEF AddItem
<1>3. PICK id, n : id = g[1] /\ n = g[2]
  OBVIOUS
<1>4. id \in Id /\ n \in 1..MaxAmount /\ n \in Nat /\ n >= 1 /\ (id \notin StackableId => n = 1)
  BY <1>3, KitAssumption, InventoryAssumption DEF OneByOne
<1>5. PICK F : F = Fitting(id, n)
  OBVIOUS
<1>6. PICK b : b = Loose(id, n)
  OBVIOUS
<1>7. /\ Supplied(id, n)
      /\ id \notin StackableId => inv' = inv \o [k \in 1..F |-> NewItem(id, n)]
      /\ id \in StackableId => inv' = IF F = 1 THEN Added(inv, id, n, FALSE) ELSE inv
      /\ ground' = IF F < Copies(id, n) THEN ground (+) b ELSE ground
  BY <1>2, <1>3, <1>5, <1>6
<1>8. Copies(id, n) = 1
  BY <1>4 DEF Copies
<1>9. /\ inv \in Seq(Item) /\ Lists(inv, bank) /\ Heap(ground) /\ Packed(inv, Capacity, FALSE) /\ Capacity \in Nat
      /\ Len(inv) \in Nat /\ Len(inv) <= Capacity
  BY ListFacts, KitAssumption DEF KitInv, Lists, Packed
<1>10. Heap(b) /\ Lying(b, id) = n /\ \A k : k # id => Lying(b, k) = 0
  <2>1. OneItem(b, id, n)
    BY <1>4, <1>6 DEF OneItem
  <2> QED BY <2>1, HeapOne
<1>11. ASSUME ground' = ground (+) b
       PROVE  /\ Heap(ground') /\ Lying(ground', id) = Lying(ground, id) + n
              /\ \A k : k # id => Lying(ground', k) = Lying(ground, k)
  <2>1. Heap(ground') /\ \A k : Lying(ground', k) = Lying(ground, k) + Lying(b, k)
    BY <1>9, <1>10, <1>11, HeapJoin
  <2>2. ASSUME NEW k, k # id PROVE Lying(ground', k) = Lying(ground, k)
    <3>1. Lying(ground, k) \in Int /\ Lying(ground', k) = Lying(ground, k) + 0
      BY <1>9, <1>10, <2>1, <2>2, LyingInt
    <3> QED BY <3>1
  <2> QED BY <1>10, <2>1, <2>2
<1>12. \A k : AmountOf(inv, k) \in Int /\ Lying(ground, k) \in Int
  BY <1>9, HeldInt
<1>13. /\ Extended(inv, inv') /\ Packed(inv', Capacity, FALSE) /\ Heap(ground')
       /\ \A k : k # id => AmountOf(inv', k) = AmountOf(inv, k) /\ Lying(ground', k) = Lying(ground, k)
       /\ AmountOf(inv', id) + Lying(ground', id) <= AmountOf(inv, id) + Lying(ground, id) + n
       /\ \/ AmountOf(inv', id) + Lying(ground', id) = AmountOf(inv, id) + Lying(ground, id) + n
          \/ id \in Full(inv')
  <2>1. CASE id \notin StackableId
    <3>1. n = 1 /\ F = Least(1, Capacity - Len(inv))
      BY <1>4, <1>5, <2>1 DEF Fitting
    <3>2. F = (IF Len(inv) < Capacity THEN 1 ELSE 0) /\ F \in Nat /\ Len(inv) + F <= Capacity
      BY <1>9, <3>1 DEF Least
    <3>3. PICK x : x = NewItem(id, n)
      OBVIOUS
    <3>4. x \in Item /\ x.id = id /\ x.amount = 1 /\ x.worn = FALSE
      BY <1>4, <3>1, <3>3 DEF NewItem, Item
    <3>5. Longer(inv, inv', x, F)
      BY <1>7, <2>1, <3>2, <3>3, <3>4 DEF Longer
    <3>6. Extended(inv, inv') /\ \A k : k # id => AmountOf(inv', k) = AmountOf(inv, k)
      BY <1>9, <3>4, <3>5, Lengthened
    <3>7. AmountOf(inv', id) = AmountOf(inv, id) + F * 1
      BY <1>9, <3>4, <3>5, Lengthened
    <3>8. Packed(inv', Capacity, FALSE)
      BY <1>9, <2>1, <3>2, <3>4, <3>5, LongerPacked
    <3>9. CASE Len(inv) < Capacity
      <4>1. F = 1 /\ ground' = ground
        BY <1>7, <1>8, <3>2, <3>9
      <4>2. \A k : k # id => AmountOf(inv', k) = AmountOf(inv, k) /\ Lying(ground', k) = Lying(ground, k)
        BY <3>6, <4>1
      <4>3. AmountOf(inv', id) + Lying(ground', id) <= AmountOf(inv, id) + Lying(ground, id) + n
        BY <1>4, <1>12, <3>1, <3>7, <4>1
      <4>4. \/ AmountOf(inv', id) + Lying(ground', id) = AmountOf(inv, id) + Lying(ground, id) + n
            \/ id \in Full(inv')
        BY <1>4, <1>12, <3>1, <3>7, <4>1
      <4> QED BY <1>9, <3>6, <3>8, <4>1, <4>2, <4>3, <4>4
    <3>10. CASE ~(Len(inv) < Capacity)
      <4>1. F = 0 /\ ground' = ground (+) b
        BY <1>7, <1>8, <3>2, <3>10
      <4>2. \A k : k # id => AmountOf(inv', k) = AmountOf(inv, k) /\ Lying(ground', k) = Lying(ground, k)
        BY <1>11, <3>6, <4>1
      <4>3. AmountOf(inv', id) + Lying(ground', id) <= AmountOf(inv, id) + Lying(ground, id) + n
        BY <1>4, <1>11, <1>12, <3>1, <3>7, <4>1
      <4>4. \/ AmountOf(inv', id) + Lying(ground', id) = AmountOf(inv, id) + Lying(ground, id) + n
            \/ id \in Full(inv')
        BY <1>4, <1>11, <1>12, <3>1, <3>7, <4>1
      <4> QED BY <1>11, <3>6, <3>8, <4>1, <4>2, <4>3, <4>4
    <3> QED BY <3>9, <3>10
  <2>2. CASE id \in StackableId
    <3>1. PICK all \in BOOLEAN : all = FALSE
      OBVIOUS
    <3>2. F = IF CanHold(inv, Capacity, id, n, all) THEN 1 ELSE 0
      BY <1>5, <2>2, <3>1 DEF Fitting
    <3>3. CASE CanHold(inv, Capacity, id, n, all)
      <4>1. inv' = Added(inv, id, n, all) /\ ground' = ground
        <5>1. F = 1
          BY <3>2, <3>3
        <5>2. inv' = Added(inv, id, n, FALSE)
          BY <1>7, <2>2, <5>1
        <5>3. ground' = ground
          BY <1>7, <1>8, <5>1
        <5> QED BY <3>1, <5>2, <5>3
      <4>2. Stacks(id, all) /\ Packed(inv, Capacity, all)
        BY <1>9, <2>2, <3>1 DEF Stacks
      <4>3. Extended(inv, inv') /\ Packed(inv', Capacity, all)
        BY <1>4, <1>9, <3>3, <4>1, <4>2, AddedIs
      <4>4. /\ \A k : k # id => AmountOf(inv', k) = AmountOf(inv, k)
            /\ AmountOf(inv', id) <= AmountOf(inv, id) + n
            /\ AmountOf(inv', id) = AmountOf(inv, id) + n \/ \E i \in DOMAIN inv' : inv'[i].id = id /\ inv'[i].amount = MaxAmount
        BY <1>4, <1>9, <4>1, AddedIs
      <4>5. inv' \in Seq(Item) /\ AmountOf(inv', id) \in Int
        BY <4>3, AmountIs DEF Extended
      <4>6. AmountOf(inv', id) = AmountOf(inv, id) + n \/ id \in Full(inv')
        BY <4>4, <4>5, FullIds
      <4>7. \A k : k # id => AmountOf(inv', k) = AmountOf(inv, k) /\ Lying(ground', k) = Lying(ground, k)
        BY <4>1, <4>4
      <4>8. AmountOf(inv', id) + Lying(ground', id) <= AmountOf(inv, id) + Lying(ground, id) + n
        BY <1>4, <1>12, <4>1, <4>4, <4>5, <4>6
      <4>9. \/ AmountOf(inv', id) + Lying(ground', id) = AmountOf(inv, id) + Lying(ground, id) + n
            \/ id \in Full(inv')
        BY <1>4, <1>12, <4>1, <4>4, <4>5, <4>6
      <4> QED BY <1>9, <3>1, <4>1, <4>3, <4>7, <4>8, <4>9
    <3>4. CASE ~CanHold(inv, Capacity, id, n, all)
      <4>1. inv' = inv /\ ground' = ground (+) b
        BY <1>7, <1>8, <2>2, <3>2, <3>4
      <4>2. Extended(inv, inv')
        BY <1>9, <4>1 DEF Extended
      <4>7. \A k : k # id => AmountOf(inv', k) = AmountOf(inv, k) /\ Lying(ground', k) = Lying(ground, k)
        BY <1>11, <4>1
      <4>8. AmountOf(inv', id) + Lying(ground', id) <= AmountOf(inv, id) + Lying(ground, id) + n
        BY <1>4, <1>11, <1>12, <4>1
      <4>9. \/ AmountOf(inv', id) + Lying(ground', id) = AmountOf(inv, id) + Lying(ground, id) + n
            \/ id \in Full(inv')
        BY <1>4, <1>11, <1>12, <4>1
      <4> QED BY <1>9, <1>11, <4>1, <4>2, <4>7, <4>8, <4>9
    <3> QED BY <3>3, <3>4
  <2> QED BY <2>1, <2>2
<1>14. Lists(inv', bank') /\ Tracks(action', inv', overtaken')
  BY <1>1, <1>9, <1>13, ListsExtended, TracksExtended DEF KitInv
<1>15. /\ minted' = [minted EXCEPT ![id] = @ + n] /\ made' = made + 1 /\ made < MaxNew
  BY <1>7 DEF Supplied
<1>16. /\ Books(minted, used, made) /\ minted'[id] = minted[id] + n /\ \A k \in Id : k # id => minted'[k] = minted[k]
  BY <1>4, <1>15 DEF KitInv, Books
<1>17. Books(minted', used', made')
  <2>1. minted' \in [Id -> Nat]
    BY <1>4, <1>15, <1>16 DEF Books
  <2>2. made' \in 0..MaxNew
    BY <1>15, <1>16, KitAssumption DEF Books
  <2> QED BY <1>1, <1>16, <2>1, <2>2 DEF Books
<1>18. Accounts
  <2>1. ASSUME NEW k \in Id
        PROVE  /\ HeldInAll(inv', bank', ground', k) - minted'[k] <= HeldInAll(inv, bank, ground, k) - minted[k]
               /\ \/ HeldInAll(inv', bank', ground', k) + used'[k] - minted'[k] = HeldInAll(inv, bank, ground, k) + used[k] - minted[k]
                  \/ k \in Full(inv') \cup Full(bank') \/ broken' \/ overtaken'
    <3>1. /\ AmountOf(inv', k) \in Int /\ Lying(ground', k) \in Int /\ AmountOf(inv, k) \in Int
          /\ AmountOf(bank, k) \in Int /\ Lying(ground, k) \in Int /\ minted[k] \in Int /\ used[k] \in Int
      <4>1. Lists(inv, bank) /\ Heap(ground) /\ Lists(inv', bank') /\ Heap(ground')
        BY <1>9, <1>13, <1>14
      <4>2. AmountOf(inv, k) \in Int /\ AmountOf(bank, k) \in Int /\ Lying(ground, k) \in Int
        BY ONLY <4>1, HeldInt
      <4>3. AmountOf(inv', k) \in Int /\ Lying(ground', k) \in Int
        BY ONLY <4>1, HeldInt
      <4>4. minted[k] \in Int /\ used[k] \in Int
        BY <1>16 DEF Books
      <4> QED BY <4>2, <4>3, <4>4
    <3>4. PICK a, c, l, a1, l1, m, m1, u :
                /\ a = AmountOf(inv, k) /\ c = AmountOf(bank, k) /\ l = Lying(ground, k) /\ m = minted[k] /\ u = used[k]
                /\ a1 = AmountOf(inv', k) /\ l1 = Lying(ground', k) /\ m1 = minted'[k]
      OBVIOUS
    <3>5. HeldInAll(inv, bank, ground, k) = a + c + l /\ HeldInAll(inv', bank', ground', k) = a1 + c + l1 /\ used'[k] = u
      BY <1>1, <3>4 DEF HeldInAll
    <3>6. /\ a \in Int /\ c \in Int /\ l \in Int /\ m \in Int /\ u \in Int /\ a1 \in Int /\ l1 \in Int /\ n \in Int
      BY <1>4, <3>1, <3>4
    <3>2. CASE k = id
      <4>1. m1 = m + n /\ a1 + l1 <= a + l + n /\ (a1 + l1 = a + l + n \/ k \in Full(inv'))
        BY <1>13, <1>16, <3>2, <3>4
      <4>2. (a1 + c + l1) - m1 <= (a + c + l) - m
        BY ONLY <3>6, <4>1
      <4>3. (a1 + c + l1) + u - m1 = (a + c + l) + u - m \/ k \in Full(inv')
        BY ONLY <3>6, <4>1
      <4> QED BY <3>4, <3>5, <4>2, <4>3
    <3>3. CASE k # id
      <4>1. m1 = m /\ a1 = a /\ l1 = l
        BY <1>13, <1>16, <3>3, <3>4
      <4> QED BY <3>4, <3>5, <3>6, <4>1
    <3> QED BY <3>2, <3>3
  <2> QED BY <2>1 DEF Accounts
<1>19. Carried
  BY <1>1, <1>13, CarriedMore
<1> QED BY <1>1, <1>13, <1>14, <1>17, <1>18, <1>19 DEF KitInv, Kept

LEMMA DepositKeeps ==
  ASSUME KitInv, Deposit
  PROVE  Kept /\ Carried
<1>1. /\ ground' = ground /\ banking' = banking /\ action' = action /\ used' = used /\ minted' = minted /\ made' = made
      /\ tickAction' = tickAction
  BY DEF Deposit, ledger
<1>0. PICK id \in Id : \E n \in 1..CountID(inv, id) :
        /\ Dequipped(Cut(inv, id, n, FALSE))
        /\ inv' = Taken(inv, id, n, FALSE)
        /\ IF CanHold(bank, BankCapacity, id, n, TRUE)
           THEN bank' = Added(bank, id, n, TRUE) /\ UNCHANGED broken
           ELSE broken' = TRUE /\ UNCHANGED bank
        /\ Racing(Cut(inv, id, n, FALSE) # {})
  BY DEF Deposit
<1>2. PICK n \in 1..CountID(inv, id) :
        /\ Dequipped(Cut(inv, id, n, FALSE))
        /\ inv' = Taken(inv, id, n, FALSE)
        /\ IF CanHold(bank, BankCapacity, id, n, TRUE)
           THEN bank' = Added(bank, id, n, TRUE) /\ UNCHANGED broken
           ELSE broken' = TRUE /\ UNCHANGED bank
        /\ Racing(Cut(inv, id, n, FALSE) # {})
  BY <1>0
<1>3. PICK all \in BOOLEAN, yes \in BOOLEAN : all = FALSE /\ yes = TRUE
  OBVIOUS
<1>4. PICK C : C = Cut(inv, id, n, all)
  OBVIOUS
<1>5. /\ Lists(inv, bank) /\ inv \in Seq(Item) /\ bank \in Seq(Item) /\ Heap(ground)
      /\ Packed(inv, Capacity, all) /\ Packed(bank, BankCapacity, yes)
      /\ Capacity \in Nat /\ BankCapacity \in Nat /\ Capacity <= MaxAmount
  BY <1>3, KitAssumption DEF KitInv, Lists
<1>6. n \in Nat /\ n >= 1 /\ n <= AmountOf(inv, id)
  BY <1>5, CountIs
<1>7. n \in 1..MaxAmount
  <2>1. AmountOf(inv, id) <= MaxAmount
    BY <1>5, AmountBound
  <2>2. AmountOf(inv, id) \in Int
    BY <1>5, AmountIs
  <2> QED BY <1>6, <2>1, <2>2, InventoryAssumption
<1>8. Dequipped(C) /\ inv' = Taken(inv, id, n, all) /\ overtaken' = (overtaken \/ (C # {} /\ action.index # 0))
  BY <1>2, <1>3, <1>4 DEF Racing
<1>9. /\ C \in SUBSET (DOMAIN inv)
      /\ C # {} => inv' = Without(inv, C)
      /\ C = {} => Extended(inv, inv')
      /\ inv' \in Seq(Item) /\ Packed(inv', Capacity, all)
  BY <1>4, <1>5, <1>6, <1>8, TakenIs
<1>10. /\ \A k : k # id => AmountOf(inv', k) = AmountOf(inv, k)
       /\ AmountOf(inv', id) = AmountOf(inv, id) - n
  BY <1>4, <1>5, <1>6, <1>8, TakenIs
<1>11. Looks(shown', points')
  BY <1>8, <1>9, DequippedType
<1>12. Tracks(action', inv', overtaken') /\ Lists(inv', bank)
  <2>1. CASE C = {}
    <3>1. overtaken' = overtaken /\ Extended(inv, inv')
      BY <1>8, <1>9, <2>1 DEF KitInv, Flags
    <3> QED BY <1>1, <1>3, <1>5, <1>9, <3>1, TracksExtended, ListsExtended DEF KitInv
  <2>2. CASE C # {}
    <3>1. overtaken' = (overtaken \/ action.index # 0) /\ inv' = Without(inv, C)
      BY <1>8, <1>9, <2>2
    <3>2. Tracks(action', inv', overtaken')
      BY <1>1, <3>1, TracksRacing DEF KitInv
    <3>3. Lists(inv', bank)
      BY <1>5, <1>9, <3>1, ListsWithout
    <3> QED BY <3>2, <3>3
  <2> QED BY <2>1, <2>2
<1>13. Flags(banking', tickAction', broken', overtaken') /\ (broken => broken') /\ (overtaken => overtaken')
  <2>1. broken \in BOOLEAN /\ overtaken \in BOOLEAN /\ Flags(banking, tickAction, broken, overtaken)
    BY DEF KitInv, Flags
  <2>2. broken' \in BOOLEAN /\ (broken => broken')
    BY <1>2, <2>1
  <2> QED BY <1>1, <1>8, <2>1, <2>2 DEF Flags
<1>14. /\ Lists(inv', bank')
       /\ \A k : k # id => AmountOf(bank', k) = AmountOf(bank, k)
       /\ AmountOf(bank', id) <= AmountOf(bank, id) + n
       /\ AmountOf(bank', id) = AmountOf(bank, id) + n \/ id \in Full(bank') \/ broken'
  <2>1. CASE CanHold(bank, BankCapacity, id, n, yes)
    <3>1. bank' = Added(bank, id, n, yes)
      BY <1>2, <1>3, <2>1
    <3>2. Stacks(id, yes)
      BY <1>3 DEF Stacks
    <3>3. Extended(bank, bank') /\ Packed(bank', BankCapacity, yes)
      BY <1>5, <1>7, <2>1, <3>1, <3>2, AddedIs
    <3>4. /\ \A k : k # id => AmountOf(bank', k) = AmountOf(bank, k)
          /\ AmountOf(bank', id) <= AmountOf(bank, id) + n
          /\ AmountOf(bank', id) = AmountOf(bank, id) + n \/ \E i \in DOMAIN bank' : bank'[i].id = id /\ bank'[i].amount = MaxAmount
      BY <1>5, <1>7, <3>1, AddedIs
    <3>5. bank' \in Seq(Item)
      BY <3>3 DEF Extended
    <3>6. AmountOf(bank', id) = AmountOf(bank, id) + n \/ id \in Full(bank')
      BY <3>4, <3>5, FullIds
    <3>7. \A k \in DOMAIN bank' : ~bank'[k].worn
      BY <1>5, <3>3 DEF Lists, Extended
    <3> QED BY <1>3, <1>12, <3>3, <3>4, <3>5, <3>6, <3>7 DEF Lists
  <2>2. CASE ~CanHold(bank, BankCapacity, id, n, yes)
    <3>1. broken' = TRUE /\ bank' = bank
      BY <1>2, <1>3, <2>2
    <3>2. AmountOf(bank, id) \in Int
      BY <1>5, AmountIs
    <3> QED BY <1>6, <1>12, <3>1, <3>2
  <2> QED BY <2>1, <2>2
<1>15. Accounts
  <2>1. ASSUME NEW k \in Id
        PROVE  /\ HeldInAll(inv', bank', ground', k) - minted'[k] <= HeldInAll(inv, bank, ground, k) - minted[k]
               /\ \/ HeldInAll(inv', bank', ground', k) + used'[k] - minted'[k] = HeldInAll(inv, bank, ground, k) + used[k] - minted[k]
                  \/ k \in Full(inv') \cup Full(bank') \/ broken' \/ overtaken'
    <3>1. /\ AmountOf(inv', k) \in Int /\ AmountOf(bank', k) \in Int /\ AmountOf(inv, k) \in Int
          /\ AmountOf(bank, k) \in Int /\ Lying(ground, k) \in Int
      BY <1>5, <1>14, HeldInt
    <3>2. minted[k] \in Int /\ used[k] \in Int
      BY DEF KitInv, Books
    <3>3. CASE k = id
      BY <1>1, <1>6, <1>10, <1>14, <3>1, <3>2, <3>3 DEF HeldInAll
    <3>4. CASE k # id
      BY <1>1, <1>10, <1>14, <3>1, <3>2, <3>4 DEF HeldInAll
    <3> QED BY <3>3, <3>4
  <2> QED BY <2>1 DEF Accounts
<1>16. Carried
  <2>1. CASE C = {}
    <3>1. Dequipped({}) /\ Extended(inv, inv')
      BY <1>8, <1>9, <2>1
    <3> QED BY <3>1, CarriedMore
  <2>2. CASE C # {}
    BY <1>8, <1>9, <2>2, CarriedAway
  <2> QED BY <2>1, <2>2
<1> QED BY <1>1, <1>11, <1>12, <1>13, <1>14, <1>15, <1>16 DEF KitInv, Kept

LEMMA WithdrawKeeps ==
  ASSUME KitInv, Withdraw
  PROVE  Kept /\ Carried
<1>1. /\ ground' = ground /\ banking' = banking /\ action' = action /\ used' = used /\ minted' = minted /\ made' = made
      /\ tickAction' = tickAction /\ broken' = broken /\ overtaken' = overtaken /\ shown' = shown /\ points' = points
  BY DEF Withdraw, Engine, ledger, wear
<1>0. PICK id \in Id : \E n \in 1..CountID(bank, id) :
        /\ CanHold(inv, Capacity, id, n, FALSE)
        /\ IF id \in StackableId
           THEN bank' = Taken(bank, id, n, TRUE) /\ inv' = Added(inv, id, n, FALSE)
           ELSE /\ bank' = Taken(bank, id, Room(id, n), TRUE)
                /\ inv' = inv \o [k \in 1..Room(id, n) |-> NewItem(id, 1)]
  BY DEF Withdraw
<1>2. PICK n \in 1..CountID(bank, id) :
        /\ CanHold(inv, Capacity, id, n, FALSE)
        /\ IF id \in StackableId
           THEN bank' = Taken(bank, id, n, TRUE) /\ inv' = Added(inv, id, n, FALSE)
           ELSE /\ bank' = Taken(bank, id, Room(id, n), TRUE)
                /\ inv' = inv \o [k \in 1..Room(id, n) |-> NewItem(id, 1)]
  BY <1>0
<1>3. PICK all \in BOOLEAN, yes \in BOOLEAN : all = FALSE /\ yes = TRUE
  OBVIOUS
<1>5. /\ Lists(inv, bank) /\ inv \in Seq(Item) /\ bank \in Seq(Item) /\ Heap(ground)
      /\ Packed(inv, Capacity, all) /\ Packed(bank, BankCapacity, yes)
      /\ Capacity \in Nat /\ BankCapacity \in Nat /\ Len(inv) \in Nat
  BY <1>3, ListFacts, KitAssumption DEF KitInv, Lists
<1>6. n \in Nat /\ n >= 1 /\ n <= AmountOf(bank, id)
  BY <1>5, CountIs
<1>7. n \in 1..MaxAmount
  <2>1. AmountOf(bank, id) <= MaxAmount
    BY <1>3, <1>5, AmountBound
  <2>2. AmountOf(bank, id) \in Int
    BY <1>5, AmountIs
  <2> QED BY <1>6, <2>1, <2>2, InventoryAssumption
<1>8. CanHold(inv, Capacity, id, n, all)
  BY <1>2, <1>3
<1>9. \A k : AmountOf(inv, k) \in Int /\ AmountOf(bank, k) \in Int /\ Lying(ground, k) \in Int
  BY <1>5, HeldInt
<1>10. ASSUME NEW m \in Nat, m >= 1, m <= AmountOf(bank, id), bank' = Taken(bank, id, m, yes)
       PROVE  /\ bank' \in Seq(Item) /\ Packed(bank', BankCapacity, TRUE) /\ \A k \in DOMAIN bank' : ~bank'[k].worn
              /\ \A k : k # id => AmountOf(bank', k) = AmountOf(bank, k)
              /\ AmountOf(bank', id) = AmountOf(bank, id) - m
  <2>1. PICK C : C = Cut(bank, id, m, yes)
    OBVIOUS
  <2>2. /\ C \in SUBSET (DOMAIN bank)
        /\ C # {} => bank' = Without(bank, C)
        /\ C = {} => Extended(bank, bank') /\ DOMAIN bank' = DOMAIN bank
        /\ bank' \in Seq(Item) /\ Packed(bank', BankCapacity, yes)
    BY <1>5, <1>10, <2>1, TakenIs
  <2>3. /\ \A k : k # id => AmountOf(bank', k) = AmountOf(bank, k)
        /\ AmountOf(bank', id) = AmountOf(bank, id) - m
    BY <1>5, <1>10, <2>1, TakenIs
  <2>4. \A k \in DOMAIN bank : ~bank[k].worn
    BY <1>5 DEF Lists
  <2>5. CASE C = {}
    BY <1>3, <2>2, <2>3, <2>4, <2>5 DEF Extended
  <2>6. CASE C # {}
    <3>1. bank' = Without(bank, C)
      BY <2>2, <2>6
    <3>2. \A k \in DOMAIN bank' : \E i \in (DOMAIN bank) \ C : bank'[k] = bank[i]
      BY <1>5, <2>2, <3>1, WithoutKeeps
    <3> QED BY <1>3, <2>2, <2>3, <2>4, <3>2
  <2> QED BY <2>5, <2>6
<1>11. PICK m : m = IF id \in StackableId THEN n ELSE Room(id, n)
  OBVIOUS
<1>12. /\ m \in Nat /\ m >= 1 /\ m <= n /\ bank' = Taken(bank, id, m, yes)
       /\ id \notin StackableId => Len(inv) + m <= Capacity
  <2>1. CASE id \in StackableId
    BY <1>2, <1>3, <1>6, <1>11, <2>1
  <2>2. CASE id \notin StackableId
    <3>1. m = Least(n, Capacity - Len(inv)) /\ bank' = Taken(bank, id, m, yes)
      BY <1>2, <1>3, <1>11, <2>2 DEF Room
    <3>2. SlotsNeeded(inv, id, n, all) = 1
      BY <1>3, <2>2 DEF SlotsNeeded, Stacks
    <3>3. Len(inv) < Capacity
      BY <1>5, <1>8, <3>2 DEF CanHold
    <3>4. m = (IF n < Capacity - Len(inv) THEN n ELSE Capacity - Len(inv))
      BY <3>1 DEF Least
    <3>5. m \in Nat /\ m >= 1 /\ m <= n /\ Len(inv) + m <= Capacity
      BY <1>5, <1>6, <3>3, <3>4
    <3> QED BY <3>1, <3>5
  <2> QED BY <2>1, <2>2
<1>13. m <= AmountOf(bank, id)
  BY <1>6, <1>9, <1>12
<1>14. /\ bank' \in Seq(Item) /\ Packed(bank', BankCapacity, TRUE) /\ \A k \in DOMAIN bank' : ~bank'[k].worn
       /\ \A k : k # id => AmountOf(bank', k) = AmountOf(bank, k)
       /\ AmountOf(bank', id) = AmountOf(bank, id) - m
  BY <1>10, <1>12, <1>13
<1>15. /\ Extended(inv, inv') /\ Packed(inv', Capacity, all)
       /\ \A k : k # id => AmountOf(inv', k) = AmountOf(inv, k)
       /\ AmountOf(inv', id) <= AmountOf(inv, id) + m
       /\ AmountOf(inv', id) = AmountOf(inv, id) + m \/ id \in Full(inv')
  <2>1. CASE id \in StackableId
    <3>1. m = n
      BY <1>11, <2>1
    <3>2. inv' = Added(inv, id, n, all) /\ Stacks(id, all)
      BY <1>2, <1>3, <2>1 DEF Stacks
    <3>3. Extended(inv, inv') /\ Packed(inv', Capacity, all)
      BY <1>5, <1>7, <1>8, <3>2, AddedIs
    <3>4. /\ \A k : k # id => AmountOf(inv', k) = AmountOf(inv, k)
          /\ AmountOf(inv', id) <= AmountOf(inv, id) + n
          /\ AmountOf(inv', id) = AmountOf(inv, id) + n \/ \E i \in DOMAIN inv' : inv'[i].id = id /\ inv'[i].amount = MaxAmount
      BY <1>5, <1>7, <3>2, AddedIs
    <3>5. AmountOf(inv', id) = AmountOf(inv, id) + n \/ id \in Full(inv')
      BY <3>3, <3>4, FullIds DEF Extended
    <3> QED BY <3>1, <3>3, <3>4, <3>5
  <2>2. CASE id \notin StackableId
    <3>1. PICK x : x = NewItem(id, 1)
      OBVIOUS
    <3>2. x \in Item /\ x.id = id /\ x.amount = 1 /\ x.worn = FALSE
      BY <3>1 DEF NewItem, Item
    <3>3. m = Room(id, n)
      BY <1>11, <2>2
    <3>4. inv' = inv \o [k \in 1..m |-> x]
      <4>1. inv' = inv \o [k \in 1..Room(id, n) |-> NewItem(id, 1)]
        BY <1>2, <2>2
      <4>2. [k \in 1..Room(id, n) |-> NewItem(id, 1)] = [k \in 1..Room(id, n) |-> x]
        BY <3>1
      <4>3. PICK r : r = Room(id, n)
        OBVIOUS
      <4> QED BY ONLY <3>3, <4>1, <4>2, <4>3
    <3>5. Longer(inv, inv', x, m)
      BY <1>12, <3>2, <3>4 DEF Longer
    <3>6. Extended(inv, inv') /\ \A k : k # id => AmountOf(inv', k) = AmountOf(inv, k)
      BY <1>5, <3>2, <3>5, Lengthened
    <3>7. AmountOf(inv', id) = AmountOf(inv, id) + m * 1
      BY <1>5, <3>2, <3>5, Lengthened
    <3>8. Packed(inv', Capacity, FALSE)
      <4>1. Packed(inv, Capacity, FALSE) /\ Len(inv) + m <= Capacity
        BY <1>3, <1>5, <1>12, <2>2
      <4> QED BY <1>5, <2>2, <3>2, <3>5, <4>1, LongerPacked
    <3>9. AmountOf(inv', id) = AmountOf(inv, id) + m /\ AmountOf(inv', id) <= AmountOf(inv, id) + m
      BY <1>9, <1>12, <3>7
    <3> QED BY <1>3, <3>6, <3>8, <3>9
  <2> QED BY <2>1, <2>2
<1>16. Lists(inv', bank')
  <2>1. Lists(inv', bank)
    BY <1>3, <1>5, <1>15, ListsExtended
  <2> QED BY <1>14, <2>1 DEF Lists
<1>17. Tracks(action', inv', overtaken')
  BY <1>1, <1>15, TracksExtended DEF KitInv
<1>18. Accounts
  <2>1. ASSUME NEW k \in Id
        PROVE  /\ HeldInAll(inv', bank', ground', k) - minted'[k] <= HeldInAll(inv, bank, ground, k) - minted[k]
               /\ \/ HeldInAll(inv', bank', ground', k) + used'[k] - minted'[k] = HeldInAll(inv, bank, ground, k) + used[k] - minted[k]
                  \/ k \in Full(inv') \cup Full(bank') \/ broken' \/ overtaken'
    <3>1. /\ AmountOf(inv', k) \in Int /\ AmountOf(bank', k) \in Int /\ AmountOf(inv, k) \in Int
          /\ AmountOf(bank, k) \in Int /\ Lying(ground, k) \in Int
      BY <1>5, <1>16, HeldInt
    <3>2. minted[k] \in Int /\ used[k] \in Int
      BY DEF KitInv, Books
    <3>3. CASE k = id
      <4>1. PICK a, b, g, c, d : /\ a = AmountOf(inv, k) /\ b = AmountOf(bank, k) /\ g = Lying(ground, k)
                                 /\ c = AmountOf(inv', k) /\ d = AmountOf(bank', k)
        OBVIOUS
      <4>2. /\ a \in Int /\ b \in Int /\ g \in Int /\ c \in Int /\ d \in Int /\ m \in Int
            /\ d = b - m /\ c <= a + m
        BY <1>12, <1>14, <1>15, <3>1, <3>3, <4>1
      <4>3. c = a + m \/ k \in Full(inv')
        BY <1>15, <3>3, <4>1
      <4>4. HeldInAll(inv, bank, ground, k) = a + b + g /\ HeldInAll(inv', bank', ground', k) = c + d + g
        BY <1>1, <4>1 DEF HeldInAll
      <4>5. minted'[k] = minted[k] /\ used'[k] = used[k]
        BY <1>1
      <4>6. c + d + g - minted[k] <= a + b + g - minted[k]
        BY <3>2, <4>2
      <4>7. c = a + m => c + d + g + used[k] - minted[k] = a + b + g + used[k] - minted[k]
        BY <3>2, <4>2
      <4>8. HeldInAll(inv', bank', ground', k) - minted'[k] <= HeldInAll(inv, bank, ground, k) - minted[k]
        BY <3>2, <4>2, <4>4, <4>5, <4>6
      <4>9. c = a + m => HeldInAll(inv', bank', ground', k) + used'[k] - minted'[k] = HeldInAll(inv, bank, ground, k) + used[k] - minted[k]
        BY <3>2, <4>2, <4>4, <4>5, <4>7
      <4> QED BY <4>3, <4>8, <4>9
    <3>4. CASE k # id
      BY <1>1, <1>14, <1>15, <3>1, <3>2, <3>4 DEF HeldInAll
    <3> QED BY <3>3, <3>4
  <2> QED BY <2>1 DEF Accounts
<1>19. Carried
  BY <1>1, <1>15, CarriedMore
<1> QED BY <1>1, <1>16, <1>17, <1>18, <1>19 DEF KitInv, Kept

LEMMA DeleteUsedKeeps ==
  ASSUME KitInv, DeleteUsed
  PROVE  Kept /\ Carried
<1>1. /\ bank' = bank /\ ground' = ground /\ banking' = banking /\ minted' = minted /\ made' = made
      /\ tickAction' = tickAction /\ broken' = broken /\ overtaken' = overtaken
      /\ action.index # 0 /\ action' = NoAction
  BY DEF DeleteUsed, Engine
<1>2. /\ Lists(inv, bank) /\ inv \in Seq(Item) /\ Heap(ground) /\ Books(minted, used, made)
      /\ Tracks(action, inv, overtaken) /\ Packed(inv, Capacity, FALSE)
  BY DEF KitInv, Lists
<1>3. Tracks(action', inv', overtaken')
  BY <1>1 DEF Tracks, NoAction
<1>4. CASE action.index \notin DOMAIN inv
  <2>1. inv' = inv /\ shown' = shown /\ points' = points /\ used' = used
    BY <1>4 DEF DeleteUsed, wear
  <2>2. Lists(inv', bank') /\ Heap(ground') /\ Accounts
    BY <1>1, <2>1, Still
  <2>3. Carried
    <3>1. Extended(inv, inv')
      BY <1>2, <2>1 DEF Extended
    <3> QED BY <2>1, <3>1, CarriedMore
  <2> QED BY <1>1, <1>3, <2>1, <2>2, <2>3 DEF KitInv, Kept
<1>5. CASE action.index \in DOMAIN inv
  <2>1. PICK i \in DOMAIN inv : i = action.index
    BY <1>5
  <2>2. PICK C : C = {i}
    OBVIOUS
  <2>3. /\ C \in SUBSET (DOMAIN inv) /\ Dequipped(C) /\ inv' = Without(inv, C) /\ inv' = Without(inv, {i})
        /\ used' = [used EXCEPT ![action.id] = @ + 1]
    BY <1>5, <2>1, <2>2 DEF DeleteUsed
  <2>4. Lists(inv', bank') /\ Looks(shown', points')
    BY <1>1, <1>2, <2>3, ListsWithout, DequippedType
  <2>5. /\ \A k : k # inv[i].id => AmountOf(inv', k) = AmountOf(inv, k)
        /\ AmountOf(inv', inv[i].id) = AmountOf(inv, inv[i].id) - inv[i].amount
    BY <1>2, <2>3, AmountWithoutOne
  <2>6. inv[i].amount \in Nat /\ inv[i].id \in Id
    BY <1>2, ListFacts
  <2>7. action.id \in Consumable
    BY <1>1, <1>2 DEF Tracks, NoAction
  <2>8. /\ used' \in [Id -> Nat] /\ used'[action.id] = used[action.id] + 1
        /\ \A k \in Id : k # action.id => used'[k] = used[k]
    <3>1. action.id \in Id /\ used \in [Id -> Nat]
      BY <1>2, <2>7, KitAssumption DEF Books
    <3>2. used[action.id] \in Nat
      BY <3>1
    <3>3. used' \in [Id -> Nat]
      BY <2>3, <3>1, <3>2
    <3>4. used'[action.id] = used[action.id] + 1
      BY <2>3, <3>1
    <3>5. \A k \in Id : k # action.id => used'[k] = used[k]
      BY <2>3, <3>1
    <3> QED BY <3>3, <3>4, <3>5
  <2>9. overtaken \/ (inv[i].id = action.id /\ inv[i].amount = 1)
    <3>1. ASSUME ~overtaken PROVE inv[i].id = action.id
      BY <1>1, <1>2, <2>1, <3>1 DEF Tracks
    <3>2. ASSUME ~overtaken PROVE inv[i].amount = 1
      <4>1. ~Stacks(inv[i].id, FALSE)
        BY <2>7, <3>1, <3>2, KitAssumption DEF Stacks
      <4> QED BY <1>2, <4>1 DEF Packed
    <3> QED BY <3>1, <3>2
  <2>10. Accounts
    <3>1. ASSUME NEW k \in Id
          PROVE  /\ HeldInAll(inv', bank', ground', k) - minted'[k] <= HeldInAll(inv, bank, ground, k) - minted[k]
                 /\ \/ HeldInAll(inv', bank', ground', k) + used'[k] - minted'[k] = HeldInAll(inv, bank, ground, k) + used[k] - minted[k]
                    \/ k \in Full(inv') \cup Full(bank') \/ broken' \/ overtaken'
      <4>1. /\ AmountOf(inv', k) \in Int /\ AmountOf(inv, k) \in Int
            /\ AmountOf(bank, k) \in Int /\ Lying(ground, k) \in Int
        BY <1>1, <1>2, <2>4, HeldInt
      <4>2. minted[k] \in Int /\ used[k] \in Int
        BY <1>2 DEF Books
      <4>3. PICK n \in Nat : n = inv[i].amount
        BY <2>6
      <4>4. CASE k = inv[i].id
        <5>1. AmountOf(inv', k) = AmountOf(inv, k) - n
          BY <2>5, <4>3, <4>4
        <5>2. overtaken' \/ (n = 1 /\ used'[k] = used[k] + 1)
          BY <1>1, <2>8, <2>9, <4>3, <4>4
        <5> QED BY <1>1, <4>1, <4>2, <5>1, <5>2 DEF HeldInAll
      <4>5. CASE k # inv[i].id
        <5>1. AmountOf(inv', k) = AmountOf(inv, k)
          BY <2>5, <4>5
        <5>2. overtaken' \/ used'[k] = used[k]
          BY <1>1, <2>8, <2>9, <4>5
        <5> QED BY <1>1, <4>1, <4>2, <5>1, <5>2 DEF HeldInAll
      <4> QED BY <4>4, <4>5
    <3> QED BY <3>1 DEF Accounts
  <2>11. Books(minted', used', made')
    BY <1>1, <1>2, <2>8 DEF Books
  <2>12. Carried
    BY <2>3, CarriedAway
  <2> QED BY <1>1, <1>3, <2>4, <2>10, <2>11, <2>12 DEF KitInv, Kept
<1> QED BY <1>4, <1>5

LEMMA CastKeeps ==
  ASSUME KitInv, CastBonesToBananas
  PROVE  Kept /\ Carried /\ Len(inv') = Len(inv)
<1>1. /\ bank' = bank /\ ground' = ground /\ banking' = banking /\ action' = action /\ shown' = shown /\ points' = points
      /\ tickAction' = tickAction /\ broken' = broken /\ overtaken' = (overtaken \/ action.index # 0)
  BY DEF CastBonesToBananas, Engine, Racing, wear
<1>2. PICK n : n = CountID(inv, Converted)
  OBVIOUS
<1>3. /\ n > 0 /\ made + n <= MaxNew
      /\ inv' = Taken(inv, Converted, n, FALSE) \o [k \in 1..n |-> NewItem(Conversion, 1)]
      /\ minted' = [minted EXCEPT ![Conversion] = @ + n]
      /\ used' = [used EXCEPT ![Converted] = @ + n]
      /\ made' = made + n
  BY <1>2 DEF CastBonesToBananas
<1>4. PICK all \in BOOLEAN : all = FALSE
  OBVIOUS
<1>5. /\ Lists(inv, bank) /\ inv \in Seq(Item) /\ Heap(ground) /\ Books(minted, used, made)
      /\ Tracks(action, inv, overtaken) /\ Packed(inv, Capacity, all) /\ Capacity \in Nat /\ Len(inv) \in Nat
      /\ Len(inv) <= Capacity /\ {Converted, Conversion} \subseteq Id \ StackableId
  BY <1>4, ListFacts, KitAssumption DEF KitInv, Lists, Packed
<1>6. n \in Nat /\ n >= 1 /\ n <= AmountOf(inv, Converted)
  <2>1. AmountOf(inv, Converted) \in Nat
    BY <1>5, AmountNat
  <2>2. n = AmountOf(inv, Converted) \/ n = -1
    BY <1>2 DEF CountID
  <2> QED BY <1>3, <2>1, <2>2
<1>7. PICK C, m : C = Cut(inv, Converted, n, all) /\ m = Taken(inv, Converted, n, all)
  OBVIOUS
<1>8. /\ C \in SUBSET (DOMAIN inv)
      /\ C # {} => m = Without(inv, C)
      /\ C = {} => Extended(inv, m)
      /\ m \in Seq(Item) /\ Packed(m, Capacity, all)
  BY <1>5, <1>6, <1>7, TakenIs
<1>9. /\ \A k : k # Converted => AmountOf(m, k) = AmountOf(inv, k)
      /\ AmountOf(m, Converted) = AmountOf(inv, Converted) - n
      /\ ~Stacks(Converted, all) => Len(m) = Len(inv) - n
  BY <1>5, <1>6, <1>7, TakenIs
<1>10. Len(m) + n <= Capacity
  BY <1>4, <1>5, <1>6, <1>9 DEF Stacks
<1>11. Lists(m, bank)
  <2>1. CASE C = {}
    BY <1>4, <1>5, <1>8, <2>1, ListsExtended
  <2>2. CASE C # {}
    BY <1>5, <1>8, <2>2, ListsWithout
  <2> QED BY <2>1, <2>2
<1>12. PICK x : x = NewItem(Conversion, 1)
  OBVIOUS
<1>13. x \in Item /\ x.id = Conversion /\ x.amount = 1 /\ x.worn = FALSE /\ x.id \notin StackableId
  BY <1>5, <1>12 DEF NewItem, Item
<1>14. Longer(m, inv', x, n)
  BY <1>3, <1>4, <1>6, <1>7, <1>12, <1>13 DEF Longer
<1>15. Extended(m, inv') /\ \A k : k # Conversion => AmountOf(inv', k) = AmountOf(m, k)
  BY <1>8, <1>13, <1>14, Lengthened
<1>16. AmountOf(inv', Conversion) = AmountOf(m, Conversion) + n * 1
  BY <1>8, <1>13, <1>14, Lengthened
<1>17. Packed(inv', Capacity, FALSE)
  <2>1. Packed(m, Capacity, FALSE)
    BY <1>4, <1>8
  <2> QED BY <1>5, <1>8, <1>10, <1>13, <1>14, <2>1, LongerPacked
<1>18. Lists(inv', bank')
  BY <1>1, <1>11, <1>15, <1>17, ListsExtended
<1>19. Tracks(action', inv', overtaken')
  BY <1>1, <1>5, TracksRacing
<1>20. /\ \A k \in Id : minted'[k] = IF k = Conversion THEN minted[k] + n ELSE minted[k]
       /\ \A k \in Id : used'[k] = IF k = Converted THEN used[k] + n ELSE used[k]
  BY <1>3, <1>5 DEF Books
<1>21. Books(minted', used', made')
  <2>1. minted' \in [Id -> Nat] /\ used' \in [Id -> Nat]
    BY <1>3, <1>5, <1>6 DEF Books
  <2>2. made' \in 0..MaxNew
    BY <1>3, <1>5, <1>6, KitAssumption DEF Books
  <2> QED BY <2>1, <2>2 DEF Books
<1>22. Accounts
  <2>1. ASSUME NEW k \in Id
        PROVE  /\ HeldInAll(inv', bank', ground', k) - minted'[k] <= HeldInAll(inv, bank, ground, k) - minted[k]
               /\ \/ HeldInAll(inv', bank', ground', k) + used'[k] - minted'[k] = HeldInAll(inv, bank, ground, k) + used[k] - minted[k]
                  \/ k \in Full(inv') \cup Full(bank') \/ broken' \/ overtaken'
    <3>1. /\ AmountOf(inv', k) \in Int /\ AmountOf(m, k) \in Int /\ AmountOf(inv, k) \in Int
          /\ AmountOf(bank, k) \in Int /\ Lying(ground, k) \in Int
      BY <1>5, <1>11, <1>18, HeldInt
    <3>2. minted[k] \in Int /\ used[k] \in Int
      BY <1>5 DEF Books
    <3>3. AmountOf(m, k) = IF k = Converted THEN AmountOf(inv, k) - n ELSE AmountOf(inv, k)
      BY <1>9
    <3>4. AmountOf(inv', k) = IF k = Conversion THEN AmountOf(m, k) + n ELSE AmountOf(m, k)
      BY <1>6, <1>15, <1>16, <3>1
    <3> QED BY <1>1, <1>6, <1>20, <3>1, <3>2, <3>3, <3>4 DEF HeldInAll
  <2> QED BY <2>1 DEF Accounts
<1>23. Len(inv') = Len(inv)
  <2>1. Len(inv') = Len(m) + n
    BY <1>8, <1>13, <1>14, Lengthened
  <2>2. ~Stacks(Converted, all)
    BY <1>4, <1>5 DEF Stacks
  <2> QED BY <1>5, <1>6, <1>9, <2>1, <2>2
<1>24. Extended(Without(inv, C), inv')
  <2>1. CASE C = {}
    <3>1. Extended(inv, m) /\ Extended(m, inv') /\ Without(inv, C) = inv
      BY <1>5, <1>8, <1>15, <2>1, WithoutNone
    <3> QED BY <3>1 DEF Extended
  <2>2. CASE C # {}
    BY <1>8, <1>15, <2>2
  <2> QED BY <2>1, <2>2
<1>25. Dequipped(C)
  <2>1. C \in SUBSET IndicesOf(inv, Converted)
    BY <1>5, <1>6, <1>7, TakenIs
  <2>2. \A i \in C : ~Wieldable(inv[i].id)
    BY <2>1, KitAssumption DEF Wieldable, IndicesOf
  <2>3. Bared(C) = {}
    BY <2>2 DEF Bared
  <2> QED BY <1>1, <2>3, BaredNone
<1>26. Carried
  BY <1>8, <1>24, <1>25 DEF Carried
<1> QED BY <1>1, <1>18, <1>19, <1>21, <1>22, <1>23, <1>26 DEF KitInv, Kept, Flags

LEMMA KilledKeeps ==
  ASSUME KitInv, Killed
  PROVE  Kept /\ Carried
<1>1. /\ bank' = bank /\ banking' = banking /\ action' = action /\ used' = used
      /\ tickAction' = tickAction /\ broken' = broken /\ Supplied(DefaultDrop, 1)
  BY DEF Killed, Engine
<1>2. PICK dropped \in SUBSET (DOMAIN inv) :
        /\ Dequipped(Gone(dropped))
        /\ inv' = Without(inv, Gone(dropped))
        /\ ground' = (ground (+) Loose(DefaultDrop, 1)) (+) Pile(dropped)
        /\ Racing(Gone(dropped) # {})
  BY DEF Killed
<1>3. PICK C : C = Gone(dropped)
  OBVIOUS
<1>4. PICK b, h, p : b = Loose(DefaultDrop, 1) /\ h = ground (+) b /\ p = Pile(dropped)
  OBVIOUS
<1>5. /\ Dequipped(C) /\ inv' = Without(inv, C) /\ ground' = h (+) p
      /\ overtaken' = (overtaken \/ (C # {} /\ action.index # 0))
  BY <1>2, <1>3, <1>4 DEF Racing
<1>6. /\ Lists(inv, bank) /\ inv \in Seq(Item) /\ Heap(ground) /\ Books(minted, used, made)
      /\ Tracks(action, inv, overtaken) /\ Packed(inv, Capacity, FALSE)
  BY DEF KitInv, Lists
<1>7. /\ C \in SUBSET (DOMAIN inv)
      /\ \A id \in Id : SumFunctionOnSet(Amounts(inv), C \cap IndicesOf(inv, id))
                          = SumFunctionOnSet(Amounts(inv), dropped \cap IndicesOf(inv, id))
  BY <1>3, <1>6, GoneIs
<1>8. Lists(inv', bank') /\ Looks(shown', points')
  BY <1>1, <1>5, <1>6, <1>7, ListsWithout, DequippedType
<1>9. Tracks(action', inv', overtaken')
  <2>1. CASE C = {}
    <3>1. inv' = inv /\ overtaken' = overtaken
      BY <1>5, <1>6, <2>1, WithoutNone DEF KitInv, Flags
    <3> QED BY <1>1, <1>6, <3>1
  <2>2. CASE C # {}
    <3>1. overtaken' = (overtaken \/ action.index # 0)
      BY <1>5, <2>2
    <3> QED BY <1>1, <1>6, <3>1, TracksRacing
  <2> QED BY <2>1, <2>2
<1>10. Heap(b) /\ Lying(b, DefaultDrop) = 1 /\ \A k : k # DefaultDrop => Lying(b, k) = 0
  <2>1. OneItem(b, DefaultDrop, 1)
    BY <1>4, KitAssumption, InventoryAssumption DEF OneItem
  <2> QED BY <2>1, HeapOne
<1>11. Heap(h) /\ \A k : Lying(h, k) = Lying(ground, k) + Lying(b, k)
  BY <1>4, <1>6, <1>10, HeapJoin
<1>12. Heap(p) /\ \A id : Lying(p, id) = SumFunctionOnSet(Amounts(inv), dropped \cap IndicesOf(inv, id))
  BY <1>4, <1>6, HeapPile
<1>13. Heap(ground') /\ \A k : Lying(ground', k) = Lying(h, k) + Lying(p, k)
  BY <1>5, <1>11, <1>12, HeapJoin
<1>14. ASSUME NEW k \in Id
       PROVE  HeldInAll(inv', bank', ground', k) = HeldInAll(inv, bank, ground, k) + IF k = DefaultDrop THEN 1 ELSE 0
  <2>1. /\ AmountOf(inv, k) = AmountOf(inv', k) + SumFunctionOnSet(Amounts(inv), C \cap IndicesOf(inv, k))
    BY <1>5, <1>6, <1>7, AmountWithout
  <2>2. AmountOf(inv, k) = AmountOf(inv', k) + Lying(p, k)
    BY <1>7, <1>12, <2>1
  <2>3. Lying(b, k) = IF k = DefaultDrop THEN 1 ELSE 0
    BY <1>10
  <2>4. Lying(ground', k) = (Lying(ground, k) + Lying(b, k)) + Lying(p, k)
    BY <1>11, <1>13
  <2>5. /\ AmountOf(inv', k) \in Int /\ AmountOf(inv, k) \in Int /\ AmountOf(bank, k) \in Int
        /\ Lying(ground, k) \in Int /\ Lying(p, k) \in Int
    BY <1>6, <1>8, <1>12, HeldInt, LyingInt
  <2> QED BY <1>1, <2>2, <2>3, <2>4, <2>5 DEF HeldInAll
<1>15. /\ minted' = [minted EXCEPT ![DefaultDrop] = @ + 1] /\ made' = made + 1 /\ made < MaxNew
  BY <1>1 DEF Supplied
<1>16. \A k \in Id : minted'[k] = minted[k] + IF k = DefaultDrop THEN 1 ELSE 0
  BY <1>6, <1>15 DEF Books
<1>17. Books(minted', used', made')
  <2>1. minted' \in [Id -> Nat]
    <3>1. minted \in [Id -> Nat] /\ DefaultDrop \in Id
      BY <1>6, KitAssumption DEF Books
    <3>2. minted[DefaultDrop] + 1 \in Nat
      BY <3>1
    <3> QED BY <1>15, <3>1, <3>2
  <2>2. made' \in 0..MaxNew
    BY <1>6, <1>15, KitAssumption DEF Books
  <2> QED BY <1>1, <1>6, <2>1, <2>2 DEF Books
<1>18. Accounts
  <2>1. ASSUME NEW k \in Id
        PROVE  /\ HeldInAll(inv', bank', ground', k) - minted'[k] <= HeldInAll(inv, bank, ground, k) - minted[k]
               /\ HeldInAll(inv', bank', ground', k) + used'[k] - minted'[k] = HeldInAll(inv, bank, ground, k) + used[k] - minted[k]
    <3>1. HeldInAll(inv, bank, ground, k) \in Int /\ minted[k] \in Int /\ used[k] \in Int
      BY <1>6, HeldInt DEF Books
    <3>2. PICK d \in Int : d = IF k = DefaultDrop THEN 1 ELSE 0
      OBVIOUS
    <3>3. HeldInAll(inv', bank', ground', k) = HeldInAll(inv, bank, ground, k) + d /\ minted'[k] = minted[k] + d
      BY <1>14, <1>16, <3>2
    <3>4. used'[k] = used[k]
      BY <1>1
    <3>5. PICK v, w, m, u : /\ v = HeldInAll(inv, bank, ground, k) /\ w = HeldInAll(inv', bank', ground', k)
                            /\ m = minted[k] /\ u = used[k]
      OBVIOUS
    <3>6. v \in Int /\ m \in Int /\ u \in Int /\ w = v + d /\ minted'[k] = m + d /\ used'[k] = u
      BY <3>1, <3>3, <3>4, <3>5
    <3>7. w - (m + d) <= v - m /\ w + u - (m + d) = v + u - m
      BY <3>2, <3>6
    <3> QED BY <3>5, <3>6, <3>7
  <2> QED BY <2>1 DEF Accounts
<1>19. Carried
  BY <1>5, <1>7, CarriedAway
<1> QED BY <1>1, <1>5, <1>8, <1>9, <1>13, <1>17, <1>18, <1>19 DEF KitInv, Kept, Flags

-----------------------------------------------------------------------------
(* The inductive invariant holds at first and is kept. *)
LEMMA NothingAtAll ==
  ASSUME NEW id
  PROVE  /\ Heap(EmptyBag) /\ Lying(EmptyBag, id) = 0
         /\ <<>> \in Seq(Item) /\ AmountOf(<<>>, id) = 0
<1>1. PICK b : b = EmptyBag
  OBVIOUS
<1>2. DOMAIN b = {} /\ b = [g \in DOMAIN b |-> b[g]]
  BY <1>1 DEF EmptyBag, SetToBag
<1>3. Heap(b)
  BY <1>2, FS_EmptySet DEF Heap
<1>4. Lying(b, id) = SumFunctionOnSet(b, {})
  <2>1. \A g \in {} : b[g] = Share(b, id, g)
    OBVIOUS
  <2> QED BY <1>2, <1>3, <2>1, FS_EmptySet, LyingIs
<1>5. Lying(b, id) = 0
  BY <1>4, SumOfNone
<1>6. PICK e : e = <<>>
  OBVIOUS
<1>7. e \in Seq(Item) /\ DOMAIN e = {}
  BY <1>6
<1>8. AmountOf(e, id) = SumFunctionOnSet([i \in DOMAIN e |-> e[i].amount], IndicesOf(e, id)) /\ IndicesOf(e, id) = {}
  BY <1>7, AmountOfEntries DEF IndicesOf
<1>9. AmountOf(e, id) = 0
  BY <1>8, SumOfNone
<1> QED BY <1>1, <1>3, <1>5, <1>6, <1>7, <1>9

LEMMA KitInitInv ==
  ASSUME KitInit
  PROVE  KitInv
<1>1. /\ inv = FirstItems /\ bank = <<>> /\ ground = EmptyBag /\ made = 0 /\ limits = {} /\ points = 0
      /\ banking = FALSE /\ tickAction = 0 /\ action = NoAction /\ broken = FALSE /\ overtaken = FALSE
      /\ shown = [p \in Places |-> Skin]
      /\ minted = [id \in Id |-> AmountOf(FirstItems, id)] /\ used = [id \in Id |-> 0]
  BY DEF KitInit
<1>2. inv \in Seq([id : Id, amount : Nat, worn : {FALSE}]) /\ Packed(inv, Capacity, FALSE)
  BY <1>1, KitAssumption
<1>3. inv \in Seq(Item) /\ \A i \in DOMAIN inv : inv[i].worn = FALSE
  <2>1. PICK R : R = [id : Id, amount : Nat, worn : {FALSE}]
    OBVIOUS
  <2>2. R \subseteq Item /\ \A x \in R : x.worn = FALSE
    BY <2>1 DEF Item
  <2>3. inv \in Seq(R)
    BY <1>2, <2>1
  <2>4. Len(inv) \in Nat /\ DOMAIN inv = 1..Len(inv) /\ inv \in [1..Len(inv) -> R]
    BY <2>3
  <2>5. inv \in [1..Len(inv) -> Item]
    BY <2>2, <2>4
  <2>6. inv \in Seq(Item)
    BY <2>4, <2>5
  <2>7. \A i \in DOMAIN inv : inv[i] \in R
    BY <2>4
  <2> QED BY <2>2, <2>6, <2>7
<1>4. Heap(ground) /\ bank \in Seq(Item) /\ DOMAIN bank = {} /\ Len(bank) = 0
  BY <1>1, NothingAtAll
<1>5. Lists(inv, bank)
  <2>1. Packed(bank, BankCapacity, TRUE)
    BY <1>4, KitAssumption DEF Packed
  <2> QED BY <1>2, <1>3, <1>4, <2>1 DEF Lists
<1>6. Tracks(action, inv, overtaken)
  <2>1. action.index = 0 /\ action = NoAction /\ action \in [id : Id \cup {Skin}, index : Nat]
    BY <1>1 DEF NoAction
  <2> QED BY <2>1 DEF Tracks
<1>7. Looks(shown, points)
  BY <1>1 DEF Looks
<1>8. Books(minted, used, made)
  <2>1. \A id \in Id : AmountOf(inv, id) \in Nat
    BY <1>3, AmountNat
  <2> QED BY <1>1, <2>1, KitAssumption DEF Books
<1>9. Flags(banking, tickAction, broken, overtaken)
  <2>1. Capacity \in Nat /\ tickAction = 0
    BY <1>1, KitAssumption
  <2>2. tickAction \in 0..Capacity
    BY <2>1
  <2> QED BY <1>1, <2>2 DEF Flags
<1>10. ASSUME NEW id \in Id
       PROVE  HeldInAll(inv, bank, ground, id) <= minted[id] /\ HeldInAll(inv, bank, ground, id) + used[id] = minted[id]
  <2>1. AmountOf(bank, id) = 0 /\ Lying(ground, id) = 0
    BY <1>1, NothingAtAll
  <2>2. AmountOf(inv, id) \in Nat
    BY <1>3, AmountNat
  <2>3. minted[id] = AmountOf(inv, id) /\ used[id] = 0
    BY <1>1
  <2>4. HeldInAll(inv, bank, ground, id) = AmountOf(inv, id)
    BY <2>1, <2>2 DEF HeldInAll
  <2> QED BY <2>2, <2>3, <2>4
<1> QED BY <1>1, <1>4, <1>5, <1>6, <1>7, <1>8, <1>9, <1>10 DEF KitInv

(* One case per action. *)
LEMMA KitActionKeeps ==
  ASSUME KitInv, OneByOne, KitNext
  PROVE  Kept
<1>1. CASE Equip
  BY <1>1, EquipKeeps
<1>2. CASE Unequip
  BY <1>2, UnequipKeeps
<1>3. CASE DropPacket \/ OpenBank \/ CloseBank \/ UseItem \/ FindUsed
  BY <1>3, QuietKeeps
<1>4. CASE DropAction
  BY <1>4, DropKeeps
<1>5. CASE PickupAction
  BY <1>5, PickupKeeps
<1>6. CASE AddItem
  BY <1>6, AddItemKeeps
<1>7. CASE Deposit
  BY <1>7, DepositKeeps
<1>8. CASE Withdraw
  BY <1>8, WithdrawKeeps
<1>9. CASE DeleteUsed
  BY <1>9, DeleteUsedKeeps
<1>10. CASE CastBonesToBananas
  BY <1>10, CastKeeps
<1>11. CASE Killed
  BY <1>11, KilledKeeps
<1> QED BY <1>1, <1>2, <1>3, <1>4, <1>5, <1>6, <1>7, <1>8, <1>9, <1>10, <1>11 DEF KitNext

LEMMA KitStepInv ==
  ASSUME KitInv, OneByOne, [KitNext]_kitVars
  PROVE  KitInv'
<1>1. CASE KitNext
  <2>1. Kept
    BY <1>1, KitActionKeeps
  <2>2. limits' = limits \cup Full(inv') \cup Full(bank')
    BY <1>1 DEF KitNext
  <2> QED BY <2>1, <2>2, KitSettled
<1>2. CASE UNCHANGED kitVars
  <2>1. /\ inv' = inv /\ bank' = bank /\ shown' = shown /\ points' = points /\ ground' = ground /\ banking' = banking
        /\ tickAction' = tickAction /\ action' = action /\ broken' = broken /\ made' = made /\ minted' = minted
        /\ used' = used /\ limits' = limits /\ overtaken' = overtaken
    BY <1>2 DEF kitVars
  <2> QED BY <2>1 DEF KitInv
<1> QED BY <1>1, <1>2

(* What the invariant says of the properties the runs check. *)
LEMMA KitInvTells ==
  ASSUME KitInv
  PROVE  KitTypeOK /\ WellPacked /\ Conserved
<1>1. Lists(inv, bank) /\ Heap(ground) /\ Looks(shown, points) /\ Books(minted, used, made)
      /\ Flags(banking, tickAction, broken, overtaken) /\ limits \in SUBSET Id
  BY DEF KitInv
<1>2. KitTypeOK
  BY <1>1 DEF KitTypeOK, Lists, Looks, Books, Flags
<1>3. WellPacked
  BY <1>1 DEF WellPacked, Lists
<1>4. ASSUME NEW id \in Id
      PROVE  Total(id) = HeldInAll(inv, bank, ground, id)
  BY DEF Total, HeldInAll, Strewn, Lying
<1>5. NoDuplication
  BY <1>4 DEF NoDuplication, KitInv
<1>6. OnlyLimitsLose
  BY <1>4 DEF OnlyLimitsLose, KitInv
<1> QED BY <1>2, <1>3, <1>5, <1>6 DEF Conserved

(* The invariant of everything a player owns, however the engine's handlers and a
   goroutine's item action interleave. *)
THEOREM KitInvariant == OneByOne => (KitSpec => []KitInv)
<1> SUFFICES ASSUME OneByOne PROVE KitSpec => []KitInv
  OBVIOUS
<1>1. KitInit => KitInv
  BY KitInitInv
<1>2. KitInv /\ [KitNext]_kitVars => KitInv'
  BY KitStepInv
<1> QED BY <1>1, <1>2, PTL DEF KitSpec

(* Inventory, bank, ground and equipment keep their types. *)
THEOREM KitTypes == OneByOne => (KitSpec => []KitTypeOK)
<1> SUFFICES ASSUME OneByOne PROVE KitSpec => []KitTypeOK
  OBVIOUS
<1>1. KitInv => KitTypeOK
  BY KitInvTells
<1>2. KitSpec => []KitInv
  BY KitInvariant
<1> QED BY <1>1, <1>2, PTL

(* One stack per item that stacks, one slot per item that does not. *)
THEOREM KitPacked == OneByOne => (KitSpec => []WellPacked)
<1> SUFFICES ASSUME OneByOne PROVE KitSpec => []WellPacked
  OBVIOUS
<1>1. KitInv => WellPacked
  BY KitInvTells
<1>2. KitSpec => []KitInv
  BY KitInvariant
<1> QED BY <1>1, <1>2, PTL

(* Nothing a player owns is doubled, and nothing is lost but at a limit. *)
THEOREM KitConserved == OneByOne => (KitSpec => []Conserved)
<1> SUFFICES ASSUME OneByOne PROVE KitSpec => []Conserved
  OBVIOUS
<1>1. KitInv => Conserved
  BY KitInvTells
<1>2. KitSpec => []KitInv
  BY KitInvariant
<1> QED BY <1>1, <1>2, PTL

-----------------------------------------------------------------------------
(* What is worn, in a list l, shown as s and counted as q. *)
WornOf(l) == {i \in DOMAIN l : l[i].worn}
BonusAt(l) == [i \in DOMAIN l |-> Bonus[l[i].id]]
Apart(l) == \A i, j \in WornOf(l) : i # j => WieldType[l[i].id] \cap WieldType[l[j].id] = {}
Seen(l, s) ==
  \A p \in Places :
    \/ \E i \in WornOf(l) : WieldPos[l[i].id] = p /\ s[p] = l[i].id
    \/ s[p] = Skin /\ \A i \in WornOf(l) : WieldPos[l[i].id] # p
Counted(l, q) == q = SumFunctionOnSet(BonusAt(l), WornOf(l))
Dressed(l, s, q) == Apart(l) /\ Seen(l, s) /\ Counted(l, q)

WornWeight == [x \in Item |-> IF x.worn THEN Bonus[x.id] ELSE 0]

LEMMA WornFacts ==
  ASSUME NEW l \in Seq(Item)
  PROVE  /\ WornOf(l) \in SUBSET (DOMAIN l) /\ IsFiniteSet(WornOf(l))
         /\ \A i \in DOMAIN l : BonusAt(l)[i] = Bonus[l[i].id] /\ BonusAt(l)[i] \in Int
<1>1. WornOf(l) \in SUBSET (DOMAIN l)
  BY DEF WornOf
<1>2. IsFiniteSet(WornOf(l))
  BY <1>1, ListFacts, FS_Subset
<1>3. ASSUME NEW i \in DOMAIN l PROVE BonusAt(l)[i] = Bonus[l[i].id] /\ BonusAt(l)[i] \in Int
  <2>1. l[i].id \in Id
    BY ListFacts
  <2> QED BY <2>1, KitAssumption DEF BonusAt
<1> QED BY <1>1, <1>2, <1>3

LEMMA WornWeightIs ==
  /\ WornWeight \in [Item -> Int]
  /\ \A x \in Item : WornWeight[x] = IF x.worn THEN Bonus[x.id] ELSE 0
<1>1. \A x \in Item : x.id \in Id
  BY DEF Item
<1>2. \A x \in Item : Bonus[x.id] \in Int
  BY <1>1, KitAssumption
<1> QED BY <1>2 DEF WornWeight

LEMMA WornWeighs ==
  ASSUME NEW l \in Seq(Item)
  PROVE  SumFunctionOnSet(BonusAt(l), WornOf(l)) = Weigh(l, WornWeight)
<1>1. PICK w, W, R : w = WornWeight /\ W = WornOf(l) /\ R = (DOMAIN l) \ W
  OBVIOUS
<1>2. PICK f : f = [i \in DOMAIN l |-> w[l[i]]]
  OBVIOUS
<1>3. \A i \in DOMAIN l : f[i] = w[l[i]] /\ l[i] \in Item
  BY <1>2, ListFacts
<1>4. w \in [Item -> Int] /\ \A x \in Item : w[x] = IF x.worn THEN Bonus[x.id] ELSE 0
  BY <1>1, WornWeightIs
<1>5. Weigh(l, w) = SumFunctionOnSet(f, DOMAIN l) /\ \A i \in DOMAIN l : f[i] \in Int
  BY <1>3, <1>4, WeighIs
<1>6. W \in SUBSET (DOMAIN l) /\ IsFiniteSet(W) /\ IsFiniteSet(DOMAIN l) /\ IsFiniteSet(R)
  BY <1>1, WornFacts, ListFacts, CountRest
<1>7. SumFunctionOnSet(f, DOMAIN l) = SumFunctionOnSet(f, W) + SumFunctionOnSet(f, R) /\ SumFunctionOnSet(f, W) \in Int
  <2>1. PICK D : D = DOMAIN l
    OBVIOUS
  <2>2. IsFiniteSet(D) /\ W \in SUBSET D /\ R = D \ W /\ \A i \in D : f[i] \in Int
    BY <1>1, <1>5, <1>6, <2>1
  <2>3. /\ SumFunctionOnSet(f, D) = SumFunctionOnSet(f, W) + SumFunctionOnSet(f, D \ W)
        /\ SumFunctionOnSet(f, W) \in Int
    BY ONLY <2>2, SumSplit
  <2> QED BY <2>1, <2>2, <2>3
<1>8. \A i \in R : f[i] = 0
  BY <1>1, <1>3, <1>4 DEF WornOf
<1>9. SumFunctionOnSet(f, R) = Cardinality(R) * 0 /\ Cardinality(R) \in Nat
  BY <1>6, <1>8, SumOfEqual, FS_CardinalityType
<1>10. \A i \in W : BonusAt(l)[i] = f[i]
  BY <1>1, <1>3, <1>4, <1>6, WornFacts DEF WornOf
<1>11. SumFunctionOnSet(BonusAt(l), W) = SumFunctionOnSet(f, W)
  BY <1>6, <1>10, SumSame
<1> QED BY <1>1, <1>5, <1>7, <1>9, <1>11

(* Entries that are appended or counted anew put nothing on. *)
LEMMA DressedExtended ==
  ASSUME NEW l \in Seq(Item), NEW m, Extended(l, m), NEW s, NEW q, Dressed(l, s, q)
  PROVE  Dressed(m, s, q)
<1>1. /\ m \in Seq(Item) /\ DOMAIN l \subseteq DOMAIN m
      /\ \A i \in DOMAIN l : m[i].id = l[i].id /\ m[i].worn = l[i].worn
      /\ \A i \in (DOMAIN m) \ (DOMAIN l) : ~m[i].worn
  BY DEF Extended
<1>2. WornOf(m) = WornOf(l)
  BY <1>1 DEF WornOf
<1>3. \A i \in WornOf(l) : i \in DOMAIN l /\ i \in DOMAIN m /\ m[i].id = l[i].id
  BY <1>1 DEF WornOf
<1>4. Apart(m)
  BY <1>2, <1>3 DEF Dressed, Apart
<1>5. Seen(m, s)
  BY <1>2, <1>3 DEF Dressed, Seen
<1>6. \A i \in WornOf(l) : BonusAt(m)[i] = BonusAt(l)[i]
  BY <1>1, <1>3, WornFacts
<1>7. SumFunctionOnSet(BonusAt(m), WornOf(l)) = SumFunctionOnSet(BonusAt(l), WornOf(l))
  BY <1>6, WornFacts, SumSame
<1>8. Counted(m, q)
  BY <1>2, <1>7 DEF Dressed, Counted
<1> QED BY <1>4, <1>5, <1>8 DEF Dressed

(* No two entries are worn at the same place. *)
LEMMA OneAtAPlace ==
  ASSUME Alike, NEW l \in Seq(Item), \A k \in DOMAIN l : l[k].worn => Wieldable(l[k].id), Apart(l),
         NEW i \in WornOf(l), NEW j \in WornOf(l), WieldPos[l[i].id] = WieldPos[l[j].id]
  PROVE  i = j
<1>1. i \in DOMAIN l /\ j \in DOMAIN l /\ Wieldable(l[i].id) /\ Wieldable(l[j].id)
  BY DEF WornOf
<1>2. l[i].id \in Id /\ l[j].id \in Id
  BY <1>1, ListFacts
<1>3. WieldType[l[i].id] \cap WieldType[l[j].id] # {}
  BY <1>1, <1>2 DEF Alike
<1> QED BY <1>3 DEF Apart

(* DequipItem for the entries at C, before they are deleted. *)
LEMMA DressedWithout ==
  ASSUME KitInv, Alike, Dressed(inv, shown, points), NEW C \in SUBSET (DOMAIN inv), Dequipped(C),
         NEW m, m = Without(inv, C)
  PROVE  Dressed(m, shown', points')
<1>1. /\ inv \in Seq(Item) /\ \A k \in DOMAIN inv : inv[k].worn => Wieldable(inv[k].id)
  BY DEF KitInv, Lists
<1>2. Apart(inv) /\ Seen(inv, shown) /\ Counted(inv, points)
  BY DEF Dressed
<1>3. PICK K : K = (DOMAIN inv) \ C
  OBVIOUS
<1>4. m \in Seq(Item) /\ \E f \in Bijection(DOMAIN m, K) : \A k \in DOMAIN m : m[k] = inv[f[k]]
  BY <1>1, <1>3, WithoutIs
<1>5. PICK f \in Bijection(DOMAIN m, K) : \A k \in DOMAIN m : m[k] = inv[f[k]]
  BY <1>4
<1>6. /\ \A k \in DOMAIN m : f[k] \in K /\ f[k] \in DOMAIN inv /\ f[k] \notin C
      /\ \A a, b \in DOMAIN m : f[a] = f[b] => a = b
      /\ \A i \in K : \E k \in DOMAIN m : f[k] = i
  BY <1>3 DEF Bijection, Injection, Surjection, IsInjective
<1>7. \A k \in WornOf(m) : f[k] \in WornOf(inv) /\ m[k] = inv[f[k]] /\ f[k] \notin C /\ k \in DOMAIN m
  BY <1>5, <1>6 DEF WornOf
<1>8. Apart(m)
  BY <1>2, <1>6, <1>7 DEF Apart
<1>9. \A i \in DOMAIN inv : i \in Bared(C) <=> i \in C /\ i \in WornOf(inv)
  BY <1>1 DEF Bared, WornOf
<1>10. ASSUME NEW p \in Places
       PROVE  \/ \E k \in WornOf(m) : WieldPos[m[k].id] = p /\ shown'[p] = m[k].id
              \/ shown'[p] = Skin /\ \A k \in WornOf(m) : WieldPos[m[k].id] # p
  <2>1. shown'[p] = IF \E i \in Bared(C) : WieldPos[inv[i].id] = p THEN Skin ELSE shown[p]
    BY DEF Dequipped
  <2>2. CASE \E i \in Bared(C) : WieldPos[inv[i].id] = p
    <3>1. PICK i \in Bared(C) : WieldPos[inv[i].id] = p
      BY <2>2
    <3>2. i \in C /\ i \in WornOf(inv)
      BY <1>9, <3>1 DEF Bared
    <3>3. ASSUME NEW k \in WornOf(m), WieldPos[m[k].id] = p PROVE FALSE
      <4>1. f[k] \in WornOf(inv) /\ WieldPos[inv[f[k]].id] = p /\ f[k] \notin C
        BY <1>7, <3>3
      <4>2. PICK j : j = f[k]
        OBVIOUS
      <4>3. j \in WornOf(inv) /\ WieldPos[inv[i].id] = WieldPos[inv[j].id]
        BY <3>1, <4>1, <4>2
      <4>4. i = j
        BY <1>1, <1>2, <3>2, <4>3, OneAtAPlace
      <4> QED BY <3>2, <4>1, <4>2, <4>4
    <3> QED BY <2>1, <2>2, <3>3
  <2>3. CASE ~\E i \in Bared(C) : WieldPos[inv[i].id] = p
    <3>1. shown'[p] = shown[p]
      BY <2>1, <2>3
    <3>2. CASE \E i \in WornOf(inv) : WieldPos[inv[i].id] = p /\ shown[p] = inv[i].id
      <4>1. PICK i \in WornOf(inv) : WieldPos[inv[i].id] = p /\ shown[p] = inv[i].id
        BY <3>2
      <4>2. i \in K
        BY <1>3, <1>9, <2>3, <4>1 DEF WornOf
      <4>3. PICK k \in DOMAIN m : f[k] = i
        BY <1>6, <4>2
      <4>4. m[k] = inv[i] /\ k \in WornOf(m)
        BY <1>5, <4>1, <4>3 DEF WornOf
      <4> QED BY <3>1, <4>1, <4>4
    <3>3. CASE shown[p] = Skin /\ \A i \in WornOf(inv) : WieldPos[inv[i].id] # p
      BY <1>7, <3>1, <3>3
    <3> QED BY <1>2, <3>2, <3>3 DEF Seen
  <2> QED BY <2>2, <2>3
<1>11. Seen(m, shown')
  BY <1>10 DEF Seen
<1>12. Counted(m, points')
  <2>1. PICK w : w = WornWeight
    OBVIOUS
  <2>2. w \in [Item -> Int] /\ \A x \in Item : w[x] = IF x.worn THEN Bonus[x.id] ELSE 0
    BY <2>1, WornWeightIs
  <2>3. PICK g : g = [i \in DOMAIN inv |-> w[inv[i]]]
    OBVIOUS
  <2>4. \A i \in DOMAIN inv : g[i] = w[inv[i]] /\ inv[i] \in Item
    BY <1>1, <2>3, ListFacts
  <2>5. Weigh(inv, w) = Weigh(m, w) + SumFunctionOnSet(g, C) /\ SumFunctionOnSet(g, C) \in Int /\ Weigh(m, w) \in Int
    BY <1>1, <2>2, <2>4, WeighWithout
  <2>6. PICK B, R : B = Bared(C) /\ R = C \ B
    OBVIOUS
  <2>7. B \in SUBSET C /\ IsFiniteSet(C) /\ IsFiniteSet(B) /\ IsFiniteSet(R)
    BY <1>1, <2>6, BaredFinite, ListFacts, FS_Subset, CountRest
  <2>8. \A i \in C : g[i] \in Int
    BY <2>2, <2>4
  <2>9. SumFunctionOnSet(g, C) = SumFunctionOnSet(g, B) + SumFunctionOnSet(g, R) /\ SumFunctionOnSet(g, B) \in Int
    BY <2>6, <2>7, <2>8, SumSplit
  <2>10. \A i \in R : g[i] = 0
    BY <1>9, <2>2, <2>4, <2>6 DEF WornOf
  <2>11. SumFunctionOnSet(g, R) = Cardinality(R) * 0 /\ Cardinality(R) \in Nat
    BY <2>7, <2>10, SumOfEqual, FS_CardinalityType
  <2>12. PICK h : h = [i \in B |-> Bonus[inv[i].id]]
    OBVIOUS
  <2>13. points' = points - SumFunctionOnSet(h, B)
    <3>1. points' = points - SumFunction(h) /\ DOMAIN h = B
      BY <2>6, <2>12 DEF Dequipped
    <3> QED BY <3>1 DEF SumFunction
  <2>14. \A i \in B : h[i] = g[i]
    BY <1>9, <2>2, <2>4, <2>6, <2>7, <2>12 DEF WornOf
  <2>15. SumFunctionOnSet(h, B) = SumFunctionOnSet(g, B)
    BY <2>7, <2>14, SumSame
  <2>16. points = Weigh(inv, w)
    BY <1>1, <1>2, <2>1, WornWeighs DEF Counted
  <2>17. points' = Weigh(m, w)
    BY <2>5, <2>9, <2>11, <2>13, <2>15, <2>16
  <2> QED BY <1>4, <2>1, <2>17, WornWeighs DEF Counted
<1> QED BY <1>8, <1>11, <1>12 DEF Dressed

LEMMA CarriedDressed ==
  ASSUME KitInv, Alike, Dressed(inv, shown, points), Carried
  PROVE  Dressed(inv', shown', points')
<1>1. PICK C \in SUBSET (DOMAIN inv) : Dequipped(C) /\ Extended(Without(inv, C), inv')
  BY DEF Carried
<1>2. PICK m : m = Without(inv, C)
  OBVIOUS
<1>3. inv \in Seq(Item)
  BY DEF KitInv, Lists
<1>4. m \in Seq(Item)
  BY <1>2, <1>3, WithoutKeeps
<1>5. Dressed(m, shown', points')
  BY <1>1, <1>2, DressedWithout
<1>6. Extended(m, inv')
  BY <1>1, <1>2
<1> QED BY <1>4, <1>5, <1>6, DressedExtended

(* Only what is worn changes, to the entries at W. *)
Changed(l, m, W) ==
  /\ l \in Seq(Item) /\ m \in Seq(Item) /\ DOMAIN m = DOMAIN l
  /\ \A j \in DOMAIN l : m[j].id = l[j].id
  /\ WornOf(m) = W /\ W \in SUBSET (DOMAIN l)

LEMMA ChangedSum ==
  ASSUME NEW l, NEW m, NEW W, Changed(l, m, W)
  PROVE  /\ SumFunctionOnSet(BonusAt(m), WornOf(m)) = SumFunctionOnSet(BonusAt(l), W) /\ IsFiniteSet(W)
         /\ \A j \in DOMAIN l : BonusAt(l)[j] = Bonus[l[j].id] /\ BonusAt(l)[j] \in Int
<1>1. l \in Seq(Item) /\ m \in Seq(Item) /\ DOMAIN m = DOMAIN l /\ WornOf(m) = W /\ W \in SUBSET (DOMAIN l)
  BY DEF Changed
<1>2. \A j \in DOMAIN l : BonusAt(l)[j] = Bonus[l[j].id] /\ BonusAt(l)[j] \in Int
  BY <1>1, WornFacts
<1>3. \A j \in DOMAIN m : BonusAt(m)[j] = Bonus[m[j].id]
  BY <1>1, WornFacts
<1>4. \A j \in W : BonusAt(m)[j] = BonusAt(l)[j]
  BY <1>1, <1>2, <1>3 DEF Changed
<1>5. IsFiniteSet(W)
  BY <1>1, ListFacts, FS_Subset
<1>6. SumFunctionOnSet(BonusAt(m), W) = SumFunctionOnSet(BonusAt(l), W)
  BY <1>4, <1>5, SumSame
<1> QED BY <1>1, <1>2, <1>5, <1>6

LEMMA UnequipDresses ==
  ASSUME KitInv, Alike, Dressed(inv, shown, points), Unequip
  PROVE  Dressed(inv', shown', points')
<1>1. PICK i \in DOMAIN inv : inv[i].worn /\ Dequipped({i}) /\ inv' = [inv EXCEPT ![i].worn = FALSE]
  BY DEF Unequip
<1>2. /\ inv \in Seq(Item) /\ \A k \in DOMAIN inv : inv[k].worn => Wieldable(inv[k].id)
  BY DEF KitInv, Lists
<1>3. Apart(inv) /\ Seen(inv, shown) /\ Counted(inv, points)
  BY DEF Dressed
<1>4. PICK W, S : W = WornOf(inv) /\ S = {i}
  OBVIOUS
<1>5. W \in SUBSET (DOMAIN inv) /\ IsFiniteSet(W) /\ i \in W /\ \A j \in W : BonusAt(inv)[j] \in Int
  BY <1>1, <1>2, <1>4, WornFacts DEF WornOf
<1>6. inv' \in Seq(Item) /\ DOMAIN inv' = DOMAIN inv
  BY <1>1, <1>2, UnequipKeeps DEF Kept, Lists
<1>7. ASSUME NEW j \in DOMAIN inv PROVE inv'[j].id = inv[j].id /\ (inv'[j].worn <=> inv[j].worn /\ j # i)
  <2>1. inv[j] \in Item
    BY <1>2, ListFacts
  <2>2. CASE j # i
    BY <1>1, <2>2
  <2>3. CASE j = i
    <3>1. inv'[j] = [inv[j] EXCEPT !.worn = FALSE]
      BY <1>1, <2>3
    <3> QED BY <2>1, <2>3, <3>1 DEF Item
  <2> QED BY <2>2, <2>3
<1>8. Changed(inv, inv', W \ {i})
  <2>1. WornOf(inv') = W \ {i}
    BY <1>4, <1>6, <1>7 DEF WornOf
  <2> QED BY <1>2, <1>5, <1>6, <1>7, <2>1 DEF Changed
<1>9. WornOf(inv') = W \ {i} /\ \A j \in W : inv'[j].id = inv[j].id
  BY <1>5, <1>7, <1>8 DEF Changed
<1>10. Apart(inv')
  BY <1>3, <1>4, <1>9 DEF Apart
<1>11. Bared(S) = S /\ S \in SUBSET (DOMAIN inv) /\ Dequipped(S)
  BY <1>1, <1>2, <1>4 DEF Bared
<1>12. ASSUME NEW p \in Places
       PROVE  \/ \E k \in WornOf(inv') : WieldPos[inv'[k].id] = p /\ shown'[p] = inv'[k].id
              \/ shown'[p] = Skin /\ \A k \in WornOf(inv') : WieldPos[inv'[k].id] # p
  <2>1. shown'[p] = IF \E k \in S : WieldPos[inv[k].id] = p THEN Skin ELSE shown[p]
    BY <1>11 DEF Dequipped
  <2>2. CASE WieldPos[inv[i].id] = p
    <3>1. shown'[p] = Skin
      BY <1>4, <2>1, <2>2
    <3>2. ASSUME NEW k \in W \ {i}, WieldPos[inv[k].id] = p PROVE FALSE
      <4>1. WieldPos[inv[k].id] = WieldPos[inv[i].id] /\ k \in WornOf(inv) /\ i \in WornOf(inv)
        BY <1>4, <1>5, <2>2, <3>2
      <4>2. k = i
        BY <1>2, <1>3, <4>1, OneAtAPlace
      <4> QED BY <3>2, <4>2
    <3> QED BY <1>9, <3>1, <3>2
  <2>3. CASE WieldPos[inv[i].id] # p
    <3>1. shown'[p] = shown[p]
      BY <1>4, <2>1, <2>3
    <3>2. \/ \E k \in W : WieldPos[inv[k].id] = p /\ shown[p] = inv[k].id
          \/ shown[p] = Skin /\ \A k \in W : WieldPos[inv[k].id] # p
      BY <1>3, <1>4 DEF Seen
    <3> QED BY <1>9, <2>3, <3>1, <3>2
  <2> QED BY <2>2, <2>3
<1>13. Counted(inv', points')
  <2>1. SumFunctionOnSet(BonusAt(inv'), WornOf(inv')) = SumFunctionOnSet(BonusAt(inv), W \ {i})
    BY <1>8, ChangedSum
  <2>2. /\ SumFunctionOnSet(BonusAt(inv), W) = BonusAt(inv)[i] + SumFunctionOnSet(BonusAt(inv), W \ {i})
        /\ SumFunctionOnSet(BonusAt(inv), W \ {i}) \in Int
    BY <1>5, SumOneMore
  <2>3. PICK h : h = [k \in S |-> Bonus[inv[k].id]]
    OBVIOUS
  <2>4. points' = points - SumFunctionOnSet(h, S)
    <3>1. points' = points - SumFunction(h) /\ DOMAIN h = S
      BY <1>11, <2>3 DEF Dequipped
    <3> QED BY <3>1 DEF SumFunction
  <2>5. IsFiniteSet(S) /\ i \in S /\ S \ {i} = {} /\ h[i] = BonusAt(inv)[i] /\ BonusAt(inv)[i] \in Int /\ \A k \in S : h[k] \in Int
    <3>1. IsFiniteSet(S) /\ i \in S /\ S \ {i} = {} /\ \A k \in S : k = i
      BY <1>4, FS_Singleton
    <3>2. h[i] = BonusAt(inv)[i] /\ BonusAt(inv)[i] \in Int
      BY <1>2, <2>3, <3>1, WornFacts
    <3> QED BY <3>1, <3>2
  <2>6. SumFunctionOnSet(h, S) = h[i] + SumFunctionOnSet(h, S \ {i})
    BY <2>5, SumOneMore
  <2>7. SumFunctionOnSet(h, S) = BonusAt(inv)[i] + 0
    BY <2>5, <2>6, SumOfNone
  <2>8. points = SumFunctionOnSet(BonusAt(inv), W)
    BY <1>3, <1>4 DEF Counted
  <2>9. points' = SumFunctionOnSet(BonusAt(inv), W \ {i})
    BY <2>2, <2>4, <2>5, <2>7, <2>8
  <2> QED BY <2>1, <2>9 DEF Counted
<1> QED BY <1>10, <1>12, <1>13 DEF Dressed, Seen

(* What is taken off to make room has, by Alike, the bonus of what is put on. *)
LEMMA EquipDresses ==
  ASSUME KitInv, Alike, Dressed(inv, shown, points), Equip
  PROVE  Dressed(inv', shown', points')
<1>1. PICK i \in DOMAIN inv : ~inv[i].worn /\ Wieldable(inv[i].id) /\ EquipItem(i)
  BY DEF Equip
<1>2. /\ inv \in Seq(Item) /\ \A k \in DOMAIN inv : inv[k].worn => Wieldable(inv[k].id)
  BY DEF KitInv, Lists
<1>3. Apart(inv) /\ Seen(inv, shown) /\ Counted(inv, points)
  BY DEF Dressed
<1>4. PICK W, R, V : W = WornOf(inv) /\ R = Replaced(i) /\ V = (W \ R) \cup {i}
  OBVIOUS
<1>5. W \in SUBSET (DOMAIN inv) /\ IsFiniteSet(W) /\ i \notin W /\ \A j \in DOMAIN inv : BonusAt(inv)[j] \in Int
  BY <1>1, <1>2, <1>4, WornFacts DEF WornOf
<1>6. \A j : j \in R <=> j \in W /\ WieldType[inv[j].id] \cap WieldType[inv[i].id] # {}
  BY <1>1, <1>4 DEF Replaced, WornOf
<1>7. inv' = [j \in DOMAIN inv |-> [inv[j] EXCEPT !.worn = (j = i) \/ (@ /\ j \notin R)]]
  BY <1>1, <1>4 DEF EquipItem
<1>8. inv' \in Seq(Item) /\ DOMAIN inv' = DOMAIN inv
  BY <1>7, EquipKeeps DEF Kept, Lists
<1>9. ASSUME NEW j \in DOMAIN inv PROVE inv'[j].id = inv[j].id /\ (inv'[j].worn <=> j \in V)
  <2>1. inv[j] \in Item
    BY <1>2, ListFacts
  <2>2. PICK w \in BOOLEAN : w = ((j = i) \/ (inv[j].worn /\ j \notin R))
    OBVIOUS
  <2>3. inv'[j] = [inv[j] EXCEPT !.worn = w]
    BY <1>7, <2>2
  <2>4. inv'[j].id = inv[j].id /\ inv'[j].worn = w
    BY <2>1, <2>3 DEF Item
  <2>5. w <=> j \in V
    BY <1>4, <2>2 DEF WornOf
  <2> QED BY <2>4, <2>5
<1>10. V \in SUBSET (DOMAIN inv) /\ WornOf(inv') = V
  <2>1. V \in SUBSET (DOMAIN inv)
    BY <1>4, <1>5
  <2> QED BY <1>8, <1>9, <2>1 DEF WornOf
<1>11. Changed(inv, inv', V)
  BY <1>2, <1>8, <1>9, <1>10 DEF Changed
<1>12. \A j \in V : inv'[j].id = inv[j].id /\ (j = i \/ (j \in W /\ j \notin R))
  BY <1>4, <1>9, <1>10
<1>13. Apart(inv')
  <2>1. ASSUME NEW j \in V, NEW k \in V, j # k PROVE WieldType[inv[j].id] \cap WieldType[inv[k].id] = {}
    <3>1. CASE j = i
      BY <1>6, <1>12, <2>1, <3>1
    <3>2. CASE k = i
      BY <1>6, <1>12, <2>1, <3>2
    <3>3. CASE j # i /\ k # i
      BY <1>3, <1>4, <1>12, <2>1, <3>3 DEF Apart
    <3> QED BY <3>1, <3>2, <3>3
  <2> QED BY <1>10, <1>12, <2>1 DEF Apart
<1>14. ASSUME NEW p \in Places
       PROVE  \/ \E k \in V : WieldPos[inv[k].id] = p /\ shown'[p] = inv[k].id
              \/ shown'[p] = Skin /\ \A k \in V : WieldPos[inv[k].id] # p
  <2>1. shown'[p] = IF p = WieldPos[inv[i].id] THEN inv[i].id
                    ELSE IF \E j \in R : WieldPos[inv[j].id] = p THEN Skin ELSE shown[p]
    BY <1>1, <1>4 DEF EquipItem
  <2>2. CASE p = WieldPos[inv[i].id]
    BY <1>4, <2>1, <2>2
  <2>3. CASE p # WieldPos[inv[i].id] /\ \E j \in R : WieldPos[inv[j].id] = p
    <3>1. PICK j \in R : WieldPos[inv[j].id] = p
      BY <2>3
    <3>2. ASSUME NEW k \in V, WieldPos[inv[k].id] = p PROVE FALSE
      <4>1. k \in W /\ k \notin R /\ j \in W
        BY <1>6, <1>12, <2>3, <3>1, <3>2
      <4>2. k \in WornOf(inv) /\ j \in WornOf(inv) /\ WieldPos[inv[k].id] = WieldPos[inv[j].id]
        BY <1>4, <3>1, <3>2, <4>1
      <4>3. k = j
        BY <1>2, <1>3, <4>2, OneAtAPlace
      <4> QED BY <3>1, <4>1, <4>3
    <3> QED BY <2>1, <2>3, <3>2
  <2>4. CASE p # WieldPos[inv[i].id] /\ ~\E j \in R : WieldPos[inv[j].id] = p
    <3>1. shown'[p] = shown[p]
      BY <2>1, <2>4
    <3>2. \/ \E k \in W : WieldPos[inv[k].id] = p /\ shown[p] = inv[k].id
          \/ shown[p] = Skin /\ \A k \in W : WieldPos[inv[k].id] # p
      BY <1>3, <1>4 DEF Seen
    <3> QED BY <1>4, <2>4, <3>1, <3>2
  <2> QED BY <2>2, <2>3, <2>4
<1>15. Seen(inv', shown')
  BY <1>10, <1>12, <1>14 DEF Seen
<1>16. Counted(inv', points')
  <2>1. SumFunctionOnSet(BonusAt(inv'), WornOf(inv')) = SumFunctionOnSet(BonusAt(inv), V)
    BY <1>11, ChangedSum
  <2>2. R \in SUBSET W /\ IsFiniteSet(R) /\ Cardinality(R) \in Nat /\ IsFiniteSet(V) /\ i \in V /\ V \ {i} = W \ R
    <3>1. R \in SUBSET W
      BY <1>6
    <3>2. IsFiniteSet(R) /\ Cardinality(R) \in Nat
      BY <1>5, <3>1, FS_Subset, FS_CardinalityType
    <3>3. IsFiniteSet(V)
      BY <1>2, <1>10, ListFacts, FS_Subset
    <3> QED BY <1>4, <1>5, <3>1, <3>2, <3>3
  <2>3. PICK b \in Int : b = Bonus[inv[i].id]
    <3>1. inv[i].id \in Id
      BY <1>2, ListFacts
    <3> QED BY <3>1, KitAssumption
  <2>4. \A j \in R : BonusAt(inv)[j] = b
    <3>1. ASSUME NEW j \in R PROVE BonusAt(inv)[j] = b
      <4>1. j \in DOMAIN inv /\ inv[j].worn /\ WieldType[inv[j].id] \cap WieldType[inv[i].id] # {}
        BY <1>4, <1>5, <1>6 DEF WornOf
      <4>2. inv[j].id \in Id /\ inv[i].id \in Id /\ Wieldable(inv[j].id) /\ Wieldable(inv[i].id)
        BY <1>1, <1>2, <4>1, ListFacts
      <4>3. Bonus[inv[j].id] = Bonus[inv[i].id]
        BY <4>1, <4>2 DEF Alike
      <4> QED BY <1>2, <2>3, <4>1, <4>3, WornFacts
    <3> QED BY <3>1
  <2>5. \A j \in W : BonusAt(inv)[j] \in Int
    BY <1>5
  <2>6. /\ SumFunctionOnSet(BonusAt(inv), W) = SumFunctionOnSet(BonusAt(inv), R) + SumFunctionOnSet(BonusAt(inv), W \ R)
        /\ SumFunctionOnSet(BonusAt(inv), W \ R) \in Int
    BY <1>5, <2>2, <2>5, SumSplit
  <2>7. SumFunctionOnSet(BonusAt(inv), R) = Cardinality(R) * b
    BY <2>2, <2>3, <2>4, SumOfEqual
  <2>8. \A j \in V : BonusAt(inv)[j] \in Int
    BY <1>5, <1>10
  <2>9. SumFunctionOnSet(BonusAt(inv), V) = BonusAt(inv)[i] + SumFunctionOnSet(BonusAt(inv), V \ {i})
    BY <2>2, <2>8, SumOneMore
  <2>10. BonusAt(inv)[i] = b
    BY <1>2, <2>3, WornFacts
  <2>11. points = SumFunctionOnSet(BonusAt(inv), W)
    BY <1>3, <1>4 DEF Counted
  <2>12. points' = points + b * (1 - Cardinality(R))
    BY <1>1, <1>4, <2>3 DEF EquipItem
  <2>13. PICK c, s : c = Cardinality(R) /\ s = SumFunctionOnSet(BonusAt(inv), W \ R)
    OBVIOUS
  <2>14. c \in Int /\ s \in Int /\ points = c * b + s /\ points' = points + b * (1 - c)
    BY <2>2, <2>6, <2>7, <2>11, <2>12, <2>13
  <2>15. points' = b + s
    <3>1. b \in Int /\ c \in Int
      BY <2>3, <2>14
    <3>2. b * (1 - c) = b - c * b
      BY ONLY <3>1
    <3>3. PICK d \in Int : d = c * b
      BY <3>1
    <3>4. points = d + s /\ points' = points + (b - d)
      BY <2>14, <3>2, <3>3
    <3> QED BY <2>14, <3>1, <3>3, <3>4
  <2>16. SumFunctionOnSet(BonusAt(inv), V) = b + s
    BY <2>2, <2>9, <2>10, <2>13
  <2> QED BY <2>1, <2>15, <2>16 DEF Counted
<1> QED BY <1>13, <1>15, <1>16 DEF Dressed

LEMMA KitInitDressed ==
  ASSUME KitInit
  PROVE  Dressed(inv, shown, points)
<1>1. KitInv /\ inv = FirstItems /\ points = 0 /\ shown = [p \in Places |-> Skin]
  BY KitInitInv DEF KitInit
<1>2. WornOf(inv) = {}
  <2>1. PICK R : R = [id : Id, amount : Nat, worn : {FALSE}]
    OBVIOUS
  <2>2. inv \in Seq(R) /\ \A x \in R : x.worn = FALSE
    BY <1>1, <2>1, KitAssumption
  <2>3. \A i \in DOMAIN inv : inv[i] \in R
    BY <2>2, ElementOfSeq
  <2> QED BY <2>2, <2>3 DEF WornOf
<1>3. Apart(inv) /\ Seen(inv, shown)
  BY <1>1, <1>2 DEF Apart, Seen
<1>4. Counted(inv, points)
  BY <1>1, <1>2, SumOfNone DEF Counted
<1> QED BY <1>3, <1>4 DEF Dressed

LEMMA KitStepDressed ==
  ASSUME KitInv, OneByOne, Alike, Dressed(inv, shown, points), [KitNext]_kitVars
  PROVE  Dressed(inv', shown', points')
<1>1. CASE Equip
  BY <1>1, EquipDresses
<1>2. CASE Unequip
  BY <1>2, UnequipDresses
<1>3. CASE DropPacket \/ OpenBank \/ CloseBank \/ UseItem \/ FindUsed
  BY <1>3, QuietKeeps, CarriedDressed
<1>4. CASE DropAction
  BY <1>4, DropKeeps, CarriedDressed
<1>5. CASE PickupAction
  BY <1>5, PickupKeeps, CarriedDressed
<1>6. CASE AddItem
  BY <1>6, AddItemKeeps, CarriedDressed
<1>7. CASE Deposit
  BY <1>7, DepositKeeps, CarriedDressed
<1>8. CASE Withdraw
  BY <1>8, WithdrawKeeps, CarriedDressed
<1>9. CASE DeleteUsed
  BY <1>9, DeleteUsedKeeps, CarriedDressed
<1>10. CASE CastBonesToBananas
  BY <1>10, CastKeeps, CarriedDressed
<1>11. CASE Killed
  BY <1>11, KilledKeeps, CarriedDressed
<1>12. CASE UNCHANGED kitVars
  <2>1. inv' = inv /\ shown' = shown /\ points' = points
    BY <1>12 DEF kitVars
  <2> QED BY <2>1
<1> QED BY <1>1, <1>2, <1>3, <1>4, <1>5, <1>6, <1>7, <1>8, <1>9, <1>10, <1>11, <1>12 DEF KitNext

LEMMA DressedShows ==
  ASSUME KitInv, Dressed(inv, shown, points)
  PROVE  WornIsShown
<1>1. Worn = WornOf(inv) /\ inv \in Seq(Item) /\ Apart(inv) /\ Seen(inv, shown) /\ Counted(inv, points)
  BY DEF Worn, WornOf, KitInv, Lists, Dressed
<1>2. \A i, j \in Worn : i # j => WieldType[inv[i].id] \cap WieldType[inv[j].id] = {}
  BY <1>1 DEF Apart
<1>3. ASSUME NEW p \in Places, NEW on, on = {inv[i].id : i \in {j \in Worn : WieldPos[inv[j].id] = p}}
      PROVE  IF on = {} THEN shown[p] = Skin ELSE shown[p] \in on
  <2>1. \A x : x \in on <=> \E i \in WornOf(inv) : WieldPos[inv[i].id] = p /\ x = inv[i].id
    BY <1>1, <1>3
  <2>2. \/ \E i \in WornOf(inv) : WieldPos[inv[i].id] = p /\ shown[p] = inv[i].id
        \/ shown[p] = Skin /\ \A i \in WornOf(inv) : WieldPos[inv[i].id] # p
    BY <1>1 DEF Seen
  <2> QED BY <2>1, <2>2
<1>4. points = SumFunction([i \in Worn |-> Bonus[inv[i].id]])
  <2>1. PICK W, f : W = Worn /\ f = [i \in W |-> Bonus[inv[i].id]]
    OBVIOUS
  <2>2. W \in SUBSET (DOMAIN inv) /\ IsFiniteSet(W) /\ \A i \in DOMAIN inv : BonusAt(inv)[i] = Bonus[inv[i].id]
    BY <1>1, <2>1, WornFacts
  <2>3. \A i \in W : f[i] = BonusAt(inv)[i]
    BY <2>1, <2>2
  <2>4. SumFunctionOnSet(f, W) = SumFunctionOnSet(BonusAt(inv), W)
    BY <2>2, <2>3, SumSame
  <2>5. SumFunction(f) = SumFunctionOnSet(f, W)
    BY <2>1 DEF SumFunction
  <2>6. points = SumFunction(f)
    BY <1>1, <2>1, <2>4, <2>5 DEF Counted
  <2> QED BY <2>1, <2>6
<1> QED BY <1>2, <1>3, <1>4 DEF WornIsShown

(* Where items shown at one place cover a common part, and items that do have one
   bonus, what others see of the player and what its points count is what it wears. *)
THEOREM KitWornIsShown == OneByOne /\ Alike => (KitSpec => []WornIsShown)
<1> SUFFICES ASSUME OneByOne, Alike PROVE KitSpec => []WornIsShown
  OBVIOUS
<1>1. KitInit => KitInv /\ Dressed(inv, shown, points)
  BY KitInitInv, KitInitDressed
<1>2. KitInv /\ Dressed(inv, shown, points) /\ [KitNext]_kitVars => KitInv' /\ Dressed(inv, shown, points)'
  BY KitStepInv, KitStepDressed
<1>3. KitInv /\ Dressed(inv, shown, points) => WornIsShown
  BY DressedShows
<1> QED BY <1>1, <1>2, <1>3, PTL DEF KitSpec

-----------------------------------------------------------------------------
(* Death. *)

(* As many entries of an id are left as were spared, if not the same ones. *)
LEMMA LeftIsSpared ==
  ASSUME inv \in Seq(Item), NEW dropped \in SUBSET (DOMAIN inv), NEW id \in Id
  PROVE  (\E j \in IndicesOf(inv, id) : j \notin Gone(dropped)) <=> (\E j \in IndicesOf(inv, id) : j \notin dropped)
<1>1. PICK I, D, n : I = IndicesOf(inv, id) /\ D = {i \in dropped : inv[i].id = id} /\ n = LostOf(id, dropped)
  OBVIOUS
<1>2. I \in SUBSET Int /\ IsFiniteSet(I) /\ Cardinality(I) \in Nat
  BY <1>1, IndicesFinite
<1>3. D \in SUBSET I /\ n = Cardinality(D) /\ \A j \in I : j \in D <=> j \in dropped
  BY <1>1 DEF IndicesOf, LostOf
<1>4. IsFiniteSet(D) /\ n \in Nat /\ n <= Cardinality(I) /\ Cardinality(I \ D) = Cardinality(I) - n /\ IsFiniteSet(I \ D)
  <2>1. /\ IsFiniteSet(I \ D) /\ IsFiniteSet(D) /\ Cardinality(I \ D) \in Nat /\ Cardinality(D) \in Nat
        /\ Cardinality(I \ D) = Cardinality(I) - Cardinality(D)
    BY <1>2, <1>3, CountRest
  <2> QED BY <1>2, <1>3, <2>1
<1>5. PICK L : L = LastOf(I, n)
  OBVIOUS
<1>6. L \in SUBSET I /\ IsFiniteSet(L) /\ Cardinality(L) = n
  BY <1>2, <1>4, <1>5, LastOfCount
<1>7. IsFiniteSet(I \ L) /\ Cardinality(I \ L) = Cardinality(I) - n
  BY <1>2, <1>6, CountRest
<1>8. \A j \in I : j \in Gone(dropped) <=> j \in L
  <2>1. ASSUME NEW j \in I PROVE j \in Gone(dropped) <=> j \in L
    <3>1. inv[j].id = id /\ j \in DOMAIN inv
      BY <1>1 DEF IndicesOf
    <3>2. j \in Gone(dropped) <=> \E k \in Id : j \in LastOf(IndicesOf(inv, k), LostOf(k, dropped))
      BY DEF Gone, IndicesOf
    <3>3. \A k \in Id : j \in LastOf(IndicesOf(inv, k), LostOf(k, dropped)) => k = id
      BY <3>1 DEF LastOf, IndicesOf
    <3> QED BY <1>1, <1>5, <3>2, <3>3
  <2> QED BY <2>1
<1>9. I \ L = {} <=> I \ D = {}
  <2>1. (I \ L = {} <=> Cardinality(I \ L) = 0) /\ (I \ D = {} <=> Cardinality(I \ D) = 0)
    BY <1>4, <1>7, FS_EmptySet
  <2> QED BY <1>4, <1>7, <2>1
<1> QED BY <1>1, <1>3, <1>8, <1>9

LEMMA DeathSparesDearest ==
  ASSUME KitInv, Killed, NEW i \in DOMAIN inv, inv[i].id \notin StackableId,
         \A k \in DOMAIN inv' : inv'[k].id # inv[i].id, NEW k \in DOMAIN inv'
  PROVE  inv'[k].id \notin StackableId /\ Price[inv'[k].id] >= Price[inv[i].id]
<1>1. inv \in Seq(Item) /\ \A j \in DOMAIN inv : inv[j].id \in Id
  BY ListFacts DEF KitInv, Lists
<1>2. PICK keep \in Nat : \E p \in Sorted(inv) : inv' = Without(inv, Gone(DOMAIN inv \ Spared(p, keep)))
  <2>1. PICK skulled \in BOOLEAN : \E p \in Sorted(inv) :
          inv' = Without(inv, Gone(DOMAIN inv \ Spared(p, IF skulled THEN 0 ELSE KeptOnDeath)))
    BY DEF Killed
  <2>2. PICK n : n = IF skulled THEN 0 ELSE KeptOnDeath
    OBVIOUS
  <2>3. n \in Nat
    BY <2>2, KitAssumption
  <2>4. \E p \in Sorted(inv) : inv' = Without(inv, Gone(DOMAIN inv \ Spared(p, n)))
    BY <2>1, <2>2
  <2> QED BY <2>3, <2>4
<1>3. PICK p \in Sorted(inv) : inv' = Without(inv, Gone(DOMAIN inv \ Spared(p, keep)))
  BY <1>2
<1>4. PICK dropped : dropped = DOMAIN inv \ Spared(p, keep)
  OBVIOUS
<1>5. PICK C : C = Gone(dropped)
  OBVIOUS
<1>6. dropped \in SUBSET (DOMAIN inv) /\ inv' = Without(inv, C)
  BY <1>3, <1>4, <1>5
<1>7. C \in SUBSET (DOMAIN inv)
  BY <1>5 DEF Gone, LastOf
<1>8. /\ p \in [DOMAIN inv -> DOMAIN inv] /\ \A j \in DOMAIN inv : \E q \in DOMAIN inv : p[q] = j
      /\ \A a, b \in DOMAIN inv : a < b => ~Less(inv[p[b]], inv[p[a]])
  BY DEF Sorted, Orders, Bijection, Injection, Surjection
<1>9. PICK j \in (DOMAIN inv) \ C : inv'[k] = inv[j]
  BY <1>1, <1>6, <1>7, WithoutKeeps
<1>10. \A j2 \in (DOMAIN inv) \ C : inv[j2].id # inv[i].id
  BY <1>1, <1>6, <1>7, WithoutKeeps
<1>11. \A j2 \in IndicesOf(inv, inv[i].id) : j2 \in dropped
  <2>1. \A j2 \in IndicesOf(inv, inv[i].id) : j2 \in Gone(dropped)
    BY <1>5, <1>10 DEF IndicesOf
  <2> QED BY <1>1, <1>6, <2>1, LeftIsSpared
<1>12. i \notin Spared(p, keep)
  BY <1>4, <1>11 DEF IndicesOf
<1>13. PICK s \in IndicesOf(inv, inv[j].id) : s \notin dropped
  <2>1. \E j2 \in IndicesOf(inv, inv[j].id) : j2 \notin Gone(dropped)
    BY <1>5, <1>9 DEF IndicesOf
  <2>2. inv[j].id \in Id
    BY <1>1, <1>9
  <2> QED BY <1>1, <1>6, <2>1, <2>2, LeftIsSpared
<1>14. s \in DOMAIN inv /\ inv[s].id = inv[j].id /\ s \in Spared(p, keep)
  BY <1>4, <1>13 DEF IndicesOf
<1>15. PICK q \in DOMAIN inv : p[q] = i
  BY <1>8
<1>16. PICK r \in DOMAIN inv : p[r] = s /\ r <= keep /\ inv[p[r]].id \notin StackableId
  BY <1>8, <1>14 DEF Spared
<1>17. ~(q <= keep)
  BY <1>8, <1>12, <1>15 DEF Spared
<1>18. r < q
  BY <1>1, <1>2, <1>15, <1>16, <1>17, ListFacts
<1>19. ~Less(inv[i], inv[s])
  BY <1>8, <1>15, <1>16, <1>18
<1>20. inv[s].id \notin StackableId /\ inv[s].id \in Id /\ inv[i].id \in Id
  BY <1>1, <1>14, <1>16
<1>21. Price[inv[s].id] >= Price[inv[i].id]
  BY <1>19, <1>20, KitAssumption DEF Less
<1> QED BY <1>9, <1>14, <1>20, <1>21

(* A death is told from other steps by what it puts into the world and by the
   shorter inventory. *)
LEMMA KitStepSparesDearest ==
  ASSUME KitInv, OneByOne, KitNext, made' = made + 1, Len(inv') < Len(inv)
  PROVE  Killed
<1>1. inv \in Seq(Item) /\ Len(inv) \in Nat /\ made \in Nat
  BY ListFacts, KitAssumption DEF KitInv, Lists, Books
<1>2. CASE AddItem
  <2>1. Extended(inv, inv')
    BY <1>2, AddItemKeeps
  <2>2. inv' \in Seq(Item) /\ DOMAIN inv \subseteq DOMAIN inv'
    BY <2>1 DEF Extended
  <2>3. Len(inv') \in Nat /\ 1..Len(inv) \subseteq 1..Len(inv')
    BY <1>1, <2>2, ListFacts
  <2>4. Len(inv) <= Len(inv')
    BY <1>1, <2>3
  <2> QED BY <1>1, <2>3, <2>4
<1>3. CASE CastBonesToBananas
  <2>1. Len(inv') = Len(inv)
    BY <1>3, CastKeeps
  <2> QED BY <1>1, <2>1
<1>4. CASE Equip \/ Unequip \/ DropPacket \/ DropAction \/ PickupAction \/ OpenBank \/ CloseBank \/ Deposit
           \/ Withdraw \/ UseItem \/ FindUsed \/ DeleteUsed
  <2>1. made' = made
    BY <1>4 DEF Equip, Unequip, DropPacket, DropAction, PickupAction, OpenBank, CloseBank, Deposit, Withdraw,
                UseItem, FindUsed, DeleteUsed, ledger
  <2> QED BY <1>1, <2>1
<1> QED BY <1>2, <1>3, <1>4 DEF KitNext

(* A death never takes an unstackable item and leaves a cheaper one. *)
THEOREM KitDearestStay == OneByOne => (KitSpec => DearestStay)
<1> SUFFICES ASSUME OneByOne PROVE KitSpec => DearestStay
  OBVIOUS
<1>1. ASSUME KitInv, [KitNext]_kitVars
      PROVE  [made' = made + 1 /\ Len(inv') < Len(inv) /\ minted'[DefaultDrop] = minted[DefaultDrop] + 1 =>
                \A i \in DOMAIN inv : inv[i].id \notin StackableId =>
                  \/ \E k \in DOMAIN inv' : inv'[k].id = inv[i].id
                  \/ \A k \in DOMAIN inv' :
                       inv'[k].id \notin StackableId /\ Price[inv'[k].id] >= Price[inv[i].id]]_kitVars
  <2>1. ASSUME KitNext, made' = made + 1, Len(inv') < Len(inv), NEW i \in DOMAIN inv, inv[i].id \notin StackableId,
               \A k \in DOMAIN inv' : inv'[k].id # inv[i].id, NEW k \in DOMAIN inv'
        PROVE  inv'[k].id \notin StackableId /\ Price[inv'[k].id] >= Price[inv[i].id]
    BY <1>1, <2>1, KitStepSparesDearest, DeathSparesDearest
  <2> QED BY <1>1, <2>1
<1>2. KitSpec => []KitInv
  BY KitInvariant
<1> QED BY <1>1, <1>2, PTL DEF KitSpec, DearestStay
=============================================================================
