-------------------------------- MODULE Sums --------------------------------
(***************************************************************************)
(* Sums over finite sets: what SumFunction and SumFunctionOnSet of the     *)
(* community modules are, one summand at a time.                           *)
(*                                                                         *)
(* The sum is defined by recursion over subsets.  Facts about it are       *)
(* proved by induction over finite sets, for a collection of the sets for  *)
(* which the fact holds instead of a predicate: a library theorem about a  *)
(* predicate could not be applied by the provers.                          *)
(***************************************************************************)
EXTENDS Integers, Sequences, FiniteSetTheorems, WellFoundedInduction, TLAPS

(* A collection has every subset of S if it has each one whose proper      *)
(* subsets it has.                                                         *)
LEMMA SubsetInduction ==
  ASSUME NEW S, IsFiniteSet(S), NEW G,
         \A T \in SUBSET S : (\A U \in SUBSET T : U # T => U \in G) => T \in G
  PROVE  SUBSET S \subseteq G
  <1>. DEFINE Bad == (SUBSET S) \ G
  <1>1. SUFFICES ASSUME Bad # {} PROVE FALSE
    OBVIOUS
  <1>2. Bad \subseteq FiniteSubsetsOf(S)
    BY FS_FiniteSubsetsOfFinite
  <1>3. PICK m \in Bad : \A y \in Bad : ~(<<y, m>> \in StrictSubsetOrdering(S))
    <2>. HIDE DEF Bad
    <2>. QED  BY <1>1, <1>2, FS_StrictSubsetOrderingWellFounded, WFMin
  <1>4. ASSUME NEW U \in SUBSET m, U # m PROVE U \in G
    <2>1. U \in SUBSET S /\ m \in SUBSET S
      BY <1>3
    <2>2. <<U, m>> \in StrictSubsetOrdering(S)
      BY <1>4, <2>1 DEF StrictSubsetOrdering
    <2>. QED  BY <1>3, <2>1, <2>2
  <1>. QED  BY <1>3, <1>4

(* A collection with the empty set, closed under adding elements of S, has S. *)
LEMMA FiniteInduction ==
  ASSUME NEW S, IsFiniteSet(S), NEW G,
         {} \in G,
         \A T \in SUBSET S : \A x \in S \ T : T \in G => T \cup {x} \in G
  PROVE  S \in G
  <1>1. ASSUME NEW T \in SUBSET S, \A U \in SUBSET T : U # T => U \in G
        PROVE  T \in G
    <2>1. CASE T = {}
      BY <2>1
    <2>2. ASSUME NEW x \in T PROVE T \in G
      <3>1. T \ {x} \in G
        BY <1>1
      <3>2. (T \ {x}) \cup {x} = T /\ T \ {x} \in SUBSET S /\ x \in S \ (T \ {x})
        OBVIOUS
      <3>. QED  BY <3>1, <3>2
    <2>. QED  BY <2>1, <2>2
  <1>. QED  BY <1>1, SubsetInduction

-----------------------------------------------------------------------------
(* The recursion.                                                          *)

Some(s) == CHOOSE x \in s : TRUE

(* `it' adds up f over every subset of S. *)
AddsUp(it, f, S) ==
    it = [s \in SUBSET S |-> IF s = {} THEN 0 ELSE f[Some(s)] + it[s \ {Some(s)}]]

LEMMA SumIs ==
  ASSUME NEW f, NEW S
  PROVE  SumFunctionOnSet(f, S) = (CHOOSE it : AddsUp(it, f, S))[S]
  BY DEF SumFunctionOnSet, FoldFunctionOnSet, MapThenFoldSet, AddsUp, Some

LEMMA SomeIn ==
  ASSUME NEW s, s # {}
  PROVE  Some(s) \in s /\ s \ {Some(s)} # s
  <1>1. Some(s) \in s
    BY DEF Some
  <1>. QED  BY <1>1

LEMMA AddsUpIs ==
  ASSUME NEW it, NEW f, NEW S, AddsUp(it, f, S), NEW s \in SUBSET S
  PROVE  it[s] = IF s = {} THEN 0 ELSE f[Some(s)] + it[s \ {Some(s)}]
  BY Zenon DEF AddsUp

(* There is only one way to add up. *)
LEMMA AddsUpOnce ==
  ASSUME NEW f, NEW S, NEW T, NEW U, IsFiniteSet(U), U \subseteq S, U \subseteq T,
         NEW a, AddsUp(a, f, S), NEW b, AddsUp(b, f, T)
  PROVE  a[U] = b[U]
  <1>. DEFINE G == {s \in SUBSET U : a[s] = b[s]}
  <1>1. ASSUME NEW s \in SUBSET U, \A t \in SUBSET s : t # s => t \in G
        PROVE  s \in G
    <2>1. a[s] = IF s = {} THEN 0 ELSE f[Some(s)] + a[s \ {Some(s)}]
      BY AddsUpIs
    <2>2. b[s] = IF s = {} THEN 0 ELSE f[Some(s)] + b[s \ {Some(s)}]
      BY AddsUpIs
    <2>3. s # {} => a[s \ {Some(s)}] = b[s \ {Some(s)}]
      <3>1. s # {} => s \ {Some(s)} \in SUBSET s /\ s \ {Some(s)} # s
        BY SomeIn
      <3>. QED  BY <3>1, <1>1
    <2>. QED  BY <2>1, <2>2, <2>3
  <1>2. SUBSET U \subseteq G
    <2>. HIDE DEF G
    <2>. QED  BY <1>1, SubsetInduction
  <1>. QED  BY <1>2

(* There is a way to add up. *)
LEMMA AddsUpSomehow ==
  ASSUME NEW f, NEW S, IsFiniteSet(S)
  PROVE  \E it : AddsUp(it, f, S)
  <1>. DEFINE G == {s \in SUBSET S : \E it : AddsUp(it, f, s)}
              Of(s) == (CHOOSE it : AddsUp(it, f, s))[s]
  <1>1. ASSUME NEW s \in SUBSET S, \A t \in SUBSET s : t # s => t \in G
        PROVE  s \in G
    <2>. DEFINE it == [u \in SUBSET s |-> IF u = {} THEN 0 ELSE f[Some(u)] + Of(u \ {Some(u)})]
    <2>1. ASSUME NEW u \in SUBSET s, u # s PROVE it[u] = Of(u)
      <3>. DEFINE a == CHOOSE i : AddsUp(i, f, u)
      <3>1. AddsUp(a, f, u)
        BY <1>1, <2>1
      <3>. HIDE DEF a
      <3>2. a[u] = IF u = {} THEN 0 ELSE f[Some(u)] + a[u \ {Some(u)}]
        BY <3>1, AddsUpIs
      <3>3. u # {} => a[u \ {Some(u)}] = Of(u \ {Some(u)})
        <4>. SUFFICES ASSUME u # {} PROVE a[u \ {Some(u)}] = Of(u \ {Some(u)})
          OBVIOUS
        <4>. DEFINE v == u \ {Some(u)}
                    b == CHOOSE i : AddsUp(i, f, v)
        <4>1. v \in SUBSET s /\ v # s /\ v \subseteq u
          BY SomeIn
        <4>2. AddsUp(b, f, v)
          BY <1>1, <4>1
        <4>3. IsFiniteSet(v)
          BY <4>1, FS_Subset
        <4>. HIDE DEF b, v
        <4>4. a[v] = b[v]
          BY <3>1, <4>1, <4>2, <4>3, AddsUpOnce
        <4>. QED  BY <4>4 DEF v, b
      <3>4. Of(u) = a[u]
        BY DEF a
      <3>. QED  BY <3>2, <3>3, <3>4
    <2>2. ASSUME NEW u \in SUBSET s, u # {}
          PROVE  it[u \ {Some(u)}] = Of(u \ {Some(u)})
      BY <2>1, <2>2, SomeIn
    <2>3. ASSUME NEW u \in SUBSET s
          PROVE  it[u] = IF u = {} THEN 0 ELSE f[Some(u)] + it[u \ {Some(u)}]
      <3>1. it[u] = IF u = {} THEN 0 ELSE f[Some(u)] + Of(u \ {Some(u)})
        BY Zenon
      <3>2. u # {} => it[u \ {Some(u)}] = Of(u \ {Some(u)})
        BY <2>2
      <3>. HIDE DEF it, Of
      <3>. QED  BY <3>1, <3>2, Zenon
    <2>4. it = [u \in SUBSET s |-> it[u]]
      OBVIOUS
    <2>. HIDE DEF it
    <2>5. [u \in SUBSET s |-> it[u]]
            = [u \in SUBSET s |-> IF u = {} THEN 0 ELSE f[Some(u)] + it[u \ {Some(u)}]]
      BY <2>3
    <2>6. AddsUp(it, f, s)
      BY <2>4, <2>5 DEF AddsUp
    <2>. QED  BY <2>6
  <1>2. SUBSET S \subseteq G
    <2>. HIDE DEF G
    <2>. QED  BY <1>1, SubsetInduction
  <1>. QED  BY <1>2

LEMMA SumAddsUp ==
  ASSUME NEW f, NEW S, IsFiniteSet(S), NEW it, AddsUp(it, f, S)
  PROVE  \A s \in SUBSET S : SumFunctionOnSet(f, s) = it[s]
  <1>1. ASSUME NEW s \in SUBSET S PROVE SumFunctionOnSet(f, s) = it[s]
    <2>. DEFINE b == CHOOSE i : AddsUp(i, f, s)
    <2>1. IsFiniteSet(s)
      BY FS_Subset
    <2>2. AddsUp(b, f, s)
      BY <2>1, AddsUpSomehow
    <2>3. SumFunctionOnSet(f, s) = b[s]
      BY SumIs
    <2>. HIDE DEF b
    <2>4. b[s] = it[s]
      BY <2>1, <2>2, AddsUpOnce
    <2>. QED  BY <2>3, <2>4
  <1>. QED  BY <1>1

LEMMA SumRecursion ==
  ASSUME NEW f, NEW S, IsFiniteSet(S)
  PROVE  SumFunctionOnSet(f, S)
           = IF S = {} THEN 0 ELSE f[Some(S)] + SumFunctionOnSet(f, S \ {Some(S)})
  <1>1. PICK it : AddsUp(it, f, S)
    BY AddsUpSomehow
  <1>2. it[S] = IF S = {} THEN 0 ELSE f[Some(S)] + it[S \ {Some(S)}]
    BY <1>1, AddsUpIs
  <1>3. SumFunctionOnSet(f, S) = it[S]
        /\ SumFunctionOnSet(f, S \ {Some(S)}) = it[S \ {Some(S)}]
    BY <1>1, SumAddsUp
  <1>. QED  BY <1>2, <1>3

-----------------------------------------------------------------------------
(* One summand at a time.                                                  *)

LEMMA SumEmpty ==
  ASSUME NEW f
  PROVE  SumFunctionOnSet(f, {}) = 0
  BY FS_EmptySet, SumRecursion

LEMMA SumInt ==
  ASSUME NEW S, IsFiniteSet(S), NEW f, \A x \in S : f[x] \in Int
  PROVE  SumFunctionOnSet(f, S) \in Int
  <1>. DEFINE G == {s \in SUBSET S : SumFunctionOnSet(f, s) \in Int}
  <1>1. ASSUME NEW s \in SUBSET S, \A t \in SUBSET s : t # s => t \in G
        PROVE  s \in G
    <2>1. IsFiniteSet(s)
      BY FS_Subset
    <2>2. s # {} => f[Some(s)] \in Int /\ SumFunctionOnSet(f, s \ {Some(s)}) \in Int
      BY <1>1, SomeIn
    <2>3. s # {} => f[Some(s)] + SumFunctionOnSet(f, s \ {Some(s)}) \in Int
      BY <2>2
    <2>4. SumFunctionOnSet(f, s)
            = IF s = {} THEN 0 ELSE f[Some(s)] + SumFunctionOnSet(f, s \ {Some(s)})
      BY <2>1, SumRecursion
    <2>5. SumFunctionOnSet(f, s) \in Int
      BY <2>3, <2>4
    <2>. QED  BY <2>5
  <1>2. SUBSET S \subseteq G
    <2>. HIDE DEF G
    <2>. QED  BY <1>1, SubsetInduction
  <1>. QED  BY <1>2

(* Any summand can be taken out of a sum. *)
LEMMA SumSplit ==
  ASSUME NEW S, IsFiniteSet(S), NEW f, \A x \in S : f[x] \in Int, NEW x \in S
  PROVE  SumFunctionOnSet(f, S) = f[x] + SumFunctionOnSet(f, S \ {x})
  <1>. DEFINE Sum(s) == SumFunctionOnSet(f, s)
              G == {s \in SUBSET S : \A y \in s : Sum(s) = f[y] + Sum(s \ {y})}
  <1>1. ASSUME NEW s \in SUBSET S, \A t \in SUBSET s : t # s => t \in G
        PROVE  s \in G
    <2>1. ASSUME NEW y \in s PROVE Sum(s) = f[y] + Sum(s \ {y})
      <3>. DEFINE c == Some(s)
      <3>1. IsFiniteSet(s)
        BY FS_Subset
      <3>2. c \in s /\ Sum(s) = f[c] + Sum(s \ {c})
        BY <2>1, <3>1, SomeIn, SumRecursion
      <3>. HIDE DEF c
      <3>3. CASE y # c
        <4>1. s \ {c} \in G /\ s \ {y} \in G /\ y \in s \ {c} /\ c \in s \ {y}
          BY <1>1, <2>1, <3>2, <3>3
        <4>2. Sum(s \ {c}) = f[y] + Sum((s \ {c}) \ {y}) /\ Sum(s \ {y}) = f[c] + Sum((s \ {y}) \ {c})
          BY <4>1
        <4>3. (s \ {c}) \ {y} = (s \ {y}) \ {c}
          OBVIOUS
        <4>4. f[c] \in Int /\ f[y] \in Int /\ Sum((s \ {c}) \ {y}) \in Int
          BY <3>1, <3>2, FS_Subset, SumInt
        <4>. HIDE DEF Sum, G
        <4>5. f[c] + (f[y] + Sum((s \ {c}) \ {y})) = f[y] + (f[c] + Sum((s \ {c}) \ {y}))
          BY <4>4
        <4>. QED  BY <3>2, <4>2, <4>3, <4>5, Zenon
      <3>. QED  BY <3>2, <3>3
    <2>. QED  BY <2>1
  <1>2. SUBSET S \subseteq G
    <2>. HIDE DEF G
    <2>. QED  BY <1>1, SubsetInduction
  <1>. QED  BY <1>2

(* Only the summands matter. *)
LEMMA SumSame ==
  ASSUME NEW S, IsFiniteSet(S), NEW f, NEW g, \A x \in S : f[x] = g[x]
  PROVE  SumFunctionOnSet(f, S) = SumFunctionOnSet(g, S)
  <1>. DEFINE G == {s \in SUBSET S : SumFunctionOnSet(f, s) = SumFunctionOnSet(g, s)}
  <1>1. ASSUME NEW s \in SUBSET S, \A t \in SUBSET s : t # s => t \in G
        PROVE  s \in G
    <2>1. IsFiniteSet(s)
      BY FS_Subset
    <2>2. s # {} => /\ f[Some(s)] = g[Some(s)]
                    /\ SumFunctionOnSet(f, s \ {Some(s)}) = SumFunctionOnSet(g, s \ {Some(s)})
      BY <1>1, SomeIn
    <2>. QED  BY <2>1, <2>2, SumRecursion
  <1>2. SUBSET S \subseteq G
    <2>. HIDE DEF G
    <2>. QED  BY <1>1, SubsetInduction
  <1>. QED  BY <1>2

-----------------------------------------------------------------------------
(* Sums of functions over their domains.                                   *)

LEMMA SumOfInts ==
  ASSUME NEW S, IsFiniteSet(S), NEW f \in [S -> Int]
  PROVE  SumFunction(f) \in Int /\ SumFunction(f) = SumFunctionOnSet(f, S)
  BY SumInt DEF SumFunction

(* One summand changes. *)
LEMMA SumChange ==
  ASSUME NEW S, IsFiniteSet(S), NEW f \in [S -> Int], NEW g \in [S -> Int],
         NEW x \in S, \A y \in S : y # x => g[y] = f[y]
  PROVE  SumFunction(g) = SumFunction(f) + g[x] - f[x]
  <1>1. IsFiniteSet(S \ {x})
    BY FS_Subset
  <1>2. SumFunctionOnSet(f, S \ {x}) = SumFunctionOnSet(g, S \ {x})
        /\ SumFunctionOnSet(f, S \ {x}) \in Int
    BY <1>1, SumSame, SumInt
  <1>3. /\ SumFunctionOnSet(f, S) = f[x] + SumFunctionOnSet(f, S \ {x})
        /\ SumFunctionOnSet(g, S) = g[x] + SumFunctionOnSet(g, S \ {x})
    BY SumSplit
  <1>. QED  BY <1>2, <1>3, SumOfInts

(* Sums add up summand by summand. *)
LEMMA SumPlus ==
  ASSUME NEW S, IsFiniteSet(S), NEW f \in [S -> Int], NEW g \in [S -> Int], NEW h \in [S -> Int],
         \A x \in S : h[x] = f[x] + g[x]
  PROVE  SumFunction(h) = SumFunction(f) + SumFunction(g)
  <1>. DEFINE Sum(k, s) == SumFunctionOnSet(k, s)
              G == {s \in SUBSET S : Sum(h, s) = Sum(f, s) + Sum(g, s)}
  <1>1. {} \in G
    BY SumEmpty
  <1>2. ASSUME NEW T \in SUBSET S, NEW x \in S \ T, T \in G PROVE T \cup {x} \in G
    <2>1. IsFiniteSet(T \cup {x}) /\ IsFiniteSet(T)
      BY FS_Subset
    <2>2. (T \cup {x}) \ {x} = T
      BY <1>2
    <2>3. \A k \in [S -> Int] : Sum(k, T \cup {x}) = k[x] + Sum(k, T) /\ Sum(k, T) \in Int
      <3>. TAKE k \in [S -> Int]
      <3>1. \A y \in T \cup {x} : k[y] \in Int
        OBVIOUS
      <3>. QED  BY <2>1, <2>2, <3>1, SumSplit, SumInt
    <2>4. Sum(h, T) = Sum(f, T) + Sum(g, T) /\ f[x] \in Int /\ g[x] \in Int /\ h[x] = f[x] + g[x]
      BY <1>2
    <2>. HIDE DEF Sum
    <2>. QED  BY <2>3, <2>4
  <1>3. S \in G
    <2>. HIDE DEF G
    <2>. QED  BY <1>1, <1>2, FiniteInduction
  <1>. QED  BY <1>3, SumOfInts

(* Summands no smaller than none. *)
LEMMA SumNonNegative ==
  ASSUME NEW S, IsFiniteSet(S), NEW f \in [S -> Nat]
  PROVE  /\ SumFunction(f) \in Nat
         /\ \A x \in S : f[x] <= SumFunction(f)
         /\ SumFunction(f) = 0 <=> \A x \in S : f[x] = 0
  <1>. DEFINE Sum(s) == SumFunctionOnSet(f, s)
              G == {s \in SUBSET S : /\ Sum(s) \in Nat
                                     /\ \A x \in s : f[x] <= Sum(s)
                                     /\ (\A x \in s : f[x] = 0) => Sum(s) = 0}
  <1>0. f \in [S -> Int]
    OBVIOUS
  <1>1. {} \in G
    BY SumEmpty
  <1>2. ASSUME NEW T \in SUBSET S, NEW x \in S \ T, T \in G PROVE T \cup {x} \in G
    <2>1. IsFiniteSet(T \cup {x}) /\ (T \cup {x}) \ {x} = T
      BY <1>2, FS_Subset
    <2>2. Sum(T \cup {x}) = f[x] + Sum(T)
      <3>1. \A y \in T \cup {x} : f[y] \in Int
        OBVIOUS
      <3>. QED  BY <2>1, <3>1, SumSplit
    <2>3. /\ f[x] \in Nat /\ Sum(T) \in Nat
          /\ \A y \in T : f[y] \in Nat /\ f[y] <= Sum(T)
          /\ (\A y \in T : f[y] = 0) => Sum(T) = 0
      BY <1>2
    <2>. HIDE DEF Sum
    <2>. QED  BY <2>2, <2>3
  <1>3. S \in G
    <2>. HIDE DEF G
    <2>. QED  BY <1>1, <1>2, FiniteInduction
  <1>. QED  BY <1>0, <1>3, SumOfInts

(* Where there is nothing to add, a sum need not look. *)
LEMMA SumPart ==
  ASSUME NEW S, IsFiniteSet(S), NEW T \in SUBSET S, NEW f \in [S -> Int], NEW g \in [T -> Int],
         \A x \in T : g[x] = f[x], \A x \in S \ T : f[x] = 0
  PROVE  SumFunction(g) = SumFunction(f)
  <1>. DEFINE Sum(k, s) == SumFunctionOnSet(k, s)
              G == {s \in SUBSET S : Sum(f, s) = Sum(g, s \cap T)}
  <1>1. {} \in G
    <2>1. {} \cap T = {}
      OBVIOUS
    <2>. QED  BY <2>1, SumEmpty
  <1>2. ASSUME NEW s \in SUBSET S, NEW x \in S \ s, s \in G PROVE s \cup {x} \in G
    <2>1. IsFiniteSet(s \cup {x}) /\ (s \cup {x}) \ {x} = s
      BY <1>2, FS_Subset
    <2>2. Sum(f, s \cup {x}) = f[x] + Sum(f, s) /\ Sum(f, s) \in Int
      <3>1. \A y \in s \cup {x} : f[y] \in Int
        OBVIOUS
      <3>2. IsFiniteSet(s) /\ \A y \in s : f[y] \in Int
        BY FS_Subset
      <3>. QED  BY <2>1, <3>1, <3>2, SumSplit, SumInt
    <2>3. CASE x \in T
      <3>1. /\ (s \cup {x}) \cap T = (s \cap T) \cup {x}
            /\ ((s \cap T) \cup {x}) \ {x} = s \cap T
        BY <1>2, <2>3
      <3>2. IsFiniteSet((s \cap T) \cup {x}) /\ \A y \in (s \cap T) \cup {x} : g[y] \in Int
        BY <2>3, FS_Subset
      <3>3. Sum(g, (s \cap T) \cup {x}) = g[x] + Sum(g, s \cap T)
        BY <3>1, <3>2, SumSplit
      <3>4. Sum(f, s) = Sum(g, s \cap T) /\ g[x] = f[x]
        BY <1>2, <2>3
      <3>5. Sum(f, s \cup {x}) = Sum(g, (s \cup {x}) \cap T)
        <4>. HIDE DEF Sum
        <4>. QED  BY <2>2, <3>1, <3>3, <3>4
      <3>. QED  BY <3>5
    <2>4. CASE x \notin T
      <3>1. (s \cup {x}) \cap T = s \cap T /\ f[x] = 0 /\ Sum(f, s) = Sum(g, s \cap T)
        BY <1>2, <2>4
      <3>2. Sum(f, s \cup {x}) = Sum(g, (s \cup {x}) \cap T)
        <4>1. 0 + Sum(f, s) = Sum(f, s)
          BY <2>2
        <4>. HIDE DEF Sum
        <4>. QED  BY <2>2, <3>1, <4>1, Zenon
      <3>. QED  BY <3>2
    <2>. QED  BY <2>3, <2>4
  <1>3. S \in G
    <2>. HIDE DEF G
    <2>. QED  BY <1>1, <1>2, FiniteInduction
  <1>4. S \cap T = T /\ IsFiniteSet(T)
    BY FS_Subset
  <1>. QED  BY <1>3, <1>4, SumOfInts

PartOf(g, f, T, S) ==
    /\ T \in SUBSET S /\ f \in [S -> Int] /\ g \in [T -> Int]
    /\ (\A x \in T : g[x] = f[x]) /\ \A x \in S \ T : f[x] = 0

LEMMA SumPartOf ==
  ASSUME NEW S, IsFiniteSet(S), NEW T, NEW f, NEW g, PartOf(g, f, T, S)
  PROVE  SumFunction(g) = SumFunction(f)
  BY SumPart DEF PartOf

(* Nothing but one summand. *)
Zeros(S) == [x \in S |-> 0]
Only(S, a, v) == [x \in S |-> IF x = a THEN v ELSE 0]

LEMMA SumZeros ==
  ASSUME NEW S, IsFiniteSet(S)
  PROVE  Zeros(S) \in [S -> Int] /\ SumFunction(Zeros(S)) = 0
  BY SumNonNegative DEF Zeros

LEMMA SumOnly ==
  ASSUME NEW S, IsFiniteSet(S), NEW a, NEW v \in Int
  PROVE  /\ Only(S, a, v) \in [S -> Int]
         /\ SumFunction(Only(S, a, v)) = IF a \in S THEN v ELSE 0
  <1>1. Only(S, a, v) \in [S -> Int] /\ \A x \in S : Only(S, a, v)[x] = IF x = a THEN v ELSE 0
    BY DEF Only
  <1>2. Zeros(S) \in [S -> Int] /\ SumFunction(Zeros(S)) = 0 /\ \A x \in S : Zeros(S)[x] = 0
    BY SumZeros DEF Zeros
  <1>3. CASE a \in S
    <2>1. SumFunction(Only(S, a, v)) = SumFunction(Zeros(S)) + Only(S, a, v)[a] - Zeros(S)[a]
      <3>1. \A y \in S : y # a => Only(S, a, v)[y] = Zeros(S)[y]
        BY <1>1, <1>2
      <3>. QED  BY <1>1, <1>2, <1>3, <3>1, SumChange
    <2>. QED  BY <1>1, <1>2, <1>3, <2>1
  <1>4. CASE a \notin S
    <2>1. Only(S, a, v) = Zeros(S)
      BY <1>4 DEF Only, Zeros
    <2>. QED  BY <1>1, <1>2, <1>4, <2>1
  <1>. QED  BY <1>3, <1>4

(* A sum falls by what its summands fall by. *)
LEMMA SumMinus ==
  ASSUME NEW S, IsFiniteSet(S), NEW f \in [S -> Int], NEW g \in [S -> Int], NEW h \in [S -> Int],
         \A x \in S : h[x] = f[x] - g[x]
  PROVE  /\ SumFunction(f) \in Int /\ SumFunction(g) \in Int
         /\ SumFunction(h) = SumFunction(f) - SumFunction(g)
  <1>1. \A x \in S : f[x] = h[x] + g[x]
    OBVIOUS
  <1>2. SumFunction(f) = SumFunction(h) + SumFunction(g)
    BY <1>1, SumPlus
  <1>3. SumFunction(f) \in Int /\ SumFunction(g) \in Int /\ SumFunction(h) \in Int
    BY SumOfInts
  <1>. QED  BY <1>2, <1>3

(* b names each element of S by one element of T. *)
Names(b, T, S) ==
    /\ b \in [T -> S]
    /\ \A x, y \in T : b[x] = b[y] => x = y
    /\ \A z \in S : \E x \in T : b[x] = z

(* Summands can be taken in another order, under other names. *)
LEMMA SumReindex ==
  ASSUME NEW S, NEW T, IsFiniteSet(S), IsFiniteSet(T), NEW b, Names(b, T, S),
         NEW f, \A z \in S : f[z] \in Int, NEW g, \A x \in T : g[x] = f[b[x]]
  PROVE  SumFunctionOnSet(g, T) = SumFunctionOnSet(f, S)
  <1>. DEFINE Sum(h, s) == SumFunctionOnSet(h, s)
              Image(s) == {b[x] : x \in s}
              G == {s \in SUBSET T : Sum(g, s) = Sum(f, Image(s))}
  <1>0. /\ b \in [T -> S] /\ \A x, y \in T : b[x] = b[y] => x = y
        /\ \A z \in S : \E x \in T : b[x] = z
    BY DEF Names
  <1>1. {} \in G
    <2>1. Image({}) = {}
      OBVIOUS
    <2>. QED  BY <2>1, SumEmpty
  <1>2. ASSUME NEW s \in SUBSET T, NEW x \in T \ s, s \in G PROVE s \cup {x} \in G
    <2>1. Sum(g, s) = Sum(f, Image(s))
      BY <1>2
    <2>2. /\ Image(s \cup {x}) = Image(s) \cup {b[x]} /\ b[x] \notin Image(s)
          /\ Image(s \cup {x}) \subseteq S
      BY <1>0
    <2>3. IsFiniteSet(s \cup {x}) /\ IsFiniteSet(Image(s) \cup {b[x]})
      BY <2>2, FS_Subset
    <2>4. (s \cup {x}) \ {x} = s /\ (Image(s) \cup {b[x]}) \ {b[x]} = Image(s)
      BY <2>2
    <2>5. (\A y \in s \cup {x} : g[y] \in Int) /\ (\A z \in Image(s) \cup {b[x]} : f[z] \in Int)
      BY <2>2
    <2>6. x \in s \cup {x} /\ b[x] \in Image(s) \cup {b[x]} /\ g[x] = f[b[x]]
      OBVIOUS
    <2>. HIDE DEF Image
    <2>7. SumFunctionOnSet(g, s \cup {x}) = g[x] + SumFunctionOnSet(g, (s \cup {x}) \ {x})
      BY <2>3, <2>5, <2>6, SumSplit
    <2>8. SumFunctionOnSet(f, Image(s) \cup {b[x]})
            = f[b[x]] + SumFunctionOnSet(f, (Image(s) \cup {b[x]}) \ {b[x]})
      BY <2>3, <2>5, <2>6, SumSplit
    <2>9. Sum(g, s \cup {x}) = Sum(f, Image(s \cup {x}))
      BY <2>1, <2>2, <2>4, <2>6, <2>7, <2>8, Zenon
    <2>. QED  BY <2>9
  <1>3. T \in G
    <2>. HIDE DEF G
    <2>. QED  BY <1>1, <1>2, FiniteInduction
  <1>4. Image(T) = S
    BY <1>0
  <1>. QED  BY <1>3, <1>4

(* A sum in two parts. *)
LEMMA SumParts ==
  ASSUME NEW S, NEW T, IsFiniteSet(S), IsFiniteSet(T), S \cap T = {},
         NEW f, \A x \in S \cup T : f[x] \in Int
  PROVE  /\ SumFunctionOnSet(f, S \cup T) = SumFunctionOnSet(f, S) + SumFunctionOnSet(f, T)
         /\ SumFunctionOnSet(f, S) \in Int /\ SumFunctionOnSet(f, T) \in Int
  <1>. DEFINE Sum(s) == SumFunctionOnSet(f, s)
              G == {s \in SUBSET T : Sum(S \cup s) = Sum(S) + Sum(s)}
  <1>0. Sum(S) \in Int /\ Sum(T) \in Int
    BY SumInt
  <1>1. {} \in G
    <2>1. S \cup {} = S /\ Sum({}) = 0
      BY SumEmpty
    <2>. QED  BY <1>0, <2>1
  <1>2. ASSUME NEW s \in SUBSET T, NEW x \in T \ s, s \in G PROVE s \cup {x} \in G
    <2>1. Sum(S \cup s) = Sum(S) + Sum(s)
      BY <1>2
    <2>2. IsFiniteSet(s) /\ IsFiniteSet(s \cup {x}) /\ IsFiniteSet(S \cup (s \cup {x}))
      <3>1. IsFiniteSet(s) /\ IsFiniteSet(s \cup {x})
        BY FS_Subset
      <3>. QED  BY <3>1, FS_Union
    <2>3. (s \cup {x}) \ {x} = s /\ (S \cup (s \cup {x})) \ {x} = S \cup s
      OBVIOUS
    <2>4. (\A y \in s \cup {x} : f[y] \in Int) /\ (\A y \in S \cup (s \cup {x}) : f[y] \in Int)
      OBVIOUS
    <2>5. x \in s \cup {x} /\ x \in S \cup (s \cup {x}) /\ f[x] \in Int
      OBVIOUS
    <2>6. SumFunctionOnSet(f, s \cup {x}) = f[x] + SumFunctionOnSet(f, (s \cup {x}) \ {x})
      BY <2>2, <2>4, <2>5, SumSplit
    <2>7. SumFunctionOnSet(f, S \cup (s \cup {x}))
            = f[x] + SumFunctionOnSet(f, (S \cup (s \cup {x})) \ {x})
      BY <2>2, <2>4, <2>5, SumSplit
    <2>8. Sum(s) \in Int
      BY <2>2, SumInt
    <2>9. Sum(S \cup (s \cup {x})) = Sum(S) + Sum(s \cup {x})
      <3>1. Sum(s \cup {x}) = f[x] + Sum(s) /\ Sum(S \cup (s \cup {x})) = f[x] + Sum(S \cup s)
        BY <2>3, <2>6, <2>7, Zenon
      <3>. HIDE DEF Sum
      <3>. QED  BY <1>0, <2>1, <2>5, <2>8, <3>1
    <2>. QED  BY <2>9
  <1>3. T \in G
    <2>. HIDE DEF G
    <2>. QED  BY <1>1, <1>2, FiniteInduction
  <1>. QED  BY <1>0, <1>3

(* Every summand is taken with the same sign. *)
Signs == {1, -1}
Signed(g, sign, f, S) == \A x \in S : g[x] = sign * f[x]

LEMMA SumSigned ==
  ASSUME NEW S, IsFiniteSet(S), NEW f \in [S -> Int], NEW g \in [S -> Int], NEW sign \in Signs,
         Signed(g, sign, f, S)
  PROVE  SumFunction(f) \in Int /\ SumFunction(g) = sign * SumFunction(f)
  <1>0. SumFunction(f) \in Int
    BY SumOfInts
  <1>1. CASE sign = 1
    <2>1. \A x \in S : g[x] = f[x]
      BY <1>1 DEF Signed
    <2>2. g = f
      BY <2>1
    <2>. QED  BY <1>0, <1>1, <2>2
  <1>2. CASE sign = -1
    <2>1. \A x \in S : Zeros(S)[x] = f[x] + g[x]
      BY <1>2 DEF Zeros, Signed
    <2>2. SumFunction(Zeros(S)) = SumFunction(f) + SumFunction(g)
      BY <2>1, SumPlus, SumZeros
    <2>3. SumFunction(Zeros(S)) = 0 /\ SumFunction(g) \in Int
      BY SumZeros, SumOfInts
    <2>. QED  BY <1>0, <1>2, <2>2, <2>3
  <1>. QED  BY <1>1, <1>2 DEF Signs

(* A head and two tails, each of which lists what is summed once. *)
Lists(b, n, S) == Names(b, 1 .. n, S)
After(k, n) == k + 1 .. k + n
TakenFrom(g, k, n, f, b) == \A x \in 1 .. n : g[k + x] = f[b[x]]

LEMMA SumListed ==
  ASSUME NEW S, IsFiniteSet(S), NEW n \in Nat, NEW b, Lists(b, n, S), NEW k \in Nat,
         NEW f \in [S -> Int], NEW g, TakenFrom(g, k, n, f, b)
  PROVE  SumFunctionOnSet(g, After(k, n)) = SumFunction(f)
  <1>. DEFINE T == After(k, n)
              c == [x \in T |-> b[x - k]]
  <1>1. \A x \in T : x - k \in 1 .. n /\ k + (x - k) = x
    BY DEF After
  <1>2. c \in [T -> S] /\ \A x \in T : c[x] = b[x - k]
    BY <1>1 DEF Lists, Names
  <1>3. \A x, y \in T : c[x] = c[y] => x = y
    <2>1. ASSUME NEW x \in T, NEW y \in T, c[x] = c[y] PROVE x = y
      <3>1. x - k = y - k
        BY <1>1, <1>2, <2>1 DEF Lists, Names
      <3>. QED  BY <3>1 DEF After
    <2>. QED  BY <2>1
  <1>4. ASSUME NEW z \in S PROVE \E x \in T : c[x] = z
    <2>1. PICK y \in 1 .. n : b[y] = z
      BY DEF Lists, Names
    <2>2. k + y \in T /\ (k + y) - k = y
      BY DEF After
    <2>. QED  BY <1>2, <2>1, <2>2
  <1>5. \A x \in T : g[x] = f[c[x]]
    BY <1>1, <1>2 DEF TakenFrom
  <1>6. IsFiniteSet(T) /\ \A z \in S : f[z] \in Int
    BY FS_Interval DEF After
  <1>. HIDE DEF c, T
  <1>7. SumFunctionOnSet(g, T) = SumFunctionOnSet(f, S)
    <2>1. Names(c, T, S)
      BY <1>2, <1>3, <1>4 DEF Names
    <2>. QED  BY <2>1, <1>5, <1>6, SumReindex, SMTT(60)
  <1>. QED  BY <1>7, SumOfInts DEF T

TailIs(g, k, n, f, b, S) ==
    /\ IsFiniteSet(S) /\ n \in Nat /\ Lists(b, n, S) /\ f \in [S -> Int] /\ TakenFrom(g, k, n, f, b)

Tails(g, n, f, a, P, m, h, b, Q) ==
    /\ g \in [1 .. 1 + n + m -> Int]
    /\ TailIs(g, 1, n, f, a, P) /\ TailIs(g, 1 + n, m, h, b, Q)

LEMMA HeadAndTails ==
  ASSUME NEW P, NEW n, NEW a, NEW f, NEW Q, NEW m, NEW b, NEW h, NEW g,
         Tails(g, n, f, a, P, m, h, b, Q)
  PROVE  SumFunction(g) = g[1] + SumFunction(f) + SumFunction(h)
  <1>. DEFINE D == 1 .. 1 + n + m  S == After(1, n)  T == After(1 + n, m)
  <1>0. /\ IsFiniteSet(P) /\ n \in Nat /\ Lists(a, n, P) /\ f \in [P -> Int] /\ TakenFrom(g, 1, n, f, a)
        /\ IsFiniteSet(Q) /\ m \in Nat /\ Lists(b, m, Q) /\ h \in [Q -> Int]
        /\ TakenFrom(g, 1 + n, m, h, b) /\ g \in [1 .. 1 + n + m -> Int]
    BY DEF Tails, TailIs
  <1>1. IsFiniteSet(D) /\ IsFiniteSet(S) /\ IsFiniteSet(T)
    BY <1>0, FS_Interval DEF After
  <1>2. D \ {1} = S \cup T /\ S \cap T = {} /\ 1 \in D /\ S \cup T \subseteq D
    BY <1>0 DEF After
  <1>3. \A x \in D : g[x] \in Int
    BY <1>0
  <1>4. 1 \in Nat /\ 1 + n \in Nat
    BY <1>0
  <1>5. SumFunctionOnSet(g, S) = SumFunction(f) /\ SumFunctionOnSet(g, T) = SumFunction(h)
    <2>1. SumFunctionOnSet(g, After(1, n)) = SumFunction(f)
      BY <1>0, <1>4, SumListed
    <2>2. SumFunctionOnSet(g, After(1 + n, m)) = SumFunction(h)
      BY <1>0, <1>4, SumListed, SMTT(30)
    <2>. QED  BY <2>1, <2>2
  <1>. HIDE DEF D, S, T
  <1>6. SumFunctionOnSet(g, D) = g[1] + SumFunctionOnSet(g, D \ {1})
    BY <1>1, <1>2, <1>3, SumSplit
  <1>7. \A x \in S \cup T : g[x] \in Int
    BY <1>2, <1>3
  <1>8. /\ SumFunctionOnSet(g, S \cup T) = SumFunctionOnSet(g, S) + SumFunctionOnSet(g, T)
        /\ SumFunctionOnSet(g, S) \in Int /\ SumFunctionOnSet(g, T) \in Int
    BY <1>1, <1>2, <1>7, SumParts
  <1>9. SumFunction(g) = SumFunctionOnSet(g, D) /\ g[1] \in Int
    BY <1>0, <1>1, <1>2, <1>3, SumOfInts DEF D
  <1>10. SumFunctionOnSet(g, D) = g[1] + (SumFunction(f) + SumFunction(h))
    BY <1>2, <1>5, <1>6, <1>8, Zenon
  <1>11. SumFunction(f) \in Int /\ SumFunction(h) \in Int
    BY <1>0, SumOfInts
  <1>. QED  BY <1>9, <1>10, <1>11

(* The same, where the tails are taken with a sign. *)
TakenSigned(g, k, n, sign, f, b) == \A x \in 1 .. n : g[k + x] = sign * f[b[x]]

TailSigned(g, k, n, sign, f, b, S) ==
    /\ IsFiniteSet(S) /\ n \in Nat /\ Lists(b, n, S) /\ f \in [S -> Int]
    /\ TakenSigned(g, k, n, sign, f, b)

TailsSigned(g, sign, n, f, a, P, m, h, b, Q) ==
    /\ g \in [1 .. 1 + n + m -> Int]
    /\ TailSigned(g, 1, n, sign, f, a, P) /\ TailSigned(g, 1 + n, m, sign, h, b, Q)

LEMMA HeadAndSignedTails ==
  ASSUME NEW P, NEW n, NEW a, NEW f, NEW Q, NEW m, NEW b, NEW h, NEW g, NEW sign \in Signs,
         TailsSigned(g, sign, n, f, a, P, m, h, b, Q)
  PROVE  /\ SumFunction(f) \in Int /\ SumFunction(h) \in Int
         /\ SumFunction(g) = g[1] + sign * SumFunction(f) + sign * SumFunction(h)
  <1>. DEFINE F == [x \in P |-> sign * f[x]]  H == [x \in Q |-> sign * h[x]]
  <1>0. /\ g \in [1 .. 1 + n + m -> Int]
        /\ IsFiniteSet(P) /\ n \in Nat /\ Lists(a, n, P) /\ f \in [P -> Int]
        /\ IsFiniteSet(Q) /\ m \in Nat /\ Lists(b, m, Q) /\ h \in [Q -> Int]
        /\ TakenSigned(g, 1, n, sign, f, a) /\ TakenSigned(g, 1 + n, m, sign, h, b)
    BY DEF TailsSigned, TailSigned
  <1>1. F \in [P -> Int] /\ Signed(F, sign, f, P)
    BY <1>0 DEF Signs, Signed
  <1>2. H \in [Q -> Int] /\ Signed(H, sign, h, Q)
    BY <1>0 DEF Signs, Signed
  <1>. HIDE DEF F, H
  <1>3. Tails(g, n, F, a, P, m, H, b, Q)
    <2>1. TakenFrom(g, 1, n, F, a) /\ TakenFrom(g, 1 + n, m, H, b)
      BY <1>0, <1>1, <1>2 DEF Signed, TakenFrom, TakenSigned, Lists, Names
    <2>. QED  BY <1>0, <1>1, <1>2, <2>1 DEF Tails, TailIs
  <1>4. SumFunction(g) = g[1] + SumFunction(F) + SumFunction(H)
    BY <1>3, HeadAndTails
  <1>5. SumFunction(f) \in Int /\ SumFunction(F) = sign * SumFunction(f)
    BY <1>0, <1>1, SumSigned, Zenon
  <1>6. SumFunction(h) \in Int /\ SumFunction(H) = sign * SumFunction(h)
    BY <1>0, <1>2, SumSigned, Zenon
  <1>. QED  BY <1>4, <1>5, <1>6

-----------------------------------------------------------------------------
(***************************************************************************)
(* What the elements of a sequence weigh together.                         *)
(***************************************************************************)
Weights(s, w) == [n \in DOMAIN s |-> w[s[n]]]
Weight(s, w) == SumFunction(Weights(s, w))

LEMMA WeightsInt ==
  ASSUME NEW S, NEW w \in [S -> Int], NEW s \in Seq(S)
  PROVE  /\ IsFiniteSet(DOMAIN s) /\ Weights(s, w) \in [DOMAIN s -> Int]
         /\ Weight(s, w) = SumFunctionOnSet(Weights(s, w), DOMAIN s) /\ Weight(s, w) \in Int
  <1>1. IsFiniteSet(DOMAIN s)
    <2>1. DOMAIN s = 1 .. Len(s) /\ Len(s) \in Int /\ 1 \in Int
      OBVIOUS
    <2>. QED  BY <2>1, FS_Interval
  <1>2. Weights(s, w) \in [DOMAIN s -> Int]
    BY DEF Weights
  <1>. QED  BY <1>1, <1>2, SumOfInts DEF Weight

LEMMA WeightOfNone ==
  ASSUME NEW w
  PROVE  Weight(<<>>, w) = 0
  <1>1. DOMAIN Weights(<<>>, w) = {}
    BY DEF Weights
  <1>. QED  BY <1>1, SumEmpty, Zenon DEF Weight, SumFunction

LEMMA WeightOfOne ==
  ASSUME NEW S, NEW w \in [S -> Int], NEW e \in S
  PROVE  Weight(<<e>>, w) = w[e]
  <1>. DEFINE s == <<e>>
  <1>1. s \in Seq(S) /\ DOMAIN s = {1} /\ s[1] = e
    OBVIOUS
  <1>. HIDE DEF s
  <1>2. Weights(s, w)[1] = w[e] /\ 1 \in DOMAIN s
    BY <1>1 DEF Weights
  <1>3. \A x \in DOMAIN s : Weights(s, w)[x] \in Int
    BY <1>1, WeightsInt
  <1>4. SumFunctionOnSet(Weights(s, w), DOMAIN s)
          = Weights(s, w)[1] + SumFunctionOnSet(Weights(s, w), DOMAIN s \ {1})
    BY <1>1, <1>2, <1>3, WeightsInt, SumSplit
  <1>5. DOMAIN s \ {1} = {}
    BY <1>1
  <1>6. SumFunctionOnSet(Weights(s, w), DOMAIN s \ {1}) = 0
    BY <1>5, SumEmpty
  <1>7. w[e] \in Int /\ Weight(s, w) = SumFunctionOnSet(Weights(s, w), DOMAIN s)
    BY <1>1, WeightsInt
  <1>8. Weight(s, w) = w[e] + 0
    BY <1>2, <1>4, <1>6, <1>7, Zenon
  <1>9. Weight(s, w) = w[e]
    BY <1>7, <1>8
  <1>. QED  BY <1>9 DEF s

LEMMA WeightJoined ==
  ASSUME NEW S, NEW w \in [S -> Int], NEW s \in Seq(S), NEW t \in Seq(S)
  PROVE  /\ s \o t \in Seq(S)
         /\ Weight(s \o t, w) = Weight(s, w) + Weight(t, w)
  <1>4. /\ IsFiniteSet(DOMAIN s) /\ Weight(s, w) = SumFunctionOnSet(Weights(s, w), DOMAIN s)
        /\ IsFiniteSet(DOMAIN t) /\ Weight(t, w) = SumFunctionOnSet(Weights(t, w), DOMAIN t)
        /\ \A k \in DOMAIN t : Weights(t, w)[k] \in Int
    <2>1. IsFiniteSet(DOMAIN s) /\ Weight(s, w) = SumFunctionOnSet(Weights(s, w), DOMAIN s)
      BY WeightsInt
    <2>2. IsFiniteSet(DOMAIN t) /\ Weight(t, w) = SumFunctionOnSet(Weights(t, w), DOMAIN t)
      BY WeightsInt
    <2>3. Weights(t, w) \in [DOMAIN t -> Int]
      BY WeightsInt
    <2>. QED  BY <2>1, <2>2, <2>3
  <1>0. s \o t \in Seq(S)
    OBVIOUS
  <1>. PICK u \in Seq(S) : u = s \o t
    BY <1>0, Zenon
  <1>. DEFINE m == Len(s)
              rest == (DOMAIN u) \ (DOMAIN s)
              b == [k \in rest |-> k - m]
  <1>1. /\ u \in Seq(S) /\ m \in Nat /\ DOMAIN s \subseteq DOMAIN u
        /\ DOMAIN u = DOMAIN s \cup rest /\ DOMAIN s \cap rest = {}
        /\ \A k \in DOMAIN s : u[k] = s[k]
        /\ \A k \in rest : k \in Int /\ k - m \in DOMAIN t /\ u[k] = t[k - m]
        /\ \A k \in DOMAIN t : k \in Int /\ k + m \in rest
    OBVIOUS
  <1>. HIDE DEF m, rest
  <1>2. Names(b, rest, DOMAIN t)
    <2>1. b \in [rest -> DOMAIN t]
      BY <1>1
    <2>2. ASSUME NEW x \in rest, NEW y \in rest, b[x] = b[y] PROVE x = y
      BY <1>1, <2>2
    <2>3. ASSUME NEW z \in DOMAIN t PROVE \E x \in rest : b[x] = z
      <3>1. z + m \in rest /\ b[z + m] = (z + m) - m
        BY <1>1
      <3>2. (z + m) - m = z
        BY <1>1
      <3>. QED  BY <3>1, <3>2
    <2>4. \A x, y \in rest : b[x] = b[y] => x = y
      BY <2>2
    <2>5. \A z \in DOMAIN t : \E x \in rest : b[x] = z
      BY <2>3
    <2>. HIDE DEF b
    <2>. QED  BY <2>1, <2>4, <2>5, Zenon DEF Names
  <1>3. /\ IsFiniteSet(DOMAIN u) /\ Weight(u, w) = SumFunctionOnSet(Weights(u, w), DOMAIN u)
        /\ Weights(u, w) \in [DOMAIN u -> Int]
    BY WeightsInt, ZenonT(30)
  <1>5. IsFiniteSet(rest)
    BY <1>3, FS_Subset DEF rest
  <1>6. \A k \in DOMAIN s : Weights(u, w)[k] = Weights(s, w)[k]
    BY <1>1 DEF Weights
  <1>7. \A k \in rest : Weights(u, w)[k] = Weights(t, w)[b[k]]
    <2>. SUFFICES ASSUME NEW k \in rest PROVE Weights(u, w)[k] = Weights(t, w)[b[k]]
      OBVIOUS
    <2>1. b[k] = k - m /\ k \in DOMAIN u /\ b[k] \in DOMAIN t /\ u[k] = t[b[k]]
      BY <1>1
    <2>. QED  BY <2>1, Zenon DEF Weights
  <1>. HIDE DEF b
  <1>8. SumFunctionOnSet(Weights(u, w), DOMAIN s) = SumFunctionOnSet(Weights(s, w), DOMAIN s)
    BY <1>4, <1>6, SumSame
  <1>9. SumFunctionOnSet(Weights(u, w), rest) = SumFunctionOnSet(Weights(t, w), DOMAIN t)
    BY <1>2, <1>4, <1>5, <1>7, SumReindex
  <1>10. \A x \in DOMAIN s \cup rest : Weights(u, w)[x] \in Int
    BY <1>1, <1>3
  <1>11. SumFunctionOnSet(Weights(u, w), DOMAIN s \cup rest)
           = SumFunctionOnSet(Weights(u, w), DOMAIN s) + SumFunctionOnSet(Weights(u, w), rest)
    BY <1>1, <1>4, <1>5, <1>10, SumParts, ZenonT(30)
  <1>12. Weight(u, w) = Weight(s, w) + Weight(t, w)
    BY <1>1, <1>3, <1>4, <1>8, <1>9, <1>11, Zenon
  <1>. QED  BY <1>1, <1>12

-----------------------------------------------------------------------------
(* Sums of sums.                                                           *)

(* A set grows by one. *)
MoreAt(g, f, x, S) ==
    /\ IsFiniteSet(S) /\ x \notin S /\ f \in [S -> Int] /\ g \in [S \cup {x} -> Int]
    /\ \A y \in S : g[y] = f[y]

LEMMA SumMore ==
  ASSUME NEW S, NEW x, NEW f, NEW g, MoreAt(g, f, x, S)
  PROVE  SumFunction(f) \in Int /\ SumFunction(g) = SumFunction(f) + g[x]
  <1>. IsFiniteSet(S) /\ x \notin S /\ f \in [S -> Int] /\ g \in [S \cup {x} -> Int] /\ \A y \in S : g[y] = f[y]
    BY DEF MoreAt
  <1>1. IsFiniteSet(S \cup {x}) /\ (S \cup {x}) \ {x} = S
    BY FS_AddElement
  <1>2. SumFunctionOnSet(g, S \cup {x}) = g[x] + SumFunctionOnSet(g, S)
    <2>1. \A y \in S \cup {x} : g[y] \in Int
      OBVIOUS
    <2>. QED  BY <1>1, <2>1, SumSplit
  <1>3. SumFunctionOnSet(g, S) = SumFunctionOnSet(f, S)
    BY SumSame
  <1>4. SumFunction(g) = SumFunctionOnSet(g, S \cup {x})
    BY <1>1, SumOfInts
  <1>5. SumFunction(f) = SumFunctionOnSet(f, S) /\ SumFunction(f) \in Int
    BY SumOfInts
  <1>. QED  BY <1>2, <1>3, <1>4, <1>5

(* Two functions are added, and one summand changes, under a name.         *)
IsPlus(h, f, g, S) ==
    /\ IsFiniteSet(S) /\ f \in [S -> Int] /\ g \in [S -> Int] /\ h \in [S -> Int]
    /\ \A x \in S : h[x] = f[x] + g[x]

LEMMA SumPlusOf ==
  ASSUME NEW S, NEW f, NEW g, NEW h, IsPlus(h, f, g, S)
  PROVE  /\ SumFunction(f) \in Int /\ SumFunction(g) \in Int
         /\ SumFunction(h) = SumFunction(f) + SumFunction(g)
  BY SumPlus, SumOfInts DEF IsPlus

IsMinus(h, f, g, S) ==
    /\ IsFiniteSet(S) /\ f \in [S -> Int] /\ g \in [S -> Int] /\ h \in [S -> Int]
    /\ \A x \in S : h[x] = f[x] - g[x]

LEMMA SumMinusOf ==
  ASSUME NEW S, NEW f, NEW g, NEW h, IsMinus(h, f, g, S)
  PROVE  /\ SumFunction(f) \in Int /\ SumFunction(g) \in Int
         /\ SumFunction(h) = SumFunction(f) - SumFunction(g)
  BY SumMinus DEF IsMinus

DiffersAt(g, f, x, S) ==
    /\ IsFiniteSet(S) /\ x \in S /\ f \in [S -> Int] /\ g \in [S -> Int]
    /\ \A y \in S : y # x => g[y] = f[y]

LEMMA SumChangeAt ==
  ASSUME NEW S, NEW x, NEW f, NEW g, DiffersAt(g, f, x, S)
  PROVE  SumFunction(f) \in Int /\ SumFunction(g) = SumFunction(f) + g[x] - f[x]
  BY SumChange, SumOfInts DEF DiffersAt

(* A table, row by row and column by column. *)
Column(F, S, y) == [x \in S |-> F[x][y]]
RowSums(F, S) == [x \in S |-> SumFunction(F[x])]
ColumnSums(F, S, T) == [y \in T |-> SumFunction(Column(F, S, y))]

LEMMA RowSumsInt ==
  ASSUME NEW S, NEW T, IsFiniteSet(T), NEW F \in [S -> [T -> Int]]
  PROVE  /\ RowSums(F, S) \in [S -> Int]
         /\ \A x \in S : F[x] \in [T -> Int] /\ RowSums(F, S)[x] = SumFunction(F[x])
  <1>1. \A x \in S : F[x] \in [T -> Int]
    OBVIOUS
  <1>2. \A x \in S : SumFunction(F[x]) \in Int
    BY <1>1, SumOfInts
  <1>. QED  BY <1>1, <1>2 DEF RowSums

LEMMA ColumnSumsInt ==
  ASSUME NEW S, NEW T, IsFiniteSet(S), NEW F \in [S -> [T -> Int]]
  PROVE  /\ ColumnSums(F, S, T) \in [T -> Int]
         /\ \A y \in T : Column(F, S, y) \in [S -> Int] /\ ColumnSums(F, S, T)[y] = SumFunction(Column(F, S, y))
  <1>1. \A y \in T : Column(F, S, y) \in [S -> Int]
    BY DEF Column
  <1>2. \A y \in T : SumFunction(Column(F, S, y)) \in Int
    BY <1>1, SumOfInts
  <1>. QED  BY <1>1, <1>2 DEF ColumnSums

(* A table has one total. *)
LEMMA SumOfTable ==
  ASSUME NEW S, NEW T, IsFiniteSet(S), IsFiniteSet(T), NEW F \in [S -> [T -> Int]]
  PROVE  /\ SumFunction(RowSums(F, S)) = SumFunction(ColumnSums(F, S, T))
         /\ RowSums(F, S) \in [S -> Int] /\ ColumnSums(F, S, T) \in [T -> Int]
  <1>. DEFINE Fits(s) == SumFunction(RowSums(F, s)) = SumFunction(ColumnSums(F, s, T))
              G == {s \in SUBSET S : Fits(s)}
  <1>0. \A s \in SUBSET S : F \in [S -> [T -> Int]] /\ IsFiniteSet(s)
    BY FS_Subset
  <1>1. {} \in G
    <2>1. SumFunction(RowSums(F, {})) = 0
      BY SumEmpty DEF RowSums, SumFunction
    <2>2. \A y \in T : SumFunction(Column(F, {}, y)) = 0
      BY SumEmpty DEF Column, SumFunction
    <2>3. ColumnSums(F, {}, T) = Zeros(T)
      BY <2>2 DEF ColumnSums, Zeros
    <2>. QED  BY <2>1, <2>3, SumZeros
  <1>2. ASSUME NEW s \in SUBSET S, NEW x \in S \ s, s \in G PROVE s \cup {x} \in G
    <2>. DEFINE t == s \cup {x}
    <2>0. IsFiniteSet(s) /\ IsFiniteSet(t) /\ t \in SUBSET S /\ x \in S /\ x \notin s
      BY FS_Subset
    <2>1. /\ RowSums(F, s) \in [s -> Int] /\ RowSums(F, t) \in [t -> Int]
          /\ \A z \in s : RowSums(F, t)[z] = RowSums(F, s)[z]
          /\ RowSums(F, t)[x] = SumFunction(F[x])
          /\ F[x] \in [T -> Int]
      <3>1. RowSums(F, S) \in [S -> Int] /\ \A z \in S : F[z] \in [T -> Int]
        BY RowSumsInt
      <3>. QED  BY <2>0, <3>1 DEF RowSums
    <2>2. SumFunction(RowSums(F, t)) = SumFunction(RowSums(F, s)) + SumFunction(F[x])
      <3>1. MoreAt(RowSums(F, t), RowSums(F, s), x, s)
        BY <2>0, <2>1 DEF MoreAt
      <3>2. SumFunction(RowSums(F, t)) = SumFunction(RowSums(F, s)) + RowSums(F, t)[x]
        BY <3>1, SumMore, Zenon
      <3>. QED  BY <2>1, <3>2, Zenon
    <2>3. /\ ColumnSums(F, s, T) \in [T -> Int] /\ ColumnSums(F, t, T) \in [T -> Int]
          /\ \A y \in T : ColumnSums(F, t, T)[y] = ColumnSums(F, s, T)[y] + F[x][y]
      <3>1. ASSUME NEW y \in T
            PROVE  /\ SumFunction(Column(F, s, y)) \in Int
                   /\ SumFunction(Column(F, t, y)) = SumFunction(Column(F, s, y)) + F[x][y]
        <4>1. /\ Column(F, s, y) \in [s -> Int] /\ Column(F, t, y) \in [s \cup {x} -> Int]
              /\ \A z \in s : Column(F, t, y)[z] = Column(F, s, y)[z]
              /\ Column(F, t, y)[x] = F[x][y]
          BY <2>0 DEF Column
        <4>2. MoreAt(Column(F, t, y), Column(F, s, y), x, s)
          BY <2>0, <4>1 DEF MoreAt
        <4>. HIDE DEF t
        <4>3. /\ SumFunction(Column(F, s, y)) \in Int
              /\ SumFunction(Column(F, t, y)) = SumFunction(Column(F, s, y)) + Column(F, t, y)[x]
          BY <4>2, SumMore, Zenon
        <4>. QED  BY <4>1, <4>3, Zenon
      <3>. HIDE DEF t
      <3>2. \A y \in T : F[x][y] \in Int
        BY <2>0
      <3>3. \A y \in T : /\ ColumnSums(F, s, T)[y] = SumFunction(Column(F, s, y))
                         /\ ColumnSums(F, t, T)[y] = SumFunction(Column(F, t, y))
        BY DEF ColumnSums
      <3>4. \A y \in T : SumFunction(Column(F, s, y)) \in Int /\ SumFunction(Column(F, t, y)) \in Int
        BY <3>1, <3>2
      <3>5. ColumnSums(F, s, T) \in [T -> Int] /\ ColumnSums(F, t, T) \in [T -> Int]
        BY <3>4 DEF ColumnSums
      <3>. QED  BY <3>1, <3>2, <3>3, <3>5
    <2>4. SumFunction(ColumnSums(F, t, T)) = SumFunction(ColumnSums(F, s, T)) + SumFunction(F[x])
      <3>. HIDE DEF t
      <3>. QED  BY <2>1, <2>3, SumPlus
    <2>5. Fits(s)
      BY <1>2
    <2>. QED  BY <2>0, <2>2, <2>4, <2>5, Zenon
  <1>3. S \in G
    <2>. HIDE DEF G
    <2>. QED  BY <1>1, <1>2, FiniteInduction
  <1>. QED  BY <1>3, RowSumsInt, ColumnSumsInt

(* Every summand belongs to one group. *)
Group(f, g, b, S) == [x \in {x \in S : g[x] = b} |-> f[x]]
GroupSums(f, g, S, B) == [b \in B |-> SumFunction(Group(f, g, b, S))]

LEMMA SumOfGroups ==
  ASSUME NEW S, NEW B, IsFiniteSet(S), IsFiniteSet(B), NEW f \in [S -> Int], NEW g \in [S -> B]
  PROVE  /\ SumFunction(GroupSums(f, g, S, B)) = SumFunction(f)
         /\ GroupSums(f, g, S, B) \in [B -> Int]
         /\ \A b \in B : GroupSums(f, g, S, B)[b] = SumFunction(Group(f, g, b, S))
  <1>. DEFINE F == [b \in B |-> [x \in S |-> IF g[x] = b THEN f[x] ELSE 0]]
  <1>1. F \in [B -> [S -> Int]] /\ \A b \in B, x \in S : F[b][x] = IF g[x] = b THEN f[x] ELSE 0
    OBVIOUS
  <1>. HIDE DEF F
  <1>2. \A b \in B : SumFunction(Group(f, g, b, S)) = SumFunction(F[b])
    <2>. TAKE b \in B
    <2>1. PartOf(Group(f, g, b, S), F[b], {x \in S : g[x] = b}, S)
      BY <1>1 DEF PartOf, Group
    <2>. QED  BY <2>1, SumPartOf
  <1>3. GroupSums(f, g, S, B) = RowSums(F, B)
    BY <1>2 DEF GroupSums, RowSums
  <1>4. \A x \in S : SumFunction(Column(F, B, x)) = f[x]
    <2>. TAKE x \in S
    <2>1. Column(F, B, x) = Only(B, g[x], f[x])
      BY <1>1 DEF Column, Only
    <2>2. f[x] \in Int /\ g[x] \in B
      OBVIOUS
    <2>. QED  BY <2>1, <2>2, SumOnly
  <1>5. ColumnSums(F, B, S) = f
    BY <1>4 DEF ColumnSums
  <1>6. /\ SumFunction(RowSums(F, B)) = SumFunction(ColumnSums(F, B, S))
        /\ RowSums(F, B) \in [B -> Int]
    BY <1>1, SumOfTable, Zenon
  <1>7. \A b \in B : GroupSums(f, g, S, B)[b] = SumFunction(Group(f, g, b, S))
    BY DEF GroupSums
  <1>. QED  BY <1>3, <1>5, <1>6, <1>7
=============================================================================
