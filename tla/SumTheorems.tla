---------------------------- MODULE SumTheorems ----------------------------
(***************************************************************************)
(* Facts about SumFunctionOnSet, for the balances of the ledger.  The      *)
(* provers cannot instantiate an induction theorem, but they know that a   *)
(* nonempty set of natural numbers has a least element: each induction is  *)
(* the argument that there is no smallest counterexample.                  *)
(***************************************************************************)
EXTENDS Integers, FiniteSets, Functions, FiniteSetTheorems, WellFoundedInduction, TLAPS

(* A nonempty set of natural numbers has a least element.                  *)
LEMMA NatMin ==
    ASSUME NEW T \in SUBSET Nat, T # {}
    PROVE  \E n \in T : \A m \in T : ~ (m < n)
  <1> DEFINE R == {pair \in Nat \X Nat : pair[1] < pair[2]}
  <1>1. IsWellFoundedOn(R, Nat)
    BY NatLessThanWellFounded DEF OpToRel
  <1>2. PICK n \in T : \A m \in T : ~ (<<m, n>> \in R)
    <2> HIDE DEF R
    <2> QED
      BY <1>1, WFMin
  <1> QED
    BY <1>2

(* Among subsets of a finite set one is minimal: taking an element away    *)
(* leads outside the collection.                                           *)
LEMMA MinimalSubset ==
    ASSUME NEW U, IsFiniteSet(U), NEW C \in SUBSET (SUBSET U), C # {}
    PROVE  \E T \in C : \A x \in T : T \ {x} \notin C
  <1> DEFINE sizes == {Cardinality(T) : T \in C}
  <1>1. \A T \in C : IsFiniteSet(T) /\ Cardinality(T) \in Nat
    BY FS_Subset, FS_CardinalityType
  <1>2. PICK n \in sizes : \A m \in sizes : ~ (m < n)
    <2>1. sizes \in SUBSET Nat /\ sizes # {}
      BY <1>1
    <2> HIDE DEF sizes
    <2> QED
      BY <2>1, NatMin
  <1>3. PICK T \in C : n = Cardinality(T)
    BY <1>2
  <1>4. ASSUME NEW x \in T, T \ {x} \in C  PROVE FALSE
    <2>1. Cardinality(T \ {x}) = n - 1 /\ n \in Nat
      BY <1>1, <1>3, FS_RemoveElement
    <2>2. n - 1 \in sizes
      BY <1>4, <2>1
    <2>3. ~ (n - 1 < n)
      BY <1>2, <2>2
    <2> QED
      BY <2>1, <2>3
  <1> QED
    BY <1>4

-----------------------------------------------------------------------------
(* The table of partial sums from which a sum over S is read off.          *)
Pick(s) == CHOOSE x \in s : TRUE

IsTable(g, f, D) ==
    g = [s \in D |-> IF s = {} THEN 0 ELSE f[Pick(s)] + g[s \ {Pick(s)}]]

LEMMA PickIsIn ==
    ASSUME NEW s, s # {}
    PROVE  Pick(s) \in s
  BY DEF Pick

SmallSubsets(S, n) == {s \in SUBSET S : Cardinality(s) <= n}

(* A table for small subsets can be extended to subsets of one element     *)
(* more.                                                                   *)
LEMMA TableGrows ==
    ASSUME NEW S, IsFiniteSet(S), NEW f, NEW n \in Nat, NEW g, IsTable(g, f, SmallSubsets(S, n))
    PROVE  \E h : IsTable(h, f, SmallSubsets(S, n + 1))
  <1> DEFINE h == [s \in SmallSubsets(S, n + 1) |->
                      IF s \in SmallSubsets(S, n) THEN g[s] ELSE f[Pick(s)] + g[s \ {Pick(s)}]]
  <1>1. \A s \in SUBSET S : IsFiniteSet(s) /\ Cardinality(s) \in Nat
    BY FS_Subset, FS_CardinalityType
  <1>2. SmallSubsets(S, n) \subseteq SmallSubsets(S, n + 1)
    BY <1>1 DEF SmallSubsets
  <1>3. ASSUME NEW s \in SmallSubsets(S, n + 1), s # {}
        PROVE  /\ s \ {Pick(s)} \in SmallSubsets(S, n)
    <2>1. Cardinality(s \ {Pick(s)}) = Cardinality(s) - 1
      BY <1>1, <1>3, PickIsIn, FS_RemoveElement DEF SmallSubsets
    <2> QED
      BY <1>1, <2>1 DEF SmallSubsets
  <1>4. {} \in SmallSubsets(S, n)
    BY FS_EmptySet DEF SmallSubsets
  <1>5. ASSUME NEW s \in SmallSubsets(S, n + 1)
        PROVE  h[s] = IF s = {} THEN 0 ELSE f[Pick(s)] + h[s \ {Pick(s)}]
    <2>1. CASE s = {}
      BY <1>2, <1>4, <2>1 DEF IsTable
    <2>2. CASE s # {}
      <3>1. h[s \ {Pick(s)}] = g[s \ {Pick(s)}]
        BY <1>2, <1>3, <2>2
      <3>2. h[s] = f[Pick(s)] + g[s \ {Pick(s)}]
        BY <2>2 DEF IsTable
      <3> QED
        BY <2>2, <3>1, <3>2
    <2> QED
      BY <2>1, <2>2
  <1>6. h = [s \in SmallSubsets(S, n + 1) |-> h[s]]
    OBVIOUS
  <1> HIDE DEF h
  <1> QED
    BY <1>5, <1>6 DEF IsTable

LEMMA TableExists ==
    ASSUME NEW S, IsFiniteSet(S), NEW f
    PROVE  \E g : IsTable(g, f, SUBSET S)
  <1> DEFINE missing == {n \in Nat : ~ \E g : IsTable(g, f, SmallSubsets(S, n))}
  <1>0. \A s \in SUBSET S : IsFiniteSet(s) /\ Cardinality(s) \in Nat
    BY FS_Subset, FS_CardinalityType
  <1>1. 0 \notin missing
    <2> DEFINE g == [s \in SmallSubsets(S, 0) |-> 0]
    <2>1. \A s \in SmallSubsets(S, 0) : s = {}
      BY <1>0, FS_EmptySet DEF SmallSubsets
    <2>2. IsTable(g, f, SmallSubsets(S, 0))
      BY <2>1 DEF IsTable
    <2> QED
      BY <2>2
  <1>2. \A n \in Nat : n + 1 \in missing => n \in missing
    BY TableGrows
  <1>3. missing = {}
    <2> HIDE DEF missing
    <2> SUFFICES ASSUME missing # {}  PROVE FALSE
      OBVIOUS
    <2>1. missing \in SUBSET Nat
      BY DEF missing
    <2>2. PICK n \in missing : \A m \in missing : ~ (m < n)
      BY <2>1, NatMin
    <2>3. n - 1 \in Nat /\ n = (n - 1) + 1
      BY <1>1, <2>1, <2>2
    <2> QED
      BY <1>2, <2>2, <2>3
  <1>4. SUBSET S = SmallSubsets(S, Cardinality(S)) /\ Cardinality(S) \in Nat
    BY <1>0, FS_Subset, FS_CardinalityType DEF SmallSubsets
  <1> QED
    BY <1>3, <1>4

(* Two tables agree wherever both are defined.                             *)
LEMMA TablesAgree ==
    ASSUME NEW S, IsFiniteSet(S), NEW T \in SUBSET S, NEW f, NEW g, NEW h,
           IsTable(g, f, SUBSET S), IsTable(h, f, SUBSET T)
    PROVE  g[T] = h[T]
  <1> DEFINE differ == {s \in SUBSET T : g[s] # h[s]}
  <1>1. ASSUME differ # {}  PROVE FALSE
    <2>1. PICK s \in differ : \A x \in s : s \ {x} \notin differ
      <3>1. IsFiniteSet(T) /\ differ \in SUBSET (SUBSET T)
        BY FS_Subset
      <3> HIDE DEF differ
      <3> QED
        BY <1>1, <3>1, MinimalSubset
    <2>2. /\ g[s] = IF s = {} THEN 0 ELSE f[Pick(s)] + g[s \ {Pick(s)}]
          /\ h[s] = IF s = {} THEN 0 ELSE f[Pick(s)] + h[s \ {Pick(s)}]
      BY DEF IsTable
    <2>3. CASE s = {}
      BY <2>1, <2>2, <2>3
    <2>4. CASE s # {}
      <3>1. g[s \ {Pick(s)}] = h[s \ {Pick(s)}]
        BY <2>1, <2>4, PickIsIn
      <3> QED
        BY <2>1, <2>2, <2>4, <3>1
    <2> QED
      BY <2>3, <2>4
  <1> QED
    BY <1>1

LEMMA SumIsInTable ==
    ASSUME NEW S, IsFiniteSet(S), NEW f
    PROVE  \E g : IsTable(g, f, SUBSET S) /\ SumFunctionOnSet(f, S) = g[S]
  <1> DEFINE iter[s \in SUBSET S] ==
                 IF s = {} THEN 0
                 ELSE LET x == CHOOSE x \in s : TRUE
                      IN  f[x] + iter[s \ {x}]
  <1>1. SumFunctionOnSet(f, S) = iter[S]
    BY DEF SumFunctionOnSet, FoldFunctionOnSet, MapThenFoldSet
  <1>2. iter = CHOOSE g : IsTable(g, f, SUBSET S)
    BY DEF IsTable, Pick
  <1>3. IsTable(iter, f, SUBSET S)
    <2> HIDE DEF iter
    <2> QED
      BY <1>2, TableExists
  <1> QED
    BY <1>1, <1>3

-----------------------------------------------------------------------------
(* The sum over nothing.                                                   *)
LEMMA SumEmpty ==
    ASSUME NEW f
    PROVE  SumFunctionOnSet(f, {}) = 0
  <1>1. PICK g : IsTable(g, f, SUBSET {}) /\ SumFunctionOnSet(f, {}) = g[{}]
    BY SumIsInTable, FS_EmptySet
  <1> QED
    BY <1>1 DEF IsTable

(* The equation that defines the sum.                                      *)
LEMMA SumUnfolds ==
    ASSUME NEW S, IsFiniteSet(S), S # {}, NEW f
    PROVE  SumFunctionOnSet(f, S) = f[Pick(S)] + SumFunctionOnSet(f, S \ {Pick(S)})
  <1> DEFINE T == S \ {Pick(S)}
  <1>1. PICK g : IsTable(g, f, SUBSET S) /\ SumFunctionOnSet(f, S) = g[S]
    BY SumIsInTable
  <1>2. IsFiniteSet(T) /\ T \in SUBSET S
    BY FS_RemoveElement
  <1>3. PICK h : IsTable(h, f, SUBSET T) /\ SumFunctionOnSet(f, T) = h[T]
    <2> HIDE DEF T
    <2> QED
      BY <1>2, SumIsInTable
  <1>4. g[T] = h[T]
    <2> HIDE DEF T
    <2> QED
      BY <1>1, <1>2, <1>3, TablesAgree
  <1>5. g[S] = f[Pick(S)] + g[T]
    BY <1>1 DEF IsTable
  <1> QED
    BY <1>1, <1>3, <1>4, <1>5

(* A sum of integers is one.                                               *)
LEMMA SumType ==
    ASSUME NEW S, IsFiniteSet(S), NEW f, \A x \in S : f[x] \in Int
    PROVE  SumFunctionOnSet(f, S) \in Int
  <1> DEFINE bad == {T \in SUBSET S : SumFunctionOnSet(f, T) \notin Int}
  <1>1. ASSUME bad # {}  PROVE FALSE
    <2>1. PICK T \in bad : \A x \in T : T \ {x} \notin bad
      <3>1. bad \in SUBSET (SUBSET S)
        OBVIOUS
      <3> HIDE DEF bad
      <3> QED
        BY <1>1, <3>1, MinimalSubset
    <2>2. T # {}
      BY SumEmpty
    <2>3. Pick(T) \in S /\ IsFiniteSet(T)
      BY <2>2, PickIsIn, FS_Subset
    <2>4. SumFunctionOnSet(f, T \ {Pick(T)}) \in Int
      BY <2>1, <2>2, PickIsIn
    <2>5. SumFunctionOnSet(f, T) = f[Pick(T)] + SumFunctionOnSet(f, T \ {Pick(T)})
      BY <2>2, <2>3, SumUnfolds
    <2> QED
      BY <2>3, <2>4, <2>5
  <1> QED
    BY <1>1

(* A sum of natural numbers is one: it is never negative.                  *)
LEMMA SumNat ==
    ASSUME NEW S, IsFiniteSet(S), NEW f, \A x \in S : f[x] \in Nat
    PROVE  SumFunctionOnSet(f, S) \in Nat
  <1> DEFINE bad == {T \in SUBSET S : SumFunctionOnSet(f, T) \notin Nat}
  <1>1. ASSUME bad # {}  PROVE FALSE
    <2>1. PICK T \in bad : \A x \in T : T \ {x} \notin bad
      <3>1. bad \in SUBSET (SUBSET S)
        OBVIOUS
      <3> HIDE DEF bad
      <3> QED
        BY <1>1, <3>1, MinimalSubset
    <2>2. T # {}
      BY SumEmpty
    <2>3. Pick(T) \in T /\ IsFiniteSet(T)
      BY <2>2, PickIsIn, FS_Subset
    <2>4. SumFunctionOnSet(f, T \ {Pick(T)}) \in Nat /\ f[Pick(T)] \in Nat
      BY <2>1, <2>3
    <2>5. SumFunctionOnSet(f, T) = f[Pick(T)] + SumFunctionOnSet(f, T \ {Pick(T)})
      BY <2>2, <2>3, SumUnfolds
    <2> QED
      BY <2>4, <2>5
  <1> QED
    BY <1>1

(* Any element may be taken out of a sum.                                  *)
LEMMA SumRemove ==
    ASSUME NEW S, IsFiniteSet(S), NEW f, \A x \in S : f[x] \in Int, NEW y \in S
    PROVE  SumFunctionOnSet(f, S) = f[y] + SumFunctionOnSet(f, S \ {y})
  <1> DEFINE Splits(T) == \A x \in T : SumFunctionOnSet(f, T) = f[x] + SumFunctionOnSet(f, T \ {x})
             bad == {T \in SUBSET S : ~ Splits(T)}
  <1>1. ASSUME bad # {}  PROVE FALSE
    <2>1. PICK T \in bad : \A x \in T : T \ {x} \notin bad
      <3>1. bad \in SUBSET (SUBSET S)
        OBVIOUS
      <3> HIDE DEF bad
      <3> QED
        BY <1>1, <3>1, MinimalSubset
    <2>2. PICK x \in T : SumFunctionOnSet(f, T) # f[x] + SumFunctionOnSet(f, T \ {x})
      OBVIOUS
    <2> DEFINE z == Pick(T)
               rest == SumFunctionOnSet(f, (T \ {x}) \ {z})
    <2>3. T # {} /\ z \in T /\ IsFiniteSet(T) /\ T \in SUBSET S
      BY PickIsIn, FS_Subset
    <2>4. SumFunctionOnSet(f, T) = f[z] + SumFunctionOnSet(f, T \ {z})
      BY <2>3, SumUnfolds
    <2>5. x # z
      BY <2>2, <2>4
    <2>6. Splits(T \ {x}) /\ Splits(T \ {z})
      BY <2>1, <2>3
    <2>7. SumFunctionOnSet(f, T \ {x}) = f[z] + rest
      BY <2>3, <2>5, <2>6
    <2>8. (T \ {z}) \ {x} = (T \ {x}) \ {z}
      OBVIOUS
    <2>9. SumFunctionOnSet(f, T \ {z}) = f[x] + rest
      BY <2>3, <2>5, <2>6, <2>8
    <2>10. rest \in Int /\ f[x] \in Int /\ f[z] \in Int
      <3>1. IsFiniteSet((T \ {x}) \ {z})
        BY <2>3, FS_RemoveElement
      <3> QED
        BY <2>3, <3>1, SumType
    <2> HIDE DEF rest, z
    <2> QED
      BY <2>2, <2>4, <2>7, <2>9, <2>10
  <1> QED
    BY <1>1

(* A new element adds its value.                                           *)
LEMMA SumAdd ==
    ASSUME NEW S, IsFiniteSet(S), NEW y, y \notin S, NEW f, \A x \in S \union {y} : f[x] \in Int
    PROVE  SumFunctionOnSet(f, S \union {y}) = SumFunctionOnSet(f, S) + f[y]
  <1>1. IsFiniteSet(S \union {y}) /\ (S \union {y}) \ {y} = S
    BY FS_AddElement
  <1>2. SumFunctionOnSet(f, S \union {y}) = f[y] + SumFunctionOnSet(f, S)
    BY <1>1, SumRemove
  <1> QED
    BY <1>2, SumType

(* The sum depends on the values in the set only.                          *)
LEMMA SumSame ==
    ASSUME NEW S, IsFiniteSet(S), NEW f, NEW g, \A x \in S : f[x] = g[x]
    PROVE  SumFunctionOnSet(f, S) = SumFunctionOnSet(g, S)
  <1> DEFINE bad == {T \in SUBSET S : SumFunctionOnSet(f, T) # SumFunctionOnSet(g, T)}
  <1>1. ASSUME bad # {}  PROVE FALSE
    <2>1. PICK T \in bad : \A x \in T : T \ {x} \notin bad
      <3>1. bad \in SUBSET (SUBSET S)
        OBVIOUS
      <3> HIDE DEF bad
      <3> QED
        BY <1>1, <3>1, MinimalSubset
    <2>2. T # {}
      BY SumEmpty
    <2>3. Pick(T) \in T /\ IsFiniteSet(T)
      BY <2>2, PickIsIn, FS_Subset
    <2>4. SumFunctionOnSet(f, T \ {Pick(T)}) = SumFunctionOnSet(g, T \ {Pick(T)})
      BY <2>1, <2>3
    <2> QED
      BY <2>2, <2>3, <2>4, SumUnfolds
  <1> QED
    BY <1>1

(* A sum of zeros is zero.                                                 *)
LEMMA SumZero ==
    ASSUME NEW S, IsFiniteSet(S), NEW f, \A x \in S : f[x] = 0
    PROVE  SumFunctionOnSet(f, S) = 0
  <1> DEFINE bad == {T \in SUBSET S : SumFunctionOnSet(f, T) # 0}
  <1>1. ASSUME bad # {}  PROVE FALSE
    <2>1. PICK T \in bad : \A x \in T : T \ {x} \notin bad
      <3>1. bad \in SUBSET (SUBSET S)
        OBVIOUS
      <3> HIDE DEF bad
      <3> QED
        BY <1>1, <3>1, MinimalSubset
    <2>2. T # {}
      BY SumEmpty
    <2>3. Pick(T) \in T /\ IsFiniteSet(T)
      BY <2>2, PickIsIn, FS_Subset
    <2>4. SumFunctionOnSet(f, T \ {Pick(T)}) = 0 /\ f[Pick(T)] = 0
      BY <2>1, <2>3
    <2>5. SumFunctionOnSet(f, T) = f[Pick(T)] + SumFunctionOnSet(f, T \ {Pick(T)})
      BY <2>2, <2>3, SumUnfolds
    <2> QED
      BY <2>4, <2>5
  <1> QED
    BY <1>1

(* Changing the value at one element changes the sum by the difference.    *)
LEMMA SumChange ==
    ASSUME NEW S, IsFiniteSet(S), NEW y \in S, NEW f, NEW g,
           \A x \in S : f[x] \in Int /\ g[x] \in Int,
           \A x \in S \ {y} : g[x] = f[x]
    PROVE  SumFunctionOnSet(g, S) = SumFunctionOnSet(f, S) + g[y] - f[y]
  <1>1. IsFiniteSet(S \ {y})
    BY FS_RemoveElement
  <1>2. SumFunctionOnSet(f, S \ {y}) \in Int
    BY <1>1, SumType
  <1>3. SumFunctionOnSet(g, S \ {y}) = SumFunctionOnSet(f, S \ {y})
    BY <1>1, SumSame
  <1>4. /\ SumFunctionOnSet(f, S) = f[y] + SumFunctionOnSet(f, S \ {y})
        /\ SumFunctionOnSet(g, S) = g[y] + SumFunctionOnSet(g, S \ {y})
    BY SumRemove
  <1> QED
    BY <1>2, <1>3, <1>4

(* A sum of values that are at most M each.                                *)
LEMMA SumBound ==
    ASSUME NEW S, IsFiniteSet(S), NEW f, NEW M \in Int, \A x \in S : f[x] \in Int /\ f[x] <= M
    PROVE  SumFunctionOnSet(f, S) <= Cardinality(S) * M
  <1> DEFINE bad == {T \in SUBSET S : ~ SumFunctionOnSet(f, T) <= Cardinality(T) * M}
  <1>1. ASSUME bad # {}  PROVE FALSE
    <2>1. PICK T \in bad : \A x \in T : T \ {x} \notin bad
      <3>1. bad \in SUBSET (SUBSET S)
        OBVIOUS
      <3> HIDE DEF bad
      <3> QED
        BY <1>1, <3>1, MinimalSubset
    <2>2. T # {}
      BY SumEmpty, FS_EmptySet
    <2>3. Pick(T) \in T /\ IsFiniteSet(T) /\ IsFiniteSet(T \ {Pick(T)})
      BY <2>2, PickIsIn, FS_Subset, FS_RemoveElement
    <2> DEFINE x == f[Pick(T)]
               rest == SumFunctionOnSet(f, T \ {Pick(T)})
               n == Cardinality(T)
    <2>4. rest <= (n - 1) * M
      BY <2>1, <2>3, FS_RemoveElement
    <2>5. SumFunctionOnSet(f, T) = x + rest
      BY <2>2, <2>3, SumUnfolds
    <2>6. x \in Int /\ x <= M /\ rest \in Int /\ n \in Int
      BY <2>3, SumType, FS_CardinalityType
    <2>7. ~ (x + rest <= n * M)
      BY <2>5
    <2> HIDE DEF x, rest, n
    <2>8. (n - 1) * M = n * M - M /\ n * M \in Int
      BY <2>6
    <2> QED
      BY <2>4, <2>6, <2>7, <2>8
  <1> QED
    BY <1>1

(* More terms, none of them negative, make no smaller sum.                 *)
LEMMA SumMonotone ==
    ASSUME NEW S, IsFiniteSet(S), NEW f, \A x \in S : f[x] \in Nat, NEW R \in SUBSET S
    PROVE  SumFunctionOnSet(f, R) <= SumFunctionOnSet(f, S)
  <1> DEFINE bad == {T \in SUBSET S :
                        R \subseteq T /\ ~ SumFunctionOnSet(f, R) <= SumFunctionOnSet(f, T)}
  <1>1. ASSUME bad # {}  PROVE FALSE
    <2>1. PICK T \in bad : \A x \in T : T \ {x} \notin bad
      <3>1. bad \in SUBSET (SUBSET S)
        OBVIOUS
      <3> HIDE DEF bad
      <3> QED
        BY <1>1, <3>1, MinimalSubset
    <2>2. IsFiniteSet(T) /\ IsFiniteSet(R)
      BY FS_Subset
    <2>3. SumFunctionOnSet(f, T) \in Int /\ SumFunctionOnSet(f, R) \in Int
      BY <2>2, SumType
    <2>4. T # R
      BY <2>3
    <2>5. PICK x \in T : x \notin R
      BY <2>4
    <2>6. SumFunctionOnSet(f, T) = f[x] + SumFunctionOnSet(f, T \ {x})
      BY <2>2, SumRemove
    <2>7. SumFunctionOnSet(f, R) <= SumFunctionOnSet(f, T \ {x})
      BY <2>1, <2>5
    <2>8. f[x] \in Nat /\ SumFunctionOnSet(f, T \ {x}) \in Int
      <3>1. IsFiniteSet(T \ {x})
        BY <2>2, FS_RemoveElement
      <3> QED
        BY <3>1, SumType
    <2> QED
      BY <2>1, <2>3, <2>6, <2>7, <2>8
  <1> QED
    BY <1>1

(* A function with integer values has a greatest one on a finite set.      *)
LEMMA GreatestValue ==
    ASSUME NEW S, IsFiniteSet(S), S # {}, NEW f, \A x \in S : f[x] \in Int
    PROVE  \E y \in S : \A x \in S : f[x] <= f[y]
  <1> DEFINE bad == {T \in SUBSET S : T # {} /\ ~ \E y \in T : \A x \in T : f[x] <= f[y]}
  <1>1. ASSUME bad # {}  PROVE FALSE
    <2>1. PICK T \in bad : \A x \in T : T \ {x} \notin bad
      <3>1. bad \in SUBSET (SUBSET S)
        OBVIOUS
      <3> HIDE DEF bad
      <3> QED
        BY <1>1, <3>1, MinimalSubset
    <2>2. PICK z \in T : TRUE
      OBVIOUS
    <2>3. CASE T = {z}
      BY <2>2, <2>3
    <2>4. CASE T # {z}
      <3>1. PICK y \in T \ {z} : \A x \in T \ {z} : f[x] <= f[y]
        BY <2>1, <2>2, <2>4
      <3>2. f[y] \in Int /\ f[z] \in Int /\ \A x \in T : f[x] \in Int
        BY <2>2, <3>1
      <3>3. CASE f[z] <= f[y]
        BY <2>2, <3>1, <3>3
      <3>4. CASE f[y] <= f[z]
        BY <2>2, <3>1, <3>2, <3>4
      <3> QED
        BY <3>2, <3>3, <3>4
    <2> QED
      BY <2>3, <2>4
  <1> QED
    BY <1>1
=============================================================================
