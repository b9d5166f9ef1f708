------------------------------ MODULE SumTheorems ------------------------------
(***************************************************************************)
(* Sums over finite sets.  SumFunctionOnSet(f, S) of the community modules *)
(* is a choice among recursive functions; here it is shown to be the sum   *)
(* it is meant to be: any element can be taken out, parts add up, other    *)
(* names and unused values do not matter.  Proofs are by the smallest      *)
(* counterexample.                                                         *)
(***************************************************************************)
EXTENDS Integers, Functions, FiniteSetTheorems, WellFoundedInduction, TLAPS

(* Among subsets of a finite set there is a smallest, and so whatever fails *)
(* for some finite set fails for a smallest one: that is how sums are       *)
(* reasoned about here.                                                     *)
LEMMA SmallestSet ==
  ASSUME NEW S, IsFiniteSet(S), NEW F, \A T \in F : T \subseteq S, F # {}
  PROVE  \E T \in F : \A U \in F : U \subseteq T => U = T
<1>1. IsWellFoundedOn(StrictSubsetOrdering(S), SUBSET S)
  BY FS_StrictSubsetOrderingWellFounded, FS_FiniteSubsetsOfFinite
<1>2. \E T \in F : \A U \in F : <<U, T>> \notin StrictSubsetOrdering(S)
  <2>1. F \subseteq SUBSET S
    OBVIOUS
  <2> QED
    BY <1>1, <2>1, WFMin
<1> QED
  BY <1>2 DEF StrictSubsetOrdering

(* Whatever holds of the empty set, and is kept when an element is added,   *)
(* holds of a finite set; G is the set of the subsets it holds of.          *)
LEMMA SubsetInduction ==
  ASSUME NEW S, IsFiniteSet(S), NEW G, {} \in G,
         \A s \in SUBSET S : \A x \in S \ s : s \in G => s \cup {x} \in G
  PROVE  S \in G
<1> DEFINE F == {s \in SUBSET S : s \notin G}
<1>1. F = {}
  <2> SUFFICES ASSUME F # {} PROVE FALSE
    OBVIOUS
  <2>1. \A s \in F : s \subseteq S
    OBVIOUS
  <2> HIDE DEF F
  <2>2. PICK s \in F : \A u \in F : u \subseteq s => u = s
    BY <2>1, SmallestSet
  <2> USE DEF F
  <2>3. PICK x \in s : TRUE
    OBVIOUS
  <2>4. s \ {x} \in G
    BY <2>2, <2>3
  <2>5. (s \ {x}) \cup {x} = s
    BY <2>3
  <2>6. s \ {x} \in SUBSET S /\ x \in S \ (s \ {x})
    BY <2>3
  <2> QED
    BY <2>4, <2>5, <2>6
<1> QED
  BY <1>1

(* In the same way a set of numbers has a least one.                        *)
LEMMA LeastNat ==
  ASSUME NEW T \in SUBSET Nat, T # {}
  PROVE  \E n \in T : \A m \in T : n <= m
<1>1. PICK k \in T : TRUE
  OBVIOUS
<1> DEFINE F == {0..n : n \in {m \in T : m <= k}}
<1>2. IsFiniteSet(0..k)
  BY FS_Interval
<1>6. (\A A \in F : A \subseteq 0..k) /\ F # {}
  <2>1. \A n \in {m \in T : m <= k} : 0..n \subseteq 0..k
    OBVIOUS
  <2>2. k \in {m \in T : m <= k}
    OBVIOUS
  <2> QED
    BY <2>1, <2>2
<1> HIDE DEF F
<1>3. PICK A \in F : \A B \in F : B \subseteq A => B = A
  BY <1>2, <1>6, SmallestSet
<1>4. PICK n \in T : n <= k /\ A = 0..n
  BY <1>3 DEF F
<1>5. ASSUME NEW m \in T, m < n
      PROVE  FALSE
  <2>1. 0..m \in F /\ 0..m \subseteq A
    BY <1>4, <1>5 DEF F
  <2>2. 0..m = 0..n
    BY <2>1, <1>3, <1>4
  <2> QED
    BY <2>2, <1>5
<1> QED
  BY <1>4, <1>5

(* The library's sum, with the recursive function it chooses given a name:  *)
(* Adds(g, D, f) says that g adds up f over each of the sets in D.          *)
Some(s) == CHOOSE x \in s : TRUE
Adds(g, D, f) == g = [s \in D |-> IF s = {} THEN 0 ELSE f[Some(s)] + g[s \ {Some(s)}]]

(* What the library calls a sum is the value of such a function.            *)
LEMMA SumIsAdds ==
  ASSUME NEW f, NEW S
  PROVE  SumFunctionOnSet(f, S) = (CHOOSE g : Adds(g, SUBSET S, f))[S]
BY DEF SumFunctionOnSet, FoldFunctionOnSet, MapThenFoldSet, Adds, Some

(* The subsets of S that have at most n elements.                           *)
UpTo(S, n) == {s \in SUBSET S : Cardinality(s) <= n}

(* A function that adds up sets of n elements extends to n + 1 ...          *)
LEMMA AddsStep ==
  ASSUME NEW f, NEW S, IsFiniteSet(S), NEW n \in Nat, NEW g, Adds(g, UpTo(S, n), f)
  PROVE  \E h : Adds(h, UpTo(S, n + 1), f)
<1> DEFINE h == [s \in UpTo(S, n + 1) |-> IF s = {} THEN 0 ELSE f[Some(s)] + g[s \ {Some(s)}]]
<1>1. \A s \in UpTo(S, n + 1) : IsFiniteSet(s) /\ Cardinality(s) \in Nat
  BY FS_Subset, FS_CardinalityType DEF UpTo
<1>2. \A s \in UpTo(S, n) : h[s] = g[s]
  <2>1. UpTo(S, n) \subseteq UpTo(S, n + 1)
    BY FS_Subset, FS_CardinalityType DEF UpTo
  <2>2. \A s \in UpTo(S, n) : g[s] = IF s = {} THEN 0 ELSE f[Some(s)] + g[s \ {Some(s)}]
    BY DEF Adds
  <2> QED
    BY <2>1, <2>2
<1>3. \A s \in UpTo(S, n + 1) : s # {} => s \ {Some(s)} \in UpTo(S, n)
  <2> SUFFICES ASSUME NEW s \in UpTo(S, n + 1), s # {}
               PROVE  s \ {Some(s)} \in UpTo(S, n)
    OBVIOUS
  <2>1. Some(s) \in s
    BY DEF Some
  <2>2. Cardinality(s \ {Some(s)}) = Cardinality(s) - 1
    BY <1>1, <2>1, FS_RemoveElement
  <2> QED
    BY <2>2, <1>1 DEF UpTo
<1>4. \A s \in UpTo(S, n + 1) : h[s] = IF s = {} THEN 0 ELSE f[Some(s)] + h[s \ {Some(s)}]
  BY <1>2, <1>3
<1>5. h = [s \in UpTo(S, n + 1) |-> IF s = {} THEN 0 ELSE f[Some(s)] + h[s \ {Some(s)}]]
  BY <1>4
<1> QED
  BY <1>5 DEF Adds

(* ... so that there is one for all subsets of a finite set ...             *)
LEMMA AddsExist ==
  ASSUME NEW f, NEW S, IsFiniteSet(S)
  PROVE  \E g : Adds(g, SUBSET S, f)
<1> DEFINE T == {n \in Nat : ~\E g : Adds(g, UpTo(S, n), f)}
<1>1. \A s \in SUBSET S : IsFiniteSet(s) /\ Cardinality(s) \in Nat /\ Cardinality(s) <= Cardinality(S)
  BY FS_Subset, FS_CardinalityType
<1>2. UpTo(S, Cardinality(S)) = SUBSET S /\ Cardinality(S) \in Nat
  BY <1>1 DEF UpTo
<1>3. 0 \notin T
  <2>1. UpTo(S, 0) = {{}}
    BY <1>1, FS_EmptySet DEF UpTo
  <2>2. Adds([s \in {{}} |-> 0], {{}}, f)
    BY DEF Adds
  <2> QED
    BY <2>1, <2>2
<1>4. T = {}
  <2> SUFFICES ASSUME T # {} PROVE FALSE
    OBVIOUS
  <2>1. PICK n \in T : \A m \in T : n <= m
    BY LeastNat
  <2>2. n - 1 \in Nat /\ n - 1 \notin T
    BY <2>1, <1>3
  <2>3. \E g : Adds(g, UpTo(S, n - 1), f)
    BY <2>2
  <2>4. \E g : Adds(g, UpTo(S, (n - 1) + 1), f)
    BY <2>2, <2>3, AddsStep
  <2> QED
    BY <2>1, <2>4
<1> QED
  <2>1. ~(Cardinality(S) \in T)
    BY <1>4
  <2>2. \E g : Adds(g, UpTo(S, Cardinality(S)), f)
    BY <2>1, <1>2
  <2> QED
    BY <2>2, <1>2

(* ... and any two of them agree where both are defined.                    *)
LEMMA AddsUnique ==
  ASSUME NEW f, NEW S, IsFiniteSet(S), NEW T \in SUBSET S, NEW g, NEW h,
         Adds(g, SUBSET S, f), Adds(h, SUBSET T, f)
  PROVE  g[T] = h[T]
<1> DEFINE F == {s \in SUBSET T : g[s] # h[s]}
<1>1. \A s \in SUBSET T :
         /\ g[s] = IF s = {} THEN 0 ELSE f[Some(s)] + g[s \ {Some(s)}]
         /\ h[s] = IF s = {} THEN 0 ELSE f[Some(s)] + h[s \ {Some(s)}]
  BY DEF Adds
<1>2. F = {}
  <2> SUFFICES ASSUME F # {} PROVE FALSE
    OBVIOUS
  <2>0. IsFiniteSet(T) /\ \A s \in F : s \subseteq T
    BY FS_Subset
  <2> HIDE DEF F
  <2>1. PICK s \in F : \A u \in F : u \subseteq s => u = s
    BY <2>0, SmallestSet
  <2> USE DEF F
  <2>2. s # {} /\ Some(s) \in s
    BY <1>1 DEF Some
  <2>3. s \ {Some(s)} \notin F
    BY <2>1, <2>2
  <2> QED
    BY <1>1, <2>2, <2>3
<1> QED
  BY <1>2

(* The equation that defines a sum.                                         *)
LEMMA SumStep ==
  ASSUME NEW f, NEW S, IsFiniteSet(S)
  PROVE  SumFunctionOnSet(f, S) =
            IF S = {} THEN 0 ELSE f[Some(S)] + SumFunctionOnSet(f, S \ {Some(S)})
<1> DEFINE T == S \ {Some(S)}
           g == CHOOSE g : Adds(g, SUBSET S, f)
           h == CHOOSE h : Adds(h, SUBSET T, f)
<1>1. IsFiniteSet(T) /\ T \in SUBSET S
  BY FS_Subset
<1>2. Adds(g, SUBSET S, f) /\ Adds(h, SUBSET T, f)
  BY <1>1, AddsExist
<1>3. SumFunctionOnSet(f, S) = g[S] /\ SumFunctionOnSet(f, T) = h[T]
  BY SumIsAdds
<1> HIDE DEF g, h, T
<1>4. g[T] = h[T]
  <2>1. ASSUME NEW t \in SUBSET S, NEW a, NEW b, Adds(a, SUBSET S, f), Adds(b, SUBSET t, f)
        PROVE  a[t] = b[t]
    BY <2>1, AddsUnique
  <2> QED
    BY <1>1, <1>2, <2>1
<1>5. g[S] = IF S = {} THEN 0 ELSE f[Some(S)] + g[T]
  BY <1>2 DEF Adds, T
<1> QED
  BY <1>3, <1>4, <1>5 DEF T

(* Nothing adds up to zero.                                                 *)
LEMMA SumEmpty ==
  ASSUME NEW f
  PROVE  SumFunctionOnSet(f, {}) = 0
BY SumStep, FS_EmptySet

(* Integers add up to an integer.                                           *)
LEMMA SumInt ==
  ASSUME NEW f, NEW S, IsFiniteSet(S), \A x \in S : f[x] \in Int
  PROVE  SumFunctionOnSet(f, S) \in Int
<1> DEFINE F == {s \in SUBSET S : SumFunctionOnSet(f, s) \notin Int}
<1>1. F = {}
  <2> SUFFICES ASSUME F # {} PROVE FALSE
    OBVIOUS
  <2>1. \A s \in F : s \subseteq S
    OBVIOUS
  <2> HIDE DEF F
  <2>2. PICK s \in F : \A u \in F : u \subseteq s => u = s
    BY <2>1, SmallestSet
  <2> USE DEF F
  <2>3. s \subseteq S /\ s # {} /\ IsFiniteSet(s)
    <3>1. s \in SUBSET S /\ SumFunctionOnSet(f, s) \notin Int
      OBVIOUS
    <3> QED
      <4>1. s # {}
        BY <3>1, SumEmpty
      <4> QED
        BY <3>1, <4>1, FS_Subset
  <2>4. Some(s) \in s
    BY <2>3 DEF Some
  <2>5. SumFunctionOnSet(f, s \ {Some(s)}) \in Int
    BY <2>2, <2>3, <2>4
  <2> QED
    BY <2>3, <2>4, <2>5, SumStep
<1> QED
  BY <1>1

(* Any element can be taken out of a sum.                                   *)
LEMMA SumRemove ==
  ASSUME NEW f, NEW S, IsFiniteSet(S), \A x \in S : f[x] \in Int, NEW y \in S
  PROVE  SumFunctionOnSet(f, S) = f[y] + SumFunctionOnSet(f, S \ {y})
<1> DEFINE sum(s) == SumFunctionOnSet(f, s)
           F == {s \in SUBSET S : \E z \in s : sum(s) # f[z] + sum(s \ {z})}
<1>1. F = {}
  <2> SUFFICES ASSUME F # {} PROVE FALSE
    OBVIOUS
  <2>1. \A s \in F : s \subseteq S
    OBVIOUS
  <2> HIDE DEF F
  <2>2. PICK s \in F : \A u \in F : u \subseteq s => u = s
    BY <2>1, SmallestSet
  <2> USE DEF F
  <2>3. PICK z \in s : sum(s) # f[z] + sum(s \ {z})
    BY <2>2
  <2> DEFINE x == Some(s)
  <2>4. /\ \A u \in SUBSET S : IsFiniteSet(u) /\ sum(u) \in Int
        /\ s \subseteq S /\ x \in s
    BY <2>3, FS_Subset, SumInt DEF Some
  <2>5. sum(s) = f[x] + sum(s \ {x})
    BY <2>3, <2>4, SumStep
  <2>6. x # z
    BY <2>3, <2>5
  <2>7. s \ {x} \notin F /\ s \ {z} \notin F
    BY <2>2, <2>4
  <2>8. sum(s \ {x}) = f[z] + sum((s \ {x}) \ {z})
    BY <2>4, <2>6, <2>7
  <2>9. sum(s \ {z}) = f[x] + sum((s \ {z}) \ {x})
    BY <2>4, <2>6, <2>7
  <2>10. (s \ {x}) \ {z} = (s \ {z}) \ {x}
    OBVIOUS
  <2>11. f[x] \in Int /\ f[z] \in Int /\ sum((s \ {z}) \ {x}) \in Int
    BY <2>4
  <2>12. sum((s \ {x}) \ {z}) = sum((s \ {z}) \ {x})
    BY <2>10
  <2> HIDE DEF sum, x, F
  <2> DEFINE rest == sum((s \ {z}) \ {x})
  <2>13. sum(s) = f[x] + (f[z] + rest) /\ f[z] + sum(s \ {z}) = f[z] + (f[x] + rest)
    BY <2>5, <2>8, <2>9, <2>12
  <2>14. f[x] \in Int /\ f[z] \in Int /\ rest \in Int
    BY <2>11
  <2> HIDE DEF rest
  <2>15. f[x] + (f[z] + rest) = f[z] + (f[x] + rest)
    BY <2>14
  <2> QED
    BY <2>3, <2>13, <2>15
<1> QED
  BY <1>1

(* One more element adds its value.                                         *)
LEMMA SumAdd ==
  ASSUME NEW f, NEW S, IsFiniteSet(S), \A x \in S : f[x] \in Int, NEW y, y \notin S, f[y] \in Int
  PROVE  SumFunctionOnSet(f, S \cup {y}) = f[y] + SumFunctionOnSet(f, S)
<1>1. /\ IsFiniteSet(S \cup {y}) /\ y \in S \cup {y}
      /\ \A x \in S \cup {y} : f[x] \in Int
  BY FS_AddElement
<1>2. (S \cup {y}) \ {y} = S
  OBVIOUS
<1>3. SumFunctionOnSet(f, S \cup {y}) = f[y] + SumFunctionOnSet(f, (S \cup {y}) \ {y})
  BY <1>1, SumRemove
<1> QED
  BY <1>2, <1>3

(* Only the values that are added count.                                    *)
LEMMA SumSame ==
  ASSUME NEW f, NEW g, NEW S, IsFiniteSet(S), \A x \in S : f[x] = g[x]
  PROVE  SumFunctionOnSet(f, S) = SumFunctionOnSet(g, S)
<1> DEFINE F == {s \in SUBSET S : SumFunctionOnSet(f, s) # SumFunctionOnSet(g, s)}
<1>1. F = {}
  <2> SUFFICES ASSUME F # {} PROVE FALSE
    OBVIOUS
  <2>1. \A s \in F : s \subseteq S
    OBVIOUS
  <2> HIDE DEF F
  <2>2. PICK s \in F : \A u \in F : u \subseteq s => u = s
    BY <2>1, SmallestSet
  <2> USE DEF F
  <2>3. s \subseteq S /\ IsFiniteSet(s)
    BY FS_Subset
  <2>4. s # {}
    BY SumEmpty
  <2>5. Some(s) \in s
    BY <2>4 DEF Some
  <2>6. s \ {Some(s)} \notin F
    BY <2>2, <2>5
  <2>7. SumFunctionOnSet(f, s \ {Some(s)}) = SumFunctionOnSet(g, s \ {Some(s)})
    BY <2>3, <2>6
  <2>8. f[Some(s)] = g[Some(s)]
    BY <2>3, <2>5
  <2>9. /\ SumFunctionOnSet(f, s) = f[Some(s)] + SumFunctionOnSet(f, s \ {Some(s)})
        /\ SumFunctionOnSet(g, s) = g[Some(s)] + SumFunctionOnSet(g, s \ {Some(s)})
    BY <2>3, <2>4, SumStep
  <2> QED
    BY <2>7, <2>8, <2>9
<1> QED
  BY <1>1

(* A sum of two parts.                                                      *)
LEMMA SumUnion ==
  ASSUME NEW f, NEW S, IsFiniteSet(S), NEW T, IsFiniteSet(T), S \cap T = {},
         \A x \in S \cup T : f[x] \in Int
  PROVE  SumFunctionOnSet(f, S \cup T) = SumFunctionOnSet(f, S) + SumFunctionOnSet(f, T)
<1> DEFINE sum(s) == SumFunctionOnSet(f, s)
           F == {t \in SUBSET T : sum(S \cup t) # sum(S) + sum(t)}
<1>1. F = {}
  <2> SUFFICES ASSUME F # {} PROVE FALSE
    OBVIOUS
  <2>1. \A t \in F : t \subseteq T
    OBVIOUS
  <2> HIDE DEF F
  <2>2. PICK t \in F : \A u \in F : u \subseteq t => u = t
    BY <2>1, SmallestSet
  <2> USE DEF F
  <2>3. \A u \in SUBSET T : IsFiniteSet(u) /\ sum(u) \in Int /\ IsFiniteSet(S \cup u) /\ sum(S \cup u) \in Int
    BY FS_Subset, FS_Union, SumInt
  <2>4. t # {}
    <3>1. sum({}) = 0 /\ sum(S) \in Int /\ S \cup {} = S
      BY SumEmpty, SumInt
    <3> QED
      BY <3>1
  <2>5. PICK y \in t : TRUE
    BY <2>4
  <2> DEFINE u == t \ {y}
  <2>6. sum(S \cup u) = sum(S) + sum(u)
    BY <2>2, <2>5
  <2>7. (S \cup t) \ {y} = S \cup u /\ y \in S \cup t /\ f[y] \in Int
    BY <2>1, <2>5
  <2>8. sum(S \cup t) = f[y] + sum((S \cup t) \ {y})
    BY <2>1, <2>3, <2>7, SumRemove
  <2>9. sum(t) = f[y] + sum(u)
    BY <2>1, <2>3, <2>5, SumRemove
  <2>10. sum(S) \in Int /\ sum(u) \in Int
    BY <2>3, SumInt
  <2>11. sum(S \cup t) # sum(S) + sum(t)
    BY <2>2
  <2>12. sum(S \cup t) = f[y] + (sum(S) + sum(u))
    BY <2>6, <2>7, <2>8
  <2> HIDE DEF sum, u
  <2> QED
    BY <2>7, <2>9, <2>10, <2>11, <2>12
<1>2. T \notin F
  BY <1>1
<1> QED
  BY <1>2

(* Natural numbers add up to a natural number.                              *)
LEMMA SumNat ==
  ASSUME NEW f, NEW S, IsFiniteSet(S), \A x \in S : f[x] \in Nat
  PROVE  SumFunctionOnSet(f, S) \in Nat
<1> DEFINE F == {s \in SUBSET S : SumFunctionOnSet(f, s) \notin Nat}
<1>1. F = {}
  <2> SUFFICES ASSUME F # {} PROVE FALSE
    OBVIOUS
  <2>1. \A s \in F : s \subseteq S
    OBVIOUS
  <2> HIDE DEF F
  <2>2. PICK s \in F : \A u \in F : u \subseteq s => u = s
    BY <2>1, SmallestSet
  <2> USE DEF F
  <2>3. s \subseteq S /\ IsFiniteSet(s)
    BY FS_Subset
  <2>4. s # {}
    BY SumEmpty
  <2>5. Some(s) \in s
    BY <2>4 DEF Some
  <2>6. SumFunctionOnSet(f, s \ {Some(s)}) \in Nat
    BY <2>2, <2>3, <2>5
  <2> QED
    BY <2>3, <2>4, <2>5, <2>6, SumStep
<1> QED
  BY <1>1

(* Of natural numbers fewer do not add up to more.                          *)
LEMMA SumSubset ==
  ASSUME NEW f, NEW S, IsFiniteSet(S), \A x \in S : f[x] \in Nat, NEW T \in SUBSET S
  PROVE  /\ SumFunctionOnSet(f, T) \in Nat /\ SumFunctionOnSet(f, S) \in Nat
         /\ SumFunctionOnSet(f, T) <= SumFunctionOnSet(f, S)
<1>1. /\ IsFiniteSet(T) /\ IsFiniteSet(S \ T) /\ T \cap (S \ T) = {}
      /\ T \cup (S \ T) = S
  BY FS_Subset
<1>2. SumFunctionOnSet(f, T \cup (S \ T)) = SumFunctionOnSet(f, T) + SumFunctionOnSet(f, S \ T)
  BY <1>1, SumUnion
<1>3. SumFunctionOnSet(f, T) \in Nat /\ SumFunctionOnSet(f, S \ T) \in Nat
  BY <1>1, SumNat
<1>4. SumFunctionOnSet(f, S) = SumFunctionOnSet(f, T) + SumFunctionOnSet(f, S \ T)
  BY <1>1, <1>2
<1> QED
  BY <1>3, <1>4

(* Zeros add up to zero.                                                    *)
LEMMA SumZero ==
  ASSUME NEW f, NEW S, IsFiniteSet(S), \A x \in S : f[x] = 0
  PROVE  SumFunctionOnSet(f, S) = 0
<1> DEFINE F == {s \in SUBSET S : SumFunctionOnSet(f, s) # 0}
<1>1. F = {}
  <2> SUFFICES ASSUME F # {} PROVE FALSE
    OBVIOUS
  <2>1. \A s \in F : s \subseteq S
    OBVIOUS
  <2> HIDE DEF F
  <2>2. PICK s \in F : \A u \in F : u \subseteq s => u = s
    BY <2>1, SmallestSet
  <2> USE DEF F
  <2>3. s \subseteq S /\ IsFiniteSet(s)
    BY FS_Subset
  <2>4. s # {}
    BY SumEmpty
  <2>5. Some(s) \in s
    BY <2>4 DEF Some
  <2>6. SumFunctionOnSet(f, s \ {Some(s)}) = 0
    BY <2>2, <2>3, <2>5
  <2> QED
    BY <2>3, <2>4, <2>5, <2>6, SumStep
<1> QED
  BY <1>1

(* One value of the function changes.                                       *)
LEMMA SumChange ==
  ASSUME NEW f, NEW g, NEW S, IsFiniteSet(S), NEW y \in S,
         \A x \in S : f[x] \in Int, \A x \in S \ {y} : g[x] = f[x], g[y] \in Int
  PROVE  SumFunctionOnSet(g, S) = SumFunctionOnSet(f, S) + (g[y] - f[y])
<1>1. IsFiniteSet(S \ {y}) /\ SumFunctionOnSet(f, S \ {y}) \in Int
  BY FS_RemoveElement, SumInt
<1>2. SumFunctionOnSet(g, S \ {y}) = SumFunctionOnSet(f, S \ {y})
  BY <1>1, SumSame
<1>3. /\ SumFunctionOnSet(f, S) = f[y] + SumFunctionOnSet(f, S \ {y})
      /\ SumFunctionOnSet(g, S) = g[y] + SumFunctionOnSet(g, S \ {y})
  BY SumRemove
<1> QED
  BY <1>1, <1>2, <1>3

(* The same values under other names.                                       *)
LEMMA SumRenamed ==
  ASSUME NEW f, NEW S, IsFiniteSet(S), NEW g, NEW m,
         \A x \in S : g[m[x]] = f[x] /\ f[x] \in Int,
         \A x, y \in S : m[x] = m[y] => x = y
  PROVE  SumFunctionOnSet(g, {m[x] : x \in S}) = SumFunctionOnSet(f, S)
<1> DEFINE image(s) == {m[x] : x \in s}
           F == {s \in SUBSET S : ~(/\ IsFiniteSet(image(s))
                                    /\ SumFunctionOnSet(g, image(s)) = SumFunctionOnSet(f, s))}
<1>1. F = {}
  <2> SUFFICES ASSUME F # {} PROVE FALSE
    OBVIOUS
  <2>1. \A s \in F : s \subseteq S
    OBVIOUS
  <2> HIDE DEF F
  <2>2. PICK s \in F : \A u \in F : u \subseteq s => u = s
    BY <2>1, SmallestSet
  <2> USE DEF F
  <2>3. s \subseteq S /\ IsFiniteSet(s)
      /\ ~(IsFiniteSet(image(s)) /\ SumFunctionOnSet(g, image(s)) = SumFunctionOnSet(f, s))
    BY FS_Subset
  <2>4. s # {}
    <3>1. image({}) = {}
      OBVIOUS
    <3> QED
      BY <2>3, <3>1, SumEmpty, FS_EmptySet
  <2>5. PICK y \in s : TRUE
    BY <2>4
  <2> DEFINE u == s \ {y}
  <2>6. IsFiniteSet(image(u)) /\ SumFunctionOnSet(g, image(u)) = SumFunctionOnSet(f, u)
    <3>1. u \in SUBSET S /\ u \notin F
      <4> HIDE DEF F
      <4>1. u \subseteq s /\ u # s
        BY <2>5
      <4> QED
        BY <2>2, <2>3, <4>1
    <3> HIDE DEF image, u
    <3> QED
      BY <3>1
  <2>7. image(s) = image(u) \cup {m[y]} /\ m[y] \notin image(u)
    BY <2>3, <2>5
  <2>8. IsFiniteSet(image(s))
    <3> HIDE DEF image, u
    <3>1. IsFiniteSet(image(u) \cup {m[y]})
      BY <2>6, FS_AddElement
    <3> QED
      BY <2>7, <3>1
  <2>9. SumFunctionOnSet(g, image(u) \cup {m[y]}) = g[m[y]] + SumFunctionOnSet(g, image(u))
    <3>1. (\A z \in image(u) : g[z] \in Int) /\ g[m[y]] \in Int
      BY <2>3, <2>5
    <3> QED
      BY <2>6, <2>7, <3>1, SumAdd
  <2>10. SumFunctionOnSet(f, s) = f[y] + SumFunctionOnSet(f, u)
    BY <2>3, <2>5, SumRemove
  <2>11. g[m[y]] = f[y]
    BY <2>3, <2>5
  <2> HIDE DEF image, u, F
  <2> QED
    BY <2>3, <2>6, <2>7, <2>8, <2>9, <2>10, <2>11
<1>2. S \notin F
  BY <1>1
<1> QED
  BY <1>2

(* One value changes, or enters or leaves what is added: all but y are the  *)
(* same before and after.                                                   *)
SameBut(y, U, f, A, g, B) ==
  \A x \in U :
     /\ f[x] \in Int /\ g[x] \in Int
     /\ x # y => f[x] = g[x] /\ (x \in A <=> x \in B)

(* What y counts in a sum over A.                                           *)
Count(y, f, A) == IF y \in A THEN f[y] ELSE 0

(* The sum moves by what y counted after, less what it counted before.      *)
LEMMA SumMoves ==
  ASSUME NEW U, IsFiniteSet(U), NEW f, NEW A \in SUBSET U, NEW g, NEW B \in SUBSET U,
         NEW y \in U, SameBut(y, U, f, A, g, B)
  PROVE  /\ SumFunctionOnSet(f, A) \in Int /\ SumFunctionOnSet(g, B) \in Int
         /\ SumFunctionOnSet(g, B) = SumFunctionOnSet(f, A)
               + (Count(y, g, B) - Count(y, f, A))
<1> DEFINE C == A \ {y}
<1>0. /\ \A x \in A : f[x] \in Int
      /\ \A x \in B : g[x] \in Int
      /\ C = B \ {y}
      /\ \A x \in C : f[x] = g[x]
  BY DEF SameBut
<1>1. IsFiniteSet(A) /\ IsFiniteSet(B) /\ IsFiniteSet(C)
  BY FS_Subset
<1>2. SumFunctionOnSet(f, C) \in Int /\ SumFunctionOnSet(g, C) = SumFunctionOnSet(f, C)
  BY <1>0, <1>1, SumInt, SumSame
<1>3. SumFunctionOnSet(f, A) = SumFunctionOnSet(f, C) + IF y \in A THEN f[y] ELSE 0
  <2>1. CASE y \in A
    BY <1>0, <1>1, <1>2, <2>1, SumRemove
  <2>2. CASE y \notin A
    <3>1. C = A
      BY <1>0, <2>2
    <3> HIDE DEF C
    <3> QED
      BY <1>2, <2>2, <3>1
  <2> QED
    BY <2>1, <2>2
<1>4. SumFunctionOnSet(g, B) = SumFunctionOnSet(g, C) + IF y \in B THEN g[y] ELSE 0
  <2>1. CASE y \in B
    BY <1>0, <1>1, <1>2, <2>1, SumRemove
  <2>2. CASE y \notin B
    <3>1. C = B
      BY <1>0, <2>2
    <3> HIDE DEF C
    <3> QED
      BY <1>2, <2>2, <3>1
  <2> QED
    BY <2>1, <2>2
<1>5. /\ y \in A => f[y] \in Int
      /\ y \in B => g[y] \in Int
  BY DEF SameBut
<1> HIDE DEF C
<1> QED
  BY <1>2, <1>3, <1>4, <1>5 DEF Count

(* The sum of sums.                                                         *)
LEMMA SumPlus ==
  ASSUME NEW f, NEW g, NEW h, NEW S, IsFiniteSet(S),
         \A x \in S : f[x] \in Int /\ g[x] \in Int /\ h[x] = f[x] + g[x]
  PROVE  SumFunctionOnSet(h, S) = SumFunctionOnSet(f, S) + SumFunctionOnSet(g, S)
<1> DEFINE sum(e, s) == SumFunctionOnSet(e, s)
           G == {s \in SUBSET S : sum(h, s) = sum(f, s) + sum(g, s)}
<1>1. {} \in G
  BY SumEmpty
<1>2. ASSUME NEW s \in SUBSET S, NEW x \in S \ s, s \in G
      PROVE  s \cup {x} \in G
  <2>1. IsFiniteSet(s) /\ \A y \in S : h[y] \in Int
    BY FS_Subset
  <2>2. /\ sum(f, s \cup {x}) = f[x] + sum(f, s)
        /\ sum(g, s \cup {x}) = g[x] + sum(g, s)
        /\ sum(h, s \cup {x}) = h[x] + sum(h, s)
    BY <2>1, SumAdd
  <2>3. sum(f, s) \in Int /\ sum(g, s) \in Int
    BY <2>1, SumInt
  <2> HIDE DEF sum
  <2>4. sum(h, s \cup {x}) = sum(f, s \cup {x}) + sum(g, s \cup {x})
    BY <1>2, <2>2, <2>3
  <2> QED
    BY <2>4
<1> HIDE DEF G
<1>3. S \in G
  BY <1>1, <1>2, SubsetInduction
<1> QED
  BY <1>3 DEF G

(* A common factor can be taken out of a sum.                               *)
LEMMA SumScaled ==
  ASSUME NEW f, NEW g, NEW S, IsFiniteSet(S), NEW k \in Int,
         \A x \in S : f[x] \in Int /\ g[x] = k * f[x]
  PROVE  SumFunctionOnSet(g, S) = k * SumFunctionOnSet(f, S)
<1> DEFINE sum(e, s) == SumFunctionOnSet(e, s)
           G == {s \in SUBSET S : sum(g, s) = k * sum(f, s)}
<1>1. {} \in G
  BY SumEmpty
<1>2. ASSUME NEW s \in SUBSET S, NEW x \in S \ s, s \in G
      PROVE  s \cup {x} \in G
  <2>1. IsFiniteSet(s) /\ \A y \in S : g[y] \in Int
    BY FS_Subset
  <2>2. /\ sum(f, s \cup {x}) = f[x] + sum(f, s)
        /\ sum(g, s \cup {x}) = k * f[x] + sum(g, s)
    BY <2>1, SumAdd
  <2>3. sum(f, s) \in Int /\ f[x] \in Int
    BY <2>1, SumInt
  <2> HIDE DEF sum
  <2>4. k * (f[x] + sum(f, s)) = k * f[x] + k * sum(f, s)
    BY <2>3
  <2>5. sum(g, s \cup {x}) = k * sum(f, s \cup {x})
    BY <1>2, <2>2, <2>4
  <2> QED
    BY <2>5
<1> HIDE DEF G
<1>3. S \in G
  BY <1>1, <1>2, SubsetInduction
<1> QED
  BY <1>3 DEF G

(* Larger values add up to more.                                            *)
LEMMA SumMonotone ==
  ASSUME NEW f, NEW g, NEW S, IsFiniteSet(S),
         \A x \in S : f[x] \in Nat /\ g[x] \in Nat /\ f[x] <= g[x]
  PROVE  SumFunctionOnSet(f, S) <= SumFunctionOnSet(g, S)
<1> DEFINE more == [x \in S |-> g[x] - f[x]]
<1>1. \A x \in S : more[x] \in Nat /\ g[x] = f[x] + more[x]
  OBVIOUS
<1> HIDE DEF more
<1>2. SumFunctionOnSet(g, S) = SumFunctionOnSet(f, S) + SumFunctionOnSet(more, S)
  BY <1>1, SumPlus
<1>3. SumFunctionOnSet(f, S) \in Nat /\ SumFunctionOnSet(more, S) \in Nat
  BY <1>1, SumNat
<1> QED
  BY <1>2, <1>3

(* Ones add up to the number of them.                                       *)
LEMMA SumOnes ==
  ASSUME NEW f, NEW S, IsFiniteSet(S), \A x \in S : f[x] \in {0, 1}
  PROVE  SumFunctionOnSet(f, S) = Cardinality({x \in S : f[x] = 1})
<1> DEFINE ones(s) == {x \in s : f[x] = 1}
           G == {s \in SUBSET S : SumFunctionOnSet(f, s) = Cardinality(ones(s))}
<1>1. {} \in G
  BY SumEmpty, FS_EmptySet
<1>2. ASSUME NEW s \in SUBSET S, NEW x \in S \ s, s \in G
      PROVE  s \cup {x} \in G
  <2>1. IsFiniteSet(s) /\ IsFiniteSet(ones(s)) /\ x \notin ones(s)
    BY FS_Subset
  <2>2. SumFunctionOnSet(f, s \cup {x}) = f[x] + Cardinality(ones(s))
    BY <1>2, <2>1, SumAdd
  <2>3. Cardinality(ones(s \cup {x})) = f[x] + Cardinality(ones(s))
    <3>1. Cardinality(ones(s)) \in Nat
      BY <2>1, FS_CardinalityType
    <3>2. CASE f[x] = 1
      <4>1. ones(s \cup {x}) = ones(s) \cup {x}
        BY <3>2
      <4>2. Cardinality(ones(s) \cup {x}) = Cardinality(ones(s)) + 1
        <5> HIDE DEF ones
        <5> QED
          BY <2>1, FS_AddElement
      <4>3. Cardinality(ones(s \cup {x})) = Cardinality(ones(s)) + 1
        BY <4>1, <4>2
      <4> QED
        BY <3>1, <3>2, <4>3
    <3>3. CASE f[x] = 0
      <4>1. ones(s \cup {x}) = ones(s)
        BY <3>3
      <4> QED
        BY <3>1, <3>3, <4>1
    <3> QED
      BY <3>2, <3>3
  <2> QED
    BY <2>2, <2>3
<1> HIDE DEF G
<1>3. S \in G
  BY <1>1, <1>2, SubsetInduction
<1> QED
  BY <1>3 DEF G

(* Equal values add up to the value for each of them.                       *)
LEMMA SumConstant ==
  ASSUME NEW f, NEW S, IsFiniteSet(S), NEW k \in Int, \A x \in S : f[x] = k
  PROVE  SumFunctionOnSet(f, S) = k * Cardinality(S)
<1> DEFINE one == [x \in S |-> 1]
<1>1. SumFunctionOnSet(f, S) = k * SumFunctionOnSet(one, S)
  <2>1. \A x \in S : one[x] \in Int /\ f[x] = k * one[x]
    OBVIOUS
  <2> HIDE DEF one
  <2> QED
    BY <2>1, SumScaled
<1>2. SumFunctionOnSet(one, S) = Cardinality(S)
  <2>1. \A x \in S : one[x] \in {0, 1}
    OBVIOUS
  <2>2. {x \in S : one[x] = 1} = S
    OBVIOUS
  <2> HIDE DEF one
  <2> QED
    BY <2>1, <2>2, SumOnes
<1> QED
  BY <1>1, <1>2

(* A sum over parts that do not overlap, each worth so much for each of its *)
(* members, is the sum over the members.                                    *)
LEMMA SumCover ==
  ASSUME NEW S, IsFiniteSet(S), NEW part, \A x \in S : IsFiniteSet(part[x]),
         \A x, y \in S : x # y => part[x] \cap part[y] = {},
         NEW v, \A x \in S : v[x] \in Int,
         NEW f, \A x \in S : f[x] = v[x] * Cardinality(part[x]),
         NEW g, \A x \in S : \A t \in part[x] : g[t] = v[x]
  PROVE  SumFunctionOnSet(f, S) = SumFunctionOnSet(g, UNION {part[x] : x \in S})
<1> DEFINE whole(s) == UNION {part[x] : x \in s}
           G == {s \in SUBSET S : /\ IsFiniteSet(whole(s))
                                  /\ SumFunctionOnSet(f, s) = SumFunctionOnSet(g, whole(s))}
<1>1. {} \in G
  <2>1. whole({}) = {}
    OBVIOUS
  <2> QED
    BY <2>1, SumEmpty, FS_EmptySet
<1>2. ASSUME NEW s \in SUBSET S, NEW x \in S \ s, s \in G
      PROVE  s \cup {x} \in G
  <2> DEFINE W == whole(s)
             V == whole(s \cup {x})
  <2>1. IsFiniteSet(s) /\ IsFiniteSet(W) /\ IsFiniteSet(part[x])
    BY <1>2, FS_Subset
  <2>2. V = W \cup part[x] /\ W \cap part[x] = {}
    OBVIOUS
  <2>3. \A t \in W \cup part[x] : g[t] \in Int
    OBVIOUS
  <2>4. \A y \in S : f[y] \in Int
    <3> TAKE y \in S
    <3>1. Cardinality(part[y]) \in Nat
      BY FS_CardinalityType
    <3> QED
      BY <3>1
  <2>5. SumFunctionOnSet(f, s \cup {x}) = f[x] + SumFunctionOnSet(f, s)
    BY <2>1, <2>4, SumAdd
  <2> HIDE DEF W, V
  <2>6. SumFunctionOnSet(g, W \cup part[x])
          = SumFunctionOnSet(g, W) + SumFunctionOnSet(g, part[x])
    BY <2>1, <2>2, <2>3, SumUnion
  <2>7. SumFunctionOnSet(g, part[x]) = f[x]
    BY <2>1, SumConstant
  <2>8. SumFunctionOnSet(g, W) \in Int /\ f[x] \in Int
    BY <2>1, <2>3, <2>4, SumInt
  <2>9. IsFiniteSet(V)
    BY <2>1, <2>2, FS_Union
  <2>10. SumFunctionOnSet(f, s) = SumFunctionOnSet(g, W)
    BY <1>2 DEF W
  <2>11. SumFunctionOnSet(f, s \cup {x}) = SumFunctionOnSet(g, V)
    BY <2>2, <2>5, <2>6, <2>7, <2>8, <2>10
  <2> QED
    BY <2>9, <2>11 DEF V
<1> HIDE DEF G
<1>3. S \in G
  BY <1>1, <1>2, SubsetInduction
<1> QED
  BY <1>3 DEF G

(* Values of at most k add up to at most k for each of them.                *)
LEMMA SumAtMost ==
  ASSUME NEW f, NEW S, IsFiniteSet(S), NEW k \in Nat,
         \A x \in S : f[x] \in Nat /\ f[x] <= k
  PROVE  SumFunctionOnSet(f, S) <= k * Cardinality(S)
<1> DEFINE sum(s) == SumFunctionOnSet(f, s)
           size(s) == Cardinality(s)
           G == {s \in SUBSET S : sum(s) <= k * size(s)}
<1>1. {} \in G
  BY SumEmpty, FS_EmptySet
<1>2. ASSUME NEW s \in SUBSET S, NEW x \in S \ s, s \in G
      PROVE  s \cup {x} \in G
  <2>1. IsFiniteSet(s)
    BY FS_Subset
  <2>2. sum(s \cup {x}) = f[x] + sum(s)
    BY <2>1, SumAdd
  <2>3. size(s \cup {x}) = size(s) + 1
    BY <2>1, FS_AddElement
  <2>4. sum(s) \in Nat /\ size(s) \in Nat
    BY <2>1, SumNat, FS_CardinalityType
  <2> HIDE DEF sum, size
  <2>5. k * (size(s) + 1) = k * size(s) + k
    BY <2>4
  <2>6. k * size(s) \in Nat
    BY <2>4
  <2>7. sum(s \cup {x}) <= k * size(s \cup {x})
    BY <1>2, <2>2, <2>3, <2>4, <2>5, <2>6
  <2> QED
    BY <2>7
<1> HIDE DEF G
<1>3. S \in G
  BY <1>1, <1>2, SubsetInduction
<1> QED
  BY <1>3 DEF G

(* Of the elements of a finite set that are strictly ordered by who is      *)
(* ahead of whom, k have fewer than k ahead of them.                        *)
LEMMA FirstsCount ==
  ASSUME NEW S, IsFiniteSet(S), NEW ahead \in [S -> SUBSET S],
         \A x \in S : x \notin ahead[x],
         \A x, y \in S : x \in ahead[y] => ahead[x] \subseteq ahead[y],
         \A x, y \in S : x = y \/ x \in ahead[y] \/ y \in ahead[x],
         NEW k \in 0..Cardinality(S)
  PROVE  Cardinality({x \in S : Cardinality(ahead[x]) < k}) = k
<1> DEFINE n == Cardinality(S)
           rank == [x \in S |-> Cardinality(ahead[x])]
           first == {x \in S : rank[x] < k}
<1>1. n \in Nat /\ \A x \in S : IsFiniteSet(ahead[x]) /\ rank[x] \in Nat
  <2>1. \A x \in S : IsFiniteSet(ahead[x])
    BY FS_Subset
  <2> QED
    BY <2>1, FS_CardinalityType
<1>2. rank \in [S -> 0..(n - 1)]
  <2>1. ASSUME NEW x \in S PROVE rank[x] \in 0..(n - 1)
    <3>1. rank[x] <= n /\ (rank[x] = n => ahead[x] = S)
      BY FS_Subset
    <3>2. rank[x] # n
      BY <3>1
    <3> HIDE DEF rank, n
    <3> QED
      BY <1>1, <3>1, <3>2
  <2> QED
    BY <2>1
<1>3. ASSUME NEW x \in S, NEW y \in S, x \in ahead[y]
      PROVE  rank[x] < rank[y]
  <2>1. ahead[x] \in SUBSET ahead[y] /\ ahead[x] # ahead[y]
    BY <1>3
  <2>2. rank[x] <= rank[y] /\ rank[x] # rank[y]
    BY <1>1, <2>1, FS_Subset
  <2> HIDE DEF rank
  <2> QED
    BY <1>1, <2>2
<1>4. \A x, y \in S : rank[x] = rank[y] => x = y
  <2> HIDE DEF rank
  <2> QED
    BY <1>1, <1>3
<1>5. \A i \in 0..(n - 1) : \E x \in S : rank[x] = i
  <2>1. rank \in Injection(S, 0..(n - 1))
    BY <1>2, <1>4 DEF Injection, IsInjective
  <2>2. IsFiniteSet(0..(n - 1)) /\ Cardinality(0..(n - 1)) = n
    <3> HIDE DEF n
    <3>1. 0 \in Int /\ n - 1 \in Int /\ (n - 1) - 0 + 1 = n /\ (0 > n - 1 => n = 0)
      BY <1>1
    <3>2. IsFiniteSet(0..(n - 1))
          /\ Cardinality(0..(n - 1)) = IF 0 > n - 1 THEN 0 ELSE (n - 1) - 0 + 1
      BY <3>1, FS_Interval
    <3> QED
      BY <3>1, <3>2
  <2>3. rank \in Surjection(S, 0..(n - 1))
    BY <2>1, <2>2, FS_Injection
  <2> HIDE DEF rank
  <2> QED
    BY <2>3 DEF Surjection
<1>6. ExistsBijection(0..(k - 1), first)
  <2> DEFINE at == [i \in 0..(k - 1) |-> CHOOSE x \in S : rank[x] = i]
  <2>1. ASSUME NEW i \in 0..(k - 1) PROVE at[i] \in S /\ rank[at[i]] = i
    <3>1. i \in 0..(n - 1)
      BY <1>1
    <3> HIDE DEF rank, n
    <3> QED
      BY <1>5, <3>1
  <2> HIDE DEF rank
  <2>2. at \in [0..(k - 1) -> first]
    BY <2>1
  <2>3. \A i, j \in 0..(k - 1) : at[i] = at[j] => i = j
    <3> HIDE DEF at
    <3> QED
      BY <2>1
  <2>4. ASSUME NEW x \in first PROVE \E i \in 0..(k - 1) : at[i] = x
    <3>1. rank[x] \in 0..(k - 1)
      BY <1>1
    <3>2. at[rank[x]] \in S /\ rank[at[rank[x]]] = rank[x]
      BY <2>1, <3>1
    <3>3. at[rank[x]] = x
      BY <1>4, <3>2
    <3> QED
      BY <3>1, <3>3
  <2> HIDE DEF at, first
  <2>5. at \in Bijection(0..(k - 1), first)
    BY <2>2, <2>3, <2>4 DEF Bijection, Injection, Surjection, IsInjective
  <2> QED
    BY <2>5 DEF ExistsBijection
<1>7. IsFiniteSet(0..(k - 1)) /\ Cardinality(0..(k - 1)) = k
  BY FS_Interval
<1>8. Cardinality(first) = k
  <2> HIDE DEF first
  <2> QED
    BY <1>6, <1>7, FS_Bijection
<1>9. first = {x \in S : Cardinality(ahead[x]) < k}
  OBVIOUS
<1> QED
  BY <1>8, <1>9

(* A sum of sums over parts that do not overlap is the sum over them all.   *)
LEMMA SumParts ==
  ASSUME NEW S, IsFiniteSet(S), NEW part, \A x \in S : IsFiniteSet(part[x]),
         \A x, y \in S : x # y => part[x] \cap part[y] = {},
         NEW g, \A x \in S : \A t \in part[x] : g[t] \in Int,
         NEW f, \A x \in S : f[x] = SumFunctionOnSet(g, part[x])
  PROVE  SumFunctionOnSet(f, S) = SumFunctionOnSet(g, UNION {part[x] : x \in S})
<1> DEFINE whole(s) == UNION {part[x] : x \in s}
           G == {s \in SUBSET S : /\ IsFiniteSet(whole(s))
                                  /\ SumFunctionOnSet(f, s) = SumFunctionOnSet(g, whole(s))}
<1>1. {} \in G
  <2>1. whole({}) = {}
    OBVIOUS
  <2> QED
    BY <2>1, SumEmpty, FS_EmptySet
<1>2. ASSUME NEW s \in SUBSET S, NEW x \in S \ s, s \in G
      PROVE  s \cup {x} \in G
  <2> DEFINE W == whole(s)
             V == whole(s \cup {x})
  <2>1. IsFiniteSet(s) /\ IsFiniteSet(W) /\ IsFiniteSet(part[x])
    BY <1>2, FS_Subset
  <2>2. V = W \cup part[x] /\ W \cap part[x] = {}
    OBVIOUS
  <2>3. \A t \in W \cup part[x] : g[t] \in Int
    OBVIOUS
  <2>4. \A y \in S : f[y] \in Int
    <3> TAKE y \in S
    <3>1. SumFunctionOnSet(g, part[y]) \in Int
      BY SumInt
    <3> QED
      BY <3>1
  <2>5. SumFunctionOnSet(f, s \cup {x}) = f[x] + SumFunctionOnSet(f, s)
    BY <2>1, <2>4, SumAdd
  <2> HIDE DEF W, V
  <2>6. SumFunctionOnSet(g, W \cup part[x])
          = SumFunctionOnSet(g, W) + SumFunctionOnSet(g, part[x])
    BY <2>1, <2>2, <2>3, SumUnion
  <2>7. SumFunctionOnSet(g, W) \in Int /\ f[x] \in Int
    BY <2>1, <2>3, <2>4, SumInt
  <2>8. IsFiniteSet(V)
    BY <2>1, <2>2, FS_Union
  <2>9. SumFunctionOnSet(f, s) = SumFunctionOnSet(g, W)
    BY <1>2 DEF W
  <2>10. SumFunctionOnSet(g, part[x]) = f[x]
    OBVIOUS
  <2>11. SumFunctionOnSet(f, s \cup {x}) = SumFunctionOnSet(g, V)
    BY <2>2, <2>5, <2>6, <2>7, <2>9, <2>10
  <2> QED
    BY <2>8, <2>11 DEF V
<1> HIDE DEF G
<1>3. S \in G
  BY <1>1, <1>2, SubsetInduction
<1> QED
  BY <1>3 DEF G

(* Values no greater, over fewer members, add up to no more.                *)
LEMMA SumLess ==
  ASSUME NEW S, IsFiniteSet(S), NEW T \in SUBSET S, NEW f, NEW g,
         \A x \in S : g[x] \in Nat, \A x \in T : f[x] \in Nat /\ f[x] <= g[x]
  PROVE  /\ SumFunctionOnSet(f, T) \in Nat /\ SumFunctionOnSet(g, S) \in Nat
         /\ SumFunctionOnSet(f, T) <= SumFunctionOnSet(g, S)
<1>1. IsFiniteSet(T) /\ \A x \in T : g[x] \in Nat
  BY FS_Subset
<1>2. SumFunctionOnSet(f, T) \in Nat /\ SumFunctionOnSet(f, T) <= SumFunctionOnSet(g, T)
  BY <1>1, SumNat, SumMonotone
<1>3. /\ SumFunctionOnSet(g, T) \in Nat /\ SumFunctionOnSet(g, S) \in Nat
      /\ SumFunctionOnSet(g, T) <= SumFunctionOnSet(g, S)
  BY SumSubset
<1> QED
  BY <1>2, <1>3

(* Values that are found, one each, among others add up to no more.         *)
LEMMA SumWithin ==
  ASSUME NEW S, IsFiniteSet(S), NEW T, IsFiniteSet(T), NEW f, NEW g, NEW m,
         \A x \in S : m[x] \in T /\ g[m[x]] = f[x],
         \A x, y \in S : m[x] = m[y] => x = y,
         \A y \in T : g[y] \in Nat
  PROVE  SumFunctionOnSet(f, S) <= SumFunctionOnSet(g, T)
<1> DEFINE U == {m[x] : x \in S}
<1>1. U \in SUBSET T
  OBVIOUS
<1>2. SumFunctionOnSet(g, U) = SumFunctionOnSet(f, S)
  <2>1. \A x \in S : g[m[x]] = f[x] /\ f[x] \in Int
    OBVIOUS
  <2> QED
    BY <2>1, SumRenamed
<1> HIDE DEF U
<1>3. SumFunctionOnSet(g, U) <= SumFunctionOnSet(g, T)
  BY <1>1, SumSubset
<1> QED
  BY <1>2, <1>3

(* So do values no greater than those they are matched with.                *)
LEMMA SumUnder ==
  ASSUME NEW S, IsFiniteSet(S), NEW T, IsFiniteSet(T), NEW f, NEW g, NEW m,
         \A x \in S : m[x] \in T /\ f[x] \in Nat /\ f[x] <= g[m[x]],
         \A x, y \in S : m[x] = m[y] => x = y,
         \A y \in T : g[y] \in Nat
  PROVE  /\ SumFunctionOnSet(f, S) \in Nat /\ SumFunctionOnSet(g, T) \in Nat
         /\ SumFunctionOnSet(f, S) <= SumFunctionOnSet(g, T)
<1> DEFINE h == [x \in S |-> g[m[x]]]
<1>1. \A x \in S : f[x] \in Nat /\ h[x] \in Nat /\ f[x] <= h[x] /\ g[m[x]] = h[x]
  OBVIOUS
<1> HIDE DEF h
<1>2. SumFunctionOnSet(f, S) <= SumFunctionOnSet(h, S)
  BY <1>1, SumMonotone
<1>3. SumFunctionOnSet(h, S) <= SumFunctionOnSet(g, T)
  <2>1. \A x \in S : m[x] \in T /\ g[m[x]] = h[x]
    BY <1>1
  <2> QED
    BY <2>1, SumWithin
<1>4. /\ SumFunctionOnSet(f, S) \in Nat /\ SumFunctionOnSet(h, S) \in Nat
      /\ SumFunctionOnSet(g, T) \in Nat
  BY <1>1, SumNat
<1> QED
  BY <1>2, <1>3, <1>4

(* Sums lie no further apart than their members do together.                *)
LEMMA SumNear ==
  ASSUME NEW S, IsFiniteSet(S), NEW f, NEW g, NEW w,
         \A x \in S : /\ f[x] \in Int /\ g[x] \in Int /\ w[x] \in Nat
                      /\ f[x] - g[x] \in (-w[x])..w[x]
  PROVE  /\ SumFunctionOnSet(f, S) \in Int /\ SumFunctionOnSet(g, S) \in Int
         /\ SumFunctionOnSet(w, S) \in Nat
         /\ SumFunctionOnSet(f, S) - SumFunctionOnSet(g, S)
              \in (-SumFunctionOnSet(w, S))..SumFunctionOnSet(w, S)
<1> DEFINE h == [x \in S |-> f[x] + w[x]]
           l == [x \in S |-> h[x] - g[x]]
           d == [x \in S |-> 2 * w[x]]
<1>1. \A x \in S : /\ h[x] \in Int /\ h[x] = f[x] + w[x]
                   /\ l[x] \in Nat /\ h[x] = l[x] + g[x]
                   /\ d[x] \in Nat /\ d[x] = 2 * w[x] /\ l[x] <= d[x]
                   /\ f[x] \in Int /\ g[x] \in Int /\ w[x] \in Int /\ l[x] \in Int
  OBVIOUS
<1> HIDE DEF h, l, d
<1>2. /\ SumFunctionOnSet(f, S) \in Int /\ SumFunctionOnSet(g, S) \in Int
      /\ SumFunctionOnSet(w, S) \in Nat /\ SumFunctionOnSet(l, S) \in Nat
  BY <1>1, SumInt, SumNat
<1>3. SumFunctionOnSet(h, S) = SumFunctionOnSet(f, S) + SumFunctionOnSet(w, S)
  BY <1>1, SumPlus
<1>4. SumFunctionOnSet(h, S) = SumFunctionOnSet(l, S) + SumFunctionOnSet(g, S)
  BY <1>1, SumPlus
<1>5. SumFunctionOnSet(l, S) <= SumFunctionOnSet(d, S)
  BY <1>1, SumMonotone
<1>6. SumFunctionOnSet(d, S) = 2 * SumFunctionOnSet(w, S)
  BY <1>1, SumScaled
<1> QED
  BY <1>2, <1>3, <1>4, <1>5, <1>6
=============================================================================
