----------------------------- MODULE Sums_proofs ------------------------------
(***************************************************************************)
(* Sums over finite sets.  The models add up with SumFunction, whose     *)
(* recursion takes the elements of a set out one by one in an order that   *)
(* CHOOSE gives; here is that the order does not matter, and what sums     *)
(* have in common with each other.                                         *)
(*                                                                         *)
(* Induction is stated with a set of the good ones in place of a formula.  *)
(***************************************************************************)
EXTENDS Integers, FiniteSets, Functions, FiniteSetTheorems, WellFoundedInduction, TLAPS

----------------------------------------------------------------------------
\* Induction

\* A set of numbers has a least one.
LEMMA LeastMember ==
    ASSUME NEW S \in SUBSET Nat, S # {}
    PROVE  \E n \in S : \A k \in S : n <= k
<1>1. PICK n \in S : \A k \in S : <<k, n>> \notin OpToRel(<, Nat)
  BY WFMin, NatLessThanWellFounded
<1>2. \A k \in S : ~ (k < n)
  BY <1>1 DEF OpToRel
<1>3. \A k \in S : n <= k
  <2>1. n \in Nat /\ \A k \in S : k \in Nat
    OBVIOUS
  <2> QED
    BY <1>2, <2>1
<1> QED
  BY <1>3

\* A set that has 0, and with a number the next, has them all.
LEMMA AllNumbers ==
    ASSUME NEW G, 0 \in G, \A n \in Nat : n \in G => n + 1 \in G
    PROVE  \A n \in Nat : n \in G
<1> DEFINE bad == {n \in Nat : n \notin G}
<1>1. ASSUME bad # {}
      PROVE  FALSE
  <2>1. PICK n \in bad : \A k \in bad : n <= k
    BY <1>1, LeastMember
  <2>2. n \in Nat /\ n \notin G /\ n # 0
    BY <2>1
  <2>3. n - 1 \in Nat /\ n - 1 \notin bad
    BY <2>1, <2>2
  <2>4. (n - 1) + 1 \in G
    BY <2>3
  <2> QED
    BY <2>2, <2>4
<1> QED
  BY <1>1

\* How many are in a finite set and in the subsets of it.
LEMMA Counts ==
    ASSUME NEW S, IsFiniteSet(S)
    PROVE  \A T \in SUBSET S :
               /\ IsFiniteSet(T) /\ Cardinality(T) \in Nat
               /\ Cardinality(T) = 0 <=> T = {}
               /\ Cardinality(T) <= Cardinality(S)
               /\ \A x \in T : /\ T \ {x} \in SUBSET S
                               /\ Cardinality(T \ {x}) = Cardinality(T) - 1
<1> TAKE T \in SUBSET S
<1>1. IsFiniteSet(T) /\ Cardinality(T) <= Cardinality(S)
  BY FS_Subset
<1>2. Cardinality(T) \in Nat
  BY <1>1, FS_CardinalityType
<1>3. Cardinality(T) = 0 <=> T = {}
  BY <1>1, FS_EmptySet
<1>4. \A x \in T : Cardinality(T \ {x}) = Cardinality(T) - 1
  BY <1>1, FS_RemoveElement
<1> QED
  BY <1>1, <1>2, <1>3, <1>4

\* A collection that has every set of which it has what is left without an element, for
\* each of its elements, has all subsets of a finite set.
LEMMA AllSubsets ==
    ASSUME NEW S, IsFiniteSet(S), NEW G,
           \A T \in SUBSET S : (\A x \in T : T \ {x} \in G) => T \in G
    PROVE  \A T \in SUBSET S : T \in G
<1> DEFINE H == {n \in Nat : \A T \in SUBSET S : Cardinality(T) = n => T \in G}
<1>1. 0 \in H
  <2>1. ASSUME NEW T \in SUBSET S, Cardinality(T) = 0
        PROVE  T \in G
    <3>1. T = {}
      BY <2>1, Counts
    <3> QED
      BY <3>1
  <2> QED
    BY <2>1
<1>3. ASSUME NEW n \in Nat, n \in H, NEW T \in SUBSET S, Cardinality(T) = n + 1
      PROVE  T \in G
  <2>1. ASSUME NEW x \in T
        PROVE  T \ {x} \in G
    <3>1. T \ {x} \in SUBSET S /\ Cardinality(T \ {x}) = Cardinality(T) - 1
      BY Counts
    <3> QED
      BY <1>3, <3>1
  <2> QED
    BY <2>1
<1>4. \A n \in Nat : n \in H => n + 1 \in H
  BY <1>3
<1> HIDE DEF H
<1>5. \A n \in Nat : n \in H
  BY <1>1, <1>4, AllNumbers
<1>6. \A T \in SUBSET S : Cardinality(T) \in Nat
  BY Counts
<1> QED
  BY <1>5, <1>6 DEF H

----------------------------------------------------------------------------
\* The recursion of a sum

Pick(s) == CHOOSE x \in s : TRUE

\* What CHOOSE picks of a set is in it.
LEMMA PickIsIn ==
    \A s : s # {} => Pick(s) \in s
  BY DEF Pick

\* it is what the recursion defines.
Adds(f, S, it) ==
    it = [s \in SUBSET S |-> IF s = {} THEN 0 ELSE f[Pick(s)] + it[s \ {Pick(s)}]]

\* The fold of the community modules is the recursion of Adds.
LEMMA SumIsRecursive ==
    ASSUME NEW f, NEW S
    PROVE  SumFunctionOnSet(f, S) = (CHOOSE it : Adds(f, S, it))[S]
  BY DEF SumFunctionOnSet, FoldFunctionOnSet, MapThenFoldSet, Adds, Pick

\* There is such a function.
LEMMA AddsExists ==
    ASSUME NEW f, NEW S, IsFiniteSet(S)
    PROVE  \E it : Adds(f, S, it)
<1> DEFINE Next(it) == [s \in SUBSET S |-> IF s = {} THEN 0
                                           ELSE f[Pick(s)] + it[s \ {Pick(s)}]]
           Upto(n, it) == /\ it = [s \in SUBSET S |-> it[s]]
                          /\ \A s \in SUBSET S : Cardinality(s) <= n => it[s] = Next(it)[s]
           G == {n \in Nat : \E it : Upto(n, it)}
<1>1. \A s \in SUBSET S : IsFiniteSet(s) /\ Cardinality(s) \in Nat
  BY FS_Subset, FS_CardinalityType
<1>2. \A s \in SUBSET S : s # {} =>
          /\ s \ {Pick(s)} \in SUBSET S
          /\ Cardinality(s \ {Pick(s)}) = Cardinality(s) - 1
  BY <1>1, PickIsIn, FS_RemoveElement
<1>3. 0 \in G
  <2> DEFINE it == [s \in SUBSET S |-> 0]
  <2>1. \A s \in SUBSET S : Cardinality(s) <= 0 => s = {}
    BY <1>1, FS_EmptySet
  <2>2. Upto(0, it)
    BY <2>1
  <2> QED
    BY <2>2
<1>4. ASSUME NEW n \in Nat, n \in G
      PROVE  n + 1 \in G
  <2>1. PICK it : Upto(n, it)
    BY <1>4
  <2> DEFINE jt == Next(it)
  <2>2. ASSUME NEW s \in SUBSET S, Cardinality(s) <= n + 1
        PROVE  jt[s] = Next(jt)[s]
    <3>1. CASE s = {}
      BY <3>1
    <3>2. CASE s # {}
      <4> DEFINE r == s \ {Pick(s)}
      <4>1. r \in SUBSET S /\ Cardinality(r) <= n
        BY <1>1, <1>2, <2>2, <3>2
      <4>2. jt[r] = it[r]
        BY <2>1, <4>1
      <4> QED
        BY <3>2, <4>2
    <3> QED
      BY <3>1, <3>2
  <2>3. jt = [s \in SUBSET S |-> jt[s]]
    OBVIOUS
  <2> HIDE DEF jt
  <2>4. Upto(n + 1, jt)
    BY <2>2, <2>3
  <2> HIDE DEF Upto
  <2> QED
    BY <2>4
<1> HIDE DEF G
<1>5. Cardinality(S) \in G
  BY <1>1, <1>3, <1>4, AllNumbers
<1>6. PICK it : Upto(Cardinality(S), it)
  BY <1>5 DEF G
<1>7. \A s \in SUBSET S : Cardinality(s) <= Cardinality(S)
  BY FS_Subset
<1>8. it = Next(it)
  BY <1>6, <1>7
<1> QED
  BY <1>8 DEF Adds

\* The recursion of a set and that of a subset of it agree.
LEMMA AddsAgree ==
    ASSUME NEW f, NEW S, IsFiniteSet(S), NEW T \in SUBSET S,
           NEW it, Adds(f, S, it), NEW jt, Adds(f, T, jt)
    PROVE  \A s \in SUBSET T : it[s] = jt[s]
<1> DEFINE G == {n \in Nat : \A s \in SUBSET T : Cardinality(s) = n => it[s] = jt[s]}
<1>1. \A s \in SUBSET T : IsFiniteSet(s) /\ Cardinality(s) \in Nat
  BY FS_Subset, FS_CardinalityType
<1>2. 0 \in G
  BY <1>1, FS_EmptySet DEF Adds
<1>3. ASSUME NEW n \in Nat, n \in G
      PROVE  n + 1 \in G
  <2> SUFFICES ASSUME NEW s \in SUBSET T, Cardinality(s) = n + 1
               PROVE  it[s] = jt[s]
    OBVIOUS
  <2>1. s # {}
    BY FS_EmptySet
  <2>2. s \ {Pick(s)} \in SUBSET T /\ Cardinality(s \ {Pick(s)}) = n
    <3>1. PICK x \in s : x = Pick(s)
      BY <2>1, PickIsIn
    <3>2. Cardinality(s \ {x}) = Cardinality(s) - 1
      BY <1>1, <3>1, Counts
    <3> QED
      BY <3>1, <3>2
  <2>3. it[s \ {Pick(s)}] = jt[s \ {Pick(s)}]
    BY <1>3, <2>2
  <2>4. s \in SUBSET S
    OBVIOUS
  <2> QED
    BY <2>1, <2>3, <2>4 DEF Adds
<1> HIDE DEF G
<1>4. \A n \in Nat : n \in G
  BY <1>2, <1>3, AllNumbers
<1> QED
  BY <1>1, <1>4 DEF G

\* Nothing adds up to 0; a sum is one element's part and the sum of the others.
LEMMA SumPick ==
    ASSUME NEW f, NEW S, IsFiniteSet(S)
    PROVE  /\ SumFunctionOnSet(f, {}) = 0
           /\ S # {} => SumFunctionOnSet(f, S) = f[Pick(S)] + SumFunctionOnSet(f, S \ {Pick(S)})
<1>1. ASSUME NEW T, IsFiniteSet(T)
      PROVE  Adds(f, T, CHOOSE it : Adds(f, T, it))
  BY <1>1, AddsExists
<1>2. SumFunctionOnSet(f, {}) = 0
  <2>1. PICK it : it = CHOOSE h : Adds(f, {}, h)
    OBVIOUS
  <2>2. Adds(f, {}, it)
    BY <1>1, <2>1, FS_EmptySet
  <2> QED
    BY <2>1, <2>2, SumIsRecursive DEF Adds
<1>3. ASSUME S # {}
      PROVE  SumFunctionOnSet(f, S) = f[Pick(S)] + SumFunctionOnSet(f, S \ {Pick(S)})
  <2> DEFINE T == S \ {Pick(S)}
  <2>1. PICK it : it = CHOOSE h : Adds(f, S, h)
    OBVIOUS
  <2>2. PICK jt : jt = CHOOSE h : Adds(f, T, h)
    OBVIOUS
  <2>3. T \in SUBSET S /\ IsFiniteSet(T)
    BY FS_Subset
  <2>4. Adds(f, S, it) /\ Adds(f, T, jt)
    BY <1>1, <2>1, <2>2, <2>3
  <2>5. it[T] = jt[T]
    BY <2>3, <2>4, AddsAgree
  <2>6. it[S] = f[Pick(S)] + it[T]
    BY <1>3, <2>4 DEF Adds
  <2>7. SumFunctionOnSet(f, S) = it[S] /\ SumFunctionOnSet(f, T) = jt[T]
    BY <2>1, <2>2, SumIsRecursive
  <2> QED
    BY <2>5, <2>6, <2>7
<1> QED
  BY <1>2, <1>3

----------------------------------------------------------------------------
\* Laws

\* A sum of integers is one.
LEMMA SumIsInt ==
    ASSUME NEW f, NEW S, IsFiniteSet(S), \A x \in S : f[x] \in Int
    PROVE  SumFunctionOnSet(f, S) \in Int
<1> DEFINE G == {T \in SUBSET S : SumFunctionOnSet(f, T) \in Int}
<1>1. ASSUME NEW T \in SUBSET S, \A x \in T : T \ {x} \in G
      PROVE  T \in G
  <2>0. IsFiniteSet(T)
    BY Counts
  <2>1. CASE T = {}
    <3>1. SumFunctionOnSet(f, {}) = 0
      BY SumPick, FS_EmptySet
    <3> QED
      BY <2>1, <3>1
  <2>2. CASE T # {}
    <3>1. PICK x \in T : x = Pick(T)
      BY <2>2, PickIsIn
    <3>2. SumFunctionOnSet(f, T) = f[x] + SumFunctionOnSet(f, T \ {x})
      BY <2>0, <2>2, <3>1, SumPick
    <3> QED
      BY <1>1, <3>2
  <2> QED
    BY <2>1, <2>2
<1> HIDE DEF G
<1>2. \A T \in SUBSET S : (\A x \in T : T \ {x} \in G) => T \in G
  BY <1>1
<1>3. \A T \in SUBSET S : T \in G
  BY <1>2, AllSubsets
<1> QED
  BY <1>3 DEF G

\* Any element may be taken out first.
LEMMA SumRemove ==
    ASSUME NEW f, NEW S, IsFiniteSet(S), \A x \in S : f[x] \in Int, NEW y \in S
    PROVE  /\ SumFunctionOnSet(f, S \ {y}) \in Int
           /\ SumFunctionOnSet(f, S) = f[y] + SumFunctionOnSet(f, S \ {y})
<1> DEFINE G == {T \in SUBSET S : \A x \in T :
                    SumFunctionOnSet(f, T) = f[x] + SumFunctionOnSet(f, T \ {x})}
<1>1. ASSUME NEW T \in SUBSET S, \A x \in T : T \ {x} \in G
      PROVE  T \in G
  <2> SUFFICES ASSUME NEW x \in T
               PROVE  SumFunctionOnSet(f, T) = f[x] + SumFunctionOnSet(f, T \ {x})
    OBVIOUS
  <2>0. IsFiniteSet(T)
    BY Counts
  <2>1. PICK z \in T : z = Pick(T)
    BY PickIsIn
  <2>2. SumFunctionOnSet(f, T) = f[z] + SumFunctionOnSet(f, T \ {z})
    BY <2>0, <2>1, SumPick
  <2>3. CASE x = z
    BY <2>2, <2>3
  <2>4. CASE x # z
    <3>1. SumFunctionOnSet(f, T \ {z}) = f[x] + SumFunctionOnSet(f, (T \ {z}) \ {x})
      BY <1>1, <2>4
    <3>2. SumFunctionOnSet(f, T \ {x}) = f[z] + SumFunctionOnSet(f, (T \ {x}) \ {z})
      BY <1>1, <2>4
    <3>3. (T \ {z}) \ {x} = (T \ {x}) \ {z}
      OBVIOUS
    <3>4. (T \ {z}) \ {x} \in SUBSET S
      OBVIOUS
    <3>5. IsFiniteSet((T \ {z}) \ {x})
      BY <3>4, Counts
    <3>6. SumFunctionOnSet(f, (T \ {z}) \ {x}) \in Int
      BY <3>4, <3>5, SumIsInt
    <3>7. PICK r \in Int : r = SumFunctionOnSet(f, (T \ {z}) \ {x})
      BY <3>6
    <3>8. f[x] \in Int /\ f[z] \in Int
      OBVIOUS
    <3>9. /\ SumFunctionOnSet(f, T) = f[z] + (f[x] + r)
          /\ SumFunctionOnSet(f, T \ {x}) = f[z] + r
      BY <2>2, <3>1, <3>2, <3>3, <3>7
    <3>10. \A p, q \in Int : p + (q + r) = q + (p + r)
      OBVIOUS
    <3> QED
      BY <3>8, <3>9, <3>10
  <2> QED
    BY <2>3, <2>4
<1> HIDE DEF G
<1>2. \A T \in SUBSET S : (\A x \in T : T \ {x} \in G) => T \in G
  BY <1>1
<1>3. \A T \in SUBSET S : T \in G
  BY <1>2, AllSubsets
<1>4. S \ {y} \in SUBSET S /\ IsFiniteSet(S \ {y})
  BY Counts
<1>5. SumFunctionOnSet(f, S \ {y}) \in Int
  BY <1>4, SumIsInt
<1> QED
  BY <1>3, <1>5 DEF G

\* The same for every part of S.
LEMMA SumSplit ==
    ASSUME NEW f, NEW S, IsFiniteSet(S), \A x \in S : f[x] \in Int
    PROVE  \A T \in SUBSET S, x \in S : x \in T =>
               /\ SumFunctionOnSet(f, T \ {x}) \in Int
               /\ SumFunctionOnSet(f, T) = f[x] + SumFunctionOnSet(f, T \ {x})
<1>1. ASSUME NEW T \in SUBSET S, NEW x \in T
      PROVE  /\ SumFunctionOnSet(f, T \ {x}) \in Int
             /\ SumFunctionOnSet(f, T) = f[x] + SumFunctionOnSet(f, T \ {x})
  <2>1. IsFiniteSet(T) /\ \A z \in T : f[z] \in Int
    BY Counts
  <2> QED
    BY <2>1, SumRemove
<1> QED
  BY <1>1

\* R relates no elements, and still relates them when one more is added.
Relates(R, f, g, h, S) ==
    /\ <<0, 0, 0, 0>> \in R
    /\ \A x \in S, p \in Int, q \in Int, r \in Int, n \in Nat :
           <<p, q, r, n>> \in R => <<f[x] + p, g[x] + q, h[x] + r, n + 1>> \in R

\* Then it relates the sums of the three functions over a set and its size.
LEMMA SumsRelate ==
    ASSUME NEW R, NEW f, NEW g, NEW h, NEW S, IsFiniteSet(S),
           \A x \in S : f[x] \in Int /\ g[x] \in Int /\ h[x] \in Int,
           Relates(R, f, g, h, S)
    PROVE  /\ SumFunctionOnSet(f, S) \in Int
           /\ SumFunctionOnSet(g, S) \in Int
           /\ SumFunctionOnSet(h, S) \in Int
           /\ <<SumFunctionOnSet(f, S), SumFunctionOnSet(g, S), SumFunctionOnSet(h, S),
                Cardinality(S)>> \in R
<1> DEFINE Of(T) == <<SumFunctionOnSet(f, T), SumFunctionOnSet(g, T),
                      SumFunctionOnSet(h, T), Cardinality(T)>>
           G == {T \in SUBSET S : Of(T) \in R}
<1>5. \A T \in SUBSET S, x \in S : x \in T =>
           /\ SumFunctionOnSet(f, T \ {x}) \in Int
           /\ SumFunctionOnSet(f, T) = f[x] + SumFunctionOnSet(f, T \ {x})
  <2>1. \A x \in S : f[x] \in Int
    OBVIOUS
  <2> QED
    BY <2>1, SumSplit
<1>6. \A T \in SUBSET S, x \in S : x \in T =>
           /\ SumFunctionOnSet(g, T \ {x}) \in Int
           /\ SumFunctionOnSet(g, T) = g[x] + SumFunctionOnSet(g, T \ {x})
  <2>1. \A x \in S : g[x] \in Int
    OBVIOUS
  <2> QED
    BY <2>1, SumSplit
<1>7. \A T \in SUBSET S, x \in S : x \in T =>
           /\ SumFunctionOnSet(h, T \ {x}) \in Int
           /\ SumFunctionOnSet(h, T) = h[x] + SumFunctionOnSet(h, T \ {x})
  <2>1. \A x \in S : h[x] \in Int
    OBVIOUS
  <2> QED
    BY <2>1, SumSplit
<1>1. ASSUME NEW T \in SUBSET S, \A x \in T : T \ {x} \in G
      PROVE  T \in G
  <2>0. IsFiniteSet(T) /\ \A x \in T : f[x] \in Int /\ g[x] \in Int /\ h[x] \in Int
    BY Counts
  <2>1. CASE T = {}
    <3>1. /\ SumFunctionOnSet(f, {}) = 0 /\ SumFunctionOnSet(g, {}) = 0
          /\ SumFunctionOnSet(h, {}) = 0 /\ Cardinality({}) = 0
      BY SumPick, FS_EmptySet
    <3> QED
      BY <2>1, <3>1 DEF Relates
  <2>2. CASE T # {}
    <3>1. PICK x \in T : TRUE
      BY <2>2
    <3>2. PICK p : p = SumFunctionOnSet(f, T \ {x})
      OBVIOUS
    <3>10. p \in Int /\ SumFunctionOnSet(f, T) = f[x] + p
      BY <1>5, <3>2
    <3>3. PICK q : q = SumFunctionOnSet(g, T \ {x})
      OBVIOUS
    <3>11. q \in Int /\ SumFunctionOnSet(g, T) = g[x] + q
      BY <1>6, <3>3
    <3>4. PICK r : r = SumFunctionOnSet(h, T \ {x})
      OBVIOUS
    <3>12. r \in Int /\ SumFunctionOnSet(h, T) = h[x] + r
      BY <1>7, <3>4
    <3>5. PICK n \in Nat : Cardinality(T \ {x}) = n /\ Cardinality(T) = n + 1
      <4>1. Cardinality(T) \in Nat /\ Cardinality(T \ {x}) = Cardinality(T) - 1
        BY Counts
      <4>2. T \ {x} \in SUBSET S
        OBVIOUS
      <4>3. Cardinality(T \ {x}) \in Nat
        BY <4>2, Counts
      <4> QED
        BY <4>1, <4>3
    <3>6. Of(T \ {x}) \in R
      BY <1>1
    <3>7. <<p, q, r, n>> \in R
      BY <3>2, <3>3, <3>4, <3>5, <3>6
    <3>8. x \in S
      OBVIOUS
    <3>9. <<f[x] + p, g[x] + q, h[x] + r, n + 1>> \in R
      BY <3>5, <3>7, <3>8, <3>10, <3>11, <3>12 DEF Relates
    <3> QED
      BY <3>5, <3>9, <3>10, <3>11, <3>12
  <2> QED
    BY <2>1, <2>2
<1> HIDE DEF G
<1>2. \A T \in SUBSET S : (\A x \in T : T \ {x} \in G) => T \in G
  BY <1>1
<1>3. \A T \in SUBSET S : T \in G
  BY <1>2, AllSubsets
<1>4. S \in G
  BY <1>3
<1> QED
  BY <1>4, SumIsInt DEF G

\* What is the same for every element has the same sum.
LEMMA SumSame ==
    ASSUME NEW f, NEW g, NEW S, IsFiniteSet(S),
           \A x \in S : f[x] \in Int /\ f[x] = g[x]
    PROVE  SumFunctionOnSet(f, S) = SumFunctionOnSet(g, S)
<1> DEFINE R == {v \in Int \X Int \X Int \X Nat : v[1] = v[2]}
<1>1. /\ <<0, 0, 0, 0>> \in R
      /\ \A x \in S, p \in Int, q \in Int, r \in Int, n \in Nat :
            <<p, q, r, n>> \in R => <<f[x] + p, g[x] + q, g[x] + r, n + 1>> \in R
  OBVIOUS
<1>2. \A p, q, r, n : <<p, q, r, n>> \in R => p = q
  OBVIOUS
<1> HIDE DEF R
<1>8. \A x \in S : f[x] \in Int /\ g[x] \in Int /\ g[x] \in Int
  OBVIOUS
<1>9. <<SumFunctionOnSet(f, S), SumFunctionOnSet(g, S), SumFunctionOnSet(g, S),
        Cardinality(S)>> \in R
  BY <1>1, <1>8, SumsRelate DEF Relates
<1> QED
  BY <1>2, <1>9

\* A sum of sums is the sum of the sums.
LEMMA SumAdd ==
    ASSUME NEW f, NEW g, NEW h, NEW S, IsFiniteSet(S),
           \A x \in S : f[x] \in Int /\ g[x] \in Int /\ h[x] = f[x] + g[x]
    PROVE  SumFunctionOnSet(h, S) = SumFunctionOnSet(f, S) + SumFunctionOnSet(g, S)
<1> DEFINE R == {v \in Int \X Int \X Int \X Nat : v[3] = v[1] + v[2]}
<1>1. /\ <<0, 0, 0, 0>> \in R
      /\ \A x \in S, p \in Int, q \in Int, r \in Int, n \in Nat :
            <<p, q, r, n>> \in R => <<f[x] + p, g[x] + q, h[x] + r, n + 1>> \in R
  OBVIOUS
<1>2. \A p, q, r, n : <<p, q, r, n>> \in R => r = p + q
  OBVIOUS
<1> HIDE DEF R
<1>8. \A x \in S : f[x] \in Int /\ g[x] \in Int /\ h[x] \in Int
  OBVIOUS
<1>9. <<SumFunctionOnSet(f, S), SumFunctionOnSet(g, S), SumFunctionOnSet(h, S),
        Cardinality(S)>> \in R
  BY <1>1, <1>8, SumsRelate DEF Relates
<1> QED
  BY <1>2, <1>9

\* A difference is summed part by part.
LEMMA SumSubtract ==
    ASSUME NEW f, NEW g, NEW h, NEW S, IsFiniteSet(S),
           \A x \in S : f[x] \in Int /\ g[x] \in Int /\ h[x] = f[x] - g[x]
    PROVE  SumFunctionOnSet(h, S) = SumFunctionOnSet(f, S) - SumFunctionOnSet(g, S)
<1>1. \A x \in S : h[x] \in Int /\ f[x] = h[x] + g[x]
  OBVIOUS
<1>2. SumFunctionOnSet(f, S) = SumFunctionOnSet(h, S) + SumFunctionOnSet(g, S)
  BY <1>1, SumAdd
<1>3. SumFunctionOnSet(g, S) \in Int /\ SumFunctionOnSet(h, S) \in Int
  BY <1>1, SumIsInt
<1> QED
  BY <1>2, <1>3

\* A factor can be taken out.
LEMMA SumScale ==
    ASSUME NEW f, NEW g, NEW k \in Int, NEW S, IsFiniteSet(S),
           \A x \in S : f[x] \in Int /\ g[x] = k * f[x]
    PROVE  SumFunctionOnSet(g, S) = k * SumFunctionOnSet(f, S)
<1> DEFINE R == {v \in Int \X Int \X Int \X Nat : v[2] = k * v[1]}
<1>1. \A p, q \in Int : k * (p + q) = k * p + k * q /\ k * p \in Int
  OBVIOUS
<1>2. k * 0 = 0
  OBVIOUS
<1>3. \A x \in S : g[x] \in Int
  BY <1>1
<1>4. <<0, 0, 0, 0>> \in R
  BY <1>2
<1>5. ASSUME NEW x \in S, NEW p \in Int, NEW q \in Int, NEW r \in Int, NEW n \in Nat,
             <<p, q, r, n>> \in R
      PROVE  <<f[x] + p, g[x] + q, g[x] + r, n + 1>> \in R
  <2>1. q = k * p
    BY <1>5
  <2>2. g[x] + q = k * (f[x] + p)
    BY <1>1, <2>1
  <2> QED
    BY <1>3, <2>2
<1>6. \A p, q, r, n : <<p, q, r, n>> \in R => q = k * p
  OBVIOUS
<1> HIDE DEF R
<1>8. \A x \in S : f[x] \in Int /\ g[x] \in Int /\ g[x] \in Int
  BY <1>3
<1>9. <<SumFunctionOnSet(f, S), SumFunctionOnSet(g, S), SumFunctionOnSet(g, S),
        Cardinality(S)>> \in R
  BY <1>4, <1>5, <1>8, SumsRelate DEF Relates
<1> QED
  BY <1>6, <1>9

\* Parts that are no larger add up to no more.
LEMMA SumMonotone ==
    ASSUME NEW f, NEW g, NEW S, IsFiniteSet(S),
           \A x \in S : f[x] \in Int /\ g[x] \in Int /\ f[x] <= g[x]
    PROVE  SumFunctionOnSet(f, S) <= SumFunctionOnSet(g, S)
<1> DEFINE R == {v \in Int \X Int \X Int \X Nat : v[1] <= v[2]}
<1>1. /\ <<0, 0, 0, 0>> \in R
      /\ \A x \in S, p \in Int, q \in Int, r \in Int, n \in Nat :
            <<p, q, r, n>> \in R => <<f[x] + p, g[x] + q, g[x] + r, n + 1>> \in R
  OBVIOUS
<1>2. \A p, q, r, n : <<p, q, r, n>> \in R => p <= q
  OBVIOUS
<1> HIDE DEF R
<1>8. \A x \in S : f[x] \in Int /\ g[x] \in Int /\ g[x] \in Int
  OBVIOUS
<1>9. <<SumFunctionOnSet(f, S), SumFunctionOnSet(g, S), SumFunctionOnSet(g, S),
        Cardinality(S)>> \in R
  BY <1>1, <1>8, SumsRelate DEF Relates
<1> QED
  BY <1>2, <1>9

\* As many times the same.
LEMMA SumConstant ==
    ASSUME NEW f, NEW k \in Int, NEW S, IsFiniteSet(S), \A x \in S : f[x] = k
    PROVE  SumFunctionOnSet(f, S) = k * Cardinality(S)
<1> DEFINE R == {v \in Int \X Int \X Int \X Nat : v[1] = k * v[4]}
<1>1. \A n \in Nat : k + k * n = k * (n + 1) /\ k * n \in Int
  OBVIOUS
<1>2. <<0, 0, 0, 0>> \in R
  OBVIOUS
<1>3. ASSUME NEW x \in S, NEW p \in Int, NEW q \in Int, NEW r \in Int, NEW n \in Nat,
             <<p, q, r, n>> \in R
      PROVE  <<f[x] + p, f[x] + q, f[x] + r, n + 1>> \in R
  <2>1. p = k * n
    BY <1>3
  <2>2. f[x] + p = k * (n + 1)
    BY <1>1, <2>1
  <2> QED
    BY <2>2
<1>4. \A p, q, r, n : <<p, q, r, n>> \in R => p = k * n
  OBVIOUS
<1>5. \A x \in S : f[x] \in Int
  OBVIOUS
<1> HIDE DEF R
<1>8. \A x \in S : f[x] \in Int /\ f[x] \in Int /\ f[x] \in Int
  BY <1>5
<1>9. <<SumFunctionOnSet(f, S), SumFunctionOnSet(f, S), SumFunctionOnSet(f, S),
        Cardinality(S)>> \in R
  BY <1>2, <1>3, <1>8, SumsRelate DEF Relates
<1> QED
  BY <1>4, <1>9

\* Zeros add up to zero.
LEMMA SumZero ==
    ASSUME NEW f, NEW S, IsFiniteSet(S), \A x \in S : f[x] = 0
    PROVE  SumFunctionOnSet(f, S) = 0
<1>1. SumFunctionOnSet(f, S) = 0 * Cardinality(S) /\ Cardinality(S) \in Nat
  BY SumConstant, Counts
<1> QED
  BY <1>1

\* Zeros may be left out.
LEMMA SumSubset ==
    ASSUME NEW f, NEW S, IsFiniteSet(S), NEW T \in SUBSET S,
           \A x \in S : f[x] \in Int, \A x \in S \ T : f[x] = 0
    PROVE  SumFunctionOnSet(f, S) = SumFunctionOnSet(f, T)
<1> DEFINE G == {U \in SUBSET S : SumFunctionOnSet(f, U) = SumFunctionOnSet(f, U \cap T)}
<1>1. ASSUME NEW U \in SUBSET S, \A x \in U : U \ {x} \in G
      PROVE  U \in G
  <2>0. /\ IsFiniteSet(U) /\ IsFiniteSet(U \cap T)
        /\ \A x \in U : f[x] \in Int
    <3>1. U \cap T \in SUBSET S
      OBVIOUS
    <3> QED
      BY <3>1, Counts
  <2>1. CASE U \subseteq T
    <3>1. U \cap T = U
      BY <2>1
    <3> QED
      BY <3>1
  <2>2. CASE ~ (U \subseteq T)
    <3>1. PICK x \in U : x \notin T
      BY <2>2
    <3>2. /\ SumFunctionOnSet(f, U \ {x}) \in Int
          /\ SumFunctionOnSet(f, U) = f[x] + SumFunctionOnSet(f, U \ {x})
      BY <2>0, SumRemove
    <3>3. f[x] = 0
      BY <3>1
    <3>4. SumFunctionOnSet(f, U \ {x}) = SumFunctionOnSet(f, (U \ {x}) \cap T)
      BY <1>1
    <3>5. (U \ {x}) \cap T = U \cap T
      BY <3>1
    <3>6. SumFunctionOnSet(f, U) = SumFunctionOnSet(f, U \ {x})
      BY <3>2, <3>3
    <3> QED
      BY <3>4, <3>5, <3>6
  <2> QED
    BY <2>1, <2>2
<1> HIDE DEF G
<1>2. \A U \in SUBSET S : (\A x \in U : U \ {x} \in G) => U \in G
  BY <1>1
<1>3. \A U \in SUBSET S : U \in G
  BY <1>2, AllSubsets
<1>4. S \cap T = T /\ S \in G
  BY <1>3
<1> QED
  BY <1>4 DEF G

\* Only one counts.
LEMMA SumSingle ==
    ASSUME NEW f, NEW S, IsFiniteSet(S), NEW y \in S,
           \A x \in S : f[x] \in Int, \A x \in S \ {y} : f[x] = 0
    PROVE  SumFunctionOnSet(f, S) = f[y]
<1>1. SumFunctionOnSet(f, S) = f[y] + SumFunctionOnSet(f, S \ {y})
  BY SumRemove
<1>2. IsFiniteSet(S \ {y})
  BY Counts
<1>3. SumFunctionOnSet(f, S \ {y}) = 0
  BY <1>2, SumZero
<1> QED
  BY <1>1, <1>3

\* A sum may be taken group by group.
LEMMA SumByKey ==
    ASSUME NEW f, NEW key, NEW S, IsFiniteSet(S), NEW K, IsFiniteSet(K),
           \A x \in S : f[x] \in Int /\ key[x] \in K,
           NEW part, \A u \in K, x \in S : part[u][x] = IF key[x] = u THEN f[x] ELSE 0,
           NEW total, \A u \in K : total[u] = SumFunctionOnSet(part[u], S)
    PROVE  SumFunctionOnSet(total, K) = SumFunctionOnSet(f, S)
<1> DEFINE Of(T) == [u \in K |-> SumFunctionOnSet(part[u], T)]
           G == {T \in SUBSET S : SumFunctionOnSet(Of(T), K) = SumFunctionOnSet(f, T)}
<1>1. \A u \in K : \A x \in S : part[u][x] \in Int
  OBVIOUS
<1>2. ASSUME NEW T \in SUBSET S, NEW u \in K
      PROVE  Of(T)[u] = SumFunctionOnSet(part[u], T) /\ Of(T)[u] \in Int
  <2>1. IsFiniteSet(T) /\ \A x \in T : part[u][x] \in Int
    BY <1>1, Counts
  <2>2. SumFunctionOnSet(part[u], T) \in Int
    BY <2>1, SumIsInt
  <2> QED
    BY <2>2
<1>3. ASSUME NEW T \in SUBSET S, \A x \in T : T \ {x} \in G
      PROVE  T \in G
  <2>0. IsFiniteSet(T) /\ \A x \in T : f[x] \in Int /\ key[x] \in K
    BY Counts
  <2>1. CASE T = {}
    <3>1. \A u \in K : Of(T)[u] = 0
      BY <1>2, <2>0, <2>1, SumPick
    <3>2. SumFunctionOnSet(Of(T), K) = 0
      <4> HIDE DEF Of
      <4> QED
        BY <3>1, SumZero
    <3>3. SumFunctionOnSet(f, T) = 0
      BY <2>0, <2>1, SumPick
    <3> QED
      BY <3>2, <3>3
  <2>2. CASE T # {}
    <3>1. PICK x \in T : TRUE
      BY <2>2
    <3> DEFINE R == T \ {x}
               h == [u \in K |-> part[u][x]]
               a == Of(T)
               b == Of(R)
    <3>2. R \in SUBSET S /\ R \in G
      BY <1>3
    <3>3. SumFunctionOnSet(b, K) = SumFunctionOnSet(f, R)
      BY <3>2
    <3>4. /\ SumFunctionOnSet(f, R) \in Int
          /\ SumFunctionOnSet(f, T) = f[x] + SumFunctionOnSet(f, R)
      BY <2>0, SumRemove
    <3>5. ASSUME NEW u \in K
          PROVE  h[u] \in Int /\ b[u] \in Int /\ a[u] = h[u] + b[u]
      <4>1. \A y \in T : part[u][y] \in Int
        BY <1>1
      <4>2. SumFunctionOnSet(part[u], T) = part[u][x] + SumFunctionOnSet(part[u], R)
        BY <2>0, <4>1, SumRemove
      <4>3. h[u] = part[u][x] /\ h[u] \in Int
        BY <4>1
      <4>4. /\ a[u] = SumFunctionOnSet(part[u], T) /\ b[u] = SumFunctionOnSet(part[u], R)
            /\ b[u] \in Int
        BY <1>2, <3>2
      <4> QED
        BY <4>2, <4>3, <4>4
    <3>6. \A u \in K : h[u] = IF key[x] = u THEN f[x] ELSE 0
      OBVIOUS
    <3>7. key[x] \in K /\ f[x] \in Int
      BY <2>0
    <3> HIDE DEF R, h, a, b
    <3>8. SumFunctionOnSet(a, K) = SumFunctionOnSet(h, K) + SumFunctionOnSet(b, K)
      BY <3>5, SumAdd
    <3>9. \A u \in K : h[u] \in Int
      BY <3>5
    <3>10. \A u \in K \ {key[x]} : h[u] = 0
      BY <3>6
    <3>11. SumFunctionOnSet(h, K) = h[key[x]]
      BY <3>7, <3>9, <3>10, SumSingle
    <3>12. h[key[x]] = f[x]
      BY <3>6, <3>7
    <3>13. SumFunctionOnSet(a, K) = SumFunctionOnSet(f, T)
      BY <3>3, <3>4, <3>8, <3>11, <3>12
    <3> QED
      BY <3>13 DEF a
  <2> QED
    BY <2>1, <2>2
<1> HIDE DEF G, Of
<1>4. \A T \in SUBSET S : (\A x \in T : T \ {x} \in G) => T \in G
  BY <1>3
<1>5. \A T \in SUBSET S : T \in G
  BY <1>4, AllSubsets
<1>6. SumFunctionOnSet(Of(S), K) = SumFunctionOnSet(f, S)
  <2>1. S \in G
    BY <1>5
  <2> QED
    BY <2>1 DEF G
<1>7. \A u \in K : Of(S)[u] \in Int /\ Of(S)[u] = total[u]
  BY <1>2
<1>8. SumFunctionOnSet(Of(S), K) = SumFunctionOnSet(total, K)
  BY <1>7, SumSame
<1> QED
  BY <1>6, <1>8

=============================================================================
