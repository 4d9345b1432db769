---------------------------- MODULE History_proofs -----------------------------
(***************************************************************************)
(* What the balances of a group add up to, for any group, any actions and  *)
(* any order in which they were entered.                                   *)
(***************************************************************************)
EXTENDS GroupHistory, Sums_proofs, SequenceTheorems

----------------------------------------------------------------------------
\* Rounding

\* A rounded quotient is off by half at most.
LEMMA RoundedIsClose ==
    ASSUME NEW a \in Int, NEW b \in Nat \ {0}
    PROVE  /\ RoundQuotient(a, b) \in Int
           /\ -b <= 2 * (b * RoundQuotient(a, b)) - 2 * a
           /\ 2 * (b * RoundQuotient(a, b)) - 2 * a <= b
<1>1. \A x \in Int, y \in Nat \ {0} :
          x \div y \in Int /\ y * (x \div y) <= x /\ x < y * (x \div y) + y
  OBVIOUS
<1>2. CASE a >= 0
  <2> DEFINE q == (2*a + b) \div (2*b)
  <2>1. 2*a + b \in Int /\ 2*b \in Nat \ {0}
    OBVIOUS
  <2>2. q \in Int /\ (2*b) * q <= 2*a + b /\ 2*a + b < (2*b) * q + 2*b
    BY <1>1, <2>1
  <2>3. (2*b) * q = 2 * (b * q) /\ b * q \in Int
    BY <2>2
  <2>4. RoundQuotient(a, b) = q
    BY <1>2 DEF RoundQuotient
  <2> HIDE DEF q
  <2> QED
    BY <2>2, <2>3, <2>4
<1>3. CASE ~ (a >= 0)
  <2> DEFINE q == (b - 2*a) \div (2*b)
  <2>1. b - 2*a \in Int /\ 2*b \in Nat \ {0}
    OBVIOUS
  <2>2. q \in Int /\ (2*b) * q <= b - 2*a /\ b - 2*a < (2*b) * q + 2*b
    BY <1>1, <2>1
  <2>3. (2*b) * q = 2 * (b * q) /\ b * q \in Int /\ b * (-q) = -(b * q)
    BY <2>2
  <2>4. RoundQuotient(a, b) = -q
    BY <1>3 DEF RoundQuotient
  <2> HIDE DEF q
  <2> QED
    BY <2>2, <2>3, <2>4
<1> QED
  BY <1>2, <1>3

\* What rounding every part of a sum changes in it.
LEMMA RoundedSum ==
    ASSUME NEW f, NEW g, NEW b \in Nat \ {0}, NEW S, IsFiniteSet(S),
           \A x \in S : f[x] \in Int /\ g[x] = RoundQuotient(f[x], b)
    PROVE  /\ SumFunctionOnSet(f, S) \in Int /\ SumFunctionOnSet(g, S) \in Int
           /\ Cardinality(S) \in Nat
           /\ -(b * Cardinality(S)) <= 2 * (b * SumFunctionOnSet(g, S)) - 2 * SumFunctionOnSet(f, S)
           /\ 2 * (b * SumFunctionOnSet(g, S)) - 2 * SumFunctionOnSet(f, S) <= b * Cardinality(S)
<1> DEFINE R == {v \in Int \X Int \X Int \X Nat :
                    /\ -(b * v[4]) <= 2 * (b * v[2]) - 2 * v[1]
                    /\ 2 * (b * v[2]) - 2 * v[1] <= b * v[4]}
<1>1. <<0, 0, 0, 0>> \in R
  OBVIOUS
<1>2. \A x \in S : f[x] \in Int /\ g[x] \in Int /\ g[x] \in Int
  BY RoundedIsClose
<1>3. ASSUME NEW x \in S, NEW p \in Int, NEW q \in Int, NEW r \in Int, NEW n \in Nat,
             <<p, q, r, n>> \in R
      PROVE  <<f[x] + p, g[x] + q, g[x] + r, n + 1>> \in R
  <2>1. PICK u \in Int, v \in Int : u = f[x] /\ v = g[x]
    BY <1>2
  <2>2. -b <= 2 * (b * v) - 2 * u /\ 2 * (b * v) - 2 * u <= b
    BY <2>1, RoundedIsClose
  <2>3. -(b * n) <= 2 * (b * q) - 2 * p /\ 2 * (b * q) - 2 * p <= b * n
    BY <1>3
  <2>4. /\ b * (v + q) = b * v + b * q /\ b * (n + 1) = b * n + b
        /\ b * v \in Int /\ b * q \in Int /\ b * n \in Int
    OBVIOUS
  <2>5. /\ -(b * (n + 1)) <= 2 * (b * (v + q)) - 2 * (u + p)
        /\ 2 * (b * (v + q)) - 2 * (u + p) <= b * (n + 1)
    BY <2>2, <2>3, <2>4
  <2> QED
    BY <2>1, <2>5
<1>4. \A p, q, r, n : <<p, q, r, n>> \in R =>
          -(b * n) <= 2 * (b * q) - 2 * p /\ 2 * (b * q) - 2 * p <= b * n
  OBVIOUS
<1> HIDE DEF R
<1>8. \A x \in S, p \in Int, q \in Int, r \in Int, n \in Nat :
          <<p, q, r, n>> \in R => <<f[x] + p, g[x] + q, g[x] + r, n + 1>> \in R
  BY <1>3
<1>5. /\ SumFunctionOnSet(f, S) \in Int /\ SumFunctionOnSet(g, S) \in Int
      /\ <<SumFunctionOnSet(f, S), SumFunctionOnSet(g, S), SumFunctionOnSet(g, S),
           Cardinality(S)>> \in R
  BY <1>1, <1>2, <1>8, SumsRelate DEF Relates
<1>6. PICK p \in Int, q \in Int, n \in Nat :
          p = SumFunctionOnSet(f, S) /\ q = SumFunctionOnSet(g, S) /\ n = Cardinality(S)
  BY <1>5, FS_CardinalityType
<1>7. -(b * n) <= 2 * (b * q) - 2 * p /\ 2 * (b * q) - 2 * p <= b * n
  BY <1>4, <1>5, <1>6
<1> QED
  BY <1>6, <1>7

----------------------------------------------------------------------------
\* The order of the replay

\* Rows that the order tells apart.
Dated(S) ==
    /\ IsFiniteSet(S)
    /\ \A a \in S : a.date \in Int /\ a.createdAt \in Int /\ a.id \in Int
    /\ \A a, b \in S : a.id = b.id => a = b

Below(S, a) == {b \in S : Before(b, a)}

\* Rows that can be told apart come one after the other.
LEMMA BeforeIsTotal ==
    ASSUME NEW S, Dated(S)
    PROVE  /\ \A a \in S : ~ Before(a, a)
           /\ \A a, b \in S : a # b => Before(a, b) \/ Before(b, a)
           /\ \A a, b \in S : Before(a, b) => ~ Before(b, a)
           /\ \A a, b, c \in S : Before(a, b) /\ Before(b, c) => Before(a, c)
<1>1. ASSUME NEW a \in S
      PROVE  a.date \in Int /\ a.createdAt \in Int /\ a.id \in Int
  BY DEF Dated
<1>2. ASSUME NEW a \in S, NEW b \in S, a.id = b.id
      PROVE  a = b
  BY <1>2 DEF Dated
<1>3. \A a \in S : ~ Before(a, a)
  BY <1>1 DEF Before
<1>4. \A a, b \in S : a # b => Before(a, b) \/ Before(b, a)
  BY <1>1, <1>2 DEF Before
<1>5. \A a, b \in S : Before(a, b) => ~ Before(b, a)
  BY <1>1 DEF Before
<1>6. \A a, b, c \in S : Before(a, b) /\ Before(b, c) => Before(a, c)
  BY <1>1 DEF Before
<1> QED
  BY <1>3, <1>4, <1>5, <1>6

\* The later a row the more are before it.
LEMMA BelowCounts ==
    ASSUME NEW S, Dated(S)
    PROVE  /\ Cardinality(S) \in Nat
           /\ \A a \in S : /\ Cardinality(Below(S, a)) \in Nat
                           /\ Cardinality(Below(S, a)) < Cardinality(S)
           /\ \A a, b \in S : Before(a, b) =>
                  Cardinality(Below(S, a)) < Cardinality(Below(S, b))
<1>0. IsFiniteSet(S)
  BY DEF Dated
<1>1. ASSUME NEW a \in S
      PROVE  /\ Below(S, a) \in SUBSET S /\ a \notin Below(S, a)
             /\ IsFiniteSet(Below(S, a)) /\ Cardinality(Below(S, a)) \in Nat
  <2>1. Below(S, a) \in SUBSET S
    BY DEF Below
  <2>2. a \notin Below(S, a)
    BY BeforeIsTotal DEF Below
  <2> QED
    BY <1>0, <2>1, <2>2, Counts
<1>2. ASSUME NEW T \in SUBSET S, NEW U \in SUBSET T, NEW a \in T, a \notin U
      PROVE  Cardinality(U) < Cardinality(T)
  <2>1. IsFiniteSet(T) /\ IsFiniteSet(U) /\ Cardinality(T) \in Nat /\ Cardinality(U) \in Nat
    BY <1>0, Counts
  <2>2. Cardinality(U) <= Cardinality(T) /\ (Cardinality(T) = Cardinality(U) => T = U)
    BY <2>1, FS_Subset
  <2> QED
    BY <1>2, <2>1, <2>2
<1>3. ASSUME NEW a \in S
      PROVE  Cardinality(Below(S, a)) < Cardinality(S)
  BY <1>1, <1>2
<1>4. ASSUME NEW a \in S, NEW b \in S, Before(a, b)
      PROVE  Cardinality(Below(S, a)) < Cardinality(Below(S, b))
  <2>1. Below(S, a) \in SUBSET Below(S, b)
    BY <1>4, BeforeIsTotal DEF Below
  <2>2. a \in Below(S, b)
    BY <1>4 DEF Below
  <2> QED
    BY <1>1, <1>2, <2>1, <2>2
<1>5. Cardinality(S) \in Nat
  BY <1>0, Counts
<1> QED
  BY <1>1, <1>3, <1>4, <1>5

\* Every place is taken.
LEMMA PlacesTaken ==
    ASSUME NEW S, Dated(S), NEW k \in 1..Cardinality(S)
    PROVE  \E a \in S : Cardinality(Below(S, a)) = k - 1
<1> DEFINE n == Cardinality(S)
           place == [a \in S |-> Cardinality(Below(S, a)) + 1]
<1>1. IsFiniteSet(S) /\ n \in Nat
  BY BelowCounts DEF Dated
<1>2. place \in [S -> 1..n]
  <2>1. ASSUME NEW a \in S
        PROVE  Cardinality(Below(S, a)) + 1 \in 1..n
    <3>1. Cardinality(Below(S, a)) \in Nat /\ Cardinality(Below(S, a)) < n
      BY BelowCounts
    <3> QED
      BY <1>1, <3>1
  <2> QED
    BY <2>1
<1>3. \A a, b \in S : place[a] = place[b] => a = b
  <2>1. ASSUME NEW a \in S, NEW b \in S, a # b
        PROVE  Cardinality(Below(S, a)) # Cardinality(Below(S, b))
    <3>1. Cardinality(Below(S, a)) \in Nat /\ Cardinality(Below(S, b)) \in Nat
      BY BelowCounts
    <3>2. \/ Cardinality(Below(S, a)) < Cardinality(Below(S, b))
          \/ Cardinality(Below(S, b)) < Cardinality(Below(S, a))
      BY <2>1, BeforeIsTotal, BelowCounts
    <3> QED
      BY <3>1, <3>2
  <2>2. ASSUME NEW a \in S
        PROVE  Cardinality(Below(S, a)) \in Nat
    BY BelowCounts
  <2> QED
    BY <2>1, <2>2
<1> HIDE DEF place
<1>4. place \in Injection(S, 1..n)
  BY <1>2, <1>3 DEF Injection, IsInjective
<1>5. IsFiniteSet(1..n) /\ Cardinality(1..n) = n
  <2>1. 1 \in Int /\ n \in Int
    BY <1>1
  <2>2. /\ IsFiniteSet(1..n)
        /\ Cardinality(1..n) = IF 1 > n THEN 0 ELSE n - 1 + 1
    BY <2>1, FS_Interval
  <2> HIDE DEF n
  <2> QED
    BY <1>1, <2>2
<1>6. place \in Surjection(S, 1..n)
  BY <1>4, <1>5, FS_Injection
<1>7. PICK a \in S : place[a] = k
  BY <1>6 DEF Surjection
<1>8. Cardinality(Below(S, a)) \in Nat /\ Cardinality(Below(S, a)) + 1 = k
  BY <1>7, BelowCounts DEF place
<1> QED
  BY <1>8

\* A sorted set has each row once, and in order.
LEMMA SortedIsSorted ==
    ASSUME NEW S, Dated(S)
    PROVE  /\ Cardinality(S) \in Nat
           /\ DOMAIN Sorted(S) = 1..Cardinality(S)
           /\ \A k \in 1..Cardinality(S) :
                  Sorted(S)[k] \in S /\ Cardinality(Below(S, Sorted(S)[k])) = k - 1
           /\ \A a \in S : /\ Cardinality(Below(S, a)) + 1 \in 1..Cardinality(S)
                           /\ Sorted(S)[Cardinality(Below(S, a)) + 1] = a
           /\ \A j, k \in 1..Cardinality(S) :
                  j < k => Sorted(S)[j] # Sorted(S)[k] /\ Before(Sorted(S)[j], Sorted(S)[k])
<1> DEFINE n == Cardinality(S)
           q == Sorted(S)
<1>1. n \in Nat
  BY BelowCounts
<1>2. q = [k \in 1..n |-> CHOOSE a \in S : Cardinality(Below(S, a)) = k - 1]
  BY DEF Sorted, Below
<1> HIDE DEF q
<1>3. DOMAIN q = 1..n
  BY <1>2
<1>4. ASSUME NEW k \in 1..n
      PROVE  q[k] \in S /\ Cardinality(Below(S, q[k])) = k - 1
  <2>1. \E a \in S : Cardinality(Below(S, a)) = k - 1
    BY PlacesTaken
  <2>2. q[k] = CHOOSE a \in S : Cardinality(Below(S, a)) = k - 1
    BY <1>2
  <2> HIDE DEF n
  <2> QED
    BY <2>1, <2>2
<1>5. ASSUME NEW a \in S
      PROVE  Cardinality(Below(S, a)) + 1 \in 1..n /\ q[Cardinality(Below(S, a)) + 1] = a
  <2>1. PICK m \in Nat : m = Cardinality(Below(S, a)) /\ m < n
    BY BelowCounts
  <2>2. m + 1 \in 1..n
    BY <1>1, <2>1
  <2>3. q[m + 1] \in S /\ Cardinality(Below(S, q[m + 1])) = m
    BY <1>4, <2>2
  <2>4. CASE q[m + 1] # a
    <3>1. \/ Cardinality(Below(S, a)) < Cardinality(Below(S, q[m + 1]))
          \/ Cardinality(Below(S, q[m + 1])) < Cardinality(Below(S, a))
      BY <2>3, <2>4, BeforeIsTotal, BelowCounts
    <3> QED
      BY <2>1, <2>3, <3>1
  <2> QED
    BY <2>1, <2>2, <2>4
<1>6. ASSUME NEW j \in 1..n, NEW k \in 1..n, j < k
      PROVE  q[j] # q[k] /\ Before(q[j], q[k])
  <2>1. /\ q[j] \in S /\ Cardinality(Below(S, q[j])) = j - 1
        /\ q[k] \in S /\ Cardinality(Below(S, q[k])) = k - 1
    BY <1>4
  <2>2. q[j] # q[k]
    BY <1>1, <1>6, <2>1
  <2>3. CASE Before(q[k], q[j])
    <3>1. Cardinality(Below(S, q[k])) < Cardinality(Below(S, q[j]))
      BY <2>1, <2>3, BelowCounts
    <3> QED
      BY <1>1, <1>6, <2>1, <3>1
  <2> QED
    BY <2>1, <2>2, <2>3, BeforeIsTotal
<1> QED
  BY <1>1, <1>3, <1>4, <1>5, <1>6 DEF q

----------------------------------------------------------------------------
\* The folds, event by event

\* Balance folds the events of a group in three ways: into the balances, into their
\* timeline and, the expenses alone, into the timeline of the spending.
TimelineStep(w, acc, a) ==
    LET bal  == ApplyEvent(w, acc.bal, a)
        snap == [day |-> DayKey(a.date), balances |-> RoundBalance(bal)]
        same == acc.snaps # <<>> /\ Last(acc.snaps).day = snap.day
    IN  [bal |-> bal,
         snaps |-> Append(IF same THEN Front(acc.snaps) ELSE acc.snaps, snap)]

SpendingStep(acc, e) ==
    LET total == [acc.total EXCEPT ![e.currency] = @ + e.amount]
        snap  == [day |-> DayKey(e.date), total |-> total]
        same  == acc.snaps # <<>> /\ Last(acc.snaps).day = snap.day
    IN  [total |-> total,
         snaps |-> Append(IF same THEN Front(acc.snaps) ELSE acc.snaps, snap)]

Start(what, w) ==
    IF what = "balances" THEN NoBalance(w)
    ELSE IF what = "timeline" THEN [bal |-> NoBalance(w), snaps |-> <<>>]
    ELSE [total |-> [c \in Currencies |-> 0], snaps |-> <<>>]

Applied(what, w, acc, a) ==
    IF what = "balances" THEN ApplyEvent(w, acc, a)
    ELSE IF what = "timeline" THEN TimelineStep(w, acc, a)
    ELSE SpendingStep(acc, a)

\* it is what the recursion of the fold defines.
Replays(what, w, q, it) ==
    it = [s \in SUBSET DOMAIN q |->
             IF s = {} THEN Start(what, w)
             ELSE Applied(what, w, it[s \ {Max(s)}], q[Max(s)])]

\* What the first k events come to.
After(what, w, q, k) == (CHOOSE it : Replays(what, w, q, it))[1..k]

\* The balances after the first k events.
Stage(w, q, k) == After("balances", w, q, k)

\* The folds of Balance, over the numbers of the events.
LEMMA FloatBalancesIsFold ==
    ASSUME NEW w, NEW acts
    PROVE  FloatBalances(w, acts) =
               (CHOOSE it : Replays("balances", w, BalanceEvents(acts), it))
                   [DOMAIN BalanceEvents(acts)]
<1> DEFINE q == BalanceEvents(acts)
           Folds(it) == it = [s \in SUBSET DOMAIN q |->
                                 IF s = {} THEN NoBalance(w)
                                 ELSE ApplyEvent(w, it[s \ {Max(s)}], q[Max(s)])]
<1>1. FloatBalances(w, acts) = (CHOOSE it : Folds(it))[DOMAIN q]
  BY DEF FloatBalances, FoldLeft, MapThenFoldSet
<1>2. \A it : Folds(it) <=> Replays("balances", w, q, it)
  BY DEF Replays, Start, Applied
<1> HIDE DEF q, Folds
<1>3. (CHOOSE it : Folds(it)) = (CHOOSE it : Replays("balances", w, q, it))
  BY <1>2, Zenon
<1> QED
  BY <1>1, <1>3 DEF q

\* The same for the timeline of the balances.
LEMMA TimelineIsFold ==
    ASSUME NEW w, NEW acts
    PROVE  ComputeBalanceTimeline(w, acts) =
               (CHOOSE it : Replays("timeline", w, BalanceEvents(acts), it))
                   [DOMAIN BalanceEvents(acts)].snaps
<1> DEFINE q == BalanceEvents(acts)
           Folds(it) == it = [s \in SUBSET DOMAIN q |->
                                 IF s = {} THEN [bal |-> NoBalance(w), snaps |-> <<>>]
                                 ELSE TimelineStep(w, it[s \ {Max(s)}], q[Max(s)])]
<1>1. ComputeBalanceTimeline(w, acts) = (CHOOSE it : Folds(it))[DOMAIN q].snaps
  BY DEF ComputeBalanceTimeline, FoldLeft, MapThenFoldSet, TimelineStep
<1>2. \A it : Folds(it) <=> Replays("timeline", w, q, it)
  BY DEF Replays, Start, Applied
<1> HIDE DEF q, Folds
<1>3. (CHOOSE it : Folds(it)) = (CHOOSE it : Replays("timeline", w, q, it))
  BY <1>2, Zenon
<1> QED
  BY <1>1, <1>3 DEF q

\* The same for the timeline of the spending, whatever the weights.
LEMMA SpendingIsFold ==
    ASSUME NEW w, NEW acts
    PROVE  ComputeSpendingTimeline(acts) =
               (CHOOSE it : Replays("spending", w, Sorted(GroupExpenses(acts)), it))
                   [DOMAIN Sorted(GroupExpenses(acts))].snaps
<1> DEFINE q == Sorted(GroupExpenses(acts))
           Folds(it) == it = [s \in SUBSET DOMAIN q |->
                                 IF s = {} THEN [total |-> [c \in Currencies |-> 0],
                                                 snaps |-> <<>>]
                                 ELSE SpendingStep(it[s \ {Max(s)}], q[Max(s)])]
<1>1. ComputeSpendingTimeline(acts) = (CHOOSE it : Folds(it))[DOMAIN q].snaps
  BY DEF ComputeSpendingTimeline, FoldLeft, MapThenFoldSet, SpendingStep
<1>2. \A it : Folds(it) <=> Replays("spending", w, q, it)
  BY DEF Replays, Start, Applied
<1> HIDE DEF q, Folds
<1>3. (CHOOSE it : Folds(it)) = (CHOOSE it : Replays("spending", w, q, it))
  BY <1>2, Zenon
<1> QED
  BY <1>1, <1>3 DEF q

\* The largest of the first k numbers.
LEMMA MaxOfFirst ==
    ASSUME NEW k \in Nat \ {0}
    PROVE  Max(1..k) = k /\ (1..k) \ {k} = 1..(k - 1) /\ 1..k # {}
<1>1. k \in 1..k /\ \A y \in 1..k : k >= y
  OBVIOUS
<1>2. \A x \in 1..k : (\A y \in 1..k : x >= y) => x = k
  OBVIOUS
<1>3. Max(1..k) = k
  BY <1>1, <1>2 DEF Max
<1>4. (1..k) \ {k} = 1..(k - 1)
  OBVIOUS
<1> QED
  BY <1>1, <1>3, <1>4

\* There is such a function.
LEMMA ReplaysExists ==
    ASSUME NEW what, NEW w, NEW n \in Nat, NEW q, DOMAIN q = 1..n
    PROVE  \E it : Replays(what, w, q, it)
<1> DEFINE Unrolled(it) == [s \in SUBSET DOMAIN q |->
                               IF s = {} THEN Start(what, w)
                               ELSE Applied(what, w, it[s \ {Max(s)}], q[Max(s)])]
           Upto(m, it) == /\ it = [s \in SUBSET DOMAIN q |-> it[s]]
                          /\ \A s \in SUBSET DOMAIN q :
                                 Cardinality(s) <= m => it[s] = Unrolled(it)[s]
           G == {m \in Nat : \E it : Upto(m, it)}
<1>0. IsFiniteSet(DOMAIN q)
  BY FS_Interval
<1>1. \A s \in SUBSET DOMAIN q : Cardinality(s) \in Nat /\ (Cardinality(s) = 0 <=> s = {})
  BY <1>0, Counts
<1>2. ASSUME NEW s \in SUBSET DOMAIN q, s # {}
      PROVE  /\ s \ {Max(s)} \in SUBSET DOMAIN q
             /\ Cardinality(s \ {Max(s)}) = Cardinality(s) - 1
  <2>1. \E x \in s : \A y \in s : x >= y
    <3> DEFINE U == {n - y : y \in s}
    <3>1. U \in SUBSET Nat /\ U # {}
      BY <1>2
    <3>2. PICK m \in U : \A v \in U : m <= v
      BY <3>1, LeastMember
    <3>3. PICK x \in s : m = n - x
      BY <3>2
    <3>4. ASSUME NEW y \in s
          PROVE  x >= y
      <4>1. n - y \in U
        BY <3>4
      <4>2. n - x <= n - y
        BY <3>2, <3>3, <4>1
      <4>3. x \in Int /\ y \in Int
        OBVIOUS
      <4> HIDE DEF U
      <4> QED
        BY <4>2, <4>3
    <3> QED
      BY <3>4
  <2>2. PICK x \in s : x = Max(s)
    BY <2>1 DEF Max
  <2>3. Cardinality(s \ {x}) = Cardinality(s) - 1
    BY <1>0, <2>2, Counts
  <2> QED
    BY <2>2, <2>3
<1>3. 0 \in G
  <2> DEFINE it == [s \in SUBSET DOMAIN q |-> Start(what, w)]
  <2>1. \A s \in SUBSET DOMAIN q : Cardinality(s) <= 0 => s = {}
    BY <1>1
  <2>2. Upto(0, it)
    BY <2>1
  <2> QED
    BY <2>2
<1>4. ASSUME NEW m \in Nat, m \in G
      PROVE  m + 1 \in G
  <2>1. PICK it : Upto(m, it)
    BY <1>4
  <2> DEFINE jt == Unrolled(it)
  <2>2. ASSUME NEW s \in SUBSET DOMAIN q, Cardinality(s) <= m + 1
        PROVE  jt[s] = Unrolled(jt)[s]
    <3>1. CASE s = {}
      BY <3>1
    <3>2. CASE s # {}
      <4> DEFINE r == s \ {Max(s)}
      <4>1. r \in SUBSET DOMAIN q /\ Cardinality(r) <= m
        BY <1>1, <1>2, <2>2, <3>2
      <4>2. jt[r] = it[r]
        BY <2>1, <4>1
      <4> QED
        BY <3>2, <4>2
    <3> QED
      BY <3>1, <3>2
  <2>3. jt = [s \in SUBSET DOMAIN q |-> jt[s]]
    OBVIOUS
  <2> HIDE DEF jt
  <2>4. Upto(m + 1, jt)
    BY <2>2, <2>3
  <2> HIDE DEF Upto
  <2> QED
    BY <2>4
<1> HIDE DEF G
<1>5. \A m \in Nat : m \in G
  BY <1>3, <1>4, AllNumbers
<1>6. Cardinality(DOMAIN q) \in Nat
  BY <1>0, FS_CardinalityType
<1>7. PICK it : Upto(Cardinality(DOMAIN q), it)
  BY <1>5, <1>6 DEF G
<1>8. \A s \in SUBSET DOMAIN q : Cardinality(s) <= Cardinality(DOMAIN q)
  BY <1>0, FS_Subset
<1>9. it = Unrolled(it)
  BY <1>7, <1>8
<1> QED
  BY <1>9 DEF Replays

\* Every event is applied to what the earlier ones came to.
LEMMA AfterEach ==
    ASSUME NEW what, NEW w, NEW n \in Nat, NEW q, DOMAIN q = 1..n
    PROVE  /\ After(what, w, q, 0) = Start(what, w)
           /\ \A k \in 1..n : After(what, w, q, k) =
                                  Applied(what, w, After(what, w, q, k - 1), q[k])
<1>1. PICK it : it = CHOOSE f : Replays(what, w, q, f)
  OBVIOUS
<1>2. Replays(what, w, q, it)
  BY <1>1, ReplaysExists
<1>3. \A k : After(what, w, q, k) = it[1..k]
  BY <1>1 DEF After
<1>4. it[{}] = Start(what, w)
  BY <1>2 DEF Replays
<1>5. 1..0 = {}
  OBVIOUS
<1>6. ASSUME NEW k \in 1..n
      PROVE  it[1..k] = Applied(what, w, it[1..(k - 1)], q[k])
  <2>1. 1..k \in SUBSET DOMAIN q /\ k \in Nat \ {0}
    OBVIOUS
  <2>2. Max(1..k) = k /\ (1..k) \ {k} = 1..(k - 1) /\ 1..k # {}
    BY <2>1, MaxOfFirst
  <2> QED
    BY <1>2, <2>1, <2>2 DEF Replays
<1> QED
  BY <1>3, <1>4, <1>5, <1>6

\* Every event is applied to the balances after the earlier ones.
LEMMA StageByStage ==
    ASSUME NEW w, NEW n \in Nat, NEW q, DOMAIN q = 1..n
    PROVE  /\ Stage(w, q, 0) = NoBalance(w)
           /\ \A k \in 1..n : Stage(w, q, k) = ApplyEvent(w, Stage(w, q, k - 1), q[k])
<1>1. /\ After("balances", w, q, 0) = Start("balances", w)
      /\ \A k \in 1..n : After("balances", w, q, k) =
                             Applied("balances", w, After("balances", w, q, k - 1), q[k])
  BY AfterEach
<1> QED
  BY <1>1 DEF Stage, Start, Applied

\* The balances of a group are those after the last event.
LEMMA FloatBalancesIsStage ==
    ASSUME NEW w, NEW acts, NEW n \in Nat, DOMAIN BalanceEvents(acts) = 1..n
    PROVE  FloatBalances(w, acts) = Stage(w, BalanceEvents(acts), n)
  BY FloatBalancesIsFold DEF Stage, After

----------------------------------------------------------------------------
\* The weights

\* Members have a positive weight, everyone else none.
LEMMA WeightsAreCounts ==
    ASSUME NEW w \in Weightings, NEW S, IsFiniteSet(S)
    PROVE  /\ \A u : Weight(w, u) \in Nat /\ (Weight(w, u) = 0 <=> u \notin DOMAIN w)
           /\ TotalWeight(w, S) \in Nat
           /\ TotalWeight(w, S) = 0 <=> S \cap DOMAIN w = {}
<1>1. \A u \in DOMAIN w : w[u] \in Nat \ {0}
  BY HistoryAssumption
<1>2. \A u : Weight(w, u) \in Nat /\ (Weight(w, u) = 0 <=> u \notin DOMAIN w)
  BY <1>1 DEF Weight
<1> DEFINE f == [u \in S |-> Weight(w, u)]
           R == {v \in Int \X Int \X Int \X Nat : v[1] >= 0}
<1>3. TotalWeight(w, S) = SumFunctionOnSet(f, S)
  BY DEF TotalWeight, SumFunction
<1>4. \A x \in S : f[x] = Weight(w, x) /\ f[x] \in Nat /\ f[x] \in Int
  BY <1>2
<1> HIDE DEF f
<1>5. TotalWeight(w, S) \in Nat
  <2> DEFINE zero == [u \in S |-> 0]
  <2>1. \A x \in S : zero[x] = 0 /\ zero[x] \in Int /\ zero[x] <= f[x]
    BY <1>4
  <2> HIDE DEF zero
  <2>2. SumFunctionOnSet(zero, S) <= SumFunctionOnSet(f, S) /\ SumFunctionOnSet(zero, S) = 0
    BY <1>4, <2>1, SumMonotone, SumZero
  <2>3. SumFunctionOnSet(f, S) \in Int
    BY <1>4, SumIsInt
  <2> QED
    BY <1>3, <2>2, <2>3
<1>6. ASSUME S \cap DOMAIN w = {}
      PROVE  TotalWeight(w, S) = 0
  <2>1. \A x \in S : f[x] = 0
    BY <1>2, <1>4, <1>6
  <2> QED
    BY <1>3, <2>1, SumZero
<1>7. ASSUME NEW u \in S \cap DOMAIN w
      PROVE  TotalWeight(w, S) # 0
  <2> DEFINE T == S \ {u}
             zero == [v \in S |-> 0]
  <2>0. u \in S /\ \A x \in S : f[x] \in Int
    BY <1>4
  <2>1. SumFunctionOnSet(f, S) = f[u] + SumFunctionOnSet(f, T) /\ SumFunctionOnSet(f, T) \in Int
    BY <2>0, SumRemove
  <2>2. IsFiniteSet(T) /\ \A x \in T : zero[x] = 0 /\ zero[x] \in Int /\ zero[x] <= f[x] /\ f[x] \in Int
    BY <1>4, Counts
  <2> HIDE DEF zero, T
  <2>3. SumFunctionOnSet(zero, T) <= SumFunctionOnSet(f, T) /\ SumFunctionOnSet(zero, T) = 0
    BY <2>2, SumMonotone, SumZero
  <2>4. f[u] \in Nat /\ f[u] # 0
    BY <1>2, <1>4
  <2> QED
    BY <1>3, <2>1, <2>3, <2>4
<1> QED
  BY <1>2, <1>5, <1>6, <1>7

\* The shares of an expense are exact.
LEMMA ShareIsExact ==
    ASSUME NEW w \in Weightings, NEW e, e.kind = "expense", Filled(e),
           TotalWeight(w, e.beneficiaries) # 0
    PROVE  \E m \in Int : /\ m * TotalWeight(w, e.beneficiaries) = e.amount * Scale
                          /\ \A u : Share(w, e, u) = m * Weight(w, u)
<1> DEFINE total == TotalWeight(w, e.beneficiaries)
<1>1. /\ e.amount \in Int /\ IsFiniteSet(e.beneficiaries) /\ Scale % total = 0
  BY DEF Filled
<1>2. total \in Nat \ {0} /\ \A u : Weight(w, u) \in Nat
  BY <1>1, WeightsAreCounts
<1>3. Scale \in Nat
  BY ScaleAssumption
<1> DEFINE k == Scale \div total
<1>4. k \in Int /\ Scale = total * k
  <2>1. \A s \in Nat, t \in Nat \ {0} : s % t = 0 => s \div t \in Int /\ s = t * (s \div t)
    OBVIOUS
  <2> QED
    BY <1>1, <1>2, <1>3, <2>1
<1> DEFINE m == e.amount * k
<1>5. m \in Int
  BY <1>1, <1>4
<1>6. ASSUME NEW u
      PROVE  Share(w, e, u) = m * Weight(w, u)
  <2>1. \A a, v, t, j \in Int : a * v * (t * j) = (a * j * v) * t /\ a * j * v \in Int
    OBVIOUS
  <2>2. e.amount * Weight(w, u) * Scale = (m * Weight(w, u)) * total /\ m * Weight(w, u) \in Int
    BY <1>1, <1>2, <1>4, <2>1
  <2>3. \A x \in Int, t \in Nat \ {0} : (x * t) \div t = x
    OBVIOUS
  <2>4. (m * Weight(w, u) * total) \div total = m * Weight(w, u)
    BY <1>2, <2>2, <2>3
  <2> QED
    BY <2>2, <2>4 DEF Share
<1>7. m * total = e.amount * Scale
  <2>1. \A a, t, j \in Int : (a * j) * t = a * (t * j)
    OBVIOUS
  <2> QED
    BY <1>1, <1>2, <1>4, <2>1
<1> QED
  BY <1>5, <1>6, <1>7

----------------------------------------------------------------------------
\* What an event does

Balances(w) == [DOMAIN w -> [Currencies -> Int]]

\* What an expense or a transfer changes in the position of u.
Change(w, u, a) ==
    IF a.kind = "expense"
    THEN IF TotalWeight(w, a.beneficiaries) = 0 THEN 0
         ELSE (IF u = a.payer THEN a.amount * Scale ELSE 0)
                - (IF u \in a.beneficiaries THEN Share(w, a, u) ELSE 0)
    ELSE (IF u = a.sender THEN a.amount * Scale ELSE 0)
           - (IF u = a.receiver THEN a.amount * Scale ELSE 0)

\* Shares are whole: so is what a row changes.
LEMMA ChangeIsInt ==
    ASSUME NEW w \in Weightings, NEW a, Filled(a), a.kind \in {"expense", "transfer"}, NEW u
    PROVE  Change(w, u, a) \in Int /\ a.amount * Scale \in Int
<1>1. a.amount \in Int /\ a.amount * Scale \in Int
  BY ScaleAssumption DEF Filled
<1>2. CASE a.kind = "expense"
  <2>1. CASE TotalWeight(w, a.beneficiaries) = 0
    BY <1>1, <1>2, <2>1 DEF Change
  <2>2. CASE TotalWeight(w, a.beneficiaries) # 0
    <3>1. PICK m \in Int : \A v : Share(w, a, v) = m * Weight(w, v)
      BY <1>2, <2>2, ShareIsExact
    <3>2. Weight(w, u) \in Nat
      BY <1>2, WeightsAreCounts DEF Filled
    <3>3. Share(w, a, u) \in Int
      BY <3>1, <3>2
    <3> QED
      BY <1>1, <1>2, <2>2, <3>3 DEF Change
  <2> QED
    BY <2>1, <2>2
<1>3. CASE a.kind = "transfer"
  BY <1>1, <1>3 DEF Change
<1> QED
  BY <1>2, <1>3

\* An event that can be applied keeps the type of the balances: an expense or a transfer
\* changes the currency it is in, a conversion folds each position into another currency.
LEMMA EventEffect ==
    ASSUME NEW w \in Weightings, NEW bal \in Balances(w), NEW a,
           Filled(a), ~ Panics(w, a)
    PROVE  /\ ApplyEvent(w, bal, a) \in Balances(w)
           /\ a.kind \in {"expense", "transfer"} =>
                  \A u \in DOMAIN w, c \in Currencies :
                      ApplyEvent(w, bal, a)[u][c] =
                          bal[u][c] + (IF c = a.currency THEN Change(w, u, a) ELSE 0)
           /\ a.kind = "conversion" =>
                  \A u \in DOMAIN w, c \in Currencies :
                      ApplyEvent(w, bal, a)[u][c] =
                          IF c = a.from THEN 0
                          ELSE bal[u][c]
                               + (IF c = a.to THEN Folded(bal[u][a.from], a) * Scale ELSE 0)
<1> DEFINE new == ApplyEvent(w, bal, a)
<1>0. \A u \in DOMAIN w : bal[u] \in [Currencies -> Int]
  BY DEF Balances
<1>1. CASE a.kind = "expense"
  <2>0. a.currency \in Currencies
    BY <1>1 DEF Filled
  <2>1. new = ApplyExpense(w, bal, a)
    BY <1>1 DEF ApplyEvent
  <2>2. \A u : Change(w, u, a) \in Int
    BY <1>1, ChangeIsInt
  <2>3. CASE TotalWeight(w, a.beneficiaries) = 0
    <3>1. new = bal /\ \A u : Change(w, u, a) = 0
      BY <1>1, <2>1, <2>3 DEF ApplyExpense, Change
    <3> QED
      BY <1>0, <1>1, <3>1
  <2>4. CASE TotalWeight(w, a.beneficiaries) # 0
    <3>1. ASSUME NEW u \in DOMAIN w
          PROVE  /\ (IF u = a.payer THEN a.amount * Scale ELSE 0) \in Int
                 /\ (IF u \in a.beneficiaries THEN Share(w, a, u) ELSE 0) \in Int
      <4>1. a.amount * Scale \in Int
        BY <1>1, ChangeIsInt
      <4>2. Share(w, a, u) \in Int
        <5>1. PICK m \in Int : \A v : Share(w, a, v) = m * Weight(w, v)
          BY <1>1, <2>4, ShareIsExact
        <5>2. Weight(w, u) \in Nat
          BY <1>1, WeightsAreCounts DEF Filled
        <5> QED
          BY <5>1, <5>2
      <4> QED
        BY <4>1, <4>2
    <3>2. new = [u \in DOMAIN w |-> [bal[u] EXCEPT ![a.currency] =
                    @ + (IF u = a.payer THEN a.amount * Scale ELSE 0)
                      - (IF u \in a.beneficiaries THEN Share(w, a, u) ELSE 0)]]
      BY <2>1, <2>4 DEF ApplyExpense
    <3>3. ASSUME NEW u \in DOMAIN w
          PROVE  new[u] = [bal[u] EXCEPT ![a.currency] = @ + Change(w, u, a)]
      <4>1. new[u] = [bal[u] EXCEPT ![a.currency] =
                    @ + (IF u = a.payer THEN a.amount * Scale ELSE 0)
                      - (IF u \in a.beneficiaries THEN Share(w, a, u) ELSE 0)]
        BY <3>2
      <4>2. Change(w, u, a) = (IF u = a.payer THEN a.amount * Scale ELSE 0)
                                - (IF u \in a.beneficiaries THEN Share(w, a, u) ELSE 0)
        BY <1>1, <2>4 DEF Change
      <4>3. bal[u][a.currency] \in Int
        BY <1>0, <2>0
      <4>4. \A x, y, z \in Int : x + y - z = x + (y - z)
        OBVIOUS
      <4>5. bal[u][a.currency] + (IF u = a.payer THEN a.amount * Scale ELSE 0)
                - (IF u \in a.beneficiaries THEN Share(w, a, u) ELSE 0)
            = bal[u][a.currency] + Change(w, u, a)
        BY <3>1, <4>2, <4>3, <4>4
      <4> QED
        BY <4>1, <4>5
    <3>4. DOMAIN new = DOMAIN w /\ new = [u \in DOMAIN w |-> new[u]]
      BY <3>2
    <3> HIDE DEF new
    <3>5. ASSUME NEW u \in DOMAIN w
          PROVE  /\ new[u] \in [Currencies -> Int]
                 /\ \A c \in Currencies : new[u][c] =
                        bal[u][c] + (IF c = a.currency THEN Change(w, u, a) ELSE 0)
      <4>1. PICK f \in [Currencies -> Int] : f = bal[u]
        BY <1>0
      <4>2. PICK y \in Int : y = Change(w, u, a)
        BY <2>2
      <4>3. new[u] = [f EXCEPT ![a.currency] = @ + y]
        BY <3>3, <4>1, <4>2
      <4>4. new[u] \in [Currencies -> Int]
        BY <2>0, <4>3
      <4>5. \A c \in Currencies : new[u][c] = IF c = a.currency THEN f[c] + y ELSE f[c]
        BY <2>0, <4>3
      <4>6. \A c \in Currencies : f[c] + 0 = f[c]
        OBVIOUS
      <4> QED
        BY <4>1, <4>2, <4>4, <4>5, <4>6
    <3>6. new \in Balances(w)
      BY <3>4, <3>5 DEF Balances
    <3> QED
      BY <1>1, <3>5, <3>6 DEF new
  <2> QED
    BY <2>3, <2>4
<1>2. CASE a.kind = "transfer"
  <2>0. a.currency \in Currencies /\ a.sender \in DOMAIN w /\ a.receiver \in DOMAIN w
    BY <1>2 DEF Filled, Panics
  <2>1. new = ApplyTransfer(bal, a)
    BY <1>2 DEF ApplyEvent
  <2>2. PICK x \in Int : x = a.amount * Scale
    BY <1>2, ChangeIsInt
  <2>3. \A u : Change(w, u, a) = (IF u = a.sender THEN x ELSE 0) - (IF u = a.receiver THEN x ELSE 0)
    BY <1>2, <2>2 DEF Change
  <2> DEFINE mid == [bal EXCEPT ![a.sender][a.currency] = @ + a.amount * Scale]
  <2>4. new = [mid EXCEPT ![a.receiver][a.currency] = @ - a.amount * Scale]
    BY <2>1 DEF ApplyTransfer
  <2>5. /\ mid \in [DOMAIN w -> [Currencies -> Int]]
        /\ \A u \in DOMAIN w, c \in Currencies : mid[u][c] =
               bal[u][c] + (IF u = a.sender /\ c = a.currency THEN x ELSE 0)
    BY <1>0, <2>0, <2>2 DEF Balances
  <2> HIDE DEF new, mid
  <2>6. /\ new \in [DOMAIN w -> [Currencies -> Int]]
        /\ \A u \in DOMAIN w, c \in Currencies : new[u][c] =
               mid[u][c] - (IF u = a.receiver /\ c = a.currency THEN x ELSE 0)
    BY <2>0, <2>2, <2>4, <2>5
  <2>7. ASSUME NEW u \in DOMAIN w, NEW c \in Currencies
        PROVE  new[u][c] = bal[u][c] + (IF c = a.currency THEN Change(w, u, a) ELSE 0)
    <3>1. PICK y \in Int : y = bal[u][c]
      BY <1>0
    <3>2. mid[u][c] = y + (IF u = a.sender /\ c = a.currency THEN x ELSE 0)
      BY <2>5, <3>1
    <3>3. new[u][c] = y + (IF u = a.sender /\ c = a.currency THEN x ELSE 0)
                        - (IF u = a.receiver /\ c = a.currency THEN x ELSE 0)
      <4>1. new[u][c] = mid[u][c] - (IF u = a.receiver /\ c = a.currency THEN x ELSE 0)
        BY <2>6
      <4> QED
        BY <3>2, <4>1
    <3>4. CASE c = a.currency
      <4>1. Change(w, u, a) = (IF u = a.sender THEN x ELSE 0) - (IF u = a.receiver THEN x ELSE 0)
        BY <2>3
      <4> QED
        BY <3>1, <3>3, <3>4, <4>1
    <3>5. CASE c # a.currency
      BY <3>1, <3>3, <3>5
    <3> QED
      BY <3>4, <3>5
  <2> QED
    BY <1>2, <2>6, <2>7 DEF Balances, new
<1>3. CASE a.kind = "conversion"
  <2>0. a.from \in Currencies /\ a.to \in Currencies
    BY <1>3 DEF Filled
  <2>1. new = [u \in DOMAIN w |->
                  [bal[u] EXCEPT ![a.to]   = @ + Folded(bal[u][a.from], a) * Scale,
                                 ![a.from] = 0]]
    BY <1>3 DEF ApplyEvent, ApplyConversion, Balances
  <2>2. ASSUME NEW u \in DOMAIN w
        PROVE  Folded(bal[u][a.from], a) * Scale \in Int
    <3>1. bal[u][a.from] \in Int
      BY <1>0, <2>0
    <3>2. a.rate.num \in Int /\ a.rate.den \in Nat \ {0} /\ Scale \in Nat \ {0}
      BY <1>3, ScaleAssumption DEF Filled
    <3>3. bal[u][a.from] * a.rate.num \in Int /\ Scale * a.rate.den \in Nat \ {0}
      <4>1. \A p, q \in Nat \ {0} : p * q \in Nat \ {0}
        OBVIOUS
      <4> QED
        BY <3>1, <3>2, <4>1
    <3>4. Folded(bal[u][a.from], a) \in Int
      BY <3>3, RoundedIsClose DEF Folded
    <3> QED
      BY <3>2, <3>4
  <2>3. ASSUME NEW u \in DOMAIN w
        PROVE  new[u] = [bal[u] EXCEPT ![a.to]   = @ + Folded(bal[u][a.from], a) * Scale,
                                       ![a.from] = 0]
    BY <2>1
  <2>4. new = [u \in DOMAIN w |-> new[u]]
    BY <2>1
  <2> HIDE DEF new
  <2>5. ASSUME NEW u \in DOMAIN w
        PROVE  /\ new[u] \in [Currencies -> Int]
               /\ \A c \in Currencies : new[u][c] =
                      IF c = a.from THEN 0
                      ELSE bal[u][c]
                           + (IF c = a.to THEN Folded(bal[u][a.from], a) * Scale ELSE 0)
    <3>1. PICK f \in [Currencies -> Int] : f = bal[u]
      BY <1>0
    <3>2. PICK y \in Int : y = Folded(bal[u][a.from], a) * Scale
      BY <2>2
    <3>3. new[u] = [f EXCEPT ![a.to] = @ + y, ![a.from] = 0]
      BY <2>3, <3>1, <3>2
    <3>4. new[u] \in [Currencies -> Int]
      BY <2>0, <3>3
    <3>5. \A c \in Currencies : new[u][c] = IF c = a.from THEN 0
                                           ELSE IF c = a.to THEN f[c] + y ELSE f[c]
      BY <2>0, <3>3
    <3>6. \A c \in Currencies : f[c] + 0 = f[c]
      OBVIOUS
    <3> QED
      BY <3>1, <3>2, <3>4, <3>5, <3>6
  <2> QED
    BY <1>3, <2>4, <2>5 DEF Balances, new
<1> QED
  BY <1>1, <1>2, <1>3 DEF Filled

----------------------------------------------------------------------------
\* What the positions of a currency add up to

\* The sum of the members' positions in c, in sub-cents.
Position(bal, c) == [u \in DOMAIN bal |-> bal[u][c]]
TotalOf(w, bal, c) == SumFunctionOnSet(Position(bal, c), DOMAIN w)

\* Positions are numbers and have a sum.
LEMMA PositionIs ==
    ASSUME NEW w \in Weightings, NEW bal \in Balances(w), NEW c \in Currencies
    PROVE  /\ \A u \in DOMAIN w : Position(bal, c)[u] = bal[u][c] /\ bal[u][c] \in Int
           /\ IsFiniteSet(DOMAIN w) /\ TotalOf(w, bal, c) \in Int
<1>1. \A u \in DOMAIN w : Position(bal, c)[u] = bal[u][c] /\ bal[u][c] \in Int
  BY DEF Position, Balances
<1>2. IsFiniteSet(DOMAIN w)
  BY HistoryAssumption
<1>3. \A u \in DOMAIN w : Position(bal, c)[u] \in Int
  BY <1>1
<1> QED
  BY <1>1, <1>2, <1>3, SumIsInt DEF TotalOf

\* What one gains in an expense or a transfer others lose.
LEMMA ChangesCancel ==
    ASSUME NEW w \in Weightings, NEW a, a.kind \in {"expense", "transfer"},
           Filled(a), ~ Panics(w, a)
    PROVE  SumFunctionOnSet([u \in DOMAIN w |-> Change(w, u, a)], DOMAIN w) = 0
<1> DEFINE M == DOMAIN w
           h == [u \in M |-> Change(w, u, a)]
<1>1. IsFiniteSet(M)
  BY HistoryAssumption
<1>2. PICK x \in Int : x = a.amount * Scale
  BY ChangeIsInt
<1>3. ASSUME NEW p \in M
      PROVE  SumFunctionOnSet([u \in M |-> IF u = p THEN x ELSE 0], M) = x
  <2> DEFINE f == [u \in M |-> IF u = p THEN x ELSE 0]
  <2>1. f[p] = x /\ (\A u \in M : f[u] \in Int) /\ \A u \in M \ {p} : f[u] = 0
    OBVIOUS
  <2> HIDE DEF f
  <2>2. SumFunctionOnSet(f, M) = f[p]
    BY <1>1, <2>1, SumSingle
  <2> QED
    BY <2>1, <2>2 DEF f
<1>4. CASE a.kind = "expense"
  <2>1. CASE TotalWeight(w, a.beneficiaries) = 0
    <3>1. \A u \in M : h[u] = 0
      BY <1>4, <2>1 DEF Change
    <3> HIDE DEF h
    <3>2. SumFunctionOnSet(h, M) = 0
      BY <1>1, <3>1, SumZero
    <3> QED
      BY <3>2 DEF h
  <2>2. CASE TotalWeight(w, a.beneficiaries) # 0
    <3> DEFINE B == a.beneficiaries
               f == [u \in M |-> IF u = a.payer THEN x ELSE 0]
               g == [u \in M |-> IF u \in B THEN Share(w, a, u) ELSE 0]
               v == [u \in B |-> Weight(w, u)]
    <3>1. a.payer \in M /\ B \in SUBSET M /\ IsFiniteSet(B)
      BY <1>4, <2>2 DEF Panics, Filled
    <3>2. PICK m \in Int : m * TotalWeight(w, B) = x /\ \A u : Share(w, a, u) = m * Weight(w, u)
      BY <1>2, <1>4, <2>2, ShareIsExact
    <3>3. \A u : Weight(w, u) \in Int /\ m * Weight(w, u) \in Int
      BY <3>1, WeightsAreCounts
    <3>4. SumFunctionOnSet(f, M) = x
      BY <1>3, <3>1
    <3>5. SumFunctionOnSet(v, B) = TotalWeight(w, B)
      BY DEF TotalWeight, SumFunction
    <3>6. \A u \in B : v[u] \in Int /\ g[u] = m * v[u]
      BY <3>1, <3>2, <3>3
    <3>7. \A u \in M : f[u] \in Int /\ g[u] \in Int
      BY <3>2, <3>3
    <3>8. \A u \in M \ B : g[u] = 0
      OBVIOUS
    <3>9. \A u \in M : h[u] = f[u] - g[u]
      BY <1>2, <1>4, <2>2 DEF Change
    <3> HIDE DEF f, g, v, h
    <3>10. SumFunctionOnSet(g, B) = m * SumFunctionOnSet(v, B)
      BY <3>1, <3>6, SumScale
    <3>11. SumFunctionOnSet(g, M) = SumFunctionOnSet(g, B)
      BY <1>1, <3>1, <3>7, <3>8, SumSubset
    <3>12. SumFunctionOnSet(h, M) = SumFunctionOnSet(f, M) - SumFunctionOnSet(g, M)
      BY <1>1, <3>7, <3>9, SumSubtract
    <3>13. SumFunctionOnSet(h, M) = x - x
      BY <3>2, <3>4, <3>5, <3>10, <3>11, <3>12
    <3> QED
      BY <3>13 DEF h
  <2> QED
    BY <2>1, <2>2
<1>5. CASE a.kind = "transfer"
  <2> DEFINE f == [u \in M |-> IF u = a.sender THEN x ELSE 0]
             g == [u \in M |-> IF u = a.receiver THEN x ELSE 0]
  <2>1. a.sender \in M /\ a.receiver \in M
    BY <1>5 DEF Panics
  <2>2. SumFunctionOnSet(f, M) = x /\ SumFunctionOnSet(g, M) = x
    BY <1>3, <2>1
  <2>3. \A u \in M : f[u] \in Int /\ g[u] \in Int /\ h[u] = f[u] - g[u]
    BY <1>2, <1>5 DEF Change
  <2> HIDE DEF f, g, h
  <2>4. SumFunctionOnSet(h, M) = SumFunctionOnSet(f, M) - SumFunctionOnSet(g, M)
    BY <1>1, <2>3, SumSubtract
  <2>5. SumFunctionOnSet(h, M) = 0
    BY <2>2, <2>4
  <2> QED
    BY <2>5 DEF h
<1> QED
  BY <1>4, <1>5

\* An expense or a transfer leaves every total as it is.
LEMMA TotalsKept ==
    ASSUME NEW w \in Weightings, NEW bal \in Balances(w), NEW a, NEW c \in Currencies,
           a.kind \in {"expense", "transfer"}, Filled(a), ~ Panics(w, a)
    PROVE  TotalOf(w, ApplyEvent(w, bal, a), c) = TotalOf(w, bal, c)
<1> DEFINE new == ApplyEvent(w, bal, a)
           d == [u \in DOMAIN w |-> Change(w, u, a)]
           f == Position(bal, c)
           g == Position(new, c)
<1>1. new \in Balances(w) /\ IsFiniteSet(DOMAIN w)
  BY EventEffect, HistoryAssumption
<1>2. \A u \in DOMAIN w : f[u] = bal[u][c] /\ f[u] \in Int /\ g[u] = new[u][c] /\ d[u] \in Int
  BY <1>1, PositionIs, ChangeIsInt
<1>3. \A u \in DOMAIN w : new[u][c] = bal[u][c] + (IF c = a.currency THEN Change(w, u, a) ELSE 0)
  BY EventEffect
<1>4. SumFunctionOnSet(d, DOMAIN w) = 0 /\ SumFunctionOnSet(f, DOMAIN w) \in Int
  BY <1>1, <1>2, ChangesCancel, SumIsInt
<1>5. CASE c = a.currency
  <2>1. \A u \in DOMAIN w : g[u] = f[u] + d[u]
    BY <1>2, <1>3, <1>5
  <2> HIDE DEF d, f, g, new
  <2>2. SumFunctionOnSet(g, DOMAIN w)
            = SumFunctionOnSet(f, DOMAIN w) + SumFunctionOnSet(d, DOMAIN w)
    BY <1>1, <1>2, <2>1, SumAdd
  <2>3. SumFunctionOnSet(g, DOMAIN w) = SumFunctionOnSet(f, DOMAIN w)
    BY <1>4, <2>2
  <2> QED
    BY <2>3 DEF TotalOf, f, g, new
<1>6. CASE c # a.currency
  <2>1. \A u \in DOMAIN w : f[u] \in Int /\ f[u] = g[u]
    BY <1>2, <1>3, <1>6
  <2> HIDE DEF d, f, g, new
  <2>2. SumFunctionOnSet(f, DOMAIN w) = SumFunctionOnSet(g, DOMAIN w)
    BY <1>1, <2>1, SumSame
  <2> QED
    BY <2>2 DEF TotalOf, f, g, new
<1> QED
  BY <1>5, <1>6

\* A conversion empties its currency and, if that added up to nothing, changes the total
\* of its target by half a cent for each member at most.
LEMMA TotalsConverted ==
    ASSUME NEW w \in Weightings, NEW bal \in Balances(w), NEW x, NEW c \in Currencies,
           x.kind = "conversion", Filled(x)
    PROVE  LET new == ApplyEvent(w, bal, x)
           IN  /\ c = x.from => TotalOf(w, new, c) = 0
               /\ c # x.from /\ c # x.to => TotalOf(w, new, c) = TotalOf(w, bal, c)
               /\ (c # x.from /\ c = x.to /\ TotalOf(w, bal, x.from) = 0) =>
                      /\ -(Scale * Cardinality(DOMAIN w))
                             <= 2 * TotalOf(w, new, c) - 2 * TotalOf(w, bal, c)
                      /\ 2 * TotalOf(w, new, c) - 2 * TotalOf(w, bal, c)
                             <= Scale * Cardinality(DOMAIN w)
<1> DEFINE new == ApplyEvent(w, bal, x)
           M == DOMAIN w
           f == Position(bal, c)
           g == Position(new, c)
<1>0. ~ Panics(w, x)
  BY DEF Panics
<1>1. new \in Balances(w) /\ IsFiniteSet(M) /\ Cardinality(M) \in Nat
  BY <1>0, EventEffect, HistoryAssumption, FS_CardinalityType
<1>2. \A u \in M : f[u] = bal[u][c] /\ f[u] \in Int /\ g[u] = new[u][c] /\ g[u] \in Int
  BY <1>1, PositionIs
<1>3. \A u \in M : new[u][c] = IF c = x.from THEN 0
                               ELSE bal[u][c]
                                    + (IF c = x.to THEN Folded(bal[u][x.from], x) * Scale ELSE 0)
  BY <1>0, EventEffect
<1>4. ASSUME c = x.from
      PROVE  TotalOf(w, new, c) = 0
  <2>1. \A u \in M : g[u] = 0
    BY <1>2, <1>3, <1>4
  <2> HIDE DEF f, g, new
  <2>2. SumFunctionOnSet(g, M) = 0
    BY <1>1, <2>1, SumZero
  <2> QED
    BY <2>2 DEF TotalOf, g, new
<1>5. ASSUME c # x.from, c # x.to
      PROVE  TotalOf(w, new, c) = TotalOf(w, bal, c)
  <2>1. \A u \in M : f[u] \in Int /\ f[u] = g[u]
    BY <1>2, <1>3, <1>5
  <2> HIDE DEF f, g, new
  <2>2. SumFunctionOnSet(f, M) = SumFunctionOnSet(g, M)
    BY <1>1, <2>1, SumSame
  <2> QED
    BY <2>2 DEF TotalOf, f, g, new
<1>6. ASSUME c # x.from, c = x.to, TotalOf(w, bal, x.from) = 0
      PROVE  /\ -(Scale * Cardinality(M)) <= 2 * TotalOf(w, new, c) - 2 * TotalOf(w, bal, c)
             /\ 2 * TotalOf(w, new, c) - 2 * TotalOf(w, bal, c) <= Scale * Cardinality(M)
  <2> DEFINE s == Position(bal, x.from)
             b == Scale * x.rate.den
             p == [u \in M |-> x.rate.num * s[u]]
             r == [u \in M |-> RoundQuotient(p[u], b)]
             d == [u \in M |-> Scale * r[u]]
  <2>1. /\ x.from \in Currencies /\ x.rate.num \in Int /\ x.rate.den \in Nat \ {0}
        /\ Scale \in Nat \ {0}
    BY ScaleAssumption DEF Filled
  <2>2. b \in Nat \ {0}
    <3>1. \A i, j \in Nat \ {0} : i * j \in Nat \ {0}
      OBVIOUS
    <3> QED
      BY <2>1, <3>1
  <2>3. \A u \in M : s[u] = bal[u][x.from] /\ s[u] \in Int
    BY <2>1, PositionIs
  <2>4. \A u \in M : p[u] = x.rate.num * s[u] /\ p[u] \in Int
    BY <2>1, <2>3
  <2>5. \A u \in M : r[u] = RoundQuotient(p[u], b) /\ r[u] \in Int
    BY <2>2, <2>4, RoundedIsClose
  <2>6. \A u \in M : d[u] = Scale * r[u] /\ d[u] \in Int
    BY <2>1, <2>5
  <2>7. \A u \in M : Folded(bal[u][x.from], x) = r[u]
    <3>1. \A u \in M : bal[u][x.from] * x.rate.num = p[u]
      BY <2>1, <2>3, <2>4
    <3> HIDE DEF p
    <3> QED
      BY <2>5, <3>1 DEF Folded
  <2>8. \A u \in M : g[u] = f[u] + d[u]
    <3>1. ASSUME NEW u \in M
          PROVE  g[u] = f[u] + r[u] * Scale
      BY <1>2, <1>3, <1>6, <2>7
    <3>2. \A u \in M : d[u] = r[u] * Scale
      BY <2>1, <2>5, <2>6
    <3> HIDE DEF d, f, g
    <3> QED
      BY <3>1, <3>2
  <2>9. SumFunctionOnSet(s, M) = 0
    BY <1>6 DEF TotalOf
  <2> HIDE DEF s, b, p, r, d, f, g, new
  <2>10. SumFunctionOnSet(p, M) = x.rate.num * SumFunctionOnSet(s, M)
    BY <1>1, <2>1, <2>3, <2>4, SumScale
  <2>11. SumFunctionOnSet(p, M) = 0
    BY <2>1, <2>9, <2>10
  <2>12. /\ SumFunctionOnSet(r, M) \in Int
         /\ -(b * Cardinality(M)) <= 2 * (b * SumFunctionOnSet(r, M)) - 2 * SumFunctionOnSet(p, M)
         /\ 2 * (b * SumFunctionOnSet(r, M)) - 2 * SumFunctionOnSet(p, M) <= b * Cardinality(M)
    <3>1. \A u \in M : p[u] \in Int /\ r[u] = RoundQuotient(p[u], b)
      BY <2>4, <2>5
    <3> QED
      BY <1>1, <2>2, <3>1, RoundedSum
  <2>13. SumFunctionOnSet(d, M) = Scale * SumFunctionOnSet(r, M)
    BY <1>1, <2>1, <2>5, <2>6, SumScale
  <2>14. SumFunctionOnSet(g, M) = SumFunctionOnSet(f, M) + SumFunctionOnSet(d, M)
    BY <1>1, <1>2, <2>6, <2>8, SumAdd
  <2>15. PICK R \in Int, N \in Nat : R = SumFunctionOnSet(r, M) /\ N = Cardinality(M)
    BY <1>1, <2>12
  <2>16. -N <= 2 * R /\ 2 * R <= N
    <3>1. -(b * N) <= 2 * (b * R) /\ 2 * (b * R) <= b * N
      <4>1. -(b * N) <= 2 * (b * R) - 2 * 0 /\ 2 * (b * R) - 2 * 0 <= b * N
        BY <2>11, <2>12, <2>15
      <4>2. b * R \in Int
        BY <2>2
      <4> QED
        BY <4>1, <4>2
    <3>2. \A i \in Nat \ {0}, j \in Int : (i * j >= 0 => j >= 0)
      OBVIOUS
    <3>3. b * (2 * R + N) = 2 * (b * R) + b * N /\ b * (N - 2 * R) = b * N - 2 * (b * R)
      BY <2>2
    <3>4. b * (2 * R + N) >= 0 /\ b * (N - 2 * R) >= 0
      <4>1. b * R \in Int /\ b * N \in Int
        BY <2>2
      <4> QED
        BY <3>1, <3>3, <4>1
    <3>5. 2 * R + N >= 0 /\ N - 2 * R >= 0
      BY <2>2, <3>2, <3>4
    <3> QED
      BY <3>5
  <2>17. -(Scale * N) <= 2 * (Scale * R) /\ 2 * (Scale * R) <= Scale * N
    <3>1. \A i \in Nat, j \in Int : j >= 0 => i * j >= 0
      OBVIOUS
    <3>2. Scale * (2 * R + N) >= 0 /\ Scale * (N - 2 * R) >= 0
      BY <2>1, <2>16, <3>1
    <3>3. /\ Scale * (2 * R + N) = 2 * (Scale * R) + Scale * N
          /\ Scale * (N - 2 * R) = Scale * N - 2 * (Scale * R)
          /\ Scale * R \in Int /\ Scale * N \in Int
      BY <2>1
    <3> QED
      BY <3>2, <3>3
  <2>18. SumFunctionOnSet(f, M) \in Int
    BY <1>1, <1>2, SumIsInt
  <2>19. 2 * SumFunctionOnSet(g, M) - 2 * SumFunctionOnSet(f, M) = 2 * (Scale * R)
    <3>1. Scale * R \in Int
      BY <2>1
    <3>2. SumFunctionOnSet(g, M) = SumFunctionOnSet(f, M) + Scale * R
      BY <2>13, <2>14, <2>15
    <3> QED
      BY <2>18, <3>1, <3>2
  <2> QED
    BY <2>15, <2>17, <2>19 DEF TotalOf, f, g, new
<1> QED
  BY <1>4, <1>5, <1>6

----------------------------------------------------------------------------
\* The rows of a group

\* Rows that can be told apart, each filled in as a client may.
Rows(acts) == Dated(acts) /\ \A a \in acts : Filled(a)

\* The events are the rows that are replayed, each once.
LEMMA EventsAreRows ==
    ASSUME NEW acts, Rows(acts)
    PROVE  LET q == BalanceEvents(acts)
               n == Cardinality(Replayed(acts))
           IN  /\ n \in Nat /\ DOMAIN q = 1..n
               /\ \A k \in 1..n : q[k] \in Replayed(acts) /\ q[k] \in acts /\ Filled(q[k])
               /\ \A a \in Replayed(acts) : \E k \in 1..n : q[k] = a
               /\ \A j, k \in 1..n : q[j] = q[k] => j = k
               /\ \A j, k \in 1..n : j < k => Before(q[j], q[k])
               /\ Replayed(acts) \in SUBSET acts /\ Dated(Replayed(acts))
<1> DEFINE E == Replayed(acts)
<1>1. E \in SUBSET acts
  BY DEF Replayed, GroupExpenses, Expenses, Transfers, Conversions
<1>2. Dated(E)
  <2>1. IsFiniteSet(E)
    BY <1>1, FS_Subset DEF Rows, Dated
  <2> QED
    BY <1>1, <2>1 DEF Rows, Dated
<1>3. BalanceEvents(acts) = Sorted(E)
  BY DEF BalanceEvents, Replayed
<1>4. \A a \in E : Filled(a)
  BY <1>1 DEF Rows
<1> DEFINE q == Sorted(E)
           n == Cardinality(E)
<1> HIDE DEF E
<1>5. /\ n \in Nat /\ DOMAIN q = 1..n
      /\ \A k \in 1..n : q[k] \in E
      /\ \A a \in E : /\ Cardinality(Below(E, a)) + 1 \in 1..n
                      /\ q[Cardinality(Below(E, a)) + 1] = a
      /\ \A j, k \in 1..n : j < k => q[j] # q[k] /\ Before(q[j], q[k])
  BY <1>2, SortedIsSorted
<1> HIDE DEF q, n
<1>6. \A a \in E : \E k \in 1..n : q[k] = a
  BY <1>5
<1>7. \A j, k \in 1..n : q[j] = q[k] => j = k
  <2>1. \A j, k \in 1..n : j < k \/ k < j \/ j = k
    BY <1>5
  <2> QED
    BY <1>5, <2>1
<1> QED
  BY <1>1, <1>2, <1>3, <1>4, <1>5, <1>6, <1>7 DEF q, n, E

\* Every event of a group whose balances can be computed is applied.
LEMMA EventsApply ==
    ASSUME NEW w \in Weightings, NEW acts, Rows(acts), Computable(w, acts)
    PROVE  LET q == BalanceEvents(acts)
               n == Cardinality(Replayed(acts))
           IN  /\ \A k \in 1..n : ~ Panics(w, q[k])
               /\ Stage(w, q, 0) = NoBalance(w)
               /\ \A k \in 1..n : Stage(w, q, k) = ApplyEvent(w, Stage(w, q, k - 1), q[k])
               /\ \A k \in 0..n : Stage(w, q, k) \in Balances(w)
               /\ FloatBalances(w, acts) = Stage(w, q, n)
<1> DEFINE q == BalanceEvents(acts)
           n == Cardinality(Replayed(acts))
<1>1. n \in Nat /\ DOMAIN q = 1..n /\ \A k \in 1..n : Filled(q[k])
  BY EventsAreRows
<1>2. \A k \in 1..n : ~ Panics(w, q[k])
  BY <1>1, EventsAreRows DEF Computable
<1> HIDE DEF q, n
<1>3. /\ Stage(w, q, 0) = NoBalance(w)
      /\ \A k \in 1..n : Stage(w, q, k) = ApplyEvent(w, Stage(w, q, k - 1), q[k])
  BY <1>1, StageByStage
<1> DEFINE G == {k \in Nat : k <= n => Stage(w, q, k) \in Balances(w)}
<1>4. 0 \in G
  BY <1>3 DEF NoBalance, Balances
<1>5. ASSUME NEW k \in Nat, k \in G, k + 1 <= n
      PROVE  Stage(w, q, k + 1) \in Balances(w)
  <2>1. k + 1 \in 1..n /\ (k + 1) - 1 = k
    BY <1>1, <1>5
  <2>2. Stage(w, q, k) \in Balances(w)
    BY <1>1, <1>5
  <2>3. Stage(w, q, k + 1) = ApplyEvent(w, Stage(w, q, k), q[k + 1])
    BY <1>3, <2>1
  <2> QED
    BY <1>1, <1>2, <2>1, <2>2, <2>3, EventEffect
<1>6. \A k \in Nat : k \in G => k + 1 \in G
  BY <1>5
<1> HIDE DEF G
<1>7. \A k \in Nat : k \in G
  BY <1>4, <1>6, AllNumbers
<1>8. \A k \in 0..n : Stage(w, q, k) \in Balances(w)
  BY <1>1, <1>7 DEF G
<1>9. FloatBalances(w, acts) = Stage(w, q, n)
  BY <1>1, FloatBalancesIsStage DEF q
<1> QED
  BY <1>2, <1>3, <1>8, <1>9 DEF q, n

\* Ids are unique, dates were entered, no row is from the future, and every row is filled in.
HInv == TypeOK /\ IsFiniteSet(actions) /\ \A a \in actions : Filled(a)

\* Rows with the types of TypeOK can be told apart and put in order.
LEMMA TypedRows ==
    ASSUME NEW now \in 0..MaxClock, NEW acts, IsFiniteSet(acts),
           \A a \in acts : /\ a.id \in Ids /\ a.date \in Dates /\ a.createdAt \in 0..now
                           /\ Filled(a) /\ \A b \in acts : a.id = b.id => a = b
    PROVE  Rows(acts)
<1>1. Ids \subseteq Int /\ Dates \subseteq Int /\ now \in Int
  BY HistoryAssumption
<1>2. \A x \in 0..now : x \in Int
  BY <1>1
<1>3. \A a \in acts : a.date \in Int /\ a.createdAt \in Int /\ a.id \in Int
  BY <1>1, <1>2
<1>4. \A a, b \in acts : a.id = b.id => a = b
  OBVIOUS
<1>5. \A a \in acts : Filled(a)
  OBVIOUS
<1> QED
  BY <1>3, <1>4, <1>5 DEF Rows, Dated

\* In a state of HInv the group's rows can be replayed.
LEMMA HInvGivesRows ==
    ASSUME HInv
    PROVE  weights \in Weightings /\ Rows(actions)
<1>1. /\ weights \in Weightings /\ IsFiniteSet(actions) /\ clock \in 0..MaxClock
      /\ \A a \in actions : /\ a.id \in Ids /\ a.date \in Dates /\ a.createdAt \in 0..clock
                             /\ Filled(a) /\ \A b \in actions : a.id = b.id => a = b
  BY DEF HInv, TypeOK
<1> QED
  BY <1>1, TypedRows

----------------------------------------------------------------------------
\* The drift

\* A currency nothing is converted into adds up to nothing.
LEMMA SourceTotals ==
    ASSUME HInv, Ok, NEW c \in Currencies, ConversionsInto(c) = {}
    PROVE  \A k \in 0..Cardinality(Replayed(actions)) :
               TotalOf(weights, Stage(weights, BalanceEvents(actions), k), c) = 0
<1> DEFINE q == BalanceEvents(actions)
           n == Cardinality(Replayed(actions))
           S(k) == Stage(weights, q, k)
           G == {k \in Nat : k <= n => TotalOf(weights, S(k), c) = 0}
<1>1. weights \in Weightings /\ Rows(actions) /\ Computable(weights, actions)
  BY HInvGivesRows DEF Ok
<1>2. n \in Nat /\ \A k \in 1..n : q[k] \in actions /\ Filled(q[k]) /\ ~ Panics(weights, q[k])
  BY <1>1, EventsAreRows, EventsApply
<1>3. /\ S(0) = NoBalance(weights)
      /\ \A k \in 1..n : S(k) = ApplyEvent(weights, S(k - 1), q[k])
      /\ \A k \in 0..n : S(k) \in Balances(weights)
  BY <1>1, EventsApply
<1>4. \A k \in 1..n : q[k].kind = "conversion" => q[k].to # c
  BY <1>2 DEF ConversionsInto, Conversions
<1> HIDE DEF q, n, S
<1>5. TotalOf(weights, S(0), c) = 0
  <2> DEFINE f == Position(S(0), c)
  <2>1. IsFiniteSet(DOMAIN weights) /\ \A u \in DOMAIN weights : f[u] = 0
    BY <1>1, <1>3, HistoryAssumption DEF NoBalance, Position
  <2> HIDE DEF f
  <2>2. SumFunctionOnSet(f, DOMAIN weights) = 0
    BY <2>1, SumZero
  <2> QED
    BY <2>2 DEF TotalOf, f
<1>6. ASSUME NEW k \in Nat, k \in G, k + 1 <= n
      PROVE  TotalOf(weights, S(k + 1), c) = 0
  <2>1. k + 1 \in 1..n /\ k \in 0..n /\ (k + 1) - 1 = k /\ k <= n
    BY <1>2, <1>6
  <2>2. /\ TotalOf(weights, S(k), c) = 0 /\ S(k) \in Balances(weights)
        /\ S(k + 1) = ApplyEvent(weights, S(k), q[k + 1])
    BY <1>3, <1>6, <2>1
  <2>3. Filled(q[k + 1]) /\ ~ Panics(weights, q[k + 1])
    BY <1>2, <2>1
  <2>4. CASE q[k + 1].kind \in {"expense", "transfer"}
    BY <1>1, <2>2, <2>3, <2>4, TotalsKept
  <2>5. CASE q[k + 1].kind = "conversion"
    <3>1. c # q[k + 1].to
      BY <1>4, <2>1, <2>5
    <3> QED
      BY <1>1, <2>2, <2>3, <2>5, <3>1, TotalsConverted
  <2> QED
    BY <2>3, <2>4, <2>5 DEF Filled
<1>7. 0 \in G /\ \A k \in Nat : k \in G => k + 1 \in G
  BY <1>5, <1>6
<1> HIDE DEF G
<1>8. \A k \in Nat : k \in G
  BY <1>7, AllNumbers
<1>9. \A k \in 0..n : TotalOf(weights, S(k), c) = 0
  BY <1>2, <1>8 DEF G
<1> QED
  BY <1>9 DEF q, n, S

\* The conversions into c among the first k events.
IntoUntil(k, c) ==
    {j \in 1..k : /\ BalanceEvents(actions)[j].kind = "conversion"
                  /\ BalanceEvents(actions)[j].to = c}

\* Another one with each that comes up.
LEMMA IntoGrows ==
    ASSUME NEW k \in Nat, NEW c
    PROVE  /\ Cardinality(IntoUntil(k, c)) \in Nat
           /\ Cardinality(IntoUntil(0, c)) = 0
           /\ LET a == BalanceEvents(actions)[k + 1]
              IN  Cardinality(IntoUntil(k + 1, c)) =
                      Cardinality(IntoUntil(k, c))
                          + (IF a.kind = "conversion" /\ a.to = c THEN 1 ELSE 0)
<1> DEFINE a == BalanceEvents(actions)[k + 1]
           I == IntoUntil(k, c)
<1>1. I \in SUBSET (1..k) /\ k + 1 \notin I
  BY DEF IntoUntil
<1>2. IsFiniteSet(I)
  <2>1. IsFiniteSet(1..k)
    BY FS_Interval
  <2> HIDE DEF I
  <2> QED
    BY <1>1, <2>1, FS_Subset
<1>3. IntoUntil(0, c) = {}
  BY DEF IntoUntil
<1>4. 1..(k + 1) = (1..k) \cup {k + 1}
  OBVIOUS
<1>5. IntoUntil(k + 1, c) = IF a.kind = "conversion" /\ a.to = c THEN I \cup {k + 1} ELSE I
  BY <1>4 DEF IntoUntil
<1> HIDE DEF I, a
<1>6. Cardinality(I) \in Nat /\ Cardinality(I \cup {k + 1}) = Cardinality(I) + 1
  BY <1>1, <1>2, FS_AddElement, FS_CardinalityType
<1>7. Cardinality(IntoUntil(k + 1, c)) =
          Cardinality(I) + (IF a.kind = "conversion" /\ a.to = c THEN 1 ELSE 0)
  BY <1>5, <1>6
<1> QED
  BY <1>3, <1>6, <1>7, FS_EmptySet DEF I, a

\* In the end as many as there are.
LEMMA IntoIsInto ==
    ASSUME HInv, NEW c
    PROVE  /\ Cardinality(ConversionsInto(c)) \in Nat
           /\ Cardinality(IntoUntil(Cardinality(Replayed(actions)), c))
                  <= Cardinality(ConversionsInto(c))
<1> DEFINE q == BalanceEvents(actions)
           n == Cardinality(Replayed(actions))
           I == IntoUntil(n, c)
           f == [j \in I |-> q[j]]
<1>1. Rows(actions)
  BY HInvGivesRows
<1>2. /\ n \in Nat /\ \A k \in 1..n : q[k] \in actions
      /\ \A j, k \in 1..n : q[j] = q[k] => j = k
  BY <1>1, EventsAreRows
<1>3. IsFiniteSet(ConversionsInto(c)) /\ Cardinality(ConversionsInto(c)) \in Nat
  <2>1. ConversionsInto(c) \in SUBSET actions
    BY DEF ConversionsInto, Conversions
  <2> QED
    BY <1>1, <2>1, Counts DEF Rows, Dated
<1>4. \A j \in I : j \in 1..n /\ q[j] \in ConversionsInto(c)
  BY <1>2 DEF IntoUntil, ConversionsInto, Conversions
<1>5. f \in Injection(I, ConversionsInto(c))
  BY <1>2, <1>4 DEF Injection, IsInjective
<1> QED
  BY <1>3, <1>5, FS_Injection

\* A sum of bounded steps.
LEMMA BoundGrows ==
    ASSUME NEW t \in Int, NEW u \in Int, NEW d \in Nat, NEW j \in Nat,
           -(d * j) <= 2 * t, 2 * t <= d * j,
           -d <= 2 * u - 2 * t, 2 * u - 2 * t <= d
    PROVE  -(d * (j + 1)) <= 2 * u /\ 2 * u <= d * (j + 1)
<1>1. d * (j + 1) = d * j + d /\ d * j \in Int
  OBVIOUS
<1> QED
  BY <1>1

\* A currency that is converted into at rates of others, into which nothing is converted,
\* drifts by half a cent per member and conversion.
LEMMA TargetTotals ==
    ASSUME HInv, Ok, NEW c \in Currencies,
           \A x \in ConversionsInto(c) : ConversionsInto(x.from) = {}
    PROVE  \A k \in 0..Cardinality(Replayed(actions)) :
               LET t == TotalOf(weights, Stage(weights, BalanceEvents(actions), k), c)
                   d == Scale * Cardinality(Members)
               IN  /\ -(d * Cardinality(IntoUntil(k, c))) <= 2 * t
                   /\ 2 * t <= d * Cardinality(IntoUntil(k, c))
<1> DEFINE q == BalanceEvents(actions)
           n == Cardinality(Replayed(actions))
           S(k) == Stage(weights, q, k)
           T(k) == TotalOf(weights, S(k), c)
           J(k) == Cardinality(IntoUntil(k, c))
           d == Scale * Cardinality(Members)
           G == {k \in Nat : k <= n => -(d * J(k)) <= 2 * T(k) /\ 2 * T(k) <= d * J(k)}
<1>1. weights \in Weightings /\ Rows(actions) /\ Computable(weights, actions)
  BY HInvGivesRows DEF Ok
<1>2. n \in Nat /\ \A k \in 1..n : q[k] \in actions /\ Filled(q[k]) /\ ~ Panics(weights, q[k])
  BY <1>1, EventsAreRows, EventsApply
<1>3. /\ S(0) = NoBalance(weights)
      /\ \A k \in 1..n : S(k) = ApplyEvent(weights, S(k - 1), q[k])
      /\ \A k \in 0..n : S(k) \in Balances(weights)
  BY <1>1, EventsApply
<1>4. \A k \in 1..n : (q[k].kind = "conversion" /\ q[k].to = c) =>
          q[k].from \in Currencies /\ ConversionsInto(q[k].from) = {}
  BY <1>2 DEF ConversionsInto, Conversions, Filled
<1>5. \A k \in 0..n : T(k) \in Int
  BY <1>1, <1>3, PositionIs
<1>6. \A k \in Nat : /\ J(k) \in Nat /\ J(0) = 0
                     /\ J(k + 1) = J(k) + (IF q[k + 1].kind = "conversion" /\ q[k + 1].to = c
                                           THEN 1 ELSE 0)
  BY IntoGrows
<1>7. d \in Nat /\ d = Scale * Cardinality(DOMAIN weights)
  <2>1. IsFiniteSet(DOMAIN weights)
    BY <1>1, HistoryAssumption
  <2>2. Cardinality(DOMAIN weights) \in Nat
    BY <2>1, FS_CardinalityType
  <2>3. \A i, j \in Nat : i * j \in Nat
    OBVIOUS
  <2> QED
    BY <2>2, <2>3, ScaleAssumption DEF Members
<1>8. \A e \in Currencies, k \in 0..n : ConversionsInto(e) = {} => TotalOf(weights, S(k), e) = 0
  BY SourceTotals
<1> HIDE DEF q, n, S, J, d
<1>9. T(0) = 0
  <2> DEFINE f == Position(S(0), c)
  <2>1. IsFiniteSet(DOMAIN weights) /\ \A u \in DOMAIN weights : f[u] = 0
    BY <1>1, <1>3, HistoryAssumption DEF NoBalance, Position
  <2> HIDE DEF f
  <2>2. SumFunctionOnSet(f, DOMAIN weights) = 0
    BY <2>1, SumZero
  <2> QED
    BY <2>2 DEF TotalOf, f
<1>10. 0 \in G
  <2>1. d * 0 = 0 /\ J(0) = 0
    BY <1>6, <1>7
  <2> QED
    BY <1>9, <2>1
<1>11. ASSUME NEW k \in Nat, k \in G, k + 1 <= n
       PROVE  -(d * J(k + 1)) <= 2 * T(k + 1) /\ 2 * T(k + 1) <= d * J(k + 1)
  <2>1. k + 1 \in 1..n /\ k \in 0..n /\ k + 1 \in 0..n /\ (k + 1) - 1 = k /\ k <= n
    BY <1>2, <1>11
  <2>2. /\ S(k) \in Balances(weights)
        /\ S(k + 1) = ApplyEvent(weights, S(k), q[k + 1])
        /\ T(k) \in Int /\ T(k + 1) \in Int /\ J(k) \in Nat
    BY <1>3, <1>5, <1>6, <2>1
  <2>3. Filled(q[k + 1]) /\ ~ Panics(weights, q[k + 1])
    BY <1>2, <2>1
  <2>4. -(d * J(k)) <= 2 * T(k) /\ 2 * T(k) <= d * J(k)
    BY <1>11, <2>1
  <2>5. CASE q[k + 1].kind \in {"expense", "transfer"}
    <3>1. T(k + 1) = T(k)
      BY <1>1, <2>2, <2>3, <2>5, TotalsKept
    <3>2. J(k + 1) = J(k)
      BY <1>6, <2>5
    <3> HIDE DEF T
    <3> QED
      BY <2>4, <3>1, <3>2
  <2>6. CASE q[k + 1].kind = "conversion"
    <3> DEFINE x == q[k + 1]
    <3>1. CASE c # x.to
      <4>1. J(k + 1) = J(k)
        BY <1>6, <2>2, <3>1
      <4>2. T(k + 1) = 0 \/ T(k + 1) = T(k)
        BY <1>1, <2>2, <2>3, <2>6, <3>1, TotalsConverted
      <4>3. d * J(k) \in Nat
        BY <1>7, <2>2
      <4> HIDE DEF T
      <4> QED
        BY <2>4, <4>1, <4>2, <4>3
    <3>2. CASE c = x.to
      <4>1. x.from \in Currencies /\ ConversionsInto(x.from) = {}
        BY <1>4, <2>1, <2>6, <3>2
      <4>2. TotalOf(weights, S(k), x.from) = 0
        BY <1>8, <2>1, <4>1
      <4>3. J(k + 1) = J(k) + 1
        BY <1>6, <2>6, <3>2
      <4>4. CASE c = x.from
        <5>1. T(k + 1) = 0
          BY <1>1, <2>2, <2>3, <2>6, <4>4, TotalsConverted
        <5>2. d * (J(k) + 1) \in Nat
          BY <1>7, <2>2
        <5> HIDE DEF T
        <5> QED
          BY <4>3, <5>1, <5>2
      <4>5. CASE c # x.from
        <5>1. -d <= 2 * T(k + 1) - 2 * T(k) /\ 2 * T(k + 1) - 2 * T(k) <= d
          BY <1>1, <1>7, <2>2, <2>3, <2>6, <3>2, <4>2, <4>5, TotalsConverted
        <5> HIDE DEF T
        <5> QED
          BY <1>7, <2>2, <2>4, <4>3, <5>1, BoundGrows
      <4> QED
        BY <4>4, <4>5
    <3> QED
      BY <3>1, <3>2
  <2> QED
    BY <2>3, <2>5, <2>6 DEF Filled
<1>12. \A k \in Nat : k \in G => k + 1 \in G
  BY <1>11
<1> HIDE DEF G
<1>13. \A k \in Nat : k \in G
  BY <1>10, <1>12, AllNumbers
<1> HIDE DEF T
<1>14. \A k \in 0..n : -(d * J(k)) <= 2 * T(k) /\ 2 * T(k) <= d * J(k)
  BY <1>2, <1>13 DEF G
<1> QED
  BY <1>14 DEF q, n, S, T, J, d

\* DriftBounded in any state with sound rows.
LEMMA DriftIsBounded ==
    HInv => DriftBounded
<1> SUFFICES ASSUME HInv, Ok, NEW c \in Currencies,
                    \A x \in ConversionsInto(c) : ConversionsInto(x.from) = {}
             PROVE  2 * Abs(Drift(c))
                        <= Cardinality(Members) * (1 + Cardinality(ConversionsInto(c)))
  BY DEF DriftBounded
<1> DEFINE q == BalanceEvents(actions)
           n == Cardinality(Replayed(actions))
           bal == Stage(weights, q, n)
           f == Position(bal, c)
           g == [u \in Members |-> ComputeGroupBalance(weights, actions)[u][c]]
           M == Cardinality(Members)
           N == Cardinality(ConversionsInto(c))
           J == Cardinality(IntoUntil(n, c))
           T == TotalOf(weights, bal, c)
<1>1. weights \in Weightings /\ Rows(actions) /\ Computable(weights, actions)
  BY HInvGivesRows DEF Ok
<1>2. n \in Nat
  BY <1>1, EventsAreRows
<1>3. bal \in Balances(weights) /\ FloatBalances(weights, actions) = bal
  BY <1>1, <1>2, EventsApply
<1>4. -((Scale * M) * J) <= 2 * T /\ 2 * T <= (Scale * M) * J
  <2>1. n \in 0..n
    BY <1>2
  <2>2. \A k \in 0..n : -((Scale * M) * Cardinality(IntoUntil(k, c)))
                              <= 2 * TotalOf(weights, Stage(weights, q, k), c)
                       /\ 2 * TotalOf(weights, Stage(weights, q, k), c)
                              <= (Scale * M) * Cardinality(IntoUntil(k, c))
    BY TargetTotals
  <2> QED
    BY <2>1, <2>2
<1>5. N \in Nat /\ J <= N /\ J \in Nat
  BY <1>2, IntoIsInto, IntoGrows
<1>6. IsFiniteSet(Members) /\ M \in Nat
  BY <1>1, HistoryAssumption, FS_CardinalityType DEF Members
<1>7. \A u \in Members : f[u] = bal[u][c] /\ f[u] \in Int
  BY <1>1, <1>3, PositionIs DEF Members
<1>8. \A u \in Members : g[u] = RoundQuotient(f[u], Scale)
  <2>1. DOMAIN bal = Members
    BY <1>3 DEF Balances, Members
  <2> QED
    BY <1>3, <1>7, <2>1 DEF ComputeGroupBalance, RoundBalance, Cents
<1>9. Drift(c) = SumFunctionOnSet(g, Members) /\ T = SumFunctionOnSet(f, Members)
  BY DEF Drift, SumFunction, TotalOf, Members
<1>10. Scale \in Nat \ {0}
  BY ScaleAssumption
<1> HIDE DEF q, n, bal, f, g, M, N, J, T
<1>11. /\ T \in Int /\ Drift(c) \in Int
       /\ -(Scale * M) <= 2 * (Scale * Drift(c)) - 2 * T
       /\ 2 * (Scale * Drift(c)) - 2 * T <= Scale * M
  BY <1>6, <1>7, <1>8, <1>9, <1>10, RoundedSum DEF M
<1>12. PICK D \in Int : D = Drift(c)
  BY <1>11
<1>13. (Scale * M) * J <= (Scale * M) * N
  <2>1. \A x, i, j \in Nat : i <= j => x * i <= x * j
    OBVIOUS
  <2>2. Scale * M \in Nat
    BY <1>6, <1>10
  <2> QED
    BY <1>5, <2>1, <2>2
<1>14. Scale * (M * (1 + N)) = Scale * M + (Scale * M) * N
  BY <1>5, <1>6, <1>10
<1>15. -(Scale * (M * (1 + N))) <= 2 * (Scale * D) /\ 2 * (Scale * D) <= Scale * (M * (1 + N))
  <2>1. PICK a \in Int, b \in Int, y \in Int, z \in Int :
            a = Scale * M /\ b = (Scale * M) * N /\ y = (Scale * M) * J /\ z = Scale * D
    BY <1>5, <1>6, <1>10, <1>12
  <2>2. -y <= 2 * T /\ 2 * T <= y /\ y <= b /\ -a <= 2 * z - 2 * T /\ 2 * z - 2 * T <= a
    BY <1>4, <1>11, <1>12, <1>13, <2>1
  <2>3. -(a + b) <= 2 * z /\ 2 * z <= a + b
    BY <1>11, <2>2
  <2> QED
    BY <1>14, <2>1, <2>3
<1>16. -(M * (1 + N)) <= 2 * D /\ 2 * D <= M * (1 + N)
  <2>1. PICK b \in Int : b = M * (1 + N)
    BY <1>5, <1>6
  <2>2. \A s \in Nat \ {0}, x \in Int : s * x >= 0 => x >= 0
    OBVIOUS
  <2>3. /\ Scale * (b + 2 * D) = Scale * b + 2 * (Scale * D)
        /\ Scale * (b - 2 * D) = Scale * b - 2 * (Scale * D)
        /\ Scale * b \in Int /\ Scale * D \in Int
    BY <1>10
  <2>4. Scale * (b + 2 * D) >= 0 /\ Scale * (b - 2 * D) >= 0
    BY <1>15, <2>1, <2>3
  <2>5. b + 2 * D >= 0 /\ b - 2 * D >= 0
    BY <1>10, <2>2, <2>4
  <2> QED
    BY <2>1, <2>5
<1>17. 2 * Abs(D) <= M * (1 + N)
  <2>1. PICK b \in Int : b = M * (1 + N)
    BY <1>5, <1>6
  <2> QED
    BY <1>16, <2>1 DEF Abs
<1> QED
  BY <1>12, <1>17 DEF M, N

----------------------------------------------------------------------------
\* The history

\* Dating and numbering a row leaves its contents alone.
LEMMA RowIsFilled ==
    ASSUME NEW t \in Templates, NEW i, NEW d, NEW now
    PROVE  LET a == Row(t, i, d, now)
           IN  Filled(a) /\ a.id = i /\ a.date = d /\ a.createdAt = now
<1> DEFINE a == Row(t, i, d, now)
<1>1. DOMAIN t = Columns[t.kind] /\ Filled(t)
  BY HistoryAssumption
<1>2. a.id = i /\ a.date = d /\ a.createdAt = now
  BY DEF Row
<1>3. \A x \in DOMAIN t : x \notin {"id", "date", "createdAt"} => a[x] = t[x]
  BY DEF Row
<1> HIDE DEF a
<1>4. CASE t.kind = "expense"
  <2>1. DOMAIN t = {"kind", "payer", "beneficiaries", "amount", "currency"}
    BY <1>1, <1>4 DEF Columns
  <2>2. /\ a.kind = t.kind /\ a.amount = t.amount /\ a.currency = t.currency
        /\ a.beneficiaries = t.beneficiaries
    BY <1>3, <2>1
  <2> QED
    BY <1>1, <1>2, <1>4, <2>2 DEF Filled, a
<1>5. CASE t.kind = "transfer"
  <2>1. DOMAIN t = {"kind", "sender", "receiver", "amount", "currency"}
    BY <1>1, <1>5 DEF Columns
  <2>2. a.kind = t.kind /\ a.amount = t.amount /\ a.currency = t.currency
    BY <1>3, <2>1
  <2> QED
    BY <1>1, <1>2, <1>5, <2>2 DEF Filled, a
<1>6. CASE t.kind = "conversion"
  <2>1. DOMAIN t = {"kind", "from", "to", "rate"}
    BY <1>1, <1>6 DEF Columns
  <2>2. a.kind = t.kind /\ a.from = t.from /\ a.to = t.to /\ a.rate = t.rate
    BY <1>3, <2>1
  <2> QED
    BY <1>1, <1>2, <1>6, <2>2 DEF Filled, a
<1> QED
  BY <1>1, <1>4, <1>5, <1>6 DEF Filled

\* Before the first row HInv holds.
LEMMA HInvInit ==
    Init => HInv
  BY HistoryAssumption, FS_EmptySet DEF Init, HInv, TypeOK

\* Every step keeps HInv.
LEMMA HInvStep ==
    HInv /\ [Next]_vars => HInv'
<1> SUFFICES ASSUME HInv, [Next]_vars
             PROVE  HInv'
  OBVIOUS
<1>1. /\ weights \in Weightings /\ clock \in 0..MaxClock /\ MaxClock \in Nat
      /\ IsFiniteSet(actions) /\ \A a \in actions : Filled(a)
  BY HistoryAssumption DEF HInv, TypeOK
<1>2. \A a \in actions : a.id \in Ids /\ a.date \in Dates /\ a.createdAt \in 0..clock
  BY DEF HInv, TypeOK
<1>3. \A a, b \in actions : a.id = b.id => a = b
  BY DEF HInv, TypeOK
<1>4. ASSUME NEW t \in Templates, NEW i \in Ids, NEW d \in Dates, Record(t, i, d)
      PROVE  HInv'
  <2> DEFINE new == Row(t, i, d, clock)
  <2>1. /\ Filled(new) /\ new.id = i /\ new.date = d /\ new.createdAt = clock
        /\ actions' = actions \cup {new} /\ UNCHANGED <<weights, clock>>
        /\ \A a \in actions : a.id # i
    BY <1>4, RowIsFilled DEF Record
  <2> HIDE DEF new
  <2>2. clock \in 0..clock
    BY <1>1
  <2>3. IsFiniteSet(actions')
    BY <1>1, <2>1, FS_AddElement
  <2>4. \A a \in actions' : /\ a.id \in Ids /\ a.date \in Dates /\ a.createdAt \in 0..clock
                            /\ Filled(a)
    BY <1>1, <1>2, <2>1, <2>2
  <2>5. \A a, b \in actions' : a.id = b.id => a = b
    BY <1>3, <2>1
  <2> QED
    BY <1>1, <2>1, <2>3, <2>4, <2>5 DEF HInv, TypeOK, Filled
<1>5. ASSUME NEW a \in actions, NEW t \in Templates, NEW d \in Dates, Edit(a, t, d)
      PROVE  HInv'
  <2> DEFINE new == Row(t, a.id, d, a.createdAt)
  <2>1. /\ Filled(new) /\ new.id = a.id /\ new.date = d /\ new.createdAt = a.createdAt
        /\ actions' = (actions \ {a}) \cup {new} /\ UNCHANGED <<weights, clock>>
    BY <1>5, RowIsFilled DEF Edit
  <2> HIDE DEF new
  <2>2. IsFiniteSet(actions')
    BY <1>1, <2>1, FS_AddElement, FS_RemoveElement
  <2>3. \A b \in actions' : /\ b.id \in Ids /\ b.date \in Dates /\ b.createdAt \in 0..clock
                            /\ Filled(b)
    BY <1>1, <1>2, <2>1
  <2>4. \A b, c \in actions' : b.id = c.id => b = c
    BY <1>3, <2>1
  <2> QED
    BY <1>1, <2>1, <2>2, <2>3, <2>4 DEF HInv, TypeOK, Filled
<1>6. ASSUME NEW a \in actions, Delete(a)
      PROVE  HInv'
  <2>1. actions' = actions \ {a} /\ UNCHANGED <<weights, clock>>
    BY <1>6 DEF Delete
  <2>2. IsFiniteSet(actions')
    BY <1>1, <2>1, FS_RemoveElement
  <2> QED
    BY <1>1, <1>2, <1>3, <2>1, <2>2 DEF HInv, TypeOK, Filled
<1>7. ASSUME NEW w \in Weightings, Reweigh(w)
      PROVE  HInv'
  <2>1. weights' = w /\ UNCHANGED <<actions, clock>>
    BY <1>7 DEF Reweigh
  <2> QED
    BY <1>1, <1>2, <1>3, <2>1 DEF HInv, TypeOK, Filled
<1>8. ASSUME Tick
      PROVE  HInv'
  <2>1. clock < MaxClock /\ clock' = clock + 1 /\ UNCHANGED <<weights, actions>>
    BY <1>8 DEF Tick
  <2>2. clock' \in 0..MaxClock /\ \A x \in 0..clock : x \in 0..clock'
    BY <1>1, <2>1
  <2> QED
    BY <1>1, <1>2, <1>3, <2>1, <2>2 DEF HInv, TypeOK, Filled
<1>9. ASSUME UNCHANGED vars
      PROVE  HInv'
  BY <1>1, <1>2, <1>3, <1>9 DEF HInv, TypeOK, Filled, vars
<1> QED
  BY <1>4, <1>5, <1>6, <1>7, <1>8, <1>9 DEF Next

\* In every group, whatever was recorded, edited and deleted: the invariant the properties
\* below follow from.
THEOREM HInvHolds ==
    Spec => []HInv
<1> QED
  BY HInvInit, HInvStep, PTL DEF Spec

\* TypeOK, in every group: ids stay unique and no row is from the future.
THEOREM HistoryTypeCorrect ==
    Spec => []TypeOK
<1>1. HInv => TypeOK
  BY DEF HInv
<1> QED
  BY <1>1, HInvHolds, PTL

\* DriftBounded, in every group: rounding is all that keeps the displayed balances of a
\* currency from adding up to zero, however the actions were entered and edited.
THEOREM DriftBoundedHolds ==
    Spec => []DriftBounded
<1> QED
  BY DriftIsBounded, HInvHolds, PTL

----------------------------------------------------------------------------
\* Without conversions

\* What the rows change in the position of u in currency c.
ChangesIn(u, c) ==
    [a \in Replayed(actions) |-> IF a.currency = c THEN Change(weights, u, a) ELSE 0]

\* The rows that were replayed by the k-th event.
Until(k) == {BalanceEvents(actions)[j] : j \in 1..k}

\* A position is the sum of the changes, in whatever order they came.
LEMMA PositionsAreSums ==
    ASSUME HInv, Ok, Conversions(actions) = {}, NEW u \in Members, NEW c \in Currencies
    PROVE  /\ IsFiniteSet(Replayed(actions))
           /\ \A a \in Replayed(actions) :
                  /\ a \in actions /\ Filled(a) /\ ~ Panics(weights, a)
                  /\ a.kind \in {"expense", "transfer"}
                  /\ ChangesIn(u, c)[a] \in Int
           /\ FloatBalances(weights, actions)[u][c] =
                  SumFunctionOnSet(ChangesIn(u, c), Replayed(actions))
           /\ FloatBalances(weights, actions) \in Balances(weights)
<1> DEFINE q == BalanceEvents(actions)
           E == Replayed(actions)
           n == Cardinality(E)
           S(k) == Stage(weights, q, k)
           g == ChangesIn(u, c)
           G == {k \in Nat : k <= n => S(k)[u][c] = SumFunctionOnSet(g, Until(k))}
<1>1. weights \in Weightings /\ Rows(actions) /\ Computable(weights, actions)
  BY HInvGivesRows DEF Ok
<1>2. /\ n \in Nat
      /\ \A k \in 1..n : q[k] \in E /\ q[k] \in actions /\ Filled(q[k]) /\ ~ Panics(weights, q[k])
      /\ \A a \in E : \E k \in 1..n : q[k] = a
      /\ \A j, k \in 1..n : q[j] = q[k] => j = k
      /\ IsFiniteSet(E)
  BY <1>1, EventsAreRows, EventsApply DEF Dated
<1>3. /\ S(0) = NoBalance(weights)
      /\ \A k \in 1..n : S(k) = ApplyEvent(weights, S(k - 1), q[k])
      /\ \A k \in 0..n : S(k) \in Balances(weights)
      /\ FloatBalances(weights, actions) = S(n)
  BY <1>1, EventsApply
<1>4. \A a \in E : a \in actions /\ Filled(a) /\ ~ Panics(weights, a)
  BY <1>2
<1>5. \A a \in E : a.kind \in {"expense", "transfer"}
  BY <1>4 DEF Filled, Conversions
<1>6. \A a \in E : /\ g[a] = IF a.currency = c THEN Change(weights, u, a) ELSE 0
                   /\ g[a] \in Int
  BY <1>1, <1>4, <1>5, ChangeIsInt DEF ChangesIn
<1>7. \A k : Until(k) = {q[j] : j \in 1..k}
  BY DEF Until
<1>8. u \in DOMAIN weights
  BY DEF Members
<1> HIDE DEF q, E, n, S, g
<1>9. Until(0) = {} /\ S(0)[u][c] = 0
  BY <1>3, <1>7, <1>8 DEF NoBalance
<1>10. 0 \in G
  BY <1>9, SumPick, FS_EmptySet
<1>11. ASSUME NEW k \in Nat, k \in G, k + 1 <= n
       PROVE  S(k + 1)[u][c] = SumFunctionOnSet(g, Until(k + 1))
  <2>1. k + 1 \in 1..n /\ k \in 0..n /\ (k + 1) - 1 = k /\ k <= n /\ 1..k \subseteq 1..n
    BY <1>2, <1>11
  <2> DEFINE a == q[k + 1]
  <2>2. /\ a \in E /\ Filled(a) /\ ~ Panics(weights, a) /\ S(k) \in Balances(weights)
        /\ S(k + 1) = ApplyEvent(weights, S(k), a)
    BY <1>2, <1>3, <2>1
  <2>3. S(k)[u][c] = SumFunctionOnSet(g, Until(k))
    BY <1>11, <2>1
  <2>4. S(k + 1)[u][c] = S(k)[u][c] + g[a]
    BY <1>1, <1>5, <1>6, <1>8, <2>2, EventEffect
  <2>5. 1..(k + 1) = (1..k) \cup {k + 1} /\ k + 1 \notin 1..k
    OBVIOUS
  <2>6. Until(k + 1) = Until(k) \cup {a} /\ Until(k) \subseteq E
    BY <1>2, <1>7, <2>1, <2>5
  <2>7. a \notin Until(k)
    BY <1>2, <1>7, <2>1, <2>5
  <2>8. Until(k + 1) \in SUBSET E /\ a \in Until(k + 1) /\ Until(k + 1) \ {a} = Until(k)
    BY <2>2, <2>6, <2>7
  <2>9. IsFiniteSet(Until(k + 1)) /\ \A b \in Until(k + 1) : g[b] \in Int
    BY <1>2, <1>6, <2>8, FS_Subset
  <2> HIDE DEF a
  <2>10. /\ SumFunctionOnSet(g, Until(k + 1)) = g[a] + SumFunctionOnSet(g, Until(k))
         /\ SumFunctionOnSet(g, Until(k)) \in Int
    BY <2>8, <2>9, SumRemove
  <2>11. g[a] \in Int
    BY <1>6, <2>2
  <2> QED
    BY <2>3, <2>4, <2>10, <2>11
<1>12. \A k \in Nat : k \in G => k + 1 \in G
  BY <1>11
<1> HIDE DEF G
<1>13. n \in G
  BY <1>2, <1>10, <1>12, AllNumbers
<1>14. S(n)[u][c] = SumFunctionOnSet(g, Until(n))
  BY <1>2, <1>13 DEF G
<1>15. Until(n) = E
  <2>1. Until(n) = {q[j] : j \in 1..n}
    BY <1>7
  <2>2. \A a \in E : a \in {q[j] : j \in 1..n}
    BY <1>2
  <2>3. \A a \in {q[j] : j \in 1..n} : a \in E
    BY <1>2
  <2> QED
    BY <2>1, <2>2, <2>3
<1>16. n \in 0..n
  BY <1>2
<1> QED
  BY <1>2, <1>3, <1>4, <1>5, <1>6, <1>14, <1>15, <1>16 DEF E, g

\* An expense that someone in the group takes part in changes what it says.
LEMMA CountedExpense ==
    ASSUME NEW w \in Weightings, NEW e, e.kind = "expense", Filled(e), ~ Panics(w, e),
           e.beneficiaries \cap DOMAIN w # {}
    PROVE  /\ TotalWeight(w, e.beneficiaries) # 0
           /\ e.beneficiaries \subseteq DOMAIN w
           /\ \A u : Change(w, u, e) = (IF u = e.payer THEN e.amount * Scale ELSE 0)
                                         - (IF u \in e.beneficiaries THEN Share(w, e, u) ELSE 0)
           /\ \A u : e.amount * Scale \in Int /\ Share(w, e, u) \in Int
<1>1. IsFiniteSet(e.beneficiaries) /\ TotalWeight(w, e.beneficiaries) # 0
  BY WeightsAreCounts DEF Filled
<1>2. e.beneficiaries \subseteq DOMAIN w
  BY <1>1 DEF Panics
<1>3. PICK m \in Int : \A u : Share(w, e, u) = m * Weight(w, u)
  BY <1>1, ShareIsExact
<1>4. \A u : Weight(w, u) \in Int
  BY <1>1, WeightsAreCounts
<1>5. \A u : Share(w, e, u) \in Int
  BY <1>3, <1>4
<1>6. e.amount * Scale \in Int
  BY ChangeIsInt
<1> QED
  BY <1>1, <1>2, <1>5, <1>6 DEF Change

\* The displayed balances are the closed sums.
LEMMA BalancesAreSums ==
    HInv => BalanceIsClosedSum
<1> DEFINE bal == ComputeGroupBalance(weights, actions)
           For(e)  == e.beneficiaries \cap Members
           Counted == {e \in Expenses(actions) : For(e) # {}}
           Part(e, u) == (e.amount * Scale * weights[u])
                             \div SumFunction([v \in For(e) |-> weights[v]])
           Net(u, a) ==
               CASE a.kind = "expense" ->
                       (IF a.payer = u THEN a.amount * Scale ELSE 0)
                       - (IF u \in For(a) THEN Part(a, u) ELSE 0)
                 [] a.kind = "transfer" ->
                       (IF a.sender = u THEN a.amount * Scale ELSE 0)
                       - (IF a.receiver = u THEN a.amount * Scale ELSE 0)
           Kept(c) == {b \in Counted \cup Transfers(actions) : b.currency = c}
           net(u, c) == [a \in Kept(c) |-> Net(u, a)]
<1> SUFFICES ASSUME HInv, Ok, Conversions(actions) = {}, NEW u \in Members, NEW c \in Currencies
             PROVE  bal[u][c] = Cents(SumFunction(net(u, c)))
  BY DEF BalanceIsClosedSum
<1> DEFINE E == Replayed(actions)
           F == Kept(c)
           g == ChangesIn(u, c)
           f == net(u, c)
<1>1. weights \in Weightings /\ IsFiniteSet(E) /\ Members = DOMAIN weights
  BY HInvGivesRows, PositionsAreSums DEF Members
<1>2. \A a \in E : /\ a \in actions /\ Filled(a) /\ ~ Panics(weights, a)
                   /\ a.kind \in {"expense", "transfer"} /\ g[a] \in Int
  BY PositionsAreSums
<1>3. \A a \in E : g[a] = IF a.currency = c THEN Change(weights, u, a) ELSE 0
  BY DEF ChangesIn
<1>4. bal[u][c] = Cents(SumFunctionOnSet(g, E))
  <2>1. /\ FloatBalances(weights, actions) \in Balances(weights)
        /\ FloatBalances(weights, actions)[u][c] = SumFunctionOnSet(g, E)
    BY PositionsAreSums
  <2>2. DOMAIN FloatBalances(weights, actions) = Members
    BY <1>1, <2>1 DEF Balances
  <2> QED
    BY <2>1, <2>2 DEF ComputeGroupBalance, RoundBalance
<1>5. F \in SUBSET E /\ \A a \in F : a.currency = c
  BY DEF Replayed, GroupExpenses, Transfers, Expenses
<1>6. \A a \in E \ F : g[a] = 0
  <2>1. ASSUME NEW a \in E, a \notin F, a.currency = c
        PROVE  Change(weights, u, a) = 0
    <3>1. a \in Expenses(actions) /\ a.kind = "expense" /\ For(a) = {}
      BY <1>2, <2>1 DEF Transfers, Expenses
    <3>2. IsFiniteSet(a.beneficiaries) /\ a.beneficiaries \cap DOMAIN weights = {}
      BY <1>1, <1>2, <3>1 DEF Filled
    <3>3. TotalWeight(weights, a.beneficiaries) = 0
      BY <1>1, <3>2, WeightsAreCounts
    <3> QED
      BY <3>1, <3>3 DEF Change
  <2> QED
    BY <1>3, <2>1
<1>7. \A a \in F : f[a] = Change(weights, u, a)
  <2>1. ASSUME NEW a \in F, a.kind = "expense"
        PROVE  f[a] = Change(weights, u, a)
    <3>1. a \in E /\ For(a) # {}
      BY <1>5, <2>1 DEF Transfers
    <3>2. a.beneficiaries \cap DOMAIN weights # {} /\ Filled(a) /\ ~ Panics(weights, a)
      BY <1>1, <1>2, <3>1
    <3>3. /\ a.beneficiaries \subseteq DOMAIN weights
          /\ Change(weights, u, a) =
                 (IF u = a.payer THEN a.amount * Scale ELSE 0)
                 - (IF u \in a.beneficiaries THEN Share(weights, a, u) ELSE 0)
      BY <1>1, <2>1, <3>2, CountedExpense
    <3>4. For(a) = a.beneficiaries
      BY <1>1, <3>3
    <3>5. SumFunction([v \in For(a) |-> weights[v]]) = TotalWeight(weights, a.beneficiaries)
      <4>1. [v \in For(a) |-> weights[v]] = [v \in a.beneficiaries |-> Weight(weights, v)]
        BY <3>3, <3>4 DEF Weight
      <4> QED
        BY <4>1 DEF TotalWeight
    <3>6. a.amount * Scale * weights[u] = a.amount * Weight(weights, u) * Scale
      <4>1. a.amount \in Int /\ Scale \in Int /\ weights[u] \in Int
        BY <1>1, <2>1, <3>2, HistoryAssumption, ScaleAssumption DEF Filled
      <4>2. \A x, y, z \in Int : x * y * z = x * z * y
        OBVIOUS
      <4> QED
        BY <1>1, <4>1, <4>2 DEF Weight
    <3>7. Part(a, u) = Share(weights, a, u)
      BY <3>5, <3>6 DEF Share
    <3>8. Net(u, a) = (IF a.payer = u THEN a.amount * Scale ELSE 0)
                      - (IF u \in For(a) THEN Part(a, u) ELSE 0)
      BY <2>1
    <3>9. f[a] = Net(u, a)
      OBVIOUS
    <3> HIDE DEF For, Part, Net, f, F
    <3> QED
      BY <3>3, <3>4, <3>7, <3>8, <3>9
  <2>2. ASSUME NEW a \in F, a.kind = "transfer"
        PROVE  f[a] = Change(weights, u, a)
    <3>1. Net(u, a) = (IF a.sender = u THEN a.amount * Scale ELSE 0)
                      - (IF a.receiver = u THEN a.amount * Scale ELSE 0)
      BY <2>2
    <3>2. f[a] = Net(u, a)
      OBVIOUS
    <3> HIDE DEF Net, f, F
    <3> QED
      BY <2>2, <3>1, <3>2 DEF Change
  <2> QED
    BY <1>2, <1>5, <2>1, <2>2
<1>8. SumFunction(f) = SumFunctionOnSet(f, F)
  BY DEF SumFunction
<1>9. IsFiniteSet(F) /\ \A a \in F : g[a] \in Int /\ g[a] = f[a]
  BY <1>1, <1>2, <1>3, <1>5, <1>7, FS_Subset
<1> HIDE DEF E, F, g, f
<1>10. SumFunctionOnSet(g, E) = SumFunctionOnSet(g, F)
  BY <1>1, <1>2, <1>5, <1>6, SumSubset
<1>11. SumFunctionOnSet(g, F) = SumFunctionOnSet(f, F)
  BY <1>9, SumSame
<1>12. bal[u][c] = Cents(SumFunction(f))
  BY <1>4, <1>8, <1>10, <1>11
<1> QED
  BY <1>12 DEF f

\* Rounded together or apart, an amount comes out the same to the cent.
LEMMA RoundedApart ==
    ASSUME NEW p \in Int, NEW x \in Int
    PROVE  Abs(Cents(p * Scale - x) - (p - Cents(x))) <= 1
<1>1. Scale \in Nat \ {0} /\ p * Scale \in Int /\ p * Scale - x \in Int
  BY ScaleAssumption
<1>2. PICK a \in Int, b \in Int : a = Cents(p * Scale - x) /\ b = Cents(x)
  BY <1>1, RoundedIsClose DEF Cents
<1>3. /\ -Scale <= 2 * (Scale * a) - 2 * (p * Scale - x)
      /\ 2 * (Scale * a) - 2 * (p * Scale - x) <= Scale
      /\ -Scale <= 2 * (Scale * b) - 2 * x /\ 2 * (Scale * b) - 2 * x <= Scale
  BY <1>1, <1>2, RoundedIsClose DEF Cents
<1> DEFINE d == a - (p - b)
<1>4. d \in Int
  OBVIOUS
<1>5. /\ Scale * (1 - d) = Scale + p * Scale - Scale * a - Scale * b
      /\ Scale * (1 + d) = Scale - p * Scale + Scale * a + Scale * b
      /\ Scale * a \in Int /\ Scale * b \in Int
  BY <1>1
<1>6. Scale * (1 - d) >= 0 /\ Scale * (1 + d) >= 0
  <2>1. PICK y \in Int, z \in Int, v \in Int : y = Scale * a /\ z = Scale * b /\ v = p * Scale
    BY <1>1, <1>5
  <2>2. -Scale <= 2 * y - 2 * (v - x) /\ 2 * y - 2 * (v - x) <= Scale
        /\ -Scale <= 2 * z - 2 * x /\ 2 * z - 2 * x <= Scale
    BY <1>3, <2>1
  <2>3. Scale + v - y - z >= 0 /\ Scale - v + y + z >= 0
    BY <1>1, <2>2
  <2> QED
    BY <1>5, <2>1, <2>3
<1>7. \A s \in Nat \ {0}, i \in Int : s * i >= 0 => i >= 0
  OBVIOUS
<1> HIDE DEF d
<1>8. 1 - d >= 0 /\ 1 + d >= 0
  BY <1>1, <1>4, <1>6, <1>7
<1>9. Abs(d) <= 1
  BY <1>4, <1>8 DEF Abs
<1> QED
  BY <1>2, <1>9 DEF d

\* What a member paid and consumed gives the displayed balance.
LEMMA FiguresLineUp ==
    HInv => SpendingLinesUp
<1> SUFFICES ASSUME HInv, Ok, Conversions(actions) \cup Transfers(actions) = {},
                    \A e \in GroupExpenses(actions) : e.beneficiaries \cap Members # {},
                    NEW u \in Members, NEW c \in Currencies
             PROVE  LET s == ComputeMemberSpending(weights, actions, u)
                    IN  Abs(ComputeGroupBalance(weights, actions)[u][c]
                                - (s.paid[c] - s.share[c])) <= 1
  BY DEF SpendingLinesUp
<1> DEFINE E == Replayed(actions)
           F == {e \in GroupExpenses(actions) : e.currency = c}
           g == ChangesIn(u, c)
           p == [e \in F |-> IF e.payer = u THEN e.amount ELSE 0]
           x == [e \in F |-> IF u \in e.beneficiaries /\ TotalWeight(weights, e.beneficiaries) # 0
                             THEN Share(weights, e, u) ELSE 0]
           s == ComputeMemberSpending(weights, actions, u)
<1>1. weights \in Weightings /\ IsFiniteSet(E) /\ Members = DOMAIN weights /\ Scale \in Int
  BY HInvGivesRows, PositionsAreSums, ScaleAssumption DEF Members
<1>2. \A a \in E : Filled(a) /\ ~ Panics(weights, a) /\ g[a] \in Int
  BY PositionsAreSums
<1>3. \A a \in E : g[a] = IF a.currency = c THEN Change(weights, u, a) ELSE 0
  BY DEF ChangesIn
<1>4. ComputeGroupBalance(weights, actions)[u][c] = Cents(SumFunctionOnSet(g, E))
  <2>1. /\ FloatBalances(weights, actions) \in Balances(weights)
        /\ FloatBalances(weights, actions)[u][c] = SumFunctionOnSet(g, E)
    BY PositionsAreSums
  <2>2. DOMAIN FloatBalances(weights, actions) = Members
    BY <1>1, <2>1 DEF Balances
  <2> QED
    BY <2>1, <2>2 DEF ComputeGroupBalance, RoundBalance
<1>5. E = GroupExpenses(actions) /\ F \in SUBSET E /\ \A a \in E \ F : g[a] = 0
  <2>1. E = GroupExpenses(actions)
    BY DEF Replayed
  <2> QED
    BY <1>3, <2>1
<1>6. s.paid[c] = SumFunctionOnSet(p, F) /\ s.share[c] = Cents(SumFunctionOnSet(x, F))
  BY DEF ComputeMemberSpending, SumFunction
<1>7. ASSUME NEW e \in F
      PROVE  /\ g[e] = Scale * p[e] - x[e]
             /\ p[e] \in Int /\ x[e] \in Int /\ g[e] \in Int /\ Scale * p[e] \in Int
  <2>1. e \in E /\ e \in GroupExpenses(actions) /\ e.kind = "expense" /\ e.currency = c
    BY <1>5 DEF GroupExpenses, Expenses
  <2>2. Filled(e) /\ ~ Panics(weights, e) /\ e.beneficiaries \cap DOMAIN weights # {}
    BY <1>1, <1>2, <2>1
  <2>3. /\ TotalWeight(weights, e.beneficiaries) # 0 /\ Share(weights, e, u) \in Int
        /\ Change(weights, u, e) = (IF u = e.payer THEN e.amount * Scale ELSE 0)
                                   - (IF u \in e.beneficiaries THEN Share(weights, e, u) ELSE 0)
    BY <1>1, <2>1, <2>2, CountedExpense
  <2>4. e.amount \in Int
    BY <2>1, <2>2 DEF Filled
  <2>5. x[e] = IF u \in e.beneficiaries THEN Share(weights, e, u) ELSE 0
    BY <2>3
  <2>6. p[e] = IF u = e.payer THEN e.amount ELSE 0
    OBVIOUS
  <2>7. (IF u = e.payer THEN e.amount * Scale ELSE 0) = Scale * p[e]
    BY <1>1, <2>4, <2>6
  <2>8. g[e] = Change(weights, u, e) /\ g[e] \in Int
    BY <1>2, <1>3, <2>1
  <2>9. p[e] \in Int /\ x[e] \in Int
    BY <2>3, <2>4, <2>5, <2>6
  <2> HIDE DEF p, x, g
  <2>10. Scale * p[e] \in Int
    BY <1>1, <2>9
  <2> QED
    BY <2>3, <2>5, <2>7, <2>8, <2>9, <2>10
<1>8. IsFiniteSet(F)
  BY <1>1, <1>5, FS_Subset
<1> DEFINE r == [e \in F |-> Scale * p[e]]
<1>9. \A e \in F : r[e] = Scale * p[e] /\ r[e] \in Int /\ p[e] \in Int /\ x[e] \in Int
                   /\ g[e] = r[e] - x[e]
  BY <1>7
<1> HIDE DEF E, F, g, p, x, r
<1>10. SumFunctionOnSet(g, E) = SumFunctionOnSet(g, F)
  BY <1>1, <1>2, <1>5, SumSubset
<1>11. SumFunctionOnSet(g, F) = SumFunctionOnSet(r, F) - SumFunctionOnSet(x, F)
  BY <1>8, <1>9, SumSubtract
<1>12. SumFunctionOnSet(r, F) = Scale * SumFunctionOnSet(p, F)
  BY <1>1, <1>8, <1>9, SumScale
<1>13. PICK P \in Int, X \in Int : P = SumFunctionOnSet(p, F) /\ X = SumFunctionOnSet(x, F)
  BY <1>8, <1>9, SumIsInt
<1>14. SumFunctionOnSet(g, E) = P * Scale - X
  <2>1. Scale * P = P * Scale
    BY <1>1
  <2> QED
    BY <1>10, <1>11, <1>12, <1>13, <2>1
<1>15. Abs(Cents(P * Scale - X) - (P - Cents(X))) <= 1
  BY RoundedApart
<1> QED
  BY <1>4, <1>6, <1>13, <1>14, <1>15

----------------------------------------------------------------------------
\* One snapshot per day

\* The snapshots s with e added, which takes the place of one of the same day.
WithSnapshot(s, e) ==
    Append(IF s # <<>> /\ Last(s).day = e.day THEN Front(s) ELSE s, e)

\* new is s with e at its end, in the place of the last one if that has the same day.
EndsWith(V, s, e, new) ==
    /\ new \in Seq(V) /\ new # <<>> /\ Last(new) = e
    /\ Len(new) \in Nat \ {0} /\ new[Len(new)] = e
    /\ (s # <<>> /\ Last(s).day = e.day) => Len(new) = Len(s)
    /\ ~ (s # <<>> /\ Last(s).day = e.day) => Len(new) = Len(s) + 1
    /\ \A i \in 1..(Len(new) - 1) : i \in 1..Len(s) /\ new[i] = s[i]

\* A sequence of elements of a set is one of elements of a larger set.
LEMMA SeqOfMore ==
    ASSUME NEW U, NEW V, U \subseteq V, NEW s \in Seq(U)
    PROVE  s \in Seq(V)
<1>1. s \in [1..Len(s) -> U] /\ Len(s) \in Nat
  BY LenProperties
<1>2. s \in [1..Len(s) -> V]
  BY <1>1
<1> QED
  BY <1>1, <1>2

\* WithSnapshot is that.
LEMMA SnapshotIsAdded ==
    ASSUME NEW V, NEW s, s \in Seq(V), NEW e, e \in V, NEW new, new = WithSnapshot(s, e)
    PROVE  EndsWith(V, s, e, new)
<1> DEFINE same == s # <<>> /\ Last(s).day = e.day
<1>1. Len(s) \in Nat /\ (s # <<>> => Len(s) # 0)
  OBVIOUS
<1>2. CASE same
  <2> DEFINE r == Front(s)
  <2>1. new = Append(r, e)
    BY <1>2 DEF WithSnapshot
  <2>2. r \in Seq(V) /\ Len(r) = Len(s) - 1 /\ \A i \in 1..Len(r) : r[i] = s[i]
    <3>1. r = SubSeq(s, 1, Len(s) - 1)
      BY DEF Front
    <3>2. Len(s) - 1 \in Nat
      BY <1>1, <1>2
    <3>3. \A i \in 1..(Len(s) - 1) : s[i] \in V
      BY <1>1
    <3>4. /\ r \in Seq(V)
          /\ Len(r) = IF 1 <= Len(s) - 1 THEN Len(s) - 1 - 1 + 1 ELSE 0
          /\ \A i \in 1..(Len(s) - 1 - 1 + 1) : r[i] = s[1 + i - 1]
      BY <3>1, <3>2, <3>3, SubSeqProperties
    <3> HIDE DEF r
    <3>5. Len(r) = Len(s) - 1
      <4>1. \A x \in Nat : x - 1 \in Nat =>
                (IF 1 <= x - 1 THEN x - 1 - 1 + 1 ELSE 0) = x - 1
        OBVIOUS
      <4> QED
        BY <1>1, <3>2, <3>4, <4>1
    <3>6. ASSUME NEW i \in 1..Len(r)
          PROVE  r[i] = s[i]
      <4>1. i \in 1..(Len(s) - 1 - 1 + 1) /\ 1 + i - 1 = i
        BY <3>2, <3>5
      <4> QED
        BY <3>4, <4>1
    <3> QED
      BY <3>4, <3>5, <3>6
  <2> HIDE DEF r
  <2>3. /\ new \in Seq(V) /\ Len(new) = Len(r) + 1 /\ new[Len(new)] = e
        /\ \A i \in 1..Len(r) : new[i] = r[i]
    BY <2>1, <2>2
  <2>4. new # <<>> /\ Last(new) = e
    BY <1>1, <1>2, <2>2, <2>3 DEF Last
  <2> QED
    BY <1>1, <1>2, <2>2, <2>3, <2>4 DEF EndsWith
<1>3. CASE ~ same
  <2>1. new = Append(s, e)
    BY <1>3 DEF WithSnapshot
  <2>2. /\ new \in Seq(V) /\ Len(new) = Len(s) + 1 /\ new[Len(new)] = e
        /\ \A i \in 1..Len(s) : new[i] = s[i]
    BY <2>1
  <2>3. new # <<>> /\ Last(new) = e
    BY <1>1, <2>2 DEF Last
  <2> QED
    BY <1>1, <1>3, <2>2, <2>3 DEF EndsWith
<1> QED
  BY <1>2, <1>3

\* L[k] are the snapshots after the first k of the values v, which come in order.
Daily(n, v, L) ==
    /\ \A j \in 1..n : v[j].day \in Int
    /\ \A j, k \in 1..n : j < k => v[j].day <= v[k].day
    /\ L[0] = <<>>
    /\ \A k \in 1..n : L[k] = WithSnapshot(L[k - 1], v[k])

\* The snapshots are values of v in the order of their days, each day once and the last
\* value last.
Snapshots(k, v, s) ==
    /\ s \in Seq({v[j] : j \in 1..k})
    /\ k = 0 => s = <<>>
    /\ k # 0 => s # <<>> /\ Last(s) = v[k]
    /\ \A j \in 1..k : \E i \in 1..Len(s) : s[i].day = v[j].day
    /\ \A h, i \in 1..Len(s) : h < i => s[h].day < s[i].day

\* So it is after every value.
LEMMA DailyIsInOrder ==
    ASSUME NEW n \in Nat, NEW v, NEW L, Daily(n, v, L)
    PROVE  \A k \in 0..n : Snapshots(k, v, L[k])
<1> DEFINE G == {k \in Nat : k <= n => Snapshots(k, v, L[k])}
<1>1. 0 \in G
  <2>1. L[0] = <<>>
    BY DEF Daily
  <2>2. Snapshots(0, v, <<>>)
    BY DEF Snapshots
  <2> QED
    BY <2>1, <2>2
<1>2. ASSUME NEW k \in Nat, k \in G, k + 1 <= n
      PROVE  Snapshots(k + 1, v, L[k + 1])
  <2> DEFINE V == {v[j] : j \in 1..(k + 1)}
             s == L[k]
             e == v[k + 1]
             new == L[k + 1]
             same == s # <<>> /\ Last(s).day = e.day
  <2>1. k + 1 \in 1..n /\ (k + 1) - 1 = k /\ k <= n /\ 1..k \subseteq 1..n
        /\ 1..k \subseteq 1..(k + 1) /\ k + 1 \in 1..(k + 1)
        /\ \A j \in 1..(k + 1) : j \in 1..k \/ j = k + 1
    BY <1>2
  <2>2. Snapshots(k, v, s) /\ new = WithSnapshot(s, e)
    BY <1>2, <2>1 DEF Daily
  <2>3. /\ \A j \in 1..k : v[j].day \in Int /\ v[j].day <= e.day
        /\ e.day \in Int
    BY <2>1 DEF Daily
  <2>4. s \in Seq(V) /\ e \in V
    <3>1. {v[j] : j \in 1..k} \subseteq V
      BY <2>1
    <3>2. s \in Seq({v[j] : j \in 1..k})
      BY <2>2 DEF Snapshots
    <3>3. e \in V
      BY <2>1
    <3> QED
      BY <3>1, <3>2, <3>3, SeqOfMore
  <2>5. \A i \in 1..Len(s) : s[i].day \in Int /\ s[i].day <= e.day
    <3> DEFINE W == {v[j] : j \in 1..k}
    <3>1. \A i \in 1..Len(s) : s[i] \in W
      <4>1. s \in Seq(W)
        BY <2>2 DEF Snapshots
      <4> HIDE DEF W, s
      <4> QED
        BY <4>1
    <3> QED
      BY <2>3, <3>1
  <2>6. /\ Len(s) \in Nat
        /\ \A j \in 1..k : \E i \in 1..Len(s) : s[i].day = v[j].day
        /\ \A h, i \in 1..Len(s) : h < i => s[h].day < s[i].day
        /\ s # <<>> => Len(s) # 0 /\ Last(s) = s[Len(s)] /\ k # 0
        /\ s = <<>> => k = 0
    BY <2>2, <2>4 DEF Snapshots, Last
  <2> HIDE DEF V, new, s, e
  <2>11. EndsWith(V, s, e, new)
    BY <2>2, <2>4, SnapshotIsAdded
  <2>7. /\ new \in Seq(V) /\ new # <<>> /\ Last(new) = e
        /\ Len(new) \in Nat \ {0} /\ new[Len(new)] = e
        /\ same => Len(new) = Len(s)
        /\ ~ same => Len(new) = Len(s) + 1
        /\ \A i \in 1..(Len(new) - 1) : i \in 1..Len(s) /\ new[i] = s[i]
    BY <2>11 DEF EndsWith
  <2>8. ASSUME NEW j \in 1..(k + 1)
        PROVE  \E i \in 1..Len(new) : new[i].day = v[j].day
    <3>1. Len(new) \in 1..Len(new)
      BY <2>7
    <3>2. CASE v[j].day = e.day
      BY <2>7, <3>1, <3>2
    <3>3. CASE v[j].day # e.day
      <4>1. j \in 1..k
        BY <2>1, <3>3 DEF e
      <4>2. PICK i \in 1..Len(s) : s[i].day = v[j].day
        BY <2>6, <4>1
      <4>3. i \in 1..(Len(new) - 1)
        <5>1. CASE same
          <6>1. i # Len(s)
            BY <2>6, <3>3, <4>2, <5>1
          <6> QED
            BY <2>6, <2>7, <5>1, <6>1
        <5>2. CASE ~ same
          BY <2>6, <2>7, <5>2
        <5> QED
          BY <5>1, <5>2
      <4>4. i \in 1..Len(new) /\ new[i] = s[i]
        BY <2>7, <4>3
      <4> QED
        BY <4>2, <4>4
    <3> QED
      BY <3>2, <3>3
  <2>9. ASSUME NEW h \in 1..Len(new), NEW i \in 1..Len(new), h < i
        PROVE  new[h].day < new[i].day
    <3>1. h \in 1..(Len(new) - 1)
      BY <2>7, <2>9
    <3>2. h \in 1..Len(s) /\ new[h] = s[h]
      BY <2>7, <3>1
    <3>3. CASE i = Len(new)
      <4>1. new[i] = e
        BY <2>7, <3>3
      <4>2. CASE same
        <5>1. Len(new) = Len(s) /\ Len(s) \in 1..Len(s) /\ s[Len(s)].day = e.day
          BY <2>6, <2>7, <4>2
        <5>2. h < Len(s)
          BY <2>9, <3>3, <5>1
        <5>3. s[h].day < s[Len(s)].day
          BY <2>6, <3>2, <5>1, <5>2
        <5> QED
          BY <3>2, <4>1, <5>1, <5>3
      <4>3. CASE ~ same
        <5>1. s # <<>> /\ Len(s) \in 1..Len(s) /\ s[Len(s)].day # e.day
          BY <2>6, <3>2, <4>3
        <5>2. s[Len(s)].day < e.day
          BY <2>3, <2>5, <5>1
        <5>3. h = Len(s) \/ s[h].day < s[Len(s)].day
          BY <2>6, <3>2, <5>1
        <5>4. s[h].day \in Int /\ s[Len(s)].day \in Int /\ e.day \in Int
          BY <2>3, <2>5, <3>2, <5>1
        <5>5. s[h].day < e.day
          BY <5>2, <5>3, <5>4
        <5> QED
          BY <3>2, <4>1, <5>5
      <4> QED
        BY <4>2, <4>3
    <3>4. CASE i # Len(new)
      <4>1. i \in 1..(Len(new) - 1)
        BY <2>7, <3>4
      <4>2. i \in 1..Len(s) /\ new[i] = s[i]
        BY <2>7, <4>1
      <4> QED
        BY <2>6, <2>9, <3>2, <4>2
    <3> QED
      BY <3>3, <3>4
  <2>10. k + 1 # 0
    BY <1>2
  <2> QED
    BY <2>7, <2>8, <2>9, <2>10 DEF Snapshots, V, new, e
<1>3. \A k \in Nat : k \in G => k + 1 \in G
  BY <1>2
<1> HIDE DEF G
<1>4. \A k \in Nat : k \in G
  BY <1>1, <1>3, AllNumbers
<1> QED
  BY <1>4 DEF G

\* Later days come after the snapshots there were.
LEMMA DailyKeepsPast ==
    ASSUME NEW n \in Nat, NEW v, NEW L, Daily(n, v, L), NEW m \in 0..n, NEW day \in Int,
           \A j \in 1..m : v[j].day <= day,
           \A j \in (m + 1)..n : v[j].day > day
    PROVE  \A k \in m..n :
               /\ Len(L[m]) \in Nat /\ Len(L[k]) \in Nat /\ Len(L[m]) <= Len(L[k])
               /\ \A i \in 1..Len(L[m]) : L[k][i] = L[m][i] /\ L[m][i].day <= day
               /\ \A i \in (Len(L[m]) + 1)..Len(L[k]) : L[k][i].day > day
<1> DEFINE past == L[m]
           Good(k) == /\ Len(past) <= Len(L[k])
                      /\ \A i \in 1..Len(past) : L[k][i] = past[i]
                      /\ \A i \in (Len(past) + 1)..Len(L[k]) : L[k][i].day > day
           G == {k \in Nat : m + k <= n => Good(m + k)}
<1>1. \A k \in 0..n : Snapshots(k, v, L[k]) /\ Len(L[k]) \in Nat
  <2>1. ASSUME NEW k \in 0..n
        PROVE  Snapshots(k, v, L[k])
    BY DailyIsInOrder
  <2>2. ASSUME NEW k \in 0..n
        PROVE  Len(L[k]) \in Nat
    <3> DEFINE W == {v[j] : j \in 1..k}
    <3>1. L[k] \in Seq(W)
      BY <2>1 DEF Snapshots
    <3> HIDE DEF W
    <3> QED
      BY <3>1
  <2> QED
    BY <2>1, <2>2
<1>2. Len(past) \in Nat /\ \A i \in 1..Len(past) : past[i].day <= day
  <2> DEFINE W == {v[j] : j \in 1..m}
  <2>1. past \in Seq(W)
    BY <1>1 DEF Snapshots
  <2>2. \A e \in W : e.day <= day
    OBVIOUS
  <2> HIDE DEF past, W
  <2>3. Len(past) \in Nat /\ \A i \in 1..Len(past) : past[i] \in W
    BY <2>1
  <2> QED
    BY <2>2, <2>3
<1>3. 0 \in G
  BY <1>2
<1>4. ASSUME NEW k \in Nat, k \in G, m + (k + 1) <= n
      PROVE  Good(m + (k + 1))
  <2> DEFINE p == m + k
             s == L[p]
             e == v[p + 1]
             new == L[p + 1]
             same == s # <<>> /\ Last(s).day = e.day
  <2>1. /\ p + 1 \in 1..n /\ p \in 0..n /\ p + 1 \in (m + 1)..n /\ (p + 1) - 1 = p
        /\ m + (k + 1) = p + 1 /\ 1..p \subseteq 1..n /\ \A j \in 1..p : j < p + 1
    BY <1>4
  <2>2. Good(p)
    BY <1>4
  <2>3. new = WithSnapshot(s, e) /\ e.day \in Int /\ e.day > day
    BY <2>1 DEF Daily
  <2>4. Snapshots(p, v, s)
    BY <1>1, <2>1
  <2> DEFINE V == {v[j] : j \in 1..(p + 1)}
  <2>5. s \in Seq(V) /\ e \in V
    <3>1. {v[j] : j \in 1..p} \subseteq V
      BY <2>1
    <3>2. s \in Seq({v[j] : j \in 1..p})
      BY <2>4 DEF Snapshots
    <3>3. e \in V
      BY <2>1
    <3> HIDE DEF V
    <3> QED
      BY <3>1, <3>2, <3>3
  <2> HIDE DEF p, V, s, e, new, past
  <2>12. EndsWith(V, s, e, new)
    BY <2>3, <2>5, SnapshotIsAdded
  <2>6. /\ Len(new) \in Nat \ {0} /\ new[Len(new)] = e
        /\ same => Len(new) = Len(s)
        /\ ~ same => Len(new) = Len(s) + 1
        /\ \A i \in 1..(Len(new) - 1) : i \in 1..Len(s) /\ new[i] = s[i]
    BY <2>12 DEF EndsWith
  <2>7. /\ Len(s) \in Nat /\ Len(past) <= Len(s)
        /\ \A i \in 1..Len(past) : s[i] = past[i]
        /\ \A i \in (Len(past) + 1)..Len(s) : s[i].day > day
    BY <2>2, <2>5 DEF s
  <2>8. Len(past) <= Len(new) - 1
    <3>1. CASE same
      <4>1. Len(s) # 0 /\ s[Len(s)].day = e.day
        BY <2>5, <3>1 DEF Last
      <4>2. CASE Len(s) = Len(past)
        <5>1. s[Len(s)] = past[Len(s)] /\ past[Len(s)].day <= day
          BY <1>2, <2>7, <4>1, <4>2
        <5>2. e.day <= day
          BY <4>1, <5>1
        <5> QED
          BY <2>3, <5>2
      <4> QED
        BY <1>2, <2>6, <2>7, <3>1, <4>2
    <3>2. CASE ~ same
      BY <1>2, <2>6, <2>7, <3>2
    <3> QED
      BY <3>1, <3>2
  <2>9. \A i \in 1..Len(past) : new[i] = past[i]
    <3>1. \A i \in 1..Len(past) : i \in 1..(Len(new) - 1)
      BY <1>2, <2>6, <2>8
    <3> QED
      BY <2>6, <2>7, <3>1
  <2>10. ASSUME NEW i \in (Len(past) + 1)..Len(new)
         PROVE  new[i].day > day
    <3>1. CASE i = Len(new)
      BY <2>3, <2>6, <3>1
    <3>2. CASE i # Len(new)
      <4>1. i \in 1..(Len(new) - 1)
        BY <1>2, <2>6, <2>10, <3>2
      <4>2. new[i] = s[i] /\ i \in (Len(past) + 1)..Len(s)
        BY <1>2, <2>6, <2>7, <2>10, <4>1
      <4> QED
        BY <2>7, <4>2
    <3> QED
      BY <3>1, <3>2
  <2>11. Len(past) <= Len(new)
    BY <1>2, <2>6, <2>8
  <2> QED
    BY <2>1, <2>9, <2>10, <2>11 DEF new
<1>5. \A k \in Nat : k \in G => k + 1 \in G
  BY <1>4
<1> HIDE DEF G
<1>6. \A k \in Nat : k \in G
  BY <1>3, <1>5, AllNumbers
<1>7. ASSUME NEW k \in m..n
      PROVE  Good(k) /\ Len(L[k]) \in Nat
  <2>1. k - m \in Nat /\ m + (k - m) = k /\ k <= n /\ k \in 0..n
    OBVIOUS
  <2>2. k - m \in G
    BY <1>6, <2>1
  <2> HIDE DEF Good
  <2> QED
    BY <1>1, <2>1, <2>2 DEF G
<1> QED
  BY <1>2, <1>7

----------------------------------------------------------------------------
\* The timeline

\* Later is not on an earlier day.
LEMMA DayKeyIsMonotone ==
    ASSUME NEW x \in Int, NEW y \in Int
    PROVE  DayKey(x) \in Int /\ (x <= y => DayKey(x) <= DayKey(y))
<1>1. DayLength \in Nat \ {0}
  BY ScaleAssumption
<1>2. \A a \in Int, b \in Nat \ {0} :
          a \div b \in Int /\ b * (a \div b) <= a /\ a < b * (a \div b) + b
  OBVIOUS
<1>3. PICK p \in Int, r \in Int : p = DayKey(x) /\ r = DayKey(y)
  BY <1>1, <1>2 DEF DayKey
<1>4. DayLength * p <= x /\ y < DayLength * r + DayLength
  BY <1>1, <1>2, <1>3 DEF DayKey
<1>5. ASSUME x <= y, r < p
      PROVE  FALSE
  <2>1. r + 1 <= p
    BY <1>5
  <2>2. \A b \in Nat, i, j \in Int : i <= j => b * i <= b * j
    OBVIOUS
  <2>3. DayLength * (r + 1) <= DayLength * p
    BY <1>1, <2>1, <2>2
  <2>4. DayLength * (r + 1) = DayLength * r + DayLength
    BY <1>1
  <2>5. DayLength * r \in Int /\ DayLength * p \in Int
    BY <1>1
  <2> QED
    BY <1>1, <1>4, <1>5, <2>3, <2>4, <2>5
<1> QED
  BY <1>3, <1>5

\* The earliest rows come first, whatever follows.
LEMMA SortedPrefix ==
    ASSUME NEW S, Dated(S), NEW T \in SUBSET S,
           \A a \in T, b \in S : Before(b, a) => b \in T
    PROVE  /\ Dated(T) /\ Cardinality(T) \in Nat /\ Cardinality(T) <= Cardinality(S)
           /\ \A k \in 1..Cardinality(T) : Sorted(T)[k] = Sorted(S)[k] /\ Sorted(S)[k] \in T
           /\ \A k \in (Cardinality(T) + 1)..Cardinality(S) :
                  Sorted(S)[k] \in S /\ Sorted(S)[k] \notin T
<1>1. IsFiniteSet(S) /\ IsFiniteSet(T) /\ Dated(T)
  <2>1. IsFiniteSet(S) /\ IsFiniteSet(T)
    BY FS_Subset DEF Dated
  <2> QED
    BY <2>1 DEF Dated
<1>2. Cardinality(T) \in Nat /\ Cardinality(S) \in Nat /\ Cardinality(T) <= Cardinality(S)
  BY <1>1, Counts
<1>3. \A a \in T : Below(T, a) = Below(S, a)
  BY DEF Below
<1>4. ASSUME NEW k \in 1..Cardinality(T)
      PROVE  Sorted(T)[k] = Sorted(S)[k] /\ Sorted(S)[k] \in T
  <2>1. PICK a : a = Sorted(T)[k]
    OBVIOUS
  <2>2. a \in T /\ Cardinality(Below(T, a)) = k - 1
    BY <1>1, <2>1, SortedIsSorted
  <2>3. Cardinality(Below(S, a)) + 1 = k
    BY <1>2, <1>3, <2>2
  <2>4. Sorted(S)[Cardinality(Below(S, a)) + 1] = a
    BY <2>2, SortedIsSorted
  <2> QED
    BY <2>1, <2>2, <2>3, <2>4
<1>5. ASSUME NEW k \in (Cardinality(T) + 1)..Cardinality(S)
      PROVE  Sorted(S)[k] \in S /\ Sorted(S)[k] \notin T
  <2>1. k \in 1..Cardinality(S)
    BY <1>2
  <2>2. PICK a \in S : a = Sorted(S)[k] /\ Cardinality(Below(S, a)) = k - 1
    BY <2>1, SortedIsSorted
  <2>3. CASE a \in T
    <3>1. Cardinality(Below(T, a)) < Cardinality(T) /\ Cardinality(Below(T, a)) = k - 1
      BY <1>1, <1>3, <2>2, <2>3, BelowCounts
    <3> QED
      BY <1>2, <1>5, <3>1
  <2> QED
    BY <2>2, <2>3
<1> QED
  BY <1>1, <1>2, <1>4, <1>5

\* The rows of acts up to the evening of a day.
UpTo(acts, day) == {a \in acts : DayKey(a.date) <= day}

\* They are the first to be replayed.
LEMMA PastComesFirst ==
    ASSUME NEW acts, Rows(acts), NEW day \in Int
    PROVE  LET q == BalanceEvents(acts)
               n == Cardinality(Replayed(acts))
               m == Cardinality(Replayed(UpTo(acts, day)))
           IN  /\ Rows(UpTo(acts, day))
               /\ m \in 0..n
               /\ \A k \in 1..m : BalanceEvents(UpTo(acts, day))[k] = q[k]
               /\ \A k \in 1..m : DayKey(q[k].date) <= day
               /\ \A k \in (m + 1)..n : DayKey(q[k].date) > day
<1> DEFINE S == Replayed(acts)
           T == Replayed(UpTo(acts, day))
<1>1. T = {a \in S : DayKey(a.date) <= day}
  BY DEF Replayed, UpTo, GroupExpenses, Expenses, Transfers, Conversions
<1>2. Dated(S)
  BY EventsAreRows
<1>3. ASSUME NEW a \in T, NEW b \in S, Before(b, a)
      PROVE  b \in T
  <2>1. a \in S /\ DayKey(a.date) <= day
    BY <1>1
  <2>2. a.date \in Int /\ b.date \in Int
    BY <1>2, <2>1 DEF Dated
  <2>3. b.date <= a.date
    BY <1>3, <2>2 DEF Before
  <2>4. DayKey(b.date) <= DayKey(a.date) /\ DayKey(b.date) \in Int /\ DayKey(a.date) \in Int
    BY <2>2, <2>3, DayKeyIsMonotone
  <2> QED
    BY <1>1, <2>1, <2>4
<1>4. BalanceEvents(acts) = Sorted(S) /\ BalanceEvents(UpTo(acts, day)) = Sorted(T)
  BY DEF BalanceEvents, Replayed
<1>5. Rows(UpTo(acts, day))
  <2>1. UpTo(acts, day) \in SUBSET acts
    BY DEF UpTo
  <2>2. IsFiniteSet(UpTo(acts, day))
    BY <2>1, FS_Subset DEF Rows, Dated
  <2> QED
    BY <2>1, <2>2 DEF Rows, Dated
<1>6. \A a \in S : DayKey(a.date) \in Int
  BY <1>2, DayKeyIsMonotone DEF Dated
<1>7. T \in SUBSET S
  BY <1>1
<1>8. Cardinality(S) \in Nat
  BY EventsAreRows
<1> HIDE DEF S, T
<1>9. /\ Cardinality(T) \in Nat /\ Cardinality(T) <= Cardinality(S)
      /\ \A k \in 1..Cardinality(T) : Sorted(T)[k] = Sorted(S)[k] /\ Sorted(S)[k] \in T
      /\ \A k \in (Cardinality(T) + 1)..Cardinality(S) :
             Sorted(S)[k] \in S /\ Sorted(S)[k] \notin T
  BY <1>2, <1>3, <1>7, SortedPrefix
<1>10. \A k \in 1..Cardinality(T) : DayKey(Sorted(S)[k].date) <= day
  BY <1>1, <1>9
<1>11. \A k \in (Cardinality(T) + 1)..Cardinality(S) : DayKey(Sorted(S)[k].date) > day
  BY <1>1, <1>6, <1>9
<1> QED
  BY <1>4, <1>5, <1>8, <1>9, <1>10, <1>11 DEF S, T

\* What comes of the first events does not depend on those that follow.
LEMMA AfterPrefix ==
    ASSUME NEW what, NEW w, NEW n \in Nat, NEW q, DOMAIN q = 1..n,
           NEW m \in 0..n, NEW r, DOMAIN r = 1..m, \A k \in 1..m : r[k] = q[k]
    PROVE  \A k \in 0..m : After(what, w, r, k) = After(what, w, q, k)
<1> DEFINE G == {k \in Nat : k <= m => After(what, w, r, k) = After(what, w, q, k)}
<1>1. /\ After(what, w, q, 0) = Start(what, w)
      /\ \A k \in 1..n : After(what, w, q, k) = Applied(what, w, After(what, w, q, k - 1), q[k])
  BY AfterEach
<1>2. /\ After(what, w, r, 0) = Start(what, w)
      /\ \A k \in 1..m : After(what, w, r, k) = Applied(what, w, After(what, w, r, k - 1), r[k])
  <2>1. m \in Nat
    OBVIOUS
  <2> QED
    BY <2>1, AfterEach
<1>3. 0 \in G
  BY <1>1, <1>2
<1>4. ASSUME NEW k \in Nat, k \in G, k + 1 <= m
      PROVE  After(what, w, r, k + 1) = After(what, w, q, k + 1)
  <2>1. k + 1 \in 1..m /\ k + 1 \in 1..n /\ (k + 1) - 1 = k /\ k <= m
    BY <1>4
  <2>2. After(what, w, r, k) = After(what, w, q, k)
    BY <1>4, <2>1
  <2> QED
    BY <1>1, <1>2, <2>1, <2>2
<1>5. \A k \in Nat : k \in G => k + 1 \in G
  BY <1>4
<1> HIDE DEF G
<1>6. \A k \in Nat : k \in G
  BY <1>3, <1>5, AllNumbers
<1> QED
  BY <1>6 DEF G

\* The snapshots after the first k events, and the snapshot each event gives.
Lines(w, q) == [k \in 0..Cardinality(DOMAIN q) |-> After("timeline", w, q, k).snaps]
Values(w, q) ==
    [k \in 1..Cardinality(DOMAIN q) |->
        [day |-> DayKey(q[k].date), balances |-> RoundBalance(Stage(w, q, k))]]

\* A step of the timeline adds the snapshot of the balances it leads to.
LEMMA StepIsDaily ==
    ASSUME NEW w, NEW acc, NEW a
    PROVE  /\ TimelineStep(w, acc, a).bal = ApplyEvent(w, acc.bal, a)
           /\ TimelineStep(w, acc, a).snaps = WithSnapshot(acc.snaps,
                  [day |-> DayKey(a.date), balances |-> RoundBalance(ApplyEvent(w, acc.bal, a))])
<1> DEFINE snap == [day |-> DayKey(a.date), balances |-> RoundBalance(ApplyEvent(w, acc.bal, a))]
<1>1. snap.day = DayKey(a.date)
  OBVIOUS
<1>2. TimelineStep(w, acc, a) =
          [bal |-> ApplyEvent(w, acc.bal, a),
           snaps |-> Append(IF acc.snaps # <<>> /\ Last(acc.snaps).day = snap.day
                            THEN Front(acc.snaps) ELSE acc.snaps, snap)]
  BY DEF TimelineStep
<1> HIDE DEF snap
<1> QED
  BY <1>2 DEF WithSnapshot, snap

\* The timeline is made of daily snapshots, and so are its balances those of the group.
LEMMA TimelineIsDaily ==
    ASSUME NEW w, NEW acts, Rows(acts)
    PROVE  LET q == BalanceEvents(acts)
               n == Cardinality(Replayed(acts))
           IN  /\ n \in Nat /\ DOMAIN q = 1..n
               /\ Daily(n, Values(w, q), Lines(w, q))
               /\ ComputeBalanceTimeline(w, acts) = Lines(w, q)[n]
               /\ \A k \in 0..n : Lines(w, q)[k] = After("timeline", w, q, k).snaps
               /\ \A k \in 1..n : Values(w, q)[k] =
                      [day |-> DayKey(q[k].date), balances |-> RoundBalance(Stage(w, q, k))]
               /\ ComputeGroupBalance(w, acts) = RoundBalance(Stage(w, q, n))
<1> DEFINE q == BalanceEvents(acts)
           n == Cardinality(Replayed(acts))
           A(k) == After("timeline", w, q, k)
           L == Lines(w, q)
           v == Values(w, q)
<1>1. /\ n \in Nat /\ DOMAIN q = 1..n
      /\ \A k \in 1..n : q[k] \in acts
      /\ \A j, k \in 1..n : j < k => Before(q[j], q[k])
  BY EventsAreRows
<1>2. Cardinality(DOMAIN q) = n
  <2> HIDE DEF n
  <2>1. Cardinality(1..n) = IF 1 > n THEN 0 ELSE n - 1 + 1
    BY <1>1, FS_Interval
  <2> QED
    BY <1>1, <2>1
<1>3. ComputeBalanceTimeline(w, acts) = A(n).snaps
  BY <1>1, TimelineIsFold DEF After
<1>4. ComputeGroupBalance(w, acts) = RoundBalance(Stage(w, q, n))
  BY <1>1, FloatBalancesIsStage DEF ComputeGroupBalance
<1>5. \A k \in 1..n : q[k].date \in Int
  BY <1>1 DEF Rows, Dated
<1> HIDE DEF q, n
<1>6. /\ A(0) = [bal |-> NoBalance(w), snaps |-> <<>>]
      /\ \A k \in 1..n : A(k) = TimelineStep(w, A(k - 1), q[k])
  <2>1. /\ A(0) = Start("timeline", w)
        /\ \A k \in 1..n : A(k) = Applied("timeline", w, A(k - 1), q[k])
    BY <1>1, AfterEach
  <2> HIDE DEF A
  <2> QED
    BY <2>1 DEF Start, Applied
<1>7. /\ Stage(w, q, 0) = NoBalance(w)
      /\ \A k \in 1..n : Stage(w, q, k) = ApplyEvent(w, Stage(w, q, k - 1), q[k])
  BY <1>1, StageByStage
<1> HIDE DEF A
<1> DEFINE G == {k \in Nat : k <= n => A(k).bal = Stage(w, q, k)}
<1>8. 0 \in G
  BY <1>6, <1>7
<1>9. ASSUME NEW k \in Nat, k \in G, k + 1 <= n
      PROVE  A(k + 1).bal = Stage(w, q, k + 1)
  <2>1. k + 1 \in 1..n /\ (k + 1) - 1 = k /\ k <= n
    BY <1>1, <1>9
  <2>2. A(k).bal = Stage(w, q, k)
    BY <1>9, <2>1
  <2>3. A(k + 1) = TimelineStep(w, A(k), q[k + 1])
    BY <1>6, <2>1
  <2>4. A(k + 1).bal = ApplyEvent(w, A(k).bal, q[k + 1])
    <3>1. \A acc, a : TimelineStep(w, acc, a).bal = ApplyEvent(w, acc.bal, a)
      BY StepIsDaily
    <3>2. TimelineStep(w, A(k), q[k + 1]).bal = ApplyEvent(w, A(k).bal, q[k + 1])
      BY <3>1
    <3> QED
      BY <2>3, <3>2
  <2> QED
    BY <1>7, <2>1, <2>2, <2>4
<1>10. \A k \in Nat : k \in G => k + 1 \in G
  BY <1>9
<1> HIDE DEF G
<1>11. \A k \in Nat : k \in G
  BY <1>8, <1>10, AllNumbers
<1>12. \A k \in 0..n : A(k).bal = Stage(w, q, k)
  BY <1>1, <1>11 DEF G
<1>13. \A k \in 0..n : L[k] = A(k).snaps
  BY <1>2 DEF Lines, A
<1>14. \A k \in 1..n : v[k] = [day |-> DayKey(q[k].date),
                               balances |-> RoundBalance(Stage(w, q, k))]
  BY <1>2 DEF Values
<1> HIDE DEF L, v
<1>15. ASSUME NEW k \in 1..n
       PROVE  L[k] = WithSnapshot(L[k - 1], v[k])
  <2>1. k - 1 \in 0..n /\ k \in 0..n
    BY <1>1
  <2>2. ApplyEvent(w, A(k - 1).bal, q[k]) = Stage(w, q, k)
    BY <1>7, <1>12, <2>1
  <2>3. A(k).snaps = WithSnapshot(A(k - 1).snaps, v[k])
    <3>1. A(k) = TimelineStep(w, A(k - 1), q[k])
      BY <1>6
    <3>2. A(k).snaps = WithSnapshot(A(k - 1).snaps,
              [day |-> DayKey(q[k].date),
               balances |-> RoundBalance(ApplyEvent(w, A(k - 1).bal, q[k]))])
      BY <3>1, StepIsDaily
    <3>3. v[k] = [day |-> DayKey(q[k].date), balances |-> RoundBalance(Stage(w, q, k))]
      BY <1>14
    <3> QED
      BY <2>2, <3>2, <3>3
  <2> QED
    BY <1>13, <2>1, <2>3
<1>16. L[0] = <<>>
  <2>1. 0 \in 0..n
    BY <1>1
  <2> QED
    BY <1>6, <1>13, <2>1
<1>17. \A k \in 1..n : v[k].day = DayKey(q[k].date) /\ v[k].day \in Int
  <2>1. ASSUME NEW k \in 1..n
        PROVE  v[k].day = DayKey(q[k].date) /\ v[k].day \in Int
    <3>1. v[k] = [day |-> DayKey(q[k].date), balances |-> RoundBalance(Stage(w, q, k))]
      BY <1>14
    <3>2. v[k].day = DayKey(q[k].date)
      BY <3>1
    <3>3. q[k].date \in Int
      BY <1>5
    <3> QED
      BY <3>2, <3>3, DayKeyIsMonotone
  <2> QED
    BY <2>1
<1>18. \A j, k \in 1..n : j < k => v[j].day <= v[k].day
  <2>1. ASSUME NEW j \in 1..n, NEW k \in 1..n, j < k
        PROVE  v[j].day <= v[k].day
    <3>1. q[j].date <= q[k].date
      BY <1>1, <1>5, <2>1 DEF Before
    <3>2. q[j].date \in Int /\ q[k].date \in Int
      BY <1>5
    <3>3. DayKey(q[j].date) <= DayKey(q[k].date)
      BY <3>1, <3>2, DayKeyIsMonotone
    <3> QED
      BY <1>17, <3>3
  <2> QED
    BY <2>1
<1>19. Daily(n, v, L)
  BY <1>15, <1>16, <1>17, <1>18 DEF Daily
<1>20. n \in 0..n
  BY <1>1
<1> QED
  BY <1>1, <1>3, <1>4, <1>13, <1>14, <1>19, <1>20 DEF q, n, L, v, A


\* The timeline has a snapshot for every day of activity, in order, and ends with the
\* balances of all events.
LEMMA TimelineIsInOrder ==
    ASSUME NEW w, NEW acts, Rows(acts)
    PROVE  LET line == ComputeBalanceTimeline(w, acts)
           IN  /\ Len(line) \in Nat /\ DOMAIN line = 1..Len(line)
               /\ line # <<>> => Len(line) # 0
               /\ \A k \in 1..Len(line) : line[k].day \in Int
               /\ \A h, k \in 1..Len(line) : h < k => line[h].day < line[k].day
               /\ {line[k].day : k \in DOMAIN line} =
                      {DayKey(a.date) : a \in Replayed(acts)}
               /\ Len(line) # 0 =>
                      line[Len(line)].balances = ComputeGroupBalance(w, acts)
<1> DEFINE q == BalanceEvents(acts)
           n == Cardinality(Replayed(acts))
           v == Values(w, q)
           line == ComputeBalanceTimeline(w, acts)
           V == {v[j] : j \in 1..n}
<1>1. /\ n \in Nat /\ DOMAIN q = 1..n
      /\ Daily(n, v, Lines(w, q))
      /\ line = Lines(w, q)[n]
      /\ \A k \in 1..n : v[k] =
             [day |-> DayKey(q[k].date), balances |-> RoundBalance(Stage(w, q, k))]
      /\ ComputeGroupBalance(w, acts) = RoundBalance(Stage(w, q, n))
  BY TimelineIsDaily
<1>2. /\ \A k \in 1..n : q[k] \in Replayed(acts)
      /\ \A a \in Replayed(acts) : \E k \in 1..n : q[k] = a
  BY EventsAreRows
<1> HIDE DEF q, n, v, line
<1>3. n \in 0..n /\ (n # 0 => n \in 1..n)
  BY <1>1
<1>4. Snapshots(n, v, line)
  BY <1>1, <1>3, DailyIsInOrder
<1>5. line \in Seq(V)
  BY <1>4 DEF Snapshots
<1>6. \A k \in 1..n : v[k].day \in Int /\ v[k].day = DayKey(q[k].date)
                      /\ v[k].balances = RoundBalance(Stage(w, q, k))
  <2>1. ASSUME NEW k \in 1..n
        PROVE  v[k].day = DayKey(q[k].date) /\ v[k].balances = RoundBalance(Stage(w, q, k))
    <3>1. v[k] = [day |-> DayKey(q[k].date), balances |-> RoundBalance(Stage(w, q, k))]
      BY <1>1
    <3> QED
      BY <3>1
  <2>2. \A k \in 1..n : v[k].day \in Int
    BY <1>1 DEF Daily
  <2> QED
    BY <2>1, <2>2
<1>7. \A e \in V : \E j \in 1..n : e = v[j]
  OBVIOUS
<1> HIDE DEF V
<1>8. Len(line) \in Nat /\ DOMAIN line = 1..Len(line) /\ \A k \in 1..Len(line) : line[k] \in V
  BY <1>5
<1>9. \A k \in 1..Len(line) : \E j \in 1..n : line[k] = v[j]
  BY <1>7, <1>8
<1>14. line # <<>> => Len(line) # 0
  BY <1>5
<1>10. \A h, k \in 1..Len(line) : h < k => line[h].day < line[k].day
  BY <1>4 DEF Snapshots
<1>11. \A j \in 1..n : \E i \in 1..Len(line) : line[i].day = v[j].day
  BY <1>4 DEF Snapshots
<1>12. {line[k].day : k \in DOMAIN line} = {DayKey(a.date) : a \in Replayed(acts)}
  <2>1. ASSUME NEW k \in 1..Len(line)
        PROVE  line[k].day \in {DayKey(a.date) : a \in Replayed(acts)}
    <3>1. PICK j \in 1..n : line[k] = v[j]
      BY <1>9
    <3>2. line[k].day = DayKey(q[j].date) /\ q[j] \in Replayed(acts)
      BY <1>2, <1>6, <3>1
    <3> QED
      BY <3>2
  <2>2. ASSUME NEW a \in Replayed(acts)
        PROVE  DayKey(a.date) \in {line[k].day : k \in DOMAIN line}
    <3>1. PICK j \in 1..n : a = q[j]
      BY <1>2
    <3>2. PICK i \in 1..Len(line) : line[i].day = v[j].day
      BY <1>11
    <3> QED
      BY <1>6, <1>8, <3>1, <3>2
  <2> QED
    BY <1>8, <2>1, <2>2
<1>13. ASSUME Len(line) # 0
       PROVE  line[Len(line)].balances = ComputeGroupBalance(w, acts)
  <2>1. n # 0
    <3>1. line # <<>>
      BY <1>5, <1>13
    <3> QED
      BY <1>4, <3>1 DEF Snapshots
  <2>2. line[Len(line)] = v[n]
    BY <1>4, <2>1 DEF Snapshots, Last
  <2> QED
    BY <1>1, <1>3, <1>6, <2>1, <2>2
<1> QED
  BY <1>6, <1>8, <1>9, <1>10, <1>12, <1>13, <1>14 DEF q, line

\* The timeline up to the evening of a day is the timeline of the rows dated up to it.
LEMMA TimelineOfPast ==
    ASSUME NEW w, NEW acts, Rows(acts), NEW day \in Int
    PROVE  LET line == ComputeBalanceTimeline(w, acts)
               old  == ComputeBalanceTimeline(w, UpTo(acts, day))
           IN  /\ Len(old) \in Nat /\ Len(line) \in Nat /\ Len(old) <= Len(line)
               /\ \A k \in 1..Len(old) : line[k] = old[k] /\ line[k].day <= day
               /\ \A k \in (Len(old) + 1)..Len(line) : line[k].day > day
<1> DEFINE q == BalanceEvents(acts)
           n == Cardinality(Replayed(acts))
           r == BalanceEvents(UpTo(acts, day))
           m == Cardinality(Replayed(UpTo(acts, day)))
           v == Values(w, q)
           L == Lines(w, q)
           line == ComputeBalanceTimeline(w, acts)
           old  == ComputeBalanceTimeline(w, UpTo(acts, day))
<1>1. /\ Rows(UpTo(acts, day)) /\ m \in 0..n
      /\ \A k \in 1..m : r[k] = q[k]
      /\ \A k \in 1..m : DayKey(q[k].date) <= day
      /\ \A k \in (m + 1)..n : DayKey(q[k].date) > day
  BY PastComesFirst
<1>2. /\ n \in Nat /\ DOMAIN q = 1..n
      /\ Daily(n, v, L) /\ line = L[n]
      /\ \A k \in 0..n : L[k] = After("timeline", w, q, k).snaps
      /\ \A k \in 1..n : v[k] =
             [day |-> DayKey(q[k].date), balances |-> RoundBalance(Stage(w, q, k))]
  BY TimelineIsDaily
<1>3. /\ DOMAIN r = 1..m /\ old = Lines(w, r)[m]
      /\ \A k \in 0..m : Lines(w, r)[k] = After("timeline", w, r, k).snaps
  BY <1>1, TimelineIsDaily
<1> HIDE DEF q, n, r, m, v, L, line, old
<1>4. m \in 0..m /\ n \in m..n /\ m \in Nat
  BY <1>1, <1>2
<1>5. After("timeline", w, r, m) = After("timeline", w, q, m)
  BY <1>1, <1>2, <1>3, <1>4, AfterPrefix
<1>6. old = L[m]
  BY <1>1, <1>2, <1>3, <1>4, <1>5
<1>7. ASSUME NEW k \in 1..n
      PROVE  v[k].day = DayKey(q[k].date)
  <2>1. v[k] = [day |-> DayKey(q[k].date), balances |-> RoundBalance(Stage(w, q, k))]
    BY <1>2
  <2> QED
    BY <2>1
<1>8. /\ \A j \in 1..m : v[j].day <= day
      /\ \A j \in (m + 1)..n : v[j].day > day
  <2>1. \A j \in 1..m : j \in 1..n
    BY <1>1, <1>2
  <2>2. \A j \in (m + 1)..n : j \in 1..n
    BY <1>1, <1>2
  <2> QED
    BY <1>1, <1>7, <2>1, <2>2
<1>9. /\ Len(L[m]) \in Nat /\ Len(L[n]) \in Nat /\ Len(L[m]) <= Len(L[n])
      /\ \A i \in 1..Len(L[m]) : L[n][i] = L[m][i] /\ L[m][i].day <= day
      /\ \A i \in (Len(L[m]) + 1)..Len(L[n]) : L[n][i].day > day
  BY <1>1, <1>2, <1>4, <1>8, DailyKeepsPast
<1>10. \A k \in 1..Len(old) : line[k] = old[k] /\ line[k].day <= day
  BY <1>2, <1>6, <1>9
<1>11. \A k \in (Len(old) + 1)..Len(line) : line[k].day > day
  BY <1>2, <1>6, <1>9
<1>12. Len(old) \in Nat /\ Len(line) \in Nat /\ Len(old) <= Len(line)
  BY <1>2, <1>6, <1>9
<1> QED
  BY <1>10, <1>11, <1>12 DEF line, old

\* Each snapshot is the balance of the rows up to its day.
LEMMA TimelineIsPast ==
    HInv => TimelineIsPastBalance
<1> SUFFICES ASSUME HInv
             PROVE  TimelineIsPastBalance
  OBVIOUS
<1> DEFINE line == ComputeBalanceTimeline(weights, actions)
<1>1. Rows(actions)
  BY HInvGivesRows
<1>2. /\ Len(line) \in Nat /\ DOMAIN line = 1..Len(line)
      /\ line # <<>> => Len(line) # 0
      /\ \A k \in 1..Len(line) : line[k].day \in Int
      /\ \A h, k \in 1..Len(line) : h < k => line[h].day < line[k].day
      /\ {line[k].day : k \in DOMAIN line} =
             {DayKey(a.date) : a \in Replayed(actions)}
      /\ Len(line) # 0 =>
             line[Len(line)].balances = ComputeGroupBalance(weights, actions)
  BY <1>1, TimelineIsInOrder
<1>3. ASSUME NEW k \in 1..Len(line)
      PROVE  line[k].balances = ComputeGroupBalance(weights, UpTo(actions, line[k].day))
  <2> DEFINE day == line[k].day
             old == ComputeBalanceTimeline(weights, UpTo(actions, day))
  <2>1. day \in Int
    BY <1>2
  <2>2. Rows(UpTo(actions, day))
    BY <1>1, <2>1, PastComesFirst
  <2>3. /\ Len(old) \in Nat /\ Len(line) \in Nat /\ Len(old) <= Len(line)
        /\ \A j \in 1..Len(old) : line[j] = old[j] /\ line[j].day <= day
        /\ \A j \in (Len(old) + 1)..Len(line) : line[j].day > day
    BY <1>1, <2>1, TimelineOfPast
  <2>4. Len(old) # 0 =>
            old[Len(old)].balances = ComputeGroupBalance(weights, UpTo(actions, day))
    BY <2>2, TimelineIsInOrder
  <2>5. line[k].day = day
    OBVIOUS
  <2> HIDE DEF line, old, day
  <2>6. k \in 1..Len(old)
    <3>1. CASE k > Len(old)
      <4>1. k \in (Len(old) + 1)..Len(line)
        BY <2>3, <3>1
      <4> QED
        BY <2>1, <2>3, <2>5, <4>1
    <3> QED
      BY <2>3, <3>1
  <2>7. k = Len(old)
    <3>1. CASE k < Len(old)
      <4>1. Len(old) \in 1..Len(old) /\ Len(old) \in 1..Len(line)
        BY <2>3, <3>1
      <4>2. line[k].day < line[Len(old)].day /\ line[Len(old)].day <= day
        BY <1>2, <2>3, <3>1, <4>1
      <4>3. line[Len(old)].day \in Int
        BY <1>2, <4>1
      <4> QED
        BY <2>1, <2>5, <4>2, <4>3
    <3> QED
      BY <2>3, <2>6, <3>1
  <2>8. line[k].balances = ComputeGroupBalance(weights, UpTo(actions, day))
    BY <2>3, <2>4, <2>6, <2>7
  <2> QED
    BY <2>5, <2>8
<1>4. \A day : {a \in actions : DayKey(a.date) <= day} = UpTo(actions, day)
  BY DEF UpTo
<1>5. \A k \in 1..Len(line) : k > 1 => line[k-1].day < line[k].day
  BY <1>2
<1>6. line # <<>> => Len(line) # 0 /\ Last(line) = line[Len(line)]
  BY <1>2 DEF Last
<1> HIDE DEF line
<1> QED
  BY <1>2, <1>3, <1>4, <1>5, <1>6 DEF TimelineIsPastBalance, line

\* Rows that differ only after a day have the same timeline up to it.
LEMMA PastStays ==
    ASSUME NEW w, NEW acts, Rows(acts), NEW later, Rows(later), NEW day \in Int,
           \A a \in SymDiff(acts, later) : DayKey(a.date) > day
    PROVE  LET Past(line) == Restrict(line, {k \in DOMAIN line : line[k].day <= day})
           IN  Past(ComputeBalanceTimeline(w, later)) = Past(ComputeBalanceTimeline(w, acts))
<1> DEFINE old == ComputeBalanceTimeline(w, UpTo(acts, day))
           Past(line) == Restrict(line, {k \in DOMAIN line : line[k].day <= day})
<1>1. UpTo(acts, day) = UpTo(later, day)
  <2>1. ASSUME NEW a \in UpTo(acts, day)
        PROVE  a \in UpTo(later, day)
    <3>1. a \in acts /\ DayKey(a.date) <= day
      BY DEF UpTo
    <3>2. DayKey(a.date) \in Int
      BY <3>1, DayKeyIsMonotone DEF Rows, Dated
    <3>3. a \notin SymDiff(acts, later)
      BY <3>1, <3>2
    <3> QED
      BY <3>1, <3>3 DEF UpTo, SymDiff
  <2>2. ASSUME NEW a \in UpTo(later, day)
        PROVE  a \in UpTo(acts, day)
    <3>1. a \in later /\ DayKey(a.date) <= day
      BY DEF UpTo
    <3>2. DayKey(a.date) \in Int
      BY <3>1, DayKeyIsMonotone DEF Rows, Dated
    <3>3. a \notin SymDiff(acts, later)
      BY <3>1, <3>2
    <3> QED
      BY <3>1, <3>3 DEF UpTo, SymDiff
  <2> QED
    BY <2>1, <2>2
<1>2. ASSUME NEW rows, Rows(rows), UpTo(rows, day) = UpTo(acts, day)
      PROVE  Past(ComputeBalanceTimeline(w, rows)) = [k \in 1..Len(old) |-> old[k]]
  <2> DEFINE line == ComputeBalanceTimeline(w, rows)
             P == {k \in DOMAIN line : line[k].day <= day}
  <2>1. /\ Len(old) \in Nat /\ Len(line) \in Nat /\ Len(old) <= Len(line)
        /\ \A k \in 1..Len(old) : line[k] = old[k] /\ line[k].day <= day
        /\ \A k \in (Len(old) + 1)..Len(line) : line[k].day > day
    BY <1>2, TimelineOfPast
  <2>2. DOMAIN line = 1..Len(line) /\ \A k \in 1..Len(line) : line[k].day \in Int
    BY <1>2, TimelineIsInOrder
  <2>3. Past(line) = Restrict(line, P)
    OBVIOUS
  <2> HIDE DEF line, old, Past
  <2>4. P = 1..Len(old)
    <3>1. ASSUME NEW k \in 1..Len(line), line[k].day <= day
          PROVE  k \in 1..Len(old)
      <4>1. CASE k > Len(old)
        <5>1. k \in (Len(old) + 1)..Len(line)
          BY <2>1, <4>1
        <5>2. line[k].day > day /\ line[k].day \in Int
          BY <2>1, <2>2, <5>1
        <5> QED
          BY <3>1, <5>2
      <4> QED
        BY <2>1, <4>1
    <3>2. \A k \in 1..Len(old) : k \in 1..Len(line)
      BY <2>1
    <3> QED
      BY <2>1, <2>2, <3>1, <3>2
  <2> HIDE DEF P
  <2>5. Restrict(line, P) = [k \in 1..Len(old) |-> old[k]]
    BY <2>1, <2>4 DEF Restrict
  <2> QED
    BY <2>3, <2>5 DEF line
<1> HIDE DEF old
<1> QED
  BY <1>1, <1>2

\* A step that touches only rows of later days leaves the timeline of the earlier ones.
LEMMA PastStaysInStep ==
    ASSUME HInv, HInv'
    PROVE  (weights' = weights /\ Ok /\ Ok') =>
               \A day \in {DayKey(d) : d \in Dates} :
                   (\A a \in SymDiff(actions, actions') : DayKey(a.date) > day) =>
                       LET Past(line) == Restrict(line, {k \in DOMAIN line : line[k].day <= day})
                       IN  Past(ComputeBalanceTimeline(weights, actions'))
                               = Past(ComputeBalanceTimeline(weights, actions))
<1>1. Rows(actions)
  BY HInvGivesRows
<1>2. Rows(actions')
  <2>1. /\ IsFiniteSet(actions') /\ clock' \in 0..MaxClock
        /\ \A a \in actions' : /\ a.id \in Ids /\ a.date \in Dates /\ a.createdAt \in 0..clock'
                               /\ Filled(a) /\ \A b \in actions' : a.id = b.id => a = b
    BY DEF HInv, TypeOK, Filled
  <2> QED
    BY <2>1, TypedRows
<1>3. \A day \in {DayKey(d) : d \in Dates} : day \in Int
  BY HistoryAssumption, DayKeyIsMonotone
<1> QED
  BY <1>1, <1>2, <1>3, PastStays

\* BalanceIsClosedSum, in every group: without conversions the order of the rows does not
\* matter, and nothing is rounded before the end.
THEOREM BalanceIsClosedSumHolds ==
    Spec => []BalanceIsClosedSum
<1> QED
  BY BalancesAreSums, HInvHolds, PTL

\* SpendingLinesUp, in every group: paid less share is the displayed balance to the cent.
THEOREM SpendingLinesUpHolds ==
    Spec => []SpendingLinesUp
<1> QED
  BY FiguresLineUp, HInvHolds, PTL

\* TimelineIsPastBalance, in every group: each snapshot of the timeline is the balance the
\* group had on the evening of its day, and the last one is its balance now.
THEOREM TimelineIsPastBalanceHolds ==
    Spec => []TimelineIsPastBalance
<1> QED
  BY TimelineIsPast, HInvHolds, PTL

\* PastIsStable, in every group: no step rewrites the timeline before the day of the row
\* it records, edits or deletes.
THEOREM PastIsStableHolds ==
    Spec => PastIsStable
<1>1. (HInv /\ HInv' /\ weights' = weights /\ Ok /\ Ok') =>
               \A day \in {DayKey(d) : d \in Dates} :
                   (\A a \in SymDiff(actions, actions') : DayKey(a.date) > day) =>
                       LET Past(line) == Restrict(line, {k \in DOMAIN line : line[k].day <= day})
                       IN  Past(ComputeBalanceTimeline(weights, actions'))
                               = Past(ComputeBalanceTimeline(weights, actions))
  BY PastStaysInStep
<1> QED
  BY <1>1, HInvHolds, PTL DEF PastIsStable

----------------------------------------------------------------------------
\* What a group spent

\* What the expenses that are read add to the spending in currency c.
Spent(c) ==
    [e \in GroupExpenses(actions) |-> IF e.currency = c THEN e.amount ELSE 0]

\* The first k of them.
ReadUntil(k) == {Sorted(GroupExpenses(actions))[j] : j \in 1..k}

\* A step of the spending timeline adds the snapshot of the totals it leads to.
LEMMA SpendingStepIsDaily ==
    ASSUME NEW acc, NEW e
    PROVE  LET total == [acc.total EXCEPT ![e.currency] = @ + e.amount]
           IN  /\ SpendingStep(acc, e).total = total
               /\ SpendingStep(acc, e).snaps =
                      WithSnapshot(acc.snaps, [day |-> DayKey(e.date), total |-> total])
<1> DEFINE total == [acc.total EXCEPT ![e.currency] = @ + e.amount]
           snap  == [day |-> DayKey(e.date), total |-> total]
<1>1. snap.day = DayKey(e.date)
  OBVIOUS
<1>2. SpendingStep(acc, e) =
          [total |-> total,
           snaps |-> Append(IF acc.snaps # <<>> /\ Last(acc.snaps).day = snap.day
                            THEN Front(acc.snaps) ELSE acc.snaps, snap)]
  BY DEF SpendingStep
<1> HIDE DEF snap, total
<1> QED
  BY <1>2 DEF WithSnapshot, snap, total

\* The spending timeline ends with the sum of the expenses that are read.
LEMMA SpendingIsSum ==
    ASSUME HInv, ComputeSpendingTimeline(actions) # <<>>
    PROVE  LET total == Last(ComputeSpendingTimeline(actions)).total
           IN  /\ total \in [Currencies -> Int]
               /\ \A c \in Currencies :
                      total[c] = SumFunctionOnSet(Spent(c), GroupExpenses(actions))
<1> DEFINE E == GroupExpenses(actions)
           q == Sorted(E)
           n == Cardinality(E)
           A(k) == After("spending", weights, q, k)
           v == [k \in 1..n |-> [day |-> DayKey(q[k].date), total |-> A(k).total]]
           L == [k \in 0..n |-> A(k).snaps]
           line == ComputeSpendingTimeline(actions)
<1>1. /\ IsFiniteSet(E) /\ Dated(E)
      /\ \A a \in E : a.currency \in Currencies /\ a.amount \in Int /\ a.date \in Int
  <2>1. E \in SUBSET actions /\ \A a \in E : a.kind = "expense"
    BY DEF GroupExpenses, Expenses
  <2>2. Rows(actions)
    BY HInvGivesRows
  <2>3. IsFiniteSet(E)
    BY <2>1, <2>2, FS_Subset DEF Rows, Dated
  <2>4. Dated(E)
    BY <2>1, <2>2, <2>3 DEF Rows, Dated
  <2>5. \A a \in E : a.currency \in Currencies /\ a.amount \in Int /\ a.date \in Int
    BY <2>1, <2>2 DEF Rows, Dated, Filled
  <2> QED
    BY <2>3, <2>4, <2>5
<1> HIDE DEF E
<1>2. /\ n \in Nat /\ DOMAIN q = 1..n
      /\ \A k \in 1..n : q[k] \in E
      /\ \A a \in E : /\ Cardinality(Below(E, a)) + 1 \in 1..n
                      /\ q[Cardinality(Below(E, a)) + 1] = a
      /\ \A j, k \in 1..n : j < k => q[j] # q[k] /\ Before(q[j], q[k])
  BY <1>1, SortedIsSorted
<1>3. line = A(n).snaps
  <2>1. line = (CHOOSE it : Replays("spending", weights, q, it))[DOMAIN q].snaps
    BY SpendingIsFold DEF E
  <2> HIDE DEF q, n, line
  <2> QED
    BY <1>2, <2>1 DEF After
<1> HIDE DEF q, n, line
<1>4. /\ A(0) = [total |-> [c \in Currencies |-> 0], snaps |-> <<>>]
      /\ \A k \in 1..n : A(k) = SpendingStep(A(k - 1), q[k])
  <2>1. /\ A(0) = Start("spending", weights)
        /\ \A k \in 1..n : A(k) = Applied("spending", weights, A(k - 1), q[k])
    BY <1>2, AfterEach
  <2> HIDE DEF A
  <2> QED
    BY <2>1 DEF Start, Applied
<1> HIDE DEF A
<1>5. ASSUME NEW k \in 1..n
      PROVE  /\ A(k).total = [A(k - 1).total EXCEPT ![q[k].currency] = @ + q[k].amount]
             /\ A(k).snaps = WithSnapshot(A(k - 1).snaps,
                                          [day |-> DayKey(q[k].date), total |-> A(k).total])
  <2>1. PICK acc, e : acc = A(k - 1) /\ e = q[k]
    OBVIOUS
  <2>2. /\ SpendingStep(acc, e).total = [acc.total EXCEPT ![e.currency] = @ + e.amount]
        /\ SpendingStep(acc, e).snaps =
               WithSnapshot(acc.snaps, [day |-> DayKey(e.date),
                   total |-> [acc.total EXCEPT ![e.currency] = @ + e.amount]])
    BY SpendingStepIsDaily
  <2>3. A(k) = SpendingStep(acc, e)
    BY <1>4, <2>1
  <2>4. A(k).total = [acc.total EXCEPT ![e.currency] = @ + e.amount]
    BY <2>2, <2>3
  <2> QED
    BY <2>1, <2>2, <2>3, <2>4
<1>6. Daily(n, v, L)
  <2>1. ASSUME NEW k \in 1..n
        PROVE  v[k].day = DayKey(q[k].date) /\ v[k].day \in Int
    <3>1. v[k] = [day |-> DayKey(q[k].date), total |-> A(k).total]
      OBVIOUS
    <3>2. q[k].date \in Int
      BY <1>1, <1>2
    <3> HIDE DEF v
    <3>3. v[k].day = DayKey(q[k].date)
      BY <3>1
    <3> QED
      BY <3>2, <3>3, DayKeyIsMonotone
  <2>2. ASSUME NEW j \in 1..n, NEW k \in 1..n, j < k
        PROVE  v[j].day <= v[k].day
    <3>1. q[j].date \in Int /\ q[k].date \in Int
      BY <1>1, <1>2
    <3>2. q[j].date <= q[k].date
      BY <1>2, <2>2, <3>1 DEF Before
    <3>3. DayKey(q[j].date) <= DayKey(q[k].date)
      BY <3>1, <3>2, DayKeyIsMonotone
    <3> HIDE DEF v
    <3> QED
      BY <2>1, <3>3
  <2>3. L[0] = <<>>
    <3>1. 0 \in 0..n
      BY <1>2
    <3> QED
      BY <1>4, <3>1
  <2>4. ASSUME NEW k \in 1..n
        PROVE  L[k] = WithSnapshot(L[k - 1], v[k])
    <3>1. k \in 0..n /\ k - 1 \in 0..n
      BY <1>2
    <3>2. L[k] = A(k).snaps /\ L[k - 1] = A(k - 1).snaps
      BY <3>1
    <3>3. v[k] = [day |-> DayKey(q[k].date), total |-> A(k).total]
      OBVIOUS
    <3> HIDE DEF v, L
    <3> QED
      BY <1>5, <3>2, <3>3
  <2> HIDE DEF v, L
  <2> QED
    BY <2>1, <2>2, <2>3, <2>4 DEF Daily
<1>7. n # 0 /\ Last(line).total = A(n).total
  <2>1. n \in 0..n
    BY <1>2
  <2>2. L[n] = line
    BY <1>3, <2>1
  <2>3. n # 0 => v[n].total = A(n).total
    <3>1. ASSUME n # 0
          PROVE  v[n].total = A(n).total
      <4>1. n \in 1..n
        BY <1>2, <3>1
      <4>2. v[n] = [day |-> DayKey(q[n].date), total |-> A(n).total]
        BY <4>1
      <4> HIDE DEF v
      <4> QED
        BY <4>2
    <3> QED
      BY <3>1
  <2> HIDE DEF v, L
  <2>4. Snapshots(n, v, L[n])
    BY <1>2, <1>6, <2>1, DailyIsInOrder
  <2>5. line # <<>>
    BY DEF line
  <2> QED
    BY <2>2, <2>3, <2>4, <2>5 DEF Snapshots
<1> DEFINE Typed == {k \in Nat : k <= n => A(k).total \in [Currencies -> Int]}
<1>8. \A k \in 0..n : A(k).total \in [Currencies -> Int]
  <2>1. 0 \in Typed
    BY <1>4
  <2>2. ASSUME NEW k \in Nat, k \in Typed, k + 1 <= n
        PROVE  A(k + 1).total \in [Currencies -> Int]
    <3>1. k + 1 \in 1..n /\ (k + 1) - 1 = k /\ k <= n
      BY <1>2, <2>2
    <3>2. A(k).total \in [Currencies -> Int]
      BY <2>2, <3>1
    <3>3. q[k + 1].currency \in Currencies /\ q[k + 1].amount \in Int
      BY <1>1, <1>2, <3>1
    <3>4. A(k + 1).total = [A(k).total EXCEPT ![q[k + 1].currency] = @ + q[k + 1].amount]
      BY <1>5, <3>1
    <3>5. \A f \in [Currencies -> Int], c \in Currencies, x \in Int :
              [f EXCEPT ![c] = @ + x] \in [Currencies -> Int]
      OBVIOUS
    <3>6. [A(k).total EXCEPT ![q[k + 1].currency] = @ + q[k + 1].amount] \in [Currencies -> Int]
      BY <3>2, <3>3, <3>5
    <3> QED
      BY <3>4, <3>6
  <2>3. \A k \in Nat : k \in Typed => k + 1 \in Typed
    BY <2>2
  <2> HIDE DEF Typed
  <2>4. \A k \in Nat : k \in Typed
    BY <2>1, <2>3, AllNumbers
  <2> QED
    BY <1>2, <2>4 DEF Typed
<1>9. ASSUME NEW c \in Currencies
      PROVE  A(n).total[c] = SumFunctionOnSet(Spent(c), E)
  <2> DEFINE g == Spent(c)
             G == {k \in Nat : k <= n => A(k).total[c] = SumFunctionOnSet(g, ReadUntil(k))}
  <2>1. \A a \in E : g[a] = (IF a.currency = c THEN a.amount ELSE 0) /\ g[a] \in Int
    BY <1>1 DEF Spent, E
  <2>2. \A k : ReadUntil(k) = {q[j] : j \in 1..k}
    BY DEF ReadUntil, q, E
  <2> HIDE DEF g
  <2>3. ReadUntil(0) = {} /\ A(0).total[c] = 0
    BY <1>4, <2>2
  <2>4. 0 \in G
    BY <2>3, SumPick, FS_EmptySet
  <2>5. ASSUME NEW k \in Nat, k \in G, k + 1 <= n
        PROVE  A(k + 1).total[c] = SumFunctionOnSet(g, ReadUntil(k + 1))
    <3> DEFINE a == q[k + 1]
    <3>1. k + 1 \in 1..n /\ k \in 0..n /\ (k + 1) - 1 = k /\ k <= n /\ 1..k \subseteq 1..n
      BY <1>2, <2>5
    <3>2. a \in E /\ A(k).total \in [Currencies -> Int]
      BY <1>2, <1>8, <3>1
    <3>3. A(k).total[c] = SumFunctionOnSet(g, ReadUntil(k))
      BY <2>5, <3>1
    <3>4. A(k + 1).total = [A(k).total EXCEPT ![a.currency] = @ + a.amount]
      BY <1>5, <3>1
    <3>5. 1..(k + 1) = (1..k) \cup {k + 1} /\ k + 1 \notin 1..k
      OBVIOUS
    <3>6. ReadUntil(k + 1) = ReadUntil(k) \cup {a} /\ ReadUntil(k) \subseteq E
      BY <1>2, <2>2, <3>1, <3>5
    <3>7. a \notin ReadUntil(k)
      <4>1. \A j \in 1..k : j \in 1..n /\ j < k + 1
        BY <3>1
      <4>2. \A j \in 1..k : q[j] # a
        BY <1>2, <3>1, <4>1
      <4> QED
        BY <2>2, <4>2
    <3> HIDE DEF a
    <3>8. A(k + 1).total[c] = A(k).total[c] + g[a]
      <4>1. a.amount \in Int /\ a.currency \in Currencies /\ A(k).total[c] \in Int
        BY <1>1, <3>2
      <4> QED
        BY <2>1, <3>2, <3>4, <4>1
    <3>9. ReadUntil(k + 1) \in SUBSET E /\ a \in ReadUntil(k + 1)
          /\ ReadUntil(k + 1) \ {a} = ReadUntil(k)
      BY <3>2, <3>6, <3>7
    <3>10. IsFiniteSet(ReadUntil(k + 1)) /\ \A b \in ReadUntil(k + 1) : g[b] \in Int
      BY <1>1, <2>1, <3>9, FS_Subset
    <3>11. /\ SumFunctionOnSet(g, ReadUntil(k + 1)) = g[a] + SumFunctionOnSet(g, ReadUntil(k))
           /\ SumFunctionOnSet(g, ReadUntil(k)) \in Int
      BY <3>9, <3>10, SumRemove
    <3>12. g[a] \in Int
      BY <2>1, <3>2
    <3> QED
      BY <3>3, <3>8, <3>11, <3>12
  <2>6. \A k \in Nat : k \in G => k + 1 \in G
    BY <2>5
  <2> HIDE DEF G
  <2>7. n \in G
    BY <1>2, <2>4, <2>6, AllNumbers
  <2>8. A(n).total[c] = SumFunctionOnSet(g, ReadUntil(n))
    BY <1>2, <2>7 DEF G
  <2>9. ReadUntil(n) = E
    <3>1. \A a \in E : a \in {q[j] : j \in 1..n}
      BY <1>2
    <3>2. \A a \in {q[j] : j \in 1..n} : a \in E
      BY <1>2
    <3> QED
      BY <2>2, <3>1, <3>2
  <2> QED
    BY <2>8, <2>9 DEF g
<1>10. n \in 0..n
  BY <1>2
<1>11. A(n).total \in [Currencies -> Int]
  BY <1>8, <1>10
<1> QED
  BY <1>7, <1>9, <1>11 DEF line, E

\* The total spending, the end of the spending timeline and what people paid agree.
LEMMA PaidIsSpent ==
    HInv => SpendingAgrees
<1> SUFFICES ASSUME HInv, GroupExpenses(actions) = Expenses(actions)
             PROVE  SpendingAgrees
  BY DEF SpendingAgrees
<1> DEFINE E == Expenses(actions)
           F(c) == {e \in E : e.currency = c}
           f(c) == [e \in F(c) |-> e.amount]
           payers == {e.payer : e \in E}
           line == ComputeSpendingTimeline(actions)
           Paid(c) == [u \in payers |-> ComputeMemberSpending(weights, actions, u).paid[c]]
<1>1. IsFiniteSet(E) /\ \A e \in E : e.amount \in Int
  <2>1. E \in SUBSET actions /\ \A a \in E : a.kind = "expense"
    BY DEF Expenses
  <2>2. Rows(actions)
    BY HInvGivesRows
  <2>3. IsFiniteSet(E)
    BY <2>1, <2>2, FS_Subset DEF Rows, Dated
  <2> QED
    BY <2>1, <2>2, <2>3 DEF Rows, Filled
<1>2. IsFiniteSet(payers)
  <2> DEFINE payer == [e \in E |-> e.payer]
  <2>1. payer \in Surjection(E, payers)
    BY DEF Surjection
  <2> HIDE DEF payer, payers, E
  <2> QED
    BY <1>1, <2>1, FS_Surjection
<1>3. ASSUME NEW c \in Currencies
      PROVE  /\ F(c) \in SUBSET E /\ IsFiniteSet(F(c))
             /\ \A e \in F(c) : f(c)[e] = e.amount /\ f(c)[e] \in Int
             /\ TotalSpending(actions)[c] = SumFunctionOnSet(f(c), F(c))
  <2>1. F(c) \in SUBSET E
    OBVIOUS
  <2>2. IsFiniteSet(F(c))
    BY <1>1, <2>1, FS_Subset
  <2>3. TotalSpending(actions)[c] = SumFunctionOnSet(f(c), F(c))
    BY DEF TotalSpending, SumFunction
  <2> QED
    BY <1>1, <2>1, <2>2, <2>3
<1>4. ASSUME NEW c \in Currencies
      PROVE  SumFunctionOnSet(Spent(c), E) = SumFunctionOnSet(f(c), F(c))
  <2> DEFINE g == Spent(c)
  <2>1. \A e \in E : g[e] = IF e.currency = c THEN e.amount ELSE 0
    BY DEF Spent
  <2>2. \A e \in E : g[e] \in Int
    BY <1>1, <2>1
  <2>3. \A e \in E \ F(c) : g[e] = 0
    BY <2>1
  <2>4. \A e \in F(c) : g[e] \in Int /\ g[e] = f(c)[e]
    BY <1>3, <2>1, <2>2
  <2> HIDE DEF g, F, f, E
  <2>5. SumFunctionOnSet(g, E) = SumFunctionOnSet(g, F(c))
    BY <1>1, <1>3, <2>2, <2>3, SumSubset
  <2>6. SumFunctionOnSet(g, F(c)) = SumFunctionOnSet(f(c), F(c))
    BY <1>3, <2>4, SumSame
  <2> QED
    BY <2>5, <2>6 DEF g
<1>5. ASSUME line # <<>>
      PROVE  Last(line).total = TotalSpending(actions)
  <2> DEFINE total == Last(line).total
  <2>1. /\ total \in [Currencies -> Int]
        /\ \A c \in Currencies : total[c] = SumFunctionOnSet(Spent(c), E)
    BY <1>5, SpendingIsSum
  <2>2. DOMAIN TotalSpending(actions) = Currencies
        /\ TotalSpending(actions) = [c \in Currencies |-> TotalSpending(actions)[c]]
    BY DEF TotalSpending
  <2> HIDE DEF total, F, f, E, line
  <2>3. \A c \in Currencies : total[c] = TotalSpending(actions)[c]
    BY <1>3, <1>4, <2>1
  <2> QED
    BY <2>1, <2>2, <2>3 DEF total
<1>6. ASSUME NEW c \in Currencies
      PROVE  TotalSpending(actions)[c] = SumFunctionOnSet(Paid(c), payers)
  <2> DEFINE key == [e \in F(c) |-> e.payer]
             part == [u \in payers |-> [e \in F(c) |-> IF e.payer = u THEN e.amount ELSE 0]]
             total == Paid(c)
  <2>1. \A u \in payers : total[u] = SumFunctionOnSet(part[u], F(c))
    BY DEF ComputeMemberSpending, SumFunction
  <2>2. \A u \in payers, e \in F(c) : part[u][e] = IF key[e] = u THEN f(c)[e] ELSE 0
    OBVIOUS
  <2>3. \A e \in F(c) : key[e] \in payers
    OBVIOUS
  <2> HIDE DEF key, part, total, F, f, E, payers
  <2>4. SumFunctionOnSet(total, payers) = SumFunctionOnSet(f(c), F(c))
    <3>1. PICK h, S : h = f(c) /\ S = F(c)
      OBVIOUS
    <3>2. IsFiniteSet(S) /\ \A e \in S : h[e] \in Int /\ key[e] \in payers
      BY <1>3, <2>3, <3>1
    <3>3. \A u \in payers, e \in S : part[u][e] = IF key[e] = u THEN h[e] ELSE 0
      BY <2>2, <3>1
    <3>4. \A u \in payers : total[u] = SumFunctionOnSet(part[u], S)
      BY <2>1, <3>1
    <3>5. SumFunctionOnSet(total, payers) = SumFunctionOnSet(h, S)
      BY <1>2, <3>2, <3>3, <3>4, SumByKey
    <3> QED
      BY <3>1, <3>5
  <2> QED
    BY <1>3, <2>4 DEF total
<1>7. \A c : SumFunction(Paid(c)) = SumFunctionOnSet(Paid(c), payers)
  BY DEF SumFunction
<1> HIDE DEF line, f, F
<1> QED
  BY <1>5, <1>6, <1>7 DEF SpendingAgrees, line

\* SpendingAgrees, in every group: the spending timeline ends with the total spending, and
\* the total spending is what people paid.
THEOREM SpendingAgreesHolds ==
    Spec => []SpendingAgrees
<1> QED
  BY PaidIsSpent, HInvHolds, PTL
=============================================================================
