---------------------------- MODULE Amount_proofs -----------------------------
(* The amount field: whatever is typed and however the form is reset, what   *)
(* is on the screen is what would be sent. The heart of it is that the       *)
(* parser gives a calculation of any length the meaning that it has by       *)
(* splitting it at its operators.                                            *)
EXTENDS AmountField, Sums_proofs

-----------------------------------------------------------------------------
\* Numbers

\* A set of numbers with a bound has a greatest one.
LEMMA GreatestMember ==
    ASSUME NEW S, NEW b \in Nat, S # {}, S \subseteq 0..b
    PROVE  \E k \in S : \A l \in S : l <= k
<1> DEFINE U == {n \in Nat : \A l \in S : l <= n}
<1>1. b \in U
  OBVIOUS
<1>2. PICK n \in U : \A k \in U : n <= k
  BY <1>1, LeastMember
<1>3. n \in S
  <2> SUFFICES ASSUME n \notin S PROVE FALSE
    OBVIOUS
  <2>1. \A l \in S : l \in Nat /\ l <= n /\ l # n
    OBVIOUS
  <2>2. PICK l \in S : TRUE
    OBVIOUS
  <2>3. n - 1 \in Nat
    BY <2>1, <2>2
  <2>4. \A k \in S : k <= n - 1
    BY <2>1
  <2> QED
    BY <1>2, <2>3, <2>4
<1> QED
  BY <1>3

\* A fraction in lowest terms is a fraction.
LEMMA LowestIsFraction ==
    ASSUME NEW n \in Nat, NEW d \in Nat \ {0}
    PROVE  Lowest(n, d) \in Nat \X (Nat \ {0})
<1> DEFINE S == {k \in 1..d : Divides(k, n) /\ Divides(k, d)}
           Greatest(k) == /\ Divides(k, n) /\ Divides(k, d)
                          /\ \A j \in (k + 1)..d : ~(Divides(j, n) /\ Divides(j, d))
           c == CHOOSE k \in 1..d : Greatest(k)
<1>1. 1 \in S
  BY DEF Divides
<1>2. PICK k \in S : \A l \in S : l <= k
  <2>1. S \subseteq 0..d /\ d \in Nat
    OBVIOUS
  <2> HIDE DEF S
  <2> QED
    BY <1>1, <2>1, GreatestMember
<1>3. Greatest(k) /\ k \in 1..d
  BY <1>2
<1>4. c \in 1..d /\ Greatest(c)
  BY <1>3
<1> HIDE DEF c
<1>5. d % c = 0 /\ n % c = 0
  BY <1>4 DEF Divides
<1>6. n \div c \in Nat
  BY <1>4
<1>7. d \div c \in Nat \ {0}
  <2>1. d \div c \in Int /\ d = (c * (d \div c)) + (d % c)
    BY <1>4
  <2>2. d \div c # 0
    BY <2>1, <1>5, <1>4
  <2>3. d \div c \in Nat
    BY <1>4
  <2> QED
    BY <2>2, <2>3
<1>8. Lowest(n, d) = <<n \div c, d \div c>>
  BY DEF Lowest, c
<1> QED
  BY <1>6, <1>7, <1>8

\* What Number makes of a sign and a fraction is a number.
LEMMA NumberIsNumber ==
    ASSUME NEW s \in {-1, 1}, NEW n \in Nat, NEW d \in Nat \ {0}
    PROVE  Number(s, n, d) \in Numbers
  BY LowestIsFraction DEF Number, Numbers

\* NaN is told apart from the numbers.
LEMMA NaNIsNoNumber == NaN \notin Numbers
  BY DEF NaN, Numbers

\* The negative of a number is a number.
LEMMA NegatedIsNumber ==
    ASSUME NEW x \in Numbers
    PROVE  Negated(x) \in Numbers
  BY DEF Negated, Numbers

\* The arithmetic of the calculator stays within its numbers.
LEMMA ApplyIsValue ==
    ASSUME NEW op \in Operators, NEW x \in Values, NEW y \in Values
    PROVE  Apply(op, x, y) \in Values
<1>1. CASE x = NaN \/ y = NaN
  BY <1>1 DEF Apply, Values
<1>2. CASE x # NaN /\ y # NaN
  <2>1. x \in Numbers /\ y \in Numbers
    BY <1>2 DEF Values
  <2>2. \A u, w \in Numbers : Plus(u, w) \in Numbers
    <3> TAKE u, w \in Numbers
    <3>1. /\ u.sign \in {-1, 1} /\ u.frac[1] \in Nat /\ u.frac[2] \in Nat \ {0}
          /\ w.sign \in {-1, 1} /\ w.frac[1] \in Nat /\ w.frac[2] \in Nat \ {0}
      BY DEF Numbers
    <3> DEFINE n == u.sign * u.frac[1] * w.frac[2] + w.sign * w.frac[1] * u.frac[2]
               s == IF n # 0 THEN IF n < 0 THEN -1 ELSE 1
                    ELSE IF u.frac[1] = 0 /\ u.sign = w.sign THEN u.sign ELSE 1
    <3>2. n \in Int
      BY <3>1
    <3>3. u.frac[2] * w.frac[2] \in Nat \ {0}
      BY <3>1
    <3>4. Abs(n) \in Nat
      BY <3>2 DEF Abs
    <3>5. s \in {-1, 1}
      BY <3>1
    <3> HIDE DEF n
    <3>6. Number(s, Abs(n), u.frac[2] * w.frac[2]) \in Numbers
      BY <3>3, <3>4, <3>5, NumberIsNumber
    <3> QED
      BY <3>6 DEF Plus, n
  <2>3. Times(x, y) \in Numbers
    <3>1. /\ x.sign * y.sign \in {-1, 1} /\ x.frac[1] * y.frac[1] \in Nat
          /\ x.frac[2] * y.frac[2] \in Nat \ {0}
      BY <2>1 DEF Numbers
    <3> QED
      BY <3>1, NumberIsNumber DEF Times
  <2>4. ~IsZero(y) => Over(x, y) \in Numbers
    <3> HAVE ~IsZero(y)
    <3>1. /\ x.sign * y.sign \in {-1, 1} /\ x.frac[1] * y.frac[2] \in Nat
          /\ x.frac[2] * y.frac[1] \in Nat \ {0}
      BY <2>1 DEF Numbers, IsZero
    <3> QED
      BY <3>1, NumberIsNumber DEF Over
  <2>5. Plus(x, y) \in Numbers /\ Plus(x, Negated(y)) \in Numbers
    BY <2>1, <2>2, NegatedIsNumber
  <2> QED
    BY <1>2, <2>3, <2>4, <2>5 DEF Apply, Operators, Values
<1> QED
  BY <1>1, <1>2

\* What is thrown on one side of an operator is thrown by the whole.
LEMMA ApplyToNaN ==
    ASSUME NEW op, NEW x, NEW y, Apply(op, x, y) # NaN, op \in Operators
    PROVE  x # NaN /\ y # NaN
  BY DEF Apply, Operators

-----------------------------------------------------------------------------
\* tokenize

\* The recursion of Fractions.
Reads(run, f) ==
  f = [i \in 0..Len(run) |->
        IF i = 0 THEN <<0, 1>>
        ELSE IF ~Significant(run, i) THEN f[i - 1]
        ELSE <<10 * f[i - 1][1] + DigitOf(run[i]),
               IF Points(run, i) = {} THEN f[i - 1][2] ELSE 10 * f[i - 1][2]>>]

\* The digits read so far are given by a function of the position: induction over it.
LEMMA FractionsRead ==
    ASSUME NEW C, NEW run \in Seq(C)
    PROVE  Reads(run, Fractions(run))
<1> DEFINE Step(f, i) == IF i = 0 THEN <<0, 1>>
                         ELSE IF ~Significant(run, i) THEN f[i - 1]
                         ELSE <<10 * f[i - 1][1] + DigitOf(run[i]),
                                IF Points(run, i) = {} THEN f[i - 1][2] ELSE 10 * f[i - 1][2]>>
           G == {m \in Nat : \E f : f = [i \in 0..m |-> Step(f, i)]}
<1>1. 0 \in G
  <2> DEFINE f == [i \in 0..0 |-> <<0, 1>>]
  <2>1. f = [i \in 0..0 |-> Step(f, i)]
    OBVIOUS
  <2> QED
    BY <2>1
<1>2. ASSUME NEW m \in Nat, m \in G
      PROVE  m + 1 \in G
  <2>1. PICK f : f = [i \in 0..m |-> Step(f, i)]
    BY <1>2
  <2> DEFINE g == [i \in 0..(m + 1) |-> Step(f, i)]
  <2>2. \A i \in 0..m : g[i] = f[i]
    <3> TAKE i \in 0..m
    <3>1. f[i] = Step(f, i)
      BY <2>1
    <3> QED
      BY <3>1
  <2>3. \A i \in 0..(m + 1) : Step(g, i) = Step(f, i)
    <3> TAKE i \in 0..(m + 1)
    <3>1. i # 0 => i - 1 \in 0..m
      OBVIOUS
    <3> HIDE DEF g
    <3> QED
      BY <2>2, <3>1
  <2>4. g = [i \in 0..(m + 1) |-> Step(g, i)]
    <3> HIDE DEF Step
    <3> QED
      BY <2>3
  <2> HIDE DEF g, Step
  <2>5. \E h : h = [i \in 0..(m + 1) |-> Step(h, i)]
    BY <2>4
  <2> QED
    BY <2>5
<1> HIDE DEF G
<1>3. Len(run) \in G
  BY <1>1, <1>2, AllNumbers
<1>4. PICK f : f = [i \in 0..Len(run) |-> Step(f, i)]
  BY <1>3 DEF G
<1>5. Reads(run, f)
  BY <1>4 DEF Reads
<1>6. Fractions(run) = CHOOSE h : Reads(run, h)
  BY DEF Fractions, Reads
<1> QED
  BY <1>5, <1>6

\* What is read is a fraction, whatever digits and points follow each other.
LEMMA FractionsAreFractions ==
    ASSUME NEW C, NEW run \in Seq(C)
    PROVE  \A i \in 0..Len(run) : Fractions(run)[i] \in Nat \X (Nat \ {0})
<1> DEFINE f == Fractions(run)
           G == {i \in Nat : i <= Len(run) => f[i] \in Nat \X (Nat \ {0})}
<1>1. Reads(run, f)
  BY FractionsRead
<1> HIDE DEF f
<1>2. 0 \in G
  BY <1>1 DEF Reads
<1>3. ASSUME NEW i \in Nat, i \in G
      PROVE  i + 1 \in G
  <2> SUFFICES ASSUME i + 1 <= Len(run)
               PROVE  f[i + 1] \in Nat \X (Nat \ {0})
    OBVIOUS
  <2>1. f[i] \in Nat \X (Nat \ {0})
    BY <1>3
  <2>2. /\ ~Significant(run, i + 1) => f[i + 1] = f[i]
        /\ Significant(run, i + 1) =>
             f[i + 1] = <<10 * f[i][1] + DigitOf(run[i + 1]),
                          IF Points(run, i + 1) = {} THEN f[i][2] ELSE 10 * f[i][2]>>
    <3>1. i + 1 \in 0..Len(run) /\ i + 1 # 0 /\ (i + 1) - 1 = i
      OBVIOUS
    <3> QED
      BY <1>1, <3>1 DEF Reads
  <2>3. Significant(run, i + 1) => DigitOf(run[i + 1]) \in 0..9
    BY DEF Significant, IsDigit, DigitOf
  <2>4. f[i][1] \in Nat /\ f[i][2] \in Nat \ {0}
    BY <2>1
  <2>5. CASE Significant(run, i + 1)
    <3> DEFINE n == 10 * f[i][1] + DigitOf(run[i + 1])
               d == IF Points(run, i + 1) = {} THEN f[i][2] ELSE 10 * f[i][2]
    <3>1. n \in Nat
      <4>1. \A a \in Nat, c \in 0..9 : 10 * a + c \in Nat
        OBVIOUS
      <4> QED
        BY <2>3, <2>4, <2>5, <4>1
    <3>2. d \in Nat \ {0}
      BY <2>4
    <3>3. f[i + 1] = <<n, d>>
      BY <2>2, <2>5
    <3> HIDE DEF n, d
    <3> QED
      BY <3>1, <3>2, <3>3
  <2> QED
    BY <2>1, <2>2, <2>5
<1> HIDE DEF G
<1>4. \A i \in Nat : i \in G
  BY <1>2, <1>3, AllNumbers
<1> QED
  BY <1>4 DEF G, f

\* parseFloat returns a number or NaN.
LEMMA parseFloatIsValue ==
    ASSUME NEW C, NEW run \in Seq(C)
    PROVE  parseFloat(run) \in Values
<1>1. Len(run) \in 0..Len(run)
  OBVIOUS
<1>2. Fractions(run)[Len(run)] \in Nat \X (Nat \ {0})
  BY <1>1, FractionsAreFractions
<1>3. Number(1, Fractions(run)[Len(run)][1], Fractions(run)[Len(run)][2]) \in Numbers
  BY <1>2, NumberIsNumber
<1> QED
  BY <1>3 DEF parseFloat, Values

Tokens == [t : Operators \cup {"(", ")", "bad"}] \cup [t : {"number"}, v : Numbers]

\* A number that is read makes a token.
LEMMA NumberTokenIsToken ==
    ASSUME NEW v \in Values
    PROVE  NumberToken(v) \in Tokens
  BY DEF NumberToken, Tokens, Values

\* A run of digits and points ends within the text.
LEMMA RunEnds ==
    ASSUME NEW C, NEW text \in Seq(C), NEW i \in 1..Len(text), InNumber(text[i])
    PROVE  RunEnd(text, i) \in i..Len(text)
<1> DEFINE S == {k \in i..Len(text) : \A l \in i..k : InNumber(text[l])}
           Ends(k) == /\ \A l \in i..k : InNumber(text[l])
                      /\ k < Len(text) => ~InNumber(text[k + 1])
<1>1. i \in S
  OBVIOUS
<1>2. PICK k \in S : \A l \in S : l <= k
  <2>1. S \subseteq 0..Len(text) /\ Len(text) \in Nat
    OBVIOUS
  <2> HIDE DEF S
  <2> QED
    BY <1>1, <2>1, GreatestMember
<1>3. Ends(k)
  <2>1. ASSUME k < Len(text), InNumber(text[k + 1])
        PROVE  FALSE
    <3>1. k + 1 \in S
      <4>1. \A l \in i..(k + 1) : l \in i..k \/ l = k + 1
        OBVIOUS
      <4> QED
        BY <2>1, <4>1
    <3> QED
      BY <1>2, <3>1
  <2> QED
    BY <2>1
<1>4. \E m \in i..Len(text) : Ends(m)
  BY <1>3
<1>5. RunEnd(text, i) = CHOOSE m \in i..Len(text) : Ends(m)
  BY DEF RunEnd
<1> HIDE DEF Ends
<1> QED
  BY <1>4, <1>5

\* The recursion of tokenize.
From(text, f, i) ==
  IF i > Len(text) THEN <<>>
  ELSE IF text[i] \in Operators \cup {"(", ")"}
       THEN <<[t |-> text[i]]>> \o f[i + 1]
  ELSE IF InNumber(text[i])
       THEN <<NumberToken(parseFloat(SubSeq(text, i, RunEnd(text, i))))>>
              \o f[RunEnd(text, i) + 1]
  ELSE <<[t |-> "bad"]>>

Tokenizes(text, f) == f = [i \in 1..(Len(text) + 1) |-> From(text, f, i)]

\* tokenize is defined for every text: each token begins after the one before.
LEMMA TokenizerExists ==
    ASSUME NEW C, NEW text \in Seq(C)
    PROVE  \E f : Tokenizes(text, f)
<1> DEFINE n == Len(text)
           D(m) == {i \in 1..(n + 1) : i + m > n}
           G == {m \in Nat : \E f : f = [i \in D(m) |-> From(text, f, i)]}
<1>1. 0 \in G
  <2> DEFINE f == [i \in D(0) |-> <<>>]
  <2>1. \A i \in D(0) : i > Len(text)
    OBVIOUS
  <2>2. f = [i \in D(0) |-> From(text, f, i)]
    BY <2>1 DEF From
  <2> HIDE DEF f
  <2> QED
    BY <2>2
<1>2. ASSUME NEW m \in Nat, m \in G
      PROVE  m + 1 \in G
  <2>1. PICK f : f = [i \in D(m) |-> From(text, f, i)]
    BY <1>2
  <2> DEFINE g == [i \in D(m + 1) |-> From(text, f, i)]
  <2>2. \A i \in D(m) : g[i] = f[i]
    <3> TAKE i \in D(m)
    <3>1. f[i] = From(text, f, i)
      BY <2>1
    <3>2. i \in D(m + 1)
      OBVIOUS
    <3> HIDE DEF D
    <3> QED
      BY <3>1, <3>2
  <2>3. \A i \in D(m + 1) : From(text, g, i) = From(text, f, i)
    <3> TAKE i \in D(m + 1)
    <3>1. CASE i > n
      BY <3>1 DEF From
    <3>2. CASE i <= n
      <4>1. i + 1 \in D(m)
        BY <3>2
      <4>2. InNumber(text[i]) => RunEnd(text, i) + 1 \in D(m)
        <5> HAVE InNumber(text[i])
        <5>1. RunEnd(text, i) \in i..n
          BY <3>2, RunEnds
        <5> QED
          BY <5>1
      <4>3. g[i + 1] = f[i + 1]
        BY <2>2, <4>1
      <4>4. InNumber(text[i]) => g[RunEnd(text, i) + 1] = f[RunEnd(text, i) + 1]
        BY <2>2, <4>2
      <4> HIDE DEF g
      <4> QED
        BY <4>3, <4>4 DEF From
    <3> QED
      BY <3>1, <3>2
  <2>4. g = [i \in D(m + 1) |-> From(text, g, i)]
    BY <2>3
  <2> HIDE DEF g, D
  <2>5. \E h : h = [i \in D(m + 1) |-> From(text, h, i)]
    BY <2>4
  <2> QED
    BY <2>5
<1> HIDE DEF G
<1>3. n \in G
  BY <1>1, <1>2, AllNumbers
<1>4. D(n) = 1..(n + 1)
  OBVIOUS
<1> HIDE DEF D
<1>5. PICK f : f = [i \in D(n) |-> From(text, f, i)]
  BY <1>3 DEF G
<1>6. Tokenizes(text, f)
  BY <1>4, <1>5 DEF Tokenizes
<1> QED
  BY <1>6

\* What tokenize returns is a sequence of tokens.
LEMMA tokenizeGivesTokens ==
    ASSUME NEW C, NEW text \in Seq(C)
    PROVE  tokenize(text) \in Seq(Tokens)
<1> DEFINE n == Len(text)
           f == CHOOSE f : Tokenizes(text, f)
           G == {m \in Nat : \A i \in 1..(n + 1) : i + m > n => f[i] \in Seq(Tokens)}
<1>1. Tokenizes(text, f)
  BY TokenizerExists
<1>2. tokenize(text) = f[1]
  BY DEF tokenize, Tokenizes, From
<1> HIDE DEF f
<1>3. \A i \in 1..(n + 1) : f[i] = From(text, f, i)
  BY <1>1 DEF Tokenizes
<1>4. 0 \in G
  <2> SUFFICES ASSUME NEW i \in 1..(n + 1), i + 0 > n
               PROVE  f[i] \in Seq(Tokens)
    OBVIOUS
  <2>1. i > n /\ f[i] = From(text, f, i)
    BY <1>3
  <2>2. f[i] = <<>>
    BY <2>1 DEF From
  <2> QED
    BY <2>2
<1>5. ASSUME NEW m \in Nat, m \in G
      PROVE  m + 1 \in G
  <2> SUFFICES ASSUME NEW i \in 1..(n + 1), i + (m + 1) > n
               PROVE  f[i] \in Seq(Tokens)
    OBVIOUS
  <2>0. f[i] = From(text, f, i)
    BY <1>3
  <2>1. CASE i > n
    <3>1. f[i] = <<>>
      BY <2>0, <2>1 DEF From
    <3> QED
      BY <3>1
  <2>2. CASE i <= n
    <3>1. f[i + 1] \in Seq(Tokens)
      BY <1>5, <2>2
    <3>2. \A c \in Operators \cup {"(", ")", "bad"} : [t |-> c] \in Tokens
      BY DEF Tokens
    <3>3. CASE text[i] \in Operators \cup {"(", ")"}
      <4>1. f[i] = <<[t |-> text[i]]>> \o f[i + 1]
        BY <2>0, <2>2, <3>3 DEF From
      <4> QED
        BY <3>1, <3>2, <3>3, <4>1
    <3>4. CASE text[i] \notin Operators \cup {"(", ")"} /\ InNumber(text[i])
      <4>1. RunEnd(text, i) \in i..n
        BY <2>2, <3>4, RunEnds
      <4> DEFINE run == SubSeq(text, i, RunEnd(text, i))
      <4>2. run \in Seq(C)
        BY <4>1
      <4>3. NumberToken(parseFloat(run)) \in Tokens
        BY <4>2, parseFloatIsValue, NumberTokenIsToken
      <4>4. f[RunEnd(text, i) + 1] \in Seq(Tokens)
        BY <1>5, <2>2, <4>1
      <4>5. f[i] = <<NumberToken(parseFloat(run))>> \o f[RunEnd(text, i) + 1]
        BY <2>0, <2>2, <3>4 DEF From
      <4> HIDE DEF run
      <4> QED
        BY <4>3, <4>4, <4>5
    <3>5. CASE text[i] \notin Operators \cup {"(", ")"} /\ ~InNumber(text[i])
      <4>1. f[i] = <<[t |-> "bad"]>>
        BY <2>0, <2>2, <3>5 DEF From
      <4> QED
        BY <3>2, <4>1
    <3> QED
      BY <3>3, <3>4, <3>5
  <2> QED
    BY <2>1, <2>2
<1> HIDE DEF G
<1>6. n \in G
  BY <1>4, <1>5, AllNumbers
<1>7. f[1] \in Seq(Tokens)
  BY <1>6 DEF G
<1> QED
  BY <1>2, <1>7

-----------------------------------------------------------------------------
\* The parser ends

\* The recursion of the parser.
Parse(ts, p, x) ==
  CASE x.rule = "expr" -> parseExpr(p, x.at)
    [] x.rule = "term" -> parseTerm(p, x.at)
    [] x.rule = "factor" -> parseFactor(ts, p, x.at)
    [] x.rule = "terms" -> MoreTerms(ts, p, x.left, x.at)
    [] x.rule = "factors" -> MoreFactors(ts, p, x.left, x.at)

Parses(ts, p) == p = [x \in Calls(ts) |-> Parse(ts, p, x)]

\* A call returns a value and a position that is not before its own.
Results(ts, x) == [v : Values, at : x.at..(Len(ts) + 1)]

\* What decreases from a call to the calls it makes.
Left(ts, x) ==
  3 * (Len(ts) + 1 - x.at) + (IF x.rule = "expr" THEN 2 ELSE IF x.rule = "term" THEN 1 ELSE 0)

\* The calls that the methods of the parser make are calls.
LEMMA CallsAreCalls ==
    ASSUME NEW ts \in Seq(Tokens), NEW i \in 1..(Len(ts) + 1), NEW v \in Values
    PROVE  /\ Expr(i) \in Calls(ts) /\ Left(ts, Expr(i)) = 3 * (Len(ts) + 1 - i) + 2
           /\ Term(i) \in Calls(ts) /\ Left(ts, Term(i)) = 3 * (Len(ts) + 1 - i) + 1
           /\ Factor(i) \in Calls(ts) /\ Left(ts, Factor(i)) = 3 * (Len(ts) + 1 - i)
           /\ Terms(v, i) \in Calls(ts) /\ Left(ts, Terms(v, i)) = 3 * (Len(ts) + 1 - i)
           /\ Factors(v, i) \in Calls(ts) /\ Left(ts, Factors(v, i)) = 3 * (Len(ts) + 1 - i)
           /\ Expr(i).at = i /\ Term(i).at = i /\ Factor(i).at = i
           /\ Terms(v, i).at = i /\ Factors(v, i).at = i
  BY DEF Expr, Term, Factor, Terms, Factors, Calls, Left, Values

\* Where the tokens have not ended there is a token.
LEMMA OperatorIsInside ==
    ASSUME NEW ts \in Seq(Tokens), NEW i \in 1..(Len(ts) + 1), At(ts, i) # "end"
    PROVE  i \in 1..Len(ts) /\ At(ts, i) = ts[i].t
  BY DEF At

\* A call returns what it should if the calls it makes do, and depends on no others.
LEMMA ParseIsLocal ==
    ASSUME NEW ts \in Seq(Tokens), NEW p, NEW q, NEW x \in Calls(ts),
           \A y \in Calls(ts) : Left(ts, y) < Left(ts, x) =>
                                  p[y] = q[y] /\ q[y] \in Results(ts, y)
    PROVE  Parse(ts, p, x) = Parse(ts, q, x) /\ Parse(ts, q, x) \in Results(ts, x)
<1> DEFINE n == Len(ts)
           i == x.at
           Good(y) == p[y] = q[y] /\ q[y] \in Results(ts, y)
<1>1. i \in 1..(n + 1) /\ n \in Nat
  BY DEF Calls
<1>2. \A v \in Values, j \in i..(n + 1) : Result(v, j) \in Results(ts, x)
  BY DEF Result, Results
<1>3. NaN \in Values
  BY DEF Values
<1>4. \A y \in Calls(ts) : Left(ts, y) < Left(ts, x) => Good(y)
  OBVIOUS
<1>5. \A y, r : r \in Results(ts, y) => r.v \in Values /\ r.at \in y.at..(n + 1)
  BY DEF Results
<1>6. \A y : y.at \in i..(n + 1) => Results(ts, y) \subseteq Results(ts, x)
  BY <1>1 DEF Results
<1> HIDE DEF Good
<1>7. \A y : Good(y) <=> p[y] = q[y] /\ q[y] \in Results(ts, y)
  BY DEF Good
<1>8. CASE x.rule = "expr"
  <2>0. Left(ts, x) = 3 * (n + 1 - i) + 2
    BY <1>8 DEF Left
  <2>1. Good(Term(i))
    BY <1>1, <1>3, <1>4, <2>0, CallsAreCalls
  <2> DEFINE r == q[Term(i)]
  <2>2. r.v \in Values /\ r.at \in i..(n + 1)
    BY <1>1, <1>3, <1>5, <1>7, <2>1, CallsAreCalls
  <2>3. Good(Terms(r.v, r.at)) /\ Terms(r.v, r.at).at = r.at
    <3>1. r.at \in 1..(n + 1)
      BY <1>1, <2>2
    <3> HIDE DEF r
    <3>2. Left(ts, Terms(r.v, r.at)) = 3 * (n + 1 - r.at) /\ Terms(r.v, r.at) \in Calls(ts)
      BY <2>2, <3>1, CallsAreCalls
    <3>3. Left(ts, Terms(r.v, r.at)) < Left(ts, x)
      BY <1>1, <2>0, <2>2, <3>2
    <3> QED
      BY <1>4, <2>2, <3>1, <3>2, <3>3, CallsAreCalls
  <2>4. q[Terms(r.v, r.at)] \in Results(ts, x)
    BY <1>6, <1>7, <2>2, <2>3
  <2>5. parseExpr(p, i) = parseExpr(q, i) /\ parseExpr(q, i) \in Results(ts, x)
    BY <1>7, <2>1, <2>3, <2>4 DEF parseExpr
  <2> QED
    BY <1>8, <2>5 DEF Parse
<1>9. CASE x.rule = "term"
  <2>0. Left(ts, x) = 3 * (n + 1 - i) + 1
    BY <1>9 DEF Left
  <2>1. Good(Factor(i))
    BY <1>1, <1>3, <1>4, <2>0, CallsAreCalls
  <2> DEFINE r == q[Factor(i)]
  <2>2. r.v \in Values /\ r.at \in i..(n + 1)
    BY <1>1, <1>3, <1>5, <1>7, <2>1, CallsAreCalls
  <2>3. Good(Factors(r.v, r.at)) /\ Factors(r.v, r.at).at = r.at
    <3>1. r.at \in 1..(n + 1)
      BY <1>1, <2>2
    <3> HIDE DEF r
    <3>2. Left(ts, Factors(r.v, r.at)) = 3 * (n + 1 - r.at) /\ Factors(r.v, r.at) \in Calls(ts)
      BY <2>2, <3>1, CallsAreCalls
    <3>3. Left(ts, Factors(r.v, r.at)) < Left(ts, x)
      BY <1>1, <2>0, <2>2, <3>2
    <3> QED
      BY <1>4, <2>2, <3>1, <3>2, <3>3, CallsAreCalls
  <2>4. q[Factors(r.v, r.at)] \in Results(ts, x)
    BY <1>6, <1>7, <2>2, <2>3
  <2>5. parseTerm(p, i) = parseTerm(q, i) /\ parseTerm(q, i) \in Results(ts, x)
    BY <1>7, <2>1, <2>3, <2>4 DEF parseTerm
  <2> QED
    BY <1>9, <2>5 DEF Parse
<1>10. CASE x.rule = "terms"
  <2>0. Left(ts, x) = 3 * (n + 1 - i) /\ x.left \in Values
    BY <1>1, <1>10 DEF Left, Calls
  <2>1. CASE x.left # NaN /\ At(ts, i) \in {"+", "-"}
    <3>1. i \in 1..n /\ i + 1 \in 1..(n + 1)
      BY <1>1, <2>1, OperatorIsInside
    <3>2. Good(Term(i + 1))
      BY <1>3, <1>4, <2>0, <3>1, CallsAreCalls
    <3> DEFINE r == q[Term(i + 1)]
               w == Apply(At(ts, i), x.left, r.v)
    <3>3. r.v \in Values /\ r.at \in (i + 1)..(n + 1)
      BY <1>3, <1>5, <1>7, <3>1, <3>2, CallsAreCalls
    <3>4. w \in Values
      BY <2>0, <2>1, <3>3, ApplyIsValue DEF Operators
    <3>5. Good(Terms(w, r.at)) /\ Terms(w, r.at).at = r.at
      <4>1. r.at \in 1..(n + 1)
        BY <3>1, <3>3
      <4> HIDE DEF r, w
      <4>2. Left(ts, Terms(w, r.at)) = 3 * (n + 1 - r.at) /\ Terms(w, r.at) \in Calls(ts)
        BY <3>4, <4>1, CallsAreCalls
      <4>3. Left(ts, Terms(w, r.at)) < Left(ts, x)
        BY <3>1, <2>0, <3>3, <4>2
      <4> QED
        BY <1>4, <3>4, <4>1, <4>2, <4>3, CallsAreCalls
    <3>6. q[Terms(w, r.at)] \in Results(ts, x)
      <4>1. r.at \in i..(n + 1)
        BY <3>1, <3>3
      <4> QED
        BY <1>6, <1>7, <3>5, <4>1
    <3>7. p[Term(i + 1)] = r /\ p[Terms(w, r.at)] = q[Terms(w, r.at)]
      BY <1>7, <3>2, <3>5
    <3>8. /\ MoreTerms(ts, p, x.left, i) = q[Terms(w, r.at)]
          /\ MoreTerms(ts, q, x.left, i) = q[Terms(w, r.at)]
      BY <2>1, <3>7 DEF MoreTerms
    <3> QED
      BY <1>10, <3>6, <3>8 DEF Parse
  <2>2. CASE ~(x.left # NaN /\ At(ts, i) \in {"+", "-"})
    <3>1. /\ MoreTerms(ts, p, x.left, i) = Result(x.left, i)
          /\ MoreTerms(ts, q, x.left, i) = Result(x.left, i)
      BY <2>2 DEF MoreTerms
    <3> QED
      BY <1>1, <1>2, <1>10, <2>0, <3>1 DEF Parse
  <2> QED
    BY <2>1, <2>2
<1>11. CASE x.rule = "factors"
  <2>0. Left(ts, x) = 3 * (n + 1 - i) /\ x.left \in Values
    BY <1>1, <1>11 DEF Left, Calls
  <2>1. CASE x.left # NaN /\ At(ts, i) \in {"*", "/"}
    <3>1. i \in 1..n /\ i + 1 \in 1..(n + 1)
      BY <1>1, <2>1, OperatorIsInside
    <3>2. Good(Factor(i + 1))
      BY <1>3, <1>4, <2>0, <3>1, CallsAreCalls
    <3> DEFINE r == q[Factor(i + 1)]
               w == Apply(At(ts, i), x.left, r.v)
    <3>3. r.v \in Values /\ r.at \in (i + 1)..(n + 1)
      BY <1>3, <1>5, <1>7, <3>1, <3>2, CallsAreCalls
    <3>4. w \in Values
      BY <2>0, <2>1, <3>3, ApplyIsValue DEF Operators
    <3>5. Good(Factors(w, r.at)) /\ Factors(w, r.at).at = r.at
      <4>1. r.at \in 1..(n + 1)
        BY <3>1, <3>3
      <4> HIDE DEF r, w
      <4>2. Left(ts, Factors(w, r.at)) = 3 * (n + 1 - r.at) /\ Factors(w, r.at) \in Calls(ts)
        BY <3>4, <4>1, CallsAreCalls
      <4>3. Left(ts, Factors(w, r.at)) < Left(ts, x)
        BY <3>1, <2>0, <3>3, <4>2
      <4> QED
        BY <1>4, <3>4, <4>1, <4>2, <4>3, CallsAreCalls
    <3>6. q[Factors(w, r.at)] \in Results(ts, x)
      <4>1. r.at \in i..(n + 1)
        BY <3>1, <3>3
      <4> QED
        BY <1>6, <1>7, <3>5, <4>1
    <3>7. p[Factor(i + 1)] = r /\ p[Factors(w, r.at)] = q[Factors(w, r.at)]
      BY <1>7, <3>2, <3>5
    <3>8. /\ MoreFactors(ts, p, x.left, i) = q[Factors(w, r.at)]
          /\ MoreFactors(ts, q, x.left, i) = q[Factors(w, r.at)]
      BY <2>1, <3>7 DEF MoreFactors
    <3> QED
      BY <1>11, <3>6, <3>8 DEF Parse
  <2>2. CASE ~(x.left # NaN /\ At(ts, i) \in {"*", "/"})
    <3>1. /\ MoreFactors(ts, p, x.left, i) = Result(x.left, i)
          /\ MoreFactors(ts, q, x.left, i) = Result(x.left, i)
      BY <2>2 DEF MoreFactors
    <3> QED
      BY <1>1, <1>2, <1>11, <2>0, <3>1 DEF Parse
  <2> QED
    BY <2>1, <2>2
<1>12. CASE x.rule = "factor"
  <2>0. Left(ts, x) = 3 * (n + 1 - i)
    BY <1>1, <1>12 DEF Left
  <2>1. parseFactor(ts, p, i) = parseFactor(ts, q, i) /\ parseFactor(ts, q, i) \in Results(ts, x)
    <3>1. CASE At(ts, i) \in {"+", "-", "("}
      <4>1. i \in 1..n /\ i + 1 \in 1..(n + 1)
        BY <1>1, <3>1, OperatorIsInside
      <4>2. Good(Factor(i + 1)) /\ Good(Expr(i + 1))
        BY <1>3, <1>4, <2>0, <4>1, CallsAreCalls
      <4> DEFINE r == q[Factor(i + 1)]
                 s == q[Expr(i + 1)]
      <4>3. /\ r.v \in Values /\ r.at \in (i + 1)..(n + 1)
            /\ s.v \in Values /\ s.at \in (i + 1)..(n + 1)
        BY <1>3, <1>5, <1>7, <4>1, <4>2, CallsAreCalls
      <4>4. p[Factor(i + 1)] = r /\ p[Expr(i + 1)] = s
        BY <1>7, <4>2
      <4>5. r \in Results(ts, x)
        <5>1. Factor(i + 1).at \in i..(n + 1)
          <6>1. Factor(i + 1).at = i + 1
            BY <1>3, <4>1, CallsAreCalls
          <6> HIDE DEF r, s
          <6> QED
            BY <1>1, <4>1, <6>1
        <5> QED
          BY <1>6, <1>7, <4>2, <5>1, SMTT(30)
      <4>6. r.v # NaN => Result(Negated(r.v), r.at) \in Results(ts, x)
        <5> HAVE r.v # NaN
        <5>1. Negated(r.v) \in Values
          BY <4>3, NegatedIsNumber DEF Values
        <5> QED
          BY <1>2, <4>1, <4>3, <5>1
      <4>7. At(ts, s.at) = ")" => Result(s.v, s.at + 1) \in Results(ts, x)
        <5> HAVE At(ts, s.at) = ")"
        <5>1. s.at \in 1..(n + 1)
          BY <4>1, <4>3
        <5>2. s.at \in 1..n
          BY <5>1, OperatorIsInside
        <5> QED
          BY <1>2, <4>1, <4>3, <5>2
      <4>8. Thrown(i) \in Results(ts, x)
        BY <1>1, <1>2, <1>3 DEF Thrown
      <4>9. CASE At(ts, i) = "+"
        BY <4>4, <4>5, <4>9 DEF parseFactor
      <4>10. CASE At(ts, i) = "-"
        BY <4>4, <4>5, <4>6, <4>10 DEF parseFactor
      <4>11. CASE At(ts, i) = "("
        BY <4>4, <4>7, <4>8, <4>11 DEF parseFactor
      <4> QED
        BY <3>1, <4>9, <4>10, <4>11
    <3>2. CASE At(ts, i) = "number"
      <4>1. i \in 1..n /\ ts[i].t = "number"
        BY <1>1, <3>2, OperatorIsInside
      <4>2. ts[i] \in Tokens
        BY <4>1
      <4>3. ts[i].v \in Values
        BY <4>1, <4>2 DEF Tokens, Values, Operators
      <4>4. Result(ts[i].v, i + 1) \in Results(ts, x)
        BY <1>2, <4>1, <4>3
      <4> QED
        BY <3>2, <4>4 DEF parseFactor
    <3>3. CASE At(ts, i) \notin {"+", "-", "(", "number"}
      BY <1>1, <1>2, <1>3, <3>3 DEF parseFactor, Thrown
    <3> QED
      BY <3>1, <3>2, <3>3
  <2> QED
    BY <1>12, <2>1 DEF Parse
<1>13. x.rule \in {"expr", "term", "factor", "terms", "factors"}
  BY DEF Calls
<1> QED
  BY <1>8, <1>9, <1>10, <1>11, <1>12, <1>13

\* The parser is defined on every call: no call depends on itself.
LEMMA ParserExists ==
    ASSUME NEW ts \in Seq(Tokens)
    PROVE  \E p : Parses(ts, p)
<1> DEFINE n == Len(ts)
           D(m) == {x \in Calls(ts) : Left(ts, x) < m}
           Upto(m, p) == /\ p = [x \in D(m) |-> Parse(ts, p, x)]
                         /\ \A x \in D(m) : p[x] \in Results(ts, x)
           G == {m \in Nat : \E p : Upto(m, p)}
<1>1. \A x \in Calls(ts) : Left(ts, x) \in Nat /\ Left(ts, x) < 3 * (n + 1)
  <2> TAKE x \in Calls(ts)
  <2>1. x.at \in 1..(n + 1)
    BY DEF Calls
  <2> QED
    BY <2>1 DEF Left
<1>2. 0 \in G
  <2> DEFINE p == [x \in {} |-> NaN]
  <2>1. D(0) = {}
    BY <1>1
  <2>2. p = [x \in D(0) |-> Parse(ts, p, x)]
    BY <2>1
  <2> HIDE DEF p, D
  <2>3. Upto(0, p)
    BY <2>1, <2>2
  <2> HIDE DEF Upto
  <2> QED
    BY <2>3
<1>3. ASSUME NEW m \in Nat, m \in G
      PROVE  m + 1 \in G
  <2>1. PICK p : Upto(m, p)
    BY <1>3
  <2> DEFINE q == [x \in D(m + 1) |-> Parse(ts, p, x)]
  <2>2. \A x \in D(m) : q[x] = p[x] /\ p[x] \in Results(ts, x)
    <3> TAKE x \in D(m)
    <3>1. x \in D(m + 1)
      BY <1>1
    <3> HIDE DEF D
    <3> QED
      BY <2>1, <3>1
  <2>3. \A x \in D(m + 1) : /\ Parse(ts, q, x) = Parse(ts, p, x)
                            /\ Parse(ts, p, x) \in Results(ts, x)
    <3> TAKE x \in D(m + 1)
    <3>1. \A y \in Calls(ts) : Left(ts, y) < Left(ts, x) => y \in D(m)
      BY <1>1
    <3>2. x \in Calls(ts)
      OBVIOUS
    <3> HIDE DEF q, D
    <3> QED
      BY <2>2, <3>1, <3>2, ParseIsLocal
  <2>4. \A x \in D(m + 1) : q[x] = Parse(ts, p, x)
    OBVIOUS
  <2>5. q = [x \in D(m + 1) |-> Parse(ts, q, x)]
    BY <2>3
  <2> HIDE DEF q, D
  <2>6. Upto(m + 1, q)
    BY <2>3, <2>4, <2>5
  <2> HIDE DEF Upto
  <2> QED
    BY <2>6
<1> HIDE DEF G
<1>4. 3 * (n + 1) \in G
  <2>1. 3 * (n + 1) \in Nat
    OBVIOUS
  <2> QED
    BY <1>2, <1>3, <2>1, AllNumbers
<1>5. PICK p : Upto(3 * (n + 1), p)
  BY <1>4 DEF G
<1>6. D(3 * (n + 1)) = Calls(ts)
  BY <1>1
<1> QED
  BY <1>5, <1>6 DEF Parses

\* What the parser does in each of its calls.
LEMMA ParserParses ==
    ASSUME NEW ts \in Seq(Tokens)
    PROVE  \A x \in Calls(ts) : /\ Parser(ts)[x] = Parse(ts, Parser(ts), x)
                                /\ Parser(ts)[x] \in Results(ts, x)
<1> DEFINE p == Parser(ts)
           G == {m \in Nat : \A x \in Calls(ts) : Left(ts, x) < m => p[x] \in Results(ts, x)}
<1>1. p = CHOOSE f : Parses(ts, f)
  BY DEF Parser, Parses, Parse
<1>2. Parses(ts, p)
  BY <1>1, ParserExists
<1> HIDE DEF p
<1>3. \A x \in Calls(ts) : p[x] = Parse(ts, p, x)
  BY <1>2 DEF Parses
<1>4. \A x \in Calls(ts) : Left(ts, x) \in Nat
  <2> TAKE x \in Calls(ts)
  <2>1. x.at \in 1..(Len(ts) + 1)
    BY DEF Calls
  <2> QED
    BY <2>1 DEF Left
<1>5. 0 \in G
  BY <1>4
<1>6. ASSUME NEW m \in Nat, m \in G
      PROVE  m + 1 \in G
  <2> SUFFICES ASSUME NEW x \in Calls(ts), Left(ts, x) < m + 1
               PROVE  p[x] \in Results(ts, x)
    OBVIOUS
  <2>1. \A y \in Calls(ts) : Left(ts, y) < Left(ts, x) => p[y] \in Results(ts, y)
    BY <1>4, <1>6
  <2>2. Parse(ts, p, x) \in Results(ts, x)
    BY <2>1, ParseIsLocal
  <2> QED
    BY <1>3, <2>2
<1> HIDE DEF G
<1>7. \A x \in Calls(ts) : p[x] \in Results(ts, x)
  <2> TAKE x \in Calls(ts)
  <2>1. Left(ts, x) + 1 \in Nat /\ Left(ts, x) < Left(ts, x) + 1
    BY <1>4
  <2>2. Left(ts, x) + 1 \in G
    BY <1>5, <1>6, <2>1, AllNumbers
  <2> QED
    BY <2>1, <2>2 DEF G
<1> QED
  BY <1>3, <1>7 DEF p

\* The same for each kind of call.
LEMMA ParserRules ==
    ASSUME NEW ts \in Seq(Tokens), NEW i \in 1..(Len(ts) + 1), NEW v \in Values
    PROVE  LET p == Parser(ts)
               R == [v : Values, at : i..(Len(ts) + 1)]
           IN /\ p[Expr(i)] = p[Terms(p[Term(i)].v, p[Term(i)].at)] /\ p[Expr(i)] \in R
              /\ p[Terms(v, i)] = MoreTerms(ts, p, v, i) /\ p[Terms(v, i)] \in R
              /\ p[Term(i)] = p[Factors(p[Factor(i)].v, p[Factor(i)].at)] /\ p[Term(i)] \in R
              /\ p[Factors(v, i)] = MoreFactors(ts, p, v, i) /\ p[Factors(v, i)] \in R
              /\ p[Factor(i)] = parseFactor(ts, p, i) /\ p[Factor(i)] \in R
<1> DEFINE p == Parser(ts)
           R == [v : Values, at : i..(Len(ts) + 1)]
<1>1. \A x \in Calls(ts) : p[x] = Parse(ts, p, x) /\ p[x] \in Results(ts, x)
  BY ParserParses
<1> HIDE DEF p
<1>2. p[Expr(i)] = parseExpr(p, i) /\ p[Expr(i)] \in R
  <2>1. Expr(i) \in Calls(ts) /\ Expr(i).at = i
    BY CallsAreCalls
  <2>2. p[Expr(i)] = Parse(ts, p, Expr(i)) /\ p[Expr(i)] \in Results(ts, Expr(i))
    BY <1>1, <2>1
  <2>3. Parse(ts, p, Expr(i)) = parseExpr(p, i)
    BY DEF Parse, Expr
  <2> QED
    BY <2>1, <2>2, <2>3 DEF Results
<1>3. p[Term(i)] = parseTerm(p, i) /\ p[Term(i)] \in R
  <2>1. Term(i) \in Calls(ts) /\ Term(i).at = i
    BY CallsAreCalls
  <2>2. p[Term(i)] = Parse(ts, p, Term(i)) /\ p[Term(i)] \in Results(ts, Term(i))
    BY <1>1, <2>1
  <2>3. Parse(ts, p, Term(i)) = parseTerm(p, i)
    BY DEF Parse, Term
  <2> QED
    BY <2>1, <2>2, <2>3 DEF Results
<1>4. p[Factor(i)] = parseFactor(ts, p, i) /\ p[Factor(i)] \in R
  <2>1. Factor(i) \in Calls(ts) /\ Factor(i).at = i
    BY CallsAreCalls
  <2>2. p[Factor(i)] = Parse(ts, p, Factor(i)) /\ p[Factor(i)] \in Results(ts, Factor(i))
    BY <1>1, <2>1
  <2>3. Parse(ts, p, Factor(i)) = parseFactor(ts, p, i)
    BY DEF Parse, Factor
  <2> QED
    BY <2>1, <2>2, <2>3 DEF Results
<1>5. p[Terms(v, i)] = MoreTerms(ts, p, v, i) /\ p[Terms(v, i)] \in R
  BY <1>1, CallsAreCalls DEF Parse, Terms, Results
<1>6. p[Factors(v, i)] = MoreFactors(ts, p, v, i) /\ p[Factors(v, i)] \in R
  BY <1>1, CallsAreCalls DEF Parse, Factors, Results
<1> QED
  BY <1>2, <1>3, <1>4, <1>5, <1>6 DEF parseExpr, parseTerm, p

-----------------------------------------------------------------------------
\* Depth

\* Parentheses are counted by a number.
LEMMA CountOf ==
    ASSUME NEW i \in Nat, NEW k \in Nat, NEW S \in SUBSET (i..k)
    PROVE  IsFiniteSet(S) /\ Cardinality(S) \in Nat
<1>1. IsFiniteSet(i..k)
  BY FS_Interval
<1>2. IsFiniteSet(S)
  BY <1>1, FS_Subset
<1> QED
  BY <1>2, FS_CardinalityType

\* The depth over two stretches of tokens is the sum of the depths over each.
LEMMA DepthAdds ==
    ASSUME NEW ts, NEW i \in Nat, NEW l \in Nat, NEW k \in Nat, i <= l + 1, l <= k
    PROVE  /\ Depth(ts, i, k) = Depth(ts, i, l) + Depth(ts, l + 1, k)
           /\ Depth(ts, i, k) \in Int /\ Depth(ts, i, l) \in Int /\ Depth(ts, l + 1, k) \in Int
<1> DEFINE Of(c, a, b) == {m \in a..b : ts[m].t = c}
<1>1. ASSUME NEW c
      PROVE  /\ Cardinality(Of(c, i, k)) = Cardinality(Of(c, i, l)) + Cardinality(Of(c, l + 1, k))
             /\ Cardinality(Of(c, i, k)) \in Nat
             /\ Cardinality(Of(c, i, l)) \in Nat
             /\ Cardinality(Of(c, l + 1, k)) \in Nat
  <2>1. Of(c, i, k) = Of(c, i, l) \cup Of(c, l + 1, k) /\ Of(c, i, l) \cap Of(c, l + 1, k) = {}
    OBVIOUS
  <2>2. /\ Of(c, i, l) \in SUBSET (i..l) /\ Of(c, l + 1, k) \in SUBSET ((l + 1)..k)
        /\ Of(c, i, k) \in SUBSET (i..k)
    OBVIOUS
  <2> HIDE DEF Of
  <2>3. IsFiniteSet(Of(c, i, l)) /\ Cardinality(Of(c, i, l)) \in Nat
    BY <2>2, CountOf
  <2>4. IsFiniteSet(Of(c, l + 1, k)) /\ Cardinality(Of(c, l + 1, k)) \in Nat
    <3>1. l + 1 \in Nat
      OBVIOUS
    <3> QED
      BY <2>2, <3>1, CountOf
  <2>5. Cardinality(Of(c, i, k)) \in Nat
    BY <2>2, CountOf
  <2>6. Cardinality(Of(c, i, l) \cap Of(c, l + 1, k)) = 0
    BY <2>1, FS_EmptySet
  <2>7. Cardinality(Of(c, i, l) \cup Of(c, l + 1, k))
          = Cardinality(Of(c, i, l)) + Cardinality(Of(c, l + 1, k))
              - Cardinality(Of(c, i, l) \cap Of(c, l + 1, k))
    BY <2>3, <2>4, FS_Union
  <2> QED
    BY <2>1, <2>3, <2>4, <2>5, <2>6, <2>7
<1>2. \A a, b : Depth(ts, a, b) = Cardinality(Of("(", a, b)) - Cardinality(Of(")", a, b))
  BY DEF Depth
<1> HIDE DEF Of
<1> QED
  BY <1>1, <1>2

\* The depth of one token, and of none.
LEMMA DepthOfOne ==
    ASSUME NEW ts, NEW i \in Nat
    PROVE  /\ Depth(ts, i, i) = IF ts[i].t = "(" THEN 1 ELSE IF ts[i].t = ")" THEN -1 ELSE 0
           /\ \A k \in Nat : k < i => Depth(ts, i, k) = 0
<1>1. Cardinality({}) = 0 /\ Cardinality({i}) = 1
  BY FS_EmptySet, FS_Singleton
<1>2. \A c : {m \in i..i : ts[m].t = c} = IF ts[i].t = c THEN {i} ELSE {}
  OBVIOUS
<1>3. \A c, k : k \in Nat /\ k < i => {m \in i..k : ts[m].t = c} = {}
  OBVIOUS
<1>4. Depth(ts, i, i) = IF ts[i].t = "(" THEN 1 ELSE IF ts[i].t = ")" THEN -1 ELSE 0
  <2> DEFINE In(c) == {m \in i..i : ts[m].t = c}
  <2>1. Depth(ts, i, i) = Cardinality(In("(")) - Cardinality(In(")"))
    BY DEF Depth
  <2>2. \A c : Cardinality(In(c)) = IF ts[i].t = c THEN 1 ELSE 0
    BY <1>1, <1>2
  <2> HIDE DEF In
  <2> QED
    BY <2>1, <2>2
<1>5. \A k \in Nat : k < i => Depth(ts, i, k) = 0
  BY <1>1, <1>3 DEF Depth
<1> QED
  BY <1>4, <1>5

\* Of a token and those after it.
LEMMA DepthFirst ==
    ASSUME NEW ts, NEW i \in Nat, NEW k \in Nat, i <= k
    PROVE  /\ Depth(ts, i, k) = (IF ts[i].t = "(" THEN 1 ELSE IF ts[i].t = ")" THEN -1 ELSE 0)
                                  + Depth(ts, i + 1, k)
           /\ Depth(ts, i, k) \in Int /\ Depth(ts, i + 1, k) \in Int
<1>1. i <= i + 1 /\ i <= k
  OBVIOUS
<1>2. /\ Depth(ts, i, k) = Depth(ts, i, i) + Depth(ts, i + 1, k)
      /\ Depth(ts, i, k) \in Int /\ Depth(ts, i + 1, k) \in Int
  BY <1>1, DepthAdds
<1> QED
  BY <1>2, DepthOfOne

-----------------------------------------------------------------------------
\* The meaning is well-defined

\* Max chooses the greatest number of a finite set.
LEMMA MaxIsGreatest ==
    ASSUME NEW S, NEW b \in Nat, S # {}, S \subseteq 0..b
    PROVE  Max(S) \in S /\ \A l \in S : l <= Max(S)
<1>1. \E k \in S : \A l \in S : k >= l
  BY GreatestMember
<1> QED
  BY <1>1 DEF Max

\* The last operator at which a stretch is split lies inside it.
LEMMA MaxOfSplits ==
    ASSUME NEW ts \in Seq(Tokens), NEW ops, NEW i \in 1..(Len(ts) + 1), NEW j \in 0..Len(ts),
           Splits(ts, ops, i, j) # {}
    PROVE  LET k == Max(Splits(ts, ops, i, j))
           IN /\ k \in (i + 1)..(j - 1) /\ ts[k].t \in ops /\ ts[k - 1].t \in {"number", ")"}
              /\ Depth(ts, i, k) = 0
              /\ \A l \in Splits(ts, ops, i, j) : l <= k
<1>1. Splits(ts, ops, i, j) \subseteq 0..Len(ts) /\ Len(ts) \in Nat
  BY DEF Splits
<1>2. /\ Max(Splits(ts, ops, i, j)) \in Splits(ts, ops, i, j)
      /\ \A l \in Splits(ts, ops, i, j) : l <= Max(Splits(ts, ops, i, j))
  BY <1>1, MaxIsGreatest
<1> QED
  BY <1>2 DEF Splits

\* The recursion of Meanings.
Means(ts, m, x) ==
  IF Sums(ts, x[1], x[2]) # {}
  THEN SplitAt(ts, m, Max(Sums(ts, x[1], x[2])), x[1], x[2])
  ELSE IF Products(ts, x[1], x[2]) # {}
  THEN SplitAt(ts, m, Max(Products(ts, x[1], x[2])), x[1], x[2])
  ELSE Undivided(ts, m, x[1], x[2])

Stretches(ts) == (1..(Len(ts) + 1)) \X (0..Len(ts))
Width(ts, x) == (x[2] + Len(ts) + 1) - x[1]

\* The width of a stretch, by which the meaning recurs, is a number.
LEMMA StretchesAreWide ==
    ASSUME NEW ts \in Seq(Tokens), NEW x \in Stretches(ts)
    PROVE  /\ Width(ts, x) \in Nat /\ Width(ts, x) < 2 * Len(ts) + 1
           /\ x = <<x[1], x[2]>> /\ x[1] \in 1..(Len(ts) + 1) /\ x[2] \in 0..Len(ts)
<1>1. x = <<x[1], x[2]>> /\ x[1] \in 1..(Len(ts) + 1) /\ x[2] \in 0..Len(ts)
  BY DEF Stretches
<1> QED
  BY <1>1 DEF Width

\* A meaning depends on the meanings of shorter stretches only.
LEMMA MeansIsLocal ==
    ASSUME NEW ts \in Seq(Tokens), NEW p, NEW q, NEW x \in Stretches(ts),
           \A y \in Stretches(ts) : Width(ts, y) < Width(ts, x) => p[y] = q[y] /\ q[y] \in Values
    PROVE  Means(ts, p, x) = Means(ts, q, x) /\ Means(ts, q, x) \in Values
<1> DEFINE n == Len(ts)
           i == x[1]
           j == x[2]
<1>1. i \in 1..(n + 1) /\ j \in 0..n /\ n \in Nat
  BY StretchesAreWide
<1>2. ASSUME NEW a \in 1..(n + 1), NEW b \in 0..n, b - a < j - i
      PROVE  p[<<a, b>>] = q[<<a, b>>] /\ q[<<a, b>>] \in Values
  <2>1. <<a, b>> \in Stretches(ts)
    BY DEF Stretches
  <2>2. Width(ts, <<a, b>>) < Width(ts, x)
    BY <1>1, <1>2 DEF Width
  <2> QED
    BY <2>1, <2>2
<1> HIDE DEF i, j
<1>3. ASSUME NEW k \in (i + 1)..(j - 1), ts[k].t \in Operators
      PROVE  /\ SplitAt(ts, p, k, i, j) = SplitAt(ts, q, k, i, j)
             /\ SplitAt(ts, q, k, i, j) \in Values
  <2>1. k - 1 \in 0..n /\ (k - 1) - i < j - i /\ k + 1 \in 1..(n + 1) /\ j - (k + 1) < j - i
    BY <1>1
  <2>2. p[<<i, k - 1>>] = q[<<i, k - 1>>] /\ q[<<i, k - 1>>] \in Values
    BY <1>1, <1>2, <2>1
  <2>3. p[<<k + 1, j>>] = q[<<k + 1, j>>] /\ q[<<k + 1, j>>] \in Values
    BY <1>1, <1>2, <2>1
  <2> QED
    BY <1>3, <2>2, <2>3, ApplyIsValue DEF SplitAt
<1>4. ASSUME NEW ops \in SUBSET Operators, Splits(ts, ops, i, j) # {}
      PROVE  LET k == Max(Splits(ts, ops, i, j))
             IN /\ SplitAt(ts, p, k, i, j) = SplitAt(ts, q, k, i, j)
                /\ SplitAt(ts, q, k, i, j) \in Values
  <2> DEFINE k == Max(Splits(ts, ops, i, j))
  <2>1. k \in (i + 1)..(j - 1) /\ ts[k].t \in ops
    BY <1>1, <1>4, MaxOfSplits
  <2> HIDE DEF k
  <2>2. ts[k].t \in Operators
    BY <2>1
  <2>3. /\ SplitAt(ts, p, k, i, j) = SplitAt(ts, q, k, i, j)
        /\ SplitAt(ts, q, k, i, j) \in Values
    BY <1>3, <2>1, <2>2
  <2> QED
    BY <2>3 DEF k
<1>5. {"+", "-"} \in SUBSET Operators /\ {"*", "/"} \in SUBSET Operators
  BY DEF Operators
<1>6. CASE Sums(ts, i, j) # {}
  <2>1. LET k == Max(Sums(ts, i, j))
        IN /\ SplitAt(ts, p, k, i, j) = SplitAt(ts, q, k, i, j)
           /\ SplitAt(ts, q, k, i, j) \in Values
    BY <1>4, <1>5, <1>6 DEF Sums
  <2> QED
    BY <1>6, <2>1 DEF Means, i, j
<1>7. CASE Sums(ts, i, j) = {} /\ Products(ts, i, j) # {}
  <2>1. LET k == Max(Products(ts, i, j))
        IN /\ SplitAt(ts, p, k, i, j) = SplitAt(ts, q, k, i, j)
           /\ SplitAt(ts, q, k, i, j) \in Values
    BY <1>4, <1>5, <1>7 DEF Products
  <2> QED
    BY <1>7, <2>1 DEF Means, i, j
<1>8. CASE Sums(ts, i, j) = {} /\ Products(ts, i, j) = {}
  <2>0. NaN \in Values
    BY DEF Values
  <2>1. CASE i < j
    <3>1. i + 1 \in 1..(n + 1) /\ j - (i + 1) < j - i /\ j - 1 \in 0..n /\ (j - 1) - (i + 1) < j - i
      BY <1>1, <2>1
    <3>2. /\ p[<<i + 1, j>>] = q[<<i + 1, j>>] /\ q[<<i + 1, j>>] \in Values
          /\ p[<<i + 1, j - 1>>] = q[<<i + 1, j - 1>>] /\ q[<<i + 1, j - 1>>] \in Values
      BY <1>1, <1>2, <3>1
    <3>3. q[<<i + 1, j>>] # NaN => Negated(q[<<i + 1, j>>]) \in Values
      BY <3>2, NegatedIsNumber DEF Values
    <3>4. i # j
      BY <1>1, <2>1
    <3>5. Undivided(ts, p, i, j) = Undivided(ts, q, i, j) /\ Undivided(ts, q, i, j) \in Values
      <4>1. CASE ts[i].t = "-"
        BY <2>1, <3>2, <3>3, <3>4, <4>1 DEF Undivided
      <4>2. CASE ts[i].t = "+"
        BY <2>1, <3>2, <3>4, <4>2 DEF Undivided
      <4>3. CASE ts[i].t = "("
        BY <2>0, <2>1, <3>2, <3>4, <4>3 DEF Undivided
      <4>4. CASE ts[i].t \notin {"+", "-", "("}
        BY <2>0, <2>1, <3>4, <4>4 DEF Undivided
      <4> QED
        BY <4>1, <4>2, <4>3, <4>4
    <3> QED
      BY <1>8, <3>5 DEF Means, i, j
  <2>2. CASE ~(i < j)
    <3>1. i = j /\ ts[i].t = "number" => ts[i].v \in Values
      <4> HAVE i = j /\ ts[i].t = "number"
      <4>1. ts[i] \in Tokens
        BY <1>1
      <4> QED
        BY <4>1 DEF Tokens, Values, Operators
    <3>2. Undivided(ts, p, i, j) = Undivided(ts, q, i, j) /\ Undivided(ts, q, i, j) \in Values
      BY <2>0, <2>2, <3>1 DEF Undivided
    <3> QED
      BY <1>8, <3>2 DEF Means, i, j
  <2> QED
    BY <2>1, <2>2
<1> QED
  BY <1>6, <1>7, <1>8

\* Every stretch of tokens has one meaning: induction over the width.
LEMMA MeaningsExist ==
    ASSUME NEW ts \in Seq(Tokens)
    PROVE  \E m : m = [x \in Stretches(ts) |-> Means(ts, m, x)]
<1> DEFINE n == Len(ts)
           D(w) == {x \in Stretches(ts) : Width(ts, x) < w}
           Upto(w, m) == /\ m = [x \in D(w) |-> Means(ts, m, x)]
                         /\ \A x \in D(w) : m[x] \in Values
           G == {w \in Nat : \E m : Upto(w, m)}
<1>1. \A x \in Stretches(ts) : Width(ts, x) \in Nat /\ Width(ts, x) < 2 * n + 1
  BY StretchesAreWide
<1>2. 0 \in G
  <2> DEFINE m == [x \in {} |-> NaN]
  <2>1. D(0) = {}
    BY <1>1
  <2>2. m = [x \in D(0) |-> Means(ts, m, x)]
    BY <2>1
  <2> HIDE DEF m, D
  <2>3. Upto(0, m)
    BY <2>1, <2>2
  <2> HIDE DEF Upto
  <2> QED
    BY <2>3
<1>3. ASSUME NEW w \in Nat, w \in G
      PROVE  w + 1 \in G
  <2>1. PICK p : Upto(w, p)
    BY <1>3
  <2> DEFINE q == [x \in D(w + 1) |-> Means(ts, p, x)]
  <2>2. \A x \in D(w) : q[x] = p[x] /\ p[x] \in Values
    <3> TAKE x \in D(w)
    <3>1. x \in D(w + 1)
      BY <1>1
    <3> HIDE DEF D
    <3> QED
      BY <2>1, <3>1
  <2>3. \A x \in D(w + 1) : Means(ts, q, x) = Means(ts, p, x) /\ Means(ts, p, x) \in Values
    <3> TAKE x \in D(w + 1)
    <3>1. \A y \in Stretches(ts) : Width(ts, y) < Width(ts, x) => y \in D(w)
      BY <1>1
    <3>2. x \in Stretches(ts)
      OBVIOUS
    <3> HIDE DEF q, D
    <3> QED
      BY <2>2, <3>1, <3>2, MeansIsLocal
  <2>4. \A x \in D(w + 1) : q[x] = Means(ts, p, x)
    OBVIOUS
  <2>5. q = [x \in D(w + 1) |-> Means(ts, q, x)]
    BY <2>3
  <2> HIDE DEF q, D
  <2>6. Upto(w + 1, q)
    BY <2>3, <2>4, <2>5
  <2> HIDE DEF Upto
  <2> QED
    BY <2>6
<1> HIDE DEF G
<1>4. 2 * n + 1 \in G
  <2>1. 2 * n + 1 \in Nat
    OBVIOUS
  <2> QED
    BY <1>2, <1>3, <2>1, AllNumbers
<1>5. PICK m : Upto(2 * n + 1, m)
  BY <1>4 DEF G
<1>6. D(2 * n + 1) = Stretches(ts)
  BY <1>1
<1> QED
  BY <1>5, <1>6

\* Meanings is the function its definition asks for.
LEMMA MeaningsMean ==
    ASSUME NEW ts \in Seq(Tokens)
    PROVE  \A i \in 1..(Len(ts) + 1), j \in 0..Len(ts) :
               Meanings(ts)[<<i, j>>] = Means(ts, Meanings(ts), <<i, j>>)
<1> DEFINE m == Meanings(ts)
<1>1. m = CHOOSE f : f = [x \in Stretches(ts) |-> Means(ts, f, x)]
  BY DEF Meanings, Stretches, Means
<1>2. m = [x \in Stretches(ts) |-> Means(ts, m, x)]
  BY <1>1, MeaningsExist
<1> HIDE DEF m
<1>3. \A x \in Stretches(ts) : m[x] = Means(ts, m, x)
  BY <1>2
<1> QED
  BY <1>3 DEF Stretches, m

\* A meaning is a number or NaN.
LEMMA MeaningsAreValues ==
    ASSUME NEW ts \in Seq(Tokens)
    PROVE  \A i \in 1..(Len(ts) + 1), j \in 0..Len(ts) : Meanings(ts)[<<i, j>>] \in Values
<1> DEFINE m == Meanings(ts)
           G == {w \in Nat : \A x \in Stretches(ts) : Width(ts, x) < w => m[x] \in Values}
<1>1. \A x \in Stretches(ts) : m[x] = Means(ts, m, x)
  <2> TAKE x \in Stretches(ts)
  <2>1. x = <<x[1], x[2]>> /\ x[1] \in 1..(Len(ts) + 1) /\ x[2] \in 0..Len(ts)
    BY StretchesAreWide
  <2>2. m[<<x[1], x[2]>>] = Means(ts, m, <<x[1], x[2]>>)
    BY <2>1, MeaningsMean
  <2> QED
    BY <2>1, <2>2
<1> HIDE DEF m
<1>2. 0 \in G
  BY StretchesAreWide
<1>3. ASSUME NEW w \in Nat, w \in G
      PROVE  w + 1 \in G
  <2> SUFFICES ASSUME NEW x \in Stretches(ts), Width(ts, x) < w + 1
               PROVE  m[x] \in Values
    OBVIOUS
  <2>1. \A y \in Stretches(ts) : Width(ts, y) < Width(ts, x) => m[y] \in Values
    BY <1>3, StretchesAreWide
  <2>2. Means(ts, m, x) \in Values
    BY <2>1, MeansIsLocal
  <2> QED
    BY <1>1, <2>2
<1> HIDE DEF G
<1>4. \A x \in Stretches(ts) : m[x] \in Values
  <2> TAKE x \in Stretches(ts)
  <2>1. Width(ts, x) + 1 \in Nat /\ Width(ts, x) < Width(ts, x) + 1
    BY StretchesAreWide
  <2>2. Width(ts, x) + 1 \in G
    BY <1>2, <1>3, <2>1, AllNumbers
  <2> QED
    BY <2>1, <2>2 DEF G
<1> QED
  BY <1>4 DEF Stretches, m

\* What a stretch of tokens means, by how it is divided.
LEMMA MeaningRules ==
    ASSUME NEW ts \in Seq(Tokens), NEW i \in 1..(Len(ts) + 1), NEW j \in 0..Len(ts)
    PROVE  LET m == Meanings(ts)
               Divided(S) == LET k == Max(S) IN Apply(ts[k].t, m[<<i, k - 1>>], m[<<k + 1, j>>])
           IN /\ Sums(ts, i, j) # {} => m[<<i, j>>] = Divided(Sums(ts, i, j))
              /\ Sums(ts, i, j) = {} /\ Products(ts, i, j) # {} =>
                   m[<<i, j>>] = Divided(Products(ts, i, j))
              /\ Sums(ts, i, j) = {} /\ Products(ts, i, j) = {} =>
                   m[<<i, j>>] = Undivided(ts, m, i, j)
<1> DEFINE m == Meanings(ts)
           x == <<i, j>>
<1>1. m[x] = Means(ts, m, x) /\ x[1] = i /\ x[2] = j
  BY MeaningsMean
<1> HIDE DEF m, x
<1>2. Means(ts, m, x) = IF Sums(ts, i, j) # {}
                        THEN SplitAt(ts, m, Max(Sums(ts, i, j)), i, j)
                        ELSE IF Products(ts, i, j) # {}
                        THEN SplitAt(ts, m, Max(Products(ts, i, j)), i, j)
                        ELSE Undivided(ts, m, i, j)
  BY <1>1 DEF Means
<1>3. /\ Sums(ts, i, j) # {} => m[x] = SplitAt(ts, m, Max(Sums(ts, i, j)), i, j)
      /\ Sums(ts, i, j) = {} /\ Products(ts, i, j) # {} =>
           m[x] = SplitAt(ts, m, Max(Products(ts, i, j)), i, j)
      /\ Sums(ts, i, j) = {} /\ Products(ts, i, j) = {} => m[x] = Undivided(ts, m, i, j)
  BY <1>1, <1>2
<1> QED
  BY <1>3 DEF SplitAt, m, x

\* The operators outside parentheses of a part are such of the whole.
LEMMA SplitsOfParts ==
    ASSUME NEW ts \in Seq(Tokens), NEW ops, NEW i \in 1..(Len(ts) + 1), NEW j \in 0..Len(ts)
    PROVE  /\ \A k \in 0..j : Splits(ts, ops, i, k) \subseteq Splits(ts, ops, i, j)
           /\ \A s \in i..j : Depth(ts, i, s) = 0 =>
                /\ Splits(ts, ops, s + 1, j) \subseteq Splits(ts, ops, i, j)
                /\ \A k \in Splits(ts, ops, s + 1, j) : k > s
<1>1. \A k \in 0..j : Splits(ts, ops, i, k) \subseteq Splits(ts, ops, i, j)
  BY DEF Splits
<1>2. ASSUME NEW s \in i..j, Depth(ts, i, s) = 0, NEW k \in Splits(ts, ops, s + 1, j)
      PROVE  k \in Splits(ts, ops, i, j) /\ k > s
  <2>1. k \in (s + 2)..(j - 1) /\ ts[k].t \in ops /\ ts[k - 1].t \in {"number", ")"}
        /\ Depth(ts, s + 1, k) = 0
    BY <1>2 DEF Splits
  <2>2. i \in Nat /\ s \in Nat /\ k \in Nat /\ i <= s + 1 /\ s <= k
    BY <2>1
  <2>3. Depth(ts, i, k) = Depth(ts, i, s) + Depth(ts, s + 1, k)
    BY <2>2, DepthAdds
  <2>4. Depth(ts, i, k) = 0
    BY <1>2, <2>1, <2>3
  <2>5. k \in (i + 1)..(j - 1)
    BY <2>1
  <2> QED
    BY <2>1, <2>4, <2>5 DEF Splits
<1> QED
  BY <1>1, <1>2

\* The loops of the parser: they go on at their operators and stop elsewhere.
LEMMA LoopRules ==
    ASSUME NEW ts \in Seq(Tokens), NEW i \in 1..(Len(ts) + 1), NEW v \in Values
    PROVE  LET p == Parser(ts)
               s == p[Term(i + 1)]
               f == p[Factor(i + 1)]
           IN /\ v = NaN \/ At(ts, i) \notin {"+", "-"} => p[Terms(v, i)] = Result(v, i)
              /\ v # NaN /\ At(ts, i) \in {"+", "-"} =>
                   p[Terms(v, i)] = p[Terms(Apply(At(ts, i), v, s.v), s.at)]
              /\ v = NaN \/ At(ts, i) \notin {"*", "/"} => p[Factors(v, i)] = Result(v, i)
              /\ v # NaN /\ At(ts, i) \in {"*", "/"} =>
                   p[Factors(v, i)] = p[Factors(Apply(At(ts, i), v, f.v), f.at)]
<1> DEFINE p == Parser(ts)
<1>1. /\ p[Terms(v, i)] = MoreTerms(ts, p, v, i)
      /\ p[Factors(v, i)] = MoreFactors(ts, p, v, i)
  BY ParserRules
<1> HIDE DEF p
<1> QED
  BY <1>1 DEF MoreTerms, MoreFactors, p

-----------------------------------------------------------------------------
\* What means something is parsed as that

Parsed(ts, i, j) ==
  LET p == Parser(ts)
      v == Meanings(ts)[<<i, j>>]
  IN v # NaN =>
       /\ i <= j
       /\ Sums(ts, i, j) = {} /\ Products(ts, i, j) = {} => p[Factor(i)] = Result(v, j + 1)
       /\ Sums(ts, i, j) = {} => p[Term(i)] = p[Factors(v, j + 1)]
       /\ At(ts, j + 1) \notin {"*", "/"} => p[Expr(i)] = p[Terms(v, j + 1)]

\* What cannot be split and means something is parsed as one factor, if shorter
\* stretches are parsed as what they mean.
LEMMA UndividedIsParsed ==
    ASSUME NEW ts \in Seq(Tokens), NEW i \in 1..(Len(ts) + 1), NEW j \in 0..Len(ts),
           \A a \in 1..(Len(ts) + 1), b \in 0..Len(ts) : b - a < j - i => Parsed(ts, a, b),
           Sums(ts, i, j) = {}, Products(ts, i, j) = {},
           Meanings(ts)[<<i, j>>] # NaN
    PROVE  i <= j /\ Parser(ts)[Factor(i)] = Result(Meanings(ts)[<<i, j>>], j + 1)
<1> DEFINE n == Len(ts)
           p == Parser(ts)
           m == Meanings(ts)
           v == m[<<i, j>>]
<1>1. v = Undivided(ts, m, i, j)
  BY MeaningRules
<1>2. n \in Nat /\ i \in Nat /\ j \in Nat
  OBVIOUS
<1>3. NaN \in Values
  BY DEF Values
<1>4. p[Factor(i)] = parseFactor(ts, p, i)
  BY <1>3, ParserRules
<1>5. CASE i < j
  <2>1. At(ts, i) = ts[i].t /\ i + 1 \in 1..(n + 1) /\ j - (i + 1) < j - i
    BY <1>2, <1>5 DEF At
  <2>2. CASE ts[i].t \in {"+", "-"}
    <3>1. Depth(ts, i, i) = 0
      BY <2>2, DepthOfOne
    <3>2. Sums(ts, i + 1, j) = {} /\ Products(ts, i + 1, j) = {}
      <4>1. i \in i..j
        BY <1>2, <1>5
      <4> QED
        BY <3>1, <4>1, SplitsOfParts DEF Sums, Products
    <3>3. m[<<i + 1, j>>] # NaN
      BY <1>1, <1>5, <2>2 DEF Undivided
    <3>4. Parsed(ts, i + 1, j)
      BY <2>1
    <3>5. p[Factor(i + 1)] = Result(m[<<i + 1, j>>], j + 1)
      BY <3>2, <3>3, <3>4 DEF Parsed
    <3> HIDE DEF p, m
    <3>6. CASE ts[i].t = "+"
      <4>1. v = m[<<i + 1, j>>]
        BY <1>1, <1>5, <3>6 DEF Undivided
      <4>2. p[Factor(i)] = p[Factor(i + 1)]
        BY <1>4, <2>1, <3>6 DEF parseFactor
      <4> QED
        BY <1>5, <3>5, <4>1, <4>2 DEF p, m
    <3>7. CASE ts[i].t = "-"
      <4>1. v = Negated(m[<<i + 1, j>>])
        BY <1>1, <1>5, <3>3, <3>7 DEF Undivided
      <4>2. p[Factor(i + 1)].v = m[<<i + 1, j>>] /\ p[Factor(i + 1)].at = j + 1
        BY <3>5 DEF Result
      <4>3. p[Factor(i)] = Result(Negated(m[<<i + 1, j>>]), j + 1)
        BY <1>4, <2>1, <3>3, <3>7, <4>2 DEF parseFactor
      <4> QED
        BY <1>5, <4>1, <4>3 DEF p, m
    <3> QED
      BY <2>2, <3>6, <3>7
  <2>3. CASE ts[i].t = "(" /\ ts[j].t = ")"
    <3>1. v = m[<<i + 1, j - 1>>]
      BY <1>1, <1>5, <2>3 DEF Undivided
    <3>2. Parsed(ts, i + 1, j - 1)
      <4>1. j - 1 \in 0..n /\ (j - 1) - (i + 1) < j - i
        BY <1>2, <1>5
      <4> QED
        BY <2>1, <4>1
    <3>3. At(ts, j) = ")" /\ (j - 1) + 1 = j /\ j \in 1..(n + 1)
      BY <1>2, <1>5, <2>3 DEF At
    <3>4. p[Expr(i + 1)] = p[Terms(v, j)]
      BY <3>1, <3>2, <3>3 DEF Parsed
    <3>5. v \in Values
      BY MeaningsAreValues
    <3>6. p[Terms(v, j)] = Result(v, j)
      BY <3>3, <3>5, LoopRules
    <3> HIDE DEF p, m, v
    <3>7. p[Expr(i + 1)].v = v /\ p[Expr(i + 1)].at = j
      BY <3>4, <3>6 DEF Result
    <3>8. p[Factor(i)] = Result(v, j + 1)
      BY <1>4, <2>1, <2>3, <3>3, <3>7 DEF parseFactor, v, m
    <3> QED
      BY <1>5, <3>8 DEF p, m, v
  <2>4. CASE ts[i].t \notin {"+", "-"} /\ ~(ts[i].t = "(" /\ ts[j].t = ")")
    <3>1. v = NaN
      BY <1>1, <1>2, <1>5, <2>4 DEF Undivided
    <3> QED
      BY <3>1
  <2> QED
    BY <2>2, <2>3, <2>4
<1>6. CASE ~(i < j)
  <2>1. i = j /\ ts[i].t = "number" /\ v = ts[i].v
    BY <1>1, <1>6 DEF Undivided
  <2>2. At(ts, i) = "number"
    BY <2>1 DEF At
  <2> HIDE DEF p, m, v
  <2>3. p[Factor(i)] = Result(v, j + 1)
    BY <1>4, <2>1, <2>2 DEF parseFactor
  <2> QED
    BY <2>1, <2>3 DEF p, m, v
<1> QED
  BY <1>5, <1>6

\* What means something is parsed as that, if it is so for all shorter stretches.
LEMMA IsParsed ==
    ASSUME NEW ts \in Seq(Tokens), NEW i \in 1..(Len(ts) + 1), NEW j \in 0..Len(ts),
           \A a \in 1..(Len(ts) + 1), b \in 0..Len(ts) : b - a < j - i => Parsed(ts, a, b)
    PROVE  Parsed(ts, i, j)
<1> DEFINE n == Len(ts)
           p == Parser(ts)
           m == Meanings(ts)
           v == m[<<i, j>>]
<1> SUFFICES ASSUME v # NaN
             PROVE  /\ i <= j
                    /\ Sums(ts, i, j) = {} /\ Products(ts, i, j) = {} =>
                         p[Factor(i)] = Result(v, j + 1)
                    /\ Sums(ts, i, j) = {} => p[Term(i)] = p[Factors(v, j + 1)]
                    /\ At(ts, j + 1) \notin {"*", "/"} => p[Expr(i)] = p[Terms(v, j + 1)]
  BY DEF Parsed
<1>1. n \in Nat /\ i \in Nat /\ j \in Nat /\ j + 1 \in 1..(n + 1)
  OBVIOUS
<1>2. v \in Values /\ NaN \in Values
  BY MeaningsAreValues DEF Values
<1>3. \A a \in 1..(n + 1) : /\ p[Expr(a)] = p[Terms(p[Term(a)].v, p[Term(a)].at)]
                            /\ p[Term(a)] = p[Factors(p[Factor(a)].v, p[Factor(a)].at)]
  BY <1>2, ParserRules
<1>4. \A w \in Values, a \in 1..(n + 1) :
          At(ts, a) \notin {"*", "/"} => p[Factors(w, a)] = Result(w, a)
  BY LoopRules
<1>5. \A w, a : Result(w, a).v = w /\ Result(w, a).at = a
  BY DEF Result
<1>6. ASSUME p[Term(i)] = p[Factors(v, j + 1)], At(ts, j + 1) \notin {"*", "/"}
      PROVE  p[Expr(i)] = p[Terms(v, j + 1)]
  <2> HIDE DEF p, m, v
  <2>1. p[Term(i)] = Result(v, j + 1)
    BY <1>1, <1>2, <1>4, <1>6
  <2> QED
    BY <1>3, <1>5, <2>1
<1>7. CASE Sums(ts, i, j) = {} /\ Products(ts, i, j) = {}
  <2>1. i <= j /\ p[Factor(i)] = Result(v, j + 1)
    BY <1>7, UndividedIsParsed
  <2> HIDE DEF p, m, v
  <2>2. p[Term(i)] = p[Factors(v, j + 1)]
    BY <1>3, <1>5, <2>1
  <2> QED
    BY <1>6, <2>1, <2>2
<1>8. CASE Sums(ts, i, j) = {} /\ Products(ts, i, j) # {}
  <2> DEFINE k == Max(Products(ts, i, j))
             a == m[<<i, k - 1>>]
             b == m[<<k + 1, j>>]
  <2>1. /\ k \in (i + 1)..(j - 1) /\ ts[k].t \in {"*", "/"} /\ Depth(ts, i, k) = 0
        /\ \A l \in Products(ts, i, j) : l <= k
    BY <1>8, MaxOfSplits DEF Products
  <2>2. v = Apply(ts[k].t, a, b)
    BY <1>8, MeaningRules
  <2> HIDE DEF k
  <2>3. /\ k - 1 \in 0..n /\ (k - 1) - i < j - i /\ k + 1 \in 1..(n + 1) /\ j - (k + 1) < j - i
        /\ k \in 1..n /\ At(ts, k) = ts[k].t /\ (k - 1) + 1 = k /\ k \in i..j /\ i <= j
        /\ k - 1 \in 0..j
    <3>1. k \in Int /\ i + 1 <= k /\ k <= j - 1 /\ j <= n
      BY <1>1, <2>1
    <3>2. i \in Nat /\ j \in Nat /\ n \in Nat /\ 1 <= i
      BY <1>1
    <3>3. k \in 1..n /\ At(ts, k) = ts[k].t
      BY <3>1, <3>2 DEF At
    <3> HIDE DEF n, p, m, v, a, b
    <3> QED
      BY <3>1, <3>2, <3>3
  <2>4. a # NaN /\ b # NaN
    BY <2>1, <2>2, ApplyToNaN DEF Operators
  <2>5. Parsed(ts, i, k - 1) /\ Parsed(ts, k + 1, j)
    BY <2>3
  <2>6. Sums(ts, i, k - 1) = {} /\ Sums(ts, k + 1, j) = {}
    BY <1>8, <2>1, <2>3, SplitsOfParts DEF Sums
  <2>7. Products(ts, k + 1, j) = {}
    <3> SUFFICES ASSUME NEW l \in Products(ts, k + 1, j)
                 PROVE  FALSE
      OBVIOUS
    <3>1. l \in Products(ts, i, j) /\ l > k
      BY <2>1, <2>3, SplitsOfParts DEF Products
    <3>2. l <= k
      BY <2>1, <3>1
    <3>3. l \in Nat
      BY <2>3 DEF Products, Splits
    <3> QED
      BY <2>3, <3>1, <3>2, <3>3
  <2>8. p[Term(i)] = p[Factors(a, k)]
    BY <2>3, <2>4, <2>5, <2>6 DEF Parsed
  <2>9. p[Factor(k + 1)] = Result(b, j + 1)
    BY <2>4, <2>5, <2>6, <2>7 DEF Parsed
  <2>10. a \in Values
    BY <2>3, MeaningsAreValues
  <2>11. p[Factors(a, k)] = p[Factors(Apply(At(ts, k), a, p[Factor(k + 1)].v), p[Factor(k + 1)].at)]
    <3>1. k \in 1..(n + 1) /\ At(ts, k) \in {"*", "/"}
      BY <2>1, <2>3
    <3> QED
      BY <2>4, <2>10, <3>1, LoopRules
  <2> HIDE DEF p, m, v, a, b
  <2>12. p[Term(i)] = p[Factors(v, j + 1)]
    BY <1>5, <2>2, <2>3, <2>8, <2>9, <2>11, SMTT(30)
  <2> QED
    BY <1>6, <1>8, <2>3, <2>12
<1>9. CASE Sums(ts, i, j) # {}
  <2> DEFINE k == Max(Sums(ts, i, j))
             a == m[<<i, k - 1>>]
             b == m[<<k + 1, j>>]
  <2>1. /\ k \in (i + 1)..(j - 1) /\ ts[k].t \in {"+", "-"} /\ Depth(ts, i, k) = 0
        /\ \A l \in Sums(ts, i, j) : l <= k
    BY <1>9, MaxOfSplits DEF Sums
  <2>2. v = Apply(ts[k].t, a, b)
    BY <1>9, MeaningRules
  <2> HIDE DEF k
  <2>3. /\ k - 1 \in 0..n /\ (k - 1) - i < j - i /\ k + 1 \in 1..(n + 1) /\ j - (k + 1) < j - i
        /\ k \in 1..n /\ At(ts, k) = ts[k].t /\ (k - 1) + 1 = k /\ k \in i..j /\ i <= j
    <3>1. k \in Int /\ i + 1 <= k /\ k <= j - 1 /\ j <= n
      BY <1>1, <2>1
    <3>2. i \in Nat /\ j \in Nat /\ n \in Nat /\ 1 <= i
      BY <1>1
    <3>3. k \in 1..n /\ At(ts, k) = ts[k].t
      BY <3>1, <3>2 DEF At
    <3> HIDE DEF n, p, m, v, a, b
    <3> QED
      BY <3>1, <3>2, <3>3
  <2>4. a # NaN /\ b # NaN
    BY <2>1, <2>2, ApplyToNaN DEF Operators
  <2>5. Parsed(ts, i, k - 1) /\ Parsed(ts, k + 1, j)
    BY <2>3
  <2>6. Sums(ts, k + 1, j) = {}
    <3> SUFFICES ASSUME NEW l \in Sums(ts, k + 1, j)
                 PROVE  FALSE
      OBVIOUS
    <3>1. l \in Sums(ts, i, j) /\ l > k
      BY <2>1, <2>3, SplitsOfParts DEF Sums
    <3>2. l <= k
      BY <2>1, <3>1
    <3>3. l \in Nat
      BY <2>3 DEF Sums, Splits
    <3> QED
      BY <2>3, <3>1, <3>2, <3>3
  <2>7. At(ts, k) \notin {"*", "/"} /\ At(ts, k) \in {"+", "-"}
    BY <2>1, <2>3
  <2>8. p[Expr(i)] = p[Terms(a, k)]
    BY <2>3, <2>4, <2>5, <2>7 DEF Parsed
  <2>9. p[Term(k + 1)] = p[Factors(b, j + 1)]
    BY <2>4, <2>5, <2>6 DEF Parsed
  <2>10. a \in Values /\ b \in Values
    BY <2>3, MeaningsAreValues
  <2>11. p[Terms(a, k)] = p[Terms(Apply(At(ts, k), a, p[Term(k + 1)].v), p[Term(k + 1)].at)]
    <3>1. k \in 1..(n + 1)
      BY <2>3
    <3> QED
      BY <2>4, <2>7, <2>10, <3>1, LoopRules
  <2> HIDE DEF p, m, v, a, b
  <2>12. ASSUME At(ts, j + 1) \notin {"*", "/"}
         PROVE  p[Expr(i)] = p[Terms(v, j + 1)]
    <3>1. p[Term(k + 1)] = Result(b, j + 1)
      BY <1>1, <1>4, <2>9, <2>10, <2>12
    <3> QED
      BY <1>5, <2>2, <2>3, <2>8, <2>11, <3>1, SMTT(30)
  <2> QED
    BY <1>9, <2>3, <2>12
<1> QED
  BY <1>7, <1>8, <1>9

\* What means something is parsed as that.
LEMMA AllIsParsed ==
    ASSUME NEW ts \in Seq(Tokens)
    PROVE  \A i \in 1..(Len(ts) + 1), j \in 0..Len(ts) : Parsed(ts, i, j)
<1> DEFINE n == Len(ts)
           G == {w \in Nat : \A i \in 1..(n + 1), j \in 0..n : (j + n + 1) - i < w => Parsed(ts, i, j)}
<1>1. 0 \in G
  OBVIOUS
<1>2. ASSUME NEW w \in Nat, w \in G
      PROVE  w + 1 \in G
  <2> SUFFICES ASSUME NEW i \in 1..(n + 1), NEW j \in 0..n, (j + n + 1) - i < w + 1
               PROVE  Parsed(ts, i, j)
    OBVIOUS
  <2>1. \A a \in 1..(n + 1), b \in 0..n : b - a < j - i => Parsed(ts, a, b)
    BY <1>2
  <2> QED
    BY <2>1, IsParsed
<1> HIDE DEF G
<1>3. 2 * n + 1 \in G
  <2>1. 2 * n + 1 \in Nat
    OBVIOUS
  <2> QED
    BY <1>1, <1>2, <2>1, AllNumbers
<1>4. \A i \in 1..(n + 1), j \in 0..n : (j + n + 1) - i < 2 * n + 1
  OBVIOUS
<1> QED
  BY <1>3, <1>4 DEF G

-----------------------------------------------------------------------------
\* What is parsed means that

\* The tokens i to j are closed, end like an operand, and mean v: as a sum, as a term
\* without a sum outside parentheses, as a factor without a product either.
Closed(ts, i, j) ==
  /\ i <= j /\ j <= Len(ts) /\ ts[j].t \in {"number", ")"}
  /\ Depth(ts, i, j) = 0
  /\ \A l \in i..j : Depth(ts, i, l) >= 0

SumMeans(ts, i, j, v) == Closed(ts, i, j) /\ Meanings(ts)[<<i, j>>] = v
TermMeans(ts, i, j, v) == SumMeans(ts, i, j, v) /\ Sums(ts, i, j) = {}
FactorMeans(ts, i, j, v) == TermMeans(ts, i, j, v) /\ Products(ts, i, j) = {}

\* Two closed stretches with an operator between them are one, whose splits are the
\* operator and those of the stretch before it, when there are none in the one behind it.
LEMMA JoinIsClosed ==
    ASSUME NEW ts \in Seq(Tokens), NEW i \in 1..Len(ts), NEW s \in 1..Len(ts), NEW j \in 1..Len(ts),
           Closed(ts, i, s - 1), Closed(ts, s + 1, j), ts[s].t \in Operators
    PROVE  Closed(ts, i, j) /\ Depth(ts, i, s) = 0 /\ i < s /\ s < j
<1>1. /\ i <= s - 1 /\ s + 1 <= j /\ i \in Nat /\ s \in Nat /\ j \in Nat /\ s - 1 \in Nat
      /\ (s - 1) + 1 = s /\ Len(ts) \in Nat /\ j <= Len(ts)
  BY DEF Closed
<1>2. Depth(ts, s, s) = 0
  BY <1>1, DepthOfOne DEF Operators
<1>3. Depth(ts, i, s) = Depth(ts, i, s - 1) + Depth(ts, s, s)
  <2> DEFINE r == s - 1
  <2>1. r \in Nat /\ r + 1 = s /\ i \in Nat /\ s \in Nat /\ i <= r + 1 /\ r <= s
    BY <1>1
  <2> HIDE DEF r
  <2>2. Depth(ts, i, s) = Depth(ts, i, r) + Depth(ts, r + 1, s)
    BY <2>1, DepthAdds
  <2> QED
    BY <2>1, <2>2 DEF r
<1>4. Depth(ts, i, s) = 0
  BY <1>2, <1>3 DEF Closed
<1>5. ASSUME NEW l \in Nat, s <= l
      PROVE  Depth(ts, i, l) = Depth(ts, s + 1, l)
  <2>1. Depth(ts, i, l) = Depth(ts, i, s) + Depth(ts, s + 1, l) /\ Depth(ts, s + 1, l) \in Int
    <3>1. i \in Nat /\ s \in Nat /\ l \in Nat /\ i <= s + 1 /\ s <= l
      BY <1>1, <1>5
    <3> QED
      BY <3>1, DepthAdds
  <2> QED
    BY <1>4, <2>1
<1>6. Depth(ts, i, j) = 0
  BY <1>1, <1>5 DEF Closed
<1>7. ASSUME NEW l \in i..j
      PROVE  Depth(ts, i, l) >= 0
  <2>1. CASE l <= s - 1
    <3>1. l \in i..(s - 1)
      BY <1>1, <2>1
    <3> QED
      BY <3>1 DEF Closed
  <2>2. CASE l = s
    BY <1>4, <2>2
  <2>3. CASE s < l
    <3>1. l \in (s + 1)..j /\ l \in Nat /\ s <= l
      BY <1>1, <2>3
    <3> QED
      BY <1>5, <3>1 DEF Closed
  <2> QED
    BY <1>1, <2>1, <2>2, <2>3
<1> QED
  BY <1>1, <1>4, <1>6, <1>7 DEF Closed

\* Where the joined stretch is split last.
LEMMA JoinSplits ==
    ASSUME NEW ts \in Seq(Tokens), NEW i \in 1..Len(ts), NEW s \in 1..Len(ts), NEW j \in 1..Len(ts),
           Closed(ts, i, s - 1), Closed(ts, s + 1, j), ts[s].t \in Operators,
           NEW ops \in SUBSET Operators, Splits(ts, ops, s + 1, j) = {}
    PROVE  /\ ts[s].t \in ops => /\ Splits(ts, ops, i, j) # {}
                                 /\ Max(Splits(ts, ops, i, j)) = s
           /\ ts[s].t \notin ops /\ Splits(ts, ops, i, s - 1) = {} => Splits(ts, ops, i, j) = {}
<1>1. Depth(ts, i, s) = 0 /\ i < s /\ s < j
  BY JoinIsClosed
<1>2. /\ i \in Nat /\ s \in Nat /\ j \in Nat /\ Len(ts) \in Nat /\ j <= Len(ts)
      /\ ts[s - 1].t \in {"number", ")"}
  BY DEF Closed
<1>3. ASSUME NEW k \in Splits(ts, ops, i, j)
      PROVE  k \in Nat /\ (k \in Splits(ts, ops, i, s - 1) \/ (k = s /\ ts[s].t \in ops))
  <2>1. /\ k \in (i + 1)..(j - 1) /\ ts[k].t \in ops /\ ts[k - 1].t \in {"number", ")"}
        /\ Depth(ts, i, k) = 0
    BY DEF Splits
  <2>2. k \in Nat /\ i + 1 <= k /\ k <= j - 1
    BY <1>2, <2>1
  <2>3. CASE k <= s - 2
    <3>1. k \in (i + 1)..((s - 1) - 1)
      BY <1>2, <2>2, <2>3
    <3> QED
      BY <2>1, <2>2, <3>1 DEF Splits
  <2>4. CASE k = s - 1
    <3>1. ts[k].t \in Operators /\ ts[k].t \in {"number", ")"}
      BY <1>2, <2>1, <2>4
    <3> QED
      BY <3>1 DEF Operators
  <2>5. CASE k = s
    BY <2>1, <2>2, <2>5
  <2>6. CASE k = s + 1
    <3>1. ts[s].t \in {"number", ")"}
      <4>1. k - 1 = s
        BY <1>2, <2>6
      <4> QED
        BY <2>1, <4>1
    <3> QED
      BY <3>1 DEF Operators
  <2>7. CASE k >= s + 2
    <3>1. Depth(ts, i, k) = Depth(ts, i, s) + Depth(ts, s + 1, k) /\ Depth(ts, s + 1, k) \in Int
      <4>1. i <= s + 1 /\ s <= k
        BY <1>1, <1>2, <2>2, <2>7
      <4> QED
        BY <1>2, <2>2, <4>1, DepthAdds
    <3>2. Depth(ts, s + 1, k) = 0
      BY <1>1, <2>1, <3>1
    <3>3. k \in ((s + 1) + 1)..(j - 1)
      BY <1>2, <2>2, <2>7
    <3>4. k \in Splits(ts, ops, s + 1, j)
      BY <2>1, <3>2, <3>3 DEF Splits
    <3> QED
      BY <3>4
  <2> QED
    BY <1>2, <2>2, <2>3, <2>4, <2>5, <2>6, <2>7
<1>4. \A k \in Splits(ts, ops, i, s - 1) : k <= s - 2
  BY <1>2 DEF Splits
<1>5. ASSUME ts[s].t \in ops
      PROVE  Splits(ts, ops, i, j) # {} /\ Max(Splits(ts, ops, i, j)) = s
  <2>1. s \in (i + 1)..(j - 1)
    BY <1>1, <1>2
  <2>2. s \in Splits(ts, ops, i, j)
    BY <1>1, <1>2, <1>5, <2>1 DEF Splits
  <2>3. \A k \in Splits(ts, ops, i, j) : k \in Nat /\ k <= s
    BY <1>2, <1>3, <1>4
  <2>4. Splits(ts, ops, i, j) \subseteq 0..s
    BY <1>2, <2>3
  <2>5. /\ Max(Splits(ts, ops, i, j)) \in Splits(ts, ops, i, j)
        /\ \A k \in Splits(ts, ops, i, j) : k <= Max(Splits(ts, ops, i, j))
    BY <1>2, <2>2, <2>4, MaxIsGreatest
  <2> DEFINE k == Max(Splits(ts, ops, i, j))
  <2>6. k \in Nat /\ k <= s /\ s <= k
    BY <2>2, <2>3, <2>5
  <2> HIDE DEF k
  <2>7. k = s
    BY <1>2, <2>6
  <2> QED
    BY <2>2, <2>7 DEF k
<1>6. ASSUME ts[s].t \notin ops, Splits(ts, ops, i, s - 1) = {}
      PROVE  Splits(ts, ops, i, j) = {}
  BY <1>3, <1>6
<1> QED
  BY <1>5, <1>6

\* A term, then * or /, then a factor, is a term, and means their product or quotient.
LEMMA JoinTerm ==
    ASSUME NEW ts \in Seq(Tokens), NEW i \in 1..Len(ts), NEW s \in 1..Len(ts), NEW j \in 1..Len(ts),
           NEW u, NEW w, TermMeans(ts, i, s - 1, u), FactorMeans(ts, s + 1, j, w),
           ts[s].t \in {"*", "/"}
    PROVE  TermMeans(ts, i, j, Apply(ts[s].t, u, w))
<1>1. /\ Closed(ts, i, s - 1) /\ Closed(ts, s + 1, j) /\ ts[s].t \in Operators
      /\ Sums(ts, i, s - 1) = {} /\ Sums(ts, s + 1, j) = {} /\ Products(ts, s + 1, j) = {}
      /\ Meanings(ts)[<<i, s - 1>>] = u /\ Meanings(ts)[<<s + 1, j>>] = w
  BY DEF FactorMeans, TermMeans, SumMeans, Operators
<1>2. Closed(ts, i, j)
  BY <1>1, JoinIsClosed
<1>3. {"+", "-"} \in SUBSET Operators /\ {"*", "/"} \in SUBSET Operators
  BY DEF Operators
<1>4. Sums(ts, i, j) = {}
  <2> DEFINE ops == {"+", "-"}
  <2>1. /\ ts[s].t \notin ops /\ ops \in SUBSET Operators
        /\ Splits(ts, ops, i, s - 1) = {} /\ Splits(ts, ops, s + 1, j) = {}
    BY <1>1, <1>3 DEF Sums
  <2> HIDE DEF ops
  <2>2. Splits(ts, ops, i, j) = {}
    BY <1>1, <2>1, JoinSplits, SMTT(30)
  <2> QED
    BY <2>2 DEF ops, Sums
<1>5. Products(ts, i, j) # {} /\ Max(Products(ts, i, j)) = s
  <2> DEFINE ops == {"*", "/"}
  <2>1. ts[s].t \in ops /\ ops \in SUBSET Operators /\ Splits(ts, ops, s + 1, j) = {}
    BY <1>1, <1>3 DEF Products
  <2> HIDE DEF ops
  <2>2. Splits(ts, ops, i, j) # {} /\ Max(Splits(ts, ops, i, j)) = s
    BY <1>1, <2>1, JoinSplits, SMTT(30)
  <2> QED
    BY <2>2 DEF ops, Products
<1>6. Meanings(ts)[<<i, j>>] = Apply(ts[s].t, u, w)
  <2>1. i \in 1..(Len(ts) + 1) /\ j \in 0..Len(ts)
    OBVIOUS
  <2> QED
    BY <1>1, <1>4, <1>5, <2>1, MeaningRules
<1> QED
  BY <1>2, <1>4, <1>6 DEF TermMeans, SumMeans

\* A sum, then + or -, then a term, is a sum, and means what the operator makes of both.
LEMMA JoinSum ==
    ASSUME NEW ts \in Seq(Tokens), NEW i \in 1..Len(ts), NEW s \in 1..Len(ts), NEW j \in 1..Len(ts),
           NEW u, NEW w, SumMeans(ts, i, s - 1, u), TermMeans(ts, s + 1, j, w),
           ts[s].t \in {"+", "-"}
    PROVE  SumMeans(ts, i, j, Apply(ts[s].t, u, w))
<1>1. /\ Closed(ts, i, s - 1) /\ Closed(ts, s + 1, j) /\ ts[s].t \in Operators
      /\ Sums(ts, s + 1, j) = {}
      /\ Meanings(ts)[<<i, s - 1>>] = u /\ Meanings(ts)[<<s + 1, j>>] = w
  BY DEF TermMeans, SumMeans, Operators
<1>2. Closed(ts, i, j)
  BY <1>1, JoinIsClosed
<1>3. {"+", "-"} \in SUBSET Operators
  BY DEF Operators
<1>4. Sums(ts, i, j) # {} /\ Max(Sums(ts, i, j)) = s
  <2> DEFINE ops == {"+", "-"}
  <2>1. ts[s].t \in ops /\ ops \in SUBSET Operators /\ Splits(ts, ops, s + 1, j) = {}
    BY <1>1, <1>3 DEF Sums
  <2> HIDE DEF ops
  <2>2. Splits(ts, ops, i, j) # {} /\ Max(Splits(ts, ops, i, j)) = s
    BY <1>1, <2>1, JoinSplits, SMTT(30)
  <2> QED
    BY <2>2 DEF ops, Sums
<1>5. Meanings(ts)[<<i, j>>] = Apply(ts[s].t, u, w)
  <2>1. i \in 1..(Len(ts) + 1) /\ j \in 0..Len(ts)
    OBVIOUS
  <2> QED
    BY <1>1, <1>4, <2>1, MeaningRules
<1> QED
  BY <1>2, <1>5 DEF SumMeans

\* A number, a sign before a factor, and a sum in parentheses, are factors.
LEMMA NumberMeans ==
    ASSUME NEW ts \in Seq(Tokens), NEW i \in 1..Len(ts), ts[i].t = "number"
    PROVE  FactorMeans(ts, i, i, ts[i].v)
<1>1. i \in Nat /\ i \in 1..(Len(ts) + 1) /\ i \in 0..Len(ts)
  OBVIOUS
<1>2. Depth(ts, i, i) = 0
  BY <1>1, DepthOfOne
<1>3. Closed(ts, i, i)
  <2>1. \A l \in i..i : l = i
    BY <1>1
  <2> QED
    BY <1>1, <1>2, <2>1 DEF Closed
<1>4. \A ops : Splits(ts, ops, i, i) = {}
  BY <1>1 DEF Splits
<1>5. Meanings(ts)[<<i, i>>] = Undivided(ts, Meanings(ts), i, i)
  BY <1>1, <1>4, MeaningRules DEF Sums, Products
<1>6. Undivided(ts, Meanings(ts), i, i) = ts[i].v
  BY <1>1 DEF Undivided
<1> QED
  BY <1>3, <1>4, <1>5, <1>6 DEF FactorMeans, TermMeans, SumMeans, Sums, Products

\* A sign and a factor are a factor.
LEMMA SignMeans ==
    ASSUME NEW ts \in Seq(Tokens), NEW i \in 1..Len(ts), NEW j \in 1..Len(ts),
           NEW u, u # NaN, FactorMeans(ts, i + 1, j, u), ts[i].t \in {"+", "-"}
    PROVE  FactorMeans(ts, i, j, IF ts[i].t = "-" THEN Negated(u) ELSE u)
<1>1. /\ i \in Nat /\ j \in Nat /\ i + 1 <= j /\ i \in 1..(Len(ts) + 1) /\ j \in 0..Len(ts)
      /\ j <= Len(ts)
  BY DEF FactorMeans, TermMeans, SumMeans, Closed
<1>2. /\ Closed(ts, i + 1, j) /\ Meanings(ts)[<<i + 1, j>>] = u
      /\ Splits(ts, {"+", "-"}, i + 1, j) = {} /\ Splits(ts, {"*", "/"}, i + 1, j) = {}
  BY DEF FactorMeans, TermMeans, SumMeans, Sums, Products
<1>3. ASSUME NEW l \in Nat, i <= l
      PROVE  Depth(ts, i, l) = Depth(ts, i + 1, l)
  <2>1. Depth(ts, i, l) = 0 + Depth(ts, i + 1, l) /\ Depth(ts, i + 1, l) \in Int
    BY <1>1, <1>3, DepthFirst
  <2> QED
    BY <2>1
<1>4. Closed(ts, i, j)
  <2>1. Depth(ts, i, j) = 0
    BY <1>1, <1>2, <1>3 DEF Closed
  <2>2. ASSUME NEW l \in i..j
        PROVE  Depth(ts, i, l) >= 0
    <3>1. l \in Nat /\ i <= l
      BY <1>1
    <3>2. CASE l = i
      BY <1>1, <3>2, DepthOfOne
    <3>3. CASE l # i
      <4>1. l \in (i + 1)..j
        BY <1>1, <3>1, <3>3
      <4> QED
        BY <1>2, <1>3, <3>1, <4>1 DEF Closed
    <3> QED
      BY <3>2, <3>3
  <2>3. i <= j
    BY <1>1
  <2> QED
    BY <1>2, <2>1, <2>2, <2>3 DEF Closed
<1>5. ASSUME NEW ops, Splits(ts, ops, i + 1, j) = {}
      PROVE  Splits(ts, ops, i, j) = {}
  <2> SUFFICES ASSUME NEW k \in Splits(ts, ops, i, j)
               PROVE  FALSE
    OBVIOUS
  <2>1. /\ k \in (i + 1)..(j - 1) /\ ts[k].t \in ops /\ ts[k - 1].t \in {"number", ")"}
        /\ Depth(ts, i, k) = 0
    BY DEF Splits
  <2>2. k \in Nat /\ i + 1 <= k /\ k <= j - 1
    BY <1>1, <2>1
  <2>3. k # i + 1
    <3> SUFFICES ASSUME k = i + 1
                 PROVE  FALSE
      OBVIOUS
    <3>1. k - 1 = i
      BY <1>1
    <3> QED
      BY <2>1, <3>1
  <2>4. k \in ((i + 1) + 1)..(j - 1)
    BY <1>1, <2>2, <2>3
  <2>5. Depth(ts, i + 1, k) = 0
    BY <1>1, <1>3, <2>1, <2>2
  <2>6. k \in Splits(ts, ops, i + 1, j)
    BY <2>1, <2>4, <2>5 DEF Splits
  <2> QED
    BY <1>5, <2>6
<1>6. Sums(ts, i, j) = {} /\ Products(ts, i, j) = {}
  BY <1>2, <1>5 DEF Sums, Products
<1>7. Meanings(ts)[<<i, j>>] = Undivided(ts, Meanings(ts), i, j)
  BY <1>1, <1>6, MeaningRules
<1>8. Undivided(ts, Meanings(ts), i, j) = IF ts[i].t = "-" THEN Negated(u) ELSE u
  <2>1. i < j /\ i # j
    BY <1>1
  <2>2. CASE ts[i].t = "-"
    BY <1>2, <2>1, <2>2 DEF Undivided
  <2>3. CASE ts[i].t = "+"
    BY <1>2, <2>1, <2>3 DEF Undivided
  <2> QED
    BY <2>2, <2>3
<1> QED
  BY <1>4, <1>6, <1>7, <1>8 DEF FactorMeans, TermMeans, SumMeans

\* A sum in parentheses is a factor, and means what the sum means.
LEMMA ParenthesisMeans ==
    ASSUME NEW ts \in Seq(Tokens), NEW i \in 1..Len(ts), NEW j \in 1..Len(ts),
           NEW u, SumMeans(ts, i + 1, j - 1, u), ts[i].t = "(", ts[j].t = ")"
    PROVE  FactorMeans(ts, i, j, u)
<1>1. /\ i \in Nat /\ j \in Nat /\ i + 1 <= j - 1 /\ i \in 1..(Len(ts) + 1) /\ j \in 0..Len(ts)
      /\ j <= Len(ts)
  BY DEF SumMeans, Closed
<1>2. Closed(ts, i + 1, j - 1) /\ Meanings(ts)[<<i + 1, j - 1>>] = u
  BY DEF SumMeans
<1>3. ASSUME NEW l \in Nat, i <= l
      PROVE  Depth(ts, i, l) = 1 + Depth(ts, i + 1, l) /\ Depth(ts, i + 1, l) \in Int
  BY <1>1, <1>3, DepthFirst
<1>4. ASSUME NEW l \in i..(j - 1)
      PROVE  Depth(ts, i, l) >= 1
  <2>1. l \in Nat /\ i <= l /\ l <= j - 1
    BY <1>1
  <2>2. CASE l = i
    BY <1>1, <2>2, DepthOfOne
  <2>3. CASE l # i
    <3>1. l \in (i + 1)..(j - 1)
      BY <1>1, <2>1, <2>3
    <3>2. Depth(ts, i + 1, l) >= 0
      BY <1>2, <3>1 DEF Closed
    <3> QED
      BY <1>3, <2>1, <3>2
  <2> QED
    BY <2>2, <2>3
<1>5. Depth(ts, i, j) = 0
  <2> DEFINE r == j - 1
  <2>1. r \in Nat /\ r + 1 = j /\ i + 1 \in Nat /\ j \in Nat /\ i + 1 <= r + 1 /\ r <= j
    BY <1>1
  <2>2. Depth(ts, i + 1, r) = 0
    BY <1>2 DEF Closed
  <2> HIDE DEF r
  <2>3. Depth(ts, i + 1, j) = Depth(ts, i + 1, r) + Depth(ts, r + 1, j)
    BY <2>1, DepthAdds
  <2>4. Depth(ts, j, j) = -1
    BY <1>1, DepthOfOne
  <2>5. Depth(ts, i + 1, j) = -1
    BY <2>1, <2>2, <2>3, <2>4
  <2>6. i <= j
    BY <1>1
  <2> QED
    BY <1>1, <1>3, <2>5, <2>6
<1>6. Closed(ts, i, j)
  <2>1. ASSUME NEW l \in i..j
        PROVE  Depth(ts, i, l) >= 0
    <3>1. CASE l = j
      BY <1>5, <3>1
    <3>2. CASE l # j
      <4>1. l \in i..(j - 1) /\ l \in Nat /\ i <= l
        BY <1>1, <3>2
      <4>2. Depth(ts, i, l) \in Int
        BY <1>3, <4>1
      <4> QED
        BY <1>4, <4>1, <4>2
    <3> QED
      BY <3>1, <3>2
  <2>2. i <= j
    BY <1>1
  <2> QED
    BY <1>1, <1>5, <2>1, <2>2 DEF Closed
<1>7. ASSUME NEW ops
      PROVE  Splits(ts, ops, i, j) = {}
  <2> SUFFICES ASSUME NEW k \in Splits(ts, ops, i, j)
               PROVE  FALSE
    OBVIOUS
  <2>1. k \in (i + 1)..(j - 1) /\ Depth(ts, i, k) = 0
    BY DEF Splits
  <2>2. k \in i..(j - 1)
    BY <1>1, <2>1
  <2> QED
    BY <1>4, <2>1, <2>2
<1>8. Sums(ts, i, j) = {} /\ Products(ts, i, j) = {}
  BY <1>7 DEF Sums, Products
<1>9. Meanings(ts)[<<i, j>>] = Undivided(ts, Meanings(ts), i, j)
  BY <1>1, <1>8, MeaningRules
<1>10. Undivided(ts, Meanings(ts), i, j) = u
  <2>1. i < j /\ i # j
    BY <1>1
  <2> QED
    BY <1>2, <2>1 DEF Undivided
<1> QED
  BY <1>6, <1>8, <1>9, <1>10 DEF FactorMeans, TermMeans, SumMeans

\* What the calls at a position return means what they say.
FactorSound(ts, i) ==
  LET r == Parser(ts)[Factor(i)] IN r.v # NaN => FactorMeans(ts, i, r.at - 1, r.v)
TermSound(ts, i) ==
  LET r == Parser(ts)[Term(i)] IN r.v # NaN => TermMeans(ts, i, r.at - 1, r.v)
ExprSound(ts, i) ==
  LET r == Parser(ts)[Expr(i)] IN r.v # NaN => SumMeans(ts, i, r.at - 1, r.v)
FactorsSound(ts, i) ==
  \A a \in 1..Len(ts), v \in Values :
    LET r == Parser(ts)[Factors(v, i)]
    IN TermMeans(ts, a, i - 1, v) /\ r.v # NaN => TermMeans(ts, a, r.at - 1, r.v)
TermsSound(ts, i) ==
  \A a \in 1..Len(ts), v \in Values :
    LET r == Parser(ts)[Terms(v, i)]
    IN SumMeans(ts, a, i - 1, v) /\ r.v # NaN => SumMeans(ts, a, r.at - 1, r.v)

AllSound(ts, i) == /\ FactorSound(ts, i) /\ TermSound(ts, i) /\ ExprSound(ts, i)
                   /\ FactorsSound(ts, i) /\ TermsSound(ts, i)

\* What parseFactor returns is what the tokens it has read mean, if it is so further on.
LEMMA FactorIsSound ==
    ASSUME NEW ts \in Seq(Tokens), NEW i \in 1..(Len(ts) + 1),
           \A k \in (i + 1)..(Len(ts) + 1) : AllSound(ts, k)
    PROVE  FactorSound(ts, i)
<1> DEFINE n == Len(ts)
           p == Parser(ts)
           r == p[Factor(i)]
<1> SUFFICES ASSUME r.v # NaN
             PROVE  FactorMeans(ts, i, r.at - 1, r.v)
  BY DEF FactorSound
<1>1. NaN \in Values
  BY DEF Values
<1>2. r = parseFactor(ts, p, i)
  BY <1>1, ParserRules
<1>3. \A v, k : Result(v, k).v = v /\ Result(v, k).at = k
  BY DEF Result
<1>4. At(ts, i) \in {"+", "-", "(", "number"}
  <2> SUFFICES ASSUME At(ts, i) \notin {"+", "-", "(", "number"}
               PROVE  FALSE
    OBVIOUS
  <2> HIDE DEF p, r
  <2>1. r = Result(NaN, i)
    BY <1>2 DEF parseFactor, Thrown
  <2> QED
    BY <1>3, <2>1 DEF r
<1>5. i \in 1..n /\ At(ts, i) = ts[i].t /\ i + 1 \in (i + 1)..(n + 1) /\ i + 1 \in 1..(n + 1)
      /\ n \in Nat
  BY <1>4, OperatorIsInside
<1>6. FactorSound(ts, i + 1) /\ ExprSound(ts, i + 1)
  BY <1>5 DEF AllSound
<1>7. /\ p[Factor(i + 1)].v \in Values /\ p[Factor(i + 1)].at \in (i + 1)..(n + 1)
      /\ p[Expr(i + 1)].v \in Values /\ p[Expr(i + 1)].at \in (i + 1)..(n + 1)
  BY <1>1, <1>5, ParserRules
<1>8. CASE At(ts, i) \in {"+", "-"}
  <2> DEFINE f == p[Factor(i + 1)]
             u == IF ts[i].t = "-" THEN Negated(f.v) ELSE f.v
  <2>1. f.v # NaN /\ r.v = u /\ r.at = f.at
    <3>1. CASE At(ts, i) = "+"
      <4>1. r = f
        BY <1>2, <3>1 DEF parseFactor
      <4> HIDE DEF r, f
      <4> QED
        BY <1>5, <3>1, <4>1 DEF r
    <3>2. CASE At(ts, i) = "-"
      <4> HIDE DEF r
      <4>1. r = IF f.v = NaN THEN f ELSE Result(Negated(f.v), f.at)
        BY <1>2, <3>2 DEF parseFactor
      <4>2. f.v # NaN
        BY <4>1 DEF r
      <4> HIDE DEF f
      <4> QED
        BY <1>3, <1>5, <3>2, <4>1, <4>2
    <3> QED
      BY <1>8, <3>1, <3>2
  <2>2. FactorMeans(ts, i + 1, f.at - 1, f.v)
    BY <1>6, <2>1 DEF FactorSound
  <2>3. f.at - 1 \in 1..n
    BY <1>5, <1>7, <2>2 DEF FactorMeans, TermMeans, SumMeans, Closed
  <2> HIDE DEF r, f
  <2>4. FactorMeans(ts, i, f.at - 1, u)
    BY <1>5, <1>8, <2>1, <2>2, <2>3, SignMeans
  <2> QED
    BY <2>1, <2>4
<1>9. CASE At(ts, i) = "("
  <2> DEFINE s == p[Expr(i + 1)]
  <2>1. r = IF s.v = NaN \/ At(ts, s.at) # ")" THEN Thrown(i) ELSE Result(s.v, s.at + 1)
    BY <1>2, <1>9 DEF parseFactor
  <2>2. s.v # NaN /\ At(ts, s.at) = ")"
    <3> HIDE DEF r, s
    <3> SUFFICES ASSUME ~(s.v # NaN /\ At(ts, s.at) = ")")
                 PROVE  FALSE
      OBVIOUS
    <3>1. r = Result(NaN, i)
      BY <2>1 DEF Thrown
    <3> QED
      BY <1>3, <3>1 DEF r
  <2>3. SumMeans(ts, i + 1, s.at - 1, s.v)
    BY <1>6, <2>2 DEF ExprSound
  <2>4. s.at \in 1..n /\ ts[s.at].t = ")"
    <3>1. s.at \in 1..(n + 1)
      BY <1>5, <1>7
    <3> QED
      BY <2>2, <3>1, OperatorIsInside
  <2> HIDE DEF s
  <2>5. FactorMeans(ts, i, s.at, s.v)
    BY <1>5, <1>9, <2>3, <2>4, ParenthesisMeans
  <2>6. r.v = s.v /\ r.at = s.at + 1
    BY <1>3, <2>1, <2>2
  <2>7. (s.at + 1) - 1 = s.at
    BY <2>4
  <2> HIDE DEF r
  <2> QED
    BY <2>5, <2>6, <2>7
<1>10. CASE At(ts, i) = "number"
  <2> HIDE DEF r
  <2>1. r = Result(ts[i].v, i + 1)
    BY <1>2, <1>10 DEF parseFactor
  <2>2. FactorMeans(ts, i, i, ts[i].v)
    BY <1>5, <1>10, NumberMeans
  <2>3. r.v = ts[i].v /\ r.at = i + 1 /\ (i + 1) - 1 = i
    BY <1>3, <1>5, <2>1
  <2> QED
    BY <2>2, <2>3
<1> QED
  BY <1>4, <1>8, <1>9, <1>10

\* What the loops of parseExpr and parseTerm return is what the tokens read so far mean,
\* if it is so further on.
LEMMA LoopsAreSound ==
    ASSUME NEW ts \in Seq(Tokens), NEW i \in 1..(Len(ts) + 1),
           \A k \in (i + 1)..(Len(ts) + 1) : AllSound(ts, k)
    PROVE  FactorsSound(ts, i) /\ TermsSound(ts, i)
<1> DEFINE n == Len(ts)
           p == Parser(ts)
<1>1. NaN \in Values
  BY DEF Values
<1>2. \A v, k : Result(v, k).v = v /\ Result(v, k).at = k
  BY DEF Result
<1>3. ASSUME NEW a \in 1..n, NEW v \in Values, TermMeans(ts, a, i - 1, v),
             p[Factors(v, i)].v # NaN
      PROVE  TermMeans(ts, a, p[Factors(v, i)].at - 1, p[Factors(v, i)].v)
  <2>1. CASE v = NaN \/ At(ts, i) \notin {"*", "/"}
    <3>1. p[Factors(v, i)] = Result(v, i)
      BY <2>1, LoopRules
    <3> HIDE DEF p
    <3> QED
      BY <1>2, <1>3, <3>1
  <2>2. CASE v # NaN /\ At(ts, i) \in {"*", "/"}
    <3> DEFINE f == p[Factor(i + 1)]
               w == Apply(At(ts, i), v, f.v)
    <3>1. p[Factors(v, i)] = p[Factors(w, f.at)]
      BY <2>2, LoopRules
    <3>2. i \in 1..n /\ At(ts, i) = ts[i].t /\ i + 1 \in (i + 1)..(n + 1) /\ i + 1 \in 1..(n + 1)
          /\ n \in Nat
      BY <2>2, OperatorIsInside
    <3>3. f.v \in Values /\ f.at \in (i + 1)..(n + 1)
      BY <1>1, <3>2, ParserRules
    <3>4. w \in Values
      BY <2>2, <3>3, ApplyIsValue DEF Operators
    <3>5. w # NaN /\ f.v # NaN
      <4> SUFFICES ASSUME w = NaN PROVE FALSE
        BY <2>2, ApplyToNaN DEF Operators
      <4>1. f.at \in 1..(n + 1)
        BY <3>2, <3>3
      <4> HIDE DEF f, w
      <4>2. p[Factors(w, f.at)] = Result(w, f.at)
        BY <3>4, <4>1, LoopRules
      <4> HIDE DEF p
      <4> QED
        BY <1>2, <1>3, <3>1, <4>2
    <3>6. FactorMeans(ts, i + 1, f.at - 1, f.v)
      <4>1. FactorSound(ts, i + 1)
        BY <3>2 DEF AllSound
      <4> QED
        BY <3>5, <4>1 DEF FactorSound
    <3>7. f.at - 1 \in 1..n /\ f.at \in (i + 1)..(n + 1)
      BY <3>2, <3>3, <3>6 DEF FactorMeans, TermMeans, SumMeans, Closed
    <3> HIDE DEF f
    <3>8. TermMeans(ts, a, f.at - 1, w)
      BY <1>3, <2>2, <3>2, <3>6, <3>7, JoinTerm
    <3>9. FactorsSound(ts, f.at)
      BY <3>7 DEF AllSound
    <3> HIDE DEF w
    <3>10. p[Factors(w, f.at)].v # NaN
      BY <1>3, <3>1
    <3>11. TermMeans(ts, a, p[Factors(w, f.at)].at - 1, p[Factors(w, f.at)].v)
      BY <3>4, <3>8, <3>9, <3>10 DEF FactorsSound
    <3> QED
      BY <3>1, <3>11
  <2> QED
    BY <2>1, <2>2
<1>4. ASSUME NEW a \in 1..n, NEW v \in Values, SumMeans(ts, a, i - 1, v),
             p[Terms(v, i)].v # NaN
      PROVE  SumMeans(ts, a, p[Terms(v, i)].at - 1, p[Terms(v, i)].v)
  <2>1. CASE v = NaN \/ At(ts, i) \notin {"+", "-"}
    <3>1. p[Terms(v, i)] = Result(v, i)
      BY <2>1, LoopRules
    <3> HIDE DEF p
    <3> QED
      BY <1>2, <1>4, <3>1
  <2>2. CASE v # NaN /\ At(ts, i) \in {"+", "-"}
    <3> DEFINE f == p[Term(i + 1)]
               w == Apply(At(ts, i), v, f.v)
    <3>1. p[Terms(v, i)] = p[Terms(w, f.at)]
      BY <2>2, LoopRules
    <3>2. i \in 1..n /\ At(ts, i) = ts[i].t /\ i + 1 \in (i + 1)..(n + 1) /\ i + 1 \in 1..(n + 1)
          /\ n \in Nat
      BY <2>2, OperatorIsInside
    <3>3. f.v \in Values /\ f.at \in (i + 1)..(n + 1)
      BY <1>1, <3>2, ParserRules
    <3>4. w \in Values
      BY <2>2, <3>3, ApplyIsValue DEF Operators
    <3>5. w # NaN /\ f.v # NaN
      <4> SUFFICES ASSUME w = NaN PROVE FALSE
        BY <2>2, ApplyToNaN DEF Operators
      <4>1. f.at \in 1..(n + 1)
        BY <3>2, <3>3
      <4> HIDE DEF f, w
      <4>2. p[Terms(w, f.at)] = Result(w, f.at)
        BY <3>4, <4>1, LoopRules
      <4> HIDE DEF p
      <4> QED
        BY <1>2, <1>4, <3>1, <4>2
    <3>6. TermMeans(ts, i + 1, f.at - 1, f.v)
      <4>1. TermSound(ts, i + 1)
        BY <3>2 DEF AllSound
      <4> QED
        BY <3>5, <4>1 DEF TermSound
    <3>7. f.at - 1 \in 1..n /\ f.at \in (i + 1)..(n + 1)
      BY <3>2, <3>3, <3>6 DEF TermMeans, SumMeans, Closed
    <3> HIDE DEF f
    <3>8. SumMeans(ts, a, f.at - 1, w)
      BY <1>4, <2>2, <3>2, <3>6, <3>7, JoinSum
    <3>9. TermsSound(ts, f.at)
      BY <3>7 DEF AllSound
    <3> HIDE DEF w
    <3>10. p[Terms(w, f.at)].v # NaN
      BY <1>4, <3>1
    <3>11. SumMeans(ts, a, p[Terms(w, f.at)].at - 1, p[Terms(w, f.at)].v)
      BY <3>4, <3>8, <3>9, <3>10 DEF TermsSound
    <3> QED
      BY <3>1, <3>11
  <2> QED
    BY <2>1, <2>2
<1> QED
  BY <1>3, <1>4 DEF FactorsSound, TermsSound

\* What a call returns is what the tokens it has read mean, if it is so further on.
LEMMA IsSound ==
    ASSUME NEW ts \in Seq(Tokens), NEW i \in 1..(Len(ts) + 1),
           \A k \in (i + 1)..(Len(ts) + 1) : AllSound(ts, k)
    PROVE  AllSound(ts, i)
<1> DEFINE n == Len(ts)
           p == Parser(ts)
<1>1. NaN \in Values /\ n \in Nat /\ i \in Nat
  BY DEF Values
<1>2. \A v, k : Result(v, k).v = v /\ Result(v, k).at = k
  BY DEF Result
<1>3. FactorSound(ts, i)
  BY FactorIsSound
<1>4. FactorsSound(ts, i) /\ TermsSound(ts, i)
  BY LoopsAreSound
<1>5. TermSound(ts, i)
  <2> DEFINE f == p[Factor(i)]
             r == p[Term(i)]
  <2> SUFFICES ASSUME r.v # NaN
               PROVE  TermMeans(ts, i, r.at - 1, r.v)
    BY DEF TermSound
  <2>1. r = p[Factors(f.v, f.at)] /\ f.v \in Values /\ f.at \in i..(n + 1)
    BY <1>1, ParserRules
  <2>2. f.at \in 1..(n + 1)
    BY <1>1, <2>1
  <2>3. f.v # NaN
    <3> SUFFICES ASSUME f.v = NaN PROVE FALSE
      OBVIOUS
    <3> HIDE DEF f
    <3>1. p[Factors(f.v, f.at)] = Result(f.v, f.at)
      BY <2>1, <2>2, LoopRules
    <3> HIDE DEF r, p
    <3> QED
      BY <1>2, <2>1, <3>1 DEF r
  <2>4. FactorMeans(ts, i, f.at - 1, f.v)
    BY <1>3, <2>3 DEF FactorSound
  <2>5. TermMeans(ts, i, f.at - 1, f.v) /\ i <= f.at - 1
    BY <2>4 DEF FactorMeans, TermMeans, SumMeans, Closed
  <2>6. f.at \in (i + 1)..(n + 1) /\ i \in 1..n
    BY <1>1, <2>1, <2>5
  <2>7. FactorsSound(ts, f.at)
    BY <2>6 DEF AllSound
  <2> HIDE DEF f
  <2>8. p[Factors(f.v, f.at)].v # NaN
    BY <2>1
  <2>9. TermMeans(ts, i, p[Factors(f.v, f.at)].at - 1, p[Factors(f.v, f.at)].v)
    BY <2>1, <2>5, <2>6, <2>7, <2>8 DEF FactorsSound
  <2> QED
    BY <2>1, <2>9
<1>6. ExprSound(ts, i)
  <2> DEFINE f == p[Term(i)]
             r == p[Expr(i)]
  <2> SUFFICES ASSUME r.v # NaN
               PROVE  SumMeans(ts, i, r.at - 1, r.v)
    BY DEF ExprSound
  <2>1. r = p[Terms(f.v, f.at)] /\ f.v \in Values /\ f.at \in i..(n + 1)
    BY <1>1, ParserRules
  <2>2. f.at \in 1..(n + 1)
    BY <1>1, <2>1
  <2>3. f.v # NaN
    <3> SUFFICES ASSUME f.v = NaN PROVE FALSE
      OBVIOUS
    <3> HIDE DEF f
    <3>1. p[Terms(f.v, f.at)] = Result(f.v, f.at)
      BY <2>1, <2>2, LoopRules
    <3> HIDE DEF r, p
    <3> QED
      BY <1>2, <2>1, <3>1 DEF r
  <2>4. TermMeans(ts, i, f.at - 1, f.v)
    BY <1>5, <2>3 DEF TermSound
  <2>5. SumMeans(ts, i, f.at - 1, f.v) /\ i <= f.at - 1
    BY <2>4 DEF TermMeans, SumMeans, Closed
  <2>6. f.at \in (i + 1)..(n + 1) /\ i \in 1..n
    BY <1>1, <2>1, <2>5
  <2>7. TermsSound(ts, f.at)
    BY <2>6 DEF AllSound
  <2> HIDE DEF f
  <2>8. p[Terms(f.v, f.at)].v # NaN
    BY <2>1
  <2>9. SumMeans(ts, i, p[Terms(f.v, f.at)].at - 1, p[Terms(f.v, f.at)].v)
    BY <2>1, <2>5, <2>6, <2>7, <2>8 DEF TermsSound
  <2> QED
    BY <2>1, <2>9
<1> QED
  BY <1>3, <1>4, <1>5, <1>6 DEF AllSound

\* What is parsed means that.
LEMMA AllIsSound ==
    ASSUME NEW ts \in Seq(Tokens)
    PROVE  \A i \in 1..(Len(ts) + 1) : AllSound(ts, i)
<1> DEFINE n == Len(ts)
           G == {w \in Nat : \A i \in 1..(n + 1) : i + w > n + 1 => AllSound(ts, i)}
<1>1. 0 \in G
  OBVIOUS
<1>2. ASSUME NEW w \in Nat, w \in G
      PROVE  w + 1 \in G
  <2> SUFFICES ASSUME NEW i \in 1..(n + 1), i + (w + 1) > n + 1
               PROVE  AllSound(ts, i)
    OBVIOUS
  <2>1. \A k \in (i + 1)..(n + 1) : AllSound(ts, k)
    BY <1>2
  <2> QED
    BY <2>1, IsSound
<1> HIDE DEF G
<1>3. n + 1 \in G
  <2>1. n + 1 \in Nat
    OBVIOUS
  <2> QED
    BY <1>1, <1>2, <2>1, AllNumbers
<1> QED
  BY <1>3 DEF G

\* The parser of calc-expression.ts gives every calculation the value that it has
\* when it is split at its last sum, else at its last product, outside parentheses:
\* with the usual precedence, and from left to right; and it refuses what has no such value.
THEOREM ParserGivesMeaning ==
    ASSUME NEW ts \in Seq(Tokens), ts # <<>>
    PROVE  Meaning(ts) = LET r == Parser(ts)[Expr(1)]
                         IN IF r.at <= Len(ts) THEN NaN ELSE r.v
<1> DEFINE n == Len(ts)
           p == Parser(ts)
           r == p[Expr(1)]
           v == Meaning(ts)
<1>1. n \in Nat /\ 1 \in 1..(n + 1) /\ n \in 0..n /\ n + 1 \in 1..(n + 1) /\ 1 <= n
  OBVIOUS
<1>2. NaN \in Values
  BY DEF Values
<1>3. r.v \in Values /\ r.at \in 1..(n + 1)
  BY <1>1, <1>2, ParserRules
<1>4. v = Meanings(ts)[<<1, n>>] /\ v \in Values
  BY <1>1, MeaningsAreValues DEF Meaning
<1>5. ASSUME v # NaN
      PROVE  r = Result(v, n + 1)
  <2>1. Parsed(ts, 1, n)
    BY <1>1, AllIsParsed
  <2>2. At(ts, n + 1) = "end"
    BY <1>1 DEF At
  <2>3. p[Expr(1)] = p[Terms(v, n + 1)]
    BY <1>4, <1>5, <2>1, <2>2 DEF Parsed
  <2> HIDE DEF v
  <2>4. p[Terms(v, n + 1)] = Result(v, n + 1)
    BY <1>1, <1>4, <2>2, LoopRules
  <2> QED
    BY <2>3, <2>4
<1>6. ASSUME r.v # NaN, r.at > n
      PROVE  v = r.v
  <2>1. ExprSound(ts, 1)
    BY <1>1, AllIsSound DEF AllSound
  <2>2. SumMeans(ts, 1, r.at - 1, r.v)
    BY <1>6, <2>1 DEF ExprSound
  <2>3. r.at - 1 = n
    BY <1>1, <1>3, <1>6
  <2> HIDE DEF r
  <2> QED
    BY <1>4, <2>2, <2>3 DEF SumMeans
<1>7. CASE v # NaN
  <2> HIDE DEF r, v
  <2>1. r.v = v /\ r.at = n + 1
    BY <1>5, <1>7 DEF Result
  <2> QED
    BY <1>1, <2>1 DEF r, v
<1>8. CASE v = NaN
  <2>1. r.v = NaN \/ r.at <= n
    BY <1>1, <1>3, <1>6, <1>8
  <2> QED
    BY <1>8, <2>1
<1> QED
  BY <1>7, <1>8

-----------------------------------------------------------------------------
\* The field

\* What is typed amounts to its meaning.
LEMMA AmountIsMeaning ==
    ASSUME NEW text \in Texts
    PROVE  LET ts == tokenize(text)
           IN /\ ts \in Seq(Tokens)
              /\ AmountOf(text) \in Values
              /\ ts = <<>> => AmountOf(text) = NaN
              /\ ts # <<>> => AmountOf(text) = IF Invalid(ts) THEN NaN ELSE Meaning(ts)
<1> DEFINE ts == tokenize(text)
           r == Parser(ts)[Expr(1)]
<1>1. text \in Seq(Characters)
  BY DEF Texts
<1>2. ts \in Seq(Tokens)
  BY <1>1, tokenizeGivesTokens
<1>3. r.v \in Values
  <2>1. NaN \in Values /\ 1 \in 1..(Len(ts) + 1)
    BY <1>2 DEF Values
  <2> QED
    BY <1>2, <2>1, ParserRules
<1>4. NaN \in Values
  BY DEF Values
<1>5. CASE ts = <<>>
  <2>1. evaluateAmount(text) = [kind |-> "empty"]
    BY <1>5 DEF evaluateAmount
  <2>2. AmountOf(text) = NaN
    BY <2>1 DEF AmountOf
  <2> QED
    BY <1>2, <1>4, <1>5, <2>2
<1>6. CASE ts # <<>> /\ (Invalid(ts) \/ r.v = NaN \/ r.at <= Len(ts))
  <2>1. evaluateAmount(text) = [kind |-> "invalid"]
    BY <1>6 DEF evaluateAmount
  <2>2. AmountOf(text) = NaN
    BY <2>1 DEF AmountOf
  <2>3. ~Invalid(ts) => Meaning(ts) = NaN
    <3> HAVE ~Invalid(ts)
    <3>1. Meaning(ts) = IF r.at <= Len(ts) THEN NaN ELSE r.v
      BY <1>2, <1>6, ParserGivesMeaning
    <3> HIDE DEF r
    <3> QED
      BY <1>6, <3>1
  <2> QED
    BY <1>2, <1>4, <1>6, <2>2, <2>3
<1>7. CASE ts # <<>> /\ ~(Invalid(ts) \/ r.v = NaN \/ r.at <= Len(ts))
  <2>1. evaluateAmount(text) = [kind |-> "value", value |-> r.v]
    BY <1>7 DEF evaluateAmount
  <2>2. AmountOf(text) = r.v
    BY <2>1 DEF AmountOf
  <2>3. Meaning(ts) = IF r.at <= Len(ts) THEN NaN ELSE r.v
    BY <1>2, <1>7, ParserGivesMeaning
  <2> HIDE DEF r
  <2> QED
    BY <1>2, <1>3, <1>7, <2>2, <2>3
<1> QED
  BY <1>5, <1>6, <1>7

\* The amount the field keeps is what its text amounts to; only a text that the field
\* wrote itself, for an amount it shows as nothing, leaves that amount.
AmountInv ==
  /\ rawAmount \in Texts
  /\ prevExternal = amount
  /\ amount \in Values \cup {Undefined}
  /\ \/ amount = AmountOf(rawAmount)
     \/ rawAmount = <<>> /\ amount \in {Undefined, NaN, Zero}

\* The empty text is a text, and has no tokens.
LEMMA EmptyText == <<>> \in Texts /\ tokenize(<<>>) = <<>>
<1>1. <<>> \in Texts
  <2>1. 0 \in 0..MaxText /\ <<>> \in [1..0 -> Characters]
    BY AmountAssumption
  <2> QED
    BY <2>1 DEF Texts
<1>2. <<>> \in Seq({})
  OBVIOUS
<1>3. PICK f : Tokenizes(<<>>, f)
  BY <1>2, TokenizerExists
<1> DEFINE g == CHOOSE h : Tokenizes(<<>>, h)
<1>4. Tokenizes(<<>>, g)
  BY <1>3
<1>5. tokenize(<<>>) = g[1]
  BY DEF tokenize, Tokenizes, From
<1> HIDE DEF g
<1>6. g[1] = From(<<>>, g, 1)
  BY <1>4 DEF Tokenizes
<1>7. From(<<>>, g, 1) = <<>>
  BY DEF From
<1> QED
  BY <1>1, <1>5, <1>6, <1>7

\* What the field writes for an amount of the form.
LEMMA WrittenAmounts ==
    ASSUME NEW a \in Externals
    PROVE  /\ a \in Values \cup {Undefined}
           /\ formatInitial(a) \in Texts
           /\ \/ AmountOf(formatInitial(a)) = a
              \/ formatInitial(a) = <<>> /\ a \in {Undefined, NaN, Zero}
<1>1. Zero \in Numbers /\ Zero.is = "number"
  BY NumberIsNumber DEF Zero, Number
<1>2. CASE a \in {Undefined, NaN, Zero}
  <2>1. IsZero(Zero)
    <3>1. Lowest(0, 1)[1] = 0
      <4> DEFINE c == CHOOSE k \in 1..1 : /\ Divides(k, 0) /\ Divides(k, 1)
                                          /\ \A j \in (k + 1)..1 : ~(Divides(j, 0) /\ Divides(j, 1))
      <4>1. Divides(1, 0) /\ Divides(1, 1)
        BY DEF Divides
      <4>2. c = 1
        BY <4>1
      <4>3. Lowest(0, 1) = <<0 \div c, 1 \div c>>
        BY DEF Lowest
      <4> HIDE DEF c
      <4> QED
        BY <4>2, <4>3
    <3> QED
      BY <3>1 DEF IsZero, Zero, Number
  <2>2. formatInitial(a) = <<>>
    BY <1>1, <1>2, <2>1 DEF formatInitial
  <2> QED
    BY <1>1, <1>2, <2>2, EmptyText DEF Values
<1>3. CASE a \notin {Undefined, NaN, Zero}
  <2>1. PICK t \in AmountTexts : a = AmountOf(t)
    BY <1>3 DEF Externals
  <2>2. t \in Texts /\ (IsZero(a) => a = Zero)
    BY <2>1, AmountAssumption
  <2>3. a \in Values
    BY <2>1, <2>2, AmountIsMeaning
  <2>4. formatInitial(a) = CHOOSE u \in AmountTexts : AmountOf(u) = a
    BY <1>3, <2>2 DEF formatInitial
  <2>5. formatInitial(a) \in AmountTexts /\ AmountOf(formatInitial(a)) = a
    BY <2>1, <2>4
  <2> QED
    BY <2>3, <2>5, AmountAssumption
<1> QED
  BY <1>2, <1>3

\* The field starts in its invariant.
LEMMA AmountInvStarts == AmountInit => AmountInv
  BY WrittenAmounts DEF AmountInit, AmountInv

\* Every step of the field keeps its invariant.
LEMMA AmountInvStays == AmountInv /\ [AmountNext]_amountVars => AmountInv'
<1> SUFFICES ASSUME AmountInv, [AmountNext]_amountVars
             PROVE  AmountInv'
  OBVIOUS
<1>1. CASE replaceSelection
  <2>1. PICK start, end \in 0..Len(rawAmount), new \in {<<>>} \cup {<<c>> : c \in Characters} :
          LET text == SubSeq(rawAmount, 1, start) \o new \o SubSeq(rawAmount, end + 1, Len(rawAmount))
          IN Len(text) <= MaxText /\ emit(text)
    BY <1>1 DEF replaceSelection
  <2> DEFINE text == SubSeq(rawAmount, 1, start) \o new
                       \o SubSeq(rawAmount, end + 1, Len(rawAmount))
  <2>2. text \in Seq(Characters)
    <3>1. rawAmount \in Seq(Characters)
      BY DEF AmountInv, Texts
    <3>2. /\ SubSeq(rawAmount, 1, start) \in Seq(Characters)
          /\ SubSeq(rawAmount, end + 1, Len(rawAmount)) \in Seq(Characters)
          /\ new \in Seq(Characters)
      <4>1. SubSeq(rawAmount, 1, start) \in Seq(Characters)
        BY <3>1
      <4>2. SubSeq(rawAmount, end + 1, Len(rawAmount)) \in Seq(Characters)
        BY <3>1
      <4>3. new \in Seq(Characters)
        <5>1. \A c \in Characters : <<c>> \in Seq(Characters)
          OBVIOUS
        <5>2. <<>> \in Seq(Characters)
          OBVIOUS
        <5> QED
          BY <5>1, <5>2
      <4> QED
        BY <4>1, <4>2, <4>3
    <3> QED
      BY <3>2
  <2> HIDE DEF text
  <2>3. Len(text) \in 0..MaxText /\ text \in [1..Len(text) -> Characters]
    <3>1. Len(text) <= MaxText
      BY <2>1 DEF text
    <3>2. Len(text) \in Nat /\ text \in [1..Len(text) -> Characters]
      BY <2>2
    <3> QED
      BY <3>1, <3>2, AmountAssumption
  <2>4. text \in Texts
    BY <2>3 DEF Texts
  <2>5. emit(text)
    BY <2>1 DEF text
  <2>6. AmountOf(text) \in Values
    BY <2>4, AmountIsMeaning
  <2>7. amount' = AmountOf(text) /\ prevExternal' = amount' /\ rawAmount' = text
    BY <2>5 DEF emit, Emitted, Synced
  <2> QED
    BY <2>4, <2>6, <2>7 DEF AmountInv
<1>2. CASE ResetForm
  <2>1. PICK a \in Externals :
          amount' = a /\ prevExternal' = a /\ rawAmount' = Synced(rawAmount, a)
    BY <1>2 DEF ResetForm
  <2>2. CASE a = prevExternal \/ a = AmountOf(rawAmount)
    <3>1. rawAmount' = rawAmount
      BY <2>1, <2>2 DEF Synced
    <3> QED
      BY <2>1, <2>2, <3>1, WrittenAmounts DEF AmountInv
  <2>3. CASE ~(a = prevExternal \/ a = AmountOf(rawAmount))
    <3>1. rawAmount' = formatInitial(a)
      BY <2>1, <2>3 DEF Synced
    <3> QED
      BY <2>1, <3>1, WrittenAmounts DEF AmountInv
  <2> QED
    BY <2>2, <2>3
<1>3. CASE UNCHANGED amountVars
  BY <1>3 DEF amountVars, AmountInv
<1> QED
  BY <1>1, <1>2, <1>3 DEF AmountNext

\* The invariant of the field.
LEMMA AmountInvHolds == AmountSpec => []AmountInv
  BY AmountInvStarts, AmountInvStays, PTL DEF AmountSpec

\* In the invariant, the amount is what the text means.
LEMMA InvShowsWhatIsSent == AmountInv => ShownIsSent
<1> SUFFICES ASSUME AmountInv PROVE ShownIsSent
  OBVIOUS
<1> DEFINE ts == tokenize(rawAmount)
<1>1. /\ ts = <<>> => AmountOf(rawAmount) = NaN
      /\ ts # <<>> => AmountOf(rawAmount) = IF Invalid(ts) THEN NaN ELSE Meaning(ts)
  BY AmountIsMeaning DEF AmountInv
<1>2. CASE amount = AmountOf(rawAmount)
  BY <1>1, <1>2 DEF ShownIsSent
<1>3. CASE rawAmount = <<>> /\ amount \in {Undefined, NaN, Zero}
  BY <1>3, EmptyText DEF ShownIsSent
<1> QED
  BY <1>2, <1>3 DEF AmountInv

\* In the invariant, the types are right.
LEMMA InvHasTypes == AmountInv => AmountTypeOK
  BY DEF AmountInv, AmountTypeOK, Values, Numbers, NaN, Undefined

\* However typing, the operator keys and resets of the form follow each other, the amount
\* that the form would send is what the text on the screen means: for texts of any
\* length, over any characters, and whatever amounts the form is reset to.
THEOREM AmountShownIsSent == AmountSpec => []ShownIsSent
  BY AmountInvHolds, InvShowsWhatIsSent, PTL

\* The field keeps the types it declares.
THEOREM AmountTypesHold == AmountSpec => []AmountTypeOK
  BY AmountInvHolds, InvHasTypes, PTL
=============================================================================
