----------------------------- MODULE AmountField -----------------------------
(* The amount field of the web client's forms: a text that is a number or a  *)
(* calculation ("10+5*2"), its evaluation, and the amount kept by the form,  *)
(* which the field sets as the user types and follows when the form is reset.*)
(*                                                                           *)
(* A text is a sequence of characters; blanks, which the evaluation skips,   *)
(* and the comma, which it takes for a point, are left out. Floating point   *)
(* is abstracted to fractions with a signed zero, as Object.is tells them    *)
(* apart.                                                                    *)
EXTENDS Integers, Sequences, FiniteSets, FiniteSetsExt

CONSTANTS
  Characters,   \* what can be typed
  MaxText,      \* the longest text
  MaxSelection, \* the most characters replaced at once
  AmountTexts   \* the amounts a form may be reset to, as String() writes them

VARIABLES
  rawAmount,    \* the text
  prevExternal, \* the form's amount when the field was last rendered
  amount        \* the form's amount
amountVars == <<rawAmount, prevExternal, amount>>

Digits == <<"0", "1", "2", "3", "4", "5", "6", "7", "8", "9">>
IsDigit(c) == \E i \in 0..9 : Digits[i + 1] = c
DigitOf(c) == CHOOSE i \in 0..9 : Digits[i + 1] = c
Operators == {"+", "-", "*", "/"}

Texts == UNION {[1..n -> Characters] : n \in 0..MaxText}

-----------------------------------------------------------------------------
\* Numbers: a sign and a fraction in lowest terms

Divides(k, n) == n % k = 0
Lowest(n, d) ==
  LET k == CHOOSE k \in 1..d : Divides(k, n) /\ Divides(k, d)
             /\ \A j \in (k + 1)..d : ~(Divides(j, n) /\ Divides(j, d))
  IN <<n \div k, d \div k>>
Abs(n) == IF n < 0 THEN -n ELSE n
Number(sign, n, d) == [is |-> "number", sign |-> sign, frac |-> Lowest(n, d)]
NaN == [is |-> "NaN"]
Undefined == [is |-> "undefined"]
Zero == Number(1, 0, 1)

Numbers == [is : {"number"}, sign : {-1, 1}, frac : Nat \X (Nat \ {0})]
Values == Numbers \cup {NaN}

Negated(x) == [x EXCEPT !.sign = -@]
Plus(x, y) ==
  LET n == x.sign * x.frac[1] * y.frac[2] + y.sign * y.frac[1] * x.frac[2]
      sign == IF n # 0 THEN IF n < 0 THEN -1 ELSE 1
              ELSE IF x.frac[1] = 0 /\ x.sign = y.sign THEN x.sign ELSE 1
  IN Number(sign, Abs(n), x.frac[2] * y.frac[2])
Times(x, y) == Number(x.sign * y.sign, x.frac[1] * y.frac[1], x.frac[2] * y.frac[2])
Over(x, y) == Number(x.sign * y.sign, x.frac[1] * y.frac[2], x.frac[2] * y.frac[1])
IsZero(x) == x.frac[1] = 0

\* A result, or NaN for what the parser throws.
Apply(op, x, y) ==
  IF x = NaN \/ y = NaN THEN NaN
  ELSE CASE op = "+" -> Plus(x, y)
         [] op = "-" -> Plus(x, Negated(y))
         [] op = "*" -> Times(x, y)
         [] op = "/" -> IF IsZero(y) THEN NaN ELSE Over(x, y)

-----------------------------------------------------------------------------
\* tokenize

\* parseFloat: digits up to a second point, as a fraction whose denominator is a
\* power of ten; NaN without any digit.
Points(run, i) == {k \in 1..i : run[k] = "."}
Significant(run, i) == IsDigit(run[i]) /\ Cardinality(Points(run, i)) <= 1

Fractions(run) ==
  LET upto[i \in 0..Len(run)] ==
        IF i = 0 THEN <<0, 1>>
        ELSE IF ~Significant(run, i) THEN upto[i - 1]
        ELSE <<10 * upto[i - 1][1] + DigitOf(run[i]),
               IF Points(run, i) = {} THEN upto[i - 1][2] ELSE 10 * upto[i - 1][2]>>
  IN upto

parseFloat(run) ==
  IF \A i \in 1..Len(run) : ~Significant(run, i) THEN NaN
  ELSE Number(1, Fractions(run)[Len(run)][1], Fractions(run)[Len(run)][2])

InNumber(c) == IsDigit(c) \/ c = "."

\* Where the digits and points that start at i end.
RunEnd(text, i) ==
  CHOOSE k \in i..Len(text) :
    /\ \A l \in i..k : InNumber(text[l])
    /\ k < Len(text) => ~InNumber(text[k + 1])

NumberToken(v) == IF v = NaN THEN [t |-> "bad"] ELSE [t |-> "number", v |-> v]

\* A token is an operator or a parenthesis, a number, or "bad" where tokenize
\* gives up.
tokenize(text) ==
  LET from[i \in 1..(Len(text) + 1)] ==
        IF i > Len(text) THEN <<>>
        ELSE IF text[i] \in Operators \cup {"(", ")"}
             THEN <<[t |-> text[i]]>> \o from[i + 1]
        ELSE IF InNumber(text[i])
             THEN <<NumberToken(parseFloat(SubSeq(text, i, RunEnd(text, i))))>>
                    \o from[RunEnd(text, i) + 1]
        ELSE <<[t |-> "bad"]>>
  IN from[1]

-----------------------------------------------------------------------------
\* Parser: recursive descent over the positions of the tokens. A call is of a
\* method, or of what is left to do of its loop with the value so far; a result
\* is a value, NaN for what is thrown, and the position reached.

At(ts, i) == IF i > Len(ts) THEN "end" ELSE ts[i].t

Calls(ts) == [rule : {"expr", "term", "factor", "terms", "factors"},
              left : Values, at : 1..(Len(ts) + 1)]
Expr(i) == [rule |-> "expr", left |-> NaN, at |-> i]
Term(i) == [rule |-> "term", left |-> NaN, at |-> i]
Factor(i) == [rule |-> "factor", left |-> NaN, at |-> i]
Terms(v, i) == [rule |-> "terms", left |-> v, at |-> i]
Factors(v, i) == [rule |-> "factors", left |-> v, at |-> i]

Result(v, i) == [v |-> v, at |-> i]
Thrown(i) == Result(NaN, i)

parseExpr(p, i) == LET left == p[Term(i)] IN p[Terms(left.v, left.at)]
MoreTerms(ts, p, v, i) ==
  IF v # NaN /\ At(ts, i) \in {"+", "-"}
  THEN LET right == p[Term(i + 1)] IN p[Terms(Apply(At(ts, i), v, right.v), right.at)]
  ELSE Result(v, i)

parseTerm(p, i) == LET left == p[Factor(i)] IN p[Factors(left.v, left.at)]
MoreFactors(ts, p, v, i) ==
  IF v # NaN /\ At(ts, i) \in {"*", "/"}
  THEN LET right == p[Factor(i + 1)] IN p[Factors(Apply(At(ts, i), v, right.v), right.at)]
  ELSE Result(v, i)

parseFactor(ts, p, i) ==
  CASE At(ts, i) = "+" -> p[Factor(i + 1)]
    [] At(ts, i) = "-" -> LET r == p[Factor(i + 1)]
                          IN IF r.v = NaN THEN r ELSE Result(Negated(r.v), r.at)
    [] At(ts, i) = "(" -> LET r == p[Expr(i + 1)]
                          IN IF r.v = NaN \/ At(ts, r.at) # ")" THEN Thrown(i)
                             ELSE Result(r.v, r.at + 1)
    [] At(ts, i) = "number" -> Result(ts[i].v, i + 1)
    [] OTHER -> Thrown(i)

Parser(ts) ==
  LET p[x \in Calls(ts)] ==
        CASE x.rule = "expr" -> parseExpr(p, x.at)
          [] x.rule = "term" -> parseTerm(p, x.at)
          [] x.rule = "factor" -> parseFactor(ts, p, x.at)
          [] x.rule = "terms" -> MoreTerms(ts, p, x.left, x.at)
          [] x.rule = "factors" -> MoreFactors(ts, p, x.left, x.at)
  IN p

-----------------------------------------------------------------------------
\* evaluateAmount

Invalid(ts) ==
  \/ \E i \in 1..Len(ts) : ts[i].t = "bad"
  \/ \E i \in 2..Len(ts) : ts[i].t = "+" /\ ts[i - 1].t \in Operators

evaluateAmount(text) ==
  LET ts == tokenize(text)
      r == Parser(ts)[Expr(1)]
  IN CASE ts = <<>> -> [kind |-> "empty"]
       [] ts # <<>> /\ (Invalid(ts) \/ r.v = NaN \/ r.at <= Len(ts)) -> [kind |-> "invalid"]
       [] OTHER -> [kind |-> "value", value |-> r.v]

AmountOf(text) ==
  LET r == evaluateAmount(text) IN IF r.kind = "value" THEN r.value ELSE NaN

-----------------------------------------------------------------------------
\* The field

\* String() writes numbers, and a zero of either sign as 0.
ASSUME AmountAssumption ==
  /\ MaxText \in Nat /\ MaxSelection \in Nat
  /\ AmountTexts \subseteq Texts
  /\ \A t \in AmountTexts : AmountOf(t) # NaN /\ (IsZero(AmountOf(t)) => AmountOf(t) = Zero)

formatInitial(a) ==
  IF a \in {Undefined, NaN} \/ (a.is = "number" /\ IsZero(a)) THEN <<>>
  ELSE CHOOSE t \in AmountTexts : AmountOf(t) = a

Externals == {Undefined, NaN, Zero} \cup {AmountOf(t) : t \in AmountTexts}

AmountTypeOK ==
  /\ rawAmount \in Texts
  /\ prevExternal.is \in {"number", "NaN", "undefined"}
  /\ amount.is \in {"number", "NaN", "undefined"}

AmountInit ==
  /\ amount \in Externals
  /\ prevExternal = amount
  /\ rawAmount = formatInitial(amount)

\* Rendering: an amount that is new to the field and is not what its text says
\* replaces the text.
Synced(text, a) ==
  IF a = prevExternal \/ a = AmountOf(text) THEN text ELSE formatInitial(a)

\* Mutant: a text that says nothing leaves the form with its last amount.
EmittedKept(text) == IF AmountOf(text) = NaN THEN amount ELSE AmountOf(text)

\* What the field tells the form of a text.
Emitted(text) == AmountOf(text)

emit(text) ==
  /\ amount' = Emitted(text)
  /\ prevExternal' = amount'
  /\ rawAmount' = Synced(text, amount')

\* A character typed, pasted or put in by an operator key at the caret; or the
\* selection, or one character, deleted. Typing over a selection is modelled as
\* deleting it first.
replaceSelection ==
  \E start, end \in 0..Len(rawAmount) : \E new \in {<<>>} \cup {<<c>> : c \in Characters} :
    LET text == SubSeq(rawAmount, 1, start) \o new \o SubSeq(rawAmount, end + 1, Len(rawAmount))
    IN /\ IF new = <<>> THEN end - start \in 1..MaxSelection ELSE start = end
       /\ Len(text) <= MaxText
       /\ emit(text)

\* The form is reset, or filled in for an edit, while the field is mounted.
ResetForm ==
  \E a \in Externals :
    /\ amount' = a
    /\ prevExternal' = a
    /\ rawAmount' = Synced(rawAmount, a)

AmountNext == replaceSelection \/ ResetForm

AmountSpec == AmountInit /\ [][AmountNext]_amountVars

-----------------------------------------------------------------------------
\* What a text means, by another road: a calculation is split at its last
\* addition or subtraction outside parentheses, else at its last product or
\* quotient, else it is a sign, a parenthesis or a number.

Depth(ts, i, k) ==
  Cardinality({l \in i..k : ts[l].t = "("}) - Cardinality({l \in i..k : ts[l].t = ")"})

\* The operators among the tokens i to j that stand between two operands, outside parentheses.
Splits(ts, ops, i, j) ==
  {k \in (i + 1)..(j - 1) :
     ts[k].t \in ops /\ ts[k - 1].t \in {"number", ")"} /\ Depth(ts, i, k) = 0}
Sums(ts, i, j) == Splits(ts, {"+", "-"}, i, j)
Products(ts, i, j) == Splits(ts, {"*", "/"}, i, j)

SplitAt(ts, m, k, i, j) == Apply(ts[k].t, m[<<i, k - 1>>], m[<<k + 1, j>>])

Undivided(ts, m, i, j) ==
  CASE i < j /\ ts[i].t = "-" -> IF m[<<i + 1, j>>] = NaN THEN NaN ELSE Negated(m[<<i + 1, j>>])
    [] i < j /\ ts[i].t = "+" -> m[<<i + 1, j>>]
    [] i < j /\ ts[i].t = "(" /\ ts[j].t = ")" -> m[<<i + 1, j - 1>>]
    [] i = j /\ ts[i].t = "number" -> ts[i].v
    [] OTHER -> NaN

\* What the tokens i to j mean, for every i and j.
Meanings(ts) ==
  LET m[x \in (1..(Len(ts) + 1)) \X (0..Len(ts))] ==
        IF Sums(ts, x[1], x[2]) # {}
        THEN SplitAt(ts, m, Max(Sums(ts, x[1], x[2])), x[1], x[2])
        ELSE IF Products(ts, x[1], x[2]) # {}
        THEN SplitAt(ts, m, Max(Products(ts, x[1], x[2])), x[1], x[2])
        ELSE Undivided(ts, m, x[1], x[2])
  IN m

Meaning(ts) == Meanings(ts)[<<1, Len(ts)>>]

\* The amount the form would send is what the text on the screen means, however
\* typing and resets follow each other; a text that means nothing leaves no
\* amount that could be sent, and an empty field none that is positive.
ShownIsSent ==
  LET ts == tokenize(rawAmount)
  IN IF ts = <<>> THEN amount \in {Undefined, NaN, Zero}
     ELSE amount = IF Invalid(ts) THEN NaN ELSE Meaning(ts)
=============================================================================
