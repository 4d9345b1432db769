-------------------------- MODULE Settlement_proofs --------------------------
(***************************************************************************)
(* Proofs about Settlement, for every set of members, every list of        *)
(* currencies and every balance of theirs.                                 *)
(***************************************************************************)
EXTENDS Settlement, Sums_proofs, SequenceTheorems

\* What the loop knows of one of its lists: the head is in range, whoever is before
\* it is settled, whoever is not has something left, and nobody's remainder exceeds
\* what the balance started with (own[u] is u's balance seen from the list's side).
ListInv(list, head, own) ==
    /\ head \in 1..(Len(list) + 1)
    /\ \A n \in 1..Len(list) :
           /\ list[n].amount <= own[list[n].user]
           /\ n < head => list[n].amount = 0
           /\ n >= head => list[n].amount > 0

\* A suggestion within both of its parties' balances.
Sound(s) ==
    /\ 0 < s.amount
    /\ s.amount <= balances[s.currency][s.to]
    /\ s.amount <= -balances[s.currency][s.from]

\* Each suggestion settled somebody: there are no more than heads moved past, and
\* one fewer once both lists are exhausted, for the last one settled two at once.
CountInv ==
    /\ Len(results) <= (ci - 1) + (di - 1)
    /\ (results # <<>> /\ ci > Len(creditors) /\ di > Len(debtors)) =>
           Len(results) < (ci - 1) + (di - 1)

\* The same remainders seen from the other side: -bal, as DebtorsOf stores them.
Owed == [u \in Users |-> balances[Currency][u]]
Due  == [u \in Users |-> -balances[Currency][u]]

\* The inductive invariant.
IInv ==
    /\ TypeOK
    /\ \A n \in 1..Len(suggestions) : Sound(suggestions[n])
    /\ matching =>
           /\ next <= Len(CurrencyOrder)
           /\ ListInv(creditors, ci, Owed)
           /\ ListInv(debtors, di, Due)
           /\ CountInv
           /\ \A n \in 1..Len(results) : Sound(results[n])

----------------------------------------------------------------------------

\* Sorting the creditors, or the debtors, of a finite group yields a list of
\* positive amounts, each its user's balance.
LEMMA ListOf ==
    ASSUME NEW own \in [Users -> Int],
           NEW P \in SUBSET Users, \A u \in P : own[u] > 0,
           NEW q \in Sorted({[user |-> u, amount |-> own[u]] : u \in P})
    PROVE  /\ q \in Seq(Entry)
           /\ ListInv(q, 1, own)
<1> DEFINE S == {[user |-> u, amount |-> own[u]] : u \in P}
           f == [u \in P |-> [user |-> u, amount |-> own[u]]]
<1>1. IsFiniteSet(P)
  BY SettlementAssumption, FS_Subset
<1>2. f \in Surjection(P, S)
  BY DEF Surjection
<1>3. IsFiniteSet(S)
  BY <1>1, <1>2, FS_Surjection
<1>a. \A s \in S : s \in Entry /\ s.amount = own[s.user] /\ s.amount > 0
  BY DEF Entry
<1>b. q \in Sorted(S)
  OBVIOUS
<1> HIDE DEF S
<1>4. Cardinality(S) \in Nat
  BY <1>3, FS_CardinalityType
<1>5. q \in [1..Cardinality(S) -> S]
  BY <1>b DEF Sorted
<1>7. q \in Seq(S) /\ Len(q) = Cardinality(S)
  BY <1>4, <1>5
<1>8. q \in Seq(Entry)
  BY <1>a, <1>7, SeqMonotonic
<1>9. \A n \in 1..Len(q) : q[n].amount = own[q[n].user] /\ q[n].amount > 0
  BY <1>a, <1>5, <1>7
<1>10. ListInv(q, 1, own)
  <2>1. Len(q) \in Nat
    BY <1>4, <1>7
  <2>a. \A n \in 1..Len(q) : q[n] \in Entry
    BY <1>8, ElementOfSeq
  <2>2. \A n \in 1..Len(q) : q[n].amount \in Int
    BY <2>a DEF Entry
  <2> QED
    BY <1>9, <2>1, <2>2 DEF ListInv
<1> QED
  BY <1>8, <1>10

\* Paying part of the head's remainder, all of it exactly when the head moves on,
\* keeps the list in order.
LEMMA PayHead ==
    ASSUME NEW list \in Seq(Entry), NEW head \in Nat, NEW own \in [Users -> Int],
           ListInv(list, head, own), head <= Len(list),
           NEW amount \in Int, 0 < amount, amount <= list[head].amount
    PROVE  LET paid == [list EXCEPT ![head] = [user |-> list[head].user,
                                               amount |-> list[head].amount - amount]]
               moved == IF list[head].amount = amount THEN head + 1 ELSE head
           IN  /\ paid \in Seq(Entry)
               /\ Len(paid) = Len(list)
               /\ moved \in Nat
               /\ ListInv(paid, moved, own)
<1> DEFINE left == [user |-> list[head].user, amount |-> list[head].amount - amount]
           paid == [list EXCEPT ![head] = left]
           moved == IF list[head].amount = amount THEN head + 1 ELSE head
<1>1. Len(list) \in Nat /\ head \in 1..Len(list)
  BY LenProperties DEF ListInv
<1>2. \A n \in 1..Len(list) : list[n] \in Entry
  BY ElementOfSeq
<1>3. list[head].user \in Users /\ list[head].amount \in Int
  BY <1>1, <1>2 DEF Entry
<1>4. left \in Entry
  BY <1>3 DEF Entry
<1>5. /\ paid \in Seq(Entry)
      /\ Len(paid) = Len(list)
      /\ \A n \in 1..Len(list) : paid[n] = IF n = head THEN left ELSE list[n]
  BY <1>1, <1>4, ExceptSeq
<1>6. moved \in 1..(Len(list) + 1)
  BY <1>1
<1>7. ASSUME NEW n \in 1..Len(list)
      PROVE  /\ paid[n].amount <= own[paid[n].user]
             /\ n < moved => paid[n].amount = 0
             /\ n >= moved => paid[n].amount > 0
  <2>1. CASE n = head
    <3>1. list[head].amount <= own[list[head].user] /\ own[list[head].user] \in Int
      BY <1>1, <1>3 DEF ListInv
    <3>2. paid[n].user = list[head].user /\ paid[n].amount = list[head].amount - amount
      BY <1>5, <2>1
    <3> QED
      BY <1>1, <1>3, <2>1, <3>1, <3>2
  <2>2. CASE n # head
    <3>1. paid[n] = list[n] /\ n \in Int /\ list[n].amount \in Int
      BY <1>2, <1>5, <2>2 DEF Entry
    <3>2. n < moved <=> n < head
      BY <1>1, <2>2, <3>1
    <3> QED
      BY <1>1, <3>1, <3>2 DEF ListInv
  <2> QED
    BY <2>1, <2>2
<1> QED
  BY <1>5, <1>6, <1>7 DEF ListInv
----------------------------------------------------------------------------

\* Currencies of the order are currencies.
LEMMA CurrencyTypes ==
    ASSUME TypeOK, next <= Len(CurrencyOrder)
    PROVE  /\ Currency \in Currencies
           /\ \A u \in Users : balances[Currency][u] \in Int
           /\ Owed \in [Users -> Int]
           /\ Due \in [Users -> Int]
<1>1. Currency \in Currencies
  BY SettlementAssumption, ElementOfSeq DEF TypeOK, Currency
<1>2. balances[Currency] \in [Users -> Int]
  BY <1>1 DEF TypeOK
<1> QED
  BY <1>1, <1>2 DEF Owed, Due

\* What a step that leaves the balances and the currency alone keeps.
LEMMA SameFrame ==
    ASSUME UNCHANGED <<balances, next>>
    PROVE  /\ Owed' = Owed /\ Due' = Due /\ Currency' = Currency
           /\ \A s : Sound(s)' <=> Sound(s)
  BY DEF Owed, Due, Currency, Sound

\* The loop starts in its invariant.
LEMMA InitIInv == Init => IInv
<1> SUFFICES ASSUME Init PROVE IInv
  OBVIOUS
<1>1. <<>> \in Seq(Entry) /\ <<>> \in Seq(Suggestion) /\ Len(<<>>) = 0
  BY EmptySeq
<1>2. Len(CurrencyOrder) \in Nat
  BY SettlementAssumption, LenProperties
<1>3. balances \in [Currencies -> [Users -> Int]]
  <2>1. balances \in Inputs
    BY DEF Init
  <2> QED
    BY <2>1, SettlementAssumption
<1>4. next \in 1..(Len(CurrencyOrder) + 1)
  BY <1>2 DEF Init
<1>5. TypeOK
  BY <1>1, <1>3, <1>4 DEF Init, TypeOK
<1>6. suggestions = <<>> /\ ~ matching
  BY DEF Init
<1> QED
  BY <1>1, <1>5, <1>6 DEF IInv

\* Entering settleForSingleCurrency establishes the loop's invariant.
LEMMA StartStep == IInv /\ StartCurrency => IInv'
<1> SUFFICES ASSUME IInv, StartCurrency PROVE IInv'
  OBVIOUS
<1>1. TypeOK /\ next <= Len(CurrencyOrder)
  BY DEF IInv, StartCurrency
<1>2. /\ Owed' = Owed /\ Due' = Due
      /\ \A s : Sound(s)' <=> Sound(s)
  BY SameFrame DEF StartCurrency
<1>3. creditors' \in Seq(Entry) /\ ListInv(creditors', 1, Owed)
  <2> DEFINE P == {v \in Users : balances[Currency][v] > 0}
  <2>1. Owed \in [Users -> Int] /\ \A u \in P : Owed[u] > 0
    BY <1>1, CurrencyTypes DEF Owed
  <2>2. CreditorsOf(balances[Currency]) = {[user |-> u, amount |-> Owed[u]] : u \in P}
    BY DEF CreditorsOf, Owed
  <2>3. creditors' \in Sorted({[user |-> u, amount |-> Owed[u]] : u \in P})
    BY <2>2 DEF StartCurrency
  <2> QED
    BY <2>1, <2>3, ListOf
<1>4. debtors' \in Seq(Entry) /\ ListInv(debtors', 1, Due)
  <2> DEFINE P == {v \in Users : balances[Currency][v] < 0}
  <2>1. Due \in [Users -> Int] /\ \A u \in P : Due[u] > 0
    BY <1>1, CurrencyTypes DEF Due
  <2>2. DebtorsOf(balances[Currency]) = {[user |-> u, amount |-> Due[u]] : u \in P}
    BY DEF DebtorsOf, Due
  <2>3. debtors' \in Sorted({[user |-> u, amount |-> Due[u]] : u \in P})
    BY <2>2 DEF StartCurrency
  <2> QED
    BY <2>1, <2>3, ListOf
<1>5. <<>> \in Seq(Suggestion) /\ Len(<<>>) = 0
  BY EmptySeq
<1>6. TypeOK'
  BY <1>1, <1>3, <1>4, <1>5 DEF TypeOK, StartCurrency
<1>7. CountInv'
  BY <1>5 DEF CountInv, StartCurrency
<1>8. (\A n \in 1..Len(suggestions) : Sound(suggestions[n]))'
  BY <1>2 DEF IInv, StartCurrency
<1>9. (\A n \in 1..Len(results) : Sound(results[n]))'
  BY <1>5 DEF StartCurrency
<1>10. ListInv(creditors, ci, Owed)' /\ ListInv(debtors, di, Due)'
  <2>1. ci' = 1 /\ di' = 1
    BY DEF StartCurrency
  <2> QED
    BY <1>2, <1>3, <1>4, <2>1 DEF ListInv
<1>11. (next <= Len(CurrencyOrder))'
  BY <1>1 DEF StartCurrency
<1> QED
  BY <1>6, <1>7, <1>8, <1>9, <1>10, <1>11 DEF IInv

\* One iteration of the loop keeps its invariant.
LEMMA MatchStep == IInv /\ Match => IInv'
<1> SUFFICES ASSUME IInv, Match PROVE IInv'
  OBVIOUS
<1> DEFINE creditor == creditors[ci]
           debtor == debtors[di]
           amount == Smaller(creditor.amount, debtor.amount)
           new == [from |-> debtor.user, to |-> creditor.user,
                   amount |-> amount, currency |-> Currency]
<1>1. /\ TypeOK /\ next <= Len(CurrencyOrder) /\ matching
      /\ ListInv(creditors, ci, Owed) /\ ListInv(debtors, di, Due)
      /\ ci <= Len(creditors) /\ di <= Len(debtors)
      /\ CountInv
  BY DEF IInv, Match
<1>2. /\ Owed \in [Users -> Int] /\ Due \in [Users -> Int] /\ Currency \in Currencies
      /\ \A u \in Users : Owed[u] = balances[Currency][u] /\ Due[u] = -balances[Currency][u]
  BY <1>1, CurrencyTypes DEF Owed, Due
<1>3. /\ creditors \in Seq(Entry) /\ debtors \in Seq(Entry) /\ results \in Seq(Suggestion)
      /\ ci \in Nat /\ di \in Nat
  BY <1>1 DEF TypeOK
<1>4. /\ Len(creditors) \in Nat /\ Len(debtors) \in Nat /\ Len(results) \in Nat
      /\ ci \in 1..Len(creditors) /\ di \in 1..Len(debtors)
  BY <1>1, <1>3, LenProperties DEF ListInv
<1>5. creditor \in Entry /\ debtor \in Entry
  BY <1>3, <1>4, ElementOfSeq
<1>6. /\ creditor.user \in Users /\ creditor.amount \in Int
      /\ debtor.user \in Users /\ debtor.amount \in Int
  BY <1>5 DEF Entry
<1>7. /\ 0 < creditor.amount /\ creditor.amount <= Owed[creditor.user]
      /\ 0 < debtor.amount /\ debtor.amount <= Due[debtor.user]
  BY <1>1, <1>4 DEF ListInv
<1>8. /\ amount \in Int /\ 0 < amount
      /\ amount <= creditor.amount /\ amount <= debtor.amount
      /\ amount = creditor.amount \/ amount = debtor.amount
  BY <1>6, <1>7 DEF Smaller
<1> HIDE DEF creditor, debtor, amount
<1>9. /\ results' = Append(results, new)
      /\ creditors' = [creditors EXCEPT ![ci] =
                           [user |-> creditor.user, amount |-> creditor.amount - amount]]
      /\ debtors' = [debtors EXCEPT ![di] =
                           [user |-> debtor.user, amount |-> debtor.amount - amount]]
      /\ ci' = (IF creditor.amount = amount THEN ci + 1 ELSE ci)
      /\ di' = (IF debtor.amount = amount THEN di + 1 ELSE di)
      /\ UNCHANGED <<balances, next, matching, suggestions>>
  <2>1. /\ ci' = Advance(ci, creditor.amount - amount)
        /\ di' = Advance(di, debtor.amount - amount)
    BY DEF Match, creditor, debtor, amount
  <2>2. /\ ci' = (IF creditor.amount = amount THEN ci + 1 ELSE ci)
        /\ di' = (IF debtor.amount = amount THEN di + 1 ELSE di)
    BY <1>6, <1>8, <2>1 DEF Advance
  <2> QED
    BY <2>2 DEF Match, creditor, debtor, amount
<1>10. /\ Owed' = Owed /\ Due' = Due
       /\ \A s : Sound(s)' <=> Sound(s)
  BY <1>9, SameFrame
<1>11. /\ creditors' \in Seq(Entry) /\ Len(creditors') = Len(creditors)
       /\ ci' \in Nat /\ ListInv(creditors', ci', Owed)
  <2>1. amount <= creditors[ci].amount
    BY <1>8 DEF creditor
  <2> QED
    BY <1>1, <1>2, <1>3, <1>8, <1>9, <2>1, PayHead DEF creditor
<1>12. /\ debtors' \in Seq(Entry) /\ Len(debtors') = Len(debtors)
       /\ di' \in Nat /\ ListInv(debtors', di', Due)
  <2>1. amount <= debtors[di].amount
    BY <1>8 DEF debtor
  <2> QED
    BY <1>1, <1>2, <1>3, <1>8, <1>9, <2>1, PayHead DEF debtor
<1>13. new \in Suggestion
  BY <1>2, <1>6, <1>8 DEF Suggestion
<1>14. Sound(new)
  <2>1. balances[Currency][creditor.user] \in Int /\ balances[Currency][debtor.user] \in Int
    BY <1>1, <1>6, CurrencyTypes
  <2> QED
    BY <1>2, <1>6, <1>7, <1>8, <2>1 DEF Sound
<1> HIDE DEF new
<1>15. /\ results' \in Seq(Suggestion) /\ Len(results') = Len(results) + 1
       /\ \A n \in 1..Len(results) : results'[n] = results[n]
       /\ results'[Len(results) + 1] = new
  BY <1>3, <1>9, <1>13, AppendProperties
<1>16. TypeOK'
  BY <1>1, <1>9, <1>11, <1>12, <1>15 DEF TypeOK
<1>17. (\A n \in 1..Len(results) : Sound(results[n]))'
  <2> SUFFICES ASSUME NEW n \in 1..(Len(results) + 1) PROVE Sound(results'[n])
    BY <1>10, <1>15
  <2>1. CASE n = Len(results) + 1
    BY <1>14, <1>15, <2>1
  <2>2. CASE n # Len(results) + 1
    <3>1. n \in 1..Len(results)
      BY <1>4, <2>2
    <3> QED
      BY <1>1, <1>15, <3>1 DEF IInv
  <2> QED
    BY <2>1, <2>2
<1>18. CountInv'
  <2>1. Len(results) <= (ci - 1) + (di - 1)
    BY <1>1 DEF CountInv
  <2>2. CASE creditor.amount = amount /\ debtor.amount = amount
    BY <1>4, <1>9, <1>11, <1>12, <1>15, <2>1, <2>2 DEF CountInv
  <2>3. CASE creditor.amount = amount /\ debtor.amount # amount
    <3>1. ci' = ci + 1 /\ di' = di /\ ~ (di' > Len(debtors'))
      BY <1>4, <1>9, <1>12, <2>3
    <3> QED
      BY <1>4, <1>15, <2>1, <3>1 DEF CountInv
  <2>4. CASE creditor.amount # amount
    <3>1. ci' = ci /\ di' = di + 1 /\ ~ (ci' > Len(creditors'))
      BY <1>4, <1>8, <1>9, <1>11, <2>4
    <3> QED
      BY <1>4, <1>15, <2>1, <3>1 DEF CountInv
  <2> QED
    BY <2>2, <2>3, <2>4
<1>19. ListInv(creditors, ci, Owed)' /\ ListInv(debtors, di, Due)'
  BY <1>10, <1>11, <1>12 DEF ListInv
<1>20. (\A n \in 1..Len(suggestions) : Sound(suggestions[n]))'
  BY <1>9, <1>10 DEF IInv
<1>21. (next <= Len(CurrencyOrder))'
  BY <1>1, <1>9
<1> QED
  BY <1>16, <1>17, <1>18, <1>19, <1>20, <1>21 DEF IInv

\* Leaving the loop hands its suggestions over.
LEMMA FinishStep == IInv /\ FinishCurrency => IInv'
<1> SUFFICES ASSUME IInv, FinishCurrency PROVE IInv'
  OBVIOUS
<1>1. TypeOK /\ next <= Len(CurrencyOrder)
  BY DEF IInv, FinishCurrency
<1>2. results \in Seq(Suggestion) /\ suggestions \in Seq(Suggestion)
  BY <1>1 DEF TypeOK
<1>3. suggestions' = suggestions \o results /\ ~ matching' /\ next' = next + 1
  BY DEF FinishCurrency
<1>4. /\ suggestions' \in Seq(Suggestion)
      /\ Len(suggestions') = Len(suggestions) + Len(results)
      /\ \A n \in 1..(Len(suggestions) + Len(results)) :
             suggestions'[n] = IF n <= Len(suggestions) THEN suggestions[n]
                               ELSE results[n - Len(suggestions)]
  BY <1>2, <1>3, ConcatProperties
<1>5. Len(results) \in Nat /\ Len(suggestions) \in Nat /\ Len(CurrencyOrder) \in Nat
  BY <1>2, SettlementAssumption, LenProperties
<1>6. TypeOK'
  <2>1. next' \in 1..(Len(CurrencyOrder) + 1)
    BY <1>1, <1>3, <1>5 DEF TypeOK
  <2>2. matching' \in BOOLEAN
    BY DEF FinishCurrency
  <2>3. UNCHANGED <<balances, creditors, debtors, ci, di, results>>
    BY DEF FinishCurrency
  <2> QED
    BY <1>1, <1>4, <2>1, <2>2, <2>3 DEF TypeOK
<1>7. (\A n \in 1..Len(suggestions) : Sound(suggestions[n]))'
  <2>1. \A s : Sound(s)' <=> Sound(s)
    BY DEF Sound, FinishCurrency
  <2> SUFFICES ASSUME NEW n \in 1..(Len(suggestions) + Len(results))
               PROVE  Sound(suggestions'[n])
    BY <1>4, <2>1
  <2>2. CASE n <= Len(suggestions)
    <3>1. n \in 1..Len(suggestions) /\ suggestions'[n] = suggestions[n]
      BY <1>4, <1>5, <2>2
    <3> QED
      BY <3>1 DEF IInv
  <2>3. CASE ~ (n <= Len(suggestions))
    <3>1. n - Len(suggestions) \in 1..Len(results)
      BY <1>5, <2>3
    <3>2. suggestions'[n] = results[n - Len(suggestions)]
      BY <1>4, <2>3
    <3> QED
      BY <3>1, <3>2 DEF IInv, FinishCurrency
  <2> QED
    BY <2>2, <2>3
<1> QED
  BY <1>3, <1>6, <1>7 DEF IInv

\* Nothing changes while the loop does not move.
LEMMA StutterStep == IInv /\ UNCHANGED vars => IInv'
<1> SUFFICES ASSUME IInv, UNCHANGED vars PROVE IInv'
  OBVIOUS
<1>1. UNCHANGED <<balances, next, matching, creditors, debtors, ci, di, results, suggestions>>
  BY DEF vars
<1> QED
  BY <1>1 DEF IInv, TypeOK, ListInv, CountInv, Owed, Due, Sound, Currency

\* The strengthened invariant of the loop.
THEOREM IInvHolds == Spec => []IInv
<1>1. Init => IInv
  BY InitIInv
<1>2. IInv /\ [Next]_vars => IInv'
  BY StartStep, MatchStep, FinishStep, StutterStep DEF Next
<1> QED
  BY <1>1, <1>2, PTL DEF Spec

----------------------------------------------------------------------------

\* Every value the computation of the suggestions goes through is of the kind the
\* Go declarations say: no list index is out of range.
THEOREM TypeCorrect == Spec => []TypeOK
<1>1. IInv => TypeOK
  BY DEF IInv
<1> QED
  BY <1>1, IInvHolds, PTL

\* CalculateSettlements never suggests that somebody pay more than they owe, or
\* receive more than they are owed, and never suggests an empty payment.
THEOREM NeverTooMuch == Spec => []SuggestionsSound
<1>1. IInv => SuggestionsSound
  <2> SUFFICES ASSUME IInv, NEW n \in DOMAIN Made PROVE Sound(Made[n])
    BY DEF SuggestionsSound, Sound
  <2>1. results \in Seq(Suggestion) /\ suggestions \in Seq(Suggestion)
    BY DEF IInv, TypeOK
  <2>2. Len(results) \in Nat /\ Len(suggestions) \in Nat
    BY <2>1, LenProperties
  <2>3. CASE matching
    <3>1. Made = suggestions \o results
      BY <2>3 DEF Made
    <3>2. /\ n \in 1..(Len(suggestions) + Len(results))
          /\ Made[n] = IF n <= Len(suggestions) THEN suggestions[n]
                       ELSE results[n - Len(suggestions)]
      BY <2>1, <3>1, ConcatProperties, LenProperties
    <3>3. CASE n <= Len(suggestions)
      <4>1. n \in 1..Len(suggestions) /\ Made[n] = suggestions[n]
        BY <2>2, <3>2, <3>3
      <4> QED
        BY <4>1 DEF IInv
    <3>4. CASE ~ (n <= Len(suggestions))
      <4>1. n - Len(suggestions) \in 1..Len(results)
        BY <2>2, <3>2, <3>4
      <4>2. Made[n] = results[n - Len(suggestions)]
        BY <3>2, <3>4
      <4> QED
        BY <2>3, <4>1, <4>2 DEF IInv
    <3> QED
      BY <3>3, <3>4
  <2>4. CASE ~ matching
    <3>1. Made = suggestions \o <<>>
      BY <2>4 DEF Made
    <3>2. Made = suggestions
      BY <2>1, <3>1, ConcatEmptySeq
    <3>3. n \in 1..Len(suggestions)
      BY <2>1, <3>2, LenProperties
    <3> QED
      BY <3>2, <3>3 DEF IInv
  <2> QED
    BY <2>3, <2>4
<1> QED
  BY <1>1, IInvHolds, PTL

\* A currency with n people out of balance is settled in fewer than n suggestions.
THEOREM FewerThanPeople == Spec => []FewSuggestions
<1>1. IInv => FewSuggestions
  <2> SUFFICES ASSUME IInv, matching
               PROVE  /\ Len(results) <= Len(creditors) + Len(debtors)
                      /\ results # <<>> => Len(results) < Len(creditors) + Len(debtors)
    BY DEF FewSuggestions
  <2>1. /\ ListInv(creditors, ci, Owed) /\ ListInv(debtors, di, Due) /\ CountInv
        /\ creditors \in Seq(Entry) /\ debtors \in Seq(Entry) /\ results \in Seq(Suggestion)
    BY DEF IInv, TypeOK
  <2>2. Len(creditors) \in Nat /\ Len(debtors) \in Nat /\ Len(results) \in Nat
    BY <2>1, LenProperties
  <2>3. ci \in 1..(Len(creditors) + 1) /\ di \in 1..(Len(debtors) + 1)
    BY <2>1 DEF ListInv
  <2>4. Len(results) <= (ci - 1) + (di - 1)
    BY <2>1 DEF CountInv
  <2>5. CASE ci > Len(creditors) /\ di > Len(debtors)
    <3>1. results # <<>> => Len(results) < (ci - 1) + (di - 1)
      BY <2>1, <2>5 DEF CountInv
    <3> QED
      BY <2>2, <2>3, <2>4, <3>1
  <2>6. CASE ~ (ci > Len(creditors) /\ di > Len(debtors))
    <3>1. Len(results) < Len(creditors) + Len(debtors)
      BY <2>2, <2>3, <2>4, <2>6
    <3> QED
      BY <2>2, <3>1
  <2> QED
    BY <2>5, <2>6
<1> QED
  BY <1>1, IInvHolds, PTL

\* The loop of settleForSingleCurrency ends only when nobody on one of the sides
\* has anything left to pay or to receive.
THEOREM NobodyForgotten == Spec => []OneSideSettled
<1>1. IInv => OneSideSettled
  <2> SUFFICES ASSUME IInv, matching, Exhausted
               PROVE  \/ \A n \in DOMAIN creditors : creditors[n].amount = 0
                      \/ \A n \in DOMAIN debtors : debtors[n].amount = 0
    BY DEF OneSideSettled
  <2>1. /\ ListInv(creditors, ci, Owed) /\ ListInv(debtors, di, Due)
        /\ creditors \in Seq(Entry) /\ debtors \in Seq(Entry) /\ ci \in Nat /\ di \in Nat
    BY DEF IInv, TypeOK
  <2>2. /\ Len(creditors) \in Nat /\ DOMAIN creditors = 1..Len(creditors)
        /\ Len(debtors) \in Nat /\ DOMAIN debtors = 1..Len(debtors)
    BY <2>1, LenProperties
  <2>3. CASE ci > Len(creditors)
    <3>1. \A n \in 1..Len(creditors) : n < ci
      BY <2>1, <2>2, <2>3
    <3> QED
      BY <2>1, <2>2, <3>1 DEF ListInv
  <2>4. CASE di > Len(debtors)
    <3>1. \A n \in 1..Len(debtors) : n < di
      BY <2>1, <2>2, <2>4
    <3> QED
      BY <2>1, <2>2, <3>1 DEF ListInv
  <2> QED
    BY <2>3, <2>4 DEF Exhausted
<1> QED
  BY <1>1, IInvHolds, PTL

\* Every iteration moves one of the loop's two heads forward and none back: with
\* FewSuggestions this is why settleForSingleCurrency ends.
THEOREM LoopProgresses == Spec => EveryMatchSettles
<1>1. IInv /\ Match => (ci' + di' > ci + di /\ ci' >= ci /\ di' >= di)
  <2> SUFFICES ASSUME IInv, Match PROVE ci' + di' > ci + di /\ ci' >= ci /\ di' >= di
    OBVIOUS
  <2> DEFINE amount == Smaller(creditors[ci].amount, debtors[di].amount)
  <2>1. /\ ci \in Nat /\ di \in Nat
        /\ creditors \in Seq(Entry) /\ debtors \in Seq(Entry)
        /\ ListInv(creditors, ci, Owed) /\ ListInv(debtors, di, Due)
        /\ ci <= Len(creditors) /\ di <= Len(debtors)
    BY DEF IInv, TypeOK, Match
  <2>a. creditors[ci] \in Entry /\ debtors[di] \in Entry
    BY <2>1, LenProperties, ElementOfSeq DEF ListInv
  <2>b. /\ creditors[ci].amount \in Int /\ debtors[di].amount \in Int
        /\ amount \in Int
    BY <2>a DEF Entry, Smaller
  <2>2. creditors[ci].amount = amount \/ debtors[di].amount = amount
    BY DEF Smaller
  <2>3. /\ ci' = Advance(ci, creditors[ci].amount - amount)
        /\ di' = Advance(di, debtors[di].amount - amount)
    BY DEF Match
  <2> HIDE DEF amount
  <2> QED
    BY <2>1, <2>b, <2>2, <2>3 DEF Advance
<1>2. IInv /\ [Next]_vars => [Match => ci' + di' > ci + di /\ ci' >= ci /\ di' >= di]_vars
  BY <1>1
<1> QED
  BY <1>2, IInvHolds, PTL DEF Spec, EveryMatchSettles

----------------------------------------------------------------------------
\* What is left of the balances

\* What the lists hold is what is left of the balances of the current currency, those who
\* are owed in one list, those who owe in the other, and all of them in one of the two.
Held ==
    /\ \A i, j \in 1..Len(creditors) : creditors[i].user = creditors[j].user => i = j
    /\ \A i, j \in 1..Len(debtors) : debtors[i].user = debtors[j].user => i = j
    /\ \A n \in 1..Len(creditors) :
           /\ 0 < balances[Currency][creditors[n].user]
           /\ Left(Currency, creditors[n].user) = creditors[n].amount
    /\ \A n \in 1..Len(debtors) :
           /\ balances[Currency][debtors[n].user] < 0
           /\ Left(Currency, debtors[n].user) = -debtors[n].amount
    /\ \A u \in Users :
           \/ Left(Currency, u) = 0
           \/ \E n \in 1..Len(creditors) : creditors[n].user = u
           \/ \E n \in 1..Len(debtors) : debtors[n].user = u

\* One side of a currency is settled.
OneSided(cur) ==
    \/ \A u \in Users : Left(cur, u) >= 0
    \/ \A u \in Users : Left(cur, u) <= 0

\* Suggestions are for the currencies reached so far, they move what they take, and a
\* currency that is finished is settled on one side.
LeftInv ==
    /\ \A n \in 1..Len(Made) :
           \E k \in 1..next : Made[n].currency = CurrencyOrder[k] /\ (k = next => matching)
    /\ \A cur \in Currencies :
           SumFunction([u \in Users |-> Left(cur, u)]) = SumFunction(balances[cur])
    /\ \A n \in 1..(next - 1) : OneSided(CurrencyOrder[n])
    /\ matching => Held

\* The sum of f on S, in the form the lemmas about sums have.
LEMMA SumOver ==
    ASSUME NEW S, NEW f, DOMAIN f = S
    PROVE  SumFunction(f) = SumFunctionOnSet(f, S)
  BY DEF SumFunction

\* A suggestion more changes what is left by what it brings, in its currency.
LEMMA OneMore ==
    ASSUME NEW made \in Seq(Suggestion), NEW s \in Suggestion, NEW cur \in Currencies,
           NEW u \in Users, balances[cur][u] \in Int
    PROVE  /\ LeftAfter(made, cur, u) \in Int
           /\ LeftAfter(Append(made, s), cur, u) =
                  LeftAfter(made, cur, u) + (IF s.currency = cur THEN Brings(s, u) ELSE 0)
<1> DEFINE N == Len(made)
           more == Append(made, s)
           T == {k \in DOMAIN made : made[k].currency = cur}
           T2 == {k \in DOMAIN more : more[k].currency = cur}
           f == [n \in T |-> Brings(made[n], u)]
           g == [n \in T2 |-> Brings(more[n], u)]
<1>1. /\ N \in Nat /\ DOMAIN made = 1..N /\ DOMAIN more = 1..(N + 1)
      /\ \A n \in 1..N : more[n] = made[n] /\ made[n] \in Suggestion
      /\ more[N + 1] = s
  <2>1. N \in Nat /\ DOMAIN made = 1..N /\ \A n \in 1..N : made[n] \in Suggestion
    BY LenProperties, ElementOfSeq
  <2>2. /\ more \in Seq(Suggestion) /\ Len(more) = N + 1
        /\ \A n \in 1..N : more[n] = made[n]
        /\ more[N + 1] = s
    BY AppendProperties
  <2>3. DOMAIN more = 1..(N + 1)
    BY <2>2, LenProperties
  <2> QED
    BY <2>1, <2>2, <2>3
<1>2. \A t \in Suggestion : Brings(t, u) \in Int
  BY DEF Brings, Suggestion
<1> HIDE DEF N, more
<1>3. IsFiniteSet(T) /\ IsFiniteSet(T2) /\ N + 1 \notin T
  <2>1. IsFiniteSet(1..N) /\ IsFiniteSet(1..(N + 1))
    BY <1>1, FS_Interval
  <2>2. T \in SUBSET (1..N) /\ T2 \in SUBSET (1..(N + 1))
    BY <1>1
  <2> QED
    BY <1>1, <2>1, <2>2, FS_Subset
<1>4. \A n \in T : f[n] \in Int /\ n \in T2 /\ g[n] = f[n]
  BY <1>1, <1>2
<1>5. LeftAfter(made, cur, u) = balances[cur][u] + SumFunctionOnSet(f, T)
  BY SumOver DEF LeftAfter
<1>6. LeftAfter(more, cur, u) = balances[cur][u] + SumFunctionOnSet(g, T2)
  BY SumOver DEF LeftAfter
<1>7. SumFunctionOnSet(f, T) \in Int
  BY <1>3, <1>4, SumIsInt
<1>8. SumFunctionOnSet(f, T) = SumFunctionOnSet(g, T)
  <2> HIDE DEF f, g, T, T2
  <2> QED
    BY <1>3, <1>4, SumSame
<1>9. CASE s.currency = cur
  <2>1. N + 1 \in T2 /\ T2 \ {N + 1} = T /\ g[N + 1] = Brings(s, u)
    BY <1>1, <1>9
  <2>2. \A n \in T2 : g[n] \in Int
    <3>1. \A n \in T2 : n \in T \/ n = N + 1
      BY <1>1
    <3> QED
      BY <1>2, <1>4, <2>1, <3>1
  <2>3. SumFunctionOnSet(g, T2) = g[N + 1] + SumFunctionOnSet(g, T2 \ {N + 1})
    <3>1. IsFiniteSet(T2) /\ N + 1 \in T2
      BY <1>3, <2>1
    <3> HIDE DEF f, g, T, T2
    <3> QED
      BY <2>2, <3>1, SumRemove
  <2>4. Brings(s, u) \in Int
    BY <1>2
  <2>5. SumFunctionOnSet(g, T2) = Brings(s, u) + SumFunctionOnSet(f, T)
    BY <1>8, <2>1, <2>3
  <2> HIDE DEF f, g, T, T2
  <2> QED
    BY <1>5, <1>6, <1>7, <1>9, <2>4, <2>5 DEF more
<1>10. CASE s.currency # cur
  <2>1. T2 = T
    BY <1>1, <1>10
  <2> HIDE DEF f, g, T, T2
  <2> QED
    BY <1>5, <1>6, <1>7, <1>8, <1>10, <2>1 DEF more
<1> QED
  BY <1>5, <1>7, <1>9, <1>10

\* What a suggestion brings one of its parties it takes from the other.
LEMMA BringsNothing ==
    ASSUME NEW s \in Suggestion
    PROVE  SumFunctionOnSet([u \in Users |-> Brings(s, u)], Users) = 0
<1> DEFINE f == [u \in Users |-> IF s.from = u THEN s.amount ELSE 0]
           g == [u \in Users |-> IF s.to = u THEN s.amount ELSE 0]
           h == [u \in Users |-> Brings(s, u)]
<1>1. s.from \in Users /\ s.to \in Users /\ s.amount \in Int /\ IsFiniteSet(Users)
  BY SettlementAssumption DEF Suggestion
<1>2. \A u \in Users : f[u] \in Int /\ g[u] \in Int /\ h[u] = f[u] - g[u]
  BY <1>1 DEF Brings
<1>3. /\ f[s.from] = s.amount /\ \A u \in Users \ {s.from} : f[u] = 0
      /\ g[s.to] = s.amount /\ \A u \in Users \ {s.to} : g[u] = 0
  BY <1>1
<1> HIDE DEF f, g, h
<1>4. SumFunctionOnSet(h, Users) = SumFunctionOnSet(f, Users) - SumFunctionOnSet(g, Users)
  BY <1>1, <1>2, SumSubtract
<1>5. SumFunctionOnSet(f, Users) = s.amount
  BY <1>1, <1>2, <1>3, SumSingle
<1>6. SumFunctionOnSet(g, Users) = s.amount
  BY <1>1, <1>2, <1>3, SumSingle
<1>7. SumFunctionOnSet(h, Users) = 0
  BY <1>1, <1>4, <1>5, <1>6
<1> QED
  BY <1>7 DEF h
\* A list has each of the people in P once, with their balance.
Lists(q, own, P) ==
    /\ \A n \in 1..Len(q) : q[n].user \in P /\ q[n].amount = own[q[n].user]
    /\ \A i, j \in 1..Len(q) : q[i].user = q[j].user => i = j
    /\ \A u \in P : \E n \in 1..Len(q) : q[n].user = u

\* Sorting gives such a list.
LEMMA ListHasAll ==
    ASSUME NEW own \in [Users -> Int], NEW P \in SUBSET Users,
           NEW q \in Sorted({[user |-> u, amount |-> own[u]] : u \in P})
    PROVE  Lists(q, own, P)
<1> DEFINE S == {[user |-> u, amount |-> own[u]] : u \in P}
           f == [u \in P |-> [user |-> u, amount |-> own[u]]]
           m == Cardinality(S)
<1>1. IsFiniteSet(P) /\ Users \subseteq Int
  BY SettlementAssumption, FS_Subset
<1>2. f \in Surjection(P, S)
  BY DEF Surjection
<1>3. IsFiniteSet(S)
  BY <1>1, <1>2, FS_Surjection
<1>4. /\ \A s \in S : s.user \in P /\ s.amount = own[s.user]
      /\ \A u \in P : \E s \in S : s.user = u
      /\ \A s, t \in S : s.user = t.user => s = t
  <2>1. \A s \in S : s.user \in P /\ s = [user |-> s.user, amount |-> own[s.user]]
    OBVIOUS
  <2>2. ASSUME NEW u \in P
        PROVE  \E s \in S : s.user = u
    <3>1. [user |-> u, amount |-> own[u]] \in S
      OBVIOUS
    <3> QED
      BY <3>1
  <2>3. \A s \in S : s.amount = own[s.user]
    BY <2>1
  <2>4. \A s, t \in S : s.user = t.user => s = t
    BY <2>1
  <2> HIDE DEF S
  <2> QED
    BY <2>1, <2>2, <2>3, <2>4
<1>5. q \in Sorted(S)
  OBVIOUS
<1> HIDE DEF S
<1>6. m \in Nat
  BY <1>3, FS_CardinalityType
<1>7. /\ q \in [1..m -> S]
      /\ \A i, j \in 1..m : i < j => Precedes(q[i], q[j])
  BY <1>5 DEF Sorted
<1>8. q \in Seq(S) /\ Len(q) = m
  BY <1>6, <1>7
<1>9. \A n \in 1..m : q[n] \in S /\ q[n].user \in Int /\ q[n].amount \in Int
  BY <1>1, <1>4, <1>7
<1>10. ASSUME NEW i \in 1..m, NEW j \in 1..m, i < j
       PROVE  q[i] # q[j]
  BY <1>7, <1>9, <1>10 DEF Precedes
<1>11. \A i, j \in 1..m : q[i] = q[j] => i = j
  BY <1>6, <1>10
<1>12. q \in Injection(1..m, S)
  BY <1>7, <1>11 DEF Injection, IsInjective
<1>13. IsFiniteSet(1..m) /\ Cardinality(1..m) = m
  BY <1>6, FS_Interval
<1>14. q \in Surjection(1..m, S)
  BY <1>3, <1>12, <1>13, FS_Injection
<1>15. \A s \in S : \E n \in 1..m : q[n] = s
  BY <1>14 DEF Surjection
<1>16. \A i, j \in 1..m : q[i].user = q[j].user => i = j
  BY <1>4, <1>9, <1>11
<1>17. \A u \in P : \E n \in 1..m : q[n].user = u
  BY <1>4, <1>15
<1> QED
  BY <1>4, <1>8, <1>9, <1>16, <1>17 DEF Lists

\* The suggestion that an iteration of the loop makes.
Suggested ==
    [from |-> debtors[di].user, to |-> creditors[ci].user,
     amount |-> Smaller(creditors[ci].amount, debtors[di].amount), currency |-> Currency]

\* What a step does to the suggestions made: the loop makes one more, the others none.
LEMMA MadeChanges ==
    ASSUME IInv
    PROVE  /\ Made \in Seq(Suggestion)
           /\ StartCurrency \/ FinishCurrency \/ UNCHANGED vars => Made' = Made
           /\ Match => Made' = Append(Made, Suggested)
<1>1. results \in Seq(Suggestion) /\ suggestions \in Seq(Suggestion)
  BY DEF IInv, TypeOK
<1>2. suggestions \o <<>> = suggestions
  BY <1>1, ConcatEmptySeq
<1>3. Made \in Seq(Suggestion)
  <2>1. suggestions \o results \in Seq(Suggestion)
    BY <1>1, ConcatProperties
  <2> QED
    BY <1>1, <1>2, <2>1 DEF Made
<1>4. ASSUME StartCurrency
      PROVE  Made' = Made
  <2>1. ~ matching /\ matching' /\ results' = <<>> /\ suggestions' = suggestions
    BY <1>4 DEF StartCurrency
  <2> QED
    BY <2>1 DEF Made
<1>5. ASSUME FinishCurrency
      PROVE  Made' = Made
  <2>1. suggestions' = suggestions \o results
    BY <1>5 DEF FinishCurrency
  <2> QED
    BY <1>5, <2>1 DEF FinishCurrency, Made
<1>6. ASSUME UNCHANGED vars
      PROVE  Made' = Made
  BY <1>6 DEF vars, Made
<1>7. ASSUME Match
      PROVE  Made' = Append(Made, Suggested)
  <2>1. /\ matching /\ matching' /\ suggestions' = suggestions
        /\ results' = Append(results, Suggested)
    BY <1>7 DEF Match, Suggested
  <2>2. Made = suggestions \o results /\ Made' = suggestions \o Append(results, Suggested)
    BY <2>1 DEF Made
  <2> HIDE DEF Suggested
  <2>3. suggestions \o Append(results, Suggested) = Append(suggestions \o results, Suggested)
    <3>1. results \in Seq(Suggestion \cup {Suggested}) /\ suggestions \in Seq(Suggestion \cup {Suggested})
      BY <1>1, SeqMonotonic
    <3> QED
      BY <3>1, AppendIsConcat, ConcatAssociative
  <2> QED
    BY <2>2, <2>3
<1> QED
  BY <1>3, <1>4, <1>5, <1>6, <1>7
\* Nothing suggested, nothing changed.
LEMMA NothingMade ==
    ASSUME NEW made \in Seq(Suggestion), NEW cur \in Currencies, NEW u \in Users,
           balances[cur][u] \in Int, \A n \in 1..Len(made) : made[n].currency # cur
    PROVE  LeftAfter(made, cur, u) = balances[cur][u]
<1> DEFINE T == {k \in DOMAIN made : made[k].currency = cur}
           f == [n \in T |-> Brings(made[n], u)]
<1>1. T = {}
  BY LenProperties
<1>2. LeftAfter(made, cur, u) = balances[cur][u] + SumFunctionOnSet(f, T)
  BY SumOver DEF LeftAfter
<1>3. SumFunctionOnSet(f, T) = 0
  <2> HIDE DEF f
  <2> QED
    BY <1>1, SumPick, FS_EmptySet
<1> QED
  BY <1>2, <1>3

\* Balances stay while they are settled, and so does what suggestions leave of them.
LEMMA LeftFrame ==
    ASSUME UNCHANGED balances
    PROVE  \A cur, u : Left(cur, u)' = LeftAfter(Made', cur, u)
  BY DEF Left, LeftAfter

\* In a state of IInv balances are numbers, and so is what is left of them.
LEMMA LeftTypes ==
    ASSUME IInv
    PROVE  /\ \A cur \in Currencies, u \in Users :
                  balances[cur][u] \in Int /\ Left(cur, u) \in Int
           /\ \A cur \in Currencies : DOMAIN balances[cur] = Users
           /\ \A n \in 1..Len(CurrencyOrder) : CurrencyOrder[n] \in Currencies
           /\ Len(CurrencyOrder) \in Nat /\ next \in 1..(Len(CurrencyOrder) + 1)
           /\ \A i, j \in 1..Len(CurrencyOrder) :
                  CurrencyOrder[i] = CurrencyOrder[j] => i = j
           /\ IsFiniteSet(Users) /\ Users \subseteq Int
<1>1. /\ balances \in [Currencies -> [Users -> Int]]
      /\ next \in 1..(Len(CurrencyOrder) + 1)
  BY DEF IInv, TypeOK
<1>2. \A cur \in Currencies : balances[cur] \in [Users -> Int]
  BY <1>1
<1>3. Made \in Seq(Suggestion)
  BY MadeChanges
<1>4. ASSUME NEW cur \in Currencies, NEW u \in Users
      PROVE  balances[cur][u] \in Int /\ Left(cur, u) \in Int
  <2>1. balances[cur][u] \in Int
    BY <1>2
  <2>2. PICK s \in Suggestion : TRUE
    <3>1. [from |-> u, to |-> u, amount |-> 0, currency |-> cur] \in Suggestion
      BY DEF Suggestion
    <3> QED
      BY <3>1
  <2>3. LeftAfter(Made, cur, u) \in Int
    BY <1>3, <2>1, <2>2, OneMore
  <2> QED
    BY <2>1, <2>3 DEF Left
<1>5. /\ CurrencyOrder \in Seq(Currencies) /\ IsInjective(CurrencyOrder)
      /\ IsFiniteSet(Users) /\ Users \subseteq Int
  BY SettlementAssumption
<1>6. /\ Len(CurrencyOrder) \in Nat /\ DOMAIN CurrencyOrder = 1..Len(CurrencyOrder)
      /\ \A n \in 1..Len(CurrencyOrder) : CurrencyOrder[n] \in Currencies
  BY <1>5, LenProperties, ElementOfSeq
<1>7. \A i, j \in 1..Len(CurrencyOrder) : CurrencyOrder[i] = CurrencyOrder[j] => i = j
  BY <1>5, <1>6 DEF IsInjective
<1>8. \A cur \in Currencies : DOMAIN balances[cur] = Users
  BY <1>2
<1> QED
  BY <1>1, <1>4, <1>5, <1>6, <1>7, <1>8

\* Before the first suggestion everything is left.
LEMMA LeftInit ==
    Init => LeftInv
<1> SUFFICES ASSUME Init PROVE LeftInv
  OBVIOUS
<1>1. IInv
  BY InitIInv
<1>2. Made = <<>> /\ next = 1 /\ ~ matching
  BY ConcatEmptySeq, EmptySeq DEF Init, Made
<1>3. Made \in Seq(Suggestion) /\ Len(Made) = 0
  BY <1>2, EmptySeq
<1>4. ASSUME NEW cur \in Currencies
      PROVE  SumFunction([u \in Users |-> Left(cur, u)]) = SumFunction(balances[cur])
  <2> DEFINE f == [u \in Users |-> Left(cur, u)]
             g == balances[cur]
  <2>1. ASSUME NEW u \in Users
        PROVE  f[u] \in Int /\ f[u] = g[u]
    <3>1. balances[cur][u] \in Int /\ Left(cur, u) \in Int
      BY <1>1, LeftTypes
    <3>2. LeftAfter(Made, cur, u) = balances[cur][u]
      <4>1. \A n \in 1..Len(Made) : Made[n].currency # cur
        BY <1>3
      <4> HIDE DEF f, g
      <4> QED
        BY <1>3, <3>1, <4>1, NothingMade
    <3> QED
      BY <3>1, <3>2 DEF Left
  <2>2. DOMAIN f = Users /\ DOMAIN g = Users /\ IsFiniteSet(Users)
    BY <1>1, LeftTypes
  <2> HIDE DEF f, g
  <2>3. SumFunctionOnSet(f, Users) = SumFunctionOnSet(g, Users)
    BY <2>1, <2>2, SumSame
  <2>4. SumFunction(f) = SumFunction(g)
    BY <2>2, <2>3, SumOver
  <2> QED
    BY <2>4 DEF f, g
<1> QED
  BY <1>2, <1>3, <1>4 DEF LeftInv

\* The lists a currency starts with hold its balances.
LEMMA LeftStart ==
    ASSUME IInv, LeftInv, StartCurrency
    PROVE  LeftInv'
<1>1. /\ Made' = Made /\ Made \in Seq(Suggestion)
      /\ UNCHANGED <<balances, next>> /\ Currency' = Currency
      /\ ~ matching /\ matching' /\ next <= Len(CurrencyOrder)
      /\ creditors' \in Sorted(CreditorsOf(balances[Currency]))
      /\ debtors' \in Sorted(DebtorsOf(balances[Currency]))
  BY MadeChanges DEF StartCurrency, Currency
<1>2. \A cur, u : Left(cur, u)' = Left(cur, u)
  BY <1>1, LeftFrame DEF Left
<1>3. Currency \in Currencies /\ balances[Currency] \in [Users -> Int]
  BY <1>1, CurrencyTypes DEF IInv, TypeOK
<1>4. \A u \in Users : Left(Currency, u) = balances[Currency][u]
  <2>1. \A n \in 1..Len(Made) : Made[n].currency # Currency
    <3> SUFFICES ASSUME NEW n \in 1..Len(Made), Made[n].currency = Currency
                 PROVE  FALSE
      OBVIOUS
    <3>1. PICK k \in 1..next : Made[n].currency = CurrencyOrder[k] /\ k # next
      BY <1>1 DEF LeftInv
    <3>2. k \in 1..Len(CurrencyOrder) /\ next \in 1..Len(CurrencyOrder)
      BY <1>1, <3>1, LeftTypes
    <3>3. CurrencyOrder[k] = CurrencyOrder[next]
      BY <3>1 DEF Currency
    <3> QED
      BY <3>1, <3>2, <3>3, LeftTypes
  <2> QED
    BY <1>1, <1>3, <2>1, NothingMade DEF Left
<1>5. Held'
  <2> DEFINE bal == balances[Currency]
             P == {v \in Users : bal[v] > 0}
             Q == {v \in Users : bal[v] < 0}
             own == [u \in Users |-> -bal[u]]
  <2>1. Lists(creditors', bal, P)
    <3>1. creditors' \in Sorted({[user |-> u, amount |-> bal[u]] : u \in P})
      BY <1>1 DEF CreditorsOf
    <3>2. P \in SUBSET Users /\ bal \in [Users -> Int]
      BY <1>3
    <3> HIDE DEF bal, P, Q, own
    <3> QED
      BY <3>1, <3>2, ListHasAll
  <2>2. Lists(debtors', own, Q)
    <3>1. debtors' \in Sorted({[user |-> u, amount |-> own[u]] : u \in Q})
      <4>1. DebtorsOf(bal) = {[user |-> u, amount |-> own[u]] : u \in Q}
        BY DEF DebtorsOf
      <4> QED
        BY <1>1, <4>1
    <3>2. Q \in SUBSET Users /\ own \in [Users -> Int]
      BY <1>3
    <3> HIDE DEF bal, P, Q, own
    <3> QED
      BY <3>1, <3>2, ListHasAll
  <2>3. \A u \in Users : bal[u] \in Int /\ own[u] = -bal[u] /\ Left(Currency, u)' = bal[u]
    BY <1>1, <1>2, <1>3, <1>4
  <2>4. \A n \in 1..Len(creditors') : /\ 0 < bal[creditors'[n].user]
                                      /\ Left(Currency, creditors[n].user)' = creditors'[n].amount
    BY <1>1, <1>2, <1>4, <2>1 DEF Lists
  <2>5. \A n \in 1..Len(debtors') : /\ bal[debtors'[n].user] < 0
                                    /\ Left(Currency, debtors[n].user)' = -debtors'[n].amount
    <3>1. ASSUME NEW n \in 1..Len(debtors')
          PROVE  LET u == debtors'[n].user
                 IN  u \in Users /\ bal[u] < 0 /\ -debtors'[n].amount = bal[u]
      <4>1. debtors'[n].user \in Q /\ debtors'[n].amount = own[debtors'[n].user]
        BY <2>2 DEF Lists
      <4>2. debtors'[n].user \in Users /\ bal[debtors'[n].user] < 0
        BY <4>1
      <4> HIDE DEF Q, own, bal
      <4> QED
        BY <2>3, <4>1, <4>2
    <3>2. \A n \in 1..Len(debtors') :
              Left(Currency, debtors[n].user)' = bal[debtors'[n].user]
      BY <1>1, <2>3, <3>1
    <3> QED
      BY <3>1, <3>2
  <2>6. \A u \in Users : bal[u] = 0 \/ u \in P \/ u \in Q
    BY <1>3
  <2> HIDE DEF P, Q, own
  <2>7. \A u \in Users : \/ Left(Currency, u)' = 0
                         \/ \E n \in 1..Len(creditors') : creditors'[n].user = u
                         \/ \E n \in 1..Len(debtors') : debtors'[n].user = u
    BY <2>1, <2>2, <2>3, <2>6 DEF Lists
  <2> QED
    BY <1>1, <2>1, <2>2, <2>4, <2>5, <2>7 DEF Held, Lists
<1>6. \A n \in 1..(next - 1) : OneSided(CurrencyOrder[n])'
  BY <1>2 DEF LeftInv, OneSided
<1>7. \A cur \in Currencies :
          (SumFunction([u \in Users |-> Left(cur, u)]) = SumFunction(balances[cur]))'
  BY <1>1, <1>2 DEF LeftInv
<1> QED
  BY <1>1, <1>2, <1>5, <1>6, <1>7 DEF LeftInv
\* An iteration takes from the heads of the lists what its suggestion moves.
LEMMA MatchMoves ==
    ASSUME IInv, Match
    PROVE  LET amount == Smaller(creditors[ci].amount, debtors[di].amount)
           IN  /\ ci \in 1..Len(creditors) /\ di \in 1..Len(debtors)
               /\ Len(creditors') = Len(creditors) /\ Len(debtors') = Len(debtors)
               /\ \A n \in 1..Len(creditors) :
                      /\ creditors[n].user \in Users /\ creditors[n].amount \in Int
                      /\ creditors'[n].user = creditors[n].user
                      /\ creditors'[n].amount =
                             creditors[n].amount - (IF n = ci THEN amount ELSE 0)
               /\ \A n \in 1..Len(debtors) :
                      /\ debtors[n].user \in Users /\ debtors[n].amount \in Int
                      /\ debtors'[n].user = debtors[n].user
                      /\ debtors'[n].amount =
                             debtors[n].amount - (IF n = di THEN amount ELSE 0)
               /\ amount \in Int
<1> DEFINE amount == Smaller(creditors[ci].amount, debtors[di].amount)
<1>1. /\ creditors \in Seq(Entry) /\ debtors \in Seq(Entry) /\ ci \in Nat /\ di \in Nat
      /\ ListInv(creditors, ci, Owed) /\ ListInv(debtors, di, Due)
      /\ ci <= Len(creditors) /\ di <= Len(debtors)
  BY DEF IInv, TypeOK, Match
<1>2. /\ Len(creditors) \in Nat /\ Len(debtors) \in Nat
      /\ ci \in 1..Len(creditors) /\ di \in 1..Len(debtors)
      /\ DOMAIN creditors = 1..Len(creditors) /\ DOMAIN debtors = 1..Len(debtors)
  BY <1>1, LenProperties DEF ListInv
<1>3. /\ \A n \in 1..Len(creditors) :
             creditors[n] \in Entry /\ creditors[n].user \in Users /\ creditors[n].amount \in Int
      /\ \A n \in 1..Len(debtors) :
             debtors[n] \in Entry /\ debtors[n].user \in Users /\ debtors[n].amount \in Int
  <2>1. /\ \A n \in 1..Len(creditors) : creditors[n] \in Entry
        /\ \A n \in 1..Len(debtors) : debtors[n] \in Entry
    BY <1>1, ElementOfSeq
  <2> QED
    BY <2>1 DEF Entry
<1>4. amount \in Int
  BY <1>2, <1>3 DEF Smaller
<1>5. /\ creditors' = [creditors EXCEPT ![ci] =
                           [user |-> creditors[ci].user, amount |-> creditors[ci].amount - amount]]
      /\ debtors' = [debtors EXCEPT ![di] =
                           [user |-> debtors[di].user, amount |-> debtors[di].amount - amount]]
  BY DEF Match
<1> HIDE DEF amount
<1>6. /\ [user |-> creditors[ci].user, amount |-> creditors[ci].amount - amount] \in Entry
      /\ [user |-> debtors[di].user, amount |-> debtors[di].amount - amount] \in Entry
  BY <1>2, <1>3, <1>4 DEF Entry
<1>7. /\ Len(creditors') = Len(creditors)
      /\ \A n \in 1..Len(creditors) :
             creditors'[n] = IF n = ci
                             THEN [user |-> creditors[ci].user,
                                   amount |-> creditors[ci].amount - amount]
                             ELSE creditors[n]
  BY <1>1, <1>2, <1>5, <1>6, ExceptSeq
<1>8. /\ Len(debtors') = Len(debtors)
      /\ \A n \in 1..Len(debtors) :
             debtors'[n] = IF n = di
                           THEN [user |-> debtors[di].user,
                                 amount |-> debtors[di].amount - amount]
                           ELSE debtors[n]
  BY <1>1, <1>2, <1>5, <1>6, ExceptSeq
<1>9. \A n \in 1..Len(creditors) :
          /\ creditors'[n].user = creditors[n].user
          /\ creditors'[n].amount = creditors[n].amount - (IF n = ci THEN amount ELSE 0)
  BY <1>3, <1>4, <1>7
<1>10. \A n \in 1..Len(debtors) :
          /\ debtors'[n].user = debtors[n].user
          /\ debtors'[n].amount = debtors[n].amount - (IF n = di THEN amount ELSE 0)
  BY <1>3, <1>4, <1>8
<1> QED
  BY <1>2, <1>3, <1>4, <1>7, <1>8, <1>9, <1>10 DEF amount

\* One iteration of the loop keeps LeftInv.
LEMMA LeftMatch ==
    ASSUME IInv, LeftInv, Match
    PROVE  LeftInv'
<1> DEFINE s == Suggested
           to == creditors[ci].user
           from == debtors[di].user
           amount == Smaller(creditors[ci].amount, debtors[di].amount)
<1>1. /\ Made' = Append(Made, s) /\ Made \in Seq(Suggestion)
      /\ UNCHANGED <<balances, next>> /\ Currency' = Currency
      /\ matching /\ matching' /\ next <= Len(CurrencyOrder)
  BY MadeChanges DEF Match, Currency, IInv
<1>2. /\ ci \in 1..Len(creditors) /\ di \in 1..Len(debtors)
      /\ Len(creditors') = Len(creditors) /\ Len(debtors') = Len(debtors)
      /\ \A n \in 1..Len(creditors) :
             /\ creditors[n].user \in Users /\ creditors[n].amount \in Int
             /\ creditors'[n].user = creditors[n].user
             /\ creditors'[n].amount = creditors[n].amount - (IF n = ci THEN amount ELSE 0)
      /\ \A n \in 1..Len(debtors) :
             /\ debtors[n].user \in Users /\ debtors[n].amount \in Int
             /\ debtors'[n].user = debtors[n].user
             /\ debtors'[n].amount = debtors[n].amount - (IF n = di THEN amount ELSE 0)
      /\ amount \in Int
  BY MatchMoves
<1>3. Currency \in Currencies /\ balances[Currency] \in [Users -> Int]
  BY <1>1, CurrencyTypes DEF IInv, TypeOK
<1>4. Held
  BY <1>1 DEF LeftInv
<1>5. to \in Users /\ from \in Users /\ to # from
  BY <1>2, <1>3, <1>4 DEF Held
<1>6. /\ s \in Suggestion /\ s.currency = Currency
      /\ \A u \in Users : Brings(s, u) = IF u = from THEN amount ELSE IF u = to THEN -amount ELSE 0
  <2>1. s = [from |-> from, to |-> to, amount |-> amount, currency |-> Currency]
    BY DEF Suggested
  <2> HIDE DEF s, from, to, amount
  <2> QED
    BY <1>2, <1>3, <1>5, <2>1 DEF Suggestion, Brings
<1> HIDE DEF s, to, from, amount
<1>7. ASSUME NEW cur \in Currencies, NEW u \in Users
      PROVE  /\ Left(cur, u) \in Int
             /\ Left(cur, u)' = Left(cur, u) + (IF cur = Currency THEN Brings(s, u) ELSE 0)
  <2>1. balances[cur][u] \in Int /\ Left(cur, u) \in Int
    BY LeftTypes
  <2>2. LeftAfter(Append(Made, s), cur, u) =
            LeftAfter(Made, cur, u) + (IF s.currency = cur THEN Brings(s, u) ELSE 0)
    BY <1>1, <1>6, <2>1, OneMore
  <2>3. Left(cur, u)' = LeftAfter(Made', cur, u)
    BY <1>1, LeftFrame
  <2> QED
    BY <1>1, <1>6, <2>1, <2>2, <2>3 DEF Left
<1>8. Held'
  <2>1. /\ \A i, j \in 1..Len(creditors') : creditors'[i].user = creditors'[j].user => i = j
        /\ \A i, j \in 1..Len(debtors') : debtors'[i].user = debtors'[j].user => i = j
    BY <1>2, <1>4 DEF Held
  <2>2. ASSUME NEW n \in 1..Len(creditors')
        PROVE  /\ 0 < balances[Currency][creditors'[n].user]
               /\ Left(Currency, creditors[n].user)' = creditors'[n].amount
    <3>1. n \in 1..Len(creditors) /\ creditors'[n].user = creditors[n].user
      BY <1>2
    <3>2. /\ 0 < balances[Currency][creditors[n].user]
          /\ Left(Currency, creditors[n].user) = creditors[n].amount
      BY <1>4, <3>1 DEF Held
    <3>3. creditors[n].user \in Users /\ creditors[n].user # from
      BY <1>2, <1>3, <1>4, <3>1, <3>2 DEF Held, from
    <3>4. creditors[n].user = to <=> n = ci
      BY <1>2, <1>4, <3>1 DEF Held, to
    <3>5. Brings(s, creditors[n].user) = -(IF n = ci THEN amount ELSE 0)
      BY <1>2, <1>6, <3>3, <3>4
    <3>6. Left(Currency, creditors[n].user)' =
              Left(Currency, creditors[n].user) + Brings(s, creditors[n].user)
      BY <1>1, <1>3, <1>7, <3>1, <3>3
    <3> QED
      BY <1>2, <3>1, <3>2, <3>5, <3>6
  <2>3. ASSUME NEW n \in 1..Len(debtors')
        PROVE  /\ balances[Currency][debtors'[n].user] < 0
               /\ Left(Currency, debtors[n].user)' = -debtors'[n].amount
    <3>1. n \in 1..Len(debtors) /\ debtors'[n].user = debtors[n].user
      BY <1>2
    <3>2. /\ balances[Currency][debtors[n].user] < 0
          /\ Left(Currency, debtors[n].user) = -debtors[n].amount
      BY <1>4, <3>1 DEF Held
    <3>3. debtors[n].user \in Users /\ debtors[n].user # to
      BY <1>2, <1>3, <1>4, <3>1, <3>2 DEF Held, to
    <3>4. debtors[n].user = from <=> n = di
      BY <1>2, <1>4, <3>1 DEF Held, from
    <3>5. Brings(s, debtors[n].user) = IF n = di THEN amount ELSE 0
      BY <1>2, <1>6, <3>3, <3>4
    <3>6. Left(Currency, debtors[n].user)' =
              Left(Currency, debtors[n].user) + Brings(s, debtors[n].user)
      BY <1>1, <1>3, <1>7, <3>1, <3>3
    <3> QED
      BY <1>2, <3>1, <3>2, <3>5, <3>6
  <2>4. ASSUME NEW u \in Users
        PROVE  \/ Left(Currency, u)' = 0
               \/ \E n \in 1..Len(creditors') : creditors'[n].user = u
               \/ \E n \in 1..Len(debtors') : debtors'[n].user = u
    <3>1. Left(Currency, u)' = Left(Currency, u) + Brings(s, u) /\ Left(Currency, u) \in Int
      BY <1>1, <1>3, <1>7
    <3>2. CASE u = from \/ u = to
      BY <1>2, <3>2 DEF from, to
    <3>3. CASE u # from /\ u # to
      <4>1. Left(Currency, u)' = Left(Currency, u)
        BY <1>6, <3>1, <3>3
      <4>2. \/ Left(Currency, u) = 0
            \/ \E n \in 1..Len(creditors) : creditors[n].user = u
            \/ \E n \in 1..Len(debtors) : debtors[n].user = u
        BY <1>4 DEF Held
      <4> QED
        BY <1>2, <4>1, <4>2
    <3> QED
      BY <3>2, <3>3
  <2> QED
    BY <1>1, <2>1, <2>2, <2>3, <2>4 DEF Held
<1>9. (\A cur \in Currencies :
           SumFunction([u \in Users |-> Left(cur, u)]) = SumFunction(balances[cur]))'
  <2> SUFFICES ASSUME NEW cur \in Currencies
               PROVE  SumFunction([u \in Users |-> Left(cur, u)'])
                          = SumFunction([u \in Users |-> Left(cur, u)])
    BY <1>1 DEF LeftInv
  <2> DEFINE f == [u \in Users |-> Left(cur, u)]
             g == [u \in Users |-> IF cur = Currency THEN Brings(s, u) ELSE 0]
             h == [u \in Users |-> Left(cur, u)']
             b == [u \in Users |-> Brings(s, u)]
  <2>1. \A u \in Users : f[u] \in Int /\ g[u] \in Int /\ h[u] = f[u] + g[u]
    <3>1. \A u \in Users : Brings(s, u) \in Int
      BY <1>2, <1>6
    <3> QED
      BY <1>7, <3>1
  <2>2. SumFunctionOnSet(g, Users) = 0
    <3>1. CASE cur = Currency
      <4>1. g = b
        BY <3>1
      <4>2. SumFunctionOnSet(b, Users) = 0
        BY <1>6, BringsNothing
      <4> HIDE DEF g, b
      <4> QED
        BY <4>1, <4>2
    <3>2. CASE cur # Currency
      <4>1. \A u \in Users : g[u] = 0
        BY <3>2
      <4> HIDE DEF g
      <4> QED
        BY <4>1, LeftTypes, SumZero
    <3> QED
      BY <3>1, <3>2
  <2>3. DOMAIN f = Users /\ DOMAIN h = Users
    OBVIOUS
  <2> HIDE DEF f, g, h, b
  <2>4. IsFiniteSet(Users)
    BY LeftTypes
  <2>5. SumFunctionOnSet(h, Users) = SumFunctionOnSet(f, Users) + SumFunctionOnSet(g, Users)
    BY <2>1, <2>4, SumAdd
  <2>6. SumFunctionOnSet(f, Users) \in Int
    BY <2>1, <2>4, SumIsInt
  <2>7. SumFunction(h) = SumFunction(f)
    BY <2>2, <2>3, <2>5, <2>6, SumOver
  <2> QED
    BY <2>7 DEF f, h
<1>10. (\A n \in 1..(next - 1) : OneSided(CurrencyOrder[n]))'
  <2> SUFFICES ASSUME NEW n \in 1..(next - 1)
               PROVE  OneSided(CurrencyOrder[n])'
    BY <1>1
  <2>1. n \in 1..Len(CurrencyOrder) /\ next \in 1..Len(CurrencyOrder) /\ n # next
    BY <1>1, LeftTypes
  <2>2. CurrencyOrder[n] \in Currencies /\ CurrencyOrder[n] # Currency
    BY <2>1, LeftTypes DEF Currency
  <2>3. \A u \in Users : Left(CurrencyOrder[n], u)' = Left(CurrencyOrder[n], u)
    BY <1>7, <2>2
  <2> QED
    BY <2>3 DEF LeftInv, OneSided
<1>11. (\A n \in 1..Len(Made) :
            \E k \in 1..next : Made[n].currency = CurrencyOrder[k] /\ (k = next => matching))'
  <2>1. /\ Len(Made) \in Nat /\ Len(Made') = Len(Made) + 1 /\ Made'[Len(Made) + 1] = s
        /\ \A n \in 1..Len(Made) : Made'[n] = Made[n]
    BY <1>1, <1>6, AppendProperties, LenProperties
  <2>2. next \in 1..next
    BY LeftTypes
  <2> SUFFICES ASSUME NEW n \in 1..(Len(Made) + 1)
               PROVE  \E k \in 1..next : Made'[n].currency = CurrencyOrder[k]
    BY <1>1, <2>1
  <2>3. CASE n = Len(Made) + 1
    BY <1>6, <2>1, <2>2, <2>3 DEF Currency
  <2>4. CASE n # Len(Made) + 1
    <3>1. n \in 1..Len(Made)
      BY <2>1, <2>4
    <3> QED
      BY <2>1, <3>1 DEF LeftInv
  <2> QED
    BY <2>3, <2>4
<1> QED
  BY <1>8, <1>9, <1>10, <1>11 DEF LeftInv
\* A currency whose lists are exhausted is settled on one side.
LEMMA LeftFinish ==
    ASSUME IInv, LeftInv, FinishCurrency
    PROVE  LeftInv'
<1>1. /\ Made' = Made
      /\ UNCHANGED balances /\ next' = next + 1
      /\ matching /\ ~ matching' /\ Exhausted /\ next <= Len(CurrencyOrder)
  BY MadeChanges DEF FinishCurrency, IInv
<1>2. \A cur, u : Left(cur, u)' = Left(cur, u)
  BY <1>1, LeftFrame DEF Left
<1>3. Held /\ Currency = CurrencyOrder[next] /\ next \in 1..Len(CurrencyOrder)
  BY <1>1, LeftTypes DEF LeftInv, Currency
<1>4. OneSided(Currency)
  <2>1. /\ creditors \in Seq(Entry) /\ debtors \in Seq(Entry) /\ ci \in Nat /\ di \in Nat
        /\ ListInv(creditors, ci, Owed) /\ ListInv(debtors, di, Due)
    BY <1>1 DEF IInv, TypeOK
  <2>2. /\ Len(creditors) \in Nat /\ Len(debtors) \in Nat
        /\ \A n \in 1..Len(creditors) : creditors[n] \in Entry
        /\ \A n \in 1..Len(debtors) : debtors[n] \in Entry
    BY <2>1, LenProperties, ElementOfSeq
  <2>3. /\ \A n \in 1..Len(creditors) : creditors[n].amount \in Int /\ creditors[n].amount >= 0
        /\ \A n \in 1..Len(debtors) : debtors[n].amount \in Int /\ debtors[n].amount >= 0
    <3>1. /\ \A n \in 1..Len(creditors) : creditors[n].amount \in Int
          /\ \A n \in 1..Len(debtors) : debtors[n].amount \in Int
      BY <2>2 DEF Entry
    <3> QED
      BY <2>1, <2>2, <3>1 DEF ListInv
  <2>4. CASE ci > Len(creditors)
    <3>1. \A n \in 1..Len(creditors) : creditors[n].amount = 0
      BY <2>1, <2>2, <2>4 DEF ListInv
    <3>2. \A u \in Users : Left(Currency, u) <= 0
      BY <1>3, <2>3, <3>1 DEF Held
    <3> QED
      BY <3>2 DEF OneSided
  <2>5. CASE di > Len(debtors)
    <3>1. \A n \in 1..Len(debtors) : debtors[n].amount = 0
      BY <2>1, <2>2, <2>5 DEF ListInv
    <3>2. \A u \in Users : Left(Currency, u) >= 0
      BY <1>3, <2>3, <3>1 DEF Held
    <3> QED
      BY <3>2 DEF OneSided
  <2> QED
    BY <1>1, <2>4, <2>5 DEF Exhausted
<1>5. (\A n \in 1..(next - 1) : OneSided(CurrencyOrder[n]))'
  <2> SUFFICES ASSUME NEW n \in 1..next
               PROVE  OneSided(CurrencyOrder[n])'
    BY <1>1, <1>3
  <2>1. OneSided(CurrencyOrder[n])
    <3>1. CASE n = next
      BY <1>3, <1>4, <3>1
    <3>2. CASE n # next
      <4>1. n \in 1..(next - 1)
        BY <1>3, <3>2
      <4> QED
        BY <4>1 DEF LeftInv
    <3> QED
      BY <3>1, <3>2
  <2> QED
    BY <1>2, <2>1 DEF OneSided
<1>6. (\A cur \in Currencies :
           SumFunction([u \in Users |-> Left(cur, u)]) = SumFunction(balances[cur]))'
  BY <1>1, <1>2 DEF LeftInv
<1>7. (\A n \in 1..Len(Made) :
           \E k \in 1..next : Made[n].currency = CurrencyOrder[k] /\ (k = next => matching))'
  <2> SUFFICES ASSUME NEW n \in 1..Len(Made)
               PROVE  \E k \in 1..(next + 1) : Made[n].currency = CurrencyOrder[k] /\ k # next + 1
    BY <1>1
  <2>1. PICK k \in 1..next : Made[n].currency = CurrencyOrder[k]
    BY DEF LeftInv
  <2>2. k \in 1..(next + 1) /\ k # next + 1
    BY <1>3, <2>1
  <2> QED
    BY <2>1, <2>2
<1> QED
  BY <1>1, <1>5, <1>6, <1>7 DEF LeftInv

\* A step that changes nothing keeps LeftInv.
LEMMA LeftStutter ==
    ASSUME IInv, LeftInv, UNCHANGED vars
    PROVE  LeftInv'
<1>1. /\ Made' = Made /\ Currency' = Currency
      /\ UNCHANGED <<balances, next, matching, creditors, debtors>>
  BY MadeChanges DEF vars, Currency
<1>2. \A cur, u : Left(cur, u)' = Left(cur, u)
  BY <1>1, LeftFrame DEF Left
<1>3. matching => Held'
  BY <1>1, <1>2 DEF LeftInv, Held
<1>4. (\A n \in 1..(next - 1) : OneSided(CurrencyOrder[n]))'
  BY <1>1, <1>2 DEF LeftInv, OneSided
<1>5. (\A cur \in Currencies :
           SumFunction([u \in Users |-> Left(cur, u)]) = SumFunction(balances[cur]))'
  BY <1>1, <1>2 DEF LeftInv
<1> QED
  BY <1>1, <1>3, <1>4, <1>5 DEF LeftInv

\* In any group the lists hold what the suggestions leave of the balances, and
\* suggestions move what they take.
THEOREM LeftInvHolds ==
    Spec => []LeftInv
<1>1. IInv /\ LeftInv /\ [Next]_vars => LeftInv'
  BY LeftStart, LeftMatch, LeftFinish, LeftStutter DEF Next
<1> QED
  BY <1>1, LeftInit, IInvHolds, PTL DEF Spec

\* Following the suggestions of CalculateSettlements settles every currency of any
\* group: nobody is left owing while somebody is owed, and what is left is the drift that
\* the displayed balances had.
THEOREM SettledUpToDriftHolds ==
    Spec => []SettledUpToDrift
<1>1. IInv /\ LeftInv => SettledUpToDrift
  <2> SUFFICES ASSUME IInv, LeftInv, NEW n \in 1..(next - 1)
               PROVE  LET cur == CurrencyOrder[n]
                      IN  /\ \/ \A u \in Users : Left(cur, u) >= 0
                             \/ \A u \in Users : Left(cur, u) <= 0
                          /\ SumFunction([u \in Users |-> Left(cur, u)])
                                 = SumFunction(balances[cur])
    BY DEF SettledUpToDrift
  <2>1. CurrencyOrder[n] \in Currencies
    <3>1. n \in 1..Len(CurrencyOrder)
      BY LeftTypes
    <3> QED
      BY <3>1, LeftTypes
  <2>2. OneSided(CurrencyOrder[n])
    BY DEF LeftInv
  <2> QED
    BY <2>1, <2>2 DEF LeftInv, OneSided
<1> QED
  BY <1>1, IInvHolds, LeftInvHolds, PTL

=============================================================================
