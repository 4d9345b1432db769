------------------------------ MODULE Settlement ------------------------------
(***************************************************************************)
(* calc/settlement.go: the suggestions that settle a group's balances.     *)
(*                                                                         *)
(* CalculateSettlements runs settleForSingleCurrency for each currency in  *)
(* order; that lists creditors and debtors, largest first, and matches the *)
(* heads of the two lists until one list is exhausted.                     *)
(*                                                                         *)
(* The input is whatever ComputeGroupBalance displays, so the balances of  *)
(* a currency need not add up to zero: each was rounded on its own.        *)
(***************************************************************************)
EXTENDS Integers, Sequences, FiniteSets, Functions

CONSTANTS
    Users,          \* user ids, as numbers in the order of the id strings
    CurrencyOrder,  \* sortedCurrencies: the keys of a map, sorted
    Inputs          \* the group balances to settle: currency -> user -> cents

Currencies == {CurrencyOrder[n] : n \in DOMAIN CurrencyOrder}

ASSUME SettlementAssumption ==
    /\ Users \subseteq Int /\ IsFiniteSet(Users)
    /\ CurrencyOrder \in Seq(Currencies) /\ IsInjective(CurrencyOrder)
    /\ Inputs \subseteq [Currencies -> [Users -> Int]]

VARIABLES
    balances,     \* the GroupBalance being settled
    next,         \* index in CurrencyOrder of the currency being processed
    matching,     \* inside settleForSingleCurrency's loop
    creditors,    \* userBalance lists, amounts still to be matched
    debtors,
    ci, di,       \* heads of the two lists
    results,      \* suggestions of the current currency
    suggestions   \* suggestions of the currencies before it

vars == <<balances, next, matching, creditors, debtors, ci, di, results, suggestions>>

Entry == [user : Users, amount : Int]
Suggestion == [from : Users, to : Users, amount : Int, currency : Currencies]

TypeOK ==
    /\ balances \in [Currencies -> [Users -> Int]]
    /\ next \in 1..(Len(CurrencyOrder) + 1)
    /\ matching \in BOOLEAN
    /\ creditors \in Seq(Entry) /\ debtors \in Seq(Entry)
    /\ ci \in Nat /\ di \in Nat
    /\ results \in Seq(Suggestion) /\ suggestions \in Seq(Suggestion)

----------------------------------------------------------------------------

Currency == CurrencyOrder[next]

\* sortByAmountDesc: amount descending, then user id ascending.
Precedes(x, y) == x.amount > y.amount \/ (x.amount = y.amount /\ x.user < y.user)

\* The lists of S's elements in that order: there is exactly one.
Sorted(S) ==
    {q \in [1..Cardinality(S) -> S] :
        \A i, j \in DOMAIN q : i < j => Precedes(q[i], q[j])}

\* Mutant: a cent is taken for rounding noise.
CreditorsAboveACent(bal) ==
    {[user |-> u, amount |-> bal[u]] : u \in {v \in Users : bal[v] > 1}}

\* Positive balances, and negative ones stored as positive amounts.
CreditorsOf(bal) == {[user |-> u, amount |-> bal[u]] : u \in {v \in Users : bal[v] > 0}}
DebtorsOf(bal)   == {[user |-> u, amount |-> -bal[u]] : u \in {v \in Users : bal[v] < 0}}

\* Mutant: the larger amount is transferred.
Larger(m, n) == IF m < n THEN n ELSE m

Smaller(m, n) == IF m < n THEN m ELSE n

\* Mutants: the head moves on regardless, or only below zero.
AdvanceAlways(head, remaining) == head + 1
AdvanceBelowZero(head, remaining) == IF remaining < 0 THEN head + 1 ELSE head

\* The head of a list moves past whoever has nothing left.
Advance(head, remaining) == IF remaining = 0 THEN head + 1 ELSE head

Init ==
    /\ balances \in Inputs
    /\ next = 1
    /\ matching = FALSE
    /\ creditors = <<>> /\ debtors = <<>>
    /\ ci = 1 /\ di = 1
    /\ results = <<>> /\ suggestions = <<>>

\* Mutant: the results of the currency before are still there.
StartCurrencyWithOldResults ==
    /\ ~ matching
    /\ next <= Len(CurrencyOrder)
    /\ creditors' \in Sorted(CreditorsOf(balances[Currency]))
    /\ debtors' \in Sorted(DebtorsOf(balances[Currency]))
    /\ matching' = TRUE
    /\ ci' = 1 /\ di' = 1
    /\ UNCHANGED <<balances, next, results, suggestions>>

\* Enter settleForSingleCurrency: separate, sort, reset the heads.
StartCurrency ==
    /\ ~ matching
    /\ next <= Len(CurrencyOrder)
    /\ creditors' \in Sorted(CreditorsOf(balances[Currency]))
    /\ debtors' \in Sorted(DebtorsOf(balances[Currency]))
    /\ matching' = TRUE
    /\ ci' = 1 /\ di' = 1
    /\ results' = <<>>
    /\ UNCHANGED <<balances, next, suggestions>>

\* One iteration of the loop: transfer the smaller of the two amounts, then move
\* past whoever is settled.
Match ==
    /\ matching
    /\ ci <= Len(creditors) /\ di <= Len(debtors)
    /\ LET creditor == creditors[ci]
           debtor   == debtors[di]
           amount   == Smaller(creditor.amount, debtor.amount)
       IN  /\ results' = Append(results, [from |-> debtor.user, to |-> creditor.user,
                                          amount |-> amount, currency |-> Currency])
           /\ creditors' = [creditors EXCEPT ![ci] =
                                [user |-> creditor.user, amount |-> creditor.amount - amount]]
           /\ debtors' = [debtors EXCEPT ![di] =
                                [user |-> debtor.user, amount |-> debtor.amount - amount]]
           /\ ci' = Advance(ci, creditor.amount - amount)
           /\ di' = Advance(di, debtor.amount - amount)
    /\ UNCHANGED <<balances, next, matching, suggestions>>

Exhausted == ci > Len(creditors) \/ di > Len(debtors)

\* Mutant: the currency counts as finished, but the loop is not left.
FinishCurrencyAgain ==
    /\ matching
    /\ Exhausted
    /\ suggestions' = suggestions \o results
    /\ next' = next + 1
    /\ UNCHANGED <<balances, matching, creditors, debtors, ci, di, results>>

\* The loop ends; the currency's results are appended to the answer.
FinishCurrency ==
    /\ matching
    /\ Exhausted
    /\ suggestions' = suggestions \o results
    /\ matching' = FALSE
    /\ next' = next + 1
    /\ UNCHANGED <<balances, creditors, debtors, ci, di, results>>

Done == ~ matching /\ next = Len(CurrencyOrder) + 1

Next == StartCurrency \/ Match \/ FinishCurrency

Spec == Init /\ [][Next]_vars

----------------------------------------------------------------------------
\* Properties

\* The suggestions made so far, for every currency.
Made == suggestions \o (IF matching THEN results ELSE <<>>)

\* Every suggestion moves a positive amount from someone who owes to someone who is
\* owed in that currency, and never more than either of the two balances
\* (settlement.go:11, "always positive").
SuggestionsSound ==
    \A n \in DOMAIN Made :
        LET s == Made[n]
            bal == balances[s.currency]
        IN  /\ 0 < s.amount
            /\ s.amount <= bal[s.to]
            /\ s.amount <= -bal[s.from]

\* A currency takes fewer suggestions than it has people with a balance.
FewSuggestions ==
    matching =>
        /\ Len(results) <= Len(creditors) + Len(debtors)
        /\ results # <<>> => Len(results) < Len(creditors) + Len(debtors)

\* When the loop is over one side has nothing left: what the other side keeps is
\* the rounding drift of the displayed balances, never somebody's forgotten debt.
OneSideSettled ==
    (matching /\ Exhausted) =>
        \/ \A n \in DOMAIN creditors : creditors[n].amount = 0
        \/ \A n \in DOMAIN debtors : debtors[n].amount = 0

\* What following a suggestion adds to u's balance.
Brings(s, u) ==
    (IF s.from = u THEN s.amount ELSE 0) - (IF s.to = u THEN s.amount ELSE 0)

\* What is left of a balance once suggestions are followed.
LeftAfter(made, cur, u) ==
    balances[cur][u] + SumFunction([n \in {k \in DOMAIN made : made[k].currency = cur} |->
                                        Brings(made[n], u)])
Left(cur, u) == LeftAfter(Made, cur, u)

\* After a currency is finished, what is left of its balances is on one side only and
\* adds up to what the displayed balances did: following the suggestions settles the
\* currency, up to the drift of its balances.
SettledUpToDrift ==
    \A n \in 1..(next - 1) :
        LET cur == CurrencyOrder[n]
        IN  /\ \/ \A u \in Users : Left(cur, u) >= 0
               \/ \A u \in Users : Left(cur, u) <= 0
            /\ SumFunction([u \in Users |-> Left(cur, u)]) = SumFunction(balances[cur])

\* Every iteration settles somebody for good: the loop's heads only move forward
\* and at least one of them does, which is why the loop ends.
EveryMatchSettles == [][Match => ci' + di' > ci + di /\ ci' >= ci /\ di' >= di]_vars

=============================================================================
