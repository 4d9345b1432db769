------------------------------- MODULE Balance -------------------------------
(***************************************************************************)
(* The money arithmetic of calc/balance.go and calc/stats.go as operators. *)
(*                                                                         *)
(* An action is a row of expenses, transfers or currency_conversions.      *)
(* Amounts are cents.  The float64 sub-cents of the code are integers in   *)
(* units of 1/Scale cent: with Scale a multiple of every possible total    *)
(* weight each share is exact, so the model keeps every rounding the code  *)
(* performs and leaves out only the noise of binary floating point.        *)
(*                                                                         *)
(* A weight function w maps each present member of the group to a positive *)
(* weight; its DOMAIN is the group's membership (userWeights in the code). *)
(***************************************************************************)
EXTENDS Integers, FiniteSets, SequencesExt

CONSTANTS
    Currencies,  \* currency codes in use in the group
    Scale,       \* sub-cent units in a cent
    DayLength    \* time units in a calendar day

ASSUME ScaleAssumption == Scale \in Nat \ {0} /\ DayLength \in Nat \ {0}

----------------------------------------------------------------------------
\* Rounding and weights

\* math.Round(a / b), b > 0: to the nearest integer, halves away from zero.
RoundQuotient(a, b) ==
    IF a >= 0 THEN (2*a + b) \div (2*b) ELSE -((b - 2*a) \div (2*b))

\* int64(math.Round(v)) for v sub-cents.
Cents(v) == RoundQuotient(v, Scale)

\* userWeights[u]: a Go map yields 0 for someone who is not a member.
Weight(w, u) == IF u \in DOMAIN w THEN w[u] ELSE 0

\* Mutant: the weight of the whole group.
GroupWeight(w, S) == SumFunction(w)

\* totalWeight of the people an expense is for.
TotalWeight(w, S) == SumFunction([u \in S |-> Weight(w, u)])

\* Mutant: a share rounded to whole cents at once.
ShareRoundedAtOnce(w, e, u) ==
    Cents((e.amount * Weight(w, u) * Scale) \div TotalWeight(w, e.beneficiaries)) * Scale

\* One beneficiary's part of an expense, in sub-cents.
Share(w, e, u) ==
    (e.amount * Weight(w, u) * Scale) \div TotalWeight(w, e.beneficiaries)

----------------------------------------------------------------------------
\* The actions of a group

Expenses(actions)    == {a \in actions : a.kind = "expense"}
Transfers(actions)   == {a \in actions : a.kind = "transfer"}
Conversions(actions) == {a \in actions : a.kind = "conversion"}

\* GetGroupExpenses joins the beneficiaries: an expense without any is not read.
GroupExpenses(actions) == {e \in Expenses(actions) : e.beneficiaries # {}}

\* Mutant: the replay in the order the rows were created.
BeforeByCreation(a, b) ==
    a.createdAt < b.createdAt \/ (a.createdAt = b.createdAt /\ a.id < b.id)

\* The order of the replay: (date, createdAt, id).
Before(a, b) ==
    \/ a.date < b.date
    \/ a.date = b.date /\ a.createdAt < b.createdAt
    \/ a.date = b.date /\ a.createdAt = b.createdAt /\ a.id < b.id

\* The rows of S in the order of the replay: each at the place that the number of rows
\* before it gives.
Sorted(S) ==
    [n \in 1..Cardinality(S) |->
        CHOOSE a \in S : Cardinality({b \in S : Before(b, a)}) = n - 1]

\* What the three queries of buildBalanceEvents yield.
Replayed(actions) == GroupExpenses(actions) \cup Transfers(actions) \cup Conversions(actions)

BalanceEvents(actions) == Sorted(Replayed(actions))

\* Applying an action whose party is not a member writes to a nil Go map.
Panics(w, a) ==
    CASE a.kind = "expense" ->
             /\ TotalWeight(w, a.beneficiaries) # 0
             /\ ~ (a.beneficiaries \cup {a.payer} \subseteq DOMAIN w)
      [] a.kind = "transfer" -> ~ ({a.sender, a.receiver} \subseteq DOMAIN w)
      [] a.kind = "conversion" -> FALSE

\* Every event can be applied: no handler that computes a balance panics.
Computable(w, actions) ==
    \A a \in Replayed(actions) : ~ Panics(w, a)

----------------------------------------------------------------------------
\* The replay

NoBalance(w) == [u \in DOMAIN w |-> [c \in Currencies |-> 0]]

\* Mutant: the payer's own share is not deducted.
ApplyExpenseToOthers(w, bal, e) ==
    IF TotalWeight(w, e.beneficiaries) = 0 THEN bal
    ELSE [u \in DOMAIN w |-> [bal[u] EXCEPT ![e.currency] =
             @ + (IF u = e.payer THEN e.amount * Scale ELSE 0)
               - (IF u \in e.beneficiaries \ {e.payer} THEN Share(w, e, u) ELSE 0)]]

ApplyExpense(w, bal, e) ==
    IF TotalWeight(w, e.beneficiaries) = 0 THEN bal
    ELSE [u \in DOMAIN w |-> [bal[u] EXCEPT ![e.currency] =
             @ + (IF u = e.payer THEN e.amount * Scale ELSE 0)
               - (IF u \in e.beneficiaries THEN Share(w, e, u) ELSE 0)]]

ApplyTransfer(bal, t) ==
    LET paid == [bal EXCEPT ![t.sender][t.currency] = @ + t.amount * Scale]
    IN  [paid EXCEPT ![t.receiver][t.currency] = @ - t.amount * Scale]

\* math.Round(from * rate): the part of a member's position that moves, in cents.
Folded(v, x) == RoundQuotient(v * x.rate.num, Scale * x.rate.den)

\* A member whose position is zero is skipped, which folding 0 amounts to.
ApplyConversion(bal, x) ==
    [u \in DOMAIN bal |->
        [bal[u] EXCEPT ![x.to]   = @ + Folded(bal[u][x.from], x) * Scale,
                       ![x.from] = 0]]

ApplyEvent(w, bal, a) ==
    CASE a.kind = "expense"    -> ApplyExpense(w, bal, a)
      [] a.kind = "transfer"   -> ApplyTransfer(bal, a)
      [] a.kind = "conversion" -> ApplyConversion(bal, a)

\* floatBalances after every event.
FloatBalances(w, actions) ==
    FoldLeft(LAMBDA bal, a : ApplyEvent(w, bal, a), NoBalance(w),
             BalanceEvents(actions))

RoundBalance(bal) == [u \in DOMAIN bal |-> [c \in Currencies |-> Cents(bal[u][c])]]

ComputeGroupBalance(w, actions) == RoundBalance(FloatBalances(w, actions))

----------------------------------------------------------------------------
\* Group statistics

DayKey(t) == t \div DayLength

\* One snapshot per day of activity: the state at the day's last event.
ComputeBalanceTimeline(w, actions) ==
    LET Step(acc, a) ==
            LET bal  == ApplyEvent(w, acc.bal, a)
                snap == [day |-> DayKey(a.date), balances |-> RoundBalance(bal)]
                same == acc.snaps # <<>> /\ Last(acc.snaps).day = snap.day
            IN  [bal |-> bal,
                 snaps |-> Append(IF same THEN Front(acc.snaps) ELSE acc.snaps, snap)]
    IN  FoldLeft(Step, [bal |-> NoBalance(w), snaps |-> <<>>],
                 BalanceEvents(actions)).snaps

\* What u paid and what u consumed; both also cover people who are not members.
ComputeMemberSpending(w, actions, u) ==
    LET In(c)       == {e \in GroupExpenses(actions) : e.currency = c}
        Consumed(e) == IF u \in e.beneficiaries /\ TotalWeight(w, e.beneficiaries) # 0
                       THEN Share(w, e, u) ELSE 0
        Paid(e)     == IF e.payer = u THEN e.amount ELSE 0
    IN  [paid  |-> [c \in Currencies |-> SumFunction([e \in In(c) |-> Paid(e)])],
         share |-> [c \in Currencies |-> Cents(SumFunction([e \in In(c) |-> Consumed(e)]))]]

\* Running totals of the expenses read, one snapshot per day; sorted by
\* (date, createdAt), here with the id as the tie-break a stable sort leaves open.
ComputeSpendingTimeline(actions) ==
    LET Step(acc, e) ==
            LET total == [acc.total EXCEPT ![e.currency] = @ + e.amount]
                snap  == [day |-> DayKey(e.date), total |-> total]
                same  == acc.snaps # <<>> /\ Last(acc.snaps).day = snap.day
            IN  [total |-> total,
                 snaps |-> Append(IF same THEN Front(acc.snaps) ELSE acc.snaps, snap)]
    IN  FoldLeft(Step, [total |-> [c \in Currencies |-> 0], snaps |-> <<>>],
                 Sorted(GroupExpenses(actions))).snaps

\* Mutant: a row per beneficiary, as the query of the expenses yields them.
TotalSpendingPerBeneficiary(actions) ==
    [c \in Currencies |->
        SumFunction([e \in {f \in Expenses(actions) : f.currency = c} |->
                        e.amount * Cardinality(e.beneficiaries)])]

\* GetGroupTotalSpending joins the payer only: it counts every expense.
TotalSpending(actions) ==
    [c \in Currencies |->
        SumFunction([e \in {f \in Expenses(actions) : f.currency = c} |-> e.amount])]

=============================================================================
