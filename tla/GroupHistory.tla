---------------------------- MODULE GroupHistory ----------------------------
(***************************************************************************)
(* One group's actions as they are recorded, edited and deleted over time, *)
(* in any order of their dates, while weights and membership change.       *)
(* Every balance the server shows is recomputed from the rows, so what     *)
(* Balance computes is checked in every state.                             *)
(***************************************************************************)
EXTENDS Balance

CONSTANTS
    Weightings,  \* the weight functions the group may have, each on its members
    Templates,   \* actions without id, date and createdAt
    Ids,         \* row ids: random uuids, their order says nothing of time
    Dates,       \* dates a user may enter
    MaxClock     \* bound on the server's clock, in seconds

VARIABLES
    weights,     \* user_expense_groups of the group
    actions,     \* its expenses, transfers and currency_conversions
    clock        \* time.Now(), which createdAt truncates to seconds

vars == <<weights, actions, clock>>

\* t with the columns every action row has.
Row(t, i, d, now) ==
    [x \in DOMAIN t \cup {"id", "date", "createdAt"} |->
        CASE x = "id" -> i [] x = "date" -> d [] x = "createdAt" -> now [] OTHER -> t[x]]

\* What a client may enter: any people may be named.  Scale makes every share exact.
Filled(t) ==
    \/ /\ t.kind = "expense"
       /\ t.amount \in Int /\ t.currency \in Currencies
       /\ IsFiniteSet(t.beneficiaries)
       /\ \A w \in Weightings : LET total == TotalWeight(w, t.beneficiaries)
                                IN  total # 0 => Scale % total = 0
    \/ t.kind = "transfer" /\ t.amount \in Int /\ t.currency \in Currencies
    \/ /\ t.kind = "conversion" /\ t.from \in Currencies /\ t.to \in Currencies
       /\ t.rate.num \in Int /\ t.rate.den \in Nat \ {0}

Columns ==
    [expense    |-> {"kind", "payer", "beneficiaries", "amount", "currency"},
     transfer   |-> {"kind", "sender", "receiver", "amount", "currency"},
     conversion |-> {"kind", "from", "to", "rate"}]

ASSUME HistoryAssumption ==
    /\ MaxClock \in Nat /\ Ids \subseteq Int /\ Dates \subseteq Int
    /\ \A w \in Weightings : IsFiniteSet(DOMAIN w) /\ \A u \in DOMAIN w : w[u] \in Nat \ {0}
    /\ \A t \in Templates : DOMAIN t = Columns[t.kind] /\ Filled(t)

\* Ids are unique, dates were entered and no row is from the future.
TypeOK ==
    /\ weights \in Weightings
    /\ clock \in 0..MaxClock
    /\ \A a \in actions :
           /\ a.id \in Ids /\ a.date \in Dates /\ a.createdAt \in 0..clock
           /\ \A b \in actions : a.id = b.id => a = b

Init ==
    /\ weights \in Weightings
    /\ actions = {}
    /\ clock = 0

\* Mutant: an id that may be in use.
RecordAnyId(t, i, d) ==
    /\ LET new == Row(t, i, d, clock)
       IN  ~ Panics(weights, new) /\ actions' = actions \cup {new}
    /\ UNCHANGED <<weights, clock>>

\* CreateExpense, CreateTransfer, CreateConversion.  Its parties are members
\* when the user picks them; the row's id is fresh.
Record(t, i, d) ==
    /\ \A a \in actions : a.id # i
    /\ LET new == Row(t, i, d, clock)
       IN  ~ Panics(weights, new) /\ actions' = actions \cup {new}
    /\ UNCHANGED <<weights, clock>>

\* UpdateExpense, UpdateTransfer, UpdateConversion: createdAt stays.
Edit(a, t, d) ==
    /\ t.kind = a.kind
    /\ LET new == Row(t, a.id, d, a.createdAt)
       IN  ~ Panics(weights, new) /\ actions' = (actions \ {a}) \cup {new}
    /\ UNCHANGED <<weights, clock>>

\* DeleteExpense, DeleteTransfer, DeleteConversion.
Delete(a) ==
    /\ actions' = actions \ {a}
    /\ UNCHANGED <<weights, clock>>

\* UpdateUserWeight, AddUserToGroup, RemoveUserFromGroup.
Reweigh(w) ==
    /\ w # weights
    /\ weights' = w
    /\ UNCHANGED <<actions, clock>>

Tick ==
    /\ clock < MaxClock
    /\ clock' = clock + 1
    /\ UNCHANGED <<weights, actions>>

Next ==
    \/ \E t \in Templates, i \in Ids, d \in Dates : Record(t, i, d)
    \/ \E a \in actions, t \in Templates, d \in Dates : Edit(a, t, d)
    \/ \E a \in actions : Delete(a)
    \/ \E w \in Weightings : Reweigh(w)
    \/ Tick

Spec == Init /\ [][Next]_vars

----------------------------------------------------------------------------
\* Properties.  A balance exists only while every action can be applied.

Ok == Computable(weights, actions)

Abs(n) == IF n < 0 THEN -n ELSE n

Members == DOMAIN weights

\* What the displayed balances of currency c add up to, in cents.
Drift(c) ==
    LET bal == ComputeGroupBalance(weights, actions)
    IN  SumFunction([u \in Members |-> bal[u][c]])

ConversionsInto(c) == {x \in Conversions(actions) : x.to = c}

\* Without conversions a balance does not depend on the order of the replay:
\* it is the closed sum paid - consumed + sent - received, rounded once
\* (the comment of ComputeGroupBalance: "no per-expense truncation").  An expense is
\* divided among those of its beneficiaries who are in the group.
BalanceIsClosedSum ==
    (Ok /\ Conversions(actions) = {}) =>
        LET bal == ComputeGroupBalance(weights, actions)
            For(e)  == e.beneficiaries \cap Members
            Counted == {e \in Expenses(actions) : For(e) # {}}
            Part(e, u) == (e.amount * Scale * weights[u])
                              \div SumFunction([v \in For(e) |-> weights[v]])
            Net(u, a) ==
                CASE a.kind = "expense" ->
                        (IF a.payer = u THEN a.amount * Scale ELSE 0)
                        - (IF u \in For(a) THEN Part(a, u) ELSE 0)
                  [] a.kind = "transfer" ->
                        (IF a.sender = u THEN a.amount * Scale ELSE 0)
                        - (IF a.receiver = u THEN a.amount * Scale ELSE 0)
        IN  \A u \in Members, c \in Currencies :
                bal[u][c] = Cents(SumFunction(
                    [a \in {b \in Counted \cup Transfers(actions) : b.currency = c} |->
                         Net(u, a)]))

\* The displayed balances of a currency add up to zero, give or take half a cent
\* per member for the final rounding and as much again per conversion into it,
\* provided the currencies converted are not conversion targets themselves:
\* buildBalanceEvents folds every member's position at one rate.
DriftBounded ==
    Ok => \A c \in Currencies :
        (\A x \in ConversionsInto(c) : ConversionsInto(x.from) = {}) =>
            2 * Abs(Drift(c)) <=
                Cardinality(Members) * (1 + Cardinality(ConversionsInto(c)))

\* ComputeBalanceTimeline, "the final snapshot equals the current group balance",
\* and each snapshot is the balance the group had on the evening of that day:
\* the balance of the actions dated up to it.  One snapshot per day, in order.
TimelineIsPastBalance ==
    Ok => LET line == ComputeBalanceTimeline(weights, actions)
              Until(day) == {a \in actions : DayKey(a.date) <= day}
          IN  /\ {line[k].day : k \in DOMAIN line} =
                     {DayKey(a.date) : a \in Replayed(actions)}
              /\ \A k \in DOMAIN line :
                    /\ line[k].balances = ComputeGroupBalance(weights, Until(line[k].day))
                    /\ k > 1 => line[k-1].day < line[k].day
              /\ line # <<>> =>
                    Last(line).balances = ComputeGroupBalance(weights, actions)

\* Recording, editing or deleting an action does not rewrite the timeline before
\* that action's day, whatever the order in which the rows were created.
PastIsStable ==
    [][(weights' = weights /\ Ok /\ Ok') =>
        \A day \in {DayKey(d) : d \in Dates} :
            (\A a \in SymDiff(actions, actions') : DayKey(a.date) > day) =>
                LET Past(line) == Restrict(line, {k \in DOMAIN line : line[k].day <= day})
                IN  Past(ComputeBalanceTimeline(weights, actions'))
                        = Past(ComputeBalanceTimeline(weights, actions))]_vars

\* ComputeMemberSpending: "the figures line up with the displayed balances".
\* Without conversions and transfers a member's balance is paid - share, to the
\* cent the separate roundings may differ, as long as every expense has a
\* beneficiary left in the group.
SpendingLinesUp ==
    ( /\ Ok
      /\ Conversions(actions) \cup Transfers(actions) = {}
      /\ \A e \in GroupExpenses(actions) : e.beneficiaries \cap Members # {} ) =>
        \A u \in Members, c \in Currencies :
            LET s == ComputeMemberSpending(weights, actions, u)
            IN  Abs(ComputeGroupBalance(weights, actions)[u][c]
                        - (s.paid[c] - s.share[c])) <= 1

\* The total spending a group shows is the end of its spending timeline and the sum
\* of what people paid, members or not, unless an expense has no beneficiaries.
SpendingAgrees ==
    (GroupExpenses(actions) = Expenses(actions)) =>
        LET line  == ComputeSpendingTimeline(actions)
            payers == {e.payer : e \in Expenses(actions)}
        IN  /\ line # <<>> => Last(line).total = TotalSpending(actions)
            /\ \A c \in Currencies : TotalSpending(actions)[c] =
                   SumFunction([u \in payers |->
                       ComputeMemberSpending(weights, actions, u).paid[c]])

\* The comment of ComputeGroupBalance (calc/balance.go:18-20): the displayed sum
\* "may differ from zero by +-1 cent per currency".
WithinOneCent ==
    (Ok /\ Conversions(actions) = {}) => \A c \in Currencies : Abs(Drift(c)) <= 1

=============================================================================
