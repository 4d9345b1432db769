---------------------------- MODULE Ledger_proofs ----------------------------
(***************************************************************************)
(* Proofs about Store and Ledger.  Each query keeps a database consistent, *)
(* given what SQLite insists on before it runs the query; so whatever the  *)
(* users ask for, however many requests are served at a time, fail or are  *)
(* cut short, the tables stay consistent.                                  *)
(***************************************************************************)
EXTENDS Ledger, SequenceTheorems, TLAPS

----------------------------------------------------------------------------
\* The queries

\* What the schema promises of the stored rows.
Consistent(d) == d \in Database /\ NoOrphans(d) /\ KeysUnique(d)

\* Tables without rows are consistent.
LEMMA EmptyIsConsistent == Consistent(EmptyDatabase)
  BY DEF Consistent, EmptyDatabase, Database, NoOrphans, KeysUnique

\* groups.sql: a group is inserted with a new id; changed, its key staying; or deleted
\* with all rows that refer to it, directly or through an expense.
LEMMA GroupQueriesKeep ==
    ASSUME NEW d, Consistent(d)
    PROVE  /\ \A g \in Groups, u \in Users, cur \in Currencies :
                  ~ GroupExists(d, g) => Consistent(CreateGroup(d, g, u, cur))
           /\ \A g \in Groups, cur \in Currencies :
                  Consistent(UpdateGroup(d, g, cur))
           /\ \A g \in Groups, on \in BOOLEAN :
                  Consistent(SetGroupArchived(d, g, on))
           /\ \A g \in Groups :
                  Consistent(DeleteGroup(d, g))
<1>1. ASSUME NEW g \in Groups, NEW u \in Users, NEW cur \in Currencies,
             ~ GroupExists(d, g)
      PROVE  Consistent(CreateGroup(d, g, u, cur))
  <2> DEFINE row == [id |-> g, creator |-> u, default |-> cur, archived |-> FALSE]
             X == d.groups \cup {row}
             e == CreateGroup(d, g, u, cur)
  <2>1. d \in Database /\ d.groups \in SUBSET GroupRow
    BY DEF Consistent, Database
  <2>2. row \in GroupRow /\ row.id = g
    BY StoreAssumption DEF GroupRow
  <2>3. e = [d EXCEPT !.groups = X] /\ X \in SUBSET GroupRow
    BY <2>1, <2>2 DEF CreateGroup
  <2> HIDE DEF e, row, X
  <2>4. /\ e \in Database /\ e.groups = X /\ e.members = d.members
        /\ e.currencies = d.currencies /\ e.expenses = d.expenses
        /\ e.payers = d.payers /\ e.beneficiaries = d.beneficiaries
        /\ e.transfers = d.transfers /\ e.conversions = d.conversions
    BY <2>1, <2>3 DEF Database
  <2>5. NoOrphans(e)
    BY <1>1, <2>2, <2>4 DEF Consistent, NoOrphans, GroupExists, IdsOf, X
  <2>6. KeysUnique(e)
    BY <1>1, <2>2, <2>4 DEF Consistent, KeysUnique, GroupExists, IsUserInGroup, IdsOf, X
  <2> QED
    BY <2>4, <2>5, <2>6 DEF Consistent, e
<1>2. ASSUME NEW g \in Groups, NEW cur \in Currencies
      PROVE  Consistent(UpdateGroup(d, g, cur))
  <2> DEFINE up(r) == IF r.id = g THEN [r EXCEPT !.default = cur] ELSE r
             X == {up(r) : r \in d.groups}
             e == UpdateGroup(d, g, cur)
  <2>1. d \in Database /\ d.groups \in SUBSET GroupRow
    BY DEF Consistent, Database
  <2>2. \A r \in d.groups : up(r) \in GroupRow /\ up(r).id = r.id
    BY <2>1 DEF GroupRow
  <2>3. e = [d EXCEPT !.groups = X] /\ X \in SUBSET GroupRow
    BY <2>2 DEF UpdateGroup
  <2> HIDE DEF e, up, X
  <2>4. /\ e \in Database /\ e.groups = X /\ e.members = d.members
        /\ e.currencies = d.currencies /\ e.expenses = d.expenses
        /\ e.payers = d.payers /\ e.beneficiaries = d.beneficiaries
        /\ e.transfers = d.transfers /\ e.conversions = d.conversions
    BY <2>1, <2>3 DEF Database
  <2>5. \A h : GroupExists(d, h) => GroupExists(e, h)
    BY <2>2, <2>4 DEF GroupExists, X
  <2>6. NoOrphans(e)
    BY <2>4, <2>5 DEF Consistent, NoOrphans, IdsOf
  <2>7. KeysUnique(e)
    BY <2>2, <2>4 DEF Consistent, KeysUnique, X
  <2> QED
    BY <2>4, <2>6, <2>7 DEF Consistent, e
<1>3. ASSUME NEW g \in Groups, NEW on \in BOOLEAN
      PROVE  Consistent(SetGroupArchived(d, g, on))
  <2> DEFINE up(r) == IF r.id = g THEN [r EXCEPT !.archived = on] ELSE r
             X == {up(r) : r \in d.groups}
             e == SetGroupArchived(d, g, on)
  <2>1. d \in Database /\ d.groups \in SUBSET GroupRow
    BY DEF Consistent, Database
  <2>2. \A r \in d.groups : up(r) \in GroupRow /\ up(r).id = r.id
    BY <2>1 DEF GroupRow
  <2>3. e = [d EXCEPT !.groups = X] /\ X \in SUBSET GroupRow
    BY <2>2 DEF SetGroupArchived
  <2> HIDE DEF e, up, X
  <2>4. /\ e \in Database /\ e.groups = X /\ e.members = d.members
        /\ e.currencies = d.currencies /\ e.expenses = d.expenses
        /\ e.payers = d.payers /\ e.beneficiaries = d.beneficiaries
        /\ e.transfers = d.transfers /\ e.conversions = d.conversions
    BY <2>1, <2>3 DEF Database
  <2>5. \A h : GroupExists(d, h) => GroupExists(e, h)
    BY <2>2, <2>4 DEF GroupExists, X
  <2>6. NoOrphans(e)
    BY <2>4, <2>5 DEF Consistent, NoOrphans, IdsOf
  <2>7. KeysUnique(e)
    BY <2>2, <2>4 DEF Consistent, KeysUnique, X
  <2> QED
    BY <2>4, <2>6, <2>7 DEF Consistent, e
<1>4. ASSUME NEW g \in Groups
      PROVE  Consistent(DeleteGroup(d, g))
  <2> DEFINE e == DeleteGroup(d, g)
             gone == IdsOf(InGroup(d.expenses, g))
  <2>1. d \in Database
    BY DEF Consistent
  <2>2. /\ e.groups = {r \in d.groups : r.id # g} /\ e.members = OutsideGroup(d.members, g)
        /\ e.currencies = OutsideGroup(d.currencies, g)
        /\ e.expenses = OutsideGroup(d.expenses, g)
        /\ e.payers = {r \in d.payers : r.expense \notin gone}
        /\ e.beneficiaries = {r \in d.beneficiaries : r.expense \notin gone}
        /\ e.transfers = OutsideGroup(d.transfers, g)
        /\ e.conversions = OutsideGroup(d.conversions, g)
    BY <2>1 DEF Database, DeleteGroup
  <2>3. e \in Database
    BY <2>1 DEF Database, DeleteGroup, OutsideGroup
  <2> HIDE DEF e, gone
  <2>4. \A h : h # g /\ GroupExists(d, h) => GroupExists(e, h)
    BY <2>2 DEF GroupExists
  <2>5. \A i : i \in IdsOf(d.expenses) /\ i \notin gone => i \in IdsOf(e.expenses)
    BY <2>2 DEF IdsOf, InGroup, OutsideGroup, gone
  <2>6. NoOrphans(e)
    BY <2>2, <2>4, <2>5 DEF Consistent, NoOrphans, OutsideGroup
  <2>7. KeysUnique(e)
    BY <2>2 DEF Consistent, KeysUnique, OutsideGroup
  <2> QED
    BY <2>3, <2>6, <2>7 DEF Consistent, e
<1> QED
  BY <1>1, <1>2, <1>3, <1>4

\* groups.sql: a membership is inserted, of a group that exists and a user who has
\* none; changed, its key staying; or deleted, since no row refers to it.
LEMMA MemberQueriesKeep ==
    ASSUME NEW d, Consistent(d)
    PROVE  /\ \A g \in Groups, u \in Users :
                  GroupExists(d, g) /\ ~ IsUserInGroup(d, g, u) =>
                      Consistent(AddUserToGroup(d, g, u))
           /\ \A g \in Groups, u \in Users :
                  Consistent(RemoveUserFromGroup(d, g, u))
           /\ \A g \in Groups, u \in Users, w \in Weights :
                  Consistent(UpdateUserWeight(d, g, u, w))
           /\ \A g \in Groups, u \in Users, on \in BOOLEAN :
                  Consistent(SetGroupPinned(d, g, u, on))
<1>1. ASSUME NEW g \in Groups, NEW u \in Users, GroupExists(d, g),
             ~ IsUserInGroup(d, g, u)
      PROVE  Consistent(AddUserToGroup(d, g, u))
  <2> DEFINE row == [group |-> g, user |-> u, weight |-> 1, pinned |-> FALSE]
             X == d.members \cup {row}
             e == AddUserToGroup(d, g, u)
  <2>1. d \in Database /\ d.members \in SUBSET MemberRow
    BY DEF Consistent, Database
  <2>2. row \in MemberRow /\ row.group = g /\ row.user = u
    BY StoreAssumption DEF MemberRow
  <2>3. e = [d EXCEPT !.members = X] /\ X \in SUBSET MemberRow
    BY <2>1, <2>2 DEF AddUserToGroup
  <2> HIDE DEF e, row, X
  <2>4. /\ e \in Database /\ e.groups = d.groups /\ e.members = X
        /\ e.currencies = d.currencies /\ e.expenses = d.expenses
        /\ e.payers = d.payers /\ e.beneficiaries = d.beneficiaries
        /\ e.transfers = d.transfers /\ e.conversions = d.conversions
    BY <2>1, <2>3 DEF Database
  <2>5. NoOrphans(e)
    BY <1>1, <2>2, <2>4 DEF Consistent, NoOrphans, GroupExists, IdsOf, X
  <2>6. KeysUnique(e)
    BY <1>1, <2>2, <2>4 DEF Consistent, KeysUnique, GroupExists, IsUserInGroup, IdsOf, X
  <2> QED
    BY <2>4, <2>5, <2>6 DEF Consistent, e
<1>2. ASSUME NEW g \in Groups, NEW u \in Users
      PROVE  Consistent(RemoveUserFromGroup(d, g, u))
  <2> DEFINE e == RemoveUserFromGroup(d, g, u)
  <2>1. d \in Database
    BY DEF Consistent
  <2>2. e.members \subseteq d.members /\ e = [d EXCEPT !.members = e.members]
    BY <2>1 DEF Database, RemoveUserFromGroup, OutsideGroup, OfOther
  <2> HIDE DEF e
  <2>3. /\ e \in Database /\ e.groups = d.groups
        /\ e.currencies = d.currencies /\ e.expenses = d.expenses
        /\ e.payers = d.payers /\ e.beneficiaries = d.beneficiaries
        /\ e.transfers = d.transfers /\ e.conversions = d.conversions
    BY <2>1, <2>2 DEF Database
  <2>4. NoOrphans(e)
    BY <2>2, <2>3 DEF Consistent, NoOrphans, GroupExists
  <2>5. KeysUnique(e)
    BY <2>2, <2>3 DEF Consistent, KeysUnique
  <2> QED
    BY <2>3, <2>4, <2>5 DEF Consistent, e
<1>3. ASSUME NEW g \in Groups, NEW u \in Users, NEW w \in Weights
      PROVE  Consistent(UpdateUserWeight(d, g, u, w))
  <2> DEFINE up(r) == IF r.group = g /\ r.user = u THEN [r EXCEPT !.weight = w] ELSE r
             X == {up(r) : r \in d.members}
             e == UpdateUserWeight(d, g, u, w)
  <2>1. d \in Database /\ d.members \in SUBSET MemberRow
    BY DEF Consistent, Database
  <2>2. \A r \in d.members :
            /\ up(r) \in MemberRow
            /\ up(r).group = r.group
            /\ up(r).user = r.user
    BY <2>1 DEF MemberRow
  <2>3. e = [d EXCEPT !.members = X] /\ X \in SUBSET MemberRow
    BY <2>2 DEF UpdateUserWeight
  <2> HIDE DEF e, up, X
  <2>4. /\ e \in Database /\ e.groups = d.groups /\ e.members = X
        /\ e.currencies = d.currencies /\ e.expenses = d.expenses
        /\ e.payers = d.payers /\ e.beneficiaries = d.beneficiaries
        /\ e.transfers = d.transfers /\ e.conversions = d.conversions
    BY <2>1, <2>3 DEF Database
  <2>5. NoOrphans(e)
    BY <2>2, <2>4 DEF Consistent, NoOrphans, GroupExists, X
  <2>6. KeysUnique(e)
    BY <2>2, <2>4 DEF Consistent, KeysUnique, X
  <2> QED
    BY <2>4, <2>5, <2>6 DEF Consistent, e
<1>4. ASSUME NEW g \in Groups, NEW u \in Users, NEW on \in BOOLEAN
      PROVE  Consistent(SetGroupPinned(d, g, u, on))
  <2> DEFINE up(r) == IF r.group = g /\ r.user = u THEN [r EXCEPT !.pinned = on] ELSE r
             X == {up(r) : r \in d.members}
             e == SetGroupPinned(d, g, u, on)
  <2>1. d \in Database /\ d.members \in SUBSET MemberRow
    BY DEF Consistent, Database
  <2>2. \A r \in d.members :
            /\ up(r) \in MemberRow
            /\ up(r).group = r.group
            /\ up(r).user = r.user
    BY <2>1 DEF MemberRow
  <2>3. e = [d EXCEPT !.members = X] /\ X \in SUBSET MemberRow
    BY <2>2 DEF SetGroupPinned
  <2> HIDE DEF e, up, X
  <2>4. /\ e \in Database /\ e.groups = d.groups /\ e.members = X
        /\ e.currencies = d.currencies /\ e.expenses = d.expenses
        /\ e.payers = d.payers /\ e.beneficiaries = d.beneficiaries
        /\ e.transfers = d.transfers /\ e.conversions = d.conversions
    BY <2>1, <2>3 DEF Database
  <2>5. NoOrphans(e)
    BY <2>2, <2>4 DEF Consistent, NoOrphans, GroupExists, X
  <2>6. KeysUnique(e)
    BY <2>2, <2>4 DEF Consistent, KeysUnique, X
  <2> QED
    BY <2>4, <2>5, <2>6 DEF Consistent, e
<1> QED
  BY <1>1, <1>2, <1>3, <1>4

\* groups.sql: currencies of a group are deleted, or inserted if the group exists.
LEMMA CurrencyQueriesKeep ==
    ASSUME NEW d, Consistent(d)
    PROVE  /\ \A g \in Groups :
                  Consistent(ClearGroupCurrencies(d, g))
           /\ \A g \in Groups, C \in SUBSET Currencies :
                  GroupExists(d, g) => Consistent(BulkAddGroupCurrencies(d, g, C))
<1>1. ASSUME NEW g \in Groups
      PROVE  Consistent(ClearGroupCurrencies(d, g))
  <2> DEFINE e == ClearGroupCurrencies(d, g)
  <2>1. d \in Database
    BY DEF Consistent
  <2>2. e.currencies \subseteq d.currencies /\ e = [d EXCEPT !.currencies = e.currencies]
    BY <2>1 DEF Database, ClearGroupCurrencies, OutsideGroup, OfOther
  <2> HIDE DEF e
  <2>3. /\ e \in Database /\ e.groups = d.groups /\ e.members = d.members
        /\ e.expenses = d.expenses
        /\ e.payers = d.payers /\ e.beneficiaries = d.beneficiaries
        /\ e.transfers = d.transfers /\ e.conversions = d.conversions
    BY <2>1, <2>2 DEF Database
  <2>4. NoOrphans(e)
    BY <2>2, <2>3 DEF Consistent, NoOrphans, GroupExists
  <2>5. KeysUnique(e)
    BY <2>2, <2>3 DEF Consistent, KeysUnique
  <2> QED
    BY <2>3, <2>4, <2>5 DEF Consistent, e
<1>2. ASSUME NEW g \in Groups, NEW C \in SUBSET Currencies, GroupExists(d, g)
      PROVE  Consistent(BulkAddGroupCurrencies(d, g, C))
  <2> DEFINE X == d.currencies \cup {[group |-> g, currency |-> c] : c \in C}
             e == BulkAddGroupCurrencies(d, g, C)
  <2>1. d \in Database /\ d.currencies \in SUBSET CurrencyRow
    BY DEF Consistent, Database
  <2>2. X \in SUBSET CurrencyRow
    BY <2>1 DEF CurrencyRow
  <2>3. \A r \in X : r \in d.currencies \/ (r.group = g)
    OBVIOUS
  <2>4. e = [d EXCEPT !.currencies = X]
    BY DEF BulkAddGroupCurrencies
  <2> HIDE DEF e, X
  <2>5. /\ e \in Database /\ e.groups = d.groups /\ e.members = d.members
        /\ e.currencies = X /\ e.expenses = d.expenses
        /\ e.payers = d.payers /\ e.beneficiaries = d.beneficiaries
        /\ e.transfers = d.transfers /\ e.conversions = d.conversions
    BY <2>1, <2>2, <2>4 DEF Database
  <2>6. NoOrphans(e)
    BY <1>2, <2>3, <2>5 DEF Consistent, NoOrphans, GroupExists
  <2>7. KeysUnique(e)
    BY <1>2, <2>5 DEF Consistent, KeysUnique
  <2> QED
    BY <2>5, <2>6, <2>7 DEF Consistent, e
<1> QED
  BY <1>1, <1>2

\* expenses.sql: an expense is inserted with a new id into a group that exists;
\* changed, its key and group staying; or deleted with its payer and beneficiaries.
LEMMA ExpenseQueriesKeep ==
    ASSUME NEW d, Consistent(d)
    PROVE  /\ \A i \in Rows, g \in Groups, cur \in Currencies :
                  GroupExists(d, g) /\ i \notin IdsOf(d.expenses) =>
                      Consistent(CreateExpense(d, i, g, cur))
           /\ \A i \in Rows, cur \in Currencies :
                  Consistent(UpdateExpense(d, i, cur))
           /\ \A i \in Rows :
                  Consistent(DeleteExpense(d, i))
<1>1. ASSUME NEW i \in Rows, NEW g \in Groups, NEW cur \in Currencies,
             GroupExists(d, g), i \notin IdsOf(d.expenses)
      PROVE  Consistent(CreateExpense(d, i, g, cur))
  <2> DEFINE row == [id |-> i, group |-> g, currency |-> cur]
             X == d.expenses \cup {row}
             e == CreateExpense(d, i, g, cur)
  <2>1. d \in Database /\ d.expenses \in SUBSET ExpenseRow
    BY DEF Consistent, Database
  <2>2. row \in ExpenseRow /\ row.id = i /\ row.group = g
    BY StoreAssumption DEF ExpenseRow
  <2>3. e = [d EXCEPT !.expenses = X] /\ X \in SUBSET ExpenseRow
    BY <2>1, <2>2 DEF CreateExpense
  <2> HIDE DEF e, row, X
  <2>4. /\ e \in Database /\ e.groups = d.groups /\ e.members = d.members
        /\ e.currencies = d.currencies /\ e.expenses = X
        /\ e.payers = d.payers /\ e.beneficiaries = d.beneficiaries
        /\ e.transfers = d.transfers /\ e.conversions = d.conversions
    BY <2>1, <2>3 DEF Database
  <2>5. NoOrphans(e)
    BY <1>1, <2>2, <2>4 DEF Consistent, NoOrphans, GroupExists, IdsOf, X
  <2>6. KeysUnique(e)
    BY <1>1, <2>2, <2>4 DEF Consistent, KeysUnique, GroupExists, IsUserInGroup, IdsOf, X
  <2> QED
    BY <2>4, <2>5, <2>6 DEF Consistent, e
<1>2. ASSUME NEW i \in Rows, NEW cur \in Currencies
      PROVE  Consistent(UpdateExpense(d, i, cur))
  <2> DEFINE up(r) == IF r.id = i THEN [r EXCEPT !.currency = cur] ELSE r
             X == {up(r) : r \in d.expenses}
             e == UpdateExpense(d, i, cur)
  <2>1. d \in Database /\ d.expenses \in SUBSET ExpenseRow
    BY DEF Consistent, Database
  <2>2. \A r \in d.expenses :
            /\ up(r) \in ExpenseRow
            /\ up(r).id = r.id
            /\ up(r).group = r.group
    BY <2>1 DEF ExpenseRow
  <2>3. e = [d EXCEPT !.expenses = X] /\ X \in SUBSET ExpenseRow
    BY <2>2 DEF UpdateExpense
  <2> HIDE DEF e, up, X
  <2>4. /\ e \in Database /\ e.groups = d.groups /\ e.members = d.members
        /\ e.currencies = d.currencies /\ e.expenses = X
        /\ e.payers = d.payers /\ e.beneficiaries = d.beneficiaries
        /\ e.transfers = d.transfers /\ e.conversions = d.conversions
    BY <2>1, <2>3 DEF Database
  <2>5. IdsOf(e.expenses) = IdsOf(d.expenses)
    BY <2>2, <2>4 DEF IdsOf, X
  <2>6. \A r \in X : GroupExists(d, r.group)
    BY <2>2 DEF Consistent, NoOrphans, X
  <2>7. NoOrphans(e)
    BY <2>4, <2>5, <2>6 DEF Consistent, NoOrphans, GroupExists
  <2>8. KeysUnique(e)
    BY <2>2, <2>4 DEF Consistent, KeysUnique, X
  <2> QED
    BY <2>4, <2>7, <2>8 DEF Consistent, e
<1>3. ASSUME NEW i \in Rows
      PROVE  Consistent(DeleteExpense(d, i))
  <2> DEFINE e == DeleteExpense(d, i)
  <2>1. d \in Database
    BY DEF Consistent
  <2>2. /\ e.groups = d.groups /\ e.members = d.members /\ e.currencies = d.currencies
        /\ e.expenses = {r \in d.expenses : r.id # i}
        /\ /\ e.payers = OfOther(d.payers, i)
        /\ e.beneficiaries = OfOther(d.beneficiaries, i)
        /\ e.transfers = d.transfers /\ e.conversions = d.conversions
    BY <2>1 DEF Database, DeleteExpense
  <2>3. e \in Database
    BY <2>1 DEF Database, DeleteExpense, OfOther
  <2> HIDE DEF e
  <2>4. \A j : j # i /\ j \in IdsOf(d.expenses) => j \in IdsOf(e.expenses)
    BY <2>2 DEF IdsOf
  <2>5. NoOrphans(e)
    BY <2>2, <2>4 DEF Consistent, NoOrphans, GroupExists, OfOther
  <2>6. KeysUnique(e)
    BY <2>2 DEF Consistent, KeysUnique
  <2> QED
    BY <2>3, <2>5, <2>6 DEF Consistent, e
<1> QED
  BY <1>1, <1>2, <1>3

\* expenses.sql and db/helpers.go: payers and beneficiaries are inserted for an expense
\* that exists, replaced or deleted.
LEMMA PartyQueriesKeep ==
    ASSUME NEW d, Consistent(d)
    PROVE  /\ \A i \in Rows, u \in Users :
                  i \in IdsOf(d.expenses) => Consistent(CreateExpensePayer(d, i, u))
           /\ \A i \in Rows, u \in Users :
                  Consistent(UpdateExpensePayer(d, i, u))
           /\ \A i \in Rows, U \in SUBSET Users :
                  (U = {} \/ i \in IdsOf(d.expenses)) =>
                      Consistent(CreateExpenseBeneficiariesBatch(d, i, U))
           /\ \A i \in Rows :
                  Consistent(DeleteExpenseBeneficiaries(d, i))
<1>1. ASSUME NEW i \in Rows, NEW u \in Users, i \in IdsOf(d.expenses)
      PROVE  Consistent(CreateExpensePayer(d, i, u))
  <2> DEFINE row == [expense |-> i, user |-> u]
             X == d.payers \cup {row}
             e == CreateExpensePayer(d, i, u)
  <2>1. d \in Database /\ d.payers \in SUBSET PartyRow
    BY DEF Consistent, Database
  <2>2. row \in PartyRow /\ row.expense = i
    BY StoreAssumption DEF PartyRow
  <2>3. e = [d EXCEPT !.payers = X] /\ X \in SUBSET PartyRow
    BY <2>1, <2>2 DEF CreateExpensePayer
  <2> HIDE DEF e, row, X
  <2>4. /\ e \in Database /\ e.groups = d.groups /\ e.members = d.members
        /\ e.currencies = d.currencies /\ e.expenses = d.expenses
        /\ e.payers = X /\ e.beneficiaries = d.beneficiaries
        /\ e.transfers = d.transfers /\ e.conversions = d.conversions
    BY <2>1, <2>3 DEF Database
  <2>5. NoOrphans(e)
    BY <1>1, <2>2, <2>4 DEF Consistent, NoOrphans, GroupExists, IdsOf, X
  <2>6. KeysUnique(e)
    BY <1>1, <2>2, <2>4 DEF Consistent, KeysUnique, GroupExists, IsUserInGroup, IdsOf, X
  <2> QED
    BY <2>4, <2>5, <2>6 DEF Consistent, e
<1>2. ASSUME NEW i \in Rows, NEW u \in Users
      PROVE  Consistent(UpdateExpensePayer(d, i, u))
  <2> DEFINE up(r) == IF r.expense = i THEN [r EXCEPT !.user = u] ELSE r
             X == {up(r) : r \in d.payers}
             e == UpdateExpensePayer(d, i, u)
  <2>1. d \in Database /\ d.payers \in SUBSET PartyRow
    BY DEF Consistent, Database
  <2>2. \A r \in d.payers : up(r) \in PartyRow /\ up(r).expense = r.expense
    BY <2>1 DEF PartyRow
  <2>3. e = [d EXCEPT !.payers = X] /\ X \in SUBSET PartyRow
    BY <2>2 DEF UpdateExpensePayer
  <2> HIDE DEF e, up, X
  <2>4. /\ e \in Database /\ e.groups = d.groups /\ e.members = d.members
        /\ e.currencies = d.currencies /\ e.expenses = d.expenses
        /\ e.payers = X /\ e.beneficiaries = d.beneficiaries
        /\ e.transfers = d.transfers /\ e.conversions = d.conversions
    BY <2>1, <2>3 DEF Database
  <2>5. NoOrphans(e)
    BY <2>2, <2>4 DEF Consistent, NoOrphans, GroupExists, X
  <2>6. KeysUnique(e)
    BY <2>2, <2>4 DEF Consistent, KeysUnique, X
  <2> QED
    BY <2>4, <2>5, <2>6 DEF Consistent, e
<1>3. ASSUME NEW i \in Rows, NEW U \in SUBSET Users,
             U = {} \/ i \in IdsOf(d.expenses)
      PROVE  Consistent(CreateExpenseBeneficiariesBatch(d, i, U))
  <2> DEFINE X == d.beneficiaries \cup {[expense |-> i, user |-> u] : u \in U}
             e == CreateExpenseBeneficiariesBatch(d, i, U)
  <2>1. d \in Database /\ d.beneficiaries \in SUBSET PartyRow
    BY DEF Consistent, Database
  <2>2. X \in SUBSET PartyRow
    BY <2>1 DEF PartyRow
  <2>3. \A r \in X : r \in d.beneficiaries \/ (r.expense = i /\ U # {})
    OBVIOUS
  <2>4. e = [d EXCEPT !.beneficiaries = X]
    BY DEF CreateExpenseBeneficiariesBatch
  <2> HIDE DEF e, X
  <2>5. /\ e \in Database /\ e.groups = d.groups /\ e.members = d.members
        /\ e.currencies = d.currencies /\ e.expenses = d.expenses
        /\ e.payers = d.payers /\ e.beneficiaries = X
        /\ e.transfers = d.transfers /\ e.conversions = d.conversions
    BY <2>1, <2>2, <2>4 DEF Database
  <2>6. NoOrphans(e)
    BY <1>3, <2>3, <2>5 DEF Consistent, NoOrphans, GroupExists
  <2>7. KeysUnique(e)
    BY <1>3, <2>5 DEF Consistent, KeysUnique
  <2> QED
    BY <2>5, <2>6, <2>7 DEF Consistent, e
<1>4. ASSUME NEW i \in Rows
      PROVE  Consistent(DeleteExpenseBeneficiaries(d, i))
  <2> DEFINE e == DeleteExpenseBeneficiaries(d, i)
  <2>1. d \in Database
    BY DEF Consistent
  <2>2. /\ e.beneficiaries \subseteq d.beneficiaries
        /\ e = [d EXCEPT !.beneficiaries = e.beneficiaries]
    BY <2>1 DEF Database, DeleteExpenseBeneficiaries, OutsideGroup, OfOther
  <2> HIDE DEF e
  <2>3. /\ e \in Database /\ e.groups = d.groups /\ e.members = d.members
        /\ e.currencies = d.currencies /\ e.expenses = d.expenses
        /\ e.payers = d.payers
        /\ e.transfers = d.transfers /\ e.conversions = d.conversions
    BY <2>1, <2>2 DEF Database
  <2>4. NoOrphans(e)
    BY <2>2, <2>3 DEF Consistent, NoOrphans, GroupExists
  <2>5. KeysUnique(e)
    BY <2>2, <2>3 DEF Consistent, KeysUnique
  <2> QED
    BY <2>3, <2>4, <2>5 DEF Consistent, e
<1> QED
  BY <1>1, <1>2, <1>3, <1>4

\* transfers.sql: a transfer is inserted with a new id into a group that exists;
\* changed, its key and group staying; or deleted, since no row refers to it.
LEMMA TransferQueriesKeep ==
    ASSUME NEW d, Consistent(d)
    PROVE  /\ \A i \in Rows, g \in Groups, u \in Users, v \in Users :
                  GroupExists(d, g) /\ i \notin IdsOf(d.transfers) =>
                      Consistent(CreateTransfer(d, i, g, u, v))
           /\ \A i \in Rows, u \in Users, v \in Users :
                  Consistent(UpdateTransfer(d, i, u, v))
           /\ \A i \in Rows :
                  Consistent(DeleteTransfer(d, i))
<1>1. ASSUME NEW i \in Rows, NEW g \in Groups, NEW u \in Users, NEW v \in Users,
             GroupExists(d, g), i \notin IdsOf(d.transfers)
      PROVE  Consistent(CreateTransfer(d, i, g, u, v))
  <2> DEFINE row == [id |-> i, group |-> g, sender |-> u, receiver |-> v]
             X == d.transfers \cup {row}
             e == CreateTransfer(d, i, g, u, v)
  <2>1. d \in Database /\ d.transfers \in SUBSET TransferRow
    BY DEF Consistent, Database
  <2>2. row \in TransferRow /\ row.id = i /\ row.group = g
    BY StoreAssumption DEF TransferRow
  <2>3. e = [d EXCEPT !.transfers = X] /\ X \in SUBSET TransferRow
    BY <2>1, <2>2 DEF CreateTransfer
  <2> HIDE DEF e, row, X
  <2>4. /\ e \in Database /\ e.groups = d.groups /\ e.members = d.members
        /\ e.currencies = d.currencies /\ e.expenses = d.expenses
        /\ e.payers = d.payers /\ e.beneficiaries = d.beneficiaries
        /\ e.transfers = X /\ e.conversions = d.conversions
    BY <2>1, <2>3 DEF Database
  <2>5. NoOrphans(e)
    BY <1>1, <2>2, <2>4 DEF Consistent, NoOrphans, GroupExists, IdsOf, X
  <2>6. KeysUnique(e)
    BY <1>1, <2>2, <2>4 DEF Consistent, KeysUnique, GroupExists, IsUserInGroup, IdsOf, X
  <2> QED
    BY <2>4, <2>5, <2>6 DEF Consistent, e
<1>2. ASSUME NEW i \in Rows, NEW u \in Users, NEW v \in Users
      PROVE  Consistent(UpdateTransfer(d, i, u, v))
  <2> DEFINE up(r) == IF r.id = i THEN [r EXCEPT !.sender = u, !.receiver = v] ELSE r
             X == {up(r) : r \in d.transfers}
             e == UpdateTransfer(d, i, u, v)
  <2>1. d \in Database /\ d.transfers \in SUBSET TransferRow
    BY DEF Consistent, Database
  <2>2. \A r \in d.transfers :
            /\ up(r) \in TransferRow
            /\ up(r).id = r.id
            /\ up(r).group = r.group
    BY <2>1 DEF TransferRow
  <2>3. e = [d EXCEPT !.transfers = X] /\ X \in SUBSET TransferRow
    BY <2>2 DEF UpdateTransfer
  <2> HIDE DEF e, up, X
  <2>4. /\ e \in Database /\ e.groups = d.groups /\ e.members = d.members
        /\ e.currencies = d.currencies /\ e.expenses = d.expenses
        /\ e.payers = d.payers /\ e.beneficiaries = d.beneficiaries
        /\ e.transfers = X /\ e.conversions = d.conversions
    BY <2>1, <2>3 DEF Database
  <2>5. NoOrphans(e)
    BY <2>2, <2>4 DEF Consistent, NoOrphans, GroupExists, X
  <2>6. KeysUnique(e)
    BY <2>2, <2>4 DEF Consistent, KeysUnique, X
  <2> QED
    BY <2>4, <2>5, <2>6 DEF Consistent, e
<1>3. ASSUME NEW i \in Rows
      PROVE  Consistent(DeleteTransfer(d, i))
  <2> DEFINE e == DeleteTransfer(d, i)
  <2>1. d \in Database
    BY DEF Consistent
  <2>2. e.transfers \subseteq d.transfers /\ e = [d EXCEPT !.transfers = e.transfers]
    BY <2>1 DEF Database, DeleteTransfer, OutsideGroup, OfOther
  <2> HIDE DEF e
  <2>3. /\ e \in Database /\ e.groups = d.groups /\ e.members = d.members
        /\ e.currencies = d.currencies /\ e.expenses = d.expenses
        /\ e.payers = d.payers /\ e.beneficiaries = d.beneficiaries
        /\ e.conversions = d.conversions
    BY <2>1, <2>2 DEF Database
  <2>4. NoOrphans(e)
    BY <2>2, <2>3 DEF Consistent, NoOrphans, GroupExists
  <2>5. KeysUnique(e)
    BY <2>2, <2>3 DEF Consistent, KeysUnique
  <2> QED
    BY <2>3, <2>4, <2>5 DEF Consistent, e
<1> QED
  BY <1>1, <1>2, <1>3

\* conversions.sql: the same for conversions.
LEMMA ConversionQueriesKeep ==
    ASSUME NEW d, Consistent(d)
    PROVE  /\ \A i \in Rows, g \in Groups, x \in Currencies, y \in Currencies :
                  GroupExists(d, g) /\ i \notin IdsOf(d.conversions) =>
                      Consistent(CreateCurrencyConversion(d, i, g, x, y))
           /\ \A i \in Rows, x \in Currencies, y \in Currencies :
                  Consistent(UpdateCurrencyConversion(d, i, x, y))
           /\ \A i \in Rows :
                  Consistent(DeleteCurrencyConversion(d, i))
<1>1. ASSUME NEW i \in Rows, NEW g \in Groups, NEW x \in Currencies,
             NEW y \in Currencies, GroupExists(d, g), i \notin IdsOf(d.conversions)
      PROVE  Consistent(CreateCurrencyConversion(d, i, g, x, y))
  <2> DEFINE row == [id |-> i, group |-> g, from |-> x, to |-> y]
             X == d.conversions \cup {row}
             e == CreateCurrencyConversion(d, i, g, x, y)
  <2>1. d \in Database /\ d.conversions \in SUBSET ConversionRow
    BY DEF Consistent, Database
  <2>2. row \in ConversionRow /\ row.id = i /\ row.group = g
    BY StoreAssumption DEF ConversionRow
  <2>3. e = [d EXCEPT !.conversions = X] /\ X \in SUBSET ConversionRow
    BY <2>1, <2>2 DEF CreateCurrencyConversion
  <2> HIDE DEF e, row, X
  <2>4. /\ e \in Database /\ e.groups = d.groups /\ e.members = d.members
        /\ e.currencies = d.currencies /\ e.expenses = d.expenses
        /\ e.payers = d.payers /\ e.beneficiaries = d.beneficiaries
        /\ e.transfers = d.transfers /\ e.conversions = X
    BY <2>1, <2>3 DEF Database
  <2>5. NoOrphans(e)
    BY <1>1, <2>2, <2>4 DEF Consistent, NoOrphans, GroupExists, IdsOf, X
  <2>6. KeysUnique(e)
    BY <1>1, <2>2, <2>4 DEF Consistent, KeysUnique, GroupExists, IsUserInGroup, IdsOf, X
  <2> QED
    BY <2>4, <2>5, <2>6 DEF Consistent, e
<1>2. ASSUME NEW i \in Rows, NEW x \in Currencies, NEW y \in Currencies
      PROVE  Consistent(UpdateCurrencyConversion(d, i, x, y))
  <2> DEFINE up(r) == IF r.id = i THEN [r EXCEPT !.from = x, !.to = y] ELSE r
             X == {up(r) : r \in d.conversions}
             e == UpdateCurrencyConversion(d, i, x, y)
  <2>1. d \in Database /\ d.conversions \in SUBSET ConversionRow
    BY DEF Consistent, Database
  <2>2. \A r \in d.conversions :
            /\ up(r) \in ConversionRow
            /\ up(r).id = r.id
            /\ up(r).group = r.group
    BY <2>1 DEF ConversionRow
  <2>3. e = [d EXCEPT !.conversions = X] /\ X \in SUBSET ConversionRow
    BY <2>2 DEF UpdateCurrencyConversion
  <2> HIDE DEF e, up, X
  <2>4. /\ e \in Database /\ e.groups = d.groups /\ e.members = d.members
        /\ e.currencies = d.currencies /\ e.expenses = d.expenses
        /\ e.payers = d.payers /\ e.beneficiaries = d.beneficiaries
        /\ e.transfers = d.transfers /\ e.conversions = X
    BY <2>1, <2>3 DEF Database
  <2>5. NoOrphans(e)
    BY <2>2, <2>4 DEF Consistent, NoOrphans, GroupExists, X
  <2>6. KeysUnique(e)
    BY <2>2, <2>4 DEF Consistent, KeysUnique, X
  <2> QED
    BY <2>4, <2>5, <2>6 DEF Consistent, e
<1>3. ASSUME NEW i \in Rows
      PROVE  Consistent(DeleteCurrencyConversion(d, i))
  <2> DEFINE e == DeleteCurrencyConversion(d, i)
  <2>1. d \in Database
    BY DEF Consistent
  <2>2. /\ e.conversions \subseteq d.conversions
        /\ e = [d EXCEPT !.conversions = e.conversions]
    BY <2>1 DEF Database, DeleteCurrencyConversion, OutsideGroup, OfOther
  <2> HIDE DEF e
  <2>3. /\ e \in Database /\ e.groups = d.groups /\ e.members = d.members
        /\ e.currencies = d.currencies /\ e.expenses = d.expenses
        /\ e.payers = d.payers /\ e.beneficiaries = d.beneficiaries
        /\ e.transfers = d.transfers
    BY <2>1, <2>2 DEF Database
  <2>4. NoOrphans(e)
    BY <2>2, <2>3 DEF Consistent, NoOrphans, GroupExists
  <2>5. KeysUnique(e)
    BY <2>2, <2>3 DEF Consistent, KeysUnique
  <2> QED
    BY <2>3, <2>4, <2>5 DEF Consistent, e
<1> QED
  BY <1>1, <1>2, <1>3

----------------------------------------------------------------------------
\* The statements of the handlers

\* A statement's arguments have the types its query expects.
WellTyped(s) ==
    LET q == s.query
        a == s.args
    IN  /\ q \in {"CreateGroup", "UpdateGroup", "SetGroupArchived", "DeleteGroup",
                  "AddUserToGroup", "RemoveUserFromGroup", "UpdateUserWeight",
                  "SetGroupPinned", "ClearGroupCurrencies", "BulkAddGroupCurrencies",
                  "CreateExpense", "CreateExpensePayer",
                  "CreateExpenseBeneficiariesBatch", "UpdateExpense",
                  "UpdateExpensePayer", "DeleteExpenseBeneficiaries", "DeleteExpense",
                  "CreateTransfer", "UpdateTransfer", "DeleteTransfer",
                  "CreateCurrencyConversion", "UpdateCurrencyConversion",
                  "DeleteCurrencyConversion", "DefaultIsSelected"}
        /\ q = "CreateGroup" =>
               a.group \in Groups /\ a.user \in Users /\ a.default \in Currencies
        /\ q = "UpdateGroup" =>
               a.group \in Groups /\ a.default \in Currencies
        /\ q = "SetGroupArchived" =>
               a.group \in Groups /\ a.on \in BOOLEAN
        /\ q \in {"DeleteGroup", "ClearGroupCurrencies"} =>
               a.group \in Groups
        /\ q \in {"AddUserToGroup", "RemoveUserFromGroup"} =>
               a.group \in Groups /\ a.user \in Users
        /\ q = "UpdateUserWeight" =>
               a.group \in Groups /\ a.user \in Users /\ a.weight \in Weights
        /\ q = "SetGroupPinned" =>
               a.group \in Groups /\ a.by \in Users /\ a.on \in BOOLEAN
        /\ q = "BulkAddGroupCurrencies" =>
               a.group \in Groups /\ a.currencies \in SUBSET Currencies
        /\ q = "CreateExpense" =>
               a.id \in Rows /\ a.group \in Groups /\ a.currency \in Currencies
        /\ q \in {"CreateExpensePayer", "UpdateExpensePayer"} =>
               a.id \in Rows /\ a.payer \in Users
        /\ q = "CreateExpenseBeneficiariesBatch" =>
               a.id \in Rows /\ a.beneficiaries \in SUBSET Users
        /\ q = "UpdateExpense" =>
               a.id \in Rows /\ a.currency \in Currencies
        /\ q \in {"DeleteExpenseBeneficiaries", "DeleteExpense", "DeleteTransfer",
                 "DeleteCurrencyConversion"} =>
               a.id \in Rows
        /\ q = "CreateTransfer" =>
               /\ a.id \in Rows /\ a.group \in Groups /\ a.sender \in Users
               /\ a.receiver \in Users
        /\ q = "UpdateTransfer" =>
               a.id \in Rows /\ a.sender \in Users /\ a.receiver \in Users
        /\ q = "CreateCurrencyConversion" =>
               /\ a.id \in Rows /\ a.group \in Groups /\ a.from \in Currencies
               /\ a.to \in Currencies
        /\ q = "UpdateCurrencyConversion" =>
               a.id \in Rows /\ a.from \in Currencies /\ a.to \in Currencies

\* A statement that SQLite accepts keeps the database consistent.
LEMMA RunKeeps ==
    ASSUME NEW s, WellTyped(s), NEW d, Consistent(d), Accepted(s, d)
    PROVE  Consistent(Run(s, d))
<1>1. CASE s.query = "CreateGroup"
  BY <1>1, GroupQueriesKeep DEF Run, WellTyped, Accepted, KeyIsFree
<1>2. CASE s.query = "UpdateGroup"
  BY <1>2, GroupQueriesKeep DEF Run, WellTyped
<1>3. CASE s.query = "SetGroupArchived"
  BY <1>3, GroupQueriesKeep DEF Run, WellTyped
<1>4. CASE s.query = "DeleteGroup"
  BY <1>4, GroupQueriesKeep DEF Run, WellTyped
<1>5. CASE s.query = "AddUserToGroup"
  BY <1>5, MemberQueriesKeep DEF Run, WellTyped, Accepted, KeyIsFree, ParentExists
<1>6. CASE s.query = "RemoveUserFromGroup"
  BY <1>6, MemberQueriesKeep DEF Run, WellTyped
<1>7. CASE s.query = "UpdateUserWeight"
  BY <1>7, MemberQueriesKeep DEF Run, WellTyped
<1>8. CASE s.query = "SetGroupPinned"
  BY <1>8, MemberQueriesKeep DEF Run, WellTyped
<1>9. CASE s.query = "ClearGroupCurrencies"
  BY <1>9, CurrencyQueriesKeep DEF Run, WellTyped
<1>10. CASE s.query = "BulkAddGroupCurrencies"
  BY <1>10, CurrencyQueriesKeep DEF Run, WellTyped, Accepted, ParentExists
<1>11. CASE s.query = "CreateExpense"
  BY <1>11, ExpenseQueriesKeep DEF Run, WellTyped, Accepted, KeyIsFree, ParentExists
<1>12. CASE s.query = "CreateExpensePayer"
  BY <1>12, PartyQueriesKeep DEF Run, WellTyped, Accepted, ParentExists
<1>13. CASE s.query = "CreateExpenseBeneficiariesBatch"
  BY <1>13, PartyQueriesKeep DEF Run, WellTyped, Accepted, ParentExists
<1>14. CASE s.query = "UpdateExpense"
  BY <1>14, ExpenseQueriesKeep DEF Run, WellTyped
<1>15. CASE s.query = "UpdateExpensePayer"
  BY <1>15, PartyQueriesKeep DEF Run, WellTyped
<1>16. CASE s.query = "DeleteExpenseBeneficiaries"
  BY <1>16, PartyQueriesKeep DEF Run, WellTyped
<1>17. CASE s.query = "DeleteExpense"
  BY <1>17, ExpenseQueriesKeep DEF Run, WellTyped
<1>18. CASE s.query = "CreateTransfer"
  BY <1>18, TransferQueriesKeep DEF Run, WellTyped, Accepted, KeyIsFree, ParentExists
<1>19. CASE s.query = "UpdateTransfer"
  BY <1>19, TransferQueriesKeep DEF Run, WellTyped
<1>20. CASE s.query = "DeleteTransfer"
  BY <1>20, TransferQueriesKeep DEF Run, WellTyped
<1>21. CASE s.query = "CreateCurrencyConversion"
  BY <1>21, ConversionQueriesKeep
     DEF Run, WellTyped, Accepted, KeyIsFree, ParentExists
<1>22. CASE s.query = "UpdateCurrencyConversion"
  BY <1>22, ConversionQueriesKeep DEF Run, WellTyped
<1>23. CASE s.query = "DeleteCurrencyConversion"
  BY <1>23, ConversionQueriesKeep DEF Run, WellTyped
<1>24. CASE s.query = "DefaultIsSelected"
  BY <1>24 DEF Run
<1> QED
  BY <1>1, <1>2, <1>3, <1>4, <1>5, <1>6, <1>7, <1>8, <1>9, <1>10, <1>11, <1>12,
     <1>13, <1>14, <1>15, <1>16, <1>17, <1>18, <1>19, <1>20, <1>21, <1>22, <1>23,
     <1>24 DEF WellTyped

\* The statements a handler runs are well typed.
LEMMA HandlerIsWellTyped ==
    ASSUME NEW r \in GroupRequest \cup EntryRequest, r.op # "GetBalance"
    PROVE  /\ Len(Handler(r).sql) \in Nat \ {0}
           /\ \A k \in 1 .. Len(Handler(r).sql) : WellTyped(Handler(r).sql[k])
<1>1. CASE r.op = "CreateExpenseGroup"
  <2>1. /\ r.group \in Groups /\ r.user \in Users /\ r.default \in Currencies
        /\ r.currencies \in SUBSET Currencies
    BY <1>1 DEF GroupRequest, EntryRequest, RowRequest, ExpenseRequest, TransferRequest,
       ConversionRequest, TwoRequest
  <2>2. Handler(r) = HandleCreateExpenseGroup(r)
    BY <1>1 DEF Handler
  <2> QED
    BY <2>1, <2>2 DEF HandleCreateExpenseGroup, InTx, Do, WellTyped
<1>2. CASE r.op = "UpdateGroup"
  <2>1. /\ r.group \in Groups /\ r.default \in Currencies
        /\ r.currencies \in SUBSET Currencies
    BY <1>2 DEF GroupRequest, EntryRequest, RowRequest, ExpenseRequest, TransferRequest,
       ConversionRequest, TwoRequest
  <2>2. Handler(r) = HandleUpdateGroup(r)
    BY <1>2 DEF Handler
  <2> QED
    BY <2>1, <2>2 DEF HandleUpdateGroup, InTx, Do, WellTyped
<1>3. CASE r.op = "DeleteGroup"
  <2>1. r.group \in Groups /\ r.by \in Users
    BY <1>3 DEF GroupRequest, EntryRequest, RowRequest, ExpenseRequest, TransferRequest,
       ConversionRequest, TwoRequest
  <2>2. Handler(r) = HandleDeleteGroup(r)
    BY <1>3 DEF Handler
  <2> QED
    BY <2>1, <2>2 DEF HandleDeleteGroup, Direct, Do, WellTyped
<1>4. CASE r.op = "AddUserToGroup"
  <2>1. r.group \in Groups /\ r.user \in Users
    BY <1>4 DEF GroupRequest, EntryRequest, RowRequest, ExpenseRequest, TransferRequest,
       ConversionRequest, TwoRequest
  <2>2. Handler(r) = HandleAddUserToGroup(r)
    BY <1>4 DEF Handler
  <2> QED
    BY <2>1, <2>2 DEF HandleAddUserToGroup, Direct, Do, WellTyped
<1>5. CASE r.op = "RemoveUserFromGroup"
  <2>1. r.group \in Groups /\ r.user \in Users
    BY <1>5 DEF GroupRequest, EntryRequest, RowRequest, ExpenseRequest, TransferRequest,
       ConversionRequest, TwoRequest
  <2>2. Handler(r) = HandleRemoveUserFromGroup(r)
    BY <1>5 DEF Handler
  <2> QED
    BY <2>1, <2>2 DEF HandleRemoveUserFromGroup, Direct, Do, WellTyped
<1>6. CASE r.op = "UpdateUserWeight"
  <2>1. r.group \in Groups /\ r.user \in Users /\ r.weight \in Weights
    BY <1>6 DEF GroupRequest, EntryRequest, RowRequest, ExpenseRequest, TransferRequest,
       ConversionRequest, TwoRequest
  <2>2. Handler(r) = HandleUpdateUserWeight(r)
    BY <1>6 DEF Handler
  <2> QED
    BY <2>1, <2>2 DEF HandleUpdateUserWeight, Direct, Do, WellTyped
<1>7. CASE r.op = "SetGroupPinned"
  <2>1. r.group \in Groups /\ r.by \in Users /\ r.on \in BOOLEAN
    BY <1>7 DEF GroupRequest, EntryRequest, RowRequest, ExpenseRequest, TransferRequest,
       ConversionRequest, TwoRequest
  <2>2. Handler(r) = HandleSetGroupPinned(r)
    BY <1>7 DEF Handler
  <2> QED
    BY <2>1, <2>2 DEF HandleSetGroupPinned, Direct, Do, WellTyped
<1>8. CASE r.op = "SetGroupArchived"
  <2>1. r.group \in Groups /\ r.by \in Users /\ r.on \in BOOLEAN
    BY <1>8 DEF GroupRequest, EntryRequest, RowRequest, ExpenseRequest, TransferRequest,
       ConversionRequest, TwoRequest
  <2>2. Handler(r) = HandleSetGroupArchived(r)
    BY <1>8 DEF Handler
  <2> QED
    BY <2>1, <2>2 DEF HandleSetGroupArchived, Direct, Do, WellTyped
<1>9. CASE r.op = "CreateExpense"
  <2>1. /\ r.group \in Groups /\ r.id \in Rows /\ r.currency \in Currencies
        /\ r.payer \in Users /\ r.beneficiaries \in SUBSET Users
    BY <1>9 DEF GroupRequest, EntryRequest, RowRequest, ExpenseRequest, TransferRequest,
       ConversionRequest, TwoRequest
  <2>2. Handler(r) = HandleCreateExpense(r)
    BY <1>9 DEF Handler
  <2> QED
    BY <2>1, <2>2 DEF HandleCreateExpense, CreateExpenseTx, InTx, Do, WellTyped
<1>10. CASE r.op = "BulkCreateExpenses"
  <2>1. /\ r.first.group \in Groups /\ r.first.id \in Rows
        /\ r.first.currency \in Currencies /\ r.first.payer \in Users
        /\ r.first.beneficiaries \in SUBSET Users
        /\ r.second.group \in Groups /\ r.second.id \in Rows
        /\ r.second.currency \in Currencies /\ r.second.payer \in Users
        /\ r.second.beneficiaries \in SUBSET Users
    BY <1>10 DEF GroupRequest, EntryRequest, RowRequest, ExpenseRequest, TransferRequest,
       ConversionRequest, TwoRequest
  <2>2. Handler(r) = HandleBulkCreateExpenses(r)
    BY <1>10 DEF Handler
  <2> DEFINE tx1 == CreateExpenseTx(r.first)
             tx2 == CreateExpenseTx(r.second)
             S == {tx1[1], tx1[2], tx1[3], tx2[1], tx2[2], tx2[3]}
  <2>3. /\ WellTyped(tx1[1]) /\ WellTyped(tx1[2]) /\ WellTyped(tx1[3])
        /\ WellTyped(tx2[1]) /\ WellTyped(tx2[2]) /\ WellTyped(tx2[3])
    BY <2>1 DEF CreateExpenseTx, Do, WellTyped
  <2>4. tx1 \in Seq(S) /\ tx2 \in Seq(S) /\ Len(tx1) = 3
    BY DEF CreateExpenseTx
  <2>5. Handler(r).sql = tx1 \o tx2
    BY <2>2 DEF HandleBulkCreateExpenses, InTx
  <2> HIDE DEF tx1, tx2
  <2>6. \A s \in S : WellTyped(s)
    BY <2>3
  <2> HIDE DEF S
  <2>7. tx1 \o tx2 \in Seq(S) /\ Len(tx1 \o tx2) = Len(tx1) + Len(tx2)
    BY <2>4, ConcatProperties
  <2>8. Len(tx1 \o tx2) \in Nat \ {0}
    BY <2>4, <2>7
  <2>9. \A k \in 1 .. Len(tx1 \o tx2) : (tx1 \o tx2)[k] \in S
    BY <2>7
  <2> QED
    BY <2>5, <2>6, <2>8, <2>9
<1>11. CASE r.op = "UpdateExpense"
  <2>1. /\ r.group \in Groups /\ r.id \in Rows /\ r.currency \in Currencies
        /\ r.payer \in Users /\ r.beneficiaries \in SUBSET Users
    BY <1>11 DEF GroupRequest, EntryRequest, RowRequest, ExpenseRequest, TransferRequest,
       ConversionRequest, TwoRequest
  <2>2. Handler(r) = HandleUpdateExpense(r)
    BY <1>11 DEF Handler
  <2> QED
    BY <2>1, <2>2 DEF HandleUpdateExpense, InTx, Do, WellTyped
<1>12. CASE r.op = "DeleteExpense"
  <2>1. r.group \in Groups /\ r.id \in Rows
    BY <1>12 DEF GroupRequest, EntryRequest, RowRequest, ExpenseRequest, TransferRequest,
       ConversionRequest, TwoRequest
  <2>2. Handler(r) = HandleDeleteExpense(r)
    BY <1>12 DEF Handler
  <2> QED
    BY <2>1, <2>2 DEF HandleDeleteExpense, Direct, Do, WellTyped
<1>13. CASE r.op = "CreateTransfer"
  <2>1. /\ r.group \in Groups /\ r.id \in Rows /\ r.sender \in Users
        /\ r.receiver \in Users
    BY <1>13 DEF GroupRequest, EntryRequest, RowRequest, ExpenseRequest, TransferRequest,
       ConversionRequest, TwoRequest
  <2>2. Handler(r) = HandleCreateTransfer(r)
    BY <1>13 DEF Handler
  <2> QED
    BY <2>1, <2>2 DEF HandleCreateTransfer, Direct, Do, WellTyped
<1>14. CASE r.op = "UpdateTransfer"
  <2>1. /\ r.group \in Groups /\ r.id \in Rows /\ r.sender \in Users
        /\ r.receiver \in Users
    BY <1>14 DEF GroupRequest, EntryRequest, RowRequest, ExpenseRequest, TransferRequest,
       ConversionRequest, TwoRequest
  <2>2. Handler(r) = HandleUpdateTransfer(r)
    BY <1>14 DEF Handler
  <2> QED
    BY <2>1, <2>2 DEF HandleUpdateTransfer, Direct, Do, WellTyped
<1>15. CASE r.op = "DeleteTransfer"
  <2>1. r.group \in Groups /\ r.id \in Rows
    BY <1>15 DEF GroupRequest, EntryRequest, RowRequest, ExpenseRequest, TransferRequest,
       ConversionRequest, TwoRequest
  <2>2. Handler(r) = HandleDeleteTransfer(r)
    BY <1>15 DEF Handler
  <2> QED
    BY <2>1, <2>2 DEF HandleDeleteTransfer, Direct, Do, WellTyped
<1>16. CASE r.op = "CreateConversion"
  <2>1. /\ r.group \in Groups /\ r.id \in Rows /\ r.from \in Currencies
        /\ r.to \in Currencies
    BY <1>16 DEF GroupRequest, EntryRequest, RowRequest, ExpenseRequest, TransferRequest,
       ConversionRequest, TwoRequest
  <2>2. Handler(r) = HandleCreateConversion(r)
    BY <1>16 DEF Handler
  <2> QED
    BY <2>1, <2>2 DEF HandleCreateConversion, Direct, Do, WellTyped
<1>17. CASE r.op = "CreateConversions"
  <2>1. /\ r.first.group \in Groups /\ r.first.id \in Rows
        /\ r.first.from \in Currencies /\ r.first.to \in Currencies
        /\ r.second.group \in Groups /\ r.second.id \in Rows
        /\ r.second.from \in Currencies /\ r.second.to \in Currencies
    BY <1>17 DEF GroupRequest, EntryRequest, RowRequest, ExpenseRequest, TransferRequest,
       ConversionRequest, TwoRequest
  <2>2. Handler(r) = HandleCreateConversions(r)
    BY <1>17 DEF Handler
  <2> QED
    BY <2>1, <2>2 DEF HandleCreateConversions, InTx, Do, WellTyped
<1>18. CASE r.op = "UpdateConversion"
  <2>1. /\ r.group \in Groups /\ r.id \in Rows /\ r.from \in Currencies
        /\ r.to \in Currencies
    BY <1>18 DEF GroupRequest, EntryRequest, RowRequest, ExpenseRequest, TransferRequest,
       ConversionRequest, TwoRequest
  <2>2. Handler(r) = HandleUpdateConversion(r)
    BY <1>18 DEF Handler
  <2> QED
    BY <2>1, <2>2 DEF HandleUpdateConversion, Direct, Do, WellTyped
<1>19. CASE r.op = "DeleteConversion"
  <2>1. r.group \in Groups /\ r.id \in Rows
    BY <1>19 DEF GroupRequest, EntryRequest, RowRequest, ExpenseRequest, TransferRequest,
       ConversionRequest, TwoRequest
  <2>2. Handler(r) = HandleDeleteConversion(r)
    BY <1>19 DEF Handler
  <2> QED
    BY <2>1, <2>2 DEF HandleDeleteConversion, Direct, Do, WellTyped
<1> QED
  BY <1>1, <1>2, <1>3, <1>4, <1>5, <1>6, <1>7, <1>8, <1>9, <1>10, <1>11, <1>12,
     <1>13, <1>14, <1>15, <1>16, <1>17, <1>18, <1>19
     DEF GroupRequest, EntryRequest, RowRequest, ExpenseRequest, TransferRequest,
     ConversionRequest, TwoRequest

----------------------------------------------------------------------------
\* The inductive invariant

Phases == {"checking", "writing", "members", "expenses", "transfers", "computing"}
BusyState == [phase : Phases, req : Requests, step : Nat \ {0}]
ThreadState == {Idle} \cup BusyState

\* TypeOK and the constraints of the committed tables are preserved only together
\* with those of the staged tables, which a commit makes the committed ones.
IInv ==
    /\ Consistent(db) /\ Consistent(staged)
    /\ conn \in Threads \cup {Nobody}
    /\ thr \in [Threads -> ThreadState]
    /\ \A t \in Threads :
           /\ At(t, "writing") <=> conn = t
           /\ At(t, "checking") \/ At(t, "writing") => thr[t].req.op # "GetBalance"
    /\ issued \subseteq Groups \cup Rows

\* The new ids of a request are ids of groups and rows.
LEMMA NewIdsAreIds ==
    ASSUME NEW r \in Requests
    PROVE  NewIds(r) \subseteq Groups \cup Rows
<1>1. r \in GroupRequest \cup EntryRequest
  BY LedgerAssumption
<1>2. CASE r.op = "CreateExpenseGroup"
  <2>1. r.group \in Groups
    BY <1>1, <1>2 DEF GroupRequest, EntryRequest, RowRequest, ExpenseRequest,
       TransferRequest, ConversionRequest, TwoRequest
  <2> QED
    BY <1>2, <2>1 DEF NewIds
<1>3. CASE r.op \in {"CreateExpense", "CreateTransfer", "CreateConversion"}
  <2>1. r.id \in Rows
    BY <1>1, <1>3 DEF GroupRequest, EntryRequest, RowRequest, ExpenseRequest,
       TransferRequest, ConversionRequest, TwoRequest
  <2> QED
    BY <1>3, <2>1 DEF NewIds
<1>4. CASE r.op \in {"BulkCreateExpenses", "CreateConversions"}
  <2>1. r.first.id \in Rows /\ r.second.id \in Rows
    BY <1>1, <1>4 DEF GroupRequest, EntryRequest, RowRequest, ExpenseRequest,
       TransferRequest, ConversionRequest, TwoRequest
  <2> QED
    BY <1>4, <2>1 DEF NewIds
<1> QED
  BY <1>2, <1>3, <1>4 DEF NewIds

\* The states a run begins in satisfy the invariant.
LEMMA InitIInv == Init => IInv
<1> SUFFICES ASSUME Init PROVE IInv
  OBVIOUS
<1>1. Consistent(db)
  BY LedgerAssumption DEF Init, Consistent
<1>2. Consistent(staged)
  BY EmptyIsConsistent DEF Init
<1>3. issued \subseteq Groups \cup Rows
  BY <1>1 DEF Init, Consistent, Database, IdsOf, GroupRow, ExpenseRow, TransferRow,
     ConversionRow
<1>4. /\ thr \in [Threads -> ThreadState] /\ conn \in Threads \cup {Nobody}
      /\ \A t \in Threads : thr[t].phase = "idle" /\ conn # t
  BY LedgerAssumption DEF Init, ThreadState, Idle
<1> QED
  BY <1>1, <1>2, <1>3, <1>4 DEF IInv, At

\* A busy thread has a request and a step.
LEMMA BusyThread ==
    ASSUME IInv, NEW t \in Threads, Busy(t)
    PROVE  thr[t] \in BusyState
  BY DEF IInv, ThreadState, BusyState, Busy, Idle

\* A thread that ends leaves the write connection to nobody, if it owned it.
LEMMA EndKeeps ==
    ASSUME IInv, NEW t \in Threads, thr' = [thr EXCEPT ![t] = Idle],
           issued' = issued, Consistent(db)', Consistent(staged)',
           IF conn = t THEN conn' = Nobody ELSE conn' = conn
    PROVE  IInv'
<1>1. thr' \in [Threads -> ThreadState]
  BY DEF IInv, ThreadState
<1>2. thr'[t].phase = "idle" /\ \A u \in Threads : u # t => thr'[u] = thr[u]
  BY DEF IInv, Idle
<1>3. conn' \in Threads \cup {Nobody} /\ conn' # t
  BY LedgerAssumption DEF IInv
<1>4. \A u \in Threads :
          /\ thr'[u].phase = "writing" <=> conn' = u
          /\ thr'[u].phase \in {"checking", "writing"} => thr'[u].req.op # "GetBalance"
  BY <1>2, <1>3, LedgerAssumption DEF IInv, At
<1> QED
  BY <1>1, <1>3, <1>4 DEF IInv, At

\* A thread that goes on keeps its request and the write connection.
LEMMA GoOnKeeps ==
    ASSUME IInv, NEW t \in Threads, Busy(t), NEW s \in ThreadState,
           thr' = [thr EXCEPT ![t] = s], s.req = thr[t].req,
           s.phase \in {"checking", "writing"} => thr[t].phase \in {"checking", "writing"},
           issued' = issued, Consistent(db)', Consistent(staged)',
           s.phase = "writing" <=> conn' = t,
           conn' = conn \/ (conn = Nobody /\ conn' = t)
    PROVE  IInv'
<1>1. thr' \in [Threads -> ThreadState]
  BY DEF IInv
<1>2. /\ thr'[t] = s
      /\ \A u \in Threads : u # t => thr'[u] = thr[u]
  BY DEF IInv
<1>3. conn' \in Threads \cup {Nobody}
  BY DEF IInv
<1>4. \A u \in Threads :
          /\ thr'[u].phase = "writing" <=> conn' = u
          /\ thr'[u].phase \in {"checking", "writing"} => thr'[u].req.op # "GetBalance"
  BY <1>2, <1>3, LedgerAssumption DEF IInv, At
<1> QED
  BY <1>1, <1>3, <1>4 DEF IInv, At

\* Each step preserves the invariant.
LEMMA StepIInv == IInv /\ [Next]_vars => IInv'
<1> SUFFICES ASSUME IInv, [Next]_vars PROVE IInv'
  OBVIOUS
<1>1. Consistent(db) /\ Consistent(staged) /\ thr \in [Threads -> ThreadState]
  BY DEF IInv
<1>2. ASSUME NEW t \in Threads, NEW r \in Requests, Receive(t, r)
      PROVE  IInv'
  <2>1. /\ thr' \in [Threads -> ThreadState]
        /\ thr'[t].phase \in {"checking", "members"} /\ thr'[t].req = r
        /\ r.op = "GetBalance" => thr'[t].phase = "members"
        /\ \A u \in Threads : u # t => thr'[u] = thr[u]
    <3> DEFINE s == [phase |-> IF r.op = "GetBalance" THEN "members" ELSE "checking",
                     req |-> r, step |-> 1]
    <3>1. /\ s \in ThreadState /\ s.phase \in {"checking", "members"} /\ s.req = r
          /\ r.op = "GetBalance" => s.phase = "members"
      BY DEF ThreadState, BusyState, Phases
    <3>2. thr' = [thr EXCEPT ![t] = s]
      BY <1>2 DEF Receive
    <3> HIDE DEF s
    <3> QED
      BY <1>1, <3>1, <3>2
  <2>2. issued' \subseteq Groups \cup Rows
    BY <1>2, NewIdsAreIds DEF Receive, IInv
  <2>3. conn # t
    BY <1>2 DEF IInv, Receive, Busy, At
  <2>4. UNCHANGED <<db, conn, staged>>
    BY <1>2 DEF Receive
  <2>5. \A u \in Threads :
            /\ thr'[u].phase = "writing" <=> conn' = u
            /\ /\ thr'[u].phase \in {"checking", "writing"} => thr'[u].req.op # "GetBalance"
    BY <2>1, <2>3, <2>4 DEF IInv, At
  <2> QED
    BY <1>1, <2>1, <2>2, <2>4, <2>5 DEF IInv, At
<1>3. ASSUME NEW t \in Threads, Check(t)
      PROVE  IInv'
  <2>1. Busy(t) /\ conn # t /\ UNCHANGED <<db, conn, staged, issued>>
    BY <1>3 DEF Check, EndUnchanged, At, Busy, IInv
  <2>2. thr[t] \in BusyState
    BY <2>1, BusyThread
  <2>3. CASE thr' = [thr EXCEPT ![t].step = @ + 1]
    <3> DEFINE s == [thr[t] EXCEPT !.step = thr[t].step + 1]
    <3>1. s \in ThreadState /\ s.phase = "checking" /\ s.req = thr[t].req
      BY <1>3, <2>2 DEF Check, At, BusyState, ThreadState, Phases
    <3>2. thr' = [thr EXCEPT ![t] = s]
      BY <2>3
    <3> HIDE DEF s
    <3> QED
      BY <1>1, <1>3, <2>1, <3>1, <3>2, GoOnKeeps DEF Check, At
  <2>4. CASE thr' = [thr EXCEPT ![t] = Idle]
    BY <1>1, <2>1, <2>4, EndKeeps
  <2> QED
    BY <1>3, <2>3, <2>4 DEF Check, EndUnchanged, End
<1>4. ASSUME NEW t \in Threads, Begin(t)
      PROVE  IInv'
  <2>1. /\ Busy(t) /\ thr[t].phase = "checking" /\ conn = Nobody /\ conn' = t
        /\ staged' = db /\ UNCHANGED <<db, issued>>
    BY <1>4 DEF Begin, Checked, At, Busy
  <2>2. thr[t] \in BusyState
    BY <2>1, BusyThread
  <2> DEFINE b == [thr[t] EXCEPT !.phase = "writing"]
             s == [b EXCEPT !.step = 1]
  <2>3. thr' = [thr EXCEPT ![t] = s]
    BY <1>1, <1>4 DEF Begin
  <2>4. b \in BusyState /\ b.phase = "writing" /\ b.req = thr[t].req
    BY <2>2 DEF BusyState, Phases
  <2> HIDE DEF b
  <2>5. s \in ThreadState /\ s.phase = "writing" /\ s.req = thr[t].req
    BY <2>4 DEF BusyState, ThreadState
  <2> HIDE DEF s
  <2> QED
    BY <1>1, <2>1, <2>3, <2>5, GoOnKeeps
<1>5. ASSUME NEW t \in Threads, Statement(t)
      PROVE  IInv'
  <2> DEFINE sql == Handler(thr[t].req).sql
             s == sql[thr[t].step]
  <2>1. Busy(t) /\ conn = t /\ UNCHANGED issued /\ thr[t].step <= Len(sql)
    BY <1>5 DEF Statement, At, Busy, IInv
  <2>2. thr[t] \in BusyState
    BY <2>1, BusyThread
  <2>3. thr[t].req \in GroupRequest \cup EntryRequest /\ thr[t].req.op # "GetBalance"
    BY <1>5, <2>2, LedgerAssumption DEF BusyState, IInv, At, Statement
  <2>4. CASE Accepted(s, staged) /\ staged' = Run(s, staged) /\ UNCHANGED <<db, conn>>
             /\ thr' = [thr EXCEPT ![t].step = @ + 1]
    <3>1. thr[t].step \in 1 .. Len(sql)
      <4>1. Len(sql) \in Nat \ {0}
        BY <2>3, HandlerIsWellTyped
      <4>2. thr[t].step \in Nat \ {0}
        BY <2>2 DEF BusyState
      <4> HIDE DEF sql
      <4> QED
        BY <2>1, <4>1, <4>2
    <3>2. WellTyped(s)
      BY <2>3, <3>1, HandlerIsWellTyped
    <3>3. Consistent(staged')
      BY <1>1, <2>4, <3>2, RunKeeps
    <3> DEFINE n == [thr[t] EXCEPT !.step = thr[t].step + 1]
    <3>4. n \in ThreadState /\ n.phase = "writing" /\ n.req = thr[t].req
      BY <1>5, <2>2 DEF Statement, At, BusyState, ThreadState, Phases
    <3>5. thr' = [thr EXCEPT ![t] = n]
      BY <2>4
    <3> HIDE DEF n
    <3> QED
      BY <1>1, <1>5, <2>1, <2>4, <3>3, <3>4, <3>5, GoOnKeeps DEF Statement, At
  <2>5. CASE Closed /\ EndUnchanged(t)
    BY <1>1, <2>1, <2>5, EndKeeps, EmptyIsConsistent DEF Closed, EndUnchanged, End
  <2> QED
    BY <1>5, <2>4, <2>5 DEF Statement
<1>6. ASSUME NEW t \in Threads, Commit(t)
      PROVE  IInv'
  BY <1>1, <1>6, EndKeeps, EmptyIsConsistent
     DEF Commit, EndWith, End, Closed, IInv, At
<1>7. ASSUME NEW t \in Threads, Write(t)
      PROVE  IInv'
  <2> DEFINE sql == Handler(thr[t].req).sql
  <2>1. /\ Busy(t) /\ conn # t /\ UNCHANGED <<conn, staged, issued>>
        /\ thr' = [thr EXCEPT ![t] = Idle]
    BY <1>7, LedgerAssumption DEF Write, EndWith, EndUnchanged, End, Checked, At, Busy
  <2>2. thr[t].req \in GroupRequest \cup EntryRequest /\ thr[t].req.op # "GetBalance"
    BY <1>7, <2>1, BusyThread, LedgerAssumption DEF BusyState, IInv, At, Write, Checked
  <2>3. ASSUME Accepted(sql[1], db), db' = Run(sql[1], db)
        PROVE  Consistent(db')
    <3>1. WellTyped(sql[1])
      BY <1>7, <2>2, HandlerIsWellTyped
    <3> QED
      BY <1>1, <2>3, <3>1, RunKeeps
  <2>4. Consistent(db')
    BY <1>1, <1>7, <2>3 DEF Write, EndWith, EndUnchanged
  <2> QED
    BY <1>1, <2>1, <2>4, EndKeeps
<1>8. ASSUME NEW t \in Threads, ReadMembers(t) \/ ReadExpenses(t) \/ ReadTransfers(t)
      PROVE  IInv'
  <2>1. /\ Busy(t) /\ conn # t /\ UNCHANGED <<db, conn, staged, issued>>
        /\ thr[t].phase \in {"members", "expenses", "transfers"}
    BY <1>8 DEF ReadMembers, ReadExpenses, ReadTransfers, At, Busy, IInv
  <2>2. PICK p \in {"expenses", "transfers", "computing"} : thr' = [thr EXCEPT ![t].phase = p]
    BY <1>8 DEF ReadMembers, ReadExpenses, ReadTransfers
  <2>3. thr[t] \in BusyState
    BY <2>1, BusyThread
  <2> DEFINE s == [thr[t] EXCEPT !.phase = p]
  <2>4. s \in ThreadState /\ s.phase = p /\ s.req = thr[t].req
    BY <2>3 DEF BusyState, ThreadState, Phases
  <2>5. thr' = [thr EXCEPT ![t] = s]
    BY <2>2
  <2> HIDE DEF s
  <2> QED
    BY <1>1, <2>1, <2>2, <2>4, <2>5, GoOnKeeps
<1>9. ASSUME NEW t \in Threads, Answer(t) \/ GiveUp(t)
      PROVE  IInv'
  <2>1. CASE Answer(t)
    BY <1>1, <2>1, EndKeeps DEF Answer, EndUnchanged, End, At, IInv
  <2>2. CASE GiveUp(t)
    BY <1>1, <2>2, EndKeeps, EmptyIsConsistent DEF GiveUp, EndUnchanged, End, Closed
  <2> QED
    BY <1>9, <2>1, <2>2
<1>10. CASE Crash
  <2>1. /\ UNCHANGED <<db, issued>> /\ conn' = Nobody /\ staged' = EmptyDatabase
        /\ thr' = [t \in Threads |-> Idle]
    BY <1>10 DEF Crash, Closed
  <2>2. thr' \in [Threads -> ThreadState]
    BY <2>1 DEF ThreadState
  <2>3. \A t \in Threads : thr'[t].phase = "idle" /\ conn' # t
    BY <2>1, LedgerAssumption DEF Idle
  <2> QED
    BY <1>1, <2>1, <2>2, <2>3, EmptyIsConsistent DEF IInv, At
<1>11. CASE UNCHANGED vars
  BY <1>11 DEF vars, IInv, At
<1> QED
  BY <1>2, <1>3, <1>4, <1>5, <1>6, <1>7, <1>8, <1>9, <1>10, <1>11 DEF Next

\* The invariant holds in every reachable state.
THEOREM IInvHolds == Spec => []IInv
  BY InitIInv, StepIInv, PTL DEF Spec

----------------------------------------------------------------------------
\* What it is for

\* Every state is well typed: the tables of both databases, and the write connection
\* belongs to the thread that is writing, to nobody else and to at most one.
THEOREM TypeCorrect == Spec => []TypeOK
<1>1. IInv => TypeOK
  BY BusyThread DEF BusyState, IInv, TypeOK, Consistent
<1> QED
  BY <1>1, IInvHolds, PTL

\* No committed row refers to a group or an expense that is not there, however
\* deletions, cascades, failures and restarts interleave with the writing of entries.
THEOREM NoRowOrphaned == Spec => []StoredRowsHaveParents
<1>1. IInv => StoredRowsHaveParents
  BY DEF IInv, StoredRowsHaveParents, Consistent
<1> QED
  BY <1>1, IInvHolds, PTL

\* No two committed rows have the same key, although a handler looks for the row
\* before it asks for the write connection.
THEOREM NoKeyTwice == Spec => []StoredKeysUnique
<1>1. IInv => StoredKeysUnique
  BY DEF IInv, StoredKeysUnique, Consistent
<1> QED
  BY <1>1, IInvHolds, PTL

=============================================================================
