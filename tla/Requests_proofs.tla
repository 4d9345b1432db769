--------------------------- MODULE Requests_proofs ----------------------------
(***************************************************************************)
(* More proofs about Ledger: what a request does as a whole, and that it   *)
(* does so at once or not at all whatever runs at the same time.           *)
(*                                                                         *)
(* First, what the statements of a handler come to when all of them are    *)
(* accepted (GroupOutcome, EntryOutcome), what this leaves alone and what  *)
(* it preserves.  Then the invariant WInv: the open transaction has staged *)
(* what its statements make of the committed tables; ids come into use     *)
(* once, so that a row id names a row of the request's group or none; and  *)
(* a check that passed says something lasting about the time since the     *)
(* request arrived.  Every step then begins a request, changes nothing     *)
(* that others see, or carries one request out (StepKinds), and the        *)
(* properties follow.                                                      *)
(*                                                                         *)
(* Last, the refinement: seen as a book of pages, the server takes the     *)
(* steps of GroupBook.                                                     *)
(***************************************************************************)
EXTENDS Ledger_proofs

----------------------------------------------------------------------------
\* Statements in a row

Tables == {"groups", "members", "currencies", "expenses", "payers", "beneficiaries",
           "transfers", "conversions"}

\* Only the tables T of e may differ from those of d.
ChangesOnly(d, e, T) == \A x \in Tables \ T : e[x] = d[x]

\* The first n statements of sql, each accepted where it is run, make e of d.
Reaches(sql, n, d, e) ==
    \E f \in [0 .. n -> Database] :
        /\ f[0] = d /\ f[n] = e
        /\ \A k \in 1 .. n : Accepted(sql[k], f[k - 1]) /\ f[k] = Run(sql[k], f[k - 1])

\* What a transaction has staged grows by a statement at a time (Statement): none
\* changes nothing, and one more makes one more step.
LEMMA ReachesGrows ==
    ASSUME NEW sql, NEW d \in Database, NEW e \in Database, NEW n \in Nat
    PROVE  /\ e = d => Reaches(sql, 0, d, e)
           /\ \A c \in Database :
                  Reaches(sql, n, d, c) /\ Accepted(sql[n + 1], c) /\ e = Run(sql[n + 1], c)
                      => Reaches(sql, n + 1, d, e)
<1>1. ASSUME e = d
      PROVE  Reaches(sql, 0, d, e)
  <2> DEFINE f == [k \in 0 .. 0 |-> d]
  <2>1. f \in [0 .. 0 -> Database] /\ f[0] = d
    OBVIOUS
  <2>2. 1 .. 0 = {}
    OBVIOUS
  <2> HIDE DEF f
  <2> QED
    BY <1>1, <2>1, <2>2 DEF Reaches
<1>2. ASSUME NEW c \in Database, Reaches(sql, n, d, c), Accepted(sql[n + 1], c),
             e = Run(sql[n + 1], c)
      PROVE  Reaches(sql, n + 1, d, e)
  <2>1. PICK f \in [0 .. n -> Database] :
            /\ f[0] = d /\ f[n] = c
            /\ \A k \in 1 .. n : Accepted(sql[k], f[k - 1]) /\ f[k] = Run(sql[k], f[k - 1])
    BY <1>2 DEF Reaches
  <2> DEFINE h == [k \in 0 .. n + 1 |-> IF k = n + 1 THEN e ELSE f[k]]
  <2>2. h \in [0 .. n + 1 -> Database] /\ h[0] = d /\ h[n + 1] = e
    BY <2>1
  <2>3. \A k \in 1 .. n + 1 : Accepted(sql[k], h[k - 1]) /\ h[k] = Run(sql[k], h[k - 1])
    <3> TAKE k \in 1 .. n + 1
    <3>1. CASE k = n + 1
      BY <1>2, <2>1, <3>1
    <3>2. CASE k \in 1 .. n
      BY <2>1, <3>2
    <3> QED
      BY <3>1, <3>2
  <2> QED
    BY <2>2, <2>3 DEF Reaches
<1>4. Reaches(sql, 0, d, e) => e = d
  BY DEF Reaches
<1> QED
  BY <1>1, <1>2, <1>4

----------------------------------------------------------------------------
\* What each request comes to

\* An expense x is new in e, with its payer and its beneficiaries.
WithExpense(x, d, e) ==
    /\ ChangesOnly(d, e, {"expenses", "payers", "beneficiaries"})
    /\ x.id \notin IdsOf(d.expenses) /\ GroupExists(d, x.group)
    /\ e.expenses = d.expenses \cup
           {[id |-> x.id, group |-> x.group, currency |-> x.currency]}
    /\ e.payers = d.payers \cup {[expense |-> x.id, user |-> x.payer]}
    /\ e.beneficiaries = d.beneficiaries \cup
           {[expense |-> x.id, user |-> u] : u \in x.beneficiaries}

\* A conversion x is new in e.
WithConversion(x, d, e) ==
    /\ ChangesOnly(d, e, {"conversions"})
    /\ x.id \notin IdsOf(d.conversions) /\ GroupExists(d, x.group)
    /\ e.conversions = d.conversions \cup
           {[id |-> x.id, group |-> x.group, from |-> x.from, to |-> x.to]}

\* What request r makes of the tables d when all its statements are accepted: the
\* tables e.
GroupOutcome(r, d, e) ==
    CASE r.op = "CreateExpenseGroup" ->
             /\ ChangesOnly(d, e, {"groups", "members", "currencies"})
             /\ ~ GroupExists(d, r.group) /\ r.default \in r.currencies
             /\ e.groups = d.groups \cup {[id |-> r.group, creator |-> r.user,
                                           default |-> r.default, archived |-> FALSE]}
             /\ e.members = d.members \cup {[group |-> r.group, user |-> r.user,
                                             weight |-> 1, pinned |-> FALSE]}
             /\ e.currencies = d.currencies \cup
                    {[group |-> r.group, currency |-> c] : c \in r.currencies}
      [] r.op = "UpdateGroup" ->
             /\ ChangesOnly(d, e, {"groups", "currencies"})
             /\ GroupExists(d, r.group)
             /\ e.groups = {IF x.id = r.group THEN [x EXCEPT !.default = r.default] ELSE x :
                                x \in d.groups}
             /\ e.currencies = OutsideGroup(d.currencies, r.group) \cup
                    {[group |-> r.group, currency |-> c] : c \in r.currencies}
      [] r.op = "DeleteGroup" ->
             LET gone == IdsOf(InGroup(d.expenses, r.group))
             IN  /\ e.groups = {x \in d.groups : x.id # r.group}
                 /\ e.members = OutsideGroup(d.members, r.group)
                 /\ e.currencies = OutsideGroup(d.currencies, r.group)
                 /\ e.expenses = OutsideGroup(d.expenses, r.group)
                 /\ e.payers = {x \in d.payers : x.expense \notin gone}
                 /\ e.beneficiaries = {x \in d.beneficiaries : x.expense \notin gone}
                 /\ e.transfers = OutsideGroup(d.transfers, r.group)
                 /\ e.conversions = OutsideGroup(d.conversions, r.group)
      [] r.op = "SetGroupArchived" ->
             /\ ChangesOnly(d, e, {"groups"})
             /\ e.groups = {IF x.id = r.group THEN [x EXCEPT !.archived = r.on] ELSE x :
                                x \in d.groups}
      [] r.op = "AddUserToGroup" ->
             /\ ChangesOnly(d, e, {"members"})
             /\ GroupExists(d, r.group) /\ ~ IsUserInGroup(d, r.group, r.user)
             /\ e.members = d.members \cup {[group |-> r.group, user |-> r.user,
                                             weight |-> 1, pinned |-> FALSE]}
      [] r.op = "RemoveUserFromGroup" ->
             /\ ChangesOnly(d, e, {"members"})
             /\ e.members = {x \in d.members : ~ (x.group = r.group /\ x.user = r.user)}
      [] r.op = "UpdateUserWeight" ->
             /\ ChangesOnly(d, e, {"members"})
             /\ e.members = {IF x.group = r.group /\ x.user = r.user
                             THEN [x EXCEPT !.weight = r.weight] ELSE x : x \in d.members}
      [] r.op = "SetGroupPinned" ->
             /\ ChangesOnly(d, e, {"members"})
             /\ e.members = {IF x.group = r.group /\ x.user = r.by
                             THEN [x EXCEPT !.pinned = r.on] ELSE x : x \in d.members}

EntryOutcome(r, d, e) ==
    CASE r.op = "CreateExpense" -> WithExpense(r, d, e)
      [] r.op = "BulkCreateExpenses" ->
             \E c : Consistent(c) /\ WithExpense(r.first, d, c) /\ WithExpense(r.second, c, e)
      [] r.op = "UpdateExpense" ->
             /\ ChangesOnly(d, e, {"expenses", "payers", "beneficiaries"})
             /\ r.id \in IdsOf(d.expenses)
             /\ e.expenses = {IF x.id = r.id THEN [x EXCEPT !.currency = r.currency] ELSE x :
                                  x \in d.expenses}
             /\ e.payers = {IF x.expense = r.id THEN [x EXCEPT !.user = r.payer] ELSE x :
                                x \in d.payers}
             /\ e.beneficiaries = OfOther(d.beneficiaries, r.id) \cup
                    {[expense |-> r.id, user |-> u] : u \in r.beneficiaries}
      [] r.op = "DeleteExpense" ->
             /\ ChangesOnly(d, e, {"expenses", "payers", "beneficiaries"})
             /\ e.expenses = {x \in d.expenses : x.id # r.id}
             /\ e.payers = OfOther(d.payers, r.id)
             /\ e.beneficiaries = OfOther(d.beneficiaries, r.id)
      [] r.op = "CreateTransfer" ->
             /\ ChangesOnly(d, e, {"transfers"})
             /\ r.id \notin IdsOf(d.transfers) /\ GroupExists(d, r.group)
             /\ e.transfers = d.transfers \cup
                    {[id |-> r.id, group |-> r.group, sender |-> r.sender,
                      receiver |-> r.receiver]}
      [] r.op = "UpdateTransfer" ->
             /\ ChangesOnly(d, e, {"transfers"})
             /\ r.id \in IdsOf(d.transfers)
             /\ e.transfers = {IF x.id = r.id
                               THEN [x EXCEPT !.sender = r.sender, !.receiver = r.receiver]
                               ELSE x : x \in d.transfers}
      [] r.op = "DeleteTransfer" ->
             /\ ChangesOnly(d, e, {"transfers"})
             /\ e.transfers = {x \in d.transfers : x.id # r.id}
      [] r.op = "CreateConversion" -> WithConversion(r, d, e)
      [] r.op = "CreateConversions" ->
             \E c : /\ Consistent(c)
                    /\ WithConversion(r.first, d, c) /\ WithConversion(r.second, c, e)
      [] r.op = "UpdateConversion" ->
             /\ ChangesOnly(d, e, {"conversions"})
             /\ r.id \in IdsOf(d.conversions)
             /\ e.conversions = {IF x.id = r.id
                                 THEN [x EXCEPT !.from = r.from, !.to = r.to]
                                 ELSE x : x \in d.conversions}
      [] r.op = "DeleteConversion" ->
             /\ ChangesOnly(d, e, {"conversions"})
             /\ e.conversions = {x \in d.conversions : x.id # r.id}

\* A handler without a transaction runs one statement: the database accepts it and is
\* what it makes.
LEMMA OneStatement ==
    ASSUME NEW s, NEW d, NEW e, Reaches(<<s>>, Len(<<s>>), d, e)
    PROVE  Accepted(s, d) /\ e = Run(s, d)
  BY DEF Reaches

\* The same for a transaction of three statements, and of four.
LEMMA StatementsInARow ==
    ASSUME NEW sql, NEW d, NEW e
    PROVE  /\ Reaches(sql, 3, d, e) =>
               \E b, c \in Database :
                   /\ Accepted(sql[1], d) /\ Accepted(sql[2], b) /\ Accepted(sql[3], c)
                   /\ b = Run(sql[1], d) /\ c = Run(sql[2], b) /\ e = Run(sql[3], c)
           /\ Reaches(sql, 4, d, e) =>
               \E a, b, c \in Database :
                   /\ Accepted(sql[1], d) /\ Accepted(sql[2], a)
                   /\ Accepted(sql[3], b) /\ Accepted(sql[4], c)
                   /\ a = Run(sql[1], d) /\ b = Run(sql[2], a)
                   /\ c = Run(sql[3], b) /\ e = Run(sql[4], c)
<1>1. ASSUME Reaches(sql, 3, d, e)
      PROVE  \E b, c \in Database :
                 /\ Accepted(sql[1], d) /\ Accepted(sql[2], b) /\ Accepted(sql[3], c)
                 /\ b = Run(sql[1], d) /\ c = Run(sql[2], b) /\ e = Run(sql[3], c)
  <2>1. PICK f \in [0 .. 3 -> Database] :
            /\ f[0] = d /\ f[3] = e
            /\ \A k \in 1 .. 3 : Accepted(sql[k], f[k - 1]) /\ f[k] = Run(sql[k], f[k - 1])
    BY <1>1 DEF Reaches
  <2>2. /\ Accepted(sql[1], f[0]) /\ Accepted(sql[2], f[1]) /\ Accepted(sql[3], f[2])
        /\ f[1] = Run(sql[1], f[0]) /\ f[2] = Run(sql[2], f[1]) /\ f[3] = Run(sql[3], f[2])
        /\ f[1] \in Database /\ f[2] \in Database
    BY <2>1
  <2> QED
    BY <2>1, <2>2
<1>2. ASSUME Reaches(sql, 4, d, e)
      PROVE  \E a, b, c \in Database :
                 /\ Accepted(sql[1], d) /\ Accepted(sql[2], a)
                 /\ Accepted(sql[3], b) /\ Accepted(sql[4], c)
                 /\ a = Run(sql[1], d) /\ b = Run(sql[2], a)
                 /\ c = Run(sql[3], b) /\ e = Run(sql[4], c)
  <2>1. PICK f \in [0 .. 4 -> Database] :
            /\ f[0] = d /\ f[4] = e
            /\ \A k \in 1 .. 4 : Accepted(sql[k], f[k - 1]) /\ f[k] = Run(sql[k], f[k - 1])
    BY <1>2 DEF Reaches
  <2>2. /\ Accepted(sql[1], f[0]) /\ Accepted(sql[2], f[1])
        /\ Accepted(sql[3], f[2]) /\ Accepted(sql[4], f[3])
        /\ f[1] = Run(sql[1], f[0]) /\ f[2] = Run(sql[2], f[1])
        /\ f[3] = Run(sql[3], f[2]) /\ f[4] = Run(sql[4], f[3])
        /\ f[1] \in Database /\ f[2] \in Database /\ f[3] \in Database
    BY <2>1
  <2> QED
    BY <2>1, <2>2
<1> QED
  BY <1>1, <1>2

\* The statements of a handler of group.go, one after the other, come to what its request
\* asks for.
LEMMA GroupRequestsDo ==
    ASSUME NEW r \in GroupRequest, r.op # "GetBalance", NEW d, Consistent(d),
           NEW e \in Database, Reaches(Handler(r).sql, Len(Handler(r).sql), d, e)
    PROVE  GroupOutcome(r, d, e)
<1> USE DEF Consistent
<1>1. CASE r.op = "CreateExpenseGroup"
  <2>1. Handler(r).sql = <<Do("CreateGroup", r), Do("AddUserToGroup", r),
                           Do("DefaultIsSelected", r), Do("BulkAddGroupCurrencies", r)>>
    BY <1>1 DEF Handler, HandleCreateExpenseGroup, InTx
  <2> DEFINE sql == Handler(r).sql
  <2>r. Reaches(sql, 4, d, e)
    BY <2>1
  <2>s. /\ sql[1] = Do("CreateGroup", r) /\ sql[2] = Do("AddUserToGroup", r)
        /\ sql[3] = Do("DefaultIsSelected", r) /\ sql[4] = Do("BulkAddGroupCurrencies", r)
    BY <2>1
  <2> HIDE DEF sql
  <2>a. PICK a, b, c \in Database :
                 /\ Accepted(sql[1], d) /\ Accepted(sql[2], a)
                 /\ Accepted(sql[3], b) /\ Accepted(sql[4], c)
                 /\ a = Run(sql[1], d) /\ b = Run(sql[2], a)
                 /\ c = Run(sql[3], b) /\ e = Run(sql[4], c)
    BY <2>r, StatementsInARow
  <2>d. /\ Accepted(Do("CreateGroup", r), d)
        /\ Accepted(Do("DefaultIsSelected", r), b)
        /\ a = Run(Do("CreateGroup", r), d)
        /\ b = Run(Do("AddUserToGroup", r), a)
        /\ c = Run(Do("DefaultIsSelected", r), b)
        /\ e = Run(Do("BulkAddGroupCurrencies", r), c)
    BY <2>a, <2>s
  <2>2. /\ a = CreateGroup(d, r.group, r.user, r.default)
        /\ b = AddUserToGroup(a, r.group, r.user)
        /\ c = b
    <3>1. a = CreateGroup(d, r.group, r.user, r.default)
      BY <2>d DEF Run, Do
    <3>2. b = AddUserToGroup(a, r.group, r.user)
      BY <2>d DEF Run, Do
    <3>3. c = b
      BY <2>d DEF Run, Do
    <3> QED
      BY <3>1, <3>2, <3>3
  <2>4. e = BulkAddGroupCurrencies(c, r.group, r.currencies)
    BY <2>d DEF Run, Do
  <2>3. ~ GroupExists(d, r.group) /\ r.default \in r.currencies
    BY <2>d DEF Accepted, KeyIsFree, Do
  <2> QED
    BY <1>1, <2>2, <2>3, <2>4
       DEF GroupOutcome, CreateGroup, AddUserToGroup, BulkAddGroupCurrencies, Database,
       ChangesOnly, Tables
<1>2. CASE r.op = "UpdateGroup"
  <2>1. Handler(r).sql = <<Do("UpdateGroup", r), Do("ClearGroupCurrencies", r),
                           Do("BulkAddGroupCurrencies", r)>>
    BY <1>2 DEF Handler, HandleUpdateGroup, InTx
  <2> DEFINE sql == Handler(r).sql
  <2>r. Reaches(sql, 3, d, e)
    BY <2>1
  <2>s. /\ sql[1] = Do("UpdateGroup", r) /\ sql[2] = Do("ClearGroupCurrencies", r)
        /\ sql[3] = Do("BulkAddGroupCurrencies", r)
    BY <2>1
  <2> HIDE DEF sql
  <2>a. PICK b, c \in Database :
                 /\ Accepted(sql[1], d) /\ Accepted(sql[2], b) /\ Accepted(sql[3], c)
                 /\ b = Run(sql[1], d) /\ c = Run(sql[2], b) /\ e = Run(sql[3], c)
    BY <2>r, StatementsInARow
  <2>d. /\ Accepted(Do("UpdateGroup", r), d)
        /\ b = Run(Do("UpdateGroup", r), d)
        /\ c = Run(Do("ClearGroupCurrencies", r), b)
        /\ e = Run(Do("BulkAddGroupCurrencies", r), c)
    BY <2>a, <2>s
  <2>2. /\ Accepted(Do("UpdateGroup", r), d)
        /\ b = UpdateGroup(d, r.group, r.default)
        /\ c = ClearGroupCurrencies(b, r.group)
        /\ e = BulkAddGroupCurrencies(c, r.group, r.currencies)
    BY <2>d DEF Run, Do
  <2>3. GroupExists(d, r.group)
    BY <2>2 DEF Accepted, RowReturned, Do
  <2> QED
    BY <1>2, <2>2, <2>3
       DEF GroupOutcome, UpdateGroup, ClearGroupCurrencies, BulkAddGroupCurrencies, Database,
       ChangesOnly, Tables
<1>3. CASE r.op = "DeleteGroup"
  <2>1. Handler(r).sql = <<Do("DeleteGroup", r)>>
    BY <1>3 DEF Handler, HandleDeleteGroup, Direct
  <2>2. Accepted(Do("DeleteGroup", r), d) /\ e = DeleteGroup(d, r.group)
    BY <2>1, OneStatement DEF Run, Do
  <2> QED
    BY <1>3, <2>2
       DEF GroupOutcome, DeleteGroup, Database, ChangesOnly, Tables
<1>4. CASE r.op = "SetGroupArchived"
  <2>1. Handler(r).sql = <<Do("SetGroupArchived", r)>>
    BY <1>4 DEF Handler, HandleSetGroupArchived, Direct
  <2>2. Accepted(Do("SetGroupArchived", r), d) /\ e = SetGroupArchived(d, r.group, r.on)
    BY <2>1, OneStatement DEF Run, Do
  <2> QED
    BY <1>4, <2>2
       DEF GroupOutcome, SetGroupArchived, Database, ChangesOnly, Tables
<1>5. CASE r.op = "AddUserToGroup"
  <2>1. Handler(r).sql = <<Do("AddUserToGroup", r)>>
    BY <1>5 DEF Handler, HandleAddUserToGroup, Direct
  <2>2. Accepted(Do("AddUserToGroup", r), d) /\ e = AddUserToGroup(d, r.group, r.user)
    BY <2>1, OneStatement DEF Run, Do
  <2>3. GroupExists(d, r.group) /\ ~ IsUserInGroup(d, r.group, r.user)
    BY <2>2 DEF Accepted, KeyIsFree, ParentExists, Do
  <2> QED
    BY <1>5, <2>2, <2>3
       DEF GroupOutcome, AddUserToGroup, Database, ChangesOnly, Tables
<1>6. CASE r.op = "RemoveUserFromGroup"
  <2>1. Handler(r).sql = <<Do("RemoveUserFromGroup", r)>>
    BY <1>6 DEF Handler, HandleRemoveUserFromGroup, Direct
  <2>2. Accepted(Do("RemoveUserFromGroup", r), d) /\ e = RemoveUserFromGroup(d, r.group, r.user)
    BY <2>1, OneStatement DEF Run, Do
  <2> QED
    BY <1>6, <2>2
       DEF GroupOutcome, RemoveUserFromGroup, Database, ChangesOnly, Tables
<1>7. CASE r.op = "UpdateUserWeight"
  <2>1. Handler(r).sql = <<Do("UpdateUserWeight", r)>>
    BY <1>7 DEF Handler, HandleUpdateUserWeight, Direct
  <2>2. Accepted(Do("UpdateUserWeight", r), d) /\ e = UpdateUserWeight(d, r.group, r.user, r.weight)
    BY <2>1, OneStatement DEF Run, Do
  <2> QED
    BY <1>7, <2>2
       DEF GroupOutcome, UpdateUserWeight, Database, ChangesOnly, Tables
<1>8. CASE r.op = "SetGroupPinned"
  <2>1. Handler(r).sql = <<Do("SetGroupPinned", r)>>
    BY <1>8 DEF Handler, HandleSetGroupPinned, Direct
  <2>2. Accepted(Do("SetGroupPinned", r), d) /\ e = SetGroupPinned(d, r.group, r.by, r.on)
    BY <2>1, OneStatement DEF Run, Do
  <2> QED
    BY <1>8, <2>2
       DEF GroupOutcome, SetGroupPinned, Database, ChangesOnly, Tables
<1> QED
  BY <1>1, <1>2, <1>3, <1>4, <1>5, <1>6, <1>7, <1>8 DEF GroupRequest

\* The three statements that record an expense (createExpenseTx) come to an expense with
\* its payer and its beneficiaries.
LEMMA ExpenseIsRecorded ==
    ASSUME NEW x, NEW d \in Database, NEW b \in Database, NEW c \in Database,
           NEW e \in Database,
           Accepted(CreateExpenseTx(x)[1], d), b = Run(CreateExpenseTx(x)[1], d),
           c = Run(CreateExpenseTx(x)[2], b), e = Run(CreateExpenseTx(x)[3], c)
    PROVE  WithExpense(x, d, e)
<1>1. x.id \notin IdsOf(d.expenses) /\ GroupExists(d, x.group)
  BY DEF CreateExpenseTx, Do, Accepted, KeyIsFree, ParentExists
<1>2. /\ b = CreateExpense(d, x.id, x.group, x.currency)
      /\ c = CreateExpensePayer(b, x.id, x.payer)
      /\ e = CreateExpenseBeneficiariesBatch(c, x.id, x.beneficiaries)
  BY DEF CreateExpenseTx, Do, Run
<1>3. /\ e.expenses = d.expenses \cup
            {[id |-> x.id, group |-> x.group, currency |-> x.currency]}
      /\ e.payers = d.payers \cup {[expense |-> x.id, user |-> x.payer]}
      /\ e.beneficiaries = d.beneficiaries \cup
            {[expense |-> x.id, user |-> u] : u \in x.beneficiaries}
  <2>1. /\ b.expenses = d.expenses \cup
               {[id |-> x.id, group |-> x.group, currency |-> x.currency]}
        /\ b.payers = d.payers /\ b.beneficiaries = d.beneficiaries
    BY <1>2 DEF CreateExpense, Database
  <2>2. /\ c.payers = b.payers \cup {[expense |-> x.id, user |-> x.payer]}
        /\ c.expenses = b.expenses /\ c.beneficiaries = b.beneficiaries
    BY <1>2 DEF CreateExpensePayer, Database
  <2>3. /\ e.beneficiaries = c.beneficiaries \cup
               {[expense |-> x.id, user |-> u] : u \in x.beneficiaries}
        /\ e.expenses = c.expenses /\ e.payers = c.payers
    BY <1>2 DEF CreateExpenseBeneficiariesBatch, Database
  <2> QED
    BY <2>1, <2>2, <2>3
<1>4. ChangesOnly(d, e, {"expenses", "payers", "beneficiaries"})
  BY <1>2 DEF CreateExpense, CreateExpensePayer, CreateExpenseBeneficiariesBatch, Database,
     ChangesOnly, Tables
<1> QED
  BY <1>1, <1>3, <1>4 DEF WithExpense

\* The same for the handlers of expense.go, transfer.go and conversion.go.
LEMMA EntryRequestsDo ==
    ASSUME NEW r \in EntryRequest, NEW d, Consistent(d),
           NEW e \in Database, Reaches(Handler(r).sql, Len(Handler(r).sql), d, e)
    PROVE  EntryOutcome(r, d, e)
<1> USE DEF Consistent
<1>12. ASSUME NEW x, NEW b \in Database, NEW c \in Database,
              Accepted(Do("CreateCurrencyConversion", x), b),
              c = Run(Do("CreateCurrencyConversion", x), b)
       PROVE  WithConversion(x, b, c)
  BY <1>12 DEF WithConversion, Run, Do, Accepted, KeyIsFree, ParentExists,
     CreateCurrencyConversion, Database, ChangesOnly, Tables
<1>1. CASE r.op = "CreateExpense"
  <2>1. Handler(r).sql = CreateExpenseTx(r) /\ Len(CreateExpenseTx(r)) = 3
    BY <1>1 DEF Handler, HandleCreateExpense, InTx, CreateExpenseTx
  <2>2. PICK b, c \in Database :
            /\ Accepted(CreateExpenseTx(r)[1], d) /\ b = Run(CreateExpenseTx(r)[1], d)
            /\ c = Run(CreateExpenseTx(r)[2], b) /\ e = Run(CreateExpenseTx(r)[3], c)
    BY <2>1 DEF Reaches
  <2> QED
    BY <1>1, <2>2, ExpenseIsRecorded DEF EntryOutcome
<1>2. CASE r.op = "BulkCreateExpenses"
  <2> DEFINE tx1 == CreateExpenseTx(r.first)
             tx2 == CreateExpenseTx(r.second)
             sql == Handler(r).sql
  <2>1. sql = tx1 \o tx2
    BY <1>2 DEF Handler, HandleBulkCreateExpenses, InTx
  <2> DEFINE S == {tx1[1], tx1[2], tx1[3], tx2[1], tx2[2], tx2[3]}
  <2>2. tx1 \in Seq(S) /\ Len(tx1) = 3 /\ tx2 \in Seq(S) /\ Len(tx2) = 3
    BY DEF CreateExpenseTx
  <2> HIDE DEF tx1, tx2, S
  <2>3. /\ Len(sql) = 6 /\ sql[1] = tx1[1] /\ sql[2] = tx1[2] /\ sql[3] = tx1[3]
        /\ sql[4] = tx2[1] /\ sql[5] = tx2[2] /\ sql[6] = tx2[3]
    <3>1. /\ Len(tx1 \o tx2) = 6
          /\ \A i \in 1 .. 6 : (tx1 \o tx2)[i] = IF i <= 3 THEN tx1[i] ELSE tx2[i - 3]
      <4>1. /\ Len(tx1 \o tx2) = Len(tx1) + Len(tx2)
            /\ \A i \in 1 .. Len(tx1) + Len(tx2) :
                   (tx1 \o tx2)[i] = IF i <= Len(tx1) THEN tx1[i] ELSE tx2[i - Len(tx1)]
        BY <2>2, ConcatProperties, Zenon
      <4> QED
        BY <2>2, <4>1
    <3> HIDE DEF sql
    <3> QED
      BY <2>1, <3>1
  <2>4. \A k \in 1 .. 6 : WellTyped(sql[k])
    BY <1>2, <2>3, HandlerIsWellTyped
  <2>5. PICK f \in [0 .. 6 -> Database] :
            /\ f[0] = d /\ f[6] = e
            /\ \A k \in 1 .. 6 : Accepted(sql[k], f[k - 1]) /\ f[k] = Run(sql[k], f[k - 1])
    BY <2>3 DEF Reaches
  <2> HIDE DEF sql
  <2>6. /\ Accepted(sql[1], d) /\ Accepted(sql[2], f[1]) /\ Accepted(sql[3], f[2])
        /\ Accepted(sql[4], f[3])
        /\ f[1] = Run(sql[1], d) /\ f[2] = Run(sql[2], f[1]) /\ f[3] = Run(sql[3], f[2])
        /\ f[4] = Run(sql[4], f[3]) /\ f[5] = Run(sql[5], f[4]) /\ e = Run(sql[6], f[5])
    BY <2>5
  <2>7. Consistent(f[3])
    <3>1. WellTyped(sql[1]) /\ WellTyped(sql[2]) /\ WellTyped(sql[3])
      BY <2>4
    <3>2. Consistent(f[1])
      BY <2>6, <3>1, RunKeeps
    <3>3. Consistent(f[2])
      BY <2>6, <3>1, <3>2, RunKeeps
    <3> QED
      BY <2>6, <3>1, <3>3, RunKeeps
  <2>8. WithExpense(r.first, d, f[3]) /\ WithExpense(r.second, f[3], e)
    BY <2>3, <2>5, <2>6, ExpenseIsRecorded DEF tx1, tx2
  <2> QED
    BY <1>2, <2>7, <2>8 DEF EntryOutcome
<1>3. CASE r.op = "UpdateExpense"
  <2>1. Handler(r).sql = <<Do("UpdateExpense", r), Do("UpdateExpensePayer", r),
                           Do("DeleteExpenseBeneficiaries", r),
                           Do("CreateExpenseBeneficiariesBatch", r)>>
    BY <1>3 DEF Handler, HandleUpdateExpense, InTx
  <2> DEFINE sql == Handler(r).sql
  <2>r. Reaches(sql, 4, d, e)
    BY <2>1
  <2>s. /\ sql[1] = Do("UpdateExpense", r) /\ sql[2] = Do("UpdateExpensePayer", r)
        /\ sql[3] = Do("DeleteExpenseBeneficiaries", r)
        /\ sql[4] = Do("CreateExpenseBeneficiariesBatch", r)
    BY <2>1
  <2> HIDE DEF sql
  <2>a. PICK a, b, c \in Database :
                 /\ Accepted(sql[1], d) /\ Accepted(sql[2], a)
                 /\ Accepted(sql[3], b) /\ Accepted(sql[4], c)
                 /\ a = Run(sql[1], d) /\ b = Run(sql[2], a)
                 /\ c = Run(sql[3], b) /\ e = Run(sql[4], c)
    BY <2>r, StatementsInARow
  <2>d. /\ Accepted(Do("UpdateExpense", r), d)
        /\ a = Run(Do("UpdateExpense", r), d)
        /\ b = Run(Do("UpdateExpensePayer", r), a)
        /\ c = Run(Do("DeleteExpenseBeneficiaries", r), b)
        /\ e = Run(Do("CreateExpenseBeneficiariesBatch", r), c)
    BY <2>a, <2>s
  <2>2. /\ Accepted(Do("UpdateExpense", r), d)
        /\ a = UpdateExpense(d, r.id, r.currency)
        /\ b = UpdateExpensePayer(a, r.id, r.payer)
        /\ c = DeleteExpenseBeneficiaries(b, r.id)
        /\ e = CreateExpenseBeneficiariesBatch(c, r.id, r.beneficiaries)
    <3>1. Accepted(Do("UpdateExpense", r), d) /\ a = UpdateExpense(d, r.id, r.currency)
      BY <2>d DEF Run, Do
    <3>2. b = UpdateExpensePayer(a, r.id, r.payer)
      <4>1. b = Run(Do("UpdateExpensePayer", r), a)
        BY <2>d
      <4> QED
        BY <4>1 DEF Run, Do
    <3>3. c = DeleteExpenseBeneficiaries(b, r.id)
      BY <2>d DEF Run, Do
    <3>4. e = CreateExpenseBeneficiariesBatch(c, r.id, r.beneficiaries)
      <4>1. e = Run(Do("CreateExpenseBeneficiariesBatch", r), c)
        BY <2>d
      <4> QED
        BY <4>1 DEF Run, Do
    <3> QED
      BY <3>1, <3>2, <3>3, <3>4
  <2>3. r.id \in IdsOf(d.expenses)
    BY <2>2 DEF Accepted, RowReturned, Do
  <2> QED
    BY <1>3, <2>2, <2>3
       DEF EntryOutcome, UpdateExpense, UpdateExpensePayer, DeleteExpenseBeneficiaries,
       CreateExpenseBeneficiariesBatch, Database, ChangesOnly, Tables
<1>4. CASE r.op = "DeleteExpense"
  <2>1. Handler(r).sql = <<Do("DeleteExpense", r)>>
    BY <1>4 DEF Handler, HandleDeleteExpense, Direct
  <2>2. Accepted(Do("DeleteExpense", r), d) /\ e = DeleteExpense(d, r.id)
    BY <2>1, OneStatement DEF Run, Do
  <2> QED
    BY <1>4, <2>2
       DEF EntryOutcome, DeleteExpense, Database, ChangesOnly, Tables
<1>5. CASE r.op = "CreateTransfer"
  <2>1. Handler(r).sql = <<Do("CreateTransfer", r)>>
    BY <1>5 DEF Handler, HandleCreateTransfer, Direct
  <2>2. /\ Accepted(Do("CreateTransfer", r), d)
        /\ e = CreateTransfer(d, r.id, r.group, r.sender, r.receiver)
    BY <2>1, OneStatement DEF Run, Do
  <2>3. GroupExists(d, r.group) /\ r.id \notin IdsOf(d.transfers)
    BY <2>2 DEF Accepted, KeyIsFree, ParentExists, Do
  <2> QED
    BY <1>5, <2>2, <2>3
       DEF EntryOutcome, CreateTransfer, Database, ChangesOnly, Tables
<1>6. CASE r.op = "UpdateTransfer"
  <2>1. Handler(r).sql = <<Do("UpdateTransfer", r)>>
    BY <1>6 DEF Handler, HandleUpdateTransfer, Direct
  <2>2. Accepted(Do("UpdateTransfer", r), d) /\ e = UpdateTransfer(d, r.id, r.sender, r.receiver)
    BY <2>1, OneStatement DEF Run, Do
  <2>3. r.id \in IdsOf(d.transfers)
    BY <2>2 DEF Accepted, RowReturned, Do
  <2> QED
    BY <1>6, <2>2, <2>3
       DEF EntryOutcome, UpdateTransfer, Database, ChangesOnly, Tables
<1>7. CASE r.op = "DeleteTransfer"
  <2>1. Handler(r).sql = <<Do("DeleteTransfer", r)>>
    BY <1>7 DEF Handler, HandleDeleteTransfer, Direct
  <2>2. Accepted(Do("DeleteTransfer", r), d) /\ e = DeleteTransfer(d, r.id)
    BY <2>1, OneStatement DEF Run, Do
  <2> QED
    BY <1>7, <2>2
       DEF EntryOutcome, DeleteTransfer, Database, ChangesOnly, Tables
<1>8. CASE r.op = "CreateConversion"
  <2>1. Handler(r).sql = <<Do("CreateCurrencyConversion", r)>>
    BY <1>8 DEF Handler, HandleCreateConversion, Direct
  <2>2. /\ Accepted(Do("CreateCurrencyConversion", r), d)
        /\ e = CreateCurrencyConversion(d, r.id, r.group, r.from, r.to)
    BY <2>1, OneStatement DEF Run, Do
  <2>3. GroupExists(d, r.group) /\ r.id \notin IdsOf(d.conversions)
    BY <2>2 DEF Accepted, KeyIsFree, ParentExists, Do
  <2> QED
    BY <1>8, <2>2, <2>3
       DEF EntryOutcome, CreateCurrencyConversion, Database, ChangesOnly, Tables, WithConversion
<1>9. CASE r.op = "UpdateConversion"
  <2>1. Handler(r).sql = <<Do("UpdateCurrencyConversion", r)>>
    BY <1>9 DEF Handler, HandleUpdateConversion, Direct
  <2>2. /\ Accepted(Do("UpdateCurrencyConversion", r), d)
        /\ e = UpdateCurrencyConversion(d, r.id, r.from, r.to)
    BY <2>1, OneStatement DEF Run, Do
  <2>3. r.id \in IdsOf(d.conversions)
    BY <2>2 DEF Accepted, RowReturned, Do
  <2> QED
    BY <1>9, <2>2, <2>3
       DEF EntryOutcome, UpdateCurrencyConversion, Database, ChangesOnly, Tables
<1>10. CASE r.op = "DeleteConversion"
  <2>1. Handler(r).sql = <<Do("DeleteCurrencyConversion", r)>>
    BY <1>10 DEF Handler, HandleDeleteConversion, Direct
  <2>2. Accepted(Do("DeleteCurrencyConversion", r), d) /\ e = DeleteCurrencyConversion(d, r.id)
    BY <2>1, OneStatement DEF Run, Do
  <2> QED
    BY <1>10, <2>2
       DEF EntryOutcome, DeleteCurrencyConversion, Database, ChangesOnly, Tables
<1>11. CASE r.op = "CreateConversions"
  <2>1. Handler(r).sql = <<Do("CreateCurrencyConversion", r.first),
                           Do("CreateCurrencyConversion", r.second)>>
    BY <1>11 DEF Handler, HandleCreateConversions, InTx
  <2>2. PICK c \in Database :
            /\ Accepted(Do("CreateCurrencyConversion", r.first), d)
            /\ c = Run(Do("CreateCurrencyConversion", r.first), d)
            /\ Accepted(Do("CreateCurrencyConversion", r.second), c)
            /\ e = Run(Do("CreateCurrencyConversion", r.second), c)
    BY <2>1 DEF Reaches
  <2>3. WellTyped(Do("CreateCurrencyConversion", r.first))
    BY <1>11, <2>1, HandlerIsWellTyped
  <2>4. Consistent(c)
    BY <2>2, <2>3, RunKeeps
  <2>5. WithConversion(r.first, d, c) /\ WithConversion(r.second, c, e)
    BY <2>2, <1>12
  <2> QED
    BY <1>11, <2>4, <2>5 DEF EntryOutcome
<1> QED
  BY <1>1, <1>2, <1>3, <1>4, <1>5, <1>6, <1>7, <1>8, <1>9, <1>10, <1>11
     DEF EntryRequest, RowRequest, ExpenseRequest, TransferRequest, ConversionRequest,
     TwoRequest

----------------------------------------------------------------------------
\* What a request leaves alone

\* Request r, carried out as a whole, makes the tables e of the tables d.
Outcome(r, d, e) ==
    \/ r \in GroupRequest /\ r.op # "GetBalance" /\ GroupOutcome(r, d, e)
    \/ r \in EntryRequest /\ EntryOutcome(r, d, e)

\* The groups that r may change: the one it names or, where it names the row of an
\* entry, the one that has this row.
Touched(r, d) ==
    CASE r.op \in {"UpdateExpense", "DeleteExpense"} ->
             {x.group : x \in {x \in d.expenses : x.id = r.id}}
      [] r.op \in {"UpdateTransfer", "DeleteTransfer"} ->
             {x.group : x \in {x \in d.transfers : x.id = r.id}}
      [] r.op \in {"UpdateConversion", "DeleteConversion"} ->
             {x.group : x \in {x \in d.conversions : x.id = r.id}}
      [] OTHER -> {r.group}

\* A request changes nothing of other groups: whatever its statements write belongs to
\* the groups it touches, also where a foreign key cascades.
LEMMA OthersUntouched ==
    ASSUME NEW r, NEW d, Consistent(d), NEW e \in Database, Outcome(r, d, e),
           NEW g, g \notin Touched(r, d)
    PROVE  RowsOf(e, g) = RowsOf(d, g)
<1> DEFINE Same(X, Y) == InGroup(X, g) = InGroup(Y, g)
<1>1. d \in Database
  BY DEF Consistent
<1>a. ASSUME NEW X, NEW Y,
             \A x \in X : x.group = g => x \in Y, \A y \in Y : y.group = g => y \in X
      PROVE  Same(Y, X)
  BY <1>a DEF InGroup
\* What is to show, table by table.
<1>2. ASSUME NEW b, NEW c, NEW T, ChangesOnly(b, c, T),
             "groups" \in T => {x \in c.groups : x.id = g} = {x \in b.groups : x.id = g},
             "members" \in T => Same(c.members, b.members),
             "currencies" \in T => Same(c.currencies, b.currencies),
             "expenses" \in T => Same(c.expenses, b.expenses),
             "payers" \in T =>
                 \A i \in IdsOf(InGroup(b.expenses, g)) :
                     {p \in c.payers : p.expense = i} = {p \in b.payers : p.expense = i},
             "beneficiaries" \in T =>
                 \A i \in IdsOf(InGroup(b.expenses, g)) :
                     {p \in c.beneficiaries : p.expense = i}
                         = {p \in b.beneficiaries : p.expense = i},
             "transfers" \in T => Same(c.transfers, b.transfers),
             "conversions" \in T => Same(c.conversions, b.conversions)
      PROVE  RowsOf(c, g) = RowsOf(b, g)
  <2>1. /\ {x \in c.groups : x.id = g} = {x \in b.groups : x.id = g}
        /\ Same(c.members, b.members) /\ Same(c.currencies, b.currencies)
        /\ Same(c.expenses, b.expenses) /\ Same(c.transfers, b.transfers)
        /\ Same(c.conversions, b.conversions)
    BY <1>2 DEF ChangesOnly, Tables
  <2> DEFINE ids == IdsOf(InGroup(b.expenses, g))
  <2>2. {p \in c.payers : p.expense \in ids} = {p \in b.payers : p.expense \in ids}
    <3> HIDE DEF ids
    <3>1. \A p : p.expense \in ids => (p \in c.payers <=> p \in b.payers)
      BY <1>2 DEF ChangesOnly, Tables, ids
    <3> QED
      BY <3>1
  <2>3. {p \in c.beneficiaries : p.expense \in ids}
            = {p \in b.beneficiaries : p.expense \in ids}
    <3> HIDE DEF ids
    <3>1. \A p : p.expense \in ids => (p \in c.beneficiaries <=> p \in b.beneficiaries)
      BY <1>2 DEF ChangesOnly, Tables, ids
    <3> QED
      BY <3>1
  <2> QED
    BY <2>1, <2>2, <2>3 DEF RowsOf
<1>3. CASE r \in GroupRequest /\ r.op # "GetBalance" /\ GroupOutcome(r, d, e)
  <2>1. r.op \in {"CreateExpenseGroup", "UpdateGroup", "DeleteGroup", "SetGroupArchived",
                  "AddUserToGroup", "RemoveUserFromGroup", "UpdateUserWeight",
                  "SetGroupPinned"}
    BY <1>3 DEF GroupRequest
  <2>2. g # r.group
    BY <2>1 DEF Touched
  <2>3. CASE r.op = "CreateExpenseGroup"
    <3>1. /\ ChangesOnly(d, e, {"groups", "members", "currencies"})
          /\ {x \in e.groups : x.id = g} = {x \in d.groups : x.id = g}
          /\ Same(e.members, d.members) /\ Same(e.currencies, d.currencies)
      BY <1>3, <2>2, <2>3 DEF GroupOutcome, InGroup
    <3> QED
      BY <1>2, <3>1
  <2>4. CASE r.op = "UpdateGroup"
    <3>1. \A x \in d.groups : [x EXCEPT !.default = r.default].id = x.id
      BY <1>1 DEF Database, GroupRow
    <3>2. /\ ChangesOnly(d, e, {"groups", "currencies"})
          /\ {x \in e.groups : x.id = g} = {x \in d.groups : x.id = g}
      BY <1>3, <2>2, <2>4, <3>1 DEF GroupOutcome
    <3>3. Same(e.currencies, d.currencies)
      BY <1>3, <2>2, <2>4 DEF GroupOutcome, InGroup, OutsideGroup
    <3> QED
      BY <1>2, <3>2, <3>3
  <2>5. CASE r.op = "DeleteGroup"
    <3> DEFINE gone == IdsOf(InGroup(d.expenses, r.group))
    <3>1. \A i \in IdsOf(InGroup(d.expenses, g)) : i \notin gone
      BY <2>2 DEF Consistent, KeysUnique, IdsOf, InGroup
    <3>2. /\ e.groups = {x \in d.groups : x.id # r.group}
          /\ e.members = OutsideGroup(d.members, r.group)
          /\ e.currencies = OutsideGroup(d.currencies, r.group)
          /\ e.expenses = OutsideGroup(d.expenses, r.group)
          /\ e.payers = {x \in d.payers : x.expense \notin gone}
          /\ e.beneficiaries = {x \in d.beneficiaries : x.expense \notin gone}
          /\ e.transfers = OutsideGroup(d.transfers, r.group)
          /\ e.conversions = OutsideGroup(d.conversions, r.group)
      BY <1>3, <2>5 DEF GroupOutcome
    <3>3. \A X : InGroup(OutsideGroup(X, r.group), g) = InGroup(X, g)
      BY <2>2 DEF InGroup, OutsideGroup
    <3> HIDE DEF gone
    <3>4. /\ {x \in e.groups : x.id = g} = {x \in d.groups : x.id = g}
          /\ Same(e.members, d.members) /\ Same(e.currencies, d.currencies)
          /\ Same(e.expenses, d.expenses)
          /\ Same(e.transfers, d.transfers) /\ Same(e.conversions, d.conversions)
      BY <2>2, <3>2, <3>3
    <3>5. \A i \in IdsOf(InGroup(d.expenses, g)) :
              /\ {p \in e.payers : p.expense = i} = {p \in d.payers : p.expense = i}
              /\ {p \in e.beneficiaries : p.expense = i}
                     = {p \in d.beneficiaries : p.expense = i}
      BY <3>1, <3>2
    <3>6. ChangesOnly(d, e, Tables)
      BY DEF ChangesOnly
    <3> QED
      BY <1>2, <3>4, <3>5, <3>6
  <2>6. CASE r.op = "SetGroupArchived"
    <3>1. \A x \in d.groups : [x EXCEPT !.archived = r.on].id = x.id
      BY <1>1 DEF Database, GroupRow
    <3>2. /\ ChangesOnly(d, e, {"groups"})
          /\ {x \in e.groups : x.id = g} = {x \in d.groups : x.id = g}
      BY <1>3, <2>2, <2>6, <3>1 DEF GroupOutcome
    <3> QED
      BY <1>2, <3>2
  <2>7. CASE r.op \in {"AddUserToGroup", "RemoveUserFromGroup"}
    <3>1. ChangesOnly(d, e, {"members"})
      BY <1>3, <2>7 DEF GroupOutcome
    <3> DEFINE row == [group |-> r.group, user |-> r.user, weight |-> 1, pinned |-> FALSE]
    <3>2. \/ e.members = d.members \cup {row}
          \/ e.members = {x \in d.members : ~ (x.group = r.group /\ x.user = r.user)}
      BY <1>3, <2>7 DEF GroupOutcome
    <3>3. row.group # g
      BY <2>2
    <3> HIDE DEF row
    <3>4. Same(e.members, d.members)
      BY <2>2, <3>2, <3>3 DEF InGroup
    <3> QED
      BY <1>2, <3>1, <3>4
  <2>8. CASE r.op \in {"UpdateUserWeight", "SetGroupPinned"}
    <3>1. \A x \in d.members : /\ [x EXCEPT !.weight = r.weight].group = x.group
                               /\ [x EXCEPT !.pinned = r.on].group = x.group
      BY <1>1 DEF Database, MemberRow
    <3>2. ChangesOnly(d, e, {"members"})
      BY <1>3, <2>8 DEF GroupOutcome
    <3>3. CASE r.op = "UpdateUserWeight"
      <4>1. e.members = {IF x.group = r.group /\ x.user = r.user
                         THEN [x EXCEPT !.weight = r.weight] ELSE x : x \in d.members}
        BY <1>3, <3>3 DEF GroupOutcome
      <4>2. Same(e.members, d.members)
        <5>1. \A x \in d.members : x.group = g => x \in e.members
          BY <2>2, <3>1, <4>1
        <5>2. \A y \in e.members : y.group = g => y \in d.members
          BY <2>2, <3>1, <4>1
        <5> QED
          BY <1>a, <5>1, <5>2
      <4> QED
        BY <1>2, <3>2, <4>2
    <3>4. CASE r.op = "SetGroupPinned"
      <4>1. e.members = {IF x.group = r.group /\ x.user = r.by
                         THEN [x EXCEPT !.pinned = r.on] ELSE x : x \in d.members}
        BY <1>3, <3>4 DEF GroupOutcome
      <4>2. Same(e.members, d.members)
        <5>1. \A x \in d.members : x.group = g => x \in e.members
          BY <2>2, <3>1, <4>1
        <5>2. \A y \in e.members : y.group = g => y \in d.members
          BY <2>2, <3>1, <4>1
        <5> QED
          BY <1>a, <5>1, <5>2
      <4> QED
        BY <1>2, <3>2, <4>2
    <3> QED
      BY <2>8, <3>3, <3>4
  <2> QED
    BY <2>1, <2>3, <2>4, <2>5, <2>6, <2>7, <2>8
<1>4. CASE r \in EntryRequest /\ EntryOutcome(r, d, e)
  <2>1. ASSUME NEW x, NEW b, NEW c, WithExpense(x, b, c), g # x.group
        PROVE  RowsOf(c, g) = RowsOf(b, g)
    <3>1. ~ \E y \in b.expenses : y.id = x.id
      BY <2>1 DEF WithExpense, IdsOf
    <3>2. /\ ChangesOnly(b, c, {"expenses", "payers", "beneficiaries"})
          /\ Same(c.expenses, b.expenses)
      BY <2>1 DEF WithExpense, InGroup
    <3>3. \A i \in IdsOf(b.expenses) :
              /\ {p \in c.payers : p.expense = i} = {p \in b.payers : p.expense = i}
              /\ {p \in c.beneficiaries : p.expense = i}
                     = {p \in b.beneficiaries : p.expense = i}
      BY <2>1 DEF WithExpense
    <3>4. IdsOf(InGroup(b.expenses, g)) \subseteq IdsOf(b.expenses)
      BY DEF IdsOf, InGroup
    <3> QED
      BY <1>2, <3>2, <3>3, <3>4
  <2>2. ASSUME NEW x, NEW b, NEW c, WithConversion(x, b, c), g # x.group
        PROVE  RowsOf(c, g) = RowsOf(b, g)
    <3>1. ChangesOnly(b, c, {"conversions"}) /\ Same(c.conversions, b.conversions)
      BY <2>2 DEF WithConversion, InGroup
    <3> QED
      BY <1>2, <3>1
  <2>3. r.op \in {"BulkCreateExpenses", "CreateConversions"} =>
            r.first.group = r.group /\ r.second.group = r.group
    BY <1>4 DEF EntryRequest, RowRequest, ExpenseRequest, TransferRequest,
       ConversionRequest, TwoRequest
  <2>4. CASE r.op = "CreateExpense"
    BY <1>4, <2>1, <2>4 DEF EntryOutcome, Touched
  <2>5. CASE r.op = "BulkCreateExpenses"
    <3>1. PICK c : WithExpense(r.first, d, c) /\ WithExpense(r.second, c, e)
      BY <1>4, <2>5 DEF EntryOutcome
    <3>2. g # r.group
      BY <2>5 DEF Touched
    <3>3. RowsOf(c, g) = RowsOf(d, g)
      BY <2>1, <2>3, <2>5, <3>1, <3>2
    <3>4. RowsOf(e, g) = RowsOf(c, g)
      BY <2>1, <2>3, <2>5, <3>1, <3>2
    <3> QED
      BY <3>3, <3>4
  <2>6. CASE r.op = "CreateConversion"
    BY <1>4, <2>2, <2>6 DEF EntryOutcome, Touched
  <2>7. CASE r.op = "CreateConversions"
    <3>1. PICK c : WithConversion(r.first, d, c) /\ WithConversion(r.second, c, e)
      BY <1>4, <2>7 DEF EntryOutcome
    <3>2. g # r.group
      BY <2>7 DEF Touched
    <3>3. RowsOf(c, g) = RowsOf(d, g)
      BY <2>2, <2>3, <2>7, <3>1, <3>2
    <3>4. RowsOf(e, g) = RowsOf(c, g)
      BY <2>2, <2>3, <2>7, <3>1, <3>2
    <3> QED
      BY <3>3, <3>4
  <2>8. CASE r.op \in {"UpdateExpense", "DeleteExpense"}
    <3>1. \A x \in d.expenses : x.id = r.id => x.group # g
      BY <2>8 DEF Touched
    <3>2. \A i \in IdsOf(InGroup(d.expenses, g)) : i # r.id
      BY <3>1 DEF IdsOf, InGroup
    <3>3. /\ \A x \in d.expenses : [x EXCEPT !.currency = r.currency].group = x.group
          /\ \A x \in d.payers : [x EXCEPT !.user = r.payer].expense = x.expense
      BY <1>1 DEF Database, ExpenseRow, PartyRow
    <3>4. ChangesOnly(d, e, {"expenses", "payers", "beneficiaries"})
      BY <1>4, <2>8 DEF EntryOutcome
    <3>5. Same(e.expenses, d.expenses)
      BY <1>4, <2>8, <3>1, <3>3 DEF EntryOutcome, InGroup
    <3>6. \A i : i # r.id =>
              {p \in e.payers : p.expense = i} = {p \in d.payers : p.expense = i}
      BY <1>4, <2>8, <3>3 DEF EntryOutcome, OfOther
    <3>7. \A p : p.expense # r.id => (p \in e.beneficiaries <=> p \in d.beneficiaries)
      <4>1. \/ e.beneficiaries = OfOther(d.beneficiaries, r.id) \cup
                   {[expense |-> r.id, user |-> u] : u \in r.beneficiaries}
            \/ e.beneficiaries = OfOther(d.beneficiaries, r.id)
        BY <1>4, <2>8 DEF EntryOutcome
      <4> QED
        BY <4>1 DEF OfOther
    <3> QED
      BY <1>2, <3>2, <3>4, <3>5, <3>6, <3>7
  <2>9. CASE r.op = "CreateTransfer"
    <3>1. ChangesOnly(d, e, {"transfers"}) /\ Same(e.transfers, d.transfers)
      BY <1>4, <2>9 DEF EntryOutcome, InGroup, Touched
    <3> QED
      BY <1>2, <3>1
  <2>10. CASE r.op \in {"UpdateTransfer", "DeleteTransfer"}
    <3>1. \A x \in d.transfers : x.id = r.id => x.group # g
      BY <2>10 DEF Touched
    <3>2. \A x \in d.transfers :
              [x EXCEPT !.sender = r.sender, !.receiver = r.receiver].group = x.group
      BY <1>1 DEF Database, TransferRow
    <3>3. ChangesOnly(d, e, {"transfers"})
      BY <1>4, <2>10 DEF EntryOutcome
    <3>4. \/ e.transfers = {IF x.id = r.id
                            THEN [x EXCEPT !.sender = r.sender, !.receiver = r.receiver]
                            ELSE x : x \in d.transfers}
          \/ e.transfers = {x \in d.transfers : x.id # r.id}
      BY <1>4, <2>10 DEF EntryOutcome
    <3>5. Same(e.transfers, d.transfers)
      <4>1. \A x \in d.transfers : x.group = g => x \in e.transfers
        BY <3>1, <3>2, <3>4
      <4>2. ASSUME NEW y \in e.transfers, y.group = g
            PROVE  y \in d.transfers
        <5>1. CASE e.transfers = {x \in d.transfers : x.id # r.id}
          BY <4>2, <5>1
        <5>2. CASE e.transfers # {x \in d.transfers : x.id # r.id}
          <6>0. e.transfers = {IF x.id = r.id
                             THEN [x EXCEPT !.sender = r.sender, !.receiver = r.receiver]
                             ELSE x : x \in d.transfers}
            BY <3>4, <5>2
          <6>1. PICK x \in d.transfers :
                    y = IF x.id = r.id
                        THEN [x EXCEPT !.sender = r.sender, !.receiver = r.receiver] ELSE x
            BY <6>0
          <6>2. x.id # r.id
            BY <3>1, <3>2, <4>2, <6>1
          <6> QED
            BY <6>1, <6>2
        <5> QED
          BY <5>1, <5>2
      <4> QED
        BY <1>a, <4>1, <4>2
    <3> QED
      BY <1>2, <3>3, <3>5
  <2>11. CASE r.op \in {"UpdateConversion", "DeleteConversion"}
    <3>1. \A x \in d.conversions : x.id = r.id => x.group # g
      BY <2>11 DEF Touched
    <3>2. \A x \in d.conversions : [x EXCEPT !.from = r.from, !.to = r.to].group = x.group
      BY <1>1 DEF Database, ConversionRow
    <3>3. ChangesOnly(d, e, {"conversions"})
      BY <1>4, <2>11 DEF EntryOutcome
    <3>4. \/ e.conversions = {IF x.id = r.id THEN [x EXCEPT !.from = r.from, !.to = r.to]
                              ELSE x : x \in d.conversions}
          \/ e.conversions = {x \in d.conversions : x.id # r.id}
      BY <1>4, <2>11 DEF EntryOutcome
    <3>5. Same(e.conversions, d.conversions)
      <4>1. \A x \in d.conversions : x.group = g => x \in e.conversions
        BY <3>1, <3>2, <3>4
      <4>2. ASSUME NEW y \in e.conversions, y.group = g
            PROVE  y \in d.conversions
        <5>1. CASE e.conversions = {x \in d.conversions : x.id # r.id}
          BY <4>2, <5>1
        <5>2. CASE e.conversions # {x \in d.conversions : x.id # r.id}
          <6>0. e.conversions = {IF x.id = r.id THEN [x EXCEPT !.from = r.from, !.to = r.to]
                               ELSE x : x \in d.conversions}
            BY <3>4, <5>2
          <6>1. PICK x \in d.conversions :
                    y = IF x.id = r.id THEN [x EXCEPT !.from = r.from, !.to = r.to] ELSE x
            BY <6>0
          <6>2. x.id # r.id
            BY <3>1, <3>2, <4>2, <6>1
          <6> QED
            BY <6>1, <6>2
        <5> QED
          BY <5>1, <5>2
      <4> QED
        BY <1>a, <4>1, <4>2
    <3> QED
      BY <1>2, <3>3, <3>5
  <2> QED
    BY <1>4, <2>4, <2>5, <2>6, <2>7, <2>8, <2>9, <2>10, <2>11
       DEF EntryRequest, RowRequest, ExpenseRequest, TransferRequest, ConversionRequest,
       TwoRequest
<1> QED
  BY <1>3, <1>4 DEF Outcome

\* Carried out as a whole, every request leaves each expense with one payer and each
\* group with its default currency among its currencies.
LEMMA TablesStayComplete ==
    ASSUME NEW r, NEW d, Consistent(d), OnePayer(d), DefaultListed(d),
           NEW e \in Database, Outcome(r, d, e),
           r.op = "UpdateGroup" => r.default \in r.currencies
    PROVE  OnePayer(e) /\ DefaultListed(e)
<1>1. d \in Database
  BY DEF Consistent
<1>2. ASSUME NEW b, NEW c, NEW T, ChangesOnly(b, c, T),
             "expenses" \notin T, "payers" \notin T, OnePayer(b)
      PROVE  OnePayer(c)
  BY <1>2 DEF ChangesOnly, Tables, OnePayer
<1>3. ASSUME NEW b, NEW c, NEW T, ChangesOnly(b, c, T),
             "groups" \notin T, "currencies" \notin T, DefaultListed(b)
      PROVE  DefaultListed(c)
  <2>1. c.groups = b.groups /\ c.currencies = b.currencies
    BY <1>3 DEF ChangesOnly, Tables
  <2> QED
    BY <1>3, <2>1 DEF DefaultListed
<1>4. CASE r \in GroupRequest /\ r.op # "GetBalance" /\ GroupOutcome(r, d, e)
  <2>1. CASE r.op = "CreateExpenseGroup"
    <3> DEFINE row == [id |-> r.group, creator |-> r.user, default |-> r.default,
                       archived |-> FALSE]
    <3>1. /\ ChangesOnly(d, e, {"groups", "members", "currencies"})
          /\ e.groups = d.groups \cup {row} /\ r.default \in r.currencies
          /\ e.currencies = d.currencies \cup
                 {[group |-> r.group, currency |-> c] : c \in r.currencies}
      BY <1>4, <2>1 DEF GroupOutcome
    <3>2. row.id = r.group /\ row.default = r.default
      OBVIOUS
    <3> HIDE DEF row
    <3>3. DefaultListed(e)
      BY <3>1, <3>2 DEF DefaultListed
    <3> QED
      BY <1>2, <3>1, <3>3
  <2>2. CASE r.op = "UpdateGroup"
    <3>1. \A x \in d.groups : /\ [x EXCEPT !.default = r.default].id = x.id
                              /\ [x EXCEPT !.default = r.default].default = r.default
      BY <1>1 DEF Database, GroupRow
    <3>2. ChangesOnly(d, e, {"groups", "currencies"})
      BY <1>4, <2>2 DEF GroupOutcome
    <3>3. /\ e.groups = {IF x.id = r.group THEN [x EXCEPT !.default = r.default] ELSE x :
                             x \in d.groups}
          /\ e.currencies = OutsideGroup(d.currencies, r.group) \cup
                 {[group |-> r.group, currency |-> c] : c \in r.currencies}
      BY <1>4, <2>2 DEF GroupOutcome
    <3>4. ASSUME NEW x \in e.groups
          PROVE  [group |-> x.id, currency |-> x.default] \in e.currencies
      <4>1. PICK y \in d.groups :
                x = IF y.id = r.group THEN [y EXCEPT !.default = r.default] ELSE y
        BY <3>3
      <4>2. CASE y.id = r.group
        BY <2>2, <3>1, <3>3, <4>1, <4>2
      <4>3. CASE y.id # r.group
        <5>1. [group |-> y.id, currency |-> y.default] \in d.currencies
          BY DEF DefaultListed
        <5> QED
          BY <3>3, <4>1, <4>3, <5>1 DEF OutsideGroup
      <4> QED
        BY <4>2, <4>3
    <3>5. DefaultListed(e)
      BY <3>4 DEF DefaultListed
    <3> QED
      BY <1>2, <3>2, <3>5
  <2>3. CASE r.op = "DeleteGroup"
    <3> DEFINE gone == IdsOf(InGroup(d.expenses, r.group))
    <3>1. /\ e.groups = {x \in d.groups : x.id # r.group}
          /\ e.currencies = OutsideGroup(d.currencies, r.group)
          /\ e.expenses = OutsideGroup(d.expenses, r.group)
          /\ e.payers = {x \in d.payers : x.expense \notin gone}
      BY <1>4, <2>3 DEF GroupOutcome
    <3>2. \A x \in e.expenses : x.id \notin gone
      BY <3>1 DEF Consistent, KeysUnique, IdsOf, InGroup, OutsideGroup
    <3> HIDE DEF gone
    <3>3. OnePayer(e)
      BY <3>1, <3>2 DEF OnePayer, OutsideGroup
    <3>4. DefaultListed(e)
      BY <3>1 DEF DefaultListed, OutsideGroup
    <3> QED
      BY <3>3, <3>4
  <2>4. CASE r.op = "SetGroupArchived"
    <3>1. \A x \in d.groups : /\ [x EXCEPT !.archived = r.on].id = x.id
                              /\ [x EXCEPT !.archived = r.on].default = x.default
      BY <1>1 DEF Database, GroupRow
    <3>2. /\ ChangesOnly(d, e, {"groups"})
          /\ e.groups = {IF x.id = r.group THEN [x EXCEPT !.archived = r.on] ELSE x :
                             x \in d.groups}
      BY <1>4, <2>4 DEF GroupOutcome
    <3>3. e.currencies = d.currencies
      BY <3>2 DEF ChangesOnly, Tables
    <3>4. DefaultListed(e)
      BY <3>1, <3>2, <3>3 DEF DefaultListed
    <3> QED
      BY <1>2, <3>2, <3>4
  <2>5. CASE r.op \in {"AddUserToGroup", "RemoveUserFromGroup", "UpdateUserWeight",
                       "SetGroupPinned"}
    <3>1. ChangesOnly(d, e, {"members"})
      BY <1>4, <2>5 DEF GroupOutcome
    <3> QED
      BY <1>2, <1>3, <3>1
  <2> QED
    BY <1>4, <2>1, <2>2, <2>3, <2>4, <2>5 DEF GroupRequest
<1>5. CASE r \in EntryRequest /\ EntryOutcome(r, d, e)
  <2>1. ASSUME NEW x, NEW b, NEW c, NoOrphans(b), OnePayer(b), DefaultListed(b),
               WithExpense(x, b, c)
        PROVE  OnePayer(c) /\ DefaultListed(c)
    <3> DEFINE expense == [id |-> x.id, group |-> x.group, currency |-> x.currency]
               payer == [expense |-> x.id, user |-> x.payer]
    <3>1. /\ ChangesOnly(b, c, {"expenses", "payers", "beneficiaries"})
          /\ c.expenses = b.expenses \cup {expense} /\ c.payers = b.payers \cup {payer}
          /\ \A y \in b.expenses : y.id # x.id
      BY <2>1 DEF WithExpense, IdsOf
    <3>2. \A p \in b.payers : p.expense # x.id
      BY <2>1, <3>1 DEF NoOrphans, IdsOf
    <3>3. expense.id = x.id /\ payer.expense = x.id
      OBVIOUS
    <3> HIDE DEF expense, payer
    <3>4. OnePayer(c)
      BY <2>1, <3>1, <3>2, <3>3 DEF OnePayer
    <3> QED
      BY <1>3, <2>1, <3>1, <3>4
  <2>2. CASE r.op = "CreateExpense"
    BY <1>5, <2>1, <2>2 DEF EntryOutcome, Consistent
  <2>3. CASE r.op = "BulkCreateExpenses"
    <3>1. PICK c : /\ Consistent(c)
                   /\ WithExpense(r.first, d, c) /\ WithExpense(r.second, c, e)
      BY <1>5, <2>3 DEF EntryOutcome
    <3>2. OnePayer(c) /\ DefaultListed(c)
      BY <2>1, <3>1 DEF Consistent
    <3> QED
      BY <2>1, <3>1, <3>2 DEF Consistent
  <2>4. CASE r.op = "UpdateExpense"
    <3> DEFINE paid(p) == IF p.expense = r.id THEN [p EXCEPT !.user = r.payer] ELSE p
    <3>1. /\ \A x \in d.expenses : [x EXCEPT !.currency = r.currency].id = x.id
          /\ \A p \in d.payers : paid(p).expense = p.expense
      BY <1>1 DEF Database, ExpenseRow, PartyRow
    <3>2. ChangesOnly(d, e, {"expenses", "payers", "beneficiaries"})
      BY <1>5, <2>4 DEF EntryOutcome
    <3>3. /\ e.expenses = {IF x.id = r.id THEN [x EXCEPT !.currency = r.currency] ELSE x :
                               x \in d.expenses}
          /\ e.payers = {paid(p) : p \in d.payers}
      BY <1>5, <2>4 DEF EntryOutcome
    <3> HIDE DEF paid
    <3>4. \A x \in e.expenses : \E y \in d.expenses : y.id = x.id
      BY <3>1, <3>3
    <3>5. OnePayer(e)
      BY <3>1, <3>3, <3>4 DEF OnePayer
    <3> QED
      BY <1>3, <3>2, <3>5
  <2>5. CASE r.op = "DeleteExpense"
    <3>1. /\ ChangesOnly(d, e, {"expenses", "payers", "beneficiaries"})
          /\ e.expenses = {x \in d.expenses : x.id # r.id}
          /\ e.payers = OfOther(d.payers, r.id)
      BY <1>5, <2>5 DEF EntryOutcome
    <3>2. OnePayer(e)
      BY <3>1 DEF OnePayer, OfOther
    <3> QED
      BY <1>3, <3>1, <3>2
  <2>6. CASE r.op \in {"CreateTransfer", "UpdateTransfer", "DeleteTransfer"}
    <3>1. ChangesOnly(d, e, {"transfers"})
      BY <1>5, <2>6 DEF EntryOutcome
    <3> QED
      BY <1>2, <1>3, <3>1
  <2>7. CASE r.op \in {"CreateConversion", "UpdateConversion", "DeleteConversion"}
    <3>1. ChangesOnly(d, e, {"conversions"})
      BY <1>5, <2>7 DEF EntryOutcome, WithConversion
    <3> QED
      BY <1>2, <1>3, <3>1
  <2>8. CASE r.op = "CreateConversions"
    <3>1. PICK c : /\ ChangesOnly(d, c, {"conversions"})
                   /\ ChangesOnly(c, e, {"conversions"})
      BY <1>5, <2>8 DEF EntryOutcome, WithConversion
    <3>2. OnePayer(c) /\ DefaultListed(c)
      BY <1>2, <1>3, <3>1
    <3> QED
      BY <1>2, <1>3, <3>1, <3>2
  <2> QED
    BY <1>5, <2>2, <2>3, <2>4, <2>5, <2>6, <2>7, <2>8
       DEF EntryRequest, RowRequest, ExpenseRequest, TransferRequest, ConversionRequest,
       TwoRequest
<1> QED
  BY <1>4, <1>5 DEF Outcome

\* An entry is new, with a new id of the request, or it stays in its group; and only
\* requests about transfers make transfers what they were not.
LEMMA EntriesStayHome ==
    ASSUME NEW r, NEW d, Consistent(d), NEW e \in Database, Outcome(r, d, e)
    PROVE  /\ \A x \in e.expenses : x.id \in NewIds(r)
                  \/ \E y \in d.expenses : y.id = x.id /\ y.group = x.group
           /\ \A x \in e.transfers : x.id \in NewIds(r)
                  \/ \E y \in d.transfers : y.id = x.id /\ y.group = x.group
           /\ \A x \in e.conversions : x.id \in NewIds(r)
                  \/ \E y \in d.conversions : y.id = x.id /\ y.group = x.group
           /\ \A x \in e.transfers \ d.transfers :
                  /\ r.op \in {"CreateTransfer", "UpdateTransfer"}
                  /\ x.sender = r.sender /\ x.receiver = r.receiver
<1> DEFINE Home(S, T) == \A x \in S : x.id \in NewIds(r)
                             \/ \E y \in T : y.id = x.id /\ y.group = x.group
<1>1. d \in Database
  BY DEF Consistent
<1>2. SUFFICES /\ Home(e.expenses, d.expenses) /\ Home(e.transfers, d.transfers)
               /\ Home(e.conversions, d.conversions)
               /\ \A x \in e.transfers \ d.transfers :
                      /\ r.op \in {"CreateTransfer", "UpdateTransfer"}
                      /\ x.sender = r.sender /\ x.receiver = r.receiver
  OBVIOUS
<1>3. \A S, T : S \subseteq T => Home(S, T)
  OBVIOUS
<1>4. CASE r \in GroupRequest /\ r.op # "GetBalance" /\ GroupOutcome(r, d, e)
  <2>1. /\ e.expenses \subseteq d.expenses /\ e.transfers \subseteq d.transfers
        /\ e.conversions \subseteq d.conversions
    <3>1. CASE r.op = "DeleteGroup"
      BY <1>4, <3>1 DEF GroupOutcome, OutsideGroup
    <3>2. CASE r.op # "DeleteGroup"
      <4>1. ChangesOnly(d, e, {"groups", "members", "currencies"})
        BY <1>4, <3>2 DEF GroupOutcome, ChangesOnly, GroupRequest
      <4> QED
        BY <4>1 DEF ChangesOnly, Tables
    <3> QED
      BY <3>1, <3>2
  <2> QED
    BY <1>3, <2>1
<1>5. CASE r \in EntryRequest /\ EntryOutcome(r, d, e)
  <2>1. ASSUME NEW T, ChangesOnly(d, e, T), "transfers" \notin T
        PROVE  e.transfers = d.transfers
    BY <2>1 DEF ChangesOnly, Tables
  <2>2. ASSUME NEW T, ChangesOnly(d, e, T), "conversions" \notin T
        PROVE  e.conversions = d.conversions
    BY <2>2 DEF ChangesOnly, Tables
  <2>3. ASSUME NEW T, ChangesOnly(d, e, T), "expenses" \notin T
        PROVE  e.expenses = d.expenses
    BY <2>3 DEF ChangesOnly, Tables
  <2>4. CASE r.op = "CreateExpense"
    <3> DEFINE new == [id |-> r.id, group |-> r.group, currency |-> r.currency]
    <3>1. /\ ChangesOnly(d, e, {"expenses", "payers", "beneficiaries"})
          /\ e.expenses = d.expenses \cup {new}
      BY <1>5, <2>4 DEF EntryOutcome, WithExpense
    <3>2. new.id \in NewIds(r)
      BY <2>4 DEF NewIds
    <3> HIDE DEF new
    <3> QED
      BY <1>3, <2>1, <2>2, <3>1, <3>2
  <2>5. CASE r.op = "BulkCreateExpenses"
    <3> DEFINE new(x) == [id |-> x.id, group |-> x.group, currency |-> x.currency]
    <3>1. /\ ChangesOnly(d, e, {"expenses", "payers", "beneficiaries"})
          /\ e.expenses = d.expenses \cup {new(r.first), new(r.second)}
      BY <1>5, <2>5 DEF EntryOutcome, WithExpense, ChangesOnly
    <3>2. new(r.first).id \in NewIds(r) /\ new(r.second).id \in NewIds(r)
      BY <2>5 DEF NewIds
    <3> HIDE DEF new
    <3> QED
      BY <1>3, <2>1, <2>2, <3>1, <3>2
  <2>6. CASE r.op \in {"UpdateExpense", "DeleteExpense"}
    <3> DEFINE up(x) == IF x.id = r.id THEN [x EXCEPT !.currency = r.currency] ELSE x
    <3>1. ChangesOnly(d, e, {"expenses", "payers", "beneficiaries"})
      BY <1>5, <2>6 DEF EntryOutcome
    <3>2. \A x \in d.expenses : up(x).group = x.group /\ up(x).id = x.id
      BY <1>1 DEF Database, ExpenseRow
    <3>3. \/ e.expenses = {up(x) : x \in d.expenses}
          \/ e.expenses = {x \in d.expenses : x.id # r.id}
      BY <1>5, <2>6 DEF EntryOutcome
    <3> HIDE DEF up
    <3>4. Home(e.expenses, d.expenses)
      BY <3>2, <3>3
    <3> QED
      BY <1>3, <2>1, <2>2, <3>1, <3>4
  <2>7. CASE r.op = "CreateTransfer"
    <3> DEFINE new == [id |-> r.id, group |-> r.group, sender |-> r.sender,
                       receiver |-> r.receiver]
    <3>1. ChangesOnly(d, e, {"transfers"}) /\ e.transfers = d.transfers \cup {new}
      BY <1>5, <2>7 DEF EntryOutcome
    <3>2. new.id \in NewIds(r) /\ new.sender = r.sender /\ new.receiver = r.receiver
      BY <2>7 DEF NewIds
    <3> HIDE DEF new
    <3> QED
      BY <1>3, <2>2, <2>3, <2>7, <3>1, <3>2
  <2>8. CASE r.op = "UpdateTransfer"
    <3> DEFINE up(x) == IF x.id = r.id
                        THEN [x EXCEPT !.sender = r.sender, !.receiver = r.receiver] ELSE x
    <3>1. ChangesOnly(d, e, {"transfers"}) /\ e.transfers = {up(x) : x \in d.transfers}
      BY <1>5, <2>8 DEF EntryOutcome
    <3>2. \A x \in d.transfers :
              /\ up(x).id = x.id /\ up(x).group = x.group
              /\ up(x) # x => up(x).sender = r.sender /\ up(x).receiver = r.receiver
      BY <1>1 DEF Database, TransferRow
    <3> HIDE DEF up
    <3>3. Home(e.transfers, d.transfers)
      BY <3>1, <3>2
    <3>4. \A x \in e.transfers \ d.transfers : x.sender = r.sender /\ x.receiver = r.receiver
      BY <3>1, <3>2
    <3> QED
      BY <1>3, <2>2, <2>3, <2>8, <3>1, <3>3, <3>4
  <2>9. CASE r.op = "DeleteTransfer"
    <3>1. ChangesOnly(d, e, {"transfers"}) /\ e.transfers \subseteq d.transfers
      BY <1>5, <2>9 DEF EntryOutcome
    <3> QED
      BY <1>3, <2>2, <2>3, <3>1
  <2>10. CASE r.op \in {"CreateConversion", "CreateConversions"}
    <3> DEFINE new(x) == [id |-> x.id, group |-> x.group, from |-> x.from, to |-> x.to]
    <3>1. ChangesOnly(d, e, {"conversions"})
      <4>1. CASE r.op = "CreateConversion"
        BY <1>5, <4>1 DEF EntryOutcome, WithConversion
      <4>2. CASE r.op = "CreateConversions"
        BY <1>5, <4>2 DEF EntryOutcome, WithConversion, ChangesOnly
      <4> QED
        BY <2>10, <4>1, <4>2
    <3>2. e.conversions = IF r.op = "CreateConversion" THEN d.conversions \cup {new(r)}
                          ELSE d.conversions \cup {new(r.first), new(r.second)}
      BY <1>5, <2>10 DEF EntryOutcome, WithConversion
    <3>3. IF r.op = "CreateConversion" THEN new(r).id \in NewIds(r)
          ELSE new(r.first).id \in NewIds(r) /\ new(r.second).id \in NewIds(r)
      BY <2>10 DEF NewIds
    <3> HIDE DEF new
    <3>4. Home(e.conversions, d.conversions)
      BY <3>2, <3>3
    <3> QED
      BY <1>3, <2>1, <2>3, <3>1, <3>4
  <2>11. CASE r.op \in {"UpdateConversion", "DeleteConversion"}
    <3> DEFINE up(x) == IF x.id = r.id THEN [x EXCEPT !.from = r.from, !.to = r.to] ELSE x
    <3>1. ChangesOnly(d, e, {"conversions"})
      BY <1>5, <2>11 DEF EntryOutcome
    <3>2. \A x \in d.conversions : up(x).group = x.group /\ up(x).id = x.id
      BY <1>1 DEF Database, ConversionRow
    <3>3. \/ e.conversions = {up(x) : x \in d.conversions}
          \/ e.conversions = {x \in d.conversions : x.id # r.id}
      BY <1>5, <2>11 DEF EntryOutcome
    <3> HIDE DEF up
    <3>4. Home(e.conversions, d.conversions)
      BY <3>2, <3>3
    <3> QED
      BY <1>3, <2>1, <2>3, <3>1, <3>4
  <2> QED
    BY <1>5, <2>4, <2>5, <2>6, <2>7, <2>8, <2>9, <2>10, <2>11
       DEF EntryRequest, RowRequest, ExpenseRequest, TransferRequest, ConversionRequest,
       TwoRequest
<1> QED
  BY <1>4, <1>5 DEF Outcome

----------------------------------------------------------------------------
\* The inductive invariant

\* The ids of the entries of d.
EntryIds(d) == IdsOf(d.expenses) \cup IdsOf(d.transfers) \cup IdsOf(d.conversions)

\* The entry that a request to change or delete one names.
NamedIds(r) ==
    IF r.op \in {"UpdateExpense", "DeleteExpense", "UpdateTransfer", "DeleteTransfer",
                 "UpdateConversion", "DeleteConversion"}
    THEN {r.id} ELSE {}

\* An id comes into use once: entries have ids that were issued, a request in flight
\* keeps its new ids to itself, and the row it names can only be one of its group.
IdsUsedOnce ==
    /\ EntryIds(db) \subseteq issued
    /\ \A t \in Threads : Busy(t) =>
           /\ NewIds(thr[t].req) \cup NamedIds(thr[t].req) \subseteq issued
           /\ NewIds(thr[t].req) \cap EntryIds(db) = {}
           /\ Touched(thr[t].req, db) \subseteq {thr[t].req.group}
    /\ \A t, u \in Threads : Busy(t) /\ Busy(u) /\ t # u =>
           NewIds(thr[t].req) \cap (NewIds(thr[u].req) \cup NamedIds(thr[u].req)) = {}

\* What a check that passed says for good: of the history of the request, since what
\* it saw in the database may have changed.
Established(c, history) ==
    /\ c.check = "NotArchived" => c.group \notin history.frozen
    /\ c.check = "Member" => c.user \in history.met
    /\ c.check = "Valid" => c.holds

Handled(t) == At(t, "checking") \/ At(t, "writing")

HistoryRecorded ==
    /\ since \in [Threads -> [frozen : SUBSET Groups, met : SUBSET Users]]
    /\ \A t \in Threads : Busy(t) =>
           /\ since[t].frozen \subseteq ArchivedGroups(db)
           /\ MembersOf(db, thr[t].req.group) \subseteq since[t].met
    /\ \A t \in Threads : Handled(t) =>
           \A k \in 1 .. Len(Handler(thr[t].req).checks) :
               At(t, "writing") \/ k < thr[t].step =>
                   Established(Handler(thr[t].req).checks[k], since[t])

\* The staged tables are the committed ones after the statements run so far.
StagedFromCommitted ==
    \A t \in Threads : At(t, "writing") =>
        LET sql == Handler(thr[t].req).sql
        IN  /\ thr[t].step - 1 <= Len(sql)
            /\ Reaches(sql, thr[t].step - 1, db, staged)

WInv ==
    /\ IInv
    /\ OnePayer(db) /\ DefaultListed(db)
    /\ IdsUsedOnce /\ HistoryRecorded /\ StagedFromCommitted

\* A step that changes nothing that others see: a request may go on, or end.
Quiet ==
    /\ UNCHANGED <<db, issued>>
    /\ \A u \in Threads : Busy(u)' =>
           Busy(u) /\ thr'[u].req = thr[u].req /\ since'[u] = since[u]

\* A step that ends thread t's request by carrying it out, all checks passed.
CarriesOut(t) ==
    /\ Handled(t) /\ ~ Busy(t)'
    /\ Outcome(thr[t].req, db, db')
    /\ \A k \in 1 .. Len(Handler(thr[t].req).checks) :
           Established(Handler(thr[t].req).checks[k], since[t])
    /\ UNCHANGED issued
    /\ \A u \in Threads \ {t} :
           /\ thr'[u] = thr[u]
           /\ Busy(u) =>
                  since'[u] = [frozen |-> since[u].frozen \cap ArchivedGroups(db'),
                               met |-> since[u].met \cup MembersOf(db', thr[u].req.group)]

\* What the checks a request has passed tell of it, given its history.
Vetted(r, h) ==
    /\ r.op \notin {"CreateExpenseGroup", "DeleteGroup", "SetGroupArchived"} =>
           r.group \notin h.frozen
    /\ r.op = "UpdateGroup" => r.default \in r.currencies
    /\ r.op \in {"CreateTransfer", "UpdateTransfer"} =>
           r.sender # r.receiver /\ {r.sender, r.receiver} \subseteq h.met
    /\ r.op \in {"CreateConversion", "UpdateConversion"} => r.from # r.to
    /\ r.op = "CreateConversions" =>
           r.first.from # r.first.to /\ r.second.from # r.second.to

\* What the checks of a handler say of the request once they all have passed; and a
\* handler without a transaction runs one statement.
LEMMA ChecksEstablish ==
    ASSUME NEW r \in GroupRequest \cup EntryRequest, r.op # "GetBalance"
    PROVE  /\ Len(Handler(r).checks) \in Nat
           /\ ~ Handler(r).tx => Len(Handler(r).sql) = 1
           /\ \A k \in 1 .. Len(Handler(r).checks) :
                  Handler(r).checks[k].check = "Member" =>
                      Handler(r).checks[k].group = r.group
           /\ \A h : (\A k \in 1 .. Len(Handler(r).checks) :
                         Established(Handler(r).checks[k], h)) => Vetted(r, h)
<1> DEFINE checks == Handler(r).checks
           Passed(h) == \A k \in 1 .. Len(checks) : Established(checks[k], h)
<1>1. \A h : Established(NotArchived(r), h) => r.group \notin h.frozen
  BY DEF Established, NotArchived
<1>2. \A h, u : Established(Member(r, u), h) => u \in h.met
  BY DEF Established, Member
<1>3. \A u : Member(r, u).group = r.group
  BY DEF Member
<1>4. \A p : /\ NotArchived(r).check # "Member" /\ NotMember(r).check # "Member"
             /\ TransferExists(r).check # "Member" /\ Creator(r).check # "Member"
             /\ CreatorOrAdmin(r).check # "Member" /\ Valid(p).check # "Member"
  BY DEF NotArchived, NotMember, TransferExists, Creator, CreatorOrAdmin, Valid
<1>5. CASE r.op = "CreateExpenseGroup"
  <2>1. checks = <<>>
        /\ (~ Handler(r).tx => Len(Handler(r).sql) = 1)
    BY <1>5 DEF Handler, HandleCreateExpenseGroup, InTx
  <2>2. Len(checks) = 0
    BY <2>1
  <2> HIDE DEF checks
  <2> QED
    BY <1>5, <2>1, <2>2 DEF checks, Vetted
<1>6. CASE r.op = "DeleteGroup"
  <2>1. checks = <<Creator(r)>>
        /\ (~ Handler(r).tx => Len(Handler(r).sql) = 1)
    BY <1>6 DEF Handler, HandleDeleteGroup, Direct
  <2>2. /\ Len(checks) = 1
        /\ checks[1] = Creator(r)
    BY <2>1
  <2> HIDE DEF checks
  <2>3. \A h : Passed(h) =>
            Established(Creator(r), h)
    <3>1. \A h : Passed(h) =>
              Established(checks[1], h)
      BY <2>2
    <3> QED
      BY <2>2, <3>1, Zenon
  <2>5. \A k \in 1 .. Len(checks) : checks[k].check = "Member" => checks[k].group = r.group
    BY <1>3, <1>4, <2>2
  <2>6. Len(checks) \in Nat
    BY <2>2
  <2>7. ASSUME NEW h, Passed(h)
        PROVE  Vetted(r, h)
    <3>1. Established(Creator(r), h)
      BY <2>3, <2>7
    <3> QED
      BY <1>6 DEF Vetted
  <2> QED
    BY <2>1, <2>5, <2>6, <2>7 DEF checks
<1>7. CASE r.op = "SetGroupArchived"
  <2>1. checks = <<CreatorOrAdmin(r)>>
        /\ (~ Handler(r).tx => Len(Handler(r).sql) = 1)
    BY <1>7 DEF Handler, HandleSetGroupArchived, Direct
  <2>2. /\ Len(checks) = 1
        /\ checks[1] = CreatorOrAdmin(r)
    BY <2>1
  <2> HIDE DEF checks
  <2>3. \A h : Passed(h) =>
            Established(CreatorOrAdmin(r), h)
    <3>1. \A h : Passed(h) =>
              Established(checks[1], h)
      BY <2>2
    <3> QED
      BY <2>2, <3>1, Zenon
  <2>5. \A k \in 1 .. Len(checks) : checks[k].check = "Member" => checks[k].group = r.group
    BY <1>3, <1>4, <2>2
  <2>6. Len(checks) \in Nat
    BY <2>2
  <2>7. ASSUME NEW h, Passed(h)
        PROVE  Vetted(r, h)
    <3>1. Established(CreatorOrAdmin(r), h)
      BY <2>3, <2>7
    <3> QED
      BY <1>7 DEF Vetted
  <2> QED
    BY <2>1, <2>5, <2>6, <2>7 DEF checks
<1>8. CASE r.op = "AddUserToGroup"
  <2>1. checks = <<NotMember(r), NotArchived(r)>>
        /\ (~ Handler(r).tx => Len(Handler(r).sql) = 1)
    BY <1>8 DEF Handler, HandleAddUserToGroup, Direct
  <2>2. /\ Len(checks) = 2
        /\ checks[1] = NotMember(r)
        /\ checks[2] = NotArchived(r)
    BY <2>1
  <2> HIDE DEF checks
  <2>3. \A h : Passed(h) =>
            /\ Established(NotMember(r), h)
            /\ Established(NotArchived(r), h)
    <3>1. \A h : Passed(h) =>
              /\ Established(checks[1], h)
              /\ Established(checks[2], h)
      BY <2>2
    <3> QED
      BY <2>2, <3>1, Zenon
  <2>5. \A k \in 1 .. Len(checks) : checks[k].check = "Member" => checks[k].group = r.group
    BY <1>3, <1>4, <2>2
  <2>6. Len(checks) \in Nat
    BY <2>2
  <2>7. ASSUME NEW h, Passed(h)
        PROVE  Vetted(r, h)
    <3>1. /\ Established(NotMember(r), h)
          /\ Established(NotArchived(r), h)
      BY <2>3, <2>7
    <3>2. r.group \notin h.frozen
      BY <1>1, <1>2, <3>1
    <3> QED
      BY <1>8, <3>2 DEF Vetted
  <2> QED
    BY <2>1, <2>5, <2>6, <2>7 DEF checks
<1>9. CASE r.op \in {"CreateExpense", "BulkCreateExpenses", "UpdateExpense"}
  <2>1. checks = <<NotArchived(r)>>
        /\ (~ Handler(r).tx => Len(Handler(r).sql) = 1)
    BY <1>9 DEF Handler, HandleCreateExpense, HandleBulkCreateExpenses,
       HandleUpdateExpense, InTx
  <2>2. /\ Len(checks) = 1
        /\ checks[1] = NotArchived(r)
    BY <2>1
  <2> HIDE DEF checks
  <2>3. \A h : Passed(h) =>
            Established(NotArchived(r), h)
    <3>1. \A h : Passed(h) =>
              Established(checks[1], h)
      BY <2>2
    <3> QED
      BY <2>2, <3>1, Zenon
  <2>5. \A k \in 1 .. Len(checks) : checks[k].check = "Member" => checks[k].group = r.group
    BY <1>3, <1>4, <2>2
  <2>6. Len(checks) \in Nat
    BY <2>2
  <2>7. ASSUME NEW h, Passed(h)
        PROVE  Vetted(r, h)
    <3>1. Established(NotArchived(r), h)
      BY <2>3, <2>7
    <3>2. r.group \notin h.frozen
      BY <1>1, <1>2, <3>1
    <3> QED
      BY <1>9, <3>2 DEF Vetted
  <2> QED
    BY <2>1, <2>5, <2>6, <2>7 DEF checks
<1>10. CASE r.op \in {"RemoveUserFromGroup", "SetGroupPinned", "DeleteExpense",
                      "DeleteTransfer", "DeleteConversion"}
  <2>1. checks = <<NotArchived(r)>>
        /\ (~ Handler(r).tx => Len(Handler(r).sql) = 1)
    BY <1>10 DEF Handler, HandleRemoveUserFromGroup, HandleSetGroupPinned,
       HandleDeleteExpense, HandleDeleteTransfer, HandleDeleteConversion, Direct
  <2>2. /\ Len(checks) = 1
        /\ checks[1] = NotArchived(r)
    BY <2>1
  <2> HIDE DEF checks
  <2>3. \A h : Passed(h) =>
            Established(NotArchived(r), h)
    <3>1. \A h : Passed(h) =>
              Established(checks[1], h)
      BY <2>2
    <3> QED
      BY <2>2, <3>1, Zenon
  <2>5. \A k \in 1 .. Len(checks) : checks[k].check = "Member" => checks[k].group = r.group
    BY <1>3, <1>4, <2>2
  <2>6. Len(checks) \in Nat
    BY <2>2
  <2>7. ASSUME NEW h, Passed(h)
        PROVE  Vetted(r, h)
    <3>1. Established(NotArchived(r), h)
      BY <2>3, <2>7
    <3>2. r.group \notin h.frozen
      BY <1>1, <1>2, <3>1
    <3> QED
      BY <1>10, <3>2 DEF Vetted
  <2> QED
    BY <2>1, <2>5, <2>6, <2>7 DEF checks
<1>11. CASE r.op = "UpdateUserWeight"
  <2>1. checks = <<NotArchived(r), Member(r, r.user)>>
        /\ (~ Handler(r).tx => Len(Handler(r).sql) = 1)
    BY <1>11 DEF Handler, HandleUpdateUserWeight, Direct
  <2>2. /\ Len(checks) = 2
        /\ checks[1] = NotArchived(r)
        /\ checks[2] = Member(r, r.user)
    BY <2>1
  <2> HIDE DEF checks
  <2>3. \A h : Passed(h) =>
            /\ Established(NotArchived(r), h)
            /\ Established(Member(r, r.user), h)
    <3>1. \A h : Passed(h) =>
              /\ Established(checks[1], h)
              /\ Established(checks[2], h)
      BY <2>2
    <3> QED
      BY <2>2, <3>1, Zenon
  <2>5. \A k \in 1 .. Len(checks) : checks[k].check = "Member" => checks[k].group = r.group
    BY <1>3, <1>4, <2>2
  <2>6. Len(checks) \in Nat
    BY <2>2
  <2>7. ASSUME NEW h, Passed(h)
        PROVE  Vetted(r, h)
    <3>1. /\ Established(NotArchived(r), h)
          /\ Established(Member(r, r.user), h)
      BY <2>3, <2>7
    <3>2. /\ r.group \notin h.frozen
          /\ r.user \in h.met
      BY <1>1, <1>2, <3>1
    <3> QED
      BY <1>11, <3>2 DEF Vetted
  <2> QED
    BY <2>1, <2>5, <2>6, <2>7 DEF checks
<1>12. CASE r.op = "UpdateGroup"
  <2>1. checks = <<NotArchived(r), Valid(r.default \in r.currencies)>>
        /\ (~ Handler(r).tx => Len(Handler(r).sql) = 1)
    BY <1>12 DEF Handler, HandleUpdateGroup, InTx
  <2>2. /\ Len(checks) = 2
        /\ checks[1] = NotArchived(r)
        /\ checks[2] = Valid(r.default \in r.currencies)
    BY <2>1
  <2> HIDE DEF checks
  <2>3. \A h : Passed(h) =>
            /\ Established(NotArchived(r), h)
            /\ Established(Valid(r.default \in r.currencies), h)
    <3>1. \A h : Passed(h) =>
              /\ Established(checks[1], h)
              /\ Established(checks[2], h)
      BY <2>2
    <3> QED
      BY <2>2, <3>1, Zenon
  <2>4. \A h : Established(Valid(r.default \in r.currencies), h) => r.default \in r.currencies
    BY Zenon DEF Established, Valid
  <2>5. \A k \in 1 .. Len(checks) : checks[k].check = "Member" => checks[k].group = r.group
    BY <1>3, <1>4, <2>2
  <2>6. Len(checks) \in Nat
    BY <2>2
  <2>7. ASSUME NEW h, Passed(h)
        PROVE  Vetted(r, h)
    <3>1. /\ Established(NotArchived(r), h)
          /\ Established(Valid(r.default \in r.currencies), h)
      BY <2>3, <2>7
    <3>2. /\ r.group \notin h.frozen
          /\ r.default \in r.currencies
      BY <1>1, <1>2, <2>4, <3>1
    <3> QED
      BY <1>12, <3>2 DEF Vetted
  <2> QED
    BY <2>1, <2>5, <2>6, <2>7 DEF checks
<1>13. CASE r.op = "CreateTransfer"
  <2>1. checks = <<NotArchived(r), Member(r, r.sender), Member(r, r.receiver),
                  Valid(r.sender # r.receiver)>>
        /\ (~ Handler(r).tx => Len(Handler(r).sql) = 1)
    BY <1>13 DEF Handler, HandleCreateTransfer, Direct
  <2>2. /\ Len(checks) = 4
        /\ checks[1] = NotArchived(r)
        /\ checks[2] = Member(r, r.sender)
        /\ checks[3] = Member(r, r.receiver)
        /\ checks[4] = Valid(r.sender # r.receiver)
    BY <2>1
  <2> HIDE DEF checks
  <2>3. \A h : Passed(h) =>
            /\ Established(NotArchived(r), h)
            /\ Established(Member(r, r.sender), h)
            /\ Established(Member(r, r.receiver), h)
            /\ Established(Valid(r.sender # r.receiver), h)
    <3>1. \A h : Passed(h) =>
              /\ Established(checks[1], h)
              /\ Established(checks[2], h)
              /\ Established(checks[3], h)
              /\ Established(checks[4], h)
      BY <2>2
    <3> QED
      BY <2>2, <3>1, Zenon
  <2>4. \A h : Established(Valid(r.sender # r.receiver), h) => r.sender # r.receiver
    BY Zenon DEF Established, Valid
  <2>5. \A k \in 1 .. Len(checks) : checks[k].check = "Member" => checks[k].group = r.group
    BY <1>3, <1>4, <2>2
  <2>6. Len(checks) \in Nat
    BY <2>2
  <2>7. ASSUME NEW h, Passed(h)
        PROVE  Vetted(r, h)
    <3>1. /\ Established(NotArchived(r), h)
          /\ Established(Member(r, r.sender), h)
          /\ Established(Member(r, r.receiver), h)
          /\ Established(Valid(r.sender # r.receiver), h)
      BY <2>3, <2>7
    <3>2. /\ r.group \notin h.frozen
          /\ r.sender \in h.met
          /\ r.receiver \in h.met
          /\ r.sender # r.receiver
      BY <1>1, <1>2, <2>4, <3>1
    <3> QED
      BY <1>13, <3>2 DEF Vetted
  <2> QED
    BY <2>1, <2>5, <2>6, <2>7 DEF checks
<1>14. CASE r.op = "UpdateTransfer"
  <2>1. checks = <<NotArchived(r), TransferExists(r), Member(r, r.sender),
                  Member(r, r.receiver), Valid(r.sender # r.receiver)>>
        /\ (~ Handler(r).tx => Len(Handler(r).sql) = 1)
    BY <1>14 DEF Handler, HandleUpdateTransfer, Direct
  <2>2. /\ Len(checks) = 5
        /\ checks[1] = NotArchived(r)
        /\ checks[2] = TransferExists(r)
        /\ checks[3] = Member(r, r.sender)
        /\ checks[4] = Member(r, r.receiver)
        /\ checks[5] = Valid(r.sender # r.receiver)
    BY <2>1
  <2> HIDE DEF checks
  <2>3. \A h : Passed(h) =>
            /\ Established(NotArchived(r), h)
            /\ Established(TransferExists(r), h)
            /\ Established(Member(r, r.sender), h)
            /\ Established(Member(r, r.receiver), h)
            /\ Established(Valid(r.sender # r.receiver), h)
    <3>1. \A h : Passed(h) =>
              /\ Established(checks[1], h)
              /\ Established(checks[2], h)
              /\ Established(checks[3], h)
              /\ Established(checks[4], h)
              /\ Established(checks[5], h)
      BY <2>2
    <3> QED
      BY <2>2, <3>1, Zenon
  <2>4. \A h : Established(Valid(r.sender # r.receiver), h) => r.sender # r.receiver
    BY Zenon DEF Established, Valid
  <2>5. \A k \in 1 .. Len(checks) : checks[k].check = "Member" => checks[k].group = r.group
    BY <1>3, <1>4, <2>2
  <2>6. Len(checks) \in Nat
    BY <2>2
  <2>7. ASSUME NEW h, Passed(h)
        PROVE  Vetted(r, h)
    <3>1. /\ Established(NotArchived(r), h)
          /\ Established(TransferExists(r), h)
          /\ Established(Member(r, r.sender), h)
          /\ Established(Member(r, r.receiver), h)
          /\ Established(Valid(r.sender # r.receiver), h)
      BY <2>3, <2>7
    <3>2. /\ r.group \notin h.frozen
          /\ r.sender \in h.met
          /\ r.receiver \in h.met
          /\ r.sender # r.receiver
      BY <1>1, <1>2, <2>4, <3>1
    <3> QED
      BY <1>14, <3>2 DEF Vetted
  <2> QED
    BY <2>1, <2>5, <2>6, <2>7 DEF checks
<1>15. CASE r.op \in {"CreateConversion", "UpdateConversion"}
  <2>1. checks = <<NotArchived(r), Valid(r.from # r.to)>>
        /\ (~ Handler(r).tx => Len(Handler(r).sql) = 1)
    BY <1>15 DEF Handler, HandleCreateConversion, HandleUpdateConversion, Direct
  <2>2. /\ Len(checks) = 2
        /\ checks[1] = NotArchived(r)
        /\ checks[2] = Valid(r.from # r.to)
    BY <2>1
  <2> HIDE DEF checks
  <2>3. \A h : Passed(h) =>
            /\ Established(NotArchived(r), h)
            /\ Established(Valid(r.from # r.to), h)
    <3>1. \A h : Passed(h) =>
              /\ Established(checks[1], h)
              /\ Established(checks[2], h)
      BY <2>2
    <3> QED
      BY <2>2, <3>1, Zenon
  <2>4. \A h : Established(Valid(r.from # r.to), h) => r.from # r.to
    BY Zenon DEF Established, Valid
  <2>5. \A k \in 1 .. Len(checks) : checks[k].check = "Member" => checks[k].group = r.group
    BY <1>3, <1>4, <2>2
  <2>6. Len(checks) \in Nat
    BY <2>2
  <2>7. ASSUME NEW h, Passed(h)
        PROVE  Vetted(r, h)
    <3>1. /\ Established(NotArchived(r), h)
          /\ Established(Valid(r.from # r.to), h)
      BY <2>3, <2>7
    <3>2. /\ r.group \notin h.frozen
          /\ r.from # r.to
      BY <1>1, <1>2, <2>4, <3>1
    <3> QED
      BY <1>15, <3>2 DEF Vetted
  <2> QED
    BY <2>1, <2>5, <2>6, <2>7 DEF checks
<1>16. CASE r.op = "CreateConversions"
  <2>1. checks = <<NotArchived(r),
                  Valid(r.first.from # r.first.to /\ r.second.from # r.second.to)>>
        /\ (~ Handler(r).tx => Len(Handler(r).sql) = 1)
    BY <1>16 DEF Handler, HandleCreateConversions, InTx
  <2>2. /\ Len(checks) = 2
        /\ checks[1] = NotArchived(r)
        /\ checks[2] = Valid(r.first.from # r.first.to /\ r.second.from # r.second.to)
    BY <2>1
  <2> HIDE DEF checks
  <2>3. \A h : Passed(h) =>
            /\ Established(NotArchived(r), h)
            /\ Established(Valid(r.first.from # r.first.to /\ r.second.from # r.second.to), h)
    <3>1. \A h : Passed(h) =>
              /\ Established(checks[1], h)
              /\ Established(checks[2], h)
      BY <2>2
    <3> QED
      BY <2>2, <3>1, Zenon
  <2>4. \A h : Established(Valid(r.first.from # r.first.to
                                   /\ r.second.from # r.second.to), h)
                  => r.first.from # r.first.to /\ r.second.from # r.second.to
    BY Zenon DEF Established, Valid
  <2>5. \A k \in 1 .. Len(checks) : checks[k].check = "Member" => checks[k].group = r.group
    BY <1>3, <1>4, <2>2
  <2>6. Len(checks) \in Nat
    BY <2>2
  <2>7. ASSUME NEW h, Passed(h)
        PROVE  Vetted(r, h)
    <3>1. /\ Established(NotArchived(r), h)
          /\ Established(Valid(r.first.from # r.first.to /\ r.second.from # r.second.to), h)
      BY <2>3, <2>7
    <3>2. /\ r.group \notin h.frozen
          /\ r.first.from # r.first.to /\ r.second.from # r.second.to
      BY <1>1, <1>2, <2>4, <3>1
    <3> QED
      BY <1>16, <3>2 DEF Vetted
  <2> QED
    BY <2>1, <2>5, <2>6, <2>7 DEF checks
<1> QED
  BY <1>5, <1>6, <1>7, <1>8, <1>9, <1>10, <1>11, <1>12, <1>13, <1>14, <1>15, <1>16
     DEF GroupRequest, EntryRequest, RowRequest, ExpenseRequest, TransferRequest,
     ConversionRequest, TwoRequest

\* Atomicity: a step begins a request, is of no consequence to others, or carries one
\* request out as a whole.
LEMMA StepKinds ==
    ASSUME WInv, [Next]_vars
    PROVE  \/ \E t \in Threads, r \in Requests : Receive(t, r)
           \/ Quiet
           \/ \E t \in Threads : CarriesOut(t)
<1>1. /\ IInv /\ IInv' /\ thr \in [Threads -> ThreadState] /\ Consistent(db)
      /\ db' \in Database /\ since \in [Threads -> [frozen : SUBSET Groups, met : SUBSET Users]]
  BY StepIInv DEF WInv, IInv, Consistent, HistoryRecorded
<1>2. \A t \in Threads : thr'[t] = Idle => ~ Busy(t)'
  BY DEF Busy, Idle
<1>3. ASSUME NEW t \in Threads, Handled(t)
      PROVE  /\ Busy(t) /\ thr[t].req \in GroupRequest \cup EntryRequest
             /\ thr[t].req.op # "GetBalance" /\ thr[t].step \in Nat \ {0}
             /\ thr[t].req \in Requests
  BY <1>1, <1>3, BusyThread, LedgerAssumption DEF Handled, At, Busy, BusyState, IInv
\* A thread that ends without a change, or goes on with its request.
<1>4. ASSUME NEW t \in Threads, Busy(t), UNCHANGED <<db, issued>>,
             \A u \in Threads : u # t => thr'[u] = thr[u],
             \A u \in Threads : u # t => since'[u] = since[u],
             thr'[t] = Idle \/ (thr'[t].req = thr[t].req /\ since'[t] = since[t])
      PROVE  Quiet
  BY <1>2, <1>4 DEF Quiet, Busy
<1>5. ASSUME NEW t \in Threads, Busy(t), EndUnchanged(t), UNCHANGED issued
      PROVE  Quiet
  <2>1. /\ db' = db /\ thr'[t] = Idle
        /\ \A u \in Threads : u # t => thr'[u] = thr[u] /\ since'[u] = since[u]
    BY <1>1, <1>5 DEF EndUnchanged, End
  <2> QED
    BY <1>4, <1>5, <2>1
<1>6. ASSUME NEW t \in Threads, Handled(t), UNCHANGED issued, EndWith(t, db'),
             LET sql == Handler(thr[t].req).sql IN Reaches(sql, Len(sql), db, db'),
             \A k \in 1 .. Len(Handler(thr[t].req).checks) :
                 Established(Handler(thr[t].req).checks[k], since[t])
      PROVE  CarriesOut(t)
  <2>1. Outcome(thr[t].req, db, db')
    BY <1>1, <1>3, <1>6, GroupRequestsDo, EntryRequestsDo DEF Outcome
  <2>2. thr'[t] = Idle /\ \A u \in Threads : u # t => thr'[u] = thr[u]
    BY <1>1, <1>6 DEF EndWith, End
  <2>3. \A u \in Threads : u # t /\ Busy(u) =>
            since'[u] = [frozen |-> since[u].frozen \cap ArchivedGroups(db'),
                         met |-> since[u].met \cup MembersOf(db', thr[u].req.group)]
    BY <1>6 DEF EndWith
  <2> QED
    BY <1>2, <1>6, <2>1, <2>2, <2>3 DEF CarriesOut, Busy
<1>7. ASSUME NEW t \in Threads, Check(t)
      PROVE  Quiet
  <2>1. Busy(t) /\ UNCHANGED issued
    BY <1>7 DEF Check, At, Busy
  <2>2. CASE thr' = [thr EXCEPT ![t].step = @ + 1] /\ UNCHANGED <<db, seen, since>>
    <3>1. thr[t] \in BusyState
      BY <1>1, <2>1, BusyThread
    <3>2. thr'[t].req = thr[t].req /\ \A u \in Threads : u # t => thr'[u] = thr[u]
      BY <1>1, <2>2, <3>1 DEF BusyState
    <3> QED
      BY <1>4, <2>1, <2>2, <3>2
  <2>3. CASE EndUnchanged(t)
    BY <1>5, <2>1, <2>3
  <2> QED
    BY <1>7, <2>2, <2>3 DEF Check
<1>8. ASSUME NEW t \in Threads, Begin(t)
      PROVE  Quiet
  <2>1. Busy(t) /\ UNCHANGED <<db, issued, since>>
    BY <1>8 DEF Begin, Checked, At, Busy
  <2>2. thr[t] \in BusyState
    BY <1>1, <2>1, BusyThread
  <2>3. thr'[t].req = thr[t].req /\ \A u \in Threads : u # t => thr'[u] = thr[u]
    BY <1>1, <1>8, <2>2 DEF Begin, BusyState
  <2> QED
    BY <1>4, <2>1, <2>3
<1>9. ASSUME NEW t \in Threads, Statement(t)
      PROVE  Quiet
  <2>1. Busy(t) /\ UNCHANGED issued
    BY <1>9 DEF Statement, At, Busy
  <2>2. CASE thr' = [thr EXCEPT ![t].step = @ + 1] /\ UNCHANGED <<db, conn, seen, since>>
    <3>1. thr[t] \in BusyState
      BY <1>1, <2>1, BusyThread
    <3>2. thr'[t].req = thr[t].req /\ \A u \in Threads : u # t => thr'[u] = thr[u]
      BY <1>1, <2>2, <3>1 DEF BusyState
    <3> QED
      BY <1>4, <2>1, <2>2, <3>2
  <2>3. CASE EndUnchanged(t)
    BY <1>5, <2>1, <2>3
  <2> QED
    BY <1>9, <2>2, <2>3 DEF Statement
<1>10. ASSUME NEW t \in Threads, Commit(t)
       PROVE  CarriesOut(t)
  <2> DEFINE sql == Handler(thr[t].req).sql
  <2>1. At(t, "writing") /\ Handled(t) /\ db' = staged /\ EndWith(t, staged) /\ UNCHANGED issued
    BY <1>10 DEF Commit, EndWith, Handled
  <2>2. Len(sql) \in Nat /\ thr[t].step \in Nat
    BY <1>3, <2>1, HandlerIsWellTyped
  <2>3. thr[t].step > Len(sql) /\ thr[t].step - 1 <= Len(sql)
        /\ Reaches(sql, thr[t].step - 1, db, staged)
    BY <1>10, <2>1 DEF Commit, WInv, StagedFromCommitted
  <2>4. Reaches(sql, Len(sql), db, db')
    <3> HIDE DEF sql
    <3>1. thr[t].step - 1 = Len(sql)
      BY <2>2, <2>3
    <3> QED
      BY <2>1, <2>3, <3>1
  <2>5. \A k \in 1 .. Len(Handler(thr[t].req).checks) :
            Established(Handler(thr[t].req).checks[k], since[t])
    BY <2>1 DEF WInv, HistoryRecorded
  <2> QED
    BY <1>6, <2>1, <2>4, <2>5
<1>11. ASSUME NEW t \in Threads, Write(t)
       PROVE  Quiet \/ CarriesOut(t)
  <2> DEFINE sql == Handler(thr[t].req).sql
             checks == Handler(thr[t].req).checks
  <2>1. Handled(t) /\ At(t, "checking") /\ UNCHANGED issued /\ thr[t].step > Len(checks)
    BY <1>11 DEF Write, Checked, Handled
  <2>2. CASE EndUnchanged(t)
    BY <1>3, <1>5, <2>1, <2>2
  <2>3. CASE Accepted(sql[1], db) /\ EndWith(t, Run(sql[1], db))
    <3>1. Len(sql) = 1
      BY <1>3, <1>11, <2>1, ChecksEstablish DEF Write
    <3>2. db' = Run(sql[1], db)
      BY <2>3 DEF EndWith
    <3> HIDE DEF sql
    <3>3. Reaches(sql, 0 + 1, db, db')
      BY <1>1, <2>3, <3>2, ReachesGrows DEF Consistent
    <3>4. Reaches(sql, Len(sql), db, db')
      BY <3>1, <3>3
    <3>5. \A k \in 1 .. Len(checks) : k < thr[t].step
      <4>1. Len(checks) \in Nat /\ thr[t].step \in Nat
        BY <1>3, <2>1, ChecksEstablish
      <4> HIDE DEF checks
      <4> QED
        BY <2>1, <4>1
    <3>6. \A k \in 1 .. Len(checks) : Established(checks[k], since[t])
      BY <2>1, <3>5 DEF WInv, HistoryRecorded
    <3> QED
      BY <1>6, <2>1, <2>3, <3>2, <3>4, <3>6 DEF sql
  <2> QED
    BY <1>11, <2>2, <2>3 DEF Write
<1>12. ASSUME NEW t \in Threads, ReadMembers(t) \/ ReadExpenses(t) \/ ReadTransfers(t)
       PROVE  Quiet
  <2>1. Busy(t) /\ UNCHANGED <<db, issued, since>>
    BY <1>12 DEF ReadMembers, ReadExpenses, ReadTransfers, At, Busy
  <2>2. PICK p : thr' = [thr EXCEPT ![t].phase = p]
    BY <1>12 DEF ReadMembers, ReadExpenses, ReadTransfers
  <2>3. thr[t] \in BusyState
    BY <1>1, <2>1, BusyThread
  <2>4. thr'[t].req = thr[t].req /\ \A u \in Threads : u # t => thr'[u] = thr[u]
    BY <1>1, <2>2, <2>3 DEF BusyState
  <2> QED
    BY <1>4, <2>1, <2>4
<1>13. ASSUME NEW t \in Threads, Answer(t) \/ GiveUp(t)
       PROVE  Quiet
  <2>1. Busy(t) /\ EndUnchanged(t) /\ UNCHANGED issued
    BY <1>13 DEF Answer, GiveUp, At, Busy
  <2> QED
    BY <1>5, <2>1
<1>14. CASE Crash
  <2>1. UNCHANGED <<db, issued>> /\ \A t \in Threads : thr'[t] = Idle
    BY <1>14 DEF Crash
  <2> QED
    BY <1>2, <2>1 DEF Quiet
<1>15. CASE UNCHANGED vars
  BY <1>15 DEF vars, Quiet, Busy
<1> QED
  BY <1>7, <1>8, <1>9, <1>10, <1>11, <1>12, <1>13, <1>14, <1>15 DEF Next

\* Each step of any thread, a failure and a crash preserve the invariant.
LEMMA StepWInv ==
    ASSUME WInv, [Next]_vars
    PROVE  WInv'
<1>1. /\ IInv /\ IInv' /\ thr \in [Threads -> ThreadState]
      /\ Consistent(db) /\ Consistent(db') /\ Consistent(staged)
      /\ db \in Database /\ db' \in Database /\ staged \in Database
      /\ since \in [Threads -> [frozen : SUBSET Groups, met : SUBSET Users]]
  BY StepIInv DEF WInv, IInv, Consistent, HistoryRecorded
<1>2. ASSUME NEW t \in Threads, Busy(t)
      PROVE  /\ thr[t] \in BusyState /\ thr[t].req \in GroupRequest \cup EntryRequest
             /\ Handled(t) => thr[t].req.op # "GetBalance"
             /\ thr[t].step \in Nat
  BY <1>1, <1>2, BusyThread, LedgerAssumption DEF Handled, At, Busy, BusyState, IInv
<1>3. \A t \in Threads : Handled(t) => Busy(t)
  BY DEF Handled, At, Busy
\* A request arrives.
<1>4. ASSUME NEW t \in Threads, NEW r \in Requests, Receive(t, r)
      PROVE  /\ UNCHANGED <<db, conn, staged>> /\ issued' = issued \cup NewIds(r)
             /\ thr'[t].req = r /\ thr'[t].step = 1
             /\ thr'[t].phase \in {"members", "checking"}
             /\ since'[t].frozen = ArchivedGroups(db)
             /\ since'[t].met = MembersOf(db, r.group)
             /\ \A u \in Threads : u # t => thr'[u] = thr[u] /\ since'[u] = since[u]
             /\ ~ Busy(t)
  BY <1>1, <1>4 DEF Receive
\* The tables
<1>5. OnePayer(db') /\ DefaultListed(db')
  <2>1. CASE \E t \in Threads : CarriesOut(t)
    <3>1. PICK t \in Threads : CarriesOut(t)
      BY <2>1
    <3>2. thr[t].req.op = "UpdateGroup" => thr[t].req.default \in thr[t].req.currencies
      <4>1. Vetted(thr[t].req, since[t])
        BY <1>2, <1>3, <3>1, ChecksEstablish DEF CarriesOut
      <4> QED
        BY <4>1 DEF Vetted
    <3> QED
      BY <1>1, <3>1, <3>2, TablesStayComplete DEF CarriesOut, WInv
  <2>2. CASE db' = db
    BY <2>2 DEF WInv
  <2> QED
    BY <1>4, <2>1, <2>2, StepKinds DEF Quiet
\* The ids
<1>6. IdsUsedOnce'
  <2>1. CASE Quiet
    BY <2>1 DEF WInv, IdsUsedOnce, Quiet
  <2>2. ASSUME NEW t \in Threads, NEW r \in Requests, Receive(t, r)
        PROVE  IdsUsedOnce'
    <3>1. r \in GroupRequest \cup EntryRequest /\ Offers(db, r) /\ NewIds(r) \cap issued = {}
      BY <2>2, LedgerAssumption DEF Receive
    <3>2. NamedIds(r) \subseteq EntryIds(db) /\ Touched(r, db) \subseteq {r.group}
      <4>1. CASE r.op \in {"UpdateExpense", "DeleteExpense"}
        <5>1. r.id \in IdsOf(InGroup(db.expenses, r.group))
          BY <3>1, <4>1 DEF Offers
        <5> QED
          BY <1>1, <4>1, <5>1
             DEF NamedIds, EntryIds, Touched, IdsOf, InGroup, Consistent, KeysUnique
      <4>2. CASE r.op \in {"UpdateTransfer", "DeleteTransfer"}
        <5>1. r.id \in IdsOf(InGroup(db.transfers, r.group))
          BY <3>1, <4>2 DEF Offers
        <5> QED
          BY <1>1, <4>2, <5>1
             DEF NamedIds, EntryIds, Touched, IdsOf, InGroup, Consistent, KeysUnique
      <4>3. CASE r.op \in {"UpdateConversion", "DeleteConversion"}
        <5>1. r.id \in IdsOf(InGroup(db.conversions, r.group))
          BY <3>1, <4>3 DEF Offers
        <5> QED
          BY <1>1, <4>3, <5>1
             DEF NamedIds, EntryIds, Touched, IdsOf, InGroup, Consistent, KeysUnique
      <4>4. CASE r.op \notin {"UpdateExpense", "DeleteExpense", "UpdateTransfer",
                              "DeleteTransfer", "UpdateConversion", "DeleteConversion"}
        BY <4>4 DEF NamedIds, Touched
      <4> QED
        BY <4>1, <4>2, <4>3, <4>4
    <3>3. \A u \in Threads : u # t /\ Busy(u)' => Busy(u) /\ thr'[u].req = thr[u].req
      BY <1>4, <2>2 DEF Busy
    <3> QED
      BY <1>4, <2>2, <3>1, <3>2, <3>3 DEF WInv, IdsUsedOnce
  <2>3. ASSUME NEW t \in Threads, CarriesOut(t)
        PROVE  IdsUsedOnce'
    <3> DEFINE r == thr[t].req
    <3>1. Busy(t) /\ Outcome(r, db, db') /\ issued' = issued
      BY <1>3, <2>3 DEF CarriesOut
    <3>2. \A u \in Threads : Busy(u)' => u # t /\ Busy(u) /\ thr'[u].req = thr[u].req
      BY <2>3 DEF CarriesOut, Busy
    <3> HIDE DEF r
    <3>3. /\ \A x \in db'.expenses : x.id \in NewIds(r)
                 \/ \E y \in db.expenses : y.id = x.id /\ y.group = x.group
          /\ \A x \in db'.transfers : x.id \in NewIds(r)
                 \/ \E y \in db.transfers : y.id = x.id /\ y.group = x.group
          /\ \A x \in db'.conversions : x.id \in NewIds(r)
                 \/ \E y \in db.conversions : y.id = x.id /\ y.group = x.group
      BY <1>1, <3>1, EntriesStayHome
    <3>4. EntryIds(db') \subseteq EntryIds(db) \cup NewIds(r)
      BY <3>3 DEF EntryIds, IdsOf
    <3>5. ASSUME NEW u \in Threads, Busy(u), u # t
          PROVE  Touched(thr[u].req, db') \subseteq {thr[u].req.group}
      <4> DEFINE q == thr[u].req
      <4>1. NamedIds(q) \cap NewIds(r) = {} /\ Touched(q, db) \subseteq {q.group}
        BY <3>1, <3>5 DEF WInv, IdsUsedOnce, r
      <4> SUFFICES Touched(q, db') \subseteq {q.group}
        OBVIOUS
      <4> HIDE DEF q
      <4>2. CASE q.op \in {"UpdateExpense", "DeleteExpense"}
        BY <3>3, <4>1, <4>2 DEF Touched, NamedIds
      <4>3. CASE q.op \in {"UpdateTransfer", "DeleteTransfer"}
        BY <3>3, <4>1, <4>3 DEF Touched, NamedIds
      <4>4. CASE q.op \in {"UpdateConversion", "DeleteConversion"}
        BY <3>3, <4>1, <4>4 DEF Touched, NamedIds
      <4>5. CASE q.op \notin {"UpdateExpense", "DeleteExpense", "UpdateTransfer",
                              "DeleteTransfer", "UpdateConversion", "DeleteConversion"}
        BY <4>5 DEF Touched
      <4> QED
        BY <4>2, <4>3, <4>4, <4>5
    <3>6. NewIds(r) \subseteq issued /\ \A u \in Threads : Busy(u) /\ u # t =>
              NewIds(thr[u].req) \cap NewIds(r) = {}
      BY <3>1 DEF WInv, IdsUsedOnce, r
    <3> QED
      BY <3>1, <3>2, <3>4, <3>5, <3>6 DEF WInv, IdsUsedOnce
  <2> QED
    BY <2>1, <2>2, <2>3, StepKinds
\* The history
<1>7. HistoryRecorded'
  <2>1. \A d \in Database : ArchivedGroups(d) \subseteq Groups
                            /\ \A g : MembersOf(d, g) \subseteq Users
    BY DEF Database, GroupRow, MemberRow, ArchivedGroups, IdsOf, MembersOf, InGroup
  <2>2. since' \in [Threads -> [frozen : SUBSET Groups, met : SUBSET Users]]
    <3> DEFINE History == [frozen : SUBSET Groups, met : SUBSET Users]
    <3>1. Nothing \in History
      BY DEF Nothing
    <3>2. CASE since' = since
      BY <1>1, <3>2
    <3>3. CASE \E t \in Threads : since' = [since EXCEPT ![t] = Nothing]
      BY <1>1, <3>1, <3>3
    <3>4. CASE since' = [t \in Threads |-> Nothing]
      BY <3>1, <3>4
    <3>5. CASE \E t \in Threads, r \in Requests : Receive(t, r)
      <4>1. PICK t \in Threads, r \in Requests : Receive(t, r)
        BY <3>5
      <4>2. since' = [since EXCEPT ![t] = [frozen |-> ArchivedGroups(db),
                                           met |-> MembersOf(db, r.group)]]
        BY <4>1 DEF Receive
      <4>3. [frozen |-> ArchivedGroups(db), met |-> MembersOf(db, r.group)] \in History
        BY <1>1, <2>1
      <4> HIDE DEF History
      <4> QED
        BY <1>1, <4>2, <4>3 DEF History
    <3>6. CASE \E t \in Threads : EndWith(t, db')
      <4>1. PICK t \in Threads : EndWith(t, db')
        BY <3>6
      <4> DEFINE new(u) == [frozen |-> since[u].frozen \cap ArchivedGroups(db'),
                            met |-> since[u].met \cup MembersOf(db', thr[u].req.group)]
      <4>2. since' = [u \in Threads |-> IF u = t \/ ~ Busy(u) THEN Nothing ELSE new(u)]
        BY <4>1 DEF EndWith
      <4>3. \A u \in Threads : new(u) \in History
        BY <1>1, <2>1
      <4> HIDE DEF new, History
      <4> QED
        BY <3>1, <4>2, <4>3 DEF History
    <3>7. \/ since' = since \/ (\E t \in Threads : since' = [since EXCEPT ![t] = Nothing])
          \/ since' = [t \in Threads |-> Nothing]
          \/ (\E t \in Threads, r \in Requests : Receive(t, r))
          \/ \E t \in Threads : EndWith(t, db')
      <4>1. ASSUME NEW t \in Threads, Check(t) \/ Begin(t) \/ Statement(t)
            PROVE  since' = since \/ since' = [since EXCEPT ![t] = Nothing]
        BY <4>1 DEF Check, Begin, Statement, EndUnchanged
      <4>2. ASSUME NEW t \in Threads, Commit(t) \/ Write(t)
            PROVE  EndWith(t, db') \/ since' = since \/ since' = [since EXCEPT ![t] = Nothing]
        BY <4>2 DEF Commit, Write, EndUnchanged, EndWith
      <4>3. ASSUME NEW t \in Threads,
                   \/ ReadMembers(t) \/ ReadExpenses(t) \/ ReadTransfers(t)
                   \/ Answer(t) \/ GiveUp(t)
            PROVE  since' = since \/ since' = [since EXCEPT ![t] = Nothing]
        BY <4>3 DEF ReadMembers, ReadExpenses, ReadTransfers, Answer, GiveUp, EndUnchanged
      <4>4. Crash => since' = [t \in Threads |-> Nothing]
        BY DEF Crash
      <4> QED
        BY <4>1, <4>2, <4>3, <4>4 DEF Next, vars
    <3> QED
      BY <3>2, <3>3, <3>4, <3>5, <3>6, <3>7
  <2>3. ASSUME NEW u \in Threads, Busy(u)'
        PROVE  /\ since'[u].frozen \subseteq ArchivedGroups(db')
               /\ MembersOf(db', thr'[u].req.group) \subseteq since'[u].met
    <3>1. CASE Quiet
      BY <2>3, <3>1 DEF Quiet, WInv, HistoryRecorded
    <3>2. CASE \E t \in Threads, r \in Requests : Receive(t, r)
      <4>1. PICK t \in Threads, r \in Requests : Receive(t, r)
        BY <3>2
      <4>2. CASE u = t
        BY <1>4, <4>1, <4>2
      <4>3. CASE u # t
        BY <1>4, <2>3, <4>1, <4>3 DEF Busy, WInv, HistoryRecorded
      <4> QED
        BY <4>2, <4>3
    <3>3. CASE \E t \in Threads : CarriesOut(t)
      <4>1. PICK t \in Threads : CarriesOut(t)
        BY <3>3
      <4>2. /\ thr'[u] = thr[u]
            /\ since'[u] = [frozen |-> since[u].frozen \cap ArchivedGroups(db'),
                            met |-> since[u].met \cup MembersOf(db', thr[u].req.group)]
        BY <2>3, <4>1 DEF CarriesOut, Busy
      <4> QED
        BY <4>2
    <3> QED
      BY <3>1, <3>2, <3>3, StepKinds
  \* A thread that only waits keeps what it has established.
  <2>4. ASSUME NEW u \in Threads, Handled(u)', thr'[u] = thr[u],
               since'[u].frozen \subseteq since[u].frozen, since[u].met \subseteq since'[u].met
        PROVE  \A k \in 1 .. Len(Handler(thr'[u].req).checks) :
                   thr'[u].phase = "writing" \/ k < thr'[u].step =>
                       Established(Handler(thr'[u].req).checks[k], since'[u])
    BY <2>4 DEF WInv, HistoryRecorded, Handled, At, Established
  <2>5. ASSUME NEW u \in Threads, Handled(u)'
        PROVE  \A k \in 1 .. Len(Handler(thr'[u].req).checks) :
                   thr'[u].phase = "writing" \/ k < thr'[u].step =>
                       Established(Handler(thr'[u].req).checks[k], since'[u])
    <3>1. CASE \E t \in Threads, r \in Requests : Receive(t, r)
      <4>1. PICK t \in Threads, r \in Requests : Receive(t, r)
        BY <3>1
      <4>2. CASE u = t
        BY <1>4, <4>1, <4>2
      <4>3. CASE u # t
        BY <1>4, <2>4, <2>5, <4>1, <4>3
      <4> QED
        BY <4>2, <4>3
    <3>2. CASE \E t \in Threads : CarriesOut(t)
      <4>1. Busy(u)'
        BY <2>5 DEF Handled, At, Busy
      <4>2. PICK t \in Threads : CarriesOut(t)
        BY <3>2
      <4>3. /\ thr'[u] = thr[u]
            /\ since'[u] = [frozen |-> since[u].frozen \cap ArchivedGroups(db'),
                            met |-> since[u].met \cup MembersOf(db', thr[u].req.group)]
        BY <4>1, <4>2 DEF CarriesOut, Busy
      <4>4. since'[u].frozen \subseteq since[u].frozen /\ since[u].met \subseteq since'[u].met
        BY <4>3
      <4> QED
        BY <2>4, <2>5, <4>3, <4>4
    <3>3. CASE Quiet /\ thr'[u] = thr[u]
      <4>1. Busy(u)'
        BY <2>5 DEF Handled, At, Busy
      <4> QED
        BY <2>4, <2>5, <3>3, <4>1 DEF Quiet
    <3>4. CASE Quiet /\ thr'[u] # thr[u]
      <4>1. Busy(u) /\ since'[u] = since[u] /\ thr'[u].req = thr[u].req
        BY <2>5, <3>4 DEF Quiet, Handled, At, Busy
      <4>2. thr[u] \in BusyState /\ thr'[u].phase \in {"checking", "writing"}
        BY <1>2, <2>5, <4>1 DEF Handled, At
      <4> DEFINE checks == Handler(thr[u].req).checks
      <4>3. CASE Check(u)
        <5>1. Passes(checks[thr[u].step], db) /\ thr' = [thr EXCEPT ![u].step = @ + 1]
          BY <1>1, <2>5, <4>3 DEF Check, EndUnchanged, End, Idle, Handled, At
        <5>2. thr'[u].step = thr[u].step + 1 /\ thr'[u].phase = "checking"
          BY <1>1, <4>2, <4>3, <5>1 DEF Check, At, BusyState
        <5>3. thr[u].step \in 1 .. Len(checks) /\ Handled(u)
          <6>1. Len(checks) \in Nat
            BY <1>2, <4>1, <4>3, ChecksEstablish DEF Check, Handled, At
          <6> HIDE DEF checks
          <6> QED
            BY <4>2, <4>3, <6>1 DEF Check, BusyState, Handled, checks
        <5>4. Established(checks[thr[u].step], since[u])
          <6>1. checks[thr[u].step].check = "Member" =>
                    checks[thr[u].step].group = thr[u].req.group
            BY <1>2, <4>1, <5>3, ChecksEstablish
          <6>2. since[u].frozen \subseteq ArchivedGroups(db)
                /\ MembersOf(db, thr[u].req.group) \subseteq since[u].met
            BY <4>1 DEF WInv, HistoryRecorded
          <6> HIDE DEF checks
          <6> QED
            BY <5>1, <6>1, <6>2
               DEF Passes, Established, ArchivedGroups, IsUserInGroup, MembersOf, InGroup
        <5>5. \A k \in 1 .. Len(checks) : k < thr[u].step => Established(checks[k], since[u])
          BY <5>3 DEF WInv, HistoryRecorded
        <5>6. \A k \in Nat : k < thr'[u].step => k < thr[u].step \/ k = thr[u].step
          BY <4>2, <5>2 DEF BusyState
        <5> QED
          BY <4>1, <5>2, <5>4, <5>5, <5>6
      <4>4. CASE Begin(u)
        <5>1. Handled(u) /\ thr[u].step > Len(checks)
          BY <4>4 DEF Begin, Checked, Handled
        <5>2. \A k \in 1 .. Len(checks) : k < thr[u].step
          <6>1. Len(checks) \in Nat /\ thr[u].step \in Nat
            BY <1>2, <4>1, <5>1, ChecksEstablish
          <6> HIDE DEF checks
          <6> QED
            BY <5>1, <6>1
        <5>3. \A k \in 1 .. Len(checks) : Established(checks[k], since[u])
          BY <5>1, <5>2 DEF WInv, HistoryRecorded
        <5> QED
          BY <4>1, <5>3
      <4>5. CASE Statement(u)
        <5>1. At(u, "writing") /\ Handled(u)
          BY <4>5 DEF Statement, Handled
        <5> QED
          BY <4>1, <5>1 DEF WInv, HistoryRecorded
      <4>6. Check(u) \/ Begin(u) \/ Statement(u)
        <5>1. \A t \in Threads : \A s : thr' = [thr EXCEPT ![t] = s] /\ u # t => thr'[u] = thr[u]
          BY <1>1
        <5>2. ~ (thr' = [thr EXCEPT ![u] = Idle]) /\ thr' # [t \in Threads |-> Idle]
          BY <1>1, <4>2 DEF Idle
        <5>3. ~ (ReadMembers(u) \/ ReadExpenses(u) \/ ReadTransfers(u))
          BY <1>1, <4>2 DEF ReadMembers, ReadExpenses, ReadTransfers, BusyState
        <5>4. ASSUME NEW t \in Threads,
                     \/ \E r \in Requests : Receive(t, r)
                     \/ Check(t) \/ Begin(t) \/ Statement(t) \/ Commit(t) \/ Write(t)
                     \/ ReadMembers(t) \/ ReadExpenses(t) \/ ReadTransfers(t) \/ Answer(t)
                     \/ GiveUp(t)
              PROVE  u = t
          <6>1. PICK s : thr' = [thr EXCEPT ![t] = s]
            BY <5>4 DEF Receive, Check, Begin, Statement, Commit, Write, ReadMembers,
               ReadExpenses, ReadTransfers, Answer, GiveUp, EndUnchanged, EndWith, End
          <6> QED
            BY <3>4, <5>1, <6>1
        <5>5. ~ (\E r \in Requests : Receive(u, r))
          BY <4>1 DEF Receive
        <5>6. ~ (Commit(u) \/ Write(u) \/ Answer(u) \/ GiveUp(u) \/ Crash)
          BY <5>2 DEF Commit, Write, Answer, GiveUp, Crash, EndUnchanged, EndWith, End
        <5> QED
          BY <3>4, <5>3, <5>4, <5>5, <5>6 DEF Next, vars
      <4> QED
        BY <4>3, <4>4, <4>5, <4>6
    <3> QED
      BY <3>1, <3>2, <3>3, <3>4, StepKinds
  <2> QED
    BY <2>2, <2>3, <2>5 DEF HistoryRecorded, Handled, At
\* What is staged
<1>8. StagedFromCommitted'
  <2>1. ASSUME NEW u \in Threads, At(u, "writing")'
        PROVE  LET sql == Handler(thr'[u].req).sql
               IN  /\ thr'[u].step - 1 <= Len(sql)
                   /\ Reaches(sql, thr'[u].step - 1, db', staged')
    <3>1. conn' = u /\ thr'[u] \in BusyState
      BY <1>1, <2>1 DEF IInv, At, ThreadState, BusyState, Idle
    <3> DEFINE sql == Handler(thr'[u].req).sql
    <3>2. Len(sql) \in Nat
      <4>1. thr'[u].req \in GroupRequest \cup EntryRequest
        BY <3>1, LedgerAssumption DEF BusyState
      <4>2. thr'[u].req.op # "GetBalance"
        BY <1>1, <2>1 DEF IInv, At
      <4> QED
        BY <4>1, <4>2, HandlerIsWellTyped
    <3>3. CASE Begin(u)
      <4>1. thr'[u].step = 1 /\ staged' = db /\ db' = db
        BY <1>1, <1>2, <3>3 DEF Begin, Checked, At, Busy, BusyState
      <4>2. Reaches(sql, 0, db', staged')
        BY <1>1, <4>1, ReachesGrows
      <4> HIDE DEF sql
      <4> QED
        BY <3>2, <4>1, <4>2 DEF sql
    <3>4. CASE Statement(u)
      <4>1. thr[u] \in BusyState /\ At(u, "writing")
        BY <1>1, <3>4, BusyThread DEF Statement, At, Busy
      <4>2. thr' # [thr EXCEPT ![u] = Idle]
        BY <1>1, <2>1 DEF At, Idle
      <4>3. /\ thr' = [thr EXCEPT ![u].step = @ + 1] /\ db' = db
            /\ thr[u].step <= Len(Handler(thr[u].req).sql)
            /\ Accepted(Handler(thr[u].req).sql[thr[u].step], staged)
            /\ staged' = Run(Handler(thr[u].req).sql[thr[u].step], staged)
        BY <3>4, <4>2 DEF Statement, EndUnchanged, End
      <4>4. thr'[u].step = thr[u].step + 1 /\ thr'[u].req = thr[u].req
        BY <1>1, <4>1, <4>3 DEF BusyState
      <4>5. Reaches(sql, thr[u].step - 1, db, staged)
        BY <4>1, <4>4 DEF WInv, StagedFromCommitted
      <4>6. thr[u].step \in Nat /\ thr[u].step - 1 \in Nat /\ thr[u].step - 1 + 1 = thr[u].step
            /\ thr[u].step <= Len(sql) /\ thr'[u].step - 1 = thr[u].step
        BY <4>1, <4>3, <4>4 DEF BusyState
      <4>7. staged' \in Database
        BY <1>1 DEF IInv, Consistent
      <4>8. Accepted(sql[thr[u].step], staged) /\ staged' = Run(sql[thr[u].step], staged)
        BY <4>3, <4>4
      <4> HIDE DEF sql
      <4>9. Reaches(sql, thr[u].step - 1 + 1, db, staged')
        BY <1>1, <4>5, <4>6, <4>7, <4>8, ReachesGrows
      <4> QED
        BY <4>3, <4>6, <4>9 DEF sql
    <3>5. CASE ~ Begin(u) /\ ~ Statement(u)
      <4>1. thr'[u] = thr[u] /\ db' = db /\ staged' = staged
        <5>1. ASSUME NEW t \in Threads,
                     \/ \E r \in Requests : Receive(t, r)
                     \/ Check(t) \/ Begin(t) \/ Statement(t) \/ Commit(t) \/ Write(t)
                     \/ ReadMembers(t) \/ ReadExpenses(t) \/ ReadTransfers(t) \/ Answer(t)
                     \/ GiveUp(t)
              PROVE  UNCHANGED <<db, staged>> /\ thr'[u] = thr[u]
          <6>1. PICK s : thr' = [thr EXCEPT ![t] = s]
            BY <5>1 DEF Receive, Check, Begin, Statement, Commit, Write, ReadMembers,
               ReadExpenses, ReadTransfers, Answer, GiveUp, EndUnchanged, EndWith, End
          <6>2. CASE u = t
            <7>1. ~ (\E r \in Requests : Receive(t, r))
              BY <1>4, <2>1, <6>2 DEF At
            <7>2. ~ Check(t)
              BY <1>1, <2>1, <6>2, BusyThread DEF Check, EndUnchanged, End, At, Busy, BusyState,
                 Idle
            <7>3. ~ (Commit(t) \/ Write(t) \/ Answer(t) \/ GiveUp(t))
              BY <1>1, <2>1, <6>2 DEF Commit, Write, Answer, GiveUp, EndUnchanged, EndWith, End,
                 At, Idle
            <7>4. ~ (ReadMembers(t) \/ ReadExpenses(t) \/ ReadTransfers(t))
              BY <1>1, <2>1, <6>2, BusyThread DEF ReadMembers, ReadExpenses, ReadTransfers, At,
                 Busy, BusyState
            <7> QED
              BY <3>5, <5>1, <6>2, <7>1, <7>2, <7>3, <7>4
          <6>3. CASE u # t
            <7>1. thr'[u] = thr[u] /\ conn = u
              BY <1>1, <2>1, <6>1, <6>3 DEF IInv, At
            <7>2. u # Nobody
              BY LedgerAssumption
            <7>3. ~ (Begin(t) \/ Statement(t) \/ Commit(t) \/ Write(t))
              BY <1>1, <6>3, <7>1, <7>2 DEF Begin, Statement, Commit, Write, IInv, At
            <7> QED
              BY <5>1, <6>3, <7>1, <7>3 DEF Receive, Check, ReadMembers,
                 ReadExpenses, ReadTransfers, Answer, GiveUp, EndUnchanged
          <6> QED
            BY <6>2, <6>3
        <5>2. ~ Crash
          BY <2>1 DEF Crash, At, Idle
        <5> QED
          BY <5>1, <5>2 DEF Next, vars
      <4> QED
        BY <2>1, <4>1 DEF WInv, StagedFromCommitted, At
    <3> QED
      BY <3>3, <3>4, <3>5
  <2> QED
    BY <2>1 DEF StagedFromCommitted, At
<1> QED
  BY <1>1, <1>5, <1>6, <1>7, <1>8 DEF WInv

\* What the handlers may rely on between their checks and their statements holds in
\* every reachable state.
THEOREM WInvHolds == Spec => []WInv
<1>1. ASSUME Init
      PROVE  WInv
  <2>1. IInv /\ OnePayer(db) /\ DefaultListed(db)
    BY <1>1, InitIInv, LedgerAssumption DEF Init
  <2>2. \A t \in Threads : ~ Busy(t) /\ ~ Handled(t) /\ ~ At(t, "writing")
    BY <1>1 DEF Init, Busy, Handled, At, Idle
  <2>3. since \in [Threads -> [frozen : SUBSET Groups, met : SUBSET Users]]
    BY <1>1 DEF Init, Nothing
  <2>4. EntryIds(db) \subseteq issued
    BY <1>1 DEF Init, EntryIds
  <2> QED
    BY <2>1, <2>2, <2>3, <2>4 DEF WInv, IdsUsedOnce, HistoryRecorded, StagedFromCommitted
<1> QED
  BY <1>1, StepWInv, PTL DEF Spec

----------------------------------------------------------------------------
\* What it is for

\* Every committed expense has exactly one payer: no reader ever meets what a
\* transaction leaves behind half done, and no failure commits it.
THEOREM ExpensesComplete == Spec => []StoredExpensesComplete
<1>1. WInv => StoredExpensesComplete
  BY DEF WInv, StoredExpensesComplete
<1> QED
  BY <1>1, WInvHolds, PTL

\* Every group lists its default currency, also when two updates of it overlap: each
\* UpdateGroup clears and adds the currencies in one transaction.
THEOREM DefaultsListed == Spec => []StoredDefaultListed
<1>1. WInv => StoredDefaultListed
  BY DEF WInv, StoredDefaultListed
<1> QED
  BY <1>1, WInvHolds, PTL

\* What AssertGroupNotArchived is good for although it reads before the statement is
\* run: a request changes no group that has been archived ever since it arrived, unless
\* it is to unarchive or to delete it.
THEOREM FrozenSinceReceivedHolds == Spec => FrozenSinceReceived
<1>1. ASSUME WInv, [Next]_vars, NEW t \in Threads, Busy(t), ~ Busy(t)',
             thr[t].req.op \notin {"SetGroupArchived", "DeleteGroup"},
             NEW g \in since[t].frozen
      PROVE  RowsOf(db', g) = RowsOf(db, g)
  <2> DEFINE r == thr[t].req
  <2>1. /\ thr[t] \in BusyState /\ r \in GroupRequest \cup EntryRequest
        /\ thr \in [Threads -> ThreadState] /\ Consistent(db) /\ db' \in Database
    BY <1>1, BusyThread, StepIInv, LedgerAssumption DEF WInv, IInv, BusyState, Consistent
  <2>2. CASE \E u \in Threads, q \in Requests : Receive(u, q)
    BY <2>2 DEF Receive
  <2>3. CASE Quiet
    BY <2>3 DEF Quiet
  <2>4. CASE \E u \in Threads : CarriesOut(u)
    <3>1. CarriesOut(t)
      BY <1>1, <2>4 DEF CarriesOut, Busy
    <3>2. Outcome(r, db, db') /\ r.op # "GetBalance" /\ Vetted(r, since[t])
      <4>1. r.op # "GetBalance"
        BY <1>1, <3>1 DEF CarriesOut, Handled, WInv, IInv
      <4> QED
        BY <2>1, <3>1, <4>1, ChecksEstablish DEF CarriesOut
    <3>3. Touched(r, db) \subseteq {r.group}
      BY <1>1 DEF WInv, IdsUsedOnce
    <3>4. since[t].frozen \subseteq ArchivedGroups(db)
      BY <1>1 DEF WInv, HistoryRecorded
    <3> HIDE DEF r
    <3>5. r.group # g
      <4>1. CASE r.op = "CreateExpenseGroup"
        <5>1. ~ GroupExists(db, r.group)
          BY <3>2, <4>1 DEF Outcome, GroupOutcome, EntryRequest, RowRequest, ExpenseRequest,
             TransferRequest, ConversionRequest, TwoRequest
        <5> QED
          BY <1>1, <3>4, <5>1 DEF ArchivedGroups, IdsOf, GroupExists
      <4>2. CASE r.op # "CreateExpenseGroup"
        BY <1>1, <3>2, <4>2 DEF Vetted, r
      <4> QED
        BY <4>1, <4>2
    <3> QED
      BY <2>1, <3>2, <3>3, <3>5, OthersUntouched
  <2> QED
    BY <1>1, <2>2, <2>3, <2>4, StepKinds
<1>2. WInv /\ [Next]_vars =>
          [\A t \in Threads :
              (Busy(t) /\ ~ Busy(t)' /\ thr[t].req.op \notin {"SetGroupArchived", "DeleteGroup"})
                  => \A g \in since[t].frozen : RowsOf(db', g) = RowsOf(db, g)]_vars
  BY <1>1
<1> QED
  BY <1>2, WInvHolds, PTL DEF Spec, FrozenSinceReceived

\* Whoever sends or receives a transfer that a request records or changes was a member
\* of the group at some moment since the request arrived, and nobody pays himself.
THEOREM TransfersBetweenMembersHolds == Spec => TransfersBetweenMembers
<1>1. ASSUME WInv, [Next]_vars, NEW t \in Threads, Busy(t), ~ Busy(t)',
             NEW x \in db'.transfers \ db.transfers
      PROVE  x.sender # x.receiver /\ {x.sender, x.receiver} \subseteq since[t].met
  <2> DEFINE r == thr[t].req
  <2>1. /\ thr[t] \in BusyState /\ r \in GroupRequest \cup EntryRequest
        /\ thr \in [Threads -> ThreadState] /\ Consistent(db) /\ db' \in Database
    BY <1>1, BusyThread, StepIInv, LedgerAssumption DEF WInv, IInv, BusyState, Consistent
  <2>2. CASE \E u \in Threads, q \in Requests : Receive(u, q)
    BY <1>1, <2>2 DEF Receive
  <2>3. CASE Quiet
    BY <1>1, <2>3 DEF Quiet
  <2>4. CASE \E u \in Threads : CarriesOut(u)
    <3>1. CarriesOut(t)
      BY <1>1, <2>4 DEF CarriesOut, Busy
    <3>2. Outcome(r, db, db') /\ r.op # "GetBalance" /\ Vetted(r, since[t])
      <4>1. r.op # "GetBalance"
        BY <1>1, <3>1 DEF CarriesOut, Handled, WInv, IInv
      <4> QED
        BY <2>1, <3>1, <4>1, ChecksEstablish DEF CarriesOut
    <3> HIDE DEF r
    <3>3. /\ r.op \in {"CreateTransfer", "UpdateTransfer"}
          /\ x.sender = r.sender /\ x.receiver = r.receiver
      <4>1. \A y \in db'.transfers \ db.transfers :
                /\ r.op \in {"CreateTransfer", "UpdateTransfer"}
                /\ y.sender = r.sender /\ y.receiver = r.receiver
        BY <2>1, <3>2, EntriesStayHome
      <4> QED
        BY <1>1, <4>1
    <3> QED
      BY <3>2, <3>3 DEF Vetted, r
  <2> QED
    BY <1>1, <2>2, <2>3, <2>4, StepKinds
<1>2. WInv /\ [Next]_vars =>
          [\A t \in Threads : (Busy(t) /\ ~ Busy(t)') =>
              \A r \in db'.transfers \ db.transfers :
                  /\ r.sender # r.receiver
                  /\ {r.sender, r.receiver} \subseteq since[t].met]_vars
  BY <1>1
<1> QED
  BY <1>2, WInvHolds, PTL DEF Spec, TransfersBetweenMembers

----------------------------------------------------------------------------
(***************************************************************************)
(* Ledger implements GroupBook: under the mapping BookOf, which reads a    *)
(* group's page off the tables, every step is a step of the book or leaves *)
(* it alone.                                                               *)
(*                                                                         *)
(* A request that is carried out changes the rows of one group only, hence *)
(* one page (OnePageChanges); then, operation by operation, what it makes  *)
(* of the rows is what the book's operation makes of the page.             *)
(***************************************************************************)

----------------------------------------------------------------------------
\* Pages

\* The parts of group g's page.
CurrenciesOf(d, g) == {x.currency : x \in InGroup(d.currencies, g)}
MembershipsOf(d, g) == {MembershipOf(x) : x \in InGroup(d.members, g)}
ExpensesOf(d, g) == {ExpenseOf(d, x) : x \in InGroup(d.expenses, g)}
TransfersOf(d, g) == {TransferOf(x) : x \in InGroup(d.transfers, g)}
ConversionsOf(d, g) == {ConversionOf(x) : x \in InGroup(d.conversions, g)}

PageWith(d, row) ==
    [creator |-> row.creator, default |-> row.default, archived |-> row.archived,
     currencies |-> CurrenciesOf(d, row.id), members |-> MembershipsOf(d, row.id),
     expenses |-> ExpensesOf(d, row.id), transfers |-> TransfersOf(d, row.id),
     conversions |-> ConversionsOf(d, row.id)]

\* A group's page is made of its row and of the rows that refer to it, as the queries
\* by group id find them; parts whose tables are the same are the same.
LEMMA PageParts ==
    ASSUME NEW d, Consistent(d)
    PROVE  /\ DOMAIN BookOf(d) = IdsOf(d.groups)
           /\ BookOf(d) = [h \in DOMAIN BookOf(d) |-> BookOf(d)[h]]
           /\ \A row \in d.groups : row.id \in DOMAIN BookOf(d)
                                   /\ BookOf(d)[row.id] = PageWith(d, row)
           /\ \A e, g :
                  /\ e.currencies = d.currencies => CurrenciesOf(e, g) = CurrenciesOf(d, g)
                  /\ e.members = d.members => MembershipsOf(e, g) = MembershipsOf(d, g)
                  /\ (e.expenses = d.expenses /\ e.payers = d.payers
                        /\ e.beneficiaries = d.beneficiaries)
                         => ExpensesOf(e, g) = ExpensesOf(d, g)
                  /\ e.transfers = d.transfers => TransfersOf(e, g) = TransfersOf(d, g)
                  /\ e.conversions = d.conversions => ConversionsOf(e, g) = ConversionsOf(d, g)
<1>1. ASSUME NEW row \in d.groups
      PROVE  row.id \in DOMAIN BookOf(d) /\ BookOf(d)[row.id] = PageWith(d, row)
  <2>1. row.id \in IdsOf(d.groups)
    BY <1>1 DEF IdsOf
  <2>2. row = CHOOSE x \in d.groups : x.id = row.id
    BY <1>1 DEF Consistent, KeysUnique
  <2>3. BookOf(d)[row.id] = PageOf(d, row) /\ row.id \in DOMAIN BookOf(d)
    BY <2>1, <2>2 DEF BookOf
  <2>4. PageOf(d, row) = PageWith(d, row)
    BY DEF PageOf, PageWith, CurrenciesOf, MembershipsOf, ExpensesOf, TransfersOf,
       ConversionsOf
  <2> QED
    BY <2>3, <2>4
<1>2. ASSUME NEW e, NEW g, e.expenses = d.expenses, e.payers = d.payers,
             e.beneficiaries = d.beneficiaries
      PROVE  ExpensesOf(e, g) = ExpensesOf(d, g)
  <2>1. \A x : ExpenseOf(e, x) = ExpenseOf(d, x)
    BY <1>2 DEF ExpenseOf, PayersOf, BeneficiariesOf
  <2> QED
    BY <1>2, <2>1 DEF ExpensesOf
<1>3. ASSUME NEW e, NEW g
      PROVE  /\ e.currencies = d.currencies => CurrenciesOf(e, g) = CurrenciesOf(d, g)
             /\ e.members = d.members => MembershipsOf(e, g) = MembershipsOf(d, g)
             /\ (e.expenses = d.expenses /\ e.payers = d.payers
                   /\ e.beneficiaries = d.beneficiaries)
                    => ExpensesOf(e, g) = ExpensesOf(d, g)
             /\ e.transfers = d.transfers => TransfersOf(e, g) = TransfersOf(d, g)
             /\ e.conversions = d.conversions => ConversionsOf(e, g) = ConversionsOf(d, g)
  <2>1. /\ e.currencies = d.currencies => CurrenciesOf(e, g) = CurrenciesOf(d, g)
        /\ e.members = d.members => MembershipsOf(e, g) = MembershipsOf(d, g)
        /\ e.transfers = d.transfers => TransfersOf(e, g) = TransfersOf(d, g)
        /\ e.conversions = d.conversions => ConversionsOf(e, g) = ConversionsOf(d, g)
    BY DEF CurrenciesOf, MembershipsOf, TransfersOf, ConversionsOf
  <2> QED
    BY <1>2, <2>1
<1>4. DOMAIN BookOf(d) = IdsOf(d.groups)
      /\ BookOf(d) = [h \in DOMAIN BookOf(d) |-> BookOf(d)[h]]
  BY DEF BookOf
<1> QED
  BY <1>1, <1>3, <1>4, Zenon

\* When only group g's rows change, only its page does: it stays out of the book, or it
\* gets the page that its rows now make.
LEMMA OnePageChanges ==
    ASSUME NEW d, Consistent(d), NEW e, Consistent(e), NEW g,
           \A h : h # g => RowsOf(e, h) = RowsOf(d, h)
    PROVE  /\ \A h : h # g =>
                  /\ h \in DOMAIN BookOf(e) <=> h \in DOMAIN BookOf(d)
                  /\ h \in DOMAIN BookOf(d) => BookOf(e)[h] = BookOf(d)[h]
           /\ g \notin IdsOf(d.groups) /\ g \notin IdsOf(e.groups) =>
                  BookOf(e) = BookOf(d)
           /\ \A row \in e.groups : row.id = g /\ g \in IdsOf(d.groups) =>
                  BookOf(e) = [BookOf(d) EXCEPT ![g] = PageWith(e, row)]
<1>1. /\ DOMAIN BookOf(d) = IdsOf(d.groups) /\ DOMAIN BookOf(e) = IdsOf(e.groups)
      /\ BookOf(d) = [h \in IdsOf(d.groups) |-> BookOf(d)[h]]
      /\ BookOf(e) = [h \in IdsOf(e.groups) |-> BookOf(e)[h]]
  BY DEF BookOf
<1>2. ASSUME NEW h, h # g
      PROVE  /\ h \in IdsOf(e.groups) <=> h \in IdsOf(d.groups)
             /\ h \in IdsOf(d.groups) => BookOf(e)[h] = BookOf(d)[h]
  <2>1. LET ids == IdsOf(InGroup(d.expenses, h))
        IN  /\ {x \in e.groups : x.id = h} = {x \in d.groups : x.id = h}
            /\ InGroup(e.members, h) = InGroup(d.members, h)
            /\ InGroup(e.currencies, h) = InGroup(d.currencies, h)
            /\ InGroup(e.expenses, h) = InGroup(d.expenses, h)
            /\ {x \in e.payers : x.expense \in ids} = {x \in d.payers : x.expense \in ids}
            /\ {x \in e.beneficiaries : x.expense \in ids}
                   = {x \in d.beneficiaries : x.expense \in ids}
            /\ InGroup(e.transfers, h) = InGroup(d.transfers, h)
            /\ InGroup(e.conversions, h) = InGroup(d.conversions, h)
    BY <1>2 DEF RowsOf
  <2>2. h \in IdsOf(e.groups) <=> h \in IdsOf(d.groups)
    BY <2>1 DEF IdsOf
  <2>3. ASSUME NEW x \in InGroup(d.expenses, h)
        PROVE  ExpenseOf(e, x) = ExpenseOf(d, x)
    <3>1. x.id \in IdsOf(InGroup(d.expenses, h))
      BY <2>3 DEF IdsOf
    <3>2. /\ {p \in e.payers : p.expense = x.id} = {p \in d.payers : p.expense = x.id}
          /\ {p \in e.beneficiaries : p.expense = x.id}
                 = {p \in d.beneficiaries : p.expense = x.id}
      BY <2>1, <3>1
    <3> QED
      BY <3>2 DEF ExpenseOf, PayersOf, BeneficiariesOf
  <2>4. ASSUME h \in IdsOf(d.groups)
        PROVE  BookOf(e)[h] = BookOf(d)[h]
    <3>1. PICK row \in d.groups : row.id = h /\ row \in e.groups
      BY <2>1, <2>4 DEF IdsOf
    <3>2. ExpensesOf(e, h) = ExpensesOf(d, h)
      BY <2>1, <2>3 DEF ExpensesOf
    <3>3. PageWith(e, row) = PageWith(d, row)
      BY <2>1, <3>1, <3>2
         DEF PageWith, CurrenciesOf, MembershipsOf, TransfersOf, ConversionsOf
    <3> QED
      BY <3>1, <3>3, PageParts
  <2> QED
    BY <2>2, <2>4
<1>3. ASSUME g \notin IdsOf(d.groups), g \notin IdsOf(e.groups)
      PROVE  BookOf(e) = BookOf(d)
  <2>1. IdsOf(e.groups) = IdsOf(d.groups)
    BY <1>2, <1>3
  <2>2. \A h \in IdsOf(d.groups) : BookOf(e)[h] = BookOf(d)[h]
    BY <1>2, <1>3
  <2> QED
    BY <1>1, <2>1, <2>2
<1>4. ASSUME NEW row \in e.groups, row.id = g, g \in IdsOf(d.groups)
      PROVE  BookOf(e) = [BookOf(d) EXCEPT ![g] = PageWith(e, row)]
  <2>1. g \in IdsOf(e.groups) /\ BookOf(e)[g] = PageWith(e, row)
    BY <1>1, <1>4, PageParts
  <2>2. IdsOf(e.groups) = IdsOf(d.groups)
    BY <1>2, <1>4, <2>1
  <2>3. \A h \in IdsOf(d.groups) : h # g => BookOf(e)[h] = BookOf(d)[h]
    BY <1>2
  <2> QED
    BY <1>1, <2>1, <2>2, <2>3
<1> QED
  BY <1>1, <1>2, <1>3, <1>4

----------------------------------------------------------------------------
\* Groups and memberships

\* A request of group.go is a step of the book (a group made, deleted, described or
\* archived; a membership made, ended or changed), or one that changes nothing.
LEMMA GroupRequestsInTheBook ==
    ASSUME Consistent(db), Consistent(db'), NEW r \in GroupRequest, r.op # "GetBalance",
           GroupOutcome(r, db, db'), r.op = "UpdateGroup" => r.default \in r.currencies
    PROVE  Book!Next \/ BookOf(db') = BookOf(db)
<1> DEFINE g == r.group
<1>1. /\ g \in Groups
      /\ r.op \in {"CreateExpenseGroup", "UpdateGroup", "DeleteGroup", "AddUserToGroup",
                   "RemoveUserFromGroup", "UpdateUserWeight", "SetGroupPinned",
                   "SetGroupArchived"}
      /\ r.op = "CreateExpenseGroup" => r.user \in Users
      /\ r.op \in {"CreateExpenseGroup", "UpdateGroup"} =>
             r.default \in Currencies /\ r.currencies \in SUBSET Currencies
      /\ r.op = "AddUserToGroup" => r.user \in Users
      /\ r.op = "UpdateUserWeight" => r.weight \in Weights
      /\ r.op \in {"SetGroupPinned", "SetGroupArchived"} => r.on \in BOOLEAN
  BY DEF GroupRequest
<1>2. \A h : h # g => RowsOf(db', h) = RowsOf(db, h)
  <2>1. Outcome(r, db, db')
    BY DEF Outcome
  <2>2. Touched(r, db) = {g}
    BY <1>1 DEF Touched
  <2> QED
    BY <2>1, <2>2, OthersUntouched DEF Consistent
<1>3. ASSUME NEW old \in db.groups, old.id = g
      PROVE  g \in DOMAIN BookOf(db) /\ BookOf(db)[g] = PageWith(db, old)
  BY <1>3, PageParts
<1>4. ASSUME NEW old \in db.groups, old.id = g, NEW new \in db'.groups, new.id = g
      PROVE  BookOf(db') = [BookOf(db) EXCEPT ![g] = PageWith(db', new)]
  BY <1>2, <1>4, OnePageChanges DEF IdsOf
<1>5. g \notin IdsOf(db.groups) /\ g \notin IdsOf(db'.groups) => BookOf(db') = BookOf(db)
  BY <1>2, OnePageChanges
<1>11. ASSUME NEW C
       PROVE  {x.currency : x \in {[group |-> g, currency |-> c] : c \in C}} = C
  <2> DEFINE X == {[group |-> g, currency |-> c] : c \in C}
  <2>1. \A c \in C : [group |-> g, currency |-> c] \in X
                    /\ [group |-> g, currency |-> c].currency = c
    OBVIOUS
  <2>2. \A x \in X : x.currency \in C
    OBVIOUS
  <2> HIDE DEF X
  <2>3. \A c : c \in {x.currency : x \in X} <=> c \in C
    BY <2>1, <2>2
  <2> QED
    BY <2>3 DEF X
<1>6. CASE r.op = "CreateExpenseGroup"
  <2> DEFINE row == [id |-> g, creator |-> r.user, default |-> r.default, archived |-> FALSE]
             m == [group |-> g, user |-> r.user, weight |-> 1, pinned |-> FALSE]
  <2>1. /\ ChangesOnly(db, db', {"groups", "members", "currencies"})
        /\ ~ GroupExists(db, g) /\ r.default \in r.currencies
        /\ db'.groups = db.groups \cup {row} /\ db'.members = db.members \cup {m}
        /\ db'.currencies = db.currencies \cup
               {[group |-> g, currency |-> c] : c \in r.currencies}
    BY <1>6 DEF GroupOutcome
  <2>2. /\ InGroup(db.members, g) = {} /\ InGroup(db.currencies, g) = {}
        /\ InGroup(db.expenses, g) = {} /\ InGroup(db.transfers, g) = {}
        /\ InGroup(db.conversions, g) = {}
    BY <2>1 DEF Consistent, NoOrphans, InGroup
  <2>3. InGroup(db'.members, g) = {m}
    BY <2>1, <2>2 DEF InGroup
  <2>4. InGroup(db'.currencies, g) = {[group |-> g, currency |-> c] : c \in r.currencies}
    BY <2>1, <2>2 DEF InGroup
  <2>5. MembershipOf(m) = [user |-> r.user, weight |-> 1, pinned |-> FALSE]
    BY DEF MembershipOf
  <2>6. InGroup(db'.expenses, g) = {} /\ InGroup(db'.transfers, g) = {}
        /\ InGroup(db'.conversions, g) = {}
    BY <2>1, <2>2 DEF ChangesOnly, Tables
  <2>7. PageWith(db', row) =
            [creator |-> r.user, default |-> r.default, archived |-> FALSE,
             currencies |-> r.currencies,
             members |-> {[user |-> r.user, weight |-> 1, pinned |-> FALSE]},
             expenses |-> {}, transfers |-> {}, conversions |-> {}]
    <3>1. CurrenciesOf(db', g) = r.currencies
      BY <1>11, <2>4 DEF CurrenciesOf
    <3>2. MembershipsOf(db', g) = {[user |-> r.user, weight |-> 1, pinned |-> FALSE]}
      <4>1. MembershipsOf(db', g) = {MembershipOf(m)}
        <5> HIDE DEF m
        <5> QED
          BY <2>3 DEF MembershipsOf
      <4> QED
        BY <2>5, <4>1, Zenon
    <3>3. row.id = g /\ row.creator = r.user /\ row.default = r.default /\ row.archived = FALSE
      OBVIOUS
    <3>4. ExpensesOf(db', g) = {} /\ TransfersOf(db', g) = {} /\ ConversionsOf(db', g) = {}
      BY <2>6 DEF ExpensesOf, TransfersOf, ConversionsOf
    <3> HIDE DEF row
    <3> QED
      BY <3>1, <3>2, <3>3, <3>4 DEF PageWith
  <2>8. DOMAIN BookOf(db) = IdsOf(db.groups) /\ DOMAIN BookOf(db') = DOMAIN BookOf(db) \cup {g}
    <3>1. row.id = g
      OBVIOUS
    <3> HIDE DEF row
    <3>2. IdsOf(db'.groups) = IdsOf(db.groups) \cup {g}
      BY <2>1, <3>1 DEF IdsOf
    <3> QED
      BY <3>2, PageParts
  <2>9. g \notin DOMAIN BookOf(db)
    BY <2>1, <2>8 DEF IdsOf, GroupExists
  <2>10. BookOf(db')[g] = PageWith(db', row)
    BY <2>1, PageParts
  <2>11. \A h \in DOMAIN BookOf(db) : h # g => BookOf(db')[h] = BookOf(db)[h]
    BY <1>2, OnePageChanges
  <2>12. BookOf(db') = [h \in DOMAIN BookOf(db') |-> BookOf(db')[h]]
    BY PageParts
  <2> HIDE DEF row, m
  <2>13. Book!Create(g, r.user, r.default, r.currencies)
    BY <2>1, <2>7, <2>8, <2>9, <2>10, <2>11, <2>12 DEF Book!Create
  <2> QED
    BY <1>1, <1>6, <2>13 DEF Book!Next, Book!GroupStep
<1>7. CASE r.op = "UpdateGroup"
  <2> DEFINE up(x) == IF x.id = g THEN [x EXCEPT !.default = r.default] ELSE x
  <2>1. /\ ChangesOnly(db, db', {"groups", "currencies"}) /\ GroupExists(db, g)
        /\ db'.groups = {up(x) : x \in db.groups}
        /\ db'.currencies = OutsideGroup(db.currencies, g) \cup
               {[group |-> g, currency |-> c] : c \in r.currencies}
    BY <1>7 DEF GroupOutcome
  <2>2. PICK old \in db.groups : old.id = g
    BY <2>1 DEF GroupExists
  <2>3. /\ up(old) \in db'.groups /\ up(old).id = g /\ up(old).default = r.default
        /\ up(old).creator = old.creator /\ up(old).archived = old.archived
    BY <2>1, <2>2 DEF Consistent, Database, GroupRow
  <2> HIDE DEF up
  <2>4. CurrenciesOf(db', g) = r.currencies
    <3>1. InGroup(db'.currencies, g) = {[group |-> g, currency |-> c] : c \in r.currencies}
      BY <2>1 DEF InGroup, OutsideGroup
    <3> QED
      BY <1>11, <3>1 DEF CurrenciesOf
  <2>5. PageWith(db', up(old)) = [PageWith(db, old) EXCEPT !.default = r.default,
                                                       !.currencies = r.currencies]
    <3>1. /\ MembershipsOf(db', g) = MembershipsOf(db, g)
          /\ ExpensesOf(db', g) = ExpensesOf(db, g)
          /\ TransfersOf(db', g) = TransfersOf(db, g)
          /\ ConversionsOf(db', g) = ConversionsOf(db, g)
      BY <2>1, PageParts DEF ChangesOnly, Tables
    <3>2. PageWith(db', up(old)) =
              [creator |-> old.creator, default |-> r.default, archived |-> old.archived,
               currencies |-> r.currencies, members |-> MembershipsOf(db, g),
               expenses |-> ExpensesOf(db, g), transfers |-> TransfersOf(db, g),
               conversions |-> ConversionsOf(db, g)]
      BY <2>3, <2>4, <3>1 DEF PageWith
    <3> DEFINE P == [PageWith(db, old) EXCEPT !.default = r.default]
    <3>3. P = [creator |-> old.creator, default |-> r.default, archived |-> old.archived,
               currencies |-> CurrenciesOf(db, g), members |-> MembershipsOf(db, g),
               expenses |-> ExpensesOf(db, g), transfers |-> TransfersOf(db, g),
               conversions |-> ConversionsOf(db, g)]
      BY <2>2 DEF PageWith
    <3>4. [PageWith(db, old) EXCEPT !.default = r.default, !.currencies = r.currencies]
              = [P EXCEPT !.currencies = r.currencies]
      OBVIOUS
    <3> HIDE DEF P
    <3> QED
      BY <3>2, <3>3, <3>4
  <2>6. Book!Describe(g, r.default, r.currencies)
    BY <1>3, <1>4, <1>7, <2>2, <2>3, <2>5 DEF Book!Describe
  <2> QED
    BY <1>1, <1>3, <1>7, <2>2, <2>6 DEF Book!Next, Book!GroupStep
<1>8. CASE r.op = "SetGroupArchived"
  <2> DEFINE up(x) == IF x.id = g THEN [x EXCEPT !.archived = r.on] ELSE x
  <2>1. /\ ChangesOnly(db, db', {"groups"})
        /\ db'.groups = {up(x) : x \in db.groups}
    BY <1>8 DEF GroupOutcome
  <2>2. CASE g \notin IdsOf(db.groups)
    <3>1. g \notin IdsOf(db'.groups)
      BY <2>1, <2>2 DEF IdsOf, Consistent, Database, GroupRow
    <3> QED
      BY <1>5, <2>2, <3>1
  <2>3. CASE g \in IdsOf(db.groups)
    <3>1. PICK old \in db.groups : old.id = g
      BY <2>3 DEF IdsOf
    <3>2. /\ up(old) \in db'.groups /\ up(old).id = g /\ up(old).default = old.default
          /\ up(old).creator = old.creator /\ up(old).archived = r.on
      BY <2>1, <3>1 DEF Consistent, Database, GroupRow
    <3> HIDE DEF up
    <3>3. PageWith(db', up(old)) = [PageWith(db, old) EXCEPT !.archived = r.on]
      BY <2>1, <3>1, <3>2, PageParts DEF PageWith, ChangesOnly, Tables
    <3>4. Book!Archive(g, r.on)
      BY <1>3, <1>4, <3>1, <3>2, <3>3 DEF Book!Archive
    <3> QED
      BY <1>1, <1>3, <1>8, <3>1, <3>4 DEF Book!Next, Book!GroupStep
  <2> QED
    BY <2>2, <2>3
<1>9. CASE r.op = "DeleteGroup"
  <2>1. db'.groups = {x \in db.groups : x.id # g}
    BY <1>9 DEF GroupOutcome
  <2>2. g \notin IdsOf(db'.groups) /\ IdsOf(db'.groups) = IdsOf(db.groups) \ {g}
    BY <2>1 DEF IdsOf
  <2>3. CASE g \in IdsOf(db.groups)
    <3>1. /\ DOMAIN BookOf(db) = IdsOf(db.groups) /\ DOMAIN BookOf(db') = IdsOf(db'.groups)
          /\ BookOf(db') = [h \in DOMAIN BookOf(db') |-> BookOf(db')[h]]
      BY PageParts
    <3>2. \A h \in IdsOf(db.groups) \ {g} : BookOf(db')[h] = BookOf(db)[h]
      BY <1>2, <3>1, OnePageChanges
    <3>3. Book!Delete(g)
      BY <2>2, <3>1, <3>2 DEF Book!Delete
    <3> QED
      BY <2>3, <3>1, <3>3 DEF Book!Next, Book!GroupStep
  <2> QED
    BY <1>5, <2>2, <2>3
<1>10. CASE r.op \in {"AddUserToGroup", "RemoveUserFromGroup", "UpdateUserWeight",
                      "SetGroupPinned"}
  <2>1. ChangesOnly(db, db', {"members"})
    BY <1>10 DEF GroupOutcome
  <2>2. db'.groups = db.groups
    BY <2>1 DEF ChangesOnly, Tables
  <2>3. CASE g \notin IdsOf(db.groups)
    BY <1>5, <2>2, <2>3
  <2>4. CASE g \in IdsOf(db.groups)
    <3>1. PICK old \in db.groups : old.id = g
      BY <2>4 DEF IdsOf
    <3>2. PageWith(db', old) = [PageWith(db, old) EXCEPT !.members = MembershipsOf(db', g)]
      BY <2>1, <3>1, PageParts DEF PageWith, ChangesOnly, Tables
    <3>3. PageWith(db, old).members = MembershipsOf(db, g)
      BY <3>1 DEF PageWith
    <3>4. /\ g \in DOMAIN BookOf(db) /\ BookOf(db)[g] = PageWith(db, old)
          /\ BookOf(db') = [BookOf(db) EXCEPT ![g] = PageWith(db', old)]
      BY <1>3, <1>4, <2>2, <3>1
    <3>5. BookOf(db') = [BookOf(db) EXCEPT ![g].members = MembershipsOf(db', g)]
          /\ BookOf(db)[g].members = MembershipsOf(db, g)
      BY <3>2, <3>3, <3>4
    <3>6. MembershipsOf(db', g) = MembershipsOf(db, g) => BookOf(db') = BookOf(db)
      <4>1. PageWith(db, old) = [PageWith(db, old) EXCEPT !.members = MembershipsOf(db, g)]
        BY <3>3 DEF PageWith
      <4>2. BookOf(db) = [h \in DOMAIN BookOf(db) |-> BookOf(db)[h]]
        BY PageParts
      <4> QED
        BY <3>2, <3>4, <4>1, <4>2
    \* The membership of a user.
    <3>7. ASSUME NEW x \in InGroup(db.members, g), NEW y \in InGroup(db.members, g),
                 MembershipOf(x) = MembershipOf(y)
          PROVE  x = y
      BY <3>7 DEF MembershipOf, InGroup, Consistent, KeysUnique
    <3>8. \A x \in InGroup(db.members, g) :
              /\ x \in db.members /\ x.group = g /\ MembershipOf(x) \in MembershipsOf(db, g)
              /\ MembershipOf(x).user = x.user
              /\ [x EXCEPT !.weight = r.weight].group = g
              /\ [x EXCEPT !.weight = r.weight].user = x.user
              /\ MembershipOf([x EXCEPT !.weight = r.weight])
                     = [MembershipOf(x) EXCEPT !.weight = r.weight]
              /\ [x EXCEPT !.pinned = r.on].group = g
              /\ [x EXCEPT !.pinned = r.on].user = x.user
              /\ MembershipOf([x EXCEPT !.pinned = r.on])
                     = [MembershipOf(x) EXCEPT !.pinned = r.on]
      BY DEF MembershipsOf, MembershipOf, InGroup, Consistent, Database, MemberRow
    <3>13. \A x, y \in InGroup(db.members, g) : x.user = y.user => x = y
      BY DEF InGroup, Consistent, KeysUnique
    <3>9. CASE r.op = "AddUserToGroup"
      <4> DEFINE m == [group |-> g, user |-> r.user, weight |-> 1, pinned |-> FALSE]
      <4>1. ~ IsUserInGroup(db, g, r.user) /\ db'.members = db.members \cup {m}
        BY <3>9 DEF GroupOutcome
      <4>2. InGroup(db'.members, g) = InGroup(db.members, g) \cup {m}
            /\ MembershipOf(m) = [user |-> r.user, weight |-> 1, pinned |-> FALSE]
        BY <4>1 DEF InGroup, MembershipOf
      <4> HIDE DEF m
      <4>3. MembershipsOf(db', g) = MembershipsOf(db, g)
                \cup {[user |-> r.user, weight |-> 1, pinned |-> FALSE]}
        <5> DEFINE j == [user |-> r.user, weight |-> 1, pinned |-> FALSE]
        <5>1. MembershipOf(m) = j
          BY <4>2
        <5> HIDE DEF j
        <5>2. MembershipsOf(db', g) = MembershipsOf(db, g) \cup {j}
          BY <4>2, <5>1 DEF MembershipsOf
        <5> QED
          BY <5>2 DEF j
      <4>4. \A x \in MembershipsOf(db, g) : x.user # r.user
        BY <4>1 DEF IsUserInGroup, MembershipsOf, MembershipOf, InGroup
      <4>5. Book!Join(g, r.user)
        BY <3>5, <4>3, <4>4 DEF Book!Join
      <4> QED
        BY <1>1, <3>4, <3>9, <4>5 DEF Book!Next, Book!MemberStep
    <3>10. CASE r.op = "RemoveUserFromGroup"
      <4>1. db'.members = {x \in db.members : ~ (x.group = g /\ x.user = r.user)}
        BY <3>10 DEF GroupOutcome
      <4>2. InGroup(db'.members, g) = {x \in InGroup(db.members, g) : x.user # r.user}
        BY <4>1 DEF InGroup
      <4>3. CASE \A x \in InGroup(db.members, g) : x.user # r.user
        BY <3>6, <4>2, <4>3 DEF MembershipsOf
      <4>4. ASSUME NEW x \in InGroup(db.members, g), x.user = r.user
            PROVE  Book!Next
        <5>1. \A y \in InGroup(db.members, g) : y.user = r.user => y = x
          BY <3>13, <4>4
        <5>2. InGroup(db'.members, g) = InGroup(db.members, g) \ {x}
          BY <4>2, <4>4, <5>1
        <5>3. MembershipsOf(db', g) = MembershipsOf(db, g) \ {MembershipOf(x)}
          BY <3>7, <5>2, <3>8 DEF MembershipsOf
        <5>4. MembershipOf(x) \in BookOf(db)[g].members
          BY <3>5, <3>8
        <5>5. Book!Leave(g, MembershipOf(x))
          BY <3>5, <5>3 DEF Book!Leave
        <5> QED
          BY <3>4, <5>4, <5>5 DEF Book!Next, Book!MemberStep
      <4> QED
        BY <4>3, <4>4
    <3>11. CASE r.op = "UpdateUserWeight"
      <4> DEFINE up(x) == [x EXCEPT !.weight = r.weight]
      <4>1. db'.members = {IF x.group = g /\ x.user = r.user THEN up(x) ELSE x :
                               x \in db.members}
        BY <3>11 DEF GroupOutcome
      <4>2. \A x \in InGroup(db.members, g) :
                /\ up(x).group = g
                /\ MembershipOf(up(x)) = [MembershipOf(x) EXCEPT !.weight = r.weight]
        BY <3>8
      <4> HIDE DEF up
      <4>3. InGroup(db'.members, g) = {IF x.user = r.user THEN up(x) ELSE x :
                                           x \in InGroup(db.members, g)}
        BY <4>1, <4>2 DEF InGroup
      <4>4. CASE \A x \in InGroup(db.members, g) : x.user # r.user
        <5>1. InGroup(db'.members, g) = InGroup(db.members, g)
          BY <4>3, <4>4
        <5> QED
          BY <3>6, <5>1 DEF MembershipsOf
      <4>5. ASSUME NEW x \in InGroup(db.members, g), x.user = r.user
            PROVE  Book!Next
        <5>1. \A y \in InGroup(db.members, g) : y.user = r.user => y = x
          BY <3>13, <4>5
        <5>2. InGroup(db'.members, g) = (InGroup(db.members, g) \ {x}) \cup {up(x)}
          BY <4>3, <4>5, <5>1
        <5>3. MembershipsOf(db', g) =
                  (MembershipsOf(db, g) \ {MembershipOf(x)}) \cup {MembershipOf(up(x))}
          BY <3>7, <5>2, <3>8 DEF MembershipsOf
        <5>4. MembershipOf(x) \in BookOf(db)[g].members
          BY <3>5, <3>8
        <5>5. Book!Reweigh(g, MembershipOf(x), r.weight)
          BY <3>5, <4>2, <5>3 DEF Book!Reweigh
        <5> QED
          BY <1>1, <3>4, <3>11, <5>4, <5>5 DEF Book!Next, Book!MemberStep
      <4> QED
        BY <4>4, <4>5
    <3>12. CASE r.op = "SetGroupPinned"
      <4> DEFINE up(x) == [x EXCEPT !.pinned = r.on]
      <4>1. db'.members = {IF x.group = g /\ x.user = r.by THEN up(x) ELSE x :
                               x \in db.members}
        BY <3>12 DEF GroupOutcome
      <4>2. \A x \in InGroup(db.members, g) :
                /\ up(x).group = g
                /\ MembershipOf(up(x)) = [MembershipOf(x) EXCEPT !.pinned = r.on]
        BY <3>8
      <4> HIDE DEF up
      <4>3. InGroup(db'.members, g) = {IF x.user = r.by THEN up(x) ELSE x :
                                           x \in InGroup(db.members, g)}
        BY <4>1, <4>2 DEF InGroup
      <4>4. CASE \A x \in InGroup(db.members, g) : x.user # r.by
        <5>1. InGroup(db'.members, g) = InGroup(db.members, g)
          BY <4>3, <4>4
        <5> QED
          BY <3>6, <5>1 DEF MembershipsOf
      <4>5. ASSUME NEW x \in InGroup(db.members, g), x.user = r.by
            PROVE  Book!Next
        <5>1. \A y \in InGroup(db.members, g) : y.user = r.by => y = x
          BY <3>13, <4>5
        <5>2. InGroup(db'.members, g) = (InGroup(db.members, g) \ {x}) \cup {up(x)}
          BY <4>3, <4>5, <5>1
        <5>3. MembershipsOf(db', g) =
                  (MembershipsOf(db, g) \ {MembershipOf(x)}) \cup {MembershipOf(up(x))}
          BY <3>7, <5>2, <3>8 DEF MembershipsOf
        <5>4. MembershipOf(x) \in BookOf(db)[g].members
          BY <3>5, <3>8
        <5>5. Book!Pin(g, MembershipOf(x), r.on)
          BY <3>5, <4>2, <5>3 DEF Book!Pin
        <5> QED
          BY <1>1, <3>4, <3>12, <5>4, <5>5 DEF Book!Next, Book!MemberStep
      <4> QED
        BY <4>4, <4>5
    <3> QED
      BY <1>10, <3>9, <3>10, <3>11, <3>12
  <2> QED
    BY <2>3, <2>4
<1> QED
  BY <1>1, <1>6, <1>7, <1>8, <1>9, <1>10

----------------------------------------------------------------------------
\* Entries

\* The expense that a request describes.
EntryOf(x) == [id |-> x.id, currency |-> x.currency, payer |-> x.payer,
               for |-> x.beneficiaries]

\* A request of expense.go, transfer.go or conversion.go records, revises or strikes an
\* entry of its group as a whole, or changes nothing.
LEMMA EntryRequestsInTheBook ==
    ASSUME Consistent(db), Consistent(db'), OnePayer(db), NEW r \in EntryRequest,
           EntryOutcome(r, db, db'), Touched(r, db) \subseteq {r.group},
           r.op \in {"CreateTransfer", "UpdateTransfer"} => r.sender # r.receiver,
           r.op \in {"CreateConversion", "UpdateConversion"} => r.from # r.to,
           r.op = "CreateConversions" =>
               r.first.from # r.first.to /\ r.second.from # r.second.to
    PROVE  Book!Next \/ BookOf(db') = BookOf(db)
<1> DEFINE g == r.group
<1>1. /\ g \in Groups
      /\ r.op \in {"CreateExpense", "UpdateExpense"} => r \in ExpenseRequest({r.op})
      /\ r.op \in {"CreateTransfer", "UpdateTransfer"} => r \in TransferRequest({r.op})
      /\ r.op \in {"CreateConversion", "UpdateConversion"} => r \in ConversionRequest({r.op})
      /\ r.op = "BulkCreateExpenses" =>
             /\ r.first \in ExpenseRequest({"CreateExpense"}) /\ r.first.group = g
             /\ r.second \in ExpenseRequest({"CreateExpense"}) /\ r.second.group = g
      /\ r.op = "CreateConversions" =>
             /\ r.first \in ConversionRequest({"CreateConversion"}) /\ r.first.group = g
             /\ r.second \in ConversionRequest({"CreateConversion"}) /\ r.second.group = g
      /\ r.op \in {"CreateExpense", "UpdateExpense", "BulkCreateExpenses", "CreateTransfer",
                   "UpdateTransfer", "CreateConversion", "UpdateConversion",
                   "CreateConversions", "DeleteExpense", "DeleteTransfer",
                   "DeleteConversion"}
  BY DEF EntryRequest, RowRequest, ExpenseRequest, TransferRequest, ConversionRequest,
     TwoRequest
<1>2. \A h : h # g => RowsOf(db', h) = RowsOf(db, h)
  <2>1. Outcome(r, db, db')
    BY DEF Outcome
  <2> QED
    BY <2>1, OthersUntouched DEF Consistent
<1>3. db'.groups = db.groups
  <2>1. CASE r.op = "BulkCreateExpenses"
    BY <2>1 DEF EntryOutcome, WithExpense, ChangesOnly, Tables
  <2>2. CASE r.op = "CreateConversions"
    BY <2>2 DEF EntryOutcome, WithConversion, ChangesOnly, Tables
  <2>3. CASE r.op \notin {"BulkCreateExpenses", "CreateConversions"}
    BY <1>1, <2>3 DEF EntryOutcome, WithExpense, WithConversion, ChangesOnly, Tables
  <2> QED
    BY <2>1, <2>2, <2>3
<1>4. CASE g \notin IdsOf(db.groups)
  BY <1>2, <1>3, <1>4, OnePageChanges
<1>5. CASE g \in IdsOf(db.groups)
  <2>1. PICK old \in db.groups : old.id = g
    BY <1>5 DEF IdsOf
  <2> DEFINE P == PageWith(db, old)
             Q == PageWith(db', old)
             B == BookOf(db)
  <2>2. /\ g \in DOMAIN BookOf(db) /\ BookOf(db)[g] = P
        /\ BookOf(db') = [BookOf(db) EXCEPT ![g] = Q]
    BY <1>2, <1>3, <1>5, <2>1, PageParts, OnePageChanges
  <2>3. Q = P => BookOf(db') = BookOf(db)
    <3>1. BookOf(db) = [h \in DOMAIN BookOf(db) |-> BookOf(db)[h]]
      BY PageParts
    <3> HIDE DEF P, Q
    <3> QED
      BY <2>2, <3>1
  <2>4. /\ P.expenses = ExpensesOf(db, g) /\ P.transfers = TransfersOf(db, g)
        /\ P.conversions = ConversionsOf(db, g)
    BY <2>1 DEF PageWith
  \* One part of the page changes.
  <2>5. ASSUME ChangesOnly(db, db', {"expenses", "payers", "beneficiaries"})
        PROVE  Q = [P EXCEPT !.expenses = ExpensesOf(db', g)]
    BY <2>1, <2>5, PageParts DEF PageWith, ChangesOnly, Tables
  <2>6. ASSUME ChangesOnly(db, db', {"transfers"})
        PROVE  Q = [P EXCEPT !.transfers = TransfersOf(db', g)]
    BY <2>1, <2>6, PageParts DEF PageWith, ChangesOnly, Tables
  <2>7. ASSUME ChangesOnly(db, db', {"conversions"})
        PROVE  Q = [P EXCEPT !.conversions = ConversionsOf(db', g)]
    BY <2>1, <2>7, PageParts DEF PageWith, ChangesOnly, Tables
  <2>8. /\ [P EXCEPT !.expenses = ExpensesOf(db, g)] = P
        /\ [P EXCEPT !.transfers = TransfersOf(db, g)] = P
        /\ [P EXCEPT !.conversions = ConversionsOf(db, g)] = P
    BY <2>1 DEF PageWith
  <2> HIDE DEF P, Q
  \* A new expense
  <2>9. ASSUME NEW x \in ExpenseRequest({"CreateExpense"}), x.group = g,
               NEW b, Consistent(b), NEW c, WithExpense(x, b, c)
        PROVE  /\ ExpensesOf(c, g) = ExpensesOf(b, g) \cup {EntryOf(x)}
               /\ \A f \in ExpensesOf(b, g) : f.id # x.id
    <3> DEFINE row == [id |-> x.id, group |-> x.group, currency |-> x.currency]
    <3>1. /\ x.id \notin IdsOf(b.expenses) /\ c.expenses = b.expenses \cup {row}
          /\ c.payers = b.payers \cup {[expense |-> x.id, user |-> x.payer]}
          /\ c.beneficiaries = b.beneficiaries \cup
                 {[expense |-> x.id, user |-> u] : u \in x.beneficiaries}
      BY <2>9 DEF WithExpense
    <3>2. \A y \in InGroup(b.expenses, g) : y.id # x.id
      BY <3>1 DEF IdsOf, InGroup
    <3>3. ASSUME NEW i, i # x.id
          PROVE  PayersOf(c, i) = PayersOf(b, i) /\ BeneficiariesOf(c, i) = BeneficiariesOf(b, i)
      <4>1. {p \in c.payers : p.expense = i} = {p \in b.payers : p.expense = i}
        BY <3>1, <3>3
      <4>2. {p \in c.beneficiaries : p.expense = i} = {p \in b.beneficiaries : p.expense = i}
        BY <3>1, <3>3
      <4> QED
        BY <4>1, <4>2 DEF PayersOf, BeneficiariesOf
    <3>4. \A y \in InGroup(b.expenses, g) :
              /\ ExpenseOf(c, y) = ExpenseOf(b, y) /\ ExpenseOf(b, y).id # x.id
      BY <3>2, <3>3 DEF ExpenseOf
    <3>5. \A p \in b.payers \cup b.beneficiaries : p.expense # x.id
      BY <2>9, <3>1 DEF Consistent, NoOrphans
    <3>6. PayersOf(c, x.id) = {x.payer}
      <4> DEFINE new == [expense |-> x.id, user |-> x.payer]
      <4>1. c.payers = b.payers \cup {new} /\ new.expense = x.id /\ new.user = x.payer
        BY <3>1
      <4> HIDE DEF new
      <4>2. {p \in c.payers : p.expense = x.id} = {new}
        BY <3>5, <4>1
      <4> QED
        BY <4>1, <4>2 DEF PayersOf
    <3>7. BeneficiariesOf(c, x.id) = x.beneficiaries
      <4> DEFINE new(u) == [expense |-> x.id, user |-> u]
      <4>1. /\ c.beneficiaries = b.beneficiaries \cup {new(u) : u \in x.beneficiaries}
            /\ \A u : new(u).expense = x.id /\ new(u).user = u
        BY <3>1
      <4> HIDE DEF new
      <4>2. \A p \in c.beneficiaries : p.expense = x.id => p.user \in x.beneficiaries
        BY <3>5, <4>1
      <4>3. \A u \in x.beneficiaries : \E p \in c.beneficiaries : p.expense = x.id /\ p.user = u
        BY <4>1
      <4> QED
        BY <4>2, <4>3 DEF BeneficiariesOf
    <3>8. Sole({x.payer}) = x.payer
      BY <2>9 DEF Sole, ExpenseRequest
    <3>9. ExpenseOf(c, row) = EntryOf(x)
      BY <3>6, <3>7, <3>8 DEF ExpenseOf, EntryOf
    <3>10. InGroup(c.expenses, g) = InGroup(b.expenses, g) \cup {row}
      BY <2>9, <3>1 DEF InGroup
    <3> HIDE DEF row
    <3> QED
      BY <3>4, <3>9, <3>10 DEF ExpensesOf
  <2>10. \A x \in ExpenseRequest({"CreateExpense", "UpdateExpense"}) :
             EntryOf(x) \in Book!Expense /\ EntryOf(x).id = x.id
    BY DEF EntryOf, ExpenseRequest, Book!Expense
  <2>17. ASSUME NEW e, NEW f,
                \A x \in ExpensesOf(db, g) : x.id # e.id /\ x.id # f.id,
                ExpensesOf(db', g) = ExpensesOf(db, g) \cup {e, f},
                Q = [P EXCEPT !.expenses = ExpensesOf(db', g)]
         PROVE  Book!RecordExpenses(g, e, f)
    <3>1. Book!New(g, {e, f}, BookOf(db)[g].expenses)
      BY <2>2, <2>4, <2>17 DEF Book!New
    <3> QED
      BY <2>2, <2>4, <2>17, <3>1 DEF Book!RecordExpenses
  <2>18. ASSUME NEW e, NEW f, e.from # e.to, f.from # f.to,
                \A x \in ConversionsOf(db, g) : x.id # e.id /\ x.id # f.id,
                ConversionsOf(db', g) = ConversionsOf(db, g) \cup {e, f},
                Q = [P EXCEPT !.conversions = ConversionsOf(db', g)]
         PROVE  Book!RecordConversions(g, e, f)
    <3>1. Book!New(g, {e, f}, BookOf(db)[g].conversions)
      BY <2>2, <2>4, <2>18 DEF Book!New
    <3> QED
      BY <2>2, <2>4, <2>18, <3>1 DEF Book!RecordConversions
  <2>11. CASE r.op = "CreateExpense"
    <3>1. r \in ExpenseRequest({"CreateExpense"}) /\ WithExpense(r, db, db')
          /\ r \in ExpenseRequest({"CreateExpense", "UpdateExpense"})
      BY <1>1, <2>11 DEF EntryOutcome, ExpenseRequest
    <3>2. /\ ExpensesOf(db', g) = ExpensesOf(db, g) \cup {EntryOf(r)}
          /\ \A f \in ExpensesOf(db, g) : f.id # r.id
      BY <2>9, <3>1
    <3>3. Q = [P EXCEPT !.expenses = ExpensesOf(db', g)]
      BY <2>5, <3>1 DEF WithExpense
    <3>4. Book!RecordExpenses(g, EntryOf(r), EntryOf(r))
      BY <2>17, <2>10, <3>1, <3>2, <3>3, Zenon
    <3> QED
      BY <2>2, <2>10, <3>1, <3>4 DEF Book!Next, Book!EntryStep
  <2>12. CASE r.op = "BulkCreateExpenses"
    <3>1. PICK c : Consistent(c) /\ WithExpense(r.first, db, c) /\ WithExpense(r.second, c, db')
      BY <2>12 DEF EntryOutcome
    <3>2. /\ r.first \in ExpenseRequest({"CreateExpense"}) /\ r.first.group = g
          /\ r.second \in ExpenseRequest({"CreateExpense"}) /\ r.second.group = g
          /\ r.first \in ExpenseRequest({"CreateExpense", "UpdateExpense"})
          /\ r.second \in ExpenseRequest({"CreateExpense", "UpdateExpense"})
      BY <1>1, <2>12 DEF ExpenseRequest
    <3>3. /\ ExpensesOf(c, g) = ExpensesOf(db, g) \cup {EntryOf(r.first)}
          /\ \A f \in ExpensesOf(db, g) : f.id # r.first.id
      BY <2>9, <3>1, <3>2
    <3>4. /\ ExpensesOf(db', g) = ExpensesOf(c, g) \cup {EntryOf(r.second)}
          /\ \A f \in ExpensesOf(c, g) : f.id # r.second.id
      BY <2>9, <3>1, <3>2
    <3>5. ChangesOnly(db, db', {"expenses", "payers", "beneficiaries"})
      BY <3>1 DEF WithExpense, ChangesOnly
    <3>6. Q = [P EXCEPT !.expenses = ExpensesOf(db', g)]
      BY <2>5, <3>5
    <3>7. Book!RecordExpenses(g, EntryOf(r.first), EntryOf(r.second))
      <4>1. ExpensesOf(db', g) = ExpensesOf(db, g) \cup {EntryOf(r.first), EntryOf(r.second)}
            /\ \A f \in ExpensesOf(db, g) : f.id # r.second.id
        BY <3>3, <3>4
      <4> QED
        BY <2>17, <2>10, <3>2, <3>3, <3>6, <4>1, Zenon
    <3> QED
      BY <2>2, <2>10, <3>2, <3>7 DEF Book!Next, Book!EntryStep
  \* The expense that a request names.
  <2>13. CASE r.op \in {"UpdateExpense", "DeleteExpense"}
    <3>1. \A y \in InGroup(db.expenses, g) : ExpenseOf(db, y).id = y.id
      BY DEF ExpenseOf
    <3>2. \A y \in db.expenses : y.id = r.id => y \in InGroup(db.expenses, g)
      BY <2>13 DEF Touched, InGroup
    <3>3. \A y, z \in db.expenses : y.id = z.id => y = z
      BY DEF Consistent, KeysUnique
    <3>4. \A i : i # r.id => /\ {p \in db'.payers : p.expense = i}
                                     = {p \in db.payers : p.expense = i}
                             /\ {p \in db'.beneficiaries : p.expense = i}
                                     = {p \in db.beneficiaries : p.expense = i}
      <4> DEFINE up(p) == [p EXCEPT !.user = r.payer]
      <4>1. \A p \in db.payers : up(p).expense = p.expense
        BY DEF Consistent, Database, PartyRow
      <4>2. CASE r.op = "UpdateExpense"
        <5>1. /\ db'.payers = {IF p.expense = r.id THEN up(p) ELSE p : p \in db.payers}
              /\ db'.beneficiaries = OfOther(db.beneficiaries, r.id) \cup
                     {[expense |-> r.id, user |-> u] : u \in r.beneficiaries}
          BY <4>2 DEF EntryOutcome
        <5> HIDE DEF up
        <5> QED
          BY <4>1, <5>1 DEF OfOther
      <4>3. CASE r.op = "DeleteExpense"
        BY <4>3 DEF EntryOutcome, OfOther
      <4> QED
        BY <2>13, <4>2, <4>3
    <3>5. \A y \in InGroup(db.expenses, g) : y.id # r.id => ExpenseOf(db', y) = ExpenseOf(db, y)
      BY <3>4 DEF ExpenseOf, PayersOf, BeneficiariesOf
    <3>6. Q = [P EXCEPT !.expenses = ExpensesOf(db', g)]
      BY <2>5, <2>13 DEF EntryOutcome
    <3>7. CASE r.op = "UpdateExpense"
      <4> DEFINE up(y) == [y EXCEPT !.currency = r.currency]
      <4>1. /\ r.id \in IdsOf(db.expenses)
            /\ db'.expenses = {IF y.id = r.id THEN up(y) ELSE y : y \in db.expenses}
            /\ db'.payers = {IF p.expense = r.id THEN [p EXCEPT !.user = r.payer] ELSE p :
                                 p \in db.payers}
            /\ db'.beneficiaries = OfOther(db.beneficiaries, r.id) \cup
                   {[expense |-> r.id, user |-> u] : u \in r.beneficiaries}
        BY <3>7 DEF EntryOutcome
      <4>2. PICK x \in InGroup(db.expenses, g) : x.id = r.id
        BY <3>2, <4>1 DEF IdsOf
      <4>3. r \in ExpenseRequest({"CreateExpense", "UpdateExpense"})
        BY <1>1, <3>7 DEF ExpenseRequest
      <4>4. \A y \in db.expenses : up(y).group = y.group /\ up(y).id = y.id
                                   /\ up(y).currency = r.currency
        BY DEF Consistent, Database, ExpenseRow
      <4>5. PayersOf(db', r.id) = {r.payer}
        <5>1. \A p \in db.payers : [p EXCEPT !.user = r.payer].user = r.payer
                                   /\ [p EXCEPT !.user = r.payer].expense = p.expense
          BY DEF Consistent, Database, PartyRow
        <5>2. \E p \in db.payers : p.expense = r.id
          BY <4>2 DEF OnePayer, InGroup
        <5>3. \A p \in db'.payers : p.expense = r.id => p.user = r.payer
          BY <4>1, <5>1
        <5>4. \E p \in db'.payers : p.expense = r.id
          BY <4>1, <5>1, <5>2
        <5> QED
          BY <5>3, <5>4 DEF PayersOf
      <4>6. BeneficiariesOf(db', r.id) = r.beneficiaries
        <5> DEFINE new(u) == [expense |-> r.id, user |-> u]
        <5>1. /\ db'.beneficiaries = OfOther(db.beneficiaries, r.id)
                                         \cup {new(u) : u \in r.beneficiaries}
              /\ \A u : new(u).expense = r.id /\ new(u).user = u
          BY <4>1
        <5> HIDE DEF new
        <5>2. \A p \in db'.beneficiaries : p.expense = r.id => p.user \in r.beneficiaries
          BY <5>1 DEF OfOther
        <5>3. \A u \in r.beneficiaries :
                  \E p \in db'.beneficiaries : p.expense = r.id /\ p.user = u
          BY <5>1
        <5> QED
          BY <5>2, <5>3 DEF BeneficiariesOf
      <4>7. Sole({r.payer}) = r.payer
        BY <4>3 DEF Sole, ExpenseRequest
      <4>8. ExpenseOf(db', up(x)) = EntryOf(r)
        <5>1. up(x).id = r.id /\ up(x).currency = r.currency
          BY <4>2, <4>4 DEF InGroup
        <5> HIDE DEF up
        <5> QED
          BY <4>5, <4>6, <4>7, <5>1 DEF ExpenseOf, EntryOf
      <4> HIDE DEF up
      <4>9. InGroup(db'.expenses, g) = (InGroup(db.expenses, g) \ {x}) \cup {up(x)}
        BY <3>3, <4>1, <4>2, <4>4 DEF InGroup
      <4>10. \A y \in InGroup(db.expenses, g) \ {x} :
                 ExpenseOf(db', y) = ExpenseOf(db, y) /\ ExpenseOf(db, y) # ExpenseOf(db, x)
        BY <3>1, <3>3, <3>5, <4>2 DEF InGroup
      <4>11. /\ ExpensesOf(db', g) = (ExpensesOf(db, g) \ {ExpenseOf(db, x)}) \cup {EntryOf(r)}
             /\ ExpenseOf(db, x) \in ExpensesOf(db, g)
        BY <4>2, <4>8, <4>9, <4>10 DEF ExpensesOf
      <4>12. Book!ReviseExpense(g, ExpenseOf(db, x), EntryOf(r))
        BY <2>2, <2>4, <2>10, <3>1, <3>6, <4>2, <4>3, <4>11 DEF Book!ReviseExpense
      <4> QED
        BY <2>2, <2>4, <2>10, <4>3, <4>11, <4>12 DEF Book!Next, Book!EntryStep
    <3>8. CASE r.op = "DeleteExpense"
      <4>1. db'.expenses = {y \in db.expenses : y.id # r.id}
        BY <3>8 DEF EntryOutcome
      <4>2. InGroup(db'.expenses, g) = {y \in InGroup(db.expenses, g) : y.id # r.id}
        BY <4>1 DEF InGroup
      <4>3. CASE \A y \in InGroup(db.expenses, g) : y.id # r.id
        <5>1. ExpensesOf(db', g) = ExpensesOf(db, g)
          BY <3>5, <4>2, <4>3 DEF ExpensesOf
        <5> QED
          BY <2>3, <2>8, <3>6, <5>1
      <4>4. ASSUME NEW x \in InGroup(db.expenses, g), x.id = r.id
            PROVE  Book!Next
        <5>1. InGroup(db'.expenses, g) = InGroup(db.expenses, g) \ {x}
          BY <3>3, <4>2, <4>4 DEF InGroup
        <5>2. \A y \in InGroup(db.expenses, g) \ {x} :
                  ExpenseOf(db', y) = ExpenseOf(db, y) /\ ExpenseOf(db, y) # ExpenseOf(db, x)
          BY <3>1, <3>3, <3>5, <4>4 DEF InGroup
        <5>3. /\ ExpensesOf(db', g) = ExpensesOf(db, g) \ {ExpenseOf(db, x)}
              /\ ExpenseOf(db, x) \in ExpensesOf(db, g)
          BY <4>4, <5>1, <5>2 DEF ExpensesOf
        <5>4. Book!StrikeExpense(g, ExpenseOf(db, x))
          BY <2>2, <2>4, <3>6, <5>3 DEF Book!StrikeExpense
        <5> QED
          BY <2>2, <2>4, <5>3, <5>4 DEF Book!Next, Book!EntryStep
      <4> QED
        BY <4>3, <4>4
    <3> QED
      BY <2>13, <3>7, <3>8
  <2>14. CASE r.op \in {"CreateTransfer", "UpdateTransfer", "DeleteTransfer"}
    <3> DEFINE E == [id |-> r.id, sender |-> r.sender, receiver |-> r.receiver]
    <3>1. Q = [P EXCEPT !.transfers = TransfersOf(db', g)]
      BY <2>6, <2>14 DEF EntryOutcome
    <3>2. \A y, z \in InGroup(db.transfers, g) :
              TransferOf(y).id = y.id /\ (TransferOf(y) = TransferOf(z) => y = z)
      BY DEF TransferOf, InGroup, Consistent, KeysUnique
    <3>3. r.op # "DeleteTransfer" => E \in Book!Transfer /\ r.sender # r.receiver
      BY <1>1, <2>14 DEF TransferRequest, Book!Transfer
    <3>4. E.id = r.id /\ E.sender = r.sender /\ E.receiver = r.receiver
      OBVIOUS
    <3>5. CASE r.op = "CreateTransfer"
      <4> DEFINE row == [id |-> r.id, group |-> g, sender |-> r.sender,
                         receiver |-> r.receiver]
      <4>1. r.id \notin IdsOf(db.transfers) /\ db'.transfers = db.transfers \cup {row}
        BY <3>5 DEF EntryOutcome
      <4>2. InGroup(db'.transfers, g) = InGroup(db.transfers, g) \cup {row}
        BY <4>1 DEF InGroup
      <4>3. TransferOf(row) = E
        BY DEF TransferOf
      <4> HIDE DEF row, E
      <4>4. TransfersOf(db', g) = TransfersOf(db, g) \cup {E}
        BY <4>2, <4>3 DEF TransfersOf
      <4>5. \A f \in TransfersOf(db, g) : f.id # r.id
        BY <3>2, <4>1 DEF TransfersOf, IdsOf, InGroup
      <4>6. Book!RecordTransfer(g, E)
        BY <2>2, <2>4, <3>1, <3>3, <3>4, <3>5, <4>4, <4>5 DEF Book!RecordTransfer, Book!New
      <4> QED
        BY <2>2, <3>3, <3>5, <4>6 DEF Book!Next, Book!EntryStep
    <3>6. CASE r.op = "UpdateTransfer"
      <4> DEFINE up(y) == [y EXCEPT !.sender = r.sender, !.receiver = r.receiver]
      <4>1. /\ r.id \in IdsOf(db.transfers)
            /\ db'.transfers = {IF y.id = r.id THEN up(y) ELSE y : y \in db.transfers}
        BY <3>6 DEF EntryOutcome
      <4>2. PICK x \in InGroup(db.transfers, g) : x.id = r.id
        BY <3>6, <4>1 DEF Touched, InGroup, IdsOf
      <4>3. \A y \in db.transfers :
                /\ up(y).group = y.group /\ up(y).id = y.id
                /\ up(y).sender = r.sender /\ up(y).receiver = r.receiver
        BY DEF Consistent, Database, TransferRow
      <4>4. TransferOf(up(x)) = E
        BY <4>2, <4>3 DEF TransferOf, InGroup
      <4> HIDE DEF up, E
      <4>5. InGroup(db'.transfers, g) = (InGroup(db.transfers, g) \ {x}) \cup {up(x)}
        <5>1. \A y, z \in db.transfers : y.id = z.id => y = z
          BY DEF Consistent, KeysUnique
        <5> QED
          BY <4>1, <4>2, <4>3, <5>1 DEF InGroup
      <4>6. /\ TransfersOf(db', g) = (TransfersOf(db, g) \ {TransferOf(x)}) \cup {E}
            /\ TransferOf(x) \in TransfersOf(db, g)
        BY <3>2, <4>2, <4>4, <4>5 DEF TransfersOf
      <4>7. Book!ReviseTransfer(g, TransferOf(x), E)
        BY <2>2, <2>4, <3>1, <3>2, <3>3, <3>4, <3>6, <4>2, <4>6 DEF Book!ReviseTransfer
      <4> QED
        BY <2>2, <2>4, <3>3, <3>6, <4>6, <4>7 DEF Book!Next, Book!EntryStep
    <3>7. CASE r.op = "DeleteTransfer"
      <4>1. db'.transfers = {y \in db.transfers : y.id # r.id}
        BY <3>7 DEF EntryOutcome
      <4>2. InGroup(db'.transfers, g) = {y \in InGroup(db.transfers, g) : y.id # r.id}
        BY <4>1 DEF InGroup
      <4>3. CASE \A y \in InGroup(db.transfers, g) : y.id # r.id
        <5>1. TransfersOf(db', g) = TransfersOf(db, g)
          BY <4>2, <4>3 DEF TransfersOf
        <5> QED
          BY <2>3, <2>8, <3>1, <5>1
      <4>4. ASSUME NEW x \in InGroup(db.transfers, g), x.id = r.id
            PROVE  Book!Next
        <5>1. InGroup(db'.transfers, g) = InGroup(db.transfers, g) \ {x}
          BY <4>2, <4>4 DEF InGroup, Consistent, KeysUnique
        <5>2. /\ TransfersOf(db', g) = TransfersOf(db, g) \ {TransferOf(x)}
              /\ TransferOf(x) \in TransfersOf(db, g)
          BY <3>2, <4>4, <5>1 DEF TransfersOf
        <5>3. Book!StrikeTransfer(g, TransferOf(x))
          BY <2>2, <2>4, <3>1, <5>2 DEF Book!StrikeTransfer
        <5> QED
          BY <2>2, <2>4, <5>2, <5>3 DEF Book!Next, Book!EntryStep
      <4> QED
        BY <4>3, <4>4
    <3> QED
      BY <2>14, <3>5, <3>6, <3>7
  <2>15. CASE r.op \in {"CreateConversion", "CreateConversions", "UpdateConversion",
                        "DeleteConversion"}
    <3> DEFINE E(x) == [id |-> x.id, from |-> x.from, to |-> x.to]
    <3>1. Q = [P EXCEPT !.conversions = ConversionsOf(db', g)]
      <4>1. CASE r.op = "CreateConversions"
        BY <2>7, <4>1 DEF EntryOutcome, WithConversion, ChangesOnly
      <4>2. CASE r.op # "CreateConversions"
        BY <2>7, <2>15, <4>2 DEF EntryOutcome, WithConversion
      <4> QED
        BY <4>1, <4>2
    <3>2. \A y, z \in InGroup(db.conversions, g) :
              ConversionOf(y).id = y.id /\ (ConversionOf(y) = ConversionOf(z) => y = z)
      BY DEF ConversionOf, InGroup, Consistent, KeysUnique
    <3>3. \A x : E(x).id = x.id /\ E(x).from = x.from /\ E(x).to = x.to
      OBVIOUS
    <3>4. \A x \in ConversionRequest({"CreateConversion", "UpdateConversion"}) :
              E(x) \in Book!Conversion
      BY DEF ConversionRequest, Book!Conversion
    <3>5. ASSUME NEW x, x.group = g, NEW b, NEW c, WithConversion(x, b, c)
          PROVE  /\ ConversionsOf(c, g) = ConversionsOf(b, g) \cup {E(x)}
                 /\ \A f \in ConversionsOf(b, g) : f.id # x.id
      <4> DEFINE row == [id |-> x.id, group |-> x.group, from |-> x.from, to |-> x.to]
      <4>1. x.id \notin IdsOf(b.conversions) /\ c.conversions = b.conversions \cup {row}
        BY <3>5 DEF WithConversion
      <4>2. InGroup(c.conversions, g) = InGroup(b.conversions, g) \cup {row}
        BY <3>5, <4>1 DEF InGroup
      <4>3. ConversionOf(row) = E(x)
        BY DEF ConversionOf
      <4>4. \A f \in ConversionsOf(b, g) : f.id # x.id
        BY <4>1 DEF ConversionsOf, ConversionOf, IdsOf, InGroup
      <4> HIDE DEF row, E
      <4>5. ConversionsOf(c, g) = ConversionsOf(b, g) \cup {E(x)}
        BY <4>2, <4>3 DEF ConversionsOf
      <4> QED
        BY <4>4, <4>5
    <3>6. CASE r.op = "CreateConversion"
      <4>1. r \in ConversionRequest({"CreateConversion", "UpdateConversion"})
            /\ WithConversion(r, db, db')
        BY <1>1, <3>6 DEF EntryOutcome, ConversionRequest
      <4> HIDE DEF E
      <4>2. /\ ConversionsOf(db', g) = ConversionsOf(db, g) \cup {E(r)}
            /\ \A f \in ConversionsOf(db, g) : f.id # r.id
        BY <3>5, <4>1
      <4>3. Book!RecordConversions(g, E(r), E(r))
        <5>1. /\ E(r).id = r.id /\ E(r).from # E(r).to
              /\ ConversionsOf(db', g) = ConversionsOf(db, g) \cup {E(r), E(r)}
          BY <3>3, <3>6, <4>2
        <5> QED
          BY <2>18, <3>1, <4>2, <5>1
      <4> QED
        BY <2>2, <3>4, <4>1, <4>3 DEF Book!Next, Book!EntryStep
    <3>7. CASE r.op = "CreateConversions"
      <4>1. PICK c : WithConversion(r.first, db, c) /\ WithConversion(r.second, c, db')
        BY <3>7 DEF EntryOutcome
      <4>2. /\ r.first \in ConversionRequest({"CreateConversion", "UpdateConversion"})
            /\ r.second \in ConversionRequest({"CreateConversion", "UpdateConversion"})
            /\ r.first.group = g /\ r.second.group = g
        BY <1>1, <3>7 DEF ConversionRequest
      <4> HIDE DEF E
      <4>3. /\ ConversionsOf(c, g) = ConversionsOf(db, g) \cup {E(r.first)}
            /\ \A f \in ConversionsOf(db, g) : f.id # r.first.id
        BY <3>5, <4>1, <4>2
      <4>4. /\ ConversionsOf(db', g) = ConversionsOf(c, g) \cup {E(r.second)}
            /\ \A f \in ConversionsOf(c, g) : f.id # r.second.id
        BY <3>5, <4>1, <4>2
      <4>5. Book!RecordConversions(g, E(r.first), E(r.second))
        <5>1. /\ E(r.first).id = r.first.id /\ E(r.first).from # E(r.first).to
              /\ E(r.second).id = r.second.id /\ E(r.second).from # E(r.second).to
          BY <3>3, <3>7
        <5>2. /\ ConversionsOf(db', g) = ConversionsOf(db, g) \cup {E(r.first), E(r.second)}
              /\ \A f \in ConversionsOf(db, g) : f.id # r.first.id /\ f.id # r.second.id
          BY <4>3, <4>4
        <5> QED
          BY <2>18, <3>1, <5>1, <5>2
      <4> QED
        BY <2>2, <3>4, <4>2, <4>5 DEF Book!Next, Book!EntryStep
    <3>8. CASE r.op = "UpdateConversion"
      <4> DEFINE up(y) == [y EXCEPT !.from = r.from, !.to = r.to]
      <4>1. /\ r.id \in IdsOf(db.conversions)
            /\ db'.conversions = {IF y.id = r.id THEN up(y) ELSE y : y \in db.conversions}
        BY <3>8 DEF EntryOutcome
      <4>2. PICK x \in InGroup(db.conversions, g) : x.id = r.id
        BY <3>8, <4>1 DEF Touched, InGroup, IdsOf
      <4>3. \A y \in db.conversions :
                /\ up(y).group = y.group /\ up(y).id = y.id
                /\ up(y).from = r.from /\ up(y).to = r.to
        BY DEF Consistent, Database, ConversionRow
      <4>4. ConversionOf(up(x)) = E(r)
        BY <4>2, <4>3 DEF ConversionOf, InGroup
      <4>0. E(r) \in Book!Conversion
        BY <1>1, <3>4, <3>8 DEF ConversionRequest
      <4> HIDE DEF up, E
      <4>5. InGroup(db'.conversions, g) = (InGroup(db.conversions, g) \ {x}) \cup {up(x)}
        <5>1. \A y, z \in db.conversions : y.id = z.id => y = z
          BY DEF Consistent, KeysUnique
        <5> QED
          BY <4>1, <4>2, <4>3, <5>1 DEF InGroup
      <4>6. /\ ConversionsOf(db', g) = (ConversionsOf(db, g) \ {ConversionOf(x)}) \cup {E(r)}
            /\ ConversionOf(x) \in ConversionsOf(db, g)
        BY <3>2, <4>2, <4>4, <4>5 DEF ConversionsOf
      <4>7. Book!ReviseConversion(g, ConversionOf(x), E(r))
        BY <2>2, <2>4, <3>1, <3>2, <3>3, <3>8, <4>2, <4>6 DEF Book!ReviseConversion
      <4> QED
        BY <2>2, <2>4, <4>0, <4>6, <4>7 DEF Book!Next, Book!EntryStep
    <3>9. CASE r.op = "DeleteConversion"
      <4>1. db'.conversions = {y \in db.conversions : y.id # r.id}
        BY <3>9 DEF EntryOutcome
      <4>2. InGroup(db'.conversions, g) = {y \in InGroup(db.conversions, g) : y.id # r.id}
        BY <4>1 DEF InGroup
      <4>3. CASE \A y \in InGroup(db.conversions, g) : y.id # r.id
        <5>1. ConversionsOf(db', g) = ConversionsOf(db, g)
          BY <4>2, <4>3 DEF ConversionsOf
        <5> QED
          BY <2>3, <2>8, <3>1, <5>1
      <4>4. ASSUME NEW x \in InGroup(db.conversions, g), x.id = r.id
            PROVE  Book!Next
        <5>1. InGroup(db'.conversions, g) = InGroup(db.conversions, g) \ {x}
          BY <4>2, <4>4 DEF InGroup, Consistent, KeysUnique
        <5>2. /\ ConversionsOf(db', g) = ConversionsOf(db, g) \ {ConversionOf(x)}
              /\ ConversionOf(x) \in ConversionsOf(db, g)
          BY <3>2, <4>4, <5>1 DEF ConversionsOf
        <5>3. Book!StrikeConversion(g, ConversionOf(x))
          BY <2>2, <2>4, <3>1, <5>2 DEF Book!StrikeConversion
        <5> QED
          BY <2>2, <2>4, <5>2, <5>3 DEF Book!Next, Book!EntryStep
      <4> QED
        BY <4>3, <4>4
    <3> QED
      BY <2>15, <3>6, <3>7, <3>8, <3>9
  <2> QED
    BY <1>1, <2>11, <2>12, <2>13, <2>14, <2>15
<1> QED
  BY <1>4, <1>5

----------------------------------------------------------------------------
\* The refinement

\* Whatever is committed is a well-kept book: every page has its parts, the default
\* currency is listed and nobody is a member twice.
THEOREM BookWellKept == Spec => []Book!TypeOK
<1>1. ASSUME WInv
      PROVE  Book!TypeOK
  <2>1. /\ Consistent(db) /\ db \in Database /\ OnePayer(db) /\ DefaultListed(db)
        /\ NoOrphans(db) /\ KeysUnique(db)
    BY <1>1 DEF WInv, IInv, Consistent
  <2>2. DOMAIN BookOf(db) \subseteq Groups
    BY <2>1 DEF BookOf, IdsOf, Database, GroupRow
  <2>3. ASSUME NEW g \in DOMAIN BookOf(db)
        PROVE  BookOf(db)[g] \in Book!Page /\ Book!WellKept(BookOf(db)[g])
    <3>1. PICK row \in db.groups : row.id = g
      BY <2>3 DEF BookOf, IdsOf
    <3>2. BookOf(db)[g] = PageWith(db, row)
      BY <2>1, <3>1, PageParts
    <3>3. CurrenciesOf(db, g) \subseteq Currencies /\ row.default \in CurrenciesOf(db, g)
      <4>1. [group |-> g, currency |-> row.default] \in InGroup(db.currencies, g)
            /\ [group |-> g, currency |-> row.default].currency = row.default
        BY <2>1, <3>1 DEF DefaultListed, InGroup
      <4> QED
        BY <2>1, <4>1 DEF CurrenciesOf, InGroup, Database, CurrencyRow
    <3>4. /\ MembershipsOf(db, g) \subseteq Book!Membership
          /\ \A x, y \in MembershipsOf(db, g) : x.user = y.user => x = y
      <4>1. \A x \in db.members :
                MembershipOf(x) \in Book!Membership /\ MembershipOf(x).user = x.user
        BY <2>1 DEF MembershipOf, Book!Membership, Database, MemberRow
      <4>2. \A x, y \in InGroup(db.members, g) : x.user = y.user => x = y
        BY <2>1 DEF InGroup, KeysUnique
      <4> QED
        BY <4>1, <4>2 DEF MembershipsOf, InGroup
    <3>5. ExpensesOf(db, g) \subseteq Book!Expense
      <4>1. ASSUME NEW x \in db.expenses
            PROVE  ExpenseOf(db, x) \in Book!Expense
        <5>1. PICK p \in db.payers : p.expense = x.id
          BY <2>1 DEF OnePayer
        <5>2. PayersOf(db, x.id) = {p.user} /\ p.user \in Users
          BY <2>1, <5>1 DEF PayersOf, OnePayer, Database, PartyRow
        <5>3. Sole(PayersOf(db, x.id)) \in Users
          BY <5>2 DEF Sole
        <5>4. BeneficiariesOf(db, x.id) \subseteq Users
          BY <2>1 DEF BeneficiariesOf, Database, PartyRow
        <5>5. x.id \in Rows /\ x.currency \in Currencies
          BY <2>1 DEF Database, ExpenseRow
        <5> QED
          BY <5>3, <5>4, <5>5 DEF ExpenseOf, Book!Expense
      <4> QED
        BY <4>1 DEF ExpensesOf, InGroup
    <3>6. TransfersOf(db, g) \subseteq Book!Transfer
      BY <2>1 DEF TransfersOf, TransferOf, InGroup, Book!Transfer, Database, TransferRow
    <3>7. ConversionsOf(db, g) \subseteq Book!Conversion
      BY <2>1 DEF ConversionsOf, ConversionOf, InGroup, Book!Conversion, Database,
         ConversionRow
    <3>8. row.creator \in Users /\ row.default \in Currencies /\ row.archived \in BOOLEAN
      BY <2>1 DEF Database, GroupRow
    <3> QED
      BY <3>1, <3>2, <3>3, <3>4, <3>5, <3>6, <3>7, <3>8
         DEF PageWith, Book!Page, Book!WellKept
  <2> QED
    BY <2>2, <2>3 DEF Book!TypeOK
<1> QED
  BY <1>1, WInvHolds, PTL

\* The services implement the book: a reader who sees only what is committed sees each
\* request take effect at once and as a whole, or not at all.
THEOREM BookImplemented == Spec => ImplementsGroupBook
<1>1. ASSUME WInv, [Next]_vars
      PROVE  Book!Next \/ BookOf(db') = BookOf(db)
  <2>1. CASE \E t \in Threads, r \in Requests : Receive(t, r)
    BY <2>1 DEF Receive
  <2>2. CASE Quiet
    BY <2>2 DEF Quiet
  <2>3. ASSUME NEW t \in Threads, CarriesOut(t)
        PROVE  Book!Next \/ BookOf(db') = BookOf(db)
    <3> DEFINE r == thr[t].req
    <3>1. IInv /\ IInv' /\ OnePayer(db)
      BY <1>1, StepIInv DEF WInv
    <3>2. Consistent(db) /\ Consistent(db')
      BY <3>1 DEF IInv
    <3>3. r \in GroupRequest \cup EntryRequest /\ r.op # "GetBalance"
      <4>1. Handled(t) /\ Busy(t)
        BY <2>3 DEF CarriesOut, Handled, At, Busy
      <4>2. thr[t] \in BusyState
        BY <3>1, <4>1, BusyThread DEF IInv
      <4> QED
        BY <3>1, <4>1, <4>2, LedgerAssumption DEF BusyState, Handled, IInv
    <3>4. Vetted(r, since[t])
      BY <2>3, <3>3, ChecksEstablish DEF CarriesOut
    <3>5. Touched(r, db) \subseteq {r.group}
      BY <1>1, <2>3 DEF WInv, IdsUsedOnce, CarriesOut, Handled, At, Busy
    <3>6. Outcome(r, db, db')
      BY <2>3 DEF CarriesOut
    <3> HIDE DEF r
    <3>7. CASE r \in GroupRequest /\ GroupOutcome(r, db, db')
      BY <3>2, <3>3, <3>4, <3>7, GroupRequestsInTheBook DEF Vetted
    <3>8. CASE r \in EntryRequest /\ EntryOutcome(r, db, db')
      BY <3>1, <3>2, <3>4, <3>5, <3>8, EntryRequestsInTheBook DEF Vetted
    <3> QED
      BY <3>6, <3>7, <3>8 DEF Outcome
  <2> QED
    BY <1>1, <2>1, <2>2, <2>3, StepKinds
<1>2. WInv /\ [Next]_vars => [Book!Next]_(BookOf(db))
  BY <1>1
<1>3. Book!TypeOK => Book!Init
  BY DEF Book!Init
<1> QED
  BY <1>2, <1>3, WInvHolds, BookWellKept, PTL DEF Spec, ImplementsGroupBook, Book!Spec

=============================================================================
