-------------------------------- MODULE Store --------------------------------
(***************************************************************************)
(* The SQLite database as db/schema and db/queries define it: a table is a *)
(* set of rows, a query an operator from databases to databases, together  *)
(* with the constraints under which SQLite accepts it.                     *)
(*                                                                         *)
(* Names, descriptions, amounts, rates and dates are left out: no property *)
(* of the stored rows depends on them (module GroupHistory computes with   *)
(* them).  The constraint on group names, and whatever else may make a     *)
(* statement fail, is covered by GiveUp in module Ledger.                  *)
(***************************************************************************)
EXTENDS Integers, FiniteSets

CONSTANTS Groups, Rows,          \* ids: random uuids
          Users, Currencies, Weights

ASSUME StoreAssumption == 1 \in Weights

GroupRow      == [id : Groups, creator : Users, default : Currencies, archived : BOOLEAN]
MemberRow     == [group : Groups, user : Users, weight : Weights, pinned : BOOLEAN]
CurrencyRow   == [group : Groups, currency : Currencies]
ExpenseRow    == [id : Rows, group : Groups, currency : Currencies]
PartyRow      == [expense : Rows, user : Users]
TransferRow   == [id : Rows, group : Groups, sender : Users, receiver : Users]
ConversionRow == [id : Rows, group : Groups, from : Currencies, to : Currencies]

Database ==
    [groups : SUBSET GroupRow, members : SUBSET MemberRow,
     currencies : SUBSET CurrencyRow, expenses : SUBSET ExpenseRow,
     payers : SUBSET PartyRow, beneficiaries : SUBSET PartyRow,
     transfers : SUBSET TransferRow, conversions : SUBSET ConversionRow]

EmptyDatabase ==
    [groups |-> {}, members |-> {}, currencies |-> {}, expenses |-> {}, payers |-> {},
     beneficiaries |-> {}, transfers |-> {}, conversions |-> {}]

IdsOf(T) == {r.id : r \in T}
InGroup(T, g) == {r \in T : r.group = g}
OutsideGroup(T, g) == {r \in T : r.group # g}
OfOther(T, i) == {r \in T : r.expense # i}

GroupExists(d, g) == \E r \in d.groups : r.id = g
IsUserInGroup(d, g, u) == \E r \in d.members : r.group = g /\ r.user = u
IsGroupArchived(d, g) == \E r \in d.groups : r.id = g /\ r.archived
MembersOf(d, g) == {r.user : r \in InGroup(d.members, g)}

----------------------------------------------------------------------------
\* groups.sql

CreateGroup(d, g, u, cur) ==
    [d EXCEPT !.groups = @ \cup {[id |-> g, creator |-> u, default |-> cur,
                                  archived |-> FALSE]}]

UpdateGroup(d, g, cur) ==
    [d EXCEPT !.groups = {IF r.id = g THEN [r EXCEPT !.default = cur] ELSE r : r \in @}]

SetGroupArchived(d, g, on) ==
    [d EXCEPT !.groups = {IF r.id = g THEN [r EXCEPT !.archived = on] ELSE r : r \in @}]

\* Mutant: the rows of the group's expenses are left behind.
DeleteGroupOnly(d, g) ==
    [d EXCEPT !.groups        = {r \in @ : r.id # g},
              !.members       = OutsideGroup(@, g),
              !.currencies    = OutsideGroup(@, g),
              !.expenses      = OutsideGroup(@, g),
              !.transfers     = OutsideGroup(@, g),
              !.conversions   = OutsideGroup(@, g)]

\* ON DELETE CASCADE reaches every table.
DeleteGroup(d, g) ==
    LET gone == IdsOf(InGroup(d.expenses, g))
    IN  [d EXCEPT !.groups        = {r \in @ : r.id # g},
                  !.members       = OutsideGroup(@, g),
                  !.currencies    = OutsideGroup(@, g),
                  !.expenses      = OutsideGroup(@, g),
                  !.payers        = {r \in @ : r.expense \notin gone},
                  !.beneficiaries = {r \in @ : r.expense \notin gone},
                  !.transfers     = OutsideGroup(@, g),
                  !.conversions   = OutsideGroup(@, g)]

AddUserToGroup(d, g, u) ==
    [d EXCEPT !.members = @ \cup {[group |-> g, user |-> u, weight |-> 1,
                                   pinned |-> FALSE]}]

RemoveUserFromGroup(d, g, u) ==
    [d EXCEPT !.members = {r \in @ : ~ (r.group = g /\ r.user = u)}]

UpdateUserWeight(d, g, u, w) ==
    [d EXCEPT !.members = {IF r.group = g /\ r.user = u
                           THEN [r EXCEPT !.weight = w] ELSE r : r \in @}]

SetGroupPinned(d, g, u, on) ==
    [d EXCEPT !.members = {IF r.group = g /\ r.user = u
                           THEN [r EXCEPT !.pinned = on] ELSE r : r \in @}]

ClearGroupCurrencies(d, g) == [d EXCEPT !.currencies = OutsideGroup(@, g)]

BulkAddGroupCurrencies(d, g, C) ==
    [d EXCEPT !.currencies = @ \cup {[group |-> g, currency |-> c] : c \in C}]

\* expenses.sql and db/helpers.go

CreateExpense(d, i, g, cur) ==
    [d EXCEPT !.expenses = @ \cup {[id |-> i, group |-> g, currency |-> cur]}]

CreateExpensePayer(d, i, u) ==
    [d EXCEPT !.payers = @ \cup {[expense |-> i, user |-> u]}]

CreateExpenseBeneficiariesBatch(d, i, U) ==
    [d EXCEPT !.beneficiaries = @ \cup {[expense |-> i, user |-> u] : u \in U}]

UpdateExpense(d, i, cur) ==
    [d EXCEPT !.expenses = {IF r.id = i THEN [r EXCEPT !.currency = cur] ELSE r : r \in @}]

UpdateExpensePayer(d, i, u) ==
    [d EXCEPT !.payers = {IF r.expense = i THEN [r EXCEPT !.user = u] ELSE r : r \in @}]

\* Mutant: the WHERE clause forgotten.
DeleteAllBeneficiaries(d, i) == [d EXCEPT !.beneficiaries = {}]

DeleteExpenseBeneficiaries(d, i) == [d EXCEPT !.beneficiaries = OfOther(@, i)]

DeleteExpense(d, i) ==
    [d EXCEPT !.expenses      = {r \in @ : r.id # i},
              !.payers        = OfOther(@, i),
              !.beneficiaries = OfOther(@, i)]

\* transfers.sql and conversions.sql

CreateTransfer(d, i, g, u, v) ==
    [d EXCEPT !.transfers = @ \cup {[id |-> i, group |-> g, sender |-> u, receiver |-> v]}]

UpdateTransfer(d, i, u, v) ==
    [d EXCEPT !.transfers = {IF r.id = i THEN [r EXCEPT !.sender = u, !.receiver = v]
                             ELSE r : r \in @}]

DeleteTransfer(d, i) == [d EXCEPT !.transfers = {r \in @ : r.id # i}]

CreateCurrencyConversion(d, i, g, x, y) ==
    [d EXCEPT !.conversions = @ \cup {[id |-> i, group |-> g, from |-> x, to |-> y]}]

UpdateCurrencyConversion(d, i, x, y) ==
    [d EXCEPT !.conversions = {IF r.id = i THEN [r EXCEPT !.from = x, !.to = y]
                               ELSE r : r \in @}]

DeleteCurrencyConversion(d, i) == [d EXCEPT !.conversions = {r \in @ : r.id # i}]

----------------------------------------------------------------------------
\* What keeps the tables consistent with each other

\* Foreign keys.
NoOrphans(d) ==
    /\ \A r \in d.members \cup d.currencies \cup d.expenses \cup d.transfers
               \cup d.conversions : GroupExists(d, r.group)
    /\ \A r \in d.payers \cup d.beneficiaries : r.expense \in IdsOf(d.expenses)

\* Primary keys; currencies and beneficiaries are their own key here.
KeysUnique(d) ==
    /\ \A r, s \in d.groups : r.id = s.id => r = s
    /\ \A r, s \in d.members : (r.group = s.group /\ r.user = s.user) => r = s
    /\ \A r, s \in d.expenses : r.id = s.id => r = s
    /\ \A r, s \in d.transfers : r.id = s.id => r = s
    /\ \A r, s \in d.conversions : r.id = s.id => r = s

\* Every expense was paid by exactly one user: the inner join of GetGroupExpenses
\* returns each expense that has beneficiaries once.
OnePayer(d) ==
    \A e \in d.expenses :
        /\ \E p \in d.payers : p.expense = e.id
        /\ \A p, q \in d.payers : (p.expense = e.id /\ q.expense = e.id) => p = q

\* A group's default currency is one of its currencies.
DefaultListed(d) ==
    \A g \in d.groups : [group |-> g.id, currency |-> g.default] \in d.currencies

=============================================================================
