------------------------------- MODULE MCLedger -------------------------------
(* Small instances of Ledger for TLC. *)
EXTENDS Ledger, TLC

CONSTANTS g1, alice, bob, EUR, USD, r1, r2

\* A group of alice's with both as members.
Home ==
    [EmptyDatabase EXCEPT
        !.groups = {[id |-> g1, creator |-> alice, default |-> EUR, archived |-> FALSE]},
        !.members = {[group |-> g1, user |-> u, weight |-> 1, pinned |-> FALSE] :
                         u \in {alice, bob}},
        !.currencies = {[group |-> g1, currency |-> EUR]}]

\* ... where bob has paid once.
HomeWithExpense ==
    [Home EXCEPT
        !.expenses = {[id |-> r1, group |-> g1, currency |-> EUR]},
        !.payers = {[expense |-> r1, user |-> bob]},
        !.beneficiaries = {[expense |-> r1, user |-> alice], [expense |-> r1, user |-> bob]}]

----------------------------------------------------------------------------
\* Requests about groups, and about what a group contains

Create(g, u, cur, C) ==
    [op |-> "CreateExpenseGroup", group |-> g, user |-> u, default |-> cur, currencies |-> C]
Update(g, cur, C) ==
    [op |-> "UpdateGroup", group |-> g, default |-> cur, currencies |-> C]
OfMember(name, g, u) == [op |-> name, group |-> g, user |-> u]
By(name, g, u) == [op |-> name, group |-> g, by |-> u]
Set(name, g, u, on) == [op |-> name, group |-> g, by |-> u, on |-> on]
Weight(g, u, w) == [op |-> "UpdateUserWeight", group |-> g, user |-> u, weight |-> w]

Expense(name, i, g, cur, u, U) ==
    [op |-> name, id |-> i, group |-> g, currency |-> cur, payer |-> u, beneficiaries |-> U]
Transfer(name, i, g, u, v) ==
    [op |-> name, id |-> i, group |-> g, sender |-> u, receiver |-> v]
Conversion(name, i, g, x, y) ==
    [op |-> name, id |-> i, group |-> g, from |-> x, to |-> y]
Row(name, i, g) == [op |-> name, id |-> i, group |-> g]
Two(name, first, second) ==
    [op |-> name, group |-> first.group, first |-> first, second |-> second]

----------------------------------------------------------------------------
\* Groups: a group is founded, described, joined, left, archived and deleted.

GroupRequests ==
    { Create(g1, alice, EUR, {EUR}), Create(g1, alice, USD, {EUR}),
      Update(g1, USD, {USD}), Update(g1, EUR, {EUR, USD}),
      Update(g1, USD, {EUR}),
      By("DeleteGroup", g1, alice), By("DeleteGroup", g1, bob),
      OfMember("AddUserToGroup", g1, bob), OfMember("RemoveUserFromGroup", g1, bob),
      Weight(g1, bob, 2), Set("SetGroupPinned", g1, bob, TRUE),
      Set("SetGroupArchived", g1, alice, TRUE),
      Set("SetGroupArchived", g1, alice, FALSE),
      Set("SetGroupArchived", g1, bob, TRUE), [op |-> "GetBalance", group |-> g1] }

\* Entries: expenses, transfers and conversions recorded, edited and deleted.
EntryRequests ==
    { Expense("UpdateExpense", r1, g1, USD, alice, {bob}),
      Expense("UpdateExpense", r1, g1, EUR, bob, {}),
      Row("DeleteExpense", r1, g1),
      Expense("CreateExpense", r1, g1, EUR, bob, {alice, bob}),
      Two("BulkCreateExpenses",
          Expense("CreateExpense", r1, g1, EUR, bob, {alice}),
          Expense("CreateExpense", r2, g1, USD, alice, {alice, bob})),
      Transfer("CreateTransfer", r2, g1, alice, bob),
      Transfer("UpdateTransfer", r2, g1, bob, alice),
      Transfer("UpdateTransfer", r2, g1, bob, bob),
      Row("DeleteTransfer", r2, g1),
      Conversion("CreateConversion", r2, g1, EUR, USD),
      Conversion("UpdateConversion", r2, g1, USD, EUR),
      Row("DeleteConversion", r2, g1),
      Two("CreateConversions",
          Conversion("CreateConversion", r1, g1, EUR, USD),
          Conversion("CreateConversion", r2, g1, EUR, USD)),
      OfMember("RemoveUserFromGroup", g1, bob), By("DeleteGroup", g1, alice),
      Set("SetGroupArchived", g1, alice, TRUE),
      Set("SetGroupArchived", g1, alice, FALSE),
      [op |-> "GetBalance", group |-> g1] }

MCStart == {EmptyDatabase}
MCStartEntries == {Home, HomeWithExpense}

ThreadSymmetry == Permutations(Threads)
=============================================================================
