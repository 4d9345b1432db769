------------------------------ MODULE GroupBook ------------------------------
(***************************************************************************)
(* What the services of module Ledger promise: a book of groups, in which  *)
(* every operation happens at once and completely or not at all.           *)
(*                                                                         *)
(* A page of the book holds everything a group consists of; there are no   *)
(* tables, transactions, checks or requests here.                          *)
(***************************************************************************)
EXTENDS Integers

CONSTANTS Groups, Rows, Users, Currencies, Weights

VARIABLE book   \* a function from the groups that exist to their pages

Expense == [id : Rows, currency : Currencies, payer : Users, for : SUBSET Users]
Transfer == [id : Rows, sender : Users, receiver : Users]
Conversion == [id : Rows, from : Currencies, to : Currencies]
Membership == [user : Users, weight : Weights, pinned : BOOLEAN]

Page == [creator : Users, default : Currencies, archived : BOOLEAN,
         currencies : SUBSET Currencies, members : SUBSET Membership,
         expenses : SUBSET Expense, transfers : SUBSET Transfer,
         conversions : SUBSET Conversion]

\* A group lists its default currency and knows each member once.
WellKept(page) ==
    /\ page.default \in page.currencies
    /\ \A x, y \in page.members : x.user = y.user => x = y

TypeOK ==
    /\ DOMAIN book \subseteq Groups
    /\ \A g \in DOMAIN book : book[g] \in Page /\ WellKept(book[g])

----------------------------------------------------------------------------

Create(g, u, cur, C) ==
    /\ g \notin DOMAIN book
    /\ cur \in C
    /\ book' = [h \in DOMAIN book \cup {g} |->
           IF h # g THEN book[h]
           ELSE [creator |-> u, default |-> cur, archived |-> FALSE, currencies |-> C,
                 members |-> {[user |-> u, weight |-> 1, pinned |-> FALSE]},
                 expenses |-> {}, transfers |-> {}, conversions |-> {}]]

Delete(g) == book' = [h \in DOMAIN book \ {g} |-> book[h]]

Describe(g, cur, C) ==
    /\ cur \in C
    /\ book' = [book EXCEPT ![g].default = cur, ![g].currencies = C]

Archive(g, on) == book' = [book EXCEPT ![g].archived = on]

Join(g, u) ==
    /\ \A m \in book[g].members : m.user # u
    /\ book' = [book EXCEPT ![g].members =
                    @ \cup {[user |-> u, weight |-> 1, pinned |-> FALSE]}]

\* Leaving, a new weight and a pin concern one membership only.
Leave(g, m) == book' = [book EXCEPT ![g].members = @ \ {m}]
Reweigh(g, m, w) ==
    book' = [book EXCEPT ![g].members = (@ \ {m}) \cup {[m EXCEPT !.weight = w]}]
Pin(g, m, on) ==
    book' = [book EXCEPT ![g].members = (@ \ {m}) \cup {[m EXCEPT !.pinned = on]}]

\* Entries are recorded one or two at a time, with ids of their own; each is revised
\* as a whole and struck as a whole.
New(g, E, entries) == E # {} /\ \A e \in E, f \in entries : e.id # f.id

RecordExpenses(g, e, f) ==
    /\ New(g, {e, f}, book[g].expenses)
    /\ book' = [book EXCEPT ![g].expenses = @ \cup {e, f}]
ReviseExpense(g, e, f) ==
    /\ f.id = e.id
    /\ book' = [book EXCEPT ![g].expenses = (@ \ {e}) \cup {f}]
StrikeExpense(g, e) == book' = [book EXCEPT ![g].expenses = @ \ {e}]

RecordTransfer(g, e) ==
    /\ New(g, {e}, book[g].transfers)
    /\ e.sender # e.receiver
    /\ book' = [book EXCEPT ![g].transfers = @ \cup {e}]
ReviseTransfer(g, e, f) ==
    /\ f.id = e.id /\ f.sender # f.receiver
    /\ book' = [book EXCEPT ![g].transfers = (@ \ {e}) \cup {f}]
StrikeTransfer(g, e) == book' = [book EXCEPT ![g].transfers = @ \ {e}]

RecordConversions(g, e, f) ==
    /\ New(g, {e, f}, book[g].conversions)
    /\ e.from # e.to /\ f.from # f.to
    /\ book' = [book EXCEPT ![g].conversions = @ \cup {e, f}]
ReviseConversion(g, e, f) ==
    /\ f.id = e.id /\ f.from # f.to
    /\ book' = [book EXCEPT ![g].conversions = (@ \ {e}) \cup {f}]
StrikeConversion(g, e) == book' = [book EXCEPT ![g].conversions = @ \ {e}]

----------------------------------------------------------------------------

GroupStep ==
    \/ \E g \in Groups, u \in Users, cur \in Currencies, C \in SUBSET Currencies :
           Create(g, u, cur, C)
    \/ \E g \in DOMAIN book :
           \/ Delete(g)
           \/ \E cur \in Currencies, C \in SUBSET Currencies : Describe(g, cur, C)
           \/ \E on \in BOOLEAN : Archive(g, on)

MemberStep ==
    \E g \in DOMAIN book :
        \/ \E u \in Users : Join(g, u)
        \/ \E m \in book[g].members :
               \/ Leave(g, m)
               \/ \E w \in Weights : Reweigh(g, m, w)
               \/ \E on \in BOOLEAN : Pin(g, m, on)

EntryStep ==
    \E g \in DOMAIN book :
        \/ \E e, f \in Expense : RecordExpenses(g, e, f)
        \/ \E e \in book[g].expenses : StrikeExpense(g, e) \/ \E f \in Expense : ReviseExpense(g, e, f)
        \/ \E e \in Transfer : RecordTransfer(g, e)
        \/ \E e \in book[g].transfers : StrikeTransfer(g, e) \/ \E f \in Transfer : ReviseTransfer(g, e, f)
        \/ \E e, f \in Conversion : RecordConversions(g, e, f)
        \/ \E e \in book[g].conversions :
               StrikeConversion(g, e) \/ \E f \in Conversion : ReviseConversion(g, e, f)

Next == GroupStep \/ MemberStep \/ EntryStep

\* The book may begin with any well-kept pages.
Init == TypeOK

Spec == Init /\ [][Next]_book

=============================================================================
