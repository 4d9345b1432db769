---------------------------- MODULE PeopleFields -----------------------------
(* The linked fields of the web client's forms: who paid and who takes part  *)
(* (expenses, saved scans), from whom to whom (transfers), the currencies of *)
(* a group and the default one among them. Each click changes one field or   *)
(* two; the schemas that check a form when it is submitted do not say that a *)
(* payer takes part, so it is for the fields to keep their parties sensible. *)
(* Members come and go; what was stored may name people who have gone.       *)
EXTENDS Naturals, FiniteSets

CONSTANTS
  People,      \* the users
  Me,          \* the user at the screen
  Money        \* the currencies

VARIABLES
  form,        \* the form that is open
  start,       \* getFormDefaults of the expense form: what a reset goes back to
  waiting,     \* its call is in flight, its fields are disabled
  roster,      \* the members of the group
  payer, included,     \* expense: payerId, beneficiariesIds
  sender, receiver,    \* transfer: senderId, receiverId
  chosen, standard     \* group: currencies, defaultCurrency
peopleVars == <<form, start, waiting, roster, payer, included, sender, receiver, chosen, standard>>

NoOne == "no one"       \* the empty id

ASSUME PeopleAssumption ==
  /\ Me \in People /\ NoOne \notin People
  /\ Money # {}

Forms == {"closed", "expense", "edit", "scan", "transfer", "group"}

PeopleTypeOK ==
  /\ form \in Forms /\ waiting \in BOOLEAN
  /\ start \in [payer : People, included : SUBSET People]
  /\ roster \subseteq People
  /\ payer \in People /\ included \subseteq People
  /\ sender \in People \cup {NoOne} /\ receiver \in People \cup {NoOne}
  /\ chosen \subseteq Money /\ standard \in Money

PeopleInit ==
  /\ form = "closed" /\ waiting = FALSE
  /\ start = [payer |-> Me, included |-> {}]
  /\ roster \in {R \in SUBSET People : Me \in R}
  /\ payer = Me /\ included = {} /\ sender = Me /\ receiver = NoOne
  /\ chosen = {} /\ standard \in Money

-----------------------------------------------------------------------------
\* Opening a form

expenseFields == <<payer, included>>
transferFields == <<sender, receiver>>
groupFields == <<chosen, standard>>

\* A new expense, paid by the user, or one of a recurring template, paid by
\* whom the template names, who may have left the group since: all who are
\* members now take part.
NewExpense ==
  /\ form = "closed" /\ form' = "expense"
  /\ start' \in [payer : People, included : {roster}]
  /\ payer' = start'.payer /\ included' = start'.included
  /\ UNCHANGED <<waiting, roster, transferFields, groupFields>>

\* A stored expense, whose payer need not take part, of members past and present.
EditExpense ==
  /\ form = "closed" /\ form' = "edit"
  /\ start' \in [payer : People, included : SUBSET People \ {{}}]
  /\ payer' = start'.payer /\ included' = start'.included
  /\ UNCHANGED <<waiting, roster, transferFields, groupFields>>

\* The confirmation of a scan, for the first group or the one that is chosen,
\* all of them groups of the user's: the user pays, everyone takes part.
Target(R) == roster' = R /\ payer' = Me /\ included' = R

NewScan ==
  /\ form = "closed" /\ form' = "scan"
  /\ Target(roster)
  /\ UNCHANGED <<start, waiting, transferFields, groupFields>>

\* setGroupId: its select is not disabled while the expenses are being saved.
setGroupId ==
  /\ form = "scan"
  /\ \E R \in SUBSET People : Me \in R /\ Target(R)
  /\ UNCHANGED <<form, start, waiting, transferFields, groupFields>>

\* A new transfer has no receiver yet; a suggested one and a stored one do, the
\* latter perhaps between people who have left.
NewTransfer ==
  /\ form = "closed" /\ form' = "transfer"
  /\ \/ sender' = Me /\ receiver' = NoOne
     \/ sender' \in People /\ receiver' \in People /\ sender' # receiver'
  /\ UNCHANGED <<start, waiting, roster, expenseFields, groupFields>>

\* A new group has one currency, a stored one lists its default.
OpenGroup ==
  /\ form = "closed" /\ form' = "group"
  /\ chosen' \in SUBSET Money \ {{}} /\ standard' \in chosen'
  /\ UNCHANGED <<start, waiting, roster, expenseFields, transferFields>>

\* What a closed form held is gone: it starts from its defaults again.
CloseForm ==
  /\ form # "closed" /\ form' = "closed" /\ waiting' = FALSE
  /\ start' = [payer |-> Me, included |-> {}]
  /\ payer' = Me /\ included' = {} /\ sender' = Me /\ receiver' = NoOne
  /\ chosen' = {}
  /\ UNCHANGED <<roster, standard>>

\* A new answer about the group's members while a form is open: one more, one
\* less, or the same with other balances. The defaults of the expense form are
\* made of them: it is reset, for a new expense to the members as they are now.
\* The user's own membership ends with the page.
MembersAnswered ==
  /\ \/ roster' = roster
     \/ \E p \in People \ roster : roster' = roster \cup {p}
     \/ \E p \in roster \ {Me} : roster' = roster \ {p}
  /\ start' = IF form = "expense" THEN [start EXCEPT !.included = roster'] ELSE start
  /\ IF form \in {"expense", "edit"}
     THEN payer' = start'.payer /\ included' = start'.included
     ELSE UNCHANGED expenseFields
  /\ UNCHANGED <<form, waiting, transferFields, groupFields>>

-----------------------------------------------------------------------------
\* PeopleSelector

Peopled == form = "scan" \/ (form \in {"expense", "edit"} /\ ~waiting)

\* Mutant: the payer can be taken out like everybody else.
CanToggleAny(p) == p \in included => Cardinality(included) > 1

CanToggle(p) == p # payer /\ (p \in included => Cardinality(included) > 1)

toggleIncluded(p) ==
  /\ Peopled
  /\ CanToggle(p)
  /\ included' = IF p \in included THEN included \ {p} ELSE included \cup {p}
  /\ UNCHANGED <<form, start, waiting, roster, payer, transferFields, groupFields>>

\* Setting a payer who takes no part makes two calls. The expense form takes
\* both; the scan's confirmation spreads the same old state into both, and the
\* second, which adds the payer to those who take part, undoes the first.
setPayer(p) ==
  /\ Peopled
  /\ payer' = IF form = "scan" /\ p \notin included THEN payer ELSE p
  /\ included' = included \cup {p}
  /\ UNCHANGED <<form, start, waiting, roster, transferFields, groupFields>>

-----------------------------------------------------------------------------
\* TransferFlow. Its buttons are disabled while waiting, the open list is not.

pickSender(p) ==
  /\ form = "transfer" /\ p # receiver
  /\ sender' = p
  /\ UNCHANGED <<form, start, waiting, roster, receiver, expenseFields, groupFields>>

pickReceiver(p) ==
  /\ form = "transfer" /\ p # sender
  /\ receiver' = p
  /\ UNCHANGED <<form, start, waiting, roster, sender, expenseFields, groupFields>>

swap ==
  /\ form = "transfer" /\ ~waiting
  /\ sender' = receiver /\ receiver' = sender
  /\ UNCHANGED <<form, start, waiting, roster, expenseFields, groupFields>>

-----------------------------------------------------------------------------
\* The currencies of a group

\* The default moves to the first of the selection when it is not in it; an
\* empty selection leaves it.
toggleCurrency(c) ==
  /\ form = "group" /\ ~waiting
  /\ chosen' = IF c \in chosen THEN chosen \ {c} ELSE chosen \cup {c}
  /\ IF standard \in chosen' \/ chosen' = {} THEN standard' = standard ELSE standard' \in chosen'
  /\ UNCHANGED <<form, start, waiting, roster, expenseFields, transferFields>>

pickDefault(c) ==
  /\ form = "group" /\ ~waiting /\ c \in chosen
  /\ standard' = c
  /\ UNCHANGED <<form, start, waiting, roster, chosen, expenseFields, transferFields>>

-----------------------------------------------------------------------------
\* Submitting: what the schemas ask, and what canSave asks of a scan.

Accepted ==
  CASE form \in {"expense", "edit", "scan"} -> included # {}
    [] form = "transfer" -> sender # NoOne /\ receiver # NoOne /\ sender # receiver
    [] form = "group" -> chosen # {} /\ standard \in chosen
    [] OTHER -> FALSE

SubmitForm ==
  /\ ~waiting /\ Accepted
  /\ waiting' = TRUE
  /\ UNCHANGED <<form, start, roster, expenseFields, transferFields, groupFields>>

\* Refused; an accepted one closes the form, which is CloseForm.
FormRefused ==
  /\ waiting /\ waiting' = FALSE
  /\ UNCHANGED <<form, start, roster, expenseFields, transferFields, groupFields>>

PeopleNext ==
  \/ NewExpense
  \/ EditExpense
  \/ NewScan
  \/ setGroupId
  \/ NewTransfer
  \/ OpenGroup
  \/ CloseForm
  \/ MembersAnswered
  \/ \E p \in roster :
       \/ toggleIncluded(p)
       \/ setPayer(p)
       \/ pickSender(p)
       \/ pickReceiver(p)
  \/ swap
  \/ \E c \in Money : toggleCurrency(c) \/ pickDefault(c)
  \/ SubmitForm
  \/ FormRefused

PeopleSpec == PeopleInit /\ [][PeopleNext]_peopleVars

-----------------------------------------------------------------------------
\* Whatever is clicked, in whichever order, and whoever joins or leaves
\* meanwhile: the payer of an expense takes part in it, nobody transfers to
\* themselves, and the default currency of a group is one of its currencies as
\* long as there are any. Two payers may be left out, both as they were stored:
\* that of a template who has left the group since, until another is picked, and
\* that of an expense which was entered that way.
PartiesMakeSense ==
  /\ form = "expense" =>
       payer \in included \/ (payer = start.payer /\ payer \notin roster)
  /\ form = "edit" /\ start.payer \in start.included => payer \in included
  /\ form = "scan" => payer \in included
  /\ form = "transfer" => sender # receiver
  /\ form = "group" /\ chosen # {} => standard \in chosen
=============================================================================
