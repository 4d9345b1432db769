------------------------------ MODULE Dialogs -------------------------------
(* The group page of the web client: the answers of the server it shows    *)
(* (queries, cached and fetched again by TanStack Query), the dialogs that *)
(* enter, edit and delete things, and the calls they send.                 *)
(*                                                                         *)
(* Of a query's answer only what the properties tell apart is kept: is it  *)
(* what the server would answer now, and what the request in flight, if    *)
(* any, will bring. "fetch" is "none", "asked" (the server has not         *)
(* answered), "current" (answered, nothing changed since) or "outdated"    *)
(* (answered, and changed again before the answer arrived). "excused"      *)
(* remembers that a difference is not this page's to repair: somebody      *)
(* else's change, a request or an answer that was lost, or a change whose  *)
(* handler does not refresh this query.                                    *)
EXTENDS Naturals, FiniteSets

CONSTANTS
  Queries,    \* the queries tracked, of AllQueries
  OpSets,     \* the sets of operations a behaviour may be made of
  MaxCalls    \* calls in flight at a time

VARIABLES
  view,       \* what the page shows, by query
  dialog,     \* the dialog that is open
  calls,      \* the mutations in flight
  tab,        \* the tab of the group page, or "away" from it
  offered     \* the operations of this behaviour
dialogsVars == <<view, dialog, calls, tab, offered>>

-----------------------------------------------------------------------------
\* Queries, operations and what each handler refreshes

AllQueries == {"groups", "activity", "suggestions", "recurring", "stats"}

\* Operations, by the dialog or the button that sends them.
ExpenseOps == {"createExpense", "updateExpense", "payRecurring"}
TransferOps == {"createTransfer", "updateTransfer"}
ConversionOps == {"createConversion", "updateConversion"}
SingleCurrencyOps == {"createConversions"}
RecurringOps == {"createRecurring", "updateRecurring"}
GroupOps == {"updateGroup", "updateWeight"}
DeleteOps == {"deleteExpense", "deleteTransfer", "deleteConversion", "deleteRecurring"}
MemberOps == {"addMember"}
NewGroupOps == {"createGroup"}
ImageOps == {"uploadImage", "deleteImage"}
RowOps == {"skipRecurring"}
FlagOps == {"setPinned", "setArchived"}
RateOps == {"getExchangeRate"}   \* reads, and fills in a field of the conversion form

AllOps == ExpenseOps \cup TransferOps \cup ConversionOps \cup SingleCurrencyOps
  \cup RecurringOps \cup GroupOps \cup DeleteOps \cup MemberOps \cup NewGroupOps
  \cup ImageOps \cup RowOps \cup FlagOps \cup RateOps

ASSUME DialogsAssumption ==
  /\ "groups" \in Queries /\ Queries \subseteq AllQueries
  /\ OpSets \subseteq SUBSET AllOps
  /\ MaxCalls \in Nat \ {0}

Balances == {"groups", "suggestions", "stats"}

\* The answers of the server an operation changes: every balance, the
\* suggestions and the statistics are computed from the entries and from the
\* weights of the group as they are now.
Changes(op) ==
  Queries \cap
    CASE op \in ExpenseOps -> Balances \cup {"activity"}
                               \cup (IF op = "payRecurring" THEN {"recurring"} ELSE {})
      [] op \in TransferOps \cup ConversionOps \cup SingleCurrencyOps -> Balances \cup {"activity"}
      [] op \in DeleteOps \ {"deleteRecurring"} -> Balances \cup {"activity"}
      [] op \in RecurringOps \cup RowOps \cup {"deleteRecurring"} -> {"recurring"}
      [] op = "updateWeight" -> Balances
      [] op \in MemberOps -> {"groups", "stats"}
      [] op \in RateOps -> {}
      [] OTHER -> {"groups"}

\* The queries the onSuccess handlers of each component invalidate.
ExpenseRefreshes(op) ==
  {"activity", "groups", "suggestions"} \cup (IF op = "payRecurring" THEN {"recurring"} ELSE {})

\* Mutant: the handler of a new transfer forgets the settlement suggestions.
TransferRefreshesShort == {"activity", "groups"}

TransferRefreshes == {"activity", "groups", "suggestions"}
ConversionRefreshes == {"activity", "groups", "suggestions"}
SingleCurrencyRefreshes == {"activity", "groups", "suggestions"}
RecurringRefreshes == {"recurring"}
DeleteExpenseRefreshes == {"activity", "groups"}
DeleteTransferRefreshes == {"activity", "groups", "suggestions"}
DeleteConversionRefreshes == {"activity", "groups", "suggestions"}
DeleteRecurringRefreshes == {"recurring"}
SkipRefreshes == {"recurring"}
GroupRefreshes(op) == IF op = "updateWeight" THEN {"groups"} ELSE {"groups", "activity"}
MemberRefreshes == {"groups", "activity"}
NewGroupRefreshes == {"groups"}
ImageRefreshes == {"groups"}
FlagRefreshes == {"groups"}

Refreshes(op) ==
  Queries \cap
    CASE op \in ExpenseOps -> ExpenseRefreshes(op)
      [] op \in TransferOps -> TransferRefreshes
      [] op \in ConversionOps -> ConversionRefreshes
      [] op \in SingleCurrencyOps -> SingleCurrencyRefreshes
      [] op \in RecurringOps -> RecurringRefreshes
      [] op = "deleteExpense" -> DeleteExpenseRefreshes
      [] op = "deleteTransfer" -> DeleteTransferRefreshes
      [] op = "deleteConversion" -> DeleteConversionRefreshes
      [] op = "deleteRecurring" -> DeleteRecurringRefreshes
      [] op \in GroupOps -> GroupRefreshes(op)
      [] op \in MemberOps -> MemberRefreshes
      [] op \in NewGroupOps -> NewGroupRefreshes
      [] op \in ImageOps -> ImageRefreshes
      [] op \in RowOps -> SkipRefreshes
      [] op \in FlagOps -> FlagRefreshes
      [] op \in RateOps -> {}

-----------------------------------------------------------------------------
\* State

Fetches == {"none", "asked", "current", "outdated"}
View == [fresh : BOOLEAN, excused : BOOLEAN, fetch : Fetches]

\* "expense" to "newGroup" keep their draft until the answer has come;
\* "editGroup" and "members" close as they send; "confirm" only asks.
AnsweredForms == {"expense", "transfer", "conversion", "recurring", "singleCurrency", "newGroup"}
ClosingForms == {"editGroup", "members"}
Kinds == {"none", "confirm", "image"} \cup AnsweredForms \cup ClosingForms

KindOf(op) ==
  CASE op \in ExpenseOps -> "expense"
    [] op \in TransferOps -> "transfer"
    [] op \in ConversionOps -> "conversion"
    [] op \in SingleCurrencyOps -> "singleCurrency"
    [] op \in RecurringOps -> "recurring"
    [] op \in NewGroupOps -> "newGroup"
    [] op \in GroupOps -> "editGroup"
    [] op \in MemberOps -> "members"
    [] op \in DeleteOps -> "confirm"
    [] op \in ImageOps -> "image"
    [] OTHER -> "none"

\* A call knows whether the dialog that sent it is still open ("own") and
\* whether the page that sent it is still mounted ("here").
Call == [op : AllOps, own : BOOLEAN, here : BOOLEAN, st : {"sent", "done"}, nr : 1..MaxCalls]

\* What has been typed: the rate of a conversion, or anything else.
Fields == {"rate", "rest"}
Dialog == [kind : Kinds, op : AllOps \cup {"none"}, typed : SUBSET Fields]
NoDialog == [kind |-> "none", op |-> "none", typed |-> {}]

DialogsTypeOK ==
  /\ view \in [Queries -> View]
  /\ dialog \in Dialog
  /\ calls \subseteq Call /\ Cardinality(calls) <= MaxCalls
  /\ tab \in {"activity", "stats", "away"}
  /\ offered \in OpSets

DialogsInit ==
  /\ view = [q \in Queries |-> [fresh |-> TRUE, excused |-> FALSE, fetch |-> "none"]]
  /\ dialog = NoDialog
  /\ calls = {}
  /\ tab = "activity"
  /\ offered \in OpSets

-----------------------------------------------------------------------------
\* Queries

\* The queries a component on the screen observes: the list of groups is in
\* the sidebar of every page.
Mounted(t) ==
  Queries \cap
    CASE t = "activity" -> {"groups", "activity", "suggestions", "recurring"}
      [] t = "stats" -> {"groups", "stats"}
      [] OTHER -> {"groups"}

\* The server's answers to qs change under view v; the change is excused if
\* nothing will make this page ask again.
Changed(v, qs, excused) ==
  [q \in Queries |->
     IF q \in qs
     THEN [fresh |-> FALSE, excused |-> v[q].excused \/ q \in excused,
           fetch |-> IF v[q].fetch = "current" THEN "outdated" ELSE v[q].fetch]
     ELSE v[q]]

\* invalidateQueries: the observed queries are asked again, and an answer
\* that is on its way is cancelled; the others are asked when next observed.
Invalidated(v, qs) ==
  [q \in Queries |-> IF q \in qs \cap Mounted(tab) THEN [v[q] EXCEPT !.fetch = "asked"] ELSE v[q]]

\* Observing a query, or coming back to the window: staleTime is 0, so it is
\* asked again unless it is being asked already.
Asked(v, qs) ==
  [q \in Queries |-> IF q \in qs /\ v[q].fetch = "none" THEN [v[q] EXCEPT !.fetch = "asked"] ELSE v[q]]

\* When nothing observes a query any more its request is aborted.
Aborted(v, qs) == [q \in Queries |-> IF q \in qs THEN [v[q] EXCEPT !.fetch = "none"] ELSE v[q]]

\* The server answers a query.
Answer(q) ==
  /\ view[q].fetch = "asked"
  /\ view' = [view EXCEPT ![q].fetch = "current"]
  /\ UNCHANGED <<dialog, calls, tab, offered>>

\* The effect "Reset form when modal opens" also runs when what the defaults
\* are made of changes while the dialog is open: the members of the group, with
\* their balances, for an expense; its currencies for a conversion; its default
\* currency for these two, a transfer and a recurring expense.
FormDeps(kind) ==
  CASE kind = "expense" -> {"members", "default"}
    [] kind = "conversion" -> {"currencies", "default"}
    [] kind \in {"transfer", "recurring"} -> {"default"}
    [] OTHER -> {}

\* An answer arrives and is shown. Equal data keeps its identity (structural
\* sharing), so only a part that differs from what was shown is new.
Arrive(q) ==
  /\ view[q].fetch \in {"current", "outdated"}
  /\ LET now == view[q].fetch = "current"
     IN view' = [view EXCEPT ![q] =
                   [fresh |-> now, excused |-> ~now /\ view[q].excused, fetch |-> "none"]]
  /\ \E new \in (IF q = "groups" /\ ~view[q].fresh
               THEN SUBSET {"members", "currencies", "default"} ELSE {{}}) :
       dialog' = [dialog EXCEPT !.typed = IF new \cap FormDeps(dialog.kind) = {} THEN @ ELSE {}]
  /\ UNCHANGED <<calls, tab, offered>>

\* A request fails, after its retries: what was shown stays.
FetchFails(q) ==
  /\ view[q].fetch # "none"
  /\ view' = [view EXCEPT ![q] = [fresh |-> @.fresh, excused |-> ~@.fresh, fetch |-> "none"]]
  /\ UNCHANGED <<dialog, calls, tab, offered>>

\* The window gets the focus again.
Refocus ==
  /\ view' = Asked(view, Mounted(tab))
  /\ UNCHANGED <<dialog, calls, tab, offered>>

\* Somebody else uses the group.
OthersChange ==
  /\ view' = Changed(view, Queries, Queries)
  /\ UNCHANGED <<dialog, calls, tab, offered>>

-----------------------------------------------------------------------------
\* Dialogs

\* A mutation hook is pending while its last call is; the hooks live in the
\* page, not in the dialog, and stay pending when a dialog is closed.
Pending(ops) == \E c \in calls : c.here /\ c.op \in ops

Free == {n \in 1..MaxCalls : \A c \in calls : c.nr # n}

Sent(op) ==
  LET nr == CHOOSE n \in Free : \A k \in Free : n <= k
  IN [op |-> op, own |-> TRUE, here |-> TRUE, st |-> "sent", nr |-> nr]

Disowned == {[c EXCEPT !.own = FALSE] : c \in calls}

Open(op) ==
  /\ dialog.kind = "none"
  /\ tab = "activity"
  /\ dialog' = [kind |-> KindOf(op), op |-> op, typed |-> {}]
  /\ UNCHANGED <<view, calls, tab, offered>>

Type(kind, field) ==
  /\ dialog.kind = kind
  /\ dialog' = [dialog EXCEPT !.typed = @ \cup {field}]
  /\ UNCHANGED <<view, calls, tab, offered>>

\* The call of a dialog that waits for its answer.
Submit(ops) ==
  /\ dialog.op \in ops
  /\ Free # {}
  /\ calls' = calls \cup {Sent(dialog.op)}
  /\ UNCHANGED <<view, dialog, tab, offered>>

\* The call of a dialog that is gone as soon as it has sent.
SubmitAndClose(ops) ==
  /\ dialog.op \in ops
  /\ Free # {}
  /\ calls' = Disowned \cup {[Sent(dialog.op) EXCEPT !.own = FALSE]}
  /\ dialog' = NoDialog
  /\ UNCHANGED <<view, tab, offered>>

\* Escape, the backdrop, Cancel: nothing keeps a dialog open while it waits.
Dismiss ==
  /\ dialog.kind # "none"
  /\ dialog' = NoDialog
  /\ calls' = Disowned
  /\ UNCHANGED <<view, tab, offered>>

\* A hook inside a dialog's own content is new each time the dialog opens.
PendingOwn(ops) == \E c \in calls : c.here /\ c.own /\ c.op \in ops

\* Mutant: the expense form stays enabled while an earlier call is pending.
ExpensePendingOwn == PendingOwn(ExpenseOps)

\* The expense dialog: opened from the header, from a row of the activity or
\* from a reminder; one form for the three operations.
OpenExpense == \E op \in ExpenseOps \cap offered : Open(op)
ExpensePending == Pending(ExpenseOps)
TypeExpense == ~ExpensePending /\ Type("expense", "rest")
SubmitExpense == ~ExpensePending /\ Submit(ExpenseOps)

OpenTransfer == \E op \in TransferOps \cap offered : Open(op)
TransferPending == Pending(TransferOps)
TypeTransfer == ~TransferPending /\ Type("transfer", "rest")
SubmitTransfer == ~TransferPending /\ Submit(TransferOps)

OpenConversion == \E op \in ConversionOps \cap offered : Open(op)
ConversionPending == Pending(ConversionOps)
TypeConversion == ~ConversionPending /\ \E field \in Fields : Type("conversion", field)
SubmitConversion == ~ConversionPending /\ Submit(ConversionOps)

\* "Fetch rate": the button waits for the lookup before and for a save, the
\* fields and the dialog do not wait for the lookup.
FetchRate ==
  /\ dialog.kind = "conversion" /\ ~ConversionPending /\ ~Pending(RateOps)
  /\ \E op \in RateOps \cap offered : Free # {} /\ calls' = calls \cup {Sent(op)}
  /\ UNCHANGED <<view, dialog, tab, offered>>

OpenRecurring == \E op \in RecurringOps \cap offered : Open(op)
RecurringPending == Pending(RecurringOps)
TypeRecurring == ~RecurringPending /\ Type("recurring", "rest")
SubmitRecurring == ~RecurringPending /\ Submit(RecurringOps)

\* Converting everything into one currency. The dialog is mounted afresh each
\* time it opens, with hooks of its own: an earlier call is not pending in it.
\* That it is hidden while a new answer has no suggestions is left out.
OpenSingleCurrency == \E op \in SingleCurrencyOps \cap offered : Open(op)
TypeSingleCurrency == Type("singleCurrency", "rest")
SubmitSingleCurrency == ~PendingOwn(SingleCurrencyOps) /\ Submit(SingleCurrencyOps)

OpenNewGroup == \E op \in NewGroupOps \cap offered : Open(op)
NewGroupPending == Pending(NewGroupOps)
TypeNewGroup == ~NewGroupPending /\ Type("newGroup", "rest")
SubmitNewGroup == ~NewGroupPending /\ Submit(NewGroupOps)

\* The edited group and the members' weights go out as calls of their own and
\* the dialog closes; which of them is modelled here is the one that is sent.
OpenEditGroup == \E op \in GroupOps \cap offered : Open(op)
TypeEditGroup == Type("editGroup", "rest")
SubmitEditGroup == SubmitAndClose(GroupOps)

OpenMembers == \E op \in MemberOps \cap offered : Open(op)
TypeMembers == Type("members", "rest")
SubmitMembers == dialog.typed # {} /\ SubmitAndClose(MemberOps)

\* "Delete this ...?": the dialogs of the four kinds of row.
OpenConfirm == \E op \in DeleteOps \cap offered : Open(op)
Confirm == SubmitAndClose(DeleteOps)

\* The photo of the group: a call per file chosen, one at a time in a dialog.
OpenImage == \E op \in ImageOps \cap offered : Open(op)
SubmitImage == ~PendingOwn(ImageOps) /\ Submit(ImageOps)

\* Buttons without a dialog.
ClickRow ==
  /\ dialog.kind = "none" /\ tab = "activity"
  /\ \E op \in (RowOps \cup FlagOps) \cap offered :
       /\ op \in RowOps => ~Pending(RowOps)
       /\ Free # {}
       /\ calls' = calls \cup {[Sent(op) EXCEPT !.own = FALSE]}
  /\ UNCHANGED <<view, dialog, tab, offered>>

-----------------------------------------------------------------------------
\* Answers to calls

\* The gaps of those handlers: none refreshes the statistics, and two change
\* balances without asking for new suggestions.
Forgotten(op) ==
  {"stats"} \cup (IF op \in {"deleteExpense", "updateWeight"} THEN {"suggestions"} ELSE {})

\* The server carries a call out.
Carry(c) ==
  /\ c.st = "sent"
  /\ calls' = (calls \ {c}) \cup {[c EXCEPT !.st = "done"]}
  /\ view' = Changed(view, Changes(c.op), Forgotten(c.op))
  /\ UNCHANGED <<dialog, tab, offered>>

\* A dialog closes on the success of a call of its kind, whichever dialog sent
\* it: onOpenChange(false) closes the one that is open.
Closes(c) == c.here /\ KindOf(c.op) \in AnsweredForms /\ dialog.kind = KindOf(c.op)

\* The rate that was looked up goes into the conversion form as it is by then,
\* over whatever was typed there. A form that is not open starts anew when it is.
FillsRate(c) == c.here /\ c.op \in RateOps /\ dialog.kind = "conversion"

\* onSuccess: what the operation refreshes is asked again, the dialog closes.
Succeed(c) ==
  /\ c.st = "done"
  /\ view' = Invalidated(view, Refreshes(c.op))
  /\ dialog' = IF Closes(c) THEN NoDialog
               ELSE IF FillsRate(c) THEN [dialog EXCEPT !.typed = @ \ {"rate"}]
               ELSE dialog
  /\ calls' = {[d EXCEPT !.own = @ /\ ~Closes(c)] : d \in calls \ {c}}
  /\ UNCHANGED <<tab, offered>>

\* onError: refused, or carried out and the answer lost. A message is shown,
\* the dialog stays with its draft, nothing is asked again.
Fail(c) ==
  /\ calls' = calls \ {c}
  /\ view' = IF c.st = "done" THEN Changed(view, Changes(c.op), Changes(c.op)) ELSE view
  /\ UNCHANGED <<dialog, tab, offered>>

-----------------------------------------------------------------------------
\* Tabs

\* Between the tabs of the group page. The dialogs belong to the page, except
\* for what lives in the suggestions and the reminders of the activity tab.
TabOps == SingleCurrencyOps \cup RowOps

SwitchTab ==
  /\ tab # "away" /\ dialog.kind = "none"
  /\ LET to == IF tab = "activity" THEN "stats" ELSE "activity"
     IN /\ tab' = to
        /\ view' = Asked(Aborted(view, Mounted(tab) \ Mounted(to)), Mounted(to) \ Mounted(tab))
  /\ calls' = {[c EXCEPT !.here = @ /\ c.op \notin TabOps] : c \in calls}
  /\ UNCHANGED <<dialog, offered>>

\* To another page (the back button works behind an open dialog too): the page
\* and its hooks are unmounted. Their handlers still run, but close nothing.
\* The dialog for a new group lives in the sidebar and stays.
Leave ==
  /\ tab # "away"
  /\ tab' = "away"
  /\ view' = Aborted(view, Mounted(tab) \ Mounted("away"))
  /\ dialog' = IF dialog.kind = "newGroup" THEN dialog ELSE NoDialog
  /\ calls' = {IF c.op \in NewGroupOps THEN c ELSE [c EXCEPT !.own = FALSE, !.here = FALSE] : c \in calls}
  /\ UNCHANGED offered

Return ==
  /\ tab = "away"
  /\ tab' = "activity"
  /\ view' = Asked(view, Mounted("activity") \ Mounted("away"))
  /\ UNCHANGED <<dialog, calls, offered>>

DialogsNext ==
  \/ OpenExpense \/ TypeExpense \/ SubmitExpense
  \/ OpenTransfer \/ TypeTransfer \/ SubmitTransfer
  \/ OpenConversion \/ TypeConversion \/ SubmitConversion \/ FetchRate
  \/ OpenRecurring \/ TypeRecurring \/ SubmitRecurring
  \/ OpenSingleCurrency \/ TypeSingleCurrency \/ SubmitSingleCurrency
  \/ OpenNewGroup \/ TypeNewGroup \/ SubmitNewGroup
  \/ OpenEditGroup \/ TypeEditGroup \/ SubmitEditGroup
  \/ OpenMembers \/ TypeMembers \/ SubmitMembers
  \/ OpenConfirm \/ Confirm
  \/ OpenImage \/ SubmitImage
  \/ ClickRow \/ Dismiss
  \/ SwitchTab \/ Leave \/ Return \/ Refocus \/ OthersChange
  \/ \E c \in calls : Carry(c) \/ Succeed(c) \/ Fail(c)
  \/ \E q \in Queries : Answer(q) \/ Arrive(q) \/ FetchFails(q)

DialogsSpec == DialogsInit /\ [][DialogsNext]_dialogsVars

-----------------------------------------------------------------------------
\* Properties

Quiet == calls = {} /\ \A q \in Mounted(tab) : view[q].fetch = "none"

\* When no call and no request is left, everything on the screen shows what
\* the server has, up to what this page was not told of and the gaps named
\* above: no order of saves, refetches and answers leaves the balances, suggestions
\* or entries of before a save whose success was shown.
SavedIsShown == Quiet => \A q \in Mounted(tab) : view[q].fresh \/ view[q].excused

\* What was typed into a dialog is taken away by the user, by the answer to
\* the dialog's own call, or by an answer that changes what its form starts
\* from; not by the late answer to a call of a dialog that was closed before.
\* There are two exceptions. The single-currency dialog's hooks do not outlive
\* it, so nothing holds its fields while an earlier call is pending, and the
\* answer to that call closes whichever is open. And the late answer to a
\* lookup of the exchange rate takes the rate that was typed, but that alone.
DraftsSurviveAnswers ==
  [][\A c \in calls : Succeed(c) =>
       LET lost == dialog.typed \ dialog'.typed
       IN \/ lost = {} \/ c.own
          \/ dialog.kind = "singleCurrency"
          \/ c.op \in RateOps /\ lost = {"rate"}]_dialogsVars

=============================================================================
