# Pennywise, formally

A TLA+ development kept beside the code of Pennywise, a server with which groups of
people share expenses, and its web client. It models how money is computed, how
concurrent requests change what the computation starts from, and what the client makes
of answers that come late, out of order or not at all. TLC checks small instances;
TLAPS proves the most important of the results for instances of any size.
`PROJECT.json` lists the runs, the code lines each definition stands for, the mutants
that show a property can fail, the hazards, and the theorems.

## The system

A Go server over SQLite answers the calls of a web client. Nothing is kept in
memory between two requests except an exchange rate cache, so components meet in the
database. Every request runs in its own goroutine. Reads use a pool of connections
and see what is committed; writes share a pool of exactly one connection
(`db/db.go`), which serialises them. A handler typically reads what it has to check
on the read pool and then writes, either with one statement or in a transaction; the
check and the write are *not* one atomic step.

| Component | State | Operations | What makes it correct |
|---|---|---|---|
| Balance computation (`calc/balance.go`, `calc/stats.go`) | none: replays rows | balance, member spending, balance and spending timelines | rounding loses no money beyond a known drift; the order of the replay; agreement of the figures with each other |
| Settlement (`calc/settlement.go`) | none | suggestions from balances | nobody pays more than they owe, nobody is forgotten, it ends |
| Database (`db/`) | tables, one write connection | queries, transactions | keys, foreign keys with cascades, all-or-nothing |
| Group service | groups, memberships, currencies | create, update, delete, join, leave, weight, pin, archive, balance pages | archived groups are read-only; default currency is listed; creator rules |
| Expense service | expenses, payers, beneficiaries | create, bulk create, update, delete | an expense is whole or absent |
| Transfer service | transfers | create, update, delete | two different members |
| Conversion service | conversions | create, create several, update, delete; rates | two different currencies, all or none |
| Recurring expenses | templates, next occurrence | create, update, delete, pay, skip | no occurrence is lost, none recorded twice |
| Accounts, sessions, roles | users, sessions | register, login, logout, renew, change role | first user is an admin; never without an admin; a session ends with logout |
| Activity page (server and `activity-section.tsx`) | filters, stack of cursors, the answer shown | keyset pagination, filter, turn a page, go to another group | a cursor is of the list it is sent for; turning pages comes to an end |
| Group page (`features/*/components`) | cached answers, the open dialog, calls in flight | open, type, submit, dismiss, delete, refetch | what was saved is shown; a draft is not taken away by the answer to another dialog's call |
| Route of a group (`group/$groupId/route.tsx`) | cached list of groups, navigations | visit, preload, create, delete | "not found" is said of no group that exists |
| Receipt wizard (`scan-receipt.tsx`) | step, photo, draft, calls in flight | upload, scan, review, save | a draft is of its photo, and is saved again only after an answer |
| Amount field (`amount-input.tsx`, `calc-expression.ts`) | text, amount of the form | type, evaluate, reset | the amount sent is the one the text means |
| Linked fields of the forms | payer and beneficiaries, sender and receiver, currencies and default | click | the parties make sense together, but for what was stored otherwise |
| Images, exchange rates, settings, importers, configuration | – | – | not modelled, see below |

Hard behaviours: requests interleave between check and write and between the several
queries of one page; a request fails, or its client goes away, between two statements
of a transaction; the server stops with a transaction open; amounts are divided by
weights and rounded at several places; actions are dated back and edited, so history
is recomputed; members leave and their actions stay. In the client, several calls and
refetches are in flight at a time, answers come after the dialog or the page that asked
has gone, and the cache shows what was true at some earlier moment.

## Modules

| Module | Stands for |
|---|---|
| `Balance` | the arithmetic of `calc/balance.go` and `calc/stats.go` as operators |
| `GroupHistory` | one group's actions recorded, edited and deleted over time; the properties of what is displayed |
| `MCHistory` | instances of it |
| `Sums_proofs` | induction over numbers and finite sets, and laws of sums |
| `History_proofs` | proofs about `Balance` and `GroupHistory` |
| `Settlement` | the greedy loop of `calc/settlement.go`, one action per iteration |
| `MCSettlement` | instances, and the reference for what a comment promises |
| `Settlement_proofs` | proofs about it |
| `Store` | schema and write queries as operators on databases |
| `Ledger` | the four services serving requests concurrently over `Store` |
| `GroupBook` | the abstract specification: a book in which every operation is atomic |
| `MCLedger` | instances of `Ledger` |
| `Ledger_proofs` | proofs about `Store` and it: types, keys and foreign keys |
| `Requests_proofs` | proofs about it: what a request does from its first check to its answer, and that `Ledger` implements `GroupBook` |
| `Calendar` | dates, as Go's `AddDate` computes with them |
| `Recurring` | the recurring expenses of a group and the requests that pay and skip them |
| `MCRecurring` | instances of `Recurring` |
| `Recurring_proofs` | proofs about it |
| `Dialogs` | the group page of the client: cached queries, dialogs and the calls they send |
| `ActivityList` | the activity of a group, page by page, server and client |
| `GroupRoutes` | the guard of a group's route, the list it decides from, and what makes that stale |
| `ScanWizard` | the wizard that scans a receipt |
| `AmountField` | the field for amounts and its calculator |
| `PeopleFields` | the linked fields of the forms |
| `Accounts` | registration, login, sessions, roles, and the screens that send these requests |
| `MCClient` | instances of these seven |
| `MCAccounts` | an instance of `Accounts` alone |
| `Amount_proofs` | proofs about `AmountField`: the calculator and the field |
| `Client_proofs` | proofs about the other modules of the client, and about `MCClient` |

### Balance and GroupHistory

An action is a row of `expenses` (with payer and beneficiaries), `transfers` or
`currency_conversions`. Amounts are cents. The `float64` sub-cents of the code become
integers in units of `1/Scale` cent, where `Scale` is a multiple of every total
weight of the instance, so that every share is exact: each `math.Round` of the code
is kept, and only the noise of binary floating point is left out. `BalanceEvents` is
the sorted event slice of `buildBalanceEvents`, `FloatBalances` its replay,
`ComputeGroupBalance` the rounded result; the statistics follow
`ComputeBalanceTimeline`, `ComputeMemberSpending` and `ComputeSpendingTimeline`.
The spending timeline sorts by `(date, createdAt)` only; totals per day do not depend
on the order within it.

`GroupHistory` has the group's weights (whose domain is its membership), its actions
and the server's clock in seconds. `Record`, `Edit` and `Delete` are the create,
update and delete handlers; `Reweigh` stands for a new weight, a member joining and a
member leaving. Ids are unrelated to time, as random uuids are. After a member with
actions left, the balance cannot be computed (see the findings); the properties about
balances are stated for the states in which it can.

### Settlement

`StartCurrency` enters `settleForSingleCurrency` (separate, sort, reset the heads),
`Match` is one iteration of its loop, `FinishCurrency` appends a currency's results.
Balances need not add up to zero, because each was rounded on its own.

### Store, Ledger and GroupBook

In `Store` a table is a set of rows and a query an operator from databases to
databases; names, amounts, rates and dates are left out, as no property of the
stored rows depends on them. In `Ledger` a thread is a request being served:

| Action | Code |
|---|---|
| `Receive` | a request arrives. What the user asks for comes from a page that was correct when it was loaded (`Offers`), and new rows have fresh ids |
| `Check` | the handler's next check: one query on the read pool (or a validation), and the early return if it fails |
| `Begin` | `WriteDB.BeginTx`: waits for the write connection; `_txlock=immediate` |
| `Statement` | the transaction's next statement, or the error return with the deferred `Rollback` |
| `Commit` | `tx.Commit` |
| `Write` | a handler with one statement and no transaction |
| `ReadMembers`, `ReadExpenses`, `ReadTransfers`, `Answer` | the pages that compute a balance, with one query each |
| `GiveUp` | any query fails, or the request's context is cancelled: the handler returns, the deferred rollback runs |
| `Crash` | the server stops and starts again |

`Handler(r)` gives a handler's checks and statements in the order of the code, so
each handler is one small definition (`HandleUpdateExpense` and so on) and the
actions are the same for all. `Accepted` holds the constraints of the schema, the
`RETURNING` rows that must exist, and the one early return in the middle of a
transaction (`CreateExpenseGroup` checks the default currency after two inserts).
`since` is a history variable: what was true since a request arrived; no action
depends on it.

`GroupBook` knows pages instead of tables, and no requests: `Create`, `Delete`,
`Describe`, `Archive`, `Join`, ..., `RecordExpenses`, `ReviseExpense` and so on, each in
one step. `Ledger` instantiates it with `book <- BookOf(db)`. That it implements
`Book!Spec` says that no request is ever half visible, whatever else is going on.

### Calendar and Recurring

`Calendar` is not code of this repository: it is what `time.Time.AddDate` does with a
date, which `calculateNextOccurrence` relies on. Times of day are left out.
`DayNumber` and `MonthNumber` are a second way to look at dates, for the properties.

In `Recurring` a thread is a request, as in `Ledger`, but the interleaving that
matters is a different one: `PayRecurringExpense` and `SkipRecurringExpense` read the
template, then check whether the group is archived, then write, and compute the new
date from the row *as it was read*.

| Action | Code |
|---|---|
| `Receive` | a request arrives; a template is created under a new id, the others are named by a page that has shown them |
| `ReadTemplate` | `GetRecurringExpense`, with which Pay and Skip begin |
| `CheckArchived` | `AssertGroupNotArchived` |
| `Create`, `Update`, `Delete` | the single statement of each of these handlers, with the `ON DELETE SET NULL` of `expenses.recurring_id` |
| `Pay` | the transaction of `PayRecurringExpense`: expense and new date, or nothing |
| `Skip` | the update of `SkipRecurringExpense` |
| `GiveUp`, `Crash`, `SetGroupArchived` | as in `Ledger` |

The transaction of `Pay` is one step: it runs on the only write connection, so no
other write comes between, and `Ledger` shows what becomes of a transaction that is
cut off. Who pays, what, and for whom, is left out, and so is the date of the
expense, which the user chooses. The group itself is not deleted here.

`due`, `skipped`, `edited` and `raced` are history variables. `raced` holds the
templates whose date was computed from a row that had changed since it was read: a
double click on "pay" is such a race and does charge an occurrence twice. No
document of the repository rules it out, so it is not a finding, but `SettledOnce`
has to exempt those templates. `NoOccurrenceLost` exempts only the templates that
were both raced and edited: overlapping payments of a monthly template all announce
the same next date, so nothing is passed over.

### Dialogs

The client keeps the answers of the server in the cache of TanStack Query, which is
modelled from how the code configures and calls it: `staleTime` 0, refetch when a query
is observed or the window gets the focus, `invalidateQueries` from the `onSuccess`
handlers, an abort when nothing observes a query any more. Of an answer the model keeps
whether it is what the server would say now (`fresh`), and of the request in flight
whether it will bring that (`fetch`). `Carry` is the server carrying a call out: it
makes the answers in `Changes(op)` old, including one that is already on its way.
`Succeed` is the `onSuccess` handler: it asks again for `Refreshes(op)`, which has one
definition per component, and closes the dialog. `Fail` is a refusal, or a call whose
answer was lost after it was carried out. `Open...`, `Type...` and `Submit...` are the
dialogs with what keeps each enabled or disabled; the hooks of most live in the page
and stay pending after the dialog is dismissed, those of `singleCurrency` and `image`
live in the dialog.

`FetchRate` is the lookup of an exchange rate from the conversion form. It changes nothing on the
server, and its `onSuccess` writes the field "rate" of the form as it is by then
(`FillsRate`): the hook lives in the page like the others, and the fields are disabled while a
conversion is saved, not while a rate is looked up. A dialog therefore knows what was `typed`, the
rate or anything else. `Arrive` may take both: the forms are reset when what their
defaults are made of changes (`FormDeps`), which is the group's default currency for four of
them, and for an expense its members and for a conversion its currencies too.

`DraftsSurviveAnswers` names two exceptions: what is typed into the single-currency dialog, whose
hooks do not outlive it, and the rate, which the late answer to a lookup replaces.

`excused` is a history variable: the difference between a cached answer and the server
is not this page's to repair. That is so for somebody else's change, for a request or an
answer that was lost, and for the gaps of the handlers, which `Forgotten` names: no handler
refreshes the statistics (they are asked again when their tab is opened), and deleting
an expense or changing a weight does not refresh the settlement suggestions. Nothing in
the repository says they should, so the gaps are named here and are no finding.

### ActivityList

An entry is its rank in the order of the list (date, creation and id together), a cursor
the rank of the last entry of a page. The cursor of the code is a place in the order and
nothing else; in the model it also says which group and which filters it was issued for, so
that the properties can tell. `GetGroupActivity` gives the page after a cursor
and a total that is counted by a query of its own and may be one off; it does not notice whose
cursor it is sent. On the client,
`Observe` is what happens when the key of the query changes: the answer on the screen
stays while the new one is asked for (`keepPreviousData`), or an older answer to the
same key appears. `handleNext` takes its cursor from the answer on the screen. The
buttons are disabled while a request is being fetched.

`CursorsOfOneQuery` says that the cursors on the stack descend and are of the filters and the group
on the page. Two kinds of cursor are exempt, each marked as it comes to be. A request that is
paused because the browser is offline does not count as fetching, and a cursor taken then
may be one of another query (`guessed`). And a link to another group keeps the stack (`carried`;
`SwitchGroup`): those cursors still descend, but are of a group that was left. It is not
promised that an entry is on one page only. Page 1 asked again after a deletion takes an entry in
from below, and page 2 still begins with it.

### GroupRoutes

A visit is one run of `beforeLoad`, which looks a group up in the cached list of all
groups and, when it is not there, fetches the list once more before it gives up.
Hovering over a link runs the guard too. `ask` is the one request for the list, which
visits join. `Create`, `Delete`, `ServerChanges` and `ChangeSucceeds` are the two
mutations that change the list, `OthersDo` is the same from elsewhere. What the router
does with the redirect of a visit that no longer leads is its own affair, and the model
allows both outcomes.

### ScanWizard, AmountField and PeopleFields

The wizard waits for the bytes of a file, then for the scan, then for the bulk creation;
each of the three may be answered on another step than the one that asked, or after the
page has gone. `stale` and `alone` are history variables that say when an overlap is the
user's own doing: a photo exchanged while its scan is under way, two scans at a time.
`entered` and `answered` count how often the server has entered the expenses of the draft, and how
many presses of Save were answered. `AgainOnlyAfterAnswer` relates the two: a second creation takes a
press of Save that followed an answer. That there is one creation only is not so. After a success
the page asks for the group's page, and Save is enabled until that has loaded; after an
error the expenses may have been entered all the same, and the user is invited to try again. Nothing in
the repository says otherwise, so this is named here and is no finding. `ReviewContinue` without
a date ends on the page `broken`: `fmtDate` throws on an empty date while the confirmation is
rendered.

`AmountField` has the tokenizer and the recursive descent parser of
`calc-expression.ts` as functions, and the two states of `amount-input.tsx`, the text
and the amount, adjusted to each other while rendering. The methods of the parser call
each other, so `Parser` is one function of the calls that can be made: which method, at
which token, and for what is left to do of a loop the value so far. `Meaning` is a
second definition of what a text means, found by splitting it at its last operator, and
`ShownIsSent` compares the two in every state. Numbers are fractions with a signed zero.

`PeopleFields` has the pairs of fields that must fit each other although each click
changes one or two of them, and the schemas checked on submission do not relate them
all. Members come and go (`MembersAnswered`), and the forms are filled with what was stored: the payer of
a template may have left the group, and then the expense that pays it starts with a payer
who is no member, and with the members of today as those who take part. `PartiesMakeSense` names this
payer, and the one of an expense that was entered without its payer taking part, as the
two that may be left out.

### Accounts

A request of a tab goes through the middleware and its handler in steps, each a query of
its own, as nothing holds a transaction across them: the session is read, then perhaps
renewed, then the handler acts; `UpdateUserRole` reads the target, counts the admins and
writes. The tabs of a browser share its cookie, and a request carries the cookie of the
moment it was sent. `loggedOut` is a history variable. An admin
selects a role from a list that may be old, so `SelectRole` asks for either role of any user. Sessions start `fresh`, and time
(`Age`) makes them `half`, when the middleware renews them, then `expired`.

## Runs

| Run | Instance | Checks | Shows |
|---|---|---|---|
| `history` | 3 members (one of double weight, one who leaves), 2 currencies, up to 3 actions out of 6 kinds, 2 dates on different days, 2 clock values | `TypeOK`, `BalanceIsClosedSum`, `DriftBounded`, `TimelineIsPastBalance`, `SpendingLinesUp`, `SpendingAgrees`, `PastIsStable` | displayed figures agree with each other, the drift is bounded, an edit does not change the days before it |
| `settlement` | 4 people, every balance of up to 4 cents that adds up to −1, 0 or 1, in a second currency none or a fixed one | `TypeOK`, `SuggestionsSound`, `FewSuggestions`, `OneSideSettled`, `SettledUpToDrift`, `EveryMatchSettles` | the suggestions settle what can be settled |
| `ledger_groups` | 1 group id, 2 users, 2 currencies, 2 requests at a time out of 15, from an empty database | `TypeOK`, `StoredRowsHaveParents`, `StoredKeysUnique`, `StoredDefaultListed`, `FrozenSinceReceived`, `ImplementsGroupBook`, `EveryRequestAnswered` | the life of a group under concurrency, failure and crash |
| `ledger_entries` | a group of 2 with or without an expense, 2 row ids, 2 requests at a time out of 18 | `StoredRowsHaveParents`, `StoredExpensesComplete`, `FrozenSinceReceived`, `TransfersBetweenMembers`, `ImplementsGroupBook` | the same for what a group contains |
| `history_drift` | 5 members, 2 cents | `WithinOneCent` (violated) | finding 1 |
| `settlement_minimal` | 5 people, up to 3 cents, adding up to 0 | `MinimalTransfers` (violated) | finding 2 |
| `archive_race` | as `ledger_entries` | `ArchivedIsReadOnly` (violated) | finding 3 |
| `recurring` | 1 template, weekly or monthly, from December 28 or from January 31 of a leap year; 2 requests at a time; up to 2 expenses and 3 dates | `TypeOK`, `NoOccurrenceLost`, `SettledOnce`, `LinksResolve`, `WellSpaced`, `FrozenSinceReceived` | no occurrence is lost; none is settled twice unless requests overlap |
| `replay` | as `ledger_entries` | `EveryActionReplayed` (violated) | finding 4 |
| `recurring_month_end` | as `recurring`, monthly from January 31 | `MonthlyIsEveryMonth` (violated) | finding 5 |
| `web_client` | `Dialogs`: 2 queries, 2 calls in flight, 9 sets of operations; `ActivityList`: 2 groups, 3 ranks, pages of 1, 2 filters; `GroupRoutes`: 2 groups, 2 visits; `ScanWizard`: 2 photos, 2 scans, 2 saves, 2 answers to them; `AmountField`: 8 characters, texts of up to 5; `PeopleFields`: 3 people, 3 currencies; `Accounts`: 1 user, 2 tabs of one browser, 1 session | `TypeOK`, `SavedIsShown`, `CursorsOfOneQuery`, `SavesAreSound`, `ShownIsSent`, `PartiesMakeSense`, `NotFoundIsReal`, `LoggedOutStaysOut`, `DraftsSurviveAnswers` | the client under every order of clicks, answers, failures and other people's changes |
| `last_admin` | `Accounts`: 2 users, 2 tabs, 1 session | `LastAdminStays` (violated) | finding 6 |

### Bounds, and why they are enough

Three actions are the least at which a conversion stands before, between and after
two others, and at which three ids can contradict the order of their dates; two
dates on two days separate "that day" from "before"; two clock values give both a
same-second tie and an order. Templates contain an indivisible amount (10 by 3 or 4,
7), an expense without beneficiaries, an expense for somebody who leaves, and
conversions in both directions, with a rate above one and a rate below. `MaxClock`
bounds the clock; ids bound the number of actions.

Four people are the least at which both lists of the settlement loop have two
entries and either side runs out first; the second currency shows that nothing is
carried over.

Two concurrent requests are enough for every race between a check and a write, as
one request is cut in two by at most one other at a time; one group suffices because
handlers touch one group each. Ids are used once, so in `ledger_groups` the group is
created once and may be deleted, and the cascade then races all the others. In
`ledger_entries` the two threads are interchangeable and declared symmetric; that
run has no liveness property. Symmetry is not used in `ledger_groups`.

In `recurring` one template is enough, as no action touches two; two expenses are the
least that can pay one occurrence twice. `MaxExpenses` stops Pay when so many
expenses are recorded, and `MaxDates` lets Pay and Skip begin only while a template
has announced fewer dates; the two requests that are then in flight may still add
theirs. The dates cross the end of a year, the end of a leap February, and a month
that is too short. Both threads are alike, and the run declares them symmetric.

A behaviour of `web_client` is of one of the seven modules (`part`) and leaves the other
six as they start. They are composed in one run because they share no state except
what the server has, and each models what others do to that by an action of its own
(`OthersChange`, `OthersWrite`, `OthersDo`), so interleaving two of them would only
multiply their states. Within a part:

* two calls in flight are what it takes for a late answer to meet a dialog opened
  since; the pairs of operations put a call of one component beside one of another, and
  the sets together contain every dialog. Two queries are one that every page observes
  (`groups`) and one that only the activity tab does.
* three entries on pages of one give a stack of three cursors, a total that is one
  off, and a filter that lets only the entry in the middle through; two groups are the one left
  and the one entered.
* two visits are one that leads and one that was superseded or only preloads; two
  groups are the one that is visited and the one on the screen.
* two photos and two scans give a scan that answers for the wrong photo or late; two
  saves, the second press of the button. `MaxAnswers` stops Save after two answers: the
  second press after an answer, and one more beside it.
* five characters are enough for a calculation in parentheses, for two operators of
  different precedence, for `0.2`, for signs in a row and for a division by zero. One
  character is put in or deleted at a time, which reaches every text; the forms reset the amount to 2, 0.2, zero, nothing
  and `NaN`.
* three people are a sender, a receiver and a third, and a payer with two others.
* two tabs of one browser share a cookie, which is how a request with a cookie meets the
  logout of its session; one session id is enough, because ids are never used twice. The
  property is about one session, and so about one user; two of them take roles from each
  other in `last_admin`.

`ledger_entries`, `ledger_groups`, `recurring`, `history` and `web_client` check deadlock.
The settlement runs do not: the algorithm ends.

### Fairness

`FairSpec` is used for `EveryRequestAnswered` only. Goroutines are scheduled and
queries return, hence weak fairness on a thread's checks, statements, commit and
reads. `Begin` and `Write` need the one write connection, which is taken and freed
over and over, so they get strong fairness: `database/sql` keeps the waiting requests
and, each time the connection is returned, hands it to one of them, none of which is
passed over for ever. `Receive`, `GiveUp` and `Crash` have no fairness: nobody has
to ask, to fail or to crash. The modules of the client state no fairness: their
properties are safety properties, and `SavedIsShown` speaks of the moments in which no
call and no request is left.

## Findings

1. `history_drift`: the comment of `ComputeGroupBalance` promises displayed sums
   within one cent of zero. Each member is rounded on their own: two cents paid for
   four others give −1 each and +2. The bound that holds is `DriftBounded`.
2. `settlement_minimal`: `CalculateSettlements` "computes minimal transfers"; matching
   the largest with the largest is not minimal. For −3, −2, +2, +1, +2 it takes
   four transfers where three suffice.
3. `archive_race`: "Archived groups are read-only", but the check and the write are
   two steps, and the group may be archived in between. What holds is
   `FrozenSinceReceived`: a request that arrives after the archiving changes nothing.
4. `replay`: a removed member's expenses and transfers stay, and applying them writes
   to a map the member no longer has, which panics in Go. Until the member is
   added again, the balances of the group cannot be computed. A page that is loaded
   while a member is removed may also see the members of one moment and the expenses
   of another.

5. `recurring_month_end`: a template that is `'monthly'` in the words of the schema
   and due on January 31 is due next on March 3, because `AddDate` carries the day
   that February does not have. February gets no occurrence, and the template stays on
   the 3rd.

6. `last_admin`: "Guard against demoting the last remaining admin", but the count and the
   write are two queries outside a transaction. Two admins who demote each other at the
   same time both count two, and none is left; `AdminInterceptor` then lets nobody
   change a role again. With one admin demoting themselves the guard works.

### What the client does not promise

These came up while modelling the client. Each is named as an exception by the property it
limits, so that the property says no more than the code does; the model has all of them
as behaviours.

* *A page of another group* (`activity-section.tsx:48`). The stack of cursors is state of
  `ActivitySection`, which stays mounted when a link of the sidebar leads from one group to
  another. "Cursor stack: [undefined] means first page; each push adds a next cursor", says the
  comment above it, but after such a link the new group's activity is asked for with a cursor of the old
  one's: what is called page 2 begins anywhere in the list, and entries are passed over or shown
  on both pages. `CursorsOfOneQuery` exempts these cursors (`carried`).
* *A page turned offline* (`activity-section.tsx:52`). The same for a cursor taken from a kept answer while
  a request is paused (`guessed`).
* *The rate of another pair* (`conversion-modal.tsx:163`). "The rate is only a convenience pre-fill",
  but the answer to a lookup whose dialog was dismissed replaces the rate typed in the
  dialog opened since, perhaps for other currencies. `DraftsSurviveAnswers` exempts the rate, and only
  the rate.
* *Expenses of a scan entered twice* (`scan-receipt.tsx:98`). Save can be pressed again after an answer,
  while the group's page is loading or after an error that came although the call was
  carried out. `AgainOnlyAfterAnswer` promises no more than its name.
* *A date that was cleared* (`scan-review.tsx:13`). The confirmation of a scan without a date
  breaks the page.
* *A payer who has left* (`expense-modal.tsx:135`). A template's payer is proposed although no
  longer a member. `PartiesMakeSense` exempts this payer until another is picked.

## Proofs

`History_proofs`, for any members, weights, rows, dates and currencies, proves every
property of `GroupHistory` that holds. That the rows are well-formed is the easy part: `HInv` adds to
`TypeOK` that there are finitely many and that each is filled in as a request may fill it
in (`Filled`, with `Scale` a multiple of the weights it is divided by). The hard part is
what a replay amounts to, which `Balance` defines with folds.

* The library's induction theorems take a formula as a parameter, which the provers cannot
  instantiate. `Sums_proofs` states induction with a set in its place: `AllNumbers` (a set
  of numbers that has 0 and with each number the next has them all) follows from the least
  counterexample, and `SumsRelate` is the same for a sum that is added up element by
  element. The laws of sums follow from these two.
* `ReplaysExists`, `AfterEach` and `StageByStage` turn each fold into a function on numbers:
  the balances after the first `k` events. `SortedIsSorted` shows that the events are the
  rows, each once and in order, since `Before` is total on rows with different ids
  (`BeforeIsTotal`).
* `DriftBoundedHolds` (`DriftBounded`): `EventEffect` says what one event changes;
  an expense or a transfer moves a total nowhere (`TotalsKept`: shares are exact and add up),
  a conversion empties its currency and brings half a cent of error per member
  (`TotalsConverted`). A currency nothing is converted into therefore adds up to nothing
  (`SourceTotals`), others drift with each conversion (`TargetTotals`), and the
  last rounding adds half a cent per member (`RoundedSum`).
* `BalanceIsClosedSumHolds` (`BalanceIsClosedSum`) and `SpendingLinesUpHolds`
  (`SpendingLinesUp`): without conversions a position is a sum of what the rows change
  (`PositionsAreSums`), in whatever order; rounding it at once or in two parts differs by a
  cent at most (`RoundedApart`).
* `TimelineIsPastBalanceHolds` (`TimelineIsPastBalance`) and `PastIsStableHolds`
  (`PastIsStable`): adding a snapshot that takes the place of one of its day gives one
  per day, in order (`DailyIsInOrder`), and later days leave the earlier ones alone
  (`DailyKeepsPast`). The rows up to an evening are the first to be replayed
  (`PastComesFirst`), so that the timeline up to then is the timeline of those rows
  (`TimelineOfPast`).
* `SpendingAgreesHolds` (`SpendingAgrees`): the timeline adds up the expenses one by
  one, the query all at once, the statistics payer by payer (`SumByKey`).

`Settlement_proofs`, for any finite set of members, any currencies and any balances:
`TypeCorrect`, `NeverTooMuch` (`SuggestionsSound`), `FewerThanPeople`
(`FewSuggestions`), `NobodyForgotten` (`OneSideSettled`) and `LoopProgresses`
(`EveryMatchSettles`). None of the properties is inductive: that one side is settled
at the end follows only from what the loop knows about each list at every iteration,
which `IInv` adds: everybody before the head is settled, everybody from the head on is
not, no remainder exceeds what the balance started with, and the suggestions are no
more than the heads have moved (`CountInv`; one fewer when both lists are
exhausted, because the last suggestion settled two). `ListOf` shows that the sorted
lists start that way, and `StartStep`, `MatchStep` and `FinishStep` that the loop keeps it.

`SettledUpToDriftHolds` (`SettledUpToDrift`) follows the money: `LeftInv` says that what the
lists hold is what following the suggestions leaves of the balances (`Held`), that the
suggestions move what they take (`BringsNothing`), and that every finished currency
is settled on one side. `OneMore` is the step: one suggestion more changes what
is left by what it brings. That each person is in one list at most, once, comes from sorting
(`ListHasAll`), and that a finished currency stays settled from the currencies being
different.

`Ledger_proofs` begins with `Store`, one lemma for each write query: a consistent
database, that is, one that is well-typed, has no orphans and has unique keys, stays
consistent under the conditions SQLite checks before it accepts the statement. Then,
for any number of concurrent requests, groups, users and rows, `TypeCorrect`,
`NoRowOrphaned` (`StoredRowsHaveParents`) and `NoKeyTwice` (`StoredKeysUnique`). They are not inductive for the committed database alone, since
`Commit` replaces it by what the transaction staged. `IInv` therefore says that the
staged database is consistent as well, and that only the owner of the write
connection is inside a transaction. `HandlerIsWellTyped` shows that the statements of
every handler have arguments of the right types, `RunKeeps` that an accepted
statement keeps a database consistent, and `StepIInv` has one step per action.

`Requests_proofs`, for the same instances: `ExpensesComplete`
(`StoredExpensesComplete`), `DefaultsListed` (`StoredDefaultListed`),
`FrozenSinceReceivedHolds` (`FrozenSinceReceived`) and `TransfersBetweenMembersHolds`
(`TransfersBetweenMembers`). Each is broken in the middle of some transaction and true
again at its end, so it cannot be inductive over statements. `WInv` relates a
transaction to where it began, in three parts:

* `StagedFromCommitted`: the staged tables are the committed ones after exactly the
  statements run so far. This is where the single write connection matters: nobody
  else commits in between. At `Commit` it makes the whole request one relation between
  the committed tables before and after (`GroupRequestsDo`, `EntryRequestsDo`).
* `HistoryRecorded`: what the checks that passed have `Established`. A check is
  followed by other requests' writes, so it says nothing of the database as it is when
  the handler writes; what survives is about the time since the request arrived
  (`ChecksEstablish`).
* `IdsUsedOnce`: a row that is about to be inserted has an id that no other row and no
  other request has, and the row a request names is one of its group.

`StepKinds` then says that every step of the server is of one of a few kinds: it brings a
request in, changes nothing others see, carries one request out completely, crashes.
The invariants and the action properties are checked against these kinds only;
`TablesStayComplete` and `EntriesStayHome` do it for each operation.

It ends with the refinement, again for the same instances: `BookImplemented`
(`ImplementsGroupBook`), that `Ledger` implements the atomic `GroupBook`, and
`BookWellKept`, that what the rows amount to is always a well-typed book. By
`StepKinds` only a step that carries a request out changes the book. `PageParts` takes
a page apart into what its eight tables contribute, and `OnePageChanges` says that
requests of one group leave the pages of the others as they are, so that for each
operation it remains to show that the parts that changed are those the
book's operation changes (`GroupRequestsInTheBook`, `EntryRequestsInTheBook`). The proof
needs that no expense is without its payer, which is why it comes after
`ExpensesComplete`.

`Recurring_proofs`, for any number of requests and templates, any frequencies and any
dates: `NoneLost` (`NoOccurrenceLost`), `NoneSettledTwice` (`SettledOnce`) and
`LinksAlwaysResolve` (`LinksResolve`). `NextIsLater` shows that what
`calculateNextOccurrence` returns is a date and later than its argument, over the ends
of months and years, and `BeforeIsAnOrder` that dates are totally ordered. `IInv` adds
two descriptions of a template's past. One holds while nothing raced
(`UnracedInOrder`): the next occurrence is the last announced and the only open one;
it needs `CopiesCurrent`, that a request which was not overtaken holds the row as it
is. The other holds while nobody changed the frequency (`UneditedChain`), and there
races do no harm: what follows an occurrence was announced when it was settled, so
advancing again from an old row announces what is announced already. `IInvHolds` has
one step per action, and one for what Pay and Skip share.

`TypeCorrect` (`TypeOK`) and `WellSpacedHolds` (`WellSpaced`) rest on the same
invariant, the latter on `NextIsWellSpaced`: `YearsAddUp` and `MonthsAddUp` give the days
from the start of one year or month to that of the next, leap years included, and
each frequency is then arithmetic. `FrozenSinceReceivedHolds` (`FrozenSinceReceived`) adds
`Frozen`: a request that arrived while the group was archived, and has not seen it
unarchived since, has not got past `CheckArchived`.

`Client_proofs`, for any people, currencies, entries, filters, page sizes, users, tabs and
sessions, any queries, operations and calls, groups and visits, photos, scans and saves:

* `PartiesStaySensible` (`PartiesMakeSense`). `PeopleInv` adds that the defaults a new expense
  is reset to have the members as they are now, so that a payer who is left out is no member, and
  that the user is always among the members: a reset, a member who leaves and a new target group
  would break the property otherwise.
* `CursorsStayOfOneQuery` (`CursorsOfOneQuery`). The property is about the stack, but the
  next cursor comes from the answer on the screen. `ListInv` adds `AnswerFits`: an answer
  to the query on top of the stack is of the group and the filters of the page and goes on after
  that cursor, and an answer to another query is on the screen only while a request is under way
  or paused; in the latter case the cursor it gives is a guess. A change of the group carries all
  cursors above the first, and leaves their order as it was.
* `SessionsStayLoggedOut` (`LoggedOutStaysOut`). `SessionsInv` adds the shapes of
  requests and tables and, for each request, that one which began with a logged out
  session is still before the check or refused, and that one which renews or deletes
  has a session. The rest is the code: `UPDATE ... WHERE id` finds no row after
  the logout, and a new session has a new id.
* `NotFoundIsTrue` (`NotFoundIsReal`). The property is about what was said,
  `VisitsWereReal` about the visits that may still say it: a visit to a group that was
  there when it began finds the group in any answer asked for since, unless the group
  is gone by now.
* `SavesStaySound` (`SavesAreSound`). `WizardInv` adds what is known of each scan and
  save in flight: a picture is read or scanned, not both, and under a number of its own
  (`ScansApart`); two scans of one page are not alone (`Company`); a scan is of the
  photo chosen, or marked stale, and no page that has gone away has one (`OfThePhoto`);
  one creation at most is in flight, and the draft's expenses are entered once more often than
  was answered only while that one is entered and unanswered (`Tally`). `LeastMember` is for the numbers:
  the next scan takes the least that is free.
* `SavedStaysShown` (`SavedIsShown`). The property is about moments of rest; `QueryFits`
  says what holds of a query at any time: it is as the server has it, or excused, or
  an answer that will be right is on its way, or the handler of a call that was carried
  out is still to run and will ask again (`Awaited`). `RefreshedIsChanged` compares, for
  every operation, what the server changes with what the handlers invalidate.
* `DraftsSurvive` (`DraftsSurviveAnswers`). `OwnCalls`: as long as a dialog with something
  typed into it is open, no call of its kind is in flight but its own, because the hook
  that is pending keeps its fields disabled. Lookups of a rate are of no kind: their answers
  close nothing, and take the rate alone.

* The types of each part (`DialogsTypesHold`, `ActivityTypesHold`, `RoutesTypesHold`,
  `WizardTypesHold`, `PeopleTypesHold`, `AccountsTypesHold`) rest on these invariants
  and on three facts more. The calls in flight are told apart by their numbers, so
  that there are no more than numbers (`CallsApart`, `CallsAreFew`). What becomes of the
  visits that wait makes them fewer, not more (`SmallImage`). And the client is never told a
  role that nobody has: whoever a request is served for has one, as has the user of every
  session, because no handler takes a role away (`AccountTypes`).
* `ClientTypesHold` (`TypeOK` of `MCClient`) and `ClientKeepsItsPromises` put the parts
  together, the amount field among them: `PartsAreThemselves` shows that a behaviour of
  `MCClient` is one of each part, so that what holds of the parts holds of the client.

`Amount_proofs`, for texts of any length over any characters:

* `ParserGivesMeaning`: for every sequence of tokens the parser accepts exactly what has a
  meaning, and returns that. The parser and the meaning recur in different ways, one
  from left to right over the calls of its methods, the other over stretches of the
  text, and neither is defined by induction over the other. First, both exist: a call
  depends on calls with fewer tokens left, or with as many and of a method further down
  (`Left`, `ParserExists`), a stretch on shorter ones (`Width`, `MeaningsExist`); the same goes for
  `tokenize` and `parseFloat`. Then, what means something is parsed as that (`AllIsParsed`, by
  induction over the length): its last sum ends where the loop of `parseExpr` stops, because
  nothing behind it splits. And what is parsed means that (`AllIsSound`, by induction over
  the tokens left): whatever a method has read is closed under parentheses (`Closed`), so
  that joining it with an operator and a further operand makes that operator the last
  one (`JoinSplits`, `JoinTerm`, `JoinSum`). Each of the inductions is over a set of numbers
  (`AllNumbers` of `Sums_proofs`).
* `AmountShownIsSent` (`ShownIsSent`) and `AmountTypesHold`. `AmountInv` says that the field
  knows the form's amount (`prevExternal`), and that this is what the text amounts
  to, or the text is empty and the amount nothing that could be sent. That a reset writes a
  text which amounts to what it was reset to is what `AmountAssumption` says of
  `String()` (`WrittenAmounts`).

The assumptions are those the modules name: `ScaleAssumption` (there are sub-cents and days),
`HistoryAssumption` (dates and ids are numbers, weights are positive, what is entered has
the columns of its table and a positive denominator in its rate), `SettlementAssumption`
(the members have an order, the currencies are listed once), `StoreAssumption` (a new member's weight, 1, is a weight), `RecurringAssumption`
(the four frequencies, start dates are dates, `Null` is no template) and
`LedgerAssumption`
(the databases to start from are consistent, their expenses have one payer each and
their default currencies are listed; the requests are requests, and those for two
expenses or two conversions at once are for one group; `Nobody` is no thread), and for the client `PeopleAssumption` (the user is one of the people),
`ActivityAssumption` (filters let ranks through, a page has room for an entry) and
`AccountsAssumption` (every tab has a browser, `"none"` is no user and no session),
`RoutesAssumption` (finitely many groups, none with the name of a screen),
`WizardAssumption` (finitely many photos, numbers for at least one scan and one save),
`DialogsAssumption` (the list of groups is among the queries, the operations are
operations, there is a call) and `AmountAssumption` (the texts that `String()` writes are
numbers, and a zero of either sign is written as 0). TLC evaluates them in the passing runs.

Only model-checked:

* `EveryRequestAnswered`, as liveness is out of the prover's reach.

Every other property of the passing runs, invariants and action properties alike, is
stated by a theorem.

## Not modelled

* Floating-point noise: shares are exact in the model.  `int64(amount * 100)`, which
  truncates, is outside it too; amounts enter as whole cents.
* Loss of power: `Crash` is the end of the process. With `synchronous=NORMAL` SQLite
  may lose the last commits when the machine itself goes down, which is a step back
  to an earlier committed database.
* Users are never deleted, as in the code; cascades from `users` do not occur.
* Names, and their uniqueness: a violation is one of the failures `GiveUp` stands for.
* `BulkCreateExpenses` and `CreateConversions` take any number of entries; the model's
  requests have two. `BulkCreateExpenses` is used for one group, as the client does.
* Requests that name a row of another group: handlers check the group the request
  names, `Offers` restricts requests to what the client offers.
* The checks of pages that only read (membership of the asking user).
* Images: nothing else depends on a file or on the row that says since when it is
  there. A file without a row is overwritten by the next upload, and a row without a file
  is answered with 404. The dialog that uploads is part of `Dialogs`.
* Exchange rates, but for when the answer to a lookup of the conversion form arrives: which rate it is,
  and of which pair and day (both can be changed while it is looked up), is left out. A rate is
  stored only as the form sends it, so no state depends on the server's cache. The
  single-currency dialog looks several up; that hook lives in the dialog and its answer is lost
  with it.
* Settings, importers, the server's side of receipt scanning, configuration and logging:
  no interplay of steps that a property could be about, or outside this code (a
  language model, foreign export formats).
* In the client: the pages for settings and administration, charts, and what only
  displays. The single-currency dialog lives in the suggestions and is hidden while a
  new answer has none; the model keeps it on the screen. `route.tsx` looks up the group
  of its page with `find!`: the model calls the page of a missing group `broken`, and
  says nothing of what is displayed then.
* Of accounts: the life of a cookie, which is a year; the name and the avatar of a user;
  the lists an admin reads. A user made by OIDC has no password hash, and a login with
  a password for such a user is one of the failures `ServerRefuses` stands for.
* Queries a handler does not refresh (`Forgotten`, above): `SavedIsShown` holds up to
  those.

Definitions for the records of requests are mapped to the message types generated from
the protocol (`src/web/src/gen`), which list the fields that handlers and forms share. What
the model knows of a library (TanStack Query and Router, react-hook-form) is marked
external in `PROJECT.json`, and taken from how the code uses it.

## What could be added

A model of the image files with their rows, were anything to depend on both; amounts as the
binary fractions they are until `int64(amount * 100)`, with tools that have them; and
`EveryRequestAnswered` as a theorem, once the prover has ENABLED.
