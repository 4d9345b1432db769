------------------------------ MODULE Recurring ------------------------------
(***************************************************************************)
(* The recurring expenses of a group                                       *)
(* (http/routes/recurring_expense/recurring_expense.go).                   *)
(*                                                                         *)
(* A template says when its next occurrence is due.  Paying it records an  *)
(* expense and moves the next occurrence on; skipping it only moves it on. *)
(* Both compute the new date from the template as they have read it before *)
(* they write, and other requests may have written in between.             *)
(***************************************************************************)
EXTENDS Calendar, Sequences, FiniteSets

CONSTANTS
    Threads,      \* requests in flight at a time
    Templates,    \* ids of templates
    Frequencies,  \* how often something may recur
    StartDates,   \* when a template may begin
    Null,         \* recurring_id of an expense whose template is gone
    MaxExpenses,  \* bound: expenses recorded
    MaxDates      \* bound: dates a template goes through before Pay and Skip stop

ASSUME RecurringAssumption ==
    /\ Null \notin Templates
    /\ Frequencies \subseteq {"daily", "weekly", "monthly", "yearly"}
    /\ StartDates \subseteq Dates
    /\ MaxExpenses \in Nat
    /\ MaxDates \in Nat

Row == [frequency : Frequencies, next : Dates]

\* What users ask for.  The group's id is left out: there is one group here.
Request ==
    [op : {"create"}, template : Templates, frequency : Frequencies, start : StartDates]
    \cup [op : {"update"}, template : Templates, frequency : Frequencies]
    \cup [op : {"delete", "pay", "skip"}, template : Templates]

VARIABLES
    templates,  \* table recurring_expenses: the rows by their ids
    expenses,   \* table expenses as far as templates led to them, in order of creation
    archived,   \* whether the group is
    thr,        \* what each thread is doing
    issued,     \* the template ids handed out so far
    due,        \* history: every occurrence that a template has announced as its next
    skipped,    \* history: the occurrences that were skipped
    edited,     \* history: the templates whose frequency may have been changed
    raced       \* history: the templates whose next occurrence was computed from a
                \*          row that had changed since it was read

vars == <<templates, expenses, archived, thr, issued, due, skipped, edited, raced>>

Occurrence(x, d) == [template |-> x, date |-> d]
DatesOf(x) == {o.date : o \in {o \in due : o.template = x}}

Idle == [at |-> "idle"]

\* What a thread may be doing: Pay and Skip hold the row they have read.
ThreadState ==
    {Idle}
    \cup [at : {"reading", "checking", "writing"}, req : Request, frozen : BOOLEAN,
          overtaken : BOOLEAN]
    \cup [at : {"checking", "writing"}, req : Request, frozen : BOOLEAN,
          overtaken : BOOLEAN, read : Row]

Busy(t) == thr[t].at # "idle"
At(t, step) == thr[t].at = step
Op(t) == thr[t].req.op
Template(t) == thr[t].req.template

----------------------------------------------------------------------------
\* The schedule

\* Mutant: AddDate's arguments in the wrong order.
calculateNextOccurrenceSwapped(current, frequency) ==
    CASE frequency = "daily"   -> AddDate(current, 1, 0, 0)
      [] frequency = "weekly"  -> AddDate(current, 7, 0, 0)
      [] frequency = "monthly" -> AddDate(current, 0, 1, 0)
      [] frequency = "yearly"  -> AddDate(current, 0, 0, 1)

\* Mutant: the month is counted on without regard to the calendar.
calculateNextOccurrenceByHand(current, frequency) ==
    IF frequency = "monthly" THEN Date(current.year, current.month + 1, current.day)
    ELSE AddDate(current, 0, 0, 7)

calculateNextOccurrence(current, frequency) ==
    CASE frequency = "daily"   -> AddDate(current, 0, 0, 1)
      [] frequency = "weekly"  -> AddDate(current, 0, 0, 7)
      [] frequency = "monthly" -> AddDate(current, 0, 1, 0)
      [] frequency = "yearly"  -> AddDate(current, 1, 0, 0)

\* What thread t is about to write as the next occurrence.
NextOccurrence(t) == calculateNextOccurrence(thr[t].read.next, thr[t].read.frequency)

----------------------------------------------------------------------------
\* Steps

Init ==
    /\ templates = [x \in {} |-> {}]
    /\ expenses = <<>>
    /\ archived = FALSE
    /\ thr = [t \in Threads |-> Idle]
    /\ issued = {}
    /\ due = {}
    /\ skipped = {}
    /\ edited = {}
    /\ raced = {}

\* A template is created under a new id; the others are asked for from a page that
\* has shown them, though they may be gone by now.
Receive(t, r) ==
    /\ ~ Busy(t)
    /\ IF r.op = "create" THEN r.template \notin issued ELSE r.template \in issued
    /\ issued' = issued \cup {r.template}
    /\ thr' = [thr EXCEPT ![t] =
           [at |-> IF r.op \in {"pay", "skip"} THEN "reading" ELSE "checking",
            req |-> r, frozen |-> archived, overtaken |-> FALSE]]
    /\ UNCHANGED <<templates, expenses, archived, due, skipped, edited, raced>>

End(t) == thr' = [thr EXCEPT ![t] = Idle]

\* GetRecurringExpense, by which Pay and Skip begin.
ReadTemplate(t) ==
    /\ At(t, "reading")
    /\ \/ /\ Template(t) \in DOMAIN templates
          /\ Cardinality(DatesOf(Template(t))) < MaxDates
          /\ thr' = [thr EXCEPT ![t] =
                 [at |-> "checking", req |-> @.req, frozen |-> @.frozen, overtaken |-> FALSE,
                  read |-> templates[Template(t)]]]
       \/ Template(t) \notin DOMAIN templates /\ End(t)
    /\ UNCHANGED <<templates, expenses, archived, issued, due, skipped, edited, raced>>

\* Mutant: Pay and Skip do not ask whether the group is archived.
CheckArchivedForEdits(t) ==
    /\ At(t, "checking")
    /\ IF archived /\ Op(t) \notin {"pay", "skip"}
           THEN End(t)
           ELSE thr' = [thr EXCEPT ![t].at = "writing"]
    /\ UNCHANGED <<templates, expenses, archived, issued, due, skipped, edited, raced>>

\* AssertGroupNotArchived
CheckArchived(t) ==
    /\ At(t, "checking")
    /\ IF archived THEN End(t) ELSE thr' = [thr EXCEPT ![t].at = "writing"]
    /\ UNCHANGED <<templates, expenses, archived, issued, due, skipped, edited, raced>>

Create(t) ==
    /\ At(t, "writing") /\ Op(t) = "create"
    /\ templates' = [x \in DOMAIN templates \cup {Template(t)} |->
           IF x = Template(t)
           THEN [frequency |-> thr[t].req.frequency, next |-> thr[t].req.start]
           ELSE templates[x]]
    /\ due' = due \cup {Occurrence(Template(t), thr[t].req.start)}
    /\ End(t)
    /\ UNCHANGED <<expenses, archived, issued, skipped, edited, raced>>

\* Thread t ends; those that have read template x before now hold a stale copy.
EndOvertaking(t, x) ==
    thr' = [u \in Threads |->
        IF u = t THEN Idle
        ELSE IF Busy(u) /\ Template(u) = x THEN [thr[u] EXCEPT !.overtaken = TRUE]
        ELSE thr[u]]

\* The name, the amount and the payer change too, but the schedule does not depend
\* on them.  UPDATE ... RETURNING fails if the row is gone.
Update(t) ==
    /\ At(t, "writing") /\ Op(t) = "update"
    /\ \/ /\ Template(t) \in DOMAIN templates
          /\ templates' = [templates EXCEPT ![Template(t)].frequency = thr[t].req.frequency]
          /\ edited' = edited \cup {Template(t)}
          /\ EndOvertaking(t, Template(t))
       \/ Template(t) \notin DOMAIN templates /\ End(t) /\ UNCHANGED <<templates, edited>>
    /\ UNCHANGED <<expenses, archived, issued, due, skipped, raced>>

\* Mutant: ON DELETE SET NULL left out.
DeleteKeepingLinks(t) ==
    /\ At(t, "writing") /\ Op(t) = "delete"
    /\ templates' = [x \in DOMAIN templates \ {Template(t)} |-> templates[x]]
    /\ End(t)
    /\ UNCHANGED <<expenses, archived, issued, due, skipped, edited, raced>>

\* ON DELETE SET NULL: the expenses stay.
Delete(t) ==
    /\ At(t, "writing") /\ Op(t) = "delete"
    /\ templates' = [x \in DOMAIN templates \ {Template(t)} |-> templates[x]]
    /\ expenses' = [i \in DOMAIN expenses |->
           IF expenses[i].template = Template(t)
           THEN [expenses[i] EXCEPT !.template = Null] ELSE expenses[i]]
    /\ End(t)
    /\ UNCHANGED <<archived, issued, due, skipped, edited, raced>>

\* Mutant: the next occurrence is not written.
AdvanceNothing(t) ==
    /\ EndOvertaking(t, Template(t))
    /\ UNCHANGED <<templates, due, raced>>

\* UpdateNextOccurrence
Advance(t) ==
    /\ templates' = [templates EXCEPT ![Template(t)].next = NextOccurrence(t)]
    /\ due' = due \cup {Occurrence(Template(t), NextOccurrence(t))}
    /\ raced' = IF thr[t].overtaken THEN raced \cup {Template(t)} ELSE raced
    /\ EndOvertaking(t, Template(t))

\* Mutant: the date is written outside the transaction, and the expense fails.
PayAdvanceOnly(t) ==
    /\ At(t, "writing") /\ Op(t) = "pay"
    /\ Template(t) \in DOMAIN templates
    /\ Len(expenses) < MaxExpenses
    /\ Advance(t)
    /\ UNCHANGED <<expenses, archived, issued, skipped, edited>>

\* The transaction of Pay: the expense, its payer, its beneficiaries and the new date,
\* or nothing.  An expense for a template that is gone violates a foreign key.
Pay(t) ==
    /\ At(t, "writing") /\ Op(t) = "pay"
    /\ \/ /\ Template(t) \in DOMAIN templates
          /\ Len(expenses) < MaxExpenses
          /\ expenses' = Append(expenses,
                 [template |-> Template(t),
                  pays |-> Occurrence(Template(t), thr[t].read.next)])
          /\ Advance(t)
       \/ /\ Template(t) \notin DOMAIN templates
          /\ End(t)
          /\ UNCHANGED <<templates, expenses, due, raced>>
    /\ UNCHANGED <<archived, issued, skipped, edited>>

\* The UPDATE of Skip finds no row if the template is gone, which is no error.
Skip(t) ==
    /\ At(t, "writing") /\ Op(t) = "skip"
    /\ \/ /\ Template(t) \in DOMAIN templates
          /\ skipped' = skipped \cup {Occurrence(Template(t), thr[t].read.next)}
          /\ Advance(t)
       \/ /\ Template(t) \notin DOMAIN templates
          /\ End(t)
          /\ UNCHANGED <<templates, due, skipped, raced>>
    /\ UNCHANGED <<expenses, archived, issued, edited>>

\* A query fails or the client is gone.
GiveUp(t) ==
    /\ Busy(t)
    /\ End(t)
    /\ UNCHANGED <<templates, expenses, archived, issued, due, skipped, edited, raced>>

\* The server stops and starts again.
Crash ==
    /\ thr' = [t \in Threads |-> Idle]
    /\ UNCHANGED <<templates, expenses, archived, issued, due, skipped, edited, raced>>

\* SetGroupArchived (see Ledger).  A request is no longer frozen once it has been off.
SetGroupArchived ==
    /\ archived' = ~ archived
    /\ thr' = [t \in Threads |->
           IF Busy(t) /\ archived THEN [thr[t] EXCEPT !.frozen = FALSE] ELSE thr[t]]
    /\ UNCHANGED <<templates, expenses, issued, due, skipped, edited, raced>>

Next ==
    \/ \E t \in Threads :
           \/ \E r \in Request : Receive(t, r)
           \/ ReadTemplate(t) \/ CheckArchived(t)
           \/ Create(t) \/ Update(t) \/ Delete(t) \/ Pay(t) \/ Skip(t)
           \/ GiveUp(t)
    \/ Crash
    \/ SetGroupArchived

Spec == Init /\ [][Next]_vars

----------------------------------------------------------------------------
\* Properties

TypeOK ==
    /\ templates = [x \in DOMAIN templates |-> templates[x]]
    /\ DOMAIN templates \subseteq issued
    /\ \A x \in DOMAIN templates : templates[x] \in Row
    /\ issued \subseteq Templates
    /\ expenses \in Seq([template : Templates \cup {Null}, pays : due])
    /\ archived \in BOOLEAN
    /\ thr \in [Threads -> ThreadState]
    /\ due \subseteq [template : issued, date : Dates]
    /\ skipped \subseteq due
    /\ edited \subseteq issued /\ raced \subseteq issued

Paid(o) == \E i \in DOMAIN expenses : expenses[i].pays = o

\* No occurrence is passed over: whatever is due before a template's next occurrence
\* has been paid or skipped, also when requests overlap.  Only overlapping requests
\* together with a change of frequency can lose one.
NoOccurrenceLost ==
    \A x \in DOMAIN templates : x \notin raced \cap edited =>
        \A d \in DatesOf(x) : Before(d, templates[x].next) =>
            Paid(Occurrence(x, d)) \/ Occurrence(x, d) \in skipped

\* As long as no Pay or Skip of a template overlapped another, or an edit, each of its
\* occurrences is paid at most once, and never both paid and skipped.
SettledOnce ==
    \A x \in Templates \ raced :
        /\ \A i, j \in DOMAIN expenses :
               expenses[i].pays.template = x /\ expenses[i].pays = expenses[j].pays => i = j
        /\ \A i \in DOMAIN expenses :
               expenses[i].pays.template = x => expenses[i].pays \notin skipped

\* The schema's FOREIGN KEY (recurring_id): an expense refers to a template that
\* exists, or to none, even when the template is deleted while it is being paid.
LinksResolve ==
    \A i \in DOMAIN expenses : expenses[i].template \in DOMAIN templates \cup {Null}

\* The dates keep the distance the frequency stands for, over the ends of months and
\* years and in leap years.
Gap(f) ==
    CASE f = "daily"   -> {1}
      [] f = "weekly"  -> {7}
      [] f = "monthly" -> 28..31
      [] f = "yearly"  -> {365, 366}

WellSpaced ==
    \A o \in due : \A f \in {"daily", "weekly", "monthly", "yearly"} :
        LET next == calculateNextOccurrence(o.date, f)
        IN  next \in Dates /\ DayNumber(next) - DayNumber(o.date) \in Gap(f)

\* A request that arrives while the group is archived changes nothing as long as it
\* stays archived: nothing is created, edited, deleted, paid or skipped.
FrozenSinceReceived ==
    [][\A t \in Threads : (Busy(t) /\ thr[t].frozen /\ ~ Busy(t)') =>
           UNCHANGED <<templates, expenses>>]_vars

\* db/schema/001_init.sql calls the frequency 'monthly': a template whose frequency
\* has always been that has an occurrence in every month.
MonthlyIsEveryMonth ==
    Frequencies = {"monthly"} =>
        \A x \in Templates \ raced :
            LET months == {MonthNumber(d) : d \in DatesOf(x)}
            IN  \A m, n \in months : m..n \subseteq months

=============================================================================
