---------------------------- MODULE Client_proofs ----------------------------
(* What the web client keeps, whatever the order in which users act and      *)
(* answers arrive: the forms, the list of activities, the sessions, the guard *)
(* of the group page, the scan wizard, and the dialogs with the queries they  *)
(* make stale. For any number of people, currencies, entries, tabs, users,    *)
(* groups, visits, photos, scans and calls. Last, all parts together, and     *)
(* with them the amount field of Amount_proofs: what the runs of MCClient and *)
(* of ActivityList check on small instances.                                  *)
EXTENDS MCClient, Amount_proofs, FiniteSetTheorems, WellFoundedInduction

-----------------------------------------------------------------------------
\* The linked fields

PeopleInv == PeopleTypeOK /\ Me \in roster /\ PartiesMakeSense

\* The invariant of the linked fields.
LEMMA PeopleInvHolds == PeopleSpec => []PeopleInv
<1>1. PeopleInit => PeopleInv
  <2> SUFFICES ASSUME PeopleInit PROVE PeopleInv
    OBVIOUS
  <2>1. PeopleTypeOK
    BY PeopleAssumption DEF PeopleInit, PeopleTypeOK, Forms
  <2>2. Me \in roster /\ PartiesMakeSense
    BY DEF PeopleInit, PartiesMakeSense
  <2> QED
    BY <2>1, <2>2 DEF PeopleInv
<1>2. PeopleInv /\ [PeopleNext]_peopleVars => PeopleInv'
  <2> SUFFICES ASSUME PeopleInv, [PeopleNext]_peopleVars PROVE PeopleInv'
    OBVIOUS
  <2> USE PeopleAssumption
      DEF PeopleInv, PeopleTypeOK, PartiesMakeSense, Forms,
          expenseFields, transferFields, groupFields, NoOne
  <2>1. CASE NewExpense
    BY <2>1 DEF NewExpense
  <2>2. CASE EditExpense
    BY <2>2 DEF EditExpense
  <2>3. CASE NewScan
    BY <2>3 DEF NewScan, Target
  <2>4. CASE setGroupId
    <3> PICK R \in SUBSET People : Me \in R /\ Target(R)
      BY <2>4 DEF setGroupId
    <3> QED
      BY <2>4 DEF setGroupId, Target
  <2>5. CASE NewTransfer
    BY <2>5 DEF NewTransfer
  <2>6. CASE OpenGroup
    BY <2>6 DEF OpenGroup
  <2>7. CASE CloseForm
    BY <2>7 DEF CloseForm
  <2>8. CASE MembersAnswered
    <3>1. roster' \subseteq People /\ Me \in roster'
      BY <2>8 DEF MembersAnswered
    <3>2. form' = form /\ UNCHANGED <<waiting, sender, receiver, chosen, standard>>
      BY <2>8 DEF MembersAnswered
    <3>3. CASE form = "expense"
      <4>1. start' = [payer |-> start.payer, included |-> roster']
        BY <2>8, <3>3 DEF MembersAnswered
      <4>2. payer' = start'.payer /\ included' = start'.included
        BY <2>8, <3>3 DEF MembersAnswered
      <4> QED
        BY <3>1, <3>2, <3>3, <4>1, <4>2
    <3>4. CASE form = "edit"
      <4>1. start' = start /\ payer' = start.payer /\ included' = start.included
        BY <2>8, <3>4 DEF MembersAnswered
      <4> QED
        BY <3>1, <3>2, <3>4, <4>1
    <3>5. CASE form \notin {"expense", "edit"}
      <4>1. start' = start /\ payer' = payer /\ included' = included
        BY <2>8, <3>5 DEF MembersAnswered
      <4> QED
        BY <3>1, <3>2, <3>5, <4>1
    <3> QED
      BY <3>3, <3>4, <3>5
  <2>9. ASSUME NEW p \in roster, toggleIncluded(p) PROVE PeopleInv'
    BY <2>9 DEF toggleIncluded, Peopled, CanToggle
  <2>10. ASSUME NEW p \in roster, setPayer(p) PROVE PeopleInv'
    BY <2>10 DEF setPayer, Peopled
  <2>11. ASSUME NEW p \in roster, pickSender(p) PROVE PeopleInv'
    BY <2>11 DEF pickSender
  <2>12. ASSUME NEW p \in roster, pickReceiver(p) PROVE PeopleInv'
    BY <2>12 DEF pickReceiver
  <2>13. CASE swap
    BY <2>13 DEF swap
  <2>14. ASSUME NEW c \in Money, toggleCurrency(c) PROVE PeopleInv'
    BY <2>14 DEF toggleCurrency
  <2>15. ASSUME NEW c \in Money, pickDefault(c) PROVE PeopleInv'
    BY <2>15 DEF pickDefault
  <2>16. CASE SubmitForm
    BY <2>16 DEF SubmitForm
  <2>17. CASE FormRefused
    BY <2>17 DEF FormRefused
  <2>18. CASE UNCHANGED peopleVars
    BY <2>18 DEF peopleVars
  <2> QED
    BY <2>1, <2>2, <2>3, <2>4, <2>5, <2>6, <2>7, <2>8, <2>9, <2>10, <2>11, <2>12,
       <2>13, <2>14, <2>15, <2>16, <2>17, <2>18
    DEF PeopleNext
<1> QED
  BY <1>1, <1>2, PTL DEF PeopleSpec

\* The parties of every form make sense, whoever joins or leaves: nobody transfers
\* to themselves, the default currency is one of the group's, and the payer takes
\* part, but for a former member whom a template names and an expense that was
\* stored without its payer.
THEOREM PartiesStaySensible == PeopleSpec => []PartiesMakeSense
BY PeopleInvHolds, PTL DEF PeopleInv

\* The linked fields keep their types.
THEOREM PeopleTypesHold == PeopleSpec => []PeopleTypeOK
BY PeopleInvHolds, PTL DEF PeopleInv

-----------------------------------------------------------------------------
\* The list of activities

AnswerShape(a) ==
  /\ a = [own |-> a.own, group |-> a.group, filters |-> a.filters, more |-> a.more,
          last |-> a.last, total |-> a.total]
  /\ a.own \in BOOLEAN /\ a.more \in BOOLEAN
  /\ a.group \in ListGroups /\ a.filters \in Filters
  /\ a.more => a.last \in Ranks

StackShape == cursorStack \in Seq(Cursor) /\ Len(cursorStack) > 0

\* An answer that is shown to its own query goes on from the page it is of; an
\* answer to another query is on screen only while its own is being asked for.
AnswerFits ==
  /\ shown.own /\ shown.more =>
       /\ shown.group = group /\ shown.filters = filters
       /\ shown.last < LastOf(cursorStack).after
  /\ fetch = "idle" /\ shown.more => shown.own

ListInv ==
  /\ entries \in SUBSET Ranks /\ group \in ListGroups /\ filters \in Filters /\ StackShape
  /\ fetch \in {"idle", "fetching", "paused"}
  /\ AnswerShape(shown) /\ AnswerFits
  /\ CursorsOfOneQuery

\* The invariant of the list.
LEMMA ListInvHolds == ActivitySpec => []ListInv
<1> USE ActivityAssumption DEF Ranks
<1>1. ASSUME NEW S \in SUBSET Ranks, NEW g \in ListGroups, NEW f \in Filters, NEW c,
             NEW a \in GetGroupActivity(S, g, f, c)
      PROVE  /\ AnswerShape(a) /\ a.own /\ a.group = g /\ a.filters = f
             /\ a.more => a.last < c.after
  <2> DEFINE rows == Listed(S, f, c)
             more == Cardinality(rows) > LIMIT
             total == Cardinality(S \cap f)
             totals == {total, total + 1} \cup (IF total > 0 THEN {total - 1} ELSE {})
  <2>1. /\ a \in [own : {TRUE}, group : {g}, filters : {f}, more : {more}, last : rows \cup {0},
                  total : totals]
        /\ more => a.last \in rows
    BY <1>1 DEF GetGroupActivity
  <2>2. rows \subseteq S /\ (\A r \in rows : r < c.after)
    BY DEF Listed
  <2>3. more \in BOOLEAN
    OBVIOUS
  <2> HIDE DEF rows, more, totals
  <2> QED
    BY <2>1, <2>2, <2>3 DEF AnswerShape
<1>2. ASSUME NEW g \in ListGroups, NEW f \in Filters PROVE FirstPage(g, f) \in Cursor
  BY DEF FirstPage, Cursor
<1>3. ActivityInit => ListInv
  <2> SUFFICES ASSUME ActivityInit PROVE ListInv
    OBVIOUS
  <2>1. StackShape /\ Len(cursorStack) = 1
    BY <1>2 DEF ActivityInit, StackShape
  <2>2. AnswerShape(shown) /\ AnswerFits
    BY DEF ActivityInit, NoAnswer, AnswerShape, AnswerFits
  <2> QED
    BY <2>1, <2>2 DEF ActivityInit, ListInv, CursorsOfOneQuery
<1>4. ListInv /\ [ActivityNext]_activityVars => ListInv'
  <2> SUFFICES ASSUME ListInv, [ActivityNext]_activityVars PROVE ListInv'
    OBVIOUS
  <2>1. ASSUME NEW g \in ListGroups, NEW f \in Filters, Observe(g, f, LastOf(cursorStack')),
               group' = g, filters' = f
        PROVE  fetch' \in {"fetching", "paused"} /\ AnswerShape(shown') /\ AnswerFits'
    <3>1. fetch' \in {"fetching", "paused"}
      BY <2>1 DEF Observe
    <3>2. CASE shown' = [shown EXCEPT !.own = FALSE]
      BY <3>1, <3>2 DEF ListInv, AnswerShape, AnswerFits
    <3>3. ASSUME NEW S \in SUBSET Ranks, shown' \in GetGroupActivity(S, g, f, LastOf(cursorStack'))
          PROVE  AnswerShape(shown') /\ AnswerFits'
      BY <1>1, <2>1, <3>1, <3>3 DEF AnswerFits, LastOf
    <3> QED
      BY <2>1, <3>1, <3>2, <3>3 DEF Observe
  <2>2. CASE OthersWrite
    BY <2>2 DEF OthersWrite, ListInv, StackShape, AnswerFits, CursorsOfOneQuery, LastOf
  <2>3. CASE handleNext
    <3> DEFINE top == LastOf(cursorStack)
               new == [after |-> shown.last, group |-> shown.group, filters |-> shown.filters,
                       guessed |-> fetch = "paused" /\ ~shown.own, carried |-> FALSE]
    <3>1. /\ cursorStack' = Append(cursorStack, new) /\ shown.more
          /\ fetch # "fetching" /\ UNCHANGED <<entries, group, filters>>
          /\ Observe(group, filters, LastOf(cursorStack'))
      BY <2>3 DEF handleNext, NextEnabled, isLoading
    <3>2. top \in Cursor
      BY DEF ListInv, StackShape, LastOf
    <3>3. new \in Cursor
      BY <3>1 DEF ListInv, AnswerShape, Cursor
    <3>4. new.guessed \/ (new.group = group /\ new.filters = filters /\ new.after < top.after)
      BY <3>1, <3>2 DEF ListInv, AnswerFits
    <3> HIDE DEF new
    <3>5. StackShape'
      BY <3>1, <3>3 DEF ListInv, StackShape
    <3>6. CursorsOfOneQuery'
      BY <3>1, <3>3, <3>4 DEF ListInv, StackShape, CursorsOfOneQuery, LastOf
    <3> QED
      BY <2>1, <3>1, <3>5, <3>6 DEF ListInv
  <2>4. CASE handlePrev
    <3>1. /\ cursorStack' = SubSeq(cursorStack, 1, Len(cursorStack) - 1)
          /\ Len(cursorStack) > 1 /\ UNCHANGED <<entries, group, filters>>
          /\ Observe(group, filters, LastOf(cursorStack'))
      BY <2>4 DEF handlePrev, PrevEnabled, canPrev
    <3>2. /\ StackShape' /\ Len(cursorStack') = Len(cursorStack) - 1
          /\ \A i \in 1..Len(cursorStack') : cursorStack'[i] = cursorStack[i]
      BY <3>1 DEF ListInv, StackShape
    <3>3. CursorsOfOneQuery'
      <4> SUFFICES ASSUME NEW i \in 1..(Len(cursorStack') - 1)
                   PROVE  LET c == cursorStack'[i + 1]
                          IN c.guessed \/ /\ c.filters = filters'
                                          /\ c.after < cursorStack'[i].after
                                          /\ c.group = group' \/ c.carried
        BY DEF CursorsOfOneQuery
      <4>1. Len(cursorStack) \in Nat /\ Len(cursorStack') = Len(cursorStack) - 1
        BY <3>2 DEF ListInv, StackShape
      <4>2. i \in 1..(Len(cursorStack) - 1) /\ i \in 1..Len(cursorStack') /\ i + 1 \in 1..Len(cursorStack')
        BY <4>1
      <4>3. cursorStack'[i] = cursorStack[i] /\ cursorStack'[i + 1] = cursorStack[i + 1]
        BY <3>2, <4>2
      <4> QED
        BY <3>1, <4>2, <4>3 DEF ListInv, CursorsOfOneQuery
    <3> QED
      BY <2>1, <3>1, <3>2, <3>3 DEF ListInv
  <2>5. CASE onFilterChange
    <3>1. PICK f \in Filters : /\ filters' = f /\ cursorStack' = <<FirstPage(group, f)>>
                               /\ Observe(group, f, FirstPage(group, f))
                               /\ UNCHANGED <<entries, group>>
      BY <2>5 DEF onFilterChange
    <3>2. FirstPage(group, f) \in Cursor
      BY <1>2 DEF ListInv
    <3>3. StackShape' /\ LastOf(cursorStack') = FirstPage(group, f) /\ CursorsOfOneQuery'
      BY <3>1, <3>2 DEF StackShape, LastOf, CursorsOfOneQuery
    <3> QED
      BY <2>1, <3>1, <3>3 DEF ListInv
  <2>6. CASE SwitchGroup
    <3> DEFINE carry(c) == [c EXCEPT !.carried = TRUE]
               first == FirstPage(group', filters)
    <3>1. /\ group' \in ListGroups /\ filters' = filters /\ entries' = entries
          /\ cursorStack' = [i \in 1..Len(cursorStack) |->
                               IF i = 1 THEN first ELSE carry(cursorStack[i])]
          /\ Observe(group', filters, LastOf(cursorStack'))
      BY <2>6 DEF SwitchGroup
    <3>2. first \in Cursor /\ first.after = MaxRank + 1
      BY <1>2, <3>1 DEF ListInv, FirstPage
    <3>3. ASSUME NEW c \in Cursor
          PROVE  /\ carry(c) \in Cursor /\ carry(c).carried
                 /\ carry(c).after = c.after /\ carry(c).filters = c.filters
                 /\ carry(c).guessed = c.guessed
      BY DEF Cursor
    <3> HIDE DEF first, carry
    <3>4. Len(cursorStack) \in Nat /\ Len(cursorStack) > 0
          /\ \A i \in 1..Len(cursorStack) : cursorStack[i] \in Cursor
      BY DEF ListInv, StackShape
    <3>5. StackShape' /\ Len(cursorStack') = Len(cursorStack)
      <4>1. \A i \in 1..Len(cursorStack) :
              (IF i = 1 THEN first ELSE carry(cursorStack[i])) \in Cursor
        BY <3>2, <3>3, <3>4
      <4> QED
        BY <3>1, <3>4, <4>1 DEF StackShape
    <3>6. CursorsOfOneQuery'
      <4> SUFFICES ASSUME NEW i \in 1..(Len(cursorStack') - 1)
                   PROVE  LET c == cursorStack'[i + 1]
                          IN c.guessed \/ /\ c.filters = filters'
                                          /\ c.after < cursorStack'[i].after
                                          /\ c.group = group' \/ c.carried
        BY DEF CursorsOfOneQuery
      <4>1. /\ i \in 1..(Len(cursorStack) - 1) /\ i \in 1..Len(cursorStack)
            /\ i + 1 \in 1..Len(cursorStack) /\ i + 1 # 1
        BY <3>4, <3>5
      <4> DEFINE c == cursorStack[i + 1]
                 below == cursorStack[i]
      <4>2. c \in Cursor /\ below \in Cursor
        BY <3>4, <4>1
      <4>3. c.guessed \/ (c.filters = filters /\ c.after < below.after)
        BY <4>1 DEF ListInv, CursorsOfOneQuery
      <4>4. cursorStack'[i + 1] = carry(c)
        BY <3>1, <4>1
      <4>5. below.after <= cursorStack'[i].after /\ cursorStack'[i].after \in Nat
        <5>1. CASE i = 1
          BY <3>1, <3>2, <4>1, <4>2, <5>1 DEF Cursor
        <5>2. CASE i # 1
          BY <3>1, <3>3, <4>1, <4>2, <5>2 DEF Cursor
        <5> QED
          BY <5>1, <5>2
      <4>6. c.after \in Nat /\ below.after \in Nat
        BY <4>2 DEF Cursor
      <4> QED
        BY <3>1, <3>3, <4>2, <4>3, <4>4, <4>5, <4>6
    <3> QED
      BY <2>1, <3>1, <3>5, <3>6 DEF ListInv
  <2>7. CASE AnswerArrives
    <3>1. /\ shown' \in GetGroupActivity(entries, group, filters, LastOf(cursorStack))
          /\ fetch' = "idle"
          /\ UNCHANGED <<group, entries, filters, cursorStack, online>>
      BY <2>7 DEF AnswerArrives
    <3>2. AnswerShape(shown') /\ AnswerFits'
      BY <1>1, <3>1 DEF ListInv, AnswerFits, LastOf
    <3> QED
      BY <3>1, <3>2 DEF ListInv, StackShape, CursorsOfOneQuery
  <2>8. CASE RequestFails
    BY <2>8 DEF RequestFails, NoAnswer, ListInv, StackShape, AnswerShape, AnswerFits, CursorsOfOneQuery, LastOf
  <2>9. CASE Refetch
    BY <2>9 DEF Refetch, ListInv, StackShape, AnswerFits, CursorsOfOneQuery, LastOf
  <2>10. CASE GoOffline
    BY <2>10 DEF GoOffline, ListInv, StackShape, AnswerFits, CursorsOfOneQuery, LastOf
  <2>11. CASE GoOnline
    BY <2>11 DEF GoOnline, ListInv, StackShape, AnswerFits, CursorsOfOneQuery, LastOf
  <2>12. CASE UNCHANGED activityVars
    BY <2>12 DEF activityVars, ListInv, StackShape, AnswerFits, CursorsOfOneQuery, LastOf
  <2> QED
    BY <2>2, <2>3, <2>4, <2>5, <2>6, <2>7, <2>8, <2>9, <2>10, <2>11, <2>12 DEF ActivityNext
<1> QED
  BY <1>3, <1>4, PTL DEF ActivitySpec

\* Every cursor on the stack was issued for the filters and the group on the page
\* and lies strictly after the one below it, whatever is entered and deleted
\* meanwhile; but for those guessed offline, and those carried over from another
\* group, which lie after one another all the same.
THEOREM CursorsStayOfOneQuery == ActivitySpec => []CursorsOfOneQuery
BY ListInvHolds, PTL DEF ListInv

\* The list keeps its types: the answer on the screen is one the server gives, with a
\* number of entries.
THEOREM ActivityTypesHold == ActivitySpec => []ActivityTypeOK
<1>1. ASSUME NEW S \in SUBSET Ranks, NEW g \in ListGroups, NEW f \in Filters, NEW c
      PROVE  GetGroupActivity(S, g, f, c) \subseteq ActivityAnswer
  <2> SUFFICES ASSUME NEW a \in GetGroupActivity(S, g, f, c) PROVE a \in ActivityAnswer
    OBVIOUS
  <2> DEFINE rows == Listed(S, f, c)
             more == Cardinality(rows) > LIMIT
             total == Cardinality(S \cap f)
             totals == {total, total + 1} \cup (IF total > 0 THEN {total - 1} ELSE {})
  <2>1. a \in [own : {TRUE}, group : {g}, filters : {f}, more : {more}, last : rows \cup {0},
               total : totals]
    BY DEF GetGroupActivity
  <2>2. total \in Nat
    <3>1. IsFiniteSet(Ranks)
      BY ActivityAssumption, FS_Interval DEF Ranks
    <3> QED
      BY <3>1, FS_Subset, FS_CardinalityType
  <2>3. totals \subseteq Nat
    <3> HIDE DEF total
    <3> QED
      BY <2>2
  <2>4. rows \subseteq Ranks /\ more \in BOOLEAN
    BY DEF Listed
  <2> QED
    <3> HIDE DEF rows, more, totals
    <3> QED
      BY <2>1, <2>3, <2>4 DEF ActivityAnswer
<1>2. ASSUME NEW g \in ListGroups, NEW f \in Filters PROVE NoAnswer(g, f) \in ActivityAnswer
  BY DEF NoAnswer, ActivityAnswer
<1>3. ActivityInit => ActivityTypeOK
  <2> SUFFICES ASSUME ActivityInit PROVE ActivityTypeOK
    OBVIOUS
  <2>1. FirstPage(group, filters) \in Cursor
    BY ActivityAssumption DEF ActivityInit, FirstPage, Cursor
  <2> QED
    BY <2>1, <1>2 DEF ActivityInit, ActivityTypeOK
<1>4. ListInv /\ ActivityTypeOK /\ [ActivityNext]_activityVars /\ ListInv' => ActivityTypeOK'
  <2> SUFFICES ASSUME ListInv, ListInv', ActivityTypeOK, [ActivityNext]_activityVars
               PROVE  shown' \in ActivityAnswer /\ online' \in BOOLEAN
    BY DEF ListInv, StackShape, ActivityTypeOK
  <2> USE DEF ActivityTypeOK
  <2>1. ASSUME NEW g \in ListGroups, NEW f \in Filters, NEW c, Observe(g, f, c)
        PROVE  shown' \in ActivityAnswer /\ online' \in BOOLEAN
    <3>1. CASE shown' = [shown EXCEPT !.own = FALSE]
      BY <2>1, <3>1 DEF ActivityAnswer, Observe
    <3>2. ASSUME NEW S \in SUBSET Ranks, shown' \in GetGroupActivity(S, g, f, c)
          PROVE  shown' \in ActivityAnswer /\ online' \in BOOLEAN
      BY <2>1, <3>2, <1>1 DEF Observe
    <3> QED
      BY <2>1, <3>1, <3>2 DEF Observe
  <2>2. CASE handleNext \/ handlePrev \/ onFilterChange \/ SwitchGroup
    BY <2>1, <2>2 DEF handleNext, handlePrev, onFilterChange, SwitchGroup
  <2>3. CASE AnswerArrives
    BY <2>3, <1>1 DEF AnswerArrives
  <2>4. CASE RequestFails
    BY <2>4, <1>2 DEF RequestFails
  <2>5. CASE OthersWrite \/ Refetch \/ GoOffline \/ GoOnline \/ UNCHANGED activityVars
    BY <2>5 DEF OthersWrite, Refetch, GoOffline, GoOnline, activityVars
  <2> QED
    BY <2>2, <2>3, <2>4, <2>5 DEF ActivityNext
<1> QED
  BY <1>3, <1>4, ListInvHolds, PTL DEF ActivitySpec

-----------------------------------------------------------------------------
\* Sessions

RequestShape(r) ==
  /\ r = [op |-> r.op, sid |-> r.sid, who |-> r.who, target |-> r.target, to |-> r.to,
          step |-> r.step, got |-> r.got, late |-> r.late, heard |-> r.heard]
  /\ r.op # "none"
  /\ r.sid \in SessionIds \cup {"none"} /\ r.got \in SessionIds \cup {"none"}
  /\ r.late \in BOOLEAN

\* A request that began after its session was logged out has not been let in,
\* and one that renews or deletes has a session.
Admitted(r, out) ==
  /\ RequestShape(r)
  /\ r.late => r.step = "refused" \/ (r.step = "auth" /\ r.sid \in out)
  /\ r.step \in {"renew", "delete"} => r.sid \in SessionIds

SessionsShape ==
  /\ sessions = [id \in SessionIds |-> sessions[id]]
  /\ cookie \in [Browsers -> SessionIds \cup {"none"}]
  /\ loggedOut \subseteq SessionIds

RequestsAdmitted ==
  /\ request = [t \in Tabs |-> request[t]]
  /\ \A t \in Tabs : request[t] = NoRequest \/ Admitted(request[t], loggedOut)

SessionsInv ==
  /\ SessionsShape
  /\ RequestsAdmitted
  /\ \A id \in loggedOut : sessions[id] = NoSession

\* The invariant of the sessions.
LEMMA SessionsInvHolds == AccountsSpec => []SessionsInv
<1> USE AccountsAssumption
<1>1. AccountsInit => SessionsInv
  BY DEF AccountsInit, SessionsInv, SessionsShape, RequestsAdmitted
<1>2. SessionsInv /\ [AccountsNext]_accountsVars => SessionsInv'
  <2> SUFFICES ASSUME SessionsInv, [AccountsNext]_accountsVars PROVE SessionsInv'
    OBVIOUS
  \* What becomes of the requests when that of one tab changes.
  <2>1. ASSUME NEW t \in Tabs, NEW new, request' = [request EXCEPT ![t] = new],
               loggedOut \subseteq loggedOut',
               new = NoRequest \/ Admitted(new, loggedOut')
        PROVE  RequestsAdmitted'
    BY <2>1 DEF SessionsInv, RequestsAdmitted, Admitted
  <2>2. ASSUME NEW t \in Tabs, NEW step, Step(t, step)
        PROVE  /\ Admitted(request[t], loggedOut) /\ request[t].step = step
               /\ step \notin {"auth", "refused"} => ~request[t].late
    BY <2>2 DEF SessionsInv, RequestsAdmitted, Admitted, Step, RequestShape
  <2>3. ASSUME NEW t \in Tabs, Admitted(request[t], loggedOut),
               NEW step, NEW to, NEW got \in SessionIds \cup {"none"}, Ends(t, step, to, got),
               step \in {"ok", "refused"}, request[t].late => step = "refused",
               loggedOut \subseteq loggedOut'
        PROVE  RequestsAdmitted'
    <3> DEFINE new == IF ~request[t].heard THEN NoRequest
                      ELSE [request[t] EXCEPT !.step = step, !.to = to, !.got = got,
                                !.sid = "none", !.who = "none", !.target = "none"]
    <3>1. request' = [request EXCEPT ![t] = new]
      BY <2>3 DEF Ends, SessionsInv, RequestsAdmitted
    <3>2. new = NoRequest \/ Admitted(new, loggedOut')
      BY <2>3 DEF Admitted, RequestShape
    <3> QED
      BY <2>1, <2>3, <3>1, <3>2
  <2>4. ASSUME NEW t \in Tabs, Admitted(request[t], loggedOut), NEW step, Goes(t, step),
               ~request[t].late, step \in {"renew", "delete"} => request[t].sid \in SessionIds,
               loggedOut' = loggedOut
        PROVE  RequestsAdmitted'
    <3> DEFINE new == [request[t] EXCEPT !.step = step]
    <3>1. request' = [request EXCEPT ![t] = new]
      BY <2>4 DEF Goes, SessionsInv, RequestsAdmitted
    <3>2. Admitted(new, loggedOut')
      BY <2>4 DEF Admitted, RequestShape
    <3> QED
      BY <2>1, <2>4, <3>1, <3>2
  <2>5. ASSUME UNCHANGED <<sessions, loggedOut>>, RequestsAdmitted',
               cookie' \in [Browsers -> SessionIds \cup {"none"}]
        PROVE  SessionsInv'
    BY <2>5 DEF SessionsInv, SessionsShape
  <2>6. ASSUME NEW t \in Tabs, NEW r, Send(t, r), r.op # "none", r.op \notin GuardedOps \/ FirstStep[r.op] = "auth",
               FirstStep[r.op] \notin {"renew", "delete"}
        PROVE  SessionsInv'
    <3> DEFINE sid == cookie[BrowserOf[t]]
               new == [op |-> r.op, sid |-> sid, who |-> r.who, target |-> r.target, to |-> r.to,
                       step |-> FirstStep[r.op], got |-> "none",
                       late |-> r.op \in GuardedOps /\ sid \in loggedOut, heard |-> TRUE]
    <3>1. request' = [request EXCEPT ![t] = new] /\ UNCHANGED <<sessions, cookie, loggedOut>>
      BY <2>6 DEF Send
    <3>2. sid \in SessionIds \cup {"none"}
      BY DEF SessionsInv, SessionsShape, Browsers
    <3>3. Admitted(new, loggedOut')
      BY <2>6, <3>1, <3>2 DEF Admitted, RequestShape
    <3> HIDE DEF new
    <3>4. RequestsAdmitted'
      BY <2>1, <3>1, <3>3
    <3> QED
      BY <2>5, <3>1, <3>4 DEF SessionsInv, SessionsShape
  <2>7. ASSUME NEW t \in Tabs, ClientStep(t) PROVE SessionsInv'
    <3>1. ASSUME NEW op \in {"userInfo", "blob", "logout"}, Send(t, Plain(op)) PROVE SessionsInv'
      BY <2>6, <3>1 DEF Plain, FirstStep, GuardedOps
    <3>2. ASSUME NEW op \in OpenOps, NEW u \in Users, Send(t, As(op, u)) PROVE SessionsInv'
      BY <2>6, <3>2 DEF As, Plain, FirstStep, OpenOps, GuardedOps
    <3>3. ASSUME NEW u \in Users, NEW to \in Roles, SelectRole(t, u, to) PROVE SessionsInv'
      BY <2>6, <3>3 DEF SelectRole, Plain, FirstStep
    <3>4. CASE LeavePage(t)
      <4> DEFINE new == IF request[t] = NoRequest \/ request[t].step \in {"ok", "refused"} THEN NoRequest
                        ELSE [request[t] EXCEPT !.heard = FALSE]
      <4>1. request' = [request EXCEPT ![t] = new] /\ UNCHANGED <<sessions, cookie, loggedOut>>
        BY <3>4 DEF LeavePage, SessionsInv, RequestsAdmitted
      <4>2. new = NoRequest \/ Admitted(new, loggedOut')
        <5>1. CASE request[t] # NoRequest /\ request[t].step \notin {"ok", "refused"}
          <6> DEFINE r == request[t]
          <6>1. Admitted(r, loggedOut)
            BY <5>1 DEF SessionsInv, RequestsAdmitted
          <6>2. new = [op |-> r.op, sid |-> r.sid, who |-> r.who, target |-> r.target, to |-> r.to,
                       step |-> r.step, got |-> r.got, late |-> r.late, heard |-> FALSE]
            BY <5>1, <6>1 DEF Admitted, RequestShape
          <6> HIDE DEF new
          <6> QED
            BY <4>1, <6>1, <6>2 DEF Admitted, RequestShape
        <5> QED
          BY <5>1
      <4> HIDE DEF new
      <4>3. RequestsAdmitted'
        BY <2>1, <4>1, <4>2
      <4> QED
        BY <2>5, <4>1, <4>3 DEF SessionsInv, SessionsShape
    <3>5. CASE Answered(t)
      <4>1. /\ request' = [request EXCEPT ![t] = NoRequest] /\ UNCHANGED <<sessions, loggedOut>>
            /\ request[t] # NoRequest
            /\ \/ cookie' = [cookie EXCEPT ![BrowserOf[t]] = request[t].got]
               \/ cookie' = [cookie EXCEPT ![BrowserOf[t]] = "none"]
               \/ cookie' = cookie
        BY <3>5 DEF Answered
      <4>2. request[t].got \in SessionIds \cup {"none"}
        BY <4>1 DEF SessionsInv, RequestsAdmitted, Admitted, RequestShape
      <4>3. cookie' \in [Browsers -> SessionIds \cup {"none"}]
        BY <4>1, <4>2 DEF SessionsInv, SessionsShape
      <4>4. RequestsAdmitted'
        BY <2>1, <4>1
      <4> QED
        BY <2>5, <4>1, <4>3, <4>4
    <3> QED
      BY <2>7, <3>1, <3>2, <3>3, <3>4, <3>5
      DEF ClientStep, LoadPage, AskUserInfo, ShowImage, ClickLogout,
          SubmitLogin, ContinueWithOIDC, SubmitRegister, OpenOps
  <2>8. ASSUME NEW t \in Tabs, ServerStep(t) PROVE SessionsInv'
    <3>1. CASE Authenticate(t)
      <4> DEFINE r == request[t]
                 s == IF r.sid = "none" THEN NoSession ELSE sessions[r.sid]
                 step == IF s.age = "half" /\ r.op # "blob" THEN "renew" ELSE Handling[r.op]
                 new == [r EXCEPT !.who = s.user, !.step = step]
      <4>1. Step(t, "auth") /\ UNCHANGED <<sessions, cookie, loggedOut>>
        BY <3>1 DEF Authenticate
      <4>2. Admitted(r, loggedOut)
        BY <2>2, <4>1
      <4>3. CASE Refuses(t)
        <5>1. RequestsAdmitted'
          BY <2>3, <4>1, <4>2, <4>3 DEF Refuses
        <5> QED
          BY <2>5, <4>1, <5>1 DEF SessionsInv, SessionsShape
      <4>4. CASE s # NoSession /\ request' = [request EXCEPT ![t] = new]
        <5>1. r.sid \in SessionIds /\ ~r.late
          BY <2>2, <4>1, <4>2, <4>4 DEF SessionsInv, Admitted, RequestShape
        <5> HIDE DEF s, step
        <5>4. new = [op |-> r.op, sid |-> r.sid, who |-> s.user, target |-> r.target, to |-> r.to,
                     step |-> step, got |-> r.got, late |-> r.late, heard |-> r.heard]
          <6> DEFINE mid == [r EXCEPT !.who = s.user]
          <6>1. mid = [op |-> r.op, sid |-> r.sid, who |-> s.user, target |-> r.target, to |-> r.to,
                       step |-> r.step, got |-> r.got, late |-> r.late, heard |-> r.heard]
            BY <4>2 DEF Admitted, RequestShape
          <6>2. new = [mid EXCEPT !.step = step]
            BY <4>2 DEF Admitted, RequestShape
          <6> HIDE DEF mid, new
          <6> QED
            BY <6>1, <6>2
        <5> HIDE DEF new
        <5>2. Admitted(new, loggedOut')
          BY <4>1, <4>2, <5>1, <5>4 DEF Admitted, RequestShape
        <5>3. RequestsAdmitted'
          BY <2>1, <4>1, <4>4, <5>2
        <5> QED
          BY <2>5, <4>1, <5>3 DEF SessionsInv, SessionsShape
      <4> QED
        BY <3>1, <4>3, <4>4 DEF Authenticate, SessionsInv, RequestsAdmitted
    <3>2. CASE Renew(t)
      <4>1. /\ Step(t, "renew") /\ Goes(t, Handling[request[t].op])
            /\ sessions' \in {sessions, Renewed(request[t])}
            /\ UNCHANGED <<cookie, loggedOut>>
        BY <3>2 DEF Renew
      <4>2. Admitted(request[t], loggedOut) /\ ~request[t].late /\ request[t].sid \in SessionIds
        BY <2>2, <4>1 DEF Admitted
      <4>3. RequestsAdmitted'
        BY <2>4, <4>1, <4>2
      <4>4. SessionsShape' /\ \A id \in loggedOut : sessions'[id] = NoSession
        BY <4>1, <4>2 DEF SessionsInv, SessionsShape, Renewed
      <4> QED
        BY <4>1, <4>3, <4>4 DEF SessionsInv
    <3>3. CASE Logout(t)
      <4>1. /\ Step(t, "delete") /\ Succeeds(t) /\ UNCHANGED cookie
            /\ sessions' = [sessions EXCEPT ![request[t].sid] = NoSession]
            /\ loggedOut' = loggedOut \cup {request[t].sid}
        BY <3>3 DEF Logout
      <4>2. Admitted(request[t], loggedOut) /\ ~request[t].late /\ request[t].sid \in SessionIds
        BY <2>2, <4>1 DEF Admitted
      <4>3. RequestsAdmitted'
        BY <2>3, <4>1, <4>2 DEF Succeeds
      <4>4. SessionsShape' /\ \A id \in loggedOut' : sessions'[id] = NoSession
        BY <4>1, <4>2 DEF SessionsInv, SessionsShape
      <4> QED
        BY <4>3, <4>4 DEF SessionsInv
    <3>4. CASE CreateSession(t)
      <4>1. PICK id \in {s \in SessionIds : sessions[s] = NoSession} \ loggedOut :
              /\ sessions' = [sessions EXCEPT ![id] = [user |-> request[t].who, age |-> "fresh"]]
              /\ Ends(t, "ok", request[t].to, id)
        BY <3>4 DEF CreateSession
      <4>2. Step(t, "session") /\ UNCHANGED <<cookie, loggedOut>>
        BY <3>4 DEF CreateSession
      <4>3. RequestsAdmitted'
        BY <2>2, <2>3, <4>1, <4>2
      <4>4. SessionsShape' /\ \A k \in loggedOut : sessions'[k] = NoSession
        BY <4>1, <4>2 DEF SessionsInv, SessionsShape
      <4> QED
        BY <4>2, <4>3, <4>4 DEF SessionsInv
    <3>5. CASE ServerRefuses(t)
      <4>1. Admitted(request[t], loggedOut) /\ Refuses(t) /\ UNCHANGED <<sessions, cookie, loggedOut>>
        BY <3>5 DEF ServerRefuses, SessionsInv, RequestsAdmitted
      <4>2. RequestsAdmitted'
        BY <2>3, <4>1 DEF Refuses
      <4> QED
        BY <2>5, <4>1, <4>2 DEF SessionsInv, SessionsShape
    \* The steps that only read, or write the users table.
    <3>6. CASE \/ UserInfo(t) \/ ServeImage(t) \/ CheckAdmin(t) \/ LoadTarget(t) \/ CountAdmins(t)
               \/ UpdateUserRole(t) \/ FindUser(t) \/ IsUsersEmpty(t) \/ CreateUser(t)
      <4>1. PICK step \in {"info", "serve", "admin", "load", "count", "write", "user", "empty", "insert"} :
              Step(t, step)
        BY <3>6 DEF UserInfo, ServeImage, CheckAdmin, LoadTarget, CountAdmins, UpdateUserRole,
                    FindUser, IsUsersEmpty, CreateUser
      <4>2. UNCHANGED <<sessions, cookie, loggedOut>>
        BY <3>6 DEF UserInfo, ServeImage, CheckAdmin, LoadTarget, CountAdmins, UpdateUserRole,
                    FindUser, IsUsersEmpty, CreateUser
      <4>3. Admitted(request[t], loggedOut) /\ ~request[t].late
        BY <2>2, <4>1
      <4>4. ASSUME NEW to, Ends(t, "ok", to, "none") PROVE RequestsAdmitted'
        BY <2>3, <4>2, <4>3, <4>4
      <4>5. ASSUME Refuses(t) PROVE RequestsAdmitted'
        BY <2>3, <4>2, <4>3, <4>5 DEF Refuses
      <4>6. ASSUME NEW next \in {"write", "load", "count", "empty", "session"}, Goes(t, next)
            PROVE  RequestsAdmitted'
        BY <2>4, <4>2, <4>3, <4>6
      <4>7. ASSUME NEW next \in {"session", "insert"}, NEW to,
                   request' = [request EXCEPT ![t].step = next, ![t].to = to]
            PROVE  RequestsAdmitted'
        <5> DEFINE new == [request[t] EXCEPT !.step = next, !.to = to]
        <5>1. request' = [request EXCEPT ![t] = new]
          BY <4>3, <4>7 DEF SessionsInv, RequestsAdmitted, Admitted, RequestShape
        <5> DEFINE r == request[t]
        <5>4. new = [op |-> r.op, sid |-> r.sid, who |-> r.who, target |-> r.target, to |-> to,
                     step |-> next, got |-> r.got, late |-> r.late, heard |-> r.heard]
          <6> DEFINE mid == [r EXCEPT !.step = next]
          <6>1. mid = [op |-> r.op, sid |-> r.sid, who |-> r.who, target |-> r.target, to |-> r.to,
                       step |-> next, got |-> r.got, late |-> r.late, heard |-> r.heard]
            BY <4>3 DEF Admitted, RequestShape
          <6>2. new = [mid EXCEPT !.to = to]
            BY <4>3 DEF Admitted, RequestShape
          <6> HIDE DEF mid, new
          <6> QED
            BY <6>1, <6>2
        <5> HIDE DEF new
        <5>2. Admitted(new, loggedOut')
          BY <4>2, <4>3, <4>7, <5>4 DEF Admitted, RequestShape
        <5> QED
          BY <2>1, <4>2, <5>1, <5>2
      <4>8. RequestsAdmitted'
        BY <3>6, <4>4, <4>5, <4>6, <4>7
        DEF UserInfo, ServeImage, CheckAdmin, LoadTarget, CountAdmins, UpdateUserRole,
            FindUser, IsUsersEmpty, CreateUser, Succeeds
      <4> QED
        BY <2>5, <4>2, <4>8 DEF SessionsInv, SessionsShape
    <3> QED
      BY <2>8, <3>1, <3>2, <3>3, <3>4, <3>5, <3>6 DEF ServerStep
  <2>9. ASSUME NEW id \in SessionIds, Age(id) PROVE SessionsInv'
    <3>1. UNCHANGED <<cookie, request, loggedOut>>
      BY <2>9 DEF Age
    <3>2. SessionsShape' /\ \A k \in loggedOut : sessions'[k] = NoSession
      BY <2>9, <3>1 DEF Age, SessionsInv, SessionsShape
    <3> QED
      BY <3>1, <3>2 DEF SessionsInv, RequestsAdmitted
  <2>10. CASE UNCHANGED accountsVars
    BY <2>10 DEF accountsVars, SessionsInv, SessionsShape, RequestsAdmitted
  <2> QED
    BY <2>7, <2>8, <2>9, <2>10 DEF AccountsNext
<1> QED
  BY <1>1, <1>2, PTL DEF AccountsSpec

\* No renewal brings back a session that was logged out, and no request that
\* begins with it afterwards is let in.
THEOREM SessionsStayLoggedOut == AccountsSpec => []LoggedOutStaysOut
<1>1. SessionsInv => LoggedOutStaysOut
  BY DEF SessionsInv, RequestsAdmitted, Admitted, LoggedOutStaysOut
<1> QED
  BY <1>1, SessionsInvHolds, PTL

\* Whoever a request is served for has a role, and so has the user of every session: a
\* role is never taken away. The requests that change a role know whose.
HasRole(of, u) == u \in Users /\ of[u] \in Roles

InStep(of, r) ==
  /\ r.step \in {"auth", "renew"} => r.op \in GuardedOps
  /\ r.step \in {"admin", "load", "count", "write"} => r.op = "setRole"
  /\ r.op = "setRole" /\ r.step \notin {"ok", "refused"} => r.target \in Users
  /\ r.step \in {"user", "empty", "insert"} => r.who \in Users
  /\ r.step \in {"renew", "info", "serve", "delete", "admin", "load", "count", "write", "session"}
       => HasRole(of, r.who)

AccountTypes ==
  /\ AccountsTypeOK
  /\ \A t \in Tabs : request[t] # NoRequest => InStep(role, request[t])
  /\ \A id \in SessionIds : sessions[id] # NoSession => HasRole(role, sessions[id].user)

\* A request stays one when it goes a step on, when its answer has a role, and when its page is left.
LEMMA RequestGoesOn ==
    ASSUME NEW r \in Request, NEW to \in Roles,
           NEW step \in {"auth", "renew", "info", "serve", "delete", "admin", "load", "count",
                         "write", "user", "empty", "insert", "session", "ok", "refused"}
    PROVE  /\ [r EXCEPT !.step = step] \in Request
           /\ [r EXCEPT !.step = step, !.to = to] \in Request
           /\ [r EXCEPT !.heard = FALSE] \in Request
           /\ [r EXCEPT !.heard = FALSE].step = r.step
           /\ [r EXCEPT !.heard = FALSE].op = r.op
           /\ [r EXCEPT !.heard = FALSE].who = r.who
           /\ [r EXCEPT !.heard = FALSE].target = r.target
<1>0. PICK no \in BOOLEAN : no = FALSE
  OBVIOUS
<1> DEFINE gone == [r EXCEPT !.step = step]
           left == [r EXCEPT !.heard = no]
<1>1. gone = [op |-> r.op, sid |-> r.sid, who |-> r.who, target |-> r.target, to |-> r.to,
              step |-> step, got |-> r.got, late |-> r.late, heard |-> r.heard]
  BY DEF Request
<1>2. left = [op |-> r.op, sid |-> r.sid, who |-> r.who, target |-> r.target, to |-> r.to,
              step |-> r.step, got |-> r.got, late |-> r.late, heard |-> no]
  BY DEF Request
<1>3. gone \in Request
  <2> HIDE DEF gone
  <2> QED
    BY <1>1 DEF Request
<1>4. left \in Request /\ left.step = r.step /\ left.op = r.op /\ left.who = r.who /\ left.target = r.target
  <2> HIDE DEF left
  <2>1. left.step = r.step /\ left.op = r.op /\ left.who = r.who /\ left.target = r.target
    BY <1>2
  <2>2. left \in Request
    BY <1>2 DEF Request
  <2> QED
    BY <2>1, <2>2
<1>5. [gone EXCEPT !.to = to] \in Request
  <2> HIDE DEF gone
  <2> QED
    BY <1>3 DEF Request
<1> QED
  BY <1>0, <1>3, <1>4, <1>5

\* The tables, the cookies and the requests keep their types: in particular the client is
\* never told a role that nobody has.
THEOREM AccountsTypesHold == AccountsSpec => []AccountsTypeOK
<1>1. AccountsInit => AccountTypes
  BY AccountsAssumption DEF AccountsInit, AccountTypes, AccountsTypeOK, Screens
<1>2. SessionsInv /\ AccountTypes /\ [AccountsNext]_accountsVars /\ SessionsInv' => AccountTypes'
  <2> SUFFICES ASSUME SessionsInv, SessionsInv', AccountTypes, [AccountsNext]_accountsVars
               PROVE  AccountTypes'
    OBVIOUS
  <2> DEFINE Sessions == [SessionIds -> Session \cup {NoSession}]
             Requests == Request \cup {NoRequest}
  <2>0. /\ role \in [Users -> Roles \cup {"none"}] /\ sessions \in Sessions
        /\ request \in [Tabs -> Requests] /\ screen \in [Tabs -> Screens]
        /\ cookie \in [Browsers -> SessionIds \cup {"none"}]
        /\ cookie' \in [Browsers -> SessionIds \cup {"none"}]
        /\ loggedOut' \subseteq SessionIds
        /\ \A t \in Tabs : request[t] # NoRequest => request[t] \in Request /\ InStep(role, request[t])
        /\ \A id \in SessionIds : sessions[id] # NoSession =>
                                    sessions[id] \in Session /\ HasRole(role, sessions[id].user)
        /\ \A t \in Tabs : BrowserOf[t] \in Browsers
        /\ "none" \notin Users /\ "none" \notin SessionIds
    BY AccountsAssumption DEF AccountTypes, AccountsTypeOK, SessionsInv, SessionsShape, Browsers
  \* A request that is changed, while no role is taken away.
  <2>1. ASSUME NEW t \in Tabs, NEW new, request' = [request EXCEPT ![t] = new],
               new = NoRequest \/ (new \in Request /\ InStep(role', new)),
               \A u \in Users : role[u] \in Roles => role'[u] \in Roles
        PROVE  /\ request' \in [Tabs -> Requests]
               /\ \A x \in Tabs : request'[x] # NoRequest => InStep(role', request'[x])
    <3>1. request' \in [Tabs -> Requests]
      BY <2>0, <2>1
    <3>2. ASSUME NEW x \in Tabs, request'[x] # NoRequest PROVE InStep(role', request'[x])
      <4>1. CASE x = t
        BY <2>0, <2>1, <3>2, <4>1 DEF InStep
      <4>2. CASE x # t
        <5>1. request'[x] = request[x] /\ InStep(role, request[x])
          BY <2>0, <2>1, <3>2, <4>2
        <5> QED
          BY <2>1, <5>1 DEF InStep, HasRole
      <4> QED
        BY <4>1, <4>2
    <3> QED
      BY <3>1, <3>2
  \* A request that goes on, tells nothing new of its user.
  <2>2. ASSUME NEW t \in Tabs, NEW step, NEW to \in Roles, NEW r, r = request[t], r # NoRequest,
               step \in {"auth", "renew", "info", "serve", "delete", "admin", "load", "count",
                         "write", "user", "empty", "insert", "session", "ok", "refused"}
        PROVE  /\ [r EXCEPT !.step = step] \in Request
               /\ [r EXCEPT !.step = step, !.to = to] \in Request
               /\ [r EXCEPT !.heard = FALSE] \in Request
    <3>1. r \in Request
      BY <2>0, <2>2
    <3> HIDE DEF Sessions, Requests
    <3>2. "regular" \in Roles
      BY DEF Roles
    <3> QED
      BY <2>2, <3>1, <3>2, RequestGoesOn
  <2> HIDE DEF Sessions, Requests
  <2>3. ASSUME NEW t \in Tabs, NEW outcome \in {"ok", "refused"}, NEW to \in Roles,
               NEW got \in SessionIds \cup {"none"}, request[t] # NoRequest,
               Ends(t, outcome, to, got),
               \A u \in Users : role[u] \in Roles => role'[u] \in Roles
        PROVE  /\ request' \in [Tabs -> Requests]
               /\ \A x \in Tabs : request'[x] # NoRequest => InStep(role', request'[x])
    <3> DEFINE r == request[t]
               new == IF ~ r.heard THEN NoRequest
                      ELSE [r EXCEPT !.step = outcome, !.to = to, !.got = got,
                                     !.sid = "none", !.who = "none", !.target = "none"]
    <3>1. r \in Request
      BY <2>0, <2>3
    <3>2. new = NoRequest \/ new \in Request
      BY <2>3, <3>1 DEF Request
    <3>3. new # NoRequest => new.step \in {"ok", "refused"}
      BY <2>3, <3>1 DEF Request
    <3>4. request' = [request EXCEPT ![t] = new]
      BY <2>3 DEF Ends
    <3>5. new = NoRequest \/ (new \in Request /\ InStep(role', new))
      <4> HIDE DEF new
      <4> QED
        BY <3>2, <3>3 DEF InStep
    <3> HIDE DEF new
    <3> QED
      BY <2>1, <2>3, <3>4, <3>5
  \* A step of the handler of a request that is not answered yet.
  <2>4. ASSUME NEW t \in Tabs, request[t] # NoRequest
        PROVE  /\ request[t] \in Request /\ InStep(role, request[t])
               /\ request[t].op \in OpenOps \cup GuardedOps
               /\ request[t].to \in Roles
               /\ request[t].sid \in SessionIds \cup {"none"}
    BY <2>0, <2>4 DEF Request
  <2>5. ASSUME NEW t \in Tabs, NEW q, Send(t, q),
               q \in [op : OpenOps \cup GuardedOps, who : Users \cup {"none"},
                      target : Users \cup {"none"}, to : Roles],
               q.op \in OpenOps => q.who \in Users,
               q.op = "setRole" => q.target \in Users
        PROVE  /\ request' \in [Tabs -> Requests]
               /\ \A x \in Tabs : request'[x] # NoRequest => InStep(role', request'[x])
               /\ UNCHANGED <<role, sessions>>
    <3> DEFINE sid == cookie[BrowserOf[t]]
               new == [op |-> q.op, sid |-> sid, who |-> q.who, target |-> q.target, to |-> q.to,
                       step |-> FirstStep[q.op], got |-> "none",
                       late |-> q.op \in GuardedOps /\ sid \in loggedOut, heard |-> TRUE]
    <3>1. sid \in SessionIds \cup {"none"}
      BY <2>0
    <3>2. /\ q.op \in OpenOps => FirstStep[q.op] \in {"user", "empty"}
          /\ q.op \in GuardedOps => FirstStep[q.op] = "auth"
      BY <2>5 DEF FirstStep, OpenOps, GuardedOps
    <3>3. new \in Request
      BY <2>5, <3>1, <3>2 DEF Request
    <3>4. InStep(role', new)
      BY <2>5, <3>2 DEF InStep, OpenOps, GuardedOps
    <3>5. request' = [request EXCEPT ![t] = new] /\ UNCHANGED <<role, sessions>>
      BY <2>5 DEF Send
    <3> HIDE DEF new
    <3> QED
      BY <2>1, <3>3, <3>4, <3>5
  <2>6. ASSUME NEW t \in Tabs, NEW step, Goes(t, step), request[t] # NoRequest,
               step \in {"renew", "info", "serve", "delete", "admin", "load", "count", "write",
                         "user", "empty", "insert", "session"},
               InStep(role', [request[t] EXCEPT !.step = step]),
               \A u \in Users : role[u] \in Roles => role'[u] \in Roles
        PROVE  /\ request' \in [Tabs -> Requests]
               /\ \A x \in Tabs : request'[x] # NoRequest => InStep(role', request'[x])
    <3> DEFINE new == [request[t] EXCEPT !.step = step]
    <3>1. new \in Request
      BY <2>2, <2>4, <2>6
    <3>2. request' = [request EXCEPT ![t] = new]
      BY <2>6 DEF Goes
    <3> QED
      BY <2>1, <2>6, <3>1, <3>2
  \* What is left to show of a step once the requests are seen to.
  <2>7. ASSUME NEW t \in Tabs,
               /\ request' \in [Tabs -> Requests]
               /\ \A x \in Tabs : request'[x] # NoRequest => InStep(role', request'[x]),
               UNCHANGED screen \/ \E now \in Screens : screen' = [screen EXCEPT ![t] = now],
               UNCHANGED <<role, sessions>>
        PROVE  AccountTypes'
    <3>1. screen' \in [Tabs -> Screens]
      BY <2>0, <2>7
    <3> QED
      BY <2>0, <2>7, <3>1 DEF AccountTypes, AccountsTypeOK, Sessions, Requests, HasRole
  <2>8. CASE \E t \in Tabs : ClientStep(t)
    <3> DEFINE Asks == [op : OpenOps \cup GuardedOps, who : Users \cup {"none"},
                       target : Users \cup {"none"}, to : Roles]
    <3> PICK t \in Tabs : ClientStep(t)
      BY <2>8
    <3>1. /\ \A op \in GuardedOps : Plain(op) \in Asks /\ Plain(op).op = op
          /\ \A op \in OpenOps, u \in Users : As(op, u) \in Asks /\ As(op, u).op = op /\ As(op, u).who = u
          /\ \A u \in Users, to \in Roles :
               /\ [Plain("setRole") EXCEPT !.target = u, !.to = to] \in Asks
               /\ [Plain("setRole") EXCEPT !.target = u, !.to = to].op = "setRole"
               /\ [Plain("setRole") EXCEPT !.target = u, !.to = to].target = u
      BY DEF Plain, As, Roles, GuardedOps, OpenOps
    <3>2. GuardedOps \cap OpenOps = {} /\ "setRole" \notin OpenOps
      BY DEF GuardedOps, OpenOps
    <3>a. ASSUME NEW q \in Asks, Send(t, q),
                 q.op \in OpenOps => q.who \in Users,
                 q.op = "setRole" => q.target \in Users,
                 UNCHANGED screen \/ \E now \in Screens : screen' = [screen EXCEPT ![t] = now]
          PROVE  AccountTypes'
      <4>1. /\ request' \in [Tabs -> Requests]
            /\ \A x \in Tabs : request'[x] # NoRequest => InStep(role', request'[x])
            /\ UNCHANGED <<role, sessions>>
        BY <2>5, <3>a
      <4> QED
        BY <2>7, <3>a, <4>1
    <3> HIDE DEF Asks
    <3>3. ASSUME NEW op \in GuardedOps \ {"setRole"}, Send(t, Plain(op)),
                 UNCHANGED screen \/ \E now \in Screens : screen' = [screen EXCEPT ![t] = now]
          PROVE  AccountTypes'
      BY <3>1, <3>2, <3>3, <3>a
    <3>4. ASSUME NEW op \in OpenOps, NEW u \in Users, Send(t, As(op, u)),
                 UNCHANGED screen \/ \E now \in Screens : screen' = [screen EXCEPT ![t] = now]
          PROVE  AccountTypes'
      BY <3>1, <3>2, <3>4, <3>a
    <3>5. CASE LoadPage(t)
      BY <3>3, <3>5 DEF LoadPage, Screens, GuardedOps
    <3>6. CASE AskUserInfo(t) \/ ShowImage(t) \/ ClickLogout(t)
      BY <3>3, <3>6 DEF AskUserInfo, ShowImage, ClickLogout, GuardedOps
    <3>7. CASE \E u \in Users : SubmitLogin(t, u) \/ ContinueWithOIDC(t, u) \/ SubmitRegister(t, u)
      BY <3>4, <3>7 DEF SubmitLogin, ContinueWithOIDC, SubmitRegister, OpenOps, Screens
    <3>8. CASE \E u \in Users, to \in Roles : SelectRole(t, u, to)
      <4> PICK u \in Users, to \in Roles : SelectRole(t, u, to)
        BY <3>8
      <4> DEFINE q == [Plain("setRole") EXCEPT !.target = u, !.to = to]
      <4>1. Send(t, q) /\ UNCHANGED screen
        BY DEF SelectRole
      <4>2. q \in Asks /\ q.op = "setRole" /\ q.target = u
        BY <3>1
      <4> HIDE DEF q
      <4> QED
        BY <3>2, <3>a, <4>1, <4>2
    <3>9. CASE LeavePage(t)
      <4> DEFINE r == request[t]
                 new == IF r = NoRequest \/ r.step \in {"ok", "refused"} THEN NoRequest
                        ELSE [r EXCEPT !.heard = FALSE]
      <4>1. r # NoRequest => [r EXCEPT !.heard = FALSE] \in Request /\ InStep(role, [r EXCEPT !.heard = FALSE])
        <5> HAVE r # NoRequest
        <5>1. r \in Request /\ InStep(role, r)
          BY <2>0
        <5>2. "auth" \in {"auth", "renew", "info", "serve", "delete", "admin", "load", "count",
                          "write", "user", "empty", "insert", "session", "ok", "refused"}
              /\ "regular" \in Roles
          BY DEF Roles
        <5>3. /\ [r EXCEPT !.heard = FALSE] \in Request
              /\ [r EXCEPT !.heard = FALSE].step = r.step
              /\ [r EXCEPT !.heard = FALSE].op = r.op
              /\ [r EXCEPT !.heard = FALSE].who = r.who
              /\ [r EXCEPT !.heard = FALSE].target = r.target
          BY <5>1, <5>2, RequestGoesOn
        <5> HIDE DEF r
        <5> QED
          BY <5>1, <5>3 DEF InStep
      <4>2. UNCHANGED <<role, sessions>>
        BY <3>9 DEF LeavePage
      <4>3. new = NoRequest \/ (new \in Request /\ InStep(role', new))
        BY <4>1, <4>2
      <4>4. request' = [request EXCEPT ![t] = new]
        BY <3>9 DEF LeavePage
      <4>5. /\ request' \in [Tabs -> Requests]
            /\ \A x \in Tabs : request'[x] # NoRequest => InStep(role', request'[x])
        <5> HIDE DEF new
        <5> QED
          BY <2>1, <4>2, <4>3, <4>4
      <4> QED
        BY <2>7, <3>9, <4>2, <4>5 DEF LeavePage, Screens
    <3>10. CASE Answered(t)
      <4>1. UNCHANGED <<role, sessions>> /\ request' = [request EXCEPT ![t] = NoRequest]
        BY <3>10 DEF Answered
      <4>2. \E now \in Screens : screen' = [screen EXCEPT ![t] = now]
        BY <2>0, <3>10 DEF Answered, ScreenFor, Screens
      <4>3. /\ request' \in [Tabs -> Requests]
            /\ \A x \in Tabs : request'[x] # NoRequest => InStep(role', request'[x])
        BY <2>1, <4>1
      <4> QED
        BY <2>7, <4>1, <4>2, <4>3
    <3> QED
      BY <3>5, <3>6, <3>7, <3>8, <3>9, <3>10 DEF ClientStep
  \* A step of a handler that leaves the tables and the page as they are.
  <2>9. ASSUME NEW t \in Tabs, UNCHANGED <<role, sessions, screen>>,
               /\ request' \in [Tabs -> Requests]
               /\ \A x \in Tabs : request'[x] # NoRequest => InStep(role', request'[x])
        PROVE  AccountTypes'
    BY <2>7, <2>9
  \* A request that is let in, or goes one step on in a handler that has let it in.
  <2>10. ASSUME NEW t \in Tabs, Authenticate(t) PROVE AccountTypes'
    <3> DEFINE r == request[t]
               s == IF r.sid = "none" THEN NoSession ELSE sessions[r.sid]
               next == IF s.age = "half" /\ r.op # "blob" THEN "renew" ELSE Handling[r.op]
               new == [r EXCEPT !.who = s.user, !.step = next]
    <3>1. /\ r # NoRequest /\ r \in Request /\ InStep(role, r) /\ r.step = "auth"
          /\ UNCHANGED <<role, sessions, screen>>
      BY <2>4, <2>10 DEF Authenticate, Step
    <3>2. CASE s = NoSession \/ s.age = "expired"
      <4>1. Ends(t, "refused", "regular", "none")
        BY <2>10, <3>2 DEF Authenticate, Refuses
      <4> QED
        BY <2>3, <2>9, <3>1, <4>1 DEF Roles
    <3>3. CASE ~ (s = NoSession \/ s.age = "expired")
      <4>1. r.sid \in SessionIds /\ s = sessions[r.sid] /\ HasRole(role, s.user)
        BY <2>0, <2>4, <3>1, <3>3
      <4>2. /\ r.op \in GuardedOps /\ (r.op = "setRole" => r.target \in Users)
            /\ next \in {"renew", "info", "serve", "delete", "admin"}
            /\ next = "admin" => r.op = "setRole"
        BY <3>1 DEF InStep, GuardedOps, Handling
      <4> HIDE DEF s, next
      <4>3. new \in Request
        BY <3>1, <4>1, <4>2 DEF Request, HasRole
      <4>4. /\ new.step = next /\ new.who = s.user /\ new.op = r.op /\ new.target = r.target
        BY <3>1 DEF Request
      <4>5. InStep(role', new)
        BY <3>1, <4>1, <4>2, <4>4 DEF InStep
      <4>6. request' = [request EXCEPT ![t] = new]
        BY <2>10, <3>3 DEF Authenticate, s, next
      <4>7. /\ request' \in [Tabs -> Requests]
            /\ \A x \in Tabs : request'[x] # NoRequest => InStep(role', request'[x])
        <5> HIDE DEF new
        <5> QED
          BY <2>1, <3>1, <4>3, <4>5, <4>6
      <4> QED
        BY <2>9, <3>1, <4>7
    <3> QED
      BY <3>2, <3>3
  <2>11. ASSUME NEW t \in Tabs, Renew(t) PROVE AccountTypes'
    <3> DEFINE r == request[t]
               next == Handling[r.op]
               new == [r EXCEPT !.step = next]
    <3>1. /\ r # NoRequest /\ r \in Request /\ InStep(role, r) /\ r.step = "renew"
          /\ UNCHANGED <<role, screen>> /\ sessions' \in {sessions, Renewed(r)} /\ Goes(t, next)
      BY <2>4, <2>11 DEF Renew, Step
    <3>2. /\ r.op \in GuardedOps /\ (r.op = "setRole" => r.target \in Users)
          /\ HasRole(role, r.who)
          /\ next \in {"info", "serve", "delete", "admin"}
          /\ next = "admin" => r.op = "setRole"
      BY <3>1 DEF InStep, GuardedOps, Handling
    <3> HIDE DEF next
    <3>3. new.step = next /\ new.who = r.who /\ new.op = r.op /\ new.target = r.target
      BY <3>1 DEF Request
    <3>4. InStep(role', new)
      BY <3>1, <3>2, <3>3 DEF InStep
    <3>5. /\ request' \in [Tabs -> Requests]
          /\ \A x \in Tabs : request'[x] # NoRequest => InStep(role', request'[x])
      BY <2>6, <3>1, <3>2, <3>4
    <3>6. /\ sessions' \in Sessions
          /\ \A id \in SessionIds : sessions'[id] # NoSession => HasRole(role', sessions'[id].user)
      <4>1. r.sid \in SessionIds
        BY <3>1 DEF SessionsInv, RequestsAdmitted, Admitted
      <4>2. ASSUME sessions[r.sid] # NoSession
            PROVE  /\ [sessions[r.sid] EXCEPT !.age = "fresh"] \in Session
                   /\ [sessions[r.sid] EXCEPT !.age = "fresh"].user = sessions[r.sid].user
        BY <2>0, <4>1, <4>2 DEF Session
      <4>3. \/ sessions' = sessions
            \/ /\ sessions[r.sid] # NoSession
               /\ sessions' = [sessions EXCEPT ![r.sid] = [sessions[r.sid] EXCEPT !.age = "fresh"]]
        BY <3>1 DEF Renewed
      <4>4. CASE sessions' = sessions
        BY <2>0, <3>1, <4>4
      <4>5. CASE sessions' # sessions
        <5> DEFINE fresh == [sessions[r.sid] EXCEPT !.age = "fresh"]
        <5>1. /\ fresh \in Session /\ fresh.user = sessions[r.sid].user /\ sessions[r.sid] # NoSession
              /\ sessions' = [sessions EXCEPT ![r.sid] = fresh] /\ role' = role
          BY <3>1, <4>2, <4>3, <4>5
        <5> HIDE DEF fresh, r
        <5> QED
          BY <2>0, <4>1, <5>1 DEF Sessions
      <4> QED
        BY <4>4, <4>5
    <3> QED
      BY <2>0, <3>1, <3>5, <3>6 DEF AccountTypes, AccountsTypeOK, Sessions, Requests
  \* A request that is answered, and one that goes one step on.
  <2>12. ASSUME NEW t \in Tabs, UserInfo(t) \/ ServeImage(t) \/ ServerRefuses(t) PROVE AccountTypes'
    <3>1. request[t] # NoRequest /\ UNCHANGED <<role, sessions, screen>>
      BY <2>12 DEF UserInfo, ServeImage, ServerRefuses, Step
    <3>2. PICK to : /\ to = IF UserInfo(t) THEN role[request[t].who] ELSE "regular"
                    /\ \/ Ends(t, "ok", to, "none") \/ Ends(t, "refused", to, "none")
      BY <2>12 DEF UserInfo, ServeImage, ServerRefuses, Succeeds, Refuses
    <3>3. to \in Roles
      BY <2>4, <3>1, <3>2 DEF UserInfo, Step, InStep, HasRole, Roles
    <3> QED
      BY <2>3, <2>9, <3>1, <3>2, <3>3
  <2>13. ASSUME NEW t \in Tabs, CheckAdmin(t) \/ LoadTarget(t) \/ CountAdmins(t) PROVE AccountTypes'
    <3>1. /\ request[t] # NoRequest /\ UNCHANGED <<role, sessions, screen>>
          /\ request[t].step \in {"admin", "load", "count"}
      BY <2>13 DEF CheckAdmin, LoadTarget, CountAdmins, Step
    <3>2. Refuses(t) \/ \E step \in {"write", "load", "count"} : Goes(t, step)
      BY <2>13 DEF CheckAdmin, LoadTarget, CountAdmins
    <3>3. CASE Refuses(t)
      BY <2>3, <2>9, <3>1, <3>3 DEF Refuses, Roles
    <3>4. ASSUME NEW step \in {"write", "load", "count"}, Goes(t, step) PROVE AccountTypes'
      <4>1. InStep(role', [request[t] EXCEPT !.step = step])
        BY <2>4, <3>1 DEF InStep, Request, GuardedOps
      <4> QED
        BY <2>6, <2>9, <3>1, <3>4, <4>1
    <3> QED
      BY <3>2, <3>3, <3>4
  <2>14. ASSUME NEW t \in Tabs, Logout(t) PROVE AccountTypes'
    <3>1. /\ request[t] # NoRequest /\ UNCHANGED <<role, screen>> /\ Ends(t, "ok", "regular", "none")
          /\ sessions' = [sessions EXCEPT ![request[t].sid] = NoSession]
      BY <2>14 DEF Logout, Step, Succeeds
    <3>2. /\ request' \in [Tabs -> Requests]
          /\ \A x \in Tabs : request'[x] # NoRequest => InStep(role', request'[x])
      BY <2>3, <3>1 DEF Roles
    <3>3. /\ sessions' \in Sessions
          /\ \A id \in SessionIds : sessions'[id] # NoSession => HasRole(role', sessions'[id].user)
      BY <2>0, <3>1 DEF Sessions
    <3> QED
      BY <2>0, <3>1, <3>2, <3>3 DEF AccountTypes, AccountsTypeOK, Sessions, Requests
  \* A user who gets a role.
  <2>15. ASSUME NEW u \in Users, NEW to \in Roles, role' = [role EXCEPT ![u] = to]
         PROVE  /\ role' \in [Users -> Roles \cup {"none"}]
                /\ \A x \in Users : role[x] \in Roles => role'[x] \in Roles
                /\ HasRole(role', u)
                /\ \A id \in SessionIds : sessions[id] # NoSession => HasRole(role', sessions[id].user)
    BY <2>0, <2>15 DEF HasRole
  <2>16. ASSUME NEW t \in Tabs, UpdateUserRole(t) PROVE AccountTypes'
    <3>1. /\ request[t] # NoRequest /\ UNCHANGED <<sessions, screen>>
          /\ Ends(t, "ok", "regular", "none")
          /\ role' = [role EXCEPT ![request[t].target] = request[t].to]
          /\ request[t].step = "write"
      BY <2>16 DEF UpdateUserRole, Step, Succeeds
    <3>2. request[t].target \in Users /\ request[t].to \in Roles
      BY <2>4, <3>1 DEF InStep
    <3>3. /\ role' \in [Users -> Roles \cup {"none"}]
          /\ \A x \in Users : role[x] \in Roles => role'[x] \in Roles
          /\ \A id \in SessionIds : sessions[id] # NoSession => HasRole(role', sessions[id].user)
      BY <2>15, <3>1, <3>2
    <3>4. /\ request' \in [Tabs -> Requests]
          /\ \A x \in Tabs : request'[x] # NoRequest => InStep(role', request'[x])
      BY <2>3, <3>1, <3>3 DEF Roles
    <3> QED
      BY <2>0, <3>1, <3>3, <3>4 DEF AccountTypes, AccountsTypeOK, Sessions, Requests
  <2>17. ASSUME NEW t \in Tabs, FindUser(t) \/ IsUsersEmpty(t) PROVE AccountTypes'
    <3> DEFINE r == request[t]
               new(step, to) == [r EXCEPT !.step = step, !.to = to]
    <3>1. /\ r # NoRequest /\ r \in Request /\ InStep(role, r) /\ r.step \in {"user", "empty"}
          /\ r.who \in Users /\ UNCHANGED <<role, sessions, screen>>
      BY <2>4, <2>17 DEF FindUser, IsUsersEmpty, Step, InStep
    <3>2. CASE Refuses(t)
      BY <2>3, <2>9, <3>1, <3>2 DEF Refuses, Roles
    <3>3. CASE FindUser(t) /\ Goes(t, "empty")
      <4>1. InStep(role', [r EXCEPT !.step = "empty"])
        BY <3>1 DEF InStep, Request
      <4> QED
        BY <2>6, <2>9, <3>1, <3>3, <4>1
    <3>4. ASSUME NEW step \in {"session", "insert"}, NEW to \in Roles,
                 request' = [request EXCEPT ![t] = new(step, to)],
                 step = "session" => HasRole(role, r.who)
          PROVE  AccountTypes'
      <4>1. new(step, to) \in Request
        BY <2>2, <3>1
      <4>2. /\ new(step, to).step = step /\ new(step, to).who = r.who
            /\ new(step, to).op = r.op /\ new(step, to).target = r.target
        BY <3>1 DEF Request
      <4>3. InStep(role', new(step, to))
        BY <3>1, <3>4, <4>2 DEF InStep
      <4> HIDE DEF new
      <4>4. /\ request' \in [Tabs -> Requests]
            /\ \A x \in Tabs : request'[x] # NoRequest => InStep(role', request'[x])
        BY <2>1, <3>1, <3>4, <4>1, <4>3
      <4> QED
        BY <2>9, <3>1, <4>4
    <3>5. CASE FindUser(t) /\ role[r.who] # "none"
      <4>1. role[r.who] \in Roles
        BY <2>0, <3>1, <3>5
      <4>2. request' = [request EXCEPT ![t] = new("session", role[r.who])]
        BY <2>0, <3>1, <3>5 DEF FindUser
      <4> QED
        BY <3>1, <3>4, <4>1, <4>2 DEF HasRole
    <3>6. CASE IsUsersEmpty(t)
      <4>1. PICK noUsers : request' = [request EXCEPT ![t] = new("insert", IF noUsers THEN "admin" ELSE "regular")]
        BY <2>0, <3>1, <3>6 DEF IsUsersEmpty
      <4>2. (IF noUsers THEN "admin" ELSE "regular") \in Roles
        BY DEF Roles
      <4> QED
        BY <3>4, <4>1, <4>2
    <3> QED
      BY <2>17, <3>2, <3>3, <3>5, <3>6 DEF FindUser
  <2>18. ASSUME NEW t \in Tabs, CreateUser(t) PROVE AccountTypes'
    <3> DEFINE r == request[t]
    <3>1. /\ r # NoRequest /\ r \in Request /\ r.step = "insert" /\ r.who \in Users /\ r.to \in Roles
          /\ UNCHANGED <<sessions, screen>>
      BY <2>4, <2>18 DEF CreateUser, Step, InStep
    <3>2. CASE Refuses(t) /\ UNCHANGED role
      BY <2>3, <2>9, <3>1, <3>2 DEF Refuses, Roles
    <3>3. CASE role' = [role EXCEPT ![r.who] = r.to] /\ (Goes(t, "session") \/ Succeeds(t))
      <4>1. /\ role' \in [Users -> Roles \cup {"none"}]
            /\ \A x \in Users : role[x] \in Roles => role'[x] \in Roles
            /\ HasRole(role', r.who)
            /\ \A id \in SessionIds : sessions[id] # NoSession => HasRole(role', sessions[id].user)
        BY <2>15, <3>1, <3>3
      <4>2. /\ request' \in [Tabs -> Requests]
            /\ \A x \in Tabs : request'[x] # NoRequest => InStep(role', request'[x])
        <5>1. CASE Goes(t, "session")
          <6>1. InStep(role', [r EXCEPT !.step = "session"])
            BY <2>4, <3>1, <4>1 DEF InStep, Request
          <6> QED
            BY <2>6, <3>1, <4>1, <5>1, <6>1
        <5>2. CASE Succeeds(t)
          BY <2>3, <3>1, <4>1, <5>2 DEF Succeeds, Roles
        <5> QED
          BY <3>3, <5>1, <5>2
      <4> QED
        BY <2>0, <3>1, <4>1, <4>2 DEF AccountTypes, AccountsTypeOK, Sessions, Requests
    <3> QED
      BY <2>18, <3>2, <3>3 DEF CreateUser
  <2>19. ASSUME NEW t \in Tabs, CreateSession(t) PROVE AccountTypes'
    <3> DEFINE r == request[t]
    <3>1. PICK id \in SessionIds :
            /\ sessions' = [sessions EXCEPT ![id] = [user |-> r.who, age |-> "fresh"]]
            /\ Ends(t, "ok", r.to, id)
      BY <2>19 DEF CreateSession
    <3>2. /\ r # NoRequest /\ r.to \in Roles /\ HasRole(role, r.who) /\ UNCHANGED <<role, screen>>
      BY <2>4, <2>19 DEF CreateSession, Step, InStep
    <3>3. /\ sessions' \in Sessions
          /\ \A x \in SessionIds : sessions'[x] # NoSession => HasRole(role', sessions'[x].user)
      <4>1. [user |-> r.who, age |-> "fresh"] \in Session
        BY <3>2 DEF Session, HasRole
      <4> QED
        BY <2>0, <3>1, <3>2, <4>1 DEF Sessions
    <3>4. /\ request' \in [Tabs -> Requests]
          /\ \A x \in Tabs : request'[x] # NoRequest => InStep(role', request'[x])
      BY <2>3, <3>1, <3>2
    <3> QED
      BY <2>0, <3>2, <3>3, <3>4 DEF AccountTypes, AccountsTypeOK, Sessions, Requests
  <2>20. ASSUME NEW id \in SessionIds, Age(id) PROVE AccountTypes'
    <3>1. PICK age \in {"half", "expired"} :
            /\ sessions[id] # NoSession /\ UNCHANGED <<role, request, screen>>
            /\ sessions' = [sessions EXCEPT ![id] = [sessions[id] EXCEPT !.age = age]]
      BY <2>20 DEF Age
    <3>2. /\ [sessions[id] EXCEPT !.age = age] \in Session
          /\ [sessions[id] EXCEPT !.age = age].user = sessions[id].user
      BY <2>0, <3>1 DEF Session
    <3>3. /\ sessions' \in Sessions
          /\ \A x \in SessionIds : sessions'[x] # NoSession => HasRole(role', sessions'[x].user)
      BY <2>0, <3>1, <3>2 DEF Sessions
    <3> QED
      BY <2>0, <3>1, <3>3 DEF AccountTypes, AccountsTypeOK, Sessions, Requests
  <2>21. CASE UNCHANGED accountsVars
    BY <2>21 DEF accountsVars, AccountTypes, AccountsTypeOK
  <2> QED
    BY <2>8, <2>10, <2>11, <2>12, <2>13, <2>14, <2>16, <2>17, <2>18, <2>19, <2>20, <2>21
       DEF AccountsNext, ServerStep
<1> QED
  BY <1>1, <1>2, SessionsInvHolds, PTL DEF AccountsSpec, AccountTypes

-----------------------------------------------------------------------------
\* Getting to a group

\* A visit that is not excused is to a group that was there when it began; an
\* answer that was asked for since knows the group, unless it is gone by now.
VisitsWereReal ==
  \A v \in visits : ~ v.missed =>
    /\ life[v.to] \in {"alive", "gone"}
    /\ ask.st = "answered" /\ ~ v.joined => v.to \in ask.list \/ life[v.to] = "gone"

\* The types the argument needs.
RoutesShape ==
  /\ life \in [RouteGroups -> {"unborn", "alive", "gone"}]
  /\ ask.st \in {"none", "asked", "answered"}
  /\ visits \subseteq Visit
  /\ told \in Told \cup {NoVisit}

RoutesInv == RoutesShape /\ VisitsWereReal /\ NotFoundIsReal

\* The invariant of the visits.
LEMMA RoutesInvHolds == RoutesSpec => []RoutesInv
<1>1. RoutesInit => RoutesInv
  BY DEF RoutesInit, RoutesInv, RoutesShape, VisitsWereReal, NotFoundIsReal, NoAsk
<1>2. RoutesInv /\ [RoutesNext]_routesVars => RoutesInv'
  <2> SUFFICES ASSUME RoutesInv, [RoutesNext]_routesVars PROVE RoutesInv'
    OBVIOUS
  <2> USE DEF RoutesInv
  <2>0. /\ \A v \in visits : /\ v \in Visit
                             /\ v.to \in RouteGroups
                             /\ v.missed \in BOOLEAN /\ v.joined \in BOOLEAN
        /\ told # NoVisit => told.to \in RouteGroups
    BY RoutesAssumption DEF RoutesShape, Visit, Told
  <2>a. \A v \in Visit :
          /\ [v EXCEPT !.lead = FALSE] \in Visit
          /\ [v EXCEPT !.lead = FALSE].to = v.to
          /\ [v EXCEPT !.lead = FALSE].missed = v.missed
          /\ [v EXCEPT !.lead = FALSE].joined = v.joined
          /\ [v EXCEPT !.joined = FALSE] \in Visit
          /\ [v EXCEPT !.joined = FALSE].to = v.to
          /\ [v EXCEPT !.joined = FALSE].missed = v.missed
    BY DEF Visit
  <2>b. /\ ask.st \in {"none", "asked", "answered"}
        /\ Fetched(ask) = ask \/ Fetched(ask).st = "asked"
        /\ NewAsk.st = "asked" /\ NoAsk.st = "none"
    BY DEF RoutesShape, Fetched, NewAsk, NoAsk
  \* The visits that a newer click leaves behind.
  <2>c. ASSUME NEW w \in Superseded
        PROVE  w \in Visit /\ \E v \in visits :
                 w.to = v.to /\ w.missed = v.missed /\ w.joined = v.joined
    <3>1. PICK v \in visits : w = [v EXCEPT !.lead = FALSE]
      BY DEF Superseded
    <3> QED
      BY <3>1, <2>0, <2>a
  \* Steps in which each visit that is left is one of before, and none is answered.
  <2>1. ASSUME life' = life, told' = told,
               ask' = ask \/ ask'.st \in {"none", "asked"},
               \A w \in visits' : w \in Visit /\
                 \E v \in visits : /\ w.to = v.to /\ w.missed = v.missed
                                   /\ w.joined = v.joined \/ ask'.st # "answered"
        PROVE  RoutesInv'
    <3>1. RoutesShape' /\ NotFoundIsReal'
      BY <2>1, <2>b DEF RoutesShape, NotFoundIsReal
    <3>2. VisitsWereReal'
      BY <2>1 DEF VisitsWereReal
    <3> QED
      BY <3>1, <3>2
  \* Groups come to life and go.
  <2>2. ASSUME NEW op, NEW g, life' = Lived(op, g), UNCHANGED <<ask, visits, told>>
        PROVE  RoutesInv'
    <3>1. /\ life' \in [RouteGroups -> {"unborn", "alive", "gone"}]
          /\ \A h \in RouteGroups : \/ life'[h] = life[h]
                                    \/ life[h] = "unborn" /\ life'[h] = "alive"
                                    \/ life[h] = "alive" /\ life'[h] = "gone"
      BY <2>2 DEF Lived, RoutesShape
    <3>2. RoutesShape'
      BY <2>2, <3>1 DEF RoutesShape
    <3>3. VisitsWereReal'
      BY <2>2, <2>0, <3>1 DEF VisitsWereReal
    <3>4. NotFoundIsReal'
      BY <2>2, <2>0, <3>1 DEF NotFoundIsReal
    <3> QED
      BY <3>2, <3>3, <3>4
  \* A visit begins.
  <2>3. ASSUME NEW g \in RouteGroups, NEW lead \in BOOLEAN, NEW others,
               Guard(g, lead, others), life' = life,
               \A w \in others : w \in Visit /\
                 \E v \in visits : w.to = v.to /\ w.missed = v.missed /\ w.joined = v.joined
        PROVE  RoutesInv'
    <3>1. told' = told /\ (ask' = ask \/ ask'.st = "asked")
      BY <2>3, <2>b DEF Guard, Verdict
    <3>2. ASSUME NEW w \in visits' \ others
          PROVE  /\ w \in Visit /\ w.to = g
                 /\ w.missed = (life[g] # "alive")
                 /\ w.joined = (ask.st = "answered")
      <4>1. \E step \in Steps : w = [to |-> g, step |-> step, missed |-> life[g] # "alive",
                                     joined |-> ask.st = "answered", lead |-> lead]
        BY <3>2, <2>3 DEF Guard, Steps
      <4>2. (life[g] # "alive") \in BOOLEAN /\ (ask.st = "answered") \in BOOLEAN
        OBVIOUS
      <4> QED
        BY <2>3, <4>1, <4>2 DEF Visit
    <3>3. ask'.st \in {"none", "asked", "answered"}
      BY <3>1, <2>b
    <3>4. RoutesShape'
      BY <2>3, <3>1, <3>2, <3>3 DEF RoutesShape
    <3>5. NotFoundIsReal'
      BY <2>3, <3>1 DEF NotFoundIsReal
    <3>6. ASSUME NEW w \in visits', ~ w.missed
          PROVE  /\ life[w.to] \in {"alive", "gone"}
                 /\ ask'.st = "answered" /\ ~ w.joined =>
                      w.to \in ask'.list \/ life[w.to] = "gone"
      <4>1. CASE w \in others
        BY <2>3, <3>1, <3>6, <4>1 DEF VisitsWereReal
      <4>2. CASE w \notin others
        BY <3>1, <3>2, <3>6, <4>2
      <4> QED
        BY <4>1, <4>2
    <3>7. VisitsWereReal'
      BY <2>3, <3>6 DEF VisitsWereReal
    <3> QED
      BY <3>4, <3>5, <3>7
  <2>4. CASE ServerAnswers
    <3>1. /\ UNCHANGED <<life, visits, told>>
          /\ ask'.st = "answered" /\ ask'.list = Alive
      BY <2>4 DEF ServerAnswers
    <3>2. VisitsWereReal'
      BY <3>1, <2>0 DEF VisitsWereReal, Alive
    <3> QED
      BY <3>1, <3>2 DEF RoutesShape, NotFoundIsReal
  <2>5. CASE ListArrives
    <3>0. PICK again, refused :
            /\ again = {[v EXCEPT !.step = "confirm", !.joined = FALSE] :
                          v \in {w \in visits : Verdict(ask.list, w.step, w.to) = "again"}}
            /\ refused = {v \in visits : Verdict(ask.list, v.step, v.to) = "notFound"}
      OBVIOUS
    <3>1. /\ ask.st = "answered" /\ life' = life /\ visits' = again
          /\ ask' = IF again = {} THEN NoAsk ELSE NewAsk
          /\ IF refused = {} THEN told' = told ELSE told' \in {Telling(v) : v \in refused}
      BY <2>5, <3>0 DEF ListArrives
    <3>2. ASSUME NEW w \in again
          PROVE  w \in Visit /\ \E v \in visits : w.to = v.to /\ w.missed = v.missed
      <4>1. PICK v \in visits : w = [v EXCEPT !.step = "confirm", !.joined = FALSE]
        BY <3>0
      <4> QED
        BY <4>1, <2>0 DEF Visit, Steps
    <3>3. \A v \in refused : v \in visits /\ v.to \notin ask.list
      BY <3>0 DEF Verdict
    <3>4. ask'.st \in {"none", "asked"}
      BY <3>1, <2>b
    <3>5. CASE told' = told
      BY <2>1, <3>1, <3>2, <3>4, <3>5
    <3>6. CASE told' # told
      <4>1. PICK v \in refused : told' = Telling(v)
        BY <3>1, <3>6
      <4>2. v \in visits /\ v.to \notin ask.list
        BY <3>3
      <4>3. v.missed \/ v.joined \/ life[v.to] = "gone"
        BY <4>2, <3>1 DEF VisitsWereReal
      <4>4. told'.to = v.to /\ told'.excused = (v.missed \/ v.joined) /\ told' \in Told
        BY <4>1, <4>2, <2>0 DEF Telling, Told
      <4>5. NotFoundIsReal'
        BY <4>3, <4>4, <3>1 DEF NotFoundIsReal
      <4>6. RoutesShape' /\ VisitsWereReal'
        BY <3>1, <3>2, <3>4, <4>4 DEF RoutesShape, VisitsWereReal
      <4> QED
        BY <4>5, <4>6
    <3> QED
      BY <3>5, <3>6
  <2>6. CASE ListFails
    BY <2>6, <2>1, <2>b DEF ListFails
  <2>7. CASE RefetchList
    BY <2>7, <2>0, <2>1, <2>b DEF RefetchList
  <2>8. CASE ToDashboard
    <3>1. /\ visits' = Superseded /\ UNCHANGED <<life, told>>
          /\ ask' = ask \/ ask'.st = "asked"
      BY <2>8, <2>b DEF ToDashboard
    <3> QED
      BY <3>1, <2>1, <2>b, <2>c
  <2>9. CASE ServerChanges
    BY <2>9, <2>2 DEF ServerChanges
  <2>10. CASE ChangeSucceeds
    <3>1. UNCHANGED <<life, told>>
      BY <2>10 DEF ChangeSucceeds
    <3>2. PICK vs : /\ vs = visits \/ vs = Superseded
                    /\ ask' = IF Observed THEN NewAsk ELSE ask
                    /\ visits' = IF Observed THEN {[v EXCEPT !.joined = FALSE] : v \in vs} ELSE vs
      BY <2>10 DEF ChangeSucceeds
    <3>3. ASSUME NEW u \in vs
          PROVE  u \in Visit /\ \E v \in visits :
                   u.to = v.to /\ u.missed = v.missed /\ u.joined = v.joined
      BY <3>2, <2>0, <2>c
    <3>4. ASSUME NEW w \in visits'
          PROVE  w \in Visit /\ \E v \in visits :
                   /\ w.to = v.to /\ w.missed = v.missed
                   /\ w.joined = v.joined \/ ask'.st # "answered"
      <4>1. CASE Observed
        <5>1. PICK u \in vs : w = [u EXCEPT !.joined = FALSE]
          BY <3>2, <3>4, <4>1
        <5> QED
          BY <5>1, <4>1, <3>2, <3>3, <2>a, <2>b, ZenonT(30)
      <4>2. CASE ~ Observed
        BY <4>2, <3>2, <3>3, <3>4
      <4> QED
        BY <4>1, <4>2
    <3> QED
      BY <3>1, <3>2, <3>4, <2>1, <2>b
  <2>11. CASE ChangeFails
    BY <2>11, <2>0, <2>1 DEF ChangeFails
  <2>12. ASSUME NEW g \in RouteGroups, Click(g) PROVE RoutesInv'
    <3>1. Guard(g, TRUE, Superseded) /\ life' = life
      BY <2>12 DEF Click
    <3> QED
      BY <3>1, <2>3, <2>c
  <2>13. ASSUME NEW g \in RouteGroups, Hover(g) PROVE RoutesInv'
    BY <2>13, <2>0, <2>3 DEF Hover
  <2>14. ASSUME NEW g \in RouteGroups, NEW by, Create(g) \/ Delete(g, by) PROVE RoutesInv'
    BY <2>14, <2>0, <2>1 DEF Create, Delete
  <2>15. ASSUME NEW g \in RouteGroups, NEW op, OthersDo(op, g) PROVE RoutesInv'
    BY <2>15, <2>2 DEF OthersDo
  <2>16. CASE UNCHANGED routesVars
    BY <2>16, <2>0, <2>1 DEF routesVars
  <2> QED
    BY <2>4, <2>5, <2>6, <2>7, <2>8, <2>9, <2>10, <2>11, <2>12, <2>13, <2>14, <2>15, <2>16
       DEF RoutesNext
<1> QED
  BY <1>1, <1>2, PTL DEF RoutesSpec

\* "This group was not found" is only said of a group that is gone, or was not
\* there when the visit began, but for a visit that joined an answer given before.
THEOREM NotFoundIsTrue == RoutesSpec => []NotFoundIsReal
BY RoutesInvHolds, PTL DEF RoutesInv

\* Changing the members of a set does not make it larger.
LEMMA SmallImage ==
  ASSUME NEW S, IsFiniteSet(S), NEW f
  PROVE  IsFiniteSet({f[x] : x \in S}) /\ Cardinality({f[x] : x \in S}) <= Cardinality(S)
<1> DEFINE T == {f[x] : x \in S}
           g == [x \in S |-> f[x]]
<1>1. g \in Surjection(S, T)
  BY DEF Surjection
<1> QED
  BY <1>1, FS_Surjection

\* The types, of finitely many visits.
RouteTypes == RoutesTypeOK /\ IsFiniteSet(visits)

\* What the guard of the group page knows of the groups, and what it waits for, keeps its
\* types: it never waits for more visits than there may be.
THEOREM RoutesTypesHold == RoutesSpec => []RoutesTypeOK
<1>1. RoutesInit => RouteTypes
  BY FS_EmptySet, RoutesAssumption DEF RoutesInit, RouteTypes, RoutesTypeOK, NoAsk, Lists
<1>2. RoutesInv /\ RouteTypes /\ [RoutesNext]_routesVars /\ RoutesInv' => RouteTypes'
  <2> DEFINE few(vs) == IsFiniteSet(vs) /\ Cardinality(vs) <= MaxVisits
             Asks == [st : {"none", "asked", "answered"}, list : Lists]
             Pages == RouteGroups \cup {"dashboard", "all", "broken"}
  <2> SUFFICES ASSUME RoutesInv, RoutesInv', RouteTypes, [RoutesNext]_routesVars
               PROVE  /\ seen' \in Lists \cup {NoList} /\ ask' \in Asks /\ page' \in Pages
                      /\ change' \in Change \cup {NoChange} /\ few(visits')
    BY DEF RoutesInv, RoutesShape, RouteTypes, RoutesTypeOK
  <2>0. /\ seen \in Lists \cup {NoList} /\ ask \in Asks /\ page \in Pages
        /\ change \in Change \cup {NoChange} /\ few(visits) /\ MaxVisits \in Nat \ {0}
    BY RoutesAssumption DEF RouteTypes, RoutesTypeOK
  <2>a. NoAsk \in Asks /\ NewAsk \in Asks /\ \A a \in Asks : Fetched(a) \in Asks
    BY DEF NoAsk, NewAsk, Fetched, Lists
  <2>b. \A from \in Pages, to \in Pages : Frozen(from, to) \in Change \cup {NoChange}
    BY <2>0 DEF Frozen, Change
  <2>c. \A vs \in SUBSET visits : few(vs)
    BY <2>0, FS_Subset, FS_CardinalityType
  <2>d. ASSUME NEW vs, few(vs), NEW f PROVE few({f[v] : v \in vs})
    <3> DEFINE T == {f[v] : v \in vs}
    <3>1. IsFiniteSet(T) /\ Cardinality(T) <= Cardinality(vs)
      BY <2>d, SmallImage
    <3>2. Cardinality(T) \in Nat /\ Cardinality(vs) \in Nat
      BY <2>d, <3>1, FS_CardinalityType
    <3>3. IsFiniteSet(T) /\ Cardinality(T) <= MaxVisits
      <4> HIDE DEF T
      <4> QED
        BY <2>d, <2>0, <3>1, <3>2
    <3> QED
      BY <3>3
  <2>e. \A vs : few(vs) => few({[v EXCEPT !.lead = FALSE] : v \in vs})
    <3> SUFFICES ASSUME NEW vs, few(vs) PROVE few({[v EXCEPT !.lead = FALSE] : v \in vs})
      OBVIOUS
    <3> DEFINE f == [v \in vs |-> [v EXCEPT !.lead = FALSE]]
    <3>1. {f[v] : v \in vs} = {[v EXCEPT !.lead = FALSE] : v \in vs}
      OBVIOUS
    <3> HIDE DEF f
    <3>2. few({f[v] : v \in vs})
      BY <2>d
    <3> QED
      BY <3>1, <3>2
  <2>f. \A vs : few(vs) => few({[v EXCEPT !.joined = FALSE] : v \in vs})
    <3> SUFFICES ASSUME NEW vs, few(vs) PROVE few({[v EXCEPT !.joined = FALSE] : v \in vs})
      OBVIOUS
    <3> DEFINE f == [v \in vs |-> [v EXCEPT !.joined = FALSE]]
    <3>1. {f[v] : v \in vs} = {[v EXCEPT !.joined = FALSE] : v \in vs}
      OBVIOUS
    <3> HIDE DEF f
    <3>2. few({f[v] : v \in vs})
      BY <2>d
    <3> QED
      BY <3>1, <3>2
  <2>g. \A vs : few(vs) => few({[v EXCEPT !.step = "confirm", !.joined = FALSE] : v \in vs})
    <3> SUFFICES ASSUME NEW vs, few(vs)
                 PROVE  few({[v EXCEPT !.step = "confirm", !.joined = FALSE] : v \in vs})
      OBVIOUS
    <3> DEFINE f == [v \in vs |-> [v EXCEPT !.step = "confirm", !.joined = FALSE]]
    <3>1. {f[v] : v \in vs} = {[v EXCEPT !.step = "confirm", !.joined = FALSE] : v \in vs}
      OBVIOUS
    <3> HIDE DEF f
    <3>2. few({f[v] : v \in vs})
      BY <2>d
    <3> QED
      BY <3>1, <3>2
  <2>h. few(Superseded)
    BY <2>0, <2>e DEF Superseded
  <2>i. few({})
    BY <2>0, FS_EmptySet
  <2> HIDE DEF few, Asks, Pages
  <2>1. CASE ServerAnswers
    <3>1. [st |-> "answered", list |-> Alive] \in Asks
      BY DEF Asks, Lists, Alive
    <3> QED
      BY <2>0, <2>1, <3>1 DEF ServerAnswers
  <2>2. CASE ListArrives
    <3>1. ask.list \in Lists
      BY <2>0 DEF Asks
    <3>2. few(visits')
      BY <2>2, <2>c, <2>g DEF ListArrives
    <3>3. ask' \in Asks /\ seen' \in Lists /\ change' = Frozen(page, page')
      BY <2>2, <2>a, <3>1 DEF ListArrives
    <3>4. page' \in Pages
      <4>1. \A v \in visits : v.to \in RouteGroups
        BY DEF RoutesInv, RoutesShape, Visit
      <4>2. {v \in visits : Verdict(ask.list, v.step, v.to) = "found"} \subseteq visits
        OBVIOUS
      <4>3. page' \in {v.to : v \in visits} \cup {page, "dashboard", "broken"}
        BY <2>2 DEF ListArrives
      <4> QED
        BY <2>0, <4>1, <4>3 DEF Pages
    <3> QED
      BY <2>0, <2>b, <3>2, <3>3, <3>4
  <2>3. CASE ListFails
    <3>1. page' \in Pages
      BY <2>3, <2>0 DEF ListFails, Pages
    <3> QED
      BY <2>3, <2>0, <2>a, <2>b, <2>i, <3>1 DEF ListFails
  <2>4. CASE RefetchList
    BY <2>4, <2>0, <2>a DEF RefetchList
  <2>5. CASE ToDashboard
    <3>1. page' \in Pages
      BY <2>5 DEF ToDashboard, Pages
    <3> QED
      BY <2>5, <2>0, <2>a, <2>b, <2>h, <3>1 DEF ToDashboard
  <2>6. CASE ServerChanges
    <3>1. change \in Change
      BY <2>6, <2>0 DEF ServerChanges
    <3>2. [change EXCEPT !.st = "done"] \in Change
      BY <3>1 DEF Change
    <3> QED
      BY <2>6, <2>0, <3>2 DEF ServerChanges
  <2>7. CASE ChangeSucceeds
    <3>1. page' \in Pages
      BY <2>7, <2>0 DEF ChangeSucceeds, Pages
    <3>2. few(visits')
      BY <2>7, <2>0, <2>h, <2>f DEF ChangeSucceeds
    <3> QED
      BY <2>7, <2>0, <2>a, <3>1, <3>2 DEF ChangeSucceeds
  <2>8. CASE ChangeFails
    BY <2>8, <2>0 DEF ChangeFails
  <2>9. ASSUME NEW g \in RouteGroups, NEW lead \in BOOLEAN, NEW others, few(others),
               Cardinality(others) < MaxVisits, Guard(g, lead, others)
        PROVE  ask' \in Asks /\ page' \in Pages /\ few(visits')
    <3>1. ask' \in Asks
      BY <2>9, <2>0, <2>a DEF Guard
    <3>2. page' \in Pages
      BY <2>9, <2>0 DEF Guard, Pages
    <3>3. PICK more : visits' = others \cup more /\ (more = {} \/ \E v : more = {v})
      BY <2>9 DEF Guard
    <3>4. ASSUME NEW v PROVE few(others \cup {v})
      <4>1. IsFiniteSet(others)
        BY <2>9 DEF few
      <4>2. Cardinality(others) \in Nat
        BY <4>1, FS_CardinalityType
      <4>3. /\ IsFiniteSet(others \cup {v})
            /\ \/ Cardinality(others \cup {v}) = Cardinality(others)
               \/ Cardinality(others \cup {v}) = Cardinality(others) + 1
        BY <4>1, FS_AddElement
      <4> QED
        BY <2>9, <2>0, <4>2, <4>3 DEF few
    <3> QED
      BY <2>9, <3>1, <3>2, <3>3, <3>4
  <2>10. ASSUME NEW g \in RouteGroups, Click(g) \/ Hover(g)
         PROVE  /\ seen' \in Lists \cup {NoList} /\ ask' \in Asks /\ page' \in Pages
                /\ change' \in Change \cup {NoChange} /\ few(visits')
    BY <2>10, <2>9, <2>0, <2>h DEF Click, Hover
  <2>11. ASSUME NEW g \in RouteGroups, Create(g)
         PROVE  change' \in Change
    <3>1. change' = [op |-> "create", g |-> g, st |-> "sent", match |-> "live", by |-> "sidebar"]
      BY <2>11 DEF Create
    <3> QED
      BY <3>1 DEF Change
  <2>12. ASSUME NEW g \in RouteGroups, NEW by \in {"page", "sidebar"}, Delete(g, by)
         PROVE  change' \in Change
    <3>1. change' = [op |-> "delete", g |-> g, st |-> "sent", match |-> "live", by |-> by]
      BY <2>12 DEF Delete
    <3> QED
      BY <3>1 DEF Change
  <2>13. ASSUME NEW g \in RouteGroups,
                \/ Create(g) \/ (\E by \in {"page", "sidebar"} : Delete(g, by))
                \/ \E op \in {"create", "delete"} : OthersDo(op, g)
         PROVE  /\ seen' \in Lists \cup {NoList} /\ ask' \in Asks /\ page' \in Pages
                /\ change' \in Change \cup {NoChange} /\ few(visits')
    BY <2>13, <2>11, <2>12, <2>0 DEF Create, Delete, OthersDo
  <2>14. CASE UNCHANGED routesVars
    BY <2>14, <2>0 DEF routesVars
  <2> QED
    BY <2>1, <2>2, <2>3, <2>4, <2>5, <2>6, <2>7, <2>8, <2>10, <2>13, <2>14 DEF RoutesNext
<1> QED
  BY <1>1, <1>2, RoutesInvHolds, PTL DEF RoutesSpec, RouteTypes

-----------------------------------------------------------------------------
\* Scanning a receipt

\* The scans under way, whether their photo is still being read from disk or sent.
Pictures == reads \cup scans

\* The types.
WizardShape ==
  /\ draft \in Draft \cup {NoDraft}
  /\ reads \subseteq Scan /\ scans \subseteq Scan /\ saves \subseteq Save
  /\ photo \in Photos \cup {"none"}

\* A scan has one number, and is either waiting for its bytes or sent.
ScansApart ==
  /\ reads \cap scans = {}
  /\ \A r, s \in Pictures : r.nr = s.nr => r = s

\* Of several scans of the page none is alone.
Company == \A r, s \in Pictures : r.here /\ s.here /\ r # s => ~ r.alone

\* What the page has sent is of the photo that is chosen, unless it was exchanged since;
\* a page that is not there has sent nothing.
OfThePhoto ==
  \A s \in Pictures : s.here => (s.stale \/ s.of = photo) /\ wstep \notin {"gone", "broken"}

\* One bulk creation of the page is in flight at most. The draft's expenses are
\* entered once more than was answered only while that one is entered and unanswered.
Tally ==
  /\ \A r, s \in saves : r = s
  /\ entered \in Nat /\ answered \in Nat /\ entered <= answered + 1
  /\ (\A s \in saves : s.own => s.st = "sent") => entered <= answered

WizardInv ==
  /\ WizardShape /\ ScansApart /\ Company /\ OfThePhoto /\ Tally
  /\ DraftOfThePhoto /\ NoLateOverwrite

\* The invariant of the wizard.
LEMMA WizardInvHolds == WizardSpec => []WizardInv
<1> USE DEF Pictures
<1>1. WizardInit => WizardInv
  BY DEF WizardInit, WizardInv, WizardShape, ScansApart, Company, OfThePhoto, Tally,
         DraftOfThePhoto, NoLateOverwrite
<1>2. WizardInv /\ [WizardNext]_wizardVars => WizardInv'
  <2> SUFFICES ASSUME WizardInv, [WizardNext]_wizardVars PROVE WizardInv'
    OBVIOUS
  <2> USE DEF WizardInv
  <2>0. /\ \A s \in Pictures : s \in Scan
        /\ \A s \in saves : s \in Save
        /\ "none" \notin Photos
    BY WizardAssumption DEF WizardShape
  <2>a. ASSUME NEW s \in Scan, NEW b \in BOOLEAN
        PROVE  /\ [s EXCEPT !.stale = TRUE] \in Scan /\ [s EXCEPT !.here = FALSE] \in Scan
               /\ [s EXCEPT !.alone = b] \in Scan
               /\ s.nr \in 1..MaxScans /\ s.of \in Photos
               /\ s.stale \in BOOLEAN /\ s.alone \in BOOLEAN /\ s.here \in BOOLEAN
    BY DEF Scan
  \* Steps that keep the scans and the saves, or lose some.
  <2>1. ASSUME reads' \subseteq reads, scans' \subseteq scans, UNCHANGED <<saves, entered, answered>>,
               photo' = photo, draft' = draft,
               wstep' \in Shown, wstep \in Shown,
               \/ wstep' \in {"upload", "processing"}
               \/ wstep \in {"review", "confirm"} /\ wstep' \in {"review", "confirm"}
        PROVE  WizardInv'
    BY <2>1, Zenon DEF WizardShape, ScansApart, Company, OfThePhoto, Tally, DraftOfThePhoto,
              NoLateOverwrite, Shown
  \* What is still true of the scans' numbers and company when f has changed them.
  <2>2. ASSUME NEW f \in [Scan -> Scan],
               \A s \in Scan : /\ f[s].nr = s.nr
                               /\ f[s].here => s.here
                               /\ f[s].alone => s.alone,
               NEW R, NEW S,
               \A r \in R : \E s \in reads : r = f[s],
               \A r \in S : \E s \in scans : r = f[s]
        PROVE  /\ R \subseteq Scan /\ S \subseteq Scan /\ R \cap S = {}
               /\ \A r, s \in R \cup S : r.nr = s.nr => r = s
               /\ \A r, s \in R \cup S : r.here /\ s.here /\ r # s => ~ r.alone
    <3>1. \A r \in R : \E s \in reads : s \in Scan /\ r = f[s]
      BY <2>2, <2>0
    <3>2. \A r \in S : \E s \in scans : s \in Scan /\ r = f[s]
      BY <2>2, <2>0
    <3>3. \A r, s \in Pictures : r.nr = s.nr => r = s
      BY DEF ScansApart
    <3>4. R \cap S = {}
      <4> SUFFICES ASSUME NEW r \in R, r \in S PROVE FALSE
        OBVIOUS
      <4>1. PICK p \in reads, q \in scans : p \in Scan /\ q \in Scan /\ r = f[p] /\ r = f[q]
        BY <3>1, <3>2
      <4>2. r.nr = p.nr /\ r.nr = q.nr
        BY <4>1, <2>2
      <4>3. p = q
        BY <4>2, <3>3
      <4> QED
        BY <4>3 DEF ScansApart
    <3>5. ASSUME NEW r \in R \cup S, NEW s \in R \cup S
          PROVE  /\ r.nr = s.nr => r = s
                 /\ r.here /\ s.here /\ r # s => ~ r.alone
      <4>1. PICK p \in Pictures, q \in Pictures :
              p \in Scan /\ q \in Scan /\ r = f[p] /\ s = f[q]
        BY <3>1, <3>2
      <4>2. r.nr = s.nr => r = s
        BY <4>1, <2>2, <3>3
      <4>3. r.here /\ s.here /\ r # s => p.here /\ q.here /\ p # q
        BY <4>1, <2>2
      <4>4. p.here /\ q.here /\ p # q => ~ p.alone
        BY DEF Company
      <4>5. r.alone => p.alone
        BY <4>1, <2>2
      <4> QED
        BY <4>2, <4>3, <4>4, <4>5
    <3>6. R \subseteq Scan /\ S \subseteq Scan
      <4>1. \A s \in Scan : f[s] \in Scan
        BY <2>2
      <4> QED
        BY <3>1, <3>2, <4>1
    <3> QED
      BY <3>4, <3>5, <3>6
  <2>3. CASE OpenWizard
    <3>1. /\ wstep = "gone" /\ wstep' \in {"broken", "upload"}
          /\ photo' = "none" /\ draft' = NoDraft /\ UNCHANGED <<reads, scans, saves, entered, answered>>
      BY <2>3 DEF OpenWizard, MountedWith, tally
    <3>2. \A s \in Pictures : ~ s.here
      BY <3>1 DEF OfThePhoto
    <3> QED
      BY <3>1, <3>2 DEF WizardShape, ScansApart, Company, OfThePhoto, Tally, DraftOfThePhoto,
                        NoLateOverwrite
  \* The page goes, or breaks.
  <2>4. ASSUME NEW step \in {"gone", "broken"}, GoneTo(step) PROVE WizardInv'
    <3>1. PICK f : f = [s \in Scan |-> [s EXCEPT !.here = FALSE]]
      OBVIOUS
    <3>2. f \in [Scan -> Scan] /\ \A s \in Scan :
            f[s].nr = s.nr /\ ~ f[s].here /\ (f[s].alone => s.alone)
      BY <3>1, <2>a DEF Scan
    <3>3. \A s \in Pictures : f[s] = [s EXCEPT !.here = FALSE]
      BY <3>1, <2>0
    <3>4. /\ \A r \in reads' : \E s \in reads : r = f[s]
          /\ \A r \in scans' : \E s \in scans : r = f[s]
      BY <3>3, <2>4 DEF GoneTo, Unmounted
    <3>5. /\ reads' \subseteq Scan /\ scans' \subseteq Scan /\ reads' \cap scans' = {}
          /\ \A r, s \in reads' \cup scans' : r.nr = s.nr => r = s
          /\ \A r, s \in reads' \cup scans' : r.here /\ s.here /\ r # s => ~ r.alone
      BY <3>2, <3>4, <2>2
    <3>6. \A s \in reads' \cup scans' : ~ s.here
      BY <3>2, <3>4, <2>0
    <3>7. saves' = {} /\ entered' = 0 /\ answered' = 0
      BY <2>4 DEF GoneTo
    <3>8. wstep' = step /\ photo' = "none" /\ draft' = NoDraft
      BY <2>4 DEF GoneTo
    <3> QED
      BY <3>5, <3>6, <3>7, <3>8 DEF WizardShape, ScansApart, Company, OfThePhoto, Tally,
         DraftOfThePhoto, NoLateOverwrite
  <2>5. ASSUME NEW p \in Photos \cup {"none"}, onFileChange(p) PROVE WizardInv'
    <3>1. PICK f : f = [s \in Scan |-> [s EXCEPT !.stale = TRUE]]
      OBVIOUS
    <3>2. f \in [Scan -> Scan] /\ \A s \in Scan :
            f[s].nr = s.nr /\ (f[s].here => s.here) /\ (f[s].alone => s.alone)
      BY <3>1, <2>a DEF Scan
    <3>s. \A s \in Scan : f[s].stale
      BY <3>1 DEF Scan
    <3>3. \A s \in Pictures : f[s] = [s EXCEPT !.stale = TRUE]
      BY <3>1, <2>0
    <3>4. /\ \A r \in reads' : \E s \in reads : r = f[s]
          /\ \A r \in scans' : \E s \in scans : r = f[s]
      BY <3>3, <2>5 DEF onFileChange
    <3>5. /\ reads' \subseteq Scan /\ scans' \subseteq Scan /\ reads' \cap scans' = {}
          /\ \A r, s \in reads' \cup scans' : r.nr = s.nr => r = s
          /\ \A r, s \in reads' \cup scans' : r.here /\ s.here /\ r # s => ~ r.alone
      BY <3>2, <3>4, <2>2
    <3>6. \A s \in reads' \cup scans' : s.stale
      BY <3>s, <3>4, <2>0
    <3>7. /\ wstep = "upload" /\ photo' = p
          /\ UNCHANGED <<wstep, draft, saves, entered, answered>>
      BY <2>5 DEF onFileChange, tally
    <3> QED
      BY <3>5, <3>6, <3>7 DEF WizardShape, ScansApart, Company, OfThePhoto, Tally,
         DraftOfThePhoto, NoLateOverwrite
  <2>6. CASE onContinueUpload
    <3>0. PICK f, lone, n :
            /\ f = [s \in Scan |-> [s EXCEPT !.alone = @ /\ ~ s.here]]
            /\ lone = ({s \in Pictures : s.here} = {})
            /\ n = CHOOSE i \in FreeScans : \A k \in FreeScans : i <= k
      OBVIOUS
    <3>1. n \in FreeScans
      <4>1. FreeScans \in SUBSET Nat /\ FreeScans # {}
        BY <2>6, WizardAssumption DEF onContinueUpload, FreeScans
      <4> QED
        BY <4>1, <3>0, LeastMember
    <3>2. n \in 1..MaxScans /\ \A s \in Pictures : s.nr # n
      BY <3>1 DEF FreeScans
    <3>3. f \in [Scan -> Scan] /\ \A s \in Scan :
            /\ f[s].nr = s.nr /\ (f[s].here <=> s.here) /\ (f[s].alone <=> s.alone /\ ~ s.here)
            /\ f[s].stale = s.stale /\ f[s].of = s.of
      BY <3>0 DEF Scan
    <3>4. PICK q : q = [nr |-> n, of |-> photo, stale |-> FALSE, alone |-> lone, here |-> TRUE]
      OBVIOUS
    <3>5. /\ wstep = "upload" /\ photo \in Photos
          /\ UNCHANGED <<wstep, photo, draft, saves, entered, answered>>
      BY <2>6 DEF onContinueUpload, WizardShape, tally
    <3>6. q \in Scan
      BY <3>0, <3>2, <3>4, <3>5 DEF Scan
    <3>7. \A s \in Pictures : f[s] = [s EXCEPT !.alone = @ /\ ~ s.here]
      BY <3>0, <2>0
    <3>8. PICK R, S : /\ R = {[s EXCEPT !.alone = @ /\ ~ s.here] : s \in reads}
                      /\ S = {[s EXCEPT !.alone = @ /\ ~ s.here] : s \in scans}
      OBVIOUS
    <3>9. reads' = R \cup {q} /\ scans' = S
      BY <3>0, <3>4, <3>8, <2>6, Zenon DEF onContinueUpload
    <3>r. /\ \A r \in R : \E s \in reads : r = f[s]
          /\ \A r \in S : \E s \in scans : r = f[s]
      BY <3>7, <3>8
    <3>10. /\ R \subseteq Scan /\ S \subseteq Scan /\ R \cap S = {}
           /\ \A r, s \in R \cup S : r.nr = s.nr => r = s
           /\ \A r, s \in R \cup S : r.here /\ s.here /\ r # s => ~ r.alone
      <4>1. R \subseteq Scan /\ S \subseteq Scan
        BY <3>3, <3>r, <2>2
      <4>2. R \cap S = {}
        BY <3>3, <3>r, <2>2
      <4>3. \A r, s \in R \cup S : r.nr = s.nr => r = s
        BY <3>3, <3>r, <2>2, ZenonT(30)
      <4>4. \A r, s \in R \cup S : r.here /\ s.here /\ r # s => ~ r.alone
        BY <3>3, <3>r, <2>2, ZenonT(30)
      <4> QED
        BY <4>1, <4>2, <4>3, <4>4
    <3>11. ASSUME NEW r \in R \cup S
           PROVE  \E s \in Pictures : /\ r.nr = s.nr /\ (r.here <=> s.here) /\ r.stale = s.stale
                                      /\ r.of = s.of /\ (r.alone <=> s.alone /\ ~ s.here)
      BY <3>3, <3>r, <2>0
    <3>12. \A r \in R \cup S : r.nr # q.nr /\ ~ (r.here /\ r.alone)
      BY <3>2, <3>4, <3>11
    <3>13. q.alone => \A r \in R \cup S : ~ r.here
      BY <3>0, <3>4, <3>11
    <3>14. ScansApart' /\ WizardShape'
      BY <3>5, <3>6, <3>9, <3>10, <3>12 DEF ScansApart, WizardShape
    <3>15. Company'
      BY <3>9, <3>10, <3>12, <3>13 DEF Company
    <3>16. OfThePhoto'
      BY <3>4, <3>5, <3>9, <3>11 DEF OfThePhoto
    <3> QED
      BY <3>5, <3>14, <3>15, <3>16 DEF Tally, DraftOfThePhoto, NoLateOverwrite
  <2>7. CASE CancelProcessing
    BY <2>7, <2>1 DEF CancelProcessing, Shown, tally
  <2>8. ASSUME NEW r \in reads, BytesRead(r) PROVE WizardInv'
    <3>1. /\ reads' = reads \ {r} /\ scans' = scans \cup {r}
          /\ wstep' = IF r.here THEN "processing" ELSE wstep
          /\ UNCHANGED <<photo, draft, saves, entered, answered>>
      BY <2>8 DEF BytesRead, tally
    <3>2. reads' \cup scans' = Pictures
      BY <3>1
    <3>3. WizardShape' /\ ScansApart' /\ Company'
      BY <3>1, <3>2 DEF WizardShape, ScansApart, Company
    <3>4. wstep' = wstep \/ (wstep' = "processing" /\ wstep \notin {"gone", "broken"})
      BY <3>1 DEF OfThePhoto
    <3> QED
      BY <3>1, <3>2, <3>3, <3>4 DEF OfThePhoto, Tally, DraftOfThePhoto, NoLateOverwrite
  <2>b. ASSUME NEW r \in reads, BytesFail(r) PROVE WizardInv'
    <3>1. reads' \subseteq reads
          /\ UNCHANGED <<wstep, photo, draft, scans, saves, entered, answered>>
      BY <2>b DEF BytesFail, tally
    <3> QED
      BY <3>1 DEF WizardShape, ScansApart, Company, OfThePhoto, Tally, DraftOfThePhoto,
                  NoLateOverwrite
  <2>9. ASSUME NEW s \in scans, NEW items \in {0, 1}, ScanAnswered(s, items) PROVE WizardInv'
    <3>1. /\ scans' = scans \ {s} /\ reads' = reads /\ photo' = photo
      BY <2>9 DEF ScanAnswered
    <3>2. CASE ~ s.here
      <4>1. UNCHANGED <<draft, wstep, saves, entered, answered>>
        BY <2>9, <3>2 DEF ScanAnswered, tally
      <4> QED
        BY <3>1, <4>1 DEF WizardShape, ScansApart, Company, OfThePhoto, Tally,
           DraftOfThePhoto, NoLateOverwrite
    <3>3. CASE s.here
      <4>1. /\ \E b \in BOOLEAN : draft' = [Receipt(s) EXCEPT !.selected = b]
            /\ wstep' = "review"
        <5>1. (items > 0) \in BOOLEAN
          OBVIOUS
        <5> QED
          BY <5>1, <2>9, <3>3, Zenon DEF ScanAnswered
      <4>0. s.of \in Photos /\ s.stale \in BOOLEAN
        BY <2>0, <2>a
      <4>2. draft' \in Draft /\ draft'.of = s.of /\ draft'.stale = s.stale
        BY <4>0, <4>1 DEF Receipt, Draft
      <4>3. draft' # NoDraft
        BY <4>0, <4>2, <2>0 DEF NoDraft
      <4>4. s.stale \/ s.of = photo
        BY <3>3 DEF OfThePhoto
      <4>5. \A r \in reads' \cup scans' : ~ (r.here /\ r.alone)
        BY <3>1, <3>3 DEF Company, ScansApart
      <4>6. wstep \notin {"gone", "broken"}
        BY <3>3 DEF OfThePhoto
      <4>7. saves' \subseteq Save /\ Tally'
        <5>1. /\ saves' = {[c EXCEPT !.own = FALSE] : c \in saves}
              /\ entered' = 0 /\ answered' = 0
          BY <2>9, <3>3 DEF ScanAnswered
        <5>2. \A c \in saves : [c EXCEPT !.own = FALSE] \in Save
          BY <2>0 DEF Save
        <5>3. \A r, c \in saves' : r = c
          BY <5>1 DEF Tally
        <5> QED
          BY <5>1, <5>2, <5>3 DEF Tally
      <4>9. WizardShape' /\ ScansApart' /\ Company' /\ OfThePhoto'
        BY <3>1, <4>1, <4>2, <4>6, <4>7 DEF WizardShape, ScansApart, Company, OfThePhoto
      <4>8. DraftOfThePhoto' /\ NoLateOverwrite'
        BY <3>1, <4>2, <4>3, <4>4, <4>5 DEF DraftOfThePhoto, NoLateOverwrite
      <4> QED
        BY <4>7, <4>8, <4>9
    <3> QED
      BY <3>2, <3>3
  <2>10. ASSUME NEW s \in scans, ScanFailed(s) PROVE WizardInv'
    <3>1. /\ scans' = scans \ {s} /\ reads' = reads
          /\ UNCHANGED <<photo, draft, saves, entered, answered>>
          /\ wstep' = IF s.here THEN "upload" ELSE wstep
      BY <2>10 DEF ScanFailed, tally
    <3>2. wstep' = wstep \/ (wstep' = "upload" /\ wstep \notin {"gone", "broken"})
      BY <3>1 DEF OfThePhoto
    <3> QED
      BY <3>1, <3>2 DEF WizardShape, ScansApart, Company, OfThePhoto, Tally,
         DraftOfThePhoto, NoLateOverwrite
  <2>11. CASE EditDraft
    <3>1. /\ wstep = "review"
          /\ UNCHANGED <<wstep, photo, reads, scans, saves, entered, answered>>
          /\ \E sel, dat \in BOOLEAN : draft' = [draft EXCEPT !.selected = sel, !.dated = dat]
      BY <2>11 DEF EditDraft, tally
    <3>2. draft \in Draft /\ (draft.stale \/ draft.of = photo)
      BY <3>1 DEF DraftOfThePhoto, WizardShape
    <3>3. draft' \in Draft /\ draft'.stale = draft.stale /\ draft'.of = draft.of
      BY <3>1, <3>2 DEF Draft
    <3>4. draft' # NoDraft
      BY <3>3, <2>0 DEF Draft, NoDraft
    <3> QED
      BY <3>1, <3>2, <3>3, <3>4 DEF WizardShape, ScansApart, Company, OfThePhoto, Tally,
         DraftOfThePhoto, NoLateOverwrite
  <2>12. CASE ReviewBack \/ ConfirmBack
    BY <2>12, <2>1 DEF ReviewBack, ConfirmBack, GoTo, Shown, tally
  <2>c. CASE ReviewContinue
    <3>1. CASE GoTo("review", "confirm")
      BY <3>1, <2>1 DEF GoTo, Shown, tally
    <3>2. CASE GoneTo("broken")
      BY <3>2, <2>4
    <3> QED
      BY <2>c, <3>1, <3>2 DEF ReviewContinue
  <2>13. CASE onSave
    <3>1. PICK n : n = CHOOSE m \in FreeSaves : TRUE
      OBVIOUS
    <3>2. /\ saves' = saves \cup {[nr |-> n, own |-> TRUE, st |-> "sent"]}
          /\ wstep = "confirm" /\ ~ Saving /\ FreeSaves # {}
          /\ UNCHANGED <<wstep, photo, draft, reads, scans, entered, answered>>
      BY <2>13, <3>1 DEF onSave, SaveEnabled, tally
    <3>3. [nr |-> n, own |-> TRUE, st |-> "sent"] \in Save
      BY <3>1, <3>2 DEF FreeSaves, Save
    <3>4. saves = {}
      BY <3>2 DEF Saving
    <3>5. WizardShape' /\ Tally'
      BY <3>2, <3>3, <3>4 DEF WizardShape, Tally
    <3> QED
      BY <3>2, <3>5 DEF ScansApart, Company, OfThePhoto, DraftOfThePhoto, NoLateOverwrite
  <2>14. ASSUME NEW s \in saves, BulkCreate(s) PROVE WizardInv'
    <3>1. PICK d : d = [s EXCEPT !.st = "done"]
      OBVIOUS
    <3>2. d \in Save /\ d.own = s.own /\ s.own \in BOOLEAN
      BY <2>0, <3>1 DEF Save
    <3>3. saves = {s} /\ s.st = "sent"
      BY <2>14 DEF BulkCreate, Tally
    <3>4. /\ saves' = {d}
          /\ entered' = (IF s.own THEN entered + 1 ELSE entered) /\ answered' = answered
          /\ UNCHANGED <<wstep, photo, draft, reads, scans>>
      BY <2>14, <3>1, <3>3 DEF BulkCreate
    <3>5. entered <= answered /\ entered \in Nat /\ answered \in Nat
      BY <3>3 DEF Tally
    <3>6. (d.own => d.st = "sent") <=> ~ s.own
      BY <2>0, <3>1, <3>2 DEF Save
    <3>7. \A r, t \in saves' : r = t
      BY <3>4
    <3>8. entered' \in Nat /\ answered' \in Nat /\ entered' <= answered' + 1
          /\ (~ s.own => entered' <= answered')
      BY <3>2, <3>4, <3>5
    <3>9. Tally'
      BY <3>4, <3>6, <3>7, <3>8 DEF Tally
    <3> QED
      BY <3>2, <3>4, <3>9 DEF WizardShape, ScansApart, Company, OfThePhoto, DraftOfThePhoto,
                              NoLateOverwrite
  <2>d. ASSUME NEW s \in saves, SaveAnswered(s) PROVE WizardInv'
    <3>1. saves = {s} /\ s.own \in BOOLEAN
      BY <2>0 DEF Tally, Save
    <3>2. /\ saves' = {}
          /\ answered' = (IF s.own THEN answered + 1 ELSE answered) /\ entered' = entered
          /\ UNCHANGED <<wstep, photo, draft, reads, scans>>
      BY <2>d, <3>1 DEF SaveAnswered
    <3>3. /\ entered \in Nat /\ answered \in Nat /\ entered <= answered + 1
          /\ ~ s.own => entered <= answered
      BY <3>1 DEF Tally
    <3>4. Tally'
      BY <3>1, <3>2, <3>3 DEF Tally
    <3> QED
      BY <3>2, <3>4 DEF WizardShape, ScansApart, Company, OfThePhoto, DraftOfThePhoto,
                        NoLateOverwrite
  <2>15. CASE UNCHANGED wizardVars
    BY <2>15 DEF wizardVars, tally, WizardShape, ScansApart, Company, OfThePhoto, Tally,
       DraftOfThePhoto, NoLateOverwrite
  <2> QED
    BY <2>3, <2>4, <2>5, <2>6, <2>7, <2>8, <2>b, <2>9, <2>10, <2>11, <2>12, <2>c, <2>13,
       <2>14, <2>d, <2>15
    DEF WizardNext, LeaveWizard
<1> QED
  BY <1>1, <1>2, PTL DEF WizardSpec

\* The wizard saves what the user has reviewed, of the photo shown, whichever step it is
\* on when a scan's or a creation's answer arrives; and the expenses of a draft are
\* entered again only by a press of Save that followed an answer to the one before.
THEOREM SavesStaySound == WizardSpec => []SavesAreSound
<1>1. WizardInv => SavesAreSound
  BY DEF WizardInv, Tally, AgainOnlyAfterAnswer, SavesAreSound
<1> QED
  BY <1>1, WizardInvHolds, PTL

\* The wizard keeps its types: it is on one of its steps, and no call in flight is of a
\* photo, or has a number, that there is not.
THEOREM WizardTypesHold == WizardSpec => []WizardTypeOK
<1>1. WizardInit => WizardTypeOK
  BY WizardAssumption DEF WizardInit, WizardTypeOK
<1>2. WizardInv /\ WizardTypeOK /\ [WizardNext]_wizardVars /\ WizardInv' => WizardTypeOK'
  <2> SUFFICES ASSUME WizardInv, WizardInv', WizardTypeOK, [WizardNext]_wizardVars
               PROVE  wstep' \in Shown \cup {"gone", "broken"} /\ latest' \in 0..MaxScans
    BY DEF WizardInv, WizardShape, Tally, WizardTypeOK
  <2> USE WizardAssumption DEF WizardTypeOK, Shown
  <2>1. CASE OpenWizard
    BY <2>1 DEF OpenWizard, MountedWith
  <2>2. CASE LeaveWizard
    BY <2>2 DEF LeaveWizard, GoneTo
  <2>3. ASSUME NEW r \in reads, BytesRead(r)
        PROVE  wstep' \in Shown \cup {"gone", "broken"} /\ latest' \in 0..MaxScans
    <3>1. r.nr \in 1..MaxScans
      BY <2>3 DEF Scan
    <3> QED
      BY <2>3, <3>1 DEF BytesRead
  <2>4. CASE \/ \E p \in Photos \cup {"none"} : onFileChange(p)
             \/ onContinueUpload \/ EditDraft \/ onSave
             \/ \E r \in reads : BytesFail(r)
             \/ \E s \in saves : BulkCreate(s) \/ SaveAnswered(s)
             \/ UNCHANGED wizardVars
    BY <2>4 DEF onFileChange, onContinueUpload, BytesFail, EditDraft, onSave, BulkCreate,
                SaveAnswered, wizardVars
  <2>5. CASE CancelProcessing \/ ReviewBack \/ ReviewContinue \/ ConfirmBack
    BY <2>5 DEF CancelProcessing, ReviewBack, ReviewContinue, ConfirmBack, GoTo, GoneTo
  <2>6. CASE \E s \in scans : (\E items \in {0, 1} : ScanAnswered(s, items)) \/ ScanFailed(s)
    BY <2>6 DEF ScanAnswered, ScanFailed
  <2> QED
    BY <2>1, <2>2, <2>3, <2>4, <2>5, <2>6 DEF WizardNext
<1> QED
  BY <1>1, <1>2, WizardInvHolds, PTL DEF WizardSpec

-----------------------------------------------------------------------------
\* The dialogs and the queries

\* Which dialog sends what.
LEMMA KindsApart ==
  ASSUME NEW op \in AllOps
  PROVE  /\ KindOf(op) = "expense" <=> op \in ExpenseOps
         /\ KindOf(op) = "transfer" <=> op \in TransferOps
         /\ KindOf(op) = "conversion" <=> op \in ConversionOps
         /\ KindOf(op) = "recurring" <=> op \in RecurringOps
         /\ KindOf(op) = "newGroup" <=> op \in NewGroupOps
         /\ KindOf(op) \in Kinds
BY DEF AllOps, KindOf, Kinds, AnsweredForms, ClosingForms, ExpenseOps, TransferOps,
       ConversionOps, SingleCurrencyOps, RecurringOps, GroupOps, DeleteOps, MemberOps,
       NewGroupOps, ImageOps, RowOps, FlagOps, RateOps

\* Each handler asks again for what its operation has changed, but for the known gaps.
LEMMA RefreshedIsChanged ==
  ASSUME NEW op \in AllOps
  PROVE  Changes(op) \subseteq Refreshes(op) \cup Forgotten(op)
<1> SUFFICES ASSUME NEW q \in Changes(op), q \notin Forgotten(op) PROVE q \in Refreshes(op)
  OBVIOUS
<1>1. q \in Queries
  BY DEF Changes
<1> USE <1>1 DEF Changes, Refreshes, Forgotten, Balances, ExpenseOps, TransferOps,
       ConversionOps, SingleCurrencyOps, RecurringOps, GroupOps, DeleteOps, MemberOps,
       NewGroupOps, ImageOps, RowOps, FlagOps, RateOps, ExpenseRefreshes, TransferRefreshes,
       ConversionRefreshes, SingleCurrencyRefreshes, RecurringRefreshes, DeleteExpenseRefreshes,
       DeleteTransferRefreshes, DeleteConversionRefreshes, DeleteRecurringRefreshes,
       SkipRefreshes, GroupRefreshes, MemberRefreshes, NewGroupRefreshes, ImageRefreshes,
       FlagRefreshes
<1>2. CASE op \in ExpenseOps
  BY <1>2
<1>3. CASE op \in TransferOps \cup ConversionOps \cup SingleCurrencyOps
  BY <1>3
<1>4. CASE op \in DeleteOps
  BY <1>4
<1>5. CASE op \in RecurringOps \cup RowOps
  BY <1>5
<1>6. CASE op \in GroupOps
  BY <1>6
<1>7. CASE op \in MemberOps \cup NewGroupOps
  BY <1>7
<1>8. CASE op \in ImageOps \cup FlagOps
  BY <1>8
<1> QED
  BY <1>2, <1>3, <1>4, <1>5, <1>6, <1>7, <1>8 DEF AllOps

\* Every page shows what the sidebar shows.
LEMMA TabsMount ==
  \A t : Mounted(t) \subseteq Queries /\ Mounted("away") \subseteq Mounted(t)
BY DEF Mounted

\* The types, but for the bound on the calls.
DialogsShape ==
  /\ view \in [Queries -> View]
  /\ dialog \in Dialog
  /\ calls \subseteq Call
  /\ tab \in {"activity", "stats", "away"}

\* The handler of a call is yet to run whose change query q has missed, and will ask for
\* it again.
Awaited(q) == \E c \in calls : c.st = "done" /\ q \in Changes(c.op) \ Forgotten(c.op)

\* Where a query stands: an answer that was overtaken by a change leaves it behind, nothing
\* is asked for that no component observes, and what is shown is as the server has it, or
\* excused, or an answer yet to come or the handler of a call repairs it.
QueryFits(q) ==
  /\ view[q].fetch = "outdated" => ~ view[q].fresh
  /\ q \notin Mounted(tab) => view[q].fetch = "none"
  /\ q \in Mounted(tab) =>
       \/ view[q].fresh \/ view[q].excused
       \/ view[q].fetch \in {"asked", "current"}
       \/ Awaited(q)

\* A dialog that was typed into has no call of its kind in flight but its own.
OwnCalls ==
  dialog.typed # {} /\ dialog.kind \in AnsweredForms \ {"singleCurrency"} =>
    \A c \in calls : c.here /\ KindOf(c.op) = dialog.kind => c.own

PageInv == DialogsShape /\ OwnCalls /\ \A q \in Queries : QueryFits(q)

\* The invariant of the queries, the dialog and the calls.
LEMMA PageInvHolds == DialogsSpec => []PageInv
<1>1. DialogsInit => PageInv
  <2> SUFFICES ASSUME DialogsInit PROVE PageInv
    OBVIOUS
  <2>1. DialogsShape
    BY DEF DialogsInit, DialogsShape, View, Fetches, NoDialog, Dialog, Kinds
  <2> QED
    BY <2>1 DEF DialogsInit, PageInv, QueryFits, OwnCalls, NoDialog
<1>2. PageInv /\ [DialogsNext]_dialogsVars => PageInv'
  <2> SUFFICES ASSUME PageInv, [DialogsNext]_dialogsVars PROVE PageInv'
    OBVIOUS
  <2> USE DEF PageInv
  <2>a. \A c \in calls : c \in Call /\ c.op \in AllOps
    BY DEF DialogsShape, Call
  <2>b. /\ \A q \in Queries : /\ view[q] \in View
                             /\ view[q].fresh \in BOOLEAN /\ view[q].excused \in BOOLEAN
                             /\ view[q].fetch \in Fetches
        /\ \A t : \A q \in Mounted(t) : q \in Queries
    BY TabsMount DEF DialogsShape, View
  <2>c. ASSUME NEW c \in Call, NEW own \in BOOLEAN, NEW here \in BOOLEAN
        PROVE  /\ [c EXCEPT !.own = own] \in Call /\ [c EXCEPT !.here = here] \in Call
               /\ [c EXCEPT !.own = own, !.here = here] \in Call
               /\ [c EXCEPT !.own = own].op = c.op /\ [c EXCEPT !.own = own].st = c.st
               /\ [c EXCEPT !.own = own].here = c.here /\ [c EXCEPT !.own = own].own = own
    BY DEF Call
  <2>d. ASSUME NEW op \in AllOps, Free # {}
        PROVE  /\ Sent(op) \in Call /\ [Sent(op) EXCEPT !.own = FALSE] \in Call
               /\ Sent(op).own
    <3>1. PICK nr : nr = CHOOSE n \in Free : \A k \in Free : n <= k
      OBVIOUS
    <3>2. nr \in 1..MaxCalls
      <4>1. Free \in SUBSET Nat /\ Free \subseteq 1..MaxCalls
        BY DialogsAssumption DEF Free
      <4> QED
        BY <4>1, <3>1, <2>d, LeastMember
    <3>3. Sent(op) = [op |-> op, own |-> TRUE, here |-> TRUE, st |-> "sent", nr |-> nr]
      BY <3>1 DEF Sent
    <3>4. Sent(op) \in Call
      BY <3>2, <3>3 DEF Call
    <3>5. Sent(op).own
      BY <3>3
    <3> QED
      BY <3>4, <3>5, <2>c
  <2>e. ASSUME NEW w \in Disowned
        PROVE  w \in Call /\ \E c \in calls : w.op = c.op /\ w.st = c.st /\ w.here = c.here
    <3>1. PICK c \in calls : w = [c EXCEPT !.own = FALSE]
      BY DEF Disowned
    <3> QED
      BY <3>1, <2>a, <2>c
  \* Steps of the dialogs, which leave the view alone and lose no call.
  <2>1. ASSUME UNCHANGED <<view, tab>>,
               dialog' \in Dialog,
               calls' \subseteq Call,
               \A c \in calls : \E d \in calls' : d.op = c.op /\ d.st = c.st,
               OwnCalls'
        PROVE  PageInv'
    <3>1. DialogsShape'
      BY <2>1 DEF DialogsShape
    <3>2. \A q : Awaited(q) => Awaited(q)'
      BY <2>1 DEF Awaited
    <3>3. \A q \in Queries : QueryFits(q)'
      BY <2>1, <3>2 DEF QueryFits
    <3> QED
      BY <2>1, <3>1, <3>3
  <2>2. ASSUME NEW op \in AllOps, Open(op) PROVE PageInv'
    <3>1. /\ UNCHANGED <<view, calls, tab>>
          /\ dialog' = [kind |-> KindOf(op), op |-> op, typed |-> {}]
      BY <2>2 DEF Open
    <3>2. dialog' \in Dialog
      BY <3>1, KindsApart DEF Dialog
    <3>3. OwnCalls'
      BY <3>1 DEF OwnCalls
    <3> QED
      BY <3>1, <3>2, <3>3, <2>1, <2>a
  <2>3. ASSUME NEW kind, NEW field \in Fields, Type(kind, field),
               kind \in AnsweredForms \ {"singleCurrency"} =>
                 \A c \in calls : c.here => KindOf(c.op) # kind
        PROVE  PageInv'
    <3>1. /\ UNCHANGED <<view, calls, tab>> /\ dialog.kind = kind
          /\ dialog' = [dialog EXCEPT !.typed = dialog.typed \cup {field}]
      BY <2>3 DEF Type
    <3>2. /\ dialog' \in Dialog
          /\ dialog'.kind = kind
      BY <3>1 DEF DialogsShape, Dialog
    <3>3. OwnCalls'
      BY <2>3, <3>1, <3>2 DEF OwnCalls
    <3> QED
      BY <3>1, <3>2, <3>3, <2>1, <2>a
  <2>s. ASSUME NEW op \in AllOps, Free # {}, UNCHANGED <<view, dialog, tab>>,
               calls' = calls \cup {Sent(op)}
        PROVE  PageInv'
    <3>1. Sent(op) \in Call /\ Sent(op).own
      BY <2>s, <2>d
    <3>2. OwnCalls'
      BY <2>s, <3>1 DEF OwnCalls
    <3> QED
      BY <2>s, <3>1, <3>2, <2>1, <2>a DEF DialogsShape
  <2>r. CASE FetchRate
    <3>1. PICK op \in AllOps : Free # {} /\ calls' = calls \cup {Sent(op)}
      BY <2>r DEF FetchRate, AllOps
    <3> QED
      BY <2>r, <3>1, <2>s DEF FetchRate
  <2>4. ASSUME NEW ops \in SUBSET AllOps, Submit(ops) PROVE PageInv'
    <3>1. /\ UNCHANGED <<view, dialog, tab>> /\ dialog.op \in AllOps /\ Free # {}
          /\ calls' = calls \cup {Sent(dialog.op)}
      BY <2>4 DEF Submit
    <3> QED
      BY <3>1, <2>s
  <2>5. ASSUME NEW lost \in SUBSET Call, UNCHANGED <<view, tab>>,
               dialog' = NoDialog, calls' = Disowned \cup lost
        PROVE  PageInv'
    <3>1. calls' \subseteq Call
      BY <2>5, <2>e
    <3>2. ASSUME NEW c \in calls
          PROVE  \E d \in calls' : d.op = c.op /\ d.st = c.st
      <4>1. [c EXCEPT !.own = FALSE] \in calls'
        BY <2>5 DEF Disowned
      <4> QED
        BY <4>1, <2>a, <2>c
    <3>3. /\ dialog' \in Dialog
          /\ OwnCalls'
      BY <2>5 DEF NoDialog, Dialog, Kinds, OwnCalls
    <3> QED
      BY <2>5, <3>1, <3>2, <3>3, <2>1
  <2>6. ASSUME NEW ops \in SUBSET AllOps, SubmitAndClose(ops) PROVE PageInv'
    <3>1. PICK lost : lost = {[Sent(dialog.op) EXCEPT !.own = FALSE]}
      OBVIOUS
    <3>2. /\ UNCHANGED <<view, tab>> /\ dialog.op \in AllOps /\ Free # {}
          /\ dialog' = NoDialog /\ calls' = Disowned \cup lost
      BY <2>6, <3>1 DEF SubmitAndClose
    <3>3. lost \in SUBSET Call
      BY <3>1, <3>2, <2>d
    <3> QED
      BY <3>2, <3>3, <2>5
  <2>7. CASE Dismiss
    <3>1. PICK lost \in SUBSET Call : lost = {}
      OBVIOUS
    <3>2. /\ UNCHANGED <<view, tab>> /\ dialog' = NoDialog
          /\ calls' = Disowned \cup lost
      BY <2>7, <3>1 DEF Dismiss
    <3> QED
      BY <3>2, <2>5
  <2>8. CASE ClickRow
    <3>1. PICK op \in AllOps : Free # {} /\ calls' = calls \cup {[Sent(op) EXCEPT !.own = FALSE]}
      BY <2>8 DEF ClickRow, AllOps
    <3>2. UNCHANGED <<view, dialog, tab>> /\ dialog.kind = "none"
      BY <2>8 DEF ClickRow
    <3>3. [Sent(op) EXCEPT !.own = FALSE] \in Call
      BY <3>1, <2>d
    <3>4. OwnCalls'
      BY <3>2 DEF OwnCalls, AnsweredForms
    <3> QED
      BY <3>1, <3>2, <3>3, <3>4, <2>1, <2>a DEF DialogsShape
  \* A field is enabled while no call of its dialog is pending.
  <2>9. /\ TypeExpense => \A c \in calls : c.here => KindOf(c.op) # "expense"
        /\ TypeTransfer => \A c \in calls : c.here => KindOf(c.op) # "transfer"
        /\ TypeConversion => \A c \in calls : c.here => KindOf(c.op) # "conversion"
        /\ TypeRecurring => \A c \in calls : c.here => KindOf(c.op) # "recurring"
        /\ TypeNewGroup => \A c \in calls : c.here => KindOf(c.op) # "newGroup"
    BY <2>a, KindsApart DEF TypeExpense, TypeTransfer, TypeConversion, TypeRecurring, TypeNewGroup,
       ExpensePending, TransferPending, ConversionPending, RecurringPending, NewGroupPending,
       Pending
  <2>10. CASE TypeExpense \/ TypeTransfer \/ TypeConversion \/ TypeRecurring \/ TypeNewGroup
              \/ TypeSingleCurrency \/ TypeEditGroup \/ TypeMembers
    <3> USE DEF Fields
    <3>1. CASE TypeExpense
      BY <3>1, <2>3, <2>9 DEF TypeExpense
    <3>2. CASE TypeTransfer
      BY <3>2, <2>3, <2>9 DEF TypeTransfer
    <3>3. CASE TypeConversion
      <4>1. PICK field \in Fields : Type("conversion", field)
        BY <3>3 DEF TypeConversion
      <4> QED
        BY <3>3, <4>1, <2>3, <2>9
    <3>4. CASE TypeRecurring
      BY <3>4, <2>3, <2>9 DEF TypeRecurring
    <3>5. CASE TypeNewGroup
      BY <3>5, <2>3, <2>9 DEF TypeNewGroup
    <3>6. CASE TypeSingleCurrency \/ TypeEditGroup \/ TypeMembers
      BY <3>6, <2>3 DEF TypeSingleCurrency, TypeEditGroup, TypeMembers, AnsweredForms
    <3> QED
      BY <2>10, <3>1, <3>2, <3>3, <3>4, <3>5, <3>6
  <2>11. CASE OpenExpense \/ OpenTransfer \/ OpenConversion \/ OpenRecurring \/ OpenSingleCurrency
              \/ OpenNewGroup \/ OpenEditGroup \/ OpenMembers \/ OpenConfirm \/ OpenImage
    <3>1. PICK op \in AllOps : Open(op)
      BY <2>11 DEF OpenExpense, OpenTransfer, OpenConversion, OpenRecurring, OpenSingleCurrency,
         OpenNewGroup, OpenEditGroup, OpenMembers, OpenConfirm, OpenImage, AllOps
    <3> QED
      BY <3>1, <2>2
  <2>12. CASE SubmitExpense \/ SubmitTransfer \/ SubmitConversion \/ SubmitRecurring
              \/ SubmitSingleCurrency \/ SubmitNewGroup \/ SubmitImage
    <3>1. PICK ops \in SUBSET AllOps : Submit(ops)
      BY <2>12 DEF SubmitExpense, SubmitTransfer, SubmitConversion, SubmitRecurring,
         SubmitSingleCurrency, SubmitNewGroup, SubmitImage, AllOps
    <3> QED
      BY <3>1, <2>4
  <2>13. CASE SubmitEditGroup \/ SubmitMembers \/ Confirm
    <3>1. PICK ops \in SUBSET AllOps : SubmitAndClose(ops)
      BY <2>13 DEF SubmitEditGroup, SubmitMembers, Confirm, AllOps
    <3> QED
      BY <3>1, <2>6
  \* Steps of the queries: dialogs and calls stay.
  <2>14. ASSUME view' \in [Queries -> View], UNCHANGED <<calls, tab>>,
                dialog' = dialog \/ dialog' = [dialog EXCEPT !.typed = {}],
                \A q \in Queries : Awaited(q)' = Awaited(q) => QueryFits(q)'
         PROVE  PageInv'
    <3>1. /\ dialog' \in Dialog
          /\ dialog' = dialog \/ dialog'.typed = {}
      BY <2>14 DEF DialogsShape, Dialog
    <3>2. DialogsShape' /\ OwnCalls'
      BY <2>14, <3>1 DEF DialogsShape, OwnCalls
    <3>3. \A q : Awaited(q)' = Awaited(q)
      BY <2>14 DEF Awaited
    <3> QED
      BY <2>14, <3>2, <3>3
  <2>15. ASSUME NEW q \in Queries, Answer(q) PROVE PageInv'
    <3>1. /\ view' = [view EXCEPT ![q] = [view[q] EXCEPT !.fetch = "current"]]
          /\ view[q].fetch = "asked" /\ UNCHANGED <<dialog, calls, tab>>
      BY <2>15 DEF Answer
    <3>2. view' \in [Queries -> View]
      BY <3>1, <2>b DEF DialogsShape, View, Fetches
    <3>3. view'[q].fetch = "current" /\ \A p \in Queries \ {q} : view'[p] = view[p]
      BY <3>1, <2>b DEF DialogsShape, View
    <3>4. ASSUME NEW p \in Queries, Awaited(p)' = Awaited(p) PROVE QueryFits(p)'
      BY <3>1, <3>3, <3>4 DEF QueryFits
    <3> QED
      BY <3>1, <3>2, <3>4, <2>14
  <2>16. ASSUME NEW q \in Queries, Arrive(q) PROVE PageInv'
    <3>1. PICK now, excused \in BOOLEAN :
            /\ now = (view[q].fetch = "current") /\ excused = (~ now /\ view[q].excused)
            /\ now \in BOOLEAN
      OBVIOUS
    <3>2. /\ view[q].fetch \in {"current", "outdated"} /\ UNCHANGED <<calls, tab>>
          /\ view' = [view EXCEPT ![q] = [fresh |-> now, excused |-> excused, fetch |-> "none"]]
      BY <3>1, <2>16, Zenon DEF Arrive
    <3>3. view' \in [Queries -> View]
      BY <3>1, <3>2 DEF DialogsShape, View, Fetches
    <3>4. /\ view'[q] = [fresh |-> now, excused |-> excused, fetch |-> "none"]
          /\ \A p \in Queries \ {q} : view'[p] = view[p]
      BY <3>2 DEF DialogsShape
    <3>p. /\ now <=> view[q].fetch = "current"
          /\ view[q].excused => now \/ excused
      BY <3>1, <2>b, Zenon
    <3>q. /\ q \in Mounted(tab)
          /\ now \/ ~ view[q].fresh
          /\ now \/ excused \/ Awaited(q)
      BY <3>2, <3>p DEF QueryFits
    <3>5. ASSUME NEW p \in Queries, Awaited(p)' = Awaited(p) PROVE QueryFits(p)'
      <4>1. CASE p = q
        <5>1. view'[q].fetch = "none" /\ (now => view'[q].fresh) /\ (excused => view'[q].excused)
          BY <3>4
        <5> QED
          BY <4>1, <5>1, <3>2, <3>5, <3>q DEF QueryFits
      <4>2. CASE p # q
        BY <4>2, <3>2, <3>4, <3>5 DEF QueryFits
      <4> QED
        BY <4>1, <4>2
    <3>6. dialog' = dialog \/ dialog' = [dialog EXCEPT !.typed = {}]
      <4>1. PICK keep : dialog' = [dialog EXCEPT !.typed = IF keep THEN dialog.typed ELSE {}]
        <5>1. PICK new : dialog' = [dialog EXCEPT !.typed =
                                      IF new \cap FormDeps(dialog.kind) = {} THEN dialog.typed
                                      ELSE {}]
          BY <2>16, Zenon DEF Arrive
        <5>2. PICK keep : keep = (new \cap FormDeps(dialog.kind) = {})
          OBVIOUS
        <5> QED
          BY <5>1, <5>2, Zenon
      <4>2. CASE keep
        BY <4>1, <4>2 DEF DialogsShape, Dialog
      <4>3. CASE ~ keep
        BY <4>1, <4>3
      <4> QED
        BY <4>2, <4>3
    <3> QED
      BY <3>2, <3>3, <3>5, <3>6, <2>14
  <2>17. ASSUME NEW q \in Queries, FetchFails(q) PROVE PageInv'
    <3>1. /\ UNCHANGED <<dialog, calls, tab>> /\ view[q].fetch # "none"
          /\ view' = [view EXCEPT ![q] =
               [fresh |-> view[q].fresh, excused |-> ~ view[q].fresh, fetch |-> "none"]]
      BY <2>17 DEF FetchFails
    <3>2. view' \in [Queries -> View]
      BY <3>1, <2>b DEF DialogsShape, View, Fetches
    <3>3. /\ view'[q].fetch = "none" /\ (view'[q].fresh \/ view'[q].excused)
          /\ \A p \in Queries \ {q} : view'[p] = view[p]
      BY <3>1, <2>b DEF DialogsShape
    <3>4. ASSUME NEW p \in Queries, Awaited(p)' = Awaited(p) PROVE QueryFits(p)'
      BY <3>1, <3>3, <3>4 DEF QueryFits
    <3> QED
      BY <3>1, <3>2, <3>4, <2>14
  \* What becomes of a query that is asked for, or aborted.
  <2>f. ASSUME NEW v \in [Queries -> View], NEW qs, NEW q \in Queries
        PROVE  /\ Asked(v, qs)[q] \in View
               /\ Asked(v, qs)[q].fresh = v[q].fresh /\ Asked(v, qs)[q].excused = v[q].excused
               /\ IF q \in qs /\ v[q].fetch = "none" THEN Asked(v, qs)[q].fetch = "asked"
                  ELSE Asked(v, qs)[q] = v[q]
               /\ Aborted(v, qs)[q] \in View
               /\ Aborted(v, qs)[q].fresh = v[q].fresh
               /\ Aborted(v, qs)[q].excused = v[q].excused
               /\ IF q \in qs THEN Aborted(v, qs)[q].fetch = "none" ELSE Aborted(v, qs)[q] = v[q]
               /\ Invalidated(v, qs)[q] \in View
               /\ Invalidated(v, qs)[q].fresh = v[q].fresh
               /\ Invalidated(v, qs)[q].excused = v[q].excused
               /\ IF q \in qs \cap Mounted(tab) THEN Invalidated(v, qs)[q].fetch = "asked"
                  ELSE Invalidated(v, qs)[q] = v[q]
    BY DEF Asked, Aborted, Invalidated, View, Fetches
  <2>g. \A v \in [Queries -> View] : \A qs :
          /\ Asked(v, qs) \in [Queries -> View] /\ Aborted(v, qs) \in [Queries -> View]
          /\ Invalidated(v, qs) \in [Queries -> View]
    BY DEF Asked, Aborted, Invalidated, View, Fetches
  <2>h. ASSUME NEW qs, NEW ex, NEW q \in Queries
        PROVE  /\ Changed(view, qs, ex)[q] \in View
               /\ q \notin qs => Changed(view, qs, ex)[q] = view[q]
               /\ q \in qs =>
                    /\ ~ Changed(view, qs, ex)[q].fresh
                    /\ q \in ex => Changed(view, qs, ex)[q].excused
                    /\ view[q].excused => Changed(view, qs, ex)[q].excused
                    /\ view[q].fetch = "none" => Changed(view, qs, ex)[q].fetch = "none"
    BY <2>b DEF Changed, View, Fetches, DialogsShape
  <2>i. \A qs, ex : Changed(view, qs, ex) \in [Queries -> View]
    <3>1. \A qs, ex : Changed(view, qs, ex) = [q \in Queries |-> Changed(view, qs, ex)[q]]
      BY DEF Changed
    <3> QED
      BY <3>1, <2>h
  <2>18. CASE Refocus
    <3>1. view' = Asked(view, Mounted(tab)) /\ UNCHANGED <<dialog, calls, tab>>
      BY <2>18 DEF Refocus
    <3>2. ASSUME NEW p \in Queries, Awaited(p)' = Awaited(p) PROVE QueryFits(p)'
      BY <3>1, <3>2, <2>f DEF QueryFits, DialogsShape
    <3> QED
      BY <3>1, <3>2, <2>g, <2>14 DEF DialogsShape
  <2>19. CASE OthersChange
    <3>1. view' = Changed(view, Queries, Queries) /\ UNCHANGED <<dialog, calls, tab>>
      BY <2>19 DEF OthersChange
    <3>2. ASSUME NEW p \in Queries, Awaited(p)' = Awaited(p) PROVE QueryFits(p)'
      BY <3>1, <3>2, <2>h DEF QueryFits
    <3> QED
      BY <3>1, <3>2, <2>i, <2>14
  \* The answers to the calls.
  <2>20. ASSUME NEW c \in calls, Carry(c) PROVE PageInv'
    <3>1. PICK d : d = [c EXCEPT !.st = "done"]
      OBVIOUS
    <3>2. /\ c.st = "sent" /\ calls' = (calls \ {c}) \cup {d}
          /\ view' = Changed(view, Changes(c.op), Forgotten(c.op))
          /\ UNCHANGED <<dialog, tab>>
      BY <2>20, <3>1 DEF Carry
    <3>3. d \in Call /\ d.st = "done" /\ d.op = c.op /\ (d.here <=> c.here) /\ (d.own <=> c.own)
      BY <3>1, <2>a DEF Call
    <3>4. DialogsShape' /\ OwnCalls'
      BY <3>2, <3>3, <2>i DEF DialogsShape, OwnCalls
    <3>5. ASSUME NEW q \in Queries PROVE QueryFits(q)'
      <4>1. Awaited(q) => Awaited(q)'
        BY <3>2 DEF Awaited
      <4>2. q \in Changes(c.op) \ Forgotten(c.op) => Awaited(q)'
        BY <3>2, <3>3 DEF Awaited
      <4> QED
        BY <4>1, <4>2, <3>2, <2>h DEF QueryFits
    <3> QED
      BY <3>4, <3>5
  <2>21. ASSUME NEW c \in calls, Succeed(c) PROVE PageInv'
    <3>1. /\ c.st = "done" /\ tab' = tab
          /\ view' = Invalidated(view, Refreshes(c.op))
          /\ dialog' = IF Closes(c) THEN NoDialog
                       ELSE IF FillsRate(c) THEN [dialog EXCEPT !.typed = dialog.typed \ {"rate"}]
                       ELSE dialog
          /\ calls' = {[d EXCEPT !.own = @ /\ ~ Closes(c)] : d \in calls \ {c}}
      BY <2>21 DEF Succeed
    <3>d. /\ dialog' \in Dialog
          /\ ~ Closes(c) => dialog'.kind = dialog.kind /\ dialog'.typed \subseteq dialog.typed
      <4>1. CASE Closes(c)
        BY <3>1, <4>1 DEF NoDialog, Dialog, Kinds
      <4>2. CASE ~ Closes(c)
        BY <3>1, <4>2 DEF DialogsShape, Dialog
      <4> QED
        BY <4>1, <4>2
    <3>2. ASSUME NEW d \in calls, NEW w, w = [d EXCEPT !.own = @ /\ ~ Closes(c)]
          PROVE  /\ w \in Call /\ w.op = d.op /\ w.st = d.st
                 /\ w.here => d.here
                 /\ d.own /\ ~ Closes(c) => w.own
      <4>1. PICK own \in BOOLEAN : own = (d.own /\ ~ Closes(c))
        OBVIOUS
      <4>2. w = [d EXCEPT !.own = own]
        BY <3>2, <4>1, Zenon
      <4>3. d.own /\ ~ Closes(c) => own
        BY <4>1
      <4>4. w \in Call /\ w.op = d.op /\ w.st = d.st /\ w.here = d.here /\ w.own = own
        BY <4>2, <2>a, <2>c
      <4> QED
        BY <4>3, <4>4
    <3>3. calls' \subseteq Call
      BY <3>1, <3>2
    <3>5. OwnCalls'
      <4>1. CASE Closes(c)
        BY <3>1, <4>1 DEF OwnCalls, NoDialog
      <4>2. CASE ~ Closes(c)
        <5>1. ASSUME NEW w \in calls'
              PROVE  \E d \in calls : /\ w.op = d.op /\ (w.here => d.here) /\ (d.own => w.own)
          <6>1. PICK d \in calls : w = [d EXCEPT !.own = @ /\ ~ Closes(c)]
            BY <3>1
          <6>2. w.op = d.op /\ (w.here => d.here) /\ (d.own => w.own)
            BY <6>1, <3>2, <4>2, ZenonT(30)
          <6> QED
            BY <6>2
        <5> QED
          BY <3>d, <4>2, <5>1 DEF OwnCalls
      <4> QED
        BY <4>1, <4>2
    <3>6. ASSUME NEW q \in Queries PROVE QueryFits(q)'
      <4>1. Awaited(q) => Awaited(q)' \/ q \in Refreshes(c.op)
        <5>1. SUFFICES ASSUME Awaited(q), q \notin Refreshes(c.op) PROVE Awaited(q)'
          OBVIOUS
        <5>2. PICK d \in calls : d.st = "done" /\ q \in Changes(d.op) \ Forgotten(d.op)
          BY <5>1 DEF Awaited
        <5>3. d # c
          BY <5>1, <5>2, <2>a, RefreshedIsChanged
        <5>4. [d EXCEPT !.own = @ /\ ~ Closes(c)] \in calls'
          BY <3>1, <5>3
        <5> QED
          BY <5>2, <5>4, <3>2 DEF Awaited
      <4> QED
        BY <4>1, <3>1, <2>f DEF QueryFits, DialogsShape
    <3>7. DialogsShape'
      BY <3>1, <3>3, <3>d, <2>g DEF DialogsShape
    <3> QED
      BY <3>5, <3>6, <3>7
  <2>22. ASSUME NEW c \in calls, Fail(c) PROVE PageInv'
    <3>1. /\ calls' = calls \ {c} /\ UNCHANGED <<dialog, tab>>
          /\ view' = IF c.st = "done" THEN Changed(view, Changes(c.op), Changes(c.op)) ELSE view
      BY <2>22 DEF Fail
    <3>2. DialogsShape' /\ OwnCalls'
      BY <3>1, <2>i DEF DialogsShape, OwnCalls
    <3>3. ASSUME NEW q \in Queries PROVE QueryFits(q)'
      <4>1. Awaited(q) => Awaited(q)' \/ (c.st = "done" /\ q \in Changes(c.op))
        BY <3>1 DEF Awaited
      <4>2. CASE c.st = "done" /\ q \in Changes(c.op)
        BY <4>2, <3>1, <2>h DEF QueryFits
      <4>3. CASE ~ (c.st = "done" /\ q \in Changes(c.op))
        <5>1. view'[q] = view[q]
          BY <4>3, <3>1, <2>h
        <5> QED
          BY <4>1, <4>3, <5>1, <3>1 DEF QueryFits
      <4> QED
        BY <4>2, <4>3
    <3> QED
      BY <3>2, <3>3
  \* Steps between the pages: a query that is shown then is asked for, or was shown before.
  <2>23. ASSUME view' \in [Queries -> View], tab' \in {"activity", "stats", "away"},
                dialog' = dialog \/ dialog' = NoDialog,
                \A w \in calls' : w \in Call /\ \E c \in calls :
                  w.op = c.op /\ (w.here => c.here) /\ (c.own /\ w.here => w.own),
                \A c \in calls : \E w \in calls' : w.op = c.op /\ w.st = c.st,
                \A q \in Queries :
                  /\ view'[q].fetch = "outdated" => ~ view'[q].fresh
                  /\ q \notin Mounted(tab') => view'[q].fetch = "none"
                  /\ q \in Mounted(tab') =>
                       \/ view'[q] = view[q] /\ q \in Mounted(tab)
                       \/ view'[q].fetch = "asked"
         PROVE  PageInv'
    <3>1. DialogsShape'
      <4>1. dialog' \in Dialog
        <5>1. dialog' = dialog \/ dialog' = NoDialog
          BY <2>23
        <5>2. /\ dialog \in Dialog
              /\ NoDialog \in Dialog
          BY DEF DialogsShape, NoDialog, Dialog, Kinds
        <5> QED
          BY <5>1, <5>2
      <4>2. calls' \subseteq Call
        BY <2>23
      <4> QED
        BY <2>23, <4>1, <4>2 DEF DialogsShape
    <3>2. OwnCalls'
      BY <2>23 DEF OwnCalls, NoDialog
    <3>3. ASSUME NEW q \in Queries PROVE QueryFits(q)'
      <4>1. Awaited(q) => Awaited(q)'
        BY <2>23 DEF Awaited
      <4>2. Mounted(tab)' = Mounted(tab')
        BY DEF Mounted
      <4> QED
        BY <4>1, <4>2, <2>23 DEF QueryFits
    <3> QED
      BY <3>1, <3>2, <3>3
  <2>24. CASE SwitchTab
    <3>1. PICK to : to = IF tab = "activity" THEN "stats" ELSE "activity"
      OBVIOUS
    <3>2. PICK v : v = Aborted(view, Mounted(tab) \ Mounted(to))
      OBVIOUS
    <3>3. /\ tab # "away" /\ tab' = to /\ UNCHANGED dialog
          /\ view' = Asked(v, Mounted(to) \ Mounted(tab))
          /\ calls' = {[c EXCEPT !.here = @ /\ c.op \notin TabOps] : c \in calls}
      BY <3>1, <3>2, <2>24 DEF SwitchTab
    <3>4. v \in [Queries -> View]
      BY <3>2, <2>g DEF DialogsShape
    <3>5. ASSUME NEW c \in calls, NEW w, w = [c EXCEPT !.here = @ /\ c.op \notin TabOps]
          PROVE  w \in Call /\ w.op = c.op /\ w.st = c.st /\ (w.here => c.here) /\ (c.own => w.own)
      <4>1. PICK here \in BOOLEAN : here = (c.here /\ c.op \notin TabOps)
        OBVIOUS
      <4>2. w = [c EXCEPT !.here = here]
        BY <3>5, <4>1, Zenon
      <4>3. here => c.here
        BY <4>1
      <4>4. w \in Call /\ w.op = c.op /\ w.st = c.st /\ w.here = here /\ w.own = c.own
        BY <4>2, <2>a, <2>c DEF Call
      <4> QED
        BY <4>3, <4>4
    <3>6. ASSUME NEW w \in calls'
          PROVE  w \in Call /\ \E c \in calls :
                   w.op = c.op /\ (w.here => c.here) /\ (c.own /\ w.here => w.own)
      <4>1. PICK c \in calls : w = [c EXCEPT !.here = @ /\ c.op \notin TabOps]
        BY <3>3
      <4> QED
        BY <4>1, <3>5
    <3>7. ASSUME NEW c \in calls
          PROVE  \E w \in calls' : w.op = c.op /\ w.st = c.st
      <4>1. PICK w \in calls' : w = [c EXCEPT !.here = @ /\ c.op \notin TabOps]
        BY <3>3
      <4> QED
        BY <4>1, <3>5
    <3>8. ASSUME NEW q \in Queries
          PROVE  /\ view'[q].fetch = "outdated" => ~ view'[q].fresh
                 /\ q \notin Mounted(tab') => view'[q].fetch = "none"
                 /\ q \in Mounted(tab') =>
                      \/ view'[q] = view[q] /\ q \in Mounted(tab)
                      \/ view'[q].fetch = "asked"
      <4>1. /\ q \in Mounted(tab) \ Mounted(to) => v[q].fetch = "none"
            /\ q \notin Mounted(tab) \ Mounted(to) => v[q] = view[q]
            /\ v[q].fetch = "outdated" => ~ v[q].fresh
        BY <3>2, <2>f DEF DialogsShape, QueryFits
      <4> QED
        BY <4>1, <3>3, <3>4, <2>f DEF QueryFits
    <3>9. view' \in [Queries -> View] /\ tab' \in {"activity", "stats", "away"}
      BY <3>1, <3>3, <3>4, <2>g
    <3> QED
      BY <3>3, <3>6, <3>7, <3>8, <3>9, <2>23
  <2>25. CASE Leave
    <3>1. /\ tab # "away" /\ tab' = "away"
          /\ view' = Aborted(view, Mounted(tab) \ Mounted("away"))
          /\ dialog' = IF dialog.kind = "newGroup" THEN dialog ELSE NoDialog
          /\ calls' = {IF c.op \in NewGroupOps THEN c ELSE [c EXCEPT !.own = FALSE, !.here = FALSE] :
                         c \in calls}
      BY <2>25 DEF Leave
    <3>2. ASSUME NEW c \in calls, NEW w,
                 w = IF c.op \in NewGroupOps THEN c ELSE [c EXCEPT !.own = FALSE, !.here = FALSE]
          PROVE  /\ w \in Call /\ w.op = c.op /\ w.st = c.st
                 /\ (w.here => c.here) /\ (c.own /\ w.here => w.own)
      <4>1. CASE c.op \in NewGroupOps
        BY <3>2, <4>1, <2>a
      <4>2. CASE c.op \notin NewGroupOps
        <5>1. w = [c EXCEPT !.own = FALSE, !.here = FALSE] /\ c \in Call
          BY <3>2, <4>2, <2>a
        <5>2. w \in Call /\ w.op = c.op /\ w.st = c.st /\ ~ w.here
          BY <5>1 DEF Call
        <5> QED
          BY <5>2
      <4> QED
        BY <4>1, <4>2
    <3>3. ASSUME NEW w \in calls'
          PROVE  w \in Call /\ \E c \in calls :
                   w.op = c.op /\ (w.here => c.here) /\ (c.own /\ w.here => w.own)
      <4>1. PICK c \in calls :
              w = IF c.op \in NewGroupOps THEN c ELSE [c EXCEPT !.own = FALSE, !.here = FALSE]
        BY <3>1
      <4>2. /\ w \in Call /\ w.op = c.op
            /\ (w.here => c.here) /\ (c.own /\ w.here => w.own)
        BY <4>1, <3>2, Zenon
      <4> QED
        BY <4>2
    <3>4. ASSUME NEW c \in calls
          PROVE  \E w \in calls' : w.op = c.op /\ w.st = c.st
      <4>1. PICK w \in calls' :
              w = IF c.op \in NewGroupOps THEN c ELSE [c EXCEPT !.own = FALSE, !.here = FALSE]
        BY <3>1
      <4> QED
        BY <4>1, <3>2
    <3>5. ASSUME NEW q \in Queries
          PROVE  /\ view'[q].fetch = "outdated" => ~ view'[q].fresh
                 /\ q \notin Mounted(tab') => view'[q].fetch = "none"
                 /\ q \in Mounted(tab') =>
                      \/ view'[q] = view[q] /\ q \in Mounted(tab)
                      \/ view'[q].fetch = "asked"
      <4>0. PICK left : left = Mounted(tab) \ Mounted("away")
        OBVIOUS
      <4>1. /\ q \in left => view'[q].fetch = "none"
            /\ q \notin left => view'[q] = view[q]
        <5>1. view' = Aborted(view, left) /\ view \in [Queries -> View]
          BY <3>1, <4>0 DEF DialogsShape
        <5> QED
          BY <5>1, <2>f
      <4>2. q \in Mounted("away") => q \in Mounted(tab)
        BY TabsMount
      <4>3. /\ view[q].fetch = "outdated" => ~ view[q].fresh
            /\ q \notin Mounted(tab) => view[q].fetch = "none"
        BY DEF QueryFits
      <4> QED
        BY <4>0, <4>1, <4>2, <4>3, <3>1
    <3>6. view' \in [Queries -> View]
      BY <3>1, <2>g DEF DialogsShape
    <3> QED
      BY <3>1, <3>3, <3>4, <3>5, <3>6, <2>23
  <2>26. CASE Return
    <3>1. /\ tab = "away" /\ tab' = "activity" /\ UNCHANGED <<dialog, calls>>
          /\ view' = Asked(view, Mounted("activity") \ Mounted("away"))
      BY <2>26 DEF Return
    <3>2. ASSUME NEW q \in Queries
          PROVE  /\ view'[q].fetch = "outdated" => ~ view'[q].fresh
                 /\ q \notin Mounted(tab') => view'[q].fetch = "none"
                 /\ q \in Mounted(tab') =>
                      \/ view'[q] = view[q] /\ q \in Mounted(tab)
                      \/ view'[q].fetch = "asked"
      BY <3>1, <2>f, TabsMount DEF DialogsShape, QueryFits
    <3>3. view' \in [Queries -> View]
      BY <3>1, <2>g DEF DialogsShape
    <3> QED
      BY <3>1, <3>2, <3>3, <2>23, <2>a
  <2>27. CASE UNCHANGED dialogsVars
    BY <2>27, <2>1, <2>a DEF dialogsVars, OwnCalls, DialogsShape
  <2> QED
    BY <2>7, <2>8, <2>r, <2>10, <2>11, <2>12, <2>13, <2>15, <2>16, <2>17, <2>18, <2>19, <2>20, <2>21,
       <2>22, <2>24, <2>25, <2>26, <2>27
       DEF DialogsNext
<1> QED
  BY <1>1, <1>2, PTL DEF DialogsSpec

\* Once no call and no request is left, the screen shows what the server has, whatever the
\* order of saves, refetches and answers, but for changes this page was not told of and
\* the gaps of the handlers (Forgotten).
THEOREM SavedStaysShown == DialogsSpec => []SavedIsShown
<1>1. PageInv => SavedIsShown
  <2> SUFFICES ASSUME PageInv, Quiet, NEW q \in Mounted(tab)
               PROVE  view[q].fresh \/ view[q].excused
    BY DEF SavedIsShown
  <2> QED
    BY TabsMount DEF PageInv, QueryFits, Quiet, Awaited
<1> QED
  BY <1>1, PageInvHolds, PTL

\* What was typed into a dialog is not taken away by the late answer to a call of a dialog
\* that was closed before; but for what is typed into the single-currency dialog, and for
\* the rate of a conversion, which a late answer to its lookup takes and nothing else.
THEOREM DraftsSurvive == DialogsSpec => DraftsSurviveAnswers
<1> DEFINE lost == dialog.typed \ dialog'.typed
           Survives == \A c \in calls : Succeed(c) =>
                         \/ lost = {} \/ c.own
                         \/ dialog.kind = "singleCurrency"
                         \/ c.op \in RateOps /\ lost = {"rate"}
<1>1. PageInv => [Survives]_dialogsVars
  <2> SUFFICES ASSUME PageInv, NEW c \in calls, Succeed(c)
               PROVE  \/ lost = {} \/ c.own
                      \/ dialog.kind = "singleCurrency"
                      \/ c.op \in RateOps /\ lost = {"rate"}
    OBVIOUS
  <2>1. dialog \in Dialog
    BY DEF PageInv, DialogsShape
  <2>2. CASE Closes(c)
    <3>1. c.here /\ KindOf(c.op) = dialog.kind /\ dialog.kind \in AnsweredForms
      BY <2>2 DEF Closes
    <3>2. CASE dialog.typed = {}
      BY <3>2
    <3>3. CASE dialog.typed # {}
      BY <3>1, <3>3 DEF PageInv, OwnCalls
    <3> QED
      BY <3>2, <3>3
  <2>3. CASE ~ Closes(c) /\ FillsRate(c)
    <3>1. dialog' = [dialog EXCEPT !.typed = dialog.typed \ {"rate"}]
      BY <2>3 DEF Succeed
    <3>2. dialog'.typed = dialog.typed \ {"rate"}
      BY <2>1, <3>1 DEF Dialog
    <3> QED
      BY <2>3, <3>2 DEF FillsRate
  <2>4. CASE ~ Closes(c) /\ ~ FillsRate(c)
    BY <2>4 DEF Succeed
  <2> QED
    BY <2>2, <2>3, <2>4
<1> QED
  BY <1>1, PageInvHolds, PTL DEF DraftsSurviveAnswers

\* The calls in flight are told apart by their numbers.
CallsApart == \A c, d \in calls : c.nr = d.nr => c = d

DialogTypes == DialogsTypeOK /\ CallsApart

\* Calls that are told apart by their numbers are as few as the numbers.
LEMMA CallsAreFew ==
  ASSUME NEW cs \in SUBSET Call, \A c, d \in cs : c.nr = d.nr => c = d
  PROVE  Cardinality(cs) <= MaxCalls
<1> DEFINE f == [c \in cs |-> c.nr]
<1>1. MaxCalls \in Nat /\ 1..MaxCalls = 1..MaxCalls
  BY DialogsAssumption
<1>2. \A c \in cs : c.nr \in 1..MaxCalls
  BY DEF Call
<1>3. f \in Injection(cs, 1..MaxCalls)
  BY <1>2 DEF Injection, IsInjective
<1>4. IsFiniteSet(1..MaxCalls) /\ Cardinality(1..MaxCalls) = MaxCalls
  BY <1>1, FS_Interval
<1> HIDE DEF f
<1> QED
  BY <1>3, <1>4, FS_Injection

\* The page, its dialog and its calls keep their types: however calls are sent, answered
\* and left behind, no more than MaxCalls are in flight.
THEOREM DialogsTypesHold == DialogsSpec => []DialogsTypeOK
<1>1. DialogsInit /\ PageInv => DialogTypes
  <2> SUFFICES ASSUME DialogsInit, PageInv PROVE DialogTypes
    OBVIOUS
  <2>1. CallsApart
    BY DEF DialogsInit, CallsApart
  <2> QED
    BY <2>1, CallsAreFew DEF DialogsInit, DialogTypes, DialogsTypeOK, PageInv, DialogsShape, CallsApart
<1>2. PageInv /\ DialogTypes /\ [DialogsNext]_dialogsVars /\ PageInv' => DialogTypes'
  <2> SUFFICES ASSUME PageInv, PageInv', DialogTypes, [DialogsNext]_dialogsVars
               PROVE  DialogTypes'
    OBVIOUS
  <2> SUFFICES CallsApart' /\ offered' = offered
    <3>1. calls' \in SUBSET Call
      BY DEF PageInv, DialogsShape
    <3>2. CallsApart' => Cardinality(calls') <= MaxCalls
      BY <3>1, CallsAreFew DEF CallsApart
    <3> QED
      BY <3>2 DEF DialogTypes, DialogsTypeOK, PageInv, DialogsShape
  <2> USE DEF DialogTypes
  <2>0. \A c \in calls : c \in Call
    BY DEF PageInv, DialogsShape
  <2>a. ASSUME NEW c \in Call, NEW own \in BOOLEAN, NEW here \in BOOLEAN
        PROVE  /\ [c EXCEPT !.own = own].nr = c.nr /\ [c EXCEPT !.here = here].nr = c.nr
               /\ [c EXCEPT !.own = own, !.here = here].nr = c.nr /\ [c EXCEPT !.st = "done"].nr = c.nr
               /\ c.own \in BOOLEAN /\ c.here \in BOOLEAN
    BY DEF Call
  <2>b. ASSUME NEW op, Free # {}
        PROVE  \A c \in calls : c.nr # Sent(op).nr /\ c.nr # [Sent(op) EXCEPT !.own = FALSE].nr
    <3>1. Free \in SUBSET Nat
      BY DialogsAssumption DEF Free
    <3>2. (CHOOSE n \in Free : \A k \in Free : n <= k) \in Free
      BY <2>b, <3>1, LeastMember
    <3> QED
      BY <3>2 DEF Sent, Free
  \* Calls that are changed keep their numbers, and one that is sent has a new number.
  <2>c. ASSUME NEW f, NEW S \in SUBSET calls, NEW N,
               calls' = {f[d] : d \in S} \cup N,
               \A d \in S : f[d].nr = d.nr,
               N = {} \/ \E m : N = {m} /\ \A d \in calls : d.nr # m.nr
        PROVE  CallsApart'
    <3>1. \A d, e \in S : f[d].nr = f[e].nr => d = e
      BY <2>c DEF CallsApart
    <3>2. \A c \in calls' : c \in N \/ \E d \in S : c = f[d]
      BY <2>c
    <3>3. \A c, d \in N : c = d
      BY <2>c
    <3>4. \A m \in N : \A d \in S : m.nr # f[d].nr
      BY <2>c
    <3>5. ASSUME NEW c \in calls', NEW d \in calls', c.nr = d.nr PROVE c = d
      BY <3>1, <3>2, <3>3, <3>4, <3>5
    <3> QED
      BY <3>5 DEF CallsApart
  <2>1. CASE UNCHANGED <<calls, offered>>
    BY <2>1 DEF CallsApart
  <2>2. ASSUME NEW ops, Submit(ops) PROVE CallsApart' /\ offered' = offered
    BY <2>2, <2>b DEF Submit, CallsApart
  <2>3. ASSUME NEW ops, SubmitAndClose(ops) PROVE CallsApart' /\ offered' = offered
    <3> DEFINE f == [d \in calls |-> [d EXCEPT !.own = FALSE]]
               new == [Sent(dialog.op) EXCEPT !.own = FALSE]
    <3>1. calls' = {f[d] : d \in calls} \cup {new} /\ offered' = offered
      BY <2>3 DEF SubmitAndClose, Disowned
    <3>2. \A d \in calls : f[d].nr = d.nr
      BY <2>0, <2>a
    <3>3. \A d \in calls : d.nr # new.nr
      BY <2>3, <2>b DEF SubmitAndClose
    <3> HIDE DEF f, new
    <3> QED
      BY <2>c, <3>1, <3>2, <3>3
  <2>4. CASE Dismiss
    <3> DEFINE f == [d \in calls |-> [d EXCEPT !.own = FALSE]]
    <3>1. calls' = {f[d] : d \in calls} \cup {} /\ offered' = offered
      BY <2>4 DEF Dismiss, Disowned
    <3>2. \A d \in calls : f[d].nr = d.nr
      BY <2>0, <2>a
    <3> HIDE DEF f
    <3> QED
      BY <2>c, <3>1, <3>2
  <2>5. CASE ClickRow \/ FetchRate
    BY <2>5, <2>b DEF ClickRow, FetchRate, CallsApart
  <2>6. CASE SwitchTab
    <3> DEFINE f == [d \in calls |-> [d EXCEPT !.here = @ /\ d.op \notin TabOps]]
    <3>1. calls' = {f[d] : d \in calls} \cup {} /\ offered' = offered
      BY <2>6 DEF SwitchTab
    <3>2. \A d \in calls : f[d].nr = d.nr
      BY <2>0, <2>a
    <3> HIDE DEF f
    <3> QED
      BY <2>c, <3>1, <3>2
  <2>7. CASE Leave
    <3> DEFINE f == [d \in calls |-> IF d.op \in NewGroupOps THEN d ELSE [d EXCEPT !.own = FALSE, !.here = FALSE]]
    <3>1. calls' = {f[d] : d \in calls} \cup {} /\ offered' = offered
      BY <2>7 DEF Leave
    <3>2. \A d \in calls : f[d].nr = d.nr
      BY <2>0, <2>a
    <3> HIDE DEF f
    <3> QED
      BY <2>c, <3>1, <3>2
  <2>8. ASSUME NEW c \in calls, Carry(c) PROVE CallsApart' /\ offered' = offered
    <3>1. calls' = (calls \ {c}) \cup {[c EXCEPT !.st = "done"]} /\ offered' = offered
      BY <2>8 DEF Carry
    <3>2. [c EXCEPT !.st = "done"].nr = c.nr
      BY <2>0, <2>a
    <3> QED
      BY <3>1, <3>2 DEF CallsApart
  <2>9. ASSUME NEW c \in calls, Succeed(c) PROVE CallsApart' /\ offered' = offered
    <3> DEFINE f == [d \in calls |-> [d EXCEPT !.own = @ /\ ~ Closes(c)]]
    <3>1. calls' = {f[d] : d \in calls \ {c}} \cup {} /\ offered' = offered
      BY <2>9 DEF Succeed
    <3>2. \A d \in calls : f[d].nr = d.nr
      BY <2>0, <2>a
    <3>3. calls \ {c} \in SUBSET calls /\ \A d \in calls \ {c} : f[d].nr = d.nr
      BY <3>2
    <3> HIDE DEF f
    <3> QED
      BY <2>c, <3>1, <3>3
  <2>10. ASSUME NEW c \in calls, Fail(c) PROVE CallsApart' /\ offered' = offered
    BY <2>10 DEF Fail, CallsApart
  <2>11. CASE \/ Return \/ Refocus \/ OthersChange \/ UNCHANGED dialogsVars
              \/ \E q \in Queries : Answer(q) \/ Arrive(q) \/ FetchFails(q)
    BY <2>1, <2>11 DEF Return, Refocus, OthersChange, Answer, Arrive, FetchFails, dialogsVars
  <2>12. CASE \/ \E op : Open(op)
              \/ \E kind, field : Type(kind, field)
    BY <2>1, <2>12 DEF Open, Type
  <2> QED
    BY <2>2, <2>3, <2>4, <2>5, <2>6, <2>7, <2>8, <2>9, <2>10, <2>11, <2>12
       DEF DialogsNext, OpenExpense, TypeExpense, SubmitExpense, OpenTransfer, TypeTransfer,
           SubmitTransfer, OpenConversion, TypeConversion, SubmitConversion, OpenRecurring,
           TypeRecurring, SubmitRecurring, OpenSingleCurrency, TypeSingleCurrency,
           SubmitSingleCurrency, OpenNewGroup, TypeNewGroup, SubmitNewGroup, OpenEditGroup,
           TypeEditGroup, SubmitEditGroup, OpenMembers, TypeMembers, SubmitMembers,
           OpenConfirm, Confirm, OpenImage, SubmitImage
<1> QED
  BY <1>1, <1>2, PageInvHolds, PTL DEF DialogsSpec, DialogTypes

-----------------------------------------------------------------------------
\* The parts together

\* Seen by one of its parts, a behaviour of the client is one of that part.
LEMMA PartsAreThemselves ==
  Spec => /\ DialogsSpec /\ ActivitySpec /\ RoutesSpec /\ WizardSpec
          /\ AmountSpec /\ PeopleSpec /\ AccountsSpec
<1> DEFINE AnyStep == [Next]_<<part, dialogsVars, activityVars, routesVars, wizardVars,
                               amountVars, peopleVars, accountsVars>>
<1> USE DEF DialogsStep, ActivityStep, RoutesStep, WizardStep, AmountStep, PeopleStep,
            AccountsStep
<1>1. Init => /\ DialogsInit /\ ActivityInit /\ RoutesInit /\ WizardInit
              /\ AmountInit /\ PeopleInit /\ AccountsInit
  BY DEF Init, DialogsIdle, ActivityIdle, RoutesIdle, WizardIdle, AmountIdle, PeopleIdle,
         AccountsIdle
<1>2. AnyStep => [DialogsNext]_dialogsVars
  BY DEF Next
<1>3. AnyStep => [ActivityNext]_activityVars
  BY DEF Next
<1>4. AnyStep => [RoutesNext]_routesVars
  BY DEF Next
<1>5. AnyStep => [WizardNext]_wizardVars
  BY DEF Next
<1>6. AnyStep => [AmountNext]_amountVars
  BY DEF Next
<1>7. AnyStep => [PeopleNext]_peopleVars
  BY DEF Next
<1>8. AnyStep => [AccountsNext]_accountsVars
  BY DEF Next
<1> QED
  BY <1>1, <1>2, <1>3, <1>4, <1>5, <1>6, <1>7, <1>8, PTL
     DEF Spec, DialogsSpec, ActivitySpec, RoutesSpec, WizardSpec, AmountSpec, PeopleSpec,
         AccountsSpec

\* Every part keeps its types.
THEOREM ClientTypesHold == Spec => []TypeOK
<1> DEFINE Named == part \in Parts
<1>1. Init => Named
  BY DEF Init
<1>2. /\ Named
      /\ [Next]_<<part, dialogsVars, activityVars, routesVars, wizardVars, amountVars,
                  peopleVars, accountsVars>>
      => Named'
  BY DEF Next
<1>3. /\ Named /\ DialogsTypeOK /\ ActivityTypeOK /\ RoutesTypeOK /\ WizardTypeOK
      /\ AmountTypeOK /\ PeopleTypeOK /\ AccountsTypeOK
      => TypeOK
  BY DEF TypeOK
<1> HIDE DEF Named
<1> QED
  BY <1>1, <1>2, <1>3, PartsAreThemselves, DialogsTypesHold, ActivityTypesHold,
     RoutesTypesHold, WizardTypesHold, AmountTypesHold, PeopleTypesHold, AccountsTypesHold,
     PTL DEF Spec

\* And with them every part keeps what it promises, in every behaviour of the client and
\* with the exceptions each promise names: the page shows what was saved, the cursors of
\* the list descend and are of its query, what is scanned is saved as it was reviewed and
\* again only after an answer, the amount shown is the one sent, the parties of a form
\* make sense, "not found" is true, a session that was ended stays so, drafts survive.
THEOREM ClientKeepsItsPromises ==
  Spec => /\ [](/\ SavedIsShown /\ CursorsOfOneQuery /\ SavesAreSound /\ ShownIsSent
                /\ PartiesMakeSense /\ NotFoundIsReal /\ LoggedOutStaysOut)
          /\ DraftsSurviveAnswers
BY PartsAreThemselves, SavedStaysShown, CursorsStayOfOneQuery, SavesStaySound,
   AmountShownIsSent, PartiesStaySensible, NotFoundIsTrue, SessionsStayLoggedOut,
   DraftsSurvive, PTL
=============================================================================
