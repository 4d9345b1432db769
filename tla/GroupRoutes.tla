----------------------------- MODULE GroupRoutes -----------------------------
(* Getting to the page of a group in the web client: the guard of its route, *)
(* which looks the group up in the cached list of all groups, the requests   *)
(* for that list, and the creations and deletions that make the list stale.  *)
(*                                                                           *)
(* A visit is one run of the guard: a click on a link, a hover over one (the *)
(* router preloads on intent, and preloading runs the guard), or a click     *)
(* that a later one has superseded. Only the visit that leads moves the page.*)
EXTENDS Naturals, FiniteSets

CONSTANTS
  RouteGroups,  \* the groups there may be
  MaxVisits     \* runs of the guard at a time

VARIABLES
  life,         \* each group on the server: "unborn", "alive" or "gone"
  seen,         \* the cached list of all groups, a set, or NoList
  ask,          \* the request for that list
  page,         \* the page on the screen
  visits,       \* the runs of the guard that wait for a list
  change,       \* the creation or the deletion in flight
  told          \* the last visit answered "This group was not found"
routesVars == <<life, seen, ask, page, visits, change, told>>

ASSUME RoutesAssumption ==
  /\ IsFiniteSet(RouteGroups) /\ MaxVisits \in Nat \ {0}
  /\ RouteGroups \cap {"dashboard", "all", "broken", "none", "live"} = {}

NoList == {"none"}      \* no set of groups is equal to it
Lists == SUBSET RouteGroups
Steps == {"ensure", "confirm"}

\* "missed": the group was not to be had on the server when the visit began.
\* "joined": the visit took an answer that the server had given before.
Visit == [to : RouteGroups, step : Steps, missed : BOOLEAN, joined : BOOLEAN, lead : BOOLEAN]
NoVisit == [to |-> "none"]

\* What is kept of a visit that was answered with "not found".
Told == [to : RouteGroups, excused : BOOLEAN]
Telling(v) == [to |-> v.to, excused |-> v.missed \/ v.joined]

\* "match" is the group whose page the handler of a deletion believes to be
\* on: the one on the screen while the component that asked is mounted
\* ("live"), the last one it saw once that is gone.
Change == [op : {"create", "delete"}, g : RouteGroups, st : {"sent", "done"},
           match : RouteGroups \cup {"live"}, by : {"page", "sidebar"}]
NoChange == [op |-> "none"]
NoAsk == [st |-> "none", list |-> {}]

RoutesTypeOK ==
  /\ life \in [RouteGroups -> {"unborn", "alive", "gone"}]
  /\ seen \in Lists \cup {NoList}
  /\ ask \in [st : {"none", "asked", "answered"}, list : Lists]
  /\ page \in RouteGroups \cup {"dashboard", "all", "broken"}
  /\ visits \subseteq Visit /\ Cardinality(visits) <= MaxVisits
  /\ change \in Change \cup {NoChange}
  /\ told \in Told \cup {NoVisit}

RoutesInit ==
  /\ life \in [RouteGroups -> {"unborn", "alive"}]
  /\ seen = NoList
  /\ ask = NoAsk
  /\ page = "dashboard"
  /\ visits = {}
  /\ change = NoChange
  /\ told = NoVisit

Alive == {g \in RouteGroups : life[g] = "alive"}

-----------------------------------------------------------------------------
\* The list of all groups

\* The page of a group observes the list, and so does the dashboard when it
\* shows all the groups, archived ones included.
Observed == page \in RouteGroups \cup {"all"}

NewAsk == [st |-> "asked", list |-> {}]

\* fetchQuery: a request on its way is joined, otherwise one is sent.
Fetched(a) == IF a.st = "none" THEN NewAsk ELSE a

\* Mutant: what the cache does not know is taken to be missing.
VerdictHasty(list, step, g) == IF g \in list THEN "found" ELSE "notFound"

\* What the guard makes of a list.
Verdict(list, step, g) ==
  IF g \in list THEN "found"
  ELSE IF step = "ensure" THEN "again"
  ELSE "notFound"

\* Mutant: every deletion keeps the page it was asked on, whatever page that is.
FrozenAnywhere(from, to) ==
  IF change # NoChange /\ change.match = "live" /\ from # to
  THEN [change EXCEPT !.match = from] ELSE change

\* A deletion asked on a page whose component has gone keeps the group it saw
\* last. From one group's page to another's the component stays.
Frozen(from, to) ==
  IF change # NoChange /\ change.match = "live" /\ change.by = "page"
     /\ from \in RouteGroups /\ to \notin RouteGroups
  THEN [change EXCEPT !.match = from] ELSE change

ServerAnswers ==
  /\ ask.st = "asked"
  /\ ask' = [st |-> "answered", list |-> Alive]
  /\ UNCHANGED <<life, seen, page, visits, change, told>>

\* The list arrives. The visits that wait for it go on: in, once more to the
\* server, or back to the dashboard. The page of a group that is not in the
\* list any more breaks: its select() returns undefined.
ListArrives ==
  /\ ask.st = "answered"
  /\ seen' = ask.list
  /\ LET next(v) == Verdict(ask.list, v.step, v.to)
         again == {[v EXCEPT !.step = "confirm", !.joined = FALSE] :
                     v \in {w \in visits : next(w) = "again"}}
         refused == {v \in visits : next(v) = "notFound"}
         found == {v \in visits : next(v) = "found"}
         stays == IF page \in RouteGroups \ ask.list THEN "broken" ELSE page
     IN /\ visits' = again
        /\ ask' = IF again = {} THEN NoAsk ELSE NewAsk
        /\ IF refused = {} THEN told' = told ELSE told' \in {Telling(v) : v \in refused}
        /\ \/ \E v \in found : v.lead /\ page' = v.to
           \* What the router does with the redirect of a visit that does not
           \* lead is its own affair: it may follow it or drop it.
           \/ \E v \in refused : page' = "dashboard"
           \/ (\A v \in found \cup refused : ~v.lead) /\ page' = stays
  /\ change' = Frozen(page, page')
  /\ UNCHANGED life

\* The request fails: the visits that wait for it end on the error screen.
ListFails ==
  /\ ask.st # "none"
  /\ ask' = NoAsk
  /\ visits' = {}
  /\ page' = IF \E v \in visits : v.lead THEN "broken" ELSE page
  /\ change' = Frozen(page, page')
  /\ UNCHANGED <<life, seen, told>>

\* The window gets the focus, or the component that observes the list is new:
\* staleTime is 0.
RefetchList ==
  /\ Observed
  /\ ask' = Fetched(ask)
  /\ UNCHANGED <<life, seen, page, visits, change, told>>

-----------------------------------------------------------------------------
\* Visits

\* The guard starts with what is cached.
Guard(g, lead, others) ==
  LET v == [to |-> g, step |-> "ensure", missed |-> life[g] # "alive", joined |-> FALSE, lead |-> lead]
      next == IF seen = NoList THEN "wait" ELSE Verdict(seen, "ensure", g)
      join(step) == [v EXCEPT !.step = step, !.joined = ask.st = "answered"]
  IN /\ visits' = others \cup (CASE next = "wait" -> {join("ensure")}
                                 [] next = "again" -> {join("confirm")}
                                 [] OTHER -> {})
     /\ ask' = IF next \in {"wait", "again"} THEN Fetched(ask) ELSE ask
     /\ page' = CASE next = "found" /\ lead -> g
                  [] next = "notFound" /\ lead -> "dashboard"
                  [] OTHER -> page
     /\ told' = IF next = "notFound" THEN Telling(v) ELSE told

Superseded == {[v EXCEPT !.lead = FALSE] : v \in visits}

Click(g) ==
  /\ Cardinality(Superseded) < MaxVisits
  /\ page # g
  /\ Guard(g, TRUE, Superseded)
  /\ UNCHANGED <<life, seen, change>>

Hover(g) ==
  /\ Cardinality(visits) < MaxVisits
  /\ Guard(g, FALSE, visits)
  /\ UNCHANGED <<life, seen, change>>

\* To the dashboard, or to its other filter.
ToDashboard ==
  /\ page' \in {"dashboard", "all"} \ {page}
  /\ visits' = Superseded
  /\ ask' = IF page' = "all" THEN Fetched(ask) ELSE ask
  /\ change' = Frozen(page, page')
  /\ UNCHANGED <<life, seen, told>>

-----------------------------------------------------------------------------
\* Creating and deleting

Create(g) ==
  /\ change = NoChange /\ life[g] = "unborn"
  /\ change' = [op |-> "create", g |-> g, st |-> "sent", match |-> "live", by |-> "sidebar"]
  /\ UNCHANGED <<life, seen, ask, page, visits, told>>

\* Asked in the menu of the group's own page or in the sidebar, which is there
\* on every page and shows a list of its own, perhaps an old one.
Delete(g, by) ==
  /\ change = NoChange /\ life[g] # "unborn"
  /\ by = "page" => page = g
  /\ change' = [op |-> "delete", g |-> g, st |-> "sent", match |-> "live", by |-> by]
  /\ UNCHANGED <<life, seen, ask, page, visits, told>>

Lived(op, g) ==
  [life EXCEPT ![g] = CASE op = "create" /\ @ = "unborn" -> "alive"
                        [] op = "delete" /\ @ = "alive" -> "gone"
                        [] OTHER -> @]

ServerChanges ==
  /\ change # NoChange /\ change.st = "sent"
  /\ life' = Lived(change.op, change.g)
  /\ change' = [change EXCEPT !.st = "done"]
  /\ UNCHANGED <<seen, ask, page, visits, told>>

\* onSuccess: the lists are invalidated, which asks again for an observed one,
\* and only marks the others stale. "Only navigate to dashboard if we're
\* currently on the deleted group's page": as far as the handler knows.
ChangeSucceeds ==
  /\ change # NoChange /\ change.st = "done"
  /\ LET on == IF change.match = "live" THEN page ELSE change.match
         leaves == change.op = "delete" /\ on = change.g
     IN /\ page' = IF leaves THEN "dashboard" ELSE page
        /\ ask' = IF Observed THEN NewAsk ELSE ask
        /\ visits' = LET vs == IF leaves THEN Superseded ELSE visits
                     IN IF Observed THEN {[v EXCEPT !.joined = FALSE] : v \in vs} ELSE vs
  /\ change' = NoChange
  /\ UNCHANGED <<life, seen, told>>

ChangeFails ==
  /\ change # NoChange
  /\ change' = NoChange
  /\ UNCHANGED <<life, seen, ask, page, visits, told>>

\* Another member creates a group with this user in it, or deletes one.
OthersDo(op, g) ==
  /\ Lived(op, g) # life
  /\ life' = Lived(op, g)
  /\ UNCHANGED <<seen, ask, page, visits, change, told>>

RoutesNext ==
  \/ ServerAnswers
  \/ ListArrives
  \/ ListFails
  \/ RefetchList
  \/ ToDashboard
  \/ ServerChanges
  \/ ChangeSucceeds
  \/ ChangeFails
  \/ \E g \in RouteGroups :
       \/ Click(g)
       \/ Hover(g)
       \/ Create(g)
       \/ \E by \in {"page", "sidebar"} : Delete(g, by)
       \/ \E op \in {"create", "delete"} : OthersDo(op, g)

RoutesSpec == RoutesInit /\ [][RoutesNext]_routesVars

-----------------------------------------------------------------------------
\* "This group was not found" is true: the group was not to be had on the
\* server when the visit began, or it has been deleted. The cached list does
\* not know the groups created since, and invalidation does not bring them in
\* when nobody observes it. Excepted is a visit that joins a request that the
\* server has answered before the visit began.
NotFoundIsReal ==
  told # NoVisit => told.excused \/ life[told.to] = "gone"
=============================================================================
