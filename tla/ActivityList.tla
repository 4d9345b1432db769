---------------------------- MODULE ActivityList ----------------------------
(* The activity of a group, page by page: the keyset pagination of the      *)
(* server over entries that come and go, and the list of the group page     *)
(* with its filters and the stack of cursors that stands for the pages      *)
(* turned so far. While a page is asked for, what was shown before stays on *)
(* the screen (keepPreviousData), its next cursor with it.                  *)
(*                                                                          *)
(* An entry is known by its rank in the order of all lists, date, creation  *)
(* and id together; a cursor is the rank of the last entry of its page, and *)
(* carries the group and the filters whose list it was issued for, which    *)
(* the text of the code's cursor does not. Two marks tell how a cursor came *)
(* to be where it is. "guessed": it was taken from an answer to another     *)
(* query than the one on screen, for a request that is paused because the   *)
(* browser is offline does not count as fetching and does not disable the   *)
(* buttons. "carried": it was on the stack when a link led to another       *)
(* group, and the stack was kept.                                           *)
EXTENDS Naturals, Sequences, FiniteSets

CONSTANTS
  ListGroups,      \* the groups of the user
  MaxRank,         \* the places in the order an entry may have
  Filters,         \* selections of type, currency and member, each as the
                   \* ranks it lets through
  LIMIT            \* entries on a page

VARIABLES
  group,           \* the group on the page
  entries,         \* the entries the server has of the group on the page
  filters,         \* what is selected above the list
  cursorStack,     \* the pages turned, the first without a cursor
  shown,           \* the answer on the screen
  fetch,           \* the request for the page on top of the stack
  online           \* navigator.onLine
activityVars == <<group, entries, filters, cursorStack, shown, fetch, online>>

Ranks == 1..MaxRank

ASSUME ActivityAssumption ==
  MaxRank \in Nat /\ Filters \subseteq SUBSET Ranks /\ LIMIT \in Nat \ {0}

\* What an answer tells the list: whether it is the one asked for, the
\* group and the filters it was asked with, the rank of its last entry if a
\* page follows, and the number of entries.
ActivityAnswer ==
  [own : BOOLEAN, group : ListGroups, filters : Filters, more : BOOLEAN,
   last : Ranks \cup {0}, total : Nat]
NoAnswer(g, f) ==
  [own |-> FALSE, group |-> g, filters |-> f, more |-> FALSE, last |-> 0, total |-> 0]

\* The first page has no cursor: every entry comes after it.
Cursor ==
  [after : 1..(MaxRank + 1), group : ListGroups, filters : Filters,
   guessed : BOOLEAN, carried : BOOLEAN]
FirstPage(g, f) ==
  [after |-> MaxRank + 1, group |-> g, filters |-> f, guessed |-> FALSE, carried |-> FALSE]

LastOf(s) == s[Len(s)]

ActivityTypeOK ==
  /\ group \in ListGroups
  /\ entries \in SUBSET Ranks
  /\ filters \in Filters
  /\ cursorStack \in Seq(Cursor) /\ Len(cursorStack) > 0
  /\ shown \in ActivityAnswer
  /\ fetch \in {"idle", "fetching", "paused"}
  /\ online \in BOOLEAN

ActivityInit ==
  /\ group \in ListGroups
  /\ entries \in SUBSET Ranks
  /\ filters \in Filters
  /\ cursorStack = <<FirstPage(group, filters)>>
  /\ shown = NoAnswer(group, filters)
  /\ fetch = "fetching"
  /\ online = TRUE

-----------------------------------------------------------------------------
\* The server

\* GetGroupActivityPaginated: the entries after the cursor, the newest first;
\* that a cursor is of another list is not noticed.
Listed(S, f, c) == {r \in S \cap f : r < c.after}

\* GetGroupActivity: a next cursor is given if entries remain after the page.
\* The count is read by a query of its own, which may see one entry more or
\* less.
GetGroupActivity(S, g, f, c) ==
  LET rows == Listed(S, f, c)
      more == Cardinality(rows) > LIMIT
      total == Cardinality(S \cap f)
  IN {a \in [own : {TRUE}, group : {g}, filters : {f}, more : {more}, last : rows \cup {0},
             total : {total, total + 1} \cup (IF total > 0 THEN {total - 1} ELSE {})] :
        IF more THEN a.last \in rows /\ Cardinality({r \in rows : r >= a.last}) = LIMIT
                ELSE a.last = 0}

\* Members of a group enter and delete things.
OthersWrite ==
  /\ \E r \in Ranks : entries' = IF r \in entries THEN entries \ {r} ELSE entries \cup {r}
  /\ UNCHANGED <<group, filters, cursorStack, shown, fetch, online>>

-----------------------------------------------------------------------------
\* The list

\* The list observes another query: it is asked for, and until the answer
\* comes an earlier answer to it is shown if the cache has one, or else what
\* was shown before.
Observe(g, f, c) ==
  /\ fetch' = IF online THEN "fetching" ELSE "paused"
  /\ \/ shown' = [shown EXCEPT !.own = FALSE]
     \/ shown' \in UNION {GetGroupActivity(S, g, f, c) : S \in SUBSET Ranks}
  /\ UNCHANGED online

totalPages == IF shown.total = 0 THEN 1 ELSE (shown.total + LIMIT - 1) \div LIMIT
canPrev == Len(cursorStack) > 1
canNext == shown.total > 0 /\ Len(cursorStack) < totalPages
isLoading == fetch = "fetching"

\* Mutant: the button does not wait for the page that is asked for.
NextEnabledEarly == canNext

NextEnabled == canNext /\ ~isLoading
PrevEnabled == canPrev /\ ~isLoading

\* The next page, after the answer on the screen; without a next cursor in
\* that answer the click does nothing.
handleNext ==
  /\ NextEnabled
  /\ shown.more
  /\ cursorStack' = Append(cursorStack,
       [after |-> shown.last, group |-> shown.group, filters |-> shown.filters,
        guessed |-> fetch = "paused" /\ ~shown.own, carried |-> FALSE])
  /\ Observe(group, filters, LastOf(cursorStack'))
  /\ UNCHANGED <<group, entries, filters>>

handlePrev ==
  /\ PrevEnabled
  /\ cursorStack' = SubSeq(cursorStack, 1, Len(cursorStack) - 1)
  /\ Observe(group, filters, LastOf(cursorStack'))
  /\ UNCHANGED <<group, entries, filters>>

\* A filter is selected: back to page 1. The selects are never disabled.
onFilterChange ==
  /\ \E f \in Filters \ {filters} :
       /\ filters' = f
       /\ cursorStack' = <<FirstPage(group, f)>>
       /\ Observe(group, f, FirstPage(group, f))
  /\ UNCHANGED <<group, entries>>

\* A link to another group: the page stays mounted, with its filters and its
\* stack. The cursors of the group that was left stay on it, and are sent with
\* the id of the group that was entered. What that has for entries is what
\* OthersWrite makes of these, which it may before anything else happens.
SwitchGroup ==
  /\ group' \in ListGroups \ {group}
  /\ cursorStack' = [i \in 1..Len(cursorStack) |->
                       IF i = 1 THEN FirstPage(group', filters)
                       ELSE [cursorStack[i] EXCEPT !.carried = TRUE]]
  /\ Observe(group', filters, LastOf(cursorStack'))
  /\ UNCHANGED <<entries, filters>>

\* The answer comes.
AnswerArrives ==
  /\ fetch = "fetching"
  /\ shown' \in GetGroupActivity(entries, group, filters, LastOf(cursorStack))
  /\ fetch' = "idle"
  /\ UNCHANGED <<group, entries, filters, cursorStack, online>>

\* The request fails for good: an answer of before stays if it is to this
\* query, otherwise the list is empty.
RequestFails ==
  /\ fetch = "fetching"
  /\ shown' = IF shown.own THEN shown ELSE NoAnswer(group, filters)
  /\ fetch' = "idle"
  /\ UNCHANGED <<group, entries, filters, cursorStack, online>>

\* An entry is saved, or the window gets the focus: the page is asked again.
Refetch ==
  /\ fetch = "idle"
  /\ fetch' = IF online THEN "fetching" ELSE "paused"
  /\ UNCHANGED <<group, entries, filters, cursorStack, shown, online>>

\* The network goes: a request in flight is retried, and the retry is paused.
GoOffline ==
  /\ online /\ online' = FALSE
  /\ fetch' = IF fetch = "fetching" THEN "paused" ELSE fetch
  /\ UNCHANGED <<group, entries, filters, cursorStack, shown>>

\* It comes back: what is paused goes on, and the rest is asked again.
GoOnline ==
  /\ ~online /\ online' = TRUE
  /\ fetch' = "fetching"
  /\ UNCHANGED <<group, entries, filters, cursorStack, shown>>

ActivityNext ==
  \/ OthersWrite
  \/ handleNext \/ handlePrev \/ onFilterChange \/ SwitchGroup
  \/ AnswerArrives \/ RequestFails \/ Refetch \/ GoOffline \/ GoOnline

ActivitySpec == ActivityInit /\ [][ActivityNext]_activityVars

-----------------------------------------------------------------------------
\* Properties

\* No answer to one query serves as a page of another: every cursor on the
\* stack was issued for the filters that are selected and for the group on the
\* page, and each lies strictly after the one below it, so that turning pages
\* comes to an end, however the clicks fall between requests, answers, filters
\* and groups, and whatever is entered or deleted meanwhile. Not promised is
\* that an entry is on one page only: after a deletion page 1, asked again,
\* reaches below the cursor of page 2. Two kinds of cursor are known to be of
\* another query: those guessed offline, and those a link has carried over
\* from another group, which still lie after one another.
CursorsOfOneQuery ==
  \A i \in 1..(Len(cursorStack) - 1) :
    LET c == cursorStack[i + 1]
    IN c.guessed \/ /\ c.filters = filters
                    /\ c.after < cursorStack[i].after
                    /\ c.group = group \/ c.carried

=============================================================================
