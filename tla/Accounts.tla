------------------------------ MODULE Accounts ------------------------------
(* Accounts, sessions and roles: registering, logging in with a password or  *)
(* through OIDC, the session middleware and its renewals, logging out, the   *)
(* roles an admin gives and takes, and the screens of the web client that    *)
(* send these requests.                                                      *)
(*                                                                           *)
(* A handler's reads and writes are steps of their own: the reads go to a    *)
(* pool of connections, nothing holds a transaction across them. A tab has   *)
(* one request in flight; the tabs of a browser share its cookie.            *)
EXTENDS Naturals, FiniteSets

CONSTANTS
  Users,        \* the e-mail addresses of those who may register
  Tabs,         \* the tabs in which the client may be open
  BrowserOf,    \* the browser of each tab
  SessionIds    \* the sessions that may be created

VARIABLES
  role,         \* the users table
  sessions,     \* the sessions table
  cookie,       \* the session cookie of each browser
  request,      \* the request of each tab
  screen,       \* what each tab shows
  loggedOut     \* the sessions that a logout has deleted
accountsVars == <<role, sessions, cookie, request, screen, loggedOut>>

Browsers == {BrowserOf[t] : t \in Tabs}

ASSUME AccountsAssumption ==
  /\ IsFiniteSet(Users) /\ BrowserOf \in [Tabs -> Browsers]
  /\ "none" \notin Users \cup SessionIds

NoSession == [user |-> "none", age |-> "fresh"]

\* A session is "half" when less than half of its duration is left.
Session == [user : Users, age : {"fresh", "half", "expired"}]

OpenOps == {"login", "register", "oidc"}               \* need no session
GuardedOps == {"userInfo", "blob", "logout", "setRole"}
Roles == {"regular", "admin"}

\* "step" is the next thing the handler does, or its outcome. "who" is the user
\* it acts for, "to" the role it will give, or has found, that user, "got" the
\* session it has created. "late": the request began when its session had been
\* logged out. "heard": the tab still waits for the answer.
Request ==
  [op : OpenOps \cup GuardedOps, sid : SessionIds \cup {"none"}, who : Users \cup {"none"},
   target : Users \cup {"none"}, to : Roles,
   step : {"auth", "renew", "info", "serve", "delete", "admin", "load", "count", "write", "user", "empty",
           "insert", "session", "ok", "refused"},
   got : SessionIds \cup {"none"}, late : BOOLEAN, heard : BOOLEAN]
NoRequest == [op |-> "none"]

Screens == {"closed", "loading", "login", "app", "adminApp"}

AccountsTypeOK ==
  /\ role \in [Users -> Roles \cup {"none"}]
  /\ sessions \in [SessionIds -> Session \cup {NoSession}]
  /\ cookie \in [Browsers -> SessionIds \cup {"none"}]
  /\ request \in [Tabs -> Request \cup {NoRequest}]
  /\ screen \in [Tabs -> Screens]
  /\ loggedOut \subseteq SessionIds

\* A fresh installation, or one in use where nobody is logged in: even one
\* without an admin, if the read that would have made one has failed.
AccountsInit ==
  /\ role \in [Users -> Roles \cup {"none"}]
  /\ sessions = [id \in SessionIds |-> NoSession]
  /\ cookie = [b \in Browsers |-> "none"]
  /\ request = [t \in Tabs |-> NoRequest]
  /\ screen = [t \in Tabs |-> "closed"]
  /\ loggedOut = {}

Admins == {u \in Users : role[u] = "admin"}

-----------------------------------------------------------------------------
\* The client

FirstStep == [login |-> "user", register |-> "empty", oidc |-> "user",
              userInfo |-> "auth", blob |-> "auth", logout |-> "auth", setRole |-> "auth"]

\* A request takes the cookie the browser has as it is sent. A cookie lasts a
\* year, which no behaviour here does.
Send(t, r) ==
  LET sid == cookie[BrowserOf[t]]
  IN /\ request[t] = NoRequest
     /\ request' = [request EXCEPT ![t] =
          [op |-> r.op, sid |-> sid, who |-> r.who, target |-> r.target, to |-> r.to,
           step |-> FirstStep[r.op], got |-> "none",
           late |-> r.op \in GuardedOps /\ sid \in loggedOut, heard |-> TRUE]]
     /\ UNCHANGED <<role, sessions, cookie, loggedOut>>

Plain(op) == [op |-> op, who |-> "none", target |-> "none", to |-> "regular"]
As(op, u) == [Plain(op) EXCEPT !.who = u]

InApp(t) == screen[t] \in {"app", "adminApp"}

\* The document loads, and AuthProvider shows nothing until it knows who this is.
LoadPage(t) ==
  /\ screen[t] = "closed"
  /\ Send(t, Plain("userInfo"))
  /\ screen' = [screen EXCEPT ![t] = "loading"]

\* The window gets the focus; any other call of a page that is logged in.
AskUserInfo(t) == InApp(t) /\ Send(t, Plain("userInfo")) /\ UNCHANGED screen

ShowImage(t) == InApp(t) /\ Send(t, Plain("blob")) /\ UNCHANGED screen

SubmitLogin(t, u) == screen[t] = "login" /\ Send(t, As("login", u)) /\ UNCHANGED screen

\* The button of the identity provider leaves the page; the callback comes back.
ContinueWithOIDC(t, u) ==
  /\ screen[t] = "login"
  /\ Send(t, As("oidc", u))
  /\ screen' = [screen EXCEPT ![t] = "closed"]

\* The register form is a link away, and does not look at who is logged in.
SubmitRegister(t, u) ==
  /\ screen[t] = "login" \/ InApp(t)
  /\ Send(t, As("register", u))
  /\ UNCHANGED screen

ClickLogout(t) == InApp(t) /\ Send(t, Plain("logout")) /\ UNCHANGED screen

\* The admin page, shown to whom the client was last told is an admin. Its list
\* of users may be an old one: either role may be asked for, of anyone there is.
SelectRole(t, u, to) ==
  /\ screen[t] = "adminApp"
  /\ role[u] # "none"
  /\ Send(t, [Plain("setRole") EXCEPT !.target = u, !.to = to])
  /\ UNCHANGED screen

\* Closing or reloading the tab, or losing the connection and loading the page
\* again: nobody waits for the answer any more, but the server goes on.
LeavePage(t) ==
  /\ screen[t] # "closed"
  /\ screen' = [screen EXCEPT ![t] = "closed"]
  /\ request' = [request EXCEPT ![t] =
       IF @ = NoRequest \/ @.step \in {"ok", "refused"} THEN NoRequest ELSE [@ EXCEPT !.heard = FALSE]]
  /\ UNCHANGED <<role, sessions, cookie, loggedOut>>

\* Who is told to be logged in sees the app, whoever is not the login form.
ScreenFor(told) == IF told = "admin" THEN "adminApp" ELSE "app"

Answered(t) ==
  LET r == request[t]
      b == BrowserOf[t]
      ok == r.step = "ok"
      now == screen[t]
  IN /\ r # NoRequest /\ r.step \in {"ok", "refused"}
     /\ request' = [request EXCEPT ![t] = NoRequest]
     /\ cookie' = CASE ok /\ r.op \in {"login", "oidc"} -> [cookie EXCEPT ![b] = r.got]
                    [] ok /\ r.op = "logout" -> [cookie EXCEPT ![b] = "none"]
                    [] OTHER -> cookie
     /\ screen' = [screen EXCEPT ![t] =
          CASE ok /\ r.op \in {"userInfo", "login"} -> ScreenFor(r.to)
            [] ~ok /\ r.op = "userInfo" -> "login"
            [] ok /\ r.op = "logout" -> "closed"
            [] OTHER -> now]
     /\ UNCHANGED <<role, sessions, loggedOut>>

-----------------------------------------------------------------------------
\* The server. A step of the handler of tab t's request:

Step(t, step) == request[t] # NoRequest /\ request[t].step = step
Goes(t, step) == request' = [request EXCEPT ![t].step = step]

\* The answer tells a role and perhaps sets the cookie to a session.
Ends(t, outcome, to, got) ==
  request' = [request EXCEPT ![t] =
    IF ~@.heard THEN NoRequest
    ELSE [@ EXCEPT !.step = outcome, !.to = to, !.got = got,
                   !.sid = "none", !.who = "none", !.target = "none"]]
Succeeds(t) == Ends(t, "ok", "regular", "none")
Refuses(t) == Ends(t, "refused", "regular", "none")

Handling == [userInfo |-> "info", blob |-> "serve", logout |-> "delete", setRole |-> "admin"]

\* SessionMiddleware and RequireSession: the session must be there and must not
\* have expired; the middleware renews one in the second half of its life.
Authenticate(t) ==
  /\ Step(t, "auth")
  /\ LET r == request[t]
         s == IF r.sid = "none" THEN NoSession ELSE sessions[r.sid]
     IN IF s = NoSession \/ s.age = "expired" THEN Refuses(t)
        ELSE request' = [request EXCEPT ![t] =
               [@ EXCEPT !.who = s.user,
                         !.step = IF s.age = "half" /\ r.op # "blob" THEN "renew" ELSE Handling[r.op]]]
  /\ UNCHANGED <<role, sessions, cookie, screen, loggedOut>>

\* Mutant: renewing writes the session that was read back, deleted or not.
RenewedUpsert(r) == [sessions EXCEPT ![r.sid] = [user |-> r.who, age |-> "fresh"]]

\* UpdateSession: UPDATE ... WHERE id = @id.
Renewed(r) ==
  IF sessions[r.sid] = NoSession THEN sessions ELSE [sessions EXCEPT ![r.sid].age = "fresh"]

\* A renewal that fails is only logged.
Renew(t) ==
  /\ Step(t, "renew")
  /\ sessions' \in {sessions, Renewed(request[t])}
  /\ Goes(t, Handling[request[t].op])
  /\ UNCHANGED <<role, cookie, screen, loggedOut>>

\* UserInfo
UserInfo(t) ==
  /\ Step(t, "info")
  /\ Ends(t, "ok", role[request[t].who], "none")
  /\ UNCHANGED <<role, sessions, cookie, screen, loggedOut>>

\* The file of an image.
ServeImage(t) ==
  /\ Step(t, "serve")
  /\ Succeeds(t)
  /\ UNCHANGED <<role, sessions, cookie, screen, loggedOut>>

Logout(t) ==
  /\ Step(t, "delete")
  /\ sessions' = [sessions EXCEPT ![request[t].sid] = NoSession]
  /\ loggedOut' = loggedOut \cup {request[t].sid}
  /\ Succeeds(t)
  /\ UNCHANGED <<role, cookie, screen>>

\* AdminInterceptor
CheckAdmin(t) ==
  /\ Step(t, "admin")
  /\ IF role[request[t].who] # "admin" THEN Refuses(t)
     ELSE Goes(t, IF request[t].to = "admin" THEN "write" ELSE "load")
  /\ UNCHANGED <<role, sessions, cookie, screen, loggedOut>>

\* UpdateUserRole: the current role, the number of admins, the write.
LoadTarget(t) ==
  /\ Step(t, "load")
  /\ Goes(t, IF role[request[t].target] = "admin" THEN "count" ELSE "write")
  /\ UNCHANGED <<role, sessions, cookie, screen, loggedOut>>

CountAdmins(t) ==
  /\ Step(t, "count")
  /\ IF Cardinality(Admins) <= 1 THEN Refuses(t) ELSE Goes(t, "write")
  /\ UNCHANGED <<role, sessions, cookie, screen, loggedOut>>

UpdateUserRole(t) ==
  /\ Step(t, "write")
  /\ role' = [role EXCEPT ![request[t].target] = request[t].to]
  /\ Succeeds(t)
  /\ UNCHANGED <<sessions, cookie, screen, loggedOut>>

\* GetUserByEmail: who logs in must be known, OIDC makes a user of who is not.
FindUser(t) ==
  /\ Step(t, "user")
  /\ LET found == role[request[t].who]
     IN IF found # "none"
        THEN request' = [request EXCEPT ![t].step = "session", ![t].to = found]
        ELSE IF request[t].op = "oidc" THEN Goes(t, "empty") ELSE Refuses(t)
  /\ UNCHANGED <<role, sessions, cookie, screen, loggedOut>>

\* IsUsersEmpty: the first user becomes an admin. An error of the read is not
\* looked at, and makes a regular user.
IsUsersEmpty(t) ==
  /\ Step(t, "empty")
  /\ \E noUsers \in {FALSE, \A u \in Users : role[u] = "none"} :
       request' = [request EXCEPT ![t].step = "insert", ![t].to = IF noUsers THEN "admin" ELSE "regular"]
  /\ UNCHANGED <<role, sessions, cookie, screen, loggedOut>>

\* CreateUser: the e-mail address is unique.
CreateUser(t) ==
  /\ Step(t, "insert")
  /\ LET r == request[t]
     IN IF role[r.who] # "none" THEN Refuses(t) /\ UNCHANGED role
        ELSE /\ role' = [role EXCEPT ![r.who] = r.to]
             /\ IF r.op = "oidc" THEN Goes(t, "session") ELSE Succeeds(t)
  /\ UNCHANGED <<sessions, cookie, screen, loggedOut>>

\* CreateSession, under a new id.
CreateSession(t) ==
  /\ Step(t, "session")
  /\ \E id \in {s \in SessionIds : sessions[s] = NoSession} \ loggedOut :
       /\ sessions' = [sessions EXCEPT ![id] = [user |-> request[t].who, age |-> "fresh"]]
       /\ Ends(t, "ok", request[t].to, id)
  /\ UNCHANGED <<role, cookie, screen, loggedOut>>

\* Any other reason to refuse: a wrong password, a form that is switched off by
\* the configuration, a query or a connection that fails.
ServerRefuses(t) ==
  /\ request[t] # NoRequest /\ request[t].step \notin {"ok", "refused"}
  /\ Refuses(t)
  /\ UNCHANGED <<role, sessions, cookie, screen, loggedOut>>

\* Time passes: sessions are not deleted when they expire.
Age(id) ==
  /\ sessions[id] # NoSession /\ sessions[id].age # "expired"
  /\ sessions' = [sessions EXCEPT ![id].age = IF @ = "fresh" THEN "half" ELSE "expired"]
  /\ UNCHANGED <<role, cookie, request, screen, loggedOut>>

ClientStep(t) ==
  \/ LoadPage(t)
  \/ AskUserInfo(t)
  \/ ShowImage(t)
  \/ ClickLogout(t)
  \/ LeavePage(t)
  \/ Answered(t)
  \/ \E u \in Users : SubmitLogin(t, u) \/ ContinueWithOIDC(t, u) \/ SubmitRegister(t, u)
  \/ \E u \in Users, to \in Roles : SelectRole(t, u, to)

ServerStep(t) ==
  \/ Authenticate(t)
  \/ Renew(t)
  \/ UserInfo(t)
  \/ ServeImage(t)
  \/ Logout(t)
  \/ CheckAdmin(t)
  \/ LoadTarget(t)
  \/ CountAdmins(t)
  \/ UpdateUserRole(t)
  \/ FindUser(t)
  \/ IsUsersEmpty(t)
  \/ CreateUser(t)
  \/ CreateSession(t)
  \/ ServerRefuses(t)

AccountsNext ==
  \/ \E t \in Tabs : ClientStep(t) \/ ServerStep(t)
  \/ \E id \in SessionIds : Age(id)

AccountsSpec == AccountsInit /\ [][AccountsNext]_accountsVars

-----------------------------------------------------------------------------
\* Properties

\* A session that was logged out stays out: no renewal that was under way
\* brings its row back, and a request that begins with its cookie afterwards,
\* from another tab or after a lost answer, gets no further than the check.
LoggedOutStaysOut ==
  /\ \A id \in loggedOut : sessions[id] = NoSession
  /\ \A t \in Tabs : request[t] # NoRequest /\ request[t].late => request[t].step \in {"auth", "refused"}

\* "Guard against demoting the last remaining admin (covers self-demotion)":
\* as long as there is an admin, no change of a role leaves the users without.
LastAdminStays == [][Admins # {} => Admins' # {}]_accountsVars

=============================================================================
