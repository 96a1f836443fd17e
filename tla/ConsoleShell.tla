---------------------------- MODULE ConsoleShell ----------------------------
(***************************************************************************)
(* The shell every console page puts around itself: JASQL.mount asks who   *)
(* the visitor is and builds the sidebar, and the token box, from the      *)
(* answer.  The pages behind the links are guarded by the server, which    *)
(* does not see what the shell was built from: the session may end and the *)
(* role change while a page is shown, and the question may stay unanswered.*)
(***************************************************************************)
CONSTANTS
  NavKeys,  \* the keys of the navigation the instance follows
  Nobody

AdminItems == {"users", "settings"}
AuthItems == {"history", "stats", "keys"}
DbaItems == {"dba-console"}
AlwaysItems == {"ask", "datasets", "editor", "db", "dba", "reviews",
                "quality", "openmetadata", "profcat"}

\* The links of GROUPS that lead to another page of the console.
GROUPS == AdminItems \cup AuthItems \cup DbaItems \cup AlwaysItems

ShellRoles == {"user", "dba", "admin"}

ASSUME NavAssumption == NavKeys \subseteq GROUPS /\ "db" \in NavKeys
ASSUME NobodyAssumption == Nobody \notin ShellRoles

VARIABLES
  server,  \* what the server knows: accounts at all, the session, its role
  shown    \* the page in the browser

shellVars == <<server, shown>>

Server == [auth: BOOLEAN, session: BOOLEAN, role: ShellRoles]

\* What /auth/me says; nobody's role for a visitor who is not signed in.
Me == [auth: BOOLEAN, role: ShellRoles \cup {Nobody}]

Standalone == [auth |-> FALSE, role |-> Nobody]

\* `me' is what the page was built from, `token' the master-token box, and
\* `drawer' the sidebar of a small screen.
Page == [key: NavKeys, phase: {"mounting", "ready", "login"}, me: Me,
         token: {"hidden", "open"}, drawer: {"closed", "open"}]

Loading(key) == [key |-> key, phase |-> "mounting", me |-> Standalone,
                 token |-> "hidden", drawer |-> "closed"]

-----------------------------------------------------------------------------
(* The server                                                              *)

handleMe ==
  IF ~server.auth THEN Standalone
  ELSE [auth |-> TRUE, role |-> IF server.session THEN server.role ELSE Nobody]

\* The pages behind guardAdminPage; every other one is behind guardPage.
AdminPages == {"users", "settings"}

\* Without a session to the login page, without the role to the connections.
guard(s, key) ==
  IF s.auth /\ ~s.session THEN [Loading(key) EXCEPT !.phase = "login"]
  ELSE IF s.auth /\ key \in AdminPages /\ s.role # "admin" THEN Loading("db")
  ELSE Loading(key)

-----------------------------------------------------------------------------
(* buildSidebar                                                            *)

\* Mutated form: whoever is signed in sees what is for administrators.
ShownToSignedIn(key, me) ==
  \/ key \in AlwaysItems
  \/ key \in AuthItems \cup AdminItems /\ me.auth
  \/ key \in DbaItems /\ (me.role \in {"dba", "admin"} \/ ~me.auth)

\* The rule of a link: a standalone server is trusted with the DBA console.
show(key, me) ==
  \/ key \in AlwaysItems
  \/ key \in AuthItems /\ me.auth
  \/ key \in AdminItems /\ me.role = "admin"
  \/ key \in DbaItems /\ (me.role \in {"dba", "admin"} \/ ~me.auth)

-----------------------------------------------------------------------------
ShellInit ==
  /\ server \in [auth: BOOLEAN, session: {FALSE}, role: {"user"}]
  /\ shown = [Loading("db") EXCEPT !.phase = IF server.auth THEN "login"
                                                          ELSE "mounting"]

\* Who is it?  Without an answer the page takes the server for standalone.
mount ==
  /\ shown.phase = "mounting"
  /\ \E me \in {handleMe, Standalone} :
       shown' = IF me.auth /\ me.role = Nobody
                  THEN [shown EXCEPT !.phase = "login"]
                  ELSE [shown EXCEPT !.phase = "ready", !.me = me]
  /\ UNCHANGED server

\* A link of the sidebar is followed, and the server decides where it leads.
follow(key) ==
  /\ shown.phase = "ready"
  /\ show(key, shown.me)
  /\ shown' = guard(server, key)
  /\ UNCHANGED server

\* The button of the small screen; the scrim beside the drawer only closes it.
toggle ==
  /\ shown.phase = "ready"
  /\ shown' = [shown EXCEPT !.drawer = IF @ = "open" THEN "closed" ELSE "open"]
  /\ UNCHANGED server

scrim ==
  /\ shown.phase = "ready" /\ shown.drawer = "open"
  /\ shown' = [shown EXCEPT !.drawer = "closed"]
  /\ UNCHANGED server

\* The box for the master token: a session replaces it.
handleTokenBox ==
  /\ shown.phase = "ready" /\ ~shown.me.auth
  /\ shown' = [shown EXCEPT !.token = IF @ = "open" THEN "hidden" ELSE "open"]
  /\ UNCHANGED server

\* Signed in, as whoever it is, the visitor is sent back to the page that
\* asked for it, and past its guard.
SignIn(role) ==
  /\ shown.phase = "login"
  /\ server' = [server EXCEPT !.session = TRUE, !.role = role]
  /\ shown' = guard(server', shown.key)

SessionEnds ==
  /\ server.session
  /\ server' = [server EXCEPT !.session = FALSE]
  /\ UNCHANGED shown

RoleChanges(role) ==
  /\ server.auth /\ role # server.role
  /\ server' = [server EXCEPT !.role = role]
  /\ UNCHANGED shown

ShellNext ==
  \/ mount
  \/ \E key \in NavKeys : follow(key)
  \/ toggle \/ scrim \/ handleTokenBox
  \/ SessionEnds
  \/ \E role \in ShellRoles : SignIn(role) \/ RoleChanges(role)

ShellSpec == ShellInit /\ [][ShellNext]_shellVars

-----------------------------------------------------------------------------
ShellTypeOK == server \in Server /\ shown \in Page

\* What the page was built from is still so, or was never asked.
StillTrue ==
  server.auth => /\ server.session
                 /\ shown.me.auth => shown.me.role = server.role

\* A link leads to the page it names: whatever the sidebar shows, also the one
\* built without an answer, the guard of that page lets the visitor in as long
\* as the account is what the page was told (buildSidebar, registerAdmin).
LinksLead ==
  [][\A key \in NavKeys :
       follow(key) /\ StillTrue => shown'.key = key /\ shown'.phase = "mounting"
    ]_shellVars
=============================================================================
