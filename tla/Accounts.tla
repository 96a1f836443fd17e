------------------------------ MODULE Accounts ------------------------------
(***************************************************************************)
(* Accounts of the meta store: users with a role and an active flag, the   *)
(* credentials they authenticate with (sessions and MCP keys), and the     *)
(* requests that administer them.                                          *)
(*                                                                         *)
(* Every call of the store is one SQL statement and atomic; a handler      *)
(* makes several of them, and no transaction joins them.  A worker is a    *)
(* goroutine that serves one request at a time.                            *)
(***************************************************************************)
EXTENDS Integers, FiniteSets

CONSTANTS
  Workers,   \* goroutines serving requests
  Users,     \* ids of accounts
  First,     \* the account Bootstrap creates as admin
  Creds,     \* ids of sessions and keys; bounds how many are ever issued
  KeyLives,  \* lifetimes a key can be issued with
  Edits,     \* bodies of PUT /api/users/{id}: [role, active], None if absent
  None

ASSUME UsersAssumption == First \in Users /\ IsFiniteSet(Users)
ASSUME NoneAssumption == None \notin Users \cup Creds \cup {"admin", "user"}

\* What is left of a lifetime: more than half, less than half, nothing; a key
\* may be issued without an expiry.
Gone == 0
Late == 1
Whole == 2
Forever == 3
Lives == {Gone, Late, Whole, Forever}

ASSUME LivesAssumption == KeyLives \subseteq {Late, Whole, Forever}

\* Roles the database accepts, and the ones a caller may ask for.
Roles == {"admin", "user"}
AskedRoles == Roles \cup {"dba", "unknown"}

ASSUME EditsAssumption ==
  Edits \subseteq [role: Roles \cup {"dba", None}, active: BOOLEAN \cup {None}]

VARIABLES
  users,  \* users[u]: the row of u, or None
  creds,  \* creds[c]: the session or key with id c, or None
  job,    \* job[w]: what worker w is doing, or None
  gone,   \* history: credentials that a revocation was carried out on
  out,    \* history: users deactivated, as answered, and not activated since
  clash   \* history: was a row written after what its writer had read changed

vars == <<users, creds, job, gone, out, clash>>
history == <<gone, out, clash>>

User == [role: Roles, active: BOOLEAN]
\* A row as a handler holds it, before the database has checked the role.
Row == [role: Roles \cup {"dba"}, active: BOOLEAN]

Cred == [kind: {"session", "key"}, user: Users, revoked: BOOLEAN,
         life: Lives, from: Creds \cup {None}]

\* `row' is the copy of a user's row the handler works with, `stale' (history)
\* that the row has been written since; `cred' is the caller's credential and,
\* once it is admitted, the key being rotated.
Job == [step: {"user", "admitted", "count", "write", "sessions",
               "login", "revoke", "replace"},
        cred: Creds \cup {None}, actor: Users \cup {None}, admin: BOOLEAN,
        late: BOOLEAN, target: Users \cup {None}, row: Row \cup {None},
        stale: BOOLEAN, edits: BOOLEAN]

NoJob == [step |-> "user", cred |-> None, actor |-> None, admin |-> FALSE,
          late |-> FALSE, target |-> None, row |-> None, stale |-> FALSE,
          edits |-> FALSE]

ASSUME NullAssumption == None \notin Cred \cup Job \cup Row
-----------------------------------------------------------------------------
At(w, step) == job[w] # None /\ job[w].step = step

Done(w) == job' = [job EXCEPT ![w] = None]

NewCred(kind, u, life, from) ==
  [kind |-> kind, user |-> u, revoked |-> FALSE, life |-> life, from |-> from]

Free == {c \in Creds : creds[c] = None}

Issue(kind, u, life, from) ==
  /\ Free # {}
  /\ creds' = [creds EXCEPT ![CHOOSE c \in Free : TRUE] =
                 NewCred(kind, u, life, from)]

\* Mutated form: a deactivated admin still counts.
AdminsByRole == {u \in Users : users[u] # None /\ users[u].role = "admin"}

\* countAdmins
Admins ==
  {u \in Users : users[u] # None /\ users[u].role = "admin" /\ users[u].active}

\* The rows every other worker has read, or counted, are out of date.
Overtaken(w) ==
  [v \in Workers |->
     IF v # w /\ job[v] # None /\ job[v].row # None
       THEN [job[v] EXCEPT !.stale = TRUE] ELSE job[v]]

-----------------------------------------------------------------------------
\* Bootstrap has run.
Init ==
  /\ users = [u \in Users |-> IF u = First
                THEN [role |-> "admin", active |-> TRUE] ELSE None]
  /\ creds = [c \in Creds |-> None]
  /\ job = [w \in Workers |-> None]
  /\ gone = {}
  /\ out = {}
  /\ clash = FALSE

-----------------------------------------------------------------------------
(* Authentication.                                                         *)

\* The credential is looked up; the user it belongs to by a second query.
Authenticate(w, c) ==
  /\ job[w] = None
  /\ creds[c] # None
  /\ ~creds[c].revoked
  /\ creds[c].life # Gone
  /\ job' = [job EXCEPT ![w] = [NoJob EXCEPT !.cred = c,
       !.late = creds[c].kind = "session" /\ creds[c].life = Late]]
  /\ UNCHANGED <<users, creds, history>>

\* Mutated form: the account is found, its active flag ignored.
AdmitFound(w) == users[creds[job[w].cred].user] # None

Admit(w) == users[creds[job[w].cred].user].active

\* Mutated form: the session is stored again as it was read.
ExtendSessionWhole(c) ==
  [creds EXCEPT ![c].life = Whole, ![c].revoked = FALSE]

ExtendSession(c) == [creds EXCEPT ![c].life = Whole]

\* An active user is admitted, and a session in its second half extended: a
\* call of its own, which comes after this one and does not depend on it.  A
\* change of the password (handleChangePassword) works on the row read here.
GetUser(w) ==
  LET c == job[w].cred
      u == creds[c].user IN
  /\ At(w, "user")
  /\ Admit(w)
  /\ creds' = IF job[w].late THEN ExtendSession(c) ELSE creds
  /\ \/ job' = [job EXCEPT ![w] =
          [NoJob EXCEPT !.step = "admitted", !.actor = u,
                        !.admin = users[u].role = "admin"]]
     \/ job' = [job EXCEPT ![w] =
          [NoJob EXCEPT !.step = "write", !.target = u, !.row = users[u]]]
  /\ UNCHANGED <<users, history>>

\* The master token stands for an admin without an account.
MasterToken(w) ==
  /\ job[w] = None
  /\ job' = [job EXCEPT ![w] = [NoJob EXCEPT !.step = "admitted",
                                             !.admin = TRUE]]
  /\ UNCHANGED <<users, creds, history>>

\* A password is checked against the row, or an SSO subject is looked up.
Login(w, u) ==
  /\ job[w] = None
  /\ users[u] # None
  /\ users[u].active
  /\ job' = [job EXCEPT ![w] = [NoJob EXCEPT !.step = "login", !.target = u]]
  /\ UNCHANGED <<users, creds, history>>

\* An SSO subject seen for the first time; the store is not empty any more.
UpsertSSOUser(w, u) ==
  /\ job[w] = None
  /\ users[u] = None
  /\ users' = [users EXCEPT ![u] = [role |-> "user", active |-> TRUE]]
  /\ job' = [job EXCEPT ![w] = [NoJob EXCEPT !.step = "login", !.target = u]]
  /\ UNCHANGED <<creds, history>>

IssueSession(w) ==
  /\ At(w, "login")
  /\ Issue("session", job[w].target, Whole, None)
  /\ Done(w)
  /\ UNCHANGED <<users, history>>

\* Logging out needs no authentication, only the cookie.
Logout(c) ==
  /\ creds[c] # None
  /\ creds[c].kind = "session"
  /\ ~creds[c].revoked
  /\ creds' = [creds EXCEPT ![c].revoked = TRUE]
  /\ gone' = gone \cup {c}
  /\ UNCHANGED <<users, job, out, clash>>

-----------------------------------------------------------------------------
(* Accounts: PUT /api/users/{id}, POST /api/users, and the two requests      *)
(* with which users change their own row.                                    *)

Asked(row, e) ==
  [role   |-> IF e.role = None THEN row.role ELSE e.role,
   active |-> IF e.active = None THEN row.active ELSE e.active]

\* Admins are counted before one of them is demoted or deactivated.
MustCount(row, e) ==
  \/ e.role \notin {None, "admin"} /\ row.role = "admin"
  \/ e.active = FALSE /\ Asked(row, e).role = "admin"

UpdateUser(w, t, e) ==
  /\ At(w, "admitted")
  /\ job[w].admin
  /\ users[t] # None
  /\ job' = [job EXCEPT ![w] =
       [NoJob EXCEPT !.step = IF MustCount(users[t], e) THEN "count" ELSE "write",
                     !.target = t, !.row = Asked(users[t], e), !.edits = TRUE]]
  /\ UNCHANGED <<users, creds, history>>

Count(w) ==
  /\ At(w, "count")
  /\ Cardinality(Admins) > 1
  /\ job' = [job EXCEPT ![w].step = "write"]
  /\ UNCHANGED <<users, creds, history>>

\* Users change their own profile: the row is read again and written back as
\* a whole.
UpdateProfile(w) ==
  LET u == job[w].actor IN
  /\ At(w, "admitted")
  /\ u # None
  /\ job' = [job EXCEPT ![w] =
       [NoJob EXCEPT !.step = "write", !.target = u, !.row = users[u]]]
  /\ UNCHANGED <<users, creds, history>>

\* One UPDATE of role and active flag; the database refuses the role dba.
Write(w) ==
  LET t == job[w].target
      row == job[w].row IN
  /\ At(w, "write")
  /\ row.role \in Roles
  /\ users' = [users EXCEPT ![t] = row]
  /\ job' = [Overtaken(w) EXCEPT ![w] =
       IF job[w].edits /\ ~row.active
         THEN [NoJob EXCEPT !.step = "sessions", !.target = t] ELSE None]
  /\ clash' = (clash \/ job[w].stale)
  /\ out' = IF clash' THEN {}
            ELSE IF job[w].edits /\ row.active THEN out \ {t} ELSE out
  /\ UNCHANGED <<creds, gone>>

SessionsOf(u) ==
  {c \in Creds : creds[c] # None /\ creds[c].kind = "session"
                                 /\ creds[c].user = u}

\* RevokeUserSessions; the request succeeds also when this call fails.
RevokeSessions(w) ==
  LET t == job[w].target IN
  /\ At(w, "sessions")
  /\ \/ /\ creds' = [c \in Creds |-> IF c \in SessionsOf(t)
                                       THEN [creds[c] EXCEPT !.revoked = TRUE]
                                       ELSE creds[c]]
        /\ gone' = gone \cup SessionsOf(t)
     \/ UNCHANGED <<creds, gone>>
  /\ out' = IF clash \/ users[t].active THEN out ELSE out \cup {t}
  /\ Done(w)
  /\ UNCHANGED <<users, clash>>

\* Mutated form: the role is stored as the caller sent it.
AssignedAsAsked(role) == role

\* CreateLocalUser: anything it does not know becomes a user.
Assigned(role) == IF role \in Roles \cup {"dba"} THEN role ELSE "user"

\* The database refuses the role dba.
CreateUser(w, u, role) ==
  /\ At(w, "admitted")
  /\ job[w].admin
  /\ users[u] = None
  /\ Assigned(role) # "dba"
  /\ users' = [users EXCEPT ![u] = [role |-> Assigned(role), active |-> TRUE]]
  /\ Done(w)
  /\ UNCHANGED <<creds, history>>

-----------------------------------------------------------------------------
(* MCP keys: an admin administers everybody's, others their own.             *)

IssueKey(w, t, life) ==
  /\ At(w, "admitted")
  /\ t = job[w].actor \/ (job[w].admin /\ users[t] # None)
  /\ Issue("key", t, life, None)
  /\ Done(w)
  /\ UNCHANGED <<users, history>>

KeyAccess(w, k) ==
  /\ At(w, "admitted")
  /\ creds[k] # None
  /\ creds[k].kind = "key"
  /\ job[w].admin \/ creds[k].user = job[w].actor

RevokeKey(w, k) ==
  /\ KeyAccess(w, k)
  /\ creds' = [creds EXCEPT ![k].revoked = TRUE]
  /\ gone' = gone \cup {k}
  /\ Done(w)
  /\ UNCHANGED <<users, out, clash>>

RotateMCPKey(w, k) ==
  /\ KeyAccess(w, k)
  /\ job' = [job EXCEPT ![w] = [NoJob EXCEPT !.step = "revoke", !.cred = k]]
  /\ UNCHANGED <<users, creds, history>>

\* Mutated form: a key that has expired is left as it is.
RotateRevokeActive(w) ==
  LET k == job[w].cred
      live == creds[k].life # Gone IN
  /\ At(w, "revoke")
  /\ creds' = [creds EXCEPT ![k].revoked = @ \/ live]
  /\ gone' = IF live THEN gone \cup {k} ELSE gone
  /\ job' = [job EXCEPT ![w].step = "replace"]
  /\ UNCHANGED <<users, out, clash>>

\* A key that was revoked already is not an error here.
RotateRevoke(w) ==
  LET k == job[w].cred IN
  /\ At(w, "revoke")
  /\ creds' = [creds EXCEPT ![k].revoked = TRUE]
  /\ gone' = gone \cup {k}
  /\ job' = [job EXCEPT ![w].step = "replace"]
  /\ UNCHANGED <<users, out, clash>>

\* The replacement keeps what is left of the lifetime, a session's if nothing
\* is.  When it cannot be stored the old key is gone all the same.
RotateIssue(w) ==
  LET k == job[w].cred
      left == creds[k].life IN
  /\ At(w, "replace")
  /\ Issue("key", creds[k].user, IF left = Gone THEN Whole ELSE left, k)
  /\ Done(w)
  /\ UNCHANGED <<users, history>>

-----------------------------------------------------------------------------
\* A request that only reads, is refused, or whose next call fails: every
\* handler returns there, and nothing it has stored is undone.
Answer(w) ==
  /\ job[w] # None
  /\ job[w].step # "sessions"
  /\ Done(w)
  /\ UNCHANGED <<users, creds, history>>

Tick ==
  /\ creds' = [c \in Creds |->
                 IF creds[c] # None /\ creds[c].life \in {Late, Whole}
                   THEN [creds[c] EXCEPT !.life = @ - 1] ELSE creds[c]]
  /\ creds' # creds
  /\ UNCHANGED <<users, job, history>>

-----------------------------------------------------------------------------
Request(w) ==
  \/ \E c \in Creds : Authenticate(w, c)
  \/ GetUser(w) \/ MasterToken(w)
  \/ \E u \in Users : Login(w, u) \/ UpsertSSOUser(w, u)
  \/ IssueSession(w)
  \/ \E t \in Users, e \in Edits : UpdateUser(w, t, e)
  \/ Count(w) \/ UpdateProfile(w) \/ Write(w) \/ RevokeSessions(w)
  \/ \E u \in Users, role \in AskedRoles : CreateUser(w, u, role)
  \/ \E t \in Users, life \in KeyLives : IssueKey(w, t, life)
  \/ \E k \in Creds : RevokeKey(w, k) \/ RotateMCPKey(w, k)
  \/ RotateRevoke(w) \/ RotateIssue(w) \/ Answer(w)

Next ==
  \/ \E w \in Workers : Request(w)
  \/ \E c \in Creds : Logout(c)
  \/ Tick

Spec == Init /\ [][Next]_vars

-----------------------------------------------------------------------------
TypeOK ==
  /\ users \in [Users -> User \cup {None}]
  /\ creds \in [Creds -> Cred \cup {None}]
  /\ job \in [Workers -> Job \cup {None}]
  /\ gone \subseteq Creds
  /\ out \subseteq Users
  /\ clash \in BOOLEAN

-----------------------------------------------------------------------------
(* Safety.                                                                 *)

\* Somebody can administer the server.
AdminAlwaysRemains ==
  \E u \in Users : users[u] # None /\ users[u] = [role |-> "admin", active |-> TRUE]

\* As long as no request writes a row over one it has not seen, an active admin
\* remains, whatever combination of role and active flag is asked for and
\* whoever asks (the counts in PUT /api/users/{id}).
AdminRemains == clash \/ AdminAlwaysRemains

\* What was revoked is never accepted again: not by a session that is being
\* extended, not when a key is rotated twice, not when the user comes back
\* (Authenticate, RevokeSession, RevokeUserSessions, RevokeKey).
RevokedStaysOut ==
  [][\A w \in Workers :
       job[w] = None /\ At(w, "user")'
         => job'[w].cred \notin gone]_vars

\* A deactivated user is not admitted, by session or key, until an admin
\* activates the account again (Authenticate, AuthenticateKey read the user
\* for every request).
DeactivatedStaysOut ==
  [][\A w \in Workers :
       At(w, "user") /\ At(w, "admitted")' /\ ~clash
         => creds[job[w].cred].user \notin out]_vars

\* A key is replaced only after it was revoked, expired or not, whoever rotates
\* or revokes it meanwhile (RotateMCPKey).
ReplacedKeysAreRevoked ==
  \A c \in Creds :
    creds[c] # None /\ creds[c].from # None => creds[creds[c].from].revoked
=============================================================================
