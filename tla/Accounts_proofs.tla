-------------------------- MODULE Accounts_proofs ---------------------------
(* What administering accounts preserves, for any number of workers, users   *)
(* and credentials, every set of lifetimes and every set of edits.           *)
EXTENDS Accounts, FiniteSetTheorems, TLAPS

-----------------------------------------------------------------------------
(* The types, and what a job relies on between its steps.                    *)

\* A worker refers to credentials and accounts that exist: nothing is deleted.
Carries(w) ==
  LET j == job[w] IN
  j # None =>
    /\ j.step \in {"user", "revoke", "replace"} =>
         j.cred \in Creds /\ creds[j.cred] # None
    /\ j.step = "replace" => creds[j.cred].revoked
    /\ j.step \in {"count", "write"} => j.row \in Row
    /\ j.step \in {"count", "write", "sessions", "login"} =>
         j.target \in Users /\ users[j.target] # None
    /\ j.actor # None => users[j.actor] # None

\* Every credential belongs to an account.
Owned == \A c \in Creds : creds[c] # None => users[creds[c].user] # None

Typed ==
  /\ TypeOK
  /\ Owned
  /\ \A w \in Workers : Carries(w)

\* No step removes an account or a credential, gives a credential to somebody
\* else or takes its revocation back; a new credential replaces a revoked one,
\* or none; and what is recorded as revoked was.
Kept ==
  /\ \A u \in Users : users[u] # None => users'[u] # None
  /\ \A c \in Creds :
       creds[c] # None =>
         /\ creds'[c] # None
         /\ creds'[c].user = creds[c].user
         /\ creds'[c].from = creds[c].from
         /\ creds[c].revoked => creds'[c].revoked
  /\ \A c \in Creds :
       creds[c] = None /\ creds'[c] # None /\ creds'[c].from # None
         => creds[creds'[c].from] # None /\ creds[creds'[c].from].revoked
  /\ \A c \in gone' \ gone : creds'[c] # None /\ creds'[c].revoked

\* The jobs of other workers are left alone, but for the history.
Others(w) ==
  \A v \in Workers \ {w} :
    \/ job'[v] = job[v]
    \/ job[v] # None /\ job[v].row # None
         /\ job'[v] = [job[v] EXCEPT !.stale = TRUE]

LEMMA NoneIsNothing ==
  /\ None \notin Cred
  /\ None \notin Job
  /\ None \notin Row
  /\ None \notin User
  /\ User \subseteq Row
BY NullAssumption DEF User, Row

\* What is asked for is a row the database may refuse, no more.
LEMMA AskedIsRow ==
  ASSUME NEW row \in User, NEW e \in Edits
  PROVE  Asked(row, e) \in Row
<1>1. e \in [role: Roles \cup {"dba", None}, active: BOOLEAN \cup {None}]
  BY EditsAssumption
<1>2. (IF e.role = None THEN row.role ELSE e.role) \in Roles \cup {"dba"}
  BY <1>1 DEF User
<1>3. (IF e.active = None THEN row.active ELSE e.active) \in BOOLEAN
  BY <1>1, Zenon DEF User
<1> QED
  BY <1>2, <1>3 DEF Asked, Row

\* A credential is issued under an id that was free.
LEMMA IssueStores ==
  ASSUME TypeOK, NEW kind \in {"session", "key"}, NEW u \in Users,
         NEW life \in Lives, NEW from \in Creds \cup {None},
         Issue(kind, u, life, from)
  PROVE  \E c \in Creds :
           /\ creds[c] = None
           /\ creds' = [creds EXCEPT ![c] = NewCred(kind, u, life, from)]
           /\ creds' \in [Creds -> Cred \cup {None}]
<1> DEFINE d == CHOOSE c \in Free : TRUE
<1>1. d \in Free /\ creds' = [creds EXCEPT ![d] = NewCred(kind, u, life, from)]
  BY Zenon DEF Issue
<1>2. d \in Creds /\ creds[d] = None
  BY <1>1 DEF Free
<1>3. NewCred(kind, u, life, from) \in Cred
  BY DEF NewCred, Cred
<1>4. creds' \in [Creds -> Cred \cup {None}]
  BY <1>1, <1>2, <1>3 DEF TypeOK
<1> QED
  BY <1>1, <1>2, <1>4

LEMMA InitTyped == Init => Typed
<1> SUFFICES ASSUME Init PROVE Typed
  OBVIOUS
<1>1. TypeOK
  BY UsersAssumption DEF Init, TypeOK, User, Roles
<1>2. Owned /\ \A w \in Workers : Carries(w)
  BY DEF Init, Owned, Carries
<1> QED
  BY <1>1, <1>2 DEF Typed

\* What a step that only moves worker w on to job j has to show.
CarriedBy(j) ==
  /\ j \in Job \cup {None}
  /\ j # None =>
    /\ j.step \in {"user", "revoke", "replace"} =>
         j.cred \in Creds /\ creds[j.cred] # None
    /\ j.step = "replace" => creds[j.cred].revoked
    /\ j.step \in {"count", "write"} => j.row \in Row
    /\ j.step \in {"count", "write", "sessions", "login"} =>
         j.target \in Users /\ users[j.target] # None
    /\ j.actor # None => users[j.actor] # None

\* The invariant of a step of worker w, the other workers left to OthersCarry.
Sound(w) == TypeOK' /\ Owned' /\ Kept /\ Others(w) /\ Carries(w)'

LEMMA MovesOn ==
  ASSUME Typed, NEW w \in Workers, NEW j, CarriedBy(j),
         job' = [job EXCEPT ![w] = j], UNCHANGED <<users, creds, history>>
  PROVE  Sound(w)
<1>1. TypeOK'
  BY DEF Typed, TypeOK, CarriedBy, history
<1>2. job'[w] = j
  BY DEF Typed, TypeOK
<1>3. Carries(w)'
  BY <1>2 DEF Carries, CarriedBy
<1>4. Others(w)
  BY DEF Typed, TypeOK, Others
<1>5. Owned' /\ Kept
  BY DEF Typed, Owned, Kept, history
<1> QED
  BY <1>1, <1>3, <1>4, <1>5 DEF Sound

\* A worker without a job relies on nothing.
LEMMA DoneCarries == CarriedBy(None)
BY DEF CarriedBy

LEMMA AuthenticateSound ==
  ASSUME Typed, NEW w \in Workers, NEW c \in Creds, Authenticate(w, c)
  PROVE  Sound(w)
<1> DEFINE j == [NoJob EXCEPT !.cred = c,
       !.late = creds[c].kind = "session" /\ creds[c].life = Late]
<1>1. (creds[c].kind = "session" /\ creds[c].life = Late) \in BOOLEAN
  OBVIOUS
<1>2. j \in Job /\ j.cred = c /\ j.step = "user" /\ j.actor = None
  BY <1>1 DEF NoJob, Job
<1> HIDE DEF j
<1>3. CarriedBy(j)
  BY <1>2 DEF CarriedBy, Authenticate
<1>4. job' = [job EXCEPT ![w] = j] /\ UNCHANGED <<users, creds, history>>
  BY DEF Authenticate, j
<1> QED
  BY <1>3, <1>4, MovesOn

LEMMA MasterTokenSound ==
  ASSUME Typed, NEW w \in Workers, MasterToken(w)
  PROVE  Sound(w)
<1> DEFINE j == [NoJob EXCEPT !.step = "admitted", !.admin = TRUE]
<1>1. CarriedBy(j)
  BY DEF NoJob, Job, CarriedBy
<1> QED
  BY <1>1, MovesOn DEF MasterToken

LEMMA LoginSound ==
  ASSUME Typed, NEW w \in Workers, NEW u \in Users, Login(w, u)
  PROVE  Sound(w)
<1> DEFINE j == [NoJob EXCEPT !.step = "login", !.target = u]
<1>1. CarriedBy(j)
  BY DEF NoJob, Job, CarriedBy, Login
<1> QED
  BY <1>1, MovesOn DEF Login

LEMMA CountSound ==
  ASSUME Typed, NEW w \in Workers, Count(w)
  PROVE  Sound(w)
<1> DEFINE j == [job[w] EXCEPT !.step = "write"]
<1>1. job[w] \in Job /\ job[w].step = "count"
  BY NoneIsNothing DEF Count, At, Typed, TypeOK
<1>2. CarriedBy(j)
  BY <1>1, NoneIsNothing DEF Typed, Carries, CarriedBy, Job
<1>3. job' = [job EXCEPT ![w] = j]
  BY <1>1 DEF Count, Typed, TypeOK
<1> QED
  BY <1>2, <1>3, MovesOn DEF Count

LEMMA UpdateUserSound ==
  ASSUME Typed, NEW w \in Workers, NEW t \in Users, NEW e \in Edits,
         UpdateUser(w, t, e)
  PROVE  Sound(w)
<1> DEFINE step == IF MustCount(users[t], e) THEN "count" ELSE "write"
           row == Asked(users[t], e)
           j == [NoJob EXCEPT !.step = step, !.target = t, !.row = row,
                              !.edits = TRUE]
<1>1. row \in Row
  BY AskedIsRow DEF UpdateUser, Typed, TypeOK
<1>2. step \in {"count", "write"}
  OBVIOUS
<1>3. job' = [job EXCEPT ![w] = j] /\ users[t] # None
      /\ UNCHANGED <<users, creds, history>>
  BY DEF UpdateUser
<1> HIDE DEF step, row
<1>4. CarriedBy(j)
  BY <1>1, <1>2, <1>3 DEF CarriedBy, NoJob, Job
<1> QED
  BY <1>3, <1>4, MovesOn

LEMMA UpdateProfileSound ==
  ASSUME Typed, NEW w \in Workers, UpdateProfile(w)
  PROVE  Sound(w)
<1> DEFINE u == job[w].actor
           j == [NoJob EXCEPT !.step = "write", !.target = u, !.row = users[u]]
<1>1. u \in Users /\ users[u] # None
  BY DEF UpdateProfile, At, Typed, TypeOK, Carries, Job
<1>2. users[u] \in Row
  BY <1>1, NoneIsNothing DEF Typed, TypeOK
<1>3. CarriedBy(j)
  BY <1>1, <1>2 DEF CarriedBy, NoJob, Job
<1> QED
  BY <1>3, MovesOn DEF UpdateProfile

LEMMA RotateMCPKeySound ==
  ASSUME Typed, NEW w \in Workers, NEW k \in Creds, RotateMCPKey(w, k)
  PROVE  Sound(w)
<1> DEFINE j == [NoJob EXCEPT !.step = "revoke", !.cred = k]
<1>1. CarriedBy(j)
  BY DEF CarriedBy, NoJob, Job, RotateMCPKey, KeyAccess
<1> QED
  BY <1>1, MovesOn DEF RotateMCPKey

LEMMA AnswerSound ==
  ASSUME Typed, NEW w \in Workers, Answer(w)
  PROVE  Sound(w)
BY DoneCarries, MovesOn DEF Answer, Done

\* A revocation leaves the rest of a credential as it is.
LEMMA RevokedIsKept ==
  ASSUME Typed, NEW S \in SUBSET Creds,
         \A c \in S : creds[c] # None,
         creds' = [c \in Creds |-> IF c \in S
                     THEN [creds[c] EXCEPT !.revoked = TRUE] ELSE creds[c]]
  PROVE  /\ creds' \in [Creds -> Cred \cup {None}]
         /\ \A c \in Creds : creds[c] # None =>
              /\ creds'[c] # None
              /\ creds'[c].user = creds[c].user
              /\ creds'[c].from = creds[c].from
              /\ creds[c].revoked => creds'[c].revoked
         /\ \A c \in Creds : creds'[c] # None => creds[c] # None
         /\ \A c \in S : creds'[c].revoked
<1>1. \A c \in Creds : creds[c] # None => creds[c] \in Cred
  BY DEF Typed, TypeOK
<1>2. \A c \in S : /\ [creds[c] EXCEPT !.revoked = TRUE] \in Cred
                   /\ [creds[c] EXCEPT !.revoked = TRUE].revoked
                   /\ [creds[c] EXCEPT !.revoked = TRUE].user = creds[c].user
                   /\ [creds[c] EXCEPT !.revoked = TRUE].from = creds[c].from
  BY <1>1 DEF Cred
<1> QED
  BY <1>1, <1>2, NoneIsNothing

\* A new credential of an existing account disturbs no other.
LEMMA IssueSound ==
  ASSUME Typed, NEW w \in Workers, NEW kind \in {"session", "key"},
         NEW u \in Users, users[u] # None,
         NEW life \in Lives, NEW from \in Creds \cup {None},
         from # None => creds[from] # None /\ creds[from].revoked,
         Issue(kind, u, life, from), Done(w), UNCHANGED <<users, history>>
  PROVE  Sound(w)
<1>1. PICK c \in Creds :
        /\ creds[c] = None
        /\ creds' = [creds EXCEPT ![c] = NewCred(kind, u, life, from)]
        /\ creds' \in [Creds -> Cred \cup {None}]
  BY IssueStores DEF Typed
<1>2. job' = [job EXCEPT ![w] = None]
  BY DEF Done
<1>3. TypeOK'
  BY <1>1, <1>2 DEF Typed, TypeOK, history
<1>4. Kept
  BY <1>1 DEF Kept, Typed, TypeOK, NewCred, history
<1>5. Owned'
  BY <1>1 DEF Owned, Typed, TypeOK, NewCred
<1>6. Others(w) /\ Carries(w)'
  BY <1>2 DEF Others, Carries, Typed, TypeOK
<1> QED
  BY <1>3, <1>4, <1>5, <1>6 DEF Sound

LEMMA IssueSessionSound ==
  ASSUME Typed, NEW w \in Workers, IssueSession(w)
  PROVE  Sound(w)
<1>1. job[w].target \in Users /\ users[job[w].target] # None
  BY DEF IssueSession, At, Typed, Carries
<1>2. Whole \in Lives
  BY DEF Lives
<1> QED
  BY <1>1, <1>2, IssueSound DEF IssueSession

LEMMA IssueKeySound ==
  ASSUME Typed, NEW w \in Workers, NEW t \in Users, NEW life \in KeyLives,
         IssueKey(w, t, life)
  PROVE  Sound(w)
<1>1. users[t] # None
  BY NoneIsNothing, UsersAssumption, NoneAssumption
     DEF IssueKey, At, Typed, TypeOK, Carries
<1>2. life \in Lives
  BY LivesAssumption DEF Lives
<1> QED
  BY <1>1, <1>2, IssueSound DEF IssueKey

LEMMA RotateIssueSound ==
  ASSUME Typed, NEW w \in Workers, RotateIssue(w)
  PROVE  Sound(w)
<1> DEFINE k == job[w].cred
           life == IF creds[k].life = Gone THEN Whole ELSE creds[k].life
<1>1. k \in Creds /\ creds[k] # None /\ creds[k].revoked
  BY DEF RotateIssue, At, Typed, Carries
<1>2. creds[k] \in Cred
  BY <1>1 DEF Typed, TypeOK
<1>3. creds[k].user \in Users /\ users[creds[k].user] # None /\ life \in Lives
  BY <1>1, <1>2 DEF Cred, Lives, Typed, Owned
<1>4. Issue("key", creds[k].user, life, k) /\ Done(w) /\ UNCHANGED <<users, history>>
  BY DEF RotateIssue
<1> HIDE DEF k, life
<1> QED
  BY <1>1, <1>3, <1>4, IssueSound

LEMMA GetUserSound ==
  ASSUME Typed, NEW w \in Workers, GetUser(w)
  PROVE  Sound(w)
<1> DEFINE c == job[w].cred
           u == creds[c].user
           j1 == [NoJob EXCEPT !.step = "admitted", !.actor = u,
                               !.admin = users[u].role = "admin"]
           j2 == [NoJob EXCEPT !.step = "write", !.target = u, !.row = users[u]]
<1>1. c \in Creds /\ creds[c] # None
  BY DEF GetUser, At, Typed, Carries
<1>2. creds[c] \in Cred
  BY <1>1 DEF Typed, TypeOK
<1>3. u \in Users /\ users[u] # None /\ users[u] \in Row
  BY <1>1, <1>2, NoneIsNothing DEF Typed, TypeOK, Owned, Cred
<1>4. (users[u].role = "admin") \in BOOLEAN
  OBVIOUS
<1>5. PICK j \in {j1, j2} : job' = [job EXCEPT ![w] = j]
  BY DEF GetUser
<1>6. CarriedBy(j1)
  BY <1>1, <1>3, <1>4 DEF CarriedBy, NoJob, Job
<1>7. CarriedBy(j2)
  BY <1>1, <1>3 DEF CarriedBy, NoJob, Job
<1>8. CarriedBy(j)
  BY <1>5, <1>6, <1>7
<1>9. creds' = IF job[w].late THEN ExtendSession(c) ELSE creds
  BY DEF GetUser
<1>10. PICK r \in Cred : /\ r.user = creds[c].user
                         /\ r.from = creds[c].from
                         /\ r.revoked = creds[c].revoked
                         /\ creds' = [creds EXCEPT ![c] = r]
  <2>1. CASE job[w].late
    <3>1. [creds[c] EXCEPT !.life = Whole] \in Cred
      BY <1>2 DEF Cred, Lives
    <3>2. creds' = [creds EXCEPT ![c] = [creds[c] EXCEPT !.life = Whole]]
      BY <1>1, <1>9, <2>1 DEF ExtendSession
    <3> QED
      BY <1>2, <3>1, <3>2 DEF Cred
  <2>2. CASE ~job[w].late
    BY <1>1, <1>2, <1>9, <2>2 DEF Typed, TypeOK
  <2> QED
    BY <2>1, <2>2
<1>11. /\ creds' \in [Creds -> Cred \cup {None}]
       /\ \A d \in Creds :
            /\ creds[d] # None <=> creds'[d] # None
            /\ creds[d] # None => /\ creds'[d].user = creds[d].user
                                  /\ creds'[d].from = creds[d].from
                                  /\ creds'[d].revoked = creds[d].revoked
  BY <1>1, <1>2, <1>10, NoneIsNothing DEF Typed, TypeOK
<1>12. UNCHANGED <<users, history>>
  BY DEF GetUser
<1> HIDE DEF c, u, j1, j2
<1>13. TypeOK'
  BY <1>5, <1>8, <1>11, <1>12 DEF Typed, TypeOK, CarriedBy, history
<1>14. Carries(w)'
  BY <1>5, <1>8, <1>11, <1>12 DEF Carries, CarriedBy, Typed, TypeOK
<1>15. Owned' /\ Kept
  BY <1>11, <1>12 DEF Owned, Kept, Typed, TypeOK, history
<1>16. Others(w)
  BY <1>5 DEF Others, Typed, TypeOK
<1> QED
  BY <1>13, <1>14, <1>15, <1>16 DEF Sound

LEMMA UpsertSSOUserSound ==
  ASSUME Typed, NEW w \in Workers, NEW u \in Users, UpsertSSOUser(w, u)
  PROVE  Sound(w)
<1> DEFINE row == [role |-> "user", active |-> TRUE]
           j == [NoJob EXCEPT !.step = "login", !.target = u]
<1>1. row \in User /\ row # None
  BY NoneIsNothing DEF User, Roles
<1>2. users' = [users EXCEPT ![u] = row] /\ users[u] = None
      /\ job' = [job EXCEPT ![w] = j] /\ UNCHANGED <<creds, history>>
  BY DEF UpsertSSOUser
<1>3. /\ j \in Job
      /\ j.step = "login" /\ j.target = u /\ j.actor = None
  BY DEF NoJob, Job
<1> HIDE DEF row, j
<1>4. TypeOK'
  BY <1>1, <1>2, <1>3 DEF Typed, TypeOK, history
<1>5. Owned' /\ Kept
  BY <1>1, <1>2 DEF Owned, Kept, Typed, TypeOK, Cred, history
<1>6. Carries(w)'
  BY <1>1, <1>2, <1>3 DEF Carries, Typed, TypeOK
<1>7. Others(w)
  BY <1>2 DEF Others, Typed, TypeOK
<1> QED
  BY <1>4, <1>5, <1>6, <1>7 DEF Sound

LEMMA CreateUserSound ==
  ASSUME Typed, NEW w \in Workers, NEW u \in Users, NEW role \in AskedRoles,
         CreateUser(w, u, role)
  PROVE  Sound(w)
<1> DEFINE row == [role |-> Assigned(role), active |-> TRUE]
<1>1. row \in User /\ row # None
  BY NoneIsNothing DEF CreateUser, Assigned, User, Roles
<1>2. users' = [users EXCEPT ![u] = row] /\ users[u] = None
      /\ job' = [job EXCEPT ![w] = None] /\ UNCHANGED <<creds, history>>
  BY DEF CreateUser, Done
<1> HIDE DEF row
<1>3. TypeOK'
  BY <1>1, <1>2 DEF Typed, TypeOK, history
<1>4. Owned' /\ Kept
  BY <1>1, <1>2 DEF Owned, Kept, Typed, TypeOK, Cred, history
<1>5. Carries(w)' /\ Others(w)
  BY <1>2 DEF Carries, Others, Typed, TypeOK
<1> QED
  BY <1>3, <1>4, <1>5 DEF Sound

\* Marking the rows other workers hold keeps their jobs.
LEMMA OvertakenJobs ==
  ASSUME TypeOK, NEW w \in Workers, NEW v \in Workers
  PROVE  /\ Overtaken(w) \in [Workers -> Job \cup {None}]
         /\ Overtaken(w)[v] = job[v] \/
              (job[v] # None /\ job[v].row # None
                 /\ Overtaken(w)[v] = [job[v] EXCEPT !.stale = TRUE])
<1>1. \A x \in Workers : job[x] # None => [job[x] EXCEPT !.stale = TRUE] \in Job
  BY DEF TypeOK, Job
<1> QED
  BY <1>1 DEF Overtaken, TypeOK

LEMMA WriteSound ==
  ASSUME Typed, NEW w \in Workers, Write(w)
  PROVE  Sound(w)
<1> DEFINE t == job[w].target
           row == job[w].row
           j == IF job[w].edits /\ ~row.active
                  THEN [NoJob EXCEPT !.step = "sessions", !.target = t]
                  ELSE None
<1>1. /\ t \in Users /\ users[t] # None /\ row \in User /\ row # None
      /\ job[w].stale \in BOOLEAN
  BY NoneIsNothing DEF Write, At, Typed, TypeOK, Carries, Job, Row, User
<1>2. users' = [users EXCEPT ![t] = row] /\ UNCHANGED <<creds, gone>>
  BY DEF Write
<1>3. job' = [Overtaken(w) EXCEPT ![w] = j]
  BY Zenon DEF Write
<1>4. /\ j \in Job \cup {None}
      /\ j # None => j.step = "sessions" /\ j.target = t /\ j.actor = None
  BY <1>1 DEF NoJob, Job
<1>5. clash' \in BOOLEAN /\ out' \subseteq Users
  BY <1>1 DEF Write, Typed, TypeOK
<1> HIDE DEF t, row, j
<1>6. Overtaken(w) \in [Workers -> Job \cup {None}]
  BY OvertakenJobs DEF Typed
<1>7. TypeOK'
  BY <1>1, <1>2, <1>3, <1>4, <1>5, <1>6 DEF Typed, TypeOK
<1>8. Owned' /\ Kept
  BY <1>1, <1>2 DEF Owned, Kept, Typed, TypeOK, Cred
<1>9. Carries(w)'
  BY <1>1, <1>2, <1>3, <1>4, <1>6 DEF Carries, Typed, TypeOK
<1>10. Others(w)
  <2> SUFFICES ASSUME NEW v \in Workers \ {w}
               PROVE  \/ job'[v] = job[v]
                      \/ job[v] # None /\ job[v].row # None
                           /\ job'[v] = [job[v] EXCEPT !.stale = TRUE]
    BY Zenon DEF Others
  <2>1. job'[v] = Overtaken(w)[v]
    BY <1>3, <1>6
  <2> QED
    BY <2>1, OvertakenJobs DEF Typed
<1> QED
  BY <1>7, <1>8, <1>9, <1>10 DEF Sound

LEMMA RevokeSessionsSound ==
  ASSUME Typed, NEW w \in Workers, RevokeSessions(w)
  PROVE  Sound(w)
<1> DEFINE t == job[w].target
           S == SessionsOf(t)
<1>1. t \in Users
  BY DEF RevokeSessions, At, Typed, Carries
<1>2. S \subseteq Creds /\ \A c \in S : creds[c] # None
  BY DEF SessionsOf
<1>3. users' = users /\ clash' = clash /\ job' = [job EXCEPT ![w] = None]
      /\ out' \subseteq out \cup {t} /\ gone' \subseteq gone \cup S
  BY DEF RevokeSessions, Done
<1>4. \/ creds' = [c \in Creds |-> IF c \in S
                     THEN [creds[c] EXCEPT !.revoked = TRUE] ELSE creds[c]]
      \/ creds' = creds /\ gone' = gone
  BY DEF RevokeSessions
<1> HIDE DEF S
<1>5. /\ creds' \in [Creds -> Cred \cup {None}]
      /\ Kept
      /\ \A c \in Creds : creds'[c] # None => creds[c] # None
  <2>1. CASE creds' = creds /\ gone' = gone
    BY <1>3, <2>1 DEF Kept, Typed, TypeOK
  <2>2. CASE creds' = [c \in Creds |-> IF c \in S
                     THEN [creds[c] EXCEPT !.revoked = TRUE] ELSE creds[c]]
    BY <1>2, <1>3, <2>2, RevokedIsKept DEF Kept
  <2> QED
    BY <1>4, <2>1, <2>2
<1>6. TypeOK'
  BY <1>1, <1>2, <1>3, <1>5 DEF Typed, TypeOK
<1>7. Owned'
  BY <1>3, <1>5 DEF Owned, Kept, Typed
<1>8. Others(w) /\ Carries(w)'
  BY <1>3 DEF Others, Carries, Typed, TypeOK
<1> QED
  BY <1>5, <1>6, <1>7, <1>8 DEF Sound

\* Revoking one credential, by a key's owner, an admin, a rotation or a logout.
LEMMA RevokeOne ==
  ASSUME Typed, NEW k \in Creds, creds[k] # None,
         creds' = [creds EXCEPT ![k].revoked = TRUE], gone' = gone \cup {k},
         UNCHANGED users
  PROVE  /\ creds' \in [Creds -> Cred \cup {None}]
         /\ Kept
         /\ Owned'
         /\ creds'[k].revoked
<1> DEFINE r == [creds[k] EXCEPT !.revoked = TRUE]
<1>1. creds[k] \in Cred
  BY DEF Typed, TypeOK
<1>2. r \in Cred /\ r.user = creds[k].user /\ r.from = creds[k].from /\ r.revoked
  BY <1>1 DEF Cred
<1>3. creds' = [creds EXCEPT ![k] = r]
  BY <1>1 DEF Typed, TypeOK
<1> HIDE DEF r
<1>4. creds' \in [Creds -> Cred \cup {None}] /\ creds'[k] = r
  BY <1>2, <1>3 DEF Typed, TypeOK
<1>5. \A c \in Creds \ {k} : creds'[c] = creds[c]
  BY <1>3 DEF Typed, TypeOK
<1>6. Kept
  <2>1. /\ \A c \in Creds : creds[c] # None => creds'[c] # None
        /\ \A c \in Creds : creds'[c] # None => creds[c] # None
        /\ \A c \in gone' \ gone : creds'[c] # None /\ creds'[c].revoked
    BY <1>2, <1>4, <1>5, NoneIsNothing
  <2> QED
    BY <1>2, <1>4, <1>5, <2>1 DEF Kept
<1>7. Owned'
  BY <1>2, <1>4, <1>5 DEF Typed, Owned
<1> QED
  BY <1>2, <1>4, <1>6, <1>7

LEMMA RevokeKeySound ==
  ASSUME Typed, NEW w \in Workers, NEW k \in Creds, RevokeKey(w, k)
  PROVE  Sound(w)
<1>1. /\ creds[k] # None
      /\ creds' = [creds EXCEPT ![k].revoked = TRUE]
      /\ gone' = gone \cup {k}
      /\ job' = [job EXCEPT ![w] = None]
      /\ UNCHANGED <<users, out, clash>>
  BY DEF RevokeKey, KeyAccess, Done
<1>2. creds' \in [Creds -> Cred \cup {None}] /\ Kept /\ Owned'
  BY <1>1, RevokeOne
<1>3. TypeOK' /\ Others(w) /\ Carries(w)'
  BY <1>1, <1>2 DEF Typed, TypeOK, Others, Carries
<1> QED
  BY <1>2, <1>3 DEF Sound

LEMMA RotateRevokeSound ==
  ASSUME Typed, NEW w \in Workers, RotateRevoke(w)
  PROVE  Sound(w)
<1> DEFINE k == job[w].cred
           j == [job[w] EXCEPT !.step = "replace"]
<1>1. k \in Creds /\ creds[k] # None /\ job[w] \in Job
  BY NoneIsNothing DEF RotateRevoke, At, Typed, TypeOK, Carries
<1>2. /\ creds' = [creds EXCEPT ![k].revoked = TRUE]
      /\ gone' = gone \cup {k}
      /\ UNCHANGED <<users, out, clash>>
  BY DEF RotateRevoke
<1>3. job' = [job EXCEPT ![w] = j]
  BY DEF RotateRevoke, Typed, TypeOK
<1>4. j \in Job /\ j.cred = k /\ j.step = "replace" /\ j.actor = job[w].actor
  BY <1>1 DEF Job
<1>5. creds' \in [Creds -> Cred \cup {None}] /\ Kept /\ Owned' /\ creds'[k].revoked
  BY <1>1, <1>2, RevokeOne
<1>6. job[w].actor # None => users[job[w].actor] # None
  BY <1>1, NoneIsNothing DEF Typed, Carries
<1> HIDE DEF k, j
<1>7. TypeOK'
  BY <1>1, <1>2, <1>3, <1>4, <1>5 DEF Typed, TypeOK
<1>8. Others(w)
  BY <1>3 DEF Others, Typed, TypeOK
<1>9. Carries(w)'
  BY <1>1, <1>2, <1>3, <1>4, <1>5, <1>6 DEF Carries, Kept, Typed, TypeOK
<1> QED
  BY <1>5, <1>7, <1>8, <1>9 DEF Sound

-----------------------------------------------------------------------------
\* Every step is sound for the worker that takes it.
LEMMA RequestSound ==
  ASSUME Typed, NEW w \in Workers, Request(w)
  PROVE  Sound(w)
<1>1. ASSUME NEW c \in Creds, Authenticate(w, c) PROVE Sound(w)
  BY <1>1, AuthenticateSound
<1>2. CASE GetUser(w)
  BY <1>2, GetUserSound
<1>3. CASE MasterToken(w)
  BY <1>3, MasterTokenSound
<1>4. ASSUME NEW u \in Users, Login(w, u) PROVE Sound(w)
  BY <1>4, LoginSound
<1>5. ASSUME NEW u \in Users, UpsertSSOUser(w, u) PROVE Sound(w)
  BY <1>5, UpsertSSOUserSound
<1>6. CASE IssueSession(w)
  BY <1>6, IssueSessionSound
<1>7. ASSUME NEW t \in Users, NEW e \in Edits, UpdateUser(w, t, e) PROVE Sound(w)
  BY <1>7, UpdateUserSound
<1>8. CASE Count(w)
  BY <1>8, CountSound
<1>9. CASE UpdateProfile(w)
  BY <1>9, UpdateProfileSound
<1>10. CASE Write(w)
  BY <1>10, WriteSound
<1>11. CASE RevokeSessions(w)
  BY <1>11, RevokeSessionsSound
<1>12. ASSUME NEW u \in Users, NEW role \in AskedRoles, CreateUser(w, u, role)
       PROVE  Sound(w)
  BY <1>12, CreateUserSound
<1>13. ASSUME NEW t \in Users, NEW life \in KeyLives, IssueKey(w, t, life)
       PROVE  Sound(w)
  BY <1>13, IssueKeySound
<1>14. ASSUME NEW k \in Creds, RevokeKey(w, k) PROVE Sound(w)
  BY <1>14, RevokeKeySound
<1>15. ASSUME NEW k \in Creds, RotateMCPKey(w, k) PROVE Sound(w)
  BY <1>15, RotateMCPKeySound
<1>16. CASE RotateRevoke(w)
  BY <1>16, RotateRevokeSound
<1>17. CASE RotateIssue(w)
  BY <1>17, RotateIssueSound
<1>18. CASE Answer(w)
  BY <1>18, AnswerSound
<1> QED
  BY Zenon, <1>1, <1>2, <1>3, <1>4, <1>5, <1>6, <1>7, <1>8, <1>9, <1>10, <1>11,
     <1>12, <1>13, <1>14, <1>15, <1>16, <1>17, <1>18 DEF Request

\* Logging out and the passing of time leave every job alone.
LEMMA LogoutSound ==
  ASSUME Typed, NEW c \in Creds, Logout(c)
  PROVE  TypeOK' /\ Owned' /\ Kept /\ job' = job
<1>1. /\ creds[c] # None
      /\ creds' = [creds EXCEPT ![c].revoked = TRUE]
      /\ gone' = gone \cup {c}
      /\ UNCHANGED <<users, job, out, clash>>
  BY DEF Logout
<1>2. creds' \in [Creds -> Cred \cup {None}] /\ Kept /\ Owned'
  BY <1>1, RevokeOne
<1> QED
  BY <1>1, <1>2 DEF Typed, TypeOK

LEMMA TickSound ==
  ASSUME Typed, Tick
  PROVE  TypeOK' /\ Owned' /\ Kept /\ job' = job
<1>1. \A c \in Creds : creds[c] # None => creds[c] \in Cred
  BY DEF Typed, TypeOK
<1>2. ASSUME NEW c \in Creds, creds[c] # None
      PROVE  /\ creds'[c] \in Cred
             /\ creds'[c].user = creds[c].user
             /\ creds'[c].from = creds[c].from
             /\ creds'[c].revoked = creds[c].revoked
  <2>1. CASE creds[c].life \in {Late, Whole}
    <3>1. creds[c].life - 1 \in Lives
      BY <2>1 DEF Lives, Gone, Late, Whole, Forever
    <3>2. creds'[c] = [creds[c] EXCEPT !.life = @ - 1]
      BY <1>2, <2>1 DEF Tick
    <3> QED
      BY <1>1, <1>2, <3>1, <3>2 DEF Cred
  <2>2. CASE creds[c].life \notin {Late, Whole}
    BY <1>1, <1>2, <2>2 DEF Tick
  <2> QED
    BY <2>1, <2>2
<1>3. \A c \in Creds : creds[c] = None => creds'[c] = None
  BY DEF Tick
<1>4. creds' \in [Creds -> Cred \cup {None}]
  BY <1>2, <1>3 DEF Tick
<1>5. UNCHANGED <<users, job, history>>
  BY DEF Tick
<1>6. TypeOK'
  BY <1>4, <1>5 DEF Typed, TypeOK, history
<1>7. Kept /\ Owned'
  BY <1>2, <1>3, <1>5, NoneIsNothing DEF Kept, Owned, Typed, TypeOK, history
<1> QED
  BY <1>5, <1>6, <1>7

\* A job outlives the steps of other workers.
LEMMA OthersCarry ==
  ASSUME Typed, Kept, NEW v \in Workers,
         \/ job'[v] = job[v]
         \/ job[v] # None /\ job[v].row # None
              /\ job'[v] = [job[v] EXCEPT !.stale = TRUE]
  PROVE  Carries(v)'
<1>1. job'[v] # None => job[v] # None /\ job[v] \in Job
  BY DEF Typed, TypeOK
<1>2. job'[v] # None =>
        /\ job'[v].step = job[v].step /\ job'[v].cred = job[v].cred
        /\ job'[v].row = job[v].row /\ job'[v].target = job[v].target
        /\ job'[v].actor = job[v].actor
  BY <1>1 DEF Job
<1>3. job[v] # None => job[v].actor \in Users \cup {None}
  BY <1>1, NoneIsNothing DEF Typed, TypeOK, Job
<1> QED
  BY <1>1, <1>2, <1>3 DEF Typed, Carries, Kept

LEMMA TypedNext == Typed /\ [Next]_vars => Typed' /\ Kept
<1> SUFFICES ASSUME Typed, [Next]_vars PROVE Typed' /\ Kept
  OBVIOUS
<1>1. CASE UNCHANGED vars
  BY <1>1 DEF Typed, TypeOK, Owned, Carries, Kept, vars
<1>2. ASSUME NEW w \in Workers, Request(w) PROVE Typed' /\ Kept
  <2>1. Sound(w)
    BY <1>2, RequestSound
  <2>2. ASSUME NEW v \in Workers \ {w} PROVE Carries(v)'
    BY <2>1, <2>2, OthersCarry DEF Sound, Others
  <2> QED
    BY <2>1, <2>2 DEF Sound, Typed
<1>3. ASSUME TypeOK', Owned', Kept, job' = job PROVE Typed' /\ Kept
  BY <1>3, OthersCarry DEF Typed
<1>4. ASSUME NEW c \in Creds, Logout(c) PROVE Typed' /\ Kept
  BY <1>3, <1>4, LogoutSound
<1>5. CASE Tick
  BY <1>3, <1>5, TickSound
<1> QED
  BY <1>1, <1>2, <1>4, <1>5 DEF Next

LEMMA AlwaysTyped == Spec => []Typed
<1>1. Typed /\ [Next]_vars => Typed'
  BY TypedNext
<1> QED
  BY <1>1, InitTyped, PTL DEF Spec

\* Type correctness: every handler passes on rows, ids and credentials of the
\* right kind, and a role the database refuses never reaches a stored row.
THEOREM TypeCorrect == Spec => []TypeOK
BY AlwaysTyped, PTL DEF Typed

-----------------------------------------------------------------------------
(* Revocation.                                                             *)

\* Replaced keys and credentials that were revoked exist, and stay revoked.
Revocations ==
  /\ \A c \in Creds :
       creds[c] # None /\ creds[c].from # None
         => creds[creds[c].from] # None /\ creds[creds[c].from].revoked
  /\ \A c \in gone : creds[c] # None /\ creds[c].revoked

LEMMA RevocationsNext ==
  Typed /\ Revocations /\ [Next]_vars => Revocations'
<1> SUFFICES ASSUME Typed, Revocations, [Next]_vars PROVE Revocations'
  OBVIOUS
<1>1. Typed' /\ Kept
  BY TypedNext
<1>2. ASSUME NEW c \in Creds, creds'[c] # None, creds'[c].from # None
      PROVE  creds'[creds'[c].from] # None /\ creds'[creds'[c].from].revoked
  <2>1. creds'[c].from \in Creds
    BY <1>1, <1>2 DEF Typed, TypeOK, Cred
  <2>2. creds[creds'[c].from] # None /\ creds[creds'[c].from].revoked
    BY <1>1, <1>2 DEF Revocations, Kept
  <2> QED
    BY <1>1, <2>1, <2>2 DEF Kept
<1>3. ASSUME NEW c \in gone' PROVE creds'[c] # None /\ creds'[c].revoked
  BY <1>1, <1>3 DEF Revocations, Kept, Typed, TypeOK
<1> QED
  BY <1>2, <1>3 DEF Revocations

LEMMA AlwaysRevocations == Spec => [](Typed /\ Revocations)
<1>1. Init => Revocations
  BY DEF Init, Revocations
<1>2. Typed /\ [Next]_vars => Typed'
  BY TypedNext
<1> QED
  BY <1>1, <1>2, InitTyped, RevocationsNext, PTL DEF Spec

\* A key is replaced only after it was revoked, expired or not, whoever rotates
\* or revokes it meanwhile (RotateMCPKey).
THEOREM KeysReplaced == Spec => []ReplacedKeysAreRevoked
<1>1. Revocations => ReplacedKeysAreRevoked
  BY DEF Revocations, ReplacedKeysAreRevoked
<1> QED
  BY <1>1, AlwaysRevocations, PTL

\* A job begins with a credential only in Authenticate, which refuses what was
\* revoked.
LEMMA BeginsAccepted ==
  Typed /\ Revocations /\ [Next]_vars =>
    [\A w \in Workers :
       job[w] = None /\ At(w, "user")' => job'[w].cred \notin gone]_vars
<1> SUFFICES ASSUME Typed, Revocations, [Next]_vars, NEW w \in Workers,
                    job[w] = None, At(w, "user")'
             PROVE  job'[w].cred \notin gone
  BY Zenon
<1>1. CASE job' = job
  BY <1>1 DEF At
<1>2. ASSUME NEW v \in Workers, Request(v), v # w PROVE FALSE
  BY <1>2, RequestSound, Zenon DEF Sound, Others, At
<1>3. CASE Request(w)
  <2>1. (\E c \in Creds : Authenticate(w, c)) \/ MasterToken(w)
        \/ (\E u \in Users : Login(w, u) \/ UpsertSSOUser(w, u))
    BY <1>3 DEF Request, GetUser, IssueSession, UpdateUser, Count, UpdateProfile,
       Write, RevokeSessions, CreateUser, IssueKey, RevokeKey, RotateMCPKey,
       KeyAccess, RotateRevoke, RotateIssue, Answer, At
  <2>2. ASSUME NEW c \in Creds, Authenticate(w, c) PROVE job'[w].cred \notin gone
    BY <2>2 DEF Authenticate, NoJob, Typed, TypeOK, Revocations
  <2>3. CASE MasterToken(w)
    BY <2>3 DEF MasterToken, NoJob, At, Typed, TypeOK
  <2>4. ASSUME NEW u \in Users, Login(w, u) \/ UpsertSSOUser(w, u) PROVE FALSE
    BY <2>4 DEF Login, UpsertSSOUser, NoJob, At, Typed, TypeOK
  <2> QED
    BY <2>1, <2>2, <2>3, <2>4
<1>4. ASSUME NEW c \in Creds, Logout(c) PROVE job' = job
  BY <1>4 DEF Logout
<1>5. Tick => job' = job
  BY DEF Tick
<1>6. UNCHANGED vars => job' = job
  BY DEF vars
<1> QED
  BY <1>1, <1>2, <1>3, <1>4, <1>5, <1>6 DEF Next

\* What was revoked is never accepted again: not by a session that is being
\* extended, not when a key is rotated twice, not when the user comes back
\* (Authenticate, RevokeSession, RevokeUserSessions, RevokeKey).
THEOREM RevokedRefused == Spec => RevokedStaysOut
BY AlwaysRevocations, BeginsAccepted, PTL DEF Spec, RevokedStaysOut

-----------------------------------------------------------------------------
(* Administrators, and the users who were deactivated.                     *)

Admin == [role |-> "admin", active |-> TRUE]

\* A request that does not edit role and active flag holds the row as stored.
ReadsCurrent(w) ==
  (At(w, "count") \/ At(w, "write")) /\ ~job[w].stale /\ ~job[w].edits
    => job[w].row = users[job[w].target]

\* What is about to be written takes no last admin away.
LeavesAdmin(w) ==
  At(w, "write") /\ ~job[w].stale =>
    \/ job[w].row = Admin
    \/ users[job[w].target] # Admin
    \/ \E u \in Users \ {job[w].target} : users[u] = Admin

\* As long as nothing was written over what its writer had not seen.
Current ==
  ~clash =>
    /\ \E u \in Users : users[u] = Admin
    /\ \A u \in out : users[u] # None /\ ~users[u].active
    /\ \A w \in Workers : ReadsCurrent(w) /\ LeavesAdmin(w)

LEMMA AdminsAreAdmin ==
  ASSUME TypeOK, NEW u \in Users
  PROVE  u \in Admins <=> users[u] = Admin
<1>1. users[u] # None => users[u] \in User
  BY DEF TypeOK
<1>2. Admin \in User
  BY DEF Admin, User, Roles
<1>3. users[u] \in User =>
        (users[u].role = "admin" /\ users[u].active <=> users[u] = Admin)
  <2> SUFFICES ASSUME NEW row \in User
               PROVE  row.role = "admin" /\ row.active <=> row = Admin
    OBVIOUS
  <2>1. row = [role |-> row.role, active |-> row.active] /\ row.active \in BOOLEAN
    BY DEF User
  <2>2. row.active <=> row.active = TRUE
    BY <2>1, Zenon
  <2>3. row.role = "admin" /\ row.active = TRUE => row = Admin
    BY <2>1 DEF Admin
  <2>4. row = Admin => row.role = "admin" /\ row.active = TRUE
    BY DEF Admin
  <2> QED
    BY <2>2, <2>3, <2>4
<1> QED
  BY <1>1, <1>2, <1>3, NoneIsNothing DEF Admins

\* Two admins are one admin beside anybody (countAdmins).
LEMMA CountLeaves ==
  ASSUME TypeOK, NEW t \in Users, Cardinality(Admins) > 1
  PROVE  \E u \in Users \ {t} : users[u] = Admin
<1> SUFFICES ASSUME \A u \in Users \ {t} : users[u] # Admin PROVE FALSE
  OBVIOUS
<1>1. Admins \subseteq {t}
  BY AdminsAreAdmin DEF Admins
<1>2. IsFiniteSet({t}) /\ Cardinality({t}) = 1
  BY FS_Singleton
<1>3. Cardinality(Admins) <= 1 /\ Cardinality(Admins) \in Nat
  BY <1>1, <1>2, FS_Subset, FS_CardinalityType
<1> QED
  BY <1>3

\* An edit that is not counted takes no admin away (PUT /api/users/{id}).
LEMMA UncountedEdit ==
  ASSUME NEW row \in User, NEW e \in Edits, ~MustCount(row, e), row = Admin
  PROVE  Asked(row, e) = Admin
<1>1. e \in [role: Roles \cup {"dba", None}, active: BOOLEAN \cup {None}]
  BY EditsAssumption
<1>2. e.role \in {None, "admin"}
  BY DEF MustCount, Admin
<1>3. Asked(row, e).role = "admin"
  BY <1>2 DEF Asked, Admin
<1>4. e.active # FALSE
  BY <1>3 DEF MustCount
<1>5. e.active = None \/ e.active = TRUE
  BY <1>1, <1>4, Zenon
<1> QED
  BY <1>2, <1>5 DEF Asked, Admin

\* Every step of a worker but Write leaves the stored rows, and the jobs of the
\* other workers, as they are.
Undisturbed(w) ==
  /\ clash' = clash
  /\ \A u \in Users : users[u] # None => users'[u] = users[u]
  /\ \A v \in Workers \ {w} : job'[v] = job[v]
  /\ ~clash => \A u \in out' \ out : users[u] # None /\ ~users[u].active

LEMMA UndisturbedCurrent ==
  ASSUME Typed, Typed', Current, NEW w \in Workers, Undisturbed(w),
         ~clash => ReadsCurrent(w)' /\ LeavesAdmin(w)'
  PROVE  Current'
<1> SUFFICES ASSUME ~clash PROVE Current'
  BY DEF Current, Undisturbed
<1>1. PICK u \in Users : users[u] = Admin
  BY DEF Current
<1>2. users'[u] = Admin
  BY <1>1, NoneIsNothing DEF Undisturbed, Admin, User, Roles
<1>3. \A x \in out' : users'[x] # None /\ ~users'[x].active
  BY DEF Undisturbed, Current, Typed, TypeOK
<1>4. ASSUME NEW v \in Workers \ {w} PROVE ReadsCurrent(v)' /\ LeavesAdmin(v)'
  <2>1. ReadsCurrent(v) /\ LeavesAdmin(v) /\ job'[v] = job[v]
    BY DEF Current, Undisturbed
  <2>2. At(v, "count") \/ At(v, "write") =>
          job[v].target \in Users /\ users'[job[v].target] = users[job[v].target]
    BY DEF Typed, Carries, At, Undisturbed
  <2>3. \A x \in Users : users[x] = Admin => users'[x] = Admin
    BY NoneIsNothing DEF Undisturbed, Admin, User, Roles
  <2> QED
    BY <2>1, <2>2, <2>3 DEF ReadsCurrent, LeavesAdmin, At
<1> QED
  BY <1>1, <1>2, <1>3, <1>4 DEF Current

\* Steps after which the worker is not about to write.
LEMMA OtherStepsCurrent ==
  ASSUME Typed, Typed', Current, NEW w \in Workers, Undisturbed(w),
         job'[w] = None \/ job'[w].step \notin {"count", "write"}
  PROVE  Current'
<1>1. ReadsCurrent(w)' /\ LeavesAdmin(w)'
  BY DEF ReadsCurrent, LeavesAdmin, At
<1> QED
  BY <1>1, UndisturbedCurrent

\* The steps that neither read a row to write it back nor write one.
LEMMA OtherSteps ==
  ASSUME Typed, NEW w \in Workers,
         \/ \E c \in Creds : Authenticate(w, c) \/ RevokeKey(w, c) \/ RotateMCPKey(w, c)
         \/ MasterToken(w) \/ IssueSession(w) \/ RevokeSessions(w)
         \/ RotateRevoke(w) \/ RotateIssue(w) \/ Answer(w)
         \/ \E u \in Users : Login(w, u) \/ UpsertSSOUser(w, u)
         \/ \E u \in Users, role \in AskedRoles : CreateUser(w, u, role)
         \/ \E t \in Users, life \in KeyLives : IssueKey(w, t, life)
  PROVE  /\ Undisturbed(w)
         /\ job'[w] = None \/ job'[w].step \notin {"count", "write"}
<1> USE DEF Undisturbed, history, Done, NoJob, Typed, TypeOK
<1>1. CASE \E c \in Creds : Authenticate(w, c) \/ RevokeKey(w, c) \/ RotateMCPKey(w, c)
  BY <1>1 DEF Authenticate, RevokeKey, RotateMCPKey
<1>2. CASE MasterToken(w) \/ IssueSession(w) \/ RotateIssue(w) \/ Answer(w)
  BY <1>2 DEF MasterToken, IssueSession, RotateIssue, Answer
<1>3. CASE RevokeSessions(w)
  <2>1. job[w].target \in Users /\ users[job[w].target] # None
    BY <1>3 DEF RevokeSessions, At, Carries
  <2>2. /\ UNCHANGED <<users, clash>>
        /\ job' = [job EXCEPT ![w] = None]
        /\ out' = IF clash \/ users[job[w].target].active
                    THEN out ELSE out \cup {job[w].target}
    BY <1>3 DEF RevokeSessions
  <2> QED
    BY <2>1, <2>2
<1>4. CASE RotateRevoke(w)
  <2>1. job[w] \in Job
    BY <1>4, NoneIsNothing DEF RotateRevoke, At
  <2>2. [job[w] EXCEPT !.step = "replace"].step = "replace"
    BY <2>1 DEF Job
  <2> QED
    BY <1>4, <2>2 DEF RotateRevoke
<1>5. CASE \E u \in Users : Login(w, u) \/ UpsertSSOUser(w, u)
  BY <1>5 DEF Login, UpsertSSOUser
<1>6. CASE \E u \in Users, role \in AskedRoles : CreateUser(w, u, role)
  BY <1>6 DEF CreateUser
<1>7. CASE \E t \in Users, life \in KeyLives : IssueKey(w, t, life)
  BY <1>7 DEF IssueKey
<1> QED
  BY <1>1, <1>2, <1>3, <1>4, <1>5, <1>6, <1>7

LEMMA GetUserCurrent ==
  ASSUME Typed, Typed', Current, NEW w \in Workers, GetUser(w)
  PROVE  Current'
<1> DEFINE u == creds[job[w].cred].user
           j1 == [NoJob EXCEPT !.step = "admitted", !.actor = u,
                               !.admin = users[u].role = "admin"]
           j2 == [NoJob EXCEPT !.step = "write", !.target = u, !.row = users[u]]
<1>1. UNCHANGED <<users, history>>
  BY DEF GetUser
<1>2. job' = [job EXCEPT ![w] = j1] \/ job' = [job EXCEPT ![w] = j2]
  BY DEF GetUser
<1>3. j1.step = "admitted"
  BY DEF NoJob
<1>4. j2.step = "write" /\ j2.target = u /\ j2.row = users[u] /\ j2.edits = FALSE
  BY DEF NoJob
<1> HIDE DEF j1, j2, u
<1>5. Undisturbed(w)
  BY <1>1, <1>2 DEF Undisturbed, history, Typed, TypeOK
<1>6. ReadsCurrent(w)' /\ LeavesAdmin(w)'
  BY <1>1, <1>2, <1>3, <1>4 DEF ReadsCurrent, LeavesAdmin, At, Typed, TypeOK
<1> QED
  BY <1>5, <1>6, UndisturbedCurrent

LEMMA UpdateProfileCurrent ==
  ASSUME Typed, Typed', Current, NEW w \in Workers, UpdateProfile(w)
  PROVE  Current'
<1> DEFINE u == job[w].actor
           j == [NoJob EXCEPT !.step = "write", !.target = u, !.row = users[u]]
<1>1. UNCHANGED <<users, history>> /\ job' = [job EXCEPT ![w] = j]
  BY DEF UpdateProfile
<1>2. j.step = "write" /\ j.target = u /\ j.row = users[u]
  BY DEF NoJob
<1> HIDE DEF j, u
<1>3. Undisturbed(w)
  BY <1>1 DEF Undisturbed, history, Typed, TypeOK
<1>4. ReadsCurrent(w)' /\ LeavesAdmin(w)'
  BY <1>1, <1>2 DEF ReadsCurrent, LeavesAdmin, At, Typed, TypeOK
<1> QED
  BY <1>3, <1>4, UndisturbedCurrent

LEMMA UpdateUserCurrent ==
  ASSUME Typed, Typed', Current, NEW w \in Workers, NEW t \in Users,
         NEW e \in Edits, UpdateUser(w, t, e)
  PROVE  Current'
<1> DEFINE step == IF MustCount(users[t], e) THEN "count" ELSE "write"
           row == Asked(users[t], e)
           j == [NoJob EXCEPT !.step = step, !.target = t, !.row = row,
                              !.edits = TRUE]
<1>1. UNCHANGED <<users, history>> /\ job' = [job EXCEPT ![w] = j]
  BY DEF UpdateUser
<1>2. j.step = step /\ j.target = t /\ j.row = row /\ j.edits = TRUE
  BY DEF NoJob
<1>3. users[t] \in User
  BY DEF UpdateUser, Typed, TypeOK
<1>4. step = "write" => row = Admin \/ users[t] # Admin
  BY <1>3, UncountedEdit
<1> HIDE DEF j, step, row
<1>5. Undisturbed(w)
  BY <1>1 DEF Undisturbed, history, Typed, TypeOK
<1>6. ReadsCurrent(w)' /\ LeavesAdmin(w)'
  BY <1>1, <1>2, <1>4 DEF ReadsCurrent, LeavesAdmin, At, Typed, TypeOK
<1> QED
  BY <1>5, <1>6, UndisturbedCurrent

LEMMA CountCurrent ==
  ASSUME Typed, Typed', Current, NEW w \in Workers, Count(w)
  PROVE  Current'
<1> DEFINE j == [job[w] EXCEPT !.step = "write"]
           t == job[w].target
<1>1. job[w] \in Job /\ t \in Users
  BY NoneIsNothing DEF Count, At, Typed, TypeOK, Carries
<1>2. UNCHANGED <<users, history>> /\ job' = [job EXCEPT ![w] = j]
  BY DEF Count, Typed, TypeOK
<1>3. /\ j.target = t /\ j.row = job[w].row
      /\ j.edits = job[w].edits /\ j.stale = job[w].stale
  BY <1>1 DEF Job
<1>4. \E u \in Users \ {t} : users[u] = Admin
  BY <1>1, CountLeaves DEF Count, Typed
<1> HIDE DEF j, t
<1>5. Undisturbed(w)
  BY <1>2 DEF Undisturbed, history, Typed, TypeOK
<1>6. LeavesAdmin(w)'
  BY <1>2, <1>3, <1>4 DEF LeavesAdmin, Typed, TypeOK
<1>7. ~clash => ReadsCurrent(w)'
  BY <1>2, <1>3 DEF Current, Count, ReadsCurrent, At, Typed, TypeOK, t
<1> QED
  BY <1>5, <1>6, <1>7, UndisturbedCurrent

\* A row is written: every other row being held is out of date from now on.
LEMMA WriteCurrent ==
  ASSUME Typed, Typed', Current, NEW w \in Workers, Write(w)
  PROVE  Current'
<1> DEFINE t == job[w].target
           row == job[w].row
<1> SUFFICES ASSUME ~clash' PROVE Current'
  BY DEF Current
<1>1. /\ t \in Users /\ users[t] # None /\ users[t] \in User
      /\ row \in User /\ job[w] \in Job
  BY NoneIsNothing DEF Write, At, Typed, TypeOK, Carries, Row, User
<1>2. ~clash /\ ~job[w].stale
  BY DEF Write
<1>3. /\ users' = [users EXCEPT ![t] = row]
      /\ out' = IF job[w].edits /\ row.active THEN out \ {t} ELSE out
  BY <1>2 DEF Write
<1>4. /\ \A u \in out : users[u] # None /\ ~users[u].active
      /\ \E u \in Users : users[u] = Admin
      /\ ~job[w].edits => row = users[t]
      /\ row = Admin \/ users[t] # Admin \/ \E u \in Users \ {t} : users[u] = Admin
  BY <1>2 DEF Write, Current, ReadsCurrent, LeavesAdmin
<1>5. \E u \in Users : users'[u] = Admin
  BY <1>1, <1>3, <1>4 DEF Typed, TypeOK
<1>6. ASSUME NEW u \in out' PROVE users'[u] # None /\ ~users'[u].active
  <2>1. u \in out /\ u \in Users
    BY <1>3, <1>6 DEF Typed, TypeOK
  <2>2. CASE u # t
    BY <1>3, <1>4, <2>1, <2>2 DEF Typed, TypeOK
  <2>3. CASE u = t
    <3>1. users'[u] = row /\ row # None
      BY <1>1, <1>3, <2>3, NoneIsNothing DEF Typed, TypeOK
    <3>2. ~row.active
      BY <1>3, <1>4, <1>6, <2>1, <2>3
    <3> QED
      BY <3>1, <3>2
  <2> QED
    BY <2>2, <2>3
<1>7. ASSUME NEW v \in Workers PROVE ReadsCurrent(v)' /\ LeavesAdmin(v)'
  <2>1. CASE v = w
    <3>1. job'[w] = None \/ job'[w].step = "sessions"
      BY DEF Write, NoJob, Typed, TypeOK, Overtaken
    <3> QED
      BY <2>1, <3>1 DEF ReadsCurrent, LeavesAdmin, At
  <2>2. CASE v # w
    <3>1. job'[v] = Overtaken(w)[v]
      BY <2>2 DEF Write, Overtaken
    <3>2. ASSUME At(v, "count")' \/ At(v, "write")' PROVE job'[v].stale
      <4>1. job[v] \in Job
        BY <3>1, <3>2, NoneIsNothing DEF At, Overtaken, Typed, TypeOK
      <4>2. \/ job'[v] = job[v] /\ (job[v] = None \/ job[v].row = None)
            \/ job'[v] = [job[v] EXCEPT !.stale = TRUE]
        BY <2>2, <3>1 DEF Overtaken
      <4>3. job'[v].step = job[v].step
        BY <4>1, <4>2 DEF Job
      <4>4. job[v].row # None
        BY <3>2, <4>1, <4>3, NoneIsNothing DEF At, Typed, Carries
      <4> QED
        BY <4>1, <4>2, <4>4, NoneIsNothing DEF Job
    <3> QED
      BY <3>2 DEF ReadsCurrent, LeavesAdmin
  <2> QED
    BY <2>1, <2>2
<1> QED
  BY <1>5, <1>6, <1>7 DEF Current

LEMMA CurrentNext == Typed /\ Current /\ [Next]_vars => Current'
<1> SUFFICES ASSUME Typed, Current, [Next]_vars PROVE Current'
  OBVIOUS
<1>1. Typed'
  BY TypedNext
<1>2. ASSUME NEW w \in Workers, Request(w) PROVE Current'
  <2>1. CASE GetUser(w)
    BY <1>1, <2>1, GetUserCurrent
  <2>2. CASE UpdateProfile(w)
    BY <1>1, <2>2, UpdateProfileCurrent
  <2>3. ASSUME NEW t \in Users, NEW e \in Edits, UpdateUser(w, t, e) PROVE Current'
    BY <1>1, <2>3, UpdateUserCurrent
  <2>4. CASE Count(w)
    BY <1>1, <2>4, CountCurrent
  <2>5. CASE Write(w)
    BY <1>1, <2>5, WriteCurrent
  <2>6. ASSUME Undisturbed(w),
               job'[w] = None \/ job'[w].step \notin {"count", "write"}
        PROVE  Current'
    BY <1>1, <2>6, OtherStepsCurrent
  <2> QED
    BY <1>2, <2>1, <2>2, <2>3, <2>4, <2>5, <2>6, OtherSteps, Zenon DEF Request
<1>3. ASSUME UNCHANGED <<users, job, out, clash>> PROVE Current'
  BY <1>3 DEF Current, ReadsCurrent, LeavesAdmin, At
<1>4. ASSUME NEW c \in Creds, Logout(c) PROVE Current'
  BY <1>3, <1>4 DEF Logout
<1>5. CASE Tick
  BY <1>3, <1>5 DEF Tick, history
<1>6. CASE UNCHANGED vars
  BY <1>3, <1>6 DEF vars
<1> QED
  BY <1>2, <1>4, <1>5, <1>6 DEF Next

LEMMA AlwaysCurrent == Spec => [](Typed /\ Current)
<1>1. Init => Current
  BY UsersAssumption DEF Init, Current, Admin, ReadsCurrent, LeavesAdmin, At
<1>2. Typed /\ [Next]_vars => Typed'
  BY TypedNext
<1> QED
  BY <1>1, <1>2, InitTyped, CurrentNext, PTL DEF Spec

\* As long as no request writes a row over one it has not seen, an active admin
\* remains, whatever combination of role and active flag is asked for and
\* whoever asks (the counts in PUT /api/users/{id}).
THEOREM AnAdminRemains == Spec => []AdminRemains
<1>1. Admin # None
  <2>1. Admin \in User
    BY DEF Admin, User, Roles
  <2> QED
    BY <2>1, NoneIsNothing
<1>2. Current /\ ~clash => AdminAlwaysRemains
  <2>1. ASSUME NEW u \in Users, users[u] = Admin PROVE AdminAlwaysRemains
    BY <1>1, <2>1, Zenon DEF AdminAlwaysRemains, Admin
  <2> QED
    BY <2>1 DEF Current
<1>3. Current => AdminRemains
  BY <1>2 DEF AdminRemains
<1> QED
  BY <1>3, AlwaysCurrent, PTL

\* A worker is admitted only where the user was read, and found active.
LEMMA AdmittedAreActive ==
  Typed /\ Current /\ [Next]_vars =>
    [\A w \in Workers :
       At(w, "user") /\ At(w, "admitted")' /\ ~clash
         => creds[job[w].cred].user \notin out]_vars
<1> SUFFICES ASSUME Typed, Current, [Next]_vars, NEW w \in Workers,
                    At(w, "user"), At(w, "admitted")', ~clash
             PROVE  creds[job[w].cred].user \notin out
  BY Zenon
<1>1. ASSUME job'[w] = job[w] PROVE FALSE
  BY <1>1 DEF At
<1>2. ASSUME NEW v \in Workers, Request(v), v # w PROVE FALSE
  <2>1. \/ job'[w] = job[w]
        \/ job[w].row # None /\ job'[w] = [job[w] EXCEPT !.stale = TRUE]
    BY <1>2, RequestSound DEF Sound, Others
  <2>2. job[w] \in Job
    BY NoneIsNothing DEF At, Typed, TypeOK
  <2>3. job'[w].step = job[w].step
    BY <2>1, <2>2 DEF Job
  <2> QED
    BY <2>3 DEF At
<1>3. CASE Request(w)
  <2>1. GetUser(w) \/ Answer(w)
    BY <1>3 DEF Request, Authenticate, MasterToken, Login, UpsertSSOUser,
       IssueSession, UpdateUser, Count, UpdateProfile, Write, RevokeSessions,
       CreateUser, IssueKey, RevokeKey, RotateMCPKey, KeyAccess, RotateRevoke,
       RotateIssue, At
  <2>2. ~Answer(w)
    BY DEF Answer, Done, At, Typed, TypeOK
  <2>3. users[creds[job[w].cred].user].active
    BY <2>1, <2>2 DEF GetUser, Admit
  <2> QED
    BY <2>3 DEF Current
<1>4. ASSUME NEW c \in Creds, Logout(c) PROVE FALSE
  BY <1>1, <1>4 DEF Logout
<1>5. CASE Tick
  BY <1>1, <1>5 DEF Tick
<1>6. CASE UNCHANGED vars
  BY <1>1, <1>6 DEF vars
<1> QED
  BY <1>2, <1>3, <1>4, <1>5, <1>6 DEF Next

\* A deactivated user is not admitted, by session or key, until an admin
\* activates the account again (Authenticate, AuthenticateKey read the user
\* for every request).
THEOREM DeactivatedRefused == Spec => DeactivatedStaysOut
BY AlwaysCurrent, AdmittedAreActive, PTL DEF Spec, DeactivatedStaysOut
-----------------------------------------------------------------------------
(* One request at a time.                                                  *)

\* No row that is being held has been written since it was read.
NoneStale == ~clash /\ \A w \in Workers : job[w] # None => ~job[w].stale

\* A step but Write takes up a row nobody has written since, or keeps its own.
LEMMA StepsKeepFresh ==
  ASSUME Typed, NEW w \in Workers, Request(w), ~Write(w),
         job[w] # None => ~job[w].stale
  PROVE  clash' = clash /\ (job'[w] = None \/ ~job'[w].stale)
<1> DEFINE Goal == clash' = clash /\ (job'[w] = None \/ ~job'[w].stale)
<1> USE DEF history, Done, Typed, TypeOK
<1>1. CASE \/ IssueSession(w) \/ RotateIssue(w) \/ Answer(w) \/ RevokeSessions(w)
           \/ \E c \in Creds : RevokeKey(w, c)
           \/ \E u \in Users, role \in AskedRoles : CreateUser(w, u, role)
           \/ \E t \in Users, life \in KeyLives : IssueKey(w, t, life)
  <2>1. clash' = clash
    BY <1>1 DEF IssueSession, RotateIssue, Answer, RevokeSessions, RevokeKey,
       CreateUser, IssueKey
  <2>2. job' = [job EXCEPT ![w] = None]
    BY <1>1 DEF IssueSession, RotateIssue, Answer, RevokeSessions, RevokeKey,
       CreateUser, IssueKey
  <2> QED
    BY <2>1, <2>2
<1>2. ASSUME NEW c \in Creds, Authenticate(w, c) PROVE Goal
  BY <1>2 DEF Authenticate, NoJob
<1>3. ASSUME NEW c \in Creds, RotateMCPKey(w, c) PROVE Goal
  BY <1>3 DEF RotateMCPKey, NoJob
<1>4. CASE MasterToken(w)
  BY <1>4 DEF MasterToken, NoJob
<1>5. CASE GetUser(w)
  BY <1>5 DEF GetUser, NoJob
<1>6. CASE UpdateProfile(w)
  BY <1>6 DEF UpdateProfile, NoJob
<1>7. ASSUME NEW u \in Users, Login(w, u) \/ UpsertSSOUser(w, u) PROVE Goal
  BY <1>7 DEF Login, UpsertSSOUser, NoJob
<1>8. ASSUME NEW t \in Users, NEW e \in Edits, UpdateUser(w, t, e) PROVE Goal
  BY <1>8 DEF UpdateUser, NoJob
<1>9. CASE Count(w) \/ RotateRevoke(w)
  <2>1. job[w] \in Job /\ ~job[w].stale
    BY <1>9, NoneIsNothing DEF Count, RotateRevoke, At
  <2>2. \A step : [job[w] EXCEPT !.step = step].stale = job[w].stale
    BY <2>1 DEF Job
  <2>3. \E step : job' = [job EXCEPT ![w] = [job[w] EXCEPT !.step = step]]
    BY <1>9 DEF Count, RotateRevoke
  <2> QED
    BY <1>9, <2>1, <2>2, <2>3 DEF Count, RotateRevoke
<1> QED
  BY <1>1, <1>2, <1>3, <1>4, <1>5, <1>6, <1>7, <1>8, <1>9, Zenon DEF Request

LEMMA AloneNoneStale ==
  ASSUME \A v, w \in Workers : v = w, Typed, NoneStale, [Next]_vars
  PROVE  NoneStale'
<1>1. ASSUME clash' = clash, \A w \in Workers : job'[w] = job[w]
      PROVE  NoneStale'
  BY <1>1 DEF NoneStale
<1>2. ASSUME NEW w \in Workers, Request(w) PROVE NoneStale'
  <2>1. CASE ~Write(w)
    <3>1. job[w] # None => ~job[w].stale
      BY DEF NoneStale
    <3> QED
      BY <1>2, <2>1, <3>1, StepsKeepFresh DEF NoneStale
  <2>2. CASE Write(w)
    <3>1. job[w] # None /\ ~clash /\ ~job[w].stale
      BY <2>2 DEF Write, At, NoneStale
    <3>2. ~clash'
      BY <2>2, <3>1 DEF Write
    <3>3. job'[w] = None \/ ~job'[w].stale
      BY <2>2 DEF Write, NoJob, Overtaken
    <3> QED
      BY <3>2, <3>3 DEF NoneStale
  <2> QED
    BY <2>1, <2>2
<1>3. ASSUME NEW c \in Creds, Logout(c) PROVE NoneStale'
  BY <1>1, <1>3 DEF Logout
<1>4. CASE Tick
  BY <1>1, <1>4 DEF Tick, history
<1>5. CASE UNCHANGED vars
  BY <1>1, <1>5 DEF vars
<1> QED
  BY <1>2, <1>3, <1>4, <1>5 DEF Next

\* Requests that are served one after the other never leave the server without
\* an active admin, edits of role and flag in any order: what the last admin
\* can be lost to is the overlap of two requests, and nothing else (the counts
\* in PUT /api/users/{id}, which no transaction joins with the update).
THEOREM AdminRemainsOneAtATime ==
  ASSUME \A v, w \in Workers : v = w
  PROVE  Spec => []AdminAlwaysRemains
<1>1. Init => NoneStale
  BY DEF Init, NoneStale
<1>2. Typed /\ NoneStale /\ [Next]_vars => NoneStale'
  BY AloneNoneStale
<1>3. AdminRemains /\ NoneStale => AdminAlwaysRemains
  BY DEF AdminRemains, NoneStale
<1> QED
  BY <1>1, <1>2, <1>3, AlwaysCurrent, AnAdminRemains, PTL DEF Spec
=============================================================================
