--------------------------- MODULE Console_proofs ---------------------------
(* The shell of the console, its profile menu, its guides and the Markdown  *)
(* they render, for any navigation and any number of dialogs, requests and  *)
(* guides.                                                                  *)
EXTENDS ConsoleShell, AccountDialogs, GuideModals, Markdown, FiniteSetTheorems,
        TLAPS

-----------------------------------------------------------------------------
(* ConsoleShell                                                             *)

\* A page built without an answer has no role, so what it shows to admins was
\* shown because the server said so.
MeIsAnswer == ShellTypeOK /\ (~shown.me.auth => shown.me.role = Nobody)

LEMMA LoadingIsPage ==
  ASSUME NEW key \in NavKeys
  PROVE  /\ Loading(key) \in Page
         /\ [Loading(key) EXCEPT !.phase = "login"] \in Page
         /\ Loading(key).me = Standalone
         /\ [Loading(key) EXCEPT !.phase = "login"].me = Standalone
BY DEF Loading, Page, Me, Standalone

LEMMA GuardIsPage ==
  ASSUME NEW s \in Server, NEW key \in NavKeys
  PROVE  guard(s, key) \in Page /\ guard(s, key).me = Standalone
BY LoadingIsPage, NavAssumption DEF guard

LEMMA MeIsAnswerInit == ShellInit => MeIsAnswer
<1> SUFFICES ASSUME ShellInit PROVE MeIsAnswer
  OBVIOUS
<1>1. server \in Server
  BY DEF ShellInit, Server, ShellRoles
<1>2. shown \in Page /\ shown.me = Standalone
  BY <1>1, NavAssumption DEF ShellInit, Loading, Page, Me, Standalone, Server
<1> QED
  BY <1>1, <1>2 DEF MeIsAnswer, ShellTypeOK, Standalone

LEMMA MeIsAnswerNext == MeIsAnswer /\ [ShellNext]_shellVars => MeIsAnswer'
<1> SUFFICES ASSUME MeIsAnswer, [ShellNext]_shellVars PROVE MeIsAnswer'
  OBVIOUS
<1>1. server \in Server /\ shown \in Page
  BY DEF MeIsAnswer, ShellTypeOK
<1>2. ASSUME server' \in Server, shown' \in Page,
             shown'.me = Standalone \/ shown'.me = shown.me
      PROVE  MeIsAnswer'
  BY <1>2 DEF MeIsAnswer, ShellTypeOK, Standalone
<1>3. CASE mount
  <2>1. handleMe \in Me /\ (~handleMe.auth => handleMe.role = Nobody)
    BY <1>1 DEF handleMe, Me, Standalone, Server
  <2>2. Standalone \in Me /\ Standalone.role = Nobody
    BY DEF Standalone, Me
  <2>3. PICK me \in {handleMe, Standalone} :
          shown' = IF me.auth /\ me.role = Nobody
                     THEN [shown EXCEPT !.phase = "login"]
                     ELSE [shown EXCEPT !.phase = "ready", !.me = me]
    BY <1>3 DEF mount
  <2>4. me \in Me /\ (~me.auth => me.role = Nobody)
    BY <2>1, <2>2
  <2>5. shown' \in Page /\ (shown'.me = shown.me \/ shown'.me = me)
    BY <1>1, <2>3, <2>4 DEF Page
  <2> QED
    BY <1>1, <1>3, <2>4, <2>5 DEF mount, MeIsAnswer, ShellTypeOK
<1>4. ASSUME NEW key \in NavKeys, follow(key) PROVE MeIsAnswer'
  BY <1>1, <1>2, <1>4, GuardIsPage DEF follow
<1>5. CASE toggle \/ scrim \/ handleTokenBox
  <2>1. shown' \in Page /\ shown'.me = shown.me
    BY <1>1, <1>5 DEF toggle, scrim, handleTokenBox, Page
  <2> QED
    BY <1>1, <1>2, <1>5, <2>1 DEF toggle, scrim, handleTokenBox
<1>6. CASE SessionEnds
  BY <1>1, <1>2, <1>6 DEF SessionEnds, Server
<1>7. ASSUME NEW role \in ShellRoles, SignIn(role) PROVE MeIsAnswer'
  <2>1. server' \in Server
    BY <1>1, <1>7 DEF SignIn, Server
  <2>2. shown.key \in NavKeys
    BY <1>1 DEF Page
  <2> QED
    BY <1>2, <1>7, <2>1, <2>2, GuardIsPage DEF SignIn
<1>8. ASSUME NEW role \in ShellRoles, RoleChanges(role) PROVE MeIsAnswer'
  BY <1>1, <1>2, <1>8 DEF RoleChanges, Server
<1>9. CASE UNCHANGED shellVars
  BY <1>9 DEF shellVars, MeIsAnswer, ShellTypeOK
<1> QED
  BY <1>3, <1>4, <1>5, <1>6, <1>7, <1>8, <1>9 DEF ShellNext

\* A link of the sidebar leads to its page while the account is what the page
\* was told, or the page was built without an answer (buildSidebar, guard).
THEOREM LinksAlwaysLead == ShellSpec => LinksLead
<1> DEFINE Lead == \A key \in NavKeys :
      follow(key) /\ StillTrue => shown'.key = key /\ shown'.phase = "mounting"
<1>1. MeIsAnswer => Lead
  <2> SUFFICES ASSUME MeIsAnswer, NEW key \in NavKeys, follow(key), StillTrue
               PROVE  shown'.key = key /\ shown'.phase = "mounting"
    OBVIOUS
  <2>1. shown' = guard(server, key) /\ show(key, shown.me)
    BY DEF follow
  <2>2. server.auth => server.session
    BY DEF StillTrue
  <2>3. ~(server.auth /\ key \in AdminPages /\ server.role # "admin")
    <3> SUFFICES ASSUME server.auth, key \in AdminPages
                 PROVE  server.role = "admin"
      OBVIOUS
    <3>1. shown.me.role = "admin"
      BY <2>1 DEF show, AdminPages, AdminItems, AuthItems, DbaItems, AlwaysItems
    <3>2. shown.me.auth
      BY <3>1, NobodyAssumption DEF MeIsAnswer, ShellRoles
    <3> QED
      BY <3>1, <3>2 DEF StillTrue
  <2> QED
    BY <2>1, <2>2, <2>3 DEF guard, Loading
<1>2. MeIsAnswer /\ [ShellNext]_shellVars => [Lead]_shellVars
  BY <1>1
<1> QED
  BY MeIsAnswerInit, MeIsAnswerNext, <1>2, PTL DEF ShellSpec, LinksLead

-----------------------------------------------------------------------------
(* Markdown                                                                 *)

\* The flags say what the reader of the HTML is inside of, and never both.
FlagsAreTrue ==
  /\ MdTypeOK
  /\ ~(inUl /\ inCode)
  /\ reading = IF given THEN "nothing" ELSE
               IF inCode THEN "pre" ELSE IF inUl THEN "ul" ELSE "nothing"

LEMMA FlagsAreTrueNext == FlagsAreTrue /\ [MdNext]_mdVars => FlagsAreTrue'
<1> SUFFICES ASSUME FlagsAreTrue, [MdNext]_mdVars PROVE FlagsAreTrue'
  OBVIOUS
<1> USE DEF FlagsAreTrue, MdTypeOK, Inside, Read, AfterList
<1>1. CASE ~given /\ UNCHANGED given /\ fence
  BY <1>1 DEF fence
<1>2. CASE ~given /\ UNCHANGED given /\ codeLine
  BY <1>2 DEF codeLine
<1>3. CASE ~given /\ UNCHANGED given /\ block
  BY <1>3 DEF block
<1>4. CASE ~given /\ UNCHANGED given /\ item
  BY <1>4 DEF item
<1>5. CASE ~given /\ UNCHANGED given /\ blank
  BY <1>5 DEF blank
<1>6. CASE ~given /\ finish
  BY <1>6 DEF finish
<1>7. CASE begin
  BY <1>7 DEF begin
<1>8. CASE UNCHANGED mdVars
  <2>1. inUl' = inUl /\ inCode' = inCode /\ reading' = reading /\ given' = given
    BY <1>8 DEF mdVars
  <2> QED
    BY <2>1, Zenon DEF FlagsAreTrue, MdTypeOK, Inside
<1> QED
  BY <1>1, <1>2, <1>3, <1>4, <1>5, <1>6, <1>7, <1>8 DEF MdNext

\* Every guide becomes well-formed HTML, wherever it ends (mdToHtml).
THEOREM HtmlAlwaysWellFormed == MdSpec => []HtmlIsWellFormed
<1>1. MdInit => FlagsAreTrue
  BY DEF MdInit, FlagsAreTrue, MdTypeOK, Inside
<1>2. FlagsAreTrue => HtmlIsWellFormed
  BY DEF FlagsAreTrue, HtmlIsWellFormed
<1> QED
  BY <1>1, FlagsAreTrueNext, <1>2, PTL DEF MdSpec

-----------------------------------------------------------------------------
(* AccountDialogs                                                           *)

\* A request refers to a dialog unless it is a logout; one that is carried out
\* is recorded for its dialog.
RequestsOK(rs, sv) ==
  /\ rs \in [Requests -> Request \cup {Nothing}]
  /\ \A r \in Requests : rs[r] # Nothing =>
       /\ rs[r].kind # "logout" => rs[r].dialog \in Dialogs
       /\ rs[r].kind = "logout" => rs[r].step # "checked"
       /\ rs[r].kind # "logout" /\ rs[r].step = "carried" => rs[r].dialog \in sv

\* What is on the page reports what is recorded.
ReportsOK(ds, cs, sv) ==
  /\ ds \in [Dialogs -> Dialog \cup {Nothing}]
  /\ cs \subseteq sv /\ sv \subseteq Dialogs
  /\ \A d \in Dialogs : ds[d] # Nothing /\ ds[d].msg = "ok" => d \in sv

FlagsOK == account \in Account /\ signedIn \in BOOLEAN /\ reload \in BOOLEAN

DInv == FlagsOK /\ RequestsOK(request, saved) /\ ReportsOK(dialog, closing, saved)

LEMMA RequestsOKMore ==
  ASSUME NEW rs, NEW s1, NEW s2, RequestsOK(rs, s1), s1 \subseteq s2
  PROVE  RequestsOK(rs, s2)
BY DEF RequestsOK

LEMMA SetRequest ==
  ASSUME RequestsOK(request, saved), NEW r \in Requests, NEW q \in Request \cup {Nothing},
         q # Nothing =>
           /\ q.kind # "logout" => q.dialog \in Dialogs
           /\ q.kind = "logout" => q.step # "checked"
           /\ q.kind # "logout" /\ q.step = "carried" => q.dialog \in saved
  PROVE  RequestsOK([request EXCEPT ![r] = q], saved)
BY DEF RequestsOK

LEMMA RequestFields ==
  ASSUME NEW q \in Request, NEW step \in {"sent", "checked", "carried", "refused"}
  PROVE  /\ [q EXCEPT !.step = step] \in Request
         /\ [q EXCEPT !.step = step].kind = q.kind
         /\ [q EXCEPT !.step = step].dialog = q.dialog
         /\ [q EXCEPT !.step = step].step = step
         /\ [q EXCEPT !.answer = FALSE] \in Request
         /\ [q EXCEPT !.answer = FALSE].kind = q.kind
         /\ [q EXCEPT !.answer = FALSE].dialog = q.dialog
         /\ [q EXCEPT !.answer = FALSE].step = q.step
         /\ q # Nothing
BY NothingAssumption DEF Request

LEMMA SendOK ==
  ASSUME RequestsOK(request, saved), NEW kind \in {"profile", "password", "logout"},
         NEW d \in Dialogs \cup {Nothing}, kind # "logout" => d \in Dialogs,
         Send(kind, d)
  PROVE  RequestsOK(request', saved)
<1> DEFINE r == CHOOSE q \in IdleRequests : TRUE
           q == [kind |-> kind, dialog |-> d, step |-> "sent", answer |-> TRUE]
<1>1. r \in Requests
  BY DEF Send, IdleRequests
<1>2. request' = [request EXCEPT ![r] = q]
  BY DEF Send
<1>3. q \in Request /\ q.kind = kind /\ q.dialog = d /\ q.step = "sent"
  BY DEF Request
<1> HIDE DEF r, q
<1> QED
  BY <1>1, <1>2, <1>3, SetRequest

LEMMA StepOK ==
  ASSUME RequestsOK(request, saved), NEW r \in Requests, request[r] # Nothing,
         NEW step \in {"sent", "checked", "carried", "refused"},
         request[r].kind = "logout" => step # "checked",
         request[r].kind # "logout" /\ step = "carried" => request[r].dialog \in saved
  PROVE  RequestsOK(Step(r, step), saved)
<1> DEFINE q == [request[r] EXCEPT !.step = step]
<1>1. request[r] \in Request
  BY DEF RequestsOK
<1>2. q \in Request /\ q.kind = request[r].kind /\ q.dialog = request[r].dialog
        /\ q.step = step
  BY <1>1, RequestFields
<1>3. Step(r, step) = [request EXCEPT ![r] = q]
  BY DEF Step
<1>4. request[r].kind # "logout" => request[r].dialog \in Dialogs
  BY DEF RequestsOK
<1> HIDE DEF q
<1> QED
  BY <1>2, <1>3, <1>4, SetRequest

LEMMA SettledOK ==
  ASSUME RequestsOK(request, saved), NEW r \in Requests
  PROVE  RequestsOK(Settled(r), saved)
BY SetRequest DEF Settled

LEMMA AbandonOK ==
  ASSUME RequestsOK(request, saved)
  PROVE  /\ RequestsOK(Abandon, saved)
         /\ \A r \in Requests : RequestsOK([Abandon EXCEPT ![r] = Nothing], saved)
<1>1. \A r \in Requests :
        IF request[r] = Nothing THEN Abandon[r] = Nothing
        ELSE /\ Abandon[r] \in Request
             /\ Abandon[r].kind = request[r].kind
             /\ Abandon[r].dialog = request[r].dialog
             /\ Abandon[r].step = request[r].step
  <2> SUFFICES ASSUME NEW r \in Requests, request[r] # Nothing
               PROVE  /\ Abandon[r] \in Request
                      /\ Abandon[r].kind = request[r].kind
                      /\ Abandon[r].dialog = request[r].dialog
                      /\ Abandon[r].step = request[r].step
    BY DEF Abandon
  <2>1. request[r] \in Request
    BY DEF RequestsOK
  <2>2. Abandon[r] = [request[r] EXCEPT !.answer = FALSE]
    BY DEF Abandon
  <2> DEFINE q == request[r]
             p == [q EXCEPT !.answer = FALSE]
  <2>3. /\ p \in Request /\ p.kind = q.kind
        /\ p.dialog = q.dialog /\ p.step = q.step
    BY <2>1 DEF Request
  <2> QED
    BY <2>2, <2>3, Zenon
<1>2. Abandon \in [Requests -> Request \cup {Nothing}]
  <2>1. Abandon = [r \in Requests |-> Abandon[r]]
    BY DEF Abandon
  <2> QED
    BY <1>1, <2>1
<1> HIDE DEF Abandon
<1>3. RequestsOK(Abandon, saved)
  BY <1>1, <1>2 DEF RequestsOK
<1> QED
  BY <1>3 DEF RequestsOK

\* The message of one dialog, when it is still there.
LEMMA ToldOK ==
  ASSUME ReportsOK(dialog, closing, saved), NEW d, NEW msg \in {"none", "ok", "bad"},
         msg = "ok" => d \in saved
  PROVE  ReportsOK(Told(d, msg), closing, saved)
<1> SUFFICES ASSUME d \in Dialogs, dialog[d] # Nothing
             PROVE  ReportsOK(Told(d, msg), closing, saved)
  BY DEF Told, ReportsOK
<1> DEFINE q == [dialog[d] EXCEPT !.msg = msg]
<1>1. dialog[d] \in Dialog
  BY DEF ReportsOK
<1>2. q \in Dialog /\ q.msg = msg
  BY <1>1 DEF Dialog
<1>3. Told(d, msg) = [dialog EXCEPT ![d] = q]
  BY DEF Told
<1> HIDE DEF q
<1> QED
  BY <1>2, <1>3 DEF ReportsOK

LEMMA UnloadOK ==
  ASSUME ReportsOK(dialog, closing, saved), Unload
  PROVE  ReportsOK(dialog', closing', saved) /\ reload' = FALSE
BY DEF Unload, ReportsOK

LEMMA DInvInit == DialogsInit => DInv
BY DEF DialogsInit, DInv, FlagsOK, Account, RequestsOK, ReportsOK

\* A new dialog takes an element nothing refers to: what is recorded of the
\* last one with its name is forgotten, and no request relies on it.
LEMMA OpenKeeps ==
  ASSUME DInv, NEW kind \in {"profile", "password"}, openModal(kind)
  PROVE  DInv'
<1> DEFINE d == CHOOSE e \in Unused : TRUE
           q == [kind |-> kind, msg |-> "none"]
<1>1. /\ d \in Unused
      /\ dialog' = [dialog EXCEPT ![d] = q]
      /\ saved' = saved \ {d}
      /\ UNCHANGED <<account, signedIn, request, closing, reload>>
  BY DEF openModal
<1>2. q \in Dialog /\ q.msg = "none"
  BY DEF Dialog
<1> HIDE DEF d, q
<1>3. /\ d \in Dialogs /\ d \notin closing
      /\ \A r \in Requests : request[r] # Nothing => request[r].dialog # d
  BY <1>1 DEF Unused
<1>4. RequestsOK(request', saved')
  BY <1>1, <1>3 DEF DInv, RequestsOK
<1>5. ReportsOK(dialog', closing', saved')
  BY <1>1, <1>2, <1>3 DEF DInv, ReportsOK
<1> QED
  BY <1>1, <1>4, <1>5 DEF DInv, FlagsOK

LEMMA SubmitKeeps ==
  ASSUME DInv, NEW d \in Dialogs, submitProfile(d) \/ submitPassword(d)
  PROVE  DInv'
<1>1. UNCHANGED <<account, signedIn, closing, reload, saved>>
  BY DEF submitProfile, submitPassword
<1>2. \/ dialog' = Told(d, "bad") /\ request' = request
      \/ /\ Send("profile", d) \/ Send("password", d)
         /\ dialog' = dialog
  BY DEF submitProfile, submitPassword
<1>3. RequestsOK(request', saved)
  BY <1>2, SendOK DEF DInv
<1>4. ReportsOK(dialog', closing, saved)
  BY <1>2, ToldOK DEF DInv
<1> QED
  BY <1>1, <1>3, <1>4 DEF DInv, FlagsOK

\* What takes dialogs away, or sends a logout.
LEMMA LeaveKeeps ==
  ASSUME DInv,
         \/ \E d \in Dialogs : cancel(d) \/ close(d)
         \/ logout \/ Browse \/ Reload
  PROVE  DInv'
<1>1. ASSUME NEW d \in Dialogs, cancel(d) \/ close(d) PROVE DInv'
  <2>1. /\ dialog' = [dialog EXCEPT ![d] = Nothing]
        /\ closing' \subseteq closing
        /\ UNCHANGED <<account, signedIn, request, reload, saved>>
    BY <1>1 DEF cancel, close
  <2>2. ReportsOK(dialog', closing', saved)
    BY <2>1 DEF DInv, ReportsOK
  <2> QED
    BY <2>1, <2>2 DEF DInv, FlagsOK
<1>2. CASE logout
  <2>1. Send("logout", Nothing)
        /\ UNCHANGED <<account, signedIn, dialog, closing, reload, saved>>
    BY <1>2 DEF logout
  <2>2. RequestsOK(request', saved)
    BY <2>1, SendOK DEF DInv
  <2> QED
    BY <2>1, <2>2 DEF DInv, FlagsOK
<1>3. CASE Browse \/ Reload
  <2>1. /\ signedIn' = account.session /\ Unload /\ request' = Abandon
        /\ UNCHANGED <<account, saved>>
    BY <1>3 DEF Browse, Reload
  <2>2. RequestsOK(request', saved)
    BY <2>1, AbandonOK DEF DInv
  <2>3. ReportsOK(dialog', closing', saved) /\ reload' = FALSE
    BY <2>1, UnloadOK DEF DInv
  <2> QED
    BY <2>1, <2>2, <2>3 DEF DInv, FlagsOK, Account
<1> QED
  BY <1>1, <1>2, <1>3

LEMMA ServerKeeps ==
  ASSUME DInv,
         \/ \E r \in Requests : receive(r) \/ store(r) \/ handleLogout(r)
         \/ Expire \/ LogIn
  PROVE  DInv'
<1>1. ASSUME NEW r \in Requests, receive(r) PROVE DInv'
  <2>1. /\ request[r] # Nothing /\ request[r].kind # "logout"
        /\ request' = Step(r, "checked") \/ request' = Step(r, "refused")
        /\ UNCHANGED <<account, signedIn, dialog, closing, reload, saved>>
    BY <1>1 DEF receive, Under
  <2>2. RequestsOK(request', saved)
    BY <2>1, StepOK DEF DInv
  <2> QED
    BY <2>1, <2>2 DEF DInv, FlagsOK
<1>2. ASSUME NEW r \in Requests, store(r) PROVE DInv'
  <2> DEFINE d == request[r].dialog
             more == saved \cup {d}
  <2>1. /\ request[r] # Nothing /\ request[r].step = "checked"
        /\ UNCHANGED <<account, signedIn, dialog, closing, reload>>
    BY <1>2 DEF store, Under
  <2>2. request[r].kind # "logout" /\ d \in Dialogs
    BY <2>1 DEF DInv, RequestsOK
  <2>3. CASE request' = Step(r, "refused") /\ saved' = saved
    <3>1. RequestsOK(request', saved)
      BY <2>1, <2>2, <2>3, StepOK DEF DInv
    <3> QED
      BY <2>1, <2>3, <3>1 DEF DInv, FlagsOK
  <2>4. CASE request' = Step(r, "carried") /\ saved' = more
    <3>1. RequestsOK(request, more)
      BY RequestsOKMore DEF DInv
    <3>2. request[r] \in Request
      BY <2>1 DEF DInv, RequestsOK
    <3>3. [request[r] EXCEPT !.step = "carried"] \in Request
          /\ [request[r] EXCEPT !.step = "carried"].dialog = d
          /\ [request[r] EXCEPT !.step = "carried"].kind = request[r].kind
      BY <3>2, RequestFields
    <3>4. request' = [request EXCEPT ![r] = [request[r] EXCEPT !.step = "carried"]]
      BY <2>4 DEF Step
    <3>5. RequestsOK(request', more)
      BY <2>2, <3>1, <3>3, <3>4 DEF RequestsOK
    <3>6. ReportsOK(dialog, closing, more)
      BY <2>2 DEF DInv, ReportsOK
    <3> QED
      BY <2>1, <2>4, <3>5, <3>6 DEF DInv, FlagsOK
  <2> QED
    BY <1>2, <2>3, <2>4 DEF store
<1>3. ASSUME NEW r \in Requests, handleLogout(r) PROVE DInv'
  <2>1. /\ request[r] # Nothing /\ request[r].kind = "logout"
        /\ request' = Step(r, "carried")
        /\ account' = [account EXCEPT !.session = FALSE]
        /\ UNCHANGED <<signedIn, dialog, closing, reload, saved>>
    BY <1>3 DEF handleLogout, Under
  <2>2. RequestsOK(request', saved)
    BY <2>1, StepOK DEF DInv
  <2> QED
    BY <2>1, <2>2 DEF DInv, FlagsOK, Account
<1>4. CASE Expire \/ LogIn
  BY <1>4 DEF Expire, LogIn, DInv, FlagsOK, Account
<1> QED
  BY <1>1, <1>2, <1>3, <1>4

\* An answer reports a success when the change was carried out: the request
\* that brings it has been recorded for its dialog.
LEMMA AnswerKeeps ==
  ASSUME DInv,
         \E r \in Requests : done(r) \/ loggedOut(r) \/ Break(r) \/ Forget(r)
  PROVE  DInv'
<1>1. ASSUME NEW r \in Requests, done(r) PROVE DInv'
  <2> DEFINE d == request[r].dialog
  <2>1. /\ request[r] # Nothing /\ request[r].kind # "logout"
        /\ request' = Settled(r)
        /\ UNCHANGED <<account, signedIn, saved>>
    BY <1>1 DEF done, Awaited
  <2>2. RequestsOK(request', saved)
    BY <2>1, SettledOK DEF DInv
  <2>3. CASE Under(r, "carried")
    <3>1. /\ dialog' = Told(d, "ok")
          /\ closing' = closing \cup {d}
          /\ reload' = (reload \/ request[r].kind = "profile")
      BY <1>1, <2>3 DEF done
    <3>2. d \in saved
      BY <2>1, <2>3 DEF DInv, RequestsOK, Under
    <3>3. ReportsOK(Told(d, "ok"), closing, saved)
      BY <3>2, ToldOK DEF DInv
    <3>4. ReportsOK(dialog', closing', saved)
      BY <3>1, <3>2, <3>3 DEF ReportsOK
    <3>5. reload' \in BOOLEAN
      BY <3>1
    <3> QED
      BY <2>1, <2>2, <3>4, <3>5 DEF DInv, FlagsOK
  <2>4. CASE ~Under(r, "carried")
    <3>1. dialog' = Told(d, "bad") /\ closing' = closing /\ reload' = reload
      BY <1>1, <2>4 DEF done
    <3>2. ReportsOK(dialog', closing', saved)
      BY <3>1, ToldOK DEF DInv
    <3> QED
      BY <2>1, <2>2, <3>1, <3>2 DEF DInv, FlagsOK
  <2> QED
    BY <2>3, <2>4
<1>2. ASSUME NEW r \in Requests, loggedOut(r) PROVE DInv'
  <2>1. /\ signedIn' = FALSE /\ Unload
        /\ request' = [Abandon EXCEPT ![r] = Nothing]
        /\ UNCHANGED <<account, saved>>
    BY <1>2 DEF loggedOut
  <2>2. RequestsOK(request', saved)
    BY <2>1, AbandonOK DEF DInv
  <2>3. ReportsOK(dialog', closing', saved) /\ reload' = FALSE
    BY <2>1, UnloadOK DEF DInv
  <2> QED
    BY <2>1, <2>2, <2>3 DEF DInv, FlagsOK
<1>3. ASSUME NEW r \in Requests, Break(r) PROVE DInv'
  <2> DEFINE q == [request[r] EXCEPT !.answer = FALSE]
  <2>1. /\ request[r] # Nothing
        /\ request' = [request EXCEPT ![r] = q]
        /\ dialog' = dialog \/ dialog' = Told(request[r].dialog, "bad")
        /\ UNCHANGED <<account, signedIn, closing, reload, saved>>
    BY <1>3 DEF Break, Awaited
  <2>2. request[r] \in Request
    BY <2>1 DEF DInv, RequestsOK
  <2>3. "sent" \in {"sent", "checked", "carried", "refused"}
    OBVIOUS
  <2>4. /\ q \in Request /\ q.kind = request[r].kind
        /\ q.dialog = request[r].dialog /\ q.step = request[r].step
    BY <2>2, <2>3, RequestFields
  <2> HIDE DEF q
  <2>5. RequestsOK(request', saved)
    BY <2>1, <2>4 DEF DInv, RequestsOK
  <2>6. ReportsOK(dialog', closing, saved)
    BY <2>1, ToldOK DEF DInv
  <2> QED
    BY <2>1, <2>5, <2>6 DEF DInv, FlagsOK
<1>4. ASSUME NEW r \in Requests, Forget(r) PROVE DInv'
  <2>1. /\ request' = Settled(r)
        /\ UNCHANGED <<account, signedIn, dialog, closing, reload, saved>>
    BY <1>4 DEF Forget
  <2>2. RequestsOK(request', saved)
    BY <2>1, SettledOK DEF DInv
  <2> QED
    BY <2>1, <2>2 DEF DInv, FlagsOK
<1> QED
  BY <1>1, <1>2, <1>3, <1>4

LEMMA DInvNext == DInv /\ [DialogsNext]_dialogVars => DInv'
<1> SUFFICES ASSUME DInv, [DialogsNext]_dialogVars PROVE DInv'
  OBVIOUS
<1>1. CASE UNCHANGED dialogVars
  BY <1>1 DEF dialogVars, DInv, FlagsOK
<1> QED
  BY <1>1, OpenKeeps, SubmitKeeps, LeaveKeeps, ServerKeeps, AnswerKeeps
  DEF DialogsNext, Timers

LEMMA DInvAlways == DialogsSpec => []DInv
BY DInvInit, DInvNext, PTL DEF DialogsSpec

\* Every variable of the dialogs keeps its type.
THEOREM DialogsTypeCorrect == DialogsSpec => []DialogsTypeOK
<1>1. DInv => DialogsTypeOK
  BY DEF DInv, FlagsOK, RequestsOK, ReportsOK, DialogsTypeOK
<1> QED
  BY DInvAlways, <1>1, PTL

\* A dialog that reports a success, or is about to close on its own, has had a
\* change carried out, in whatever order the answers come in (done).
THEOREM SuccessAlwaysReal == DialogsSpec => []SuccessIsReal
<1>1. DInv => SuccessIsReal
  BY DEF DInv, ReportsOK, SuccessIsReal
<1> QED
  BY DInvAlways, <1>1, PTL

-----------------------------------------------------------------------------
(* GuideModals: the guides keep their text, in any number, as long as the   *)
(* onboarding guide is neither opened behind one nor closed too early.      *)

PlacesIn(m) == {i \in Places : m[i] # NoModal}

WaitingIn(m) ==
  {i \in PlacesIn(m) : m[i].kind = "onboarding" /\ m[i].body = "loading"}

TypedIn(m) == m \in [Places -> Modal \cup {NoModal}]

\* All listen to the keyboard, and a frame opens all that precede as well.
OrderIn(m) ==
  \A i \in PlacesIn(m) :
    /\ m[i].esc
    /\ m[i].open => \A j \in PlacesIn(m) : j < i => m[j].open

\* The guides of the page come behind the onboarding guides and have their text.
GuidesBehind(m) ==
  \A i \in PlacesIn(m) : m[i].kind = "guide" =>
    /\ m[i].body = "own"
    /\ \A j \in PlacesIn(m) : m[j].kind = "onboarding" => j < i

\* Each answer under way has an onboarding guide that still waits.
AnswersAwaited(m, n) == n <= Cardinality(WaitingIn(m))

MInv ==
  /\ GuidesTypeOK
  /\ OrderIn(modal)
  /\ ~estranged => GuidesBehind(modal) /\ AnswersAwaited(modal, fetches)

LEMMA PlacesFinite == IsFiniteSet(Places)
BY ModalsAssumption, FS_Interval DEF Places

LEMMA WaitingFinite ==
  ASSUME NEW m
  PROVE  /\ IsFiniteSet(WaitingIn(m))
         /\ Cardinality(WaitingIn(m)) \in Nat
<1>1. WaitingIn(m) \in SUBSET Places
  BY DEF WaitingIn, PlacesIn
<1> QED
  BY <1>1, PlacesFinite, FS_Subset, FS_CardinalityType

LEMMA PresentIs == Present = PlacesIn(modal)
BY DEF Present, PlacesIn

\* Somebody waits for an answer that is under way: then the first open guide,
\* if there is one, is an onboarding guide.
LEMMA FirstIsOnboarding ==
  ASSUME MInv, ~estranged, fetches > 0, NEW i \in Places, FirstOpen(i)
  PROVE  modal[i].kind = "onboarding"
<1>1. fetches \in Nat /\ fetches <= Cardinality(WaitingIn(modal))
  BY ModalsAssumption DEF MInv, GuidesTypeOK, AnswersAwaited
<1>2. WaitingIn(modal) # {}
  BY <1>1, FS_EmptySet
<1>3. PICK j \in PlacesIn(modal) : modal[j].kind = "onboarding"
  BY <1>2 DEF WaitingIn
<1>4. i \in PlacesIn(modal) /\ modal[i].open /\ modal[i] \in Modal
  BY DEF FirstOpen, Open, Present, PlacesIn, MInv, GuidesTypeOK
<1> SUFFICES ASSUME modal[i].kind = "guide" PROVE FALSE
  BY <1>4 DEF Modal
<1>5. j < i
  BY <1>3, <1>4 DEF MInv, GuidesBehind
<1>6. j \in Open
  BY <1>3, <1>4, <1>5, PresentIs DEF MInv, OrderIn, Open
<1>7. i <= j /\ i \in Int /\ j \in Int
  BY <1>3, <1>6 DEF FirstOpen, Places, PlacesIn
<1> QED
  BY <1>5, <1>7

LEMMA MInvInit == GuidesInit => MInv
<1> SUFFICES ASSUME GuidesInit PROVE MInv
  OBVIOUS
<1>1. PlacesIn(modal) = {} /\ WaitingIn(modal) = {}
  BY DEF GuidesInit, PlacesIn, WaitingIn
<1>2. GuidesTypeOK
  <2>1. modal \in [Places -> Modal \cup {NoModal}]
    BY DEF GuidesInit
  <2>2. fetches \in 0 .. MaxModals /\ estranged = FALSE
    BY ModalsAssumption DEF GuidesInit
  <2> QED
    BY <2>1, <2>2 DEF GuidesTypeOK
<1>3. AnswersAwaited(modal, fetches)
  BY <1>1, FS_EmptySet DEF GuidesInit, AnswersAwaited
<1> QED
  BY <1>1, <1>2, <1>3 DEF MInv, OrderIn, GuidesBehind

-----------------------------------------------------------------------------
(* The steps                                                                *)

\* A dialog at the end of the document.
LEMMA Appended ==
  ASSUME MInv, NEW kind \in {"guide", "onboarding"}, guideModal(kind)
  PROVE  /\ TypedIn(modal') /\ OrderIn(modal')
         /\ kind = "guide" =>
              /\ GuidesBehind(modal) => GuidesBehind(modal')
              /\ WaitingIn(modal') = WaitingIn(modal)
         /\ kind = "onboarding" =>
              /\ (\A i \in Present : modal[i].kind # "guide") => GuidesBehind(modal')
              /\ Cardinality(WaitingIn(modal')) = Cardinality(WaitingIn(modal)) + 1
<1> DEFINE q == NewModal(kind)
<1>1. PICK n \in Places : /\ \A j \in PlacesIn(modal) : j < n
                          /\ modal' = [modal EXCEPT ![n] = q]
  BY PresentIs DEF guideModal
<1>2. /\ q \in Modal /\ q # NoModal /\ q.kind = kind /\ ~q.open /\ q.esc
      /\ q.body = IF kind = "guide" THEN "own" ELSE "loading"
  <2> DEFINE b == IF kind = "guide" THEN "own" ELSE "loading"
  <2>1. q = [kind |-> kind, open |-> FALSE, esc |-> TRUE, body |-> b]
    BY DEF NewModal
  <2>2. b \in {"own", "loading", "text", "error"}
    OBVIOUS
  <2> HIDE DEF b, q
  <2>3. q \in Modal
    BY <2>1, <2>2 DEF Modal
  <2>4. q # NoModal
    BY <2>3, ModalsAssumption
  <2> QED
    BY <2>1, <2>3, <2>4 DEF b
<1> HIDE DEF q
<1>3. n \notin PlacesIn(modal)
  <2>1. n \in PlacesIn(modal) => n < n /\ n \in Int
    BY <1>1 DEF Places
  <2> QED
    BY <2>1
<1>4. modal \in [Places -> Modal \cup {NoModal}]
  BY DEF MInv, GuidesTypeOK
<1>5. TypedIn(modal')
  BY <1>1, <1>2, <1>4 DEF TypedIn
<1>6. PlacesIn(modal') = PlacesIn(modal) \cup {n}
  BY <1>1, <1>2, <1>4 DEF PlacesIn
<1>7. modal'[n] = q /\ \A i \in PlacesIn(modal) : modal'[i] = modal[i] /\ i # n
  BY <1>1, <1>3, <1>4 DEF PlacesIn
<1>8. \A i \in PlacesIn(modal) : i < n /\ i \in Int /\ n \in Int
  BY <1>1 DEF PlacesIn, Places
<1>9. OrderIn(modal')
  <2>1. \A i, j \in PlacesIn(modal) : /\ modal[i].esc
                                      /\ modal[i].open /\ j < i => modal[j].open
    BY DEF MInv, OrderIn
  <2>2. \A i \in PlacesIn(modal) : ~(n < i)
    BY <1>8
  <2> QED
    BY <1>2, <1>6, <1>7, <2>1, <2>2 DEF OrderIn
<1>10. ASSUME kind = "guide"
       PROVE  /\ GuidesBehind(modal) => GuidesBehind(modal')
              /\ WaitingIn(modal') = WaitingIn(modal)
  <2>1. GuidesBehind(modal) => GuidesBehind(modal')
    BY <1>2, <1>6, <1>7, <1>8, <1>10 DEF GuidesBehind
  <2>2. WaitingIn(modal') = WaitingIn(modal)
    BY <1>2, <1>6, <1>7, <1>10 DEF WaitingIn
  <2> QED
    BY <2>1, <2>2
<1>11. ASSUME kind = "onboarding"
       PROVE  /\ (\A i \in Present : modal[i].kind # "guide") => GuidesBehind(modal')
              /\ Cardinality(WaitingIn(modal')) = Cardinality(WaitingIn(modal)) + 1
  <2>1. (\A i \in Present : modal[i].kind # "guide") => GuidesBehind(modal')
    BY <1>2, <1>6, <1>7, <1>11, PresentIs DEF GuidesBehind
  <2>2. WaitingIn(modal') = WaitingIn(modal) \cup {n} /\ n \notin WaitingIn(modal)
    BY <1>2, <1>3, <1>6, <1>7, <1>11 DEF WaitingIn
  <2> QED
    BY <2>1, <2>2, WaitingFinite, FS_AddElement
<1> QED
  BY <1>5, <1>9, <1>10, <1>11

\* Dialogs leave the document.  When none that waits is among them while an
\* answer is under way, those that wait are the same.
LEMMA Removed ==
  ASSUME MInv, NEW closed \in SUBSET Places, Remove(closed)
  PROVE  MInv'
<1>1. /\ modal' = [i \in Places |-> IF i \in closed THEN NoModal ELSE modal[i]]
      /\ estranged' = (estranged \/ Estranging(closed))
      /\ fetches' = fetches
  BY DEF Remove
<1>2. modal \in [Places -> Modal \cup {NoModal}]
  BY DEF MInv, GuidesTypeOK
<1>3. GuidesTypeOK'
  BY <1>1, <1>2 DEF MInv, GuidesTypeOK
<1>4. PlacesIn(modal') = PlacesIn(modal) \ closed
  BY <1>1 DEF PlacesIn
<1>5. \A i \in PlacesIn(modal') : modal'[i] = modal[i] /\ i \in PlacesIn(modal)
  BY <1>1, <1>4 DEF PlacesIn
<1>6. OrderIn(modal')
  BY <1>5 DEF MInv, OrderIn
<1>7. ASSUME ~estranged' PROVE GuidesBehind(modal') /\ AnswersAwaited(modal', fetches')
  <2>1. ~estranged /\ ~Estranging(closed)
    BY <1>1, <1>7
  <2>2. GuidesBehind(modal')
    BY <1>5, <2>1 DEF MInv, GuidesBehind
  <2>3. fetches \in Nat /\ fetches <= Cardinality(WaitingIn(modal))
    BY <2>1, ModalsAssumption DEF MInv, GuidesTypeOK, AnswersAwaited
  <2>4. CASE fetches = 0
    BY <1>1, <2>2, <2>4, WaitingFinite DEF AnswersAwaited
  <2>5. CASE fetches > 0
    <3>1. \A i \in WaitingIn(modal) : i \notin closed
      BY <2>1, <2>5 DEF Estranging, Waiting, WaitingIn
    <3>2. WaitingIn(modal') = WaitingIn(modal)
      BY <1>4, <1>5, <3>1 DEF WaitingIn
    <3> QED
      BY <1>1, <2>2, <2>3, <3>2 DEF AnswersAwaited
  <2> QED
    BY <2>3, <2>4, <2>5
<1> QED
  BY <1>3, <1>6, <1>7 DEF MInv

\* A frame makes everything visible that is on the page.
LEMMA FrameKeeps == ASSUME MInv, Frame PROVE MInv'
<1>1. /\ modal' = [i \in Places |-> IF i \in PlacesIn(modal)
                                      THEN [modal[i] EXCEPT !.open = TRUE]
                                      ELSE NoModal]
      /\ UNCHANGED <<fetches, estranged>>
  BY PresentIs DEF Frame
<1>2. modal \in [Places -> Modal \cup {NoModal}]
  BY DEF MInv, GuidesTypeOK
<1>3. ASSUME NEW i \in PlacesIn(modal)
      PROVE  /\ modal'[i] \in Modal /\ modal'[i] # NoModal
             /\ modal'[i].open /\ modal'[i].esc = modal[i].esc
             /\ modal'[i].kind = modal[i].kind /\ modal'[i].body = modal[i].body
  <2> DEFINE q == modal[i]
  <2>1. i \in Places /\ q \in Modal
    BY <1>2 DEF PlacesIn
  <2>2. modal'[i] = [q EXCEPT !.open = TRUE]
    BY <1>1, <2>1
  <2> HIDE DEF q
  <2>3. /\ modal'[i] \in Modal
        /\ modal'[i].open /\ modal'[i].esc = q.esc
        /\ modal'[i].kind = q.kind /\ modal'[i].body = q.body
    BY <2>1, <2>2 DEF Modal
  <2> QED
    BY <2>3, ModalsAssumption DEF q
<1>4. TypedIn(modal')
  BY <1>1, <1>3 DEF TypedIn
<1>5. PlacesIn(modal') = PlacesIn(modal)
  BY <1>1, <1>3 DEF PlacesIn
<1>6. GuidesTypeOK'
  BY <1>1, <1>4 DEF MInv, GuidesTypeOK, TypedIn
<1>7. OrderIn(modal')
  BY <1>3, <1>5 DEF MInv, OrderIn
<1>8. WaitingIn(modal') = WaitingIn(modal)
  BY <1>3, <1>5 DEF WaitingIn
<1>9. GuidesBehind(modal) => GuidesBehind(modal')
  BY <1>3, <1>5 DEF GuidesBehind
<1> QED
  BY <1>1, <1>6, <1>7, <1>8, <1>9 DEF MInv, AnswersAwaited

\* An answer is written into the first open guide, and one dialog at the most
\* stops waiting.
LEMMA LandKeeps ==
  ASSUME MInv, NEW body \in {"text", "error"}, land(body)
  PROVE  MInv'
<1>1. /\ fetches > 0
      /\ fetches' = fetches - 1
      /\ modal' = [i \in Places |-> IF FirstOpen(i)
                                      THEN [modal[i] EXCEPT !.body = body]
                                      ELSE modal[i]]
      /\ estranged' = estranged
  BY DEF land
<1>2. /\ modal \in [Places -> Modal \cup {NoModal}]
      /\ fetches \in 0 .. MaxModals
  BY DEF MInv, GuidesTypeOK
<1>3. ASSUME NEW i \in PlacesIn(modal)
      PROVE  /\ modal'[i] \in Modal /\ modal'[i] # NoModal
             /\ modal'[i].open = modal[i].open /\ modal'[i].esc = modal[i].esc
             /\ modal'[i].kind = modal[i].kind
             /\ ~FirstOpen(i) => modal'[i] = modal[i]
  <2> DEFINE q == modal[i]
  <2>1. i \in Places /\ q \in Modal
    BY <1>2 DEF PlacesIn
  <2>2. modal'[i] = IF FirstOpen(i) THEN [q EXCEPT !.body = body] ELSE q
    BY <1>1, <2>1
  <2> HIDE DEF q
  <2>3. /\ modal'[i] \in Modal
        /\ modal'[i].open = q.open /\ modal'[i].esc = q.esc
        /\ modal'[i].kind = q.kind
        /\ ~FirstOpen(i) => modal'[i] = q
    BY <2>1, <2>2 DEF Modal
  <2> QED
    BY <2>3, ModalsAssumption DEF q
<1>4. \A i \in Places : FirstOpen(i) => i \in PlacesIn(modal)
  BY PresentIs DEF FirstOpen, Open
<1>5. TypedIn(modal')
  <2>1. \A i \in Places : modal'[i] \in Modal \cup {NoModal}
    BY <1>1, <1>2, <1>3, <1>4 DEF PlacesIn
  <2> QED
    BY <1>1, <2>1 DEF TypedIn
<1>6. PlacesIn(modal') = PlacesIn(modal)
  BY <1>1, <1>3, <1>4 DEF PlacesIn
<1>7. GuidesTypeOK'
  BY <1>1, <1>2, <1>5, ModalsAssumption DEF MInv, GuidesTypeOK, TypedIn
<1>8. OrderIn(modal')
  BY <1>3, <1>6 DEF MInv, OrderIn
<1>9. ASSUME ~estranged PROVE GuidesBehind(modal') /\ AnswersAwaited(modal', fetches')
  <2>1. \A i \in PlacesIn(modal) : FirstOpen(i) => modal[i].kind = "onboarding"
    BY <1>1, <1>9, FirstIsOnboarding DEF PlacesIn
  <2>2. GuidesBehind(modal')
    <3>1. \A i \in PlacesIn(modal) : modal'[i].kind = "guide" => modal'[i] = modal[i]
      BY <1>3, <2>1
    <3>2. GuidesBehind(modal)
      BY <1>9 DEF MInv
    <3> QED
      BY <1>3, <1>6, <3>1, <3>2 DEF GuidesBehind
  <2>3. \A i, j \in Places : FirstOpen(i) /\ FirstOpen(j) => i = j
    BY DEF FirstOpen, Open, Present, Places
  <2>4. PICK n : \A i \in PlacesIn(modal) : FirstOpen(i) => i = n
    BY <2>3 DEF PlacesIn
  <2>5. WaitingIn(modal) \ {n} \in SUBSET WaitingIn(modal')
    BY <1>3, <1>6, <2>4 DEF WaitingIn
  <2>6. Cardinality(WaitingIn(modal)) - 1 <= Cardinality(WaitingIn(modal'))
    <3>1. Cardinality(WaitingIn(modal)) - 1 <= Cardinality(WaitingIn(modal) \ {n})
      BY WaitingFinite, FS_RemoveElement
    <3>2. Cardinality(WaitingIn(modal) \ {n}) <= Cardinality(WaitingIn(modal'))
      BY <2>5, WaitingFinite, FS_Subset
    <3>3. Cardinality(WaitingIn(modal) \ {n}) \in Nat
      BY WaitingFinite, FS_RemoveElement, FS_CardinalityType
    <3> QED
      BY <3>1, <3>2, <3>3, WaitingFinite
  <2>7. fetches \in Int /\ fetches <= Cardinality(WaitingIn(modal))
    BY <1>2, <1>9 DEF MInv, AnswersAwaited
  <2> QED
    BY <1>1, <2>2, <2>6, <2>7, WaitingFinite DEF AnswersAwaited
<1> QED
  BY <1>1, <1>7, <1>8, <1>9 DEF MInv

LEMMA GuideOpenKeeps == ASSUME MInv, help \/ openOnboarding PROVE MInv'
<1>1. CASE help
  <2>1. guideModal("guide") /\ UNCHANGED <<fetches, estranged>>
    BY <1>1 DEF help
  <2>2. /\ TypedIn(modal') /\ OrderIn(modal')
        /\ GuidesBehind(modal) => GuidesBehind(modal')
        /\ WaitingIn(modal') = WaitingIn(modal)
    BY <2>1, Appended
  <2> QED
    BY <2>1, <2>2 DEF MInv, GuidesTypeOK, TypedIn, AnswersAwaited
<1>2. CASE openOnboarding
  <2>1. /\ guideModal("onboarding")
        /\ fetches < MaxModals /\ fetches' = fetches + 1
        /\ estranged' = (estranged \/ \E i \in Present : modal[i].kind = "guide")
    BY <1>2 DEF openOnboarding
  <2>2. /\ TypedIn(modal') /\ OrderIn(modal')
        /\ (\A i \in Present : modal[i].kind # "guide") => GuidesBehind(modal')
        /\ Cardinality(WaitingIn(modal')) = Cardinality(WaitingIn(modal)) + 1
    BY <2>1, Appended
  <2>3. fetches \in 0 .. MaxModals /\ estranged \in BOOLEAN
    BY DEF MInv, GuidesTypeOK
  <2>4. GuidesTypeOK'
    BY <2>1, <2>2, <2>3, ModalsAssumption DEF GuidesTypeOK, TypedIn
  <2>5. ASSUME ~estranged' PROVE GuidesBehind(modal') /\ AnswersAwaited(modal', fetches')
    <3>1. ~estranged /\ \A i \in Present : modal[i].kind # "guide"
      BY <2>1, <2>5
    <3>2. fetches <= Cardinality(WaitingIn(modal))
      BY <3>1 DEF MInv, AnswersAwaited
    <3> QED
      BY <2>1, <2>2, <2>3, <3>1, <3>2, WaitingFinite DEF AnswersAwaited
  <2> QED
    BY <2>2, <2>4, <2>5 DEF MInv
<1> QED
  BY <1>1, <1>2

LEMMA LeavePageKeeps == ASSUME LeavePage PROVE MInv'
<1>1. PlacesIn(modal') = {} /\ WaitingIn(modal') = {}
  BY DEF LeavePage, PlacesIn, WaitingIn
<1>2. GuidesTypeOK'
  <2>1. (modal \in [Places -> Modal \cup {NoModal}])'
    BY DEF LeavePage
  <2>2. fetches' \in 0 .. MaxModals /\ estranged' = FALSE
    BY ModalsAssumption DEF LeavePage
  <2> QED
    BY <2>1, <2>2 DEF GuidesTypeOK
<1>3. AnswersAwaited(modal', fetches')
  BY <1>1, FS_EmptySet DEF LeavePage, AnswersAwaited
<1> QED
  BY <1>1, <1>2, <1>3 DEF MInv, OrderIn, GuidesBehind

LEMMA MInvNext == MInv /\ [GuidesNext]_guideVars => MInv'
<1> SUFFICES ASSUME MInv, [GuidesNext]_guideVars PROVE MInv'
  OBVIOUS
<1>1. ASSUME NEW i \in Places, closeModal(i) PROVE MInv'
  BY <1>1, Removed DEF closeModal
<1>2. ASSUME NEW key \in {"Escape", "Enter"}, keydown(key) PROVE MInv'
  <2> DEFINE closed == IF key = "Escape" THEN {i \in Present : modal[i].esc} ELSE {}
  <2>1. closed \in SUBSET Places /\ Remove(closed)
    BY <1>2 DEF keydown, Present
  <2> QED
    BY <2>1, Removed
<1>3. CASE UNCHANGED guideVars
  BY <1>3 DEF guideVars, MInv, GuidesTypeOK, OrderIn, GuidesBehind, AnswersAwaited,
              WaitingIn, PlacesIn
<1> QED
  BY <1>1, <1>2, <1>3, GuideOpenKeeps, FrameKeeps, LandKeeps, LeavePageKeeps
  DEF GuidesNext, Arrival

LEMMA MInvAlways == GuidesSpec => []MInv
BY MInvInit, MInvNext, PTL DEF GuidesSpec

-----------------------------------------------------------------------------
\* Every variable of the guides keeps its type.
THEOREM GuidesTypeCorrect == GuidesSpec => []GuidesTypeOK
<1>1. MInv => GuidesTypeOK
  BY DEF MInv
<1> QED
  BY MInvAlways, <1>1, PTL

\* A guide of the page keeps the text it was opened with, unless onboarding was
\* opened behind it or closed while its text was under way (openOnboarding).
THEOREM GuidesAlwaysKeepTheirText == GuidesSpec => []GuidesKeepTheirText
<1>1. MInv => GuidesKeepTheirText
  BY PresentIs DEF MInv, GuidesKeepTheirText, GuidesBehind
<1> QED
  BY MInvAlways, <1>1, PTL

\* Escape closes whatever has been opened, however many guides (guideModal).
THEOREM EscapeAlwaysClosesAll == GuidesSpec => EscapeClosesAll
<1> DEFINE Closes == keydown("Escape") => \A i \in Places : modal'[i] = NoModal
<1>1. MInv => Closes
  BY PresentIs DEF MInv, OrderIn, keydown, Remove, PlacesIn
<1>2. MInv /\ [GuidesNext]_guideVars => [Closes]_guideVars
  BY <1>1
<1> QED
  BY MInvAlways, <1>2, PTL DEF GuidesSpec, EscapeClosesAll
=============================================================================
