--------------------------- MODULE AccountDialogs ---------------------------
(***************************************************************************)
(* The profile menu of the console: the dialogs that change a user's       *)
(* profile and password, and the logout, with the handlers they call.      *)
(*                                                                         *)
(* Nothing disables a dialog while a request of it is under way: it can be *)
(* submitted again, or closed, and answers come in any order or never.     *)
(* What a success starts (the dialog closes, the page is loaded again) is  *)
(* a timer.                                                                *)
(***************************************************************************)
CONSTANTS
  Dialogs,    \* dialogs on the page, or waited for by a request, at once
  Requests,   \* requests under way at once
  Nothing

VARIABLES
  account,  \* the signed-in user as the server knows it
  signedIn, \* does the browser show a page of the console
  dialog,   \* dialog[d]: the dialog d on the page, or Nothing
  request,  \* request[r]: what is under way, or Nothing
  closing,  \* dialogs with a timer that will close them
  reload,   \* is there a timer that will load the page again
  saved     \* history: dialogs the server has carried out a change of

dialogVars == <<account, signedIn, dialog, request, closing, reload, saved>>

Account == [local: BOOLEAN, session: BOOLEAN]

Dialog == [kind: {"profile", "password"}, msg: {"none", "ok", "bad"}]

\* `answer': does the page still wait for it.
Request == [kind: {"profile", "password", "logout"},
            dialog: Dialogs \cup {Nothing},
            step: {"sent", "checked", "carried", "refused"}, answer: BOOLEAN]

ASSUME NothingAssumption == Nothing \notin Dialogs \cup Dialog \cup Request

-----------------------------------------------------------------------------
\* A host element is never used twice: an id is, when nothing refers to it.
Unused ==
  {d \in Dialogs : /\ dialog[d] = Nothing /\ d \notin closing
                   /\ \A r \in Requests : request[r] = Nothing
                                            \/ request[r].dialog # d}

IdleRequests == {r \in Requests : request[r] = Nothing}

Send(kind, d) ==
  /\ IdleRequests # {}
  /\ request' = [request EXCEPT ![CHOOSE r \in IdleRequests : TRUE] =
       [kind |-> kind, dialog |-> d, step |-> "sent", answer |-> TRUE]]

\* The requests of a page that is gone are under way without anybody waiting.
Abandon == [r \in Requests |-> IF request[r] = Nothing THEN Nothing
                               ELSE [request[r] EXCEPT !.answer = FALSE]]

\* The page is left: its dialogs and its timers are gone.
Unload ==
  /\ dialog' = [d \in Dialogs |-> Nothing]
  /\ closing' = {}
  /\ reload' = FALSE

\* The message of a dialog that is still on the page.
Told(d, msg) == [dialog EXCEPT ![d] = IF @ = Nothing THEN Nothing
                                      ELSE [@ EXCEPT !.msg = msg]]

-----------------------------------------------------------------------------
DialogsInit ==
  /\ account \in [local: BOOLEAN, session: {TRUE}]
  /\ signedIn = TRUE
  /\ dialog = [d \in Dialogs |-> Nothing]
  /\ request = [r \in Requests |-> Nothing]
  /\ closing = {}
  /\ reload = FALSE
  /\ saved = {}

-----------------------------------------------------------------------------
(* The menu and its dialogs                                                *)

\* buildProfileMenu: a password is changed here by local accounts only.
openModal(kind) ==
  LET d == CHOOSE e \in Unused : TRUE IN
  /\ signedIn
  /\ Unused # {}
  /\ kind = "password" => account.local
  /\ dialog' = [dialog EXCEPT ![d] = [kind |-> kind, msg |-> "none"]]
  /\ saved' = saved \ {d}
  /\ UNCHANGED <<account, signedIn, request, closing, reload>>

\* openProfileModal: what the form says is sent.
submitProfile(d) ==
  /\ dialog[d] # Nothing /\ dialog[d].kind = "profile"
  /\ Send("profile", d)
  /\ UNCHANGED <<account, signedIn, dialog, closing, reload, saved>>

\* openPasswordModal: a new password that is too short, or not the same twice,
\* is refused on the spot.
submitPassword(d) ==
  /\ dialog[d] # Nothing /\ dialog[d].kind = "password"
  /\ \/ dialog' = Told(d, "bad") /\ UNCHANGED request
     \/ Send("password", d) /\ UNCHANGED dialog
  /\ UNCHANGED <<account, signedIn, closing, reload, saved>>

logout ==
  /\ signedIn
  /\ Send("logout", Nothing)
  /\ UNCHANGED <<account, signedIn, dialog, closing, reload, saved>>

\* By the button or beside the box.
cancel(d) ==
  /\ dialog[d] # Nothing
  /\ dialog' = [dialog EXCEPT ![d] = Nothing]
  /\ UNCHANGED <<account, signedIn, request, closing, reload, saved>>

\* The user reloads the page, or follows a link.
Browse ==
  /\ signedIn
  /\ signedIn' = account.session
  /\ Unload
  /\ request' = Abandon
  /\ UNCHANGED <<account, saved>>

\* modalShell: whatever else the page shows, the timer of a success fires.
close(d) ==
  /\ d \in closing
  /\ dialog' = [dialog EXCEPT ![d] = Nothing]
  /\ closing' = closing \ {d}
  /\ UNCHANGED <<account, signedIn, request, reload, saved>>

Reload ==
  /\ reload
  /\ Browse

-----------------------------------------------------------------------------
(* The server                                                              *)

Under(r, step) == request[r] # Nothing /\ request[r].step = step

Step(r, step) == [request EXCEPT ![r].step = step]

\* The session is looked up; the current password is verified, and wrong when
\* an earlier submission has changed it.
receive(r) ==
  /\ Under(r, "sent") /\ request[r].kind # "logout"
  /\ \/ /\ account.session
        /\ request[r].kind = "password" => account.local
        /\ request' = Step(r, "checked")
     \/ /\ account.session => request[r].kind = "password"
        /\ request' = Step(r, "refused")
  /\ UNCHANGED <<account, signedIn, dialog, closing, reload, saved>>

\* The row is written, or the store fails.
store(r) ==
  /\ Under(r, "checked")
  /\ \/ /\ request' = Step(r, "carried")
        /\ saved' = saved \cup {request[r].dialog}
     \/ /\ request' = Step(r, "refused")
        /\ UNCHANGED saved
  /\ UNCHANGED <<account, signedIn, dialog, closing, reload>>

handleLogout(r) ==
  /\ Under(r, "sent") /\ request[r].kind = "logout"
  /\ request' = Step(r, "carried")
  /\ account' = [account EXCEPT !.session = FALSE]
  /\ UNCHANGED <<signedIn, dialog, closing, reload, saved>>

\* The session expires, or an administrator has ended it.
Expire ==
  /\ account.session
  /\ account' = [account EXCEPT !.session = FALSE]
  /\ UNCHANGED <<signedIn, dialog, request, closing, reload, saved>>

LogIn ==
  /\ ~signedIn
  /\ account' = [account EXCEPT !.session = TRUE]
  /\ signedIn' = TRUE
  /\ UNCHANGED <<dialog, request, closing, reload, saved>>

-----------------------------------------------------------------------------
(* Answers                                                                 *)

Settled(r) == [request EXCEPT ![r] = Nothing]

Awaited(r) == request[r] # Nothing /\ request[r].answer

Answered(r) == Under(r, "carried") \/ Under(r, "refused")

\* Mutated form: an answer is an answer, whatever its status.
doneWhatever(r) ==
  LET d == request[r].dialog IN
  /\ Awaited(r) /\ Answered(r) /\ request[r].kind # "logout"
  /\ dialog' = Told(d, "ok")
  /\ closing' = closing \cup {d}
  /\ reload' = (reload \/ request[r].kind = "profile")
  /\ request' = Settled(r)
  /\ UNCHANGED <<account, signedIn, saved>>

\* Mutated form: a failure stops the timer of an earlier success.
doneStopsTimer(r) ==
  LET d == request[r].dialog IN
  /\ Awaited(r) /\ Answered(r) /\ request[r].kind # "logout"
  /\ IF Under(r, "carried")
       THEN /\ dialog' = Told(d, "ok")
            /\ closing' = closing \cup {d}
            /\ reload' = (reload \/ request[r].kind = "profile")
       ELSE /\ dialog' = Told(d, "bad")
            /\ closing' = closing \ {d}
            /\ UNCHANGED reload
  /\ request' = Settled(r)
  /\ UNCHANGED <<account, signedIn, saved>>

\* done: a success closes the dialog later on; that of a profile has the page
\* loaded again, whether its dialog is still there or not.
done(r) ==
  LET d == request[r].dialog IN
  /\ Awaited(r) /\ Answered(r) /\ request[r].kind # "logout"
  /\ IF Under(r, "carried")
       THEN /\ dialog' = Told(d, "ok")
            /\ closing' = closing \cup {d}
            /\ reload' = (reload \/ request[r].kind = "profile")
       ELSE /\ dialog' = Told(d, "bad")
            /\ UNCHANGED <<closing, reload>>
  /\ request' = Settled(r)
  /\ UNCHANGED <<account, signedIn, saved>>

\* After a logout the browser goes to the login page.
loggedOut(r) ==
  /\ Awaited(r) /\ Under(r, "carried") /\ request[r].kind = "logout"
  /\ signedIn' = FALSE
  /\ Unload
  /\ request' = [Abandon EXCEPT ![r] = Nothing]
  /\ UNCHANGED <<account, saved>>

\* The connection breaks: the page is told so, and the server may have got the
\* request all the same.  Nobody catches the failure of a logout.
Break(r) ==
  /\ Awaited(r)
  /\ request' = [request EXCEPT ![r].answer = FALSE]
  /\ dialog' = IF request[r].kind = "logout" THEN dialog
               ELSE Told(request[r].dialog, "bad")
  /\ UNCHANGED <<account, signedIn, closing, reload, saved>>

\* Nobody waits: the answer is for nobody, or the request never arrived.
Forget(r) ==
  /\ request[r] # Nothing /\ ~request[r].answer
  /\ Answered(r) \/ Under(r, "sent")
  /\ request' = Settled(r)
  /\ UNCHANGED <<account, signedIn, dialog, closing, reload, saved>>

-----------------------------------------------------------------------------
Timers == Reload \/ \E d \in Dialogs : close(d)

DialogsNext ==
  \/ \E kind \in {"profile", "password"} : openModal(kind)
  \/ \E d \in Dialogs :
       \/ submitProfile(d)
       \/ submitPassword(d)
       \/ cancel(d)
  \/ logout \/ Browse \/ Timers
  \/ \E r \in Requests :
       \/ receive(r) \/ store(r) \/ handleLogout(r)
       \/ done(r) \/ loggedOut(r) \/ Break(r) \/ Forget(r)
  \/ Expire \/ LogIn

DialogsSpec == DialogsInit /\ [][DialogsNext]_dialogVars

\* Timers fire: nobody has to touch the page.
DialogsFairness ==
  /\ WF_dialogVars(Reload)
  /\ \A d \in Dialogs : WF_dialogVars(close(d))

-----------------------------------------------------------------------------
DialogsTypeOK ==
  /\ account \in Account
  /\ signedIn \in BOOLEAN /\ reload \in BOOLEAN
  /\ dialog \in [Dialogs -> Dialog \cup {Nothing}]
  /\ request \in [Requests -> Request \cup {Nothing}]
  /\ closing \subseteq Dialogs /\ saved \subseteq Dialogs

\* A dialog that reports a success, or is about to close on its own, has had a
\* change carried out, in whatever order the answers to its submissions, the
\* failures of connections and the answers to earlier dialogs come in (done).
SuccessIsReal ==
  \A d \in Dialogs :
    \/ dialog[d] # Nothing /\ dialog[d].msg = "ok"
    \/ d \in closing
    => d \in saved

\* What was reported as done is not left standing: the dialog closes also when
\* a later submission of it fails, and a page whose profile was saved is loaded
\* again also when the dialog was closed meanwhile (modalShell,
\* openProfileModal).
ReportedChangesEnd ==
  /\ \A d \in Dialogs :
       (dialog[d] # Nothing /\ dialog[d].msg = "ok") ~> (dialog[d] = Nothing)
  /\ reload ~> ~reload
=============================================================================
