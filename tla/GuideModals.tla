----------------------------- MODULE GuideModals -----------------------------
(***************************************************************************)
(* The guides of the console: dialogs that show a text.  The guide of the  *)
(* page comes with it; the onboarding guide is fetched while its dialog    *)
(* is on the page already, and what arrives is written into the first      *)
(* guide the document has open, whichever that is.                         *)
(*                                                                         *)
(* A dialog is on the page from the call on and open, that is visible,     *)
(* from the next animation frame on.                                       *)
(***************************************************************************)
EXTENDS Naturals

CONSTANTS
  MaxModals,  \* places for guides in the document, bounded for the check
  NoModal

VARIABLES
  modal,     \* modal[i]: the guide at place i of the document, or NoModal
  fetches,   \* requests for the onboarding text under way
  estranged  \* history: see `Estranging'

guideVars == <<modal, fetches, estranged>>

\* `esc': does the dialog listen to the Escape key.
Modal == [kind: {"guide", "onboarding"}, open: BOOLEAN, esc: BOOLEAN,
          body: {"own", "loading", "text", "error"}]

ASSUME ModalsAssumption == MaxModals \in Nat /\ NoModal \notin Modal

Places == 1 .. MaxModals

Present == {i \in Places : modal[i] # NoModal}

\* The guides that querySelector finds, and the one it returns.
Open == {i \in Present : modal[i].open}
FirstOpen(i) == i \in Open /\ \A j \in Open : i <= j

Waiting(i) == modal[i].kind = "onboarding" /\ modal[i].body = "loading"

\* An answer may find another guide than the one it was asked for: onboarding
\* was opened behind a guide of the page, or is closed before its text is in.
Estranging(closed) == fetches > 0 /\ \E i \in closed : Waiting(i)

-----------------------------------------------------------------------------
GuidesInit ==
  /\ modal = [i \in Places |-> NoModal]
  /\ fetches = 0
  /\ estranged = FALSE

NewModal(kind) ==
  [kind |-> kind, open |-> FALSE, esc |-> TRUE,
   body |-> IF kind = "guide" THEN "own" ELSE "loading"]

\* Mutated form: a dialog takes any free place of the document.
guideModalAnywhere(kind) ==
  \E i \in Places \ Present : modal' = [modal EXCEPT ![i] = NewModal(kind)]

\* The dialog goes to the end of the document and listens to the keyboard.
guideModal(kind) ==
  \E i \in Places :
    /\ \A j \in Present : j < i
    /\ \A j \in 1 .. i - 1 : \E k \in Present : j <= k
    /\ modal' = [modal EXCEPT ![i] = NewModal(kind)]

\* buildHelp: the guide of the page.
help ==
  /\ guideModal("guide")
  /\ UNCHANGED <<fetches, estranged>>

openOnboarding ==
  /\ fetches < MaxModals
  /\ guideModal("onboarding")
  /\ fetches' = fetches + 1
  /\ estranged' = (estranged \/ \E i \in Present : modal[i].kind = "guide")

\* The animation frame that every dialog added since the last one asked for.
Frame ==
  /\ Present # Open
  /\ modal' = [i \in Places |-> IF i \in Present
                                  THEN [modal[i] EXCEPT !.open = TRUE]
                                  ELSE NoModal]
  /\ UNCHANGED <<fetches, estranged>>

Remove(closed) ==
  /\ modal' = [i \in Places |-> IF i \in closed THEN NoModal ELSE modal[i]]
  /\ estranged' = (estranged \/ Estranging(closed))
  /\ UNCHANGED fetches

\* By the button or beside the box, when the dialog is visible.
closeModal(i) == i \in Open /\ Remove({i})

\* Mutated form: any key uses the listener up.
keydownOnce(key) ==
  /\ Present # {}
  /\ IF key = "Escape" THEN Remove({i \in Present : modal[i].esc})
     ELSE /\ modal' = [i \in Places |-> IF i \in Present
                                          THEN [modal[i] EXCEPT !.esc = FALSE]
                                          ELSE NoModal]
          /\ UNCHANGED <<fetches, estranged>>

\* Escape closes the dialogs that listen; to other keys they do not.
keydown(key) ==
  /\ Present # {}
  /\ Remove(IF key = "Escape" THEN {i \in Present : modal[i].esc} ELSE {})

\* Mutated form: a failure is not shown.
landQuietly(body) ==
  /\ fetches > 0
  /\ fetches' = fetches - 1
  /\ modal' = [i \in Places |-> IF FirstOpen(i) /\ body # "error"
                                  THEN [modal[i] EXCEPT !.body = body]
                                  ELSE modal[i]]
  /\ UNCHANGED estranged

\* The text has come in, or will not: the first open guide shows it.
land(body) ==
  /\ fetches > 0
  /\ fetches' = fetches - 1
  /\ modal' = [i \in Places |-> IF FirstOpen(i)
                                  THEN [modal[i] EXCEPT !.body = body]
                                  ELSE modal[i]]
  /\ UNCHANGED estranged

Arrival == \E body \in {"text", "error"} : land(body)

\* The page is left or loaded again.
LeavePage ==
  /\ modal' = [i \in Places |-> NoModal]
  /\ fetches' = 0
  /\ estranged' = FALSE

GuidesNext ==
  \/ help \/ openOnboarding \/ Frame \/ Arrival \/ LeavePage
  \/ \E i \in Places : closeModal(i)
  \/ \E key \in {"Escape", "Enter"} : keydown(key)

GuidesSpec == GuidesInit /\ [][GuidesNext]_guideVars

\* Every request is answered or fails in the end: the browser sees to that.
\* No frame has to come: a page in the background has none.
GuidesFairness == WF_guideVars(Arrival)

-----------------------------------------------------------------------------
GuidesTypeOK ==
  /\ modal \in [Places -> Modal \cup {NoModal}]
  /\ fetches \in 0 .. MaxModals
  /\ estranged \in BOOLEAN

\* A guide shows the text it was opened with, whatever else is opened, closed
\* or arrives, unless an onboarding guide was opened behind it or closed while
\* its text was under way (openOnboarding, buildHelp).
GuidesKeepTheirText ==
  ~estranged => \A i \in Present : modal[i].kind = "guide"
                                     => modal[i].body = "own"

\* Escape leaves no guide on the page, however many were opened and whatever
\* was typed or closed before (guideModal).
EscapeClosesAll ==
  [][keydown("Escape") => \A i \in Places : modal'[i] = NoModal]_guideVars

\* The onboarding guide that is the first one open does not go on waiting: its
\* text arrives or the reader is told that it will not (openOnboarding).
OnboardingArrives ==
  \A i \in Places :
    (FirstOpen(i) /\ Waiting(i) /\ fetches > 0)
      ~> (i \notin Present \/ ~Waiting(i))
=============================================================================
