------------------------------ MODULE DocsPage ------------------------------
(***************************************************************************)
(* What one page of the documentation site does once it is loaded: three   *)
(* groups of tabs, the questions that unfold, the menu of a small screen,  *)
(* and the copy buttons, whose answer comes from the clipboard later and   *)
(* shows a toast that its own timer takes down.                            *)
(***************************************************************************)
EXTENDS Naturals

CONSTANTS
  Steps,       \* the steps of the simulator, FirstStep shown at the start
  FirstStep,
  Categories,  \* the categories of the tools; All is the button before them
  All,
  Snippets,    \* the code snippets, FirstSnippet shown at the start
  FirstSnippet,
  Questions,
  MaxCopies    \* bound: copies without an answer, and timers not run out

ASSUME FirstAssumption == FirstStep \in Steps /\ FirstSnippet \in Snippets
ASSUME AllAssumption == All \notin Categories
ASSUME CopiesAssumption == MaxCopies \in Nat \ {0}

VARIABLES
  scripted,  \* have the initialisers run, not stopped by the first of them
  tabs,      \* which button of each group is active
  panels,    \* what is displayed: a step, tools by category, a snippet
  open,      \* the questions unfolded
  menu,      \* is the menu of the small screen down
  toast,     \* the element: does it exist, is it shown
  pending    \* copies the clipboard has not answered, timers of the toast

pageVars == <<scripted, tabs, panels, open, menu, toast, pending>>

TabsType == [sim: SUBSET Steps, tool: SUBSET (Categories \cup {All}),
             code: SUBSET Snippets]
PanelsType == [sim: SUBSET Steps, tool: SUBSET Categories, code: SUBSET Snippets]

-----------------------------------------------------------------------------
\* The page as it is written, with or without its handlers.
PageInit ==
  /\ scripted \in BOOLEAN
  /\ tabs = [sim |-> {FirstStep}, tool |-> {All}, code |-> {FirstSnippet}]
  /\ panels = [sim |-> {FirstStep}, tool |-> Categories, code |-> {FirstSnippet}]
  /\ open = {}
  /\ menu = FALSE
  /\ toast = [made |-> FALSE, show |-> FALSE]
  /\ pending = [copies |-> 0, timers |-> 0]

\* A tab of the simulator: every tab and step is switched off, then one on.
initSimulatorTabs(step) ==
  /\ scripted
  /\ tabs' = [tabs EXCEPT !.sim = {step}]
  /\ panels' = [panels EXCEPT !.sim = {step}]
  /\ UNCHANGED <<scripted, open, menu, toast, pending>>

\* A filter of the tools; 'all' is no category of an item.
initToolFilter(category) ==
  /\ scripted
  /\ tabs' = [tabs EXCEPT !.tool = {category}]
  /\ panels' = [panels EXCEPT !.tool =
       {c \in Categories : category = All \/ c = category}]
  /\ UNCHANGED <<scripted, open, menu, toast, pending>>

initCodeTabs(snippet) ==
  /\ scripted
  /\ tabs' = [tabs EXCEPT !.code = {snippet}]
  /\ panels' = [panels EXCEPT !.code = {snippet}]
  /\ UNCHANGED <<scripted, open, menu, toast, pending>>

\* A question closes all of them, and unfolds unless it was open.
initFAQAccordion(question) ==
  /\ scripted
  /\ open' = {question} \ open
  /\ UNCHANGED <<scripted, tabs, panels, menu, toast, pending>>

\* The menu is set up by the script itself, not by an initialiser.
mobileBtn ==
  /\ menu' = ~menu
  /\ UNCHANGED <<scripted, tabs, panels, open, toast, pending>>

navLink ==
  /\ menu
  /\ menu' = FALSE
  /\ UNCHANGED <<scripted, tabs, panels, open, toast, pending>>

-----------------------------------------------------------------------------
(* Copying                                                                 *)

Copy ==
  /\ scripted
  /\ pending.copies + pending.timers < MaxCopies
  /\ pending' = [pending EXCEPT !.copies = @ + 1]
  /\ UNCHANGED <<scripted, tabs, panels, open, menu, toast>>

\* Mutated form: the timer is started where the element is made.
showToastTimedOnce ==
  /\ toast' = [made |-> TRUE, show |-> TRUE]
  /\ pending' = [copies |-> pending.copies - 1,
                 timers |-> IF toast.made THEN pending.timers ELSE pending.timers + 1]

\* The element is made once; every call starts a timer, no call stops one.
showToast ==
  /\ toast' = [made |-> TRUE, show |-> TRUE]
  /\ pending' = [copies |-> pending.copies - 1, timers |-> pending.timers + 1]

Copied ==
  /\ pending.copies > 0
  /\ showToast
  /\ UNCHANGED <<scripted, tabs, panels, open, menu>>

\* The browser refuses: the promise has no handler for that.
NotCopied ==
  /\ pending.copies > 0
  /\ pending' = [pending EXCEPT !.copies = @ - 1]
  /\ UNCHANGED <<scripted, tabs, panels, open, menu, toast>>

\* 2500 ms after one of the calls.
Timer ==
  /\ pending.timers > 0
  /\ pending' = [pending EXCEPT !.timers = @ - 1]
  /\ toast' = [toast EXCEPT !.show = FALSE]
  /\ UNCHANGED <<scripted, tabs, panels, open, menu>>

PageNext ==
  \/ \E step \in Steps : initSimulatorTabs(step)
  \/ \E category \in Categories \cup {All} : initToolFilter(category)
  \/ \E snippet \in Snippets : initCodeTabs(snippet)
  \/ \E question \in Questions : initFAQAccordion(question)
  \/ mobileBtn \/ navLink
  \/ Copy \/ Copied \/ NotCopied \/ Timer

\* The browser runs a timer that is due.
PageFairness == WF_pageVars(Timer)

PageSpec == PageInit /\ [][PageNext]_pageVars /\ PageFairness

-----------------------------------------------------------------------------
PageTypeOK ==
  /\ scripted \in BOOLEAN
  /\ tabs \in TabsType
  /\ panels \in PanelsType
  /\ open \in SUBSET Questions
  /\ menu \in BOOLEAN
  /\ toast \in [made: BOOLEAN, show: BOOLEAN]
  /\ pending \in [copies: 0 .. MaxCopies, timers: 0 .. MaxCopies]

\* What is displayed is what the active button of its group stands for, after
\* any clicks, and on a page whose handlers never ran as well: one step, one
\* snippet, the tools of one category or all, and one question at the most.
PanelsFollow ==
  /\ \E step \in Steps : tabs.sim = {step} /\ panels.sim = {step}
  /\ \E snippet \in Snippets : tabs.code = {snippet} /\ panels.code = {snippet}
  /\ \E category \in Categories \cup {All} :
       /\ tabs.tool = {category}
       /\ panels.tool = IF category = All THEN Categories ELSE {category}
  /\ \A q, r \in open : q = r

\* A toast is taken down, however many copies follow each other and whichever
\* call's timer runs out first: none is shown without a timer to come.
ToastGoes == toast.show ~> ~toast.show
=============================================================================
