---------------------------- MODULE Parts_proofs ----------------------------
(* The parts side by side: each of them behaves as it does alone, so that    *)
(* what is proved of one part holds of their sum.                            *)
EXTENDS MCParts, Console_proofs, DocsSite_proofs, WorkspaceCatalog_proofs

\* A step of the sum is a step of every part, or the part rests.
LEMMA PartSteps ==
  [Next]_vars => /\ [ShellNext]_shellVars
                 /\ [DialogsNext]_dialogVars
                 /\ [GuidesNext]_guideVars
                 /\ [MdNext]_mdVars
                 /\ [DocsNext]_docsVars
                 /\ [PageNext]_pageVars
                 /\ [WsNext]_wsVars
BY DEF Next, vars, Shell, AccountDialog, Guides, MarkdownText, Site, OnePage,
   ProfileCatalogs

\* Nothing that one part does disturbs another: the console, the documentation
\* site and the catalog workspaces share no state (nav.js, app.js,
\* profilecatalog.go).
THEOREM PartsBehaveAsAlone ==
  Spec => /\ ShellSpec /\ DialogsSpec /\ GuidesSpec /\ MdSpec /\ DocsSpec /\ WsSpec
          /\ PageInit /\ [][PageNext]_pageVars
<1>1. Init => /\ ShellInit /\ DialogsInit /\ GuidesInit /\ MdInit /\ DocsInit
              /\ WsInit /\ PageInit
  BY DEF Init
<1> QED
  BY <1>1, PartSteps, PTL
  DEF Spec, ShellSpec, DialogsSpec, GuidesSpec, MdSpec, DocsSpec, WsSpec

\* Every variable of every part keeps its type.
THEOREM PartsTypeCorrect == Spec => []TypeOK
<1> DEFINE Followed == part \in Parts
<1>1. Init => Followed
  BY DEF Init
<1>2. Followed /\ [Next]_vars => Followed'
  BY DEF Next, vars, Shell, AccountDialog, Guides, MarkdownText, Site, OnePage,
     ProfileCatalogs, Parts
<1>3. ShellSpec => []ShellTypeOK
  <2>1. MeIsAnswer => ShellTypeOK
    BY DEF MeIsAnswer
  <2> QED
    BY <2>1, MeIsAnswerInit, MeIsAnswerNext, PTL DEF ShellSpec
<1>4. MdSpec => []MdTypeOK
  <2>1. MdInit => FlagsAreTrue
    BY DEF MdInit, FlagsAreTrue, MdTypeOK, Inside
  <2>2. FlagsAreTrue => MdTypeOK
    BY DEF FlagsAreTrue
  <2> QED
    BY <2>1, <2>2, FlagsAreTrueNext, PTL DEF MdSpec
<1>5. DocsSpec => []DocsTypeOK
  <2>1. LangInv => DocsTypeOK
    BY DEF LangInv
  <2> QED
    BY <2>1, LangInvAlways, PTL
<1>6. PageInit /\ [][PageNext]_pageVars => []PageTypeOK
  <2>1. PageInv => PageTypeOK
    BY DEF PageInv
  <2> QED
    BY <2>1, PageInvInit, PageInvNext, PTL
<1>7. WsSpec => []WsTypeOK
  <2>1. WsInv => WsTypeOK
    BY DEF WsInv
  <2> QED
    BY <2>1, InitInv, StepKeeps, PTL DEF WsSpec
<1>8. TypeOK <=> /\ Followed
                 /\ ShellTypeOK /\ DialogsTypeOK /\ GuidesTypeOK
                 /\ MdTypeOK /\ DocsTypeOK /\ PageTypeOK /\ WsTypeOK
  BY DEF TypeOK
<1> HIDE DEF Followed
<1>9. Spec => []Followed
  BY <1>1, <1>2, PTL DEF Spec
<1> QED
  BY <1>3, <1>4, <1>5, <1>6, <1>7, <1>8, <1>9, PartsBehaveAsAlone,
     DialogsTypeCorrect, GuidesTypeCorrect, PTL

\* What each part promises by itself it promises beside the others: what the
\* run of the sum finds on a small instance holds for every value of the
\* constants, the answers that come in time left aside.
THEOREM PartsKeepTheirPromises ==
  Spec => /\ [](/\ SuccessIsReal /\ GuidesKeepTheirText /\ HtmlIsWellFormed
                /\ OneLanguage /\ PanelsFollow /\ AnswersAreOfTheirTime)
          /\ LinksLead /\ EscapeClosesAll /\ ChoiceLasts
<1>1. PageInit /\ [][PageNext]_pageVars => []PanelsFollow
  <2>1. PageInv => PanelsFollow
    BY DEF PageInv
  <2> QED
    BY <2>1, PageInvInit, PageInvNext, PTL
<1> QED
  BY <1>1, PartsBehaveAsAlone, SuccessAlwaysReal, GuidesAlwaysKeepTheirText,
     HtmlAlwaysWellFormed, AlwaysOneLanguage, AnswersAlwaysOfTheirTime,
     LinksAlwaysLead, EscapeAlwaysClosesAll, ChoiceAlwaysLasts, PTL
=============================================================================
