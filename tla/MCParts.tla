------------------------------- MODULE MCParts -------------------------------
(***************************************************************************)
(* The parts of the two web front ends, the console and the documentation  *)
(* site, and the catalog workspaces, in one run.  They share no state, so  *)
(* each behaviour follows one part, chosen at the start, and the others    *)
(* rest in an initial state: the run explores the sum of the parts and not *)
(* their product.                                                          *)
(***************************************************************************)
EXTENDS ConsoleShell, AccountDialogs, GuideModals, Markdown, DocsSite, DocsPage,
        WorkspaceCatalog

CONSTANTS
  LoneReader,   \* the reader of the part in which the workspace changes most
  LoneWriter,   \* the writer of the parts that are not about merges
  SharedWrites  \* bound: writes of the parts with all readers or all writers

VARIABLE part

vars == <<part, shellVars, dialogVars, guideVars, mdVars, docsVars, pageVars,
          wsVars>>

Parts == {"shell", "dialogs", "guides", "markdown", "site", "page",
          "catalogs", "workspace", "merges"}

WorkspaceParts == {"catalogs", "workspace", "merges"}

Init ==
  /\ part \in Parts
  /\ ShellInit /\ DialogsInit /\ GuidesInit /\ MdInit /\ DocsInit /\ PageInit
  /\ WsInit
  \* A part that is not followed rests in one initial state.
  /\ part # "shell" => server.auth
  /\ part # "dialogs" => account.local
  /\ part # "site" => browser = [korean |-> TRUE, blocked |-> FALSE]
  /\ part # "page" => scripted
  /\ file["rest"].content = Absent
  /\ part \notin WorkspaceParts => file["models"].content = Absent

Shell ==
  /\ part = "shell" /\ ShellNext
  /\ UNCHANGED <<part, dialogVars, guideVars, mdVars, docsVars, pageVars, wsVars>>

AccountDialog ==
  /\ part = "dialogs" /\ DialogsNext
  /\ UNCHANGED <<part, shellVars, guideVars, mdVars, docsVars, pageVars, wsVars>>

Guides ==
  /\ part = "guides" /\ GuidesNext
  /\ UNCHANGED <<part, shellVars, dialogVars, mdVars, docsVars, pageVars, wsVars>>

MarkdownText ==
  /\ part = "markdown" /\ MdNext
  /\ UNCHANGED <<part, shellVars, dialogVars, guideVars, docsVars, pageVars, wsVars>>

Site ==
  /\ part = "site" /\ DocsNext
  /\ UNCHANGED <<part, shellVars, dialogVars, guideVars, mdVars, pageVars, wsVars>>

OnePage ==
  /\ part = "page" /\ PageNext
  /\ UNCHANGED <<part, shellVars, dialogVars, guideVars, mdVars, docsVars, wsVars>>

\* All readers and few writes; one reader and enough of them for a put that is
\* rejected and rolled back; or merges that overlap.  A usable content in the
\* file that is not required would be one more content.
ProfileCatalogs ==
  /\ part \in WorkspaceParts /\ WsNext
  /\ part # "workspace" => writes' <= SharedWrites
  /\ part # "catalogs" => \A r \in Readers \ {LoneReader} : pc'[r] = "idle"
  /\ \A w \in Writers : IF part = "merges"
       THEN writer'[w] # NoTask => writer'[w].step \in {"merge", "staged", "lost"}
       ELSE w # LoneWriter => writer'[w] = NoTask
  /\ file'["rest"].content \notin Usable
  /\ UNCHANGED <<part, shellVars, dialogVars, guideVars, mdVars, docsVars, pageVars>>

Next ==
  \/ Shell \/ AccountDialog \/ Guides \/ MarkdownText \/ Site \/ OnePage
  \/ ProfileCatalogs

\* The fairness of a part asks nothing while its steps are not enabled.
Fairness ==
  /\ WF_vars(AccountDialog /\ Reload)
  /\ \A d \in Dialogs : WF_vars(AccountDialog /\ close(d))
  /\ WF_vars(Guides /\ Arrival)
  /\ WF_vars(OnePage /\ Timer)

Spec == Init /\ [][Next]_vars /\ Fairness

TypeOK ==
  /\ part \in Parts
  /\ ShellTypeOK /\ DialogsTypeOK /\ GuidesTypeOK
  /\ MdTypeOK /\ DocsTypeOK /\ PageTypeOK /\ WsTypeOK
=============================================================================
