------------------------------ MODULE Markdown ------------------------------
(***************************************************************************)
(* mdToHtml: the guides are Markdown and become HTML line by line.  Two    *)
(* flags say what has been opened and not closed yet; whether the HTML is  *)
(* well formed is for whoever reads it.  That reader, the parser of the    *)
(* browser, is the variable `reading': it knows one element at a time, all *)
(* that a well-formed guide needs.                                         *)
(***************************************************************************)
VARIABLES
  inUl, inCode,  \* the flags of mdToHtml
  reading,       \* what the parser is inside of
  given          \* has the HTML been returned

mdVars == <<inUl, inCode, reading, given>>

Inside == {"nothing", "ul", "pre", "broken"}

\* The parser reads a tag: lists hold items only, code holds raw text only,
\* headings, quotes and paragraphs stand by themselves.
Read(inside, tag) ==
  CASE tag = "ul" /\ inside = "nothing" -> "ul"
    [] tag = "li" /\ inside = "ul" -> "ul"
    [] tag = "/ul" /\ inside = "ul" -> "nothing"
    [] tag = "pre" /\ inside = "nothing" -> "pre"
    [] tag = "raw" /\ inside = "pre" -> "pre"
    [] tag = "/pre" /\ inside = "pre" -> "nothing"
    [] tag = "block" /\ inside = "nothing" -> "nothing"
    [] OTHER -> "broken"

\* if (inUl) { html += '</ul>'; ... }
AfterList == IF inUl THEN Read(reading, "/ul") ELSE reading

-----------------------------------------------------------------------------
MdInit == inUl = FALSE /\ inCode = FALSE /\ reading = "nothing" /\ given = FALSE

\* A line of three backticks begins or ends a block of code.
fence ==
  /\ inCode' = ~inCode
  /\ IF inCode
       THEN /\ reading' = Read(reading, "/pre")
            /\ UNCHANGED inUl
       ELSE /\ reading' = Read(AfterList, "pre")
            /\ inUl' = FALSE

\* Inside of it every other line is text.
codeLine ==
  /\ inCode
  /\ reading' = Read(reading, "raw")
  /\ UNCHANGED <<inUl, inCode>>

\* Mutated form: a heading does not end the list before it.
blockInList ==
  /\ ~inCode
  /\ reading' = Read(reading, "block")
  /\ UNCHANGED <<inUl, inCode>>

\* A heading, a quote or a paragraph.
block ==
  /\ ~inCode
  /\ reading' = Read(AfterList, "block")
  /\ inUl' = FALSE
  /\ UNCHANGED inCode

\* An item of a list, with a bullet or a number.
item ==
  /\ ~inCode
  /\ reading' = Read(IF inUl THEN reading ELSE Read(reading, "ul"), "li")
  /\ inUl' = TRUE
  /\ UNCHANGED inCode

blank ==
  /\ ~inCode
  /\ reading' = AfterList
  /\ inUl' = FALSE
  /\ UNCHANGED inCode

\* The text ends, wherever it is; the flags are the call's own.
finish ==
  /\ reading' = IF inCode THEN Read(AfterList, "/pre") ELSE AfterList
  /\ given' = TRUE
  /\ UNCHANGED <<inUl, inCode>>

begin ==
  /\ given
  /\ inUl' = FALSE /\ inCode' = FALSE /\ reading' = "nothing" /\ given' = FALSE

MdNext ==
  \/ ~given /\ (fence \/ codeLine \/ block \/ item \/ blank) /\ UNCHANGED given
  \/ ~given /\ finish
  \/ begin

MdSpec == MdInit /\ [][MdNext]_mdVars

-----------------------------------------------------------------------------
MdTypeOK ==
  /\ inUl \in BOOLEAN /\ inCode \in BOOLEAN /\ given \in BOOLEAN
  /\ reading \in Inside

\* Whatever lines a guide consists of, and wherever it ends, the HTML is well
\* formed: nothing but items in a list, no markup in a block of code, and at
\* the end everything is closed (mdToHtml).
HtmlIsWellFormed == reading # "broken" /\ (given => reading = "nothing")
=============================================================================
