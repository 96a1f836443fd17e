------------------------------ MODULE DocsSite ------------------------------
(***************************************************************************)
(* The language of the documentation site.  Two scripts decide it and keep *)
(* a key each in the storage all tabs of the browser share: the detector   *)
(* in the head of each page, which sends a visitor to the page of the      *)
(* browser's language until a language has been clicked, and app.js, which *)
(* puts the whole page into the language it remembers.                     *)
(***************************************************************************)
CONSTANTS
  Windows,     \* the browser's tabs
  Elements,    \* the elements of a page that carry data-ko and data-en
  Translated,  \* those that are in English in the file index_en.html
  Unset

Langs == {"ko", "en"}
Paths == {"index.html", "index_en.html"}

ASSUME TranslatedAssumption == Translated \subseteq Elements
ASSUME UnsetAssumption == Unset \notin Langs

VARIABLES
  browser,  \* its language, and whether it refuses a page its storage
  stored,   \* what localStorage holds under the two keys
  page,     \* page[w]: what tab w shows
  chosen    \* history: the language clicked last, in whichever tab, or Unset
            \* if another tab was between reading and writing the storage

docsVars == <<browser, stored, page, chosen>>

Storage == [user_lang_pref: Langs \cup {Unset}, jamypg_lang: Langs \cup {Unset}]

\* A page is "stuck" when its scripts failed; `current' is what it has read.
DocsPages == [phase: {"blank", "loading", "reading", "ready", "stuck"},
              path: Paths, current: Langs, lang: Langs, active: Langs,
              text: [Elements -> Langs]]

\* A file as it is written: both are marked Korean, one is partly translated.
File(path) ==
  [phase |-> "loading", path |-> path,
   current |-> "ko", lang |-> "ko", active |-> "ko",
   text |-> [e \in Elements |->
               IF path = "index_en.html" /\ e \in Translated THEN "en" ELSE "ko"]]

-----------------------------------------------------------------------------
DocsInit ==
  /\ browser \in [korean: BOOLEAN, blocked: BOOLEAN]
  /\ stored = [user_lang_pref |-> Unset, jamypg_lang |-> Unset]
  /\ page = [w \in Windows |-> [File("index.html") EXCEPT !.phase = "blank"]]
  /\ chosen = Unset

\* The detector: to the page of the browser's language, without a preference.
autoLangDetector(path) ==
  IF browser.blocked \/ stored.user_lang_pref # Unset THEN path
  ELSE IF browser.korean THEN "index.html"
  ELSE "index_en.html"

\* The visitor opens or reloads a page in a tab, by whichever address.
Visit(w, path) ==
  /\ page[w].phase # "reading"
  /\ page' = [page EXCEPT ![w] = File(autoLangDetector(path))]
  /\ UNCHANGED <<browser, stored, chosen>>

\* Mutated form: Korean being the default, texts are changed to English only.
ToEnglishOnly(p, lang) ==
  [p EXCEPT !.lang = lang, !.active = lang,
            !.text = [e \in Elements |-> IF lang = "en" THEN "en" ELSE @[e]]]

\* The page in a language: its own attribute, the switcher, and every text.
InLanguage(p, lang) ==
  [p EXCEPT !.lang = lang, !.active = lang, !.text = [e \in Elements |-> lang]]

setLanguage(w, lang) ==
  /\ stored' = [stored EXCEPT !.jamypg_lang = lang]
  /\ page' = [page EXCEPT ![w] = [InLanguage(@, lang) EXCEPT !.phase = "ready"]]

\* Mutated form: without the default.
RememberedOnly == stored.jamypg_lang

\* localStorage.getItem('jamypg_lang') || 'ko'
Remembered == IF stored.jamypg_lang = Unset THEN "ko" ELSE stored.jamypg_lang

\* The language that was read is kept until setLanguage.
Reading(p, lang) == [p EXCEPT !.phase = "reading", !.current = lang]

\* Mutated form: the language of the file instead of the remembered one.
initLanguageOfFile(w) ==
  /\ page[w].phase = "loading"
  /\ page' = [page EXCEPT ![w] =
       Reading(@, IF page[w].path = "index_en.html" THEN "en" ELSE "ko")]
  /\ UNCHANGED <<browser, stored, chosen>>

\* DOMContentLoaded: the first initialiser of app.js, and the one the others
\* wait for; a browser that refuses the storage stops them all.
initLanguageSwitcher(w) ==
  /\ page[w].phase = "loading"
  /\ page' = [page EXCEPT ![w] =
       IF browser.blocked THEN [@ EXCEPT !.phase = "stuck"]
                          ELSE Reading(@, Remembered)]
  /\ UNCHANGED <<browser, stored, chosen>>

\* It writes back what it has read: no lock keeps another tab from its click in
\* between.
applyLanguage(w) ==
  /\ page[w].phase = "reading"
  /\ setLanguage(w, page[w].current)
  /\ UNCHANGED <<browser, chosen>>

\* KO or EN: the detector's listener keeps its key, that of app.js the rest.
ClickLanguage(w, lang) ==
  /\ page[w].phase = "ready"
  /\ stored' = [user_lang_pref |-> lang, jamypg_lang |-> lang]
  /\ page' = [page EXCEPT ![w] = InLanguage(@, lang)]
  /\ chosen' = IF \E v \in Windows : page[v].phase = "reading" THEN Unset
               ELSE lang
  /\ UNCHANGED browser

DocsNext ==
  \E w \in Windows :
    \/ \E path \in Paths : Visit(w, path)
    \/ initLanguageSwitcher(w) \/ applyLanguage(w)
    \/ \E lang \in Langs : ClickLanguage(w, lang)

DocsSpec == DocsInit /\ [][DocsNext]_docsVars

-----------------------------------------------------------------------------
DocsTypeOK ==
  /\ browser \in [korean: BOOLEAN, blocked: BOOLEAN]
  /\ stored \in Storage
  /\ page \in [Windows -> DocsPages]
  /\ chosen \in Langs \cup {Unset}

\* A page that has been put into a language is in one language: what it says
\* of itself, the button shown as active and every text agree, whichever of
\* the two files it is, half translated or not (setLanguage).
OneLanguage ==
  \A w \in Windows :
    page[w].phase = "ready" =>
      /\ page[w].active = page[w].lang
      /\ \A e \in Elements : page[w].text[e] = page[w].lang

\* The language clicked last, in any tab, is the one every page that becomes
\* ready afterwards is in: neither a page of the other file nor a tab that was
\* loading at the time of the click brings an older one back, and from then on
\* the detector leaves the visitor where the address leads (setLanguage,
\* auto-lang-detector).  The exception are clicks that fall between the two
\* calls with which another tab reads and writes the storage.
ChoiceLasts ==
  [][\A w \in Windows :
       chosen # Unset =>
         /\ applyLanguage(w) => page'[w].lang = chosen
         /\ \A path \in Paths : Visit(w, path) => page'[w].path = path
    ]_docsVars
=============================================================================
