--------------------------- MODULE DocsSite_proofs ---------------------------
(* The language of the documentation site and the groups of tabs of a page, *)
(* for any number of tabs, elements, steps, categories and snippets.        *)
EXTENDS DocsSite, DocsPage, TLAPS

-----------------------------------------------------------------------------
(* The language                                                             *)

\* A language that was clicked is under both keys, and is what any tab about to
\* write has read: neither script has a key of its own any more.
KeysFollow ==
  chosen # Unset =>
    /\ stored.user_lang_pref = chosen
    /\ stored.jamypg_lang = chosen
    /\ \A w \in Windows : page[w].phase = "reading" => page[w].current = chosen

\* Without a storage no page becomes ready, and nothing is clicked.
BlockedIsStuck ==
  browser.blocked =>
    /\ chosen = Unset
    /\ \A w \in Windows : page[w].phase \notin {"reading", "ready"}

LangInv == DocsTypeOK /\ OneLanguage /\ KeysFollow /\ BlockedIsStuck

LEMMA FileIsPage ==
  ASSUME NEW path \in Paths
  PROVE  File(path) \in DocsPages /\ File(path).phase = "loading"
                                  /\ File(path).path = path
<1>1. [e \in Elements |-> IF path = "index_en.html" /\ e \in Translated
                            THEN "en" ELSE "ko"] \in [Elements -> Langs]
  BY DEF Langs
<1> QED
  BY <1>1 DEF File, DocsPages, Paths, Langs

LEMMA ReadingIsPage ==
  ASSUME NEW p \in DocsPages, NEW lang \in Langs
  PROVE  /\ Reading(p, lang) \in DocsPages
         /\ Reading(p, lang).phase = "reading"
         /\ Reading(p, lang).current = lang
BY DEF Reading, DocsPages

LEMMA InLanguageIsOne ==
  ASSUME NEW p \in DocsPages, NEW lang \in Langs
  PROVE  LET q == InLanguage(p, lang) IN
         /\ q \in DocsPages
         /\ [q EXCEPT !.phase = "ready"] \in DocsPages
         /\ \A r \in {q, [q EXCEPT !.phase = "ready"]} :
              /\ r.lang = lang /\ r.active = lang
              /\ \A e \in Elements : r.text[e] = lang
<1> DEFINE q == InLanguage(p, lang)
           t == [e \in Elements |-> lang]
<1>1. t \in [Elements -> Langs] /\ \A e \in Elements : t[e] = lang
  OBVIOUS
<1>2. q = [p EXCEPT !.lang = lang, !.active = lang, !.text = t]
  BY DEF InLanguage
<1> HIDE DEF t
<1>3. q \in DocsPages /\ q.lang = lang /\ q.active = lang /\ q.text = t
  BY <1>1, <1>2 DEF DocsPages
<1> HIDE DEF q
<1> DEFINE r == [q EXCEPT !.phase = "ready"]
<1>4. r \in DocsPages /\ r.lang = lang /\ r.active = lang /\ r.text = t
  BY <1>3 DEF DocsPages
<1> HIDE DEF r
<1>5. \A o \in {q, r} : o.lang = lang /\ o.active = lang
                        /\ \A e \in Elements : o.text[e] = lang
  BY <1>1, <1>3, <1>4
<1> QED
  BY <1>3, <1>4, <1>5 DEF q, r

LEMMA DetectorStays ==
  ASSUME LangInv, NEW path \in Paths
  PROVE  /\ autoLangDetector(path) \in Paths
         /\ chosen # Unset => autoLangDetector(path) = path
BY DEF LangInv, DocsTypeOK, KeysFollow, autoLangDetector, Paths

LEMMA RememberedIsLang ==
  ASSUME LangInv
  PROVE  Remembered \in Langs /\ (chosen # Unset => Remembered = chosen)
BY DEF LangInv, DocsTypeOK, KeysFollow, Remembered, Storage, Langs

LEMMA LangInvInit == DocsInit => LangInv
<1> SUFFICES ASSUME DocsInit PROVE LangInv
  OBVIOUS
<1>1. File("index.html") \in DocsPages
  BY FileIsPage DEF Paths
<1>2. [File("index.html") EXCEPT !.phase = "blank"] \in DocsPages
  BY <1>1 DEF DocsPages
<1>3. \A w \in Windows : page[w] \in DocsPages /\ page[w].phase = "blank"
  BY <1>1, <1>2 DEF DocsInit, DocsPages
<1>4. page \in [Windows -> DocsPages]
  BY <1>3 DEF DocsInit
<1>5. DocsTypeOK
  BY <1>4 DEF DocsInit, DocsTypeOK, Storage
<1> QED
  BY <1>3, <1>5 DEF DocsInit, LangInv, OneLanguage, KeysFollow, BlockedIsStuck

\* A page that becomes ready is in one language when its scripts have run.
LEMMA LangInvNext == LangInv /\ [DocsNext]_docsVars => LangInv'
<1> SUFFICES ASSUME LangInv, [DocsNext]_docsVars PROVE LangInv'
  OBVIOUS
<1> USE DEF LangInv
<1>1. ASSUME NEW w \in Windows, NEW path \in Paths, Visit(w, path)
      PROVE  LangInv'
  <2>1. File(autoLangDetector(path)) \in DocsPages
        /\ File(autoLangDetector(path)).phase = "loading"
    BY DetectorStays, FileIsPage
  <2>2. page' = [page EXCEPT ![w] = File(autoLangDetector(path))]
    BY <1>1 DEF Visit
  <2>3. UNCHANGED <<browser, stored, chosen>>
    BY <1>1 DEF Visit
  <2>4. DocsTypeOK'
    BY <2>1, <2>2, <2>3 DEF DocsTypeOK
  <2>5. \A v \in Windows : page'[v].phase \in {"reading", "ready"}
                             => v # w /\ page'[v] = page[v]
    BY <2>1, <2>2 DEF DocsTypeOK
  <2>6. OneLanguage'
    BY <2>5 DEF OneLanguage
  <2>7. KeysFollow'
    BY <2>3, <2>5 DEF KeysFollow
  <2>8. BlockedIsStuck'
    BY <2>3, <2>5 DEF BlockedIsStuck
  <2> QED
    BY <2>4, <2>6, <2>7, <2>8
<1>2. ASSUME NEW w \in Windows, initLanguageSwitcher(w), browser.blocked
      PROVE  LangInv'
  <2> DEFINE q == [page[w] EXCEPT !.phase = "stuck"]
  <2>1. page' = [page EXCEPT ![w] = q] /\ UNCHANGED <<stored, browser, chosen>>
    BY <1>2 DEF initLanguageSwitcher
  <2>2. q \in DocsPages /\ q.phase = "stuck"
    BY DEF DocsTypeOK, DocsPages
  <2> HIDE DEF q
  <2>3. DocsTypeOK'
    BY <2>1, <2>2 DEF DocsTypeOK
  <2>4. \A v \in Windows : page'[v].phase \notin {"reading", "ready"}
    BY <1>2, <2>1, <2>2 DEF DocsTypeOK, BlockedIsStuck
  <2> QED
    BY <1>2, <2>1, <2>3, <2>4 DEF OneLanguage, KeysFollow, BlockedIsStuck
<1>3. ASSUME NEW w \in Windows, initLanguageSwitcher(w), ~browser.blocked
      PROVE  LangInv'
  <2> DEFINE q == Reading(page[w], Remembered)
  <2>1. page' = [page EXCEPT ![w] = q] /\ UNCHANGED <<stored, browser, chosen>>
    BY <1>3 DEF initLanguageSwitcher
  <2>2. /\ q \in DocsPages /\ q.phase = "reading"
        /\ chosen # Unset => q.current = chosen
    BY RememberedIsLang, ReadingIsPage DEF DocsTypeOK
  <2> HIDE DEF q
  <2>3. DocsTypeOK'
    BY <2>1, <2>2 DEF DocsTypeOK
  <2>4. \A v \in Windows : v # w => page'[v] = page[v]
    BY <2>1 DEF DocsTypeOK
  <2>5. page'[w] = q
    BY <2>1 DEF DocsTypeOK
  <2>6. OneLanguage' /\ KeysFollow'
    BY <2>1, <2>2, <2>4, <2>5 DEF OneLanguage, KeysFollow
  <2> QED
    BY <1>3, <2>1, <2>3, <2>6 DEF BlockedIsStuck
<1>4. ASSUME NEW w \in Windows, applyLanguage(w) PROVE LangInv'
  <2> DEFINE lang == page[w].current
             q == [InLanguage(page[w], lang) EXCEPT !.phase = "ready"]
  <2>1. lang \in Langs /\ (chosen # Unset => lang = chosen)
    BY <1>4 DEF applyLanguage, DocsTypeOK, DocsPages, KeysFollow
  <2>2. /\ stored' = [stored EXCEPT !.jamypg_lang = lang]
        /\ page' = [page EXCEPT ![w] = q]
        /\ UNCHANGED <<browser, chosen>>
    BY <1>4 DEF applyLanguage, setLanguage
  <2>3. /\ q \in DocsPages /\ q.active = q.lang
        /\ \A e \in Elements : q.text[e] = q.lang
    BY <2>1, InLanguageIsOne DEF DocsTypeOK
  <2>4. q.phase = "ready"
    <3>1. InLanguage(page[w], lang) \in DocsPages
      BY <2>1, InLanguageIsOne DEF DocsTypeOK
    <3> QED
      BY <3>1 DEF DocsPages
  <2>5. ~browser.blocked
    BY <1>4 DEF applyLanguage, BlockedIsStuck
  <2> HIDE DEF q, lang
  <2>6. DocsTypeOK'
    BY <2>1, <2>2, <2>3 DEF DocsTypeOK, Storage
  <2>7. \A v \in Windows : page'[v] = IF v = w THEN q ELSE page[v]
    BY <2>2 DEF DocsTypeOK
  <2>8. OneLanguage'
    BY <2>3, <2>7 DEF OneLanguage
  <2>9. KeysFollow'
    BY <2>1, <2>2, <2>4, <2>7 DEF DocsTypeOK, Storage, KeysFollow
  <2> QED
    BY <2>2, <2>5, <2>6, <2>8, <2>9 DEF BlockedIsStuck
<1>5. ASSUME NEW w \in Windows, NEW lang \in Langs, ClickLanguage(w, lang)
      PROVE  LangInv'
  <2> DEFINE q == InLanguage(page[w], lang)
  <2>1. /\ page[w].phase = "ready"
        /\ stored' = [user_lang_pref |-> lang, jamypg_lang |-> lang]
        /\ page' = [page EXCEPT ![w] = q]
        /\ browser' = browser
        /\ chosen' = IF \E v \in Windows : page[v].phase = "reading"
                       THEN Unset ELSE lang
    BY <1>5 DEF ClickLanguage
  <2>2. /\ q \in DocsPages /\ q.active = q.lang /\ q.phase = "ready"
        /\ \A e \in Elements : q.text[e] = q.lang
    <3>1. page[w] \in DocsPages
      BY DEF DocsTypeOK
    <3>2. q \in DocsPages /\ q.lang = lang /\ q.active = lang
            /\ \A e \in Elements : q.text[e] = lang
      BY <3>1, InLanguageIsOne, Zenon
    <3>3. q.phase = page[w].phase
      BY <3>1 DEF InLanguage, DocsPages
    <3> QED
      BY <2>1, <3>2, <3>3
  <2> HIDE DEF q
  <2>3. DocsTypeOK'
    BY <2>1, <2>2 DEF DocsTypeOK, Storage
  <2>4. \A v \in Windows : page'[v] = IF v = w THEN q ELSE page[v]
    BY <2>1 DEF DocsTypeOK
  <2>5. OneLanguage' /\ KeysFollow'
    BY <2>1, <2>2, <2>4 DEF OneLanguage, KeysFollow
  <2> QED
    BY <2>1, <2>3, <2>5 DEF BlockedIsStuck
<1>6. CASE UNCHANGED docsVars
  BY <1>6 DEF docsVars, DocsTypeOK, OneLanguage, KeysFollow, BlockedIsStuck
<1> QED
  BY <1>1, <1>2, <1>3, <1>4, <1>5, <1>6 DEF DocsNext

LEMMA LangInvAlways == DocsSpec => []LangInv
BY LangInvInit, LangInvNext, PTL DEF DocsSpec

\* A page in a language is in that one, in either file (setLanguage).
THEOREM AlwaysOneLanguage == DocsSpec => []OneLanguage
<1>1. LangInv => OneLanguage
  BY DEF LangInv
<1> QED
  BY LangInvAlways, <1>1, PTL

\* The language clicked last, but not between another tab's read and write of
\* the storage, is that of every page that becomes ready later
\* on, in every tab (setLanguage, auto-lang-detector).
THEOREM ChoiceAlwaysLasts == DocsSpec => ChoiceLasts
<1> DEFINE Lasts ==
      \A w \in Windows :
        chosen # Unset =>
          /\ applyLanguage(w) => page'[w].lang = chosen
          /\ \A path \in Paths : Visit(w, path) => page'[w].path = path
<1>1. LangInv => Lasts
  <2> SUFFICES ASSUME LangInv, NEW w \in Windows, chosen # Unset
               PROVE  /\ applyLanguage(w) => page'[w].lang = chosen
                      /\ \A path \in Paths : Visit(w, path) => page'[w].path = path
    OBVIOUS
  <2>1. ASSUME applyLanguage(w) PROVE page'[w].lang = chosen
    <3>1. page[w] \in DocsPages /\ page[w].current \in Langs
          /\ page[w].current = chosen
      BY <2>1 DEF applyLanguage, LangInv, KeysFollow, DocsTypeOK, DocsPages
    <3>2. page' = [page EXCEPT ![w] =
             [InLanguage(page[w], page[w].current) EXCEPT !.phase = "ready"]]
      BY <2>1 DEF applyLanguage, setLanguage
    <3> QED
      BY <3>1, <3>2, InLanguageIsOne DEF LangInv, DocsTypeOK
  <2>2. ASSUME NEW path \in Paths, Visit(w, path) PROVE page'[w].path = path
    BY <2>2, DetectorStays, FileIsPage DEF Visit, LangInv, DocsTypeOK
  <2> QED
    BY <2>1, <2>2
<1>2. LangInv /\ [DocsNext]_docsVars => [Lasts]_docsVars
  BY <1>1
<1> QED
  BY LangInvAlways, <1>2, PTL DEF DocsSpec, ChoiceLasts

-----------------------------------------------------------------------------
(* The page                                                                 *)

\* Copies that are answered become timers.
PageInv ==
  /\ PageTypeOK
  /\ pending.copies + pending.timers <= MaxCopies
  /\ PanelsFollow

LEMMA PageInvInit == PageInit => PageInv
<1> SUFFICES ASSUME PageInit PROVE PageInv
  OBVIOUS
<1> USE FirstAssumption DEF PageInit
<1>1. tabs \in TabsType /\ panels \in PanelsType
  BY DEF TabsType, PanelsType
<1>2. pending \in [copies: 0 .. MaxCopies, timers: 0 .. MaxCopies]
  BY CopiesAssumption
<1>3. pending.copies + pending.timers <= MaxCopies
  BY CopiesAssumption
<1>4. PageTypeOK
  BY <1>1, <1>2 DEF PageTypeOK
<1>5. PanelsFollow
  BY DEF PanelsFollow
<1> QED
  BY <1>3, <1>4, <1>5 DEF PageInv

\* What a click changes, and what it does not.
LEMMA ClicksKeep ==
  ASSUME PageInv,
         UNCHANGED <<scripted, menu, toast, pending>>,
         tabs' \in TabsType, panels' \in PanelsType, open' \in SUBSET Questions
  PROVE  PageTypeOK' /\ pending'.copies + pending'.timers <= MaxCopies
BY DEF PageInv, PageTypeOK

\* A click changes one group of tabs and its panels, and leaves the others.
LEMMA PageInvNext == PageInv /\ [PageNext]_pageVars => PageInv'
<1> SUFFICES ASSUME PageInv, [PageNext]_pageVars PROVE PageInv'
  OBVIOUS
<1>1. tabs \in TabsType /\ panels \in PanelsType /\ open \in SUBSET Questions
  BY DEF PageInv, PageTypeOK
<1>2. PanelsFollow
  BY DEF PageInv
<1>3. ASSUME NEW step \in Steps, initSimulatorTabs(step) PROVE PageInv'
  <2>1. tabs' \in TabsType /\ panels' \in PanelsType /\ open' \in SUBSET Questions
    BY <1>1, <1>3 DEF initSimulatorTabs, TabsType, PanelsType
  <2>2. PanelsFollow'
    BY <1>1, <1>2, <1>3 DEF initSimulatorTabs, TabsType, PanelsType, PanelsFollow
  <2> QED
    BY <1>3, <2>1, <2>2, ClicksKeep DEF initSimulatorTabs, PageInv
<1>4. ASSUME NEW category \in Categories \cup {All}, initToolFilter(category)
      PROVE  PageInv'
  <2>1. {c \in Categories : category = All \/ c = category}
          = IF category = All THEN Categories ELSE {category}
    OBVIOUS
  <2>2. tabs' \in TabsType /\ panels' \in PanelsType /\ open' \in SUBSET Questions
    BY <1>1, <1>4 DEF initToolFilter, TabsType, PanelsType
  <2>3. PanelsFollow'
    BY <1>1, <1>2, <1>4, <2>1
    DEF initToolFilter, TabsType, PanelsType, PanelsFollow
  <2> QED
    BY <1>4, <2>2, <2>3, ClicksKeep DEF initToolFilter, PageInv
<1>5. ASSUME NEW snippet \in Snippets, initCodeTabs(snippet) PROVE PageInv'
  <2>1. tabs' \in TabsType /\ panels' \in PanelsType /\ open' \in SUBSET Questions
    BY <1>1, <1>5 DEF initCodeTabs, TabsType, PanelsType
  <2>2. PanelsFollow'
    BY <1>1, <1>2, <1>5 DEF initCodeTabs, TabsType, PanelsType, PanelsFollow
  <2> QED
    BY <1>5, <2>1, <2>2, ClicksKeep DEF initCodeTabs, PageInv
<1>6. ASSUME NEW question \in Questions, initFAQAccordion(question)
      PROVE  PageInv'
  <2>1. open' \in SUBSET Questions /\ \A q, r \in open' : q = r
    BY <1>6 DEF initFAQAccordion
  <2>2. PanelsFollow'
    BY <1>2, <1>6, <2>1 DEF initFAQAccordion, PanelsFollow
  <2> QED
    BY <1>1, <1>6, <2>1, <2>2, ClicksKeep DEF initFAQAccordion, PageInv
<1>7. CASE mobileBtn \/ navLink
  BY <1>7 DEF mobileBtn, navLink, PageInv, PageTypeOK, PanelsFollow
<1>8. ASSUME UNCHANGED <<scripted, tabs, panels, open, menu>>,
             toast' \in [made: BOOLEAN, show: BOOLEAN],
             pending' \in [copies: 0 .. MaxCopies, timers: 0 .. MaxCopies],
             pending'.copies + pending'.timers <= MaxCopies
      PROVE  PageInv'
  BY <1>8 DEF PageInv, PageTypeOK, PanelsFollow
<1>9. /\ toast \in [made: BOOLEAN, show: BOOLEAN]
      /\ pending \in [copies: 0 .. MaxCopies, timers: 0 .. MaxCopies]
      /\ pending.copies + pending.timers <= MaxCopies
  BY DEF PageInv, PageTypeOK
<1>10. CASE Copy
  BY <1>8, <1>9, <1>10, CopiesAssumption DEF Copy
<1>11. CASE Copied
  <2>1. toast' \in [made: BOOLEAN, show: BOOLEAN]
    BY <1>11 DEF Copied, showToast
  <2>2. /\ pending' \in [copies: 0 .. MaxCopies, timers: 0 .. MaxCopies]
        /\ pending'.copies + pending'.timers <= MaxCopies
    BY <1>9, <1>11, CopiesAssumption DEF Copied, showToast
  <2> QED
    BY <1>8, <1>11, <2>1, <2>2 DEF Copied
<1>12. CASE NotCopied
  BY <1>8, <1>9, <1>12, CopiesAssumption DEF NotCopied
<1>13. CASE Timer
  <2>1. toast' \in [made: BOOLEAN, show: BOOLEAN]
    BY <1>9, <1>13 DEF Timer
  <2>2. /\ pending' \in [copies: 0 .. MaxCopies, timers: 0 .. MaxCopies]
        /\ pending'.copies + pending'.timers <= MaxCopies
    BY <1>9, <1>13, CopiesAssumption DEF Timer
  <2> QED
    BY <1>8, <1>13, <2>1, <2>2 DEF Timer
<1>14. CASE UNCHANGED pageVars
  BY <1>14 DEF pageVars, PageInv, PageTypeOK, PanelsFollow
<1> QED
  BY <1>3, <1>4, <1>5, <1>6, <1>7, <1>10, <1>11, <1>12, <1>13, <1>14 DEF PageNext

\* What is displayed is what the active buttons stand for, after any clicks
\* (initSimulatorTabs, initToolFilter, initCodeTabs, initFAQAccordion).
THEOREM PanelsAlwaysFollow == PageSpec => []PanelsFollow
<1>1. PageInv => PanelsFollow
  BY DEF PageInv
<1> QED
  BY PageInvInit, PageInvNext, <1>1, PTL DEF PageSpec
=============================================================================
