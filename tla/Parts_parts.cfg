CONSTANTS
  NavKeys = {"ask", "history", "dba-console", "users", "db"}
  Nobody = Nobody
  Dialogs = {d1}
  Requests = {r1, r2}
  Nothing = Nothing
  MaxModals = 3
  NoModal = NoModal
  Windows = {w1, w2}
  Elements = {e1, e2}
  Translated = {e2}
  Unset = Unset
  Steps = {s1, s2, s3}
  FirstStep = s1
  Categories = {c1, c2}
  All = All
  Snippets = {n1, n2}
  FirstSnippet = n1
  Questions = {q1, q2}
  MaxCopies = 3
  Readers = {req1, req2}
  Writers = {put1, put2}
  Contents = {Scaffold, usable}
  Usable = {usable}
  Scaffold = Scaffold
  Torn = Torn
  Absent = Absent
  MaxWrites = 4
  LoneReader = req1
  LoneWriter = put1
  SharedWrites = 2
  NoTask = NoTask
SPECIFICATION Spec
INVARIANTS
  TypeOK
  SuccessIsReal
  GuidesKeepTheirText
  HtmlIsWellFormed
  OneLanguage
  AnswersAreOfTheirTime
PROPERTIES
  LinksLead
  ReportedChangesEnd
  EscapeClosesAll
  OnboardingArrives
  ChoiceLasts
  ToastGoes
