# A TLA+ model of the jamypg server

jamypg is an MCP and REST server, written in Go, that prepares natural-language
questions for SQL generation: it keeps a catalog of metadata (tables, terms,
metrics, relations, samples, feedback) and runs read-only SQL against
registered PostgreSQL and MySQL profiles. It serves a web console, and its
documentation is a small site of its own. This directory holds TLA+ modules of
the parts of it whose correctness depends on order, concurrency, failure or
long sequences of calls, the TLC configurations that check small instances of
them, and theorems about them that the TLA+ proof system checks for every value
of the constants.

Paths below are relative to `src/`. `PROJECT.json` maps every definition that
models code to the lines it stands for, and lists the runs, the mutated forms
of definitions each property was tried against, the hazards, the disagreements
found and the theorems.

## 1. Inventory

### Dataset store
`internal/mcp/{server,datasetsync,admin,metasync,feedback}.go`,
`internal/catalog/{datasets,load,apply,syncapply,learn}.go`, `cmd/jamypg-mcp/main.go`

- State: the JSON files of the data directory; their backups, named with a
  second; in auth mode the rows of `jamypg_datasets`, which own them; the
  compiled catalog behind an atomic pointer; `Server.dataMu`.
- Operations: put, restore, remove, reload, the recompile of `review_feedback`
  (all under `dataMu`); `apply_metadata_sync` and `learn_from_feedback`
  (outside of it); import and materialize at start.
- Interactions: every request reads the pointer; approvals, promotion and
  OpenMetadata imports write files the way a metadata sync does.
- Hard: three copies of a document changed one after the other with a failure
  possible between any two; a rollback that depends on a backup with a
  one-second name; unlocked writers; a restart over files half written.
- Correct when: the published catalog always compiles, the three copies agree
  when nothing is in flight, a rejected change leaves no trace, an applied one
  can be undone, what was rejected never reaches the database.

### Database connector
`internal/dbconn/{manager,driver,explain,errors,profile}.go`

- State: a pool per profile with the signature it was opened for, a breaker per
  profile, the registry of running executions.
- Operations: `Execute` (with the plan gate's EXPLAIN), `Ping`, `CountRows`,
  `Metadata`, `SystemQuery`, `Invalidate`, `CancelAs`.
- Interactions: profiles come from the profile store, which admins change while
  queries run; execution goes through the result cache and the jobs.
- Hard: each call takes `Manager.mu` for itself, so a profile can change, a
  pool be closed and other results be recorded between any two steps of a
  request; results reach the breaker in any order.
- Correct when: pools do not leak, a query runs under the definition it was
  checked with, a profile is blocked exactly for its failures and is let in
  again, an execution can be cancelled while it runs.

### Asynchronous queries and result cache
`internal/mcp/{asyncquery,execguard}.go`

- State: jobs with an owner, a status and an expiry; cache entries with an
  expiry; the cache's lifetime, an atomic that settings change.
- Operations: submit, poll, cancel, list; get, put, `SetTTL`; `executeGuarded`.
- Hard: a job's goroutine outlives its request; cancelling ends a context, not
  the goroutine; lookups, execution and insertion are separate critical
  sections with a settings change between them.
- Correct when: an answer belongs to the request it is given to, cache and
  background load are bounded, every accepted job ends and stays until it expires.

### Accounts, keys, grants and settings
`internal/meta/*.go`, `internal/mcp/{auth,authapi}.go`

- State: users with role, status and credentials; sessions; MCP keys; grants of
  profiles to users; settings in the database and as applied in memory.
- Operations: bootstrap, login, SSO upsert, create, update and disable users,
  change a password or a profile, issue, rotate and revoke keys, grant,
  change visibility, change settings.
- Hard: check-then-act over several store calls with no transaction: the count
  of admins before a demotion, the old key before a rotation, the stored
  settings before they are applied; two administrators at once.
- Correct when: an active admin always remains, a revoked key or a disabled
  user is refused from then on, only an owner, a grantee or an admin uses a
  profile, what is stored is what is applied.

### Feedback, review and learning
`internal/mcp/feedback.go`, `internal/catalog/{feedback,candidates,review,enrich,joinsuggest,apply,learn,goldenpromote}.go`

- State: the feedback log with statuses and trust; review candidates with
  statuses; the dataset files approved candidates are merged into.
- Operations: record, review, revoke; generate, decide, approve, apply; learn.
- Hard: a decision made twice or after the candidate changed; append-only files
  read while they are written; a merge into a file that moved on.
- Correct when: a candidate is applied at most once and only after approval, a
  revoked feedback does not teach, and a merge keeps what it does not concern.

### Metadata collection
`internal/metasync/*.go`, `internal/mcp/scheduler.go`

- State: runs, the latest snapshot of a profile, the diff to the one before.
- Operations: start a run, collect, store, diff, apply; the scheduler's tick.
- Hard: two runs of one profile; a run that fails after the snapshot file was
  written; a schedule that fires while a run is in progress.
- Correct when: a diff is between the snapshots it names, and applying it twice
  changes nothing.

### Profile catalogs
`internal/mcp/profilecatalog.go`, `internal/catalog/{load,datasets,apply,syncapply}.go`

- State: per profile a workspace of JSON files, and in `Server.wsCache` (under
  `wsMu`) the catalog compiled from them, with a fingerprint of the files.
- Operations: look up for a request; scaffold, put, build, import; list and
  summarise; make a workspace the active catalog.
- Interactions: validation, joins, preparation and tuning requests that name a
  profile use its workspace, and the active catalog if it has no usable one.
- Hard: the fingerprint is taken before `wsMu`, the files are read one by one,
  and whoever changes them takes no lock and tells the cache nothing.
- Correct when: a request is answered from files as they were during it, and
  passes a workspace over only when it was unusable then.

### Console shell
`internal/mcp/webui/{nav.js,login.html}`, `internal/mcp/{auth,authapi,webui}.go`

- State: the page and its sidebar, built once from the answer of `/auth/me`;
  the dialogs of the profile menu with requests and timers; the guides, one of
  them fetched; the session and the role, which only the server knows.
- Operations: mount, follow a link, token box, drawer; open, submit, close a
  dialog, log out; open and close a guide; Markdown to HTML.
- Hard: `/auth/me` fails and the page takes the server for a standalone one;
  nothing disables a dialog with a request under way; timers of a closed
  dialog; a text that arrives when another guide is in front; frames that a
  hidden tab never gets; Markdown that ends inside a list or a block of code.
- Correct when: a link leads to the page it names, a reported success was one
  and is cleaned up, a guide shows its own text, Escape leaves none, generated
  HTML is well formed.

### Documentation site
`docs/{index,index_en}.html`, `docs/assets/app.js`

- State: two keys of `localStorage`, shared by all tabs; per page the language
  and the texts, the groups of tabs, the questions, the menu and the toast.
- Operations: the detector in the head, which redirects; the switcher; tabs,
  filter, accordion, menu; copies, whose answer comes from the clipboard.
- Hard: two scripts decide the language from keys of their own; a click in one
  tab while another loads; a storage that is refused; timers of the toast that
  nobody stops.
- Correct when: a page is in one language, the one clicked last lasts, panels
  follow buttons, a toast goes.

### Audit, activity and sessions
`internal/mcp/{audit,activity,metrics,workload,server,stdio}.go`

- State: append-only logs with rotation; MCP sessions with an expiry.
- Operations: append, rotate, tail, aggregate; create, touch, delete a session.
- Hard: a rotation between two appends or during a read; a session that expires
  while a request of it runs; the bound on the number of sessions.
- Correct when: no event is lost or counted twice within the retained files,
  and the bound on sessions holds.

### Pure algorithms
- Profile routing (`internal/dbconn/router.go`): a score per profile from
  tables, terms and dialect; ambiguity and the chosen profile.
- Read-only guard (`internal/dbconn/{sqlguard,astguard,dialect}.go`): strips
  literals and comments, refuses anything but one reading statement.
- Predicate policy (`internal/dbconn/predicate_policy*.go`): required filters
  found in the syntax tree of a statement.
- Join graph (`internal/catalog/{join,graph,impact,joingap}.go`): shortest join
  paths, spanning joins, impact of a table.
- Search, preparation, ranking; SQL validation and analysis; data model,
  scores and quality; golden samples and evaluation; OpenMetadata mapping;
  DBA tools; REST and OpenAPI surface; start-up checks. They are listed one by
  one in `PROJECT.json` with the reason for their status.

## 2. Plan

| Order | Module | What it models | Status |
|---|---|---|---|
| 1 | `DatasetStore`, implementing `AtomicStore` | the dataset store: files, rows, catalog, lock, crash, and what it promises its callers | checked, proved |
| 2 | `ConnManager` | pools, breaker, plan gate, cancellation | checked, proved |
| 3 | `QueryJobs`, implementing `JobBoard` | result cache, background jobs, and what they promise | checked, proved |
| 4 | `Accounts` | users, sessions, keys; grants, visibility and settings to come | checked, proved |
| 5 | `ConsoleShell`, `AccountDialogs`, `GuideModals`, `Markdown` | the shell of the console | checked, proved |
| 6 | `DocsSite`, `DocsPage` | the documentation site | checked, proved |
| 7 | `WorkspaceCatalog` | the workspaces of profiles and their cache | checked, proved |
| 8 | `Review` | feedback, candidates, approval, the merge into files | planned |
| 9 | `MetaSync` | runs, snapshots, diffs, the scheduler | planned |
| 10 | `Sessions`, `Audit` | bounded registries and rotating logs | planned |
| 11 | `SqlGuard`, `RouteProfile`, `JoinGraph`, `Diff` | pure algorithms, each against a reference definition over bounded inputs | planned |

`Review` and `MetaSync` write the same files as `DatasetStore`; they compose
with it through the steps of its unlocked writers (read, merge, write, persist,
reload), which is where their interleavings matter.

Proofs are in modules of their own: one per module above from 1 to 4 and 7,
`Console_proofs` for 5, `DocsSite_proofs` for 6, and `Parts_proofs` for the sum
`MCParts` of 5 to 7.

Abstract specifications: `JobBoard`, implemented by `QueryJobs`, is checked and
its safety proved; `AtomicStore`, implemented by the locked handlers of
`DatasetStore`, is checked and proved. Still worth stating: a breaker that is a
function of the history of recorded results, implemented by `ConnManager`.

## 3. The modules

### DatasetStore
| Variable | Code |
|---|---|
| `files` | the dataset files; `Torn` is a file cut short by a write |
| `rows` | `jamypg_datasets` (only when `InDB`, i.e. `datasetsInDB()`) |
| `active` | what the catalog behind `Server.cat` was compiled from |
| `backups`, `clock` | `backups/<file>.<second>` and the second |
| `staged` | who has `<file>.tmp` open, the one name `writeJSONFile` stages under |
| `mutex` | `Server.dataMu` |
| `pc`, `job` | where a handler is, and its local variables |
| `holders` | handlers whose captured `*Catalog` is still the published one |
| `up`, `answer`, `faulted` | the process; the response just sent; history |

A document is the set of its rows. Of a row the model keeps whether the loader
can decode it and which rows must exist for it to resolve: that decides whether
`Load` succeeds and how many error issues a file has, and nothing else about a
document decides anything in these handlers.

A handler is split where another goroutine, a failure or a crash can come
between: `PutBegin` (lock, backup, truncate), `PutWrite`, `PutAccept` or
`PutReject` (compile), `PutRollback`, `PutPersist`, each with the failing form
the code has (`PutWriteFails` returns without a rollback, `PutPersistFails`
after the hot swap). A put, restore or removal whose backup fails, or that can
neither open nor remove its file, ends there (`BeginFails`), and leaves perhaps
half a backup. `RestoreBegin` enters the same path with force. `RemoveBegin`,
`RemovePublish`, `RemoveUndo` and `RemoveRow` are `remove_dataset`;
`ReloadBegin`, `Materialize` and `LoadAndPublish` are `reloadCatalog`. A
metadata sync reads and merges each file, stages the result in a temporary file
and renames it (`SyncWritePhys`, `SyncRenamePhys`), reads the files back, stores
them and then reloads, with no lock before the reload; the relations are not
even read when there are none. The temporary file has one name, so of two syncs
one may rename what the other wrote or has half written (`Renamed`), and finds
nothing left to rename itself (`RenameLost`). With prune a merge drops the rows
it did not collect of the schemas it collected (`Retired`). A learn request
truncates and writes its file and changes the catalog it captured in place.
`Crash` loses everything but files, rows and backups; `Restart` is `main`
followed by `InitDatasetStore`.

`LockedSpec` has the operations under `dataMu` only; `Spec` has all of them,
crash and restart included. `Load` is one step: it runs under the lock, and
what an unlocked writer changes while it reads is covered by the steps before
and after. Writing a backup, a rollback and materializing are one step with
respect to crashes and to other goroutines; that each of them may fail half-way,
and leave a file cut short, is modelled.

`AtomicStore` is what a caller of `put`, `restore`, `remove`, `reload` and
`recompile` relies on, as if a change took one step. A request is asked
(`Ask`), is applied to what every reader sees or refused (`Apply`, `Refuse`),
and answered (`Store`, which also stores it, or `Reject`); what it replaces is
kept before. `LockedSpec` implements it (`ImplementsAtomicStore`): served is
`active`, stored is `rows`, kept are the contents of the backups, and asked is
what the handlers between their first and last step are about, with a fate read
off from the step they are at. `PutBegin`, `RestoreBegin` and `RemoveBegin` are
`Ask`, `PutAccept` and `RemovePublish` are `Apply`, `PutReject` and `RemoveUndo`
are `Refuse`, `PutPersist` and `RemoveRow` are `Store`, `PutRollback` is
`Reject`; a reload or recompile is `Confirm`, since it finds everything as it is
served, and files in between are nobody's business. The promise ends with the
first file write or database call that fails (`broken`), because the code has
answers then that tell the caller less than what happened (section 7).

### ConnManager
| Variable | Code |
|---|---|
| `defs` | the profile store, as `GetProfileByID` reads it |
| `pools`, `open` | `Manager.pools`; the `*sql.DB` not yet closed |
| `brk` | `Manager.breakers`: failures and the ticks left to wait |
| `execs`, `cancelled` | `Manager.execs`; the contexts that were cancelled |
| `pc`, `req` | where a request is, and its local variables |
| `editing` | a profile that was saved and not yet invalidated |
| `streak` | history: failures recorded since the last success |

A slot is a goroutine that serves an execution or a probe. An execution reads
the profile, checks the breaker, explains the statement when it is gated (with
its own reads of profile, breaker and pool), gets its pool, registers, runs,
records and releases. `Invalidate` is a step of its own after `SaveProfile`
because the handler calls it after the store has been written. A query may
fail at any time (error, timeout, cancellation); one that has started survives
the closing of its pool, as `sql.DB.Close` promises. Failures are counted up to
the threshold because the code only compares with it. The values of a pool
(`PoolIds`) merely tell `*sql.DB` objects apart; opening one picks a value
nobody refers to.

### QueryJobs
| Variable | Code |
|---|---|
| `ttl` | `resultCache.ttlSeconds`, an atomic |
| `cache` | `resultCache.m` by key, with the remaining lifetime |
| `jobs` | `asyncJobStore.jobs` |
| `run` | what the goroutines inside `executeGuarded` are doing |
| `applying` | an admin between storing the lifetime and flushing |

`executeGuarded` is split at every lock and atomic it touches: `Enabled`,
`Lookup`, `Exec`, `EndExec`, `ReadTTL`, `Insert`. `submitAsyncQuery` prunes,
checks both limits and registers in one step because it holds the store's lock
throughout; the goroutine of the job then runs the same steps and ends in
`finish`. `cancelJob` ends a context and leaves the job as it is. Rows are
abstracted to what they were computed for: profile and text, number of rows,
binds. Polling and listing copy a job and change nothing.

`JobBoard` is what a submitter relies on: a job is accepted within the bounds,
runs, is over once with one outcome, and the outcome stays until it is stale.
`QueryJobs` implements it (`ImplementsBoard`) under `BoardView`: a job is
running on the board as long as its goroutine is, also when it has been
cancelled and its row says otherwise, and it is stale when it is over and its
lifetime is. `finish` is the board's `End`, pruning in `submitAsyncQuery` its
`Accept` with what it forgets, time its `Age`; the steps of `executeGuarded`
and of the cache leave the board alone.

### Accounts
| Variable | Code |
|---|---|
| `users` | `jamypg_users`: role and active flag |
| `creds` | `jamypg_sessions` and `jamypg_mcp_keys`: owner, revocation, what is left of the lifetime, the key a key replaces |
| `job` | where a handler is, with the row it has read |
| `gone` | history: credentials a revocation was carried out on |
| `out` | history: users deactivated and not activated since |
| `clash` | history: a row was written after what its writer had read (the row, or the number of admins) changed |

Each call of the store is one SQL statement, hence one step; no transaction
joins the calls of a handler. A request looks its credential up
(`Authenticate`), reads the user and extends a session in its second half
(`GetUser`), or carries the master token (`MasterToken`); then it runs one
handler. `PUT /api/users/{id}` is `UpdateUser` (read and merge the row),
`Count` where the code counts, `Write`, and `RevokeSessions` after a
deactivation. The two requests with which users change their own row end in the
same `Write`: `UpdateUser` of the store stores role and active flag whatever
the handler meant to change. `RotateMCPKey` is split into its two calls.
`Login`, `UpsertSSOUser` and `IssueSession` begin and end a login. `Answer`
ends a request that only reads, is refused, or whose next call fails. Of a
lifetime the model keeps four grades, because the code compares it with its end
and with its half only; time passes for all credentials at once.

The database's check of the role is part of `Write` and `CreateUser`. The
history variables influence nothing.

### ConsoleShell, AccountDialogs, GuideModals, Markdown
`ConsoleShell` has two variables: `server` (accounts at all, the session, its
role) and `shown` (the page, what it was built from, token box and drawer).
`mount` asks `/auth/me`, whose answer may stay out; `follow` goes where the
guard of the server leads, which looks at the session of that moment; sessions
end and roles change at any time. Of the links the model keeps those to other
pages of the console, by key.

`AccountDialogs` follows a submission (`submitProfile`, `submitPassword`,
`logout`) through the two halves of its handler (`receive` checks the session
and reads, `store` writes) to `done`, to `Break` when the connection fails, or
to `Forget` when nobody waits for the answer any more, with the two timers a
success starts: `close` of the dialog, `Reload` of the page. A dialog may be
submitted again or closed with requests under way. `saved` is history.

`GuideModals` has the guides in the order of the document. A guide is on the
page from `guideModal` on and visible from the next animation `Frame` on;
`land` writes the onboarding text into the first visible one, as
`querySelector('.jm-modal.open ...')` does. `estranged` is history: an
onboarding guide was opened behind another guide or closed while its text was
under way. What happens then is in the model, and in section 7.

`Markdown` is `mdToHtml` with a reader of the HTML beside it: one action per
kind of line, the two flags of the code, and what the parser of a browser would
be inside of. The inline marks of a line are left out.

### DocsSite, DocsPage
`DocsSite` has the browser, the two keys of `localStorage` and a page per tab.
`Visit` runs the detector in the head, the end of loading runs `app.js`, which
reads the remembered language (`initLanguageSwitcher`) and then writes it back
and applies it (`applyLanguage`) while clicks go on in other tabs; a click runs
`setLanguage`. `chosen` is history, and forgets a click that fell between those
two steps of another tab. A page whose storage is refused stops in the first
initialiser. `DocsPage` is one page after that: the groups of tabs and their
panels, the accordion, the menu, and `copyText` with the clipboard's answer,
`showToast` and its timers.

### WorkspaceCatalog
| Variable | Code |
|---|---|
| `file`, `writes` | the files of the workspace with their times of modification |
| `cached` | `wsCache[profile]`: the catalog and its fingerprint |
| `pc`, `fp`, `printed`, `got` | where a request is in `workspaceCatalog`, and its locals |
| `writer` | where a put, a build or an import is |
| `seen` | history: what each file has held since the request began |

Two files stand for all: the models `Load` cannot do without, and a file it
uses as far as it can be read. `workspaceFingerprint` stamps one file after the
other, `Enter` is the wait for `wsMu`, which is held over `Miss`, `LoadModels`
and `LoadRest`; `LoadFails` leaves the entry alone. A put truncates, writes,
compiles and perhaps restores; a merge replaces a file by a rename. What a
backup holds is left open, because another put of the same second writes its
own under the same name. A merge stages its file first (`Stage`), under the one
name all merges of the file share: while others have it open a rename may move
what one of them wrote, or half of it, and leaves them without it (`Sharing`,
`Rename`, `RenameLost`). Every write gets a time of its own: the fingerprint
relies on it, at the granularity of the file system's clock (section 7). A file
that was renamed keeps the time it was written; here it gets the time of the
rename.

### MCParts
The modules above from `ConsoleShell` on share no state. `MCParts` is their
disjoint sum: a behaviour picks a part at the start and follows it, and the
others rest in one initial state, so that the numbers of states add up and are
not multiplied. A part's fairness asks nothing while another is followed,
because none of its steps is enabled then. The workspace appears three times, as
`catalogs` with all readers, as `workspace` with one reader and more writes, and
as `merges` with one reader and two writers that only merge.

## 4. The runs

| Run | Specification and bounds | Shows |
|---|---|---|
| `locked` | `LockedSpec`; 2 workers, 2 datasets, 2 seconds, failing writes; 2.9M states | the lock is held exactly during locked handlers; the database keeps usable required rows; files, rows and catalog agree when idle and nothing failed; a rejected put restores; an applied change has a backup; a reload publishes the rows; all of it implements `AtomicStore` |
| `open` | `Spec`; put, reload, sync and learn by 2 workers, 2 datasets, one second, failures, crashes; 4.6M states | the published catalog always compiles; a restart serves the rows |
| `live` | `FairSpec` without a meta DB; all operations but the recompile, which is then a reload; failures, crashes; 0.4M states | every request is answered |
| `uncommitted` | `Spec`; put and sync | finding: a put commits content that was not what it validated |
| `learn` | `Spec`; reload and learn, 3 datasets | finding: a reload publishes the stored row in place of the rules just learned |
| `conn_connector` | `FairSpec`; 2 slots, 1 admin, 1 profile with 2 definitions, threshold and cooldown 2; 1.6M states | pools, breaker and registry are consistent; a blocked profile is let in again |
| `conn_timeouts` | 1 slot, threshold 3 | finding: executions that fail in a row need not block |
| `jobs` | `FairSpec`; 1 worker, 3 job ids, 2 users, limits 1 and 2, a cache of 1; 0.3M states | answers match, cache and background load are bounded, jobs are kept, and all of it implements `JobBoard`, whose jobs end |
| `binds` | `Spec`; 1 worker, 2 binds | finding: a cached answer of other binds |
| `accounts` | `Spec`; 2 workers, 2 users, 2 credentials, 4 edits; 5.2M states | what was revoked is refused and replaced keys are revoked; without overwriting an admin remains and the deactivated stay out |
| `last_admin` | `Spec`; 2 workers, 2 users, 1 credential | finding: two concurrent demotions leave no admin |
| `parts` | the sum `MCParts`; 5 links, 1 dialog with 2 requests, 3 guides, 2 tabs with 2 elements, 3 copies, 2 readers and 1 writer with 2 writes, 1 reader and 1 writer with 4, 1 reader and 2 merges with 2; 0.7M states | links lead where they say; a reported success was one and is cleaned up; guides keep their text, arrive, and leave on Escape; HTML is well formed; one language, the chosen one; toasts go; requests are answered from catalogs of their own time |

Why these bounds are enough. Every race the code can have here is between two
goroutines and one shared object, so two workers, or two slots and an admin,
reach it. Two datasets, one required and one lenient, are enough for a relation
that dangles until the other file is complete; the third in `learn` keeps
learned rules apart. All tables are of one schema, so that a sync with prune has
something to retire; the proofs are for any schemas. Two seconds allow backups
with the same name and with different names. Threshold 2 lets one failure be
counted without blocking. With two definitions a profile can change to another
one and back. Three job ids exceed the total limit of two, which exceeds the
limit per user of one, and two texts' worth of keys (one text, two row limits)
exceed a cache of one entry. Two users suffice for admins who act on each other
or on themselves, and two credentials for a key with its replacement or a
session beside a key; the master token acts as a third party. The edits appoint,
deactivate, demote and ask for the role the database refuses.

Of `parts`: the links are one of each rule of `show`. One host element with two
requests has a dialog submitted twice and an answer to an earlier dialog; the
element is used again only when nothing refers to it, and the proof of
`SuccessIsReal` is for any number of both. Three guides put one before and one
behind the onboarding guide. Two tabs are a click in one while the other loads;
of two elements one is translated in the file and one is not. Three copies let a
timer run out between two others. Two readers are one that files a catalog and
one that finds it, four writes a put that is rejected and rolled back (truncate,
write, truncate, write), and two writes two merges that overlap. The file that
is not required holds no usable content there, as `Load` treats all its contents
alike.

`CHECK_DEADLOCK FALSE` appears where crashes are on: after a crash a data
directory that does not compile keeps `main` from starting, so the server may
really stop there. Symmetry of workers is used where no liveness is checked.

## 5. Fairness

- `DatasetStore`: weak fairness of the steps of a handler (goroutines are
  scheduled, file and database calls return); strong fairness of the lock
  taken by a sync's reload, because `sync.Mutex` hands itself to a goroutine
  that has waited for 1 ms; weak fairness of `Restart`, the supervisor's part.
  Beginning a request is never fair.
- `ConnManager`: weak fairness of the steps of a request, since every query
  runs under a timeout, and of time. Nobody has to send a request: a breaker
  recovers by its clock.
- `QueryJobs`: weak fairness of the steps of a job's goroutine, since its query
  runs under a timeout. Nobody has to poll.
- `AccountDialogs`: weak fairness of the two timers, which a browser runs out.
  Answers of the server are not fair: a dialog may wait for ever.
- `GuideModals`: weak fairness of `Arrival`: `fetch` answers or fails. Frames
  are not fair, since a hidden tab is given none.
- `DocsPage`: weak fairness of the toast's timers; the clipboard owes no answer.
- `Accounts`, `ConsoleShell`, `Markdown`, `DocsSite`, `WorkspaceCatalog`: none,
  every property is one of safety.

## 6. The theorems

All proofs are checked by TLAPS without assumptions other than the `ASSUME`s of
the modules, which say what the constants are.

`DatasetStore_proofs`. `TypeCorrect`, `ActiveAlwaysCompiles`,
`RestartServesDB` and `LockIsDisciplined` hold of `Spec`, with every operation,
failure and crash. `DBStaysDecodable`, `ReloadPublishesRows`, `IdleStoresAgree`,
`RejectionRestores` and `AppliedIsReversible` hold of `LockedSpec`. Their
inductive invariant is `FInv`: the lock discipline and what each handler knows
at each step (`LInv`: whose file is torn, what has been backed up, that what is
about to be persisted has compiled); as long as nothing failed, where the three
copies of each document stand while a handler is at work (`SInv`); and that
backups a handler relies on are still there (`HeldBackups`). None of the checked
properties is inductive by itself: agreement when idle is a consequence of what
is known half-way.

`StoreIsAtomic`: `LockedSpec` implements `AtomicStore`. `AInv` adds to `FInv`
that the server is up and its catalog compiles, and what a request under way was
judged by (`Judged`): the errors it has counted are still those of the published
catalog, since nobody else moves it. Then each step is the step of `AtomicStore`
named in section 3 or a stutter; as at most one request is under way
(`AskedIs`), what is asked is known from the holder of the lock.

Two more theorems go beyond `LockedSpec`, on `Spec` with fewer operations.
Without `sync` and `learn` (`OnlyLocked`) but with crashes and restarts, `CInv`
says that a server that is down has no request under way, that one that is up
satisfies `SInv` until a write fails, and that until then the rows make a
catalog together: a handler commits one row, of a document that has compiled
with the others. `CommittedAlwaysCompile`, `CrashesKeepPromises` (the five
promises above survive a death at any step, because `Restart` brings the three
stores together) and `ReloadsMoveNothing` follow. Without `sync` only, `VInv`
says that what is about to be committed to a required dataset was compiled
before, whatever a learn step does to other files meanwhile, whence
`OnlySyncSpoilsRows`.

`ConnManager_proofs`. The inductive invariant `CInv` is `TypeOK` with what a
request at each step carries (`Serving`), that a pool is filed under its own
profile (`PoolsAreFiled`), the ownership of pools, the pools of requests, the
breaker's count against the history of results (`BreakersCount`) and the
registry against the steps of executions (`Registered`). `PoolsOwned`,
`QueriesUseRightPool`, `BlockedAfterFailures`, `RegistryExact` and
`TypeCorrect` follow. `PoolAlwaysAvailable` says of the bound on `PoolIds` that
it hides nothing: with more ids than slots a request that must open a pool can.
`UnexplainedFailuresBlock` is about `CountedSpec` of `MCConnTimeouts`: while
nothing is explained, the breaker counts every execution that fails
(`FailuresCount`), so that the last of a row blocks the profile.

`Accounts_proofs`, for any number of workers, users, credentials and edits.
`Typed` says of each job that what it refers to exists at the step it is at,
because nothing is ever deleted; `Kept` says what no step may do to rows and
credentials. `Revocations` (what is recorded as revoked is, and so is every
replaced key) gives `KeysReplaced` and, with the guard of `Authenticate`,
`RevokedRefused`; both hold whatever is overwritten. `Current` holds as long as
nothing was overwritten: an admin exists, the deactivated are inactive, a
handler that edits neither holds the row as stored (`ReadsCurrent`), and what is
about to be written takes no last admin away (`LeavesAdmin`), which is where the
two counts, each made before or after a change of the role, come in
(`CountLeaves`, `UncountedEdit`). `AnAdminRemains` and `DeactivatedRefused`
follow. With one worker nothing is ever overwritten (`AloneNoneStale`), whence
`AdminRemainsOneAtATime`.

`QueryJobs_proofs`. The inductive invariant `QInv` is `TypeOK` with: what is
being computed, and what is cached, is about the query it is for (`RunsMatch`,
`EntriesMatch`); the cache is finite and within its bound (`CacheFits`); a
goroutine's job is in the store under its submitter and running (`JobsAreFiled`,
`RunningRuns`); the store is within its total (`StoreFits`). `AnswersMatch`,
`CacheIsBounded` and `BackgroundWithinLimits` are consequences: the limits are
checked against what the store lists, and the invariant says that what really
runs is listed, cancelled or not. `JobsImplementBoard` follows from it step by
step: the initial board is empty, and each action maps to the board's action
named in section 3 or to a stutter. That is the safety part of
`ImplementsBoard`; that every job ends is left to the run. Of bind values,
`BInv` says that what a goroutine computed has those of its query and that who
never asks the cache never gets to its lookup; `UncachedAnswersHaveOwnBinds`
(every job) and `BindsMixOnlyThroughCache` (everybody, without caching) follow.

`Console_proofs`, for any links, dialogs, requests and
number of guides. A page built without an answer has no role (`MeIsAnswer`),
which is why an admin's link was shown by the server's word (`LinksAlwaysLead`).
The flags of `mdToHtml` say what its reader is inside of (`FlagsAreTrue`), so
every tag is read where it may stand (`HtmlAlwaysWellFormed`). A request carried
out is recorded for its dialog, and what a dialog reports is recorded (`DInv`),
whence `SuccessAlwaysReal`. Guides all listen to the keyboard and the visible
ones come first (`OrderIn`); while nothing is estranged, no guide of the page
precedes an onboarding guide that waits and each answer under way has one that
waits for it (`MInv`), whence `GuidesAlwaysKeepTheirText` and
`EscapeAlwaysClosesAll`.

`DocsSite_proofs`, for any number of tabs and elements. `LangInv` adds to
`OneLanguage` that a clicked language is under both keys and is what every tab
about to write has read, and that without a storage no page becomes ready;
`AlwaysOneLanguage` and `ChoiceAlwaysLasts` follow. `PanelsAlwaysFollow` says
that panels follow the active buttons of their groups, whatever is clicked.

`WorkspaceCatalog_proofs`, for any number of readers, writers, contents and
writes. `WsInv` rests on every write making old all fingerprints of its file
(`TimesArePast`). A catalog filed under the current fingerprint of a file has
its content (`CacheIsTrue`; `LoadIsTrue` of one being compiled), and one filed
under the fingerprint a request has taken of a file has a content the request
has seen (`CacheWasSeen`, `LoadWasSeen`): the two are needed together, because
what is compiled between two fingerprints may be filed under the older.
`AnswersAlwaysOfTheirTime` follows.

`Parts_proofs`. `MCParts` is a sum: a step of it is a step of one part and
leaves the variables of the others alone, so that what it does to each part is a
behaviour of that part (`PartsBehaveAsAlone`). The type invariant of the sum
(`PartsTypeCorrect`) and all safety properties of the run
(`PartsKeepTheirPromises`) are then the theorems of the parts.

What a run finds violated, the theorems narrow down: once the cause named in
section 7 is taken away, four of the five properties hold for every value of the
constants, and for `learn` a stronger one does, as far as no write fails.

| Violated by the run | Holds | Theorem |
|---|---|---|
| `uncommitted` | without the unlocked writers, until a write fails | `CommittedAlwaysCompile` |
| `learn` | without the unlocked writers, until a write fails: no reload moves anything | `ReloadsMoveNothing` |
| `conn_timeouts` | without an EXPLAIN | `UnexplainedFailuresBlock` |
| `binds` | without caching, and for jobs | `BindsMixOnlyThroughCache`, `UncachedAnswersHaveOwnBinds` |
| `last_admin` | with one request at a time | `AdminRemainsOneAtATime` |

The hypotheses of these theorems are stated in them, and are about the set of
operations, the number of workers or the settings; none is an assumption of a
module.

Only model-checked: liveness (`RequestsFinish`, `BreakersRecover`,
`ReportedChangesEnd`, `OnboardingArrives`, `ToastGoes`, and in `ImplementsBoard`
that every job ends), which is outside what the prover handles. What a recursive
definition computes for every input would be as well; no module has one.

## 7. Disagreements

Shown by a run (section "findings" of `PROJECT.json`):

- `uncommitted`: a metadata sync, which takes no lock, renames its file over the
  one a put has just written; the put compiles the sync's document, accepts, and
  commits its own content, which was never validated and does not decode.
- `learn`: `LearnFromFeedback` stores no row, so that in auth mode a reload that
  listed the rows before writes the old one over the learned file; the catalog
  it publishes has the old rules in place of those installed meanwhile, which
  are then nowhere any more.
- `conn_timeouts`: the EXPLAIN before a gated execution counts as a success and
  resets the breaker; with one gated execution among them, three failures in a
  row do not open it.
- `binds`: the key of the result cache ignores bind values.
- `last_admin`: admins are counted and demoted in separate store calls, so two
  demotions at once leave no admin.

Met while modelling and left to the readers of the code; the models contain
each of them, and no property contradicts it:

- a put between a sync's read and its write is lost (the merge wins);
- two backups of a file in one second share a name, the later one remains, so
  that what the earlier change overwrote is lost after all;
- `persistDatasetsToDB` stores what a put is still validating, or half of it;
- two merges of a file share the temporary file: one may rename what the other
  has half written, and what is compiled next is a torn file;
- the errors of the removal in a put's rollback and of the restore after a
  removal that does not compile are dropped;
- a language clicked in one tab while another is between reading and writing
  `localStorage` is overwritten with the one that was read;
- a reload between a sync's write and its persist puts the old rows back;
- a persist that fails after the hot swap leaves catalog and database apart,
  and `remove_dataset` ignores the failure of its row;
- at start the files are compiled before the rows are written over them, so a
  torn file keeps a server down that has good rows;
- a request that read a profile before a change can re-open the old pool after
  it, records its late result on the new breaker, and may be judged by a plan
  made under another definition; a failing EXPLAIN counts once more when the
  query fails too;
- a user's change of profile or password writes role and active flag back as
  they were read and can undo a demotion or deactivation, though the comment of
  `handleUpdateProfile` says they are untouched;
- a login under way during a deactivation stores a session that works again
  after an activation; two rotations of one key leave two replacements;
- the API accepts the role `dba` for accounts, the `CHECK` of `jamypg_users`
  refuses it;
- a put into the cache can survive the flush of `SetTTL(0)`; cached rows keep
  the masking and the definition they were computed under;
- the onboarding text is written over a guide of the page when onboarding was
  opened behind it, or closed before the text was in (`GuideModals`,
  `estranged`); a text that finds no visible guide is dropped;
- a put of a file that did not exist, into a workspace that does not compile
  afterwards (a fresh scaffold has no tables), is answered with "rolled back",
  but `RestoreDatasetBackup("")` fails, its error is dropped and the rejected
  content stays; two puts at once may take back an accepted one.

Seen in the code, and about layout or data that the models leave out:

- the comment at `internal/mcp/webui/nav.js:215` says that a standalone server
  shows the items of administrators and of DBAs; the code shows the latter;
- the detector sends a visitor with an English browser to `index_en.html`,
  which `app.js` then puts into Korean, its default;
- `setLanguage` assigns `textContent`, so a title loses its markup;
- inline marks that overlap in a guide make tags that cross;
- the fingerprint of a workspace does not tell two writes of one size within a
  tick of the file system's clock apart; a test sleeps for that reason.

## 8. What is left out

Components that are not modelled are listed with a reason in `PROJECT.json`.
Inside the modelled ones: logging, metrics, the audit log, the layout of
responses, the refusals before a handler changes anything (unknown dataset, bad
JSON, no permission), and the other unlocked writers of dataset files, which
follow the protocol of the metadata sync. Of the accounts, grants, visibility
and settings.

Of the front ends: style sheets, texts, the opening and closing of the profile
menu, the master token kept by a page, and the charts and forms of the single
console pages. A click on a language is one step, though two scripts listen to
it with a key each: a visitor clicks in one tab at a time. A toast keeps the
language it was shown in. A meta database that does not answer makes the guards
refuse, which looks like a session that has ended.

Of the workspaces: the tools that list and summarise only read, and
`set_active_catalog` loads another directory under `dataMu` and publishes it if
it compiles, as a reload without a meta database does. What a merge computes is
data. The physical and the logical models are one file, since `Load` needs both
and a request stops at the first that is missing.

The remaining components are not modelled yet: the review and feedback
lifecycle, metadata collection with its scheduler, and sessions and logs come
next in the plan; routing, the SQL guard, predicate policies, the join graph,
search and ranking are algorithms over data without concurrency of their own,
and need reference definitions rather than state machines; the DBA tools, the
REST surface and the OpenMetadata mapping are requests that read and format.
