# GO Feature Flag Studio in TLA+

Studio is a web application that edits GO Feature Flag YAML files where they
are stored: a GitHub repository, a bucket (S3, Google Cloud Storage, Azure
Blob), Kubernetes ConfigMaps or a local directory. It keeps no database. Any
number of users, through any number of replicas, and people who commit or
upload without Studio, change the same files.

This directory holds TLA+ modules translated from the Go source (paths below
are relative to the repository), TLC configurations that check them on small
instances, and proofs that TLAPS checks for every value of the constants.

## Inventory

| Component | State it keeps | Operations | What is hard about it | What makes it correct |
| --- | --- | --- | --- | --- |
| **Backends** `internal/githubapp/client.go`, `internal/storage/github.go`, `backends/{s3,gcs,azblob,configmap}` | none; the file's version lives in the storage | `ReadFile`, `Write`, `CreateFile`, `ListFiles`, `ListDirectories`, `History` | read, check, apply, conditional put, retry; lost answers; refusals without cause; content-hash versions | no lost update, no unseen overwrite, true answers, bounded retries |
| **File backend** `internal/storage/file.go` | files, a shared `.tmp` name | same | no lock and no compare-and-swap | whole files only; lost updates documented |
| **Service, editing** `internal/server/service.go`, handlers in `server.go` | `cache` (last version per file), `history` (versions shown), both in memory | `List`/`Get`, `Save`, `SaveVariations`, `Delete`, `Rename` | look-up, read and check are separate steps; restart, eviction, two replicas | `Write` gets the flag the page shows or none; current pages are accepted; a conflict is a 409 |
| **Service, creating** | team files | `prepareCreate`, `Create`, `createTeamFile` | check in all files, write in one; create race and fallback | keys unique in an environment, no flag lost in the fallback |
| **Service, environments and teams** `service.go`, `teams.go` | `envNames`, `teamIndex` with TTLs, `envMu`, `teamMu` | `Environments`, `CreateEnvironment`, `Teams`, invalidation | locks held over I/O, nesting, stale fills | no deadlock, own changes visible after the answer |
| **Rules** `server.go` 1536-1630 | none | insert, remove, reorder, permutation check | the edit is applied to a later list than the one checked | no rule dropped or doubled |
| **Compare and promote** `compare.go`, `promote.go` | none | `Compare`, `Promote`, frozen rollouts | time-dependent copy between environments | a promotion never starts serving by itself |
| **History and diffs** `service.go` 1239-1292, `diff.go` | none | filter commits, unified diff | matching keys in messages, hunks | diff turns before into after |
| **Validation, summaries** `validate.go`, `summary.go` | none | character checks, wording | none that needs a model | - |
| **GOFF adapter** `internal/goff` | none | parse, serialise, splice YAML, compile and parse queries | minimal diffs, comments, nested conditions | other flags untouched; queries survive the round trip |
| **Permissions** `internal/permissions` | rules, immutable | `Allowed`, `AllowedAnywhere`, `ActionsFor`, `GrantsFor` | wildcards, no team, default deny | consistent answers, monotone in the rules |
| **Sign-in** `internal/auth` | cookies in the browser only | `Start`, `Exchange`, seal and open | several tabs, expiry, replays of the callback | a session belongs to the sign-in that was started |
| **Installation tokens** `internal/githubapp/installation.go` | cached token, one mutex | `Token` | mutex held over the request, expiry margin | never an expired token, waiters served |
| **Startup** `internal/app` | none | storage check, OIDC discovery | doubling back-off up to a deadline | gives up in time, never serves unchecked storage |
| **Configuration** `internal/config` | immutable | load, check | none that needs a model | - |
| **Attribution** `backends/*/attribution.go` | none | encode and truncate metadata | byte budget | within 2 KB |
| **Web interface** `web/src` | query cache in the browser | optimistic toggle, roll-back, invalidation | answers out of order | the page settles on the server's state |
| **Chart, end-to-end harness** `charts`, `e2e` | - | - | - | - |

How they interact: a handler (`server.go`) calls the service; the service
reads through the backend (`List`), remembers what it read, decides whether
the page may be trusted, and hands the backend's `Write` two closures, `Apply`
(parse, mutate, stamp, serialise, validate) and `Changed` (compare the flag
the page showed with the flag now). All coordination between requests and
replicas happens in the storage, through the condition on the put.

## Modules

| Module | Models | EXTENDS / INSTANCE |
| --- | --- | --- |
| `FlagFile` | one file's data and what an edit does to it | - |
| `AtomicEdits` | abstract: each request takes effect or is turned down at one instant | `FlagFile` |
| `ConditionalWrite` | the backends' `Write` loop | `FlagFile`; `Atomic == INSTANCE AtomicEdits` |
| `ConditionalWrite_proofs` | its theorems | `ConditionalWrite`, `TLAPS` |
| `FlagEditing` | handlers and service in front of the loop | `ConditionalWrite` |
| `FlagEditing_proofs` | its theorems | `FlagEditing`, `ConditionalWrite_proofs` |
| `FlagCreation` | creating flags: the search for the key, a team's new file, its fallback | - |
| `FlagCreation_proofs` | its theorems | `FlagCreation`, `TLAPS` |
| `CachedLists` | the cached environments and team counts and their mutexes | - |
| `CachedLists_proofs` | its theorems | `CachedLists`, `FiniteSetTheorems`, `TLAPS` |
| `FileBackend` | the local directory's `Write`, `CreateFile`, `writeAtomic` | - |
| `RuleEdits` | the requests that edit a flag's list of rules | - |
| `Promotion` | copying settings of a flag to another environment | - |
| `FlagRules_proofs` | the theorems of both | `RuleEdits`, `Promotion`, `FiniteSetTheorems`, `SequenceTheorems`, `TLAPS` |
| `TeamAccess` | permission rules, what pages offer, what saves check | - |
| `SignIn` | login, callback and logout over the cookies of one browser | - |
| `Access_proofs` | the theorems of both | `SignIn`, `TeamAccess`, `TLAPS` |
| `TokenSource` | GitHub App installation tokens and their callers | - |
| `Startup` | the two retry loops before Studio listens | - |
| `Timeouts_proofs` | the theorems of both | `TokenSource`, `Startup`, `TLAPS` |
| `Condition` | compiling a condition to a query, and parsing it back | `SequencesExt` |
| `YamlSplice` | which lines of a file an edit replaces | `SequencesExt` |
| `Files_proofs` | the theorems of `FileBackend` and `YamlSplice` | both, `FiniteSetTheorems`, `SequenceTheorems`, `TLAPS` |
| `MCWrite`, `MCEditing`, `MCCreation`, `MCFile`, `MCCondition`, `MCSplice` | constants for TLC | one of the above each |
| `MCPages` | constants, and one run for three modules | `CachedLists`, `RuleEdits`, `Promotion` |
| `MCMachines` | constants, and one run for seven modules | `FileBackend`, `TokenSource`, `Startup`, `SignIn`, `Condition`, `TeamAccess`, `YamlSplice` |

The modules in `MCPages` and in `MCMachines` share no state, in the code or
here. A behaviour of theirs is one of `part`, chosen at the start: that part
moves and the others stay in one initial state. So every behaviour of each
part is explored, and no product of two of them.

Three more modules meet at an interface instead of being composed. `RuleEdits`
and `Promotion` write in one step, the one at which `ConditionalWrite` is
shown to take effect (`AtomicEdits`); whether the replica still has a snapshot
of the page (`FlagEditing`) is a choice there, `compares`. `TeamAccess` takes
the file's team from the same instant.

Definitions commented `SEEDED FAULT` are plausible bugs of the definition
that follows them. Nothing uses them; put in its place, each makes the
property it is paired with (PROJECT.json, "mutants") fail.

### FlagFile

A file is a function from keys to flags or `NoFlag`; content that does not
parse is `Garbled`. A flag is a value per field and the `updatedAt` stamp. The
fields stand for what the saves set (enabled, rules, variations, ...), and
`Compared` for those that `sameFlagState` looks at. `Objection` gives what the
`Apply` closures of Save, Delete and Rename answer instead of content: a
missing flag, an unreadable file, a file GOFF's validation refuses, a new key
that is taken. `Valid` judges the whole file, as `Adapter.Validate` does.

### ConditionalWrite

The five backends share one loop, and one module stands for all of them:

| Constant | GitHub | S3 | GCS | Azure | ConfigMap |
| --- | --- | --- | --- | --- | --- |
| `ContentHash` (versions repeat with the content) | TRUE | TRUE | FALSE | FALSE | FALSE |
| `Spurious` (refused although the file is as read) | TRUE | FALSE | FALSE | FALSE | FALSE |
| `Resending` (requests whose put the client library may repeat after it was applied) | none | any | none | any | none |

A ConfigMap's resourceVersion also moves when another file of its environment
changes: that is an outside version with equal content, which `EditElsewhere`
can add.

`log` is everything the file ever held, so a version is an index and the
storage's current content is the last entry; who wrote an entry is kept for
the properties only. A request's loop takes two steps per attempt:

1. `ReadFails`, `Conflicts`, `Objects`, `NothingToDo` or `Builds`: ReadFile,
   the version check, `Changed`, `Apply`. One step, because the read is the
   only part that touches shared state.
2. `PutLands`, `PutLandsUnheard` (applied, answer lost), `PutFails`,
   `PutRefused` (409, 412) or `PutResent`: the put, then return, read again or
   fall out of the loop.

`Start` is the call with the arguments the service passes: a base version,
and the flag as that version held it or nil.

### FlagEditing

One replica's path from a handler to `Write`, for one file. `stage` is where
the handler is:

| Action | Code |
| --- | --- |
| `Submit`, `Arrive` | the request arrives; handleToggle, handleRollout, handleSaveRule, handleDelete and the variations request look the page's flag up at once (`CachedFilesFor`, `Snapshot`) |
| `Browse` | the list and the flag page: they only read, and hand out the fileSha |
| `Get` | the reading half of `Service.List` |
| `GetRemembers` | `remember`, and whether the key was found; other requests run between the halves |
| `LookUp` | `snapshotFor`, in the handlers that ask after `Get` |
| `Check` | `knownSHA` and ErrStaleView, then the call of `Write` |
| `Locate` | Rename's `locateKey` |
| `Write(r)` | ConditionalWrite's loop, whole |
| `Reply` | `saved` and the handlers' answer |
| `Forget`, `Restart`, `Abandoned` | history overflowed on account of other files; the process is replaced; a request dies with it (`app.Run` has no graceful shutdown) |

### FlagCreation

The files of one environment and the requests that create flags in them. A
flag is who put it there: what matters is whether a key is taken and by whom.
`pc` names the storage call a request makes next, so other requests, and
changes made elsewhere, run between any two calls:

| Action | Code |
| --- | --- |
| `Submit`, `ListFiles`, `Scan`, `Located` | `prepareCreate`: the listing, and `locateKey` reading one file per step |
| `FirstOfTeam`, `CreateLands`, `CreateLandsUnheard`, `CreateRefused`, `Fallback` | `createTeamFile` over the backends' `CreateFile`, which never overwrites; any error of it is followed by another read |
| `WriteReads`, `WritePuts`, `WriteRefused` | the write loop with `buildCreate` |
| `StorageFails` | any call fails without effect |

`locateKey` reads the files in the order of their names; the module allows any
order. A refused put may have any reason, as with GitHub's 409. The file
backend's `CreateFile` is not conditional and has its own module. Histories
(`ever`, `lost`, `blockers`) are read by the properties only.

### CachedLists

`envNames` under `envMu`, `teamIndex` under `teamMu`, and five kinds of
request: listing environments, the teams page, creating an environment,
writing, and a team's first flag. A list that is not cached is filled with the
mutex held over each of the storage calls, one step each. `NamesReturned` is
the return of `environmentNames` to its four callers; `countTeamFlags` calls
it with `teamMu` held. `InvalidateNames` and `InvalidateTeams` are the two
halves of `invalidateEnvironments`, the second one that of `write` too. A list
that expires is a step of its own: how long 30 seconds are relative to a
storage call is left open.

### FileBackend

One file of a directory, as inodes and the names that point to them.
`writeAtomic` is three steps, `Open` (create or truncate `<path>.tmp`),
`WriteTemp` and `Rename`, with a write that fails half way and a process that
is killed (`Crash`). Two writers that open `<path>.tmp` have the same inode
open; what is written over existing bytes may leave a tail (`Mixed`).
`overlapped` records whether two calls were ever between Apply and the rename
at once. `Mixed` counts as unreadable when it is read again, although some
mixtures parse: by then the property is violated. Saves here always change the
file, because they stamp the flag; `Retried` is not modelled.

### RuleEdits

One flag's rules as a list of names; `by` is the request that last set a
rule, `ramp` the one that gave it a progressive rollout. A request is asked
for from a page (`Ask`), checked against the list of the moment (`Check`:
`ruleExists`, a free name, `isPermutation`) and applied to the list of a later
moment (`SaveRules`: `sameFlagState`, the mutation, GOFF's validation). In
between others edit the list through Studio or without it.

### Promotion

`AskPromotion`, `PlanPromotion` (`planPromotion`, `checkPromotable`) and
`SavePromotion` or `CreatePromoted`, over flags with one rule that may be a
ramp. Time passes, and source and target change, between any two of them. The
percentages of a ramp are rounded down, where the code has fractions.

### TeamAccess

`Allowed`, `AllowedAnywhere`, `ActionsFor`, `GrantsFor` and the questions the
pages derive from them (`CanEdit`, `TeamGroups`, `CanCreate`, `TeamOptions`)
are operators on the configuration, which is chosen when Studio starts. The
actions are a page being shown, a save made from it, and, in the single-file
layout, the team of the flag being changed in the file. What `Config` refuses
at start (a rule without teams) is in `AccessAssumption`.

### SignIn

The browser's cookies are one `jar` for all tabs. A request reads the jar when
it is sent; what its answer sets or clears changes the jar when the answer
arrives (`flying`, `AnswerArrives`), and a tab that is reloaded drops the
answer it waited for. The provider exchanges a code once and for the right
verifier only. Sealing is taken to be unforgeable.

### TokenSource and Startup

Both count time in ticks and let steps of the program take none. In
`TokenSource` a free mutex goes to anybody who waits (sync.Mutex lets a caller
that has just come overtake those that sleep, and hands the mutex on in order
only after one of them was woken in vain), a fetch or a use ends at the HTTP
client's timeout at the latest (`Due`), and a caller's context may end while
it waits for the mutex or for GitHub. No bound on a wait follows from the
mutex, therefore; `OnlyFailuresProlongWaits` is the one that follows from the
cache: only fetches that fail keep a call waiting for more than one of them.

`Startup` is the same loop twice, first for the storage and then for discovery,
and the chart's startup probe, which runs from the start of the process.

### Condition

A text is a sequence of tokens, of which a whole comparison is one. `Compile`
and `ParseExpr` are `compile` and `parseExpr` with all they call. `IsQuery`
and `Means` are the reference: the query language as GO Feature Flag reads
it. A state is a condition that was built, with its text, or a text written by
hand.

### YamlSplice

A file is a sequence of lines, one per key of a flag, setting, comment or
blank line, with anchors, aliases and merge keys. `BlockOf`, `Rendered`,
`SpliceFlag`, `AppendFlag`, `SpliceDelete` and `WithKey` say which lines an
edit replaces, `RefuseAnchored` which edits are refused. Reading a text
(`Reads`, with aliases and `<<`) is yaml.v3's and is modelled from how Studio
relies on it. `IsFlagFile` says which texts these are: a flag's settings follow
its key, one per line, and comments and blank lines stand between flags only.
`ValidText` is what `Validate` lets pass; an alias without an anchor before it,
or a `<<` of something that is not a flag, is not read at all. An anchor may be
named twice, and an alias means the last before it: `DeleteFlag` of the flag
that has that one leaves the alias to the one before, as `Remove`
(adapter.go:341) refuses no anchor. The run `splice_shared` shows that, too,
with `FirstTexts <- MCAnchoredTwice` in its configuration.

## What is checked

All runs are exhaustive, up to the violation in those that expect one. Every
property is defined, with its meaning in words, at the end of its module.

| Run | Instance | Shows |
| --- | --- | --- |
| `write_races` | 2 requests, one of which may have its put repeated, 2 attempts, 5 edits over 2 keys, 1 outside write, possibly garbled | `CommitsAreEdits`, `OnlyAcceptedFiles`, `NoUnseenOverwrite`, `AnswersAreTrue` (success, conflict, "kept changing" and an unadmitted retry are what happened), `CommittedOnce`, and that the loop implements `AtomicEdits` |
| `editing_caches` | 1 replica, history of 2, overflow, restart, save, delete, rename | `EditingTypeOK`; `FlagEditing` implements `WriteSpec`: Write's callers are truthful about `loaded` |
| `editing_views` | 2 replicas, one of them cold, restarts, content hashes, refusals without cause, repeated puts, fairness | `StaleViewsAreStale`, `EveryRequestAnswered` |
| `editing_guarded` | 1 replica that stays up, 2 outside writes | `ComparedChangesConflict` |
| `creation_races` | 2 creates, 2 team files, 2 keys, 2 attempts, 2 changes elsewhere, fairness | `HonestAnswers`, `KnownKeysAreRefused`, `OneWinner`, `CreatesOnlyAdd`, `EveryCreateAnswered` |
| `pages` | one of three parts: 3 requests on the cached lists; 2 editors of 2 or 3 rules and 1 change elsewhere; 1 promotion, 2 changes elsewhere, dates 0 to 4 | `PagesTypeOK`; `OwnChangesShow`, `NoDeadlock`; `EditsTouchOneRule`, `ReordersKeepRules`, `SavedEditsAreThere`; `PromotionIsAsAsked`, `RampsAreNotFastForwarded`, `CheckIsEnough` |
| `machines` | one of seven parts: 3 calls of the file backend; 3 token callers over 6 ticks; one start; 2 tabs over 4 ticks; all conditions of a menu; all configurations of two rules of a menu; 3 edits of 2 files | `MachinesTypeOK`; `SafeWhenAlone`; `NoExpiredTokenUsed`, `TokensAreShared`, `OnlyFailuresProlongWaits`, `EveryTokenCallReturns`; `StartupIsInTime`; `SessionsEnd`, `NewestGetsIn`, `ReplaysAreHarmless`; `QueriesKeepTheirMeaning`; `PagesMatchRules`, `OfferedIsAllowed`; `OthersKeepTheirText`, `OthersKeepTheirMeaning` |

and five runs that end in a violation, each of a sentence of the repository
that the code does not keep in every case:

| Run | Sentence | What happens |
| --- | --- | --- |
| `editing_replicas` | README.md:423, your flag changed underneath you: 409 | A toggle goes to the replica that did not serve the page. The handler finds no snapshot; `Get` then reads, and remembers, the version the page shows, so `knownSHA` passes and `Write` has nothing to compare with. A save that lands in between is overwritten. A restart under an open page has the same effect. |
| `creation_twofiles` | README.md:265, keys are unique across all files | Two creates of one key for two teams: each looks through all files before the other puts, and each put is conditional on its own file only. |
| `file_torn` | README.md:450, never commits a file that fails validation | Two writers share `<path>.tmp`: one truncates or overwrites what the other renames. |
| `conditions_read` | condition.go:64, "`not` binds tighter than and/or" | `not (a) and (b)`, written by hand, is shown in the editor as the negation of all of it: `parseNegated` takes everything after a leading `not`. |
| `splice_shared` | yamldoc.go:369, an edit that would change an anchored value is stopped | The anchor of a whole flag, `a: &base`, is not looked at: after an edit of `a`, a flag with `<<: *base` reads differently. |

What the properties leave out, and say so where they are defined: settings
that `sameFlagState` does not compare (ramps, experimentation and the
bucketing key, service.go:392), whose second save replaces the first without
a 409; lists with two unnamed rules, which a reorder doubles; a condition with
a `not` directly under a `not`, of which one is lost when it is read back; and
a value with a parenthesis in it, which the runs do not use
(`ParenValues = {}`) because `parseLeaf` and `parseExpr` would not end.

README.md:152 says that the file backend is for local development; `file_torn`
is about anything that writes at the same time there. `EditsBuildOn` fails in
the same races: the rename does not look whether the file is still the one
that was read.

The single-replica run `editing_guarded` assumes that the flag never leaves
the file while the page is open: if it is deleted and created again by others
while somebody lists the flags, the look-up finds nothing either, with the
effect of `editing_replicas`.

### Bounds, and why they are enough

- Two requests and a write made outside are the smallest race in which a
  request loses twice. With `Attempts = 2` the first attempt, a retry and the
  fall out of the loop all occur; the code's 3 adds a second retry of the same
  kind.
- `MaxOutside` bounds what others write. One write between any two steps
  suffices for each property; `editing_guarded` has two, so that a field can
  change and change back.
- One field stands for all compared and one for all uncompared fields, a
  second key for another flag of the file, and one pair of field values is
  `Rejected`, so that two valid edits can make an invalid file. One `Time` is
  in use: saves in the same second, where a repeated edit yields equal bytes
  and `NothingToDo` is reachable.
- `HistoryLimit` is 2 where eviction matters (the code's 256) and out of reach
  elsewhere. `MayForget` stands for evictions caused by other files.
- `creation_races` has the layout with team files; the single-file layout takes
  a subset of its paths and is covered by the theorems.
- Two team files and two keys are the smallest environment in which the search
  and the put concern different files; two changes made elsewhere let a file
  vanish and come back within one create.
- Two editors and one change elsewhere on two named rules, or on one between
  two unnamed ones, give each kind of edit a list that has gained, lost or
  swapped a rule since its page and since its check.
- One promoter suffices, since others who promote do to the target what
  `EditFlags` does; its two edits let source and target change both, or one of
  them twice. One ramp rises and one falls, and the dates lie before, in and
  after both.
- Three token callers over a lifetime of 5, a margin of 2 and a timeout of 1
  let a token be fetched, shared, expire and be replaced while others queue.
- `Startup` uses the code's ratios: a budget of 24 (2 minutes), attempts of 4
  (20 seconds), back-off from 1 to a cap of 3 (15 seconds) and a probe of 30
  (150 seconds), 5 seconds each, except that the first sleep is 5 seconds
  instead of one. `elapsed` needs no bound, as both loops end.
- `Condition`: five kinds of leaves in groups of one and two, and groups of
  groups, are every pair of adjacent nestings; the compiler and the parser
  look at no more at once. `conditions_read` takes every text of up to six
  tokens, the first violation being of the longest.
- `TeamAccess` is about sets of rules; two of them are every way in which one
  rule can add to another, and the theorems cover any number.
- `YamlSplice` makes three edits in a row on a file with a shared value,
  comments and blank lines, and on one with a shared stamp; the theorems are
  for files of any length.
- A late answer of `CachedLists` needs one request that changes the storage,
  one that is filling a list meanwhile, and one that asks afterwards: three.
  `MaxEvents` bounds expiries and changes made elsewhere together: either one
  makes a list that was just filled be filled again.
- Three requests on the file backend let a save come after a kill that left a
  temporary file behind, and after a save that kept it.
- Deadlock is not checked: each request is made once, and when all are
  answered the system stops.

### Fairness

`FairEditingSpec` assumes weak fairness of each request's own steps, those of
its write loop included, and nothing else: a handler is a goroutine that Go
runs, and every read and put ends, with an answer, an error, or the end of its
context. Users, outside writers, restarts, evictions and refusals owe nothing.
Which outcome a put has is not assumed either: `editing_views` includes a
storage that refuses every put. `FairCreationSpec` assumes the same of a
create. `FairTokenSpec` assumes that time passes, that a fetch ends, and
strong fairness of a caller's taking the mutex: a mutex may be free again and
again while somebody waits. sync.Mutex gives it to everyone in the end: a
waiter that is woken in vain a millisecond or more after it came switches it to
starvation mode, in which it goes to the longest waiting and to nobody who has
just come. (That there is not at every single Unlock another caller, spinning
since microseconds before, which keeps the sleeping ones from being woken, is
part of the assumption.) That no fetch succeeds is possible. `MachinesSpec` assumes the
same.

`CachedLists` and `Startup` state no liveness. Every step of a request on the
lists is taken once, so that with `NoDeadlock` only finitely many are left; the
loops of a start end because `StartupIsInTime` bounds their time.

## What is proved

`ConditionalWrite_proofs` proves, for every set of requests, keys, fields and
values, any number of attempts, any edits and outside content, and all
combinations of `ContentHash`, `Spurious` and `Resending`:

| Theorem | States |
| --- | --- |
| `Invariance` | `Inv` is an inductive invariant |
| `TypeCorrect` | `[]TypeOK` |
| `NothingLost` | `[]CommitsAreEdits` |
| `NothingRejected` | `[]OnlyAcceptedFiles` |
| `NothingUnseenOverwritten` | `[]NoUnseenOverwrite` |
| `OnlyOnce` | `[]CommittedOnce` |
| `AnswersTrue` | `[]AnswersAreTrue`, in all four parts |
| `Refinement` | `WriteSpec => ImplementsAtomicEdits` |

They rest on `DataAssumption`, `BackendAssumption` and `CallAssumption` only:
the special values are distinct from the data, the flags are Booleans, at
least one attempt is allowed.

The argument. `CommitsAreEdits` says something of every committed version,
but a commit happens in a step that no longer looks at the edit, only at the
version. So `Inv` adds what a request in its put phase knows (`BuiltOnSeen`):
`next` is its edit of the content of `seen`, GOFF accepts it, and `loaded` is
unchanged there. A put lands only if the storage cannot tell `seen` from the
current version, hence holds the same content (`SameVersionSameContent`), and
what was known of `seen` is true of the version before the new one
(`CommitsFit`). That `loaded` is unchanged in `seen` when the version has not
moved needs that the caller was truthful about it (`ShownTruly`), which
`editing_caches` checks of the service. `Called` and `Answered` tie `call` and
`outcome` to `pc`; the types need the first, since `next` is a file only once
there is a call. For the refinement the landing put is where a request takes
effect, and every other return is where it is turned down.

The answers need the history of a request: `Told` says what it may be told
from where it is. It has committed nothing before its answer, unless a library
repeated its put (`Landed`); a save that admits to no retry is still at its
first attempt (`Fresh`); what it was refused for was there when it looked
(`RealConflict`); and others wrote a version for each attempt it has used up
(`Crowded`), which counts the versions of the log and is where the theorems on
finite sets come in. Other requests only add to the log (`StudioGrows`,
`Bystander`).

`FlagEditing_proofs`, for any number of requests and replicas, with or without
restarts and forgetting:

| Theorem | States |
| --- | --- |
| `EditingInvariance` | `EditingInv` is an inductive invariant |
| `EditingTypes` | `[]EditingTypeOK` |
| `CallersAreTruthful` | `EditingSpec => ImplementsWriteSpec` |
| `EditsThroughReplicas` | so the theorems above hold behind the handlers: nothing lost, nothing overwritten unseen, true answers, `ImplementsAtomicEdits` |
| `StaleViewsTrue` | `[]StaleViewsAreStale` |
| `LastingFlagsConflict` | no save or delete with a fileSha commits over a compared change of a flag that every version so far has |
| `ChangesConflict` | `[]ComparedChangesConflict`, if flags neither come nor go |

`ImplementsWriteSpec` is about the moment a handler calls `Write`, and what it
passes was collected in the steps before. `EditingInv` follows it from the
arrival: a request names a version that some page has shown (`Formed`), which
could be parsed (`ShownReadable`, `GotReadable`); its snapshot is the flag of
that very version, or none (`SnapshotTrue`); and what `Write` runs with is what
the handler had (`Handed`). Restarts and forgetting only turn snapshots into
none, so they are in this invariant. A step of `Write`'s loop is one of
`ConditionalWrite` (`StepsOfWrite`), of which `Inv` is part of `EditingInv`.

The last three have hypotheses, and `editing_replicas` shows that they cannot
be dropped. `StaleViewsTrue` assumes that no history overflows: `~MayForget`,
and `[](Current <= HistoryLimit)` for the versions of this file. Then a replica
knows the version it read in `Get` up to `Check` (`KnownInv`); restarts and
several replicas are allowed. The two on conflicts also assume one replica that
stays up (`OneReplica`). A flag then goes without its snapshot only if
`CachedFilesFor` went by a version without the flag, hence only if its history
has a gap (`GuardedInv`). `LastingFlagsConflict` excludes the gap for the flag
in question, `ChangesConflict` for all of them (`FlagsStay`), as the run
`editing_guarded` does with the contents written outside.

`FlagCreation_proofs` proves, for every set of files, keys and requests and
both layouts, from `CreationAssumption` only:

| Theorem | States |
| --- | --- |
| `CreationInvariance` | `Inv` is an inductive invariant |
| `CreationTypes` | `[]CreationTypeOK` |
| `CreatesAnswerTruly` | `[]HonestAnswers` |
| `KnownKeysStayUnique` | `[]KnownKeysAreRefused` |
| `CreatesOnlyAddFlags` | `CreatesOnlyAdd` |
| `OneCreates` | `[]OneWinner` |

`Inv` says of each request what it knows before its next call (`Knows`): that
during the search the files which may hold the key are among those still to be
read (`Searching`), and after it there are none; that it has put nothing yet,
unless the answer to its `CreateFile` was lost (`Unput`); that what it is about
to put had no such flag (`SeenFree`). A request is disturbed by others in one
way only, through what the storage holds, and there `blockers` can only shrink
(`Stored`, `Bystander`); so the lemmas treat the step's own request and the
bystanders apart. That a create only adds then follows from the condition of
the put: what it replaces is what it has read. So what a request has put stays
(`Stays`), and nobody else finds the key free.

`CachedLists_proofs`, for any finite set of requests, any environments and any
number of expiries and changes made elsewhere:

| Theorem | States |
| --- | --- |
| `ListsInvariance` | `ListsInv` is an inductive invariant |
| `ListsTypes` | `[]ListsTypeOK` |
| `OwnChangesAlwaysShow` | `[]OwnChangesShow` |
| `SomebodyGoesOn` | `[]NotAllWait`: of the unanswered requests one always can go on |

`Orderly` ties the mutexes to the critical sections. `StorageInv` says what the
storage owes to those who were answered: the environments they made are there,
and no fewer flags than they put (`Stored`, `Owed`). A list that is being
filled, or has been, may be older than the storage; `NamesFresh` and
`CountsFresh` say by how much: what it misses belongs to a request which has
yet to drop it, and can do so only when the mutex is free. What a request was
answered with is therefore no older than its arrival (`Served`). The counts of
flags are cardinalities, hence the finite set. `SomebodyGoesOn` is
`NoDeadlock` in terms of who waits for which mutex: the holder of `envMu` waits
for nobody, the holder of `teamMu` at most for `envMu`.

`Files_proofs` on `FileBackend`, for any number of calls and flags:

| Theorem | States |
| --- | --- |
| `FileTypes` | `[]FileTypeOK` |
| `SafeAlone` | `[]SafeWhenAlone`: as long as calls come one at a time, the file in place is whole and no save is lost, wherever a process is killed |

What is put in place by `Rename` was written two steps before, so `OneAtATime`
says what the call under way knows: there is one, what `<path>.tmp` holds at
each of its steps, that this is not the inode in place, and that its content
is one edit away from that. It holds as long as no two calls overlapped, which
is the hypothesis of the property (`AloneInv`).

`Files_proofs` on `YamlSplice`, for files of any length with any flags, values,
anchors and aliases, and any number of edits:

| Theorem | States |
| --- | --- |
| `TextInvariance`, `TextTypes` | a file stays a valid text of the modelled kind; `[]TextTypeOK` |
| `OthersAlwaysKeepTheirText` | `OthersKeepTheirText` |
| `OthersAlwaysKeepTheirMeaning` | `OthersKeepTheirMeaning`, for a file without merge keys in which no anchor is named twice |

Every edit puts lines that are one flag's in the place of lines that were
(`Edits`), or none in place of them, or some at the end; `TextSteps` shows it
action by action. For the text, `Without` is a selection of the lines, and two
selections are equal when an order-preserving matching takes one to the other
(`KeptSame`): the lines before an edit match themselves, those after it are
moved by as much as the edit made the file longer. For this the lines of a
flag must be the same whether one looks for where they end or at what follows
the key (`BlockIs`, `TheirsAre`), which is why a text is an `IsFlagFile`, and
each flag has its key once. For the meaning, what an alias stands for must be
found where it was, among other lines (`ValueStays`): an edit makes no anchor
(`AnchorsStay`), and a text that lost an anchor in use is not valid. With
unique anchors that is enough. Without either of the two hypotheses the
property fails, as TLC shows with the two texts of `MCSplice`; files with an
anchor named twice, or with `<<`, that no edit harms are left to TLC. The
hypotheses are about the first text only; that edits keep them is part of the
proof.

`Timeouts_proofs` on `TokenSource`, for any number of callers and any times with
`Timeout < Margin` and `Margin + Timeout < Lifetime`:

| Theorem | States |
| --- | --- |
| `TokenTypes` | `[]TokenTypeOK`, with mutual exclusion of the fetches |
| `TokensOutliveTheirUse` | `[]NoExpiredTokenUsed` |
| `TokensShared` | `TokensAreShared` |
| `WaitsProlongedByFailuresOnly` | `[]OnlyFailuresProlongWaits` |

`InTime` carries the margin from the step that looks at the cache to the one
that uses the token: a use ends within the timeout and before the token does,
and a caller that fetches has found the cached token near its end, which it
still is since only the holder of the mutex replaces it. For the wait,
`WaitsForOneFetch` relates every call to the fetch under way, which began no
later than the call or right after the last failure: a fetch that succeeds
leaves a usable token behind, so that whoever gets the mutex next, and nobody
knows who, fetches only if it has just come or the last fetch has just failed.

`Timeouts_proofs` on `Startup`, for every budget, timeout, back-off and probe: `StartupTypes`
(`[]StartupTypeOK`: no sleep is longer than twice the cap) and `StartupInTime`
(`[]StartupIsInTime`). `DeadlinesKept` adds that an attempt begins, and a sleep
ends, before the deadline; the look at the deadline is one step before either.

`Access_proofs` on `SignIn`, for any number of tabs and any ages and lifetimes:

| Theorem | States |
| --- | --- |
| `SignInTypes` | `[]SignInTypeOK`, with state and verifier always those of one sign-in |
| `SessionsAlwaysEnd` | `[]SessionsEnd`: what is said of the session in the jar must also be said of those on their way to it |
| `ReplaysHarmless` | `[]ReplaysAreHarmless`, by `Closed`: the cookies of a sign-in that got its session are gone and never set again |
| `NewestAlwaysGetsIn` | `[]NewestGetsIn` |

The last needs `NewestHolds`: without a fault only an answer with a session
clears the cookies of a sign-in, so the jar holds those of the newest one, or
a session, or they are too old.

`Access_proofs` on `TeamAccess`, for every configuration that Studio starts with:

| Theorem | States |
| --- | --- |
| `AccessTypes` | `[]AccessTypeOK`, with viewers only being shown the flag |
| `PagesAlwaysMatchRules` | `[]PagesMatchRules`, by cases over the rules of the configuration and of the editors |
| `OfferedAlwaysAllowed` | `[]OfferedIsAllowed`, by `PagesAreTrue`: a page stays true until the flag's team changes |

`FlagRules_proofs` on `RuleEdits`, for any names, any number of editors and
lists of any length:

| Theorem | States |
| --- | --- |
| `RulesInvariance` | `RulesInv` is an inductive invariant |
| `RulesTypes` | `[]RulesTypeOK`: no name twice in the list |
| `SavedEditsAlwaysThere` | `[]SavedEditsAreThere` |
| `OneRuleTouched` | `EditsTouchOneRule` |
| `RulesKeptByReorders` | `ReordersKeepRules` |

They assume of the lists to begin with what GO Feature Flag's validation asks
of every list, that no name is in it twice; rules without a name are allowed
wherever the properties allow them. `Asked` keeps what a request was asked for
on its page, `Written` that the edit saved last was one. The edits come down to
one loop, `Picked`, which copies some places of a list to another in their
order; that the lists without the edited rule agree before and after
(`Without`) is a fact about two such loops that pick the same elements, or the
same ones and one more (`PickedSame`, `PickedInserted`). The loop is a
recursive function on numbers. No theorem on induction can be cited, since each
takes an operator, so `Induction` argues by the least number at which a set
fails, from the fact that the order of numbers is well-founded.

`FlagRules_proofs` on `Promotion`, for any flags, any promoters and any
interleaving:

| Theorem | States |
| --- | --- |
| `PromotionTypes` | `[]PromotionTypeOK`: the target stays a flag GO Feature Flag takes |
| `NothingTurnedOn`, `PickedSettingsCopied`, `PromotedAsAsked` | `PromotionIsAsAsked`, and its two parts |
| `ChecksSuffice` | `[]CheckIsEnough` |
| `RampsFrozenBetween` | `RampsAreNotFastForwarded` |

For `ChecksSuffice`, `Checked` keeps what the plan was checked for until it is
written, and a frozen ramp serves the variations the ramp did and never all
zero (`FrozenServesTheSame`, `FrozenIsNotAllZero`), though the date has moved
on; that needs ramps as `validateProgressive` lets them pass (`IsRamp`), and
two different ends. For `RampsFrozenBetween` the share a ramp has reached is
monotone in the date, in whichever direction the ramp goes (`DueIsMonotone`):
a quotient is determined by its two bounds (`QuotientIs`), monotone in what is
divided (`QuotientMonotone`), and the date only moves forward (`Dated`).

The theorems rest on the named assumptions of their modules, and on the
hypotheses named here, only.

### What is only model-checked

- Liveness, and `NoDeadlock` as it is stated: the proof system does not reason
  about ENABLED. `SomebodyGoesOn` proves the part of `NoDeadlock` that is about
  the mutexes.
- `Condition` is recursive over the shape of a condition, and
  `QueriesKeepTheirMeaning` an induction over it, out of the provers' reach.
- `PagesTypeOK` and `MachinesTypeOK` join the type invariants of modules that
  share no state. Those of their parts are theorems.
- The five violations are behaviours, which only a run can show.

A put that is repeated (`Resending`) is covered by the theorems for any set of
requests, by `write_races` for one of two, and by `editing_views` for both,
with liveness.

## What is left

- A module for the browser's query cache (`web/src/hooks/useFlags.ts`):
  optimistic toggles that are rolled back to a snapshot.
- `UnifiedDiff` (`diff.go`) against a reference definition over short texts.

## Not modelled, and why

Wording, logging, commit messages and attribution do not influence a decision.
Query evaluation and validation are GO Feature Flag's own code: `Valid` takes
an arbitrary set of rejected values instead. Rendering inside a flag is
yaml.v3's, and so are the comments there and the quoting of values; what
`Condition` takes for one token, a comparison, the code scans with care for
quotes. Loading and checking the configuration happens once, at start, and
what it refuses is an assumption of `TeamAccess`. The history page and the
diffs, the character checks of `validate.go` and the summaries are functions
from one text to another whose results decide nothing. The web interface and
the Helm chart are only there as what they send and how many replicas they
start.
A read that returns an old version although a newer one is stored
(an eventually consistent storage) is not modelled: the condition on the put
makes it one more refused attempt. 
