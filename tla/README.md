# A verification project for RepoDNA

RepoDNA analyses a Git repository and keeps what it learns as an *artifact*: a JSON
file that the command line, a local server, a desktop application and a web
application read, compare and render. Two kinds of it are hard to get right. Around
the analysis, several actors meet: jobs that are started, cancelled and trimmed by
several threads, a store of files and an index that several processes write without a
common transaction, child processes with limits of time and output, caches that are
evicted while others fill them, a browser's worker, tabs and timers. Within it,
algorithms with many cases decide what an artifact says: graphs, histories, imports,
dependencies, duplicates, comparisons, settings, evidence for a language model. They
have no state, but inputs nobody wrote a test for.

This directory holds TLA+ modules of that part, the configurations that model-check
them with TLC, and proofs checked by TLAPS. Everything is translated from the source;
`PROJECT.json` maps every definition to the lines it stands for.

* [Parts of the system](#parts-of-the-system)
* [Modules](#modules)
* [Runs](#runs)
* [Bounds](#bounds)
* [Fairness](#fairness)
* [Proofs](#proofs)
* [Where the code and its documentation part](#where-the-code-and-its-documentation-part)
* [What is not modelled](#what-is-not-modelled)
* [Plan](#plan)

## Parts of the system

All paths are below `src/`; `crates/repodna-x` is abbreviated to `x`.

| part | state it keeps | operations | what is hard | what makes it correct |
|---|---|---|---|---|
| Job table, `server/src/jobs.rs` | a deque of jobs under a mutex, a status per job under its own mutex, a token per job | `start`, `cancel`, `cancel_all`, `get`, `list`; one thread per job | statuses change while `start` counts and trims; a cancellation races with the end of a job and with trimming | at most `MAX_RUNNING` run; a running job stays listed; the table stays bounded; a cancelled job ends |
| Server, `server/src/lib.rs`, `api.rs`, `library.rs` | worker threads, the server's token | serve requests, stop on Ctrl+C | requests taken before Ctrl+C are still served after it | nothing escapes `cancel_all`; shutdown comes to rest |
| Store, `store/src/store.rs`, `maintenance.rs` | artifacts and descriptors on disk, an SQLite index | `record`, `delete_scan`, `delete_repository`, `repair`, `rebuild_index`, `check`, `reset` | files and index are written one after the other by several processes, each of which can die in between | the index describes the scans it lists; what was stored stays recoverable; what was deleted stays deleted |
| File cache, `store/src/cache.rs` | a table of results by content hash, a set of touched keys per connection | `get`, `put`, `finish`, eviction, `clear` | size is read outside the transaction that evicts; that transaction reads before it writes; uses are stamped only at the end | what is evicted is what was least recently used, enough of it and no more; an excess is always somebody's to remove |
| Pipeline, `engine/src/pipeline.rs` | the artifact under construction, progress, failures per analyzer | a fixed sequence of stages with cancellation checkpoints | profiles, switches, missing Git or commits, failures and a token that is set anywhere | every stage is told of once; nothing cut short looks whole |
| File pass, `engine/src/scan.rs` | the results of a chunk, the tokens kept so far | read, look up, analyze, collect, put | results of threads and of earlier passes; a budget by order of paths | the same result whatever the cache has |
| Application services, `app/src/*.rs` | settings, cached explanations | `run_analysis`, `import_artifact`, `load_config`, `explain`, export | looks before it writes; files that are not trusted | the outcome shown is what is stored; a repository cannot set what is not its own |
| Git runner, `git/src/runner.rs` | a child, a writer, a reader and a watchdog thread | run a command with limits of time and output | kill against exit; pipes held open by descendants | returns in bounded time with the true reason |
| Git history, `git/src/log.rs`, `history.rs` | the commit being read, a record per path | read a log, follow renames, summarise | names with any bytes, timestamps in any order, names used again | the history read is the one written; each file has its lineage |
| Plugins, commands, AI commands: `plugin/src/process.rs`, `project/src/execute.rs`, `ai/src/provider/command.rs` | a child and its reader threads | exchange with a deadline, output limits | as the Git runner, each supervised differently | as above |
| AI, `ai/src` | none | choose evidence, build a provider, `post` with retries, check an answer, train and measure rankings | rate limits, pauses that can be cancelled, answers that claim too much, labels that leak | nothing leaves unasked; what is believed was cited; splits are apart |
| Discovery, `discovery/src/walk.rs`, `archive.rs` | counters shared by the threads of a walk; limits while extracting | walk a tree, extract an archive | threads stop each other; limits applied while bytes arrive | a whole walk saw everything; never more bytes or entries than allowed |
| Architecture, `architecture/src` | none | modules, import resolution, file and module graphs, cycles, layers | recursion turned into loops; a dozen languages with their own ways of naming a file | the results are those of the definitions |
| Dependencies, `dependencies/src/aggregate.rs` | none | merge manifests and lockfiles | one name in many files, inherited versions | one record says all that is declared |
| Quality, evolution, fingerprint | none | duplicates, candidates, rankings, events, epochs, snapshots, dimensions | hashes, limits, files that move, timestamps in any order | what is found is there and what is there is found |
| Findings, `core/src/finding.rs` and the analyzers' `findings.rs` | none | derive, identify, suppress, sort, limit | one identity found twice, limits per rule, rules that exclude each other | one of each identity; the worst are shown; hidden is what was named |
| Reports, `report/src/ci.rs`, `compare.rs` | none | gate, changes, comparison | artifacts from outside with repeated or contradicting records | the order of records decides nothing |
| Reports, `sections.rs`, `content/*.rs`, `charts.rs`, `sarif.rs`, `privacy.rs`... | none | sections, page, figures, exports, presets | areas that were not analyzed, lists that are cut, charts that cannot be drawn | nothing is told that was not found, what is left out is counted, what is private does not leave |
| Core, `core/src/time.rs`, `glob.rs`, `config/` | none | dates, patterns, layers of settings | boundaries | the calendar, the documentation of globs, the last layer that may |
| Web application, `apps/web/src` | pending requests of a worker, IndexedDB, polling timers, lists | request, cancel, stop; add, remove, clear; poll a job; list, open, delete | replies of a stopped worker, transactions split by `await`, answers after unmounting | a request is answered once; what is shown is what was asked for last |
| Desktop application, `apps/desktop/src-tauri` | the job table and the store again | Tauri commands | exits without joining its jobs | as the server |
| Parsers, security patterns, markup, command line, tools | none | text to facts, facts to text | formats | tests suit them better |

**How they interact.** A request to the server reaches one of a few worker threads,
which starts a *job*: a thread that runs `run_analysis` (app), which runs the pipeline
(engine) with a `CancellationToken` it tests at checkpoints, and finally calls
`Store::record`. The pipeline starts Git, plugins and project commands as child
processes and asks the cache for each file it has seen before. Command line, desktop
application and server share one data directory, hence one store: they are different
processes with a connection each, and SQLite's write lock is all that orders them.
The web application runs the same engine in a browser worker and keeps its own list of
recent analyses.

## Modules

Modules with a state machine:

| module | what it models |
|---|---|
| `Jobs` | the job table, the HTTP workers, the job threads, the shutdown of the server |
| `JobsProof` | its inductive invariant and the theorems about it |
| `Catalogue` | abstract specification: a set of listed scans and a description of each repository, changed in single steps |
| `Store` | artifacts, descriptors and index, and the operations on them by several processes, each stopped anywhere |
| `StoreProof` | its invariants, that the index implements `Catalogue`, and what holds when deletions run alone |
| `Cache` | the per-file cache and the analyses that read, fill, stamp and evict it |
| `CacheProof` | its inductive invariant and the theorems about it |
| `Children` | Git, plugins, project commands and local AI programs as child processes, with the threads that serve, watch and stop them |
| `ChildrenProof` | its inductive invariant and the theorems about it |
| `Pipeline` | one analysis from stage to stage, with every way it can be configured, fail and be cancelled |
| `PipelineProof` | the inductive invariants of `Pipeline` and `Walk`, and the theorems about them |
| `Walk` | the walk of a repository by several threads |
| `BrowserSession` | the analysis in a browser: session, client, worker and the effect that opens its result |
| `BrowserProof` | its inductive invariant and the theorems about it |
| `Recent` | the files a browser keeps to be opened again, in several tabs |
| `ScanForm` | the form that starts jobs of the server and polls them |
| `StoredList` | the list of stored analyses, with calls that are answered out of order |
| `Pages` | these three side by side |
| `PagesProof` | the inductive invariants of `ScanForm`, `Recent` and `StoredList`, and the theorems about them |

Modules of operators, each with the algorithm and what its result is by definition:

| module | what it models |
|---|---|
| `FilePass`, `Fingerprint` | of the engine |
| `DependencyGraph`, `ModuleMap`, `ImportGraph`, `RustImports`, `Resolve` | of the architecture |
| `Dependencies` | the merge of manifests and lockfiles |
| `Quality` | of the quality analyzers: duplicates, dead code, hotspots, similarity, complexity |
| `Findings` | what each analyzer and a plugin finds, and what becomes of it |
| `GitLog`, `History`, `Evolution` | from the output of `git log` to what is told of a history, and the sampling of the time machine |
| `Comparison`, `Reports`, `Figures` | of the reports: the CI gate and comparisons, sections and exports, the numbers behind the figures |
| `Archive` | the extraction of an archive |
| `Ranking`, `Explain` | of the AI: rankings, evidence, retries of requests, answers |
| `Core` | of the core: dates, globs, settings |
| `PartsProof` | that what `Core`, `FilePass`, `Archive` and the CI gate of `Comparison` say of their results holds for every input |

For TLC: `MCJobs`, `MCStore` and `MCCache` give the machines their small sets (those of
`Children` are in its configurations); `MCPipeline` runs `Pipeline` and, beside it, `Walk`
and `Pages`; `MCParts` runs `BrowserSession` and gives every module of operators all inputs of
a small set; `MCImports` composes `RustImports` with `ImportGraph`.

### Jobs

Jobs are named by their number. The number is taken under the table's lock
(`next.fetch_add` inside `start`), so the order of the `VecDeque` is that of the
numbers, `push_back` adds the greatest, and the deque can be the *set* `queue`.

* `worker`, `target`: where each HTTP worker is and the job its request is about.
  `Poll` and `NoRequest` are the loop of `Server::run`; `Refuse`, `Admit` and
  `FindToCancel` are what a received request does first.
* `holder`: the lock of the table. `Admit` counts, numbers and appends;
  `PassOver` and `Evict` are the search for a finished job, *one look at a status per
  step*, since jobs change their status without the table's lock; `Unlock` ends it, and
  `Spawn` starts the thread after the lock is released. The count is one step: it reads
  the statuses one after the other, but nothing is added while the lock is held and a
  running job never starts again, so the number it finds was the number running at
  some moment of the count, and nobody else sees the table between that moment and the
  append.
* `thread`, `status`, `stored`: a job's thread and what the client sees. The token is
  tested at checkpoints (`StopAtCheckpoint`); after the last one (`PassLastCheckpoint`)
  the analysis is recorded whatever the token says. `Record` may fail to store, which
  `run_analysis` turns into a warning. `Panic` unwinds the thread: nothing catches it,
  and the status stays `running`.
* `main`: `Server::run` after Ctrl+C, which joins the workers and then cancels all jobs.

Not in the model: `get` and `list`, which only read; the progress fields; HTTP itself.

### Store

Repositories and scans are numbers in the order of their identifiers, which is the order
in which a rebuild meets their paths. `files` and `descriptors` are the disk; `rows`,
`repositories`, `first` and `last` are the index, one SQLite database. A
transaction of SQLite is one step; so is one write of a file, because `write_atomic`
writes a temporary file and renames it. Everything else is a step boundary where the
process may stop (`Stop`: it dies, or the operation returns an error) and where others
act.

* `Start`, `WriteArtifact`, `WriteDescriptor`, `Stat`, `Commit`: `Store::record` and,
  for the pairs in `Imports`, `import_artifact`, which first looks whether the scan is
  listed. `Commit` is the transaction of `Store::index`: upsert of the repository, with
  `MIN` and `MAX` of the dates, and replacement of the scan's row. The key of a scan is
  its id alone, so `Others` removes the row of any repository, and the repository it is
  taken from keeps its entry and its dates. So does one whose row is deleted by a record
  that was read before the row moved to it (`Strangers`).
* `FindScan`, `Drop`, then `Unlink` or `Sweep`... `RemoveDirectory`: `delete_scan`. Its
  transaction counts what is left of the repository, then either computes the dates
  anew or removes the repository; only then are files removed. `DropRepository` is
  `delete_repository`, with the same end. The directory goes entry by entry, in any
  order, and entries that others add meanwhile may be swept or make the last step fail.
* `Repair`, `Examine`, `Stat`, `Reindex`, `Repaired`: `repair` and `rebuild_index`. The
  list of files is taken once, at the beginning; a file without descriptor, or gone by
  then, is skipped. If the database is damaged it is moved aside first.
* `Reset`: the database is removed and the artifacts stay.

`kept` and `gone` are history variables: what was stored with `Ok` and not deleted since,
and what was deleted with `Ok` and not stored since. They follow the analyses in
`Followed` only, since each property speaks of one analysis at a time and their product with
everything else would be most of the states: a run that checks neither follows none. `robbed`
is history too: the repositories that lost a row to an operation on another one since their
dates were last computed anew. No action reads any of the three.

Two constants say under which circumstances a run looks at the store. `DeletesAlone`
makes deletions wait until nobody else is active, and `MayReset` allows the index to be
lost. They separate what the store guarantees always from what it guarantees to a user
who does not delete while analysing, or who never resets.

`Catalogue` is what a reader of the index is promised. Its variables are the columns a user
sees and `outdated`, the repositories that lost a scan to an operation on another one. Its
only description of `from` and `until` is declarative (the earliest and the latest of the
listed scans, or for an outdated repository, bounds of them), whereas `Store` keeps them up
incrementally.

### Cache

Each analysis opens the store for itself, so what it has read (`touched`) is its own and
starts empty. Keys are numbered in the order of their text, the last criterion of the
eviction; `created` and `used` are the two columns of times, in seconds.

* `Open`, `Get`, `ReadClock`, `Put`: the file pass looks up a chunk of files and stores
  its misses. `put` and `touch_used` read the clock *before* they wait for the database,
  so `ReadClock` is a step of its own and a stamp may be older than others that were
  written before it.
* `Touch`, `Measure`, `Select`, `Delete`: `finish`. `touch_used` is one transaction. The
  size is measured outside any transaction; the eviction's transaction selects its
  victims first and deletes them later. If another process commits in between, SQLite
  refuses the deletion (`SQLITE_BUSY_SNAPSHOT`; no waiting helps), `finish` drops the
  error, and that is `Conflict`. `fresh` holds the analyses whose selection is still of
  the current database.
* `PutFails`, `TouchFails`, `Stop`: the errors that callers ignore, a cancellation between
  chunks, the death of the process. `Clear`: `repodna cache clear`, at any time.

`measured`, `began`, `mine` and `unpaid` are history variables. `mine` holds what an
analysis was the last to use, `unpaid` says that an eviction that should have counted the
last entries did not happen; `measured` holds the analyses with nothing written since
they measured.

### Children

Four functions run another program, each in its own way; `style` says which. Git's
`stream_with_input` consumes the output in the calling thread (`Consume`) while a watchdog
waits for the deadline or the token (`Fire`, `WatchdogKills`, `EndWatching`); the other
three serve the pipes from threads and look every few milliseconds (`Poll`, `Check`,
`Kill`). `Finish` is what they all do at the end: join, and tell why it ended. `NextStep`
is the next step of a project command `a && b`. Git and each step
of a command test the token before they start the child (`StartCancelled`, `Proceed`). Who is waited for is in `Waits`,
`WaitsForWriter`, `GivesUp` and `ReturnsAtOnce`.

`child`, `helper`, `in`, `pipe` are the environment: a program that reads its input before,
after or while it prints, or not at all (`habit`), that may print less or more than is kept
and more than a pipe holds, exit with any status at any time it has printed, and leave a
descendant with its pipes. Data is counted, in units, never looked at.

The error reader of Git closes its pipe after `MAX_STDERR`, which ends a child that prints
more (`LetsGo`, `Emit`); the others read on. The local AI provider waits two seconds for
output after the exit; the model lets it give up at any moment then. An error of
`try_wait` is left out: it needs a child that somebody else has waited for.

### Pipeline

`analyze` is one sequence with a checkpoint before most of its steps. `stages`,
`request`, `git` and `root` are what it is given and never change; `at` is the step;
`busy`, `ended` and the like are the progress and the records it leaves. An action is
the code between two checkpoints. The token may be set between any two actions;
children (Git, plugins, project commands) are killed by it and so notice at once, which
is why their results need the checkpoint that follows. What the stages compute is left
out; whether a section is available, partial, skipped or failed is not. The pass over the
files, with its own checkpoints per chunk, is one action with three outcomes.

### Walk, Recent, ScanForm, StoredList, BrowserSession

*Walk* has one step for the look at the token and the counter (`fetch_add`), and one
for the entry that is appended under a lock: threads meet entries in any order and notice
`WalkState::Quit` at any later time.

In *Recent* every transaction of IndexedDB is a step; `add` puts, lists, lists again and
removes what is too much, in separate transactions, while other tabs do the same or clear,
and a tab may be closed in between (`CutOff`).

*ScanForm* and *StoredList* have a step for the click, one for the moment the server
answers and one for the moment the answer arrives. React lets what is under way go on
after the page was left. *ScanForm* keeps the visits of the page apart by their number
(`mount`), because its timer is that of one visit. *StoredList* drops what the page shows when
it is left (`Leave`, and `AnalysisArrives`, since an opening goes on to the overview) and
marks its calls as no longer the page's (`here`): their `setState` does nothing, but what they
do to the analysis that is open still happens, and the server still answers. `Return` starts
from nothing, with another call for the list and `deleting` false, so a second deletion,
opening or listing may begin while one of an earlier visit is under way. `OpenScan` is the
opening by a finished job of the form, `Close` the command that closes an analysis, and
`Elsewhere` another tab or the command line, which change the same store.

Four history variables keep of all this what the property needs: `gone`, what was deleted
under which name; `crossed`, that two histories were under way in this visit; `behind`, that
what is listed may be out of date, because the visit began during an earlier one's deletion,
the answers after a deletion were lost, or someone else changed the store; and `doubtful`,
that the analysis which is open overlapped a deletion when it was opened. These are the ways
in which the code really does go wrong, and `ListIsTrue` says that there are no others.

*BrowserSession* has one step for each handler with the reactions to the promises it
settles, as a browser runs them. Events of terminated workers may still be delivered.

### The modules of operators

Each loop of the code is a fold or a function from one record of its local variables to the
next, in the order of the code; sorting is by the code's criteria, in their order. Then the
module states, independently, what the result is: components as classes of mutual
reachability, betweenness as shares of shortest paths, lineages as what `git log --follow`
would visit, globs by cutting the path in all ways, dates by counting days. Names, paths
and texts are as coarse as the decisions on them: a path is a sequence of names, a text is
only blank or not. Where the code has floating-point numbers, the models have fractions or
scaled integers. `Resolve` has every language's way from an import to a file but Rust's,
which is in `RustImports`; what `Standard` and other tables of names contain is a
constant. `Ranking` leaves out what features and weights make of a text: a label has the
score the model gives it. `Explain` has the evidence an analysis offers as facts with
paths and a cost, and the reply of a provider as what its fields say. `Findings` keeps of a
finding its rule, what it is about, its severity and its paths. `Reports` keeps of an
analysis the status of each area and the length of each list, and makes of it the blocks
that Markdown and HTML share: each says which list it is of, how many of its items it shows
and how many it says are left out. `Figures` has shares, scales, labels, periods and
exports as whole numbers.

## Runs

| run | checks | what it shows |
|---|---|---|
| `jobs_safety` | `TypeOK`, `AtMostMaxRunning`, `RunningListed`, `TableBounded`, `PollableLongEnough`, `NoneEscapesShutdown` | two workers start and cancel while jobs end, panic and the server stops |
| `jobs_liveness` | `CancelEndsJob`, `ShutdownQuiesces` | an accepted cancellation ends its job; after Ctrl+C everything comes to rest |
| `store_any` | `TypeOK`, `DateRangeExact`, `NoEmptyRepository`, `ImplementsCatalogue` | two processes do everything in every order, with failures, resets, overlapping deletions and a scan that two repositories share: the index stays a catalogue of the scans it lists, out of date only for a repository of which the other took a scan |
| `store_alone` | `ListedIsRecoverable`, `DeletedStaysDeleted`, `RepairIndexes` | if deletions run alone, index and disk agree: listed scans can be opened, deleted ones do not come back, a repair indexes what it finds |
| `store_reset_loss` | `KeptIsRecoverable` | violated with one process and a reset |
| `store_delete_race` | `KeptIsRecoverable` | violated with two processes that overlap |
| `cache_any` | `TypeOK`, `OverLimitIsOwed`, `EvictsOldestFirst`, `KeepsWhatItUsed`, `EvictsJustEnough` | two analyses use the cache in every order, with failures, cancellations and clearing: evictions remove the right entries, and an excess is owed by somebody |
| `children_all` | `TypeOK`, `VerdictIsTrue`, `OkIsWhole`, `LimitEndsRun`, `WillingEnds` | each of the four, with any end, deadline and cancellation: the outcome is true, a success is whole, a limit ends the run but for a descendant with the pipes, and no child that gets on waits for RepoDNA for ever |
| `children_stall` | `LimitAlwaysEndsRun` | violated by a plugin that leaves a descendant |
| `pipeline_all` | `TypeOK`, `EveryStageOnce`, `NothingCutShort`, `CancelHonoured`, `SkipsAreTold`; `WalksAreWhole`; `RecentIsKept` (files kept, form and list of the web application) | every profile, with at most one switch off, with and without code, commits, commands and plugins, cancelled anywhere; and beside it the four small machines |
| `parts_all` | `NoRequestIsForgotten`, `ShownIsWanted` (the browser's session); `ArchitectureIsFound`, `RecordsAreMerged`, `DuplicatesAreFound`, `CoreIsExact`, `HistoryIsTold`, `LimitsAreKept` | each module of operators on every input of a small set agrees with its definitions |
| `imports_usage` | `UsageIsDescribed` | violated by a crate root that declares a module and uses it |

The six properties of `parts_all` about operators are conjunctions of those the modules
state, each with its own comment: `ArchitectureIsFound` has those of `DependencyGraph`,
`ModuleMap`, `ImportGraph`, `RustImports` and `Resolve`; `RecordsAreMerged` of
`Dependencies`, `Comparison`, `Fingerprint`, `Ranking`, `Reports` and `Figures`;
`DuplicatesAreFound` of `Quality` and `Findings`; `CoreIsExact` of `Core`; `HistoryIsTold` of
`GitLog`, `History` and `Evolution`; `LimitsAreKept` of `Archive`, `FilePass` and `Explain`.

Every property of a passing run has a mutant in `PROJECT.json`: a variant of a decision
of the code, defined beside it in the module (`AtCapacity_OffByOne`,
`FirstSeen_Overwritten`, ...), under which TLC finds the property violated.

## Bounds

`Jobs`: two workers are enough for two requests to overlap, which is all that the table
serialises. `MaxStarts` bounds the jobs ever started: 4 with `MaxRunning = 2` and
`KeepFinished = 3` lets the table overflow and a search pass over two running jobs. The
real constants are 2 running and 50 kept: both runs keep the inequality
`MAX_RUNNING <= KEEP_FINISHED` that the code relies on, and the theorems hold for all
values. The liveness run has `KeepFinished = 2` and 3 starts, so that a job is trimmed
while a cancellation of it is on its way.

`Store`: two processes, because each operation interferes with another through files
and rows and every finding needs at most two; two repositories of which one is shared by
analyses, and three scans, two of the same second and one earlier, so that a repository
has a scan to lose at either end of its range; `store_any`, where all operations overlap
freely, has two scans, one of them of both repositories, and follows no history of single
analyses.

`Cache`: two analyses, since an eviction is disturbed by one other; two keys, one of them
twice as large as the other, and a limit that holds the large one alone, so that evicting
one entry or the other makes a difference; the clock ticks once, so that entries are of
the same second as an analysis or older.

`Children`: two units each of input, output and errors through pipes that hold one, so
that every pipe fills; one unit is kept, so that what is printed is less, exactly as much
or more; commands of one or two steps.

`Pipeline`: nothing but `MaxExtensions = 2` is bounded; configurations have at most one
switch off, since each stage needs at most two and they are tested one by one. `Walk`: two
threads, four entries of any kind and a limit of two, so that the limit is met by both at
once, exactly, or not at all. `Recent`: two tabs of one call each, three files of which
one may be kept, three openings. `ScanForm`: two jobs and two visits of the page, for a
poll of one visit that arrives in the next. `StoredList`: two repositories with two and
one scans, two calls at a time and four calls and changes by others in all, which is enough
for a deletion, a new visit's list during it, and what comes after. `BrowserSession`: two analyses or
listings, three requests, one error of a worker.

The operators are given all graphs of three nodes and the sparse ones of four; all trees of
files in two levels and some deeper ones; all sets of up to three of a handful of files of
each language, for all imports of a small set; histories of four commits with up to three
changes; logs of up to three commits; findings of each analyzer at, below and above each
limit; every section with lists that are empty, cut or whole, under every status; and so on,
in `MCParts`. Constants such as limits
are set so low that inputs of two or three elements reach and exceed them. The sets were enlarged
until they noticed every change that was tried on the decisions of the code: a dropped
condition, a limit off by one, another order, a case left out.

## Fairness

`jobs_liveness`, `children_all` and `children_stall` assume some; the other runs check
invariants and steps only. In `Jobs`, worker threads, the main thread and the tail of a job's
thread (`StopAtCheckpoint`, `Record`, `Finish`) are weakly fair: they are threads of the
operating system that wait for nothing but the table's lock, whose holder is itself a fair
worker. There is *no* fairness on `PassLastCheckpoint` and `AnalysisFails`, so an analysis
nobody cancels may run for ever; a cancelled one is assumed to reach its next checkpoint.
There is none on `Receive` or `RequestStop`, which are the user's. Panics are left out of
this run: after one the job really does stay `running` for ever (see the hazards).

In `Children` the threads of RepoDNA are weakly fair: the thread that runs the child
(without `EndConsuming("failed")`, which is a choice of the data), the watchdog, the
writer and each reader. They block only on pipes, on the child or on a timer, and their
guards say so. The child is not fair: it may hang at any point, and `LimitEndsRun` must
hold then too. `WillingEnds` has the fairness of the child as its premise. No signal has
to arrive and no descendant has to end.

## Proofs

`tlapm` on each of `JobsProof`, `StoreProof`, `CacheProof`, `PipelineProof`,
`ChildrenProof`, `BrowserProof`, `PagesProof` and `PartsProof` checks everything; no step is
left out. With them every invariant and every action property that a passing run checks of a
machine is proved for all values of its constants; what each proof assumes of them is named
below. Each but `PartsProof`, which is about algorithms, follows one pattern: an invariant
`IInv`, a conjunction of named parts, that holds initially, is kept by every action, and has
the property as a consequence.

**Jobs** (any number of workers, any `MaxRunning <= KeepFinished`, any bound on starts;
these are `JobsAssumption`). `TypeCorrect`, `RunningBounded`, `RunningStaysListed`,
`TableStaysBounded`, `FinishedStaysPollable` and `ShutdownReachesAll` all follow from one
inductive invariant `IInv` of `JobsProof`. It is needed because none of the properties is
inductive alone. That the table stays bounded is an argument about the search: when it
comes back empty-handed, every entry it has passed was running *when it was looked at*,
and may have finished since; so the invariant says that the entries passed number at
most `MaxRunning`, because they were all running at the moment the holder appended,
and at most `MaxRunning` were. As `MaxRunning <= KeepFinished`, a table that is too long
has an entry that was not running then, and the search finds it. That nobody escapes
the shutdown needs that past `joining` every worker has exited, hence none holds the
lock or is about to spawn.

**Store** (any number of processes, repositories, scans and times: `StoreAssumption`).
`Soundness` and `TypeCorrect` give the typing and what each program counter implies of
`entry`. `DatesAreExact` and `RepositoriesHaveScans` are proved by induction with
`Exact`, and `IndexImplementsCatalogue` concludes that every step of `Store` is a step of
`Catalogue` or leaves its variables alone. None of the three assumes how scans are shared:
when the row of a scan moves to another repository, or goes with a stale record of one, the
dates of the first stay as they were. They still cover its scans, since there are only fewer
of them, but may be those of a scan it lost, and it may have none left; `Exact` says that this
is so of the repositories in `robbed` at most, and that these are listed. Two other theorems
assume `OneHome`: no scan id is shared by two repositories. `ListedCanBeOpened` assumes `DeletesAlone`, and its
inductive strengthening `Covered` says that whoever is about to index a scan has the
artifact on disk. `DeletedIsNotListed` adds `Forgotten`, that what is gone is not on disk,
which every action keeps whoever overlaps; only with `Covered` does it follow that it is not
listed. `RepairListsWhatItIndexed` needs `DeletesAlone` and `OneHome`, without which
another scan takes the row of one the repair has been through. `KeptCanBeIndexed` is the
other side of `store_reset_loss` and `store_delete_race`, which find what was stored with Ok
lost: with `DeletesAlone`, `OneHome` and no reset it is never lost. It rests on `KeptIsListed`: what
was kept has its row, so no deletion of another scan takes its directory, and what is
listed is on disk by `ListedCanBeOpened`.

**Cache** (any number of analyses, any finite set of keys of any sizes, any limit:
`CacheAssumption`). `ExcessIsOwed`, `EvictionTakesOldest`, `OwnEntriesAreKept` and
`EvictionIsJustEnough`. The size of a set of keys is the number of bytes of its entries, so the
lemmas about `Bytes` are about cardinalities of disjoint unions. `Planned` says of whoever is
in `fresh` that its victims are those of the current database, and of whoever is in `measured`
that what it holds for the excess is the excess. `Stamps` says that what an analysis was the
last to use carries a stamp of its own time, unless it has read it and not yet stamped it.
`Owed` is stronger than what the run checks: above the limit there is an analysis that has
still to measure, or one whose eviction *suffices for what is there now*, or an eviction that
did not happen. That the victims suffice, and are the first entries in the order of their
last use, rests on that order having a first entry among any: strict subsets of a finite set
are well-founded.

**Pipeline** (any set of configurations, any number of extensions: `PipelineAssumption`).
`EveryStageIsToldOnce` counts: `Recorded` says how many stages are recorded by the time
`analyze` gets to a place, and `Truthful` that they are the first of the order and each is
told as its section is, so that at the end all fourteen are there and `SkippedStagesAreTold`.
`CancellationIsHonoured` is `CancelHonoured` at every place behind a checkpoint (`Honoured`):
a token that is set, with the analysis still running, was set after the last checkpoint it
has passed. `NothingIsCutShort` says of work that was cut that a checkpoint is still ahead.

**Children** (all four styles, any amounts of data, any size of pipes, any number of steps:
`ChildrenAssumption`). `VerdictIsTold` and `SuccessIsWhole`. `Reasons` keeps the deadline and
the token apart from what the watchdog, the loop and the verdict say of them; `Drains` says
that whoever has read an output to its end has left nothing in it, since a pipe is at its
end only once nobody can write to it; `Settled` says what was waited for before a run
succeeded. That nobody is told a timeout without a deadline, and that a killed child is
never a success, need all of them.

**Walk** (any number of threads, any finite set of entries, any limit: `Walkable`).
`DiscoveriesAreWhole`: as long as the token is not set, the counters are the cardinalities of
the entries that have been met, and what is listed or in a thread's hands are as many files as
have been met, up to the limit (`Counted`); a thread ends only when nothing is waiting or
one has quit (`Ended`), and a walk is over when all have ended.

**BrowserSession** (any numbers of analyses, requests, workers and errors).
`NothingIsLeftRunning` says that each request that is pending will be answered or its worker
told of; it rests on numbers that are never used twice (`Numbered`). `OnlyTheLastIsShown`
needs `Exclusive`: unless an effect has failed an analysis that was not its own
(`overtaken`, see below), no other analysis than the session's is pending and only the listing
that is shown can go on.

**ScanForm, Recent, StoredList** (any jobs, visits, tabs, calls, files, repositories and
scans; `Limit` at least 1, and for `StoredList` only that the names for "none" and "all" are
not names of repositories or scans: `Listable`). `TheFormIsHonest`, `TheFilesAreKept`,
`TheListIsTrue`, and `ThePagesAreTrue` for the three together, which is what the run checks.
The form shows a running job only while its own chain of requests goes on or an error
says that it does not: `Tied` says of a chain whose page was left that it was one the page's
timer could not stop. For the files kept, `Trimmed` says that more than the limit are listed
only while a call is on its way that will look, or that has looked and will remove enough;
and `Newer` that the file opened last is not among those to be removed, since it is the newest
its call can find and the limit is not zero. For the list, `Alone` says that a
visit has one deletion under way at a time and that, unless it is `behind`, every deletion
under way is its own; `Certain` that the analysis that is open is stored or about to be closed
by the call that deletes it, unless it is doubtful; `Straight` whose scans are shown; and
`Fresh` and `Current` that what is listed, shown or on its way to be shown is stored or about
to be asked for again by the visit's own deletion. A step of an earlier visit's call does
nothing to the page (`StrayPage`), and an opening leaves it blank (`BlankPage`).

**Core** (`PartsProof`; any years, any symbols of patterns and letters of paths, any number of
tables, keys, patterns and rules). What TLC checks of a few inputs is proved of all:

* `DatesAreRight` and `MonthsAreInOrder`: the formulas of `time.rs` for days, dates and
  months agree with counting days in the calendar, for every year, before or after 1970. It is arithmetic with quotients: eras of 400 years, then years from March, then months by
  their offsets.
* `OnePassIsEnough` and `GlobIsAsDocumented`: `match_tokens` goes through the name once and
  goes back to the last star only, and finds a way to fit the pattern whenever there is one:
  when a block of symbols between two stars can be taken here, what fits after it from a later
  place fits from here, so no earlier star has to be tried again. From each state of the
  pass, then, the rest fits or what follows the star fits from a place further on. For whole patterns, `Glob::new` adds and drops `**`, and each change of the list of
  segments keeps what fits it.
* `LastLayerWins`: each setting is that of the last of the layers that may set it, whatever
  else they hold, and a value that `validate` refuses matters only when it is used (one of the
  wrong type makes its whole file invalid, in a table that is ignored too). What each layer adds
  is stated first (`AllUnder` of three layers), and the lists of suppressions and overrides as
  the concatenation of theirs. The proof corrected the definition it is about: of the warnings
  `SettingsAreLayered` said something false when the user and the repository set different
  keys of one table that a repository may not set; the inputs of `MCParts` now have that case.
* `CoreStaysExact`: the three together are `CoreIsExact`, the property of the run, as long as
  `input` is a call of one of the three with any arguments. `Core` declares `input`, and
  `MCParts`, which extends it, chooses its values.

**FilePass** (`PartsProof`; any files, stages, chunks of at least one file, any budget).
`PassesAreRepeatable`: compare with a pass without a cache, file by file (`Reference`). What
a file becomes does not depend on the cache but for whether it was hit (`ProcessIs`), as long
as the cache has under each key the analysis of that key; and a cache that is right stays
right when a chunk's misses are put into it (`PutIs`). Chunk by chunk, results and cache are
then those of the files up to the chunk's end (`ScanIs`), which is why the place of a
cancellation does not matter, and a repeated pass hits every key it asks for. The budget is
a sum along the files: what is kept is what was counted (`KeptIs`), so a file without its
tokens is one that did not fit.

**Archive** (`PartsProof`; any limits, entries and sizes of the reads). `ArchivesAreSafe`:
entry by entry (`EntryNext`), there is no error so far exactly when the entries so far are
acceptable (`FineTo`), and then all of them are accounted for (`WholeTo`); what is on disk is
within the limits with or without an error (`Limited`), as a read that is too much is not
written, and those before it were not too much (`BeforeIs`). The statement adds sizes up in the
order of a sequence; the proof counts units instead (`Total`, `SumIs`), for which the order
does not matter, so that a file which overwrites another takes at most its own size more
(`TotalOfPut`).

**The CI gate** (`PartsProof`; any two artifacts, with records in any order, repeated and
contradicting each other). `GateIsOfTheRecords`: after each record, what is kept of an id is one
of its records so far that none is preferred to (`KeptNext`), so that at the end there is one
finding of each id, and as severe as any (`UniqueIs`). Hence no duplicate hides a failure, and
what is introduced one way is what is resolved the other way: both are the same representatives
of the same set. `ChangesAreOfTheRecords`: a path keeps a hash exactly as long as all its records
so far agree on it, and never gets one back (`HashesNext`), so a known hash is the only one the
records have (`KnownHashIs`). `ImpactGoesBothWays` needs no more than that the changes of files
are swapped with their artifacts.

The provers have no induction over data: the library's theorems take an operator as a
parameter, which none of them instantiates. `PartsProof` does it with sets instead. That a
set of numbers has a least one follows from proper inclusion of finite sets being
well-founded (`Least`), and induction from that (`SetInduction`). A recursive function is
proved to be what it should be by giving it explicitly, showing that it satisfies the recursion,
and that no other does; a fold likewise, once there is any function of its recursion
(`FoldExists`).

**Only model-checked**: liveness (`CancelEndsJob`, `ShutdownQuiesces`, `LimitEndsRun`,
`WillingEnds`), which needs `ENABLED`; and five properties of `parts_all`:
`ArchitectureIsFound`, `DuplicatesAreFound` and `HistoryIsTold`, `RecordsAreMerged` but for its
parts about the CI gate, and `LimitsAreKept` but for its parts about `FilePass` and `Archive`.
`DependencyGraph`, `ModuleMap`, `GitLog` and `Explain` have `RECURSIVE` operators, with which
`tlapm` has no SMT solver. The others are long conjunctions over algorithms of many cases, each
of which would take a proof of the size of those above.

## Where the code and its documentation part

Each of the first four is a run that TLC finds violated.

1. **A deletion after a reset** (`store_reset_loss`). `reset` keeps the artifacts,
   "recoverable through repair" (`store/src/maintenance.rs:5-6`). Analyse the repository
   again and delete that scan: it is the only one the index knows of, so `delete_scan`
   removes the whole directory, with every artifact the reset had kept.
2. **A deletion and an analysis** (`store_delete_race`). The directory is removed after
   the transaction has ended (`store/src/store.rs:552`, `:574`). An analysis recorded in
   between is answered `Ok` and loses its artifact.
3. **A limit that does not end the run** (`children_stall`). Plugins run under "a time
   limit, output limits, and cancellation" (`plugin/src/process.rs:1-2`); once the plugin
   has exited, its pipes are joined without either (`:143-149`), and a process it left
   behind holds the analysis up for as long as it lives. The same holds for Git
   (`git/src/runner.rs:264`, `:274`) and project commands (`project/src/execute.rs:225`);
   only the AI provider bounds the wait (`ai/src/provider/command.rs:19-21`).
4. **Declared or used** (`imports_usage`). An edge between two files keeps the kind of the
   first import that makes it (`architecture/src/analysis.rs:195`), and both the number of
   importers and the mark of a declared module are taken from that kind.

Read in the code while modelling; the models do as the code does, and the properties state
what is true of it:

* *Jobs.* `JobStatus::Completed` is "Finished and stored." (`server/src/jobs.rs:23`); when
  recording fails `run_analysis` only adds a warning (`app/src/analysis.rs:162`) and the job
  ends completed without a scan. `ScanForm` has this as "unstored": nothing is opened and
  nothing says why.
* *Equal scan ids.* Scans are keyed by their id. With `SOURCE_DATE_EPOCH` set, two clones
  of the same files give the same id; indexing one removes the row of the other
  (`store/src/store.rs:373`), so no repair can index both, although `check` says it does
  (`store/src/maintenance.rs:172`). The repository that lost the row stays listed, with dates
  of a scan it no longer has, or without any scan to open. A deletion that had looked the scan
  up before it moved deletes the other repository's row (`:528`). `store_any` has both, and
  `robbed` their extent; `OneHome` excludes them for `RepairIndexes` and what was kept.
* *The name of a repository.* "Name from the latest scan." (`store/src/store.rs:47`); the
  upsert takes the name of the scan indexed last (`:359`). Names are not modelled.
* *The cache at rest.* When two analyses end together, the deletion of one can be refused
  because the other has committed since it selected, and the error is dropped
  (`store/src/cache.rs:193`): the cache stays above its limit until some later analysis
  finishes. `OverLimitIsOwed` says exactly this. Evictions that overlap may each free the
  whole excess, so `EvictsJustEnough` speaks of one that nothing was written around.
* *Cancelled analyses* "marked partial" (`core/src/cancel.rs:8-9`,
  `core/src/model/metadata.rs:262`): `analyze` returns an error and there is no artifact.
  `AnalyzerStatus::Skipped` says "Not enabled." also where Git is not installed; the failed
  arm of the evolution stage cannot be reached.
* *A truncated walk* depends on which thread meets which file first, although its result is
  said to be deterministic (`discovery/src/walk.rs:180-182`).
* *Configuration and attributes.* "Configuration comes last, so it wins"
  (`engine/src/scan.rs:166-167`) is not so for files that `.gitattributes` calls source.
  The ranges of settings are checked on merged layers only.
* *Imports.* In Rust `self::x` and the children of `src/bin/*` are lost, and modules named
  `lib`, `main` or `build`, or in directories such as `bin` and `tests`, are looked for in
  the wrong directory. In Python relative imports never find `.pyi` stubs, absolute ones
  do (`architecture/src/resolve.rs:1039-1052`, `:738-743`), and `from . import a, b` is
  linked to the first of the two. A module's display name is "unique"
  (`architecture/src/modules.rs`), but not for two packages of one name.
* *Dependencies.* Of two packages of one name the last is kept; the source of a dependency
  missing from a lockfile is its first manifest only.
* *Git.* A record or unit separator in a name makes the log unreadable; parallel branches
  are read in one line, which may lose a rename. Years from 10000 on cannot be parsed back
  (`core/src/time.rs:137`).
* *Evolution.* Moving a manifest counts as a second package (`evolution/src/events.rs:225`);
  the peak of an area is counted inside a commit, in the order of paths; a language that
  disappears is never told of (`:405`). A file that is renamed and then deleted inside the
  window is listed as it began; the window ends at the first old timestamp.
* *Comparison.* Names "disambiguated when equal" can still collide with a repository that is
  called "a (1)". The value 1 of change concentration cannot be reached.
* *AI.* A statement marked as inference stays one when none of its citations exists, and
  does not lower the confidence. A finding of a module's explanation shows its first path,
  which may lie elsewhere. A cached explanation keeps the revision it was first made for.
  The context is filled "until the token budget is spent", but smaller items after one
  that did not fit are still taken. A second request of the OpenAI provider has its own
  retries. The local AI provider keeps the first `MAX_STDOUT` bytes of an answer and returns
  them as a whole one, where a plugin's output of that kind is refused.
* *Reports.* "every figure is accompanied by a table with the same values"
  (`report/src/doc.rs:4-5`, and `report/src/charts.rs:7-8`): the heatmap, the growth and
  the points have no table, the graph of modules draws 40 of which the tables list 30 and
  20, and events are only drawn beyond the rows of their table. Findings that are "listed in the
  evidence appendix" (`report/src/content/appendix.rs:38`) are listed there up to 300
  (`:149`). A list of recent directories or commits is cut without a word of it. Headings of
  the fourth level can follow one of the second, and two tables of a page have the
  name "Command runs".
* *The web application.* A late opening calls an analysis failed that is not the one it
  belonged to (`components/BrowserAnalysis.tsx:283`; `overtaken` in `BrowserSession`); an
  error of a terminated worker stops its successor (`engine/client.ts`); one failed poll
  ends the polling of a job that goes on (`views/Home.tsx:63`); scans may be shown under the
  wrong repository (`:226`), and a deleted analysis may stay open when it was opened while
  the deletion was under way (`:245`). The buttons are disabled during a deletion (`:186`), but
  only until the page is left: a visit that begins meanwhile may list what is about to be
  deleted and keep showing it, begin a second deletion, and the deletion of the earlier visit,
  when it ends, closes whatever analysis is open if the one open at its beginning was of the
  repository, the user having opened another in between (`:247`, `:274`).

## What is not modelled

* *Connections that outlive a reset.* `Reset`, and a repair of a damaged database,
  happen in `Store` only while no other process is active. A server that keeps its
  connection open goes on with the removed file.
* *Reloads of the page.* A reload drops what is under way and restores what was open
  (`apps/web/src/state.tsx`); `StoredList` and `ScanForm` begin with a fresh page and nothing
  open, and are left and visited again without one.
* *Order of insertion.* Scans of one second are listed by rowid; `Store` keeps sets.
* *The tables of metrics and findings.* They follow their scan by `ON DELETE CASCADE`
  and nothing else writes them.
* *Faults of SQLite and of the file system* beyond failing operations: transactions are
  atomic, and a renamed file is whole.
* *Parsers of languages, manifests and single lines of Git, patterns of secrets and of
  dangerous code, recognition of commands and documentation.* Tables and regular
  expressions over text: a finite model would repeat the table.
* *Markup, layout and pixels* of HTML, Markdown, CSV and SVG reports: `Reports` and `Figures`
  have what is told and how much of it, not how it looks. The pages of the web application
  that only show, and the output of the command line.
* *Wording*: the texts of findings, reports, evidence and prompts, and the redaction of secrets.
* *Entry points, interactions between modules, and the insights* of the engine.
* *Command line, desktop application, WebAssembly bindings, development tools*: thin layers
  over what is modelled, or scripts.

## Plan

In order of importance.

1. `Pipeline` composed with `Jobs` and `Store`: "a job ends once, and with a scan exactly if
   it is listed".
2. `Store` with connections that outlive a reset, and with the order of insertion.
3. The remaining insights, and the validation of settings.
4. Proofs: that `Jobs` refines a specification of a single job as its client polls it,
   that a run of `Children` implements "returns once, with a true verdict", and for every
   input what `Findings` and `Dependencies` say of their results.
