# mcrit_similarity in TLA+

`mcrit_similarity` is a Binary Ninja plugin. It sends the functions of an open
file to an MCRIT server as an SMDA report, waits for the server's matching jobs,
and turns the answers into similarity results, labels and renderings. It is a
Python program with many threads: one per visited edge of a session, one or more
per command, the UI thread, and a preloading thread. They share process-wide
caches, an in-process server, and, with other Binary Ninja processes, a folder of
stored reports.

This directory holds TLA+ modules of the parts of it where order and failure
decide, the TLC configurations that check them, and machine-checked proofs about
eight of the modules, for every value of their constants. `PROJECT.json` maps every definition to
the lines it models and lists the hazards the properties are for. Paths below are
relative to `src/mcrit_similarity/`.

## The system

| Part | State | Operations | Hard because |
|---|---|---|---|
| **LockedCache** (`cache.py`) | an ordered dictionary, weights and their sum, the Events of builds under way, one lock | `get`, `set`, `clear`, `get_or_set` | many threads; factories run outside the lock, fail, or return what is not cached; waits with a timeout and a stop |
| **Report export and lookup** (`export.py`) | `REPORTS`, `REPORT_KEYS`, `_EXPORTED_KEYS`, `_COLD_MISSES`, the report on disk | `export_smda_report`, `cached_report`, `_preload` | the analysis changes under them; a key is taken before the report it names; three kinds of threads write the same caches |
| **On-disk report cache** (`diskcache.py`) | the folder, the garbage collector's pause | `load`, `store`, `prune` | several processes and no lock; a process may die half way |
| **Waiting for jobs** (`mcrit/jobs.py`) | poll counters | `await_job` and the judgements of a job document | the server writes a completed job in two updates, reclaims jobs of workers that died, and drops documents |
| **Samples** (`mcrit/samples.py`), **HTTP client** (`mcrit/client.py`) | `_samples` of each session, `CORPUS_MATCHES` | `ensure_sample`, both queries, one request per call | uploads that race, reads that are retried and writes that are not, a query that edges share, a server that is reset |
| **Visits** (`provider.py`) | `FUNCTION_OFFSETS`, the nodes' entities, a lock per node, labels | `_visit_edge`, apply, render | edges of one node are visited at once; a visit is stopped between any two steps; the analyst renames what is being applied |
| **Match parsing, mapping, scoring** (`mcrit/parse.py`, `mapping.py`, `scoring.py`) | none | pure functions | ties, truncation, Thumb bits, two's complement |
| **Settings** (`settings.py`, `provider.py`) | a token field, the keychain, a provider's configuration | create, update, `_current_config` | a copy is taken under a lock and written back after it was released |
| **Built-in server and corpus files** (`builtin.py`, `corpus.py`, `commands.py`, `connection.py`) | the endpoint, the server's corpus, corpus files | start once, import, export | any thread may be the one to start it; Binary Ninja exits; a start may come without its corpus |
| **PIC blocks** (`picblocks.py`), rendering (`render.py`) | none | `annotation_blocks` | blocks that occur several times, unequally often; two ways of pairing changed blocks, by budget; difflib's junk-free matching |
| Registration, tables, logging | none | -- | -- |

How they interact: a visit reads its configuration (settings), exports both files
(export), which meet in `LockedCache` and in the disk cache; it makes sure both
samples are on the server (samples, client), waits for a job (jobs), shares the
answer with the other edges of its node through a `LockedCache`, parses and maps
it (parse, mapping), creates missing entities under the node's lock, and emits
results (scoring). The server may be the built-in one, which then is started by
whoever needs it first. Rendering a result looks the report up again on the UI
thread.

What makes each part correct, in a line: one build per key, no lost wakeup and
limits kept (cache); a report on record is there, is the last export's and is of
the analysis its key names (export); nobody reads part of a file and the folder
stays bounded (disk); no healthy job is called failed, no readable result is
dropped, and the wait ends (jobs); the answer a visit reads covers its edge, a
file is sent again only where an upload got no answer, one edge's trouble fails no other, and every visit ends
(samples); one entity per function, results that name what the server matched, and
names that are kept (visits); a comparison hides no difference and paints no block
whose copy the other function has to spare (PIC blocks); no typed token is lost and a visit uses its settings (settings); one server,
ready before it is used, and corpus files never in part (built-in server).

## Modules

| Module | Models | Lines of TLA+ |
|---|---|---|
| `SingleFlight` | what a `LockedCache` promises: the abstract specification | 57 |
| `LockedCache` | `cache.py` in full | 513 |
| `ReportStore` | `export.py` for one open file | 423 |
| `DiskCache` | `diskcache.py` between processes | 289 |
| `JobWait` | `mcrit/jobs.py` beside the server | 264 |
| `BuiltinServer` | `builtin.py`, `corpus.py`, `commands.py` | 346 |
| `ProviderSettings` | a provider's configuration | 286 |
| `SampleQuery` | a visit up to MCRIT's answer: `mcrit/samples.py`, the requests of `mcrit/client.py`, the shared query of `provider.py` | 546 |
| `Matching` | `parse.py`, `mapping.py`, `scoring.py` as operators | 171 |
| `EdgeVisit` | `_visit_edge` from the server's answer to the results; EXTENDS `Matching` | 421 |
| `PicBlocks` | `picblocks.py` as operators | 157 |
| `Session` | apply, rename and render beside the visits; EXTENDS `EdgeVisit` and `PicBlocks` | 236 |
| `LockedCache_proofs` | theorems about `LockedCache`, for every value of its constants | 1492 |
| `ReportStore_proofs` | theorems about `ReportStore`, for every value of its constants | 670 |
| `DiskCache_proofs` | theorems about `DiskCache`, for every value of its constants | 2274 |
| `JobWait_proofs` | theorems about `JobWait`, for every value of its constants | 272 |
| `BuiltinServer_proofs` | theorems about `BuiltinServer`, for every value of its constants | 381 |
| `ProviderSettings_proofs` | theorems about `ProviderSettings`, for every value of its constants | 269 |
| `Session_proofs` | theorems about `EdgeVisit`, `Session` and the operators they use, for every value of their constants | 6592 |
| `SampleQuery_proofs` | theorems about `SampleQuery`, for every value of its constants | 2981 |
| `MC*` | values of the constants and symmetry for TLC | -- |

Operators whose name begins with `Bug` are seeded faults: each stands before the
definition it would replace, and the property named with it in `PROJECT.json`
fails once it does.

### LockedCache

A step is what a thread does between two points where another one can run. The
critical section at the head of `get_or_set`'s loop is one of `Hit`, `JoinWait`,
`CancelledAtEntry` and `StartBuild`; the wait is `Wake`, `TimeOut`, `GiveUp` and
`KeepWaiting`; the factory is `FactoryReturns` or `FactoryRaises`, outside the
lock; `_store` is `Store`, one `Evict` per entry that goes, and `Stored`, with the
lock held throughout; the `finally` is `Finish`. `order` and `val` are the ordered
dictionary, `inflight[k]` the thread that created the Event of `k` (an Event has
one creator, so that names it), `awaits` the Event a waiter took with it, which
it keeps after `inflight` has forgotten it.

`SingleFlight` is the promise without the mechanism: a map in which only a
missing, unclaimed key is claimed, and only an entry other than the one used last
is dropped. `ImplementsSingleFlight` maps `content` to `val`, `builder` to
`inflight` and `latest` to the end of `order`.

### ReportStore

One open file. An analysis is what tells function sets apart; a report remembers
the analysis it was made of and the key it was exported under. The operations of
the shared caches are single steps, with `get_or_set` split into claiming a key,
building, and storing: what `LockedCache` proves justifies both. Loading from disk
and comparing with the analysis are separate steps, as the analysis may move between
them.

The variable `setup`, constant in a behaviour, says under which circumstances it
runs: which threads take part, whether there is a disk cache, whether other files
evict this one's report, whether the analyst edits during exports, whether
operations overlap. Most promises of `export.py` hold only under some of these,
and each property says which. `MCReportStore` chooses five:

- `Busy`: an export and a lookup while the analyst edits;
- `Calm`: the same without edits, over three analyses, two of which
  `_analysis_changed` cannot tell apart;
- `Crowded`: two exports, a lookup and a preload at once;
- `InTurn`: export, lookup and preload one after the other, with edits;
- `Diskless`: two exports and a lookup without a disk cache, with evictions.

### DiskCache

Loaders are threads of one process, storers of any. `store` is a write to a
temporary file (`BeginStore`), a rename, a scan and one deletion per file that the
scan found superfluous; a storer may die at any of these. `load` is a read with
the collector paused (`Pause`, `Read`, `Leave`) and, for a damaged file, its
removal by name (`EndLoad`). A scan may fail (`StoreFails`) or miss files that the
system will not describe, and a deletion may fail, though the file is then counted as
gone: with the deaths these are the `mishaps`, of which `MaxMishaps` bounds the number,
and which enter the bound on the folder one for one. `order` is the files by modification time, which a
load refreshes (`Renewed`); a scan dooms the oldest other files until what is left
is within the limits (`Doomed`), and deletes them though others may since have been
written or used. `Full`, `Damaged` and `Loading` vary the
files, whether something else damages them, and how many load at once.

### JobWait

The server half holds a job document: taken, lost and reclaimed, completed by the
worker or by one the server has given up on, `finished_at` before the result id,
terminated, dropped, and written at last. A poll is `CheckStop`, `GetJob` or
`GetNothing`, `Judge`, and one of the three fetches; the server moves between any
two of them. Only the two counters that end the wait are kept; the backoff between
polls, on which no decision depends, is not.

### BuiltinServer

`Endpoint`, `Start`, `Load` and `Publish` are `resolve` under its lock; the
commands and the visits all pass through it. A corpus file is written as the code
does it: to `.partial`, in more than one step, then renamed. `Exit` ends the
process at any point and keeps the files.

### ProviderSettings

`ReadField`, `StoreToken` and `ResetField` are the migration of a typed token into
the keychain, which may refuse; `ReadSettings` and `Apply` the rest of
`perform_update_settings`; `Snapshot`, `Refresh` and `WriteBack` are
`_current_config`, which copies under the lock, works without it, and writes back
under it. Settings that cannot be read, or that name no server, are one value,
`Broken`: an update then fails and changes nothing (`UpdateFails`), and a visit uses the
configuration it copied and writes nothing back (`KeepLast`). `applied` only serves
`UpdateIsKept`, which the run `settings` does not check; its VIEW leaves it out.

### SampleQuery

A visit up to MCRIT's answer. `stage` says what the visit is after: the samples of
its two files, those of the node's other edges, and then one query for the node
(`MatcherSample`) or one for the edge (`MatcherVs`). `pc` walks `ensure_sample` once
per file: look the sample up (`LookUp`), read again after a failed read
(`ReadAgain`, `ReadFails`), see whether its indexing job is still pending
(`PendingJob`), upload it (`Upload`, `UploadWithoutJob` where the answer names no job),
wait for the job (`Indexed`, `IndexFailed`). Where an upload gets no answer
(`UploadLost`) the visit gives up, and the server may receive the file at once or at any
later moment (`late`, `Arrives`), when others have looked it up, missed and uploaded it. A stop is seen in `Cancel`, and only
where the code looks for one.

`_samples` and `CORPUS_MATCHES` are `LockedCache`s; their `get_or_set` is used as
`SingleFlight` promises it: a hit, a claim of a missing key that nobody has claimed,
and a wait until it is released. Waiting for a job is reduced to how it ends, as
`JobWait` has it. `Key` is the key of the shared answer: server, sample, and the ids
of the samples it must cover.

The server half gives out ids in turn, finds a sample's indexed counterparts, and
remembers the answers of both matchers by the samples asked about; a `MatcherVs` may be
handed back from that memory (`Recall`), a `MatcherSample`, which the code asks for with
forced recalculation, may not. Around the visits are other clients that
upload (`OtherUploads`), edges that are added (`AddNode`), stops, failing requests
and jobs by stage (`faults`), and one `Reset` of the server, after which it hands out
its ids again. Malformed answers count as failed requests; the limit of four answers
in `CORPUS_MATCHES` is left out, as an evicted answer is only asked for again.

### Matching and EdgeVisit

`Matching` gives the pure code as operators: `Parse` (filter, rank, cut off,
statistics over all candidates), `Margin`, `DecodeOffset`, `CorpusLabel`,
`IndexEntities`, `Lookup`, `Pairs`, `Similarity`, `UniquenessWeight`,
`Confidence`. An answer is a sequence
of candidates, and the selection is told by positions in it: which count (`Accepted`),
which belong to one function (`Group`), which the limit leaves (`Kept`), and where
each comes to stand (`Ranked`). Scores are integers. The integer `Confidence` was compared with the
Python function over all integer scores, byte counts up to the cap and margins:
it differs on 23 of about 1.4 million arguments, by one, where the exact product is
half way between two integers and the float one is just below or above.

`EdgeVisit` runs visits through it: read the answer, ask the server for the
functions missing in `FUNCTION_OFFSETS`, read that cache once more, index the
source's entities (without the lock) and the target's (with it), create an entity
per function that is not listed (`CreateEntity`, one at a time), release the lock
and pair, put labels, add results one by one. A stop is seen where the code looks
for one. `MCSession` gives two edges from one node, or an edge and its reverse,
every answer of up to three candidates from nine kinds that differ in score, bytes,
PicHash, library, sample, Thumb bit and presence in the view.

`SampleQuery` ends where `EdgeVisit` begins; the answer is what they share, and
each is checked with every answer the other could leave.

### PicBlocks and Session

`PicBlocks` gives `annotation_blocks` as operators: pair what occurs on both sides
(`Left`), pair the entries, then the blocks that changed, greedily by difflib's ratio
within `Budget` or by position beyond it (`ChangedPairs`), and paint what differs.
difflib's `find_longest_match`, matching blocks and ratio are modelled from their use,
as the paint depends on them. The operators were compared with the Python on 3000
random pairs of functions, with `Budget` 20.

`Session` adds what the analyst does to `EdgeVisit`: `Rename`, applying a result and
rendering one. Applying to a function without a name takes four steps, between which
the analyst may rename: a look at the function's symbol (`StartApply`), Binary Ninja's
default apply, which may copy the target's placeholder name or fail (`CopyName`,
`ApplyFails`), a second look (`ReadSymbol`), and the use of what that found: the label
replaces it, or the placeholder is undefined (`FinishApply`). `Render`
takes any two functions from `Shapes` as the ones behind a result.

## Runs

`tlc -workers 2 -config X.cfg M`, in this directory.

| Run | Configuration | Shows | Distinct states |
|---|---|---|---|
| `cache_safety` | `LockedCache_safety` | two threads, three keys, values of weight 0, 1 and 4 (one of them empty) under 2 items and weight 3, any number of calls: the safety properties and the refinement | 90 k |
| `cache_live` | `LockedCache_live` | three threads on one key: every call returns if factories end; a stopped waiter returns in any case | 89 k |
| `store_all` | `ReportStore_all` | the promises of `export.py`, each under the circumstances it needs | 3.2 M |
| `store_cold` | `ReportStore_cold` | *violation*, see below | |
| `job_wait` | `JobWait_all` | no false failure, no readable result passed over, the wait ends | 54 k |
| `disk` | `DiskCache_all` | nothing is read in part, the collector is paused exactly while loading, the folder is bounded | 0.89 M |
| `builtin` | `BuiltinServer_all` | one start, served only when ready, corpus files whole | 0.84 M |
| `builtin_unloaded` | `BuiltinServer_unloaded` | *violation*, see below | |
| `settings` | `ProviderSettings_all` | the token typed last is kept, visits use their settings, or what they found while those are broken | 3.0 M |
| `settings_lost` | `ProviderSettings_lost` | *violation*, see below | |
| `samples` | `SampleQuery_all` | the answer covers the edge, one edge's trouble fails no other, a file is sent again only where an upload got no answer, every visit ends | 180 k |
| `visit` | `Session_all` | one entity per function, results and labels name their functions, nothing is lost, confidence follows the lead, names are kept, the paint is exact | 1.4 M |

Every property of a passing run is violated by the seeded fault listed with it,
under that run's own configuration.

### Bounds, and why they suffice

- *LockedCache*: two threads are a builder and a waiter, or a builder and a
  setter that replaces its entry. Three keys exceed two items, so
  the loop of `_store` runs; the weight of 4 exceeds the limit of 3 alone, so an
  entry is kept though too heavy, and a following insert evicts more than one
  entry. Calls are not counted. What more
  threads or keys could add is covered by the proofs. The liveness run has three
  threads because two waiters must both be woken, and one of them then builds.
  `MaxCalls = 1` is there for a reason: with callers that never stop
  coming, a waiter can find the key taken anew each time it wakes, and nothing in
  the code prevents it.
- *ReportStore*: two exporters, one UI thread and one preload, which
  `_PRELOAD_LOCK` makes one; three analyses give equal, similar and different ones.
- *JobWait*: two attempts are a last one and one before it; a limit of three
  consecutive gaps is more than one and stands for the code's constant.
- *DiskCache*: limits of two files and three bytes, with a file of four, make each
  limit bind alone and both together; two storers scan at once; one mishap,
  of whichever kind.
- *BuiltinServer*: one exporter, importer and visitor, two files.
- *ProviderSettings*: two visits and an update, two of everything else, and settings
  that are broken.
- *EdgeVisit*: two visits are the fewest that compete, and two of each node's
  functions the fewest that can be confused; three candidates are one more than
  `max_results` in the model, so that the limit cuts off something that still
  counts for the margin. Addresses have 4 bits so that the negative offset is
  distinct from every other one.
- *SampleQuery*: two visits wait for each other or for one another's query; two
  sessions share an answer and not their samples; four files are a target, two
  edges, and one that is added. Two attempts are a first and a last one. One reset
  gives ids that name something else. A file of which an upload was lost is wanted by
  visits of two sessions, in a server that receives it before, between or after theirs.
  Each setup in `MCSampleQuery` puts one
  question, as all of them at once would be too many states.
- *Session*: functions of up to two blocks of up to two instructions over two letters,
  and of three blocks of one instruction: repeated blocks, unequally often, with and
  without an entry, and blocks without sizes. `Budget` 20 lies between the work of the
  smaller and the larger ones, so that both ways of pairing occur. Visits are
  not stopped in the setup that renders, as any two functions are painted alike.

### Fairness

`LockedCache!FairSpec` asks only that a thread inside a call which can run does run
(`WF_vars(Proceed(t))`); whether a factory ends is the premise `FactoriesEnd` of
`EveryCallReturns` and absent from `StopIsHonoured`. The code has Python threads and a
lock held briefly, which justifies weak fairness and nothing stronger.
`JobWait!FairSpec` asks that the client's loop goes on: its sleeps end and its
requests have a timeout. Nothing is assumed of the server, the analyst or a stop.
`SampleQuery!FairSpec` asks the same of each visit's thread; that the server's jobs end
is the premise of the first half of `VisitsEnd` and absent from the second, which
says that a visit that is asked to stop ends in any case.

### Deadlock

The check for deadlock is off in `store_all`, `disk`, `builtin`, `settings`, `job_wait`,
`samples` and `visit`, and in the runs that end in a violation, whose systems really may
stop: a visit or a wait is over, a process that never exits has nothing left to do. The two cache runs have it on, as
a thread may always call `clear` again.

## Where the code and what is said of it differ

Three runs end in a violation. Each states a sentence of the code's own comments:

- `store_cold`: `export.py:84`, "the report for this open file from memory, or a
  small one from disk". A lookup finds nothing and records the miss in `_COLD_MISSES`;
  an export then puts its report into memory and on disk and leaves the miss recorded;
  once `REPORTS` evicts the report, the next lookup gives up although the report is on
  disk, under the key of the analysis at hand.
- `builtin_unloaded`: `builtin.py:41`, "the corpus file that failed to load at start,
  which an export must not overwrite". `commands.py:122` compares the path before
  the export has started the server; if starting it is what fails to load
  the corpus, the file is overwritten.
- `settings_lost`: `provider.py:199`, "the last configuration stands in for the
  global defaults". A visit that copied the configuration before an update writes
  it back after it, and with it the older token.

Further deviations were met and have no run; the properties exclude them by a named
premise, or nothing in the repository forbids them:

- two exports that overlap: the second may take the first one's disk copy for its
  own analysis (`export.py:204`);
- a report that could not be stored and is then evicted from memory: a lookup files
  the disk copy of an earlier analysis, which `_analysis_changed` cannot tell apart,
  under the current key, and the next export hands it out, against `export.py:33`;
- an edit between taking the key and exporting files new functions under the old
  key (`export.py:215` and `222`);
- a preload that overlaps an export puts its older key back on record
  (`export.py:151`);
- a damaged report is dropped by name after it may have been replaced by a whole one
  (`diskcache.py:89`), and `prune` deletes by an older scan (`diskcache.py:152`):
  either costs one export;
- two exports to one corpus file share a `.partial` (`corpus.py:27`);
- a function at an odd address and one at the even address before it are one to
  the entity index (`mapping.py:39`);
- as only the address itself enters the index with a new entity (`provider.py:135`), an
  answer that matches one function of the view under its odd and its even address gets
  two entities for it: `AnswersTellFunctions` says that no answer does;
- a name that the analyst gives between the second look of an apply
  (`provider.py:500`) and the setting of the label (`provider.py:502`) gives way to the
  label: `NamesAreKept` admits that one gap (`Overtaken`);
- a file whose deletion fails counts as gone in `prune` (`diskcache.py:152`), so that
  the folder stays over its limits until another report is stored;
- offsets and payloads are cached under a server's name though a server that was
  reset hands out the same ids again (`provider.py:46`): with one query per node
  (`provider.py:287`) an edge then gets the answer of the earlier server;
- a server that shows a sample before its indexing job exists makes
  `pending_index_job` find nothing to wait for (`samples.py:91`), as an upload's answer
  without a job id does (`samples.py:168`), and the edge gets an answer without its file;
- hashes are cached by file and offset, so that an edited function is compared by its
  earlier blocks (`render.py:44`);
- an offset evicted between the check for missing ids and the reading of known ones
  drops its match (`provider.py:66`).

## Proofs

Eight modules of proofs hold 38 results for every value of the constants, from the
named assumptions of the modules they are about:

| Module | Theorem | Statement |
|---|---|---|
| `LockedCache_proofs` | `TypeCorrect` | `Spec => []TypeOK` |
| | `ListAndDictionaryAgree` | `Spec => []OrderIsContent` |
| | `TotalIsExact` | `Spec => []WeightAccounting` |
| | `SingleBuild` | `Spec => []OneBuilder` |
| | `WakeupsAreKept` | `Spec => []NoLostWakeup` |
| | `WithinLimits` | `Spec => []Bounded` |
| | `NewestSurvives` | `Spec => []NewestKept` |
| | `Refinement` | `Spec => ImplementsSingleFlight` |
| `ReportStore_proofs` | `TypeCorrect` | `Spec => []TypeOK` |
| | `RecordsHaveReports` | `Spec => []RecordedKeyHasReport` |
| | `NothingStandsIn` | `Spec => []EarlierAnalysisNeverStandsIn` |
| | `LastExportIsOnRecord` | `Spec => []RecordIsLastExport` |
| `DiskCache_proofs` | `TypeCorrect` | `Spec => []TypeOK` |
| | `CollectorIsPaused` | `Spec => []CollectorPausedWhileLoading` |
| | `WholeIsRead` | `Spec => []NeverReadInPart` |
| | `FolderStaysSmall` | `Spec => []FolderBounded` |
| `JobWait_proofs` | `TypeCorrect` | `Spec => []TypeOK` |
| | `HealthyJobs` | `Spec => []HealthyJobNeverFails` |
| | `ResultsAreTaken` | `Spec => []WrittenResultIsTaken` |
| `BuiltinServer_proofs` | `TypeCorrect` | `Spec => []TypeOK` |
| | `ServedWhenReady` | `Spec => []StartThenServe` |
| | `ExportsStayWhole` | `OneExporter => (Spec => []ExportsAreWhole)` |
| `ProviderSettings_proofs` | `TypeCorrect` | `Spec => []TypeOK` |
| | `TokenIsKept` | `Spec => []LatestTokenKept` |
| | `VisitsUseSettings` | `Spec => []VisitUsesItsSettings` |
| `Session_proofs` | `TypeCorrect` | `Spec => []TypeOK` |
| | `OneEntity` | `AnswersTellFunctions => (Spec => []OneEntityPerFunction)` |
| | `ResultsNameFunctions` | `AddressesTellFunctions => (Spec => []ResultsNameTheirFunctions)` |
| | `NoResultLost` | `AddressesTellFunctions /\ AnswersTellFunctions => (Spec => []NothingIsLost)` |
| | `LeadDecides` | `Spec => []LeadDecidesConfidence` |
| | `SessionVisits` | `SessionSpec => Spec` |
| | `SessionTypeCorrect` | `SessionSpec => []SessionTypeOK` |
| | `NamesKept` | `AddressesTellFunctions => (SessionSpec => NamesAreKept)` |
| | `PaintExact` | `SessionSpec => []PaintIsExact` |
| `SampleQuery_proofs` | `TypeCorrect` | `Spec => []TypeOK` |
| | `UploadedOnce` | `Spec => []OnlyLostUploadsAreRepeated` |
| | `AnswersCover` | `Spec => []AnswerCoversTheEdge` |
| | `TroubleIsPrivate` | `Spec => []TroubleStaysPrivate` |

Each rests on an invariant that is inductive, `Ind`, proved in `Invariance ==
Spec => []Ind` from one lemma per conjunct with one step per action under it.

- **LockedCache** (assumptions `CacheConstants`, `Sentinels`: limits and weights are
  natural numbers or absent, and the marks for "none" are none of the values). `Ind` is
  the conjunction of six invariants, most of which are not inductive alone:
  `NoLostWakeup` needs `OneBuilder` (the build a waiter waits for ends only in its
  builder's `Finish`, which signals it); `OneBuilder` needs the scoping of locals in
  `TypeOK` (a thread that builds has a key); `NewestKept` needs `OrderIsContent` (the
  entry popped is not the last one because no key is listed twice); the refinement's
  `Drop` step needs both. Lemmas of their own say what moving a key to the end,
  inserting and popping do to the list. `TotalIsExact` is about a sum over the cached
  keys: `SumProperties` derives from the definition of `MapThenSumSet` how a sum changes
  with one element, and the steps that store and evict then are arithmetic.
- **ReportStore** (`StoreConstants`, `SetupConstants`, `MarksAreNoReports`). `Ind`
  adds to the types what threads have in hand and that every claimed key is held by
  one exporter at work on it. That the recorded key has a report needs `NamedHasReport`:
  a thread about to record a key has its report in memory already, and while nothing is
  evicted it stays there. The other two hold where operations take turns: `Alone` says
  that who is not idle is alone, `RecordInTurn` that after the first export only an
  export changes the record, and `DiskIsForeign` that the disk is read only before the
  first export, so that what it holds has no key of this process.
- **DiskCache** (`DiskConstants`, `SetupConstants`). `GcInv` counts the loaders that are
  inside and relates the count to `_gc_pausers` and the flag to resume; a step adds one
  loader or takes one away, which is a statement about cardinalities. `WholeInv` says
  that a file that is torn was spoilt by something else: a name is given only by the
  rename of a whole file. The bound of the folder is not inductive: while storers prune, what
  counts is what each of them will leave. `Few` says that of any of the storers that have
  scanned, one leaves no more than `MaxFiles` and a file for each other storer past its
  rename and each mishap: the last to have scanned knew of all the files but theirs, and
  those it missed.
  `Room` says that of the storers at work, if all of them have scanned and nothing
  went wrong, one leaves what fits into `MaxBytes`, or the file just stored alone. A step adds
  one file, adds or takes away one storer, or deletes what was doomed; the lemmas are
  about cardinalities, sums of sizes and subsequences of the listed files.
- **JobWait** (`JobConstants`). `ResultIsSeen` ties what the client holds of the job
  document to the server's state (once a result is readable it stays so, and a document
  taken since then names it); `LastAttempt` says that a job without attempts left that has
  lost no worker has started and is locked. Steps of the server leave the client alone and the
  other way round, so that each side has a lemma of its own.
- **BuiltinServer** (`ServerConstants`). `LockHeld` says that exactly the thread between
  the start and the publication of the server holds the lock; `InHand` what a thread has
  at each place. Corpus files are whole with one exporter only (`OneExporter`), which
  the theorem has as its premise and the run as its setup: with two exports to one
  file the property fails (`corpus.py:27`).
- **ProviderSettings** (`ProviderConstants`). A typed token passes from its field to the
  keychain and the field is emptied only once the keychain holds it
  (`TokenInTransit`, `FieldIsLatest`); a visit during which nothing changed still holds
  its provider's object and values, or what it copied when they are broken
  (`SteadyVisit`).
- **EdgeVisit and Session** (`VisitConstants`, `SetupConstants`, `OffsetsAreAddresses`,
  `NoneIsNoNumber`, `BitsPositive`, `SessionConstants`, `BudgetIsNatural`).
  - `OneEntity`: a visit that creates entities holds its node's lock (`LockIsHeld`), so
    nobody else adds to the node; its index then lists every entity, and the even address
    of every one but those the visit created itself, whose addresses are offsets
    of its own answer (`IndexIsCurrent`). An address that the index lacks is thus of no
    listed function: two addresses of one function share their even address, and
    `AnswersTellFunctions`, the premise, excludes the one case that is left.
  - `ResultsNameFunctions`: `Linked` follows what a visit carries from step to step. A
    match is of a candidate of its answer and has the offset the server has for it; an
    index leads to an entity at one of the aliases of the address it is asked for; a pair
    is what both indices give; results and labels come from pairs. Lists of entities only
    grow, so that a position keeps its address.
  - `NamesKept` rests on the same links in a session, whose visits are those of
    `EdgeVisit` (`SessionVisits`): what is being applied is of a result, and a placeholder
    on a function is one that the apply in progress copied, and the symbol that the apply
    has read is still there but for a name that the user gave since (`Applied`).
  - `LeadDecides` is about `Parse`, whatever the answer: `TopTwo` folds a group from its
    first candidate to its last and ends with its best score and the best of the others,
    which is shown by induction on the size of the group; that a smaller lead never gets the
    greater confidence is the monotony of `Rounded`.
  - `NoResultLost`: `Remembered`, `ListedFirst` and `NoneLost` say, for each place of a
    visit, where a kept candidate of a scheduled function is found there: in the answer,
    among the matches (`Parse` drops only what the limit cuts off), in
    `FUNCTION_OFFSETS`, in both indices, among the pairs, among the results. The
    entities the session listed first keep their positions, so that the index still finds
    the scheduled one.
  - `SessionTypeCorrect` includes that paint is of instructions there are, for which the
    longest run, the best pair and the most alike blocks of `PicBlocks` must exist:
    each is a maximum over a finite set.
  - `PaintExact`: the legible blocks of the two functions, those with anything unpainted,
    are related one to one (`LegibleIsAlike`). A block that is not left is anchored to the
    one of the same text and rank (`Anchored`): ranks are a bijection, whichever copies
    the other side has (`RanksDiffer`, `AnchorExists`). A block that is left is paired
    once at most, by the entry, by the greedy choice or by position (`PairedOnce`); of a
    pair the aligned instructions are bare, each aligned once and with an equal one and in
    one order (`AlignedIsEqual`, `AlignedReadsAlike`), and a block without a pair is
    painted as a whole (`WhatIsMarked`, `WhatIsLegible`). `OneToOneMaps` makes a bijection
    of such a relation. That a painted block has no copy left to match is the count of
    the ranks that are not left (`DuePaint`). That a function has one entry is assumed in
    `SessionConstants`: the entry is the block at the function's offset
    (`picblocks.py:101`).
  - `AddressesTellFunctions`, a hypothesis of three of the theorems, says that in the views
    an address with or without its Thumb bit is of at most one function. Where two
    functions sit at an odd address and at the even one before it, the code does
    confuse them (`mapping.py:39`). `AnswersTellFunctions`, a hypothesis of two, says
    that no answer matches one function of its view under two addresses. `MCSession`
    assumes both of its instance, and TLC evaluates them there.
- **SampleQuery** (`QueryConstants`, `SetupConstants`). `Base` says where a visit may
  be in each stage. `Once` adds that at most one visit of a session builds the sample
  of a file (`OneEnsures`), and that one that is about to upload has a file that its
  session never uploaded but where it gave up on the answer (`Uploads`): what was
  uploaded otherwise stands on the server, and the visit has seen that the file does
  not. `Once` is inductive by itself and proves `UploadedOnce`; what arrives late only
  adds to what stands. `Sound` follows the ids: what a session's samples, a
  visit and the shared answers name is on the server, its indexing over, and an answer
  covers what it was asked for (`Covers`). That lasts while the server only gets
  samples and ends jobs (`Lasting`); after a reset it is claimed for sessions that
  began later, of which `IdleSessions` says that they know no sample yet. `Kept` says
  what excuses a failure. `Ind` is the conjunction of `Base`, `Sound` and `Kept` for
  every visit; each of the three ways in which a visit goes on (it gives up, has a
  sample, is answered) has a lemma that the actions share.

Induction. `SizeInduction`, in the modules that need it, is induction over the size
of a finite set, from the library's `WFMin` for the natural numbers; its parameter is a
set of good sets and no operator. `RecursionExists` shows with it that a recursive
function over the subsets of a finite set exists, which `CHOOSE` leaves open, and so
gives the equation of `TopTwo` and of the sums.

Every safety property that a passing run checks is a theorem. Model-checked only:

- liveness (`EveryCallReturns`, `StopIsHonoured`, `WaitEnds`, `StopEndsWait`,
  `VisitsEnd`), as fairness is about ENABLED, which the prover does not handle.

## What is not modelled

- *Registration, configuration tables, architectures, errors, log*: no state, no
  interaction.
- Within modelled parts: hashing of the file and warming of architectures
  (`export.py`); temporary files that are removed after a day (`diskcache.py`); the
  backoff of `await_job`; the individual keys of a configuration; headers, URLs, status
  codes and the shape of answers (`client.py`); entries of an answer that cannot be
  read; the hashing of SMDA instructions, its cache and the conversion to address
  ranges (`picblocks.py`, `render.py`); the wording of what `perform_get_name` displays.
- `EdgeVisit` and `SampleQuery` are checked apart, each with what the other may leave;
  one model of both would multiply their states and add no interaction, as they share
  only the answer. A server that is reset is in `SampleQuery` and not in `EdgeVisit`.
- The MCRIT server and Binary Ninja are external. Their half is what this code and its
  comments take for granted.

## Plan

1. A server that is reset beside `FUNCTION_OFFSETS`, in `EdgeVisit`.
2. Two exports to one corpus file in `BuiltinServer`, with a property of its own.
