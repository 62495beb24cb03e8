# A verification of NavGator's shared state

NavGator scans a project and keeps an architecture graph of it under
`.navgator/architecture/`. It has no server of its own: command-line calls, an
MCP server, detached drainers spawned by editor hooks, and a Next.js dashboard
are separate node processes that share files, in the project and in
`~/.navgator/`. What can go wrong is in how these processes interleave, die and
fail between two file operations. This directory models that in TLA+, checks it
with TLC on small instances, and proves with TLAPS, for every size, each safety
property that the passing runs check. Paths below are relative to the
repository's root.

## 1. Inventory

### Components with state that others see

| Component | State | Operations | Correct if |
|---|---|---|---|
| **Scan lease** `src/scan-lock.ts` | `.navgator/scan.lock`, its acquisition gate, recovery claims (never deleted); per process: tokens, heartbeat, retry timers | acquire (wait for the gate, claim a dead gate, reclaim a dead lease, publish), heartbeat, release | one writer; only what was checked is unlinked; a live owner is not fenced; a call returns; nothing of a live process is left behind |
| **Freshness** `src/freshness/*` | immutable event files in `dirty.d/`, stamp `freshness.json`, ledger mutation lock (a second scan lease) | mark-dirty, drain, drainUntilClean, reconcileClean, stamp refresh | an event leaves the ledger only once the graph has the edit; no edit is forgotten; every edit is drained in the end; the stamp tells the truth |
| **Scan and store** `src/scanner.ts`, `src/storage.ts`, `src/storage/` | `hashes.json`, `index.json`, `components.full.jsonl`, `connections.full.jsonl`, `reverse-deps.json` and derived files | mode selection, full scan, incremental scan with merge and integrity check, promotion to full, no-op, autoRefreshIfStale | a scan that finds nothing to do is right; stored connections have their ends; a full scan comes at last |
| **Project registry** `src/projects.ts`, `src/registry-lock.ts`, twins in `web/lib/server/` | `~/.navgator/projects.json` with a revision, its lock file, the in-process queue | register, update, add, remove, prune: queue, lock, load, mutate, compare, write | no update is lost silently; a scan is counted once; a write always ends |
| **Registry journal** `src/registry-journal.ts` and twin | `registry-journal.jsonl`, conflict log, one rotated generation each | append, rotate by size | a conflict record survives rotation |
| **Deep-map runs** `src/deep-map/*` | `.navgator/deep-map/runs/<id>/`: manifest, packets, results, findings, ingest accounting | create, partition, ingest, escalate, report | a finding is accepted at most once and only about a component that exists; accounting adds up |
| **Gator-memory** `src/memory/*` | `~/.navgator/memory/`: a record per project, events, derived index; optional mirror | record event, compact, rebuild, mirror | the records can rebuild the rest; no milestone is lost |
| **Portfolio scan** `src/portfolio/*` | a worker pool in memory | discover, scan each repository, cross-repository edges | each repository is scanned once; a failure stays its own |
| **Remote scan** `src/remote/*` | clone cache under `~/.navgator/cache/remote` | clone or refresh, scan | a cached clone is the one asked for |
| **Audit** `src/audit/*` | EWMA state in `index.json` | sample, verify, update chart | a drift forces a full scan |
| **Enrichment cache**, **lessons store** | JSON files in `~/.navgator` | read, rewrite whole | readable after any crash |
| **Dashboard session** `src/dashboard-session.ts`, `web/` | a token file; routes over the stored files | mint, check | (not a protocol of several steps) |

### Components without shared state

Source scanners and parsers (`src/scanners`, `src/parsers`), graph queries
(`trace`, `impact`, `subgraph`, `resolve`, `coverage`, `diagram`, reports),
graph diff and de-duplication, rules, metrics, git wrappers, configuration and
setup, the command line and MCP dispatch, the web user interface, editor hooks
and prompts, generated `dist/`. `PROJECT.json` lists every one with the reason it
is not modelled.

### How they interact

- `scan()` holds the **scan lease** from before it creates any directory until
  its `finally`; every other process that asks meanwhile gets `busy`.
- The drainer and `autoRefreshIfStale` capture ledger events *before* `scan()`,
  hand it their paths as files it must walk, and clear them from a callback
  that runs *while the lease is held*. Marking an event takes no lease; clearing
  events and writing stamps take the **mutation lock**.
- `scan()` ends with `registerProject`; portfolio workers of one process and the
  dashboard call the same registry mutations.
- What one scan leaves in the store decides the mode of the next.

### What is hard

Liveness of a process is judged from a pid and a fingerprint, so a pid used
again, an unknown fingerprint and a crash at any file operation matter. Unlinks
are by path and not conditional. Releases are retried by timers. The registry's
lock has no heartbeat, is stolen by age and is done without when it cannot be
had. A read that fails is taken for an empty registry, an unparseable lease or
no baseline. A scan replaces several files one after the other and swallows some
failures. Edits arrive at any time. `PROJECT.json` lists these hazards with
their lines and the properties aimed at each.

## 2. Modules

| Module | What it is |
|---|---|
| `WriterLock` | abstract: what callers of `acquireScanLease` rely on |
| `ScanLease` | detailed: the lease, one action per file operation |
| `Freshness` | ledger, drains, refreshes and stamps around abstract scans; its two locks are instances of `WriterLock`, which `ScanLease` implements |
| `ScanStore` | how scans choose their mode, merge, and write the store |
| `History` | snapshots and timeline that scans leave |
| `Registry` | the registry's writers with queue, lock file and revision check |
| `Journal` | the registry's two logs, appended to and rotated by every process without a lock |
| `Memory` | the durable record of a project and the commands that write to it |
| `DeepMap` | runs: planning, answers, ingest, status |
| `Partition` | the partition of a scan into packets, a node of its search at a time |
| `ImportCycles` | the search for import cycles, a frame at a time |
| `DeadCode` | the rule for transitively dead code |
| `ScanLease_proofs`, `Freshness_proofs`, `ScanStore_proofs`, `Registry_proofs`, `Journal_proofs` | theorems about the module of that name |
| `Records_proofs` | theorems about `History` and `Memory` |
| `DeepMap_proofs` | theorems about `DeepMap` and `Partition` |
| `Graph_proofs` | theorems about `ImportCycles` and `DeadCode` |
| `MCScanLease`, `MCFreshness`, `MCRegistry`, `MCScanStore` | instances, symmetry sets and views for TLC |
| `MCWriters` | `ScanLease`, `Journal`, `Memory` and `History` side by side |
| `MCGraphs` | `DeepMap`, `Partition`, `ImportCycles` and `DeadCode` side by side |

A process is synchronous between two file operations on paths others use, so
each such operation is one action, with the code that follows it up to the next.
`pc`, `step` or `at` names the operation that comes next. Variables marked
(history) record what has happened, for the properties; no action reads them.

**Failing operations.** A file operation whose failure the code throws on, or
swallows, may fail in the model under the constant named, and then does what the
`catch` does:

| Model | Constant | May fail |
|---|---|---|
| `ScanLease` | `Faults` | every link, rename, unlink; a read of the gate, of the lease, of either at its release: it gives nothing (`scan-lock.ts:151`) |
| `Freshness` | `Errors` | a scan may throw; a wait for the mutation lock run out; swallowed: the unlinks of `clearStorage`, the reads of an analysis, the write of the graph |
| `ScanStore` | `Crashes`, `Errors` | a scan may throw between any two writes; swallowed: the reads of an analysis or all of it, reverse dependencies, the annotated index, components and connections |
| `History` | `HistoryFaults` | swallowed: clearing, writing and reading the snapshot, reading and writing the timeline, storing the graph; any other failure is `KillScan` |
| `Registry` | `FsErrors` | creating, writing, reading, inspecting and unlinking the lock file; reading the registry, which gives an empty one of revision 0 (`projects.ts:124`, `208`); committing it |
| `Journal` | `FsErrors` | stat, rename, truncate; open and write (`Abandon`) |
| `Memory` | `MemoryFaults` | reading, writing and deleting the record |
| `DeepMap` | none | a command may be killed between two writes; **a read that fails is not modelled**: one that finds no packet, no result or no finding where there is one is outside these results |

Outside of them too: a failure of `detectFileChanges` or `computeFileHashes` to
read one file (the first calls the file changed, the second leaves it out, which
makes it new to the next scan: both scan more than is needed).

`MCWriters` and `MCGraphs` are disjoint unions, not compositions: in a behaviour
one of the parts runs and the others stay in an initial state, so the state
spaces add and do not multiply.

The runs `writers`, `fresh_safety` and `registry_safety` have a `VIEW`, which
takes two states for one if neither a later step nor a property can tell them
apart: they differ in a variable of a call that has ended, in an event captured
and since removed, in the saved hash of a file that has changed anyway, or in a
history variable once the property about it is excused. Without it the two runs
and, one at a time, the parts of `writers` give the same, in three times the
states or more.

### `ScanLease`

`gate`, `lease` and `claims` are the files; `pc`, `tok`, `fp`, `seen`, `depth`,
`subject`, `late` are the locals of `acquireScanLease`, `acquireAcquisitionGate`,
`claimDeadGateGeneration` and the two `attemptRelease`; `held` are the leases
given to scans, `gateRetry` and `leaseRetry` the armed timers. A member of
`Proc` is the lifetime of one process: a restart is another member, and `pid`
may give it the pid of a dead one. `Expire` is the deadline of the gate's wait
loop, possible at any time. `GatePublish` to `GateReap` are the gate's loop,
`ClaimPublish` and `ClaimJudge` the claim chain, `LeasePublish` to `LeaseAgain`
the section the gate protects, `GateCheck`, `GateDrop`, `LeaseCheck`,
`LeaseDrop` the releases, `Beat`, `BeatRename` the heartbeat. Left out:
the timestamps in records, which `canReclaim` does not read, and the candidate
file that `publishNewLease` links.

Three history variables say where a read that failed, taken for "nothing there"
or "unparseable", did harm: `blind`, a live owner's lease was judged by its age
alone and unlinked; `gateLeft`, `leaseLeft`, a release took the process's own
file for another's and left it without a timer. The safety properties and the
refinement hold until then and except there, and say so.

### `Freshness`

`disk`, `graph` and `hash` are the version of each file on disk, in the stored
graph, in `hashes.json`. Hooks edit, mark and leave a drain behind; refreshers are
`autoRefreshIfStale`; scans are `navgator scan`. The time since `generated_at`
is two-valued (`recent`, `old`), with `Tick` ageing it. A scan is: take the
lease, detect, empty the store if it is a full one (`Wipe`), analyse, rewrite
the graph in place (`Truncate`, `Store`), save hashes, the callbacks, release.
`graph` is 0 where the store has nothing of a file. `unstored` (history) are the
files that a scan which was stopped, could not write or could not read has left
out of the store, and that none has stored since. The two locks are exclusive as
`WriterLock` is, which `ScanLease` implements until a live owner's lease is
reclaimed unread. That an emptied store makes most next scans full ones is
`ScanStore`'s subject, and not relied on here. Left out:
`dirty.json` of older versions, `clearDirty`, the git fields of the stamp.

### `ScanStore` and `History`

`ScanStore` has the files that a scan reads back, each with its own write, in
the order of the code; a scan may be killed or throw between any two (`Stop`),
and writes and analyses whose failure the code swallows may fail (`Errors`). A
file's content is a version. Connections are stored by random component ids, so `paired`
records whether the connections on disk were written after the components on
disk. `Imports` says which files import which; an import is seen only if both
files are there. Audit verdicts and the age of the last full scan are one
nondeterministic bit, `due`. Left out: the optional file per entity,
`graph.json`, `file_map.json`, metrics and reports, which no scan reads back.

`History` has what `ScanStore` leaves out because it does not steer a scan:
`snapshot` and `timeline`, and of the store only `graph` and `indexed`. A scan
finds any graph. `Promote` is the integrity check that fails; `KillScan`, and a
write that fails, may leave a file that is written in place unreadable, which the
code takes for absent. `told` is the graph that the entries saved so far add up
to, `flaws` what befell a scan meanwhile: it was killed or ended in mid-way
(`killed`), was a full one of a project that had a graph (`full`), went on
without its baseline (`baseless`), its entry (`untold`) or its stored graph
(`unstored`), or lost the earlier entries of the timeline (`lost`).

### `Registry`, `Journal`, `Memory`

In `Registry` the callers of one process share the queue (`Begin`); each then
goes through lock creation (`TryCreate`, `WriteRecord`, `UndoCreate`), the steal
(`Judge`, `JudgeStat`, `Confirm`, `Steal`), the mutation (`Load`, `Check`,
`Commit`) and the release (`ReleaseRead`, `Drop`). `Age` makes a lock file older
than `LOCK_STALE_MS`; `Expire` ends a waiter's budget; both may happen at any
time, so a holder may be slow. `truth` is what the registry would be had every
committed mutation been applied alone, `trace` what has happened; `misled` is
that a writer who had read nothing overwrote a registry. Left out: clock skew,
the v1 migration, writers that drop the revision.

`Journal` has files with an identity of their own: `live` and `old` are the
names, `file` the contents, and `fd` what a writer holds open, so that a record
may be written to a file that has been renamed or replaced meanwhile. A record
goes to the journal and, if it is a conflict, to the conflict log; both rotate
alike. `Capacity` records fill a file. Left out: the text of a record.

`Memory` is one project's record. `Register`, `Remove`, `Fix` with `Prune`, and
`WebRemove` change the registry and, but for the last, have events to capture;
`ReadBase`, `Check` or `CheckNoMore`, and `Commit` are the compare-and-swap of
`recordMemoryEvent`; `Copy` and `Forget` are `doctor`'s deletion of a record.
Left out: `events.jsonl`, whose rotation is `Journal`'s, the index, the mirror,
the health report, and several projects.

### `DeepMap`, `Partition`

In `DeepMap` planners, ingesters and agents are processes; `packet`, `result`,
`manifest`, `latest`, `findings`, `account` the files of the runs, each write a
step. Component ids carry the scan that minted them, packets and results the
plan (history) they belong to. Status is an operator (`Pending`). Left out: the
text of packets, byte caps, the validation of a finding's form.

`Partition` chooses any graph and any assignment to buckets, numbers components
in the order of rank, and runs `partitionComponents`: small buckets to the
residual, larger ones by size, too large ones split by a breadth-first search of
which each visited node is a step. The search's queue is a sequence of batches,
each in the order of rank. Left out: PageRank and community detection, which
choose order and buckets.

### `ImportCycles`, `DeadCode`

Both choose any graph and then run the code's own loop. `ImportCycles` keeps the
stack of frames, the visited set and the list of reported cycles; the order in
which a frame's imports are taken is any. `DeadCode` keeps the queue and the
reached set, with connections whose ends may be ids of no component; what is an
entry point and what is exempt is given.

## 3. Runs

| Run | Bounds | Shows |
|---|---|---|
| `writers` | lease: 2 processes, 2 pids, 2 acquisitions each, claim chain of 2, any read, unlink, link or rename may fail, retry timers, unparseable files at the start | `TypeOK`, `OneWriter`, `OneInGate`, `WriterOnDisk`, `NothingOrphaned`, `UnlinksWhatItChecked`, and that the lease implements `WriterLock` |
| | journal: 2 writers, files of 2 records, 6 records, failing stats, renames and truncates, abandoned calls | `GenerationBound`, `LossIsAge`, `ConflictsKept` |
| | memory: 2 callers, 3 events, 1 retry, 2 milestones, kills and failures | `FoldsAll`, `StatusFollowsRegistry` |
| | history: 2 components of 2 versions, 3 entries, limit 2, kills, and every failure that a scan swallows | `TimelineReplays`, `HistoryKept` |
| `lease_returns` | 2 processes, 1 acquisition each, with I/O errors, fair | `CallsReturnUnlessBlocked`: the one way not to return is that of finding 1 |
| `lease_stuck` | the same | **violated**: see finding 1 |
| `fresh_safety` | 2 hooks and a refresher on 1 file, 2 attempts, kills, scan errors, failures that a scan swallows, lock time-outs | `TypeOK`, `ClearedOnceScanned`, `NothingForgotten`, `OwnEditDrained`, `FlightHasACause` |
| `fresh_drained` | 2 hooks, 1 scan, fair, no kills | `EditDrained` |
| `fresh_flight` | as the first, no kills or errors | **violated**: see finding 2 |
| `registry_safety` | 3 callers in 2 processes, 4 kinds of mutation on 1 path, 1 replay, kills and failing operations, reads among them | `TypeOK`, `LossNeedsOverlap`, `OverlapNeedsBreach`, `ScansCountedOnce`, `StealsTheStale` |
| `registry_ends` | the same callers registering, fair | `MutationsEnd` |
| `registry_loss` | 2 paths, no kills or failures | **violated**: see finding 3 |
| `store_crash` | a module with two versions and an importer that comes and goes, cap of 1, kills, failing writes and reads, at most two faults that are to blame for something | `TypeOK`, `NoopIsCurrentUnlessBlamed`, `StoredGraphClosed`, `CapHonoured` |
| `store_late` | the two and a manifest, two versions each, no kills or failures | **violated**: see finding 4 |
| `graphs` | deep-map: 2 planners, 2 ingesters, 1 agent, 2 components, 2 plans or rescans, kills | `DeepMapTypeOK`, `StatusCounts`, `AccountAddsUp`, `AcceptedStays` |
| | partition: every graph of 4 components in 2 buckets, packets of 2, at most 2 packets | `EachOnce`, `FirstPartConnected` |
| | cycles: every graph of 4 files and at most 4 imports, with distinct names or a name twice, limit 3 | `CyclesAreReal`, `NoKnotMissed` |
| | dead code: every graph of 3 components, one dangling id and at most 3 connections | `DeadIsUnreachable` |

**Why the bounds are enough to be interesting.** Two pids for two processes make
pids recur; a claim chain of 2 has a claim, a claim on a dead claimant, and the
chain's end (16 in the code); two acquisitions let a retry timer of the first
meet the second. A dead owner, a contender that judges it and another that
replaces it take three processes: those, and any more, are covered by the
proofs, as is a chain of any length. Two drains and a refresher are the smallest
group in which one clears another's events under a third party's scan; two
attempts contain a retry and the giving up. Two callers of one process against
one of another separate what the queue gives from what the lock gives; one
replay contains a conflict and the unconditional commit. A module and its
importer are the smallest graph with a reverse dependency, and a cap of 1 makes
every second scan hit it. The journal starts with a full rotated file and a live
one that is one short of full, so that three appends rotate and a fourth meets
the second generation. Three entries against a limit of two prune once. Three
events fold and drop a milestone. Two plans of the same tier use the same packet
ids, which is what `StatusCounts` and `AcceptedStays` are about: replanning,
answering again and a refused packet do not disturb the first, only two plans of
one run that overlap do. Four nodes are a split bucket that needs three packets
of two against two allowed, and a cycle inside a cycle.
Each property has a mutant of the code's model that breaks it (`PROJECT.json`).

**Deadlock.** `CHECK_DEADLOCK FALSE` stands where the system stops by design:
every process has died, drawn its bounded tokens, or ended, or an algorithm has
its result. In `ScanStore` files can always be edited, and deadlock is checked.

**Fairness.** `ScanLease`: a process that is alive and not stopped goes on with
its call, its deadline passes, its timers fire; nothing is assumed of starts,
crashes, new calls, or how long a scan runs. `Freshness`: strong fairness of a
live process's steps, since a waiter polls a lock that is repeatedly free; this
is an assumption on the scheduler that polling does not strictly guarantee, and
`EditDrained` excuses a drain that used up its attempts. `Registry`: weak
fairness of a caller's steps, none of `Begin`; a waiter's budget expires,
whatever happens to the lock file meanwhile, which is the strong fairness of
`Expire`.

### Findings

1. `lease_stuck`. When the unlink of a dead owner's gate fails
   (`scan-lock.ts:371`), the retry meets the process's *own* claim, which is
   alive, so it waits, in a branch that does not look at the deadline. The
   synchronous call never returns, and every later contender waits with it.
   `CallsReturnUnlessBlocked` says that this is the only way.
2. `fresh_flight`. A drain with an empty snapshot publishes
   `scan_in_flight: false` without the lease (`drainer.ts:121`) while another
   drain is scanning, if a refresh has cleared that drain's events.
3. `registry_loss`. A comment says the revision check detects overlapping
   writers (`registry-lock.ts:178-180`). A holder stalled between the check and
   the rename is stolen from, both writers agree with the revision, and an entry
   is lost with nothing in the journal.
4. `store_late`. Hashes are taken at the end of the scan (`scanner.ts:2295`), so
   an edit made after a file was analysed is recorded as scanned.
   `NoopIsCurrentUnlessBlamed` names the other ways to a stale graph that
   nothing notices: a rebuild with hashes that still match cut short, a file
   that could not be read or analysed, and a file restored under or after a scan
   that stopped.

**Stated, violated and without a run of their own.** These definitions state what
a comment says; TLC finds a counterexample when the definition is added as an
INVARIANT to the cfg named.

| Definition | Cfg | What happens |
|---|---|---|
| `LiveRecordKept` ("A valid record is never reclaimed while its PID is live", `scan-lock.ts:395-396`) | `MCScanLease_stuck.cfg` | a record that could not be read, twice, is judged by its age alone (`scan-lock.ts:419-421`): a live writer whose heartbeats are late loses its lease to a contender that cannot read it; `NoFencing` is what holds |
| `OvershootByOne` (`registry-journal.ts:28-32`) | `MCWriters.cfg` | several appenders pass the size check before any of them writes, or neither rename nor truncate works; `GenerationBound` is the bound that holds |
| `TimelineAddsUp` (`scanner.ts:1711`) | `MCWriters.cfg` | a full scan compares with the last snapshot, which the incremental scans since have outdated; `TimelineReplays` is what holds |
| `StatusIsDone` (`deep-map.ts:15`) | `MCGraphs.cfg` | an old answer stands for a packet that was planned again |
| `PartsConnected` (`partition.ts:130`) | `MCGraphs.cfg` | a part starts from what the queue holds when the one before it is full, which need not be connected; `FirstPartConnected` is what holds |

**Seen while modelling and not modelled.** Two processes of one boot that compute
different boot identities off Linux (`scan-lock.ts:97`) fence each other; a first
failed drain writes `generated_at` "now"; a clean drain stamps the current commit
without a scan; a refresh that threw is not retried for five minutes; tier 3
drops an edge whose ends fall into two packets (`packets.ts:526-531`);
`doctor --fix` looks for orphans before it deletes them (`doctor.ts`), so a
project registered in between loses its record (`Memory` has this as a mark).

## 4. Proofs

No proof assumes more than the `ASSUME`s of its module, except where the table
names something. `StableBoot`: every process computes the same boot identity.
The code guarantees that on Linux (`/proc/.../boot_id`) and approximates it
elsewhere; without it `NoFencing` is false. `AutoOrFull`: no scan is asked to be
incremental by name. The command line allows that (`scan --incremental`); such a
scan builds on whatever a full scan that was stopped has left, so the theorem is
false with it, and the run leaves that mode out as well.

The `ASSUME`s are those of the code's own constants, and that markers are not
values: `None` is no lock, index, file content or caller, and the empty string is
no token (`TokenAssumption`; a token is eight random bytes).

| Module | Theorem | Says | Assumes |
|---|---|---|---|
| `ScanLease_proofs` | `TypeCorrect` | `Spec => []TypeOK` | |
| | `MutualExclusion` | `Spec => []OneWriter` | `StableBoot` |
| | `GateExclusion` | `Spec => []OneInGate` | `StableBoot` |
| | `LeaseStays` | `Spec => []WriterOnDisk` | `StableBoot` |
| | `UnlinksAreSafe` | `Spec => []UnlinksWhatItChecked` | `StableBoot` |
| | `LiveOwnerNotFenced` | `Spec => NoFencing` | `StableBoot` |
| | `FilesAreAccounted` | `Spec => []NothingOrphaned` | `StableBoot` |
| | `LeaseImplementsLock` | `Spec => ImplementsLock` | `StableBoot` |
| `Freshness_proofs` | `FreshTypeCorrect` | `Spec => []TypeOK` | |
| | `NothingClearedEarly` | `Spec => []ClearedOnceScanned` | |
| | `NoEditForgotten` | `Spec => []NothingForgotten` | |
| | `SettledDrainsOwn` | `Spec => []OwnEditDrained` | |
| | `FlightIsExplained` | `Spec => []FlightHasACause` | |
| `ScanStore_proofs` | `StoreTypeCorrect` | `Spec => []TypeOK` | |
| | `NothingDangles` | `Spec => []StoredGraphClosed` | |
| | `FullInTime` | `Spec => []CapHonoured` | |
| | `NothingToDo` | `Spec => []NoopIsCurrentUnlessBlamed` | `AutoOrFull` |
| `Registry_proofs` | `RegistryTypeCorrect` | `Spec => []TypeOK` | |
| | `NoSilentLoss` | `Spec => []LossNeedsOverlap` | |
| | `LockExcludes` | `Spec => []OverlapNeedsBreach` | |
| | `NoScanTwice` | `Spec => []ScansCountedOnce` | |
| | `OnlyStaleIsStolen` | `Spec => StealsTheStale` | |
| `Journal_proofs` | `JournalTypeCorrect` | `JournalSpec => []JournalTypeOK` | |
| | `OvershootIsBounded` | `JournalSpec => []GenerationBound` | |
| | `RecordsAgeOut` | `JournalSpec => []LossIsAge` | |
| | `ConflictsAgeOut` | `JournalSpec => []ConflictsKept` | |
| `Records_proofs` | `HistoryTypeCorrect` | `HistorySpec => []HistoryTypeOK` | |
| | `EntriesAddUp` | `HistorySpec => []TimelineReplays` | |
| | `LatestEntriesKept` | `HistorySpec => []HistoryKept` | |
| | `NoEventIsLost` | `MemorySpec => []FoldsAll` | |
| | `StatusIsCurrent` | `MemorySpec => []StatusFollowsRegistry` | |
| `DeepMap_proofs` | `DeepMapTypeCorrect` | `DeepMapSpec => []DeepMapTypeOK` | |
| | `StatusIsRight` | `DeepMapSpec => []StatusCounts` | |
| | `CountMatches` | `DeepMapSpec => []AccountAddsUp` | |
| | `NothingAcceptedIsLost` | `DeepMapSpec => AcceptedStays` | |
| | `PartitionTypeCorrect` | `PartitionSpec => []PartitionTypeOK` | |
| | `PacketsShareNothing` | `PartitionSpec => []EachOnce` | |
| | `FirstIsConnected` | `PartitionSpec => []FirstPartConnected` | |
| `Graph_proofs` | `CyclesTypeCorrect` | `CyclesSpec => []CyclesTypeOK` | |
| | `ReportsAreCycles` | `CyclesSpec => []CyclesAreReal` | |
| | `EveryKnotReported` | `CyclesSpec => []NoKnotMissed` | |
| | `DeadTypeCorrect` | `DeadSpec => []DeadTypeOK` | |
| | `VerdictsAreRight` | `DeadSpec => []DeadIsUnreachable` | |

They hold for every set of processes, pids, tokens, callers, records, components
and files, every limit and any length of the claim chain, and with the failures
that the table of section 2 lists. A property whose guarantee the code gives up
after such a failure names it: `blind`, `gateLeft` and `leaseLeft` in
`ScanLease`, `unstored` in `Freshness`, `overlapped` and `misled` in `Registry`,
`blame` in `ScanStore`, `flaws` in `History`, `excused` and `uncapped` in
`Journal`, `marred` in `Memory`. So the theorems say that nothing else breaks
them; they do not say that a failing disk is harmless. Few of the properties are
inductive; what each inductive invariant adds is the argument, given below.

**The lease.** `IInv` adds what the safety properties rest on: tokens are drawn
from a counter, so a token in any file was issued by a process that was born
(`FileTokens`, `CallTokens`); two live processes never share a pid
(`PidUnique`); the claims on one gate form a chain in which every claim but the
last belongs to a dead process (`Chain`), and a contender's place in its walk is
on that chain (`Walking`); whoever is in the critical section, or about to drop
the gate, owns the gate on disk (`GateHeld`); what a call knows of the lease is
still so, until a lease was reclaimed unread (`LeaseKnown`); a token is handed
out once (`HandedOnce`).
`ReclaimIsSafe` is the heart: `canReclaim` is never true of a live owner's
record, so what was judged dead stays dead (`JudgedDead`, `DeadForGood`), and
two live claimants of one gate are one (`OneClaimant`). Then a gate that is
about to be removed cannot change hands between the re-check and the unlink.
There is one lemma per conjunct of `IInv` (`StepChain`, ...), with one step per
action. That nothing is orphaned is a conjunct more (`Accounted`): a gate or a
lease of a live process is one that a call of its own is about to delete
(`GateCall`, `LeaseCall`), that it holds, that a timer is armed for, or that a
release could not read, and each step hands it from one of these to the next. The
refinement maps `up` to the live processes and `writers` to those that hold a
lease, until `blind`; an acquisition maps to `Acquire`, a release to `Release`,
the step that sets `blind` to the release of whoever writes, every other step to
a stutter or to a start or crash.

**Freshness.** The heart of `FreshIInv` is `ScanKnows`, what a scan may claim of
each file between the operations: a file outside of what it walks, and later one
whose stored version is not the one on disk, is `Owed` another scan, that is, has
an event that the scan did not capture (`Late`) or an edit whose hook has not
written its event (`Unmarked`), unless the stored graph lacks it (`Lacks`). So
when it clears what it captured, the graph has it, or lacks it; and what the
graph lacks was taken out by a scan that is at it, or is `unstored`
(`EmptiedKnown`). The two properties are then read off `Cleared` and
`Remembered`. `Locks` says who holds the lease and the mutation lock at each
operation, and with it that a stamp which a refresh has read is still there when
the refresh writes (`RefreshIsCurrent`), which is what `FlightHasACause` rests on.

**The store.** `Control` and `Counted` follow the mode and the counter through
a scan: an incremental scan knows that the count it read is below the cap, and
the count on disk lags only while one is under way. `Sources` and `Stored` say
that what a merge makes is closed and that what ended up on disk is what was
made. For `NothingToDo`, `Partly` says that a graph is right about the files
that still have the content that was hashed. An incremental scan starts from a
graph that is so (`Walks`), and what it, or a full scan, has made is the graph of
what it read (`Analysed`, `GraphOf`); a scan that stops leaves a graph that is
partly right, or a store that forces a full scan (`Rests`). Edits keep that unless
they put a file back (`NotRestored`). With nothing changed, partly right is right
(`PartlyIsWhole`).

**The registry.** One caller of a process is past the queue (`Queued`); unless
the lock was breached, who relies on it finds its own record in it
(`LockIsTheirs`); so one at most is between the read and the write, and what it
read is still on disk (`WritesInTurn`). The steal rests on a token naming one lock
file, since a caller creates one at most (`TokensIssued`): what was judged stale
is stale if it is still there (`JudgedStale`). A copy of the registry that a
caller holds counts no scan that was not made (`AllCounted`).

**The journal.** No two names are of one file and no writer holds a file of the
other log (`Apart`). A file's length and the number of writers that have passed
its size check and not yet written (`Aimed`) add up to less than its capacity
and all writers (`Room`), which `Stat` establishes and every other step keeps.
For each log there is a point (`cut`, in `Aged`) after which everything written
is in the live file or excused, and the live file holds no more than that: so
when a full live file replaces the rotated one, what goes is older than a full
file's worth of records. One lemma says what each kind of step does to `Aged`
(`AgedRotated`, `AgedRotatedEarly`, `AgedTruncated`, `AgedWritten`,
`AgedElsewhere`); `StepAged` finds which of them applies.

**The timeline.** `EntriesAddUp` needs that the graph a scan compares with is the
one the entries so far add up to, also after the graph itself has been cleared
by a promotion (`BaselineIsTold`), and that a scan carries what it found from the
comparison to the store (`ScanOK`); both only as long as no flaw but `lost`
befell a scan (`Steady`). `ChangesTell` says that applying the
difference of a baseline and a graph to the baseline gives the graph.

**Gator-memory.** `Folding`: a caller about to write has what it last saw as its
base, and the record is the fold of `folded`; `LatestAppend` says that the latest
milestones of a sequence can be kept from the latest milestones and the next one.
`Following`: the newest event is still to be captured by some caller, or was the
last to be folded, and its kind says whether the project is registered. Both hold
until something of what `marred` names has happened.

**Deep-map runs.** No lock orders these commands, so `DeepMapIInv` is about what
each of them has read. What refers to a packet is written after it (`OnFile`).
What the host was told of, hands out or gets back is on the run's list, since a
plan lists what it read as well as its own (`Reported`), so the subtraction in
`readStatus` is of a subset. Between its two writes an ingest finds its own
findings on file (`Accounts`). A finding on file would be accepted again, by what
is on disk and by what each ingest under way has read (`Accepted`).

**The partition.** `Ledger` says where each component is: settled in a group, in
the part or the queue of the bucket being split, unseen in it, in a bucket yet to
be grouped, or in the residual bag, and in one of these only. The queue is a
sequence of disjoint batches; `RequeuedIsApart` says that
taking a node from the first and appending its unseen neighbours keeps it so.
The sizes rest on the cardinality facts of `FiniteSetTheorems`. That the first
part of a connected bucket is connected needs two facts more: a bucket that is
kept has no group yet (`KeptHasNone`), and until a bucket has its first group,
nothing it has seen was put aside and each component in the queue is next to one
of the part (`Grows`). A second start within the bucket would contradict that it
is connected; `OneMoreConnected` is the one fact about paths, and closed sets
spare an induction over them.

**Import cycles.** The stack is a path of imports without repetition through
entered files, each with imports of its own left to look at (`OnPath`); a cycle
is what the stack holds from a file on and the import that leads back to that
file (`BackEdgeCloses`). `NoKnotMissed` needs what the search knows of the files
it has left (`SearchKeeps`): what they import was seen; an import that leads back
to the stack was told of; and so was the knot of each of them, unless a file of it
is still on the stack. The step that could break the last is leaving a file
(`PopKeeps`): if no file below is in its knot, its chain is a closed set of files
that were left, so the import that leads back to it was looked at while it was on
the stack. A cycle passes for reported by its names (`ReportedCovers`): the two
have a file in common, hence are of one knot, only if names are distinct.

**Dead code.** Reachability is stated by closed sets: a component is alive if it
is in every set that has the entry points and is closed under the connections
that leave components. What was reached is in every such set, and but for the
queue it is one itself (`SweepIInv`), so no induction over paths is needed.

**Only model-checked.** All liveness (`CallsReturnUnlessBlocked`, `EditDrained`,
`MutationsEnd`), which the prover does not do under fairness. The runs that
expect a violation show a behaviour, and have nothing to prove.

## 5. Not modelled

Source scanners and parsers, metrics, the audit's statistics, PageRank and
community detection compute from text or with real numbers and have no state
that others see: what they yield is given, as any graph. Command line, MCP
dispatch, dashboard, hooks and prompts are callers of the components above.
Enrichment cache and lessons are files written whole, where the last writer wins
by design. `PROJECT.json` says the rest, part by part.

## 6. Plan

Done: `WriterLock`, `ScanLease`, `Freshness`, `Registry`, `ScanStore`, `Journal`,
`Memory`, `History`, `DeepMap`, `Partition`, `ImportCycles`, `DeadCode`, with the
proofs of section 4. What is left, in order:

1. An abstract store ("a reader sees the graph of some completed scan") and a proof
   of what `ScanStore` implements of it.
2. Impact, trace and subgraph against reachability, as `DeadCode` is.
3. The mirror of gator-memory and the clone cache of the remote scan.
