# commitlog: a verification project in TLA+

`commitlog` is a segmented, append-only log: records get consecutive offsets,
are written to the active segment, and segments roll, are truncated at either
end, compacted, joined, and moved to remote storage. This directory models its
concurrent and crash-prone parts, checks them with TLC on small instances, and
proves the most important invariants with TLAPS for every value of the
constants.

Source references are to files under `src/`.

## 1. The system

### Parts and their state

| part | files | state |
|---|---|---|
| log core | `commitlog.go` | `segments` (copy on write), `vActiveSegment`, `hw`, `readonly`, `hwWaiters`; locks `appendMu`, `cleanMu`, `mu` |
| segment | `segment.go`, `index.go`, `block_table_local.go` | log file, memory-mapped index, block table; `NextOffset`, `position`, `sealed`, `closed`, `dirtyData`, `left`, `replacement`, waiters |
| group commit | `commitlog.go` (`Sync`, `SyncAll`), `segment.go` (`sync`) | `syncDurable`, `syncFlushing`, `syncDone` |
| leader epochs | `leader_epoch_cache.go` | list of (epoch, offset) and its checkpoint file |
| recovery | `commitlog.go` (`open`, `resolveSegmentOverlaps`, `RecoverTail`), `segment.go` | what a directory holds after a crash; the HW checkpoint file |
| truncation | `commitlog.go` (`Truncate`, `TruncateBefore`), `segment.go` (`Replace`, `Trimmed`, `Finalize`, `Delete`) | working files, renames, unlinks |
| readers | `reader.go`, `read_options.go` | place in a segment, bound, list snapshot, waiters |
| maintenance | `clean.go`, `compact_cleaner.go`, `keydigest.go`, `delete_cleaner.go`, `clean_join.go` | the pass in flight, key digests, replacement links |
| tiering | `tier*.go`, `manifest.go`, `segment_store.go`, `index_cache.go` | manifests, remote objects, reclaim queue, cached indexes |
| formats | `message*.go`, `block*.go`, `encoder.go`, `compress/` | none of their own |

### How they interact

`Append` holds `appendMu`: it may roll (publish a new segment, then seal the
old one), writes, and wakes readers. `Truncate` holds `cleanMu` and `appendMu`;
`TruncateBefore` and maintenance hold `cleanMu` only, so appends and rolls go on
beside them. Readers, `Sync` and the checkpoint tick take snapshots of the
segment list and hold no log lock while they walk it. Everything that changes
the list publishes a new slice under `mu`; a segment that left it says what took
its place. The epoch cache has its own lock and is told of appends, truncations,
retention and elections by their callers, after the fact. Tier jobs upload under
fresh keys, publish manifests, then repoint the segment, and delete what they
superseded in a later pass. `open` has only the directory and the manifests to
go by.

### What is hard to test here

* a flush, a read or an assignment that uses a value read before another actor
  ran (tail, watermark, snapshot, dirty mark, digest);
* a crash between any two of the file operations of a truncation, a rewrite, a
  join, or the store operations of a tier job;
* a checkpoint, an index, a block table or a digest that describes another file
  than the one beside it;
* an unlink, a rename, an fsync, a write or a Put that fails part way;
* a wakeup that falls between deciding to wait and waiting.

`PROJECT.json` lists these at the lines where they bite.

### What correctness means

1. A record whose append returned, and nobody asked to remove, is found exactly
   once; a record a returned `Sync` covered survives a power loss.
2. What `open` hands back has no gap and commits nothing; a killed log opens.
3. The watermark never names a record beyond the log.
4. A segment's log, index and block table describe one another.
5. An epoch probe cuts a follower's log where the histories part: never below a
   shared record, never above a divergent one.
6. Readers serve what they may, in order, and are never left parked.
7. Compaction changes nothing a reader of decided records can see, and removes
   in the end what it may remove.
8. A tier job loses no record, deletes nothing under a reader, and leaves nothing
   behind for ever.

## 2. Modules

| module | models | checked by |
|---|---|---|
| `LeaderEpoch`, `MCLeaderEpoch` | epoch history and its callers | `epoch_history` |
| `LeaderEpochProofs` | | type, `AnchorsAscend`, `ProbeKeepsSharedHistory`, `ElectionIsRecorded`, `ProbeCutsAboveFloor` proved |
| `SyncBarrier`, `MCSyncBarrier` | `Sync`, `SyncAll`, dirty marks | `sync_safe`, `sync_live` |
| `SyncBarrierProofs` | | type, `CleanMeansFlushed`, `SyncKeepsItsPromise` proved |
| `CommitLog`, `MCCommitLog` | the log on disk, truncation, crash, `open` | `log_recover`, `log_cut_hole` |
| `CommitLogProofs` | | the log's shape (`Sound`) proved |
| `CommitLogStepProofs` | | `WatermarkIsBacked` proved |
| `CommitLogSurvivalProofs` | | `LiveSurvives`, `TrimsLeaveNoHole`, `OpensAfterKill`, `SyncedSurvives` proved |
| `SegmentFile`, `MCSegmentFile` | one segment's log, index and block table | `segment_open`, `segment_failed_rename` |
| `Readers`, `MCReaders` | readers, waiters, compaction under them | `readers_follow`, `readers_skip`, `readers_leak` |
| `ReadersProofs` | | `ParkedAtTail` proved, and what searches find |
| `CommittedReadersProofs` | | `ServesOnlyCommitted`, `CommittedInOrder` proved |
| `Cleaner`, `MCCleaner` | the maintenance pass | `clean_pass` |
| `Lookup` | searches over a list a pass has overtaken | through `Cleaner` |
| `Transactions` | what the layer above writes and decides | through `Cleaner`, `KeyedLog` |
| `KeyedLog` | the promise of a compacted log | refined by `Cleaner` |
| `Tiering`, `MCTiering` | offload, manifests, moves, reclaim, sweep | `tier_pass` |
| `IndexCache` | the remote index cache | through `Tiering` |
| `IndexCacheProofs` | | `IndexStaysUnderSeek`, `NoIndexFileLeaks` proved |

Every model has a constant `Settings`, a set of records that say which operations,
races and faults there are and over how many offsets; a behaviour runs under one
of them (`setting`). So one run checks several instances, and a property that the
code promises only under some conditions names them. The settings that a passing
run leaves out are the subject of section 5.

Operators called "Mutant" or "Variant for mutation" are the plausible bugs each
property is tested against: with one of them in place of the definition that
follows it, TLC reports the property violated. `TypeOK` says what the variables of
a module hold; where it is not among a run's invariants it can be added to them.

### LeaderEpoch

`cache` is `epochOffsets` as a function from epochs to anchors, `file` its
checkpoint. `recs` maps each record to the epoch of the leader that wrote it.
`NewLeaderEpoch` and `AppendMessageSet` each take two steps, the read of the tail
and the `Assign`, with `electing` and `pending` holding what is owed, because
other operations run between. An `Assign` whose flush fails ends the append: later
epochs of the batch are not assigned. `Append`, `Truncate`, `TruncateBefore`, `Clean`
and `Reopen` (a close or a crash followed by an open) are one step each. A log is
truncated while it follows and no election's Assign is owed, as the layer above does it;
nothing in the code keeps it to that, and with `cutLeading` it is not kept to it.

### SyncBarrier

A file is a segment object with the file under its handle, numbered by creation,
with `base`, `next` and `stable` (what an fsync has covered). The callers are
goroutines with a program counter through `Sync`: check under `syncMu`, wait or
lead, read the tail, take the snapshot, and for each segment take the dirty mark
and fsync. `promised` is history: the highest offset a returned call covered.
The races of a setting are `SyncAll`, `Truncate`, a trim by `TruncateBefore`, and
`Close`.

### CommitLog

A segment is its base offset; `end`, `idx`, `stable`, `torn` describe its bytes.
`op` is the truncation in flight: `Truncate` = unlinks, `ReplaceLog`,
`TruncatePublish`; `TruncateBefore` = `FinalizeLog`, `TruncateBeforePublish`,
unlinks. `Kill` stops the process anywhere, with part of an append in the file.
`PowerLoss` also takes away any suffix nothing fsynced. `open` rebuilds indexes,
drops or refuses partial frames, resolves overlaps and clamps the watermark.
`live`, `synced` and `committed` are history.

### SegmentFile

One segment in closer view: `s.log` is a sequence of blocks of record offsets (one
record a block without compression), `s.slots` and `s.pos` the index, `s.mapped`
how much of it is mapped, `s.blocks` the block table. An append writes the log and,
in a second step, the index (`st = "entries"`), which may have to grow: each of
truncate, unmap and map can fail. A rewrite is installed by two renames with a
step between (`"renamed"`) and the removal of the source's table after
(`"installed"`). `Kill`, `PowerLoss` and the open follow `setupIndex`,
`indexOvershootsLog`, `rebuildIndex`, `reconcileIndexTail` and
`loadLocalBlockTable`. Seeks are the operator `findEntry`, searched as the code
searches. `acked` is history: what the log owes.

### Readers

A committed reader loads the watermark, takes a snapshot, compares its bound with
the tail, and registers, each in a step of its own; an uncommitted one reads, looks
for the next segment, and waits; a caller of `NotifyLEO` loads the active segment
and the tail. The writer's roll, seal, write and wakeup are separate steps too.
A segment is its base and whether it is the original or its rewrite: compaction
replaces a sealed segment, the original stays in the lists readers hold, and a
reader that meets it retries as `readOne` and `newSourceReader` do. Callers may
cancel, and the log may become readonly or close, in two steps each.

### Cleaner, Lookup, Transactions, KeyedLog

`seg` and `digest` are the files, `list` the published list as its objects describe
themselves, `away` the replacement links, `pass` the pass in flight with what it
read, decided and still has to do: age and size retention, digests, merge, rewrites
within the budget (deferred ones last), the refresh of digests, planning, joining
and retiring, publishing. Records are puts and deletes of a key, records without a
key, transactional ones and their commit and abort markers; `CleanSpec` gives a
ceiling, a strip boundary, the aborted records and which tombstones expired. An emptied
segment whose removal fails (`CleanupEmptyFails`) stays listed, without its digest and
unreadable, until the log is opened again.
`Transactions` says what is decided and visible. `Lookup` has the binary searches
over a list in which objects have been replaced: `findSegment`, the first record of
a read, and the search by timestamp with its ties.

`KeyedLog` is the abstract specification: the newest decided value of each key, the
decided records without a key, and the undecided suffix as written. Appends change it,
retention of a prefix where the log has a limit, and truncation of a suffix where its
caller makes any; nothing else does.
`ImplementsKeyedLog` is the refinement: `view`, computed from the files at each
step, plays the abstract variables.

### Tiering, IndexCache

`objects` and `manifest` are the stores, `disk` the directory, `segs` what memory
says of each segment and where it reads from. `job` holds `cleanMu` and goes
through an offload or a pass (rewrite, join, move, release, final publish): upload,
one manifest Put for each tier, attach or swap, reclaim. A Put fails before or
after it lands, and so do deletions, of local files and of objects: one in the middle
of a pass ends it with the segment closed. `late` is a truncation's deferred publish.
`sweep` is the operator's `UnreferencedObjects`, which takes no lock and reads the
manifests, the segments and the stores one after another; `orphans` is what it returned
and `DeleteStoreObjects` may be given. `flipped` is history: the tiers handed over since
the job in flight began. `scan` holds an object by
reference, `lock` is the segment's read lock held by a seek. `Crash` keeps stores
and directory only, and the open (`mergeTierManifests`, adoption, `keptBases`)
decides from them. `IndexCache` is composed in by INSTANCE: `Acquire`, `FetchDone`,
`FetchFails`, `Release`, `Invalidate`, with the file each key's download is in;
`Peers` are seekers of another handle on the same stores, which may still name an object
this one has superseded.

### Abstractions

* The log is dense in `SyncBarrier` and `CommitLog`; holes made by compaction are
  in `LeaderEpoch`, `SegmentFile`, `Readers` and `Cleaner`.
* Record contents are tracked in `Cleaner` only. In particular `CommitLog` cannot
  tell a record from an older one at the same offset.
* Directory changes and atomically replaced files are durable at once, file
  contents only by fsync.
* The batching window's length is left out of `SyncBarrier`; the window is the gap
  between `Enter` and `ReadTail`.
* `SetHighWatermark` names a record of the log in `CommitLog`, and one at most
  one beyond it in `Readers`.
* Frames have one length in `SegmentFile`, and a block's stored length is a header
  and its records: sizes are told apart, bytes are not.
* In `Cleaner` a key digest is the content it was built from, its size and its
  stamp, and the clock advances every other record. The log has one tier there.
* In `Tiering` a segment's log, index and block objects are one object, and which
  records a rewrite drops is any choice (`Cleaner` says which ones it is).

## 3. Runs

| run | checks | instance | shows |
|---|---|---|---|
| `epoch_history` | `TypeOK`, `AnchorsAscend`, `ProbeKeepsSharedHistory`, `ProbeCutsAboveFloor`, `ElectionIsRecorded` | epochs 0..2; offsets 0..4 with nothing unusual, 0..2 with every race and failure | probes cut where histories part and every term is recorded; nothing breaks the first two guarantees |
| `sync_safe` | `TypeOK`, `SyncKeepsItsPromise`, `CleanMeansFlushed` | 2 callers, 1 failed fsync; 3 offsets and 3 files; 2 offsets and 2 or 3 files with two of `SyncAll`, trims, `Close` | a returned `Sync` is kept; a clean mark is never a lie |
| `sync_live` | `SyncReturns` | 2 callers, 2 offsets, 2 files, 1 failure; `Truncate`, `Close` | no `Sync` waits for ever |
| `log_recover` | `TrimsLeaveNoHole`, `LiveSurvives`, `SyncedSurvives`, `OpensAfterKill`, `WatermarkIsBacked` | offsets 0..3; trims with batches; both truncations and `OverrideHighWatermark`; both with a failed unlink or write; `Sync`, `SyncAll` and a power loss | every kill inside either truncation leaves each live record in exactly one segment of a log that opens |
| `log_cut_hole` | `HoleFree` (violated) | offsets 0..4, `Truncate` | section 5 |
| `segment_open` | `TableDescribesTheFile`, `EntriesAreBacked`, `SegmentOpens`, `TailIsTheFiles`, `SeekFindsItsRecord` | both layouts, offsets 0..2 or 0..3, batches to 3, an index that grows by 2, 1 failure | the three files keep describing one another |
| `segment_failed_rename` | `SeekFindsItsRecord` (violated) | per record, a rewrite whose second rename fails | section 5 |
| `clean_pass` | `LookupsFindTheirRecord`, `VerifiedFloorHolds`, `LoadedDigestsAreCurrent`, `OpenAcceptsTheFiles`, `ImplementsKeyedLog`, `DebtDrains` | 4 or 5 records of one key and one producer, rolls at 1 or 2, 1 or 2 crashes or failed removals; nine settings | a pass changes nothing readers of decided records see, and finishes its work |
| `tier_pass` | `RecoversEverything`, `ServesLive`, `ReadersKeepTheirObject`, `CacheKeepsItsFiles`, `ReadOnlyRespected`, `ReclaimDrains` | 2 tiers, 1 or 2 segments, up to 2 faults, a scan, a seek of this log and two of a peer; fourteen settings, five of them with tiers handed over during jobs | no tier job loses, or deletes under a reader, what is wanted |
| `readers_follow` | `CommittedInOrder`, `ServesOnlyCommitted`, `ParkedAtTail`, `CommittedDelivered`, `ReadonlyEnds`, `UncommittedDelivered`, `ClosedEnds`, `BoundedEnds`, `LEOWaiterWakes` | 2 or 3 records, segments of at most 2, of 3 beside compaction; five settings | readers serve what they may, in order; no wakeup is lost; ends are reported |
| `readers_skip` | `UncommittedInOrder` (violated) | appends and rolls only | section 5 |
| `readers_leak` | `ServesOnlyCommitted` (violated) | 4 records, compaction of the segment a reader is limited in or reads | section 5 |

### Why the bounds are enough

Two callers give every pair of roles at the barrier (leader and follower, two
walkers on one segment); a third would repeat one. Three or four offsets and files
give a segment to remove, one to cut and one to keep, and a roll after each. One
failure is enough where each property is to hold after any number, since every
continuation from the first is explored; two are there where the second meets what
the first left behind (a crash after a failed removal, a sweep after a failed Put).
Two epochs above 0 give a probe an older, an equal and a newer entry. Readers share
only the log, which no reader writes, so one reader that may be of either kind shows
what many would do. In `SegmentFile` an index that grows by two entries grows at the
second append, and a batch of three exceeds one growth. In `Cleaner` one key is
enough because keys do not interact in the merge; five records in segments of one
or two give an older value, a newer one, a tombstone or a marker, in the same and
in different segments, and an active segment on top. In `Tiering` two segments are
needed for a join, one for everything that changes a single segment, and two tiers
are every pair a move touches. Three or four objects are those of the segments, what
supersedes one, and at least one that a crash or a failed upload left; more of the last
kind, which nothing names, would change nothing but what a sweep lists. Two
seekers of the other handle let one meet what an invalidation left to the other.

### Fairness

Only liveness properties use it.

* `SyncBarrier!FairSpec`: weak fairness of each caller's next step. Goroutines that
  can run do, the window's timer fires, an fsync returns. Nothing is assumed of
  appends, rolls or truncation.
* `Readers!FairSpec`: weak fairness of each reader's and of the `NotifyLEO` caller's
  steps, and of finishing a call that has begun (`Seal`, `appendWith`,
  `SetReadonlyNotify`), which the code does without waiting for anyone. Nobody has to
  append, to move the watermark or to close the log.
* `Cleaner!FairSpec`: the cleaner's ticker starts a pass when none runs, and a pass
  goes on. Crashes and failures are bounded by the setting.
* `Tiering!FairSpec`: passes start, jobs and deferred publishes go on, and a scan lets
  go of its object. Nobody has to offload or to move.

`CHECK_DEADLOCK FALSE` stands where the system really may stop: a closed log
(`SyncBarrier`, `Readers`), a log or a segment `open` refuses (`CommitLog`,
`SegmentFile`), the end of the bounded offsets and epochs (`LeaderEpoch`). `clean_pass`
and `tier_pass` check for deadlock.

## 4. Proofs

All proof modules prove `Spec => []Inv` from an inductive invariant, with one lemma
per action, for every value of the constants satisfying the named assumptions
(`EpochAssumption`, `SettingAssumption`, `SyncAssumption`, `LogAssumption`,
`ReadersAssumption`: the bounds are naturals, at least one file exists, the settings name known calls, races and
faults).

**LeaderEpochProofs.** `AnchorsAscend` is not inductive: the cache is reloaded
from the checkpoint file, and receives Assigns computed earlier. `IInv` therefore
says of all four of `cache`, `file`, `electing` and `pending` that they are `Good`
against the records: anchors ascend with epochs, every record above an entry's
anchor is of its epoch or a later one, and no entry is above the current term.
Removing records and raising anchors keeps entries good (`GoodRaised`), appending
records of the current term does (`GoodGrown`), and so does making an owed Assign
(`GoodAssign`). The theorems `TypeCorrect`, `AnchorsAlwaysAscend` and
`ProbeAlwaysKeepsSharedHistory` follow, in every setting.

That an election is recorded, and that a probe's answer is not too high, hold in the
plain protocol only (`setting.may = {}`; section 5 has what
each situation does to them). `assign` refuses without a word when an epoch or an anchor
is below the latest, so `PlainInv` says why it will not: an owed Assign is at or above
every anchor of the cache, a batch's is above it in epoch too, and no anchor reaches the
next offset. `Covered` says that every record but the oldest has an entry of its epoch,
anchored below it, in the cache or in an Assign that is owed.
`ElectionIsAlwaysRecorded` and `ProbeAlwaysCutsAboveFloor` follow.

**SyncBarrierProofs.** `CleanMeansFlushed` needs to know that the
fsync that is out on a clean segment covers all of it, since an append would have set
the mark again: `Marks` says so, and `Bounded` that no caller holds a file not yet
created. `MarkInv` is inductive under every race, which gives `TypeCorrect` and
`CleanAlwaysMeansFlushed`. `SyncAlwaysKeepsItsPromise` is about settings without
races. `PlainInv` adds that no published file is closed, that there is one leader at a
time, that nothing the barrier compares lies past the tail, and `Walk`: a file a
leader has passed, or never had to visit, is stable up to the tail it read before
its walk. That tail is what it publishes, which keeps every published file flushed
up to `syncDurable`.

**CommitLogProofs.** `Sound` is the base of what follows, in every setting, whatever
fails: types, listed segments that are disjoint and in order, a file for each of them
but those a truncation has deleted (`left`), and the shape of the truncation in flight
(`CutShape`, `TrimShape`: where it cuts, what it has yet to delete, and that the list it
publishes is not empty). The theorem is `LogIsSound`. `open` computes maxima and minima
of sets of bases, so the module begins with what `Max`, `Min` and `Cardinality` are on
the sets that occur.

**CommitLogStepProofs.** `WatermarkIsAlwaysBacked`. The first half, `hw` at most
`NewestOffset`, is `Backed`, which every step but the one between the two renames of a cut
keeps. The second, that opening never commits, holds where the log only moves forward
(`Forward`: neither `Truncate` nor `OverrideHighWatermark`). It needs `ForwardInv`: the
last file is the active segment, nothing reaches past its base, and an fsync of *that*
file covered what the checkpoint claims, because the tick fsyncs the active segment
before it writes; a roll begins a file above all of that.

**CommitLogSurvivalProofs.** Three invariants on top of that one, each for the settings
that its property is about.

* `Whole`, where no file operation fails and the machine keeps its power. Of any two
  files in the directory one lies after the other, or is its end (`Nested`): this is what
  `open` finds after a kill and what lets it drop the contained one. Every live record is
  in a file. While the log runs, the files are the listed ones, with the trim that is not
  yet published or the sources not yet deleted beside them (`InPlace`); inside `Truncate`
  they are those it has not deleted yet, and the live records lie before the cut
  (`InCut`). `LiveAlwaysSurvives` and the first half of `KilledLogOpens` follow.
* `Seamless`, where the log moves forward as well: each file but the last ends where
  another begins, and so does each listed segment. A trim deletes upwards from the front,
  so what is left after any of its deletes has no hole. A partial frame is only ever in
  the last file, above the checkpoint. `TrimsNeverLeaveAHole` and the second half of
  `KilledLogOpens` follow.
* `Durable`, where nothing is truncated, through any number of power losses and failed
  appends: files do not overlap, and an fsync covered every synced record. With `Whole`
  it gives `SyncedAlwaysSurvives`, for the settings of `SyncIsFinal`: nothing is
  truncated, or nothing fails, or nothing is synced. Those of `log_recover` are among
  them. The premise is needed: see "truncations with faults `power`" in section 5.

**ReadersProofs.** `LogShape` is what every step of the log keeps: the segment bases, the
records between them, the active segment last and never rewritten, where a roll stands.
`ParkedAtTail` needs little more (`UncommittedInv`): a parked reader is at the end of the
log, in a segment not yet sealed. It holds because registering and looking at the size are
one step under the segment's lock, and because a write wakes the segment's waiters and a
roll seals it. `ReadersParkAtTheTail` is for every setting. The module then has what the
proofs of the committed readers rest on: where `findSegment` ends in a list that
compaction has overtaken (`Locate`), and that a step of the log keeps what a reader relies
on unless it rewrites a segment of `Relied` (`CommittedKeeps`).

**CommittedReadersProofs.** `ServesOnlyCommitted` and `CommittedInOrder` are not inductive:
a reader is limited in one segment object, `hwSeg`, and nowhere else, and it is moved by
searches in lists that are older than the log. `CommittedOK` says of a reader, step by
step, that the first record from its bound on is in `hwSeg` and is committed
(`HoldsBound`); that its own segment comes no later than `hwSeg`, and that between its
place and the segment's base there are only dropped records (`InPlace`); that the list it
walks reaches past its bound (`Walks`); and that it has served all that is kept below its
place (`Served`). `DroppedBelow` says that compaction dropped nothing at or above the
watermark. One lemma for each step of a reader follows the code through being built,
reading, the end of a segment, `syncHW`, `clampHW`, and being built anew. The theorems
carry the premise `Quiet`: no `OverrideHighWatermark`, no rewrite of a segment of `Relied`,
and no compaction beside a watermark that leads the tail. Each of the three is needed
(section 5), and every setting of `readers_follow` satisfies them.

**IndexCacheProofs.** The cache alone, with any number of seekers and keys and any
budget (`CacheSpec`). That a seek's file stays needs to know that nobody downloads over
it: `CacheHeld` says that a cached key's file is its entry's, and that a key is
downloaded by one seek at a time, while it is not cached and nobody reads it. The
assumption is in the next-state relation, as `Wanted`: no seek starts on a key whose
entry was invalidated under a seek that still reads it. A log keeps it because an object
key is superseded once and its segment names another from then on. Two handles that
share a cache directory need not keep it (`FetchInUse` in section 5); `Fetchable` is the
same condition in `Tiering`.

**Model-checked only.** The liveness properties (`SyncReturns`, `CommittedDelivered`,
`UncommittedDelivered`, `ReadonlyEnds`, `ClosedEnds`, `BoundedEnds`, `LEOWaiterWakes`,
`DebtDrains`, `ReclaimDrains`) are out of this prover's reach. So is what the folds and
recursive functions of `SegmentFile`, `Cleaner` and `Lookup` compute for every input,
and with it the refinement of `KeyedLog`. The safety invariants of `SegmentFile`,
`Cleaner` and `Tiering` are checked on the instances above and not proved.
`SyncedSurvives` beside truncations and failing writes or deletes, without a power loss,
is neither violated on three offsets nor proved. No recursive operator is used.

## 5. Where code and documentation disagree

Four runs end in a violation, and `PROJECT.json` quotes the lines.

* `readers_skip`: an uncommitted reader that has read a segment to its end asks
  for the next segment in a later step. If the writer appends to the segment, rolls
  and appends again in between, the reader goes to the new segment and never
  serves the record in between. `reader.go:496` reasons that a segment without
  more bytes was either rolled or is not written yet.
* `readers_leak`: a committed reader is limited only in `hwSeg`, the segment object
  that held the watermark when it looked. If compaction replaces or empties that
  segment before the reader comes to it, the reader goes on in the replacement, which
  is another object, and reads to the end of the log, past the watermark. So does a
  reader inside the segment: it goes on serving what it has buffered of the old
  object, while the watermark it loads next is located in the new one. The passing
  run rewrites no segment in those two situations (`Relied`).
* `log_cut_hole`: `Truncate` unlinks the segments above the cut upwards. A kill
  between two unlinks leaves a gap, and `open` accepts it, although
  `commitlog.go:1145` calls a hole the one outcome recovery refuses.
* `segment_failed_rename`: `Replace` renames the rewrite's log over the source's; when
  the index's rename then fails it cannot put the source back, and reopens it over a
  new, empty log.

More appear in settings that the passing runs leave out, or where a property is
stated without its premise. Each line names the property that TLC then reports
violated. Settings with a name are in the `MC` modules.

| setting | violated | what happens |
|---|---|---|
| races `SyncAll` | `SyncKeepsItsPromise` without `Races = {}` | `SyncAll` has taken a segment's mark and is inside its fsync; `Sync` skips the segment and returns first (`segment.go:2492`) |
| races `Truncate` | the same | `syncDurable` stays above the cut, so offsets handed out again count as flushed (`commitlog.go:3288`) |
| races `trim` | the same | `Finalize` replaces a flushed segment by an unflushed copy (`segment.go:2995`) |
| races `Close` | the same | `Close` fsyncs the active segment only, and a walk takes a closed segment for a flushed one (`segment.go:2479`) |
| epochs, may `trimActive` | `ProbeCutsAboveFloor` without its premise | `TruncateBefore` moves the epoch floor above a segment it keeps whole (`commitlog.go:3028`) |
| epochs, may `trimEmpty` | `ElectionIsRecorded` without its premise | with an empty active segment the floor is one above the tail, and the next `Assign` is silently ignored (`leader_epoch_cache.go:324`) |
| epochs, may `unstamped`, `trimInAssign`, `cutInHole`, `flushFails` or `crashInAssign` | `ProbeCutsAboveFloor` without its premise | an anchor is missing or too high |
| epochs, may `cutLeading` | `ProbeCutsAboveFloor`, `ElectionIsRecorded` without their premises | a truncation of a leader, or between an election's read of the tail and its `Assign`, takes away the term's entry, or leaves it above the tail (`commitlog.go:2270`) |
| log, faults `power` | `HoleFree` | the checkpoint fsyncs the active segment only; a sealed one may end early, and `open` accepts it (`commitlog.go:3460`) |
| log, `TruncateBefore` with faults `delete` | `HoleFree` | a file whose unlink failed comes back at the next open (`commitlog.go:3038`) |
| log, both truncations with faults `delete` | `OpensAfterKill` without its premises | a trim's source that was not unlinked overlaps the trim without containing it, and the log no longer opens |
| log, `Truncate` | `WatermarkIsBacked`, `OpensAfterKill` without their premises | the cut lowers the watermark in memory, the checkpoint still names the old one: records written later count as committed (`commitlog.go:2752`), or `open` refuses a partial frame (`commitlog.go:1188`) |
| log, truncations with faults `power` | `SyncedSurvives` | `Replace` and `Finalize` put a copy that no fsync covered in the place of a flushed segment: a loss of power takes records that `Sync` had answered for and that the truncation was to keep (`segment.go:2995`) |
| log, faults `write` | `LiveSurvives` without its premise | bytes of a failed write stay, and later frames lie past their index positions (`segment.go:1913`) |
| `BlockRewrite` | `SegmentOpens`, `SeekFindsItsRecord` | a kill between the renames of a block rewrite leaves the source's index, which for blocks is kept when its entries fit: a dropped tail makes the open refuse, a dropped middle misleads seeks (`segment.go:1271`) |
| `BlockJoin` | also `TableDescribesTheFile`, `TailIsTheFiles` | the source's table adds up to the joined file's size and is believed (`block_table_local.go:95`) |
| `CutBetweenBlocks` | `SegmentOpens` | a power loss that ends a block file at a block's end leaves an index beyond it, which the open refuses (`segment.go:1257`) |
| `SidecarKept` | `SegmentOpens`, `TableDescribesTheFile`, `TailIsTheFiles` | a block table written without fsync survives a loss that its log does not |
| `IndexHoled` | `SeekFindsItsRecord` | index pages written back out of order leave zero entries below good ones; only the last entry is looked at |
| `MovedBack` | `ServesOnlyCommitted`, `CommittedInOrder` | `OverrideHighWatermark` moves the watermark before the segment a reader is in, and the reader is no longer limited (`commitlog.go:2187`) |
| `RewriteUnderAReader` | also `CommittedInOrder` | a reader that is built on a list that ends with a segment rewritten since fails, although records follow (`ErrSegmentNotFound`) |
| readers with `lead` and `compact` | `CommittedInOrder` | with the watermark ahead of the tail compaction may drop the log's last record; the bound, clamped to the tail, is then looked up in an empty active segment and the reader ends with an error |
| `BoundedAndCompacted` | a bounded uncommitted read ends without an error | it ends with one when its segment is rewritten under it: only followers try again (`reader.go:514`) |
| readers with `lead` | `CommittedDelivered` without its premise | the append that makes a committed record readable finds nobody to wake, and the reader then parks (`reader.go:787`) |
| `CutAndRefilled` | `LoadedDigestsAreCurrent`, `ImplementsKeyedLog` | a segment is cut and appended to up to its old size, and its old digest is believed; `keydigest.go:26` takes the size for proof |
| `LeftBehindAndCompacted` | `OpenAcceptsTheFiles` | a joined-away input whose files stayed is no longer contained in the join once that was compacted (`clean_join.go:452`) |
| `StripPastCeiling` | `VerifiedFloorHolds` | with the strip boundary above the ceiling, the floor counts records the merge skipped (`compact_cleaner.go:454`) |
| `CeilingAtUndecided` | `ImplementsKeyedLog` | a ceiling at the first undecided record, as `clean.go:199` may be read, lets that record supersede the newest decided value (`compact_cleaner.go:567`) |
| maintenance, a failed removal of an emptied segment | `DebtDrains` without `DOMAIN away = {}` | the segment stays listed and cannot be read, so every later pass ends at it, and compaction stops until the log is opened again (`compact_cleaner.go:1325`) |
| `TrimATier` | `RecoversEverything` | `TruncateBefore` inside an offloaded segment writes a local trim, deletes the object, and publishes the manifest in a defer (`commitlog.go:2876`). Killed before that, the open adopts the object from the manifest's sizes, takes the trim to be contained in it and removes it. `interface.go:468`: "nothing at or above minOffset is ever discarded" |
| `PublishLate` | `RecoversEverything` | the same publish runs after `cleanMu` was released: read before an offload's attach and put after it, it takes the offloaded segment out of the manifest, and its local file is gone |
| `MoveTwo` | `RecoversEverything` | a move is killed before its release, so both tiers claim the segment, the farther one saying where it came from. The next move publishes the farther tier's manifest again, without that; killed in turn, it leaves two claims that nothing tells apart (`tier_move.go:28`) |
| `MoveUp` | `RecoversEverything` | after a move away and a move back, each tier's entry says that it came from the other; a kill before the release leaves claims that nothing tells apart |
| `LeaveLocal` | `RecoversEverything`, `ServesLive` | a local file that could not be removed at its offload is opened beside a later join |
| `FlipInFlight` | `Recovers` (`RecoversEverything` without its premise) | `SetTierReadOnly` falls between an offload's upload and its commit: `publishTierManifests` passes over the tier without an error, and the offload removes the local file. No manifest names the object, although `commitlog.go:2815` says that a local file is never removed against an entry that is not yet published |
| tiers, `trim` and `flip` | `ReadOnlyRespected` without its exception | `TruncateBefore` deletes the objects of the segments it removes and does not ask whether their tier is read-only (`commitlog.go:3038`) |
| `SweepInFlight` | `RecoversEverything`, `ServesLive` | `UnreferencedObjects` takes no lock: between an offload's upload and its commit nothing names the new object, which is then listed, and may be deleted once it is the only copy (`tier_state.go:395`) |
| `SweepUnderScan` | `ReadersKeepTheirObject` | a superseded object is unreferenced while it waits for its readers, and the operator deletes it (`interface.go:533`) |
| `FetchInUse` | `CacheKeepsItsFiles` | another handle seeks in an object that this one supersedes. The swap takes the index out of the cache under that seek; a second seek finds none and downloads it again, into the file the first still reads. `index_cache.go:323`: "this never pulls an index out from under a reader" |

Found by reading, and not modelled: deleting an offloaded segment leaves its block table
object.

## 6. What is not modelled, and why

* *Encodings*: messages, blocks, compression, batch building, block replication. Data
  the properties do not tell apart.
* *Damaged bytes*: `RepairTail` cuts at a record that does not verify; no model has one.
* *Prefix reads* (`prefix_read.go`, `prefix_source.go`): what they read from is in
  `Cleaner`, the filter and its plan are not.
* *`Delete`, `CloseDiscarding`*, and `Close` beside a truncation: the last needs a second
  process in the directory.
* *A pass whose segments were closed under it* (`clean.go:618`): it gives up its list, and
  what follows is an open of the files it left. `Cleaner` has that as a crash just before
  `Publish`.
* *Consolidation of small blocks*: rewrites a segment without dropping a record; its
  installation is `Replace`, which `SegmentFile` has.
* *`CopyTier`*: an offline tool that shares no state with a running log.
* *The index cache's `Close`*, and the windows builds of memory mapping, directory sync
  and lock.
* *Descriptor, sidecars, directory lock, inspection*: platform I/O, or files written once.

Not proved although they might be: the safety invariants of `Tiering`, which use neither
folds nor recursive functions.

## 7. Running

    tlc -config CommitLog_recover.cfg MCCommitLog
    tlapm CommitLogSurvivalProofs.tla

Each configuration `<Module>_<run>.cfg` belongs to module `MC<Module>`.
