# A TLA+ model of FASTFFS

FASTFFS is a file system for NOR flash: erasing a sector sets its bits, programming
clears some of them, and power may fail inside either. This directory holds TLA+
modules that model its core, TLC configurations that check them on small instances,
and proofs checked by TLAPS. Source paths below are relative to `src/` of the library.

## The system

The first sectors of the device are the **index**, a circular log; the others are **data
sectors** with file contents growing from the front and metadata records growing from the
back. A file name hashes to a slot; the index maps slots to the sector of a file's root
record; the root links to continuation records by spans of consecutive sectors.

| Part | Source | State | Operations |
|---|---|---|---|
| index headers | `fffs_index_log.c` | header state and 4-bit serial per index sector | rotate, tombstone the oldest, discover at mount |
| index records | `fffs_index_log.c` | (slot, head) records, append position | append, carry forward, replay, clobber a bad tail |
| index cache | `fffs_hashtable_index.c` (or `fffs_ram_index.c`, `fffs_nocache_index.c`) | slot to head table | resolve a name, insert, remove, list |
| metadata | `fffs_file_md.c`, `fffs_sector.c` | records and their lifecycle, sector footer | find a window, write, make live, tombstone |
| files | `fffs_file.c`, `fastffs.c` | open handles, pending span | open, write, read, seek, close, delete |
| allocator | `fffs_alloc.c`, `fffs_alloc_map.c` | cursor, map, reservations | allocate, reserve, find compaction room |
| collector | `fffs_gc.c` | cursor, one-record-per-call walk, candidates | classify, tombstone, erase, compact roots |
| inspection | `fffs_inspect.c` | none, reads an image | check, live map |
| emulator | `verify_flash.c` | image, wear, log, failure, sampler, staged program | read, program, erase, stage, commit, corrupt, clone, snapshot |
| crash sweeps | `tools/fffs_crash_sweep.c`, `tools/fffs_api_crash_sweep.c` | clones, recorded mutations | record, replay with a failure, check |

Interactions. Close makes metadata live, then appends to the index, then tombstones the
replaced chain. An allocation that finds no room runs the collector over all sectors, then
compaction (strict, then the compaction reserve, then relaxed), which itself writes
metadata and appends to the index. The collector asks the index which roots are current
and the open-handle list which slots are pinned. The library has no threads: calls run one
at a time, but collection is spread over calls, handles stay open across calls, and power
may fail inside any of them. The tests and the crash sweeps run the library on the emulator;
the inspection reads the same image with code of its own.

What is hard: power loss between and inside programs; state read before an allocation that
may move it; a collector that classifies records over several calls; records and index
disagreeing after a power loss; tables, logs and sectors at their limits; serials that
wrap. `PROJECT.json` lists these hazards with their lines.

## Modules

**Discovery** (headers only). `hdr`, `serial` are flash; `active`, `activeSerial`, `oldest`,
`count` are the fields of `struct fffs`; `newest` and `length` are history. `RotateBegin`,
`RotateCommit`, `CompactFinish` are the three flash phases of a rotation; `Probe`,
`ScanStep`, `ScanEnd`, `WalkStep`, `WalkEnd` are the loops of `fffs_find_index_sequence`
and `find_oldest_index_sector`. `PowerLossInErase` leaves any header state, with the old
serial or one of `TornEraseSerials`, or a valid header for another number of index sectors,
which mount refuses (`pc = "corrupt"`).

**Namespace** is the abstract specification of the index: a map, one operation at a time,
each atomic under power loss.

**IndexLog** (records). Words are sets of 1-bits, so programming is intersection and a torn
program is any word in between. `log` is the sequence of valid sectors (Discovery justifies
taking it as found), `fresh` the sector a rotation fills, `cache` the RAM index, `roots` the
root records on flash that replay consults. Each flash program of append, rotation,
compaction and replay is an action. `ImplementsNamespace` maps `names` to `cache`, or to
the cache at the power loss while the system is down. `IoError`, in `SpecIo` only, is a
failing program.

**NoCacheIndex** extends IndexLog with the scans of the build without a RAM cache, as functions
of the flash there: `HeadForSlot`, `Occupied` (the resolve of candidate slots), `Entries` (a
listing) and `RecordIsCurrent` (what compaction asks). The cache of IndexLog says what they
should find. **IndexLog_proofs** proves both modules' properties.

**HashCache** models the open-addressed table: `Insert`, `RemoveBegin` with one step per
bucket of `remove_bucket_at`, and the directory iterator. `live` is what the flash index
holds, `refused` (history) the files among them that a full table had no bucket for when their
record was already on flash. **HashCache_proofs** holds its theorems.

**FileStore** models files, collection and compaction. `flash[s]` is a sector: footer
lifecycle, full hint, whether the space past its last record is clean, and its records in
walk order. `index` is one atomic step per append, which IndexLog shows the log to be.
`file[h]` is `struct fffs_file`. Contents are a ghost version and an extent number. Each
flash program of a call is one action; `pc` is `"idle"` between calls. The allocator's
cursor and map are hints that change only which acceptable sector is tried first, so any
acceptable sector may be taken, and the collector may find any sector hidden by them.
Visits within one forced collection run in ascending order: visits to different sectors
commute. `RootsFit` says whether a root fits in every sector that takes another record;
when `FALSE`, a compaction may run out of room after it has moved some roots. A power loss in
the program of a record leaves a bad end of the records, no record, or an *orphan*: an
uncommitted record of some slot. A collector that meets a chain it cannot follow gives up with
an error, and so does the allocation it runs in; so does the invalidation of an old chain at a
sector it cannot walk.
**FileStore_proofs** holds its theorems; **MCFileStore** gives all names the same home slot and
declares the symmetry of names.

**Inspect** extends FileStore with what `fffs_inspect_check` and `fffs_inspect_live_map` report of
the image at any moment. `inspect_index` replays the active index sector only, so the index
is taken as one that has not been rotated; after a rotation a check sees part of the
namespace. Only the first sector of each span is examined, and `data_sectors_corrupt` of the
report is set nowhere; the counts of records the report also gives are not modelled.

**Allocator** is what FileStore leaves open: `cursor`, `used` (the allocation map), `reserve` (the
compaction reserve) and the reservation of each `writer`. A sector is reduced to what
allocation looks at. A call of `fffs_alloc_next_sector` runs through `TryReservedSector`,
`AllocSectorOnce`, `HalveReservations`, a second scan, `GcUntilErased`, compaction,
`TryCompactionReserve`, relaxed compaction and `NoSpace`; `Give` is the caller taking the
sector. Which reserve sector comes first (`FFFS_COMPACTION_RESERVE_BEST_FIT`), which
candidates the collector keeps and the free-space test of compaction are free choices.
**Allocator_proofs** and **AllocatorBounds_proofs** hold its theorems, **MCAllocator** the symmetry
of writers.

**FileIO** is one handle at the level of bytes. `flash[s].cell` are the bytes of a sector and
`flash[s].rec` the record of the file in it; `f` is `struct fffs_file` with its cache. Each round
of the loops of `fffs_write`, `fffs_read`, `seek_from_current_position` and `hunt_current_span` is
an action. A byte programmed twice turns into another file's. The last flush of an extent pads
the cache to a whole granule. **ByteStream** is the abstract
stream it implements: accept bytes, commit, deliver the bytes at the position, move. The
sector given by the allocator is any unused one, so spans of all lengths occur.
**FileIOSteps_proofs** and **FileIO_proofs** hold the theorems, **MCFileIO** the windows a root may
start in.

**VerifyFlash** is the emulator. A device is a value, because it is cloned; a call is an operator
from a device to the set of its outcomes, because faults are drawn at random. An image is
the set of bytes that read as erased. **CrashSweep** holds the three kinds of program that
call it: a test (mode `"test"`), and the two sweeps (`"crash"`, `"api"`). The file system is there a
client with safe operations and two unsafe ones (`write_early`, `erase_live`); a client that
retries a failed call is not modelled. **MCCrashSweep** gives the arguments of direct calls.

## Runs

Passing:

| Run | Shows | Bounds |
|---|---|---|
| `discovery` | mount finds the newest sector and exactly its sequence (`SequenceFound`); sector 0 or 1 always has a valid header (`AlwaysDiscoverable`) | 9 sectors, the most that 4-bit serials can order; serials wrap |
| `index_log` | after a power loss anywhere, also in recovery, the interrupted operation is done or not done and no other slot changed (`CrashAtomic`); the cache is what a mount would rebuild (`Durable`); mount is never refused (`MountSucceeds`); refinement of Namespace; the scans of the no-cache build find what a cache holds and list each file once (`ScanAgrees`) | 3 sectors of 2 records, 2 slots, 2 heads: repeated rotations with compaction, no-space answers; unbounded power losses |
| `hash_cache` | after any repair lookups agree with flash, but for exactly the files a full table refused (`LookupAgrees`); removal from a table with an empty bucket returns (`RemoveReturns`); a listing without deletes misses nothing the table held (`ListingComplete`) | 4 buckets, 5 slots with collisions across the wrap: the table fills up and refuses |
| `files` | every committed file is whole (`Readable`), changes only by a commit or delete (`OnlyCommitsShow`), one slot per name (`NamesUnique`) | 3 sectors, 2 records each, 2 extents, 2 colliding names |
| `files_power_loss` | `Readable` with one power loss at any place, torn or not; an inspection of the image finds no corrupt file and shows exactly the live data (`LiveMapExact`) | 3 sectors, one record each |
| `compaction_power_loss` | no power loss in compaction breaks a file (`Readable`) or shows two copies in the live map (`LiveMapExact`); a deleted open file's slot goes to no other name (`SlotKeepsName`) | 2 sectors of 2 records, 2 names, 2 handles, files of one extent, deletes of open files: compaction is forced |
| `open_handles` | readers keep their version and sector (`ReaderSeesFile`, `ReclaimDeferred`), writers their extents (`WrittenExtentsKept`), two writers never share a sector (`WritersApart`), every call returns (`CallReturns`) | 2 handles, 2 sectors of 2 records, collection between calls, compaction under pressure |
| `allocator` | no sector is handed to two writers (`HandedApart`), nor from the compaction reserve while in use (`ReserveApart`); no map bit leaks (`NoLeakedBit`); a sector a writer has left keeps its record (`LeftKept`); no-space is answered only when nothing can be collected (`NoSpaceJustified`) | 3 sectors, 2 writers, reservations of 2, a reserve of 1, 2 records per sector |
| `file_io` | a handle is a byte stream (`ImplementsStream`), its caches agree with flash (`CacheAgrees`), every call returns and none meets a chain that ends early (`CallReturns`) | 4 sectors of 5 bytes, cache of 4, granule 2, files to 12 bytes: roots that fill or share a sector, spans of 1 to 3, reads below and above the cache size |
| `crash_sweep` | the log of the emulator tells the effect of a call (`EffectLogged`), staged programs are not lost (`StagedNotLost`), sampled faults stay in a page and a sector (`BranchesBetween`); sweeps pass only operations without a third namespace (`SweepSound`) and fail no safe one (`NoFalseAlarm`) | 2 sectors of 6 bytes, granule 2, page 4, 2 direct calls with every phase of failure, 2 files |

Three sectors let a file of two extents be replaced while another exists, so allocation
meets full, dead and reusable sectors and must collect; with two records per sector files
share sectors, and with two sectors allocation soon needs compaction. Each run fixes the
dimension it is about and lowers the others: `files_power_loss` has one record per sector,
so no file shares a sector in it. Ghost versions are two or three so that old and new
differ. `open_handles` uses no symmetry, since it checks liveness. In `crash_sweep` a page
does not divide a sector, so that page and sector limits differ, and a sweep may stop with
a failure: deadlock is not an error there. With three sectors and two writers the
allocator meets reservations that collide, a reserve that is full, and compaction with and
without a destination. The type invariants run with `discovery`, `allocator` and `file_io`, where ranges are
hard to keep; those of the other modules are shape only and hold in their runs too.

Two violations, where the code does not do what `design.md` says:

- `moved_old_root`: close tombstones its own continuation, because the allocation of open
  moved the old root after `old_head` was read (`design.md:1186`: "Once an operation that
  commits data/metadata returns a non-error value, that data/metadata must not be
  lost/corrupted").
- `orphan_record`: a power loss leaves an uncommitted record in a sector that files share.
  Close takes the first uncommitted record of its slot there, so that a later write of the slot
  that comes to the sector commits the orphan instead of its own record, and the index shows
  what the interrupted write had begun (`design.md:774`: "A crash before the index append leaves
  orphaned data/metadata for GC").

### Where the properties stop

The passing runs state the conditions under which the properties hold. Outside them they do
not; each line can be reproduced by changing the constants named.

| Property | Fails with | Because |
|---|---|---|
| `SequenceFound` | `IndexSectors = 10` | serials nine apart compare the wrong way (`design.md:212` allows 15 sectors) |
| `SequenceFound` | `IndexSectors = 3`, `TornEraseSerials = {7, 15}` | a torn erase revives a tombstoned header with another serial |
| `CrashAtomic` | `Tears = {"orphan"}` | a torn head names an orphaned root of the slot and is taken for a commit |
| `CrashAtomic` | `Tears = {"clobber"}` | the torn clobber of a bad tail reads as a delete of the slot |
| `Durable` | `SPECIFICATION SpecIo` | after an I/O error between the halves of a record, the next append programs over it |
| mount succeeds | `discovery` as it is | an interrupted erase that changes the number of sectors in a header makes every later mount refuse the index; `SequenceFound` speaks of mounts that succeed |
| `pc = "repair" ~> pc = "idle"` | `hash_cache` as it is | in a full table `remove_bucket_at` meets no empty bucket and does not end |
| `HeadForSlot(table, s) = live[s]` | `hash_cache` as it is | the record is programmed before the full table refuses it; `LookupAgrees` says so |
| `Readable` | `open_handles` with N = 3, one record per sector, one name, `Overlap = {"delete"}` | the old root's sector is reused by the writer whose file was deleted |
| `ReclaimDeferred` | the same | a deleted file is reclaimed under its reader (`design.md:828` says it is deferred) |
| `ReadsOneVersion` | the same with N = 4, `Overlap = {"write"}` | the reader follows its link into the next version |
| `Readable`, `LiveMapExact` | `files_power_loss` with `MaxRecords = 2` | the orphan of `orphan_record`: the record a close commits in a shared sector may be one a power loss left |
| `ReaderSeesFile` | `open_handles` with N = 3 | `Readable` fails there as in `moved_old_root`; it holds with N = 3 and one record per sector |
| `CompactionKeepsNames` | N = 2, `MaxRecords = 2`, `MaxExtents = 1`, three names and slots, `RootsFit = FALSE`, one power loss | compaction publishes a deleted root whose tombstone was lost (`design.md:573`: the index delete "is authoritative even if old sector metadata remains") |
| `RetrySucceeds` | `index_log` with 2 sectors of 3 records, `Slots` and `DataSectors` `{{1}, {1, 2}}`, 3 bits, `Tears = {}` | a slot that returns to an earlier head has several records that look current; compaction carries all forward (`design.md:123`) and two files fill an index with room for three |
| `CacheAgrees`, `ImplementsStream` | `file_io` with `SPECIFICATION SpecIo` | the window of the next extent is set in the handle before the record of the last is programmed; if that fails, a later close writes it with the wrong window |
| `TypeOK` of FileIO | `file_io` with `CacheSize = 5`, `Granule = 3` | `fffs_valid_backend` admits a granule that does not divide the size of the file cache, and the padding of a last flush runs past it |
| `TypeOK` of FileIO | `file_io` with `CacheSize = 2`, `NameLen = 1` | `stage_root_prefix` copies any valid name to the file cache, without looking at its size |
| `CountsInRange` | `crash_sweep` with a `TestSpans` member such as `<<8, 8>>` that ends past the device | `add_sector_counts` runs before the range check |
| `EffectLogged` | `EraseCycles = 1`, `MaxCalls = 3`, `Modes = {"test"}` | an erase stopped by a worn sector reports nothing committed, though earlier sectors are erased |
| `SweepSound` | `Modes = {"api"}`, `MaxLog = 3` | mutations past `max_log_entries` are not logged and so never failed |

One limit is outside the models. In the no-cache build `fffs_dir_read` keeps its scratch
window between calls as long as `scratch_serial` is unchanged, and an index append does not
change it: after a file is replaced during a listing, the listing reads the old index window,
meets the tombstoned root and ends with an error, where the hash cache lists every file
(`fffs_internal.h:295` says the implementations "expose the same logical namespace
operations").

In Allocator, a compaction reserve sector with only dead records is passed over by the
collector, so `NoSpaceJustified` speaks of the sectors outside the reserve.

## Fairness

`CallReturns` (of FileStore and of FileIO) and `RemoveReturns` assume weak fairness of the
steps of a call that has begun. The library is single threaded and never waits, so a call that can take a step takes
it. Nothing is assumed about the application: it need not make another call, and no
fairness is put on power losses.

## Proofs

`Discovery_proofs` proves `TypeCorrect`, `DiscoveryCorrect` and `ProbeSucceeds` (`TypeOK`,
`SequenceFound`, `AlwaysDiscoverable` as invariants of `Spec`) for every number of index
sectors from 2 to 9, given `IndexSectors <= 9` and `TornEraseSerials = {}`. The table
above shows both assumptions to be needed for `SequenceFound`.

`SequenceFound` is not inductive: it says nothing while mount scans or a rotation is under
way. The inductive invariant `IInv` adds `Shape` (the valid headers are the last `length`
sectors up to `newest`, their serials count back from it, and a dead header is the one just
before them), `Mounted` (what the RAM fields hold between the flash phases of a rotation)
and `Scanning` (the best header so far is the youngest scanned; the walk has followed
`count` sectors back). The key lemma `NewerIsYounger` says that with at most nine sectors
the half-range comparison orders serials by age.

`Allocator_proofs` proves `SectorsHandedApart`, `CompactionReserveApart`,
`ContinuationsKept`, `NoBitLeaks` and `NoSpaceOnlyWhenFull` (`HandedApart`, `ReserveApart`,
`LeftKept`, `NoLeakedBit`, `NoSpaceJustified` as invariants of `Spec`) for any
number of sectors and writers and any sizes of reservations and reserve, from
`AllocatorAssumption` alone. None of the first three is inductive by itself: an allocation is
several steps, and what keeps two writers apart is different in each. The inductive
invariant `Safe` joins them with `Ranges` (cursors, reservations and candidates are data
sectors), `CallShape` (which steps of a call have a source, and that the source of a
compaction is neither held nor reserved for compaction), `BlankShape` (an erased sector has
no records) and `ChainShape` (a sector a writer has left holds its continuation and is
not blank). From `Safe` every way `Give` is reached offers a sector that no writer holds;
one lemma says what `Give` does to `Safe`, and each action cites it. `NoLeakedBit` is inductive
relative to `Safe`: a step that clears a reservation or the reserve clears the bits too.
`NoSpaceJustified` speaks of the last moment of a failed call; `Exhausted` carries what it
needs from the collection on: while compaction is tried, a sector outside the reserve that is
not the source has live records or a writer.

`AllocatorBounds_proofs` proves `TypeCorrect` (`TypeOK`): with `Safe`, `Filled` (the sector a
writer is in has room for its record, and the head of a file that has gone on has a root
that is not yet counted) and `Bounded` (reservations and reserve are no larger than
configured) are inductive, so no sector takes more records than fit.

`HashCache_proofs` proves `LookupCorrect` and `ListingIsComplete` (`LookupAgrees`,
`ListingComplete`) for every table size, hash and set of slots, also one that does not fit in
the table. `LookupAgrees` says nothing inside a removal; `EntriesKept` does: at every step each
file the table has taken has one bucket, with its head, and no other file has one (`Placed`).
Neither is inductive, so `IInv` joins `Placed` with `Reached` (no empty bucket on the probe
path from an entry's home to it), `Repairing` (between the hole and the bucket
`remove_bucket_at` looks at, no entry is reached through the hole) and `Ahead` (what a
listing still owes lies ahead of it). In a full table the repair does not end; `IInv`
allows for it and the theorems hold there too.

`IndexLog_proofs` begins with the operators of IndexLog on any log: `Recovered` is the head of
the `Newest` applied record, and how appending or programming a record, adding a sector and
dropping the oldest change it. Then it states the inductive invariant, proves that operations,
rotation, compaction, replay, the programs of a record and power losses keep it, and has
the theorems: `IndexTypeCorrect`, `IndexIsDurable`,
`MountIsNeverRejected`, `PowerLossIsAtomic`, `IndexImplementsNamespace` (each step of the log
is a step of Namespace or stutters) and `ScansAgree`, for any number and size of index
sectors, any slots and heads. They assume `Tears \subseteq {"old"}`, as the run does: a torn
word may be any that leaves the record bad, or names the old head again; the table shows
`CrashAtomic` to fail with each of the other two kinds. `IInv` joins `CrashAtomic` with `Phase`
(which sector and record is next at each step), `Shape` (only the last record may be
improper, and only inside an append or after a power loss), `Roots` (what the index names,
or will name, has a live root), `Copying` and `OldestDone` (a rotation that fills the last
sector has carried forward every current record of the oldest, so nothing is lost when
that one is dropped) and `Agree` (the cache is what replay would find).

FileIO takes two modules: `FileIOSteps_proofs` has the inductive invariant, the flush of the
write cache and the steps of a reader, `FileIO_proofs` the steps of a writer and the theorems
`TypeCorrect`, `CacheCorrect`, `Refinement` (`TypeOK`, `CacheAgrees`, `ImplementsStream`) and
`ReadsReach`, for any sizes, from `FileIOAssumption`, in builds with `CacheFits`: the file
cache has room for the name of a root and for whole granules. The code checks neither, and the
table above shows `TypeOK` to fail without each. `IInv` says of each recorded extent that
its cells are the bytes of the file from its offset on and that it is followed by the extent
that begins where it ends (`Extents`, `Chain`, `Closed`); of the extent being written, that
the cells up to the cursor and then the cache are its bytes, and that the rest is erased
(`Writing`); and of a reader, that its cursor is on an extent and its cache a part of it
(`Reading`). No recursion along the chain is needed: each extent carries its offset, so
adjacent extents are related pairwise, and a read that crosses to the next extent is at its
first byte. `Refinement` shows each round of the loops to be a step of ByteStream or a
stutter; `ReadsReach` shows that the chain of a closed file does not end before its size.

`FileStore_proofs` proves `WritersStayApart` (`WritersApart`), `TypeCorrect` and the invariant
behind them, `Invariance`, for any numbers of sectors, slots, names, handles, extents and
power losses, and also when a name is opened while it is open, from `FileStoreAssumption`.
`WritersApart` alone is not inductive: a call allocates in several steps, with a collection or
a compaction between them. `IInv` adds what a writer relies on between its calls: `Filed` (the
sectors of the span under way are kept from others, not only the first and the last),
`Called` (the sector a call has been given is open to nobody), `Room` (the current sector
takes one more record), `Pending` (the record a later step must commit is still there),
`Compacting` (no sector compaction may erase is open for writing), `Flashed` (no span runs
past the flash, an erased sector has no records) and `Ranges`.

Only model-checked:

- `RemoveReturns` and `CallReturns` are liveness, outside the prover's reach.
- `Readable`, `OnlyCommitsShow`, `ReclaimDeferred` and `CompactionKeepsNames` of FileStore do not
  hold for every value of the constants, as the table above and the two violations show, and
  `WrittenExtentsKept` fails along with `Readable` there. `NamesUnique`, `SlotKeepsName` and
  `ReaderSeesFile` lean on them: a deleted root that compaction publishes brings its name back. A proof
  would have to begin by restricting the constants to those for which whole chains of extents
  stay intact, and then needs an invariant about chains.
- `LiveMapExact` of Inspect follows chains by a recursive function, and what such a function
  computes takes an induction the prover cannot do. It also implies `Readable`.
- The properties of CrashSweep: no inductive invariant has been worked out for them.

## Not modelled

- `fffs_fstat`, `fffs_stat` and `fffs_list`: they report state and change none.
- The ranking of compaction candidates and its free-space test; space accounting
  (`fffs_fsinfo`); the sector serial, which only orders allocation candidates; strict mounts.
- A failing index append inside close or compaction; backend errors in FileStore and
  Allocator.
- Options that are off by default (lazy delete tombstones, paranoid reachability).
- The scratch window of the no-cache index between two calls.
- Of `fffs_inspect.c`: dumps, fragmentation statistics and the workload generator. Of the
  sweeps: workload generation, worker threads, reports. Of the emulator: fake time, presets,
  dumps.
- `fastffs_host.c`, `fffs_tool.c`, `fffs_churn_probe.c`, `fffs_time_probe.c` and benchmarks:
  I/O, output and measurements.

## Plan

1. Failing index appends in FileStore; the same name created by two writers.
2. Space accounting; FileStore with the allocator of Allocator in place of its free choice.
3. Proofs: the chains of FileStore under `Overlap = {}`, for `ReclaimDeferred` and
   `ReaderSeesFile`; `SweepSound` and `BranchesBetween` for CrashSweep.
