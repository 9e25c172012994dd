# TLA+ specifications of PhotonDB

PhotonDB is a storage engine: a Bw-tree (`src/photondb/src/tree`) over a
log-structured page store (`src/photondb/src/page_store`). Pages are addressed
by `(group id, offset)`; a group lives first in a write buffer in memory and,
after a flush, in a page file. These specifications model the engine one
component at a time, check them with TLC on small instances, and prove the most
important properties with TLAPS for every value of the constants.

All paths below are relative to `src/photondb/src/`. `PROJECT.json` maps every
definition that models code to the lines it models, and lists the hazards of the
code with the properties that cover them.

## 1. The system

| Part | State | Operations that change it |
|---|---|---|
| Write buffer (`page_store/write_buffer.rs`) | one packed word (sealed, writers, allocated bytes), the records, the flush latch | `alloc_page`, `dealloc_pages`, `release_writer`, `seal`, `on_flushed` |
| Buffer set (`page_store/buffer_set.rs`) | the live buffers, write permits, `flush_notify` | `install`, `release_until`, `switch_buffer`, `flush_active_buffer`, waits and wake-ups |
| Page transactions (`page_store/page_txn.rs`) | the pinned version, the write guard, the records and page ids to undo | `insert_page`, `update_page`, `replace_page`, `commit`, drop |
| Page table (`page_store/page_table.rs`) | address of every page id in three radix levels, free list, next id | `set`, `cas`, `alloc`, `dealloc`, `build` |
| Flush job (`page_store/jobs/flush.rs`) | the buffer in work | `run`, `flush_during_shutdown`, `save_and_install_version` |
| Versions (`page_store/version.rs`) | chain of versions, page groups and files of each | `install`, `try_next`, `release_previous_buffers` |
| Cleanup job (`page_store/jobs/cleanup.rs`) | the version it waits on | `run`: release buffers, remove obsolete files |
| Reclaim job (`page_store/jobs/reclaim.rs`, `strategy/`) | progress, picked files | compaction of files |
| Manifest (`page_store/manifest.rs`, `meta.rs`) | manifest files, `CURRENT` | `record_version_edit`, `set_current`, `cleanup_obsolete_files` |
| Recovery (`page_store/recover.rs`) | none of its own | replay of edits, rebuilding of page table and versions |
| Page files (`page_store/page_file/`) | file contents, active pages of each group | builders, readers, `deactivate` |
| Page cache (`page_store/cache/`) | handles with reference counts | insert, lookup, release, erase |
| Tree (`tree/mod.rs`) | delta chains in the page table | `write`, `get`, scans, `split_page`, `reconcile_page`, `consolidate_page` |
| Pages and iterators (`page/`, `tree/page.rs`) | the bytes of a page; positions of iterators | building a page; `next`, `rewind`, `seek` |
| `util/` | `Notify`, `Latch`, `Shutdown`, linked list, bitmap | notify, wait, count down, terminate |
| API, environment, tools | none of their own | wrappers, I/O, benchmarks |

What makes it hard: the buffer state, the permit counter, the page table and its
free list are lock-free words that encode several things each; waiting tasks are
woken by three different mechanisms (a broadcast, a one-permit notification, a
latch); every background job reads a version that the others replace under it; a
page is replaced by its tree, moved by a compaction and undone by an aborted
transaction; and a crash may fall between any two writes of the manifest.

## 2. Modules

| Module | Models | Checked by |
|---|---|---|
| `BufferSet` | write path: buffers, permits, transactions as writers, manual flush, flush job, release of buffers, close | `MCBufferSet` |
| `Notify`, `LinkedList` | `util/notify.rs` and its intrusive list, step by step | `MCNotify` |
| `Notification` | what `Notify` promises: one stored permit and a queue | `MCNotify` (`KeepsPromise`) |
| `VersionChain` | versions, guards, cleanup and reclaim jobs, latches, shutdown | `MCVersionChain`, `MCProgress` |
| `Tree` over `PageData` | the Bw-tree; what chains of pages mean | `MCTree`, `MCProgress` |
| `KeyValue` | what a table promises: a map read at an LSN | `MCTree` (`ImplementsMap`) |
| `WriteBuffer` | one buffer with its memory, in u32 arithmetic | `MCStore` |
| `PageTable` | page ids, free list, transactions that insert, update and abort | `MCStore` |
| `RadixTable` | the radix levels below the page table | `MCData` |
| `AddressMap` | what `get`, `set` and `cas` promise: independent words | `MCData` (`KeepsAddresses`) |
| `FileStore` | pages from buffers to files: flush, compaction, cleanup, guards, recovery | `MCStore` |
| `Manifest` | edits on disk under failures and crashes | `MCStore` |
| `ReclaimPolicy` | progress, scores and thresholds of the reclaim job | `MCStore`, `MCProgress` |
| `PageLayout`, `PageIters`, `PageFile` | pages as bytes, iterators, page files | `MCData` |
| `LruCache`, `ClockCache` | the two page caches | `MCData` |
| `BufferSetProofs` | theorems on `BufferSet` | |
| `WriteBufferSteps`, `WriteBufferProofs` | theorems on `WriteBuffer` | |
| `RadixTableSteps`, `RadixTableProofs` | theorems on `RadixTable`, its refinement of `AddressMap` | |
| `VersionChainProofs` | theorems on `VersionChain` | |
| `NotifyProofs`, `NotifyRefinement` | theorems on `LinkedList` and `Notify`, its refinement of `Notification` | |

`MCStore`, `MCData` and `MCProgress` hold several small instances each. A
behaviour belongs to one of them, named by the variable `part` (`scene` in
`MCTree`), which never changes; the variables of the others stay at a constant.
The properties of these modules say what holds in which part.

**BufferSet.** Buffers are named by their group id. `sealed`, `writers` and
`used` are the fields of `BufferState`, `flushed` the latch of the buffer,
`start`/`next` are `buffers_range`. `permits` keeps the encoding of
`WriteBufferPermits`: 0 means "no permit, somebody waits", n + 1 means "n
permits, nobody waits". `armed` is the set of tasks whose `Notified` is enabled
and not yet notified, `token` the stored permit of `flush_notify`. `first` is
`first_buffer_id` of the current version, `saved` the last group the manifest
knows, `pin[p]` the `first_buffer_id` of the version that p holds. A transaction
walks through `begin -> txn -> (switch -> acquire -> install -> notify) -> drop`,
a flush through `flushCall -> (wait) -> switch -> ... -> waitFlushed -> drop`,
the flush job through `pick -> poll -> (await) -> build -> save -> release ->
(wake) -> wait -> spin -> installVersion -> latch`. Each step is one atomic
access to shared state; a loop of compare-and-exchanges is one step, for a failed
one changes nothing. A record is a number of units; the page files, the u32
arithmetic and the contents are in other modules. A future that its caller drops
halfway is not modelled, nor are I/O errors, which end the job by a panic.

**Notify.** The state word is read and exchanged without the lock of the list,
so each access is a step; taking the lock and the load that follows are one step.
`PollLoad` to `PollTransition` are `poll_notified` of a future in its first
state, `PollWaiting` a later poll, `NotifyOne...`, `NotifyLocked`, `NotifyStore`
and `NotifyWaiters...` the callers, `Drop` the destructor, which passes an
unreceived notification on. Assertions and `unwrap`s lead to `panicked`. The
module implements `Notification`, in which every call is one step: the queue is
the list read from its tail, with the waiters that a running `notify_waiters` has
already taken off in front of it. `BufferSet` uses that abstraction.

**VersionChain.** Versions are numbered. `InstallRaw`, `InstallLink`,
`InstallWake` and `InstallDefer` are the steps of `VersionOwner::install`;
readers load the box of the current version and clone the reference in it as two
steps; a box is freed when everybody who was pinned is not any more. The two
jobs and the callers of `wait_for_reclaiming` sleep on latches and on the
shutdown, both of which keep wakers.

**Tree.** Pages are immutable and have addresses in the order of allocation.
There is one action per access to the page table (a load in `page_view`, a
compare-exchange in `update_page`) and per allocation; what is computed from
pages that were read is part of the step that read them. `PageData` says what a
chain means by sets of items, and `PageIters` shows that the iterators compute
these sets. `content` is a copy of what reads would return, for the refinement of
`KeyValue`. Puts of one key that race with LSNs in the opposite order are in.

**WriteBuffer.** Every load, compare-exchange and memory write is a step.
`Load` and `Apply` are the packed word; sums wrap at `2 * HALF`. Memory is an
array of words of `ALIGN` bytes that hold headers or the number of the record
whose body is there. The iterator of the flush job reads what is there.

**PageTable.** Page addresses and links of the free list share the words of the
table, as in the code. The ids of an aborted transaction are given back at once,
so the exchange that pops an id can succeed on a stale link; the history variable
`aba` remembers that, and a table whose free list is broken is not followed any
further. **RadixTable** shows that the three radix levels under it are one array: `index()` descends node
by node, a missing node is allocated and installed by a compare-exchange, and the
loser drops its own. (Loads of the pointers are `Relaxed`; that the contents of a
node are seen with the pointer to it is taken for granted.)

**FileStore.** A page is its address, page id and next address. A transaction, a
record of an edit and the build of a file are one step each; the steps of a flush
(build, save, install), of a compaction (pick, copy, save, install), of the
cleanup and of guards interleave freely: a compaction copies pages as of an old
version while flushes deallocate them. `Crash` stops the program and replays the
edits: groups, deallocations, page table and ids are rebuilt from the files. The
history variables `dead` and `lost` hold the pages whose deallocation was flushed
and those of them whose deallocation was undone or forgotten later.
All files are built by `FileBuilder` in the format of map files; the page size
that recovery computes for the cache is left out.

**Manifest.** One step per file system operation; one may fail, and a crash cuts
unsynced data off between any two writes, also between the length and the body of
a record, and loses a suffix of the unsynced directory operations.

**ReclaimPolicy.** Pages have one size and a compaction is one step. Sizes are in
bytes: `FileSize` adds up what the builder writes for pages, groups, deallocated
pages and the footer. A compaction may fail after it has read some of its files.
Ages are capped at `MaxAge`.

**PageLayout** has bytes of `Base` values so that TLC reaches the largest value
of every field. **PageFile** is a sequence of units; offsets stay below 4 GiB
(`offset as u32` would truncate there). The index does not store the size in a
`PageInfo`, and opening the file computes another one. **LruCache** runs every operation under
the lock of its shard, as the code does; `evict_cached_pages` erases by file id
although keys contain group ids, which only keeps dead pages in the cache
longer. **ClockCache** has one step per atomic operation; only tests of the
repository construct it.

## 3. Runs

| Run | Instance | Result |
|---|---|---|
| `buffer_set_safety` | 2 tasks, 2 buffers of capacity 2, all four `FlushOptions`, 3 groups | passes, 0.9 million states |
| `buffer_set_liveness` | 2 tasks, 2 buffers of capacity 1, flushes that may stall | passes, 0.1 million |
| `buffer_set_lost_wakeup` | the same with the default `FlushOptions` | `PermitWakesFlush` is violated |
| `buffer_set_one_buffer` | 1 buffer, no flushes | `StallEnds` is violated |
| `buffer_set_flush_all` | default `FlushOptions` | `FlushCoversAllData` is violated |
| `notify` | 2 tasks with up to 2 futures, 2 callers with up to 2 calls | passes, 32 thousand |
| `versions` | 1 reader, 1 waiter, 3 versions, close | passes, 0.6 million |
| `tree` | 2 tasks in five scenes: writes, gets, deletes, partial consolidation, a scan | passes, 0.6 million |
| `tree_tombstone` | deletes in the scene of partial consolidations | `ImplementsMap` is violated |
| `store` | the eight parts of `MCStore` | passes, 0.3 million |
| `data` | the eight parts of `MCData` | passes, 0.3 million |
| `progress` | the six parts of `MCProgress`, under fairness | passes, 94 thousand |

*Write path.* `OneInstaller`: exactly one task owes the successor of a sealed
active buffer. `BuffersReachable`: the `expect`s on buffer lookups never fail.
`FlushExcludesWriters`: what the flush job reads is complete. `UnflushedBounded`:
the permits bound the memory. `FlushDoesNotStall`: a flush without `allow_stall`
never waits with its buffer sealed, although it does not take the permit it saw.
`FlushIsDurable`: `wait_flushed` returns only after the manifest has the buffer
and all earlier ones. `CloseFlushesAll`: close leaves no record behind. Liveness:
`SealedIsFlushed`, `StallEnds`, `BeginWakes`, `CloseCompletes`. Three groups give
two full life cycles of a buffer and the installation of a third; with two
permits one buffer can be sealed and unflushed while the next one fills up, so
writers stall, the flush job waits for a successor, and a second task waits for
the stalled one.

*Notifications.* `NeverPanics`, `KeepsPromise` (the refinement of `Notification`)
and `Delivered`: a future that has been notified completes or is dropped. Two
tasks and two callers are needed for a notification that is passed on by a drop
while another one arrives.

*Versions.* `BoxesPinned`, `NextFound`, `CleanedUnused`: no freed box is read, a
woken waiter finds the next version, and files go only when nobody can read them.
Three versions let the jobs fall behind by one.

*Tree.* `ImplementsMap` (the refinement of `KeyValue`), `ReadsExact` (gets and
scans), `SplitsOrdered` (a pending split is on top of its chain, the assertions of
the code hold). The scenes start from a root leaf that the next write splits, so
that leaves, inner pages and the root split within two writes, or from one that
is much larger than its deltas, so that consolidations are partial.

*Store.* `RecordsDisjoint`, `FlushToldOnce`, `RecordsRead` (one buffer: records
never overlap, exactly one caller flushes, pages and the iteration read what was
written); `IdsOwnedOnce` (an id has one owner and none is lost, until an exchange
on a stale link succeeds); `PagesReadable`, `RecoversSaved`; `DeadPagesUnused` (a
deallocated page is in no chain, now or after recovery, and is active again only
if a compaction has copied it from an older version or the record of its
deallocation has gone); `EditsKept` (recorded edits are kept and no other comes
back; the manifest can be opened unless half of an unrecorded edit is at its end);
`SpaceBounded` (when the reclaim job waits, the amplification is within the
options or too little is left to compact, except after a failed compaction). A
buffer of 32 bytes, as large as the state word admits, with word size 2 and pages
of 1, 13 and 30 bytes has room for three records, for exactly one, or for none,
with and without padding. In the file store a page goes through three groups, so
that a compaction, a flush and a cleanup of different ages meet; the manifest
takes five edits with a new file after each second one, two failures and three
crashes. In the policy a file with one page has more metadata than the option
allows, one with two has less.

*Data.* `PageReadsBack`, `ItersExact`, `FileReadsBack`, `LruExact`, `ClockExact`,
`ChildrenOwned`, `KeepsAddresses`. With `Fanout` 2 the ids 3, 4 and 5 are the end
of level 1 and the first leaf of level 2. Lists of at most two items, chains of
at most three pages, files of at most two pages in two groups, and caches of two
or four slots bring about every branch of the code.

*Progress.* `OperationsEnd`: every operation of the tree ends, or writes for ever
to a leaf that is too large and cannot be split. The part `rewrites` starts with
two keys in a full leaf and writes one of them again; there the exception occurs,
in the part `tree` it does not. `ReclaimSettles`: reclaiming comes to rest when the
flushes stop. With pages of 4096 bytes it always does; with pages of 100 bytes it
does, or every file it looks at has active pages only and their metadata alone
exceeds the limit. `JobsProgress`: every version is cleaned up for, and closing
the store ends both jobs.

*Symmetry* of tasks (and of page ids in `MCStore`) is used where only safety is
checked. Deadlock is not checked: calls are bounded, a closed store stops, and a
flush may sleep for ever (finding 1).

*Fairness.* The executor polls every task that can run and locks are handed to
who waits: weak fairness of the steps that an operation or a job takes by itself,
strong fairness of steps that need the lock of `Notify`. No fairness is assumed of
what callers decide (begin, allocate, flush, close, start an operation, install a
version), of failures, nor in `BufferSet` of the cleanup job. Ending a transaction
is part of `TaskStep`: tree operations allocate a bounded number of records. The
tree is fair in the form "idle again and again, or steps again and again", which
is weak fairness of a step that is enabled whenever the task is not idle.

## 4. Findings

Each has a run that shows it.

1. **A flush can sleep for ever beside a free permit** (`buffer_set.rs:518`).
   `release` promises to "wake waiters if any", but notifies only if the counter
   was 0, which only a stalled installer sets. A `switch_buffer_without_stalling`
   that waits with the counter at 1 is not woken when it becomes 2.
2. **One write buffer stalls for ever** (`buffer_set.rs:324`). With
   `max_write_buffers = 1`, `switch_buffer` waits for a permit before it notifies
   the flush job that would return one.
3. **A flush may return before older data is flushed** (`buffer_set.rs:366`).
   `Table::flush` says "Flush all write buffer data."; an empty active buffer
   makes it return at once, while an older sealed buffer may still be unflushed.
4. **A partial consolidation drops a delete** (`tree/page.rs:181`) whose older
   versions are in the large page it leaves alone: the deleted value is read again.

## 5. Exceptions

Some properties hold with an exception, because the code behaves differently in
one case. The exception is part of the property, it occurs in the run, and the
property says that there is no other.

| Code | What happens | Property |
|---|---|---|
| `page_store/page_table.rs:125` | "The list uses epoch-based reclamation" (line 92), but ids are given back at once: one popped, used and given back between the load and the exchange of another task leaves a stale link or a page address as head of the free list | `IdsOwnedOnce`: until `aba` |
| `page_store/jobs/reclaim.rs:197` | a compaction makes pages active again that a flush deallocated meanwhile, until the next restart | `DeadPagesUnused`: `lost` |
| `page_store/jobs/flush.rs:303` | deallocations of a group that is empty in memory are dropped with their file while the file of the group still exists: after a restart its pages are active again | `DeadPagesUnused`: `lost` |
| `page_store/manifest.rs:333` | a crash or an error that leaves the length of a record without its body leaves a manifest that cannot be opened | `EditsKept`: `OpensUnlessTorn` |
| `page_store/jobs/reclaim.rs:253` | a compaction that fails leaves the files it has read in `cleaned_files`, out of all accounts, until a round finds nothing to reclaim among the others | `SpaceBounded`: `aside`, `failed` |
| `page_store/jobs/reclaim.rs:439` | metadata counts as reclaimable space; when it alone exceeds the option, as with small pages, the job rewrites full files for ever | `ReclaimSettles`: `MetadataExceeds` |
| `page_store/page_file/file_builder.rs:273` | `PageInfo::size` is the size of the page in memory until the store is opened again, and then that of its compressed content with its checksum | `FileReadsBack`: `OnDisk` |
| `tree/mod.rs:145` | a leaf that is too large and has no separator (the middle of its items is a version of its first key) makes every write to it retry for ever | `OperationsEnd`: `Stuck` |

The models show these as well, when they are instantiated as said; the runs leave
them out.

| Code | What happens | Property and instance |
|---|---|---|
| `page_store/write_buffer.rs:613` | `allocated + required` wraps to 0 after a record of 2^31 bytes in a buffer of that size | `RecordsDisjoint` of `WriteBuffer`, `BufSize = HALF`; `WholeBufferAssumption` excludes such a record |
| `page_store/jobs/reclaim.rs:113` | the job skips versions that were replaced before it looked, and their latch stays closed: `wait_for_reclaiming` hangs, and its version keeps the cleanup job waiting | `WaitEnds` of `VersionChain` under `FairSpec`, 3 versions, one waiter |
| `page_store/cache/clock.rs:244`, `:664`, `:462`, `:483`, `:573` | a key inserted twice is in the table twice; the clock makes an erased entry visible again; `release` can spin; it takes displacements back with a hash it no longer owns; both top bits are cleared although one counter has not reached its own | `OneVisible`, `ErasedGone`, `OpsReturn`, `Findable`, `RefsCounted` of `ClockCache` |

## 6. Proofs

The theorems hold for every value of the constants that satisfies the named
assumptions of the module.

### BufferSet

For any finite set of tasks, any positive number of write buffers, capacity and
`MaxGroup`, any set of `FlushOptions` and both values of
`avoid_flush_during_shutdown`:

| Theorem | Property |
|---|---|
| `Inductive`, `TypeCorrect` | `IInv`, `TypeOK` |
| `InstallerUnique` | `OneInstaller` |
| `LookupsSucceed` | `BuffersReachable` |
| `FlushReadsComplete` | `FlushExcludesWriters` |
| `MemoryBounded` | `UnflushedBounded` |
| `NoStallingFlush` | `FlushDoesNotStall` |
| `CloseIsComplete` | `CloseFlushesAll` |
| `WaitedFlushDurable` | `FlushIsDurable` |

The properties are not inductive alone. `IInv` adds
- `WriterCount`: `writers[g]` is the number of transactions holding the write
  guard of `g`; without it, "no writer" would say nothing about transactions;
- `BufferInv`: buffers before the current one are sealed, later ones untouched,
  and buffers recorded in the manifest are sealed and have no writer;
- `FlusherInv`: the place of the flush job determines how `first`, `saved` and
  its buffer are related;
- `PermitInv`: outside of shutdown, free permits, live unflushed buffers and a
  permit in the hands of an installer add up to `MaxWriteBuffers`, and the counter
  is 0 only if a stalled task has recorded itself;
- `PinInv`: a version that is held keeps its buffers from being released, so that
  `BuffersReachable` survives the cleanup job;
- `TaskInv`, `StallFreeInv`, `ShutdownInv`: what a task knows of its buffer, what
  a non-stalling flush relies on, and what the end of the flush job guarantees.

`OneInstaller` carries `PermitInv` (one installer, so one permit in flight), and
`PermitInv` carries `UnflushedBounded` and `StallFreeInv`: a permit that
`switch_buffer_without_stalling` saw can only be taken by the task that seals the
buffer, and then this task finds the buffer sealed.

Frame lemmas state that a part of `IInv` survives a step that does not touch what
it reads; `LocalStep`, `MoveStep`, `JobStep` and `JobMove` combine them for steps
that only move one process; one lemma per action proves the parts it disturbs. The
actions that change `num_writer` take the new `WriterCount` as an assumption there;
it is discharged with the theorems on cardinality when `NextInv` collects the
steps. Leaves without arithmetic name Zenon, which is faster on them.

### VersionChain

`BoxesPinnedHolds`, `NextFoundHolds` and `CleanedUnusedHolds`, for any readers,
waiters and number of versions. The invariant `IndInv` has three parts:
`OwnerInv` (which boxes exist, what the deferred frees wait for, which versions
are linked and which latches are open at each step of an install), `PcInv` (where
the jobs are) and `HoldsInv` (a version that is held or loaded keeps the cleanup
job behind it).

### LinkedList and Notify

`PushFrontLinked`, `PopBackLinked` and `RemoveLinked` say that the operations keep
the pointers of neighbours in agreement and change the set of nodes by exactly one
node. From them, `Agreement` proves `IInv` of `Notify`: the lock is held exactly in
the places that need it (`HolderInv`), the list has exactly the futures that wait
for a notification, and the state is `WAITING` exactly while there is one
(`ListInv`). `NeverPanicsHolds` follows: no assertion and no `unwrap` of `notify.rs`
fails, for any number of tasks and callers.

`Refines` of `NotifyRefinement` proves `KeepsPromise`, again for any number of
tasks and callers. Agreement of neighbours does not say that the nodes form one
sequence, so `QueueHolds` first proves `RInv`: `Chain(list, Backward(list))` (the
nodes along `prev` from the tail are all nodes of the list, each once),
`PoppedInv` (what `notify_waiters` has taken off waits for it) and `FutureInv` (no
future is ahead of the calls it has seen). `Walk` is a recursive function;
`BackwardIs` shows that a function with its equation exists and that every one
gives the sequence of a chain, by a least position at which it does not
(`Least`, from the theorem on well-founded sets). `PushChain`, `PopChain` and
`RemoveChain` say what the operations of the list do to that sequence, and one
lemma per action (`PollTrySeen` to `DropSeen`) shows that it is a step of
`Notification` or changes nothing that it shows.

### WriteBuffer

| Theorem | Property |
|---|---|
| `RecordsDisjointHolds` | `RecordsDisjoint` |
| `WritersCountedHolds` | `WritersCounted` |
| `FlushToldOnceHolds` | `FlushToldOnce` |
| `RecordsReadHolds` | `RecordsRead` |

They hold for any finite set of tasks, any capacity, word size and alignment, and
any page sizes that satisfy `SizesAssumption`, `WholeBufferAssumption` and
`TasksAssumption`:
- the capacity is aligned and at most 2^31 (`HALF`). `WriteBuffer::with_capacity`
  only takes powers of two above the word size, which are aligned, and 2^31 is the
  largest one in a u32;
- in a buffer of 2^31 bytes no record has exactly that size: `allocated + required`
  would wrap after it (section 5);
- the size of a record with its header and padding does not wrap around in a u32;
- there are fewer tasks than `num_writer` has values, as `apply` asserts.

`MaxRecords` bounds the model; the proof assumes nothing about it.

The inductive invariant `Inv` adds to the properties
- `Tiling`: the records follow one another without a gap up to `allocated`, so
  a successful compare-and-swap of the word hands out the space after the last
  record and nothing else;
- `TaskInv`: a transaction that has records is counted as a writer until it has
  let go of them. Without it a buffer could become flushable while somebody is
  about to write into it;
- `OwnerInv`: a record belongs to one transaction until that ends, and only the
  one just allocated is not initialised;
- `MemInv`: the words of a live record hold its header and its body, the first
  word of an aborted one a tombstone with the right size, which the iterator
  needs to step over it;
- `IterInv`: the iterator stands at the start of a record or at the end, and what
  it returned are the live records before that place, in order.

The lemmas on arithmetic (`DivMod`, `Multiple`, `LoadApply`, `RecordSizes`) show
that no addition on the state word carries from one field into the next. From
`Tiling` follows `RecordsDisjoint`; `OccupiedFacts` turns it into disjoint sets of
words, so that `RecordStep` can show that a write into one record disturbs no
other. `IterationExact`, which compares the iterator with the list of live
records, needs no induction: at the end of the buffer `IterInv` says which items
there are and that their addresses grow.

### RadixTable

| Theorem | Property |
|---|---|
| `ChildrenOwnedHolds` | `ChildrenOwned` |
| `InBoundsHolds` | `InBounds` |
| `KeepsAddressesHolds` | `KeepsAddresses` |

They hold for any number of threads, any fanout of at least two
(`FanoutAssumption`) and any ids below the capacity of the third level
(`IdsAssumption`; for others `index` of the code is `unreachable!()`, and 0 is the
address of an empty slot). `BoundAssumption` only says that the bound on allocated nodes
is a number.

The inductive invariant `Inv` of `RadixTableSteps` has, besides `ChildrenOwned`,
- `TableInv`: a pointer is null or leads to an allocated node that no other
  pointer leads to, and only nodes that are reached have content. So a node that
  is installed is empty, and to install it changes no address;
- `ThreadInv`: a thread that descends is on the way to the word of its id
  (`OnWay`), and the child it is about to install is its own (`ChildInv`);
- `FreshInv`: a node that is not yet allocated was never dropped.

`StartL0` to `StartL2` compute the positions of an id from quotients and
remainders and show that different ids differ in one of them; with `TableInv`,
`WaysApart` concludes that different ids end at different words. `PointersStay`
is what the steps of others must respect: a pointer that is set stays. It carries
`WayStays` (a thread stays on its way whatever the others install), on which
`ThreadStep` rests. Every action is shown to preserve `Inv` and to change either
no word or, in `Access`, the word of its own id (`AddressStep`). That is the
refinement: `Call` is `Begin` of `AddressMap`, `Access` is `Return`, its atomic
operation, and `Descend`, `Allocate`, `InstallOrAcquire` and `Drop` stutter.
`KeepsAddresses` and `KeepsPromise` are safety properties, so the theorems state
them in full.

### Only model-checked

- Liveness (`SealedIsFlushed`, `StallEnds`, `BeginWakes`, `CloseCompletes`,
  `Delivered`, `OperationsEnd`, `ReclaimSettles`, `JobsProgress`): it needs
  fairness and `ENABLED`.
- `ItersExact`, `PageReadsBack` and `FileReadsBack`, which compare algorithms with
  reference definitions. The induction theorems of the library take an operator,
  which the provers at hand cannot instantiate.
- The properties of `Tree`, `PageTable`, `FileStore`, `Manifest`, `ReclaimPolicy`
  and the caches.

## 7. Not modelled

The encoding of edits (`meta.rs`) beyond length and body, compression and
checksum algorithms, the cache of file readers, statistics, `clear` and `iter` of
the bitmap (nothing calls them), cancelled futures in the page store, memory
orders weaker than sequential consistency, the environments (`env/`), and the
benchmark and stress tools. Rewriting of single pages by the reclaim job, which
the documentation mentions, is not in this version of the code.
