# TLA+ models of the spaces storage engine

These modules model the transactional block storage in
`src/src/storage/transactions/transactional_storage.h`, and the Poco
`TimedNotificationQueue` (`src/src/poco-1.4.6p1-all/Foundation/src/TimedNotificationQueue.cpp`).
TLC checks them. `PROJECT.json` lists the following:
- every component, every run and every mutant;
- the source lines that each definition translates;
- the findings and the hazards.

## The system and its parts

| Part | Code | Module |
|---|---|---|
| Block store | `sqlite_allocator` (lines 303–1854) | `BlockStore`, refining `BlockStoreSpec` |
| Version snapshot | `version_based_allocator` (1856–2270) | `MVCCCoordinator` |
| Coordinator | `mvcc_coordinator` (2344–3190) | `MVCCCoordinator`, refining `MVCCSpec` |
| Notification queue | `TimedNotificationQueue.cpp` | `TimedNotificationQueue` |

- **Block store.** A cache of block descriptors sits in front of one SQLite table. It supports the following:
  - `allocate`/`complete` hand out blocks under the store's lock;
  - `flush_back` writes modified blocks back and evicts clean ones in LRU order;
  - `begin`/`commit`/`rollback` drive an SQLite transaction;
  - a transient store deletes its file on rollback.
- **Version snapshot.** Each snapshot wraps one block store and a `previous` link. A read walks the chain of previous snapshots. A write copies the block into the transaction's own store.
- **Coordinator.**
  - It keeps the committed chain `storages`, oldest first.
  - `begin` creates a transaction based on the chain's tail and adds a reader to every committed snapshot.
  - `commit` appends the writer to the chain, releases its readers and runs `merge_down`. `merge_down` collapses runs of snapshots nobody reads.
  - `merge` moves the writer's blocks into the tail instead of appending.
  - `discard` releases a transaction.
  - The journal calls back through `journal_commit`, `make_singular` and `journal_synch_start/end`.
  - Replication control and notifiers (`control`, `notifiers`) are consulted around commit and merge.
- **Notification queue.** This is a timestamp-ordered multimap under a mutex, plus an auto-reset event.

The coordinator and its snapshots share one recursive mutex (`lock`). So every coordinator method is one atomic step, apart from the parts of `begin`, `commit` and `merge` that run before the mutex is taken. Those parts touch only the replicas and the journal, which the model represents as nondeterministic answers and the `journaled` set.

## Modules

### MVCCCoordinator (+ MC_MVCCCoordinator)

**State.** There are two groups of variables:
- the snapshot members, each a function over a set `Snap` of snapshot objects: `blocks`, `next`, `based` (previous), `version`, `readers`, `snap_order`, `read_only`;
- the coordinator members, under their code names.

A snapshot's store is abstracted to its content. Each address maps to the version of the transaction that wrote it, or `NoBlock`. `BlockStore` models the store's cache separately.

**History variables.** Four variables record what clients have seen:
- `txns`: the open transactions;
- `view`: what each transaction could read when it began;
- `committed`: the versions whose commit or merge succeeded;
- `current`: the content those commits and merges published.

**Actions.** Each action is one public method:
- `Begin` and `BeginRejected`;
- `Write`, `Create`;
- `Commit` = the journal/replica step + `CommitApply`;
- `Merge` = the same + `MergeApply`;
- `Discard`, `MakeSingular`, `JournalSynchStart`, `JournalSynchEnd`;
- `Engage`, `Release`: the coordinator's reference count `references` and the count it holds on the initial store, `initial_refs`.

These are grouped in `Next` as `Operation`, which leaves the two counts unchanged, plus `Engage` and `Release`.

**References.** `engage()` engages the initial store on the first reference. `release()` releases it on the last one, but only when one snapshot is left in the chain; the code marks the other case TODO. The model keeps both counts as `Engage` and `Release` change them. The direction the code leaves unfinished fails: after a commit leaves two snapshots, `engage(); release()` leaves the initial store engaged with the coordinator unreferenced. The hazards list it.

**Moves and versions.** `move()` (line 1285) checks each block it moves against the version the destination's `allocate(at, create)` reports: the cached block's version, or the destination store's own. It throws `InvalidVersion` unless the block is newer. The throw comes half way through the loop, with the destination's allocation still open. A block's value in the model is the version it carries, so the check is expressible. `MoveVersionsAscend` states its precondition for every move the code makes. Along the chain extended by the open writer, each block is newer than every block at its address, and than every store, further down. `merge_down()` moves down this chain, and `merge()` moves the writer into the tail. `MergeVersion` is the fresh version `merge()` gives the writer. Without it, the writer's next write carries the version the tail already holds.

**Refinement.** `MVCCSpec` is the coordinator's contract. It has these parts:
- the committed content;
- the open transactions, with at most one writer;
- each transaction's snapshot (the content when it began) and its own writes.

A commit publishes the writer's writes, and the writer's snapshot must still be the committed content. `MVCCCoordinator` implements it under this mapping:
- the committed content is the chain read from the tail (`ReadAll(Last(storages))`);
- a transaction's snapshot is the chain read from its `based` snapshot;
- its writes are its own store.

merge_down, make_singular, rejected begins and refused commits are invisible steps. `merge()` is left out of the contract because it changes open readers' snapshots (the merge_isolation finding). `CoordinatorRefinement == MVCC!Spec` is checked as a property.

**merge_down.** `MergeDown` is an operator over the chain, used inside `CommitApply` and `MakeSingular`. The helpers `Absorbed`, `Collapsed` and `Relink` translate its collect, move and relink loops. The mutants use them as the units to change.

### TimedNotificationQueue (+ MC_TimedNotificationQueue)

**Threads:**
- a producer calling `enqueueNotification()`;
- the queue's single dequeuing thread, the consumer. Poco allows one thread at a time in the dequeue functions, so the consumer is also the only caller of `dequeueNotification()` (`Poll`) and, when `ClearEnabled`, of `clear()` (`Clear`). Each of those is one step under the mutex, taken between calls.

Because only the consumer removes entries, the entry `it` it took under the mutex is still queued when it reads it after unlocking and when `dequeueOne(it)` erases it.

**Consumer steps.** The consumer runs `waitDequeueNotification()` as one step per stretch between blocking points:
- `Lock`: lock, `it = begin()`, unlock;
- `Check`: read `it`'s time outside the lock;
- `Wake` / `Timeout`: the two outcomes of `wait(sleep)`;
- `DequeueOne`;
- `AwaitAvailable`.

**Timed wait.** `WaitFor(c, b)` calls `waitDequeueNotification(b)`. Its loop is these steps:
- `TLock`: the `while (milliseconds >= 0)` test, then lock, `it = begin()`, unlock;
- `TCheck`: take `now` and compute `sleep`;
- `TWake` / `TTimeout`: the two outcomes of `wait(sleep)`;
- `TMore`: lines 146–152, then `tryWait(milliseconds)`, which ends in `TResume`.

`Charge` is the `milliseconds -= (now.elapsed() + 999)/1000` of lines 137 and 150. The consumer returns to `idle` between calls and picks any of the four functions.

**Clock.** Time is a discrete clock, `Tick`, in ticks of 1/`Ms` millisecond. The stretches of a timed call between its waits (`Running`) take no time. The code never charges the interval for them, so the property about the interval is about the waits alone.

### BlockStore and BlockStoreSpec

**BlockStore state.** `BlockStore` keeps these fields of one `sqlite_allocator`:
- the allocations map, split into `cval`, `cmod` and `cclock`;
- the table as the connection sees it, `db`, and the committed table, `dbc`;
- `transacted`, `session`, `is_new`, `next`, `clock`, `changes`, `busy`;
- the pending `result`/`how`;
- `references`, the `engage()` count.

**How the helpers compose.** The helpers transform a record of these fields, so an action composes them in the order the code calls them. For example, `CoordinatorCommit` is `CommitOp(Begun(Cur))`, and `Allocate` starts with `CheckUse`.

**Memory use.** Memory use is one unit per cached block. So `use > before*factor` becomes `100*use > F*before`, with the code's factors 0.3, 0.45, 0.8 and 0.85.

**Crash.** `Crash` loses the cache and the open SQLite transaction, then re-runs the constructor.

**References.** `Engage` and `Release` model `engage()` and `release()`. `discard()` (and `close()`, which calls it) does nothing while `references > 0`, so `Discard` is guarded by `references = 0`. `Release` drops a reference if there is one and then runs the same discard step. The discard step of a permanent store commits what changed with `begin_new(); commit()`, rolls back, closes the session and empties the cache. It is the shared operator `DiscardStep`.

**Change notifications.** `NotifyChanges` is the coordinator's `notify_changes()` as one store sees it. `ReleaseStale(a)` recycles a cached, unmodified block whose version differs from the notified one. Per-block versions are abstracted, so any clean cached block may be the stale one. The code takes no lock here, so the action is not guarded by `busy`: a notification can arrive while another thread is between `allocate()` and `complete()`.

**History variable.** `promised` records what the store showed when `commit()` last returned.

**Refinement.** `BlockStoreSpec` is the store's contract (spec 4.1): a content and the durable content, and the address an allocation holds for writing, with `Grant`, `Write`, `Commit`, `Rollback` and `Wipe`. Only the holder changes a block: `Grant` (`allocate`) may create it empty, and `Write` (the caller's store, then `complete()`) gives it the caller's data. `BlockStore` implements it under this refinement mapping:
- content = `View`, the cached block, else the row;
- durable = `dbc`;
- held = `Held`, the address `allocate()` returned for write or create while `busy`, else 0.

So eviction, write-back, change notifications and crashes may never change what an address shows, except as a commit, a rollback or a wipe. The mapping is `Abs == INSTANCE BlockStoreSpec WITH ...`, and `StoreRefinement == Abs!Spec` is checked as a property.

## Runs

Passing runs:

| Run | Checks | Shows |
|---|---|---|
| coord_commit | TypeOK, SnapshotIsolation, ReaderCountsExact, CountersAgree, AddressesFresh, CommittedReadable, MergeDownCollapses, CoordinatorRefinement | With commit only, readers are isolated, reader counts are exact, merge_down keeps every pinned snapshot, committed data stays readable, and the coordinator implements `MVCCSpec` (196k states) |
| coord_merge | AddressesFresh, WriterOrderCurrent, CommittedReadable, ChainWellFormed, MoveVersionsAscend | With merge, refusing peers and clients engaging and releasing the coordinator, the chain, the version index and the writer's order stay consistent, and no `move()` of a merge or merge_down can throw `InvalidVersion` (1.17M states) |
| tnq_consumer | TypeOK, NeverEarly, EventuallyDelivered, NoSleepPastBudget | The dequeuing thread, calling both wait functions, `dequeueNotification()` and `clear()`, returns no notification early and every one eventually, unless cleared. A timed call never blocks past its interval, however often enqueues wake it (253k states) |
| store_coordinator | TypeOK, NextAboveAll, CleanMatchesDisk, CommitDurable, StoreRefinement | A permanent store committed as the coordinator commits it, with flushes, reduce, engage/release, discard, lock-free change notifications and crashes, implements the contract and keeps `++next` fresh (569k states) |
| store_transient | CleanMatchesDisk, StoreRefinement | A transient store under `check_use` pressure and change notifications, with plain `commit()` and a rollback that deletes its file |

Violation runs (see the findings in PROJECT.json):

| Run | Property | What TLC shows |
|---|---|---|
| merge_isolation | SnapshotIsolation | `merge()` moves the writer's blocks into the tail snapshot that an open reader reads through |
| replica_commit | ReplicaConsistent | `commit()` throws exactly when `commit_replicants()` succeeded (line 2924) |
| tail_version | TailIsLastCommit | `merge_down()` keeps the oldest snapshot of an idle run; the spec says the newest |
| store_raw_commit | CommitDurable | `commit()` without a transaction already open flushes nothing |
| store_flush_twice | FlushIdempotent | A second `flush_back(f, true)` evicts more (spec P7) |

Every property of a passing run has a mutant in PROJECT.json. A mutant is a plausible slip in the code it models, such as a dropped guard, a reversed test or a missing update, and TLC finds the property violated under the run's own configuration.

## Bounds

**MVCCCoordinator.**
- Four snapshot objects, with symmetry over the three that are not the initial one.
- Two addresses.
- Versions up to 5 (4 with merge).
- Up to two references to the coordinator in coord_merge (`MaxRefs = 2`), enough for a nested engage and for an engage/release pair across a commit. The other coordinator runs set `MaxRefs = 0`.

This allows two commits on top of the initial snapshot, with a reader open across them. That is enough for merge_down to collapse a run of two idle snapshots while a pinned one stays, and for a merge under a reader.

**TimedNotificationQueue.** Three notifications, ticks 0..4 at two ticks per millisecond, and intervals of 0 or 1 ms. That covers the following:
- equal timestamps;
- a notification due later than the head;
- a wait that is woken before its deadline;
- a wake-up after half a millisecond, which the rounding charges as a whole one.

**BlockStore.**
- Three addresses.
- Two values.
- Three allocations per store lifetime.
- At most one `engage()` reference (`MaxRefs = 1`): engaged or not is all `discard()` tests.

An initial file with one row, one address to mint and one beyond it is enough for the following:
- LRU eviction of one clean block out of two;
- a crash with a minted address above `ma`;
- flushing a created block.

## Fairness

The coordinator and block-store runs check only safety: no fairness is assumed. For the queue:
- the consumer thread is weakly fair, because the OS schedules a runnable thread;
- the clock is strongly fair, because time passes. It is disabled while a timed call runs between waits, so a consumer that keeps calling `waitDequeueNotification(0)` must not stop it.

No fairness is assumed for the producer. `Poll` and `Clear` are steps of the consumer, so its fairness does not force them: it may always pick a wait function instead.

The consumer blocked on an empty queue is the queue's idle state, so its runs set `CHECK_DEADLOCK FALSE`. The other runs check deadlock.

## Not modelled

- **Coordinator.** Recovery mode and journal replay are not modelled, nor are the journal's log itself and the internals of replication. The journal's code and the replication code (`storage/network/replication.h`) are not in this repository. Neither is the peers' state, so the replicas a rejected writer leaves begun (line 2771) are a hazard, not a property. The descriptors `merge()` sends to the notifiers are also left out: they need each snapshot's cache.
- **Block store.** Not modelled:
  - the two-store operations `move`, `copy` and `replicate`. `move` appears in the coordinator as `Overlay`.
  - `inject`, `journal()`, read-ahead, per-block versions and `local_writes == false`. Per-block versions enter only as the nondeterministic choice of `ReleaseStale`.
  - what a block handed out for read points to after a change notification recycles it. The hazards list that this is reachable.
  - `set_transient()`/`set_permanent()`: the store's kind is the constant `Transient` of a run.
  - `discard()` of a transient store. It drops the session without `rollback()` and leaves `transacted` set; a store reused after it would write in autocommit and fail at `commit;`. The coordinator discards transient stores only at the end of their life, so the reuse never happens in this repository.
  - `purge()` and `initialize()`, which have no callers. Code that is never called is not a hazard of this program.
- **Notification queue.** More than one dequeuing thread is not modelled: Poco allows one at a time, and with two, one can erase the entry the other still holds an iterator to. The 8-hour `MAX_SLEEP` chunking of `wait()` is not modelled. Neither is time spent between the waits of a timed call; the hazards list it.
- **Timed-wait rounding.** With TLC, a 1 ms timed call woken after half a millisecond returns 0 at half its interval, although a notification due at its end is queued. This is listed as a hazard, not a run, because the repository states no contract for the timed call.
- **Other code.** `delete_temp_files_of`, a directory scan, is not modelled. The Poco headers in `src/` are declarations only.

## Plan for later work

- Crash and journal recovery across the coordinator and its stores.
- Liveness of collapsing idle history under `make_singular`.
- `move`/`copy` between two `BlockStore` instances.
