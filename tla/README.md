# Verification of GraphflowDB

GraphflowDB is an embedded property-graph database. A program links it, opens a `Database` on
a directory and runs Cypher statements through `Connection` objects, usually one per thread.
This directory holds TLA+ modules for its transactional core, its storage structures and its
query processing, TLC configurations that check them on small instances, and TLAPS proofs of
what matters most. Paths below are relative to the repository's `src/` directory unless
they start with `src/`.

## 1. Inventory

### The parts and how they interact

A **Connection** (`main/connection.cpp`) parses, binds and plans a statement against the
catalog, begins a transaction, has the plan executed and ends the transaction. It serialises
its own calls with a mutex. In AUTO_COMMIT mode every statement is its own transaction; a
client may also begin, commit and roll back a MANUAL one. The **Database**
(`main/include/database.h`) owns everything else and has the commit procedure
`commitAndCheckpointOrRollback`. The **TransactionManager** (`transaction/`) hands out
transactions: any number of read-only ones, one write transaction. A commit stops new
transactions, waits for readers to leave, logs and flushes the **WAL** (`storage/wal/`) and
checkpoints: the **WALReplayer** copies the WAL version of every updated page over the
original and brings caches up to date. Pages are read and written through the **BufferPool**
(`storage/buffer_manager/`), pages of the WAL included; a **VersionedFileHandle** knows which
pages have a WAL version. A plan runs as tasks of the **TaskScheduler** (`common/task_system/`),
whose workers several statements share; COPY statements use it too.

Below the transactions are the **storage structures**: columns with overflow files, lists found
through **DiskArrays**, the statistics that say which node offsets exist, and the hash index on
primary keys. Each keeps a version for readers and one for the write transaction. DDL and COPY
statements change the **Catalog** and whole files, and are recovered from records of their own.
Above the structures a statement is planned (**Planner**), mapped to **physical operators** and
run by several threads: each pipeline pulls batches of vectors from its source, and the last
thread of a pipeline merges what all have collected.

| part | state | operations | what makes it correct |
|---|---|---|---|
| TransactionManager | IDs of active transactions, last ID and commit ID, two mutexes | begin read-only / write, commit, rollback, stop, allow | one writer; nobody in a transaction during a checkpoint; IDs agree with the connections; calls return |
| Connection | mode, active transaction | query, execute, begin, commit, rollback, destroy | a statement that fails is rolled back as a whole; a transaction ends once |
| Database | WAL, catalog, storage manager | commit with checkpoint, rollback, recovery at start | committed means checkpointed, rolled back means gone |
| WAL | header pages with records, pages with versions, file on disk | log, flush, iterate, clear, open | after any crash the files are those of the durable commits |
| WALReplayer | replay position, page buffer | checkpoint, rollback, recover | each record once and in order; idempotent |
| VersionedFileHandle | WAL version and lock per page | set, clear, add page, truncate | no version outlives its transaction |
| BufferPool, FileHandle | frames, pin counts, page locks, page-to-frame map, clock hand | pin, unpin, set dirty, evict, flush, remove, update frame | a pinned page stays, no stale read, a full pool is reported only when it is full, no deadlock |
| TaskScheduler, Task | queue, counts per task, exception | schedule, get and register, run, deregister, wait, stop | finalized once and last; errors reach the user; users come back |
| Catalog, DDL, COPY | read and write version of schemas and statistics, files of tables | create, drop, copy, commit, rollback, replay, recover | a table is there as a whole or not at all, after any crash |
| DiskArray | header, index pages, array pages, pending updates | push back, update, get, checkpoint, rollback | readers see the old array, the writer the new one, until the checkpoint |
| Node offsets and statistics | number of nodes, deleted offsets per morsel, two versions | add node, delete node, scan, checkpoint, rollback | a scan returns the nodes of its version, once each |
| Hash index | slots, overflow slots, level, next split, local storage | append, delete, lookup, split, flush | lookup finds what was appended, and what the transaction did |
| Column, OverflowFile | cells, null bits, overflow pages, next byte position | write value, read, rollback of the position | what is read is what was written |
| Lists | headers, metadata, pages, update store | update, rewrite at commit, read | rewritten chunks hold the old and new lists; readers see none of it |
| CSV copier | blocks, in-memory columns and lists, overflow files, index | count, populate, sort, save | every row is loaded once, whatever way the tasks interleave |
| Aggregation, join, ORDER BY | local tables, shared tables, morsels | append, merge, finalize, probe, scan | the result is that of the reference definition |
| Pipelines, expressions | vectors, selections, null bits, multiplicity | the operators' `getNextTuples`, evaluate, select | as above, with SQL's three-valued logic |
| Planner | subplans table, factorization groups, scope | enumerate, join, project, union | every candidate plan computes the query |
| dates, timestamps, intervals | none | convert, add, truncate, parse, format | they agree with the calendar |
| parser, binder | none shared | translation | unit tests |

### What is hard here

* **Interleavings.** Two mutexes of the transaction manager, taken in both orders; spin locks
  on pages and frames with try-lock and double checks; workers that register to one task and
  race to be its last; users polling the queue.
* **Crashes.** The WAL is flushed in several writes, replayed record by record and cleared
  after; the process may die between any two of them, and again during recovery.
* **Partial failure.** Statements, commits and finalizers throw; a wait times out.
* **Versions.** The same array, list, count or column has two versions, in memory, in WAL
  pages and in the file, which a checkpoint or rollback must bring together in the right order.
* **Factorized execution.** Vectors are reused from batch to batch with their selections and
  null bits, some flat and some not; an operator must restore what it narrowed.
* **Limits.** A pool with few frames, header pages, list pages, hash slots and batches that fill
  up exactly, evictions inside a transaction, dates beyond the tables.

`PROJECT.json` lists the hazards one by one at their lines, with the properties that cover
them.

## 2. Modules and their correspondence to the code

Every module has one action per function, or per critical section of a function where other
threads can run in between; `PROJECT.json` maps each definition to its lines. (A helper all of
whose lines belong to the definitions that use it has no entry of its own.) Definitions with
a suffix after an underscore (`EvictCheck_Skipped` and the like) are variants with a
plausible mistake, one for each property, kept to show that the property can tell them apart;
no specification uses them.

### TransactionManager

`transaction/`, the transaction control of `main/connection.cpp`, and
`Database::commitAndCheckpointOrRollback`. A connection is a thread with a location `pc[c]`;
`newTransactionLck` and `publicFunctionLck` are the owners of the two mutexes. A critical
section under the public mutex is one step, except the stop of a commit, which keeps the mutex
while it waits. A begin is two acquisitions (`LockNewTransactions`, then one of the three
outcomes of the second critical section). A commit is stop (two acquisitions, wait or timeout),
`CommitButKeepActiveWriteTransaction`, `CheckpointAndClearWAL`,
`ManuallyClearActiveWriteTransaction` and `AllowReceivingNewTransactions`. Execution of a
statement is one step that succeeds or fails, with or without updates before it; preparation
may fail before a transaction begins. `Destroy` is the destructor, which only calls the
manager's rollback. The client is free: any call, in any mode, at any time.

The data of a write transaction is its ID: `walUpdates` are the transactions with updates in
the WAL and the in-memory write versions it undoes, `checkpointed` those whose updates are in the
database files. `catalogUpdates` are those of DDL and COPY statements in the write version of the
catalog and the relationship statistics: a rollback leaves them, since the replayer's branches for
those records do nothing (`wal_replayer.cpp:83-86` and others), and the next commit checkpoints
them (`checkpointedCatalog`). `snapshot`, `updated`, `rolledBack` and `abandoned` are history
variables.

Left out: the two `...ButSkipCheckpointing...` functions, which exist for recovery tests.

### WAL

`storage/wal/wal.cpp`, the page records of `storage/wal_replayer.cpp`, the order of calls in
`database.h`, and recovery in `main/database.cpp`. The file is a sequence of pages: page 0 is
the first header page, header pages are chained by `next`, other pages hold versions. The current
header page is in memory (`header`), a full one is written when the next is begun
(`AddNewWALRecord`). Versions are in frames until evicted (`EvictWALPage`) or flushed one page
at a time (`FlushDirtyPage`). A page may be updated several times in a transaction: the first
update makes the version and marks its frame dirty, later ones write to the frame and mark nothing
(`storage_structure_utils.cpp:43-46`), so that an update after an eviction is in a frame that
will be dropped (`unmarked`). A replay reads header pages from the file, record by record;
`isCheckpoint` and `isRecovering` select what a record does, as in the code. Reading at the end
of the file leaves the buffer as it was, reading beyond it throws, and a page below the end
that was never written is zeros: this is what `pread`, the check in `FileUtils` and sparse
files give. A crash loses memory and keeps what was written (a crash of the process, not of
the machine: the code never calls `fsync`). Records without a page (catalog, tables,
statistics, overflow positions, COPY) are auxiliary records here. `log`, `chain`, `committed`,
`durable` and `torn` are history: the records that were logged, the header page each came to,
what the durable commits made, and whether a crash hit a transaction before the end of its flush.

`DurablePages` is what the WAL promises: pages that change by whole transactions, and that a
shutdown, a crash or a rollback leaves as the last commit made them. The mapping in `WAL`
(`Durable`) has the contents of a database be `committed`; readers find the database files
(`original`) except from the flush of a commit to the end of its checkpoint, and before the end
of a start, when the code lets nobody read; a page is written by the running transaction when
it has a WAL version. The commit is the one write of the last header page; the rest of the flush,
the replay of each record and recoveries are stutters. The promise ends with a torn WAL.

### BufferPool

`buffer_pool.cpp`, page locks and the page-to-frame map of `file_handle.h`, and the callers in
`storage_structure_utils.cpp`, `storage_structure.cpp` and `wal.cpp`. Threads pin and unpin pages of
the database files, which they only read in frames, and update pages of the WAL: an update takes
the lock of the original page, pins the WAL page without its own lock, writes, and marks the frame
dirty if it was the first. Pin finds the frame or claims one: the clock hand moves
atomically, an empty frame is filled under its lock, a frame with its access bit set gets a
second chance, and a victim is tried in the four steps of `tryEvict` (look at the pin count,
lock the frame, lock its page, look again) before it is flushed, cleared and read.
`FlushAllDirtyPages` and `CheckpointPage`
(`updateFrameIfPageIsInFrameWithoutPageOrFrameLock`) run with no transaction in the system, as in
a commit; `RemoveFilePages` is the clearing of the WAL, which a rollback does beside readers. Two
constants choose between the code and a pool that its comments describe: `LocksWALPages` (`FALSE`
is the code) and `ClearsBesideReaders` (`TRUE` is the code). `resize` and metrics are left out; the
two pools of the BufferManager are two instances. `Holders` and `Arriving` are the threads a pin
count should count: those that hold a pin, and those whose call is about to return one.

### TaskScheduler

`task_scheduler.cpp`, `task.cpp` and their headers, each critical section one step. A query's
tasks are scheduled one at a time, dependencies first; a COPY schedules several and waits for
the queue to be empty. A worker registers to the first task that will have it, removes completed
ones on the way, runs, and deregisters, finalizing if it is the last. A worker that throws
records the exception in one critical section and deregisters in another. `FinalizeThrows` is
the throw inside `deRegisterThreadAndFinalizeTaskIfNecessary`. The end of the database is `Stop`.
There are finitely many workers, and one COPY at a time (`OneCopyAtATime`), because a COPY is a
write transaction. With two of them `CopiesAreComplete` would fail: the wait of one removes the
erroring task of the other.

### TransactionalArray and DiskArray

`TransactionalArray` is what the users of `storage_structure/disk_array.cpp` rely on: a read
and a write version of a sequence, made equal by a checkpoint, a rollback or a recovery.
`DiskArray` is the code: arrays that share a file, header pages, chained page index pages,
array pages, their WAL versions, the copies in memory for readers, and the checkpoint or rollback
of one array after another in the order of their records. Its `INSTANCE` maps the read
version to what `get` finds in memory and the write version to what it finds through the
versions; `IsATransactionalArray` is the abstract specification as a property of the detailed
one. Elements that a page never had are `Garbage`. The arrays are first built one after the other
by the COPY (`AreBuiltInOrder`), with their pages where `InMemDiskArrayBuilder` puts them.

### PropertyLists, NodeTable, Column, HashIndex

`PropertyLists` has the update store of unstructured properties
(`updated_unstructured_property_lists.cpp`) and, step by step, the iterator that rewrites the
chunks at commit (`lists_update_iterator.cpp`): small lists slid within the pages of their
chunk, lists that become large, page lists that grow by linked groups. The four disk arrays below
it have the two versions that `TransactionalArray` promises. `NodeTable` has the node counts and
deleted offsets (`nodes_statistics_and_deleted_ids.cpp`, widths kept by `OffsetModulus`), the
relationship counts, and `ScanNodeID` with morsels, semi masks and selections. `Column` has cells,
null bits, strings and lists with their overflow, and the reads of vectors flat and unflat,
sequential and not; a scan keeps one frame cached, under its page number, and the pointers of a
list's strings are written after the frame of the list was unpinned, as in `overflow_file.cpp`. A
column is written by one thread; a value that is too long throws with its page locked
(`store.locked`) and the rollback gives the lock back. (A second worker of the same statement would
spin on that lock before the rollback begins; it is not modelled.) `HashIndex` has slots and overflow slots, linear hashing, the
build by several threads under a mutex per slot, flush, and the local storage of a write
transaction. Its commit is an empty function in the code, so the model ends before it.

### Catalog

`catalog/`, the operators of DDL and COPY statements, and the records of tables, catalog,
statistics, COPY and DROP in `wal_replayer.cpp`, replayed one at a time at a checkpoint and at a
recovery, with a crash possible before each. `disk` and `memory` are what survives a crash
and what does not; one file stands for the files of a table.

### CSVCopier

`storage/in_mem_csv_copier/`, `common/csv_reader/`, the in-memory files, lists and columns. One
action per task and line in each phase; tasks of all blocks interleave, phases are waited for.
Blocks cut lines, lists get headers, metadata and pages, elements take their place by counting
sizes down, long strings and lists go to overflow pages owned by a task and are sorted into their
final file. The property reads the result back the way `lists.cpp` does.

### Aggregation, HashJoin, OrderBy

The operators that end a pipeline. Each has threads with local tables, the merge under a lock, the
finalization by the last thread, and the scan of the result. `Aggregation` has the hash tables
with open addressing, their growth, the functions and their states, DISTINCT and the
factorized input. `HashJoin` has the blocks of `FactorizedTable` with their null maps and
unflat columns, hash chains, batches of matches, inner and left joins, and the iterator over flat
tuples. `OrderBy` encodes keys in digits, sorts blocks cell by cell as `radix_sort.cpp` does,
resolves ties by looking values up, and merges blocks in morsels dispatched to threads.

### Expressions and Pipeline

`Expressions` are vectors, selections and the executors of `function/include`, for evaluation
and for selection. `Pipeline` is the pull model: a thread is in `getNextTuples` of one operator,
called or returned to, and each operator has one action for each. Scans, extends by column and
list, variable-length extends, property reads, filter, flatten, projection, multiplicity
reducer, skip, limit, union and result collection are there; lists and columns are constants.

### Planner

`planner/` as operators on logical plans, with one action per clause: the dynamic programming over
subgraphs with index nested loop and hash joins, semi masks, OPTIONAL MATCH with accumulated outer
plans, projections, WITH, UNION. A plan carries the rows its operators compute on a small
database and whether each operator finds what it reads, so that every candidate plan, not
only the cheapest, is compared with the meaning of the query, which is defined by trying every
assignment.

### DateTime

`common/types/date_t.cpp`, `timestamp_t.cpp`, `dtime_t.cpp`, `interval_t.cpp` and the functions on
them. The tables of `date_t.cpp` are its literals, so that a wrong number would be found where
the calendar meets it: every year of the table of years is visited, and every day of years with and
without a leap day. The reference for centuries and millennia is the formula of the code. Units
below a day are constants, so that microseconds fit TLC's integers; the calendar has its real
units. Texts are their fields.

## 3. Runs

| run | question | instance |
|---|---|---|
| `tm_safety` | isolation, rollback of what is in the log, durability of commit, agreement; can a call hang for any other reason than the two mutex defects? | 2 connections, 3 transactions, both may write and be destroyed |
| `tm_lock_order` | *violation*: lock-order cycle of begin and commit | 2 connections |
| `tm_undone` | *violation*: the catalog of a failed DDL statement is checkpointed, and so are the updates of a destroyed connection | 2 connections |
| `wal_recovery` | durability, replay of the whole log, every start ends, nothing uncommitted written; refinement of `DurablePages` | 2 pages with up to 2 updates each, 2 records per header page, 3 transactions, 2 crashes in any phase, shutdowns, evictions |
| `wal_flush_order` | *violation*: crash inside the flush | one header page, no evictions |
| `wal_update` | *violation*: an update of a page whose WAL page was evicted is lost by a commit | 2 pages, no crash |
| `bp_pins` | pins, pin counts, staleness, completeness of the clock; calls return | 2 threads, 3 pages (1 of the WAL), 2 frames, 4 pins, 2 writes; 1,149,000 states |
| `bp_wal_pages` | *violation*: pin of a WAL page races with its eviction | `LocksWALPages = FALSE` |
| `ts_tasks` | finalization, outcomes, no worker left behind, users come back, workers exit | 2 workers, query of 2 tasks, COPY of 2 tasks, all may throw |
| `ts_finalize` | *violation*: a finalizer that throws hangs its query | 2 workers, query of 2 tasks |
| `storage` | do the storage structures keep their versions apart and bring them together? Refinement of `TransactionalArray` | see below; 277,000 states |
| `query` | do statements do what they say: DDL and COPY, plans, operators, dates? | see below; 123,636 states |

`storage` and `query` hold several models that share no state; a behaviour runs one of them, the
`subject`, so that their state spaces add up instead of multiplying.

**Bounds, and why they are enough.** The races of the transaction manager are between a
committing connection and one that begins, reads or leaves, so two connections meet all of them;
three transactions allow a commit after a rollback and after an abandoned transaction. (The
safety theorems have no such bounds.) With two records per header page, transactions of one to
four records end before, at and after the boundary of a header page and span two or three of
them; three transactions and two crashes allow a crash in a checkpoint and one in the recovery
from it, with transactions before and after; two updates of a page meet the branch for a page
that has a version. (The theorems have no such bounds.) Crashes before the end of a flush tear the WAL, which `torn` records;
`NothingUncommittedIsWritten` is about all behaviours, the other properties about those without
such a crash. (For `VersionsAreReadable` this took a proof to see: a crash after an eviction
leaves a WAL whose page 0 has no records, the next commit is never replayed, its versions stay,
and the transaction after it finds them. Three transactions are too few for that.)
Two frames and three pages are the least with a choice of victim and a page that must wait; a
page can be evicted, read back and evicted again within four pins. One worker must finish while
another runs and a third party waits: two workers and two users.

The structures have pages of one to four elements, so that a few operations fill a page, begin
a second index page, need a second group of a page list, an overflow slot or a split. Two
arrays share a file and have three transactions (one to add, one to roll back, one to add again);
`MaxPages` is the number of pages that arrays with `MaxElements` elements take, so that it stops
no append before `MaxElements` does.
Two list transactions of two operations move small lists, make one large and shrink it. Two
workers scan three offsets in morsels of two while a transaction deletes and inserts. Two threads
build an index of three rows whose keys collide. The query instances are sets of inputs chosen to
meet the branches of an operator: flat and unflat operands, NULLs, empty and full batches,
ties, except for those that the list of defects below takes out; pipelines have vectors of three values and a graph of five nodes, joins batches of two
matches, sorts blocks of three tuples. Plans are made for about 150 statements over two
relationship tables, one of them a column. DDL has four statements and two crashes. The calendar
visits every year from -3 to 2401 and every day of ten years around the ends of the tables
and of centuries.

**Defects kept out of the passing runs.** Where the code is known to fail, the rest of a property
would be hidden behind the failure. The models have these behaviours; a constant or the inputs of
an instance keep them away. The last column says how to see them: by a violation run, or by
changing the named constants of `Storage.cfg`, `Query.cfg` or `BufferPool.cfg` (with `Subjects`
cut down to the part in question), when TLC finds a counterexample to the property.

| kept out | how | shown by |
|---|---|---|
| an update of a page whose WAL page was evicted | `UpdatesEvicted = FALSE` in `wal_recovery`; `FramesAreCurrent` of `bp_pins` excepts pages in `lost` | `wal_update`; for the pool `LocksWALPages = FALSE` and the invariant `WritesAreKept` |
| WAL pages pinned without their lock | `LocksWALPages = TRUE` in `bp_pins` | `bp_wal_pages` |
| a WAL cleared beside readers | `ClearsBesideReaders = FALSE` | `ClearsBesideReaders = TRUE`, `LocksWALPages = FALSE` and the invariant `EvictionsFindAPage` |
| tasks that are completed and still in the queue when their query returns | `QueriesLeaveNoWorker` is about workers and about tasks with errors | `TaskScheduler_finalize.cfg` with `Spec`, `FinalizeMayThrow <- NoTasks` and the invariant `NoTaskIsLeftInTheQueue` |
| two arrays of a file with new pages to roll back | `RollbackShared = FALSE` | `RollbackShared = TRUE` |
| small lists longer than their header can say | `LengthsAreCut = FALSE`, files without such lists | `LengthsAreCut = TRUE` (`ReadersSeeCommittedLists`); `CopyFiles <- FilesWithCutLists`, `ListChunk = 3` (`CopiesAreFaithful`) |
| a chunk without lists before the next one | the number of nodes | `InitialNodes = 0`, `MaxListOps = 4` (`ListsCanBeWritten`) |
| first node of an empty table; an erased map entry with another key | `MayInsertIntoEmpty = FALSE`, `ErasedKeyIsKept = TRUE` | setting them |
| values that end one past an overflow page | the lengths of strings | `StringLengths = {2, 3}` (`ColumnsReturnValues`) |
| list elements of the short length | the lengths of lists | `ListLengths <- ListsOfShortest` |
| pointers written through an unpinned frame | `FramesAreReused = FALSE` | `FramesAreReused = TRUE` |
| a writer's scan of strings on pages of one number in the overflow file and in the WAL | the exception `PagesAreMixedUp` in `ColumnsReturnValues` | `StringLengths = {4}`, `MaxColumnWrites = 3` and the property without the exception |
| string keys; keys that are deleted, inserted and deleted | `StringKeys = FALSE`, `DeletedKeysReturn = FALSE` | setting them (`WriterSeesItsKeys`) |
| CREATE after DROP of an earlier table; statements after a failed DDL | `DropsLeaveGaps = FALSE`, `GoOnAfterFailure = FALSE` | `DropsLeaveGaps = TRUE` (the database ends in the phase `broken`), `GoOnAfterFailure = TRUE` (`TablesAreWhole`); `tm_undone` |
| a last line without its end (dropped, or the reader of its block never returns), a comment at the end of a block | the files | |
| NULLs in an unflat aggregate under flat keys | the queries of `Aggregation` | `AggQueries <- QueriesOfNulls` (`GroupsAreRight`) |
| a DISTINCT aggregate without keys, tables of distinct values that would have to grow | the queries of `Aggregation` | |
| LEFT joins whose matches end with a batch, more matches than the capacity for a vector of keys | the joins | |
| columns behind a string, which the merge does not compare | the keys: one column | `SortQueries <- SortsAfterStrings` (`RowsAreSorted`) |
| columns behind a string, whose sort damages the tuple behind the tie | the keys | `SortQueries <- SortsBesideTies` |
| equal long strings in a descending column, two NULLs in an ascending one that is sorted by value | which values a column has twice | `SortQueries <- SortsOfEqualStrings` |
| NULL strings behind other columns | the keys | `SortQueries <- SortsOfNulls` |
| a right block exhausted at the end of a key block | `MergeBatch` | `SortQueries <- SortsOfFullBlocks`, `MergeBatch = 2` |
| a right block exhausted at all, with assertions | `AssertsEnabled = FALSE` | `AssertsEnabled = TRUE` |
| functions of unflat, flat and unflat operands with NULLs behind a filter | the plans of `Pipeline` | `QueryPlans <- FilteredFunctions` (`ResultsAreRight`) |
| predicates on variables of an earlier MATCH, OPTIONAL MATCH in a semi-masked join | the statements | |
| parts of dates outside 1970..2369, which change their operand | the property | |

**Deadlock** is not checked by TLC's flag in any run (`CHECK_DEADLOCK FALSE`): clients may stop
calling, bounds on calls are reached, and a database may be shut down. Calls that never return
are what `HangsOnlyOnMutexes`, `Reopens`, `CallsReturn`, `UsersComeBack` and `WorkersExit` are
about. The models of `storage` and `query` end with their inputs.

**Fairness.** Only weak fairness, and only of threads inside a call. `TransactionManager`:
each thread in a call is scheduled; the wait of a commit is bounded by its timeout, so its end
is a step like others; clients need not call again. `WAL`: a commit, a replay and a start
keep running; a new transaction, a rollback by the client, a shutdown and a crash are free.
`BufferPool`: each thread in a call is scheduled; a spinning thread gets its lock because the
pins of a behaviour are bounded, and under an unbounded load of other threads it might not.
`TaskScheduler`: workers and users poll, tasks end, and the database is destroyed at last.
The specifications of `storage` and `query` state no fairness and no liveness.

## 4. What the runs show

What holds: between the stop of a commit and its end no other connection has a transaction,
no transaction sees the files change under it, a commit that returns is checkpointed, nothing that
a rolled back transaction has put in the log ever is (the catalog of a failed DDL statement is not
in the log, and is checkpointed: item 2 below), and the manager's IDs always agree with the connections' transactions
through every error path. Once a commit is flushed, crashes during the checkpoint and during
recoveries leave the files of the committed transactions, and every start ends with an open
database: the WAL implements an atomic, durable store of pages, as long as no page is updated after
its WAL page was evicted. Wherever the process crashes, uncommitted updates never reach the files. If
all pages were pinned with their lock, and the WAL cleared with nobody in the pool, pins would be
safe, frames current but for updates that were not marked, the two rounds of the clock
complete, and the two lock orders could not deadlock, since the second lock is only tried. Tasks are
finalized once and last, errors reach the users who own them, and no worker stays with a query
that has returned. Apart from the exceptions listed below and in section 3, disk arrays implement their abstract specification, lists are rewritten
without a reader noticing, scans, columns and the index return what was written in their
version, tables survive crashes as a whole, COPY loads every row once in every interleaving of
its tasks, and plans and operators agree with the meaning of queries.

What does not hold. The first six have a run and a quotation in `PROJECT.json`; the others are shown
by the changes of constants in the table of section 3:

1. A begin and a commit deadlock on the two mutexes (`tm_lock_order`).
2. The catalog of a DDL or COPY statement that failed or timed out is checkpointed by the next
   commit, and so are the updates of a connection destroyed inside a write transaction
   (`tm_undone`).
3. A crash between the write of the header page and the flush of the versions makes recovery
   replay pages that were never written (`wal_flush_order`).
4. A second update of a page is not marked dirty; if the WAL page was evicted in between, the
   commit loses it (`wal_update`).
5. A WAL page can be pinned while it is evicted (`bp_wal_pages`).
6. A finalizer that throws hangs its query, or lets it return as if it had succeeded
   (`ts_finalize`).
7. A rollback removes a WAL page from the frame that a reader's eviction is about to lock
   (`buffer_pool.cpp:208`; `buffer_pool.h:94-96` says the removal "should work safely").
8. A query returns with its completed task in the queue until a worker comes by
   (`task_scheduler.cpp:66, 96`), where `task_scheduler.h:57-58` says that "no task related to the
   given task will be in the task queue".
9. Headers of small lists keep 11 bits of a length of up to 4096 (`list_headers.h:85`, and
   `in_mem_structures_csv_copier.cpp:90` for COPY), and the commit of a list fails when the chunk
   before it has none (`lists_update_iterator.cpp:161`).
10. Overflow values (`overflow_file.cpp`): a byte past the page (162), list elements of the short
    length (171), pointers through an unpinned frame (221-229), a writer's scan that takes one
    file's page for another's (58).
11. The local index loses string keys when a slot splits (`in_mem_hash_index.cpp:232`, which has a
    TODO about it) and finds a deleted key again (`hash_index.cpp:22`).
12. NULLs in an unflat aggregate of a flat key are added to another group
    (`aggregate_hash_table.cpp:792, 801`).
13. A function of unflat, flat and unflat operands with NULLs behind a filter writes the wrong
    position (`ternary_operation_executor.h:307`).
14. ORDER BY: the merge does not compare the columns behind the last string
    (`key_block_merger.cpp:260`, against the comment at 164-165) nor those before two NULL strings
    (182); the radix sort of the columns behind a string damages the tuple behind a tie
    (`radix_sort.cpp:89`); ties are sorted with a comparator that is no order (221-223, 261-279);
    a morsel with an exhausted right block points past the block (`key_block_merger.cpp:90`) and
    fails an assertion (`key_block_merger.h:42`).

Met while modelling, visible in the models, without a run of their own:

* A commit waits for readers while holding the mutex they need to leave
  (`transaction_manager.h:81-83`): with readers in the system it always times out. The timeout
  throws with the mutex for new transactions locked (`transaction_manager.cpp:92`), after which
  no transaction can begin. `HangsOnlyOnMutexes` excepts exactly this and item 1.
* An update statement in a MANUAL read-only transaction is executed and its updates enter the
  WAL (`connection.cpp:264` looks at the type of the statement in AUTO_COMMIT mode only).
  MANUAL mode is kept when a begin throws (`connection.h:69`).
* A statement is compiled before its transaction begins (`connection.cpp:36`), so compilation
  may overlap a checkpoint, against the note in `database.h:129-133`.
* An evicted WAL page followed by a crash before any header page was written leaves a file
  whose page 0 is zeros; it counts as an empty WAL and is not cleared (`wal.cpp:143-145`).
  A header page that links to one never written makes the next start throw or loop
  (`wal.cpp:131`, `178`). This is why all properties of `wal_recovery` but one except
  behaviours with a torn WAL.
* A pin that finds no frame throws with the page lock taken (`buffer_pool.cpp:125`); whoever pins
  that page next spins for ever. `CallsReturn` excepts behaviours with such a throw.
* `waitAllTasksToCompleteOrError` rethrows and removes the error of any task in the queue,
  another user's too.

Met in the storage structures and statements; instances avoid them, by the constants above or by
their inputs:

* A rollback of two arrays of a file reads an index page the first one removed
  (`disk_array.cpp:489`); the first insertion into an empty table gets the offset UINT64_MAX
  (`nodes_statistics_and_deleted_ids.cpp:30`), insertions do not grow the vector of morsels that
  deletions index (line 65), and one that takes the last deleted offset of a morsel reads the map
  entry it has erased (line 42); overflow slots of the index under
  construction are read while another thread grows them (`in_mem_hash_index.cpp:115`).
* The ID of a new table is the number of tables (`catalog.cpp:213`); a second recovery of
  DROP TABLE does not find its schema (`wal_replayer.cpp:259`); node and relationship
  statistics share one flag for their record (`database.h:104`).
* COPY: elements of a list are written to the page its strings moved to (`in_mem_file.cpp:94-130`);
  overflow values of a ONE_ONE table are not sorted (`in_mem_rel_csv_copier.cpp:38-44`); a last
  line without its end is dropped, a reader of a block that begins in it never returns, and a row
  after a comment at the end of a block is read twice (`csv_reader.cpp:24`, `59-79`).
* Operators: a DISTINCT aggregate without keys is multiplied (`simple_aggregate.cpp:66`); tables of
  distinct values do not grow (`aggregate_hash_table.cpp:199`); a left join whose matches
  end with the batch returns a row of NULLs more, and a vector of probe keys with more matches
  than the capacity loses some (`hash_join_probe.cpp`); null bits of an earlier batch stay
  (`binary_operation_executor.h:72`).
* Plans: a predicate on variables that an earlier MATCH bound is dropped
  (`join_order_enumerator.cpp:447-473`); cyclic patterns and an OPTIONAL MATCH with two join nodes
  fail assertions; the factorization of a UNION is that of its first part (`enumerator.cpp:381`).
* Dates: the year of a date outside 1970..2369 is taken by changing the date in its vector
  (`date_t.cpp:367`); intervals are equal by their fields and greater after
  normalisation, which does not carry days and microseconds into months; decades before the
  year 0 are cut towards 0; dates before the year 1 are printed but not parsed.

## 5. Proofs

`TransactionManagerProofs` proves, for any sets of connections and any bound on transactions,
that `Spec` implies the invariance of `IInv`, and from it `TypeOK`,
`CheckpointExcludesTransactions`, `SnapshotsAreStable`, `RolledBackIsNeverCheckpointed`,
`CommitIsCheckpointed` and `ActiveTransactionsAgree`. The assumptions are those of the module:
`None` is no connection, writers and closers are connections, the bound is a natural number.
`RolledBackIsNeverCheckpointed` is about what a transaction has put in the log; of the catalog the
code does not keep it, and `CommitIsCheckpointed` covers both.

None of these properties is inductive. That nobody is in a transaction during a checkpoint
follows from the lock on new transactions being held by the committing thread from its stop
on (`LocksInv`), from the set of readers having been seen empty under that lock, and from
that set being exactly the readers' IDs (`AgreementInv`); that there is no second writer
follows from `activeWriteTransactionID` being the ID of every writer (`AgreementInv`) and
IDs being distinct (`IDsInv`). `LocationsInv` says which locations imply which kind of
transaction. Stability of snapshots follows since `checkpointed` changes only in the one
step that the exclusion covers. `OutcomesInv` keeps rolled back, logged and checkpointed
transactions apart, `UpdatesInv` says that the updates of a live write transaction are in the
WAL. The proof has one lemma per conjunct, with one step per action.

`WALProofs` proves the four invariants of `wal_recovery`, `NoVersionIsLeft` and the refinement
(`WALIsADurableStore`) for any pages, any number of records per header page, of transactions
and of crashes, any number of updates of a page, with and without evictions. Those about the contents
of pages (`CommitsAreAtomic`, `VersionsLead` and the refinement) have the hypothesis
`~UpdatesEvicted`, without which they are false (`wal_update`). `IInv` has two parts.

* What holds wherever the process crashes: types, `WholeInv` (a page knows the number of its
  records), and `UncommittedInv`. `NothingUncommittedIsWritten` needs to know why a replay never
  meets a commit record with somebody else's pages: either the WAL file holds nothing but what
  the last transaction wrote, with a commit record only if the commit is durable
  (`OneTransaction`), or it was opened on a page 0 without records and nothing in it is ever read
  again (`IsDead`). The second case is what a crash after an early eviction leaves.
* `UntornInv`, as long as no crash has torn the WAL: the header pages form the chain that was
  built (`ChainInv`), the current one is in memory and those before it on disk (`MemoryInv`), all
  of them from the flush on (`DiskInv`), the pages of records are never taken by header pages
  (`PagesInv`), a commit record is the last one and says what the files will be (`CommitInv`), and
  an iterator stands behind the records it has returned (`ReplayInv`), of which the pages are
  already restored. A crash between two records changes none of this but the iterator, which is
  why recovery may be repeated.

The refinement follows from `IInv` with one step per action: the write of the last header page is
`CommitWrite`, `FinishReplay` is `Reopen` or nothing, and `FilesAreCommitted` shows that what
readers find again is what was committed.

`BufferPoolProofs` proves the four invariants of `bp_pins` for any number of threads, pages and
frames, under two hypotheses that the code does not meet for the pages of the WAL: every pin
takes the lock of its page (`LocksWALPages`), and the WAL is cleared when no call is under way
(`~ClearsBesideReaders`). `bp_wal_pages` is a counterexample without the first, and section 3 says how to see one without the second, so the
theorems say what the pool would give a caller that follows its comments. `CurrentFrames` excepts
the pages of `lost`, with an update that was not marked. The same holds for
`EvictionIsExclusive`, the comment in `tryEvict` that nobody changes the pin count under both
locks. `LocksInv` says that the locks a call has taken are its own, `MapInv` that map and frames
agree but for a page that is about to be entered, `CallsInv` what a call knows at each location
of the map and its frame, `PinsInv` that the pointers users hold are those of the map, and
`DirtyInv` that only written pages are dirty. `ThrowsOnlyWhenPinned` takes two invariants more:
every lock of a frame is released by somebody (`ReleaseInv`), and a search that is alone has left
behind it only frames that are pinned, or that have lost their second chance in the first
round (`SearchInv`). That two rounds of the hand then meet every frame is arithmetic modulo the
number of frames.

`TaskSchedulerProofs` proves the five invariants of `ts_tasks` for any finite set of workers and
any plans without a common task. `FinalizeIsLast` rests on `CountsInv`: the registered workers
of a task are those finished and those that have it now, so that the worker that makes the counts
equal is the last. A finalizer that throws breaks exactly this (the worker counts as finished
twice), and the invariant says what is left: the task is in `finalizeThrew`, finalized, and
its remaining workers are on their way out with an exception. `FinalizationInv` connects
completion and finalization, `QueueInv` says that only added tasks are queued or run,
`QueriesInv` and `CopiesInv` what a user has seen of its tasks at each location; from them
`NoWorkerIsLeftBehind`: nobody works on the tasks of a query that has returned, and nobody will. Removing an
element of the queue (`Without`) has lemmas of its own.

`CatalogProofs` proves `TablesAreWhole` for any table names, records and numbers of statements and
crashes, under two hypotheses that exclude defects of the code (section 4): no
statement follows one that failed in the same process (`~GoOnAfterFailure`, connection.cpp:284
rolls nothing back), and only the newest table of a kind is dropped (`~DropsLeaveGaps`, after
another drop catalog.cpp:213 gives an ID twice). The database may crash anywhere, also in a
recovery, and the recovery starts over. The heart of `IInv` is `DiskInv`: from whatever a crash
leaves on disk, replaying the records that are left makes the committed tables (`LeadsTo`), for
the catalog, the statistics and the files of every table; `ReplayInv` says that records already
replayed change nothing when they are replayed again. `LogInv` makes this manageable: a log begins
with the record of its statement and has one record of each type. `CheckpointInv` says the same of
the copies in memory, which a checkpoint brings along (`Follows`), `MemoryInv` what they are
between checkpoints, and `StatementInv` what a statement has prepared when it is about to commit.
There is one lemma per action.

`NodeTableProofs` proves `ScansReturnLiveNodes` for any morsel size, any number of workers, nodes,
maskers and transactions. The hypothesis `InsertionsStayInMorsels` (a CREATE meets a table that a
COPY has filled, and insertions do not leave the last morsel of the COPY) excludes the vector of
flags being indexed past its end (nodes_statistics_and_deleted_ids.cpp:65), after which a flag is
any value and the property is false; it also has an erased map entry keep its key (line 42). `VersionsInv` says that the flags are set exactly for the
morsels with deleted nodes and that each version has the nodes that exist in it. `NextInv`,
`RangesInv` and `ReturnedInv` are about a scan: ranges are whole morsels or reach the last node,
no node is in two of them, and a node the masks let through is not yet reached, in the range of a
worker, or returned. What a worker returns of its range is `SelectionIsRight`: the positions
without a deleted node, counted (`CountBefore`), are as many as the size of the selection says.

`DiskArrayProofs` proves that disk arrays implement `TransactionalArray`
(`DiskArraysAreTransactional`) and `NothingIsLeft`, for any number of arrays in a file, any
numbers of elements on an array page and of indexes on a PIP, and any bounds on elements, pages
and transactions. The hypothesis `~RollbackShared` says that a rollback finds new pages of one
array of the file only, and of that one no second new PIP: otherwise an array is truncated away
before its own versions are cleared, or a removed PIP is read (disk_array.cpp:223 and 471), and
both properties are false. `IInv` looks at the file through the WAL versions, as the write
transaction does (`Content`):

* `LayoutInv` says that the header leads along the PIPs to as many PIPs and array pages as the
  elements need, `SeparateInv` that no page belongs to two arrays or twice to one. This is what
  makes a write to one array invisible in the others, and it is why new pages come from
  the end of the file: `SizesInv` says where that is and that all new pages have versions.
* `VersionsInv` says that the array a versioned page belongs to knows of it: a PIP has a version
  exactly if it is noted as updated or inserted, new array pages have versions, and an array
  without updates has none. So a checkpoint or a rollback, which visits only what an array has
  noted, leaves no version behind.
* `PrefixInv` and `MemoryInv` connect the copies in memory for readers to the file: they are a
  prefix of the writer's pages, and current unless a checkpoint has replayed a version that the
  array has not been refreshed from. `OldPagesInv` says that before a checkpoint the file
  holds what readers have and new pages lie beyond its end, so a restart or a rollback loses
  those and no others; `CheckpointInv` that during one the file has everything.

Loading is the hard case of the initial state and of a restart: that the constructor, which
follows the links of a file (`PIPChain`, a recursive function), finds the arrays that were
built or that the last checkpoint left. `IsClean` describes the state after loading from a file
with separate arrays (`IsLayout`); the built file is one (`BuiltLayout`), so is the file in every
state of `IInv` (`FileLayout`), and a clean state satisfies `IInv` (`CleanIsInv`). The lemmas on
`Ceil` are the arithmetic of pages. Given `IInv`, each step maps to a step of the abstract
specification, or to none, through lemmas on what readers and writer see after it
(`UpdateArrays`, `PushBackArrays`, `CheckpointArrays`, `RollbackArrays`, `ReopenStep`).

Assumptions are those of the modules, listed there with their reasons. `InductionLemmas` gets
induction over natural numbers in the form of a set (a set of numbers with 0 and closed under
successor is `Nat`), from the fact that a nonempty set of numbers has a least element; sequences
and chains are reasoned about by their indices, so no proof needs induction over data.

Type correctness is proved with the rest, as part of `IInv` in `CatalogProofs`,
`NodeTableProofs` and `DiskArrayProofs` and as theorems of their own in the others. No configuration lists the `TypeOK`
of `WAL`, `BufferPool` and `TaskScheduler`, since they say less than the properties there. The inductive
invariants were checked by TLC on the instances of the runs, and on larger and smaller ones for
`WAL`, before they were proved.

Only model-checked: all liveness (`HangsOnlyOnMutexes`, `Reopens`, `CallsReturn`,
`UsersComeBack`, `WorkersExit`), which is out of the prover's reach; the invariants of
`PropertyLists`, `Column` and `HashIndex`, which rewrite chains and pages with folds over their
entries and whose proofs are not written; and what the operators, plans, copies and
date functions compute, since it takes induction over their inputs.

## 6. Plan

Done: the transactional core (`TransactionManager`, `WAL`, `BufferPool`, `TaskScheduler`) with
proofs of all its safety properties and the refinement of `DurablePages`; the storage structures
with the proofs for `NodeTable` and of the refinement of `TransactionalArray`; DDL and COPY (`Catalog`) with its
proof; the planner, operators and dates.

Next, in this order:

1. Proofs: `ColumnsReturnValues` for `Column`, `ReadersSeeCommittedLists` for `PropertyLists` and
   `WriterSeesItsKeys` for `HashIndex`.
2. UNWIND, EXISTS and updating clauses in `Planner`, Intersect and the scan of unstructured
   properties in `Pipeline`.

## 7. Not modelled

The parser and the binder translate one statement and share no mutable state; what the binder
refuses of DDL statements are guards of `Catalog`. The functions on strings and lists and the
casts compute single values without state. BufferManager and MemoryManager send calls to the pools.
The commit of the hash index is not written in the code. Vendored and generated code, the shell,
the Python binding and the benchmark runner are outside the core. Byte layouts, logging, metrics
and messages are abstracted everywhere. Crashes of the machine are not modelled, since nothing in
the code is meant to survive one (no `fsync`).
