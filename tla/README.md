# A TLA+ verification of FeatureBase

FeatureBase is a distributed database built on bitmaps. This directory holds
TLA+ modules for the parts of it whose correctness depends on interleavings,
crashes, time or long sequences of calls, the TLC configurations that check
them on small instances, and TLAPS proofs of what matters most. Every
definition that models code is listed in `PROJECT.json` under `map` with the
lines it stands for; `hazards` lists what can go wrong there that a test would
hardly reach, with the properties that would notice.

    tlc -workers 2 -config MCRbfDB.cfg MCRbfDB     # a run
    tlapm RbfDB_proofs.tla                         # a proof

## The system and its parts

A node keeps its data in *indexes*; an index has *fields*, a field *views*, a
view one *fragment* per *shard*. The fragments of one shard of an index share
one RBF database on disk. A query is parsed (PQL or SQL), split by shard by the
executor, run on the worker pool here and on other nodes over HTTP, and
reduced. Ingesters are separate processes that import through the same API.

| part | state it keeps | operations | interacts with | what is hard in it | what makes it correct |
|---|---|---|---|---|---|
| RBF database (`rbf/db.go`, `rbf/tx.go`) | data file, WAL, page map, meta page, open transactions, writer lock | Open, Begin, page reads and writes, Commit, Rollback, checkpoint, Close | fragments call it; goroutines of its own checkpoint it | readers against an asynchronous checkpoint, crashes in flush, checkpoint and recovery, I/O errors, a lock that passes between goroutines | snapshot isolation, durability, one writer, no lost wake-up, bounded WAL |
| RBF B+-tree (`rbf/cursor.go`, `rbf/tx.go`) | pages of containers, root records, free list | Add, Remove, iterate, allocate and free pages | runs inside a transaction | splits, a free list stored in the tree whose pages it manages | search order, no page both free and in use |
| Transactions of a node (`transaction.go`) | store of transactions with deadlines, one deadline checker | Start, Finish, ResetDeadline, Get, List, expiry | API, backup (which needs the exclusive one), other nodes | a checker goroutine that stops by itself, activation on expiry, time | exclusivity, one checker, whoever waits gets a turn and its full time |
| Cluster-wide transactions (`server.go`, `api.go`) | one such store on every node | start on the coordinator, broadcast, activate when all nodes agree | transaction stores, messages | lost and late messages, a node that restarts | no two nodes disagree on an active exclusive transaction |
| Worker pool (`task/pool.go`) | three counters and the goroutines they count | Block, Unblock, Shutdown, Close | executor, `Qcx.GetTx` | atomics read outside the mutex, retiring races, condition variable | never too few runnable workers, Close returns |
| Query executor (`executor.go`) | work queue, active mappers | mapReduce over nodes and shards | pool, cluster, Qcx | replicas that refuse, cancellation, shutdown | no result without all shards, no return before spawned work ended |
| ID allocator (`idalloc.go`) | available ranges and a reservation per key, in Bolt | reserve, commit, reset, Replace | ingesters | retries, two ingesters with one key, off-by-ones on range widths | no ID issued twice or lost, an offset keeps its ID |
| Query contexts (`querycontext/`), `Qcx` (`txfactory.go`) | open transactions per database, write scopes, a queue | NewRead, NewWrite, Commit, Release, Close | RBF, executor | three levels of locks around a blocking Begin | no two overlapping writers, no deadlock |
| Serverless storage (`dax/storage`, `dax/writelogger`, `dax/snapshotter`, `api_directive.go`) | versions of snapshots and write logs, a lock file per shard | load, Lock, Append, IncrementWLVersion, Snapshot, Unlock | controller's directives | hand-over between nodes, crash between the steps of a snapshot | what was appended is loaded, in order and once |
| Serverless controller (`dax/controller`) | workers, jobs, directive versions in SQL | register, balance, poll, snapshot | computers over HTTP | dead workers, directives out of order | every job on exactly one live worker |
| Key translation (`translate*.go`) | key to ID maps in Bolt | find, create, replicate | executor, import | replication lag, partitions | one ID per key |
| Int fields (`field.go`, `fragment.go`) | bit-sliced rows, a bit depth shared by all requests and kept in memory | SetValue, ClearValue, importValue, range, min and max queries | executor, RBF | requests that raise the depth at once, a restart that computes it anew, edges of the comparisons | every column keeps its value, queries on rows answer what the values say |
| Holder, index, view, other fields | the schema tree and its open files | create, delete, import, row operations | everything | bulk data | bit-level semantics |
| Membership and placement (`disco`, `etcd`, `cluster.go`) | in etcd | join, leave, watch | everything | external | external |
| Languages, bitmaps, caches, clients, HTTP, tools | none or local | | | large pure functions and I/O | |

## Modules

Each module has the struct's fields as variables and one action per critical
section, per Bolt transaction or per atomic access, whichever is what other
goroutines can see. The content of pages, messages and results is abstracted to
what the properties tell apart.

**`RbfDB`** is one database file. `data` and `wal` are the files as the operating
system shows them, `dataSync` and `walSync` as they were last synced, which is
what a crash may fall back to, page by page for the data file and by any prefix
for the WAL. `pageMap`, `walPageN`, `baseWALID`, `rootRecords`, `rwmu` and
`isDead` are the fields of `DB`; `tx` the `Tx` structs. `Begin` is `BeginRead`,
or `BeginWrite`, `LockWriter` and `EnterWriter` because the writer lock is taken
before `db.mu`; a commit is `Flush` (with the truncation of free pages at the end
of the file), `FlushSync` and `Publish`; `RemoveTx` is the end of every
transaction and decides whether the lock goes to the checkpoint. The checkpoint
is nine actions, from the drain of old readers over copying, page by page, and
syncing the data file to the drain of WAL readers and the truncation; it may be
overtaken by `Crash` and, with `Fault`, fail at its I/O. The content of a page is
the number of the commit attempt that wrote it; bitmap operations are "some pages
become dirty and the file grows", which `RbfTree` has in detail.

**`SnapshotDB`** is what such a database promises, with no files and no locks: a
current view, a fixed snapshot for each transaction, commits that replace the view
as a whole and one after the other. `RbfDB!ImplementsSnapshotDB` maps what is
*read* through page maps, WAL and data file to it; when nothing is open the view
is what recovery would read.

**`RbfTree`** is the inside of one write transaction: bitmaps as b-trees of
containers, the root records, and the free list, which is itself such a tree. A
page is a record of cells; a cell has its container or points to a page of its
own. `putLeafCell` with its fast path and its splits, `deleteLeafCell` with the
collapse of branches up to the root, `allocatePgno` and `freePgno`, which change
the free list (`modifyFreelist`) while it may need pages itself, are operators from a state of the
transaction to the next; the calls of clients (`CreateBitmap`, `Add`, `Remove`, `PutContainer`,
`RemoveContainer`, `ImportRoaringBits`, `DeleteBitmapsWithPrefix`, the truncation
in `Commit`) are the actions. Sizes are computed by the code's formulas with a
small page, so that a handful of bits splits pages. `Init` is a database into which some
bits were added before (`addBit`), so that a run starts at trees of several levels.
`expect` and `doomed` are history: the bits the calls asked for, and that a removal
was asked for which makes the code panic (see below).

**`TransactionManager`** is the transaction store with its goroutine. `store` maps
ids to transactions, `checker` says where each deadline checker goroutine is:
about to check, asleep, or between the critical section in which it decided to
stop and the one in which it clears `checkingDeadlines`. `Finish_` is `finish`
with the activation of the exclusive transaction; `now` is a clock with bounded
time. Store errors are not modelled: the only store is in memory.

**`TaskPool`** has a step per atomic access of `Block`, `Unblock` and of a worker's
loop. `addWorker`'s two additions are one step, as `live` is only read under
`p.mu`. `Caller` stands for goroutines that are not workers and call `Block`
through `Qcx.GetTx`.

**`MapReduce`** is one query. A goroutine of `mapper` is a record in `tasks`, keyed
by the call and the node: it connects, its node's `mapperLocal` counts itself in
`activeMappers`, looks at `shutdown`, hands out jobs, gathers responses and
returns; `mapReduce` receives (`Refused`, `Reduce`), maps the shards of a node
that refused again, and when it returns cancels and waits for the errgroup. A
result is the bag of shards reduced into it. Around it nodes fail, the caller
cancels and executors are closed. Workers take jobs at any time, which is what
`TaskPool` is for.

**`QueryContext`** is the store of query contexts over many RBF databases. Scopes
are built by the `Add` operations of `flexibleKeySplitter` and compared by
`Allowed` and `Overlap`; `writeScopes` are the admitted writers, the others wait
for the condition variable. A context opens transactions lazily under the store's and the
database's mutex (`mu`, `dbMu`), `lockCheck` is the flag that says a writer is
inside, and the databases below have their writer lock and the checkpoint that
may keep it (an abstraction of `RbfDB`).

**`DaxStorage`** is a resource of serverless storage: `snaps`, `logs` and the
lock file that all nodes see, and each node's `Resource` with the versions it has
loaded and the log files it has open. A directive is cached (`ApplyDirective`) and
makes a node load (`LoadLatestSnapshot`, `FirstLoad`, `Lock`, `SecondLoad`). Clients
import from the moment it is cached, whatever the load has come to: `CommitImport`
and `AppendImport` are two steps, with the message `inflight` between them, except for
`ImportRoaringShard`, which does both in one transaction. A snapshot is
`IncrementWLVersion`, `SnapshotWrite` and `SnapshotEnds`; `snapping` has those under
way, and the first holds the write transaction (`TxHeld`) that imports, replays and restores
wait for. Another directive takes the resource away while imports and snapshots go on, and a
node is killed. `accidents` is history, see below. Directory listings sort names, as
`os.ReadDir` does. Directives come to a node one at a time, as the comment of
`directiveWorker` says.

**`BsiField`** is an int field on one shard. `exists`, `sign` and `bit` are the
rows, `bsig` the group with its base and depth. SetValue, ClearValue and
importValue are split where another request can come between: at the comparison
and the assignment of the depth, and before the shard's write transaction.
Range, min, max and value queries are operators, with the special cases of the
code, compared with the values that `written` remembers. A loop over rows is its body
and `ForRows`, which gives the state after the rounds from one row down to another; a
round after the code's `break` changes nothing. Bits of numbers come from the recursive
functions `pow2` and `Shifts`. `MaxDepth` bounds the rows a field may come to use:
`BsiAssumption` asks that the values of every range, less the base, fit into as many bits.

**`IDAllocator`** has the range lists as sequences of records. A loop is its body and
`Iterate` or `ForEach`, which give the state after its rounds; a round whose condition
fails changes nothing, so that a number of rounds that is surely enough replaces the
loop's end. In this form are the heap of `reserveIDs` with its sift up and
sift down, `mergeIDs`, and the discarding and splitting of reservations when offsets
move. `sort.Slice` is some permutation that sorts. `IDSeq` is the order in which the IDs
of a list are used. `held` and `spent` are history:
what a client was told, and IDs that must never come back. `^uint64(0)` is the
constant `MaxUint`, so IDs run out and offsets reach their limit. That the list
of available ranges is missing is the same as that it is full, since nothing can
be returned before something was reserved.

Modules that model parts which interact share an abstraction of the other side
rather than its state: `RbfDB` takes from `RbfTree` that a writer dirties pages,
`QueryContext` from `RbfDB` that the writer lock is with a writer or a
checkpoint, `BsiField` from `RbfDB` that a transaction is one step, `MapReduce`
from `TaskPool` that jobs get done.

## Runs

| run | instance | what it shows |
|---|---|---|
| `rbf_safety` | 3 transactions, 4 pages, WAL of 6, 3 commits, 1 crash, 1 failing checkpoint | snapshot isolation, the WAL within its mmap, Close, root records; and that all of it, crashes included, implements `SnapshotDB` |
| `rbf_liveness` | 2 transactions, 2 commits, 1 crash, any I/O error once | the writer lock comes back and no writer halts; a waiting writer is served and Close returns |
| `rbf_tree` | 2 bitmaps, 9 keys, leaves of two and branches of four cells, 5 calls on 0, 5 or 8 loaded keys | every page is in use once or free, every bit is found, counts are right, scans complete, no assertion fails but in the two known cases |
| `trns` | 3 ids, timeouts 0 and 1, 2 goroutine names | exclusivity, `finish` does not panic, one checker, a waiter gets its full time, and its turn if a checker runs |
| `pool` | 3 workers, target 1, 1 caller with 2 calls | exact counters, enough workers, no lost wake-up, Close returns |
| `map_reduce` | 3 nodes with all of 2 shards, 2 nodes that refuse, 1 error, 1 executor closed, with and without a memory limit | a success has each shard once, nothing works on after the return, no send on a closed channel, one lost node fails no query, everything ends |
| `query_context` | 3 contexts, 2 indexes (one split by field), 3 scopes, 1 I/O error | writers, two of everything excepted, never share a database and never meet inside; no transaction is left behind, calls return |
| `dax_storage` | 2 nodes, 2 messages, 3 assignments, versions to 3, 1 kill, 1 fault | acknowledged imports survive and the owner has all of them, the named accidents excepted; one owner |
| `dax_order` | the same from the ninth snapshot on, nothing killed | a finding, see below |
| `bsi` | 2 columns, 3 field ranges (around, above and below zero), imports of 2 | values are kept over updates, imports, clears and restarts; all comparisons and extremes are right |
| `bsi_depth` | the same with 2 requests at once | a finding, see below |
| `idalloc` | 2 keys, 2 sessions, integers up to 5, counts up to 2 | no ID lost, duplicated or reissued, stable IDs, commits agree; `reserveIDs` takes exactly what is asked and empties the smallest ranges first, from every list reached and for every count |

Why the bounds are enough.

* `RbfDB`: page 3 is the only page that can be allocated and cut off again, and
  takes two WAL pages; three commits are one to be mapped in the WAL, one to be
  checkpointed and one on top, or two and a failure between; with three
  transactions there is a reader older than the last commit, one as old, and a
  writer; a WAL of six pages is too small for some transactions and lets the
  checkpoint be optional at two pages and forced at four.
* `RbfTree`: five keys make a tree of three levels, since a branch of five cells
  is larger than a page, and with the ninth a branch below the root splits and then the
  root: four levels, which five calls on eight loaded keys reach. The free list
  comes to three levels, splits in the middle of its own change, and trees of three
  levels collapse to two. The second bitmap makes a second page of root records.
  Both panics that are known are reached.
* `TransactionManager`: three ids are two that hold an exclusive one up.
* `TaskPool`: three workers are two that blocked and came back while a third runs,
  so that three see a surplus of two.
* `MapReduce`: two shards are first asked of one node and part ways when it is
  lost; two nodes that refuse are a retry that is refused too.
* `QueryContext`: three contexts are two writers and the reader that a checkpoint
  waits for, or two writers that overlap with a third and not with each other.
* `DaxStorage`: three assignments are a hand-over and a hand-over back, four
  versions a failed snapshot and a good one after it; two messages are one in a
  snapshot and one in the log past it. Each of the seven accidents happens, and with
  any one of them allowed TLC finds `AckedSurvive` and `OwnerIsCurrent` violated.
* `BsiField`: the ranges need up to three rows, so that depths grow and shrink
  and predicates lie outside on both sides; rows of different columns only meet
  in counts of extremes, for which two are needed. More rows, columns and ranges are
  what the theorems are for.
* `IDAllocator`: two keys fragment the list (one returns what lies below the
  other's) and two sessions take a key over from each other; lists of more than
  two ranges of different sizes need more IDs, and for these there is the theorem
  `ReservesSmallest`.

Deadlock checking is off: clients may stop calling, and all bounds run out.
Symmetry is used in runs without liveness only.

Fairness. `RbfDB` and `TaskPool` assume that goroutines are scheduled, that a
`sync.Mutex` starves no one (hence strong fairness where a lock is taken), that
the function a worker runs returns and that whoever began a transaction ends it;
opening, closing and calling are never assumed. `TransactionManager` assumes that
the clock advances and that the checker runs, and nothing of clients. In `MapReduce` and `QueryContext` a query or a context takes finitely many
steps, so weak fairness of "some step of somebody who is under way" is all that
is needed; in `QueryContext` it includes that whoever has a context releases it.

## Disagreements found

Two have a run of their own:

* `dax_order` (`dax/storage/storage.go:294`): the latest snapshot is taken to be
  the last in the order of names, in which version 10 comes before version 9;
  from the tenth snapshot on an older one is restored and what followed is lost.
* `bsi_depth` (`field.go:1525`): two requests that raise the bit depth of a field
  at once may leave the smaller one, and a value reads back without its high bits.

The others come with a statement of a property that leaves them out, and a
note at the hazard in `PROJECT.json`; each was seen in a trace of TLC.

* `transaction.go:239`: the checker decides to stop and clears its flag in two
  critical sections; an exclusive transaction that starts between them has no
  checker until another Start is refused, although lines 103 and 139 promise one, and
  may wait for ever. `PendingResolved` is about waiters while a checker runs (`Watched`).
* `rbf/tx.go:1957`: a commit whose flush fails after some pages leaves the WAL file
  longer than `walPageN` says, and the next commit's WAL IDs point at the failed
  one's pages; a failing truncation at the end of a checkpoint has the same effect. `rbf_safety` has
  checkpoints that fail earlier only, `rbf_liveness`, which does not look at
  contents, has all errors.
* `rbf/cursor.go:264`: removing a bit from a container with as many runs as fit on
  a page makes one run too many and the size assertion (`rbf/rbf.go:591`) panics.
* `rbf/cursor.go:287`: removing the last bit of a container that has a page of its own
  frees that page, and the deletion of the cell frees it again (line 653), which panics
  (`rbf/tx.go:1212`). `OnlyKnownPanics` says that the code panics if and only if one
  of these two removals is asked for (`RemovePanics`).
* `querycontext/rbf.go:44`: `writeTx` waits for the database's writer lock with the store's mutex
  held. If a checkpoint has the lock and waits for a reader, the reader's release
  waits for the mutex. `CallsReturn` excepts this state (`Wedged`), and the one in which
  Close waits for a transaction that a failed commit left open (line 85).
* `querycontext/query_context.go:569`: `Overlap` of two scopes of everything says
  that they do not overlap, against the comment at line 195. Both writers are admitted,
  and the second finds a database locked. `WritersDisjoint` and `NoLockingError` except
  two writers that both have the scope of everything.
* `executor.go:6645`: the second attempt is always the last, so that a third replica
  is not tried, against the comment at line 6444. `FailsOver` is about one lost node.
* `executor.go:6779`: a query that races a shutdown of its executor returns a
  partial result without an error. `AnswerComplete` is stated for queries during
  which no executor is closed.
* `dax/storage/storage.go:403`: `Append` asks only whether a log was loaded, against its
  comment, "It will fail if we haven't properly loaded and gotten a lock". A node
  that has loaded and not locked, or timed out on the lock, acknowledges an import into
  a log that the owner of the lock has read, and will delete with its next snapshot.
* `api_directive.go:84`, `api.go:716`: imports are let in before the snapshot is restored and
  commit before they append: one that is committed, overwritten by the restore and
  appended afterwards is acknowledged and missing in the node's database.
* `api.go:3062`: a snapshot does not ask whether the load has ended (it then holds less than
  the log that it deletes), may be written while another node loads what it replaces, may go
  on after its resource was taken away, and may overlap the next one: it gives the write
  transaction back before it reads the log version again to delete a log, which then is the log
  of the next snapshot.
* `dax/snapshotter/snapshotter.go:53`: a snapshot write that fails half way leaves a file that
  is taken for the latest.

`accidents` records each of the last four groups by name, and `AckedSurvive` and
`OwnerIsCurrent` except histories with one of them. A snapshot that fails without a file
is not excepted, but it leaves two logs ahead of the latest one, which nobody can
load (`dax/storage/storage.go:335`).

Known from reading, with no property: `DB.Checkpoint` takes `db.mu` and `db.rwmu`
in the opposite order of Begin (`rbf/db.go:265`, only tests call it); the number
of pages is never compared with the size of the data file's mmap
(`rbf/db.go:804`); the first pages of a new file are not synced (`rbf/db.go:584`);
`idAllocator.Replace` has a gap between its two renames and returns no error
after undoing the first (`idalloc.go:74` and `80`); the pool may add a
worker while Close waits (`task/pool.go:58`).

## Proofs

| module | theorems |
|---|---|
| `TransactionManager_proofs` | `TypeCorrect`, `ExclusivityHolds`, `FinishNeverPanics`, `OneCheckerHolds`, `WaiterGetsItsTimeHolds` |
| `RbfDB_proofs` | `WriterLockIsHeld`, `WritersNeverHalt`, `CloseDrainsAll`, `SnapshotIsolationHolds`, `WALFits`, `RootRecordsAreCurrent`, `ImplementsSnapshots` |
| `TaskPool_proofs` | `PoolTypeCorrect`, `CountersAreExact`, `PoolNeverStalls`, `CloseMissesNoWakeup` |
| `QueryContext_proofs` | `WritersDisjointHolds`, `NoLockingErrorHolds`, `NoneLeftOpenHolds` |
| `DaxStorage_proofs` | `OneOwnerHolds`, `AckedSurviveHolds`, `OwnerIsCurrentHolds` |
| `MapReduce_proofs` | `NoSendOnClosedHolds`, `NoWorkLeftHolds`, `AnswerCompleteHolds`, `FailsOverHolds` |
| `IDAllocator_proofs` | `SpecEachIDOnce`, `SpecTakesSmallest`, `SpecStableIDs`, `SpecCommitAgrees`, `ReservesSmallest`, `MergesAll` |
| `BsiField_proofs` | `SpecBsiInv`, `ValuesKeptHolds`, `QueriesRightHolds` |

*TransactionManager.* Exclusivity is inductive together with "`finish` has not
panicked": the lemmas on `Finish_` say which transactions are left and that at
most the exclusive one changes, by becoming active when it is alone. `OneChecker`
is inductive by itself. That a waiter gets its time is an action property and
needs types only.

*RbfDB, the lock.* The lock property is not inductive. `LockInv` adds that only
writers wait, commit or fail (`WritersOnly`), that a WAL above the threshold exists
only between `Publish` and `RemoveTx` or while the checkpoint has the lock
(`WALBelowThreshold`), that there is no transaction before Open returns
(`NoTxBeforeOpen`), and that a closing database waits for every transaction there
is (`CloseWaitsForAll`). It is proved for every number of transactions, every
WAL size with `MinWALCheckpointSize <= MaxWALCheckpointSize <= MaxWALSize`, and
every set of I/O errors, the two that break snapshot isolation included. One lemma
per action says what it does to the lock; the lemma on the least element of a set
of naturals stands in for induction.

*RbfDB, the files.* `FileInv` is an invariant over both files, the page maps and
the history of commits, on top of `LockInv`. Its heart is `Kept`: a view is in the
files if every page of it is the last of its number in the WAL, or is not in the
WAL and stands in the data file, both as it is and as it was last synced. The second
half is what makes it survive a crash, which may return any unsynced page.

* `WALOK`: the files hold the current view; a flushed commit adds pages and ends in
  a meta page, so that they hold its view too once that page counts; until its sync
  the synced WAL holds the current view, afterwards both are the same file.
  When the database is down the files hold some view of the history, whatever
  prefix of the WAL the crash left.
* `MapInv` and `ReaderOK`: the page map of the database leads to the current view, that of
  each reader to the view it began with. `baseWALID` plus the length of the WAL is the
  WAL ID of the current meta page, which is why IDs stay good when the WAL starts anew.
* `WaitOK`: why readers survive a checkpoint. It copies only when all readers are of
  the current version (it waits for the older ones), so that what it writes to the
  data file is what they read; it truncates only when every page map is empty.
* `CkptInv`: what is copied is the current view, and from the sync on the data file
  alone is that view.
* `WriterOK` and `CommitterOK`: a writer changes the current view, has every page past
  its end dirty, and once flushed its page map leads to the newest view.

One lemma per action keeps it (`FileInvNext`); snapshot isolation, the bound of the
WAL and the cached root records are conjuncts of it. For the refinement, `Views` says what the
mapping of `ImplementsSnapshotDB` shows in terms of the history: the current view is
`hist[committed]`, a transaction's snapshot `hist[tx[t].ver]`, a pending commit the
newest view, and of a database that is down the view that its files hold. Then each step
is `Begin` (`BeginRead`, `EnterWriter`), `Prepare` (`Flush`), `Commit` (`Publish`), `End`
(`RemoveTx` of one that did not commit), `Crash`, or changes nothing that is shown
(the nine steps of a checkpoint, writes, syncs, Open and Close). All of this is
proved under `SafeFaults`, that of I/O only a checkpoint's copying and syncing
fails: with an error in the flush or in the truncation the theorems are false, see
`rbf/tx.go:1957` above. The numbers of transactions, pages, commits and crashes and
the sizes of WAL and file are arbitrary; `BoundAssumption` and `SizeAssumption` are
all that is asked of them.

*TaskPool.* `PoolInv` relates the counters to cardinalities of sets of
goroutines, `mu` to who is inside Block, and says that a worker about to retire
saw a surplus (`RetireInv`) and that `unblocked` is at least the target, or one
less while someone in Block is about to add a worker (`ReserveInv`). The
compare-and-swap is what makes `RetireInv` enough: the counter it decrements is
the one it saw.

*QueryContext.* A lemma on scopes comes first: two scopes that both allow a
database overlap, unless both are the scope of everything (`Overlap` against
`Allowed`, for scopes made of fields, shards and whole indexes in any mixture).
`WritersDisjoint` then needs that a context with a scope that is not empty is
admitted or waits (`AdmissionInv`), for the queue compares with the admitted only.
`NoLockingError` is an action property: a step that returns the error does so at a database
that is dead or at one which another writer has, both with the scope of everything. It needs that a locked
`lockCheck` is that of an admitted writer of the same database (`LockCheckInv`), or that this
database is dead (`RefusedForCause`): writers are admitted by scope
and disjoint, so a second one is never there. That transactions are left open by
failed commits only is a bound on the cardinality of `LeftOpen`.

*DaxStorage.* `OneOwner` needs that whoever believes to have the lock has the
lock file behind it (`LockFileBacked`): only `Lock` creates the file and only a
node that has it removes it. A kill leaves the file, so the invariant survives
it (and nobody can lock again). `AckedSurvive` and `OwnerIsCurrent` are consequences of
`CurrentInv`, which names the greatest version `g` of a snapshot and says that
every acknowledged message is in it or in a log past it (`Safe`), that a node
which is loading has restored `g` and has the first `lastWLPos` messages of the one log past
it (`Loading`), that the holder of the lock, and nobody else, has logs open and appends
past `g`, loaded or not (`Logging`), that a database has what is committed and in flight and, once
loaded, all that was acknowledged (`Holding`), and that a snapshot being written is past
`g` and has what is acknowledged now and what is in flight, which may be acknowledged before
it is there (`Snapping`). Only the holder of the lock takes snapshots, so
`g` moves under a node that is loading only by that holder's snapshot, which
`accidents` records. Both theorems assume `MaxVersion <= 10`, versions of one digit:
with two the last name of a listing is not that of the greatest version, which is the
finding `dax_order`.

*MapReduce.* `WorkInv` says of every goroutine that it hands out jobs only while
its node's channel is open, and has no job with a worker once `mapperLocal` is
over (`GoodTask`); that a channel is closed after shutdown only; and that all
goroutines are over when `mapReduce` has returned. `CloseWork` keeps the
first because a goroutine that hands out jobs is in `activeMappers`, and
`CheckShutdown` because it looks after it counted itself. For the answer, `TasksInv`
says that live goroutines have no shards in common and only shards that are
missing from the result, and `QuietInv` that, as long as nothing was cancelled or
closed, `expected` is the number of missing shards and no goroutine loses one on the
way from its list over the workers to its response (`Covers`). `FailsOver` needs
`CalmInv`: with one node down at most, nodes are dropped only when they are down and a goroutine
that is refused is of the first attempt, since the second goes to owners other than
the node that was dropped. It rests on the owners of a shard being distinct nodes
(`disco/snapshot.go`), which `MapReduceAssumption` states.

*IDAllocator.* The state is small and the loops are the difficulty: what they do to lists of
any length. A lemma per loop (`...Run`) says that there is a sequence of states, each
the body applied to the one before, that ends in the loop's result; an invariant of the
rounds then follows by induction over a set of rounds (`SetInduction`, from the least
element of a set of naturals), as the library's induction theorems cannot be used.

* `Discard`, `Prefix` and `Extend` are described by what they do to `IDSeq`: the first
  IDs go, the first IDs stay (`Begins`), IDs are added behind. `Counts` has the sums
  that say which range an index falls into.
* `reserveIDs`: `Heapify` and `Pop` give a heap by width with the same ranges (`UpTo`
  and `DownFrom` say where the order is broken while an element is on its way), so that
  each round takes the smallest range there is. `Reserving` is the invariant of the
  rounds: what was taken and what is left are apart and are the list, the ranges taken
  whole are no wider than those left, and only the last may be a part of one.
  `ReservesSmallest` follows for every list of ranges without common IDs.
* `mergeIDs`: the sorted list exists (`Orders`), and `Merging` says that what was merged has
  the IDs of the ranges seen and ends with the last of them, so that two ranges meet only
  if they overlap. `MergesAll`: it never fails on lists without common IDs, and loses none.

`IDInv` is `EachIDOnce` with the types and `HeldInv`: the session which has the lock
on a key was told the first IDs of its reservation. `EachIDOnce` alone does not say
whose the committed IDs are; with `HeldInv` a commit of the first n IDs of the
reservation is one of the first n that the session was told (`CommitAgrees`). It rests on
session values being random: a session uses one key, and no two have the same value.
`StableIDs` needs of the reserved ranges what `Discard` and `Extend` do to `IDSeq`. Only
`IDAssumption` is assumed: any keys, sessions, integers and counts.

*BsiField.* `BsiInv` has, besides types, `StoredInv`: the rows of a column that exists are the
bits and the sign of its value less the base, and its bits are within the depth in use;
`EmptyInv`: nothing is in the rows above that depth, so that a deeper value finds no leftovers
and a restart may take the depth from the rows; and `CallInv`: what a request under way
will write fits the depth in use. All three theorems have the hypothesis `OneAtATime`, that requests
do not overlap: with two at once `ValuesKept` is false, which is the finding `bsi_depth`.

`QueriesRight` is about the comparisons. As for `IDAllocator` a lemma per loop gives the
states of its rounds, and the invariants of the rounds speak of numbers without their
low bits (`Shr`), which is what the loop has seen of them:

* `MatchRows` keeps the columns that agree with the predicate above row i;
* `LTKnows` and `GTKnows`: besides those, the columns which are already less or greater
  above row i are kept, and the loop ends early only when what is left of the predicate is all
  zeros or all ones, so that the rest of the columns are all in or all out;
* `MinKnows` and `MaxKnows`: the columns left are those with the least or greatest value
  above row i, and the number found so far is that value;
* for a range between two unsigned numbers, `DiffLen` finds the rows in which both agree,
  and the two loops below them compare what `LowBits` leaves of the numbers.

The lemmas on `baseValue` then say that a predicate which is outside the depth in use, and is
clamped or answered without looking at rows, gets the same answer. The result is for every
depth up to `MaxDepth`, and any columns and ranges; `RowIs` and `BetweenRowIs`, the lemmas
for one comparison, are for every integer as the predicate.

Constants are assumed to be what `NewPool`, `rbf/cfg`, the placement and the bounds
say; the assumptions are named and TLC evaluates them in each run. `FileInv`, the
largest of the inductive invariants, was checked by TLC on the instance of
`rbf_safety` before it was proved.

Only model-checked:

* liveness (`WriterServed`, `CloseReturns`, `PendingResolved`, `CallsReturn`,
  `EverythingEnds` and the pool's), as fairness and `ENABLED` are out of this
  prover's reach;
* `RbfTree`: a b-tree's operations descend and split by recursion, and what they
  compute for every tree needs induction over it.

## Plan

Theorem to prove next: `RbfTree!PagesAccounted`, which would need the descent written
as a loop over the levels of the cursor's stack, as `IDAllocator` writes its loops.

Components to model next: `ClusterTransactions` (several `TransactionManager`
stores and the messages between them, lost, late and repeated), `Qcx` and the
transaction factory, `DaxController` (jobs, workers and directive versions) and
key translation with its replication.

## What is not modelled

Parsers, planners, bitmap arithmetic and caches are functions of inputs too large
for TLC and have no concurrency of their own; most of the repository's lines are
these, generated code (protocol buffers, parsers) and data tables. HTTP, gRPC,
encoding, command line tools, metrics and logging are I/O. etcd, Bolt and the SQL
database under the controller are external. Of the modelled components, left out
are `idAllocator.Replace`, `WriteTo` and `Close`, `Pool.Stats`, `DB.Checkpoint`
(only tests call it), `DB` statistics and debug output, `ApplyRewriter`,
`DeleteBitmap`, `RenameBitmap` and `AddRoaring` of the tree, the error `ErrTxTooLarge`
of its page writes (the limit itself is in `RbfDB`), errors of the reduce functions of
`mapReduce` and the PQL calls that supply it with its functions, failing appends, a shutdown in
the middle of a load and the removal of whole tables in serverless storage, and decimal, timestamp, set, mutex, bool and time fields. Hazards there
that are known are above or in `PROJECT.json` with a note.
