# StrataGo in TLA+

A verification project for StrataGo-Dist, a replicated key-value store: an LSM
storage engine in Go under HashiCorp Raft, behind a gRPC server.  The modules
model the code under `src/`; `PROJECT.json` names, for every definition, the
lines it stands for.

## 1. The system

| Part | State | Operations | Hard part |
| --- | --- | --- | --- |
| Engine (`engine/stratago.go`, `flush.go`, `compaction.go`) | active and immutable memtable, the slice of SSTable readers, `wal.log`, `wal.log.flushing`, `data_<ts>.sst`, `flushChan`, `closed` | Put, Delete, Get, ScanAll, Flush, RunCompaction, Close, Purge, Open | clients, two workers and Close interleave between critical sections of `db.mu`; crashes at every file operation; failures of single I/O calls |
| WAL (`engine/wal`) | the file, the sequence number | NewWAL, WriteEntry, Recover, Close | broken records, what is on disk after a kill or a power failure |
| SSTable (`engine/sstable/builder.go`, `bloom.go`, `reader.go`) | records, sparse index, Bloom filter; a Reader's file position and mutex | Add, Finish, NewReader, Get, ReadAll | filter, index and scan must agree; calls share one file position |
| Merge (`engine/sstable/merge.go`, `iterator.go`) | iterators, heap, last key | NewIterator, Next, Merge | order of equal keys, dropped errors |
| Memtable (`engine/memtable`) | skip list | Put, Get, iterator | nil against empty values; an iterator without a lock |
| Raft state machine (`consensus/fsm.go`) | the engine | Apply, Snapshot, Persist, Restore | partial restores, replay after a restart |
| Server (`server/kv_server.go`) | cached leader connection | Put, Get, Delete, proxying | time-outs, retries, stale leaders |
| Node (`main.go`) | - | bootstrap, join, shutdown | join retries, shutdown order |

A Put at a follower is proxied to the leader, proposed to Raft, and applied by
`StrataFSM.Apply` on every node: `db.Put` appends to the WAL and updates the
active memtable under `db.mu`, and signals the flush worker when the memtable is
large.  The flush worker rotates memtable and WAL under `db.mu`, builds and
verifies an SSTable outside it, and publishes it under it.  The compaction worker
selects readers under `db.mu`, merges outside and swaps under it.  Raft calls
`Snapshot` (ScanAll) and `Restore` (Purge, then Puts).  Shutdown calls `Close`,
which runs a Flush of its own.

What makes each part correct: the engine is a map that only its callers' writes
change, at once, and that a crash should not change (after a compaction it does, section 3); the WAL returns every confirmed write;
an SSTable returns what it was built from; a merge has the newest value of every
key; a replica's engine is the fold of the log; a strong read is linearizable.
Everything in this code that is hard to test is listed, at its line, under
`hazards` in `PROJECT.json`.

## 2. Modules

| Module | Models | Abstract specification |
| --- | --- | --- |
| `Engine` | the engine but for Purge | `KVStore`: a map that only a call of Put or Delete changes, in its own key; `calls` counts them, so that any other step must leave every key as it is |
| `Lifecycle` | Close and Purge, their channels, the wait group, the workers' loops | |
| `WAL` | `wal.go` | `WALMap`: the map Recover would return, and whether a broken record hides what follows: the view of the log that `Engine` takes |
| `SSTable` | builder, Bloom filter, reader | the set of records added (`Added`) |
| `KWayMerge` | `merge.go`, `iterator.go` | `NewestValue`: the definition of `Merge` in `Engine` |
| `SkipList` | `skiplist.go` | `latest`: the map of the last Puts |
| `Replica` | `fsm.go`, start-up in `main.go` | `StateAt(i)`: the map of the first i committed commands |
| `Raft` | HashiCorp Raft as its callers see it (external) | |
| `Cluster` | Put, Delete and Get of `kv_server.go`, joining, over `Raft` | the committed log |
| `LeaderConn` | the connection cache of `kv_server.go` | |
| `Node` | the shutdown of `main.go`; composes `LeaderConn` and `Lifecycle` | |
| `MCEngine`, `MCWAL`, `MCSSTable`, `MCKWayMerge`, `MCCluster` | symmetry sets and hash functions for TLC | |
| `EngineProofs`, `WALProofs`, `SSTableProofs`, `KWayMergeProofs`, `SkipListProofs`, `ReplicaProofs`, `ClusterProofs`, `NodeProofs` | theorems, checked by TLAPS | |

The detailed modules justify what the others abstract: every step of `WAL` is one of
`WALMap`, whose actions are the ways `Engine` changes `wal` and `walTorn`; `KWayMerge`
computes `Engine`'s `Merge`; `SSTable` shows that a reader answers as the table it was
built from, `SkipList` that a memtable is a map with its size.  `Replica` takes the
engine for what `Engine` shows of it: a map while the process runs and nothing fails, with
the losses that section 3 lists.  `Cluster` takes a replica for what `ReplicaMatchesLog`
says of the keys that are not lost, outside a Restore: some state between the entry applied
last and the last one that ever reached its engine, a zero-length value standing for the
Delete it comes from.

### Engine

One step is one critical section of `db.mu` or one file operation outside it.  A
Flush call is a record with a program counter, and there are two of them, the flush
worker's and Close's:
`start -> rotated -> building -> built -> verified -> published`, with `failed` and
`relogging` for `recoverFromFlushFailure`.  RunCompaction is `merging -> built ->
deleting`.

| Action | Code |
| --- | --- |
| `Put`, `Delete` (`WriteSucceeds`, `WriteFails`) | `Put`, `Delete`, with the outcomes of `WriteEntry` |
| `WorkerReceive`, `FlushBegin` .. `FlushDrop` | `flushWorker`, `Flush`, `recoverFromFlushFailure` |
| `CompactSelect`, `CompactMerge`, `CompactSwap`, `CompactDelete` | `RunCompaction`, `selectFilesForCompaction` |
| `CloseBegin`, `CloseDrain`, `CloseEnd` | `Close` |
| `Crash` | the process is killed, perhaps inside a write (external) |
| `OpenRelog`, `OpenFinish` | `Open` |
| `Get(k)`, `ScanAll` (state functions) | `Get`, `ScanAll`, each inside one read lock |

Tables map keys to cells: a value, `Nil` (a tombstone in memory), `Empty` (a
zero-length value) or `Absent`.  `OnDisk` is what encoding does to a table: nil and
`[]` become the same bytes.  A WAL file is the map Recover returns for it.  The
slice of readers is a function on increasing slots; file time stamps, slots and file
handles come from one clock.  `Tiers` stands for the sizes that `getTier` sorts files
by: a file's tier is any of them, since sizes are not modelled.

`Events` says what the environment does in a run (Close, ticks, crashes, which I/O
calls fail), so that one module serves all runs; the theorems hold for all subsets
unless they say otherwise.  Among them are the failures that the code passes over: `rename`
(a rotation failed and so did the renaming back of `wal.log`) and `openlog` (Open cannot
open `wal.log.flushing`, keeps it and goes on).  `acked`, `pending` and `written` are history variables:
the last acknowledged write of each key, the failed writes since, all writes.

### WAL

The file is a sequence of records; one that is not `whole` is what a failed or
interrupted write left.  `synced` says how much survives a power failure.  `early`
writes are those of Open, which appends to `wal.log` before it has recovered it; the
run leaves them out, because they start again at sequence number 1 and may land behind
a broken tail.  Recover takes a read error for the end of the log and truncates what is
behind it (`RecoverMisreads`, event `read`); `hidden` says that confirmed records were lost
that way, or lie behind a fragment.

### SSTable

Keys are ranks, a value is its length, a record has `1 + length` bytes, which gives
offsets and the sparse index their meaning.  The binary search and the scan are one
action per round, and several goroutines run them on one Reader, with its mutex and
its file position.  The hash function is any member of `HashFunctions`; probes wrap
at `2^HashBits` as `uint32` does.  In `ReadFails` a Seek or a read fails, which Get
answers with "not found" and ReadAll with an error, or with an empty map if it was the
footer.  The bytes of the filter block, which Get's scan may
run into, are taken to be no key that a client looks for.

### KWayMerge

One action per loop round of `Merge`; the heap is a set from which the least item by
`Less` is popped (`container/heap` is external).

### SkipList

A call of Put or Get is a search, one step for each round of its two loops
(`Advance`, `Descend`), and a last step (`Overwrite`, `Insert`, `GetReturns`); the
iterator is `IteratorNext`.  Nodes are numbered as they are allocated, so that a wrong
search could insert a key twice; `randomLevel` is any height.  The list's mutex, and
`db.mu` around it, let one call at a time change the list, so calls do not overlap.

### Replica

One action for each call that Raft's state machine goroutine makes, except Restore,
which is the Close inside Purge, the rest of Purge, a Put for each entry and a return, so
that a crash, a failure or a Get can come between any two.  Persist runs in the background,
beside Apply.  `Stored` is the conversion of a value by protobuf: a zero-length one arrives
as nil.

`engine` is what Get answers.  What the engine does on its own account is in it as `Engine`
has it: `Settle` (a flush turns zero-length values into "not found"), `Compact` (a merged
file is unlinked: `merged` are the keys that ScanAll then lacks, while Get still has them),
`Revert` (a flush was given up, or files were merged around an unlinked one: keys go back to
older values).  `Snapshot` is ScanAll: of the keys in `merged`, or that it could not read, it
has an older value or none.  After a crash Open finds of each key any value it had at some
entry up to `reach`, the last entry that came to this engine, or a zero-length value where a
tombstone was logged (`Recovered`); the node replays the log from its newest snapshot, or
from the start, onto that.

Raft takes no notice of an engine call or a Restore that fails, nor of a snapshot that lacks
keys.  `lost` are the keys that such an event has left behind: they come back to order when
they are written again, or with a later Restore from a snapshot that does not lack them.

### Raft and Cluster

`Raft` keeps one log for each term, so that a leader that others have replaced goes on
appending to its own.  An election takes the votes of a quorum and starts from a log
that has all committed entries, with or without entries that were not committed.
A node applies a committed entry only if the leader it follows has it.  A follower that
hears from no leader is not distinguished from one whose calls to the leader fail.
How logs travel and AddVoter's own log entry are left out.

`Cluster` has one key and requests with a value each.  A request is at one node at a
time: `Call`, `NotLeader` and `Forward` (State() and Leader() are two looks at Raft),
`HandleAsLeader`, `Respond`.  A time-out of the client or of a node on the way changes
nothing in the handlers, which are detached; it is the choice of `Respond` to tell
nobody.  Get is `ReadCheck` and `ReadLocal`: what happens between the check of a level
and the local read is the point.  A write whose entry had been given to the state machine may
succeed although its leader was deposed meanwhile.  A Restore between check and read is not
modelled.  History:
`acked` is the set of log entries whose clients were told of success, `known` the
members of it that the read was bound to see when it began (those of the terms its node
has reached), `settled` whether that node had applied the no-op of its term.

### LeaderConn, Lifecycle, Node

A handler looks at Raft (`Lookup`), at the cache under the read lock (`ReadCache`), at
it again under the write lock (`Dial`), makes its call outside the lock and, if that
fails, clears the cache (`InvalidateLeader`).  Raft's answer is any leader each time.

In `Lifecycle` each Purge begins a generation of channels and workers.  A worker is the
generation of the channel it listens on: the flush worker keeps its first, the
compaction worker takes `db.closeChan` anew after each tick.  Close is `Close` (test and
set), `CloseFlush` (the final Flush, which may fail, and the closing of the channels),
`CloseWait` (wg); Purge goes on with `Reopen`, which may fail and leave the engine
closed.  `Node` adds main: GracefulStop, `KVServer.Close`, Raft's Shutdown, the
engine's Close.  Raft may call the state machine, Purge included, until Shutdown has ended.

## 3. Runs

Passing:

| Run | Shows | Bounds |
| --- | --- | --- |
| `engine_refines` | no step of a flush or a compaction, and no failed WAL write, rotation, merge or reopen, changes what Get answers for any key: `Engine` implements `KVStore`; and Get answers with the write acknowledged last | 2 keys, 2 values, 4 writes |
| `engine_crash` | the files hold every acknowledged write at each instant until the first restart; keys written once survive every crash; ScanAll agrees with Get | 4 writes, 2 crashes |
| `engine_faults` | with every event: readers in use are open, nothing is invented, only Close takes a memtable away from a flush | 1 value, 3 writes, 1 stop |
| `engine_live` | a large memtable is flushed, Close ends | 1 value, 3 writes |
| `wal` | confirmed writes are recovered after kills, power failures, failed syncs, unless a broken or unreadable record comes before them; sequence numbers go on; `WAL` steps are `WALMap` steps | 2 keys, 1 value and nil, 4 records, 2 stops |
| `sstable` | Get and ReadAll of two goroutines return what was added, if no read fails; whoever holds the mutex comes nearer to its end; Get returns | all files over 4 keys and 2 lengths, 3 hash functions |
| `merge` | newest value of every key, ascending; each round consumes one record | all triples of files over 3 keys, 2 values |
| `skiplist` | every level sorted and complete, reads right, sizes exact, every step of a call goes forward | 3 keys, 3 lengths, 3 levels: all orders of insertion, all heights |
| `replica` | each key that is not lost lies between what the node has applied and what has reached it, through compactions, lacking snapshots, recoveries, Restores that fail half-way and replays, and a node that stays up ends with the map of the log for these keys | 2 nodes, 1 key, 2 entries, 1 crash or failing Restore, every event |
| `cluster` | an acknowledged write is committed once and stays; forwarding follows growing terms; reads of settled leaders are fresh | 3 nodes, of which 2 join, 2 terms, 1 request, 1 read of each level, 1 crash |
| `node` | no leaked connection, calls reach the leader looked up, channels are closed once, workers match their engine, main closes the engine alone, shutdown ends | 3 requests, 2 addresses, 1 successful Purge and any number of failing ones |

The bounds are enough for the cases that matter.  A memtable reaches the threshold
with one key and its value, so four writes make two to four SSTables, compactions of
two files, and writes during each of them; two stops put a crash into the Open that
follows a crash.  Four index entries make the binary search take both branches and
end at every place; interval 2 with records of 1 and 3 bytes leaves some records
without an index entry.  Three files put equal keys in all orders on the heap.
In `replica` two entries are enough for a snapshot of the first to be taken while the
second has come to the engine, for a Restore from it, and for a replay over later or lost
values; a crash falls into a Restore or leaves a log to replay, and a Restore that fails at
start-up stops the node.  Three entries and two failures, without events, and two keys, with
compaction only, were also checked.  Two
terms are enough for one stale leader beside the present one, and for the two hops a
request can make; a second request (with no crash) was also checked and changes nothing.
Three requests make one dial, one replace and one invalidate the connection.
`engine_faults` needs only one value because its properties do not compare two
writes of a key.  Deadlock checking is off where the model may stop, when the bounds are used
up or the process is down for good; it is on in `skiplist`, where a call can always begin
or go on.

One run shows what the code does against its comments; `findings` in `PROJECT.json`
quotes the lines.

| Run | Property | What happens |
| --- | --- | --- |
| `crash_after_compaction` | `StableKeysSurvive` | the merged file has the path of its newest input and is deleted with the inputs; a restart loses its keys |

The same modules show these with other constants, or with the property in place of those
of the run:

| Property | Constants | What happens |
| --- | --- | --- |
| `Engine!LatestWriteRead` | `Events = {"build", "verify"}` | entries of a memtable whose flush failed are in the WAL and in no table (`flush.go:116`) |
| `Engine!LatestWriteRecovered` | `Events = {"crash"}`, 1 stop | Open appends the records of `wal.log.flushing` behind newer ones (`stratago.go:63`) |
| `Engine!DeletedNotFound` | `Events = {"crash"}`, 1 stop | a recovered tombstone is found as a zero-length value (`stratago.go:165`) |
| `Engine!NoPanic` | `Events = {"close"}`, 1 stop | Close's Flush and the worker's share the immutable memtable, and one finds nil (`flush.go:67`); nothing but Close does this (`PanicsOnlyInClose`, proved) |
| `Engine!ScanComplete` | `Events = {"tick"}` | ScanAll (the Raft snapshot) lacks the keys of a merged file |
| `Engine!LatestWriteRead` | `Events = {"tick"}`, `Tiers = {0, 1}`, one key, threshold 1 | a group of files is merged around an unlinked one and put before it |
| `Engine!StableKeysSurvive` | `Events = {"crash", "torn"}`, 2 stops | entries re-logged behind a broken tail of `wal.log` are cut off |
| `WAL!AckedRecovered` without `~hidden` | `Events = {"short"}` | a half-written record hides the ones behind it |
| `KWayMerge!MergeCorrect` | `Events = {"footer"}` | a footer that cannot be read makes a file look empty |
| `Cluster!StrongReadsFresh` | as `cluster` | a new leader passes VerifyLeader and reads its engine before it has applied what was committed and acknowledged under the old one, although `README.md:28` promises linearizability |
| `Node!ShutdownCompletes` without `botched` | as `node` | a Purge after a Close whose Flush failed leaves the old flush worker on a channel that nobody closes, and the next Close waits for it for ever |

The passing runs are chosen around them: `engine_crash` has no compaction, because
after one the merged file is gone; its `StableKeysSurvive` speaks of keys written
once, because the order of recovered records is wrong for others.

Fairness.  `Engine!FairSpec` assumes that the Go scheduler runs the flush worker, a
compaction under way and main inside Close; it assumes nothing of clients, the
ticker, Close being called or failures.  `SSTable!FairSpec` adds strong fairness for
taking `r.mu`: a Go mutex hands itself to a waiter that has waited for long.
`Replica!FairSpec` lets Raft apply what is committed and run a Restore to its end, on a
node that is up; nobody must take snapshots, write, flush or restart, and Restores fail as
often as `MaxFailures` allows.
`Node!FairSpec` lets requests go on (each call has a context that ends), calls of Close
and Purge, main, and a worker whose channel is closed; nobody must send requests, purge
or signal.  Raft's Shutdown has strong fairness: the state machine goroutine looks at its
calls and at the closed shutdown channel in one `select`, which takes a ready case at random
and cannot pass over the same one for ever.

## 4. Proofs

| Theorem | Statement |
| --- | --- |
| `EngineProofs!TypeCorrect` | `Spec => []TypeOK` |
| `EngineProofs!ReadersStayOpen` | `Spec => []ReadersOpen` |
| `EngineProofs!EngineIsMap` | `ASSUME CalmFaults \cap Events = {}`, one tier `PROVE Spec => ImplementsKVStore` |
| `EngineProofs!ReadsAreLastAcked` | `ASSUME CalmFaults \cap Events = {}`, one tier `PROVE Spec => []ReadsLastAcked` |
| `EngineProofs!WorkerPanicsOnlyInClose` | `Spec => PanicsOnlyInClose` |
| `EngineProofs!NoPanicWithoutClose` | `"close" \notin Events => (Spec => []NoPanic)` |
| `EngineProofs!MemoryIsDurable` | `LogFaults \cap Events = {} => (Spec => []MemoryDurable)` |
| `EngineProofs!NeverInvents` | `Spec => []NothingInvented` |
| `EngineProofs!ScansAreComplete` | `"tick" \notin Events => (Spec => []ScanComplete)` |
| `EngineProofs!AckedStaysOnDisk` | `RestartFaults \cap Events = {} => (Spec => []AckedOnDisk)` |
| `EngineProofs!StableKeysDoSurvive` | `RestartFaults \cap Events = {} => (Spec => []StableKeysSurvive)` |
| `WALProofs!WALTypeCorrect` | `Spec => []TypeOK` |
| `WALProofs!ConfirmedIsRecovered` | `Spec => []AckedRecovered` |
| `WALProofs!NumberingContinues` | `"early" \notin Events => (Spec => []SequenceIncreases)` |
| `WALProofs!WALImplementsMap` | `Spec => ImplementsMap` |
| `SSTableProofs!SSTableTypeCorrect` | `Spec => []TypeOK` |
| `SSTableProofs!GetIsCorrect` | `Spec => []GetCorrect` |
| `SSTableProofs!ReadAllIsComplete` | `Spec => []ReadAllComplete` |
| `SSTableProofs!HoldersDoAdvance` | `Spec => HoldersAdvance` |
| `KWayMergeProofs!MergeTypeCorrect` | `Spec => []TypeOK` |
| `KWayMergeProofs!MergeSorted` | `Spec => []AddsAscend` |
| `KWayMergeProofs!MergeIsCorrect` | `"footer" \notin Events => (Spec => []MergeCorrect)` |
| `KWayMergeProofs!RoundsDoConsume` | `Spec => RoundsConsume` |
| `SkipListProofs!SkipListTypeCorrect` | `Spec => []TypeOK` |
| `SkipListProofs!LinksStaySorted` | `Spec => []LinksSorted` |
| `SkipListProofs!ReadsFindLatest` | `Spec => []ReadsCorrect` |
| `SkipListProofs!SizesStayExact` | `Spec => []SizesExact` |
| `SkipListProofs!CallsDoAdvance` | `Spec => CallsAdvance` |
| `ReplicaProofs!ReplicaTypeCorrect` | `Spec => []TypeOK` |
| `ReplicaProofs!ReplicaFollowsLog` | `Spec => []ReplicaMatchesLog` |
| `ReplicaProofs!LosslessReplicaIsLog` | `ASSUME Lossless PROVE Spec => []CaughtUp` |
| `ClusterProofs!WritesHappenOnce` | `Spec => []WritesOnce` |
| `ClusterProofs!ForwardingRises` | `Spec => ForwardsToNewerTerms` |
| `ClusterProofs!SettledLeadersReadFresh` | `Spec => []SettledReadsFresh` |
| `NodeProofs!NodeTypeCorrect` | `Spec => []TypeOK` |
| `NodeProofs!ConnectionsDoNotLeak` | `Spec => []NoConnectionLeak` |
| `NodeProofs!CallsGoWhereLookedUp` | `Spec => []CallsLeaderLookedUp` |
| `NodeProofs!ChannelsStayOpen` | `Spec => []ChannelsOpen` |
| `NodeProofs!WorkersOfThisGeneration` | `Spec => []WorkersMatch` |
| `NodeProofs!MainClosesAlone` | `Spec => []ClosesAlone` |

They hold for every value of the constants allowed by the assumption of their module
(`ConstantsAssumption` of `Engine`, `WALAssumption`, `SSTableAssumption`,
`MergeAssumption`, `SkipListAssumption`, `ReplicaAssumption`, `RaftAssumption` with
`ClusterAssumption`, `ConnAssumption` with `LifecycleAssumption`): any number of keys,
values, nodes, callers, requests, terms and crashes.  `SSTable` also assumes
`PowersAssumption`, a fact of arithmetic (`2^n` is positive) that the provers do not
know.  Hypotheses on `Events` or `Tiers` exclude exactly what section 3 shows to break
the property:

| Hypothesis | Excludes | because |
| --- | --- | --- |
| `LogFaults` | Close, torn and failed WAL writes, failed builds and verifications, a renaming back of `wal.log` or an opening of `wal.log.flushing` that fails | memtable and log come apart |
| `RestartFaults` | those, compaction, a failed recovery of `wal.log.flushing` | files that are still needed are removed |
| `CalmFaults` | Close, crash, failed builds and verifications | the process ends, or a flush gives its memtable up; `KVStore` has no such step |
| one tier | files of different tiers | a group may be merged around an unlinked file |
| `"close" \notin Events` | Close | its Flush runs beside the worker's on one memtable |
| `"tick" \notin Events` | compaction | ScanAll cannot open a merged file again |
| `"footer" \notin Events` | a footer that cannot be read | the file looks empty |
| `Lossless` | failing engine calls and Restores, compaction, ScanAll that cannot read a file, flushes given up | they leave keys behind |
| `"early" \notin Events` | writes of Open before Recover | numbering starts again at 1 |

The arguments:

* `TypeCorrect`: `TypeOK` is inductive together with `GroupServed` (a compaction about
  to swap finds its readers in the slice) and `Quiet` (nothing runs while the engine is
  not up); without them `Rebuild` has no place to put the merged reader.
* `ReadersStayOpen`: `FdInv` keeps the handles of served readers apart from those of a
  compaction that has swapped.
* `EngineIsMap`: the removal of the compacted files takes the merged one with them, so
  that a reader's file may be gone, or hold more than the reader, and a later merge
  reads files, not readers.  `SlotsInv` says why Get never notices: readers whose file
  is gone come first in the slice (`ReaderInv`), so a group is a prefix of the others
  and its slots lie next to each other (`SelectOldest`, `SwapShape`); every file that is
  there answers as its reader together with all older ones (`Stands`); and so does the
  merged table (`MergeInv`).  `SwapUnnoticed` is the heart of it: a search that starts
  above the group gives the same answer after the swap.  `WorkerInv` says that the file
  of a flush is nobody else's, `MemtablesInv` that a tombstone is the only cell that
  changes on its way to disk.  With these every step but Put and Delete leaves
  `Get` of every key as it is (`Unseen`), which is what `KVStore` asks of a step that is no
  call, and those are its calls, failed ones included.
* `ReadsAreLastAcked`: by the same invariants; what `StepSeen` says of a step's effect on
  `Get` it says of `acked` as well, and the workers touch neither (`WorkersSilent`).  It
  adds to the refinement which calls count: those that were acknowledged.
* `WorkerPanicsOnlyInClose`: `OwnsMemtable` says that while the engine is not closed a
  flush that has rotated has the immutable memtable to itself, because the flush worker is
  one goroutine and does not begin a flush before it has ended the last.
* `MemoryIsDurable`: `LogInv` says where the log of each memtable is in every phase of
  a flush.
* `NeverInvents`: `SoundInv` says of every table in memory, on disk and inside a
  flush or a compaction that each cell of a key was written to that key.
* `ScansAreComplete`: `FilesInv` says that every reader's path still holds the data the
  reader has, and that the file of a flush under way is nobody else's.
* `AckedStaysOnDisk`: `KeptInv`, on top of `LogInv` and `FilesInv`: `wal.log.flushing` is
  there until a complete and newest SSTable holds its entries or Open has logged them
  again.
* `StableKeysDoSurvive`: `SurviveInv` keeps an acknowledged write somewhere on disk and,
  while the engine is up, in a table that Get searches; with `SoundInv` the only cell it
  can find there is the one value ever written.
* The theorems of `WALProofs` rest on `WALInv`: `Covered` says, for each place behind
  the synced records at which a stop may cut the file, what the rest says of each key, and `Numbered` bounds
  the numbers of the records by the counter of an open log.  What `Recover` computes is
  characterised by the last valid record of a key (`LastValue`, `Valid`).
* The theorems of `SSTableProofs` rest on `TableInv`.  `FileInv`: records ascend and lie
  end to end; `IndexInv`: the index names records, the first one first; `FilterInv`: the
  filter has every key of a published file.  `CallOK` is the loop invariant of a call at
  each point: the offset found so far belongs to an entry that is not beyond the key; the
  scan has passed smaller keys only; ReadAll has the records before the file position and
  their bytes.  It speaks of the shared file position, and `CallsInv` keeps it there
  because a call inside its loop holds `r.mu`.
* `HoldersDoAdvance` needs one thing more, `HolderInv`: who holds `r.mu` is inside a call,
  and the interval of the binary search is never less than empty.  `RoundsLeft` is what
  shrinks; it reads the file position, which only the holder moves.
* `MergeSorted`, `MergeIsCorrect`: `OrderInv` separates output, heap and iterators at
  `lastKey`; `CoverInv` accounts for every record: in its iterator, on the heap, or
  no larger than `lastKey`, and everything up to there is in the output with its
  newest value.  `RoundsDoConsume` follows from `OrderInv`: an iterator stands behind
  the one record it has on the heap, so that Pop and Advance together take one away.
* The theorems of `SkipListProofs` rest on `ListInv`: on each level the next node is the
  first later one that has the level; a search stands before its key, and what `update`
  collects is the last smaller node of each level, so that `Insert` links in order and
  `Overwrite` finds the only node of the key.  `PartialSums`, the running sums of the
  nodes' sizes, keeps `sizeBytes` from going below zero when a value is replaced, and
  `SizesStayExact` shows that the last of them is the sum over the set of keys that
  `SizesExact` names.  That sum is a fold that picks a member and recurses; `SumExists`
  (by the least counterexample, `LeastNat`) gives a function that satisfies its recursion,
  `SumTakesOut` that any member may be taken out first, `SumAlong` that it is the last of
  the running sums, and `FoldIsSum` that the fold is it.
  `CallsDoAdvance`: `StepsLeft` counts the levels below and the nodes ahead.
* `ReplicaFollowsLog`: `ReplicaInv` says of each cell of an engine between which two entries
  it stands (`CellsOK`: from `Floor` to `reach`), of each snapshot and of a Persist under way
  the same for the keys it does not lack (`SnapshotOK`), and of a Restore what has come from
  its stream so far (`RestoreOK`).  A replay keeps it because a cell that is ahead of the entry
  applied is of a key whose entries are still to come again.
* `LosslessReplicaIsLog` adds `LosesNothing`: without these events no key is ever lost, no
  snapshot lacks one and no engine stays closed, so that the interval of each cell shrinks to
  one entry once `applied` has come to `reach` again.  Here a recovered tombstone, or a newer
  value under an older entry, would be seen.
* The theorems of `ClusterProofs` rest on `ClusterInv`: a log has its entries in the
  order of their terms and no write twice (`LogsOK`), a term has one leader (`LeadersOK`)
  whose own log has what it has applied (`AppliedOK`), a write is in no log before its
  handler proposes it (`RequestOK`), and what was acknowledged is committed and applied
  by the leader of its term (`AckedOK`), so a leader that has applied its own no-op has
  applied all that was acknowledged in earlier terms as well.  Terms along a forwarded
  request rise because whoever forwards has a leader that is not behind it.
* The theorems of `NodeProofs` have one inductive invariant, `NodeInv`.  `ConnInv` adds
  to the two properties of the connection that the cached one was dialled for the
  address it is cached under (`CacheMatches`) and that nobody uses the connection of a
  request that has not dialled (`Undialled`), without which a dial could redirect the
  calls of others.  `LifeInv` adds that the flag is held through a Close (`FlagHeld`) and
  that an engine that is closed, with nobody closing it, has no worker
  (`NoWorkerWhenClosed`), which is what Purge needs when it starts the next two.
  `PhaseInv` says what may still run at each point of main's shutdown; from it follows
  that `Close` has one caller, which `CloseFlush` and `Reopen` rely on.

Where a proof needs a least or a last element (of slots, records, indexes), it takes it
from the well-foundedness of `<` on the naturals (`WFMin`).

Only model-checked: liveness (`LargeMemtableFlushed`, `CloseTerminates`, `GetReturns`,
`ReplicaCatchesUp`, `ShutdownCompletes`), which needs fairness and `ENABLED` and is out of
the prover's reach.  That the sequential loops end is stated as what each step uses up
instead, and proved for all sizes: `CallsDoAdvance`, `RoundsDoConsume`, and
`HoldersDoAdvance` for the part of `GetReturns` that holds the mutex.  What is left is that
the scheduler goes on taking steps and that one is possible.

The type invariants of `Engine`, `WAL`, `KWayMerge` and `Node` are theorems for all
constants, and no run repeats them.

## 5. Not modelled, and what is open

Every safety property and every action property of a passing run is also a theorem.
Open: `EngineIsMap` for files of several tiers, for the groups that `RunHeads` may pick
there without passing an unlinked file (with others it is false); and the step from
`ReplicaMatchesLog` to what `Cluster` takes a replica for, as a refinement.

Left out: metrics, the command-line client but for its calls, generated protocol code,
the inspection helper and deployment files (no state that any code reads back); the WAL's
buffer pool; file sizes; keys that equal bytes of a Bloom filter; leaked temporary files
and iterators; failures of `ReadDir` and of opening an existing SSTable inside Open; the
inside of HashiCorp Raft; Delete's answer when the engine fails; whether a joining node ever
finds the seed leading (the code promises nothing: it asks one address for ever).

Modelled in one place and left out in another: files that ScanAll cannot open or read are in
`Replica` (event `scan`), not in `Engine`; the readers that Close closes inside a Purge, and
the Gets that go on with them, are in `Replica` (`PurgeClose`) and their workers in
`Lifecycle`, not in `Engine`, whose Close ends the process; a read error in Recover is in
`WAL`, and one in an SSTable in `SSTable`, not in `Engine`, where they would make Get miss
keys of any table; writes and reads that a leader serves itself are in `Cluster`, not among
the requests of `Node`, which are those that share the leader connection (GracefulStop waits
for both alike).
