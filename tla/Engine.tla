------------------------------- MODULE Engine -------------------------------
(***************************************************************************)
(* The StrataGo storage engine: engine/stratago.go, engine/flush.go and    *)
(* engine/compaction.go.  Clients write through the WAL into the active    *)
(* memtable; the flush worker rotates memtable and WAL and turns the       *)
(* immutable memtable into an SSTable; the compaction worker merges        *)
(* SSTables; Close runs a last Flush of its own; a crash leaves the disk   *)
(* and Open rebuilds the engine from it.                                   *)
(*                                                                         *)
(* One step is one critical section of db.mu, or one file operation        *)
(* outside it.  A memtable, a WAL file and an SSTable are maps from keys   *)
(* to cells (the WAL: the map wal.Recover returns for it).  The slice      *)
(* db.sstReaders is a function on slots; the order of slots is the order   *)
(* of the slice.                                                           *)
(***************************************************************************)
EXTENDS Naturals, FiniteSets

CONSTANTS
    Keys, Values,
    Absent,               \* the table has no entry for the key
    Nil,                  \* a nil value: a tombstone, or "not found"
    Empty,                \* a zero-length value that is not nil
    None,                 \* no immutable memtable, no wal.log.flushing
    MemtableThreshold,    \* DefaultMemtableThreshold, in abstract bytes
    CompactionThreshold,  \* CompactionThreshold
    Tiers,                \* the tiers getTier may give the files
    Events,               \* what the environment does in this instance
    MaxWrites, MaxStops   \* bounds on client writes, and on crashes and Closes

(***************************************************************************)
(* Events the environment may produce.  close: main calls Close.  tick:    *)
(* the compaction ticker fires.  crash: the process is killed; torn: a     *)
(* write in flight at that moment leaves a partial record.  The others are *)
(* failures of one I/O call: the WAL write (walio), the WAL rotation       *)
(* (rotate) and the attempt to undo it (rename), building an SSTable       *)
(* (build), opening the new SSTable (open), reading it back (verify),      *)
(* merging (merge), opening the merged SSTable (reopen), opening           *)
(* wal.log.flushing in Open (openlog) and recovering it (recover).         *)
(***************************************************************************)
AllEvents == {"close", "tick", "crash", "torn", "walio", "rotate", "rename",
              "build", "open", "verify", "merge", "reopen", "openlog", "recover"}

Cells == Values \cup {Nil, Empty, Absent}
Table == [Keys -> Cells]
FileTable == [Keys -> Cells \ {Nil}]

ASSUME ConstantsAssumption ==
    /\ IsFiniteSet(Keys)
    /\ Absent # Nil /\ Absent # Empty /\ Nil # Empty
    /\ Values \cap {Absent, Nil, Empty} = {}
    /\ None \notin Table
    /\ MemtableThreshold \in Nat
    /\ CompactionThreshold \in Nat \ {0, 1}
    /\ Tiers # {}
    /\ Events \subseteq AllEvents
    /\ MaxWrites \in Nat /\ MaxStops \in Nat

VARIABLES
    mode,              \* "up", "down", "relogged" (inside Open) or "panicked"
    closed,            \* db.closed
    flushChan,         \* db.flushChan holds a signal
    activeMemtable, immutableMemtable, sstReaders,
    walOpen,           \* the file behind db.wal is open
    wal, walTorn,      \* wal.log: recoverable records; a broken record follows
    flushing,          \* wal.log.flushing
    sstFiles,          \* data_<path>.sst: path -> contents
    flusher,           \* the Flush calls of the flush worker and of Close
    compactor,         \* the RunCompaction call of the compaction worker
    closedFds,         \* files behind Readers that were closed
    clock,             \* source of time stamps, slots and file handles
    writes, stops,     \* counters for the bounds
    acked, pending, written  \* history: what clients were told and asked for

memory == <<activeMemtable, immutableMemtable, sstReaders, walOpen>>
disk == <<wal, walTorn, flushing, sstFiles>>
workers == <<flusher, compactor, closedFds, clock>>
control == <<mode, closed, flushChan, stops>>
history == <<acked, pending, written, writes>>
vars == <<memory, disk, workers, control, history>>

EmptyTable == [k \in Keys |-> Absent]

\* Files store a value as its length and its bytes: nil is read back as [].
OnDisk(t) == [k \in Keys |-> IF t[k] = Nil THEN Empty ELSE t[k]]

\* The entries of new laid over those of old, as a later Put does.
Overlay(old, new) == [k \in Keys |-> IF new[k] = Absent THEN old[k] ELSE new[k]]

Entries(t) == {k \in Keys : t[k] # Absent}

\* SkipList.SizeBytes with keys and non-empty values of one byte each.
SizeBytes(t) == Cardinality(Entries(t)) + Cardinality({k \in Keys : t[k] \in Values})

\* The entry for k in the newest member of files that has one.
Newest(files, k) ==
    LET S == {s \in DOMAIN files : files[s].data[k] # Absent}
    IN  IF S = {} THEN Absent
        ELSE files[CHOOSE s \in S : \A t \in S : t <= s].data[k]

\* Get: a nil memtable value and a zero-length SSTable value are "not found";
\* a zero-length memtable value is found.
Get(k) ==
    IF activeMemtable[k] # Absent THEN activeMemtable[k]
    ELSE IF immutableMemtable # None /\ immutableMemtable[k] # Absent
         THEN immutableMemtable[k]
    ELSE IF Newest(sstReaders, k) \in {Absent, Empty} THEN Nil
    ELSE Newest(sstReaders, k)

\* Readers whose path can still be opened.
Statable == {s \in DOMAIN sstReaders : sstReaders[s].path \in DOMAIN sstFiles}
FilesAt(S) == [s \in S |-> sstFiles[sstReaders[s].path]]

\* Mutant of ScanAll: the immutable memtable is laid over the active one.
ScanAllSwapsMemtables ==
    [k \in Keys |->
        LET mem == IF immutableMemtable = None THEN activeMemtable
                   ELSE Overlay(activeMemtable, immutableMemtable)
            c == IF mem[k] # Absent THEN mem[k] ELSE Newest(FilesAt(Statable), k)
        IN  IF c \in {Nil, Empty, Absent} THEN Nil ELSE c]

\* ScanAll opens every SSTable again by its path, skips the ones that are not
\* there, and drops nil and zero-length values.  That it also skips what it
\* cannot open or read is the event "scan" of Replica.
ScanAll ==
    [k \in Keys |->
        LET mem == IF immutableMemtable = None THEN activeMemtable
                   ELSE Overlay(immutableMemtable, activeMemtable)
            c == IF mem[k] # Absent THEN mem[k] ELSE Newest(FilesAt(Statable), k)
        IN  IF c \in {Nil, Empty, Absent} THEN Nil ELSE c]

Idle == [pc |-> "idle", path |-> 0, table |-> EmptyTable]
NoJob == [pc |-> "idle", group |-> [s \in {} |-> 0], merged |-> EmptyTable]

Init ==
    /\ mode = "up" /\ closed = FALSE /\ flushChan = FALSE /\ stops = 0
    /\ activeMemtable = EmptyTable /\ immutableMemtable = None
    /\ sstReaders = [s \in {} |-> 0] /\ walOpen = TRUE
    /\ wal = EmptyTable /\ walTorn = FALSE /\ flushing = None
    /\ sstFiles = [p \in {} |-> 0]
    /\ flusher = [f \in {"worker", "closer"} |-> Idle]
    /\ compactor = NoJob /\ closedFds = {} /\ clock = 1
    /\ acked = [k \in Keys |-> Nil] /\ pending = [k \in Keys |-> {}]
    /\ written = [k \in Keys |-> {}] /\ writes = 0

-----------------------------------------------------------------------------
(* Writers *)

\* Records behind a broken one are out of Recover's reach.
WriteEntries(t) == wal' = IF walTorn THEN wal ELSE Overlay(wal, OnDisk(t))

Record(k, c) == [EmptyTable EXCEPT ![k] = c]

NeedsFlush(t) == SizeBytes(t) >= MemtableThreshold

\* Mutant of WriteSucceeds: the size is read before the memtable grows.
WriteSignalsEarly(k, c) ==
    /\ walOpen /\ WriteEntries(Record(k, c))
    /\ activeMemtable' = [activeMemtable EXCEPT ![k] = c]
    /\ flushChan' = (flushChan \/ NeedsFlush(activeMemtable))
    /\ acked' = [acked EXCEPT ![k] = c] /\ pending' = [pending EXCEPT ![k] = {}]
    /\ UNCHANGED walTorn

\* The WAL accepted the record: apply it to the memtable, signal the flush
\* worker if the memtable is large (a pending signal absorbs the new one).
WriteSucceeds(k, c) ==
    /\ walOpen
    /\ WriteEntries(Record(k, c))
    /\ activeMemtable' = [activeMemtable EXCEPT ![k] = c]
    /\ flushChan' = (flushChan \/ NeedsFlush(activeMemtable'))
    /\ acked' = [acked EXCEPT ![k] = c]
    /\ pending' = [pending EXCEPT ![k] = {}]
    /\ UNCHANGED walTorn

\* WriteEntry returned an error: the file got the record (Sync failed), part
\* of it, or nothing (always so when the file is closed).
WriteEntryFails(t) ==
    \/ UNCHANGED <<wal, walTorn>> /\ (~walOpen \/ "walio" \in Events)
    \/ /\ walOpen /\ "walio" \in Events
       /\ \/ WriteEntries(t) /\ UNCHANGED walTorn
          \/ walTorn' = TRUE /\ UNCHANGED wal

WriteFails(k, c) ==
    /\ WriteEntryFails(Record(k, c))
    /\ pending' = [pending EXCEPT ![k] = @ \cup {c}]
    /\ UNCHANGED <<activeMemtable, flushChan, acked>>

Write(k, c) ==
    /\ mode = "up" /\ ~closed /\ writes < MaxWrites
    /\ WriteSucceeds(k, c) \/ WriteFails(k, c)
    /\ writes' = writes + 1
    /\ written' = [written EXCEPT ![k] = @ \cup {c}]
    /\ UNCHANGED <<mode, closed, stops, immutableMemtable, sstReaders, walOpen,
                   flushing, sstFiles, workers>>

Put(k, v) == Write(k, v)

Delete(k) == Write(k, Nil)

-----------------------------------------------------------------------------
(* Flush, called by the flush worker and by Close *)

\* All memory is lost and the disk stays as it is.
Stop(m) ==
    /\ mode' = m /\ closed' = FALSE /\ flushChan' = FALSE
    /\ activeMemtable' = EmptyTable /\ immutableMemtable' = None
    /\ sstReaders' = [s \in {} |-> 0] /\ walOpen' = FALSE
    /\ flusher' = [f \in {"worker", "closer"} |-> Idle]
    /\ compactor' = NoJob /\ closedFds' = {}

\* A nil *SkipList is dereferenced and the process dies.
Panic == Stop("panicked") /\ UNCHANGED <<disk, clock, stops, history>>

At(f, pc) == mode = "up" /\ flusher[f].pc = pc
Goto(f, pc) == flusher' = [flusher EXCEPT ![f].pc = pc]

\* Flush returns; the worker waits for the next signal, Close looks at err.
Return(f, err) ==
    flusher' = [flusher EXCEPT ![f] =
        IF f = "worker" THEN Idle
        ELSE [Idle EXCEPT !.pc = IF err THEN "erred" ELSE "returned"]]

WorkerReceive ==
    /\ At("worker", "idle") /\ flushChan
    /\ flushChan' = FALSE
    /\ Goto("worker", "start")
    /\ UNCHANGED <<memory, disk, compactor, closedFds, clock, mode, closed, stops, history>>

\* Mutants of Rotate: the old WAL is dropped at once; it is kept in place.
RotateDropsWAL ==
    /\ immutableMemtable' = activeMemtable /\ activeMemtable' = EmptyTable
    /\ wal' = EmptyTable /\ walTorn' = FALSE /\ UNCHANGED <<flushing, walOpen>>

RotateKeepsWAL ==
    /\ immutableMemtable' = activeMemtable /\ activeMemtable' = EmptyTable
    /\ flushing' = wal /\ UNCHANGED <<wal, walTorn, walOpen>>

\* Memtable and WAL change places under db.mu.
Rotate ==
    /\ immutableMemtable' = activeMemtable /\ activeMemtable' = EmptyTable
    /\ flushing' = wal
    /\ wal' = EmptyTable /\ walTorn' = FALSE
    /\ UNCHANGED walOpen

\* Closing, renaming or recreating wal.log failed: the memtables are put
\* back, but db.wal is left with a closed file.  If it was the recreation,
\* the rename was undone, and what it had overwritten is gone; or undoing it
\* failed as well, which nobody notices, and wal.log is missing.
RotateFails ==
    /\ \/ ~walOpen /\ UNCHANGED <<flushing, wal, walTorn>>
       \/ /\ "rotate" \in Events /\ walOpen /\ flushing' \in {flushing, None}
          /\ UNCHANGED <<wal, walTorn>>
       \/ /\ "rename" \in Events /\ walOpen
          /\ flushing' = wal /\ wal' = EmptyTable /\ walTorn' = FALSE
    /\ walOpen' = FALSE
    /\ UNCHANGED <<activeMemtable, immutableMemtable>>

\* Mutant of FlushBegin: no early return when there is nothing to flush.
FlushBeginAlways(f) ==
    /\ At(f, "start")
    /\ \/ /\ activeMemtable # EmptyTable /\ immutableMemtable = None /\ walOpen
          /\ Rotate
       \/ /\ activeMemtable = EmptyTable \/ immutableMemtable # None
          /\ UNCHANGED <<activeMemtable, immutableMemtable, walOpen, wal, walTorn, flushing>>
    /\ Goto(f, "rotated")
    /\ UNCHANGED <<sstReaders, sstFiles, compactor, closedFds, clock, control, history>>

FlushBegin(f) ==
    /\ At(f, "start")
    /\ \/ /\ activeMemtable = EmptyTable /\ immutableMemtable = None
          /\ Return(f, FALSE)
          /\ UNCHANGED <<memory, disk>>
       \/ /\ immutableMemtable # None
          /\ Goto(f, "rotated")
          /\ UNCHANGED <<memory, disk>>
       \/ /\ activeMemtable # EmptyTable /\ immutableMemtable = None
          /\ \/ walOpen /\ Rotate /\ Goto(f, "rotated")
             \/ RotateFails /\ Return(f, TRUE)
          /\ UNCHANGED <<sstReaders, sstFiles>>
    /\ UNCHANGED <<compactor, closedFds, clock, control, history>>

\* Pick the file name and read db.immutableMemtable without db.mu.
FlushCapture(f) ==
    /\ At(f, "rotated")
    /\ IF immutableMemtable = None THEN Panic
       ELSE /\ flusher' = [flusher EXCEPT ![f] =
                  [pc |-> "building", path |-> clock, table |-> immutableMemtable]]
            /\ clock' = clock + 1
            /\ UNCHANGED <<memory, disk, compactor, closedFds, control, history>>

\* The builder renames its complete temporary file to its final name.
FlushBuild(f) ==
    /\ At(f, "building")
    /\ \/ /\ \E t \in Tiers : sstFiles' =
                 [p \in DOMAIN sstFiles \cup {flusher[f].path} |->
                     IF p = flusher[f].path
                     THEN [data |-> OnDisk(flusher[f].table), tier |-> t]
                     ELSE sstFiles[p]]
          /\ Goto(f, "built")
       \/ /\ "build" \in Events
          /\ Goto(f, "failed")
          /\ UNCHANGED sstFiles
    /\ UNCHANGED <<memory, wal, walTorn, flushing, compactor, closedFds, clock, control, history>>

Without(files, p) == [q \in DOMAIN files \ {p} |-> files[q]]

\* NewReader, ReadAll and the comparison with db.immutableMemtable.Size.
FlushVerify(f) ==
    /\ At(f, "built")
    /\ \/ /\ "open" \in Events
          /\ Return(f, TRUE)
          /\ UNCHANGED <<memory, disk, compactor, closedFds, clock, control, history>>
       \/ /\ immutableMemtable = None
          /\ Panic
       \/ /\ immutableMemtable # None
          /\ Cardinality(Entries(immutableMemtable)) = Cardinality(Entries(flusher[f].table))
          /\ Goto(f, "verified")
          /\ UNCHANGED <<memory, disk, compactor, closedFds, clock, control, history>>
       \/ /\ \/ "verify" \in Events
             \/ /\ immutableMemtable # None
                /\ Cardinality(Entries(immutableMemtable)) # Cardinality(Entries(flusher[f].table))
          /\ Goto(f, "failed")
          /\ sstFiles' = Without(sstFiles, flusher[f].path)
          /\ UNCHANGED <<memory, wal, walTorn, flushing, compactor, closedFds, clock, control, history>>

\* Under db.mu the SSTable takes the place of the immutable memtable.
FlushPublish(f) ==
    /\ At(f, "verified")
    /\ sstReaders' = [s \in DOMAIN sstReaders \cup {clock} |->
           IF s = clock THEN [fd |-> clock, path |-> flusher[f].path,
                              data |-> OnDisk(flusher[f].table)]
           ELSE sstReaders[s]]
    /\ immutableMemtable' = None
    /\ clock' = clock + 1
    /\ Goto(f, "published")
    /\ UNCHANGED <<activeMemtable, walOpen, disk, compactor, closedFds, control, history>>

FlushCleanup(f) ==
    /\ At(f, "published")
    /\ flushing' = None
    /\ Return(f, FALSE)
    /\ UNCHANGED <<memory, wal, walTorn, sstFiles, compactor, closedFds, clock, control, history>>

\* recoverFromFlushFailure takes an iterator over the immutable memtable,
FlushRecover(f) ==
    /\ At(f, "failed")
    /\ IF immutableMemtable = None THEN Panic
       ELSE /\ flusher' = [flusher EXCEPT ![f].pc = "relogging", ![f].table = immutableMemtable]
            /\ UNCHANGED <<memory, disk, compactor, closedFds, clock, control, history>>

\* appends its entries to the current WAL (errors are only printed),
FlushRelog(f) ==
    /\ At(f, "relogging")
    /\ \E k \in Entries(flusher[f].table) :
          /\ LET entry == Record(k, flusher[f].table[k])
             IN  WriteEntryFails(entry) \/ (walOpen /\ WriteEntries(entry) /\ UNCHANGED walTorn)
          /\ flusher' = [flusher EXCEPT ![f].table[k] = Absent]
    /\ UNCHANGED <<memory, flushing, sstFiles, compactor, closedFds, clock, control, history>>

\* and drops the memtable.
FlushDrop(f) ==
    /\ At(f, "relogging") /\ Entries(flusher[f].table) = {}
    /\ immutableMemtable' = None
    /\ Return(f, TRUE)
    /\ UNCHANGED <<activeMemtable, sstReaders, walOpen, disk, compactor, closedFds, clock,
                   control, history>>

Flush(f) ==
    \/ FlushBegin(f) \/ FlushCapture(f) \/ FlushBuild(f) \/ FlushVerify(f)
    \/ FlushPublish(f) \/ FlushCleanup(f)
    \/ FlushRecover(f) \/ FlushRelog(f) \/ FlushDrop(f)

-----------------------------------------------------------------------------
(* Compaction *)

Tier(s) == sstFiles[sstReaders[s].path].tier

\* The first CompactionThreshold members of a run of readers of one tier.
\* Readers whose file is gone neither join a run nor end one.
RunHeads ==
    {W \in SUBSET Statable :
        /\ Cardinality(W) = CompactionThreshold
        /\ \A s, t \in W : Tier(s) = Tier(t)
        /\ \A u \in Statable : (\E s, t \in W : s < u /\ u < t) => u \in W
        /\ \A u \in Statable : (\A s \in W : u < s) =>
               \E x \in Statable : u <= x /\ \A s \in W : x < s /\ Tier(x) # Tier(s)}

\* selectFilesForCompaction returns the first such group (or none).
selectFilesForCompaction ==
    {W \in RunHeads : \A V \in RunHeads : \E s \in W : \A t \in V : s <= t}

\* Mutants of Merge: the oldest file wins; every key gets the value buffer
\* of one of them.
MergeOldestWins(files) ==
    [k \in Keys |->
        LET S == {s \in DOMAIN files : files[s].data[k] # Absent}
        IN  IF S = {} THEN Absent
            ELSE files[CHOOSE s \in S : \A t \in S : s <= t].data[k]]

MergeReusesBuffer(files) ==
    [k \in Keys |-> Newest(files, CHOOSE j \in Keys : Newest(files, j) # Absent)]

\* sstable.Merge: one entry per key, from the newest file that has the key.
Merge(files) == [k \in Keys |-> Newest(files, k)]

Oldest(S) == CHOOSE s \in S : \A t \in S : s <= t
Latest(S) == CHOOSE s \in S : \A t \in S : t <= s

CompactSelect ==
    /\ mode = "up" /\ compactor.pc = "idle" /\ "tick" \in Events
    /\ \E W \in selectFilesForCompaction :
           compactor' = [pc |-> "merging", group |-> [s \in W |-> sstReaders[s]],
                         merged |-> Merge(FilesAt(W))]
    /\ UNCHANGED <<memory, disk, flusher, closedFds, clock, control, history>>

\* The merged file is named after the newest file of the group.
MergedPath == compactor.group[Latest(DOMAIN compactor.group)].path

CompactMerge ==
    /\ mode = "up" /\ compactor.pc = "merging"
    /\ \/ /\ \E t \in Tiers : sstFiles' =
                 [p \in DOMAIN sstFiles \cup {MergedPath} |->
                     IF p = MergedPath THEN [data |-> compactor.merged, tier |-> t]
                     ELSE sstFiles[p]]
          /\ compactor' = [compactor EXCEPT !.pc = "built"]
       \/ "merge" \in Events /\ compactor' = NoJob /\ UNCHANGED sstFiles
    /\ UNCHANGED <<memory, wal, walTorn, flushing, flusher, closedFds, clock, control, history>>

\* Mutant of Rebuild: the other compacted readers stay in the slice.
RebuildKeepsOld(reader) ==
    LET first == CHOOSE s \in DOMAIN compactor.group :
                     \A t \in DOMAIN compactor.group : s <= t
    IN  [s \in DOMAIN sstReaders |-> IF s = first THEN reader ELSE sstReaders[s]]

\* The merged reader goes where the first compacted reader was.
Rebuild(reader) ==
    LET fds == {compactor.group[s].fd : s \in DOMAIN compactor.group}
        compacted == {s \in DOMAIN sstReaders : sstReaders[s].fd \in fds}
        first == Oldest(compacted)
    IN  [s \in (DOMAIN sstReaders \ compacted) \cup {first} |->
            IF s = first THEN reader ELSE sstReaders[s]]

CompactSwap ==
    /\ mode = "up" /\ compactor.pc = "built"
    /\ \/ /\ sstReaders' = Rebuild([fd |-> clock, path |-> MergedPath,
                                    data |-> compactor.merged])
          /\ clock' = clock + 1
          /\ compactor' = [compactor EXCEPT !.pc = "deleting"]
       \/ "reopen" \in Events /\ compactor' = NoJob /\ UNCHANGED <<sstReaders, clock>>
    /\ UNCHANGED <<activeMemtable, immutableMemtable, walOpen, disk, flusher, closedFds,
                   control, history>>

\* Close and remove the compacted files one by one, the oldest first.
CompactDelete ==
    /\ mode = "up" /\ compactor.pc = "deleting"
    /\ LET s == Oldest(DOMAIN compactor.group)
           r == compactor.group[s]
           rest == Without(compactor.group, s)
       IN  /\ closedFds' = closedFds \cup {r.fd}
           /\ sstFiles' = Without(sstFiles, r.path)
           /\ compactor' = IF DOMAIN rest = {} THEN NoJob
                           ELSE [compactor EXCEPT !.group = rest]
    /\ UNCHANGED <<memory, wal, walTorn, flushing, flusher, clock, control, history>>

Compaction == CompactSelect \/ CompactMerge \/ CompactSwap \/ CompactDelete

-----------------------------------------------------------------------------
(* Close, crash and Open *)

CloseBegin ==
    /\ mode = "up" /\ ~closed /\ "close" \in Events /\ stops < MaxStops
    /\ closed' = TRUE /\ stops' = stops + 1
    /\ Goto("closer", "start")
    /\ UNCHANGED <<memory, disk, compactor, closedFds, clock, mode, flushChan, history>>

CloseDrain ==
    /\ At("closer", "returned")
    /\ flushChan' = FALSE
    /\ Goto("closer", "drained")
    /\ UNCHANGED <<memory, disk, compactor, closedFds, clock, mode, closed, stops, history>>

\* Mutant of CloseEnd: wg.Wait comes before close(db.closeChan), so that the
\* compaction worker never returns.
CloseEndWaitsFirst ==
    /\ At("closer", "erred") /\ Stop("down")
    /\ UNCHANGED <<disk, clock, stops, history>>

\* wg.Wait, close the files, and main returns; or main reports Flush's error.
\* What Get answers after a Close inside Purge is PurgeClose of Replica.
CloseEnd ==
    /\ mode = "up"
    /\ \/ flusher["closer"].pc = "erred"
       \/ /\ flusher["closer"].pc = "drained"
          /\ flusher["worker"].pc = "idle" /\ compactor.pc = "idle"
    /\ Stop("down")
    /\ UNCHANGED <<disk, clock, stops, history>>

\* The process is killed, perhaps inside WriteEntry.
Crash ==
    /\ mode \in {"up", "relogged"} /\ "crash" \in Events /\ stops < MaxStops
    /\ stops' = stops + 1
    /\ Stop("down")
    /\ \/ UNCHANGED <<wal, walTorn, pending, written, writes>>
       \/ /\ mode = "up" /\ walOpen /\ ~closed /\ writes < MaxWrites
          /\ writes' = writes + 1
          /\ \E k \in Keys, c \in Values \cup {Nil} :
                /\ pending' = [pending EXCEPT ![k] = @ \cup {c}]
                /\ written' = [written EXCEPT ![k] = @ \cup {c}]
                /\ \/ WriteEntries(Record(k, c)) /\ UNCHANGED walTorn
                   \/ "torn" \in Events /\ walTorn' = TRUE /\ UNCHANGED wal
    /\ UNCHANGED <<flushing, sstFiles, clock, acked>>

\* Open finds wal.log.flushing and appends its entries to wal.log and to the
\* new memtable; a crash may leave only some of them appended.
OpenRelog ==
    /\ mode \in {"down", "panicked"} /\ flushing # None
    /\ \/ /\ WriteEntries(flushing)
          /\ mode' = "relogged" /\ activeMemtable' = flushing
          /\ UNCHANGED stops
       \/ /\ "crash" \in Events /\ stops < MaxStops /\ stops' = stops + 1
          /\ \E K \in SUBSET Entries(flushing) :
                WriteEntries([k \in Keys |-> IF k \in K THEN flushing[k] ELSE Absent])
          /\ mode' = "down" /\ UNCHANGED activeMemtable
       \/ /\ "recover" \in Events  \* Recover failed: nothing is restored
          /\ mode' = "relogged"
          /\ UNCHANGED <<wal, activeMemtable, stops>>
    /\ UNCHANGED <<immutableMemtable, sstReaders, walOpen, walTorn, flushing, sstFiles,
                   workers, closed, flushChan, history>>

\* Remove wal.log.flushing, unless it could not be opened, recover wal.log over
\* the memtable, truncate its broken tail, open the SSTables in the order of
\* their time stamps.
OpenFinish ==
    /\ \/ mode = "relogged" /\ flushing' = None
       \/ /\ mode \in {"down", "panicked"} /\ UNCHANGED flushing
          /\ flushing = None \/ "openlog" \in Events
    /\ mode' = "up" /\ walOpen' = TRUE /\ walTorn' = FALSE
    /\ activeMemtable' = Overlay(activeMemtable, wal)
    /\ sstReaders' = [p \in DOMAIN sstFiles |->
           [fd |-> p, path |-> p, data |-> sstFiles[p].data]]
    /\ UNCHANGED <<immutableMemtable, wal, sstFiles, workers, closed, flushChan, stops,
                   history>>

-----------------------------------------------------------------------------

Next ==
    \/ \E k \in Keys : Delete(k) \/ \E v \in Values : Put(k, v)
    \/ WorkerReceive
    \/ Flush("worker") \/ Flush("closer")
    \/ Compaction
    \/ CloseBegin \/ CloseDrain \/ CloseEnd
    \/ Crash \/ OpenRelog \/ OpenFinish

Spec == Init /\ [][Next]_vars

\* The Go scheduler lets every goroutine that can take a step take it in the
\* end: the flush worker, the compaction job under way, and main in Close.
\* Nothing makes clients write, the ticker fire, Close be called or files fail.
FairSpec ==
    /\ Spec
    /\ WF_vars(WorkerReceive) /\ WF_vars(Flush("worker")) /\ WF_vars(Flush("closer"))
    /\ WF_vars(CompactMerge \/ CompactSwap \/ CompactDelete)
    /\ WF_vars(CloseDrain) /\ WF_vars(CloseEnd)

-----------------------------------------------------------------------------
(* Properties *)

Stamps == 0 .. clock - 1
Reader == [fd : Stamps, path : Stamps, data : FileTable]
File == [data : FileTable, tier : Tiers]
FlushPcs == {"idle", "start", "rotated", "building", "built", "verified", "published",
             "failed", "relogging", "returned", "drained", "erred"}

\* The variables of the engine have their types; a compaction under way has
\* files, and every time stamp, slot and file handle is older than the clock.
TypeOK ==
    /\ mode \in {"up", "down", "relogged", "panicked"}
    /\ closed \in BOOLEAN /\ flushChan \in BOOLEAN
    /\ activeMemtable \in Table /\ immutableMemtable \in Table \cup {None}
    /\ DOMAIN sstReaders \subseteq Stamps /\ sstReaders \in [DOMAIN sstReaders -> Reader]
    /\ walOpen \in BOOLEAN /\ walTorn \in BOOLEAN
    /\ wal \in FileTable /\ flushing \in FileTable \cup {None}
    /\ DOMAIN sstFiles \subseteq Stamps /\ sstFiles \in [DOMAIN sstFiles -> File]
    /\ flusher \in [{"worker", "closer"} -> [pc : FlushPcs, path : Stamps, table : Table]]
    /\ compactor = [pc |-> compactor.pc, group |-> compactor.group, merged |-> compactor.merged]
    /\ compactor.pc \in {"idle", "merging", "built", "deleting"}
    /\ compactor.pc # "idle" => DOMAIN compactor.group # {}
    /\ DOMAIN compactor.group \subseteq Stamps
    /\ compactor.group \in [DOMAIN compactor.group -> Reader]
    /\ compactor.merged \in FileTable
    /\ closedFds \subseteq Stamps
    /\ clock \in Nat \ {0} /\ writes \in Nat /\ stops \in Nat
    /\ acked \in [Keys -> Values \cup {Nil}]
    /\ pending \in [Keys -> SUBSET (Values \cup {Nil})]
    /\ written \in [Keys -> SUBSET (Values \cup {Nil})]

\* Readers served to Get are open: RunCompaction closes a Reader only after it
\* left db.sstReaders (a closed one would answer "not found" without an error).
ReadersOpen == \A s \in DOMAIN sstReaders : sstReaders[s].fd \notin closedFds

\* Whatever fails or crashes, Get answers with something a client wrote to that
\* very key: tables are never mixed up by flush, merge or recovery.
NothingInvented ==
    mode = "up" => \A k \in Keys : Get(k) \in written[k] \cup {Nil, Empty}

\* What Put and Get together promise while the process runs: a write takes effect
\* at once and in its own key, or fails without a trace, and no step that is not
\* a write (rotation, publication of an SSTable, swap and removal of compacted
\* files, failed or not) changes the answer for any key.
KV == INSTANCE KVStore WITH store <- [k \in Keys |-> Get(k)], calls <- writes
ImplementsKVStore == KV!Spec

\* Get answers with the last acknowledged write, and a failed one is never seen:
\* no rotation, publication, merge or swap, failed or not, brings an older value
\* or a deleted key back.
ReadsLastAcked == mode = "up" => \A k \in Keys : Get(k) = acked[k]

\* Flush uses db.immutableMemtable without db.mu (flush.go:67); only Close, with
\* a Flush of its own, can take the memtable away from the flush worker.
PanicsOnlyInClose == [][mode # "panicked" /\ mode' = "panicked" => closed]_vars

\* Everything in the memtables is recoverable from the WAL files: wal.log has
\* the active memtable, wal.log.flushing the immutable one.
MemoryDurable ==
    mode = "up" =>
        /\ wal = OnDisk(activeMemtable)
        /\ immutableMemtable # None => flushing = OnDisk(immutableMemtable)

\* A key that was only ever put to one value, and whose Put was acknowledged,
\* has that value whenever the engine is up: across flushes, crashes inside a
\* flush or inside Open, and restarts.
StableKeysSurvive ==
    mode = "up" => \A k \in Keys :
        acked[k] # Nil /\ written[k] = {acked[k]} => Get(k) = acked[k]

\* Until the first restart the files hold every acknowledged write, at every
\* instant at which a crash may come: a key's last write is in wal.log, else in
\* wal.log.flushing, else in the newest SSTable that has the key.
AckedOnDisk ==
    stops = 0 => \A k \in Keys :
        LET logged == IF flushing = None THEN wal ELSE Overlay(flushing, wal)
            c == IF logged[k] # Absent THEN logged[k] ELSE Newest(sstFiles, k)
        IN  (IF c \in {Empty, Absent} THEN Nil ELSE c) = acked[k]

\* The flush signal is never lost: an active memtable that reached the threshold
\* is rotated out in the end, although a send on the full channel is ignored.
\* (After a restart a large recovered memtable waits for the next write.)
LargeMemtableFlushed ==
    (stops = 0 /\ NeedsFlush(activeMemtable)) ~> ~NeedsFlush(activeMemtable)

\* Close comes to an end: its Flush, wg.Wait and the workers it waits for
\* do not wait for each other.
CloseTerminates == closed ~> mode # "up"

\* A value recovered as [] is the tombstone it was logged as.
Answer(k) == IF Get(k) = Empty THEN Nil ELSE Get(k)

\* flush.go says of recoverFromFlushFailure "flush failed, data preserved", and
\* compaction.go that the merged file is put in its place "to preserve
\* time-series order": Get answers with the last acknowledged write of the key,
\* or with one whose outcome the client does not know.
LatestWriteRead == mode = "up" => \A k \in Keys : Answer(k) \in {acked[k]} \cup pending[k]

\* README.md: the engine "Features a Write-Ahead Log for crash recovery": what
\* Open rebuilds has every key at its last acknowledged write.
LatestWriteRecovered ==
    mode = "up" /\ stops > 0 => \A k \in Keys : Answer(k) \in {acked[k]} \cup pending[k]

\* stratago.go says "Delete marks a key as deleted": Get never finds a key
\* that it answers with the zero-length value no client has put.
DeletedNotFound == mode = "up" => \A k \in Keys : Get(k) # Empty

\* stratago.go says "ScanAll captures a point-in-time snapshot of the entire
\* database state": between any two steps of a flush, and after recovery, it
\* agrees with Get.  (After a compaction it does not: the path of the merged
\* file is gone.)
ScanComplete == mode = "up" /\ ~closed => \A k \in Keys : ScanAll[k] = Answer(k)

\* main.go says "safely close the storage engine": Flush never dereferences the
\* immutable memtable that another Flush has taken away.
NoPanic == mode # "panicked"
=============================================================================
