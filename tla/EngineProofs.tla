---------------------------- MODULE EngineProofs ----------------------------
(***************************************************************************)
(* What is proved of the storage engine for all keys, values, thresholds,  *)
(* tiers and bounds.                                                       *)
(***************************************************************************)
EXTENDS Engine, Integers, TLAPS, WellFoundedInduction, FiniteSetTheorems

-----------------------------------------------------------------------------
(* The first and the last slot of a set of slots *)

\* A non-empty set of slots has a first one.
LEMMA FirstExists ==
    ASSUME NEW S, S \subseteq Nat, S # {}
    PROVE  \E x \in S : \A y \in S : x <= y
<1> DEFINE R == {ss \in Nat \X Nat : ss[1] < ss[2]}
<1>1. IsWellFoundedOn(R, Nat)
  BY NatLessThanWellFounded DEF OpToRel
<1>2. PICK x \in S : \A y \in S : ~ (<<y, x>> \in R)
  BY <1>1, WFMin
<1>3. ASSUME NEW y \in S PROVE x <= y
  <2>1. <<y, x>> \in Nat \X Nat /\ <<y, x>>[1] = y /\ <<y, x>>[2] = x
    OBVIOUS
  <2>2. ~ (y < x)
    BY <1>2, <2>1
  <2> QED
    BY <2>2
<1> QED
  BY <1>3

\* A non-empty set of slots below the clock has a last one.
LEMMA LastExists ==
    ASSUME NEW n \in Nat, NEW S, S \subseteq 0 .. n, S # {}
    PROVE  \E x \in S : \A y \in S : y <= x
<1> DEFINE D == {n - s : s \in S}
<1>1. \A s \in S : n - s \in Nat
  OBVIOUS
<1>2. D \subseteq Nat /\ D # {}
  BY <1>1
<1>3. PICK d \in D : \A e \in D : d <= e
  BY <1>2, FirstExists
<1>4. PICK x \in S : d = n - x
  OBVIOUS
<1>5. \A y \in S : n - x <= n - y
  BY <1>3, <1>4
<1> QED
  BY <1>5

LEMMA OldestIsFirst ==
    ASSUME NEW S, S \subseteq Nat, S # {}
    PROVE  Oldest(S) \in S /\ \A t \in S : Oldest(S) <= t
BY FirstExists DEF Oldest

LEMMA LatestIsLast ==
    ASSUME NEW n \in Nat, NEW S, S \subseteq 0 .. n, S # {}
    PROVE  Latest(S) \in S /\ \A t \in S : t <= Latest(S)
BY LastExists DEF Latest

-----------------------------------------------------------------------------
(* Tables *)

LEMMA TableTypes ==
    /\ FileTable \subseteq Table
    /\ EmptyTable \in FileTable
    /\ \A t \in Table : OnDisk(t) \in FileTable
    /\ \A s, t \in Table : Overlay(s, t) \in Table
    /\ \A s, t \in FileTable : Overlay(s, t) \in FileTable
    /\ \A k \in Keys, c \in Cells : Record(k, c) \in Table
<1> USE ConstantsAssumption DEF Table, FileTable, Cells
<1>1. FileTable \subseteq Table /\ EmptyTable \in FileTable
  BY DEF EmptyTable
<1>2. \A t \in Table : OnDisk(t) \in FileTable
  BY DEF OnDisk
<1>3. \A s, t \in Table : Overlay(s, t) \in Table
  BY DEF Overlay
<1>4. \A s, t \in FileTable : Overlay(s, t) \in FileTable
  BY DEF Overlay
<1>5. \A k \in Keys, c \in Cells : Record(k, c) \in Table
  BY DEF Record, EmptyTable
<1> QED
  BY <1>1, <1>2, <1>3, <1>4, <1>5

\* What a set of SSTables answers for a key is a cell of one of them.
LEMMA NewestType ==
    ASSUME NEW n \in Nat, NEW files, DOMAIN files \subseteq 0 .. n,
           \A s \in DOMAIN files : files[s].data \in FileTable,
           NEW k \in Keys
    PROVE  Newest(files, k) \in Cells \ {Nil}
<1> DEFINE S == {s \in DOMAIN files : files[s].data[k] # Absent}
<1>1. CASE S = {}
  BY <1>1, ConstantsAssumption DEF Newest, Cells
<1>2. CASE S # {}
  <2>1. S \subseteq 0 .. n
    OBVIOUS
  <2>2. \E x \in S : \A y \in S : y <= x
    BY <1>2, <2>1, LastExists
  <2>3. (CHOOSE s \in S : \A t \in S : t <= s) \in S
    BY <2>2
  <2>4. \A s \in S : files[s].data[k] \in Cells \ {Nil}
    BY DEF FileTable
  <2> QED
    BY <1>2, <2>3, <2>4 DEF Newest
<1> QED
  BY <1>1, <1>2

\* c is what the newest of the files that have k holds for it.
IsNewest(files, k, c) ==
    \/ c = Absent /\ \A s \in DOMAIN files : files[s].data[k] = Absent
    \/ \E s \in DOMAIN files : /\ files[s].data[k] = c /\ c # Absent
                               /\ \A t \in DOMAIN files : t > s => files[t].data[k] = Absent

\* The search through the readers from the last to the first finds just that.
LEMMA NewestIs ==
    ASSUME NEW n \in Nat, NEW files, DOMAIN files \subseteq 0 .. n, NEW k
    PROVE  /\ IsNewest(files, k, Newest(files, k))
           /\ \A c : IsNewest(files, k, c) => Newest(files, k) = c
<1> DEFINE S == {s \in DOMAIN files : files[s].data[k] # Absent}
           x == CHOOSE s \in S : \A t \in S : t <= s
<1>1. \A s \in DOMAIN files : s \in Nat
  OBVIOUS
<1>2. Newest(files, k) = IF S = {} THEN Absent ELSE files[x].data[k]
  BY DEF Newest
<1>3. S # {} => x \in S /\ \A t \in S : t <= x
  <2>1. S \subseteq 0 .. n
    OBVIOUS
  <2>2. S # {} => \E y \in S : \A t \in S : t <= y
    BY <2>1, LastExists
  <2> QED
    BY <2>2
<1> HIDE DEF x
<1>4. IsNewest(files, k, Newest(files, k))
  <2>1. CASE S = {}
    BY <1>2, <2>1 DEF IsNewest
  <2>2. CASE S # {}
    <3>1. x \in DOMAIN files /\ files[x].data[k] # Absent
      BY <1>3, <2>2
    <3>2. ASSUME NEW t \in DOMAIN files, t > x PROVE files[t].data[k] = Absent
      BY <1>1, <1>3, <2>2, <3>1, <3>2
    <3> QED
      BY <1>2, <2>2, <3>1, <3>2 DEF IsNewest
  <2> QED
    BY <2>1, <2>2
<1>5. ASSUME NEW c, IsNewest(files, k, c) PROVE Newest(files, k) = c
  <2>1. CASE \A s \in DOMAIN files : files[s].data[k] = Absent
    BY <1>2, <1>5, <2>1 DEF IsNewest
  <2>2. CASE \E s \in DOMAIN files : /\ files[s].data[k] = c /\ c # Absent
                                     /\ \A t \in DOMAIN files : t > s => files[t].data[k] = Absent
    <3>1. PICK s \in DOMAIN files : /\ files[s].data[k] = c /\ c # Absent
                                    /\ \A t \in DOMAIN files : t > s => files[t].data[k] = Absent
      BY <2>2
    <3>2. s \in S /\ x \in S /\ s <= x
      BY <1>3, <3>1
    <3>3. ~(x > s) /\ x \in Nat /\ s \in Nat
      BY <1>1, <3>1, <3>2
    <3>4. x = s
      BY <3>2, <3>3
    <3> QED
      BY <1>2, <3>1, <3>2, <3>4
  <2> QED
    BY <1>5, <2>1, <2>2 DEF IsNewest
<1> QED
  BY <1>4, <1>5

\* more has one file besides those of files, and its time stamp is the latest.
Adds(files, p, more, n) ==
    /\ n \in Nat /\ DOMAIN files \subseteq 0 .. n /\ p \in 0 .. n
    /\ \A q \in DOMAIN files : q < p
    /\ DOMAIN more = DOMAIN files \cup {p}
    /\ \A q \in DOMAIN files : more[q] = files[q]

\* That file decides for the keys it has.
LEMMA NewestAdded ==
    ASSUME NEW files, NEW p, NEW more, NEW n, Adds(files, p, more, n), NEW k
    PROVE  Newest(more, k) = IF more[p].data[k] # Absent THEN more[p].data[k] ELSE Newest(files, k)
<1> USE DEF Adds
<1>1. DOMAIN more \subseteq 0 .. n /\ \A q \in DOMAIN more : q \in Nat
  OBVIOUS
<1>2. CASE more[p].data[k] # Absent
  <2>1. \A t \in DOMAIN more : ~(t > p)
    BY <1>1
  <2>2. IsNewest(more, k, more[p].data[k])
    BY <1>2, <2>1 DEF IsNewest
  <2> QED
    BY <1>1, <1>2, <2>2, NewestIs
<1>3. CASE more[p].data[k] = Absent
  <2>1. IsNewest(files, k, Newest(files, k))
    BY NewestIs
  <2>2. IsNewest(more, k, Newest(files, k))
    BY <1>3, <2>1 DEF IsNewest
  <2> QED
    BY <1>1, <1>3, <2>2, NewestIs
<1> QED
  BY <1>2, <1>3

-----------------------------------------------------------------------------
(* The process that stopped has left no worker behind *)

Flushers == {"worker", "closer"}

\* Outside a running process there are no readers and no work under way.
Quiet ==
    mode # "up" => /\ compactor = NoJob /\ closedFds = {} /\ DOMAIN sstReaders = {}
                   /\ flusher = [f \in Flushers |-> Idle]
                   /\ immutableMemtable = None /\ closed = FALSE
                   /\ mode # "relogged" => activeMemtable = EmptyTable

LEMMA StopQuiet == ASSUME NEW m \in {"down", "panicked"}, Stop(m) PROVE Quiet'
BY DEF Stop, Quiet, Flushers

LEMMA QuietStep == ASSUME Quiet, [Next]_vars PROVE Quiet'
<1>1. CASE UNCHANGED vars
  BY <1>1 DEF vars, memory, disk, workers, control, history, Quiet
<1>2. ASSUME NEW k \in Keys, NEW c, Write(k, c) PROVE Quiet'
  BY <1>2 DEF Write, Quiet
<1>3. CASE WorkerReceive
  BY <1>3 DEF WorkerReceive, At, Quiet
<1>4. ASSUME NEW f \in Flushers, Flush(f) PROVE Quiet'
  <2>1. CASE Panic
    BY <2>1, StopQuiet DEF Panic
  <2>2. CASE mode' = "up"
    BY <2>2 DEF Quiet
  <2> QED
    BY <1>4, <2>1, <2>2
    DEF Flush, FlushBegin, FlushCapture, FlushBuild, FlushVerify, FlushPublish, FlushCleanup,
        FlushRecover, FlushRelog, FlushDrop, At, control
<1>5. CASE Compaction
  BY <1>5 DEF Compaction, CompactSelect, CompactMerge, CompactSwap, CompactDelete, control, Quiet
<1>6. CASE CloseBegin \/ CloseDrain
  BY <1>6 DEF CloseBegin, CloseDrain, At, Quiet
<1>7. CASE CloseEnd \/ Crash
  BY <1>7, StopQuiet DEF CloseEnd, Crash
<1>8. CASE OpenRelog
  BY <1>8 DEF OpenRelog, workers, Quiet
<1>9. CASE OpenFinish
  BY <1>9 DEF OpenFinish, Quiet
<1> QED
  BY <1>1, <1>2, <1>3, <1>4, <1>5, <1>6, <1>7, <1>8, <1>9
  DEF Next, Put, Delete, Flushers

LEMMA QuietAlways == Spec => []Quiet
<1>1. Init => Quiet
  BY DEF Init, Quiet
<1> QED
  BY <1>1, QuietStep, PTL DEF Spec

-----------------------------------------------------------------------------
(* Type correctness *)

\* A compaction that has not swapped its files in still finds them where it
\* picked them: nothing else takes a reader out of db.sstReaders.
GroupServed ==
    compactor.pc \in {"merging", "built"} =>
        \A s \in DOMAIN compactor.group :
            s \in DOMAIN sstReaders /\ sstReaders[s] = compactor.group[s]

TypeInv == TypeOK /\ GroupServed

LEMMA TypeInit == Init => TypeInv
<1> SUFFICES ASSUME Init PROVE TypeInv
  OBVIOUS
<1>1. EmptyTable \in Table /\ EmptyTable \in FileTable
  BY TableTypes
<1>2. /\ sstReaders \in [DOMAIN sstReaders -> Reader] /\ DOMAIN sstReaders = {}
      /\ sstFiles \in [DOMAIN sstFiles -> File] /\ DOMAIN sstFiles = {}
  BY DEF Init
<1>3. flusher \in [{"worker", "closer"} -> [pc : FlushPcs, path : Stamps, table : Table]]
  BY <1>1 DEF Init, Idle, FlushPcs, Stamps
<1>4. /\ compactor = [pc |-> compactor.pc, group |-> compactor.group, merged |-> compactor.merged]
      /\ compactor.pc = "idle" /\ DOMAIN compactor.group = {}
      /\ compactor.group \in [DOMAIN compactor.group -> Reader]
      /\ compactor.merged \in FileTable
  BY <1>1 DEF Init, NoJob
<1>5. /\ acked \in [Keys -> Values \cup {Nil}]
      /\ pending \in [Keys -> SUBSET (Values \cup {Nil})]
      /\ written \in [Keys -> SUBSET (Values \cup {Nil})]
  BY DEF Init
<1>6. GroupServed
  BY <1>4 DEF GroupServed
<1>7. closed \in BOOLEAN /\ flushChan \in BOOLEAN /\ walOpen \in BOOLEAN /\ walTorn \in BOOLEAN
  BY DEF Init
<1>8. /\ mode \in {"up", "down", "relogged", "panicked"}
      /\ activeMemtable \in Table /\ immutableMemtable \in Table \cup {None}
      /\ wal \in FileTable /\ flushing \in FileTable \cup {None}
      /\ clock \in Nat \ {0} /\ writes \in Nat /\ stops \in Nat /\ closedFds = {}
  BY <1>1 DEF Init
<1> QED
  BY <1>2, <1>3, <1>4, <1>5, <1>6, <1>7, <1>8 DEF TypeInv, TypeOK

LEMMA WriteType ==
    ASSUME TypeInv, NEW k \in Keys, NEW c \in Values \cup {Nil}, Write(k, c)
    PROVE  TypeInv'
<1> DEFINE t == Record(k, c)
<1>1. t \in Table /\ c \in Cells
  BY TableTypes DEF Cells
<1>2. OnDisk(t) \in FileTable
  BY <1>1, TableTypes
<1>3. Overlay(wal, OnDisk(t)) \in FileTable
  BY <1>2, TableTypes DEF TypeInv, TypeOK
<1>4. wal' \in FileTable /\ walTorn' \in BOOLEAN
  BY <1>3 DEF Write, WriteSucceeds, WriteFails, WriteEntryFails, WriteEntries, TypeInv, TypeOK
<1>5. activeMemtable' \in Table /\ flushChan' \in BOOLEAN
  BY <1>1 DEF Write, WriteSucceeds, WriteFails, TypeInv, TypeOK, Table
<1>6. /\ acked' \in [Keys -> Values \cup {Nil}]
      /\ pending' \in [Keys -> SUBSET (Values \cup {Nil})]
      /\ written' \in [Keys -> SUBSET (Values \cup {Nil})]
  BY DEF Write, WriteSucceeds, WriteFails, TypeInv, TypeOK
<1> QED
  BY <1>4, <1>5, <1>6 DEF Write, workers, TypeInv, TypeOK, GroupServed, Stamps, Reader, File

\* Stop resets the memory to values of the right types.
LEMMA StopType ==
    ASSUME TypeInv, NEW m \in {"down", "panicked"}, Stop(m), clock' = clock
    PROVE  /\ mode' \in {"up", "down", "relogged", "panicked"}
           /\ closed' \in BOOLEAN /\ flushChan' \in BOOLEAN
           /\ activeMemtable' \in Table /\ (immutableMemtable' \in Table \cup {None})
           /\ DOMAIN sstReaders' = {} /\ sstReaders' \in [DOMAIN sstReaders' -> Reader']
           /\ walOpen' \in BOOLEAN
           /\ (flusher \in [{"worker", "closer"} -> [pc : FlushPcs, path : Stamps, table : Table]])'
           /\ (compactor = [pc |-> compactor.pc, group |-> compactor.group,
                            merged |-> compactor.merged])'
           /\ compactor'.pc = "idle" /\ DOMAIN compactor'.group = {}
           /\ compactor'.group \in [DOMAIN compactor'.group -> Reader']
           /\ compactor'.merged \in FileTable
           /\ closedFds' = {}
<1>1. EmptyTable \in Table /\ EmptyTable \in FileTable
  BY TableTypes
<1>2. 0 \in Stamps'
  BY DEF TypeInv, TypeOK, Stamps
<1>3. (flusher \in [{"worker", "closer"} -> [pc : FlushPcs, path : Stamps, table : Table]])'
  BY <1>1, <1>2 DEF Stop, Idle, FlushPcs
<1>4. /\ (compactor = [pc |-> compactor.pc, group |-> compactor.group,
                         merged |-> compactor.merged])'
      /\ compactor'.pc = "idle" /\ DOMAIN compactor'.group = {}
      /\ compactor'.group \in [DOMAIN compactor'.group -> Reader']
      /\ compactor'.merged \in FileTable
  BY <1>1 DEF Stop, NoJob
<1> QED
  BY <1>1, <1>3, <1>4 DEF Stop

LEMMA PanicType == ASSUME TypeInv, Panic PROVE TypeInv'
<1>1. Stop("panicked") /\ clock' = clock
  BY DEF Panic
<1> QED
  BY <1>1, StopType DEF Panic, disk, history, TypeInv, TypeOK, GroupServed, Stamps, File

FlusherOK == flusher \in [Flushers -> [pc : FlushPcs, path : Stamps, table : Table]]

LEMMA GotoType ==
    ASSUME TypeInv, NEW f \in Flushers, NEW pc \in FlushPcs, Goto(f, pc)
    PROVE  flusher' \in [Flushers -> [pc : FlushPcs, path : Stamps, table : Table]]
BY DEF TypeInv, TypeOK, Goto, Flushers

LEMMA ReturnType ==
    ASSUME TypeInv, NEW f \in Flushers, NEW err \in BOOLEAN, Return(f, err)
    PROVE  flusher' \in [Flushers -> [pc : FlushPcs, path : Stamps, table : Table]]
<1>1. Idle \in [pc : FlushPcs, path : Stamps, table : Table]
  BY TableTypes DEF Idle, FlushPcs, Stamps, TypeInv, TypeOK
<1>2. [Idle EXCEPT !.pc = IF err THEN "erred" ELSE "returned"]
          \in [pc : FlushPcs, path : Stamps, table : Table]
  BY <1>1 DEF FlushPcs
<1> QED
  BY <1>1, <1>2 DEF TypeInv, TypeOK, Return, Flushers

\* A step that only moves a flusher keeps all types.
LEMMA FlusherOnly ==
    ASSUME TypeInv,
           flusher' \in [Flushers -> [pc : FlushPcs, path : Stamps, table : Table]],
           UNCHANGED <<memory, disk, compactor, closedFds, clock, control, history>>
    PROVE  TypeInv'
BY DEF memory, disk, control, history, TypeInv, TypeOK, GroupServed, Stamps, Reader, File, Flushers

LEMMA FlushBeginType ==
    ASSUME TypeInv, NEW f \in Flushers, FlushBegin(f)
    PROVE  TypeInv'
<1>1. flusher' \in [Flushers -> [pc : FlushPcs, path : Stamps, table : Table]]
  BY GotoType, ReturnType DEF FlushBegin, FlushPcs
<1>2. CASE UNCHANGED <<memory, disk>>
  BY <1>1, <1>2, FlusherOnly DEF FlushBegin
<1>3. CASE walOpen /\ Rotate /\ UNCHANGED <<sstReaders, sstFiles>>
  <2>1. activeMemtable' \in Table /\ (immutableMemtable' \in Table \cup {None})
    BY <1>3, TableTypes DEF Rotate, TypeInv, TypeOK
  <2>2. wal' \in FileTable /\ (flushing' \in FileTable \cup {None})
    BY <1>3, TableTypes DEF Rotate, TypeInv, TypeOK
  <2>3. walOpen' \in BOOLEAN /\ walTorn' \in BOOLEAN
    BY <1>3 DEF Rotate, TypeInv, TypeOK
  <2> QED
    BY <1>1, <1>3, <2>1, <2>2, <2>3
    DEF FlushBegin, control, history, TypeInv, TypeOK, GroupServed, Stamps, Reader, File, Flushers
<1>4. CASE RotateFails /\ UNCHANGED <<sstReaders, sstFiles>>
  <2>1. (flushing' \in FileTable \cup {None})
    BY <1>4 DEF RotateFails, TypeInv, TypeOK
  <2>2. walOpen' \in BOOLEAN /\ walTorn' \in BOOLEAN /\ wal' \in FileTable
    BY <1>4, TableTypes DEF RotateFails, TypeInv, TypeOK
  <2> QED
    BY <1>1, <1>4, <2>1, <2>2
    DEF RotateFails, FlushBegin, control, history, TypeInv, TypeOK, GroupServed, Stamps, Reader,
        File, Flushers
<1> QED
  BY <1>2, <1>3, <1>4 DEF FlushBegin

\* Every stamp handed out stays below the clock.
LEMMA ClockTicks ==
    ASSUME TypeInv, clock' = clock + 1
    PROVE  /\ clock \in Nat \ {0} /\ clock' \in Nat \ {0}
           /\ Stamps \subseteq Stamps' /\ clock \in Stamps' /\ clock \notin Stamps
           /\ Reader \subseteq Reader'
<1>1. clock \in Nat \ {0}
  BY DEF TypeInv, TypeOK
<1>2. Stamps \subseteq Stamps' /\ clock \in Stamps' /\ clock \notin Stamps
  BY <1>1 DEF Stamps
<1>3. clock' \in Nat \ {0}
  BY <1>1
<1>4. Reader \subseteq Reader'
  BY <1>2 DEF Reader
<1> QED
  BY <1>1, <1>2, <1>3, <1>4

LEMMA FlushCaptureType ==
    ASSUME TypeInv, NEW f \in Flushers, FlushCapture(f)
    PROVE  TypeInv'
<1>1. CASE immutableMemtable = None
  BY <1>1, PanicType DEF FlushCapture
<1>2. CASE immutableMemtable # None
  <2>1. clock' = clock + 1
    BY <1>2 DEF FlushCapture
  <2>2. /\ clock' \in Nat \ {0} /\ Stamps \subseteq Stamps' /\ clock \in Stamps'
        /\ Reader \subseteq Reader'
    BY <2>1, ClockTicks
  <2>3. FlusherOK'
    <3> DEFINE r == [pc |-> "building", path |-> clock, table |-> immutableMemtable]
    <3>1. r \in [pc : FlushPcs, path : Stamps', table : Table]
      BY <1>2, <2>2 DEF TypeInv, TypeOK, FlushPcs
    <3>2. flusher' = [flusher EXCEPT ![f] = r]
      BY <1>2 DEF FlushCapture
    <3>3. flusher \in [Flushers -> [pc : FlushPcs, path : Stamps', table : Table]]
      BY <2>2 DEF TypeInv, TypeOK, Flushers
    <3> QED
      BY <3>1, <3>2, <3>3 DEF FlusherOK
  <2>4. /\ DOMAIN sstReaders' \subseteq Stamps' /\ sstReaders' \in [DOMAIN sstReaders' -> Reader']
        /\ DOMAIN sstFiles' \subseteq Stamps' /\ sstFiles' \in [DOMAIN sstFiles' -> File]
    BY <1>2, <2>2 DEF FlushCapture, memory, disk, TypeInv, TypeOK
  <2>5. /\ DOMAIN compactor'.group \subseteq Stamps'
        /\ compactor'.group \in [DOMAIN compactor'.group -> Reader']
        /\ closedFds' \subseteq Stamps'
    BY <1>2, <2>2 DEF FlushCapture, TypeInv, TypeOK
  <2> QED
    BY <1>2, <2>2, <2>3, <2>4, <2>5
    DEF FlushCapture, memory, disk, control, history, TypeInv, TypeOK, GroupServed, File, FlusherOK,
        Flushers
<1> QED
  BY <1>1, <1>2

\* The builder puts a well-typed file under its final name.
LEMMA FileAdded ==
    ASSUME TypeInv, NEW path \in Stamps, NEW data \in FileTable, NEW t \in Tiers, clock' = clock,
           sstFiles' = [p \in DOMAIN sstFiles \cup {path} |->
                           IF p = path THEN [data |-> data, tier |-> t] ELSE sstFiles[p]]
    PROVE  DOMAIN sstFiles' \subseteq Stamps' /\ sstFiles' \in [DOMAIN sstFiles' -> File]
<1>1. [data |-> data, tier |-> t] \in File
  BY DEF File
<1> QED
  BY <1>1 DEF TypeInv, TypeOK, Stamps

LEMMA FileRemoved ==
    ASSUME TypeInv, NEW p, clock' = clock, sstFiles' = Without(sstFiles, p)
    PROVE  DOMAIN sstFiles' \subseteq Stamps' /\ sstFiles' \in [DOMAIN sstFiles' -> File]
BY DEF Without, TypeInv, TypeOK, Stamps

LEMMA FlushBuildType ==
    ASSUME TypeInv, NEW f \in Flushers, FlushBuild(f)
    PROVE  TypeInv'
<1>1. flusher' \in [Flushers -> [pc : FlushPcs, path : Stamps, table : Table]]
  BY GotoType DEF FlushBuild, FlushPcs
<1>2. flusher[f].path \in Stamps /\ OnDisk(flusher[f].table) \in FileTable
  BY TableTypes DEF TypeInv, TypeOK, Flushers
<1>3. DOMAIN sstFiles' \subseteq Stamps' /\ sstFiles' \in [DOMAIN sstFiles' -> File]
  <2>1. CASE UNCHANGED sstFiles
    BY <2>1 DEF FlushBuild, TypeInv, TypeOK, Stamps
  <2>2. CASE ~ UNCHANGED sstFiles
    BY <2>2, <1>2, FileAdded DEF FlushBuild
  <2> QED
    BY <2>1, <2>2
<1> QED
  BY <1>1, <1>3
  DEF FlushBuild, memory, control, history, TypeInv, TypeOK, GroupServed, Stamps, Reader, File,
      Flushers

LEMMA FlushVerifyType ==
    ASSUME TypeInv, NEW f \in Flushers, FlushVerify(f)
    PROVE  TypeInv'
<1>1. CASE Panic
  BY <1>1, PanicType
<1>2. CASE /\ Return(f, TRUE) \/ Goto(f, "verified")
           /\ UNCHANGED <<memory, disk, compactor, closedFds, clock, control, history>>
  <2>1. flusher' \in [Flushers -> [pc : FlushPcs, path : Stamps, table : Table]]
    BY <1>2, GotoType, ReturnType DEF FlushPcs
  <2> QED
    BY <1>2, <2>1, FlusherOnly
<1>3. CASE /\ Goto(f, "failed")
           /\ sstFiles' = Without(sstFiles, flusher[f].path)
           /\ UNCHANGED <<memory, wal, walTorn, flushing, compactor, closedFds, clock, control,
                         history>>
  <2>1. flusher' \in [Flushers -> [pc : FlushPcs, path : Stamps, table : Table]]
    BY <1>3, GotoType DEF FlushPcs
  <2>2. DOMAIN sstFiles' \subseteq Stamps' /\ sstFiles' \in [DOMAIN sstFiles' -> File]
    BY <1>3, FileRemoved
  <2> QED
    BY <1>3, <2>1, <2>2
    DEF memory, control, history, TypeInv, TypeOK, GroupServed, Stamps, Reader, File, Flushers
<1> QED
  BY <1>1, <1>2, <1>3 DEF FlushVerify

LEMMA FlushPublishType ==
    ASSUME TypeInv, NEW f \in Flushers, FlushPublish(f)
    PROVE  TypeInv'
<1>1. clock' = clock + 1
  BY DEF FlushPublish
<1>2. FlusherOK'
  <2>1. flusher' \in [Flushers -> [pc : FlushPcs, path : Stamps, table : Table]]
    BY GotoType DEF FlushPublish, FlushPcs
  <2> QED
    BY <1>1, <2>1, ClockTicks DEF FlusherOK
<1>3. DOMAIN sstReaders' \subseteq Stamps' /\ sstReaders' \in [DOMAIN sstReaders' -> Reader']
  <2> DEFINE r == [fd |-> clock, path |-> flusher[f].path, data |-> OnDisk(flusher[f].table)]
  <2>1. r \in Reader'
    BY <1>1, ClockTicks, TableTypes DEF Reader, TypeInv, TypeOK, Flushers
  <2>2. sstReaders \in [DOMAIN sstReaders -> Reader'] /\ DOMAIN sstReaders \subseteq Stamps'
    BY <1>1, ClockTicks DEF TypeInv, TypeOK
  <2>3. sstReaders' = [s \in DOMAIN sstReaders \cup {clock} |->
                          IF s = clock THEN r ELSE sstReaders[s]]
    BY DEF FlushPublish
  <2> QED
    BY <1>1, <2>1, <2>2, <2>3, ClockTicks
<1>4. GroupServed'
  <2>1. \A s \in DOMAIN sstReaders : s \in DOMAIN sstReaders' /\ sstReaders'[s] = sstReaders[s]
    BY <1>1, ClockTicks DEF FlushPublish, TypeInv, TypeOK
  <2> QED
    BY <2>1 DEF FlushPublish, TypeInv, GroupServed
<1>5. /\ DOMAIN sstFiles' \subseteq Stamps' /\ sstFiles' \in [DOMAIN sstFiles' -> File]
      /\ DOMAIN compactor'.group \subseteq Stamps'
      /\ compactor'.group \in [DOMAIN compactor'.group -> Reader']
      /\ closedFds' \subseteq Stamps'
  BY <1>1, ClockTicks DEF FlushPublish, disk, TypeInv, TypeOK
<1> QED
  BY <1>1, <1>2, <1>3, <1>4, <1>5, ClockTicks
  DEF FlushPublish, disk, control, history, TypeInv, TypeOK, FlusherOK, Flushers, File

LEMMA FlushCleanupType ==
    ASSUME TypeInv, NEW f \in Flushers, FlushCleanup(f)
    PROVE  TypeInv'
<1>1. flusher' \in [Flushers -> [pc : FlushPcs, path : Stamps, table : Table]]
  BY ReturnType DEF FlushCleanup
<1> QED
  BY <1>1
  DEF FlushCleanup, memory, control, history, TypeInv, TypeOK, GroupServed, Stamps, Reader, File,
      Flushers

LEMMA FlushRecoverType ==
    ASSUME TypeInv, NEW f \in Flushers, FlushRecover(f)
    PROVE  TypeInv'
<1>1. CASE immutableMemtable = None
  BY <1>1, PanicType DEF FlushRecover
<1>2. CASE immutableMemtable # None
  <2>1. flusher' \in [Flushers -> [pc : FlushPcs, path : Stamps, table : Table]]
    BY <1>2 DEF FlushRecover, TypeInv, TypeOK, FlushPcs, Flushers
  <2> QED
    BY <1>2, <2>1, FlusherOnly DEF FlushRecover
<1> QED
  BY <1>1, <1>2

LEMMA FlushRelogType ==
    ASSUME TypeInv, NEW f \in Flushers, FlushRelog(f)
    PROVE  TypeInv'
<1>1. PICK k \in Entries(flusher[f].table) :
          /\ \/ WriteEntryFails(Record(k, flusher[f].table[k]))
             \/ walOpen /\ WriteEntries(Record(k, flusher[f].table[k])) /\ UNCHANGED walTorn
          /\ flusher' = [flusher EXCEPT ![f].table[k] = Absent]
  BY DEF FlushRelog
<1>2. k \in Keys /\ flusher[f].table \in Table
  BY DEF Entries, TypeInv, TypeOK, Flushers
<1>3. Record(k, flusher[f].table[k]) \in Table
  BY <1>2, TableTypes DEF Table
<1>4. Overlay(wal, OnDisk(Record(k, flusher[f].table[k]))) \in FileTable
  BY <1>3, TableTypes DEF TypeInv, TypeOK
<1>5. wal' \in FileTable /\ walTorn' \in BOOLEAN
  BY <1>1, <1>4 DEF WriteEntryFails, WriteEntries, TypeInv, TypeOK
<1>6. flusher' \in [Flushers -> [pc : FlushPcs, path : Stamps, table : Table]]
  <2>1. [flusher[f].table EXCEPT ![k] = Absent] \in Table
    BY <1>2 DEF Table, Cells
  <2>2. [flusher[f] EXCEPT !.table = [flusher[f].table EXCEPT ![k] = Absent]]
            \in [pc : FlushPcs, path : Stamps, table : Table]
    BY <2>1 DEF TypeInv, TypeOK, Flushers
  <2> QED
    BY <1>1, <2>2 DEF TypeInv, TypeOK, Flushers
<1> QED
  BY <1>5, <1>6
  DEF FlushRelog, memory, control, history, TypeInv, TypeOK, GroupServed, Stamps, Reader, File,
      Flushers

LEMMA FlushDropType ==
    ASSUME TypeInv, NEW f \in Flushers, FlushDrop(f)
    PROVE  TypeInv'
<1>1. flusher' \in [Flushers -> [pc : FlushPcs, path : Stamps, table : Table]]
  BY ReturnType DEF FlushDrop
<1> QED
  BY <1>1
  DEF FlushDrop, disk, control, history, TypeInv, TypeOK, GroupServed, Stamps, Reader, File,
      Flushers

LEMMA CompactSelectType ==
    ASSUME TypeInv, CompactSelect
    PROVE  TypeInv'
<1>1. PICK W \in selectFilesForCompaction :
          compactor' = [pc |-> "merging", group |-> [s \in W |-> sstReaders[s]],
                        merged |-> Merge(FilesAt(W))]
  BY DEF CompactSelect
<1>2. W \subseteq Statable /\ W \subseteq DOMAIN sstReaders /\ W # {}
  <2>1. W \subseteq Statable /\ Cardinality(W) = CompactionThreshold
    BY DEF selectFilesForCompaction, RunHeads
  <2>2. W # {}
    BY <2>1, FS_EmptySet, ConstantsAssumption
  <2> QED
    BY <2>1, <2>2 DEF Statable
<1>3. Merge(FilesAt(W)) \in FileTable
  <2> DEFINE files == FilesAt(W)
  <2>1. DOMAIN files = W /\ \A s \in W : files[s] = sstFiles[sstReaders[s].path]
    BY DEF FilesAt
  <2>2. \A s \in W : files[s].data \in FileTable
    BY <1>2, <2>1 DEF Statable, TypeInv, TypeOK, File
  <2>3. W \subseteq 0 .. clock /\ clock \in Nat
    BY <1>2 DEF TypeInv, TypeOK, Stamps
  <2>4. \A k \in Keys : Newest(files, k) \in Cells \ {Nil}
    BY <2>1, <2>2, <2>3, NewestType
  <2> QED
    BY <2>4 DEF Merge, FileTable
<1>4. /\ compactor'.pc = "merging" /\ compactor'.merged \in FileTable
      /\ DOMAIN compactor'.group = W
      /\ \A s \in W : compactor'.group[s] = sstReaders[s]
      /\ compactor' = [pc |-> compactor'.pc, group |-> compactor'.group,
                       merged |-> compactor'.merged]
      /\ compactor'.group \in [W -> Reader]
  BY <1>1, <1>2, <1>3 DEF TypeInv, TypeOK
<1>5. UNCHANGED <<memory, disk, flusher, closedFds, clock, control, history>>
  BY DEF CompactSelect
<1>6. GroupServed'
  BY <1>2, <1>4, <1>5 DEF GroupServed, memory
<1> QED
  BY <1>2, <1>4, <1>5, <1>6
  DEF memory, disk, control, history, TypeInv, TypeOK, Stamps, Reader, File

\* The name of the merged file is the name of a file of the group.
LEMMA MergedPathType ==
    ASSUME TypeInv, compactor.pc # "idle"
    PROVE  /\ Latest(DOMAIN compactor.group) \in DOMAIN compactor.group
           /\ MergedPath \in Stamps
<1>1. DOMAIN compactor.group \subseteq 0 .. clock /\ clock \in Nat
  BY DEF TypeInv, TypeOK, Stamps
<1>2. DOMAIN compactor.group # {}
  BY DEF TypeInv, TypeOK
<1>3. Latest(DOMAIN compactor.group) \in DOMAIN compactor.group
  BY <1>1, <1>2, LatestIsLast
<1> QED
  BY <1>3 DEF MergedPath, TypeInv, TypeOK, Reader

\* The compaction ends: its job is the empty one.
LEMMA NoJobType ==
    /\ NoJob = [pc |-> NoJob.pc, group |-> NoJob.group, merged |-> NoJob.merged]
    /\ NoJob.pc = "idle" /\ DOMAIN NoJob.group = {} /\ NoJob.merged \in FileTable
    /\ \A S : NoJob.group \in [DOMAIN NoJob.group -> S]
BY TableTypes DEF NoJob

LEMMA CompactMergeType ==
    ASSUME TypeInv, CompactMerge
    PROVE  TypeInv'
<1>1. clock' = clock /\ compactor.merged \in FileTable /\ MergedPath \in Stamps
  BY MergedPathType DEF CompactMerge, TypeInv, TypeOK
<1>2. DOMAIN sstFiles' \subseteq Stamps' /\ sstFiles' \in [DOMAIN sstFiles' -> File]
  <2>1. CASE UNCHANGED sstFiles
    BY <1>1, <2>1 DEF TypeInv, TypeOK, Stamps
  <2>2. CASE ~ UNCHANGED sstFiles
    BY <1>1, <2>2, FileAdded DEF CompactMerge
  <2> QED
    BY <2>1, <2>2
<1>3. CASE compactor' = [compactor EXCEPT !.pc = "built"]
  <2>1. /\ compactor' = [pc |-> "built", group |-> compactor.group, merged |-> compactor.merged]
        /\ compactor.pc = "merging"
    BY <1>3 DEF CompactMerge, TypeInv, TypeOK
  <2>2. /\ compactor'.pc = "built" /\ compactor'.group = compactor.group
        /\ compactor'.merged = compactor.merged
        /\ compactor' = [pc |-> compactor'.pc, group |-> compactor'.group,
                         merged |-> compactor'.merged]
    BY <2>1
  <2> QED
    BY <1>1, <1>2, <2>1, <2>2
    DEF CompactMerge, memory, control, history, TypeInv, TypeOK, GroupServed, Stamps, Reader, File
<1>4. CASE compactor' = NoJob
  BY <1>1, <1>2, <1>4, NoJobType
  DEF CompactMerge, memory, control, history, TypeInv, TypeOK, GroupServed, Stamps, Reader, File
<1> QED
  BY <1>3, <1>4 DEF CompactMerge

\* The readers Rebuild takes out, C, are those of the group, and the merged one
\* gets the slot of one of them.
LEMMA RebuildSlots ==
    ASSUME TypeInv, compactor.pc = "built", NEW reader
    PROVE  \E C \in SUBSET DOMAIN sstReaders : \E x \in C :
               /\ \A s \in DOMAIN sstReaders \ C : \A t \in DOMAIN compactor.group :
                      sstReaders[s].fd # compactor.group[t].fd
               /\ Rebuild(reader) = [s \in (DOMAIN sstReaders \ C) \cup {x} |->
                                        IF s = x THEN reader ELSE sstReaders[s]]
<1> DEFINE fds == {compactor.group[s].fd : s \in DOMAIN compactor.group}
           compacted == {s \in DOMAIN sstReaders : sstReaders[s].fd \in fds}
<1>1. DOMAIN compactor.group \subseteq compacted /\ DOMAIN compactor.group # {}
  BY DEF TypeInv, TypeOK, GroupServed
<1>2. compacted \subseteq Nat
  BY DEF TypeInv, TypeOK, Stamps
<1>3. Oldest(compacted) \in compacted
  BY <1>1, <1>2, OldestIsFirst
<1>4. Rebuild(reader) = [s \in (DOMAIN sstReaders \ compacted) \cup {Oldest(compacted)} |->
                            IF s = Oldest(compacted) THEN reader ELSE sstReaders[s]]
  BY DEF Rebuild
<1>5. \A s \in DOMAIN sstReaders \ compacted : \A t \in DOMAIN compactor.group :
          sstReaders[s].fd # compactor.group[t].fd
  OBVIOUS
<1>6. compacted \in SUBSET DOMAIN sstReaders
  OBVIOUS
<1> HIDE DEF compacted
<1> QED
  BY <1>3, <1>4, <1>5, <1>6

LEMMA CompactSwapType ==
    ASSUME TypeInv, CompactSwap
    PROVE  TypeInv'
<1>1. CASE compactor' = NoJob /\ UNCHANGED <<sstReaders, clock>>
  BY <1>1, NoJobType
  DEF CompactSwap, disk, control, history, TypeInv, TypeOK, GroupServed, Stamps, Reader, File
<1>2. CASE /\ sstReaders' = Rebuild([fd |-> clock, path |-> MergedPath, data |-> compactor.merged])
           /\ clock' = clock + 1
           /\ compactor' = [compactor EXCEPT !.pc = "deleting"]
  <2> DEFINE r == [fd |-> clock, path |-> MergedPath, data |-> compactor.merged]
  <2>1. r \in Reader'
    BY <1>2, ClockTicks, MergedPathType DEF CompactSwap, Reader, TypeInv, TypeOK
  <2>2. DOMAIN sstReaders' \subseteq Stamps' /\ sstReaders' \in [DOMAIN sstReaders' -> Reader']
    <3>1. sstReaders \in [DOMAIN sstReaders -> Reader'] /\ DOMAIN sstReaders \subseteq Stamps'
      BY <1>2, ClockTicks DEF TypeInv, TypeOK
    <3>2. compactor.pc = "built" /\ sstReaders' = Rebuild(r)
      BY <1>2 DEF CompactSwap
    <3> HIDE DEF r
    <3>3. PICK C \in SUBSET DOMAIN sstReaders : \E x \in C :
              /\ \A s \in DOMAIN sstReaders \ C : \A t \in DOMAIN compactor.group :
                     sstReaders[s].fd # compactor.group[t].fd
              /\ Rebuild(r) = [s \in (DOMAIN sstReaders \ C) \cup {x} |->
                                  IF s = x THEN r ELSE sstReaders[s]]
      BY <3>2, RebuildSlots
    <3> QED
      BY <2>1, <3>1, <3>2, <3>3
  <2>3. /\ compactor'.pc = "deleting" /\ compactor'.group = compactor.group
        /\ compactor'.merged = compactor.merged
        /\ compactor' = [pc |-> compactor'.pc, group |-> compactor'.group,
                         merged |-> compactor'.merged]
    <3>1. compactor' = [pc |-> "deleting", group |-> compactor.group, merged |-> compactor.merged]
      BY <1>2 DEF TypeInv, TypeOK
    <3> QED
      BY <3>1
  <2>4. /\ FlusherOK' /\ closedFds' \subseteq Stamps'
        /\ DOMAIN sstFiles' \subseteq Stamps' /\ sstFiles' \in [DOMAIN sstFiles' -> File]
        /\ DOMAIN compactor'.group \subseteq Stamps' /\ DOMAIN compactor'.group # {}
        /\ compactor'.group \in [DOMAIN compactor'.group -> Reader']
    BY <1>2, <2>3, ClockTicks DEF CompactSwap, disk, TypeInv, TypeOK, FlusherOK, Flushers
  <2> QED
    BY <1>2, <2>2, <2>3, <2>4, ClockTicks
    DEF CompactSwap, disk, control, history, TypeInv, TypeOK, GroupServed, FlusherOK, Flushers, File
<1> QED
  BY <1>1, <1>2 DEF CompactSwap

LEMMA CompactDeleteType ==
    ASSUME TypeInv, CompactDelete
    PROVE  TypeInv'
<1> DEFINE s == Oldest(DOMAIN compactor.group)
           rest == Without(compactor.group, s)
<1>1. s \in DOMAIN compactor.group
  <2>1. DOMAIN compactor.group \subseteq Nat /\ DOMAIN compactor.group # {}
    BY DEF CompactDelete, TypeInv, TypeOK, Stamps
  <2> QED
    BY <2>1, OldestIsFirst
<1>2. DOMAIN sstFiles' \subseteq Stamps' /\ sstFiles' \in [DOMAIN sstFiles' -> File]
  BY FileRemoved DEF CompactDelete
<1>3. closedFds' \subseteq Stamps'
  BY <1>1 DEF CompactDelete, TypeInv, TypeOK, Reader, Stamps
<1>4. CASE compactor' = NoJob
  BY <1>2, <1>3, <1>4, NoJobType
  DEF CompactDelete, memory, control, history, TypeInv, TypeOK, GroupServed, Stamps, Reader, File
<1>5. CASE DOMAIN rest # {} /\ compactor' = [compactor EXCEPT !.group = rest]
  <2>1. compactor' = [pc |-> "deleting", group |-> rest, merged |-> compactor.merged]
    BY <1>5 DEF CompactDelete, TypeInv, TypeOK
  <2>2. /\ compactor'.pc = "deleting" /\ compactor'.group = rest
        /\ compactor'.merged = compactor.merged
        /\ compactor' = [pc |-> compactor'.pc, group |-> compactor'.group,
                         merged |-> compactor'.merged]
    BY <2>1
  <2>3. DOMAIN rest \subseteq Stamps /\ rest \in [DOMAIN rest -> Reader]
    BY DEF Without, TypeInv, TypeOK
  <2> QED
    BY <1>2, <1>3, <1>5, <2>2, <2>3
    DEF CompactDelete, memory, control, history, TypeInv, TypeOK, GroupServed, Stamps, Reader, File
<1> QED
  BY <1>4, <1>5 DEF CompactDelete

LEMMA CloseType ==
    ASSUME TypeInv, CloseBegin \/ CloseDrain \/ CloseEnd
    PROVE  TypeInv'
<1>1. CASE CloseBegin
  <2>1. flusher' \in [Flushers -> [pc : FlushPcs, path : Stamps, table : Table]]
    BY <1>1, GotoType DEF CloseBegin, FlushPcs, Flushers
  <2>2. closed' \in BOOLEAN /\ stops' \in Nat
    BY <1>1 DEF CloseBegin, TypeInv, TypeOK
  <2> QED
    BY <1>1, <2>1, <2>2
    DEF CloseBegin, memory, disk, history, TypeInv, TypeOK, GroupServed, Stamps, Reader, File,
        Flushers
<1>2. CASE CloseDrain
  <2>1. flusher' \in [Flushers -> [pc : FlushPcs, path : Stamps, table : Table]]
    BY <1>2, GotoType DEF CloseDrain, FlushPcs, Flushers
  <2> QED
    BY <1>2, <2>1
    DEF CloseDrain, memory, disk, history, TypeInv, TypeOK, GroupServed, Stamps, Reader, File,
        Flushers
<1>3. CASE CloseEnd
  <2>1. Stop("down") /\ clock' = clock
    BY <1>3 DEF CloseEnd
  <2> QED
    BY <1>3, <2>1, StopType
    DEF CloseEnd, disk, history, TypeInv, TypeOK, GroupServed, Stamps, File
<1> QED
  BY <1>1, <1>2, <1>3

LEMMA WorkerReceiveType ==
    ASSUME TypeInv, WorkerReceive
    PROVE  TypeInv'
<1>1. flusher' \in [Flushers -> [pc : FlushPcs, path : Stamps, table : Table]]
  BY GotoType DEF WorkerReceive, FlushPcs, Flushers
<1> QED
  BY <1>1
  DEF WorkerReceive, memory, disk, history, TypeInv, TypeOK, GroupServed, Stamps, Reader, File,
      Flushers

LEMMA CrashType ==
    ASSUME TypeInv, Crash
    PROVE  TypeInv'
<1>1. Stop("down") /\ clock' = clock
  BY DEF Crash
<1>2. wal' \in FileTable /\ walTorn' \in BOOLEAN
  <2>1. ASSUME NEW k \in Keys, NEW c \in Values \cup {Nil}
        PROVE  Overlay(wal, OnDisk(Record(k, c))) \in FileTable
    BY TableTypes DEF Cells, TypeInv, TypeOK
  <2>2. CASE UNCHANGED <<wal, walTorn>>
    BY <2>2 DEF TypeInv, TypeOK
  <2>3. CASE \E k \in Keys, c \in Values \cup {Nil} :
                 \/ WriteEntries(Record(k, c)) /\ UNCHANGED walTorn
                 \/ walTorn' = TRUE /\ UNCHANGED wal
    <3>1. CASE walTorn' = TRUE /\ UNCHANGED wal
      BY <3>1 DEF TypeInv, TypeOK
    <3>2. CASE \E k \in Keys, c \in Values \cup {Nil} :
                   WriteEntries(Record(k, c)) /\ UNCHANGED walTorn
      BY <2>1, <3>2 DEF WriteEntries, TypeInv, TypeOK
    <3> QED
      BY <2>3, <3>1, <3>2
  <2> QED
    BY <2>2, <2>3 DEF Crash
<1>3. /\ pending' \in [Keys -> SUBSET (Values \cup {Nil})]
      /\ written' \in [Keys -> SUBSET (Values \cup {Nil})]
  BY DEF Crash, TypeInv, TypeOK
<1>4. writes' \in Nat /\ stops' \in Nat
  BY DEF Crash, TypeInv, TypeOK
<1> QED
  BY <1>1, <1>2, <1>3, <1>4, StopType
  DEF Crash, TypeInv, TypeOK, GroupServed, Stamps, File

LEMMA OpenRelogType ==
    ASSUME TypeInv, OpenRelog
    PROVE  TypeInv'
<1>1. flushing \in FileTable /\ flushing \in Table /\ wal \in FileTable
  BY TableTypes DEF OpenRelog, TypeInv, TypeOK
<1>2. ASSUME NEW K \in SUBSET Entries(flushing)
      PROVE  Overlay(wal, OnDisk([k \in Keys |-> IF k \in K THEN flushing[k] ELSE Absent]))
                 \in FileTable
  <2>1. [k \in Keys |-> IF k \in K THEN flushing[k] ELSE Absent] \in Table
    BY <1>1 DEF Table, Cells
  <2> QED
    BY <1>1, <2>1, TableTypes
<1>3. Overlay(wal, OnDisk(flushing)) \in FileTable
  BY <1>1, TableTypes
<1>4. wal' \in FileTable
  BY <1>1, <1>2, <1>3 DEF OpenRelog, WriteEntries
<1>5. activeMemtable' \in Table
  BY <1>1 DEF OpenRelog, TypeInv, TypeOK
<1>6. stops' \in Nat /\ mode' \in {"down", "relogged"}
  BY DEF OpenRelog, TypeInv, TypeOK
<1> QED
  BY <1>4, <1>5, <1>6
  DEF OpenRelog, workers, history, TypeInv, TypeOK, GroupServed, Stamps, Reader, File

LEMMA OpenFinishType ==
    ASSUME TypeInv, Quiet, OpenFinish
    PROVE  TypeInv'
<1>1. activeMemtable' \in Table
  BY TableTypes DEF OpenFinish, TypeInv, TypeOK
<1>2. clock' = clock /\ mode # "up"
  BY DEF OpenFinish, workers
<1>3. DOMAIN sstReaders' \subseteq Stamps' /\ sstReaders' \in [DOMAIN sstReaders' -> Reader']
  BY <1>2 DEF OpenFinish, TypeInv, TypeOK, Stamps, Reader, File
<1>4. walOpen' \in BOOLEAN /\ walTorn' \in BOOLEAN
  BY DEF OpenFinish
<1>5. GroupServed'
  BY <1>2 DEF OpenFinish, workers, GroupServed, Quiet, NoJob
<1> QED
  BY <1>1, <1>2, <1>3, <1>4, <1>5
  DEF OpenFinish, workers, history, TypeInv, TypeOK, Stamps, Reader, File

LEMMA TypeStep == ASSUME TypeInv, Quiet, [Next]_vars PROVE TypeInv'
<1>1. CASE UNCHANGED vars
  BY <1>1 DEF vars, memory, disk, workers, control, history, TypeInv, TypeOK, GroupServed, Stamps,
              Reader, File
<1>2. CASE \E k \in Keys : Delete(k) \/ \E v \in Values : Put(k, v)
  BY <1>2, WriteType DEF Put, Delete
<1>3. ASSUME NEW f \in Flushers, Flush(f) PROVE TypeInv'
  BY <1>3, FlushBeginType, FlushCaptureType, FlushBuildType, FlushVerifyType, FlushPublishType,
     FlushCleanupType, FlushRecoverType, FlushRelogType, FlushDropType DEF Flush
<1>4. CASE Compaction
  BY <1>4, CompactSelectType, CompactMergeType, CompactSwapType, CompactDeleteType DEF Compaction
<1> QED
  BY <1>1, <1>2, <1>3, <1>4, WorkerReceiveType, CloseType, CrashType, OpenRelogType, OpenFinishType
  DEF Next, Flushers

LEMMA TypeInvAlways == Spec => []TypeInv
BY TypeInit, TypeStep, QuietAlways, PTL DEF Spec

\* The engine of stratago.go, flush.go and compaction.go keeps its types under
\* every fault: in particular RunCompaction always finds the group it picked in
\* db.sstReaders when it comes to replace it (RebuildSlots).
THEOREM TypeCorrect == Spec => []TypeOK
<1>1. TypeInv => TypeOK
  BY DEF TypeInv
<1> QED
  BY <1>1, TypeInvAlways, PTL

-----------------------------------------------------------------------------
(* Readers *)

\* The inductive strengthening of ReadersOpen: the files a compaction is about
\* to close are no longer behind any reader.
FdInv ==
    /\ ReadersOpen
    /\ compactor.pc = "deleting" =>
           \A s \in DOMAIN compactor.group : \A t \in DOMAIN sstReaders :
               compactor.group[s].fd # sstReaders[t].fd

LEMMA FdStep == ASSUME TypeInv, Quiet, FdInv, [Next]_vars PROVE FdInv'
<1> USE DEF FdInv, ReadersOpen
<1>1. CASE UNCHANGED <<sstReaders, compactor, closedFds>>
  BY <1>1
<1>2. ASSUME NEW f \in Flushers, FlushPublish(f) PROVE FdInv'
  <2>1. \A s \in DOMAIN sstReaders' :
            IF s = clock THEN sstReaders'[s].fd = clock
            ELSE s \in DOMAIN sstReaders /\ sstReaders'[s] = sstReaders[s]
    BY <1>2 DEF FlushPublish
  <2>2. clock \notin closedFds
    BY DEF TypeInv, TypeOK, Stamps
  <2>3. \A s \in DOMAIN compactor.group : compactor.group[s].fd # clock
    BY DEF TypeInv, TypeOK, Stamps, Reader
  <2> QED
    BY <1>2, <2>1, <2>2, <2>3 DEF FlushPublish
<1>3. CASE CompactSelect \/ CompactMerge
  <2>1. compactor'.pc # "deleting" /\ UNCHANGED <<sstReaders, closedFds>>
    BY <1>3 DEF CompactSelect, CompactMerge, NoJob, memory, TypeInv, TypeOK
  <2> QED
    BY <2>1
<1>4. CASE CompactSwap
  <2>1. CASE compactor' = NoJob /\ UNCHANGED sstReaders
    BY <1>4, <2>1 DEF CompactSwap, NoJob
  <2>2. CASE /\ compactor' = [compactor EXCEPT !.pc = "deleting"]
             /\ sstReaders' = Rebuild([fd |-> clock, path |-> MergedPath,
                                       data |-> compactor.merged])
    <3> DEFINE r == [fd |-> clock, path |-> MergedPath, data |-> compactor.merged]
    <3>1. compactor.pc = "built" /\ sstReaders' = Rebuild(r) /\ r.fd = clock
      BY <1>4, <2>2 DEF CompactSwap
    <3>2. clock \notin closedFds /\ \A t \in DOMAIN compactor.group : compactor.group[t].fd # clock
      BY DEF TypeInv, TypeOK, Stamps, Reader
    <3>3. compactor'.group = compactor.group /\ closedFds' = closedFds
      BY <1>4, <2>2 DEF CompactSwap, TypeInv, TypeOK
    <3> HIDE DEF r
    <3>4. PICK C \in SUBSET DOMAIN sstReaders : \E x \in C :
              /\ \A s \in DOMAIN sstReaders \ C : \A t \in DOMAIN compactor.group :
                     sstReaders[s].fd # compactor.group[t].fd
              /\ Rebuild(r) = [s \in (DOMAIN sstReaders \ C) \cup {x} |->
                                  IF s = x THEN r ELSE sstReaders[s]]
      BY <3>1, RebuildSlots
    <3>5. \A s \in DOMAIN sstReaders' :
              \/ sstReaders'[s] = r
              \/ s \in DOMAIN sstReaders \ C /\ sstReaders'[s] = sstReaders[s]
      BY <3>1, <3>4
    <3> QED
      BY <3>1, <3>2, <3>3, <3>4, <3>5
  <2> QED
    BY <1>4, <2>1, <2>2 DEF CompactSwap
<1>5. CASE CompactDelete
  <2> DEFINE s == Oldest(DOMAIN compactor.group)
  <2>1. s \in DOMAIN compactor.group
    <3>1. DOMAIN compactor.group \subseteq Nat /\ DOMAIN compactor.group # {}
      BY <1>5 DEF CompactDelete, TypeInv, TypeOK, Stamps
    <3> QED
      BY <3>1, OldestIsFirst
  <2>2. closedFds' = closedFds \cup {compactor.group[s].fd} /\ sstReaders' = sstReaders
    BY <1>5 DEF CompactDelete, memory
  <2>3. ReadersOpen'
    BY <1>5, <2>1, <2>2 DEF CompactDelete
  <2>4. CASE compactor' = NoJob
    BY <2>3, <2>4 DEF NoJob
  <2>5. CASE compactor' = [compactor EXCEPT !.group = Without(compactor.group, s)]
    <3>1. compactor'.group = Without(compactor.group, s)
      BY <2>5 DEF TypeInv, TypeOK
    <3>2. \A t \in DOMAIN compactor'.group :
              t \in DOMAIN compactor.group /\ compactor'.group[t] = compactor.group[t]
      BY <3>1 DEF Without
    <3> QED
      BY <1>5, <2>2, <2>3, <3>2 DEF CompactDelete
  <2> QED
    BY <1>5, <2>4, <2>5 DEF CompactDelete
<1>6. ASSUME NEW m \in {"down", "panicked"}, Stop(m) PROVE FdInv'
  BY <1>6 DEF Stop, NoJob
<1>7. CASE OpenFinish
  BY <1>7 DEF OpenFinish, workers, Quiet, NoJob
<1>8. ASSUME NEW f \in Flushers, Flush(f) PROVE FdInv'
  BY <1>1, <1>2, <1>6, <1>8
  DEF Flush, FlushBegin, FlushCapture, FlushBuild, FlushVerify, FlushCleanup, FlushRecover,
      FlushRelog, FlushDrop, Panic, memory
<1> QED
  BY <1>1, <1>3, <1>4, <1>5, <1>6, <1>7, <1>8
  DEF Next, Put, Delete, Write, WorkerReceive, Compaction, CloseBegin, CloseDrain, CloseEnd, Crash,
      OpenRelog, vars, memory, workers, Flushers

\* RunCompaction closes a reader only once no Get can reach it, whatever the
\* flush worker, Close, a crash or a failing file does in between.
THEOREM ReadersStayOpen == Spec => []ReadersOpen
<1>1. Init => FdInv
  BY DEF Init, FdInv, ReadersOpen, NoJob
<1>2. FdInv => ReadersOpen
  BY DEF FdInv
<1> QED
  BY <1>1, <1>2, FdStep, TypeInvAlways, QuietAlways, PTL DEF Spec

-----------------------------------------------------------------------------
(* One Flush and its file *)

\* Goto and Return change one Flush.
LEMMA OneFlusher ==
    ASSUME TypeInv, NEW f \in Flushers
    PROVE  /\ \A pc : Goto(f, pc) => /\ \A g \in Flushers \ {f} : flusher'[g] = flusher[g]
                                     /\ flusher'[f].pc = pc /\ flusher'[f].path = flusher[f].path
                                     /\ flusher'[f].table = flusher[f].table
           /\ \A err : Return(f, err) => /\ \A g \in Flushers \ {f} : flusher'[g] = flusher[g]
                                         /\ flusher'[f].pc \in {"idle", "erred", "returned"}
           /\ \A r : flusher' = [flusher EXCEPT ![f] = r] =>
                        flusher'[f] = r /\ \A g \in Flushers \ {f} : flusher'[g] = flusher[g]
<1>1. flusher \in [Flushers -> [pc : FlushPcs, path : Stamps, table : Table]]
  BY DEF TypeInv, TypeOK, Flushers
<1> QED
  BY <1>1 DEF Goto, Return, Idle

\* A Flush that is at one of these has a file of its own.
Publishing == {"building", "built", "verified"}

FileHolds(p, t) == p \in DOMAIN sstFiles /\ sstFiles[p].data = t

-----------------------------------------------------------------------------
(* ImplementsKVStore: the engine is a map to its callers *)

\* The newest of the files up to slot b that have k holds c for it.
UpTo(files, b, k, c) ==
    \/ c = Absent /\ \A s \in DOMAIN files : s <= b => files[s].data[k] = Absent
    \/ \E s \in DOMAIN files : /\ s <= b /\ files[s].data[k] = c /\ c # Absent
                               /\ \A t \in DOMAIN files : s < t /\ t <= b => files[t].data[k] = Absent

LEMMA UpToUnique ==
    ASSUME NEW files, DOMAIN files \subseteq Nat, NEW b \in Nat, NEW k, NEW c, NEW d,
           UpTo(files, b, k, c), UpTo(files, b, k, d)
    PROVE  c = d
<1>1. CASE c = Absent \/ d = Absent
  BY <1>1 DEF UpTo
<1>2. CASE c # Absent /\ d # Absent
  <2>1. PICK s \in DOMAIN files : /\ s <= b /\ files[s].data[k] = c
                                  /\ \A t \in DOMAIN files : s < t /\ t <= b => files[t].data[k] = Absent
    BY <1>2 DEF UpTo
  <2>2. PICK r \in DOMAIN files : /\ r <= b /\ files[r].data[k] = d
                                  /\ \A t \in DOMAIN files : r < t /\ t <= b => files[t].data[k] = Absent
    BY <1>2 DEF UpTo
  <2>3. ~(s < r) /\ ~(r < s) /\ s \in Nat /\ r \in Nat
    BY <1>2, <2>1, <2>2
  <2>4. s = r
    BY <2>3
  <2> QED
    BY <2>1, <2>2, <2>4
<1> QED
  BY <1>1, <1>2

LEMMA UpToAll ==
    ASSUME NEW b \in Nat, NEW files, DOMAIN files \subseteq 0 .. b, NEW k, NEW c
    PROVE  UpTo(files, b, k, c) <=> IsNewest(files, k, c)
<1>1. \A s \in DOMAIN files : s <= b /\ s \in Nat
  OBVIOUS
<1>2. \A s, t \in DOMAIN files : t > s <=> s < t
  BY <1>1
<1> QED
  BY <1>1, <1>2 DEF UpTo, IsNewest

\* Files above slot b do not count.
LEMMA UpToSame ==
    ASSUME NEW files, NEW more, NEW b, NEW k, NEW c, UpTo(files, b, k, c),
           \A s \in DOMAIN files : s <= b => s \in DOMAIN more /\ more[s].data = files[s].data,
           \A s \in DOMAIN more : s <= b => s \in DOMAIN files
    PROVE  UpTo(more, b, k, c)
BY DEF UpTo

\* In more the files W, which lie next to each other, have given way to one, at
\* the first of their slots, x; l is the last.
SwapOf(files, W, x, l, more) ==
    /\ DOMAIN files \subseteq Nat /\ W \subseteq DOMAIN files /\ x \in W /\ l \in W
    /\ \A s \in W : x <= s /\ s <= l
    /\ \A s \in DOMAIN files \ W : s < x \/ s > l
    /\ DOMAIN more = (DOMAIN files \ W) \cup {x}
    /\ \A s \in DOMAIN files \ W : more[s] = files[s]

\* If the new file has what the files up to l said, or nothing where W had
\* nothing, no search from a later slot notices.
LEMMA SwapUnnoticed ==
    ASSUME NEW files, NEW W, NEW x, NEW l, NEW more, SwapOf(files, W, x, l, more), NEW k,
           \/ UpTo(files, l, k, more[x].data[k])
           \/ more[x].data[k] = Absent /\ \A s \in W : files[s].data[k] = Absent,
           NEW b \in Nat, l <= b, NEW c, UpTo(files, b, k, c)
    PROVE  UpTo(more, b, k, c)
<1> DEFINE m == more[x].data[k]
<1>1. /\ x \in Nat /\ l \in Nat /\ x <= l /\ x <= b
      /\ \A s \in DOMAIN files : s \in Nat /\ (s \in W => x <= s /\ s <= l /\ s <= b)
      /\ \A s \in DOMAIN more : s = x \/ (s \in DOMAIN files /\ s \notin W /\ more[s] = files[s])
      /\ \A s \in DOMAIN files : s \notin W => (s < x \/ s > l) /\ s \in DOMAIN more /\ more[s] = files[s]
      /\ x \in DOMAIN more /\ l \in W
  BY DEF SwapOf
<1>2. CASE c = Absent
  <2>1. \A s \in DOMAIN files : s <= b => files[s].data[k] = Absent
    BY <1>2 DEF UpTo
  <2>2. m = Absent
    <3> SUFFICES ASSUME UpTo(files, l, k, m), m # Absent PROVE FALSE
      OBVIOUS
    <3>1. PICK s \in DOMAIN files : s <= l /\ files[s].data[k] = m
      BY DEF UpTo
    <3> QED
      BY <1>1, <2>1, <3>1
  <2> QED
    BY <1>1, <1>2, <2>1, <2>2 DEF UpTo
<1>3. CASE c # Absent
  <2>1. PICK t \in DOMAIN files : /\ t <= b /\ files[t].data[k] = c
                                  /\ \A u \in DOMAIN files : t < u /\ u <= b => files[u].data[k] = Absent
    BY <1>3 DEF UpTo
  <2>2. CASE t \notin W /\ t > l
    <3>1. ASSUME NEW u \in DOMAIN more, t < u, u <= b PROVE more[u].data[k] = Absent
      BY <1>1, <2>1, <2>2, <3>1
    <3> QED
      BY <1>1, <1>3, <2>1, <2>2, <3>1 DEF UpTo
  <2>3. CASE t <= l
    <3>1. UpTo(files, l, k, c)
      <4>1. \A u \in DOMAIN files : t < u /\ u <= l => files[u].data[k] = Absent
        BY <1>1, <2>1
      <4> QED
        BY <1>3, <2>1, <2>3, <4>1 DEF UpTo
    <3>2. m = c \/ (m = Absent /\ \A s \in W : files[s].data[k] = Absent)
      BY <1>1, <3>1, UpToUnique
    <3>3. CASE m = c
      <4>1. ASSUME NEW u \in DOMAIN more, x < u, u <= b PROVE more[u].data[k] = Absent
        <5>1. u \in DOMAIN files /\ u \notin W /\ more[u] = files[u] /\ u > l /\ u > t
          BY <1>1, <2>1, <2>3, <4>1
        <5> QED
          BY <2>1, <4>1, <5>1
      <4> QED
        BY <1>1, <1>3, <3>3, <4>1 DEF UpTo
    <3>4. CASE m = Absent /\ \A s \in W : files[s].data[k] = Absent
      <4>1. t \notin W /\ t \in DOMAIN more /\ more[t] = files[t]
        BY <1>1, <1>3, <2>1, <3>4
      <4>2. ASSUME NEW u \in DOMAIN more, t < u, u <= b PROVE more[u].data[k] = Absent
        BY <1>1, <2>1, <3>4, <4>2
      <4> QED
        BY <1>3, <2>1, <4>1, <4>2 DEF UpTo
    <3> QED
      BY <3>2, <3>3, <3>4
  <2> QED
    BY <1>1, <2>1, <2>2, <2>3
<1> QED
  BY <1>2, <1>3

\* What is behind slot s answers for k as the readers up to s do, or not at all
\* where the reader there does not either.
Stands(files, s, k, c) == UpTo(files, s, k, c) \/ (c = Absent /\ files[s].data[k] = Absent)

\* The flush worker alone flushes: while it does, its table is the immutable
\* memtable and its file is nobody else's.
WorkerInv ==
    /\ mode = "up" /\ flusher["closer"].pc = "idle"
    /\ flusher["worker"].pc \in Publishing \cup {"idle", "start", "rotated", "published"}
    /\ flusher["worker"].pc \in Publishing \cup {"rotated"} => immutableMemtable # None
    /\ flusher["worker"].pc \in Publishing =>
           /\ flusher["worker"].table = immutableMemtable
           /\ \A s \in DOMAIN sstReaders : sstReaders[s].path # flusher["worker"].path
           /\ \A s \in DOMAIN compactor.group :
                  compactor.group[s].path # flusher["worker"].path
    /\ flusher["worker"].pc \in Publishing \ {"building"} =>
           FileHolds(flusher["worker"].path, OnDisk(flusher["worker"].table))

\* Memtables hold what clients put, and no client puts [].
MemtablesInv ==
    \A k \in Keys : /\ activeMemtable[k] # Empty
                    /\ immutableMemtable # None => immutableMemtable[k] # Empty

\* Readers have files of their own; those whose file is gone come first; a file
\* that is not yet gone answers as its reader and the older ones together.
ReaderInv ==
    /\ \A s, t \in DOMAIN sstReaders :
           s # t => sstReaders[s].fd # sstReaders[t].fd /\ sstReaders[s].path # sstReaders[t].path
    /\ \A s \in Statable : \A t \in DOMAIN sstReaders \ Statable : t < s
    /\ \A s \in Statable : \A k \in Keys :
           Stands(sstReaders, s, k, sstFiles[sstReaders[s].path].data[k])

\* A compaction has taken the oldest readers whose files are there, and their
\* merged file answers as they and the ones before them do.
MergeInv ==
    compactor.pc \in {"merging", "built"} =>
        /\ DOMAIN compactor.group \subseteq Statable
        /\ \A s \in Statable : \A t \in DOMAIN compactor.group :
               s <= t => s \in DOMAIN compactor.group
        /\ \A k \in Keys :
               \/ UpTo(sstReaders, Latest(DOMAIN compactor.group), k, compactor.merged[k])
               \/ /\ compactor.merged[k] = Absent
                  /\ \A s \in DOMAIN compactor.group : sstReaders[s].data[k] = Absent

\* When the files are deleted, the one reader that may still have one of them
\* comes before all readers whose file is there.
DeleteInv ==
    compactor.pc = "deleting" =>
        \A t \in DOMAIN compactor.group, u \in DOMAIN sstReaders :
            sstReaders[u].path = compactor.group[t].path => \A s \in Statable : u <= s

SlotsInv == ReaderInv /\ MergeInv /\ DeleteInv
            /\ (compactor.pc = "built" => FileHolds(MergedPath, compactor.merged))

\* Readers and compaction do not care for files that are no reader's.
LEMMA SlotsFrame ==
    ASSUME TypeInv, SlotsInv, UNCHANGED <<sstReaders, compactor>>,
           \A s \in DOMAIN sstReaders :
               /\ sstReaders[s].path \in DOMAIN sstFiles <=> sstReaders[s].path \in DOMAIN sstFiles'
               /\ sstReaders[s].path \in DOMAIN sstFiles =>
                      sstFiles'[sstReaders[s].path] = sstFiles[sstReaders[s].path]
    PROVE  SlotsInv'
<1>1. /\ Statable' = Statable
      /\ \A s \in Statable : /\ s \in DOMAIN sstReaders
                            /\ sstFiles'[sstReaders[s].path] = sstFiles[sstReaders[s].path]
  BY DEF Statable
<1>2. ReaderInv'
  BY <1>1 DEF SlotsInv, ReaderInv
<1>3. MergeInv' /\ DeleteInv'
  BY <1>1 DEF SlotsInv, MergeInv, DeleteInv
<1>4. ASSUME compactor.pc = "built" PROVE FileHolds(MergedPath, compactor.merged)'
  <2>1. Latest(DOMAIN compactor.group) \in DOMAIN compactor.group
    BY <1>4, MergedPathType
  <2>2. \E s \in DOMAIN sstReaders : sstReaders[s].path = MergedPath
    BY <1>4, <2>1 DEF TypeInv, GroupServed, MergedPath
  <2>3. MergedPath' = MergedPath
    BY DEF MergedPath
  <2> QED
    BY <1>4, <2>2, <2>3 DEF SlotsInv, FileHolds
<1> QED
  BY <1>2, <1>3, <1>4 DEF SlotsInv

\* FlushPublish: the new reader comes last and has a file of its own.
LEMMA SlotsPublish ==
    ASSUME TypeInv, WorkerInv, SlotsInv, FlushPublish("worker")
    PROVE  SlotsInv'
<1> DEFINE w == flusher["worker"]
           r == [fd |-> clock, path |-> w.path, data |-> OnDisk(w.table)]
<1>1. /\ DOMAIN sstReaders' = DOMAIN sstReaders \cup {clock} /\ sstReaders'[clock] = r
      /\ \A s \in DOMAIN sstReaders : sstReaders'[s] = sstReaders[s]
      /\ sstFiles' = sstFiles /\ compactor' = compactor
  <2>1. clock \notin DOMAIN sstReaders
    BY DEF TypeInv, TypeOK, Stamps
  <2> QED
    BY <2>1 DEF FlushPublish, disk
<1>2. /\ w.path \in DOMAIN sstFiles /\ sstFiles[w.path].data = OnDisk(w.table)
      /\ \A s \in DOMAIN sstReaders : sstReaders[s].path # w.path
      /\ \A s \in DOMAIN compactor.group : compactor.group[s].path # w.path
  BY DEF FlushPublish, At, WorkerInv, Publishing, FileHolds
<1>3. /\ clock \in Nat /\ \A s \in DOMAIN sstReaders : s \in Nat /\ s < clock /\ sstReaders[s].fd # clock
      /\ DOMAIN compactor.group \subseteq 0 .. clock /\ \A s \in DOMAIN compactor.group : s \in Nat /\ s < clock
  BY DEF TypeInv, TypeOK, Stamps, Reader
<1>4. r.fd = clock /\ r.path = w.path /\ r.data = OnDisk(w.table)
  OBVIOUS
<1> HIDE DEF r, w
<1>5. Statable' = Statable \cup {clock} /\ Statable \subseteq DOMAIN sstReaders
  BY <1>1, <1>2, <1>4 DEF Statable
<1>6. ASSUME NEW b, b \in DOMAIN sstReaders \/ b \in DOMAIN compactor.group,
             NEW k, NEW c, UpTo(sstReaders, b, k, c)
      PROVE  UpTo(sstReaders', b, k, c)
  <2>1. \A s \in DOMAIN sstReaders' : s <= b => s \in DOMAIN sstReaders
    BY <1>1, <1>3, <1>6
  <2> QED
    BY <1>1, <1>6, <2>1, UpToSame
<1>7. ReaderInv'
  <2>1. \A s, t \in DOMAIN sstReaders' :
            s # t => sstReaders'[s].fd # sstReaders'[t].fd /\ sstReaders'[s].path # sstReaders'[t].path
    BY <1>1, <1>2, <1>3, <1>4 DEF SlotsInv, ReaderInv
  <2>2. \A s \in Statable' : \A t \in DOMAIN sstReaders' \ Statable' : t < s
    BY <1>1, <1>3, <1>5 DEF SlotsInv, ReaderInv
  <2>3. ASSUME NEW s \in Statable', NEW k \in Keys
        PROVE  Stands(sstReaders', s, k, sstFiles'[sstReaders'[s].path].data[k])
    <3>1. CASE s \in Statable
      <4>1. s \in DOMAIN sstReaders /\ sstReaders'[s] = sstReaders[s]
        BY <1>1, <1>5, <3>1
      <4>2. Stands(sstReaders, s, k, sstFiles[sstReaders[s].path].data[k])
        BY <3>1 DEF SlotsInv, ReaderInv
      <4> QED
        BY <1>1, <1>6, <4>1, <4>2 DEF Stands
    <3>2. CASE s = clock
      <4>1. sstFiles'[sstReaders'[s].path].data[k] = sstReaders'[s].data[k] /\ s \in DOMAIN sstReaders'
        BY <1>1, <1>2, <1>4, <3>2
      <4>2. \A t \in DOMAIN sstReaders' : ~(s < t /\ t <= s) /\ s <= s
        BY <1>1, <1>3, <3>2
      <4> QED
        BY <4>1, <4>2 DEF Stands, UpTo
    <3> QED
      BY <1>5, <3>1, <3>2
  <2> QED
    BY <2>1, <2>2, <2>3 DEF ReaderInv
<1>8. MergeInv'
  <2> SUFFICES ASSUME compactor.pc \in {"merging", "built"}
               PROVE  MergeInv'
    BY <1>1 DEF MergeInv
  <2>1. Latest(DOMAIN compactor.group) \in DOMAIN compactor.group
    BY MergedPathType
  <2>2. \A s \in DOMAIN compactor.group : s \in DOMAIN sstReaders /\ sstReaders'[s] = sstReaders[s]
    BY <1>1 DEF TypeInv, GroupServed
  <2>3. \A s \in Statable' : \A t \in DOMAIN compactor.group : s <= t => s \in Statable
    BY <1>3, <1>5
  <2> QED
    BY <1>1, <1>5, <1>6, <2>1, <2>2, <2>3 DEF SlotsInv, MergeInv
<1>9. DeleteInv'
  BY <1>1, <1>2, <1>3, <1>4, <1>5 DEF SlotsInv, DeleteInv
<1>10. compactor.pc = "built" => FileHolds(MergedPath, compactor.merged)'
  BY <1>1 DEF SlotsInv, FileHolds, MergedPath
<1> QED
  BY <1>1, <1>7, <1>8, <1>9, <1>10 DEF SlotsInv

\* One tier: the readers selectFilesForCompaction picks are the oldest whose
\* files are there.
LEMMA SelectOldest ==
    ASSUME TypeInv, \A t, u \in Tiers : t = u, NEW W \in selectFilesForCompaction
    PROVE  /\ W \subseteq Statable /\ W # {}
           /\ \A s \in Statable : \A t \in W : s <= t => s \in W
<1>1. W \in RunHeads /\ W \subseteq Statable /\ Cardinality(W) = CompactionThreshold
  BY DEF selectFilesForCompaction, RunHeads
<1>2. W # {}
  BY <1>1, FS_EmptySet, ConstantsAssumption
<1>3. \A s \in Statable : s \in Nat /\ Tier(s) \in Tiers
  BY DEF Statable, Tier, TypeInv, TypeOK, Stamps, File
<1>4. ASSUME NEW s \in Statable, NEW t \in W, s <= t, s \notin W PROVE FALSE
  <2>1. \A u \in Statable : (\E x, y \in W : x < u /\ u < y) => u \in W
    BY <1>1 DEF RunHeads
  <2>2. s < t /\ \A x \in W : s < x
    BY <1>1, <1>3, <1>4, <2>1
  <2>3. PICK x \in Statable : s <= x /\ \A y \in W : x < y /\ Tier(x) # Tier(y)
    BY <1>1, <2>2 DEF RunHeads
  <2>4. Tier(x) # Tier(t) /\ Tier(x) \in Tiers /\ Tier(t) \in Tiers
    BY <1>1, <1>3, <2>3
  <2> QED
    BY <2>4
<1> QED
  BY <1>1, <1>2, <1>4

\* CompactSelect: what the merged files say is what their readers say.
LEMMA SlotsSelect ==
    ASSUME TypeInv, SlotsInv, \A t, u \in Tiers : t = u, CompactSelect
    PROVE  SlotsInv'
<1>1. PICK W \in selectFilesForCompaction :
          compactor' = [pc |-> "merging", group |-> [s \in W |-> sstReaders[s]],
                        merged |-> Merge(FilesAt(W))]
  BY DEF CompactSelect
<1>2. /\ W \subseteq Statable /\ W # {}
      /\ \A s \in Statable : \A t \in W : s <= t => s \in W
  BY SelectOldest
<1>3. /\ UNCHANGED <<sstReaders, sstFiles>> /\ compactor'.pc = "merging"
      /\ DOMAIN compactor'.group = W
      /\ \A k \in Keys : compactor'.merged[k] = Newest(FilesAt(W), k)
  BY <1>1 DEF CompactSelect, memory, disk, Merge
<1>4. Statable' = Statable /\ Statable \subseteq DOMAIN sstReaders
  BY <1>3 DEF Statable
<1>5. clock \in Nat /\ W \subseteq 0 .. clock /\ \A s \in DOMAIN sstReaders : s \in Nat
  BY <1>2, <1>4 DEF TypeInv, TypeOK, Stamps
<1> DEFINE l == Latest(W)
           files == FilesAt(W)
<1>6. l \in W /\ \A s \in W : s <= l
  BY <1>2, <1>5, LatestIsLast
<1>7. DOMAIN files = W /\ \A s \in W : files[s] = sstFiles[sstReaders[s].path]
  BY DEF FilesAt
<1> HIDE DEF l, files
<1>8. ASSUME NEW k \in Keys
      PROVE  \/ UpTo(sstReaders, l, k, Newest(files, k))
             \/ Newest(files, k) = Absent /\ \A s \in W : sstReaders[s].data[k] = Absent
  <2>1. IsNewest(files, k, Newest(files, k))
    BY <1>5, <1>7, NewestIs
  <2>2. \A s \in W : Stands(sstReaders, s, k, files[s].data[k])
    BY <1>2, <1>7 DEF SlotsInv, ReaderInv
  <2>3. ASSUME NEW s \in W, files[s].data[k] = Absent PROVE sstReaders[s].data[k] = Absent
    <3>1. s \in DOMAIN sstReaders /\ s <= s
      BY <1>2, <1>4, <1>5
    <3> QED
      BY <2>2, <2>3, <3>1 DEF Stands, UpTo
  <2>4. CASE \A s \in W : files[s].data[k] = Absent
    BY <1>7, <2>1, <2>3, <2>4 DEF IsNewest
  <2>5. CASE ~ \A s \in W : files[s].data[k] = Absent
    <3> DEFINE c == Newest(files, k)
    <3>1. PICK s \in W : /\ files[s].data[k] = c /\ c # Absent
                         /\ \A t \in W : t > s => files[t].data[k] = Absent
      BY <1>7, <2>1, <2>5 DEF IsNewest
    <3> HIDE DEF c
    <3>2. UpTo(sstReaders, s, k, c)
      BY <2>2, <3>1 DEF Stands
    <3>3. PICK x \in DOMAIN sstReaders :
              /\ x <= s /\ sstReaders[x].data[k] = c
              /\ \A t \in DOMAIN sstReaders : x < t /\ t <= s => sstReaders[t].data[k] = Absent
      BY <3>1, <3>2 DEF UpTo
    <3>4. s \in Nat /\ s \in Statable /\ x \in Nat /\ l \in Nat /\ s <= l
      BY <1>2, <1>5, <1>6, <3>3
    <3>5. ASSUME NEW t \in DOMAIN sstReaders, s < t, t <= l PROVE sstReaders[t].data[k] = Absent
      <4>1. t \in Statable
        <5> SUFFICES ASSUME t \notin Statable PROVE FALSE
          OBVIOUS
        <5>1. t < s
          BY <3>4 DEF SlotsInv, ReaderInv
        <5> QED
          BY <1>5, <3>4, <3>5, <5>1
      <4>2. t \in W
        BY <1>2, <1>6, <3>5, <4>1
      <4> QED
        BY <1>5, <2>3, <3>1, <3>4, <3>5, <4>2
    <3>6. ASSUME NEW t \in DOMAIN sstReaders, x < t, t <= l PROVE sstReaders[t].data[k] = Absent
      BY <1>5, <3>3, <3>4, <3>5, <3>6
    <3>7. UpTo(sstReaders, l, k, c)
      BY <3>1, <3>3, <3>4, <3>6 DEF UpTo
    <3> QED
      BY <3>7 DEF c
  <2> QED
    BY <2>4, <2>5
<1>9. ReaderInv' /\ DeleteInv'
  BY <1>3, <1>4 DEF SlotsInv, ReaderInv, DeleteInv
<1>10. MergeInv'
  BY <1>2, <1>3, <1>4, <1>8 DEF MergeInv, l, files
<1> QED
  BY <1>3, <1>9, <1>10 DEF SlotsInv

\* CompactMerge: the merged file replaces the last file of the group.
LEMMA SlotsMerge ==
    ASSUME TypeInv, SlotsInv, CompactMerge
    PROVE  SlotsInv'
<1>1. CASE compactor' = NoJob /\ UNCHANGED sstFiles
  <2>1. sstReaders' = sstReaders /\ Statable' = Statable /\ compactor'.pc = "idle"
    BY <1>1 DEF CompactMerge, memory, Statable, NoJob
  <2> QED
    BY <1>1, <2>1 DEF SlotsInv, ReaderInv, MergeInv, DeleteInv
<1>2. ASSUME NEW t \in Tiers,
             sstFiles' = [p \in DOMAIN sstFiles \cup {MergedPath} |->
                             IF p = MergedPath THEN [data |-> compactor.merged, tier |-> t]
                             ELSE sstFiles[p]],
             compactor' = [compactor EXCEPT !.pc = "built"]
      PROVE  SlotsInv'
  <2> DEFINE W == DOMAIN compactor.group
             l == Latest(W)
  <2>1. /\ compactor.pc = "merging" /\ sstReaders' = sstReaders
        /\ compactor'.pc = "built" /\ compactor'.group = compactor.group
        /\ compactor'.merged = compactor.merged
    BY <1>2 DEF CompactMerge, memory, TypeInv, TypeOK
  <2>2. l \in W /\ MergedPath = compactor.group[l].path /\ MergedPath' = MergedPath
    BY <2>1, MergedPathType DEF MergedPath
  <2>3. W \subseteq Statable /\ \A s \in W : sstReaders[s] = compactor.group[s]
    BY <2>1 DEF SlotsInv, MergeInv, TypeInv, GroupServed
  <2>4. /\ DOMAIN sstFiles' = DOMAIN sstFiles /\ MergedPath \in DOMAIN sstFiles
        /\ sstFiles'[MergedPath].data = compactor.merged
        /\ \A p \in DOMAIN sstFiles \ {MergedPath} : sstFiles'[p] = sstFiles[p]
    <3>1. MergedPath \in DOMAIN sstFiles
      BY <2>2, <2>3 DEF Statable
    <3> QED
      BY <1>2, <3>1
  <2> HIDE DEF l
  <2>5. Statable' = Statable /\ Statable \subseteq DOMAIN sstReaders
    BY <2>1, <2>4 DEF Statable
  <2>6. ASSUME NEW s \in Statable, NEW k \in Keys
        PROVE  Stands(sstReaders, s, k, sstFiles'[sstReaders[s].path].data[k])
    <3>1. CASE s = l
      <4>1. sstFiles'[sstReaders[s].path].data[k] = compactor.merged[k]
        BY <2>2, <2>3, <2>4, <3>1
      <4> QED
        BY <2>1, <2>2, <3>1, <4>1 DEF SlotsInv, MergeInv, Stands, l
    <3>2. CASE s # l
      <4>1. sstReaders[s].path # MergedPath /\ sstReaders[s].path \in DOMAIN sstFiles
        BY <2>2, <2>3, <2>5, <3>2 DEF SlotsInv, ReaderInv, Statable
      <4> QED
        BY <2>4, <4>1 DEF SlotsInv, ReaderInv
    <3> QED
      BY <3>1, <3>2
  <2>7. ReaderInv'
    BY <2>1, <2>5, <2>6 DEF SlotsInv, ReaderInv
  <2>8. MergeInv' /\ DeleteInv'
    BY <2>1, <2>5 DEF SlotsInv, MergeInv, DeleteInv
  <2>9. FileHolds(MergedPath, compactor.merged)'
    BY <2>1, <2>2, <2>4 DEF FileHolds
  <2> QED
    BY <2>7, <2>8, <2>9 DEF SlotsInv
<1> QED
  BY <1>1, <1>2 DEF CompactMerge

\* Rebuild takes exactly the readers of the group out, and they lie next to each
\* other.
LEMMA SwapShape ==
    ASSUME TypeInv, SlotsInv, compactor.pc = "built", NEW r, NEW W, W = DOMAIN compactor.group
    PROVE  /\ SwapOf(sstReaders, W, Oldest(W), Latest(W), Rebuild(r))
           /\ Rebuild(r)[Oldest(W)] = r
<1> DEFINE fds == {compactor.group[s].fd : s \in DOMAIN compactor.group}
           compacted == {s \in DOMAIN sstReaders : sstReaders[s].fd \in fds}
<1>1. W \subseteq Statable /\ W \subseteq DOMAIN sstReaders /\ W # {}
  BY DEF SlotsInv, MergeInv, Statable, TypeInv, TypeOK
<1>2. \A s \in W : sstReaders[s] = compactor.group[s]
  BY DEF TypeInv, GroupServed
<1>3. compacted = W
  BY <1>1, <1>2 DEF SlotsInv, ReaderInv
<1>4. DOMAIN sstReaders \subseteq Nat /\ W \subseteq 0 .. clock /\ clock \in Nat /\ W \subseteq Nat
  BY <1>1 DEF TypeInv, TypeOK, Stamps
<1>5. Oldest(W) \in W /\ Latest(W) \in W /\ \A s \in W : Oldest(W) <= s /\ s <= Latest(W)
  BY <1>1, <1>4, OldestIsFirst, LatestIsLast
<1>6. Rebuild(r) = [s \in (DOMAIN sstReaders \ compacted) \cup {Oldest(compacted)} |->
                       IF s = Oldest(compacted) THEN r ELSE sstReaders[s]]
  BY DEF Rebuild
<1> HIDE DEF compacted
<1>7. ASSUME NEW s \in DOMAIN sstReaders \ W PROVE s < Oldest(W) \/ s > Latest(W)
  <2>1. CASE s \in Statable
    <3>1. \A t \in W : ~(s <= t)
      BY <2>1, <1>7 DEF SlotsInv, MergeInv
    <3> QED
      BY <1>4, <1>5, <3>1
  <2>2. CASE s \notin Statable
    BY <1>1, <1>5, <2>2 DEF SlotsInv, ReaderInv
  <2> QED
    BY <2>1, <2>2
<1>8. /\ DOMAIN Rebuild(r) = (DOMAIN sstReaders \ W) \cup {Oldest(W)}
      /\ \A s \in DOMAIN sstReaders \ W : Rebuild(r)[s] = sstReaders[s]
      /\ Rebuild(r)[Oldest(W)] = r
  BY <1>3, <1>5, <1>6
<1> QED
  BY <1>1, <1>4, <1>5, <1>7, <1>8 DEF SwapOf

\* A search that starts at or above the last reader of the group does not notice.
LEMMA SwapKeeps ==
    ASSUME TypeInv, SlotsInv, compactor.pc = "built", NEW r, r.data = compactor.merged,
           NEW k \in Keys, NEW b \in Nat, \A s \in DOMAIN compactor.group : s <= b,
           NEW c, UpTo(sstReaders, b, k, c)
    PROVE  UpTo(Rebuild(r), b, k, c)
<1> DEFINE W == DOMAIN compactor.group
           x == Oldest(W)
           l == Latest(W)
           more == Rebuild(r)
<1>1. SwapOf(sstReaders, W, x, l, more) /\ more[x] = r
  BY SwapShape
<1>2. l \in W /\ l <= b
  BY <1>1 DEF SwapOf
<1>3. \/ UpTo(sstReaders, l, k, more[x].data[k])
      \/ more[x].data[k] = Absent /\ \A s \in W : sstReaders[s].data[k] = Absent
  BY <1>1 DEF SlotsInv, MergeInv
<1> HIDE DEF W, x, l, more
<1>4. UpTo(more, b, k, c)
  BY <1>1, <1>2, <1>3, SwapUnnoticed
<1> QED
  BY <1>4 DEF more

\* CompactSwap: the merged reader stands where its group stood.
LEMMA SlotsSwap ==
    ASSUME TypeInv, SlotsInv, CompactSwap
    PROVE  SlotsInv'
<1>1. CASE compactor' = NoJob /\ UNCHANGED sstReaders
  <2>1. sstFiles' = sstFiles /\ Statable' = Statable /\ compactor'.pc = "idle"
    BY <1>1 DEF CompactSwap, disk, Statable, NoJob
  <2> QED
    BY <1>1, <2>1 DEF SlotsInv, ReaderInv, MergeInv, DeleteInv
<1>2. CASE /\ sstReaders' = Rebuild([fd |-> clock, path |-> MergedPath, data |-> compactor.merged])
           /\ compactor' = [compactor EXCEPT !.pc = "deleting"]
  <2> DEFINE r == [fd |-> clock, path |-> MergedPath, data |-> compactor.merged]
             W == DOMAIN compactor.group
             x == Oldest(W)
             l == Latest(W)
  <2>1. /\ compactor.pc = "built" /\ sstReaders' = Rebuild(r) /\ sstFiles' = sstFiles
        /\ compactor'.pc = "deleting" /\ compactor'.group = compactor.group
        /\ r.fd = clock /\ r.path = MergedPath /\ r.data = compactor.merged
    BY <1>2 DEF CompactSwap, disk, TypeInv, TypeOK
  <2> HIDE DEF r
  <2>2. SwapOf(sstReaders, W, x, l, sstReaders') /\ sstReaders'[x] = r
    BY <2>1, SwapShape
  <2>3. /\ DOMAIN sstReaders' = (DOMAIN sstReaders \ W) \cup {x}
        /\ \A s \in DOMAIN sstReaders \ W : sstReaders'[s] = sstReaders[s]
        /\ x \in W /\ l \in W /\ x <= l /\ W \subseteq DOMAIN sstReaders
        /\ \A s \in DOMAIN sstReaders : s \in Nat
        /\ \A s \in W : x <= s /\ s <= l
    BY <2>2 DEF SwapOf
  <2>4. /\ W \subseteq Statable /\ \A s \in W : sstReaders[s] = compactor.group[s]
        /\ MergedPath = compactor.group[l].path
        /\ MergedPath \in DOMAIN sstFiles /\ sstFiles[MergedPath].data = compactor.merged
    BY <2>1 DEF SlotsInv, MergeInv, FileHolds, TypeInv, GroupServed, MergedPath
  <2>5. \A s \in DOMAIN sstReaders : sstReaders[s].fd # clock
    BY DEF TypeInv, TypeOK, Stamps, Reader
  <2>6. \A s \in Statable \ W : \A t \in W : t < s
    <3>1. \A s \in Statable \ W : \A t \in W : ~(s <= t)
      BY <2>1 DEF SlotsInv, MergeInv
    <3>2. Statable \subseteq DOMAIN sstReaders
      BY DEF Statable
    <3> QED
      BY <2>3, <3>1, <3>2
  <2> HIDE DEF x, l
  <2>7. Statable' = (Statable \ W) \cup {x} /\ Statable \subseteq DOMAIN sstReaders
    BY <2>1, <2>2, <2>3, <2>4 DEF Statable
  <2>8. \A s, t \in DOMAIN sstReaders' :
            s # t => sstReaders'[s].fd # sstReaders'[t].fd /\ sstReaders'[s].path # sstReaders'[t].path
    <3>1. \A s \in DOMAIN sstReaders \ W : sstReaders[s].fd # r.fd /\ sstReaders[s].path # r.path
      BY <2>1, <2>3, <2>4, <2>5 DEF SlotsInv, ReaderInv
    <3> QED
      BY <2>2, <2>3, <3>1 DEF SlotsInv, ReaderInv
  <2>9. \A s \in Statable' : \A t \in DOMAIN sstReaders' \ Statable' : t < s
    BY <2>3, <2>4, <2>7 DEF SlotsInv, ReaderInv
  <2>10. ASSUME NEW s \in Statable', NEW k \in Keys
         PROVE  Stands(sstReaders', s, k, sstFiles'[sstReaders'[s].path].data[k])
    <3>1. CASE s = x
      <4>1. sstFiles'[sstReaders'[s].path].data[k] = sstReaders'[s].data[k] /\ s \in DOMAIN sstReaders'
        BY <2>1, <2>2, <2>3, <2>4, <3>1
      <4>2. \A t \in DOMAIN sstReaders' : ~(s < t /\ t <= s) /\ s <= s
        BY <2>3, <3>1
      <4> QED
        BY <4>1, <4>2 DEF Stands, UpTo
    <3>2. CASE s \in Statable \ W
      <4>1. s \in DOMAIN sstReaders /\ s \in Nat /\ sstReaders'[s] = sstReaders[s] /\ \A t \in W : t <= s
        BY <2>3, <2>6, <2>7, <3>2
      <4>2. Stands(sstReaders, s, k, sstFiles[sstReaders[s].path].data[k])
        BY <3>2 DEF SlotsInv, ReaderInv
      <4>3. \A c : UpTo(sstReaders, s, k, c) => UpTo(sstReaders', s, k, c)
        BY <2>1, <4>1, SwapKeeps
      <4> QED
        BY <2>1, <4>1, <4>2, <4>3 DEF Stands
    <3> QED
      BY <2>7, <3>1, <3>2
  <2>11. ReaderInv'
    BY <2>8, <2>9, <2>10 DEF ReaderInv
  <2>12. DeleteInv'
    <3> SUFFICES ASSUME NEW t \in W, NEW u \in DOMAIN sstReaders',
                        sstReaders'[u].path = compactor.group[t].path, NEW s \in Statable'
                 PROVE  u <= s
      BY <2>1 DEF DeleteInv
    <3>1. u = x
      BY <2>3, <2>4 DEF SlotsInv, ReaderInv
    <3>2. s = x \/ x < s
      BY <2>3, <2>6, <2>7
    <3>3. x \in Nat /\ s \in Nat
      BY <2>3, <2>7
    <3> QED
      BY <3>1, <3>2, <3>3
  <2> QED
    BY <2>1, <2>11, <2>12 DEF SlotsInv, MergeInv
<1> QED
  BY <1>1, <1>2 DEF CompactSwap

\* CompactDelete: of the readers whose files are there, only the oldest may lose
\* its file.
LEMMA SlotsDelete ==
    ASSUME TypeInv, SlotsInv, CompactDelete
    PROVE  SlotsInv'
<1> DEFINE s == Oldest(DOMAIN compactor.group)
           p == compactor.group[s].path
<1>1. s \in DOMAIN compactor.group
  <2>1. DOMAIN compactor.group \subseteq Nat /\ DOMAIN compactor.group # {}
    BY DEF CompactDelete, TypeInv, TypeOK, Stamps
  <2> QED
    BY <2>1, OldestIsFirst
<1>2. /\ compactor.pc = "deleting" /\ sstReaders' = sstReaders
      /\ DOMAIN sstFiles' = DOMAIN sstFiles \ {p}
      /\ \A q \in DOMAIN sstFiles' : sstFiles'[q] = sstFiles[q]
  BY DEF CompactDelete, memory, Without
<1>3. /\ compactor'.pc \in {"idle", "deleting"}
      /\ \A t \in DOMAIN compactor'.group :
             t \in DOMAIN compactor.group /\ compactor'.group[t] = compactor.group[t]
  <2>1. CASE compactor' = NoJob
    BY <2>1, NoJobType
  <2>2. CASE compactor' = [compactor EXCEPT !.group = Without(compactor.group, s)]
    <3>1. compactor'.group = Without(compactor.group, s) /\ compactor'.pc = "deleting"
      BY <1>2, <2>2 DEF TypeInv, TypeOK
    <3> QED
      BY <3>1 DEF Without
  <2> QED
    BY <2>1, <2>2 DEF CompactDelete
<1> HIDE DEF s
<1>4. Statable' = {u \in Statable : sstReaders[u].path # p} /\ Statable \subseteq DOMAIN sstReaders
  BY <1>2 DEF Statable
<1>5. \A u \in DOMAIN sstReaders : sstReaders[u].path = p => \A t \in Statable : u <= t
  BY <1>1, <1>2 DEF SlotsInv, DeleteInv
<1>6. \A u \in DOMAIN sstReaders : u \in Nat
  BY DEF TypeInv, TypeOK, Stamps
<1>7. ReaderInv'
  <2>1. ASSUME NEW u \in Statable', NEW t \in DOMAIN sstReaders \ Statable' PROVE t < u
    BY <1>4, <1>5, <1>6 DEF SlotsInv, ReaderInv
  <2>2. \A u \in Statable' : \A k \in Keys :
            Stands(sstReaders, u, k, sstFiles'[sstReaders[u].path].data[k])
    <3>1. \A u \in Statable' : sstFiles'[sstReaders[u].path] = sstFiles[sstReaders[u].path]
      BY <1>2, <1>4 DEF Statable
    <3> QED
      BY <1>4, <3>1 DEF SlotsInv, ReaderInv
  <2> QED
    BY <1>2, <2>1, <2>2 DEF SlotsInv, ReaderInv
<1>8. DeleteInv'
  BY <1>2, <1>3, <1>4 DEF SlotsInv, DeleteInv
<1> QED
  BY <1>3, <1>7, <1>8 DEF SlotsInv, MergeInv

\* Without these the process runs on and no flush is abandoned: close and crash
\* stop it, a failed build or verification gives the memtable up.
CalmFaults == {"close", "crash", "build", "verify"}

KVInv == WorkerInv /\ MemtablesInv /\ SlotsInv

LEMMA KVInit == Init => KVInv
<1> SUFFICES ASSUME Init PROVE KVInv
  OBVIOUS
<1>1. WorkerInv
  BY DEF Init, WorkerInv, Idle, Publishing
<1>2. MemtablesInv
  BY ConstantsAssumption DEF Init, MemtablesInv, EmptyTable
<1>3. SlotsInv
  <2>1. DOMAIN sstReaders = {} /\ compactor.pc = "idle" /\ Statable = {}
    BY DEF Init, NoJob, Statable
  <2> QED
    BY <2>1 DEF SlotsInv, ReaderInv, MergeInv, DeleteInv
<1> QED
  BY <1>1, <1>2, <1>3 DEF KVInv

\* Compaction does not touch the worker's file.
LEMMA WorkerCompaction ==
    ASSUME TypeInv, SlotsInv, WorkerInv, Compaction
    PROVE  WorkerInv'
<1>0. PICK w : w = flusher["worker"]
  OBVIOUS
<1>1. UNCHANGED <<mode, flusher, immutableMemtable>>
  BY DEF Compaction, CompactSelect, CompactMerge, CompactSwap, CompactDelete, memory, control
<1>2. ASSUME w.pc \in Publishing
      PROVE  /\ \A s \in DOMAIN sstReaders' : sstReaders'[s].path # w.path
             /\ \A s \in DOMAIN compactor'.group : compactor'.group[s].path # w.path
             /\ \A t : FileHolds(w.path, t) => FileHolds(w.path, t)'
  <2>1. /\ \A s \in DOMAIN sstReaders : sstReaders[s].path # w.path
        /\ \A s \in DOMAIN compactor.group : compactor.group[s].path # w.path
    BY <1>0, <1>2 DEF WorkerInv
  <2>2. DOMAIN NoJob.group = {}
    BY NoJobType
  <2>3. compactor.pc # "idle" => MergedPath # w.path
    BY <2>1, MergedPathType DEF MergedPath
  <2>4. CASE CompactSelect
    <3>1. PICK W \in selectFilesForCompaction :
              compactor' = [pc |-> "merging", group |-> [s \in W |-> sstReaders[s]],
                            merged |-> Merge(FilesAt(W))]
      BY <2>4 DEF CompactSelect
    <3>2. W \subseteq DOMAIN sstReaders
      BY DEF selectFilesForCompaction, RunHeads, Statable
    <3> QED
      BY <2>1, <2>4, <3>1, <3>2 DEF CompactSelect, memory, disk, FileHolds
  <2>5. CASE CompactMerge
    <3>1. compactor' = NoJob \/ compactor'.group = compactor.group
      BY <2>5 DEF CompactMerge, TypeInv, TypeOK
    <3>2. compactor.pc # "idle" /\ sstReaders' = sstReaders
      BY <2>5 DEF CompactMerge, memory
    <3>3. \A t : FileHolds(w.path, t) => FileHolds(w.path, t)'
      BY <2>3, <2>5, <3>2 DEF CompactMerge, FileHolds
    <3> QED
      BY <2>1, <2>2, <3>1, <3>2, <3>3
  <2>6. CASE CompactSwap
    <3>1. compactor' = NoJob \/ compactor'.group = compactor.group
      BY <2>6 DEF CompactSwap, TypeInv, TypeOK
    <3>2. compactor.pc = "built" /\ sstFiles' = sstFiles
      BY <2>6 DEF CompactSwap, disk
    <3>3. \A s \in DOMAIN sstReaders' : sstReaders'[s].path # w.path
      <4>1. CASE sstReaders' = sstReaders
        BY <2>1, <4>1
      <4>2. CASE sstReaders' # sstReaders
        <5> DEFINE r == [fd |-> clock, path |-> MergedPath, data |-> compactor.merged]
        <5>1. sstReaders' = Rebuild(r) /\ r.path = MergedPath
          BY <2>6, <4>2 DEF CompactSwap
        <5> HIDE DEF r
        <5>2. PICK W : W = DOMAIN compactor.group
          OBVIOUS
        <5>3. SwapOf(sstReaders, W, Oldest(W), Latest(W), sstReaders') /\ sstReaders'[Oldest(W)] = r
          BY <3>2, <5>1, <5>2, SwapShape
        <5> QED
          BY <2>1, <2>3, <3>2, <5>1, <5>3 DEF SwapOf
      <4> QED
        BY <4>1, <4>2
    <3> QED
      BY <2>1, <2>2, <3>1, <3>2, <3>3 DEF FileHolds
  <2>7. CASE CompactDelete
    <3> DEFINE s == Oldest(DOMAIN compactor.group)
    <3>1. s \in DOMAIN compactor.group
      <4>1. DOMAIN compactor.group \subseteq Nat /\ DOMAIN compactor.group # {}
        BY <2>7 DEF CompactDelete, TypeInv, TypeOK, Stamps
      <4> QED
        BY <4>1, OldestIsFirst
    <3>2. \/ compactor' = NoJob
          \/ compactor'.group = Without(compactor.group, s)
      BY <2>7 DEF CompactDelete, TypeInv, TypeOK
    <3>3. sstReaders' = sstReaders /\ sstFiles' = Without(sstFiles, compactor.group[s].path)
      BY <2>7 DEF CompactDelete, memory
    <3> HIDE DEF s
    <3>4. \A t : FileHolds(w.path, t) => FileHolds(w.path, t)'
      BY <2>1, <3>1, <3>3 DEF FileHolds, Without
    <3> QED
      BY <2>1, <2>2, <3>2, <3>3, <3>4 DEF Without
  <2> QED
    BY <2>4, <2>5, <2>6, <2>7 DEF Compaction
<1> QED
  BY <1>0, <1>1, <1>2 DEF WorkerInv, Publishing, FileHolds

\* No client can tell the step.
Unseen == \A k \in Keys : Get(k)' = Get(k)

LEMMA UnseenFrame ==
    ASSUME UNCHANGED <<activeMemtable, immutableMemtable, sstReaders>>
    PROVE  Unseen
BY DEF Unseen, Get

\* A step of the worker between its file operations.
LEMMA WorkerStep ==
    ASSUME TypeInv, KVInv, UNCHANGED <<mode, activeMemtable, immutableMemtable, sstReaders, sstFiles, compactor>>,
           flusher'["closer"] = flusher["closer"],
           flusher'["worker"].pc \in Publishing \cup {"idle", "start", "rotated", "published"},
           flusher'["worker"].pc = "rotated" => immutableMemtable # None,
           flusher'["worker"].pc \in Publishing =>
               /\ flusher["worker"].pc \in Publishing
               /\ flusher["worker"].pc = "building" => flusher'["worker"].pc = "building"
               /\ flusher'["worker"].path = flusher["worker"].path
               /\ flusher'["worker"].table = flusher["worker"].table
    PROVE  KVInv' /\ Unseen
<1>1. SlotsInv'
  BY SlotsFrame DEF KVInv
<1>2. MemtablesInv'
  BY DEF KVInv, MemtablesInv
<1>3. WorkerInv'
  BY DEF KVInv, WorkerInv, FileHolds, Publishing
<1> QED
  BY <1>1, <1>2, <1>3, UnseenFrame DEF KVInv

\* Rotation moves the active memtable and shows the same entries.
LEMMA RotateUnseen ==
    ASSUME TypeInv, KVInv, FlushBegin("worker")
    PROVE  KVInv' /\ Unseen
<1> DEFINE w == flusher["worker"]
<1>1. /\ UNCHANGED <<mode, sstReaders, sstFiles, compactor>> /\ w.pc = "start"
      /\ "worker" \in Flushers /\ "closer" \in Flushers \ {"worker"}
  BY DEF FlushBegin, At, memory, disk, control, Flushers
<1>2. CASE UNCHANGED <<activeMemtable, immutableMemtable>>
  <2>1. CASE \E err : Return("worker", err)
    <3>1. flusher'["worker"].pc = "idle" /\ flusher'["closer"] = flusher["closer"]
      BY <1>1, <2>1, OneFlusher DEF Return, Idle, TypeInv, TypeOK
    <3> QED
      BY <1>1, <1>2, <3>1, WorkerStep DEF Publishing
  <2>2. CASE Goto("worker", "rotated") /\ immutableMemtable # None
    <3>1. flusher'["worker"].pc = "rotated" /\ flusher'["closer"] = flusher["closer"]
      BY <1>1, <2>2, OneFlusher
    <3> QED
      BY <1>1, <1>2, <2>2, <3>1, WorkerStep DEF Publishing
  <2>3. CASE /\ immutableMemtable' = activeMemtable /\ activeMemtable # EmptyTable
             /\ immutableMemtable = None
    BY <1>2, <2>3, ConstantsAssumption DEF TypeInv, TypeOK
  <2> QED
    BY <2>1, <2>2, <2>3 DEF FlushBegin, Rotate
<1>3. CASE ~UNCHANGED <<activeMemtable, immutableMemtable>>
  <2>1. /\ Rotate /\ Goto("worker", "rotated") /\ immutableMemtable = None
    BY <1>3 DEF FlushBegin, RotateFails, memory
  <2>2. /\ flusher'["worker"].pc = "rotated" /\ flusher'["closer"] = flusher["closer"]
        /\ immutableMemtable' = activeMemtable /\ activeMemtable' = EmptyTable
        /\ activeMemtable # None
    BY <1>1, <2>1, OneFlusher, ConstantsAssumption DEF Rotate, TypeInv, TypeOK
  <2>3. SlotsInv'
    BY <1>1, SlotsFrame DEF KVInv
  <2>4. MemtablesInv'
    BY <2>2, ConstantsAssumption DEF KVInv, MemtablesInv, EmptyTable
  <2>5. WorkerInv'
    BY <1>1, <2>2 DEF KVInv, WorkerInv, Publishing
  <2>6. Unseen
    BY <1>1, <2>1, <2>2 DEF Unseen, Get, EmptyTable
  <2> QED
    BY <2>3, <2>4, <2>5, <2>6 DEF KVInv
<1> QED
  BY <1>2, <1>3

LEMMA CaptureUnseen ==
    ASSUME TypeInv, KVInv, FlushCapture("worker")
    PROVE  KVInv' /\ Unseen
<1>1. "worker" \in Flushers /\ "closer" \in Flushers \ {"worker"} /\ immutableMemtable # None
  BY DEF FlushCapture, At, KVInv, WorkerInv, Flushers
<1>2. UNCHANGED <<mode, activeMemtable, immutableMemtable, sstReaders, sstFiles, compactor>>
  BY <1>1 DEF FlushCapture, memory, disk, control
<1>3. /\ flusher'["worker"] = [pc |-> "building", path |-> clock, table |-> immutableMemtable]
      /\ flusher'["closer"] = flusher["closer"]
  BY <1>1, OneFlusher DEF FlushCapture
<1>4. /\ \A s \in DOMAIN sstReaders : sstReaders[s].path # clock
      /\ \A s \in DOMAIN compactor.group : compactor.group[s].path # clock
  BY DEF TypeInv, TypeOK, Reader, Stamps
<1>5. WorkerInv'
  BY <1>1, <1>2, <1>3, <1>4 DEF KVInv, WorkerInv, Publishing
<1> QED
  BY <1>2, <1>5, SlotsFrame, UnseenFrame DEF KVInv, MemtablesInv

LEMMA BuildUnseen ==
    ASSUME TypeInv, KVInv, CalmFaults \cap Events = {}, FlushBuild("worker")
    PROVE  KVInv' /\ Unseen
<1>0. PICK w : w = flusher["worker"]
  OBVIOUS
<1>1. PICK t \in Tiers : sstFiles' = [p \in DOMAIN sstFiles \cup {w.path} |->
                                         IF p = w.path THEN [data |-> OnDisk(w.table), tier |-> t]
                                         ELSE sstFiles[p]]
  BY <1>0 DEF FlushBuild, CalmFaults
<1>2. /\ UNCHANGED <<mode, activeMemtable, immutableMemtable, sstReaders, compactor>>
      /\ w.pc = "building" /\ Goto("worker", "built")
      /\ "worker" \in Flushers /\ "closer" \in Flushers \ {"worker"}
  BY <1>0 DEF FlushBuild, CalmFaults, memory, control, At, Flushers
<1>3. /\ flusher'["worker"].pc = "built" /\ flusher'["worker"].path = w.path
      /\ flusher'["worker"].table = w.table /\ flusher'["closer"] = flusher["closer"]
  BY <1>0, <1>2, OneFlusher
<1>4. /\ w.table = immutableMemtable /\ immutableMemtable # None
      /\ \A s \in DOMAIN sstReaders : sstReaders[s].path # w.path
      /\ \A s \in DOMAIN compactor.group : compactor.group[s].path # w.path
  BY <1>0, <1>2 DEF KVInv, WorkerInv, Publishing
<1>5. SlotsInv'
  <2>1. \A s \in DOMAIN sstReaders :
            /\ sstReaders[s].path \in DOMAIN sstFiles <=> sstReaders[s].path \in DOMAIN sstFiles'
            /\ sstReaders[s].path \in DOMAIN sstFiles =>
                   sstFiles'[sstReaders[s].path] = sstFiles[sstReaders[s].path]
    BY <1>1, <1>4
  <2> QED
    BY <1>2, <2>1, SlotsFrame DEF KVInv
<1>6. sstFiles'[w.path].data = OnDisk(w.table) /\ w.path \in DOMAIN sstFiles'
  BY <1>1
<1>7. WorkerInv'
  BY <1>2, <1>3, <1>4, <1>6 DEF KVInv, WorkerInv, Publishing, FileHolds, OnDisk
<1> QED
  BY <1>2, <1>5, <1>7, UnseenFrame DEF KVInv, MemtablesInv

LEMMA VerifyUnseen ==
    ASSUME TypeInv, KVInv, CalmFaults \cap Events = {}, FlushVerify("worker")
    PROVE  KVInv' /\ Unseen
<1>1. /\ "worker" \in Flushers /\ "closer" \in Flushers \ {"worker"}
      /\ flusher["worker"].pc = "built"
  BY DEF FlushVerify, At, Flushers
<1>2. immutableMemtable # None /\ flusher["worker"].table = immutableMemtable
  BY <1>1 DEF KVInv, WorkerInv, Publishing
<1>3. /\ UNCHANGED <<mode, activeMemtable, immutableMemtable, sstReaders, sstFiles, compactor>>
      /\ Return("worker", TRUE) \/ Goto("worker", "verified")
  BY <1>2 DEF FlushVerify, CalmFaults, memory, disk, control
<1>4. CASE Return("worker", TRUE)
  <2>1. flusher'["worker"].pc = "idle" /\ flusher'["closer"] = flusher["closer"]
    BY <1>1, <1>4, OneFlusher DEF Return, Idle, TypeInv, TypeOK
  <2> QED
    BY <1>3, <2>1, WorkerStep DEF Publishing
<1>5. CASE Goto("worker", "verified")
  <2>1. /\ flusher'["worker"].pc = "verified" /\ flusher'["closer"] = flusher["closer"]
        /\ flusher'["worker"].path = flusher["worker"].path
        /\ flusher'["worker"].table = flusher["worker"].table
    BY <1>1, <1>5, OneFlusher
  <2> QED
    BY <1>1, <1>3, <2>1, WorkerStep DEF Publishing
<1> QED
  BY <1>3, <1>4, <1>5

\* FlushPublish: the SSTable answers for the memtable it takes the place of.
LEMMA PublishUnseen ==
    ASSUME TypeInv, KVInv, FlushPublish("worker")
    PROVE  KVInv' /\ Unseen
<1>1. /\ "worker" \in Flushers /\ "closer" \in Flushers \ {"worker"}
      /\ flusher["worker"].pc = "verified" /\ Goto("worker", "published")
      /\ UNCHANGED <<mode, activeMemtable, compactor, sstFiles>> /\ immutableMemtable' = None
  BY DEF FlushPublish, At, Flushers, disk, control
<1>2. immutableMemtable # None /\ flusher["worker"].table = immutableMemtable
  BY <1>1 DEF KVInv, WorkerInv, Publishing
<1>3. flusher'["worker"].pc = "published" /\ flusher'["closer"] = flusher["closer"]
  BY <1>1, OneFlusher
<1>4. WorkerInv' /\ MemtablesInv'
  BY <1>1, <1>3 DEF KVInv, WorkerInv, MemtablesInv, Publishing
<1>5. SlotsInv'
  BY SlotsPublish DEF KVInv
<1>6. ASSUME NEW k \in Keys PROVE Get(k)' = Get(k)
  <2> DEFINE m == immutableMemtable[k]
  <2>1. /\ DOMAIN sstReaders \subseteq 0 .. clock /\ clock \in Nat /\ clock \in 0 .. clock
        /\ \A s \in DOMAIN sstReaders : s < clock
    BY DEF TypeInv, TypeOK, Stamps
  <2>2. /\ DOMAIN sstReaders' = DOMAIN sstReaders \cup {clock}
        /\ \A s \in DOMAIN sstReaders : sstReaders'[s] = sstReaders[s]
        /\ sstReaders'[clock].data = OnDisk(immutableMemtable)
    BY <1>2, <2>1 DEF FlushPublish
  <2>3. Adds(sstReaders, clock, sstReaders', clock)
    BY <2>1, <2>2 DEF Adds
  <2>4. Newest(sstReaders', k) = IF sstReaders'[clock].data[k] # Absent
                                 THEN sstReaders'[clock].data[k] ELSE Newest(sstReaders, k)
    BY <2>3, NewestAdded
  <2>5. sstReaders'[clock].data[k] = IF m = Nil THEN Empty ELSE m
    BY <2>2 DEF OnDisk
  <2>6. m # Empty
    BY <1>2 DEF KVInv, MemtablesInv
  <2>7. Newest(sstReaders', k) = IF m = Absent THEN Newest(sstReaders, k)
                                 ELSE IF m = Nil THEN Empty ELSE m
    BY <2>4, <2>5, ConstantsAssumption
  <2> HIDE DEF m
  <2>8. Get(k)' = IF activeMemtable[k] # Absent THEN activeMemtable[k]
                  ELSE IF Newest(sstReaders', k) \in {Absent, Empty} THEN Nil
                  ELSE Newest(sstReaders', k)
    BY <1>1 DEF Get
  <2>9. Get(k) = IF activeMemtable[k] # Absent THEN activeMemtable[k]
                 ELSE IF m # Absent THEN m
                 ELSE IF Newest(sstReaders, k) \in {Absent, Empty} THEN Nil
                 ELSE Newest(sstReaders, k)
    BY <1>2 DEF Get, m
  <2> QED
    BY <2>6, <2>7, <2>8, <2>9, ConstantsAssumption
<1> QED
  BY <1>4, <1>5, <1>6 DEF KVInv, Unseen

LEMMA FlushUnseen ==
    ASSUME TypeInv, KVInv, CalmFaults \cap Events = {}, NEW f \in Flushers, Flush(f)
    PROVE  KVInv' /\ Unseen
<1>1. CASE f = "closer"
  <2>1. flusher["closer"].pc = "idle"
    BY DEF KVInv, WorkerInv
  <2> QED
    BY <1>1, <2>1
    DEF Flush, FlushBegin, FlushCapture, FlushBuild, FlushVerify, FlushPublish, FlushCleanup,
        FlushRecover, FlushRelog, FlushDrop, At
<1>2. CASE f = "worker"
  <2>1. CASE FlushCleanup("worker")
    <3>1. /\ "worker" \in Flushers /\ "closer" \in Flushers \ {"worker"}
          /\ UNCHANGED <<mode, activeMemtable, immutableMemtable, sstReaders, sstFiles, compactor>>
      BY <2>1 DEF FlushCleanup, Flushers, memory, control
    <3>2. flusher'["worker"].pc = "idle" /\ flusher'["closer"] = flusher["closer"]
      BY <2>1, <3>1, OneFlusher DEF FlushCleanup, Return, Idle, TypeInv, TypeOK
    <3> QED
      BY <3>1, <3>2, WorkerStep DEF Publishing
  <2>2. flusher["worker"].pc \notin {"failed", "relogging"}
    BY DEF KVInv, WorkerInv, Publishing
  <2>3. ~FlushRecover("worker") /\ ~FlushRelog("worker") /\ ~FlushDrop("worker")
    BY <2>2 DEF FlushRecover, FlushRelog, FlushDrop, At
  <2> QED
    BY <1>2, <2>1, <2>3, RotateUnseen, CaptureUnseen, BuildUnseen, VerifyUnseen, PublishUnseen
    DEF Flush
<1> QED
  BY <1>1, <1>2 DEF Flushers

LEMMA CompactionUnseen ==
    ASSUME TypeInv, KVInv, \A t, u \in Tiers : t = u, Compaction
    PROVE  KVInv' /\ Unseen
<1>1. UNCHANGED <<activeMemtable, immutableMemtable>>
  BY DEF Compaction, CompactSelect, CompactMerge, CompactSwap, CompactDelete, memory
<1>2. KVInv'
  BY <1>1, WorkerCompaction, SlotsSelect, SlotsMerge, SlotsSwap, SlotsDelete
  DEF Compaction, KVInv, MemtablesInv
<1>3. CASE sstReaders' = sstReaders
  BY <1>1, <1>2, <1>3, UnseenFrame
<1>4. CASE sstReaders' # sstReaders
  <2> DEFINE r == [fd |-> clock, path |-> MergedPath, data |-> compactor.merged]
  <2>1. compactor.pc = "built" /\ sstReaders' = Rebuild(r) /\ r.data = compactor.merged
    BY <1>4 DEF Compaction, CompactSelect, CompactMerge, CompactSwap, CompactDelete, memory
  <2> HIDE DEF r
  <2>2. /\ DOMAIN sstReaders \subseteq 0 .. clock /\ clock \in Nat
        /\ \A s \in DOMAIN compactor.group : s <= clock
    BY DEF TypeInv, TypeOK, Stamps
  <2>3. DOMAIN sstReaders' \subseteq 0 .. clock
    <3>1. PICK W : W = DOMAIN compactor.group
      OBVIOUS
    <3>2. SwapOf(sstReaders, W, Oldest(W), Latest(W), sstReaders')
      BY <2>1, <3>1, SwapShape DEF KVInv
    <3> QED
      BY <2>2, <3>2 DEF SwapOf
  <2>4. ASSUME NEW k \in Keys PROVE Newest(sstReaders', k) = Newest(sstReaders, k)
    <3>1. IsNewest(sstReaders, k, Newest(sstReaders, k))
      BY <2>2, NewestIs
    <3>2. UpTo(sstReaders, clock, k, Newest(sstReaders, k))
      BY <2>2, <3>1, UpToAll
    <3>3. UpTo(sstReaders', clock, k, Newest(sstReaders, k))
      BY <2>1, <2>2, <3>2, SwapKeeps DEF KVInv
    <3>4. IsNewest(sstReaders', k, Newest(sstReaders, k))
      BY <2>2, <2>3, <3>3, UpToAll
    <3> QED
      BY <2>2, <2>3, <3>4, NewestIs
  <2> QED
    BY <1>1, <1>2, <2>4 DEF Unseen, Get
<1> QED
  BY <1>3, <1>4

\* A write is seen at once, for its key alone, and acknowledged, or not at all.
LEMMA WriteSeen ==
    ASSUME TypeInv, KVInv, NEW k \in Keys, NEW c \in Values \cup {Nil}, Write(k, c)
    PROVE  /\ KVInv' /\ writes' = writes + 1
           /\ \/ Unseen /\ acked' = acked
              \/ /\ \A j \in Keys : Get(j)' = IF j = k THEN c ELSE Get(j)
                 /\ acked' = [acked EXCEPT ![k] = c]
<1>1. writes' = writes + 1 /\ UNCHANGED <<mode, immutableMemtable, sstReaders, sstFiles, flusher, compactor>>
  BY DEF Write, workers
<1>2. \/ UNCHANGED <<activeMemtable, acked>>
      \/ activeMemtable' = [activeMemtable EXCEPT ![k] = c] /\ acked' = [acked EXCEPT ![k] = c]
  BY DEF Write, WriteSucceeds, WriteFails
<1>3. activeMemtable \in [Keys -> Cells] /\ c # Absent /\ c # Empty
  BY ConstantsAssumption DEF TypeInv, TypeOK, Table
<1>4. SlotsInv'
  BY <1>1, SlotsFrame DEF KVInv
<1>5. WorkerInv'
  BY <1>1 DEF KVInv, WorkerInv, FileHolds
<1>6. MemtablesInv'
  BY <1>1, <1>2, <1>3 DEF KVInv, MemtablesInv
<1>7. CASE UNCHANGED <<activeMemtable, acked>>
  BY <1>1, <1>4, <1>5, <1>6, <1>7, UnseenFrame DEF KVInv
<1>8. CASE activeMemtable' = [activeMemtable EXCEPT ![k] = c] /\ acked' = [acked EXCEPT ![k] = c]
  <2>1. \A j \in Keys : activeMemtable'[j] = IF j = k THEN c ELSE activeMemtable[j]
    BY <1>3, <1>8
  <2>2. \A j \in Keys : Get(j)' = IF j = k THEN c ELSE Get(j)
    BY <1>1, <1>3, <2>1 DEF Get
  <2> QED
    BY <1>1, <1>4, <1>5, <1>6, <1>8, <2>2 DEF KVInv
<1> QED
  BY <1>1, <1>2, <1>7, <1>8

\* The workers write for no client and acknowledge nothing.
LEMMA WorkersSilent ==
    ASSUME NEW f \in Flushers, WorkerReceive \/ Flush(f) \/ Compaction
    PROVE  acked' = acked /\ writes' = writes
<1>1. CASE WorkerReceive
  BY <1>1 DEF WorkerReceive, history
<1>2. CASE Flush(f)
  BY <1>2 DEF Flush, FlushBegin, FlushCapture, FlushBuild, FlushVerify, FlushPublish, FlushCleanup,
              FlushRecover, FlushRelog, FlushDrop, Panic, history
<1>3. CASE Compaction
  BY <1>3 DEF Compaction, CompactSelect, CompactMerge, CompactSwap, CompactDelete, history
<1> QED
  BY <1>1, <1>2, <1>3

LEMMA StepSeen ==
    ASSUME TypeInv, KVInv, CalmFaults \cap Events = {}, \A t, u \in Tiers : t = u, [Next]_vars
    PROVE  /\ KVInv'
           /\ \/ Unseen /\ acked' = acked /\ writes' \in {writes, writes + 1}
              \/ \E k \in Keys, c \in Values \cup {Nil} :
                     /\ writes' = writes + 1
                     /\ \A j \in Keys : Get(j)' = IF j = k THEN c ELSE Get(j)
                     /\ acked' = [acked EXCEPT ![k] = c]
<1>1. CASE UNCHANGED vars
  <2>1. UNCHANGED <<mode, activeMemtable, immutableMemtable, sstReaders, sstFiles, flusher, compactor, acked, writes>>
    BY <1>1 DEF vars, memory, disk, workers, control, history
  <2> QED
    BY <2>1, SlotsFrame, UnseenFrame DEF KVInv, WorkerInv, MemtablesInv, FileHolds
<1>2. CASE \E k \in Keys : Delete(k) \/ \E v \in Values : Put(k, v)
  BY <1>2, WriteSeen DEF Put, Delete
<1>3. CASE WorkerReceive
  <2>1. /\ "worker" \in Flushers /\ "closer" \in Flushers \ {"worker"} /\ Goto("worker", "start")
        /\ UNCHANGED <<mode, activeMemtable, immutableMemtable, sstReaders, sstFiles, compactor>>
    BY <1>3 DEF WorkerReceive, Flushers, memory, disk
  <2>2. flusher'["worker"].pc = "start" /\ flusher'["closer"] = flusher["closer"]
    BY <2>1, OneFlusher
  <2> QED
    BY <1>3, <2>1, <2>2, WorkerStep, WorkersSilent DEF Publishing
<1>4. ~(CloseBegin \/ CloseDrain \/ CloseEnd \/ Crash \/ OpenRelog \/ OpenFinish)
  BY DEF CloseBegin, CloseDrain, CloseEnd, Crash, OpenRelog, OpenFinish, At, CalmFaults, KVInv, WorkerInv
<1>5. ASSUME NEW f \in Flushers, Flush(f) PROVE KVInv' /\ Unseen /\ acked' = acked /\ writes' = writes
  BY <1>5, FlushUnseen, WorkersSilent
<1>6. CASE Compaction
  <2>1. "worker" \in Flushers
    BY DEF Flushers
  <2> QED
    BY <1>6, <2>1, CompactionUnseen, WorkersSilent
<1> QED
  BY <1>1, <1>2, <1>3, <1>4, <1>5, <1>6 DEF Next, Flushers

\* While the process runs on (no Close, no crash, no flush given up) and its
\* files have one tier, the engine is the map KVStore to its callers: every Put
\* and Delete of stratago.go takes effect at once, in its own key, or not at all,
\* and no step that is not a write changes any key: rotation, flush, merge, swap
\* and the removal of the compacted files are never seen, however they interleave
\* and whichever WAL write, rotation, opening or merge fails.
THEOREM EngineIsMap ==
    ASSUME CalmFaults \cap Events = {}, \A t, u \in Tiers : t = u
    PROVE  Spec => ImplementsKVStore
<1>1. Init => KV!Init
  <2> SUFFICES ASSUME Init PROVE \A k \in Keys : Get(k) = Nil
    BY DEF KV!Init, Init
  <2>1. /\ DOMAIN sstReaders = {} /\ immutableMemtable = None
        /\ \A k \in Keys : activeMemtable[k] = Absent
    BY DEF Init, EmptyTable
  <2>2. \A k \in Keys : Newest(sstReaders, k) = Absent
    BY <2>1 DEF Newest
  <2> QED
    BY <2>1, <2>2 DEF Get
<1> DEFINE store == [k \in Keys |-> Get(k)]
<1>2. TypeInv /\ KVInv /\ [Next]_vars => KVInv' /\ [KV!Next]_<<store, writes>>
  <2> SUFFICES ASSUME TypeInv, KVInv, [Next]_vars
               PROVE  KVInv' /\ [KV!Next]_<<store, writes>>
    OBVIOUS
  <2>1. CASE Unseen /\ writes' \in {writes, writes + 1}
    <3>1. store' = store
      BY <2>1 DEF Unseen
    <3>2. CASE writes' = writes
      BY <3>1, <3>2, StepSeen
    <3>3. CASE writes' = writes + 1
      BY <3>1, <3>3, StepSeen DEF KV!Next, KV!Fail
    <3> QED
      BY <2>1, <3>2, <3>3
  <2>2. ASSUME NEW k \in Keys, NEW c \in Values \cup {Nil}, writes' = writes + 1,
               \A j \in Keys : Get(j)' = IF j = k THEN c ELSE Get(j)
        PROVE  KV!Next
    <3>1. store' = [store EXCEPT ![k] = c]
      BY <2>2
    <3> QED
      BY <2>2, <3>1 DEF KV!Next, KV!Put, KV!Delete
  <2> QED
    BY <2>1, <2>2, StepSeen
<1> QED
  BY <1>1, <1>2, KVInit, TypeInvAlways, PTL DEF Spec, ImplementsKVStore, KV!Spec

LEMMA AckedInit == Init => ReadsLastAcked
<1> SUFFICES ASSUME Init PROVE \A k \in Keys : Get(k) = acked[k]
  BY DEF ReadsLastAcked
<1>1. /\ DOMAIN sstReaders = {} /\ immutableMemtable = None
      /\ \A k \in Keys : activeMemtable[k] = Absent /\ acked[k] = Nil
  BY DEF Init, EmptyTable
<1>2. \A k \in Keys : Newest(sstReaders, k) = Absent
  BY <1>1 DEF Newest
<1> QED
  BY <1>1, <1>2 DEF Get

\* Under the same conditions Get of stratago.go answers with the last write it
\* acknowledged, and never with one it reported as failed, at every step of a
\* flush or a compaction.
THEOREM ReadsAreLastAcked ==
    ASSUME CalmFaults \cap Events = {}, \A t, u \in Tiers : t = u
    PROVE  Spec => []ReadsLastAcked
<1>1. ASSUME TypeInv, KVInv, ReadsLastAcked, [Next]_vars PROVE KVInv' /\ ReadsLastAcked'
  <2>1. KVInv' /\ mode = "up" /\ acked \in [Keys -> Values \cup {Nil}]
    BY <1>1, StepSeen DEF KVInv, WorkerInv, TypeInv, TypeOK
  <2>2. \A j \in Keys : Get(j) = acked[j]
    BY <1>1, <2>1 DEF ReadsLastAcked
  <2>3. CASE Unseen /\ acked' = acked
    BY <2>1, <2>2, <2>3 DEF Unseen, ReadsLastAcked
  <2>4. ASSUME NEW k \in Keys, NEW c \in Values \cup {Nil},
               \A j \in Keys : Get(j)' = IF j = k THEN c ELSE Get(j),
               acked' = [acked EXCEPT ![k] = c]
        PROVE  ReadsLastAcked'
    <3>1. \A j \in Keys : acked'[j] = IF j = k THEN c ELSE acked[j]
      BY <2>1, <2>4
    <3>2. \A j \in Keys : Get(j)' = acked'[j]
      BY <2>2, <2>4, <3>1
    <3> QED
      BY <3>2 DEF ReadsLastAcked
  <2> QED
    BY <1>1, <2>1, <2>3, <2>4, StepSeen
<1> QED
  BY <1>1, AckedInit, KVInit, TypeInvAlways, PTL DEF Spec

-----------------------------------------------------------------------------
(* PanicsOnlyInClose *)

\* Unless Close is under way there is one Flush, and from the rotation until it
\* publishes or drops it the immutable memtable is there.
OwnsMemtable ==
    mode = "up" /\ ~closed =>
        /\ flusher["closer"].pc = "idle"
        /\ flusher["worker"].pc \in Publishing \cup {"rotated", "failed", "relogging"} =>
               immutableMemtable # None

LEMMA OwnsFlush ==
    ASSUME TypeInv, OwnsMemtable, ~closed, NEW f \in Flushers, Flush(f)
    PROVE  OwnsMemtable' /\ mode' # "panicked"
<1>1. mode = "up" /\ f = "worker"
  BY DEF OwnsMemtable, Flushers, Flush, FlushBegin, FlushCapture, FlushBuild, FlushVerify,
         FlushPublish, FlushCleanup, FlushRecover, FlushRelog, FlushDrop, At
<1>2. /\ flusher["closer"].pc = "idle" /\ "worker" \in Flushers /\ "closer" \in Flushers \ {"worker"}
      /\ flusher["worker"].pc \in Publishing \cup {"rotated", "failed", "relogging"} =>
               immutableMemtable # None
      /\ flusher \in [Flushers -> [pc : FlushPcs, path : Stamps, table : Table]]
  BY <1>1 DEF OwnsMemtable, TypeInv, TypeOK, Flushers
<1>3. ASSUME NEW p, Goto("worker", p) PROVE flusher'["worker"].pc = p /\ flusher'["closer"] = flusher["closer"]
  BY <1>2, <1>3, OneFlusher
<1>4. ASSUME NEW err, Return("worker", err)
      PROVE  flusher'["worker"].pc = "idle" /\ flusher'["closer"] = flusher["closer"]
  BY <1>2, <1>4 DEF Return, Idle
\* It is enough to see the worker keep the memtable while it needs it.
<1>5. ASSUME UNCHANGED mode, flusher'["closer"] = flusher["closer"],
             flusher'["worker"].pc \in Publishing \cup {"rotated", "failed", "relogging"} =>
                 immutableMemtable' # None
      PROVE  OwnsMemtable' /\ mode' # "panicked"
  BY <1>1, <1>2, <1>5 DEF OwnsMemtable
<1>6. CASE FlushBegin("worker")
  <2>1. UNCHANGED mode
    BY <1>6 DEF FlushBegin, control
  <2>2. activeMemtable # None
    BY ConstantsAssumption DEF TypeInv, TypeOK
  <2>3. CASE \E err : Return("worker", err)
    BY <1>4, <1>5, <2>1, <2>3 DEF Publishing
  <2>4. CASE Goto("worker", "rotated") /\ immutableMemtable' # None
    BY <1>3, <1>5, <2>1, <2>4
  <2> QED
    BY <1>6, <2>2, <2>3, <2>4 DEF FlushBegin, Rotate, memory
<1>7. CASE FlushCapture("worker")
  <2>1. immutableMemtable # None
    BY <1>2, <1>7 DEF FlushCapture, At
  <2>2. UNCHANGED <<mode, immutableMemtable>> /\ flusher'["closer"] = flusher["closer"]
    BY <1>2, <1>7, <2>1 DEF FlushCapture, control, memory
  <2> QED
    BY <1>5, <2>1, <2>2
<1>8. CASE FlushBuild("worker")
  <2>1. /\ immutableMemtable # None /\ UNCHANGED <<mode, immutableMemtable>>
        /\ \E p : Goto("worker", p)
    BY <1>2, <1>8 DEF FlushBuild, At, Publishing, memory, control
  <2> QED
    BY <1>3, <1>5, <2>1
<1>9. CASE FlushVerify("worker")
  <2>1. immutableMemtable # None
    BY <1>2, <1>9 DEF FlushVerify, At, Publishing
  <2>2. UNCHANGED <<mode, immutableMemtable>>
    BY <1>9, <2>1 DEF FlushVerify, memory, control
  <2>3. (\E p : Goto("worker", p)) \/ (\E err : Return("worker", err))
    BY <1>9, <2>1 DEF FlushVerify
  <2> QED
    BY <1>3, <1>4, <1>5, <2>1, <2>2, <2>3
<1>10. CASE FlushPublish("worker")
  <2>1. Goto("worker", "published") /\ UNCHANGED mode
    BY <1>10 DEF FlushPublish, control
  <2> QED
    BY <1>3, <1>5, <2>1 DEF Publishing
<1>11. CASE FlushCleanup("worker") \/ FlushDrop("worker")
  <2>1. (\E err : Return("worker", err)) /\ UNCHANGED mode
    BY <1>11 DEF FlushCleanup, FlushDrop, control
  <2> QED
    BY <1>4, <1>5, <2>1 DEF Publishing
<1>12. CASE FlushRecover("worker") \/ FlushRelog("worker")
  <2>1. immutableMemtable # None
    BY <1>2, <1>12 DEF FlushRecover, FlushRelog, At
  <2>2. UNCHANGED <<mode, immutableMemtable>> /\ flusher'["closer"] = flusher["closer"]
    BY <1>2, <1>12, <2>1 DEF FlushRecover, FlushRelog, control, memory
  <2> QED
    BY <1>5, <2>1, <2>2
<1> QED
  BY <1>1, <1>6, <1>7, <1>8, <1>9, <1>10, <1>11, <1>12 DEF Flush

LEMMA OwnsStep ==
    ASSUME TypeInv, Quiet, OwnsMemtable, [Next]_vars
    PROVE  OwnsMemtable' /\ (mode # "panicked" /\ mode' = "panicked" => closed)
<1>1. CASE UNCHANGED <<mode, closed, immutableMemtable, flusher>>
  BY <1>1 DEF OwnsMemtable
<1>2. CASE UNCHANGED vars \/ Compaction \/ \E k \in Keys : \E c : Write(k, c)
  BY <1>1, <1>2 DEF vars, memory, workers, control, Write, Compaction, CompactSelect,
                    CompactMerge, CompactSwap, CompactDelete
<1>3. CASE WorkerReceive
  <2>1. /\ "worker" \in Flushers /\ "closer" \in Flushers \ {"worker"} /\ Goto("worker", "start")
        /\ UNCHANGED <<mode, closed, immutableMemtable>>
    BY <1>3 DEF WorkerReceive, Flushers, memory
  <2>2. flusher'["worker"].pc = "start" /\ flusher'["closer"] = flusher["closer"]
    BY <2>1, OneFlusher
  <2> QED
    BY <2>1, <2>2 DEF OwnsMemtable, Publishing
<1>4. ASSUME NEW f \in Flushers, Flush(f)
      PROVE  OwnsMemtable' /\ (mode' = "panicked" => closed)
  <2>1. CASE ~closed
    BY <1>4, <2>1, OwnsFlush
  <2>2. CASE closed
    <3>1. closed' \/ mode' # "up"
      BY <1>4, <2>2
      DEF Flush, FlushBegin, FlushCapture, FlushBuild, FlushVerify, FlushPublish, FlushCleanup,
          FlushRecover, FlushRelog, FlushDrop, Panic, Stop, control
    <3> QED
      BY <2>2, <3>1 DEF OwnsMemtable
  <2> QED
    BY <2>1, <2>2
<1>5. CASE CloseBegin \/ CloseDrain
  <2>1. closed' /\ mode' = mode
    <3>1. CASE CloseBegin
      BY <3>1 DEF CloseBegin
    <3>2. CASE CloseDrain
      BY <3>2 DEF CloseDrain, At, OwnsMemtable
    <3> QED
      BY <1>5, <3>1, <3>2
  <2> QED
    BY <2>1 DEF OwnsMemtable
<1>6. CASE CloseEnd \/ Crash
  BY <1>6 DEF CloseEnd, Crash, Stop, OwnsMemtable
<1>7. CASE OpenRelog
  BY <1>7 DEF OpenRelog, OwnsMemtable
<1>8. CASE OpenFinish
  <2>1. mode # "up" /\ mode' = "up" /\ UNCHANGED flusher
    BY <1>8 DEF OpenFinish, workers
  <2>2. flusher["worker"].pc = "idle" /\ flusher["closer"].pc = "idle"
    BY <2>1 DEF Quiet, Flushers, Idle
  <2> QED
    BY <2>1, <2>2 DEF OwnsMemtable, Publishing
<1> QED
  BY <1>2, <1>3, <1>4, <1>5, <1>6, <1>7, <1>8 DEF Next, Put, Delete, Flushers

\* The flush worker never finds the immutable memtable gone, whatever I/O call
\* fails and whenever the process is killed and restarted: Flush (flush.go)
\* panics only against the second Flush that Close runs.
THEOREM WorkerPanicsOnlyInClose == Spec => PanicsOnlyInClose
<1>1. Init => OwnsMemtable
  BY DEF Init, OwnsMemtable, Idle, Publishing
<1>2. TypeInv /\ Quiet /\ OwnsMemtable /\ [Next]_vars =>
          OwnsMemtable' /\ [mode # "panicked" /\ mode' = "panicked" => closed]_vars
  BY OwnsStep
<1> QED
  BY <1>1, <1>2, TypeInvAlways, QuietAlways, PTL DEF Spec, PanicsOnlyInClose

\* So an engine that is never closed never panics.
THEOREM NoPanicWithoutClose == "close" \notin Events => (Spec => []NoPanic)
<1> SUFFICES ASSUME "close" \notin Events PROVE Spec => []NoPanic
  OBVIOUS
<1> DEFINE I == ~closed /\ NoPanic
<1>1. Init => I /\ OwnsMemtable
  BY DEF Init, NoPanic, OwnsMemtable, Idle, Publishing
<1>2. ASSUME TypeInv, Quiet, OwnsMemtable, I, [Next]_vars PROVE OwnsMemtable' /\ I'
  <2>1. OwnsMemtable' /\ mode' # "panicked"
    BY <1>2, OwnsStep DEF NoPanic
  <2>2. ~closed'
    BY <1>2 DEF vars, control, workers, Next, Put, Delete, Write, WorkerReceive, Flush, FlushBegin,
       FlushCapture, FlushBuild, FlushVerify, FlushPublish, FlushCleanup, FlushRecover, FlushRelog,
       FlushDrop, Panic, Stop, Compaction, CompactSelect, CompactMerge, CompactSwap, CompactDelete,
       CloseBegin, CloseDrain, CloseEnd, Crash, OpenRelog, OpenFinish
  <2> QED
    BY <2>1, <2>2 DEF NoPanic
<1>3. I => NoPanic
  OBVIOUS
<1> QED
  BY <1>1, <1>2, <1>3, TypeInvAlways, QuietAlways, PTL DEF Spec

-----------------------------------------------------------------------------
(* MemoryDurable *)

\* The faults that can bring memtables and WAL files apart: two Flush calls at
\* once, a broken or failed record, a flush that re-logs its memtable, a rotation
\* that cannot be undone, a wal.log.flushing that Open passes over.
LogFaults == {"close", "torn", "walio", "build", "verify", "rename", "openlog"}

\* The inductive strengthening of MemoryDurable.  Close never runs; the flush
\* worker holds the immutable memtable it captured until it has published it;
\* inside Open the WAL covers what was taken over from wal.log.flushing.
LogInv ==
    /\ MemoryDurable
    /\ walTorn = FALSE /\ flusher["closer"].pc = "idle"
    /\ flusher["worker"].pc \in
          {"idle", "start", "rotated", "building", "built", "verified", "published"}
    /\ flusher["worker"].pc \in {"building", "built", "verified"} =>
          immutableMemtable # None /\ flusher["worker"].table = immutableMemtable
    /\ flusher["worker"].pc = "published" => immutableMemtable = None
    /\ mode = "relogged" => \A k \in Keys : activeMemtable[k] # Absent => wal[k] # Absent

LEMMA LogInit == Init => LogInv
<1> SUFFICES ASSUME Init PROVE LogInv
  OBVIOUS
<1>1. OnDisk(EmptyTable) = EmptyTable
  BY ConstantsAssumption DEF OnDisk, EmptyTable
<1>2. flusher["closer"].pc = "idle" /\ flusher["worker"].pc = "idle"
  BY DEF Init, Idle
<1>3. walTorn = FALSE
  BY DEF Init
<1>4. MemoryDurable /\ mode = "up"
  BY <1>1 DEF Init, MemoryDurable
<1> QED
  BY <1>2, <1>3, <1>4 DEF LogInv

\* A logged write keeps wal.log the image of the active memtable.
LEMMA LogWrite ==
    ASSUME TypeInv, LogInv, LogFaults \cap Events = {},
           NEW k \in Keys, NEW c \in Values \cup {Nil}, Write(k, c)
    PROVE  LogInv'
<1>1. "walio" \notin Events
  BY DEF LogFaults
<1>2. mode = "up" /\ wal = OnDisk(activeMemtable) /\ activeMemtable \in Table /\ ~walTorn
  BY DEF Write, LogInv, MemoryDurable, TypeInv, TypeOK
<1>3. UNCHANGED <<mode, immutableMemtable, flushing, flusher>>
  BY DEF Write, workers
<1>4. walTorn' = FALSE
  BY <1>1 DEF Write, WriteSucceeds, WriteFails, WriteEntryFails, LogInv
<1>5. wal' = OnDisk(activeMemtable')
  <2>1. CASE WriteSucceeds(k, c)
    <3>1. wal' = Overlay(wal, OnDisk(Record(k, c)))
      BY <1>2, <2>1 DEF WriteSucceeds, WriteEntries
    <3>2. activeMemtable' = [activeMemtable EXCEPT ![k] = c]
      BY <2>1 DEF WriteSucceeds
    <3>3. c # Absent
      BY ConstantsAssumption
    <3> QED
      BY <1>2, <3>1, <3>2, <3>3, ConstantsAssumption
      DEF Overlay, OnDisk, Record, EmptyTable, Table
  <2>2. CASE WriteFails(k, c)
    BY <1>1, <1>2, <2>2 DEF WriteFails, WriteEntryFails
  <2> QED
    BY <2>1, <2>2 DEF Write
<1> QED
  BY <1>2, <1>3, <1>4, <1>5 DEF LogInv, MemoryDurable

\* Stop keeps what LogInv says of the disk.
LEMMA LogStop ==
    ASSUME NEW m \in {"down", "panicked"}, Stop(m), walTorn' = FALSE
    PROVE  LogInv'
<1>1. flusher'["closer"].pc = "idle" /\ flusher'["worker"].pc = "idle"
  BY DEF Stop, Idle
<1>2. mode' # "up" /\ mode' # "relogged"
  BY DEF Stop
<1> QED
  BY <1>1, <1>2 DEF LogInv, MemoryDurable

\* One Flush of the worker, step by step.
LEMMA LogFlush ==
    ASSUME TypeInv, LogInv, LogFaults \cap Events = {}, Flush("worker")
    PROVE  LogInv'
<1>1. /\ "build" \notin Events /\ "verify" \notin Events /\ mode = "up"
      /\ flusher \in [Flushers -> [pc : FlushPcs, path : Stamps, table : Table]]
  BY DEF LogFaults, TypeInv, TypeOK, Flushers, Flush, FlushBegin, FlushCapture, FlushBuild,
         FlushVerify, FlushPublish, FlushCleanup, FlushRecover, FlushRelog, FlushDrop, At
<1>2. ASSUME NEW pc, Goto("worker", pc)
      PROVE  /\ flusher'["worker"].pc = pc /\ flusher'["worker"].table = flusher["worker"].table
             /\ flusher'["closer"] = flusher["closer"]
  BY <1>1, <1>2 DEF Goto, Flushers
<1>3. ASSUME NEW err, Return("worker", err)
      PROVE  flusher'["worker"].pc = "idle" /\ flusher'["closer"] = flusher["closer"]
  BY <1>1, <1>3 DEF Return, Flushers, Idle
<1>4. CASE FlushBegin("worker")
  <2>1. mode' = "up"
    BY <1>1, <1>4 DEF FlushBegin, control
  <2>2. CASE UNCHANGED <<memory, disk>>
    <3>1. /\ flusher'["worker"].pc \in {"idle", "rotated"}
          /\ flusher'["closer"] = flusher["closer"]
      BY <1>2, <1>3, <1>4 DEF FlushBegin
    <3> QED
      BY <1>1, <2>1, <2>2, <3>1 DEF memory, disk, LogInv, MemoryDurable
  <2>3. CASE Rotate /\ Goto("worker", "rotated")
    <3>1. OnDisk(EmptyTable) = EmptyTable
      BY ConstantsAssumption DEF OnDisk, EmptyTable
    <3>2. wal' = OnDisk(activeMemtable') /\ flushing' = OnDisk(immutableMemtable')
      BY <1>1, <2>3, <3>1 DEF Rotate, LogInv, MemoryDurable
    <3>3. walTorn' = FALSE
      BY <2>3 DEF Rotate
    <3> QED
      BY <1>2, <2>1, <2>3, <3>2, <3>3 DEF LogInv, MemoryDurable
  <2>4. CASE RotateFails /\ Return("worker", TRUE) /\ immutableMemtable = None
    BY <1>1, <1>3, <2>1, <2>4 DEF LogFaults, RotateFails, LogInv, MemoryDurable
  <2> QED
    BY <1>4, <2>2, <2>3, <2>4 DEF FlushBegin
<1>5. ASSUME Panic PROVE LogInv'
  <2>1. walTorn' = FALSE
    BY <1>5 DEF Panic, disk, LogInv
  <2> QED
    BY <1>5, <2>1, LogStop DEF Panic
<1>6. CASE FlushCapture("worker")
  <2>1. CASE immutableMemtable # None
    <3>1. /\ flusher'["worker"].pc = "building" /\ flusher'["worker"].table = immutableMemtable
          /\ flusher'["closer"] = flusher["closer"]
      BY <1>1, <1>6, <2>1 DEF FlushCapture, Flushers
    <3> QED
      BY <1>6, <2>1, <3>1 DEF FlushCapture, memory, disk, control, LogInv, MemoryDurable
  <2> QED
    BY <1>5, <1>6, <2>1 DEF FlushCapture
<1>7. CASE FlushBuild("worker")
  <2>1. Goto("worker", "built") /\ flusher["worker"].pc = "building"
    BY <1>1, <1>7 DEF FlushBuild, At
  <2> QED
    BY <1>2, <1>7, <2>1 DEF FlushBuild, memory, control, LogInv, MemoryDurable
<1>8. CASE FlushVerify("worker")
  <2>1. flusher["worker"].pc = "built" /\ flusher["worker"].table = immutableMemtable
    BY <1>8 DEF FlushVerify, At, LogInv
  <2>2. CASE /\ Return("worker", TRUE) \/ Goto("worker", "verified")
             /\ UNCHANGED <<memory, disk, compactor, closedFds, clock, control, history>>
    <3>1. flusher'["closer"] = flusher["closer"]
      BY <1>2, <1>3, <2>2
    <3>2. \/ flusher'["worker"].pc = "idle"
          \/ /\ flusher'["worker"].pc = "verified"
             /\ flusher'["worker"].table = flusher["worker"].table
      BY <1>2, <1>3, <2>2
    <3> QED
      BY <1>1, <2>1, <2>2, <3>1, <3>2 DEF memory, disk, control, LogInv, MemoryDurable
  <2> QED
    BY <1>1, <1>5, <1>8, <2>1, <2>2 DEF FlushVerify
<1>9. CASE FlushPublish("worker")
  <2>1. Goto("worker", "published") /\ (immutableMemtable' = None)
    BY <1>9 DEF FlushPublish
  <2> QED
    BY <1>2, <1>9, <2>1 DEF FlushPublish, disk, control, LogInv, MemoryDurable
<1>10. CASE FlushCleanup("worker")
  <2>1. Return("worker", FALSE) /\ immutableMemtable = None
    BY <1>10 DEF FlushCleanup, At, LogInv
  <2> QED
    BY <1>3, <1>10, <2>1 DEF FlushCleanup, memory, control, LogInv, MemoryDurable
<1>11. ~ (FlushRecover("worker") \/ FlushRelog("worker") \/ FlushDrop("worker"))
  BY DEF FlushRecover, FlushRelog, FlushDrop, At, LogInv
<1> QED
  BY <1>4, <1>6, <1>7, <1>8, <1>9, <1>10, <1>11 DEF Flush

\* Open: the entries of wal.log.flushing are appended to wal.log before they
\* count as recovered.
LEMMA LogOpen ==
    ASSUME TypeInv, Quiet, LogInv, LogFaults \cap Events = {}, OpenRelog \/ OpenFinish
    PROVE  LogInv'
<1>1. CASE OpenRelog
  <2>1. /\ UNCHANGED <<immutableMemtable, walTorn, flushing, flusher>>
        /\ mode' \in {"down", "relogged"}
    BY <1>1 DEF OpenRelog, workers
  <2>2. mode' = "relogged" => \A k \in Keys : activeMemtable'[k] # Absent => wal'[k] # Absent
    <3>1. CASE WriteEntries(flushing) /\ activeMemtable' = flushing
      <4>1. wal' = Overlay(wal, OnDisk(flushing))
        BY <3>1 DEF WriteEntries, LogInv
      <4> QED
        BY <3>1, <4>1, ConstantsAssumption DEF Overlay, OnDisk
    <3>2. CASE mode' = "relogged" /\ UNCHANGED <<wal, activeMemtable>>
      BY <1>1, <3>2 DEF OpenRelog, Quiet, EmptyTable
    <3> QED
      BY <1>1, <3>1, <3>2 DEF OpenRelog
  <2> QED
    BY <2>1, <2>2 DEF LogInv, MemoryDurable
<1>2. CASE OpenFinish
  <2>1. \A k \in Keys : activeMemtable[k] # Absent => wal[k] # Absent
    BY <1>2 DEF OpenFinish, LogInv, Quiet, EmptyTable
  <2>2. wal \in FileTable /\ activeMemtable \in Table
    BY DEF TypeInv, TypeOK
  <2>3. Overlay(activeMemtable, wal) = wal
    BY <2>1, <2>2 DEF Overlay, FileTable
  <2>4. OnDisk(wal) = wal
    BY <2>2, ConstantsAssumption DEF OnDisk, FileTable
  <2>5. wal' = OnDisk(activeMemtable') /\ mode' = "up"
    BY <1>2, <2>3, <2>4 DEF OpenFinish
  <2>6. immutableMemtable' = None /\ flusher' = flusher
    BY <1>2 DEF OpenFinish, workers, Quiet
  <2>7. walTorn' = FALSE
    BY <1>2 DEF OpenFinish
  <2>8. flusher["worker"].pc = "idle"
    BY <1>2 DEF OpenFinish, Quiet, Flushers, Idle
  <2> QED
    BY <2>5, <2>6, <2>7, <2>8 DEF LogInv, MemoryDurable
<1> QED
  BY <1>1, <1>2

LEMMA LogStep ==
    ASSUME TypeInv, Quiet, LogInv, LogFaults \cap Events = {}, [Next]_vars
    PROVE  LogInv'
<1>1. CASE UNCHANGED vars
  BY <1>1 DEF vars, memory, disk, workers, control, LogInv, MemoryDurable
<1>2. CASE \E k \in Keys : Delete(k) \/ \E v \in Values : Put(k, v)
  BY <1>2, LogWrite DEF Put, Delete
<1>3. CASE WorkerReceive
  <2>1. flusher'["worker"].pc = "start" /\ flusher'["closer"] = flusher["closer"]
    BY <1>3 DEF WorkerReceive, Goto, TypeInv, TypeOK
  <2> QED
    BY <1>3, <2>1 DEF WorkerReceive, memory, disk, LogInv, MemoryDurable
<1>4. CASE Flush("worker")
  BY <1>4, LogFlush
<1>5. ~ (Flush("closer") \/ CloseBegin \/ CloseDrain \/ CloseEnd)
  BY DEF Flush, FlushBegin, FlushCapture, FlushBuild, FlushVerify, FlushPublish, FlushCleanup,
         FlushRecover, FlushRelog, FlushDrop, CloseBegin, CloseDrain, CloseEnd, At, LogInv, LogFaults
<1>6. CASE Compaction
  BY <1>6 DEF Compaction, CompactSelect, CompactMerge, CompactSwap, CompactDelete, memory, disk,
              control, LogInv, MemoryDurable
<1>7. CASE Crash
  <2>1. walTorn' = FALSE
    BY <1>7 DEF Crash, LogInv, LogFaults
  <2> QED
    BY <1>7, <2>1, LogStop DEF Crash
<1>8. CASE OpenRelog \/ OpenFinish
  BY <1>8, LogOpen
<1> QED
  BY <1>1, <1>2, <1>3, <1>4, <1>5, <1>6, <1>7, <1>8 DEF Next

\* With any number of crashes (also inside Open), compactions, failing WAL
\* rotations and SSTables that cannot be opened, wal.log holds exactly the
\* active memtable and wal.log.flushing the immutable one, as long as only the
\* flush worker flushes and records are written whole.
THEOREM MemoryIsDurable == LogFaults \cap Events = {} => (Spec => []MemoryDurable)
<1> SUFFICES ASSUME LogFaults \cap Events = {} PROVE Spec => []MemoryDurable
  OBVIOUS
<1>1. TypeInv /\ Quiet /\ LogInv /\ [Next]_vars => LogInv'
  BY LogStep
<1>2. LogInv => MemoryDurable
  BY DEF LogInv
<1> QED
  BY <1>1, <1>2, LogInit, TypeInvAlways, QuietAlways, PTL DEF Spec

-----------------------------------------------------------------------------
(* NothingInvented *)

\* What a table may hold for k: a cell that was once written to k, or the
\* zero-length value that the files make of a Delete of k.
SoundCells(k) == written[k] \cup {Absent} \cup (IF Nil \in written[k] THEN {Empty} ELSE {})

SoundTable == {t \in Table : \A k \in Keys : t[k] \in SoundCells(k)}

\* The inductive strengthening of NothingInvented: every table in memory, on
\* disk or in the hands of a worker is sound.
SoundInv ==
    /\ activeMemtable \in SoundTable
    /\ immutableMemtable # None => immutableMemtable \in SoundTable
    /\ wal \in SoundTable
    /\ flushing # None => flushing \in SoundTable
    /\ \A p \in DOMAIN sstFiles : sstFiles[p].data \in SoundTable
    /\ \A s \in DOMAIN sstReaders : sstReaders[s].data \in SoundTable
    /\ \A f \in Flushers : flusher[f].table \in SoundTable
    /\ compactor.merged \in SoundTable

LEMMA SoundOps ==
    /\ EmptyTable \in SoundTable
    /\ \A t \in SoundTable : OnDisk(t) \in SoundTable
    /\ \A s, t \in SoundTable : Overlay(s, t) \in SoundTable
<1>1. EmptyTable \in SoundTable
  BY TableTypes DEF SoundCells, SoundTable, EmptyTable
<1>2. ASSUME NEW t \in SoundTable PROVE OnDisk(t) \in SoundTable
  <2>1. OnDisk(t) \in Table
    BY TableTypes DEF SoundCells, SoundTable
  <2> QED
    BY <2>1, ConstantsAssumption DEF SoundCells, SoundTable, OnDisk
<1>3. ASSUME NEW s \in SoundTable, NEW t \in SoundTable PROVE Overlay(s, t) \in SoundTable
  <2>1. Overlay(s, t) \in Table
    BY TableTypes DEF SoundCells, SoundTable
  <2> QED
    BY <2>1 DEF SoundCells, SoundTable, Overlay
<1> QED
  BY <1>1, <1>2, <1>3

\* A single entry that was written is sound.
LEMMA SoundRecord ==
    ASSUME NEW k \in Keys, NEW c \in Cells, c \in SoundCells(k)
    PROVE  Record(k, c) \in SoundTable
<1>1. Record(k, c) \in Table
  BY TableTypes
<1> QED
  BY <1>1 DEF SoundCells, SoundTable, Record, EmptyTable

\* What sound SSTables answer is sound.
LEMMA SoundNewest ==
    ASSUME NEW n \in Nat, NEW files, DOMAIN files \subseteq 0 .. n,
           \A s \in DOMAIN files : files[s].data \in SoundTable,
           NEW k \in Keys
    PROVE  Newest(files, k) \in SoundCells(k)
<1> DEFINE S == {s \in DOMAIN files : files[s].data[k] # Absent}
<1>1. CASE S = {}
  BY <1>1 DEF Newest, SoundCells
<1>2. CASE S # {}
  <2>1. S \subseteq 0 .. n
    OBVIOUS
  <2>2. \E x \in S : \A y \in S : y <= x
    BY <1>2, <2>1, LastExists
  <2>3. (CHOOSE s \in S : \A t \in S : t <= s) \in S
    BY <2>2
  <2>4. \A s \in S : files[s].data[k] \in SoundCells(k)
    BY DEF SoundCells, SoundTable
  <2> QED
    BY <1>2, <2>3, <2>4 DEF Newest
<1> QED
  BY <1>1, <1>2

LEMMA SoundInit == Init => SoundInv
BY SoundOps DEF Init, SoundInv, Idle, NoJob, Flushers

\* Steps that write nothing new leave the sound tables as they are.
LEMMA SoundSame == ASSUME written' = written PROVE SoundTable' = SoundTable
BY DEF SoundCells, SoundTable

\* Clients may write more, and never take back what they wrote.
LEMMA SoundGrows ==
    ASSUME \A k \in Keys : written[k] \subseteq written'[k]
    PROVE  SoundTable \subseteq SoundTable'
BY DEF SoundCells, SoundTable

LEMMA SoundWrite ==
    ASSUME TypeInv, SoundInv, NEW k \in Keys, NEW c \in Values \cup {Nil}, Write(k, c)
    PROVE  SoundInv'
<1>1. \A j \in Keys : written[j] \subseteq written'[j]
  BY DEF Write, TypeInv, TypeOK
<1>2. SoundTable \subseteq SoundTable'
  BY <1>1, SoundGrows
<1>3. c \in written'[k] /\ c \in Cells
  BY DEF Write, TypeInv, TypeOK, Cells
<1>4. Record(k, c) \in SoundTable'
  <2>1. Record(k, c) \in Table
    BY <1>3, TableTypes
  <2> QED
    BY <1>3, <2>1 DEF SoundCells, SoundTable, Record, EmptyTable
<1>5. OnDisk(Record(k, c)) \in SoundTable'
  <2>1. OnDisk(Record(k, c)) \in Table
    BY <1>3, TableTypes
  <2> QED
    BY <1>4, <2>1, ConstantsAssumption DEF SoundCells, SoundTable, OnDisk
<1>6. Overlay(wal, OnDisk(Record(k, c))) \in SoundTable'
  <2>1. wal \in SoundTable' /\ Overlay(wal, OnDisk(Record(k, c))) \in Table
    BY <1>2, <1>3, TableTypes DEF SoundInv, SoundCells, SoundTable
  <2> QED
    BY <1>5, <2>1 DEF SoundCells, SoundTable, Overlay
<1>7. wal' \in SoundTable'
  BY <1>2, <1>6
  DEF Write, WriteSucceeds, WriteFails, WriteEntryFails, WriteEntries, SoundInv
<1>8. activeMemtable' \in SoundTable'
  <2>1. activeMemtable \in SoundTable'
    BY <1>2 DEF SoundInv
  <2>2. [activeMemtable EXCEPT ![k] = c] \in SoundTable'
    BY <1>3, <2>1 DEF SoundCells, SoundTable, Table
  <2> QED
    BY <2>1, <2>2 DEF Write, WriteSucceeds, WriteFails
<1> QED
  BY <1>2, <1>7, <1>8 DEF Write, workers, SoundInv

LEMMA SoundStop ==
    ASSUME SoundInv, NEW m \in {"down", "panicked"}, Stop(m), written' = written,
           wal' \in SoundTable', UNCHANGED <<flushing, sstFiles>>
    PROVE  SoundInv'
<1>1. EmptyTable \in SoundTable' /\ SoundTable' = SoundTable
  BY SoundSame, SoundOps
<1>2. compactor'.merged \in SoundTable' /\ \A f \in Flushers : flusher'[f].table \in SoundTable'
  BY <1>1 DEF Stop, NoJob, Idle, Flushers
<1> QED
  BY <1>1, <1>2 DEF Stop, SoundInv

LEMMA SoundFlush ==
    ASSUME TypeInv, SoundInv, NEW f \in Flushers, Flush(f)
    PROVE  SoundInv'
<1>1. written' = written
  BY DEF Flush, FlushBegin, FlushCapture, FlushBuild, FlushVerify, FlushPublish, FlushCleanup,
         FlushRecover, FlushRelog, FlushDrop, Panic, history
<1>2. SoundTable' = SoundTable
  BY <1>1, SoundSame
<1>3. flusher \in [Flushers -> [pc : FlushPcs, path : Stamps, table : Table]]
  BY DEF TypeInv, TypeOK, Flushers
<1>4. ASSUME Panic PROVE SoundInv'
  BY <1>1, <1>2, <1>4, SoundStop DEF Panic, disk, SoundInv
<1>5. ASSUME NEW pc, Goto(f, pc) PROVE \A g \in Flushers : flusher'[g].table \in SoundTable
  BY <1>3, <1>5 DEF Goto, SoundInv
<1>6. ASSUME NEW err, Return(f, err) PROVE \A g \in Flushers : flusher'[g].table \in SoundTable
  BY <1>3, <1>6, SoundOps DEF Return, SoundInv, Idle
<1>7. CASE FlushBegin(f)
  <2>1. \A g \in Flushers : flusher'[g].table \in SoundTable
    BY <1>5, <1>6, <1>7 DEF FlushBegin
  <2>2. CASE UNCHANGED <<memory, disk>>
    BY <1>2, <1>7, <2>1, <2>2 DEF FlushBegin, memory, disk, SoundInv
  <2>3. CASE (Rotate \/ RotateFails) /\ UNCHANGED <<sstReaders, sstFiles>>
    BY <1>2, <1>7, <2>1, <2>3, SoundOps DEF FlushBegin, Rotate, RotateFails, SoundInv
  <2> QED
    BY <1>7, <2>2, <2>3 DEF FlushBegin
<1>8. CASE FlushCapture(f)
  <2>1. CASE immutableMemtable # None
    <3>1. \A g \in Flushers : flusher'[g].table \in SoundTable
      BY <1>3, <1>8, <2>1 DEF FlushCapture, SoundInv
    <3> QED
      BY <1>2, <1>8, <2>1, <3>1 DEF FlushCapture, memory, disk, SoundInv
  <2> QED
    BY <1>4, <1>8, <2>1 DEF FlushCapture
<1>9. CASE FlushBuild(f)
  <2>1. \A g \in Flushers : flusher'[g].table \in SoundTable
    BY <1>5, <1>9 DEF FlushBuild
  <2>2. OnDisk(flusher[f].table) \in SoundTable
    BY SoundOps DEF SoundInv
  <2>3. \A p \in DOMAIN sstFiles' : sstFiles'[p].data \in SoundTable
    BY <1>9, <2>2 DEF FlushBuild, SoundInv
  <2> QED
    BY <1>2, <1>9, <2>1, <2>3 DEF FlushBuild, memory, SoundInv
<1>10. CASE FlushVerify(f)
  <2>1. CASE Goto(f, "failed") \/ Return(f, TRUE) \/ Goto(f, "verified")
    <3>1. \A g \in Flushers : flusher'[g].table \in SoundTable
      BY <1>5, <1>6, <2>1
    <3>2. CASE sstFiles' = Without(sstFiles, flusher[f].path)
               /\ UNCHANGED <<memory, wal, flushing, compactor>>
      <4>1. \A p \in DOMAIN sstFiles' : sstFiles'[p].data \in SoundTable
        BY <3>2 DEF Without, SoundInv
      <4> QED
        BY <1>2, <3>1, <3>2, <4>1 DEF memory, SoundInv
    <3>3. CASE UNCHANGED <<memory, disk, compactor>>
      BY <1>2, <3>1, <3>3 DEF memory, disk, SoundInv
    <3> QED
      BY <1>4, <1>10, <3>2, <3>3 DEF FlushVerify
  <2> QED
    BY <1>4, <1>10, <2>1 DEF FlushVerify
<1>11. CASE FlushPublish(f)
  <2>1. \A g \in Flushers : flusher'[g].table \in SoundTable
    BY <1>5, <1>11 DEF FlushPublish
  <2>2. OnDisk(flusher[f].table) \in SoundTable
    BY SoundOps DEF SoundInv
  <2>3. \A s \in DOMAIN sstReaders' : sstReaders'[s].data \in SoundTable
    BY <1>11, <2>2 DEF FlushPublish, SoundInv
  <2> QED
    BY <1>2, <1>11, <2>1, <2>3 DEF FlushPublish, disk, SoundInv
<1>12. CASE FlushCleanup(f) \/ FlushDrop(f)
  <2>1. \A g \in Flushers : flusher'[g].table \in SoundTable
    BY <1>6, <1>12 DEF FlushCleanup, FlushDrop
  <2> QED
    BY <1>2, <1>12, <2>1 DEF FlushCleanup, FlushDrop, memory, disk, SoundInv
<1>13. CASE FlushRecover(f)
  <2>1. CASE immutableMemtable # None
    <3>1. \A g \in Flushers : flusher'[g].table \in SoundTable
      BY <1>3, <1>13, <2>1 DEF FlushRecover, SoundInv
    <3> QED
      BY <1>2, <1>13, <2>1, <3>1 DEF FlushRecover, memory, disk, SoundInv
  <2> QED
    BY <1>4, <1>13, <2>1 DEF FlushRecover
<1>14. CASE FlushRelog(f)
  <2>1. PICK k \in Entries(flusher[f].table) :
            /\ \/ WriteEntryFails(Record(k, flusher[f].table[k]))
               \/ walOpen /\ WriteEntries(Record(k, flusher[f].table[k])) /\ UNCHANGED walTorn
            /\ flusher' = [flusher EXCEPT ![f].table[k] = Absent]
    BY <1>14 DEF FlushRelog
  <2>2. k \in Keys /\ flusher[f].table \in SoundTable
    BY DEF Entries, SoundInv
  <2>3. Record(k, flusher[f].table[k]) \in SoundTable
    BY <2>2, SoundRecord DEF SoundTable, Table
  <2>4. Overlay(wal, OnDisk(Record(k, flusher[f].table[k]))) \in SoundTable
    BY <2>3, SoundOps DEF SoundInv
  <2>5. wal' \in SoundTable
    BY <2>1, <2>4 DEF WriteEntryFails, WriteEntries, SoundInv
  <2>6. [flusher[f].table EXCEPT ![k] = Absent] \in SoundTable
    BY <2>2 DEF SoundCells, SoundTable, Table, Cells
  <2>7. \A g \in Flushers : flusher'[g].table \in SoundTable
    BY <1>3, <2>1, <2>6 DEF SoundInv
  <2> QED
    BY <1>2, <1>14, <2>5, <2>7 DEF FlushRelog, memory, SoundInv
<1> QED
  BY <1>7, <1>8, <1>9, <1>10, <1>11, <1>12, <1>13, <1>14 DEF Flush

LEMMA SoundCompaction ==
    ASSUME TypeInv, SoundInv, Compaction
    PROVE  SoundInv'
<1>1. written' = written
  BY DEF Compaction, CompactSelect, CompactMerge, CompactSwap, CompactDelete, history
<1>2. SoundTable' = SoundTable
  BY <1>1, SoundSame
<1>3. NoJob.merged \in SoundTable
  BY SoundOps DEF NoJob
<1>4. CASE CompactSelect
  <2>1. PICK W \in selectFilesForCompaction :
            compactor' = [pc |-> "merging", group |-> [s \in W |-> sstReaders[s]],
                          merged |-> Merge(FilesAt(W))]
    BY <1>4 DEF CompactSelect
  <2>2. W \subseteq Statable
    BY DEF selectFilesForCompaction, RunHeads
  <2> DEFINE files == FilesAt(W)
  <2>3. DOMAIN files = W /\ \A s \in W : files[s].data \in FileTable /\ files[s].data \in SoundTable
    BY <2>2 DEF FilesAt, Statable, SoundInv, TypeInv, TypeOK, File
  <2>4. W \subseteq 0 .. clock /\ clock \in Nat
    BY <2>2 DEF Statable, TypeInv, TypeOK, Stamps
  <2>5. \A k \in Keys : Newest(files, k) \in Cells /\
                         Newest(files, k) \in SoundCells(k)
    BY <2>3, <2>4, NewestType, SoundNewest
  <2>6. Merge(files) \in SoundTable
    BY <2>5 DEF Merge, SoundCells, SoundTable, Table
  <2>7. compactor'.merged \in SoundTable
    BY <2>1, <2>6
  <2> QED
    BY <1>2, <1>4, <2>7 DEF CompactSelect, memory, disk, SoundInv
<1>5. CASE CompactMerge
  <2>1. \A p \in DOMAIN sstFiles' : sstFiles'[p].data \in SoundTable
    BY <1>5 DEF CompactMerge, SoundInv
  <2>2. compactor'.merged \in SoundTable
    BY <1>3, <1>5 DEF CompactMerge, SoundInv, TypeInv, TypeOK
  <2> QED
    BY <1>2, <1>5, <2>1, <2>2 DEF CompactMerge, memory, SoundInv
<1>6. CASE CompactSwap
  <2>1. compactor'.merged \in SoundTable
    BY <1>3, <1>6 DEF CompactSwap, SoundInv, TypeInv, TypeOK
  <2>2. \A s \in DOMAIN sstReaders' : sstReaders'[s].data \in SoundTable
    <3>1. CASE UNCHANGED sstReaders
      BY <3>1 DEF SoundInv
    <3> DEFINE r == [fd |-> clock, path |-> MergedPath, data |-> compactor.merged]
    <3>2. CASE sstReaders' = Rebuild(r)
      <4>1. compactor.pc = "built" /\ r.data \in SoundTable
        BY <1>6 DEF CompactSwap, SoundInv
      <4> HIDE DEF r
      <4>2. PICK C \in SUBSET DOMAIN sstReaders : \E x \in C :
                /\ \A s \in DOMAIN sstReaders \ C : \A t \in DOMAIN compactor.group :
                       sstReaders[s].fd # compactor.group[t].fd
                /\ Rebuild(r) = [s \in (DOMAIN sstReaders \ C) \cup {x} |->
                                    IF s = x THEN r ELSE sstReaders[s]]
        BY <4>1, RebuildSlots
      <4>3. \A s \in DOMAIN sstReaders' :
                sstReaders'[s] = r \/ (s \in DOMAIN sstReaders /\ sstReaders'[s] = sstReaders[s])
        BY <3>2, <4>2
      <4> QED
        BY <4>1, <4>3 DEF SoundInv
    <3> QED
      BY <1>6, <3>1, <3>2 DEF CompactSwap
  <2> QED
    BY <1>2, <1>6, <2>1, <2>2 DEF CompactSwap, disk, SoundInv
<1>7. CASE CompactDelete
  <2>1. \A p \in DOMAIN sstFiles' : sstFiles'[p].data \in SoundTable
    BY <1>7 DEF CompactDelete, Without, SoundInv
  <2>2. compactor'.merged \in SoundTable
    BY <1>3, <1>7 DEF CompactDelete, SoundInv, TypeInv, TypeOK
  <2> QED
    BY <1>2, <1>7, <2>1, <2>2 DEF CompactDelete, memory, SoundInv
<1> QED
  BY <1>4, <1>5, <1>6, <1>7 DEF Compaction

LEMMA SoundCrash ==
    ASSUME TypeInv, SoundInv, Crash
    PROVE  SoundInv'
<1>1. Stop("down") /\ UNCHANGED <<flushing, sstFiles>>
  BY DEF Crash
<1>2. CASE UNCHANGED <<wal, written>>
  BY <1>1, <1>2, SoundStop, SoundSame DEF SoundInv
<1>3. CASE \E k \in Keys, c \in Values \cup {Nil} :
               /\ written' = [written EXCEPT ![k] = @ \cup {c}]
               /\ WriteEntries(Record(k, c)) \/ UNCHANGED wal
  <2>1. PICK k \in Keys, c \in Values \cup {Nil} :
            /\ written' = [written EXCEPT ![k] = @ \cup {c}]
            /\ WriteEntries(Record(k, c)) \/ UNCHANGED wal
    BY <1>3
  <2>2. (\A j \in Keys : written[j] \subseteq written'[j]) /\ c \in written'[k] /\ c \in Cells
    BY <2>1 DEF TypeInv, TypeOK, Cells
  <2>3. SoundTable \subseteq SoundTable'
    BY <2>2, SoundGrows
  <2>4. EmptyTable \in SoundTable'
    BY <2>3, SoundOps
  <2>5. Overlay(wal, OnDisk(Record(k, c))) \in SoundTable'
    <3>1. wal \in SoundTable' /\ Overlay(wal, OnDisk(Record(k, c))) \in Table
      BY <2>2, <2>3, TableTypes DEF SoundInv, SoundCells, SoundTable
    <3>2. \A j \in Keys : Record(k, c)[j] \in SoundCells(j)'
      BY <2>2 DEF SoundCells, Record, EmptyTable
    <3>3. \A j \in Keys : OnDisk(Record(k, c))[j] \in SoundCells(j)'
      BY <3>2, ConstantsAssumption DEF SoundCells, OnDisk
    <3> QED
      BY <3>1, <3>3 DEF SoundCells, SoundTable, Overlay
  <2>6. wal' \in SoundTable'
    BY <2>1, <2>3, <2>5 DEF WriteEntries, SoundInv
  <2>7. compactor'.merged \in SoundTable' /\ \A f \in Flushers : flusher'[f].table \in SoundTable'
    BY <1>1, <2>4 DEF Stop, NoJob, Idle, Flushers
  <2> QED
    BY <1>1, <2>3, <2>4, <2>6, <2>7 DEF Stop, SoundInv
<1> QED
  BY <1>2, <1>3 DEF Crash

LEMMA SoundOpen ==
    ASSUME TypeInv, SoundInv, OpenRelog \/ OpenFinish
    PROVE  SoundInv'
<1>1. SoundTable' = SoundTable
  BY SoundSame DEF OpenRelog, OpenFinish, history
<1>2. CASE OpenRelog
  <2>1. flushing \in SoundTable /\ wal \in SoundTable
    BY <1>2 DEF OpenRelog, SoundInv
  <2>2. ASSUME NEW K \in SUBSET Entries(flushing)
        PROVE  Overlay(wal, OnDisk([k \in Keys |-> IF k \in K THEN flushing[k] ELSE Absent]))
                   \in SoundTable
    <3>1. [k \in Keys |-> IF k \in K THEN flushing[k] ELSE Absent] \in SoundTable
      BY <2>1 DEF SoundCells, SoundTable, Table, Cells
    <3> QED
      BY <2>1, <3>1, SoundOps
  <2>3. Overlay(wal, OnDisk(flushing)) \in SoundTable
    BY <2>1, SoundOps
  <2>4. wal' \in SoundTable
    BY <1>2, <2>1, <2>2, <2>3 DEF OpenRelog, WriteEntries
  <2>5. activeMemtable' \in SoundTable
    BY <1>2, <2>1 DEF OpenRelog, SoundInv
  <2> QED
    BY <1>1, <1>2, <2>4, <2>5 DEF OpenRelog, workers, SoundInv
<1>3. CASE OpenFinish
  <2>1. activeMemtable' \in SoundTable
    BY <1>3, SoundOps DEF OpenFinish, SoundInv
  <2>2. \A s \in DOMAIN sstReaders' : sstReaders'[s].data \in SoundTable
    BY <1>3 DEF OpenFinish, SoundInv
  <2> QED
    BY <1>1, <1>3, <2>1, <2>2 DEF OpenFinish, workers, SoundInv
<1> QED
  BY <1>2, <1>3

LEMMA SoundStep == ASSUME TypeInv, SoundInv, [Next]_vars PROVE SoundInv'
<1>1. CASE UNCHANGED <<activeMemtable, immutableMemtable, wal, flushing, sstFiles, sstReaders,
                       compactor, written>> /\ \A f \in Flushers : flusher'[f].table = flusher[f].table
  BY <1>1, SoundSame DEF SoundInv
<1>2. CASE UNCHANGED vars
  BY <1>1, <1>2 DEF vars, memory, disk, workers, history
<1>3. CASE \E k \in Keys : Delete(k) \/ \E v \in Values : Put(k, v)
  BY <1>3, SoundWrite DEF Put, Delete
<1>4. CASE WorkerReceive \/ CloseBegin \/ CloseDrain
  <2>1. \A f \in Flushers : flusher'[f].table = flusher[f].table
    BY <1>4 DEF WorkerReceive, CloseBegin, CloseDrain, Goto, Flushers, TypeInv, TypeOK
  <2> QED
    BY <1>1, <1>4, <2>1 DEF WorkerReceive, CloseBegin, CloseDrain, memory, disk, history
<1>5. CASE CloseEnd
  <2>1. Stop("down") /\ written' = written /\ UNCHANGED <<wal, flushing, sstFiles>>
    BY <1>5 DEF CloseEnd, disk, history
  <2> QED
    BY <2>1, SoundStop, SoundSame DEF SoundInv
<1> QED
  BY <1>2, <1>3, <1>4, <1>5, SoundFlush, SoundCompaction, SoundCrash, SoundOpen DEF Next, Flushers

LEMMA SoundAnswers == ASSUME TypeInv, SoundInv PROVE NothingInvented
<1> SUFFICES ASSUME NEW k \in Keys PROVE Get(k) \in written[k] \cup {Nil, Empty}
  BY DEF NothingInvented
<1>1. DOMAIN sstReaders \subseteq 0 .. clock /\ clock \in Nat
  BY DEF TypeInv, TypeOK, Stamps
<1>2. Newest(sstReaders, k) \in SoundCells(k)
  BY <1>1, SoundNewest DEF SoundInv
<1> QED
  BY <1>2 DEF Get, SoundInv, SoundCells, SoundTable

\* Under every fault and crash the model has (two Flush calls at once, torn and
\* failed records, failed flushes, lost compactions, interrupted recoveries), Get
\* answers with something a client wrote to that very key, or finds nothing.
THEOREM NeverInvents == Spec => []NothingInvented
BY SoundInit, SoundStep, SoundAnswers, TypeInvAlways, PTL DEF Spec

-----------------------------------------------------------------------------
(* ScanComplete *)

\* The inductive strengthening of ScanComplete: ScanAll, which opens the files
\* again by their paths, finds what the readers of Get have.  No compaction runs;
\* a Flush has a path no reader and no other Flush has.
FilesInv ==
    /\ compactor.pc = "idle"
    /\ \A s \in DOMAIN sstReaders : FileHolds(sstReaders[s].path, sstReaders[s].data)
    /\ \A f \in Flushers : flusher[f].pc \in Publishing =>
          /\ \A s \in DOMAIN sstReaders : sstReaders[s].path # flusher[f].path
          /\ \A g \in Flushers \ {f} : flusher[g].pc \in Publishing => flusher[g].path # flusher[f].path
          /\ flusher[f].pc # "building" => FileHolds(flusher[f].path, OnDisk(flusher[f].table))

LEMMA FilesInit == Init => FilesInv
BY DEF Init, FilesInv, Idle, NoJob, Flushers, Publishing

\* Steps that change neither files nor readers.
LEMMA FilesSame ==
    ASSUME FilesInv, UNCHANGED <<sstReaders, sstFiles>>, compactor'.pc = "idle",
           \A f \in Flushers :
               \/ flusher'[f].pc \notin Publishing
               \/ /\ flusher[f].pc \in Publishing
                  /\ flusher'[f].pc = "building" \/ flusher[f].pc # "building"
                  /\ flusher'[f].path = flusher[f].path /\ flusher'[f].table = flusher[f].table
    PROVE  FilesInv'
BY DEF FilesInv, FileHolds

LEMMA FilesStop ==
    ASSUME NEW m, Stop(m)
    PROVE  FilesInv'
BY DEF Stop, FilesInv, Idle, NoJob, Flushers, Publishing

LEMMA FilesFlush ==
    ASSUME TypeInv, FilesInv, NEW f \in Flushers, Flush(f)
    PROVE  FilesInv'
<1>1. /\ \A s \in DOMAIN sstReaders : sstReaders[s].path \in Stamps /\ s \in Stamps
      /\ \A g \in Flushers : flusher[g].path \in Stamps
      /\ clock \notin Stamps
  BY DEF TypeInv, TypeOK, Flushers, Reader, Stamps
<1>2. CASE FlushCapture(f)
  <2>1. CASE immutableMemtable # None
    <3> DEFINE r == [pc |-> "building", path |-> clock, table |-> immutableMemtable]
    <3>1. flusher' = [flusher EXCEPT ![f] = r] /\ UNCHANGED <<sstReaders, sstFiles, compactor>>
      BY <1>2, <2>1 DEF FlushCapture, memory, disk
    <3>2. flusher'[f] = r /\ \A g \in Flushers \ {f} : flusher'[g] = flusher[g]
      BY <3>1, OneFlusher
    <3> QED
      BY <1>1, <3>1, <3>2 DEF FilesInv, FileHolds, Publishing
  <2> QED
    BY <1>2, <2>1, FilesStop DEF FlushCapture, Panic
<1>3. CASE FlushBuild(f)
  <2>1. CASE Goto(f, "failed") /\ UNCHANGED sstFiles
    BY <1>3, <2>1, OneFlusher, FilesSame DEF FlushBuild, memory, FilesInv, Publishing
  <2>2. CASE Goto(f, "built") /\ \E t \in Tiers : sstFiles' =
                 [p \in DOMAIN sstFiles \cup {flusher[f].path} |->
                     IF p = flusher[f].path
                     THEN [data |-> OnDisk(flusher[f].table), tier |-> t]
                     ELSE sstFiles[p]]
    <3>1. /\ flusher'[f].pc = "built" /\ flusher'[f].path = flusher[f].path
          /\ flusher'[f].table = flusher[f].table
          /\ \A g \in Flushers \ {f} : flusher'[g] = flusher[g]
      BY <2>2, OneFlusher
    <3>2. FileHolds(flusher[f].path, OnDisk(flusher[f].table))'
          <=> flusher'[f].path \in DOMAIN sstFiles' /\ sstFiles'[flusher'[f].path].data = OnDisk(flusher'[f].table)
      BY DEF FileHolds, OnDisk
    <3>3. flusher[f].path \in DOMAIN sstFiles' /\ sstFiles'[flusher[f].path].data = OnDisk(flusher[f].table)
      BY <2>2
    <3>4. \A p \in DOMAIN sstFiles : p # flusher[f].path =>
              p \in DOMAIN sstFiles' /\ sstFiles'[p] = sstFiles[p]
      BY <2>2
    <3>5. UNCHANGED <<sstReaders, compactor>> /\ flusher[f].pc = "building"
      BY <1>3 DEF FlushBuild, memory, At
    <3>6. ASSUME NEW s \in DOMAIN sstReaders
          PROVE  sstReaders[s].path \in DOMAIN sstFiles' /\ sstFiles'[sstReaders[s].path].data = sstReaders[s].data
      BY <3>4, <3>5 DEF FilesInv, FileHolds, Publishing
    <3>7. ASSUME NEW g \in Flushers \ {f}, flusher[g].pc \in Publishing, flusher[g].pc # "building"
          PROVE  /\ flusher[g].path \in DOMAIN sstFiles'
                 /\ sstFiles'[flusher[g].path].data = OnDisk(flusher[g].table)
      BY <3>4, <3>5, <3>7 DEF FilesInv, FileHolds, Publishing
    <3> QED
      BY <3>1, <3>3, <3>5, <3>6, <3>7 DEF FilesInv, FileHolds, Publishing, OnDisk
  <2> QED
    BY <1>3, <2>1, <2>2 DEF FlushBuild
<1>4. CASE FlushVerify(f)
  <2>1. CASE /\ Return(f, TRUE) \/ Goto(f, "verified")
             /\ UNCHANGED <<memory, disk, compactor>>
    BY <1>4, <2>1, OneFlusher, FilesSame DEF FlushVerify, At, memory, disk, FilesInv, Publishing
  <2>2. CASE Panic
    BY <2>2, FilesStop DEF Panic
  <2>3. CASE /\ Goto(f, "failed") /\ sstFiles' = Without(sstFiles, flusher[f].path)
             /\ UNCHANGED <<memory, compactor>>
    <3>1. flusher'[f].pc = "failed" /\ \A g \in Flushers \ {f} : flusher'[g] = flusher[g]
      BY <2>3, OneFlusher
    <3>2. \A p \in DOMAIN sstFiles : p # flusher[f].path =>
              p \in DOMAIN sstFiles' /\ sstFiles'[p] = sstFiles[p]
      BY <2>3 DEF Without
    <3>3. UNCHANGED <<sstReaders, compactor>> /\ flusher[f].pc = "built"
      BY <1>4, <2>3 DEF FlushVerify, memory, At
    <3>4. ASSUME NEW s \in DOMAIN sstReaders
          PROVE  sstReaders[s].path \in DOMAIN sstFiles' /\ sstFiles'[sstReaders[s].path].data = sstReaders[s].data
      BY <3>2, <3>3 DEF FilesInv, FileHolds, Publishing
    <3>5. ASSUME NEW g \in Flushers \ {f}, flusher[g].pc \in Publishing, flusher[g].pc # "building"
          PROVE  /\ flusher[g].path \in DOMAIN sstFiles'
                 /\ sstFiles'[flusher[g].path].data = OnDisk(flusher[g].table)
      BY <3>2, <3>3, <3>5 DEF FilesInv, FileHolds, Publishing
    <3> QED
      BY <3>1, <3>3, <3>4, <3>5 DEF FilesInv, FileHolds, Publishing, OnDisk
  <2> QED
    BY <1>4, <2>1, <2>2, <2>3 DEF FlushVerify
<1>5. CASE FlushPublish(f)
  <2>1. /\ flusher'[f].pc = "published" /\ \A g \in Flushers \ {f} : flusher'[g] = flusher[g]
        /\ UNCHANGED <<sstFiles, compactor>> /\ flusher[f].pc = "verified"
    BY <1>5, OneFlusher DEF FlushPublish, At, disk
  <2>2. /\ DOMAIN sstReaders' = DOMAIN sstReaders \cup {clock}
        /\ sstReaders'[clock].path = flusher[f].path
        /\ sstReaders'[clock].data = OnDisk(flusher[f].table)
        /\ \A s \in DOMAIN sstReaders : sstReaders'[s] = sstReaders[s]
    BY <1>1, <1>5 DEF FlushPublish
  <2> QED
    BY <2>1, <2>2 DEF FilesInv, FileHolds, Publishing, OnDisk
<1>6. CASE FlushBegin(f)
  <2>1. UNCHANGED <<sstReaders, sstFiles, compactor>>
    BY <1>6 DEF FlushBegin, memory, disk
  <2>2. (\E err : Return(f, err)) \/ Goto(f, "rotated")
    BY <1>6 DEF FlushBegin
  <2>3. flusher'[f].pc \notin Publishing /\ \A g \in Flushers \ {f} : flusher'[g] = flusher[g]
    BY <2>2, OneFlusher DEF Publishing
  <2> QED
    BY <2>1, <2>3, FilesSame DEF FilesInv
<1>7. CASE FlushCleanup(f) \/ FlushDrop(f)
  BY <1>7, OneFlusher, FilesSame DEF FlushCleanup, FlushDrop, memory, disk, FilesInv, Publishing
<1>8. CASE FlushRecover(f)
  <2>1. CASE immutableMemtable # None
    <3>1. flusher'[f].pc = "relogging" /\ \A g \in Flushers \ {f} : flusher'[g] = flusher[g]
      BY <1>8, <2>1 DEF FlushRecover, TypeInv, TypeOK, Flushers
    <3> QED
      BY <1>8, <2>1, <3>1, FilesSame DEF FlushRecover, memory, disk, FilesInv, Publishing
  <2> QED
    BY <1>8, <2>1, FilesStop DEF FlushRecover, Panic
<1>9. CASE FlushRelog(f)
  <2>1. flusher'[f].pc = "relogging" /\ \A g \in Flushers \ {f} : flusher'[g] = flusher[g]
    BY <1>9 DEF FlushRelog, At, TypeInv, TypeOK, Flushers
  <2> QED
    BY <1>9, <2>1, FilesSame DEF FlushRelog, memory, FilesInv, Publishing
<1> QED
  BY <1>2, <1>3, <1>4, <1>5, <1>6, <1>7, <1>8, <1>9 DEF Flush

LEMMA FilesStep ==
    ASSUME TypeInv, Quiet, FilesInv, "tick" \notin Events, [Next]_vars
    PROVE  FilesInv'
<1>1. CASE UNCHANGED <<sstReaders, sstFiles, compactor, flusher>>
  BY <1>1, FilesSame DEF FilesInv
<1>2. CASE \E k \in Keys : Delete(k) \/ \E v \in Values : Put(k, v)
  BY <1>1, <1>2 DEF Put, Delete, Write, workers
<1>3. CASE WorkerReceive
  <2>1. Goto("worker", "start") /\ UNCHANGED <<sstReaders, sstFiles, compactor>>
    BY <1>3 DEF WorkerReceive, memory, disk
  <2> QED
    BY <2>1, OneFlusher, FilesSame DEF FilesInv, Publishing, Flushers
<1>4. CASE CloseBegin \/ CloseDrain
  <2>1. /\ Goto("closer", "start") \/ Goto("closer", "drained")
        /\ UNCHANGED <<sstReaders, sstFiles, compactor>>
    BY <1>4 DEF CloseBegin, CloseDrain, memory, disk
  <2> QED
    BY <2>1, OneFlusher, FilesSame DEF FilesInv, Publishing, Flushers
<1>5. CASE CloseEnd \/ Crash
  BY <1>5, FilesStop DEF CloseEnd, Crash
<1>6. CASE OpenRelog
  BY <1>1, <1>6 DEF OpenRelog, workers
<1>7. CASE OpenFinish
  <2>1. /\ \A s \in DOMAIN sstReaders' : /\ sstReaders'[s].path \in DOMAIN sstFiles'
                                         /\ sstFiles'[sstReaders'[s].path].data = sstReaders'[s].data
        /\ UNCHANGED <<compactor, flusher>>
    BY <1>7 DEF OpenFinish, workers
  <2>2. \A f \in Flushers : flusher[f].pc = "idle"
    BY <1>7 DEF OpenFinish, Quiet, Idle
  <2> QED
    BY <2>1, <2>2 DEF FilesInv, FileHolds, Publishing
<1>8. ~Compaction
  BY DEF Compaction, CompactSelect, CompactMerge, CompactSwap, CompactDelete, FilesInv
<1> QED
  BY <1>1, <1>2, <1>3, <1>4, <1>5, <1>6, <1>7, <1>8, FilesFlush DEF Next, vars, memory, disk, workers, Flushers

\* The readers that ScanAll opens answer as those of Get do.
LEMMA ScanReads ==
    ASSUME TypeInv, FilesInv, NEW k \in Keys
    PROVE  Newest(FilesAt(Statable), k) = Newest(sstReaders, k)
<1>1. Statable = DOMAIN sstReaders
  BY DEF Statable, FilesInv, FileHolds
<1>2. /\ DOMAIN FilesAt(Statable) = DOMAIN sstReaders
      /\ \A s \in DOMAIN sstReaders : FilesAt(Statable)[s].data = sstReaders[s].data
  BY <1>1 DEF FilesAt, FilesInv, FileHolds
<1>3. DOMAIN sstReaders \subseteq 0 .. clock /\ clock \in Nat
  BY DEF TypeInv, TypeOK, Stamps
<1>4. IsNewest(sstReaders, k, Newest(sstReaders, k))
  BY <1>3, NewestIs
<1>5. IsNewest(FilesAt(Statable), k, Newest(sstReaders, k))
  BY <1>2, <1>4 DEF IsNewest
<1> QED
  BY <1>2, <1>3, <1>5, NewestIs

LEMMA ScanAnswers == ASSUME TypeInv, FilesInv PROVE ScanComplete
<1> SUFFICES ASSUME NEW k \in Keys PROVE ScanAll[k] = Answer(k)
  BY DEF ScanComplete
<1> DEFINE n == Newest(sstReaders, k)
           mem == IF immutableMemtable = None THEN activeMemtable
                  ELSE Overlay(immutableMemtable, activeMemtable)
           c == IF mem[k] # Absent THEN mem[k] ELSE n
<1>1. ScanAll[k] = IF c \in {Nil, Empty, Absent} THEN Nil ELSE c
  BY ScanReads DEF ScanAll
<1>2. immutableMemtable # None => mem[k] = IF activeMemtable[k] = Absent THEN immutableMemtable[k] ELSE activeMemtable[k]
  BY DEF Overlay
<1> HIDE DEF n
<1>3. Get(k) = IF activeMemtable[k] # Absent THEN activeMemtable[k]
               ELSE IF immutableMemtable # None /\ immutableMemtable[k] # Absent THEN immutableMemtable[k]
               ELSE IF n \in {Absent, Empty} THEN Nil ELSE n
  BY DEF Get, n
<1> QED
  BY <1>1, <1>2, <1>3, ConstantsAssumption DEF Answer

\* Between any two steps of flushes, of Close, of failures and of recoveries the
\* scan of all keys and the reads of single keys agree, as long as no compaction
\* has unlinked a file that is still served.
THEOREM ScansAreComplete == "tick" \notin Events => (Spec => []ScanComplete)
<1> SUFFICES ASSUME "tick" \notin Events PROVE Spec => []ScanComplete
  OBVIOUS
<1>1. TypeInv /\ Quiet /\ FilesInv /\ [Next]_vars => FilesInv'
  BY FilesStep
<1> QED
  BY <1>1, FilesInit, ScanAnswers, TypeInvAlways, QuietAlways, PTL DEF Spec

-----------------------------------------------------------------------------
(* AckedOnDisk *)

\* Compaction unlinks files (README.md, finding crash_after_compaction), and a
\* failed recovery drops wal.log.flushing.
RestartFaults == LogFaults \cup {"tick", "recover"}

\* wal.log.flushing is there as long as its entries have no other place: until
\* a complete SSTable holds them, or until Open has logged them again.
KeptInv ==
    /\ stops = 0 => mode = "up"
    /\ flusher["worker"].pc = "rotated" => immutableMemtable # None
    /\ mode = "up" /\ immutableMemtable = None /\ flusher["worker"].pc # "published" => flushing = None
    /\ flusher["worker"].pc = "building" => \A p \in DOMAIN sstFiles : p < flusher["worker"].path
    /\ flusher["worker"].pc \in {"built", "verified", "published"} =>
          /\ flushing # None
          /\ \A k \in Keys : flushing[k] # Absent => Newest(sstFiles, k) = flushing[k]
    /\ mode = "relogged" => flushing # None /\ \A k \in Keys : flushing[k] # Absent => wal[k] # Absent

LEMMA KeptInit == Init => KeptInv
BY DEF Init, KeptInv, Idle

\* With KeptInv the worker never meets a missing memtable.
LEMMA NoPanicHere == ASSUME LogInv, KeptInv, RestartFaults \cap Events = {}, Flush("worker")
                     PROVE  ~Panic /\ mode = "up" /\ mode' = "up" /\ stops' = stops
<1>1. mode = "up" /\ mode # "panicked"
  BY DEF Flush, FlushBegin, FlushCapture, FlushBuild, FlushVerify, FlushPublish, FlushCleanup,
         FlushRecover, FlushRelog, FlushDrop, At
<1>2. mode' = mode /\ stops' = stops
  BY DEF Flush, FlushBegin, FlushCapture, FlushBuild, FlushVerify, FlushPublish, FlushCleanup,
         FlushRecover, FlushRelog, FlushDrop, At, control, LogInv, KeptInv
<1> QED
  BY <1>1, <1>2 DEF Panic, Stop

\* FlushBuild of the worker.
LEMMA BuildFacts ==
    ASSUME TypeInv, LogInv, KeptInv, RestartFaults \cap Events = {}, FlushBuild("worker")
    PROVE  /\ UNCHANGED <<memory, wal, walTorn, flushing, control, history>>
           /\ flusher["worker"].pc = "building" /\ flusher'["worker"].pc = "built"
           /\ flusher'["closer"] = flusher["closer"] /\ mode = "up"
           /\ flushing # None
           /\ \A k \in Keys : Newest(sstFiles', k) = IF flushing[k] # Absent THEN flushing[k]
                                                     ELSE Newest(sstFiles, k)
<1> DEFINE p == flusher["worker"].path
<1>1. "build" \notin Events
  BY DEF RestartFaults, LogFaults
<1>2. /\ UNCHANGED <<memory, wal, walTorn, flushing, control, history>>
      /\ flusher["worker"].pc = "building" /\ mode = "up" /\ Goto("worker", "built")
  BY <1>1 DEF FlushBuild, At
<1>3. PICK t \in Tiers : sstFiles' =
                 [q \in DOMAIN sstFiles \cup {p} |->
                     IF q = p THEN [data |-> OnDisk(flusher["worker"].table), tier |-> t] ELSE sstFiles[q]]
  BY <1>1 DEF FlushBuild
<1>4. /\ flushing = OnDisk(immutableMemtable) /\ flusher["worker"].table = immutableMemtable
      /\ immutableMemtable \in Table
  BY <1>2 DEF LogInv, MemoryDurable, TypeInv, TypeOK
<1>5. flushing # None
  <2>1. OnDisk(immutableMemtable) \in Table
    BY <1>4, TableTypes
  <2> QED
    BY <1>4, <2>1, ConstantsAssumption
<1>6. /\ \A q \in DOMAIN sstFiles : q < p
      /\ DOMAIN sstFiles \subseteq 0 .. clock /\ p \in 0 .. clock /\ clock \in Nat
  BY <1>2 DEF KeptInv, TypeInv, TypeOK, Stamps
<1>7. /\ DOMAIN sstFiles' = DOMAIN sstFiles \cup {p} /\ sstFiles'[p].data = flushing
      /\ \A q \in DOMAIN sstFiles : sstFiles'[q] = sstFiles[q]
  <2>1. \A q \in DOMAIN sstFiles : q # p
    BY <1>6
  <2> QED
    BY <1>3, <1>4, <2>1
<1> HIDE DEF p
<1>8. \A k \in Keys : Newest(sstFiles', k) = IF flushing[k] # Absent THEN flushing[k] ELSE Newest(sstFiles, k)
  <2> TAKE k \in Keys
  <2>1. Newest(sstFiles', k) = IF sstFiles'[p].data[k] # Absent THEN sstFiles'[p].data[k] ELSE Newest(sstFiles, k)
    <3>1. Adds(sstFiles, p, sstFiles', clock)
      BY <1>6, <1>7 DEF Adds
    <3> QED
      BY ONLY <3>1, NewestAdded
  <2> QED
    BY <1>7, <2>1
<1> QED
  BY <1>2, <1>5, <1>8, OneFlusher DEF Flushers

LEMMA KeptFlush ==
    ASSUME TypeInv, LogInv, KeptInv, RestartFaults \cap Events = {}, Flush("worker")
    PROVE  KeptInv'
<1>1. ~Panic /\ mode = "up" /\ mode' = "up" /\ stops' = stops
  BY NoPanicHere
<1>2. \A pc : Goto("worker", pc) => flusher'["worker"].pc = pc
  BY OneFlusher DEF Flushers
<1>3. \A err : Return("worker", err) => flusher'["worker"].pc = "idle"
  BY DEF Return, Idle, TypeInv, TypeOK
<1>4. CASE FlushBegin("worker")
  <2>1. flusher["worker"].pc = "start" /\ UNCHANGED sstFiles
    BY <1>4 DEF FlushBegin, At, disk
  <2>2. CASE Rotate /\ Goto("worker", "rotated")
    <3>1. immutableMemtable' # None
      BY <2>2, ConstantsAssumption DEF Rotate, TypeInv, TypeOK
    <3> QED
      BY <1>1, <1>2, <2>2, <3>1 DEF KeptInv
  <2>3. CASE RotateFails /\ Return("worker", TRUE) /\ immutableMemtable = None
    <3>1. flushing' = None
      BY <1>1, <2>1, <2>3 DEF RestartFaults, LogFaults, RotateFails, KeptInv
    <3> QED
      BY <1>1, <1>3, <2>3, <3>1 DEF KeptInv
  <2>4. CASE UNCHANGED <<memory, disk>> /\ immutableMemtable = None /\ Return("worker", FALSE)
    BY <1>1, <1>3, <2>1, <2>4 DEF memory, disk, KeptInv
  <2>5. CASE UNCHANGED <<memory, disk>> /\ immutableMemtable # None /\ Goto("worker", "rotated")
    BY <1>1, <1>2, <2>1, <2>5 DEF memory, disk, KeptInv
  <2> QED
    BY <1>4, <2>2, <2>3, <2>4, <2>5 DEF FlushBegin
<1>5. CASE FlushCapture("worker")
  <2>1. /\ flusher'["worker"].pc = "building" /\ flusher'["worker"].path = clock
        /\ UNCHANGED <<immutableMemtable, flushing, sstFiles>> /\ immutableMemtable # None
    BY <1>1, <1>5, OneFlusher DEF FlushCapture, memory, disk, Flushers
  <2>2. \A p \in DOMAIN sstFiles : p < clock
    BY DEF TypeInv, TypeOK, Stamps
  <2> QED
    BY <1>1, <2>1, <2>2 DEF KeptInv
<1>6. CASE FlushBuild("worker")
  <2>1. flusher["worker"].pc = "building" => immutableMemtable # None
    BY DEF LogInv
  <2> QED
    BY <1>1, <1>6, <2>1, BuildFacts DEF KeptInv, memory
<1>7. CASE FlushVerify("worker")
  <2>1. flusher["worker"].pc = "built" /\ flusher["worker"].table = immutableMemtable /\ immutableMemtable # None
    BY <1>7 DEF FlushVerify, At, LogInv
  <2>2. /\ Return("worker", TRUE) \/ Goto("worker", "verified")
        /\ UNCHANGED <<memory, disk>>
    BY <1>1, <1>7, <2>1 DEF FlushVerify, RestartFaults, LogFaults
  <2> QED
    BY <1>1, <1>2, <1>3, <2>1, <2>2 DEF KeptInv, memory, disk
<1>8. CASE FlushPublish("worker")
  BY <1>1, <1>2, <1>8 DEF FlushPublish, At, disk, KeptInv
<1>9. CASE FlushCleanup("worker")
  BY <1>1, <1>3, <1>9 DEF FlushCleanup, memory, KeptInv
<1>10. ~ (FlushRecover("worker") \/ FlushRelog("worker") \/ FlushDrop("worker"))
  BY DEF FlushRecover, FlushRelog, FlushDrop, At, LogInv
<1> QED
  BY <1>4, <1>5, <1>6, <1>7, <1>8, <1>9, <1>10 DEF Flush

LEMMA KeptStep ==
    ASSUME TypeInv, Quiet, LogInv, FilesInv, KeptInv, RestartFaults \cap Events = {}, [Next]_vars
    PROVE  KeptInv'
<1>1. CASE UNCHANGED vars
  BY <1>1 DEF vars, memory, disk, workers, control, KeptInv
<1>2. CASE \E k \in Keys : Delete(k) \/ \E v \in Values : Put(k, v)
  <2>1. UNCHANGED <<mode, stops, immutableMemtable, flushing, sstFiles, flusher>> /\ mode = "up"
    BY <1>2 DEF Put, Delete, Write, workers
  <2> QED
    BY <2>1 DEF KeptInv
<1>3. CASE WorkerReceive
  <2>1. /\ UNCHANGED <<mode, stops, immutableMemtable, flushing, sstFiles>> /\ mode = "up"
        /\ flusher["worker"].pc = "idle" /\ flusher'["worker"].pc = "start"
    BY <1>3, OneFlusher DEF WorkerReceive, At, memory, disk, Flushers
  <2> QED
    BY <2>1 DEF KeptInv
<1>4. CASE Flush("worker")
  BY <1>4, KeptFlush
<1>5. ~ (Flush("closer") \/ CloseBegin \/ CloseDrain \/ CloseEnd \/ Compaction)
  BY DEF Flush, FlushBegin, FlushCapture, FlushBuild, FlushVerify, FlushPublish, FlushCleanup,
         FlushRecover, FlushRelog, FlushDrop, CloseBegin, CloseDrain, CloseEnd, At, LogInv, LogFaults,
         RestartFaults, Compaction, CompactSelect, CompactMerge, CompactSwap, CompactDelete, FilesInv
<1>6. CASE Crash
  <2>1. mode' = "down" /\ stops' = stops + 1 /\ stops \in Nat /\ flusher'["worker"].pc = "idle"
    BY <1>6 DEF Crash, Stop, Idle, TypeInv, TypeOK
  <2> QED
    BY <2>1 DEF KeptInv
<1>7. CASE OpenRelog
  <2>1. /\ mode # "up" /\ flushing # None /\ UNCHANGED <<immutableMemtable, flushing, sstFiles, flusher>>
        /\ stops' \in {stops, stops + 1} /\ stops \in Nat /\ mode' \in {"down", "relogged"}
    BY <1>7 DEF OpenRelog, workers, TypeInv, TypeOK
  <2>2. flusher["worker"].pc = "idle"
    BY <2>1 DEF Quiet, Idle, Flushers
  <2>3. mode' = "relogged" => \A k \in Keys : flushing[k] # Absent => wal'[k] # Absent
    <3> SUFFICES ASSUME mode' = "relogged", NEW k \in Keys, flushing[k] # Absent PROVE wal'[k] # Absent
      OBVIOUS
    <3>1. wal' = Overlay(wal, OnDisk(flushing))
      BY <1>7 DEF OpenRelog, WriteEntries, LogInv, RestartFaults
    <3> QED
      BY <3>1, ConstantsAssumption DEF Overlay, OnDisk
  <2> QED
    BY <2>1, <2>2, <2>3 DEF KeptInv
<1>8. CASE OpenFinish
  <2>1. mode # "up" /\ mode' = "up" /\ flushing' = None /\ flusher' = flusher
    BY <1>8 DEF RestartFaults, LogFaults, OpenFinish, workers
  <2>2. flusher["worker"].pc = "idle"
    BY <2>1 DEF Quiet, Idle, Flushers
  <2> QED
    BY <2>1, <2>2 DEF KeptInv
<1> QED
  BY <1>1, <1>2, <1>3, <1>4, <1>5, <1>6, <1>7, <1>8 DEF Next

\* What a restart now would find for k.
Logged == IF flushing = None THEN wal ELSE Overlay(flushing, wal)
DiskCell(k) == IF Logged[k] # Absent THEN Logged[k] ELSE Newest(sstFiles, k)
ReadBack(c) == IF c \in {Empty, Absent} THEN Nil ELSE c

LEMMA AckedStep ==
    ASSUME TypeInv, Quiet, LogInv, FilesInv, KeptInv, AckedOnDisk, RestartFaults \cap Events = {}, [Next]_vars
    PROVE  AckedOnDisk'
<1> SUFFICES ASSUME stops' = 0, NEW k \in Keys PROVE ReadBack(DiskCell(k)') = acked'[k]
  BY DEF AckedOnDisk, ReadBack, DiskCell, Logged
<1>1. stops = 0 /\ mode = "up"
  <2>1. stops \in Nat /\ (stops' = stops \/ stops' = stops + 1)
    BY DEF TypeInv, TypeOK, Next, vars, control, Put, Delete, Write, WorkerReceive, Flush, FlushBegin,
           FlushCapture, FlushBuild, FlushVerify, FlushPublish, FlushCleanup, FlushRecover, FlushRelog,
           FlushDrop, Panic, Compaction, CompactSelect, CompactMerge, CompactSwap, CompactDelete,
           CloseBegin, CloseDrain, CloseEnd, Crash, OpenRelog, OpenFinish
  <2> QED
    BY <2>1 DEF KeptInv
<1>2. ReadBack(DiskCell(k)) = acked[k]
  BY <1>1 DEF AckedOnDisk, ReadBack, DiskCell, Logged
<1>3. /\ wal \in FileTable /\ ~walTorn /\ (flushing = None \/ flushing \in FileTable)
      /\ wal[k] \in Cells /\ (flushing # None => flushing[k] \in Cells)
  BY DEF TypeInv, TypeOK, LogInv, FileTable
<1>4. /\ DiskCell(k) = IF wal[k] # Absent THEN wal[k]
                       ELSE IF flushing # None /\ flushing[k] # Absent THEN flushing[k]
                       ELSE Newest(sstFiles, k)
      /\ DiskCell(k)' = IF wal'[k] # Absent THEN wal'[k]
                        ELSE IF flushing' # None /\ flushing'[k] # Absent THEN flushing'[k]
                        ELSE Newest(sstFiles', k)
  BY DEF DiskCell, Logged, Overlay, Newest
<1>5. CASE UNCHANGED <<wal, flushing, sstFiles, acked>>
  BY <1>2, <1>4, <1>5
<1>6. ASSUME NEW j \in Keys, NEW c \in Values \cup {Nil}, Write(j, c) PROVE ReadBack(DiskCell(k)') = acked'[k]
  <2>1. UNCHANGED <<flushing, sstFiles>>
    BY <1>6 DEF Write
  <2>2. CASE WriteFails(j, c)
    BY <1>5, <2>1, <2>2 DEF WriteFails, WriteEntryFails, RestartFaults, LogFaults
  <2>3. CASE WriteSucceeds(j, c)
    <3>1. /\ wal' = Overlay(wal, OnDisk(Record(j, c))) /\ acked' = [acked EXCEPT ![j] = c]
          /\ acked \in [Keys -> Values \cup {Nil}]
      BY <1>3, <2>3 DEF WriteSucceeds, WriteEntries, TypeInv, TypeOK
    <3>2. CASE k = j
      <4>1. wal'[k] = (IF c = Nil THEN Empty ELSE c) /\ acked'[k] = c
        BY <3>1, <3>2, ConstantsAssumption DEF Overlay, OnDisk, Record, EmptyTable
      <4> QED
        BY <1>4, <4>1, ConstantsAssumption DEF ReadBack
    <3>3. CASE k # j
      <4>1. wal'[k] = wal[k] /\ acked'[k] = acked[k]
        BY <3>1, <3>3, ConstantsAssumption DEF Overlay, OnDisk, Record, EmptyTable
      <4> QED
        BY <1>2, <1>4, <2>1, <4>1
    <3> QED
      BY <3>2, <3>3
  <2> QED
    BY <1>6, <2>2, <2>3 DEF Write
<1>7. CASE Flush("worker")
  <2>1. ~Panic /\ acked' = acked
    BY <1>7, NoPanicHere DEF Flush, FlushBegin, FlushCapture, FlushBuild, FlushVerify, FlushPublish,
         FlushCleanup, FlushRecover, FlushRelog, FlushDrop, history
  <2>2. CASE FlushBegin("worker")
    <3>1. flusher["worker"].pc = "start" /\ UNCHANGED sstFiles
      BY <2>2 DEF FlushBegin, At, disk
    <3>2. CASE UNCHANGED disk
      BY <1>5, <2>1, <3>2 DEF disk
    <3>3. CASE immutableMemtable = None /\ Rotate
      <4>1. flushing = None /\ flushing' = wal /\ wal' = EmptyTable /\ wal # None
        BY <1>1, <1>3, <3>1, <3>3, ConstantsAssumption, TableTypes DEF KeptInv, Rotate
      <4>2. wal'[k] = Absent
        BY <4>1 DEF EmptyTable
      <4> QED
        BY <1>2, <1>4, <2>1, <3>1, <4>1, <4>2
    <3>4. CASE immutableMemtable = None /\ RotateFails
      <4>1. flushing = None /\ flushing' = None /\ wal' = wal
        BY <1>1, <3>1, <3>4 DEF KeptInv, RotateFails, RestartFaults, LogFaults
      <4> QED
        BY <1>5, <2>1, <3>1, <4>1
    <3> QED
      BY <2>2, <3>2, <3>3, <3>4 DEF FlushBegin
  <2>3. CASE FlushBuild("worker")
    BY <1>2, <1>4, <2>1, <2>3, BuildFacts
  <2>4. CASE FlushCleanup("worker")
    <3>1. /\ flushing' = None /\ UNCHANGED <<wal, sstFiles>> /\ flushing # None
          /\ flushing[k] # Absent => Newest(sstFiles, k) = flushing[k]
      BY <2>4 DEF FlushCleanup, At, KeptInv
    <3> QED
      BY <1>2, <1>4, <2>1, <3>1
  <2>5. CASE FlushCapture("worker") \/ FlushPublish("worker")
    BY <1>5, <2>1, <2>5 DEF FlushCapture, FlushPublish, disk
  <2>6. CASE FlushVerify("worker")
    <3>1. flusher["worker"].table = immutableMemtable
      BY <2>6 DEF FlushVerify, At, LogInv
    <3> QED
      BY <1>5, <2>1, <2>6, <3>1 DEF FlushVerify, disk, RestartFaults, LogFaults
  <2>7. ~ (FlushRecover("worker") \/ FlushRelog("worker") \/ FlushDrop("worker"))
    BY DEF FlushRecover, FlushRelog, FlushDrop, At, LogInv
  <2> QED
    BY <1>7, <2>2, <2>3, <2>4, <2>5, <2>6, <2>7 DEF Flush
<1>8. ~ (Flush("closer") \/ CloseBegin \/ CloseDrain \/ CloseEnd \/ Compaction)
  BY DEF Flush, FlushBegin, FlushCapture, FlushBuild, FlushVerify, FlushPublish, FlushCleanup,
         FlushRecover, FlushRelog, FlushDrop, CloseBegin, CloseDrain, CloseEnd, At, LogInv, LogFaults,
         RestartFaults, Compaction, CompactSelect, CompactMerge, CompactSwap, CompactDelete, FilesInv
<1>9. ~ (Crash \/ OpenRelog \/ OpenFinish)
  BY <1>1 DEF Crash, OpenRelog, OpenFinish
<1> QED
  BY <1>5, <1>6, <1>7, <1>8, <1>9
  DEF Next, Put, Delete, WorkerReceive, vars, disk, history

\* Until the first stop, at every instant, a process killed now would leave every
\* acknowledged write on disk: in wal.log, in wal.log.flushing or in an SSTable,
\* through rotations, failed rotations and SSTables that cannot be opened.
THEOREM AckedStaysOnDisk == RestartFaults \cap Events = {} => (Spec => []AckedOnDisk)
<1> SUFFICES ASSUME RestartFaults \cap Events = {} PROVE Spec => []AckedOnDisk
  OBVIOUS
<1>0. LogFaults \cap Events = {} /\ "tick" \notin Events
  BY DEF RestartFaults
<1>1. TypeInv /\ Quiet /\ LogInv /\ FilesInv /\ KeptInv /\ AckedOnDisk /\ [Next]_vars
      => LogInv' /\ FilesInv' /\ KeptInv' /\ AckedOnDisk'
  BY <1>0, LogStep, FilesStep, KeptStep, AckedStep
<1>2. Init => AckedOnDisk
  BY ConstantsAssumption DEF Init, AckedOnDisk, Newest, EmptyTable
<1> QED
  BY <1>1, <1>2, LogInit, FilesInit, KeptInit, TypeInvAlways, QuietAlways, PTL DEF Spec

-----------------------------------------------------------------------------
(* StableKeysSurvive *)

\* Some file has an entry for k; some table that Get looks at has one.
Stored(k) ==
    \/ wal[k] # Absent
    \/ flushing # None /\ flushing[k] # Absent
    \/ \E p \in DOMAIN sstFiles : sstFiles[p].data[k] # Absent

Served(k) ==
    \/ activeMemtable[k] # Absent
    \/ immutableMemtable # None /\ immutableMemtable[k] # Absent
    \/ \E s \in DOMAIN sstReaders : sstReaders[s].data[k] # Absent

\* The inductive strengthening of StableKeysSurvive, with SoundInv: a key whose
\* last acknowledged write is a Put never disappears from the files, nor from
\* what a running engine looks at.
SurviveInv ==
    \A k \in Keys :
        /\ acked[k] \in written[k] \cup {Nil}
        /\ acked[k] # Nil => Stored(k) /\ (mode = "up" => Served(k))

LEMMA SurviveInit == Init => SurviveInv
BY DEF Init, SurviveInv

LEMMA SurviveWrite ==
    ASSUME TypeInv, LogInv, SurviveInv, RestartFaults \cap Events = {},
           NEW j \in Keys, NEW c \in Values \cup {Nil}, Write(j, c)
    PROVE  SurviveInv'
<1> SUFFICES ASSUME NEW k \in Keys
             PROVE  /\ acked'[k] \in written'[k] \cup {Nil}
                    /\ acked'[k] # Nil => Stored(k)' /\ Served(k)'
  BY DEF SurviveInv
<1>1. /\ mode = "up" /\ UNCHANGED <<immutableMemtable, sstReaders, flushing, sstFiles>>
      /\ written' = [written EXCEPT ![j] = written[j] \cup {c}]
  BY DEF Write
<1>2. /\ acked \in [Keys -> Values \cup {Nil}] /\ written \in [Keys -> SUBSET (Values \cup {Nil})]
      /\ wal \in FileTable /\ activeMemtable \in Table /\ ~walTorn /\ c # Absent
  BY ConstantsAssumption DEF TypeInv, TypeOK, LogInv
<1>3. CASE WriteFails(j, c)
  <2>1. UNCHANGED <<wal, activeMemtable, acked>>
    BY <1>3 DEF WriteFails, WriteEntryFails, RestartFaults, LogFaults
  <2> QED
    BY <1>1, <1>2, <2>1 DEF SurviveInv, Stored, Served
<1>4. CASE WriteSucceeds(j, c)
  <2>1. /\ wal' = Overlay(wal, OnDisk(Record(j, c))) /\ acked' = [acked EXCEPT ![j] = c]
        /\ activeMemtable' = [activeMemtable EXCEPT ![j] = c]
    BY <1>2, <1>4 DEF WriteSucceeds, WriteEntries
  <2>2. /\ wal'[j] # Absent /\ \A i \in Keys : wal[i] # Absent => wal'[i] # Absent
        /\ activeMemtable'[j] # Absent /\ \A i \in Keys : activeMemtable[i] # Absent => activeMemtable'[i] # Absent
    <3>1. \A i \in Keys : wal'[i] = IF i = j THEN (IF c = Nil THEN Empty ELSE c) ELSE wal[i]
      BY <1>2, <2>1, ConstantsAssumption DEF Overlay, OnDisk, Record, EmptyTable
    <3>2. \A i \in Keys : activeMemtable'[i] = IF i = j THEN c ELSE activeMemtable[i]
      BY <1>2, <2>1 DEF Table
    <3> QED
      BY <1>2, <3>1, <3>2, ConstantsAssumption
  <2>3. CASE k = j
    BY <1>1, <1>2, <2>1, <2>2, <2>3 DEF Stored, Served
  <2>4. CASE k # j
    <3>1. acked'[k] = acked[k] /\ written'[k] = written[k]
      BY <1>1, <1>2, <2>1, <2>4
    <3> QED
      BY <1>1, <2>2, <3>1 DEF SurviveInv, Stored, Served
  <2> QED
    BY <2>3, <2>4
<1> QED
  BY <1>3, <1>4 DEF Write

LEMMA SurviveFlush ==
    ASSUME TypeInv, LogInv, FilesInv, KeptInv, SurviveInv, RestartFaults \cap Events = {}, Flush("worker")
    PROVE  SurviveInv'
<1>1. ~Panic /\ mode = "up" /\ mode' = "up"
  BY NoPanicHere
<1>2. UNCHANGED <<acked, written>>
  BY <1>1 DEF Flush, FlushBegin, FlushCapture, FlushBuild, FlushVerify, FlushPublish, FlushCleanup,
         FlushRecover, FlushRelog, FlushDrop, history
<1> SUFFICES ASSUME NEW k \in Keys, Stored(k), Served(k) PROVE Stored(k)' /\ Served(k)'
  BY <1>1, <1>2 DEF SurviveInv
<1>3. CASE FlushBegin("worker")
  <2>1. flusher["worker"].pc = "start" /\ UNCHANGED <<sstFiles, sstReaders>>
    BY <1>3 DEF FlushBegin, At, disk, memory
  <2>2. CASE UNCHANGED <<memory, disk>>
    BY <2>2 DEF memory, disk, Stored, Served
  <2>3. CASE immutableMemtable = None /\ Rotate
    <3>1. flushing = None /\ flushing' = wal /\ wal # None
      BY <1>1, <2>1, <2>3, ConstantsAssumption, TableTypes DEF KeptInv, Rotate, TypeInv, TypeOK
    <3>2. immutableMemtable' = activeMemtable /\ activeMemtable # None
      BY <2>3, ConstantsAssumption DEF Rotate, TypeInv, TypeOK
    <3> QED
      BY <2>1, <2>3, <3>1, <3>2 DEF Stored, Served
  <2>4. CASE immutableMemtable = None /\ RotateFails
    <3>1. flushing = None /\ flushing' = None
      BY <1>1, <2>1, <2>4 DEF KeptInv, RotateFails, RestartFaults, LogFaults
    <3> QED
      BY <2>1, <2>4, <3>1 DEF RotateFails, RestartFaults, LogFaults, Stored, Served
  <2> QED
    BY <1>3, <2>2, <2>3, <2>4 DEF FlushBegin
<1>4. CASE FlushCapture("worker")
  BY <1>1, <1>4 DEF FlushCapture, memory, disk, Stored, Served
<1>5. CASE FlushBuild("worker")
  <2>1. flushing # None /\ UNCHANGED <<memory, wal, flushing>>
    BY <1>5, BuildFacts
  <2>2. /\ Newest(sstFiles', k) = IF flushing[k] # Absent THEN flushing[k] ELSE Newest(sstFiles, k)
        /\ UNCHANGED <<wal, flushing>>
    BY <1>5, BuildFacts
  <2>3. DOMAIN sstFiles \subseteq 0 .. clock /\ clock \in Nat
    BY DEF TypeInv, TypeOK, Stamps
  <2>4. (\E p \in DOMAIN sstFiles : sstFiles[p].data[k] # Absent) => Newest(sstFiles, k) # Absent
    BY <2>3, NewestIs DEF IsNewest
  <2>5. DOMAIN sstFiles' \subseteq 0 .. clock
    <3>1. flusher["worker"].path \in 0 .. clock
      BY DEF TypeInv, TypeOK, Stamps
    <3> QED
      BY <1>5, <2>3, <3>1 DEF FlushBuild, RestartFaults, LogFaults
  <2>6. Newest(sstFiles', k) # Absent => \E p \in DOMAIN sstFiles' : sstFiles'[p].data[k] # Absent
    BY <2>3, <2>5, NewestIs DEF IsNewest
  <2> QED
    BY <2>1, <2>2, <2>4, <2>6 DEF memory, Stored, Served
<1>6. CASE FlushVerify("worker")
  <2>1. flusher["worker"].table = immutableMemtable
    BY <1>6 DEF FlushVerify, At, LogInv
  <2>2. UNCHANGED <<memory, disk>>
    BY <1>1, <1>6, <2>1 DEF FlushVerify, RestartFaults, LogFaults
  <2> QED
    BY <2>2 DEF memory, disk, Stored, Served
<1>7. CASE FlushPublish("worker")
  <2>1. /\ flusher["worker"].table = immutableMemtable /\ immutableMemtable # None
        /\ UNCHANGED <<activeMemtable, disk>> /\ clock \notin DOMAIN sstReaders
    BY <1>7 DEF FlushPublish, At, LogInv, TypeInv, TypeOK, Stamps
  <2>2. /\ DOMAIN sstReaders' = DOMAIN sstReaders \cup {clock}
        /\ sstReaders'[clock].data = OnDisk(immutableMemtable)
        /\ \A s \in DOMAIN sstReaders : sstReaders'[s] = sstReaders[s]
    BY <1>7, <2>1 DEF FlushPublish
  <2>3. immutableMemtable[k] # Absent => OnDisk(immutableMemtable)[k] # Absent
    BY ConstantsAssumption DEF OnDisk
  <2>4. Served(k)'
    BY <2>1, <2>2, <2>3 DEF Served
  <2> QED
    BY <2>1, <2>4 DEF disk, Stored
<1>8. CASE FlushCleanup("worker")
  <2>1. /\ UNCHANGED <<memory, wal, sstFiles>> /\ flushing # None
        /\ flushing[k] # Absent => Newest(sstFiles, k) = flushing[k]
    BY <1>8 DEF FlushCleanup, At, KeptInv
  <2>2. DOMAIN sstFiles \subseteq 0 .. clock /\ clock \in Nat
    BY DEF TypeInv, TypeOK, Stamps
  <2>3. Newest(sstFiles, k) # Absent => \E p \in DOMAIN sstFiles : sstFiles[p].data[k] # Absent
    BY <2>2, NewestIs DEF IsNewest
  <2> QED
    BY <2>1, <2>3 DEF memory, Stored, Served
<1>9. ~ (FlushRecover("worker") \/ FlushRelog("worker") \/ FlushDrop("worker"))
  BY DEF FlushRecover, FlushRelog, FlushDrop, At, LogInv
<1> QED
  BY <1>3, <1>4, <1>5, <1>6, <1>7, <1>8, <1>9 DEF Flush

\* Crashes and the steps of Open.
LEMMA SurviveRestart ==
    ASSUME TypeInv, Quiet, LogInv, KeptInv, SurviveInv, RestartFaults \cap Events = {},
           Crash \/ OpenRelog \/ OpenFinish
    PROVE  SurviveInv'
<1>1. /\ written \in [Keys -> SUBSET (Values \cup {Nil})] /\ ~walTorn /\ wal \in FileTable
      /\ (flushing # None => flushing \in FileTable)
  BY DEF TypeInv, TypeOK, LogInv
<1>2. \A t : WriteEntries(t) => \A k \in Keys : wal[k] # Absent \/ t[k] # Absent => wal'[k] # Absent
  BY <1>1, ConstantsAssumption DEF WriteEntries, Overlay, OnDisk
<1>3. CASE Crash
  <2>1. mode' = "down" /\ UNCHANGED <<acked, flushing, sstFiles>>
    BY <1>3 DEF Crash, Stop
  <2>2. \A k \in Keys : wal[k] # Absent => wal'[k] # Absent
    BY <1>2, <1>3 DEF Crash, RestartFaults, LogFaults
  <2>3. \A k \in Keys : written[k] \subseteq written'[k]
    BY <1>1, <1>3 DEF Crash
  <2> QED
    BY <2>1, <2>2, <2>3 DEF SurviveInv, Stored
<1>4. CASE OpenRelog
  <2>1. mode' # "up" /\ UNCHANGED <<acked, written, flushing, sstFiles>>
    BY <1>4 DEF OpenRelog, history
  <2>2. \A k \in Keys : wal[k] # Absent => wal'[k] # Absent
    BY <1>2, <1>4 DEF OpenRelog, RestartFaults
  <2> QED
    BY <2>1, <2>2 DEF SurviveInv, Stored
<1>5. CASE OpenFinish
  <2>1. /\ UNCHANGED <<acked, written, wal, sstFiles>> /\ mode' = "up"
        /\ mode = "relogged" \/ flushing = None
        /\ activeMemtable' = Overlay(activeMemtable, wal)
        /\ sstReaders' = [p \in DOMAIN sstFiles |-> [fd |-> p, path |-> p, data |-> sstFiles[p].data]]
    BY <1>5 DEF RestartFaults, LogFaults, OpenFinish, history
  <2>2. ASSUME NEW k \in Keys, Stored(k) PROVE Stored(k)' /\ Served(k)'
    <3>1. wal[k] # Absent \/ \E p \in DOMAIN sstFiles : sstFiles[p].data[k] # Absent
      BY <2>1, <2>2 DEF Stored, KeptInv
    <3>2. wal[k] # Absent => activeMemtable'[k] # Absent
      BY <2>1 DEF Overlay
    <3>3. \A p \in DOMAIN sstFiles : p \in DOMAIN sstReaders' /\ sstReaders'[p].data = sstFiles[p].data
      BY <2>1
    <3> QED
      BY <2>1, <3>1, <3>2, <3>3 DEF Stored, Served
  <2> QED
    BY <2>1, <2>2 DEF SurviveInv
<1> QED
  BY <1>3, <1>4, <1>5

LEMMA SurviveStep ==
    ASSUME TypeInv, Quiet, LogInv, FilesInv, KeptInv, SurviveInv, RestartFaults \cap Events = {}, [Next]_vars
    PROVE  SurviveInv'
<1>1. CASE UNCHANGED <<mode, memory, disk, history>>
  BY <1>1 DEF memory, disk, history, SurviveInv, Stored, Served
<1>2. CASE \E k \in Keys : Delete(k) \/ \E v \in Values : Put(k, v)
  BY <1>2, SurviveWrite DEF Put, Delete
<1>3. ~ (Flush("closer") \/ CloseBegin \/ CloseDrain \/ CloseEnd \/ Compaction)
  BY DEF Flush, FlushBegin, FlushCapture, FlushBuild, FlushVerify, FlushPublish, FlushCleanup,
         FlushRecover, FlushRelog, FlushDrop, CloseBegin, CloseDrain, CloseEnd, At, LogInv, LogFaults,
         RestartFaults, Compaction, CompactSelect, CompactMerge, CompactSwap, CompactDelete, FilesInv
<1> QED
  BY <1>1, <1>2, <1>3, SurviveFlush, SurviveRestart DEF Next, vars, control, WorkerReceive

\* A table that only holds what was written to a key, and has the key, has the
\* one value that was ever written to it.
LEMMA SurviveAnswers ==
    ASSUME TypeInv, SoundInv, SurviveInv
    PROVE  StableKeysSurvive
<1> SUFFICES ASSUME mode = "up", NEW k \in Keys, acked[k] # Nil, written[k] = {acked[k]}
             PROVE  Get(k) = acked[k]
  BY DEF StableKeysSurvive
<1> DEFINE v == acked[k]
<1>1. v \in Values /\ v \notin {Absent, Nil, Empty}
  BY ConstantsAssumption DEF TypeInv, TypeOK
<1>2. \A t \in SoundTable : t[k] = Absent \/ t[k] = v
  BY <1>1 DEF SoundTable, SoundCells
<1>3. Served(k)
  BY DEF SurviveInv
<1>4. DOMAIN sstReaders \subseteq 0 .. clock /\ clock \in Nat
  BY DEF TypeInv, TypeOK, Stamps
<1>5. IsNewest(sstReaders, k, Newest(sstReaders, k))
  BY <1>4, NewestIs
<1>6. \A s \in DOMAIN sstReaders : sstReaders[s].data[k] = Absent \/ sstReaders[s].data[k] = v
  BY <1>2 DEF SoundInv
<1>7. /\ Newest(sstReaders, k) \in {Absent, v}
      /\ (\E s \in DOMAIN sstReaders : sstReaders[s].data[k] # Absent) => Newest(sstReaders, k) = v
  BY <1>5, <1>6 DEF IsNewest
<1>8. /\ activeMemtable[k] \in {Absent, v}
      /\ immutableMemtable # None => immutableMemtable[k] \in {Absent, v}
  BY <1>2 DEF SoundInv
<1> HIDE DEF v
<1>9. Get(k) = v
  BY <1>1, <1>3, <1>7, <1>8 DEF Get, Served
<1> QED
  BY <1>9 DEF v

\* A key that was only ever put to one value keeps it through any number of
\* crashes, inside flushes, inside writes and inside Open itself.
THEOREM StableKeysDoSurvive == RestartFaults \cap Events = {} => (Spec => []StableKeysSurvive)
<1> SUFFICES ASSUME RestartFaults \cap Events = {} PROVE Spec => []StableKeysSurvive
  OBVIOUS
<1>0. LogFaults \cap Events = {} /\ "tick" \notin Events
  BY DEF RestartFaults
<1>1. TypeInv /\ Quiet /\ LogInv /\ FilesInv /\ KeptInv /\ SurviveInv /\ SoundInv /\ [Next]_vars
      => LogInv' /\ FilesInv' /\ KeptInv' /\ SurviveInv' /\ SoundInv'
  BY <1>0, LogStep, FilesStep, KeptStep, SurviveStep, SoundStep
<1> QED
  BY <1>1, LogInit, FilesInit, KeptInit, SurviveInit, SoundInit, SurviveAnswers, TypeInvAlways,
     QuietAlways, PTL DEF Spec
=============================================================================
