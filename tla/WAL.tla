--------------------------------- MODULE WAL ---------------------------------
(***************************************************************************)
(* The write-ahead log, engine/wal/wal.go: WriteEntry appends one record   *)
(* and syncs; Recover reads records up to the first one that is cut short  *)
(* or fails its checksum, and truncates the file there.  The file is a     *)
(* sequence of records; one that is not whole stands for what a failed or  *)
(* interrupted write left.                                                 *)
(***************************************************************************)
EXTENDS Naturals, Sequences, FiniteSets

CONSTANTS
    Keys, Values,
    Nil, Empty, Absent,   \* as in module Engine
    Events,               \* what the environment does in this instance
    MaxRecords, MaxStops  \* bounds on WriteEntry calls and on stops

(***************************************************************************)
(* short: the write call fails after part of the record.  sync: Sync       *)
(* fails.  kill: the process dies, the page cache survives.  power: the    *)
(* machine dies, and what was not synced may be lost.  early: the engine   *)
(* writes before it has called Recover, as Open does with the records of   *)
(* wal.log.flushing.  truncate: Truncate or Seek fails inside Recover.     *)
(* read: so does a read, which Recover takes for the end of the records.   *)
(***************************************************************************)
AllEvents == {"short", "sync", "kill", "power", "early", "truncate", "read"}

Cells == Values \cup {Empty}

ASSUME WALAssumption ==
    /\ Nil \notin Cells /\ Absent \notin Cells /\ Empty \notin Values
    /\ Events \subseteq AllEvents
    /\ MaxRecords \in Nat /\ MaxStops \in Nat

VARIABLES
    handle,          \* "closed", "opened" (NewWAL returned) or "recovered"
    file,            \* the records in the file
    synced,          \* how many of them are on the disk for sure
    sequenceNumber,  \* w.sequenceNumber
    calls, stops,    \* counters for the bounds
    acked, pending,  \* history: the last write WriteEntry confirmed for each
                     \* key, and the ones it failed on since
    hidden           \* history: a write was confirmed behind a broken record, or a
                     \* read that failed has cut off confirmed ones

vars == <<handle, file, synced, sequenceNumber, calls, stops, acked, pending, hidden>>

Records == [seq : Nat, key : Keys, val : Cells, whole : BOOLEAN]

Init ==
    /\ handle = "closed" /\ file = <<>> /\ synced = 0 /\ sequenceNumber = 0
    /\ calls = 0 /\ stops = 0
    /\ acked = [k \in Keys |-> Absent] /\ pending = [k \in Keys |-> {}]
    /\ hidden = FALSE

-----------------------------------------------------------------------------

\* A value is its length and its bytes: nil is written as [].
Bytes(v) == IF v = Nil THEN Empty ELSE v

\* The number of records before the first broken one.
Valid(s) == Cardinality({n \in 1 .. Len(s) : \A i \in 1 .. n : s[i].whole})

\* The value of the last of the first n records for k.
LastValue(s, n, k) ==
    LET I == {i \in 1 .. n : s[i].key = k}
    IN  IF I = {} THEN Absent ELSE s[CHOOSE i \in I : \A j \in I : j <= i].val

\* The map Recover returns for the file s.
Recovered(s) == [k \in Keys |-> LastValue(s, Valid(s), k)]

NewRecord(k, v, whole) ==
    [seq |-> sequenceNumber + 1, key |-> k, val |-> Bytes(v), whole |-> whole]

NewWAL ==
    /\ handle = "closed"
    /\ handle' = "opened" /\ sequenceNumber' = 0
    /\ UNCHANGED <<file, synced, calls, stops, acked, pending, hidden>>

Writable ==
    handle \in {"recovered"} \cup (IF "early" \in Events THEN {"opened"} ELSE {})

\* Written and synced.
WriteEntry(k, v) ==
    /\ file' = Append(file, NewRecord(k, v, TRUE))
    /\ synced' = Len(file')
    /\ acked' = [acked EXCEPT ![k] = Bytes(v)]
    /\ pending' = [pending EXCEPT ![k] = {}]
    /\ hidden' = (hidden \/ Valid(file) < Len(file))

\* An error is returned: nothing was written, part of the record, or all of
\* it, without its reaching the disk.
WriteEntryFails(k, v) ==
    /\ \/ "short" \in Events /\ file' \in {file, Append(file, NewRecord(k, v, FALSE))}
       \/ "sync" \in Events /\ file' = Append(file, NewRecord(k, v, TRUE))
    /\ pending' = [pending EXCEPT ![k] = @ \cup {Bytes(v)}]
    /\ UNCHANGED <<synced, acked, hidden>>

Write(k, v) ==
    /\ Writable /\ calls < MaxRecords /\ calls' = calls + 1
    /\ sequenceNumber' = sequenceNumber + 1
    /\ WriteEntry(k, v) \/ WriteEntryFails(k, v)
    /\ UNCHANGED <<handle, stops>>

Highest(s) ==
    LET N == {s[i].seq : i \in 1 .. Valid(s)} \cup {sequenceNumber}
    IN  CHOOSE n \in N : \A m \in N : m <= n

\* Mutants of Recover: the sequence number is not restored; the last
\* record goes with the broken tail.
RecoverForgetsSequence ==
    /\ handle = "opened" /\ handle' = "recovered"
    /\ file' = SubSeq(file, 1, Valid(file)) /\ synced' = Valid(file)
    /\ UNCHANGED <<sequenceNumber, calls, stops, acked, pending, hidden>>

RecoverCutsShort ==
    /\ handle = "opened" /\ handle' = "recovered" /\ sequenceNumber' = Highest(file)
    /\ file' = SubSeq(file, 1, Valid(file) - 1) /\ synced' = 0
    /\ UNCHANGED <<calls, stops, acked, pending, hidden>>

\* Open calls Recover once after NewWAL; on an error Open gives up.
Recover ==
    /\ handle = "opened"
    /\ sequenceNumber' = Highest(file)
    /\ \/ /\ handle' = "recovered"
          /\ file' = SubSeq(file, 1, Valid(file))
          /\ synced' = IF synced <= Valid(file) THEN synced ELSE Valid(file)
       \/ /\ "truncate" \in Events
          /\ handle' = "closed"
          /\ UNCHANGED <<file, synced>>
    /\ UNCHANGED <<calls, stops, acked, pending, hidden>>

\* A record that cannot be read ends the loop, and it and all behind it go.
RecoverMisreads ==
    /\ "read" \in Events /\ handle = "opened" /\ handle' = "recovered"
    /\ \E n \in 0 .. Len(file) :
          /\ n < Valid(file) /\ file' = SubSeq(file, 1, n)
          /\ sequenceNumber' = Highest(SubSeq(file, 1, n))
          /\ synced' = IF synced <= n THEN synced ELSE n
    /\ hidden' = TRUE
    /\ UNCHANGED <<calls, stops, acked, pending>>

Close ==
    /\ handle = "recovered" /\ stops < MaxStops
    /\ handle' = "closed" /\ stops' = stops + 1
    /\ UNCHANGED <<file, synced, sequenceNumber, calls, acked, pending, hidden>>

\* The process dies, perhaps in the middle of a write.
Kill ==
    /\ "kill" \in Events /\ handle # "closed" /\ stops < MaxStops
    /\ handle' = "closed" /\ stops' = stops + 1
    /\ \/ UNCHANGED <<file, calls, pending>>
       \/ /\ Writable /\ calls < MaxRecords /\ calls' = calls + 1
          /\ \E k \in Keys, v \in Values \cup {Nil}, whole \in BOOLEAN :
                /\ file' = Append(file, NewRecord(k, v, whole))
                /\ pending' = [pending EXCEPT ![k] = @ \cup {Bytes(v)}]
    /\ UNCHANGED <<synced, sequenceNumber, acked, hidden>>

\* The machine dies: of the records behind the synced ones only the first few
\* are there, and the next one may be in pieces.
PowerLoss ==
    /\ "power" \in Events /\ handle # "closed" /\ stops < MaxStops
    /\ handle' = "closed" /\ stops' = stops + 1
    /\ \E n \in synced .. Len(file) :
          \/ file' = SubSeq(file, 1, n)
          \/ n < Len(file) /\ file' = Append(SubSeq(file, 1, n), [file[n + 1] EXCEPT !.whole = FALSE])
    /\ UNCHANGED <<synced, sequenceNumber, calls, acked, pending, hidden>>

Next ==
    \/ NewWAL \/ Recover \/ RecoverMisreads \/ Close \/ Kill \/ PowerLoss
    \/ \E k \in Keys, v \in Values \cup {Nil} : Write(k, v)

Spec == Init /\ [][Next]_vars

-----------------------------------------------------------------------------

\* The log's variables have their types; the synced records are in the file.
TypeOK ==
    /\ handle \in {"closed", "opened", "recovered"}
    /\ file \in Seq(Records) /\ synced \in 0 .. Len(file)
    /\ sequenceNumber \in Nat /\ calls \in Nat /\ stops \in Nat
    /\ acked \in [Keys -> Cells \cup {Absent}]
    /\ pending \in [Keys -> SUBSET Cells] /\ hidden \in BOOLEAN

\* At every instant at which the process or the machine may stop, Recover would
\* give for each key the last write WriteEntry confirmed, or a later one it
\* reported as failed; unless it went on to write behind the fragment a failed
\* write left, which Recover never passes, or Recover could not read a record.
AckedRecovered ==
    ~hidden => \A k \in Keys : Recovered(file)[k] \in {acked[k]} \cup pending[k]

\* Recover continues the numbering: the records of the file are numbered in
\* increasing order, whatever stopped the process in between.
SequenceIncreases ==
    \A i, j \in 1 .. Len(file) : i < j => file[i].seq < file[j].seq

\* The map module Engine keeps for wal.log, and its flag walTorn.
Map == INSTANCE WALMap WITH map <- Recovered(file), torn <- Valid(file) < Len(file)

\* Every operation on the file, failed and interrupted ones included, is what
\* module Engine assumes of it; only a power failure and a read that fails, which
\* Engine does not have, may take records away.
ImplementsMap == Map!Init /\ [][Map!Step \/ PowerLoss \/ RecoverMisreads]_vars
=============================================================================
