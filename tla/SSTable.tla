------------------------------- MODULE SSTable -------------------------------
(***************************************************************************)
(* One SSTable: the Builder of engine/sstable/builder.go, the Bloom filter *)
(* of bloom.go and the Reader of reader.go.  A builder gets keys in        *)
(* ascending order and publishes the file by a rename; then several        *)
(* goroutines call Get and ReadAll on one Reader, which has one file       *)
(* position and the mutex r.mu around it.                                  *)
(*                                                                         *)
(* Keys are their ranks in bytes.Compare, a value is its length, and a     *)
(* record of the file occupies 1 + length bytes.                           *)
(***************************************************************************)
EXTENDS Integers, Sequences, FiniteSets

CONSTANTS
    Keys,            \* a set of naturals
    Lengths,         \* value lengths
    IndexInterval,   \* bytes between two entries of the sparse index
    HashBits,        \* width of a hash (32)
    Rotation,        \* the rotation that gives the probe distance (17)
    HashFunctions,   \* candidates for murmur3.Sum32
    BitsPerKey, MinKeys, KProbes,
    Callers,         \* goroutines that use the Reader
    Free             \* nobody holds r.mu

ASSUME SSTableAssumption ==
    /\ Keys \subseteq Nat /\ Lengths \subseteq Nat
    /\ IndexInterval \in Nat /\ BitsPerKey \in Nat \ {0} /\ MinKeys \in Nat \ {0}
    /\ KProbes \in Nat /\ HashBits \in Nat /\ Rotation \in 0 .. HashBits
    /\ Free \notin Callers
    /\ HashFunctions \subseteq [Keys -> 0 .. 2^HashBits - 1]

\* A fact of arithmetic that the proofs need: powers of two are positive.
ASSUME PowersAssumption == \A n \in 0 .. HashBits : 2^n \in Nat \ {0}

VARIABLES
    hashKey,         \* murmur3.Sum32, fixed at the start
    phase,           \* "building", "failed" (cleanup ran), "published", "open"
    data,            \* the records: key, value and offset
    index,           \* b.index, then r.index
    bytesWritten, lastIndexPos,
    filter,          \* the bits set, and their number
    mu,              \* who holds r.mu
    filePos,         \* number of the record the file position is at
    call             \* the calls on the Reader

builder == <<data, index, bytesWritten, lastIndexPos>>
vars == <<hashKey, phase, builder, filter, mu, filePos, call>>

\* No call under way; the last answer stays for the caller to look at.
Returned(k, found, val) ==
    [pc |-> "returned", key |-> k, left |-> 0, right |-> -1, result |-> 0,
     found |-> found, val |-> val, all |-> {}]

Init ==
    /\ hashKey \in HashFunctions
    /\ phase = "building" /\ data = <<>> /\ index = <<>>
    /\ bytesWritten = 0 /\ lastIndexPos = 0
    /\ filter = [bits |-> {}, length |-> 0]
    /\ mu = Free /\ filePos = 1
    /\ call = [c \in Callers |-> [Returned(0, FALSE, 0) EXCEPT !.pc = "idle"]]

-----------------------------------------------------------------------------
(* Builder *)

RecordSize(len) == 1 + len

\* Mutant of NeedsIndexEntry: the first record gets no entry.
NeedsIndexEntryLater(start) == start - lastIndexPos >= IndexInterval

NeedsIndexEntry(start) == start = 0 \/ start - lastIndexPos >= IndexInterval

\* Builder.Flush and Merge add keys in ascending order.
Ascends(k) == \A i \in 1 .. Len(data) : data[i].key < k

Add(k, len) ==
    /\ phase = "building" /\ Ascends(k)
    /\ data' = Append(data, [key |-> k, val |-> len, offset |-> bytesWritten])
    /\ IF NeedsIndexEntry(bytesWritten)
       THEN /\ index' = Append(index, [key |-> k, offset |-> bytesWritten])
            /\ lastIndexPos' = bytesWritten
       ELSE UNCHANGED <<index, lastIndexPos>>
    /\ bytesWritten' = bytesWritten + RecordSize(len)
    /\ UNCHANGED <<hashKey, phase, filter, mu, filePos, call>>

\* An unsigned number of HashBits bits, rotated.
Delta(h) == (h \div 2^Rotation) + ((h * 2^(HashBits - Rotation)) % 2^HashBits)

\* The bit a probe looks at: h grows by delta and wraps around.
BitPos(h, i, bitLength) == ((h + i * Delta(h)) % 2^HashBits) % bitLength

\* NewBloomFilter: a whole number of bytes for at least MinKeys keys.
BitLength(numKeys) ==
    LET n == IF numKeys < MinKeys THEN MinKeys ELSE numKeys
    IN  ((n * BitsPerKey + 7) \div 8) * 8

AddHash(h, bitLength) == {BitPos(h, i, bitLength) : i \in 0 .. KProbes - 1}

\* Mutant of MayContain: one probe too many.
MayContainProbesOn(k) ==
    \A i \in 0 .. KProbes : BitPos(hashKey[k], i, filter.length) \in filter.bits

MayContain(k) ==
    filter.length = 0 \/
    \A i \in 0 .. KProbes - 1 : BitPos(hashKey[k], i, filter.length) \in filter.bits

\* The filter, the index and the footer follow the records, and the complete
\* file gets its name.
Finish ==
    /\ phase = "building"
    /\ LET n == BitLength(Len(data))
       IN  filter' = [length |-> n, bits |->
               UNION {AddHash(hashKey[data[i].key], n) : i \in 1 .. Len(data)}]
    /\ phase' = "published"
    /\ UNCHANGED <<hashKey, builder, mu, filePos, call>>

\* Any write, Sync, Close or the rename fails: the temporary file is removed.
Fail ==
    /\ phase = "building"
    /\ phase' = "failed"
    /\ UNCHANGED <<hashKey, builder, filter, mu, filePos, call>>

-----------------------------------------------------------------------------
(* Reader *)

\* NewReader reads filter and index back by way of the footer; the Reader is
\* shared from then on.  An error leaves the file for a later attempt.
NewReader ==
    /\ phase = "published"
    /\ phase' = "open"
    /\ UNCHANGED <<hashKey, builder, filter, mu, filePos, call>>

At(c, pc) == phase = "open" /\ call[c].pc = pc

\* Get asks the filter before it takes the lock.
GetBegin(c, k) ==
    /\ At(c, "idle")
    /\ call' = [call EXCEPT ![c] =
           IF MayContain(k) THEN [@ EXCEPT !.pc = "locking", !.key = k]
           ELSE Returned(k, FALSE, 0)]
    /\ UNCHANGED <<hashKey, phase, builder, filter, mu, filePos>>

\* r.mu is taken; findIndexEntry starts on the whole index.
GetLock(c) ==
    /\ At(c, "locking") /\ mu = Free
    /\ mu' = c
    /\ call' = [call EXCEPT ![c].pc = "searching", ![c].left = 0,
                            ![c].right = Len(index) - 1, ![c].result = 0]
    /\ UNCHANGED <<hashKey, phase, builder, filter, filePos>>

Mid(c) == (call[c].left + call[c].right) \div 2

\* Mutant of Search: the lower bound stays at a hit.
SearchStays(c) ==
    /\ At(c, "searching") /\ call[c].left <= call[c].right
    /\ call' = [call EXCEPT ![c] =
           IF index[Mid(c) + 1].key <= @.key
           THEN [@ EXCEPT !.left = Mid(c), !.result = index[Mid(c) + 1].offset]
           ELSE [@ EXCEPT !.right = Mid(c) - 1]]
    /\ UNCHANGED <<hashKey, phase, builder, filter, mu, filePos>>

\* One round of the binary search (the slice is numbered from 0).
Search(c) ==
    /\ At(c, "searching") /\ call[c].left <= call[c].right
    /\ call' = [call EXCEPT ![c] =
           IF index[Mid(c) + 1].key <= @.key
           THEN [@ EXCEPT !.left = Mid(c) + 1, !.result = index[Mid(c) + 1].offset]
           ELSE [@ EXCEPT !.right = Mid(c) - 1]]
    /\ UNCHANGED <<hashKey, phase, builder, filter, mu, filePos>>

\* The record that starts at an offset; the filter block follows the records.
RecordAt(offset) ==
    IF offset = bytesWritten THEN Len(data) + 1
    ELSE CHOOSE i \in 1 .. Len(data) : data[i].offset = offset

Seek(c) ==
    /\ At(c, "searching") /\ call[c].left > call[c].right
    /\ filePos' = RecordAt(call[c].result)
    /\ call' = [call EXCEPT ![c].pc = "scanning"]
    /\ UNCHANGED <<hashKey, phase, builder, filter, mu>>

Return(c, found, val) ==
    /\ call' = [call EXCEPT ![c] = Returned(@.key, found, val)]
    /\ mu' = Free

\* One round of Get's loop at the file position: a larger key ends it, and so
\* does the filter block, whose bytes are no key a client looks for.
Scan(c) ==
    /\ At(c, "scanning")
    /\ IF filePos > Len(data) \/ data[filePos].key > call[c].key
       THEN Return(c, FALSE, 0) /\ UNCHANGED filePos
       ELSE /\ filePos' = filePos + 1
            /\ IF data[filePos].key = call[c].key THEN Return(c, TRUE, data[filePos].val)
               ELSE UNCHANGED <<call, mu>>
    /\ UNCHANGED <<hashKey, phase, builder, filter>>

\* Mutant of ReadAllLock: ReadAll does not take r.mu.
ReadAllUnlocked(c) ==
    /\ At(c, "idle") /\ filePos' = 1
    /\ call' = [call EXCEPT ![c].pc = "reading"]
    /\ UNCHANGED <<hashKey, phase, builder, filter, mu>>

\* ReadAll takes r.mu and goes back to the start,
ReadAllLock(c) ==
    /\ At(c, "idle") /\ mu = Free
    /\ mu' = c /\ filePos' = 1
    /\ call' = [call EXCEPT ![c].pc = "reading"]
    /\ UNCHANGED <<hashKey, phase, builder, filter>>

\* and reads records until it has the bytes the footer says (result counts
\* them); the bytes of the filter block would be an error.
ReadNext(c) ==
    /\ At(c, "reading")
    /\ IF call[c].result < bytesWritten /\ filePos <= Len(data)
       THEN /\ call' = [call EXCEPT ![c].all = @ \cup {data[filePos]},
                                    ![c].result = @ + RecordSize(data[filePos].val)]
            /\ filePos' = filePos + 1
            /\ UNCHANGED mu
       ELSE /\ call' = [call EXCEPT ![c].pc = "listed"]
            /\ mu' = Free
            /\ UNCHANGED filePos
    /\ UNCHANGED <<hashKey, phase, builder, filter>>

\* A Seek or a read fails: Get answers "not found", and ReadAll returns an error
\* or, if it could not read the footer, an empty map.  r.mu is given back.
ReadFails(c) ==
    /\ At(c, "scanning") \/ At(c, "reading")
       \/ (At(c, "searching") /\ call[c].left > call[c].right)
    /\ call' = [call EXCEPT ![c] = [Returned(@.key, FALSE, 0) EXCEPT !.pc = "failed"]]
    /\ mu' = Free
    /\ UNCHANGED <<hashKey, phase, builder, filter, filePos>>

\* The caller takes the answer and may call again.
Done(c) ==
    /\ call[c].pc \in {"returned", "listed", "failed"}
    /\ call' = [call EXCEPT ![c] = [Returned(0, FALSE, 0) EXCEPT !.pc = "idle"]]
    /\ UNCHANGED <<hashKey, phase, builder, filter, mu, filePos>>

ReaderStep(c) ==
    \/ GetLock(c) \/ Search(c) \/ Seek(c) \/ Scan(c) \/ ReadNext(c)

Next ==
    \/ \E k \in Keys, len \in Lengths : Add(k, len)
    \/ Finish \/ Fail \/ NewReader
    \/ \E c \in Callers :
          \/ \E k \in Keys : GetBegin(c, k)
          \/ ReadAllLock(c) \/ ReaderStep(c) \/ ReadFails(c) \/ Done(c)

Spec == Init /\ [][Next]_vars

\* A goroutine inside Get or ReadAll goes on; a Go mutex is not taken from a
\* waiter for ever (starvation mode), hence the strong fairness.
FairSpec ==
    /\ Spec
    /\ \A c \in Callers : SF_vars(GetLock(c)) /\ WF_vars(ReaderStep(c))

-----------------------------------------------------------------------------
(* Properties *)

\* The variables have their types, and the sparse index is the skeleton of the
\* file: its entries name records, the first of them the first record, in the
\* order of the file, and records are as far apart as their sizes.
TypeOK ==
    /\ hashKey \in HashFunctions
    /\ phase \in {"building", "failed", "published", "open"}
    /\ data \in Seq([key : Keys, val : Lengths, offset : Nat])
    /\ index \in Seq([key : Keys, offset : Nat])
    /\ bytesWritten \in Nat /\ lastIndexPos \in Nat
    /\ filter.length \in Nat /\ \A b \in filter.bits : b \in 0 .. filter.length - 1
    /\ mu \in Callers \cup {Free} /\ filePos \in 1 .. Len(data) + 1
    /\ \A c \in Callers :
          /\ call[c].pc \in {"idle", "locking", "searching", "scanning", "reading",
                             "returned", "listed", "failed"}
          /\ call[c].left \in 0 .. Len(index) /\ call[c].right \in -1 .. Len(index) - 1
    /\ (data = <<>>) <=> (index = <<>>)
    /\ \A i \in 1 .. Len(index) : \E j \in 1 .. Len(data) :
          /\ index[i] = [key |-> data[j].key, offset |-> data[j].offset]
          /\ i <= j /\ (i = 1 <=> j = 1)

\* The value the builder was given for k.
Added(k, len) == \E i \in 1 .. Len(data) : data[i].key = k /\ data[i].val = len

\* Filter, sparse index, binary search and the scan, with other calls moving
\* the file position in between, answer Get with what was added: no key is
\* missed, and no value is another key's, if the file can be read; calls that
\* failed before leave nothing behind.
GetCorrect ==
    \A c \in Callers : call[c].pc = "returned" =>
        IF call[c].found THEN Added(call[c].key, call[c].val)
        ELSE \A len \in Lengths : ~Added(call[c].key, len)

\* ReadAll, by which Flush verifies a new file, returns every record of a file
\* that can be read.
ReadAllComplete ==
    \A c \in Callers : call[c].pc = "listed" =>
        call[c].all = {data[i] : i \in 1 .. Len(data)}

\* Who holds r.mu gives it back after a bounded number of rounds, whatever the
\* others do: the interval of the binary search shrinks, the file position
\* moves on, and nobody else moves either.
RoundsLeft(c) ==
    CASE call[c].pc = "searching" -> call[c].right - call[c].left + 1 + Len(data) + 2
      [] call[c].pc \in {"scanning", "reading"} -> Len(data) + 2 - filePos
      [] OTHER -> 0
HoldersAdvance ==
    [][\A c \in Callers : mu = c /\ <<call[c], filePos>>' # <<call[c], filePos>> =>
          RoundsLeft(c) > 0 /\ RoundsLeft(c)' \in 0 .. RoundsLeft(c) - 1]_vars

\* Get comes back: the binary search narrows its interval in every round, the
\* scan ends at the filter block, and who fails does not keep r.mu.
GetReturns ==
    \A c \in Callers : call[c].pc = "locking" ~> call[c].pc \in {"returned", "failed"}
=============================================================================
