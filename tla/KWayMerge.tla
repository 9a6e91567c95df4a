------------------------------ MODULE KWayMerge ------------------------------
(***************************************************************************)
(* sstable.Merge (engine/sstable/merge.go) over the iterators of           *)
(* iterator.go that RunCompaction opens from the newest file to the        *)
(* oldest: a heap of the iterators' current records, ordered by key and    *)
(* then by age, and lastKey to skip the older records of a key.            *)
(*                                                                         *)
(* Keys are their ranks in bytes.Compare, from 1.  A file is a map from    *)
(* its keys to values; its iterator gives them in ascending order.         *)
(***************************************************************************)
EXTENDS Naturals, Sequences

CONSTANTS
    Keys, Values,
    NumFiles,    \* files to merge; 1 is the newest
    Events       \* "read": an I/O call fails; "footer": reading a footer fails

ASSUME MergeAssumption ==
    /\ Keys \subseteq Nat \ {0}
    /\ NumFiles \in Nat
    /\ Events \subseteq {"read", "footer"}

VARIABLES
    files,     \* what the files hold
    rest,      \* the keys an iterator has still to give
    next,      \* the iterator to open or to seed next
    heap,      \* h: items with key, value and iterIdx
    lastKey,   \* lastKey (0: nil)
    out,       \* the records given to builder.Add
    pc         \* "opening", "seeding", "merging", "done" or "failed"

vars == <<files, rest, next, heap, lastKey, out, pc>>

Files == 1 .. NumFiles
File == UNION {[K -> Values] : K \in SUBSET Keys}

Init ==
    /\ files \in [Files -> File]
    /\ rest = [i \in Files |-> {}]
    /\ next = 1 /\ heap = {} /\ lastKey = 0 /\ out = <<>> /\ pc = "opening"

\* NewIterator, NewBuilder, Next, Add or Finish returned an error, and so does
\* RunCompaction: the merged file gets no name.
Fail ==
    /\ "read" \in Events /\ pc \notin {"done", "failed"}
    /\ pc' = "failed"
    /\ UNCHANGED <<files, rest, next, heap, lastKey, out>>

\* NewIterator takes the end of the records from the footer.  The error of
\* reading it is dropped, and the end is then 0.
Open ==
    /\ pc = "opening" /\ next \in Files
    /\ \E K \in {DOMAIN files[next]} \cup (IF "footer" \in Events THEN {{}} ELSE {}) :
           rest' = [rest EXCEPT ![next] = K]
    /\ next' = next + 1
    /\ UNCHANGED <<files, heap, lastKey, out, pc>>

Opened ==
    /\ pc = "opening" /\ next \notin Files
    /\ pc' = "seeding" /\ next' = 1
    /\ UNCHANGED <<files, rest, heap, lastKey, out>>

\* Mutant of Advance: the position does not move on.
AdvanceStays(h, i) ==
    IF rest[i] = {} THEN heap' = h /\ UNCHANGED rest
    ELSE \E k \in rest[i] :
            /\ \A j \in rest[i] : k <= j
            /\ heap' = h \cup {[key |-> k, val |-> files[i][k], iterIdx |-> i]}
            /\ UNCHANGED rest

\* Iterator.Next, and the push of what it gives on the heap h.
Advance(h, i) ==
    IF rest[i] = {} THEN heap' = h /\ UNCHANGED rest
    ELSE \E k \in rest[i] :
            /\ \A j \in rest[i] : k <= j
            /\ rest' = [rest EXCEPT ![i] = @ \ {k}]
            /\ heap' = h \cup {[key |-> k, val |-> files[i][k], iterIdx |-> i]}

Seed ==
    /\ pc = "seeding" /\ next \in Files
    /\ Advance(heap, next)
    /\ next' = next + 1
    /\ UNCHANGED <<files, lastKey, out, pc>>

Seeded ==
    /\ pc = "seeding" /\ next \notin Files
    /\ pc' = "merging"
    /\ UNCHANGED <<files, rest, next, heap, lastKey, out>>

\* Mutant of Less: the order of the files is the other way round.
LessByAge(a, b) == a.key < b.key \/ (a.key = b.key /\ a.iterIdx > b.iterIdx)

Less(a, b) == a.key < b.key \/ (a.key = b.key /\ a.iterIdx < b.iterIdx)

\* Mutant of AddUnlessSeen: every record is written.
AddAlways(item) == out' = Append(out, [key |-> item.key, val |-> item.val]) /\ lastKey' = item.key

\* Deduplication: only the first record of a key is written.
AddUnlessSeen(item) ==
    IF item.key = lastKey THEN UNCHANGED <<out, lastKey>>
    ELSE /\ out' = Append(out, [key |-> item.key, val |-> item.val])
         /\ lastKey' = item.key

\* One round of the loop: heap.Pop, builder.Add, the iterator's next record.
Pop ==
    /\ pc = "merging"
    /\ \E item \in heap :
          /\ \A other \in heap \ {item} : Less(item, other)
          /\ AddUnlessSeen(item)
          /\ Advance(heap \ {item}, item.iterIdx)
    /\ UNCHANGED <<files, next, pc>>

Finish ==
    /\ pc = "merging" /\ heap = {}
    /\ pc' = "done"
    /\ UNCHANGED <<files, rest, next, heap, lastKey, out>>

Step == Open \/ Opened \/ Seed \/ Seeded \/ Pop \/ Finish

Next == Fail \/ Step

Spec == Init /\ [][Next]_vars

-----------------------------------------------------------------------------
(* Properties *)

\* The variables have their types; a heap item is the current record of its
\* iterator, and each iterator has at most one.
TypeOK ==
    /\ files \in [Files -> File]
    /\ rest \in [Files -> SUBSET Keys]
    /\ next \in 1 .. NumFiles + 1
    /\ heap \subseteq [key : Keys, val : Values, iterIdx : Files]
    /\ \A a, b \in heap : a.iterIdx = b.iterIdx => a = b
    /\ lastKey \in Keys \cup {0}
    /\ out \in Seq([key : Keys, val : Values])
    /\ pc \in {"opening", "seeding", "merging", "done", "failed"}

\* The value of k in the newest file that has k.
NewestValue(k, v) ==
    \E i \in Files : /\ k \in DOMAIN files[i] /\ files[i][k] = v
                     /\ \A j \in Files : j < i => k \notin DOMAIN files[j]

\* merge.go: Merge "writes their deduplicated, sorted contents to the builder".
\* The merged file has the keys of all the files, each with its newest value;
\* module Engine relies on it for compaction.
MergeCorrect ==
    pc = "done" =>
        /\ \A i \in Files : \A k \in DOMAIN files[i] : \E n \in 1 .. Len(out) : out[n].key = k
        /\ \A n \in 1 .. Len(out) : NewestValue(out[n].key, out[n].val)

\* builder.go: "Keys MUST be inserted in sorted order".  Merge never gives the
\* builder a key twice or out of order, however the files overlap.
AddsAscend == \A m, n \in 1 .. Len(out) : m < n => out[m].key < out[n].key

\* The records that an iterator has still to give, or that are on the heap.
Unread ==
    {r \in Files \X Keys : r[2] \in rest[r[1]] \/
                           \E item \in heap : item.iterIdx = r[1] /\ item.key = r[2]}

\* Every round of the loop takes one record off for good, in whichever file it
\* is, and no other is passed over.
RoundsConsume ==
    [][pc = "merging" /\ pc' = "merging" =>
          \E r \in Unread : r[2] >= lastKey /\ r[2] = lastKey' /\ Unread' = Unread \ {r}]_vars
=============================================================================
