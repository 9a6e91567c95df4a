--------------------------- MODULE KWayMergeProofs ---------------------------
(***************************************************************************)
(* sstable.Merge is correct for every number of files, whatever they hold. *)
(* OrderInv keeps the keys of the heap, of the iterators and of the output *)
(* apart; CoverInv accounts for every record of every file: it is still in *)
(* its iterator, on the heap, or no larger than the last key written.      *)
(***************************************************************************)
EXTENDS KWayMerge, TLAPS, SequenceTheorems

\* What an iterator has still to give, and the record it gave last.
HeapCurrent ==
    /\ \A i \in Files : rest[i] \subseteq DOMAIN files[i]
    /\ \A a \in heap :
          /\ a.key \in DOMAIN files[a.iterIdx] /\ a.val = files[a.iterIdx][a.key]
          /\ \A k \in rest[a.iterIdx] : a.key < k

\* Before the loop nothing is written, and the heap has items of the iterators
\* that were seeded.
NotStarted ==
    /\ pc \in {"opening", "seeding"} => out = <<>> /\ lastKey = 0
    /\ pc = "opening" => heap = {}
    /\ pc = "seeding" => \A a \in heap : a.iterIdx < next

\* The output ends at lastKey, the heap begins there.
Ordered ==
    /\ \A a \in heap : lastKey <= a.key
    /\ \A n \in 1 .. Len(out) : out[n].key <= lastKey
    /\ AddsAscend

OrderInv == TypeOK /\ HeapCurrent /\ NotStarted /\ Ordered

\* Every record of file i is in its iterator, on the heap or behind the merge.
Served(i) ==
    /\ \A k \in DOMAIN files[i] :
          k \in rest[i] \/ k <= lastKey \/ \E a \in heap : a.iterIdx = i /\ a.key = k
    /\ rest[i] # {} => \E a \in heap : a.iterIdx = i

Covered ==
    /\ \A n \in 1 .. Len(out) : NewestValue(out[n].key, out[n].val)
    /\ \A i \in Files : \A k \in DOMAIN files[i] :
          k <= lastKey => \E n \in 1 .. Len(out) : out[n].key = k

CoverInv ==
    /\ pc = "opening" => \A i \in Files : i < next => rest[i] = DOMAIN files[i]
    /\ pc = "seeding" => \A i \in Files :
          IF i < next THEN Served(i) ELSE rest[i] = DOMAIN files[i]
    /\ pc \in {"merging", "done"} => \A i \in Files : Served(i)
    /\ pc = "done" => heap = {}
    /\ Covered

-----------------------------------------------------------------------------

\* The files are functions on sets of keys.
LEMMA FileFacts ==
    ASSUME TypeOK, NEW i \in Files
    PROVE  /\ DOMAIN files[i] \subseteq Keys
           /\ \A k \in DOMAIN files[i] : files[i][k] \in Values
<1>1. files[i] \in File
  BY DEF TypeOK
<1>2. PICK K \in SUBSET Keys : files[i] \in [K -> Values]
  BY <1>1 DEF File
<1> QED
  BY <1>2

\* Pushing the next record of an iterator that has no item on the heap keeps
\* the types and HeapCurrent.
LEMMA AdvanceFacts ==
    ASSUME TypeOK, HeapCurrent, NEW i \in Files, NEW h \in SUBSET heap,
           \A a \in h : a.iterIdx # i, Advance(h, i), files' = files
    PROVE  /\ rest' \in [Files -> SUBSET Keys]
           /\ heap' \subseteq [key : Keys, val : Values, iterIdx : Files]
           /\ \A a, b \in heap' : a.iterIdx = b.iterIdx => a = b
           /\ HeapCurrent'
           /\ h \subseteq heap'
           /\ \A a \in heap' \ h : a.iterIdx = i /\ a.key \in rest[i]
           /\ \A j \in Files : j # i => rest'[j] = rest[j]
           /\ rest'[i] \subseteq rest[i]
           /\ \A k \in rest[i] : k \in rest'[i] \/ \E a \in heap' : a.iterIdx = i /\ a.key = k
           /\ rest'[i] # {} => \E a \in heap' : a.iterIdx = i
<1> USE MergeAssumption
<1>t. /\ rest \in [Files -> SUBSET Keys] /\ rest[i] \subseteq Keys
      /\ h \subseteq [key : Keys, val : Values, iterIdx : Files]
  BY DEF TypeOK
<1>f. DOMAIN files[i] \subseteq Keys /\ \A k \in DOMAIN files[i] : files[i][k] \in Values
  BY FileFacts
<1>1. CASE rest[i] = {}
  BY <1>1, <1>t DEF Advance, HeapCurrent, TypeOK
<1>2. CASE rest[i] # {}
  <2>1. PICK k \in rest[i] :
            /\ \A j \in rest[i] : k <= j
            /\ rest' = [rest EXCEPT ![i] = @ \ {k}]
            /\ heap' = h \cup {[key |-> k, val |-> files[i][k], iterIdx |-> i]}
    BY <1>2 DEF Advance
  <2>2. k \in Keys /\ k \in DOMAIN files[i] /\ files[i][k] \in Values
    BY <1>f, <1>t DEF HeapCurrent
  <2>3. rest'[i] = rest[i] \ {k} /\ \A j \in Files : j # i => rest'[j] = rest[j]
    BY <2>1, <1>t
  <2>4. rest' \in [Files -> SUBSET Keys]
    BY <2>1, <1>t
  <2>5. heap' \subseteq [key : Keys, val : Values, iterIdx : Files]
    BY <2>1, <2>2, <1>t
  <2>6. \A a, b \in heap' : a.iterIdx = b.iterIdx => a = b
    BY <2>1 DEF TypeOK
  <2>7. \A j \in rest'[i] : k < j
    <3>1. \A j \in rest'[i] : j \in Nat /\ k \in Nat /\ k <= j /\ j # k
      BY <2>1, <2>2, <2>3, <1>t
    <3> QED
      BY <3>1
  <2>8. HeapCurrent'
    <3>1. \A j \in Files : rest'[j] \subseteq DOMAIN files'[j]
      BY <2>3 DEF HeapCurrent
    <3>2. ASSUME NEW a \in heap'
          PROVE  /\ a.key \in DOMAIN files'[a.iterIdx] /\ a.val = files'[a.iterIdx][a.key]
                 /\ \A j \in rest'[a.iterIdx] : a.key < j
      <4>1. CASE a \in h
        BY <4>1, <2>3, <1>t DEF HeapCurrent
      <4>2. CASE a = [key |-> k, val |-> files[i][k], iterIdx |-> i]
        BY <4>2, <2>2, <2>7
      <4> QED
        BY <4>1, <4>2, <2>1
    <3> QED
      BY <3>1, <3>2 DEF HeapCurrent
  <2>9. [key |-> k, val |-> files[i][k], iterIdx |-> i] \in heap'
    BY <2>1
  <2>10. \A a \in heap' \ h : a.iterIdx = i /\ a.key \in rest[i]
    BY <2>1
  <2>11. \A j \in rest[i] : j \in rest'[i] \/ \E a \in heap' : a.iterIdx = i /\ a.key = j
    BY <2>3, <2>9
  <2>12. h \subseteq heap' /\ rest'[i] \subseteq rest[i] /\ \E a \in heap' : a.iterIdx = i
    BY <2>1, <2>3, <2>9
  <2> QED
    BY <2>3, <2>4, <2>5, <2>6, <2>8, <2>10, <2>11, <2>12
<1> QED
  BY <1>1, <1>2

\* Merging keeps the order of the keys, whatever fails.
LEMMA OrderStep == OrderInv /\ [Next]_vars => OrderInv'
<1> SUFFICES ASSUME OrderInv, [Next]_vars PROVE OrderInv'
  OBVIOUS
<1> USE MergeAssumption
<1>t. TypeOK /\ HeapCurrent /\ NotStarted /\ Ordered
  BY DEF OrderInv
<1>k. /\ \A k \in Keys : k \in Nat
      /\ lastKey \in Nat /\ next \in Nat
      /\ \A a \in heap : a.key \in Nat
      /\ \A n \in 1 .. Len(out) : out[n].key \in Nat
  <2>1. \A k \in Keys : k \in Nat
    OBVIOUS
  <2>2. lastKey \in Nat /\ next \in Nat
    BY <1>t, <2>1 DEF TypeOK
  <2>3. \A a \in heap : a.key \in Keys
    BY <1>t DEF TypeOK
  <2>4. \A n \in 1 .. Len(out) : out[n].key \in Keys
    <3>1. out \in Seq([key : Keys, val : Values])
      BY <1>t DEF TypeOK
    <3>2. \A n \in 1 .. Len(out) : out[n] \in [key : Keys, val : Values]
      BY <3>1, ElementOfSeq
    <3> QED
      BY <3>2
  <2> QED
    BY <2>1, <2>2, <2>3, <2>4
<1>1. CASE Fail
  BY <1>1, <1>t DEF Fail, OrderInv, TypeOK, HeapCurrent, NotStarted, Ordered, AddsAscend
<1>2. CASE Open
  <2>1. PICK K \in {DOMAIN files[next]} \cup (IF "footer" \in Events THEN {{}} ELSE {}) :
            rest' = [rest EXCEPT ![next] = K]
    BY <1>2 DEF Open
  <2>2. K \subseteq DOMAIN files[next] /\ K \subseteq Keys
    BY <2>1, <1>2, <1>t, FileFacts DEF Open
  <2>3. rest' \in [Files -> SUBSET Keys] /\ rest'[next] = K
        /\ \A j \in Files : j # next => rest'[j] = rest[j]
    BY <2>1, <2>2, <1>2, <1>t DEF TypeOK, Open
  <2>4. TypeOK'
    BY <2>3, <1>2, <1>t DEF TypeOK, Open, Files
  <2>5. HeapCurrent'
    BY <2>2, <2>3, <1>2, <1>t DEF HeapCurrent, NotStarted, Open
  <2>6. NotStarted' /\ Ordered'
    BY <1>2, <1>t DEF NotStarted, Ordered, AddsAscend, Open
  <2> QED
    BY <2>4, <2>5, <2>6 DEF OrderInv
<1>3. CASE Opened
  BY <1>3, <1>t DEF Opened, OrderInv, TypeOK, HeapCurrent, NotStarted, Ordered, AddsAscend
<1>4. CASE Seed
  <2>1. /\ pc = "seeding" /\ next \in Files /\ Advance(heap, next) /\ next' = next + 1
        /\ UNCHANGED <<files, lastKey, out, pc>>
    BY <1>4 DEF Seed
  <2>2. \A a \in heap : a.iterIdx # next
    BY <2>1, <1>t, <1>k DEF NotStarted, Files, TypeOK
  <2>3. /\ rest' \in [Files -> SUBSET Keys]
        /\ heap' \subseteq [key : Keys, val : Values, iterIdx : Files]
        /\ \A a, b \in heap' : a.iterIdx = b.iterIdx => a = b
        /\ HeapCurrent'
        /\ \A a \in heap' \ heap : a.iterIdx = next /\ a.key \in rest[next]
    BY <2>1, <2>2, <1>t, AdvanceFacts
  <2>4. TypeOK'
    BY <2>1, <2>3, <1>t DEF TypeOK, Files
  <2>5. NotStarted'
    BY <2>1, <2>3, <1>t, <1>k DEF NotStarted, Files, TypeOK
  <2>6. Ordered'
    <3>1. lastKey' = 0 /\ out' = <<>>
      BY <2>1, <1>t DEF NotStarted
    <3>2. \A a \in heap' : a.key \in Nat
      BY <2>3, <1>k
    <3> QED
      BY <3>1, <3>2 DEF Ordered, AddsAscend
  <2> QED
    BY <2>3, <2>4, <2>5, <2>6 DEF OrderInv
<1>5. CASE Seeded
  BY <1>5, <1>t DEF Seeded, OrderInv, TypeOK, HeapCurrent, NotStarted, Ordered, AddsAscend
<1>6. CASE Pop
  <2>1. PICK item \in heap :
            /\ \A other \in heap \ {item} : Less(item, other)
            /\ AddUnlessSeen(item)
            /\ Advance(heap \ {item}, item.iterIdx)
    BY <1>6 DEF Pop
  <2>2. pc = "merging" /\ UNCHANGED <<files, next, pc>>
    BY <1>6 DEF Pop
  <2>3. item.key \in Keys /\ item.val \in Values /\ item.iterIdx \in Files
    BY <1>t DEF TypeOK
  <2>4. \A a \in heap \ {item} : a.iterIdx # item.iterIdx
    BY <1>t DEF TypeOK
  <2>5. /\ rest' \in [Files -> SUBSET Keys]
        /\ heap' \subseteq [key : Keys, val : Values, iterIdx : Files]
        /\ \A a, b \in heap' : a.iterIdx = b.iterIdx => a = b
        /\ HeapCurrent'
        /\ \A a \in heap' \ (heap \ {item}) : a.iterIdx = item.iterIdx /\ a.key \in rest[item.iterIdx]
    BY <2>1, <2>2, <2>3, <2>4, <1>t, AdvanceFacts
  <2>6. lastKey <= item.key /\ lastKey' = item.key
    BY <2>1, <1>t DEF AddUnlessSeen, Ordered
  <2>7. \A a \in heap' : lastKey' <= a.key
    <3> TAKE a \in heap'
    <3>1. CASE a \in heap \ {item}
      BY <3>1, <2>1, <2>3, <2>6, <1>k, <1>t DEF Less, TypeOK
    <3>2. CASE a \notin heap \ {item}
      <4>1. a.key \in rest[item.iterIdx] /\ a.key \in Nat
        BY <3>2, <2>5, <1>k
      <4> QED
        BY <4>1, <2>6, <1>k, <1>t DEF HeapCurrent
    <3> QED
      BY <3>1, <3>2
  <2>8. /\ out' \in Seq([key : Keys, val : Values])
        /\ \A n \in 1 .. Len(out') : out'[n].key <= lastKey'
        /\ AddsAscend'
    <3>1. CASE item.key = lastKey
      BY <3>1, <2>1, <1>t DEF AddUnlessSeen, Ordered, AddsAscend, TypeOK
    <3>2. CASE item.key # lastKey
      <4>1. /\ out' = Append(out, [key |-> item.key, val |-> item.val])
            /\ out \in Seq([key : Keys, val : Values])
        BY <3>2, <2>1, <1>t DEF AddUnlessSeen, TypeOK
      <4>2. /\ out' \in Seq([key : Keys, val : Values]) /\ Len(out') = Len(out) + 1
            /\ \A n \in 1 .. Len(out) : out'[n] = out[n]
            /\ out'[Len(out) + 1].key = item.key
        BY <4>1, <2>3
      <4>3. lastKey < item.key
        BY <3>2, <2>6, <2>3, <1>k
      <4>4. \A n \in 1 .. Len(out) : out[n].key \in Nat /\ out[n].key <= lastKey
        BY <4>1, <1>t, <1>k DEF Ordered
      <4>5. Len(out) \in Nat /\ item.key \in Nat
        BY <4>1, <2>3, <1>k
      <4>6. \A n \in 1 .. Len(out') : n \in 1 .. Len(out) \/ n = Len(out) + 1
        BY <4>2, <4>5
      <4>7. \A n \in 1 .. Len(out') : out'[n].key <= lastKey'
        BY <4>2, <4>3, <4>4, <4>5, <4>6, <2>6, <1>k
      <4>8. AddsAscend'
        <5> SUFFICES ASSUME NEW m \in 1 .. Len(out'), NEW n \in 1 .. Len(out'), m < n
                     PROVE  out'[m].key < out'[n].key
          BY DEF AddsAscend
        <5>1. m \in 1 .. Len(out)
          BY <4>2, <4>5
        <5>2. CASE n \in 1 .. Len(out)
          BY <5>1, <5>2, <4>2, <1>t DEF Ordered, AddsAscend
        <5>3. CASE n = Len(out) + 1
          BY <5>1, <5>3, <4>2, <4>3, <4>4, <4>5, <1>k
        <5> QED
          BY <5>2, <5>3, <4>6
      <4> QED
        BY <4>2, <4>7, <4>8
    <3> QED
      BY <3>1, <3>2
  <2>9. TypeOK'
    BY <2>2, <2>3, <2>5, <2>6, <2>8, <1>t DEF TypeOK
  <2> QED
    BY <2>2, <2>5, <2>7, <2>8, <2>9 DEF OrderInv, NotStarted, Ordered
<1>7. CASE Finish
  BY <1>7, <1>t DEF Finish, OrderInv, TypeOK, HeapCurrent, NotStarted, Ordered, AddsAscend
<1>8. CASE UNCHANGED vars
  BY <1>8, <1>t DEF vars, OrderInv, TypeOK, HeapCurrent, NotStarted, Ordered, AddsAscend
<1> QED
  BY <1>1, <1>2, <1>3, <1>4, <1>5, <1>6, <1>7, <1>8 DEF Next, Step

LEMMA OrderInit == Init => OrderInv
<1> USE MergeAssumption
<1> QED
  BY DEF Init, OrderInv, TypeOK, HeapCurrent, NotStarted, Ordered, AddsAscend, Files

\* The heap never holds two entries of one iterator, and keys, values and
\* iterator numbers stay in range, whatever I/O call fails.
THEOREM MergeTypeCorrect == Spec => []TypeOK
<1>1. OrderInv => TypeOK
  BY DEF OrderInv
<1> QED
  BY <1>1, OrderInit, OrderStep, PTL DEF Spec

\* Merge gives builder.Add every key once and in ascending order, for any files
\* and whatever I/O call fails (merge.go's heap and lastKey).
THEOREM MergeSorted == Spec => []AddsAscend
<1>1. OrderInv => AddsAscend
  BY DEF OrderInv, Ordered
<1> QED
  BY <1>1, OrderInit, OrderStep, PTL DEF Spec

-----------------------------------------------------------------------------

\* Without a dropped footer error every record stays accounted for.
LEMMA CoverStep ==
    ASSUME "footer" \notin Events, OrderInv, CoverInv, [Next]_vars
    PROVE  CoverInv'
<1> USE MergeAssumption
<1>t. TypeOK /\ HeapCurrent /\ NotStarted /\ Ordered
  BY DEF OrderInv
<1>k. /\ \A k \in Keys : k \in Nat
      /\ lastKey \in Nat /\ next \in Nat
      /\ \A a \in heap : a.key \in Keys /\ a.iterIdx \in Files
      /\ \A i \in Files : DOMAIN files[i] \subseteq Keys
  <2>1. \A k \in Keys : k \in Nat
    OBVIOUS
  <2>2. lastKey \in Nat /\ next \in Nat
    BY <1>t, <2>1 DEF TypeOK
  <2>3. \A a \in heap : a.key \in Keys /\ a.iterIdx \in Files
    BY <1>t DEF TypeOK
  <2>4. \A i \in Files : DOMAIN files[i] \subseteq Keys
    BY <1>t, FileFacts
  <2> QED
    BY <2>1, <2>2, <2>3, <2>4
<1>1. CASE Fail
  BY <1>1 DEF Fail, CoverInv, Covered, NewestValue
<1>2. CASE Open
  <2>1. rest' = [rest EXCEPT ![next] = DOMAIN files[next]]
    BY <1>2 DEF Open
  <2>2. \A i \in Files : i < next + 1 => i < next \/ i = next
    BY <1>k DEF Files
  <2>3. \A i \in Files : i < next' => rest'[i] = DOMAIN files'[i]
    BY <2>1, <2>2, <1>2, <1>t DEF Open, CoverInv, TypeOK
  <2>4. Covered'
    BY <1>2 DEF Open, CoverInv, Covered, NewestValue
  <2> QED
    BY <2>3, <2>4, <1>2 DEF Open, CoverInv
<1>3. CASE Opened
  <2>1. \A i \in Files : i < next
    BY <1>3, <1>t DEF Opened, Files, TypeOK
  <2>2. \A i \in Files : rest'[i] = DOMAIN files'[i] /\ ~(i < next')
    BY <2>1, <1>3 DEF Opened, CoverInv, Files
  <2>3. Covered'
    BY <1>3 DEF Opened, CoverInv, Covered, NewestValue
  <2> QED
    BY <2>2, <2>3, <1>3 DEF Opened, CoverInv
<1>4. CASE Seed
  <2>1. /\ pc = "seeding" /\ next \in Files /\ Advance(heap, next) /\ next' = next + 1
        /\ UNCHANGED <<files, lastKey, out, pc>>
    BY <1>4 DEF Seed
  <2>2. \A a \in heap : a.iterIdx # next
    BY <2>1, <1>t, <1>k DEF NotStarted, Files
  <2>3. /\ heap \subseteq heap'
        /\ \A j \in Files : j # next => rest'[j] = rest[j]
        /\ \A k \in rest[next] : k \in rest'[next]
                                 \/ \E a \in heap' : a.iterIdx = next /\ a.key = k
        /\ rest'[next] # {} => \E a \in heap' : a.iterIdx = next
    BY <2>1, <2>2, <1>t, AdvanceFacts
  <2>4. rest[next] = DOMAIN files[next]
    BY <2>1, <1>k DEF CoverInv
  <2>5. ASSUME NEW i \in Files
        PROVE  IF i < next' THEN Served(i)' ELSE rest'[i] = DOMAIN files'[i]
    <3>1. CASE i = next
      BY <3>1, <2>1, <2>3, <2>4, <1>k DEF Served
    <3>2. CASE i < next
      <4>1. Served(i)
        BY <3>2, <2>1 DEF CoverInv
      <4> QED
        BY <3>2, <4>1, <2>1, <2>3, <1>k DEF Served, Files
    <3>3. CASE ~(i < next) /\ i # next
      BY <3>3, <2>1, <2>3, <1>k DEF CoverInv, Files
    <3> QED
      BY <3>1, <3>2, <3>3
  <2>6. Covered'
    BY <2>1 DEF CoverInv, Covered, NewestValue
  <2> QED
    BY <2>1, <2>5, <2>6 DEF CoverInv
<1>5. CASE Seeded
  <2>1. \A i \in Files : i < next
    BY <1>5, <1>t DEF Seeded, Files, TypeOK
  <2>2. \A i \in Files : Served(i)'
    BY <2>1, <1>5 DEF Seeded, CoverInv, Served
  <2>3. Covered'
    BY <1>5 DEF Seeded, CoverInv, Covered, NewestValue
  <2> QED
    BY <2>2, <2>3, <1>5 DEF Seeded, CoverInv
<1>6. CASE Pop
  <2>1. PICK item \in heap :
            /\ \A other \in heap \ {item} : Less(item, other)
            /\ AddUnlessSeen(item)
            /\ Advance(heap \ {item}, item.iterIdx)
    BY <1>6 DEF Pop
  <2>2. pc = "merging" /\ UNCHANGED <<files, next, pc>>
    BY <1>6 DEF Pop
  <2>3. item.key \in Nat /\ item.iterIdx \in Files /\ lastKey <= item.key /\ lastKey' = item.key
    BY <2>1, <1>k, <1>t DEF AddUnlessSeen, Ordered
  <2>4. \A a \in heap \ {item} : a.iterIdx # item.iterIdx
    BY <1>t DEF TypeOK
  <2>5. /\ heap \ {item} \subseteq heap'
        /\ \A j \in Files : j # item.iterIdx => rest'[j] = rest[j]
        /\ \A k \in rest[item.iterIdx] : k \in rest'[item.iterIdx]
               \/ \E a \in heap' : a.iterIdx = item.iterIdx /\ a.key = k
        /\ rest'[item.iterIdx] # {} => \E a \in heap' : a.iterIdx = item.iterIdx
    BY <2>1, <2>2, <2>3, <2>4, <1>t, AdvanceFacts
  <2>6. \A i \in Files : Served(i)
    BY <2>2 DEF CoverInv
  <2>7. ASSUME NEW i \in Files PROVE Served(i)'
    <3>1. \A k \in DOMAIN files[i] : k \in Nat
      BY <1>k
    <3>2. ASSUME NEW k \in DOMAIN files[i]
          PROVE  k \in rest'[i] \/ k <= lastKey' \/ \E a \in heap' : a.iterIdx = i /\ a.key = k
      <4>1. CASE k <= lastKey
        BY <4>1, <3>1, <2>3, <1>k
      <4>2. CASE k \in rest[i]
        BY <4>2, <2>5
      <4>3. CASE \E a \in heap : a.iterIdx = i /\ a.key = k
        <5>1. PICK a \in heap : a.iterIdx = i /\ a.key = k
          BY <4>3
        <5>2. CASE a = item
          BY <5>1, <5>2, <2>3
        <5>3. CASE a # item
          BY <5>1, <5>3, <2>5
        <5> QED
          BY <5>2, <5>3
      <4> QED
        BY <4>1, <4>2, <4>3, <2>6 DEF Served
    <3>3. rest'[i] # {} => \E a \in heap' : a.iterIdx = i
      BY <2>4, <2>5, <2>6 DEF Served
    <3> QED
      BY <3>2, <3>3, <2>2 DEF Served
  \* The records of a key no larger than item.key are written, or are item itself
  \* or older records of its key.
  <2>8. ASSUME NEW i \in Files, NEW k \in DOMAIN files[i], lastKey < k, k <= item.key
        PROVE  k = item.key /\ (i = item.iterIdx \/ item.iterIdx < i)
    <3>0. k \in Nat
      BY <1>k
    <3>1. k \in Nat /\ ~(k <= lastKey)
      BY <2>8, <3>0, <1>k
    <3>2. k \notin rest[i]
      <4> SUFFICES ASSUME k \in rest[i] PROVE FALSE
        OBVIOUS
      <4>1. PICK a \in heap : a.iterIdx = i
        BY <2>6 DEF Served
      <4>2. a.key < k /\ a.key \in Nat
        BY <4>1, <1>t, <1>k DEF HeapCurrent
      <4>3. a = item \/ item.key <= a.key
        BY <2>1, <2>3, <4>2 DEF Less
      <4> QED
        BY <4>2, <4>3, <2>3, <2>8, <3>1
    <3>3. PICK a \in heap : a.iterIdx = i /\ a.key = k
      BY <3>1, <3>2, <2>6 DEF Served
    <3>4. a = item \/ Less(item, a)
      BY <2>1
    <3> QED
      BY <3>1, <3>3, <3>4, <2>3, <2>8 DEF Less
  <2>9. Covered'
    <3>0. Covered /\ HeapCurrent
      BY <1>t DEF CoverInv
    <3>1. CASE item.key = lastKey
      BY <3>0, <3>1, <2>1, <2>2 DEF AddUnlessSeen, Covered, NewestValue
    <3>2. CASE item.key # lastKey
      <4>1. /\ out' = Append(out, [key |-> item.key, val |-> item.val])
            /\ out \in Seq([key : Keys, val : Values])
        BY <3>2, <2>1, <1>t DEF AddUnlessSeen, TypeOK
      <4>2. /\ Len(out') = Len(out) + 1 /\ Len(out) \in Nat
            /\ \A n \in 1 .. Len(out) : out'[n] = out[n]
            /\ out'[Len(out) + 1] = [key |-> item.key, val |-> item.val]
        BY <4>1
      <4>3. lastKey < item.key
        BY <3>2, <2>3, <1>k
      <4>4. NewestValue(item.key, item.val)
        <5>1. item.key \in DOMAIN files[item.iterIdx] /\ files[item.iterIdx][item.key] = item.val
          BY <3>0 DEF HeapCurrent
        <5>2. ASSUME NEW j \in Files, j < item.iterIdx PROVE item.key \notin DOMAIN files[j]
          BY <5>2, <2>3, <2>8, <4>3 DEF Files
        <5> QED
          BY <5>1, <5>2, <2>3 DEF NewestValue
      <4>5. \A n \in 1 .. Len(out') : NewestValue(out'[n].key, out'[n].val)
        <5> TAKE n \in 1 .. Len(out')
        <5>1. CASE n \in 1 .. Len(out)
          BY <5>1, <4>2, <3>0 DEF Covered
        <5>2. CASE n = Len(out) + 1
          BY <5>2, <4>2, <4>4
        <5> QED
          BY <5>1, <5>2, <4>2
      <4>6. ASSUME NEW i \in Files, NEW k \in DOMAIN files[i], k <= item.key
            PROVE  \E n \in 1 .. Len(out') : out'[n].key = k
        <5>1. k \in Nat
          BY <1>k
        <5>2. CASE k <= lastKey
          <6>1. PICK n \in 1 .. Len(out) : out[n].key = k
            BY <5>2, <3>0 DEF Covered
          <6>2. n \in 1 .. Len(out') /\ out'[n].key = k
            BY <6>1, <4>2
          <6> QED
            BY <6>2
        <5>3. CASE lastKey < k
          <6>1. k = item.key
            BY <5>3, <2>8, <4>6
          <6>2. Len(out) + 1 \in 1 .. Len(out') /\ out'[Len(out) + 1].key = k
            BY <6>1, <4>2
          <6> QED
            BY <6>2
        <5> QED
          BY <5>1, <5>2, <5>3, <1>k
      <4> QED
        BY <4>5, <4>6, <2>2, <2>3 DEF Covered, NewestValue
    <3> QED
      BY <3>1, <3>2
  <2> QED
    BY <2>2, <2>7, <2>9 DEF CoverInv
<1>7. CASE Finish
  <2>1. \A i \in Files : Served(i)'
    BY <1>7 DEF Finish, CoverInv, Served
  <2>2. Covered'
    BY <1>7 DEF Finish, CoverInv, Covered, NewestValue
  <2> QED
    BY <2>1, <2>2, <1>7 DEF Finish, CoverInv
<1>8. CASE UNCHANGED vars
  BY <1>8 DEF vars, CoverInv, Covered, NewestValue, Served
<1> QED
  BY <1>1, <1>2, <1>3, <1>4, <1>5, <1>6, <1>7, <1>8 DEF Next, Step

LEMMA CoverInit == Init => CoverInv
<1> SUFFICES ASSUME Init PROVE CoverInv
  OBVIOUS
<1> USE MergeAssumption
<1>1. \A i \in Files : ~(i < next)
  BY DEF Init, Files
<1>2. TypeOK
  BY OrderInit DEF OrderInv
<1>3. \A i \in Files : \A k \in DOMAIN files[i] : ~(k <= lastKey)
  <2>1. \A i \in Files : DOMAIN files[i] \subseteq Keys
    BY <1>2, FileFacts
  <2>2. \A k \in Keys : ~(k <= 0)
    OBVIOUS
  <2> QED
    BY <2>1, <2>2 DEF Init
<1> QED
  BY <1>1, <1>3 DEF Init, CoverInv, Covered

\* When the heap runs empty every record is behind the merge.
LEMMA CoverImplies == CoverInv => MergeCorrect
<1> SUFFICES ASSUME CoverInv, pc = "done" PROVE MergeCorrect
  BY DEF MergeCorrect
<1>1. \A i \in Files : Served(i) /\ heap = {}
  BY DEF CoverInv
<1>2. \A i \in Files : \A k \in DOMAIN files[i] : k <= lastKey
  BY <1>1 DEF Served
<1> QED
  BY <1>2 DEF MergeCorrect, CoverInv, Covered

\* A completed Merge has written exactly the keys of its files, each with the
\* value of the newest file that has it, for any number of files and any
\* contents, as long as no iterator lost its footer (iterator.go:38).
THEOREM MergeIsCorrect == "footer" \notin Events => (Spec => []MergeCorrect)
<1> SUFFICES ASSUME "footer" \notin Events PROVE Spec => []MergeCorrect
  OBVIOUS
<1>1. OrderInv /\ CoverInv /\ [Next]_vars => CoverInv'
  BY CoverStep
<1> QED
  BY <1>1, OrderInit, OrderStep, CoverInit, CoverImplies, PTL DEF Spec

-----------------------------------------------------------------------------
(* The loop comes nearer to its end *)

\* Pushing the next record moves it from the iterator to the heap.
LEMMA AdvanceMoves ==
    ASSUME TypeOK, NEW i \in Files, NEW h, Advance(h, i)
    PROVE  \/ rest' = rest /\ heap' = h
           \/ \E k \in rest[i] : \E v :
                 /\ heap' = h \cup {[key |-> k, val |-> v, iterIdx |-> i]}
                 /\ rest'[i] = rest[i] \ {k}
                 /\ \A j \in Files : j # i => rest'[j] = rest[j]
<1>1. CASE rest[i] = {}
  BY <1>1 DEF Advance
<1>2. CASE rest[i] # {}
  <2>1. PICK k \in rest[i] :
            /\ rest' = [rest EXCEPT ![i] = @ \ {k}]
            /\ heap' = h \cup {[key |-> k, val |-> files[i][k], iterIdx |-> i]}
    BY <1>2 DEF Advance
  <2>2. rest'[i] = rest[i] \ {k} /\ \A j \in Files : j # i => rest'[j] = rest[j]
    BY <2>1 DEF TypeOK
  <2>3. PICK v : v = files[i][k]
    OBVIOUS
  <2> QED BY <2>1, <2>2, <2>3
<1> QED BY <1>1, <1>2

\* One record is left, seen from the file it belongs to.
UnreadIn(i, k) == k \in rest[i] \/ \E item \in heap : item.iterIdx = i /\ item.key = k

\* Every round of Merge's loop takes the first of the unread records, and that
\* one only, for any number of files, whatever they hold and whether or not an
\* iterator lost its footer: the loop ends after as many rounds as there are
\* records.
THEOREM RoundsDoConsume == Spec => RoundsConsume
<1>1. ASSUME OrderInv, Next, pc = "merging", pc' = "merging"
      PROVE  \E r \in Unread : r[2] >= lastKey /\ r[2] = lastKey' /\ Unread' = Unread \ {r}
  <2> USE MergeAssumption
  <2>1. TypeOK /\ HeapCurrent /\ Ordered
    BY <1>1 DEF OrderInv
  <2>2. Pop
    BY <1>1 DEF Next, Step, Fail, Open, Opened, Seed, Seeded, Finish
  <2>3. PICK item \in heap : AddUnlessSeen(item) /\ Advance(heap \ {item}, item.iterIdx)
    BY <2>2 DEF Pop
  <2> DEFINE f == item.iterIdx
             r == <<f, item.key>>
  <2>4. /\ item.key \in Keys /\ f \in Files /\ item.key \in Nat /\ lastKey \in Nat
        /\ \A a \in heap : a.key \in Keys /\ a.iterIdx \in Files
        /\ \A a \in heap : a.iterIdx = f => a = item
        /\ \A k \in rest[f] : k # item.key
    <3>1. /\ item.key \in Keys /\ f \in Files /\ lastKey \in Keys \cup {0}
          /\ \A a \in heap : a.key \in Keys /\ a.iterIdx \in Files
          /\ \A a \in heap : a.iterIdx = f => a = item
          /\ \A i \in Files : rest[i] \subseteq Keys
      BY <2>1 DEF TypeOK
    <3>2. \A k \in rest[f] : k \in Nat /\ item.key < k
      BY <2>1, <3>1 DEF HeapCurrent
    <3>3. \A k \in rest[f] : k # item.key
      BY <3>1, <3>2
    <3>4. item.key \in Keys /\ lastKey \in Keys \cup {0}
      BY <3>1
    <3> HIDE DEF f, r
    <3>5. item.key \in Nat /\ lastKey \in Nat
      <4>1. \A k \in Keys : k \in Nat
        OBVIOUS
      <4> QED BY ONLY <3>4, <4>1
    <3> QED BY ONLY <3>1, <3>3, <3>5
  <2>5. lastKey <= item.key /\ lastKey' = item.key
    BY <2>1, <2>3 DEF AddUnlessSeen, Ordered
  <2>6. r \in Unread
    BY <2>4 DEF Unread
  <2>7. ASSUME NEW i \in Files, NEW k \in Keys
        PROVE  UnreadIn(i, k)' <=> UnreadIn(i, k) /\ ~(i = f /\ k = item.key)
    <3>1. CASE rest' = rest /\ heap' = heap \ {item}
      BY <2>4, <3>1 DEF UnreadIn
    <3>2. CASE \E j \in rest[f] : \E v :
                 /\ heap' = (heap \ {item}) \cup {[key |-> j, val |-> v, iterIdx |-> f]}
                 /\ rest'[f] = rest[f] \ {j}
                 /\ \A g \in Files : g # f => rest'[g] = rest[g]
      <4>0. PICK j \in rest[f] : \E v :
                 /\ heap' = (heap \ {item}) \cup {[key |-> j, val |-> v, iterIdx |-> f]}
                 /\ rest'[f] = rest[f] \ {j}
                 /\ \A g \in Files : g # f => rest'[g] = rest[g]
        BY <3>2
      <4>1. PICK v :
                 /\ heap' = (heap \ {item}) \cup {[key |-> j, val |-> v, iterIdx |-> f]}
                 /\ rest'[f] = rest[f] \ {j}
                 /\ \A g \in Files : g # f => rest'[g] = rest[g]
        BY <4>0
      <4>2. CASE i # f
        BY <2>4, <4>1, <4>2 DEF UnreadIn
      <4>3. CASE i = f
        <5>1. UnreadIn(f, k) <=> k \in rest[f] \/ k = item.key
          BY <2>4 DEF UnreadIn
        <5>2. UnreadIn(f, k)' <=> k \in rest[f]
          <6>1. ASSUME NEW a \in heap', a.iterIdx = f PROVE a.key = j
            BY <2>4, <4>1, <6>1
          <6>2. PICK b \in heap' : b.iterIdx = f /\ b.key = j
            <7>1. PICK b : b = [key |-> j, val |-> v, iterIdx |-> f]
              OBVIOUS
            <7>2. b \in heap' /\ b.iterIdx = f /\ b.key = j
              BY <4>1, <7>1
            <7> QED BY <7>2
          <6>3. UnreadIn(f, k)' <=> k \in rest'[f] \/ \E a \in heap' : a.iterIdx = f /\ a.key = k
            BY DEF UnreadIn
          <6> QED BY <4>1, <6>1, <6>2, <6>3
        <5> QED BY <2>4, <4>3, <5>1, <5>2
      <4> QED BY <4>2, <4>3
    <3> QED BY <2>1, <2>3, <2>4, <3>1, <3>2, AdvanceMoves
  <2>8. Unread' = Unread \ {r}
    <3>1. /\ Unread = {q \in Files \X Keys : UnreadIn(q[1], q[2])}
          /\ Unread' = {q \in Files \X Keys : UnreadIn(q[1], q[2])'}
      BY DEF Unread, UnreadIn
    <3>2. ASSUME NEW q \in Files \X Keys
          PROVE  UnreadIn(q[1], q[2])' <=> UnreadIn(q[1], q[2]) /\ q # r
      <4>1. q[1] \in Files /\ q[2] \in Keys /\ q = <<q[1], q[2]>>
        OBVIOUS
      <4>2. q = r <=> q[1] = f /\ q[2] = item.key
        BY <4>1
      <4> QED BY <2>7, <4>1, <4>2
    <3> HIDE DEF r
    <3> QED BY <3>1, <3>2
  <2>9. r[2] = item.key
    OBVIOUS
  <2> HIDE DEF r
  <2> QED BY <2>4, <2>5, <2>6, <2>8, <2>9
<1>2. OrderInv /\ [Next]_vars =>
        [pc = "merging" /\ pc' = "merging" =>
            \E r \in Unread : r[2] >= lastKey /\ r[2] = lastKey' /\ Unread' = Unread \ {r}]_vars
  BY <1>1
<1> QED BY <1>2, OrderInit, OrderStep, PTL DEF Spec, RoundsConsume
=============================================================================
