--------------------------- MODULE SSTableProofs ---------------------------
(***************************************************************************)
(* What is proved of one SSTable for all keys, value lengths, hash         *)
(* functions, index intervals, filter sizes and callers.                   *)
(***************************************************************************)
EXTENDS SSTable, TLAPS

-----------------------------------------------------------------------------
(* The inductive invariant *)

Records == [key : Keys, val : Lengths, offset : Nat]
Entries == [key : Keys, offset : Nat]
Pcs == {"idle", "locking", "searching", "scanning", "reading", "returned", "listed", "failed"}
Calls == [pc : Pcs, key : Nat, left : Int, right : Int, result : Nat, found : BOOLEAN,
          val : Nat, all : SUBSET Records]

Types ==
    /\ hashKey \in HashFunctions
    /\ phase \in {"building", "failed", "published", "open"}
    /\ data \in Seq(Records) /\ index \in Seq(Entries)
    /\ bytesWritten \in Nat /\ lastIndexPos \in Nat
    /\ filter.length \in Nat /\ \A b \in filter.bits : b \in 0 .. filter.length - 1
    /\ mu \in Callers \cup {Free} /\ filePos \in 1 .. Len(data) + 1
    /\ call \in [Callers -> Calls]

\* Where record j starts; behind the last record comes the filter block.
Start(j) == IF j > Len(data) THEN bytesWritten ELSE data[j].offset

\* Records ascend and lie one behind the other.
FileInv ==
    /\ Start(1) = 0
    /\ \A j \in 1 .. Len(data) : /\ Start(j + 1) = data[j].offset + RecordSize(data[j].val)
                                 /\ data[j].offset < bytesWritten
    /\ \A i, j \in 1 .. Len(data) : i < j => /\ data[i].key < data[j].key
                                             /\ data[i].offset < data[j].offset

\* The sparse index is the skeleton of the file.
IndexInv ==
    /\ (data = <<>>) <=> (index = <<>>)
    /\ \A i \in 1 .. Len(index) : \E j \in 1 .. Len(data) :
          /\ index[i] = [key |-> data[j].key, offset |-> data[j].offset]
          /\ i <= j /\ (i = 1 <=> j = 1)

\* The filter has every key that was added.
FilterInv ==
    phase \in {"published", "open"} => \A j \in 1 .. Len(data) : MayContain(data[j].key)

\* A call r that is inside r.mu finds the file position at pos.
CallOK(r, pos) ==
    /\ r.left \in 0 .. Len(index) /\ r.right \in -1 .. Len(index) - 1
    /\ r.pc = "idle" => r.result = 0 /\ r.all = {}
    /\ r.pc = "searching" =>
          r.result = 0 \/ \E i \in 1 .. Len(index) : /\ index[i].offset = r.result
                                                     /\ index[i].key <= r.key
    /\ r.pc = "scanning" => \A j \in 1 .. pos - 1 : data[j].key < r.key
    /\ r.pc = "reading" => /\ r.all = {data[j] : j \in 1 .. pos - 1}
                           /\ r.result = Start(pos)
    /\ r.pc = "returned" => IF r.found THEN Added(r.key, r.val)
                            ELSE \A len \in Lengths : ~Added(r.key, len)
    /\ r.pc = "listed" => r.all = {data[j] : j \in 1 .. Len(data)}

\* The calls that hold r.mu.
Holding == {"searching", "scanning", "reading"}

CallsInv ==
    /\ phase # "open" => \A c \in Callers : call[c].pc = "idle"
    /\ \A c \in Callers : CallOK(call[c], filePos) /\ (call[c].pc \in Holding => mu = c)

TableInv == Types /\ FileInv /\ IndexInv /\ FilterInv /\ CallsInv

LEMMA TableInvImplies == TableInv => TypeOK /\ GetCorrect /\ ReadAllComplete
<1> SUFFICES ASSUME TableInv PROVE TypeOK /\ GetCorrect /\ ReadAllComplete
  OBVIOUS
<1>1. \A c \in Callers : CallOK(call[c], filePos) /\ call[c] \in Calls
  BY DEF TableInv, Types, CallsInv
<1>2. TypeOK
  BY <1>1 DEF TableInv, Types, IndexInv, TypeOK, CallOK, Calls, Pcs, Records, Entries
<1>3. GetCorrect /\ ReadAllComplete
  BY <1>1 DEF GetCorrect, ReadAllComplete, CallOK
<1> QED
  BY <1>2, <1>3

\* A caller between two calls.
Waiting == [Returned(0, FALSE, 0) EXCEPT !.pc = "idle"]

LEMMA ReturnedFacts ==
    ASSUME NEW k \in Nat, NEW found \in BOOLEAN, NEW val \in Nat, NEW r,
           r = Returned(k, found, val)
    PROVE  /\ r \in Calls /\ r.pc = "returned" /\ r.left = 0 /\ r.right = -1
           /\ r.key = k /\ r.found = found /\ r.val = val /\ r.result = 0 /\ r.all = {}
BY DEF Returned, Calls, Pcs

LEMMA WaitingFacts ==
    /\ Waiting \in Calls /\ Waiting.pc = "idle" /\ Waiting.left = 0 /\ Waiting.right = -1
    /\ Waiting.result = 0 /\ Waiting.all = {}
<1>1. PICK r : r = Returned(0, FALSE, 0)
  OBVIOUS
<1>2. r \in Calls /\ r.left = 0 /\ r.right = -1 /\ r.result = 0 /\ r.all = {}
  BY <1>1 DEF Returned, Calls, Pcs
<1>3. Waiting = [r EXCEPT !.pc = "idle"]
  BY <1>1 DEF Waiting
<1> QED
  BY <1>2, <1>3 DEF Calls, Pcs

LEMMA DataFacts ==
    ASSUME TableInv
    PROVE  /\ data \in Seq(Records) /\ index \in Seq(Entries)
           /\ Len(data) \in Nat /\ Len(index) \in Nat
           /\ \A j \in 1 .. Len(data) : data[j] \in Records
           /\ \A i \in 1 .. Len(index) : index[i] \in Entries
<1>1. data \in Seq(Records) /\ index \in Seq(Entries)
  BY DEF TableInv, Types
<1> QED
  BY <1>1

LEMMA TableInit == Init => TableInv
<1> SUFFICES ASSUME Init PROVE TableInv
  OBVIOUS
<1>1. /\ data = <<>> /\ index = <<>> /\ Len(data) = 0 /\ Len(index) = 0 /\ bytesWritten = 0
      /\ filter.length = 0 /\ filter.bits = {} /\ phase = "building" /\ filePos = 1
      /\ data \in Seq(Records) /\ index \in Seq(Entries)
      /\ hashKey \in HashFunctions /\ lastIndexPos = 0 /\ mu = Free
  BY DEF Init
<1>2. call \in [Callers -> Calls] /\ \A c \in Callers : call[c] = Waiting
  BY WaitingFacts DEF Init, Waiting
<1>3. Types
  BY <1>1, <1>2 DEF Types
<1>4. FileInv /\ IndexInv /\ FilterInv
  BY <1>1 DEF FileInv, IndexInv, FilterInv, Start
<1>5. \A c \in Callers : CallOK(call[c], filePos)
  BY <1>1, <1>2, WaitingFacts DEF CallOK
<1>6. CallsInv
  BY <1>2, <1>5, WaitingFacts DEF CallsInv, Holding
<1> QED
  BY <1>3, <1>4, <1>6 DEF TableInv

-----------------------------------------------------------------------------
(* Builder *)

LEMMA AddKeeps ==
    ASSUME TableInv, NEW k \in Keys, NEW len \in Lengths, Add(k, len)
    PROVE  TableInv'
<1> USE SSTableAssumption
<1> DEFINE n == Len(data)
           r == [key |-> k, val |-> len, offset |-> bytesWritten]
           e == [key |-> k, offset |-> bytesWritten]
<1>t. Types /\ FileInv /\ IndexInv /\ CallsInv
  BY DEF TableInv
<1>1. /\ r \in Records /\ e \in Entries /\ n \in Nat /\ phase = "building"
      /\ \A i \in 1 .. n : data[i].key < k
      /\ UNCHANGED <<hashKey, phase, filter, mu, filePos, call>>
      /\ bytesWritten' = bytesWritten + RecordSize(len)
      /\ bytesWritten' \in Nat /\ bytesWritten' > bytesWritten /\ bytesWritten \in Nat
  BY <1>t DEF Add, Ascends, Types, Records, Entries, RecordSize
<1>2. /\ data' = Append(data, r) /\ data' \in Seq(Records) /\ Len(data') = n + 1
      /\ \A i \in 1 .. n : data'[i] = data[i]
      /\ data'[n + 1] = r
      /\ \A i \in 1 .. n : data[i] \in Records
  BY <1>1, <1>t DEF Add, Types
<1>3. r.key = k /\ r.val = len /\ r.offset = bytesWritten /\ e = [key |-> r.key, offset |-> r.offset]
  OBVIOUS
<1> HIDE DEF r, e
<1>4. \/ /\ index' = Append(index, e) /\ lastIndexPos' = bytesWritten
      \/ /\ UNCHANGED <<index, lastIndexPos>> /\ bytesWritten # 0
  BY DEF Add, NeedsIndexEntry, e
<1>5. Types'
  <2>1. index' \in Seq(Entries) /\ lastIndexPos' \in Nat
    <3>1. index \in Seq(Entries) /\ lastIndexPos \in Nat
      BY <1>t DEF Types
    <3> QED
      <4>1. Append(index, e) \in Seq(Entries)
        BY <1>1, <3>1
      <4> QED
        BY <1>1, <1>4, <3>1, <4>1
  <2>2. filePos' \in 1 .. Len(data') + 1
    BY <1>1, <1>2, <1>t DEF Types
  <2> QED
    BY <1>1, <1>2, <1>t, <2>1, <2>2 DEF Types
<1>6. FileInv'
  <2>1. n = 0 => bytesWritten = 0
    BY <1>1, <1>t DEF FileInv, Start
  <2>2. n > 0 => data[1].offset = 0
    BY <1>1, <1>t DEF FileInv, Start
  <2>3. Start(1)' = 0
    BY <1>1, <1>2, <1>3, <2>1, <2>2 DEF Start
  <2>4. ASSUME NEW j \in 1 .. n + 1
        PROVE  Start(j + 1)' = data'[j].offset + RecordSize(data'[j].val) /\ data'[j].offset < bytesWritten'
    <3>1. CASE j = n + 1
      BY <1>1, <1>2, <1>3, <3>1 DEF Start
    <3>2. CASE j \in 1 .. n
      <4>1. /\ Start(j + 1) = data[j].offset + RecordSize(data[j].val)
            /\ data[j].offset < bytesWritten /\ data'[j] = data[j] /\ data[j].offset \in Nat
        BY <1>2, <1>t, <3>2 DEF FileInv, Records
      <4>2. Start(j + 1)' = Start(j + 1)
        <5>1. CASE j = n
          BY <1>1, <1>2, <1>3, <5>1 DEF Start
        <5>2. CASE j < n
          BY <1>1, <1>2, <3>2, <5>2 DEF Start
        <5> QED
          BY <1>1, <3>2, <5>1, <5>2
      <4> QED
        BY <1>1, <4>1, <4>2
    <3> QED
      BY <1>1, <3>1, <3>2
  <2>5. ASSUME NEW i \in 1 .. n + 1, NEW j \in 1 .. n + 1, i < j
        PROVE  data'[i].key < data'[j].key /\ data'[i].offset < data'[j].offset
    <3>1. CASE j = n + 1
      <4>1. i \in 1 .. n
        BY <1>1, <2>5, <3>1
      <4> QED
        BY <1>1, <1>2, <1>3, <1>t, <3>1, <4>1 DEF FileInv
    <3>2. CASE j \in 1 .. n
      <4>1. i \in 1 .. n
        BY <1>1, <2>5, <3>2
      <4> QED
        BY <1>2, <1>t, <2>5, <3>2, <4>1 DEF FileInv
    <3> QED
      BY <1>1, <3>1, <3>2
  <2> QED
    BY <1>2, <2>3, <2>4, <2>5 DEF FileInv
<1>7. IndexInv'
  <2>0. index \in Seq(Entries) /\ data \in Seq(Records) /\ Len(index) \in Nat
    BY <1>t DEF Types
  <2>1. (n = 0 <=> Len(index) = 0) /\ Len(index) <= n
    <3>1. n = 0 <=> Len(index) = 0
      <4>1. n = 0 <=> data = <<>>
        BY <2>0
      <4>2. Len(index) = 0 <=> index = <<>>
        BY <2>0
      <4> QED
        BY <1>t, <4>1, <4>2 DEF IndexInv
    <3>2. CASE Len(index) \in 1 .. Len(index)
      <4>1. \E j \in 1 .. n : Len(index) <= j
        BY <1>t, <3>2 DEF IndexInv
      <4> QED
        BY <1>1, <2>0, <3>1, <4>1
    <3>3. CASE Len(index) = 0
      BY <1>1, <3>1, <3>3
    <3> QED
      BY <2>0, <3>1, <3>2, <3>3
  <2>2. \A i \in 1 .. Len(index) : \E j \in 1 .. n :
            /\ index[i] = [key |-> data'[j].key, offset |-> data'[j].offset]
            /\ i <= j /\ (i = 1 <=> j = 1)
    BY <1>2, <1>t DEF IndexInv
  <2>3. data' # <<>>
    BY <1>1, <1>2
  <2>4. CASE index' = Append(index, e)
    <3>1. /\ Len(index') = Len(index) + 1 /\ index' # <<>> /\ index'[Len(index) + 1] = e
          /\ \A i \in 1 .. Len(index) : index'[i] = index[i]
      BY <1>1, <2>0, <2>4
    <3>2. /\ e = [key |-> data'[n + 1].key, offset |-> data'[n + 1].offset]
          /\ Len(index) + 1 <= n + 1 /\ (Len(index) + 1 = 1 <=> n + 1 = 1) /\ n + 1 \in 1 .. n + 1
      BY <1>1, <1>2, <1>3, <2>1
    <3>3. ASSUME NEW i \in 1 .. Len(index')
          PROVE  \E j \in 1 .. Len(data') :
                    /\ index'[i] = [key |-> data'[j].key, offset |-> data'[j].offset]
                    /\ i <= j /\ (i = 1 <=> j = 1)
      <4>1. CASE i = Len(index) + 1
        BY <1>2, <3>1, <3>2, <4>1
      <4>2. CASE i \in 1 .. Len(index)
        <5>1. PICK j \in 1 .. n : /\ index[i] = [key |-> data'[j].key, offset |-> data'[j].offset]
                                  /\ i <= j /\ (i = 1 <=> j = 1)
          BY <2>2, <4>2
        <5>2. j \in 1 .. Len(data') /\ index'[i] = index[i]
          BY <1>1, <1>2, <3>1, <4>2
        <5> QED
          BY <5>1, <5>2
      <4> QED
        BY <2>0, <3>1, <4>1, <4>2
    <3> QED
      BY <2>3, <3>1, <3>3 DEF IndexInv
  <2>5. CASE index' = index /\ bytesWritten # 0
    <3>1. n # 0
      BY <1>1, <1>t, <2>5 DEF FileInv, Start
    <3>2. index # <<>>
      BY <2>1, <3>1
    <3>3. \A i \in 1 .. Len(index) : \E j \in 1 .. n + 1 :
              /\ index[i] = [key |-> data'[j].key, offset |-> data'[j].offset]
              /\ i <= j /\ (i = 1 <=> j = 1)
      BY <1>1, <2>2
    <3>4. (data' = <<>>) <=> (index' = <<>>)
      BY <2>3, <2>5, <3>2
    <3>5. Len(data') = n + 1 /\ index' = index
      BY <1>2, <2>5
    <3> QED
      BY <3>3, <3>4, <3>5 DEF IndexInv
  <2> QED
    BY <1>4, <2>4, <2>5
<1>8. CallsInv'
  <2>1. Len(index) \in Nat /\ Len(index') \in Nat /\ Len(index) <= Len(index')
    BY <1>1, <1>4, <1>t DEF Types
  <2>2. \A c \in Callers : call[c].pc = "idle" /\ CallOK(call[c], filePos)
    BY <1>1, <1>t DEF CallsInv
  <2>3. ASSUME NEW c \in Callers PROVE CallOK(call[c], filePos)'
    BY <1>1, <2>1, <2>2 DEF CallOK
  <2> QED
    BY <1>1, <2>2, <2>3 DEF CallsInv, Holding
<1> QED
  BY <1>1, <1>5, <1>6, <1>7, <1>8 DEF TableInv, FilterInv

\* A probe looks at a bit of the filter.
LEMMA BitPosInRange ==
    ASSUME NEW h \in 0 .. 2^HashBits - 1, NEW i \in 0 .. KProbes - 1, NEW n \in Nat \ {0}
    PROVE  BitPos(h, i, n) \in 0 .. n - 1
<1>1. PICK m : m = 2^HashBits
  OBVIOUS
<1>2. PICK p : p = 2^Rotation
  OBVIOUS
<1>3. PICK q : q = 2^(HashBits - Rotation)
  OBVIOUS
<1>4. m \in Nat \ {0} /\ p \in Nat \ {0} /\ q \in Nat \ {0}
  <2>1. HashBits \in 0 .. HashBits /\ Rotation \in 0 .. HashBits /\ HashBits - Rotation \in 0 .. HashBits
    BY SSTableAssumption
  <2> QED
    BY <1>1, <1>2, <1>3, <2>1, PowersAssumption
<1>5. h \in Nat /\ i \in Nat
  BY <1>1, <1>4, SSTableAssumption
<1>6. Delta(h) = (h \div p) + ((h * q) % m)
  BY <1>1, <1>2, <1>3 DEF Delta
<1>7. (h * q) \in Nat /\ (h * q) % m \in Nat
  BY <1>4, <1>5
<1>8. h \div p \in Nat
  BY <1>4, <1>5
<1>9. Delta(h) \in Nat
  BY <1>6, <1>7, <1>8
<1>10. h + i * Delta(h) \in Nat
  BY <1>5, <1>9
<1>11. (h + i * Delta(h)) % m \in Nat
  BY <1>4, <1>10
<1> QED
  BY <1>1, <1>11 DEF BitPos

LEMMA BitLengthPositive ==
    ASSUME NEW numKeys \in Nat
    PROVE  BitLength(numKeys) \in Nat \ {0}
<1> DEFINE n == IF numKeys < MinKeys THEN MinKeys ELSE numKeys
<1>1. n \in Nat \ {0} /\ BitsPerKey \in Nat \ {0}
  BY SSTableAssumption
<1>2. BitLength(numKeys) = ((n * BitsPerKey + 7) \div 8) * 8
  BY DEF BitLength
<1> HIDE DEF n
<1> QED
  BY <1>1, <1>2

LEMMA FinishKeeps ==
    ASSUME TableInv, Finish
    PROVE  TableInv'
<1> DEFINE n == BitLength(Len(data))
           bits == UNION {AddHash(hashKey[data[i].key], n) : i \in 1 .. Len(data)}
<1>1. /\ UNCHANGED <<hashKey, data, index, bytesWritten, lastIndexPos, mu, filePos, call>>
      /\ phase = "building" /\ phase' = "published" /\ filter' = [length |-> n, bits |-> bits]
  BY DEF Finish, builder
<1>2. Len(data) \in Nat /\ \A j \in 1 .. Len(data) : data[j].key \in Keys
  BY DataFacts DEF Records
<1>3. n \in Nat \ {0}
  BY <1>2, BitLengthPositive
<1>4. filter'.length = n /\ filter'.bits = bits
  BY <1>1
<1> HIDE DEF n
<1>5. \A k \in Keys : hashKey[k] \in 0 .. 2^HashBits - 1
  BY SSTableAssumption DEF TableInv, Types
<1>6. \A b \in bits : b \in 0 .. n - 1
  BY <1>2, <1>3, <1>5, BitPosInRange DEF AddHash
<1>7. Types'
  BY <1>1, <1>3, <1>4, <1>6 DEF TableInv, Types
<1>8. FilterInv'
  <2> SUFFICES ASSUME NEW j \in 1 .. Len(data), NEW i \in 0 .. KProbes - 1
               PROVE  BitPos(hashKey[data[j].key], i, n) \in bits
    BY <1>1, <1>4 DEF FilterInv, MayContain
  <2>1. BitPos(hashKey[data[j].key], i, n) \in AddHash(hashKey[data[j].key], n)
    BY DEF AddHash
  <2> QED
    BY <2>1
<1>9. \A c \in Callers : CallOK(call[c], filePos)' <=> CallOK(call[c], filePos)
  BY <1>1 DEF CallOK, Start, Added
<1> QED
  BY <1>1, <1>7, <1>8, <1>9 DEF TableInv, FileInv, IndexInv, CallsInv, Start

-----------------------------------------------------------------------------
(* Reader *)

\* A step of one call that has, takes or gives back r.mu, or leaves it alone.
LEMMA CallStep ==
    ASSUME TableInv, UNCHANGED <<hashKey, phase, builder, filter>>, NEW c \in Callers,
           NEW r \in Calls, call' = [call EXCEPT ![c] = r], phase = "open" \/ r.pc = "idle",
           mu \in {Free, c} \/ UNCHANGED <<mu, filePos>>,
           mu' \in Callers \cup {Free}, filePos' \in 1 .. Len(data) + 1,
           CallOK(r, filePos'), r.pc \in Holding => mu' = c
    PROVE  TableInv'
<1>1. /\ Types /\ CallsInv /\ call' \in [Callers -> Calls] /\ call'[c] = r
      /\ \A d \in Callers \ {c} : call'[d] = call[d]
      /\ UNCHANGED <<data, index, bytesWritten, lastIndexPos>>
  BY DEF TableInv, Types, builder
<1>2. Types'
  BY <1>1 DEF Types
<1>3. FileInv' /\ IndexInv' /\ FilterInv'
  BY <1>1 DEF TableInv, FileInv, IndexInv, FilterInv, MayContain, Start
<1>4. \A s, pos : CallOK(s, pos)' <=> CallOK(s, pos)
  BY <1>1 DEF CallOK, Start, Added
<1>5. ASSUME NEW d \in Callers
      PROVE  CallOK(call'[d], filePos') /\ (call'[d].pc \in Holding => mu' = d)
  <2>1. CASE d = c
    BY <1>1, <2>1
  <2>2. CASE d # c /\ call[d].pc \in Holding
    <3>1. mu = d /\ mu \notin {Free, c}
      BY <1>1, <2>2, SSTableAssumption DEF CallsInv
    <3> QED
      BY <1>1, <2>2, <3>1 DEF CallsInv
  <2>3. CASE d # c /\ call[d].pc \notin Holding
    <3>1. CallOK(call[d], filePos) /\ call'[d] = call[d]
      BY <1>1, <2>3 DEF CallsInv
    <3> QED
      BY <2>3, <3>1 DEF CallOK, Holding
  <2> QED
    BY <2>1, <2>2, <2>3
<1>6. \A d \in Callers : CallOK(call[d], filePos)'
  BY <1>4, <1>5 DEF CallOK, Start, Added
<1>7. CallsInv'
  BY <1>1, <1>5, <1>6 DEF CallsInv
<1> QED
  BY <1>2, <1>3, <1>7 DEF TableInv

LEMMA CallFacts ==
    ASSUME TableInv, NEW c \in Callers
    PROVE  /\ call[c] \in Calls /\ CallOK(call[c], filePos)
           /\ mu \in Callers \cup {Free} /\ filePos \in 1 .. Len(data) + 1
           /\ call[c].pc \in Holding => mu = c
BY DEF TableInv, Types, CallsInv

LEMMA GetBeginKeeps ==
    ASSUME TableInv, NEW c \in Callers, NEW k \in Keys, GetBegin(c, k)
    PROVE  TableInv'
<1>1. /\ phase = "open" /\ UNCHANGED <<hashKey, phase, builder, filter, mu, filePos>>
      /\ k \in Nat /\ call[c] \in Calls /\ CallOK(call[c], filePos)
      /\ mu' \in Callers \cup {Free} /\ filePos' \in 1 .. Len(data) + 1
  BY CallFacts, SSTableAssumption DEF GetBegin, At
<1>2. CASE MayContain(k)
  <2>1. PICK r : r = [call[c] EXCEPT !.pc = "locking", !.key = k]
    OBVIOUS
  <2>2. /\ r \in Calls /\ r.pc = "locking" /\ r.left = call[c].left /\ r.right = call[c].right
        /\ call' = [call EXCEPT ![c] = r]
    BY <1>1, <1>2, <2>1 DEF GetBegin, Calls, Pcs
  <2>3. CallOK(r, filePos')
    BY <1>1, <2>2 DEF CallOK
  <2> QED
    BY <1>1, <2>2, <2>3, CallStep DEF Holding
<1>3. CASE ~MayContain(k)
  <2>1. PICK r : r = Returned(k, FALSE, 0)
    OBVIOUS
  <2>2. /\ r \in Calls /\ r.pc = "returned" /\ r.left = 0 /\ r.right = -1 /\ r.key = k
        /\ r.found = FALSE
    BY <1>1, <2>1 DEF Returned, Calls, Pcs
  <2>3. call' = [call EXCEPT ![c] = r]
    BY <1>3, <2>1 DEF GetBegin
  <2>4. \A len \in Lengths : ~Added(k, len)
    BY <1>1, <1>3 DEF TableInv, FilterInv, Added
  <2>5. CallOK(r, filePos')
    BY <2>2, <2>4, DataFacts DEF CallOK
  <2> QED
    BY <1>1, <2>2, <2>3, <2>5, CallStep DEF Holding
<1> QED
  BY <1>2, <1>3

LEMMA GetLockKeeps ==
    ASSUME TableInv, NEW c \in Callers, GetLock(c)
    PROVE  TableInv'
<1>1. /\ phase = "open" /\ UNCHANGED <<hashKey, phase, builder, filter, filePos>>
      /\ mu = Free /\ mu' = c /\ call[c] \in Calls
      /\ mu' \in Callers \cup {Free} /\ filePos' \in 1 .. Len(data) + 1
  BY CallFacts DEF GetLock, At
<1>2. PICK r : r = [call[c] EXCEPT !.pc = "searching", !.left = 0, !.right = Len(index) - 1, !.result = 0]
  OBVIOUS
<1>3. /\ r \in Calls /\ r.pc = "searching" /\ r.left = 0 /\ r.right = Len(index) - 1 /\ r.result = 0
  <2>1. Len(index) - 1 \in Int /\ 0 \in Int
    BY DataFacts
  <2> QED
    BY <1>1, <1>2, <2>1 DEF Calls, Pcs
<1>4. call' = [call EXCEPT ![c] = r]
  <2>1. call \in [Callers -> Calls]
    BY DEF TableInv, Types
  <2> QED
    BY <1>2, <2>1 DEF GetLock, Calls
<1>5. CallOK(r, filePos')
  BY <1>3, DataFacts DEF CallOK
<1> QED
  BY <1>1, <1>3, <1>4, <1>5, CallStep

\* The binary search keeps the offset of an entry that is not beyond the key.
LEMMA SearchKeeps ==
    ASSUME TableInv, NEW c \in Callers, Search(c)
    PROVE  TableInv'
<1> DEFINE q == call[c]
           m == Mid(c)
<1>1. /\ phase = "open" /\ UNCHANGED <<hashKey, phase, builder, filter, filePos, mu>>
      /\ q \in Calls /\ CallOK(q, filePos) /\ q.pc = "searching" /\ mu = c /\ q.left <= q.right
      /\ mu' \in Callers \cup {Free} /\ filePos' \in 1 .. Len(data) + 1
  BY CallFacts DEF Search, At, Holding
<1>2. /\ q.left \in 0 .. Len(index) /\ q.right \in -1 .. Len(index) - 1 /\ Len(index) \in Nat
      /\ q.result = 0 \/ \E i \in 1 .. Len(index) : index[i].offset = q.result /\ index[i].key <= q.key
  BY <1>1, DataFacts DEF CallOK
<1>3. m \in Nat /\ q.left <= m /\ m <= q.right /\ m + 1 \in 1 .. Len(index)
  <2>1. \A a, b, n \in Nat : a <= b /\ b <= n - 1 =>
            LET d == (a + b) \div 2 IN d \in Nat /\ a <= d /\ d <= b /\ d + 1 \in 1 .. n
    OBVIOUS
  <2>2. q.left \in Nat /\ q.right \in Nat /\ q.right <= Len(index) - 1
    BY <1>1, <1>2
  <2>3. m = (q.left + q.right) \div 2
    BY DEF Mid
  <2> HIDE DEF q, m
  <2> QED
    BY <1>1, <1>2, <2>1, <2>2, <2>3
<1>4. index[m + 1].offset \in Nat
  BY <1>3, DataFacts DEF Entries
<1>5. call' = [call EXCEPT ![c] =
           IF index[m + 1].key <= q.key
           THEN [q EXCEPT !.left = m + 1, !.result = index[m + 1].offset]
           ELSE [q EXCEPT !.right = m - 1]]
  BY DEF Search
<1> HIDE DEF q, m
<1>6. CASE index[m + 1].key <= q.key
  <2>1. PICK r : r = [q EXCEPT !.left = m + 1, !.result = index[m + 1].offset]
    OBVIOUS
  <2>2. /\ r \in Calls /\ r.pc = "searching" /\ r.left = m + 1 /\ r.right = q.right
        /\ r.result = index[m + 1].offset /\ r.key = q.key
    <3>1. m + 1 \in Int
      BY <1>3
    <3> QED
      BY <1>1, <1>4, <2>1, <3>1 DEF Calls
  <2>3. CallOK(r, filePos')
    BY <1>2, <1>3, <1>6, <2>2 DEF CallOK
  <2> QED
    BY <1>1, <1>5, <1>6, <2>1, <2>2, <2>3, CallStep
<1>7. CASE ~(index[m + 1].key <= q.key)
  <2>1. PICK r : r = [q EXCEPT !.right = m - 1]
    OBVIOUS
  <2>2. /\ r \in Calls /\ r.pc = "searching" /\ r.left = q.left /\ r.right = m - 1
        /\ r.result = q.result /\ r.key = q.key
    BY <1>1, <1>3, <2>1 DEF Calls
  <2>3. CallOK(r, filePos')
    BY <1>2, <1>3, <2>2 DEF CallOK
  <2> QED
    BY <1>1, <1>5, <1>7, <2>1, <2>2, <2>3, CallStep
<1> QED
  BY <1>6, <1>7

\* The offset of a record leads back to it.
LEMMA RecordAtOffset ==
    ASSUME TableInv, NEW j \in 1 .. Len(data)
    PROVE  RecordAt(data[j].offset) = j
<1>1. data[j].offset # bytesWritten /\ Len(data) \in Nat
  <2>1. data[j].offset < bytesWritten /\ data[j].offset \in Nat /\ bytesWritten \in Nat
    BY DataFacts DEF TableInv, FileInv, Types, Records
  <2> QED
    BY <2>1, DataFacts
<1>2. ASSUME NEW i \in 1 .. Len(data), data[i].offset = data[j].offset PROVE i = j
  <2>1. data[i].offset \in Nat /\ ~(data[i].offset < data[j].offset) /\ ~(data[j].offset < data[i].offset)
    BY <1>2, DataFacts DEF Records
  <2>2. ~(i < j) /\ ~(j < i)
    BY <2>1 DEF TableInv, FileInv
  <2> QED
    BY <1>1, <2>2
<1> QED
  BY <1>1, <1>2 DEF RecordAt

LEMMA SeekKeeps ==
    ASSUME TableInv, NEW c \in Callers, Seek(c)
    PROVE  TableInv'
<1>1. /\ phase = "open" /\ UNCHANGED <<hashKey, phase, builder, filter, mu>>
      /\ call[c] \in Calls /\ CallOK(call[c], filePos) /\ call[c].pc = "searching" /\ mu = c
      /\ mu' \in Callers \cup {Free}
      /\ filePos' = RecordAt(call[c].result)
  BY CallFacts DEF Seek, At, Holding
<1>2. PICK r : r = [call[c] EXCEPT !.pc = "scanning"]
  OBVIOUS
<1>3. /\ r \in Calls /\ r.pc = "scanning" /\ r.left = call[c].left /\ r.right = call[c].right
      /\ r.key = call[c].key
  BY <1>1, <1>2 DEF Calls, Pcs
<1>4. call' = [call EXCEPT ![c] = r]
  <2>1. call \in [Callers -> Calls]
    BY DEF TableInv, Types
  <2> QED
    BY <1>2, <2>1 DEF Seek, Calls
<1>5. /\ filePos' \in 1 .. Len(data) + 1
      /\ \A i \in 1 .. filePos' - 1 : data[i].key < call[c].key
  <2>0. Len(data) \in Nat /\ call[c].key \in Nat
    BY <1>1, DataFacts DEF Calls
  <2>1. CASE data = <<>>
    <3>1. Len(data) = 0 /\ bytesWritten = 0 /\ Len(index) = 0
      BY <2>1, DataFacts DEF TableInv, FileInv, IndexInv, Start
    <3>2. call[c].result = 0
      BY <1>1, <3>1 DEF CallOK
    <3>3. filePos' = 1
      BY <1>1, <3>1, <3>2 DEF RecordAt
    <3> QED
      BY <3>1, <3>3
  <2>2. CASE data # <<>> /\ call[c].result = 0
    <3>1. 1 \in 1 .. Len(data) /\ data[1].offset = 0
      BY <2>0, <2>2, DataFacts DEF TableInv, FileInv, Start
    <3>2. filePos' = 1
      BY <1>1, <2>2, <3>1, RecordAtOffset
    <3> QED
      BY <2>0, <3>2
  <2>3. CASE \E i \in 1 .. Len(index) : /\ index[i].offset = call[c].result
                                        /\ index[i].key <= call[c].key
    <3>1. PICK i \in 1 .. Len(index) : index[i].offset = call[c].result /\ index[i].key <= call[c].key
      BY <2>3
    <3>2. PICK j \in 1 .. Len(data) : index[i] = [key |-> data[j].key, offset |-> data[j].offset]
      BY DEF TableInv, IndexInv
    <3>3. data[j].offset = call[c].result /\ data[j].key <= call[c].key
      BY <3>1, <3>2
    <3>4. filePos' = j
      BY <1>1, <3>3, RecordAtOffset
    <3>5. ASSUME NEW n \in 1 .. j - 1 PROVE data[n].key < call[c].key
      <4>1. n \in 1 .. Len(data) /\ n < j
        BY <2>0
      <4>2. data[n].key < data[j].key
        BY <4>1 DEF TableInv, FileInv
      <4>3. data[n].key \in Nat /\ data[j].key \in Nat
        BY <4>1, DataFacts, SSTableAssumption DEF Records
      <4> QED
        BY <2>0, <3>3, <4>2, <4>3
    <3> QED
      BY <2>0, <3>4, <3>5
  <2> QED
    BY <1>1, <2>1, <2>2, <2>3 DEF CallOK
<1>6. CallOK(r, filePos')
  BY <1>1, <1>3, <1>5 DEF CallOK
<1> QED
  BY <1>1, <1>3, <1>4, <1>5, <1>6, CallStep

\* The scan goes on over smaller keys only.
LEMMA ScanKeeps ==
    ASSUME TableInv, NEW c \in Callers, Scan(c)
    PROVE  TableInv'
<1>1. /\ phase = "open" /\ UNCHANGED <<hashKey, phase, builder, filter>>
      /\ call[c] \in Calls /\ CallOK(call[c], filePos) /\ call[c].pc = "scanning" /\ mu = c
      /\ filePos \in 1 .. Len(data) + 1
  BY CallFacts DEF Scan, At, Holding
<1>2. /\ Len(data) \in Nat /\ call[c].key \in Nat
      /\ \A i \in 1 .. Len(data) : data[i].key \in Nat /\ data[i].val \in Nat
      /\ \A i \in 1 .. filePos - 1 : data[i].key < call[c].key
  BY <1>1, DataFacts, SSTableAssumption DEF Calls, Records, CallOK
<1>3. CASE filePos > Len(data) \/ data[filePos].key > call[c].key
  <2>1. Return(c, FALSE, 0) /\ filePos' = filePos
    BY <1>3 DEF Scan
  <2>2. PICK r : r = Returned(call[c].key, FALSE, 0)
    OBVIOUS
  <2>3. /\ r \in Calls /\ r.pc = "returned" /\ r.left = 0 /\ r.right = -1 /\ r.key = call[c].key
        /\ r.found = FALSE
    BY <1>2, <2>2 DEF Returned, Calls, Pcs
  <2>4. call' = [call EXCEPT ![c] = r] /\ mu' = Free
    BY <2>1, <2>2 DEF Return
  <2>5. ASSUME NEW i \in 1 .. Len(data) PROVE data[i].key # call[c].key
    <3>1. CASE i \in 1 .. filePos - 1
      BY <1>2, <3>1
    <3>2. CASE i >= filePos
      <4>1. filePos \in 1 .. Len(data) /\ data[filePos].key > call[c].key
        BY <1>1, <1>2, <1>3, <3>2
      <4>2. i # filePos => data[filePos].key < data[i].key
        BY <3>2, <4>1 DEF TableInv, FileInv
      <4> QED
        BY <1>2, <4>1, <4>2
    <3> QED
      BY <1>1, <1>2, <3>1, <3>2
  <2>6. CallOK(r, filePos')
    BY <2>3, <2>5, DataFacts DEF CallOK, Added
  <2> QED
    BY <1>1, <2>1, <2>3, <2>4, <2>6, CallStep DEF Holding
<1>4. CASE ~(filePos > Len(data) \/ data[filePos].key > call[c].key)
  <2>1. /\ filePos' = filePos + 1 /\ filePos \in 1 .. Len(data)
        /\ filePos' \in 1 .. Len(data) + 1 /\ filePos' - 1 = filePos
    BY <1>1, <1>2, <1>4 DEF Scan
  <2>2. CASE data[filePos].key = call[c].key
    <3>1. PICK r : r = Returned(call[c].key, TRUE, data[filePos].val)
      OBVIOUS
    <3>2. /\ r \in Calls /\ r.pc = "returned" /\ r.left = 0 /\ r.right = -1 /\ r.key = call[c].key
          /\ r.found = TRUE /\ r.val = data[filePos].val
      BY <1>2, <2>1, <3>1 DEF Returned, Calls, Pcs
    <3>3. call' = [call EXCEPT ![c] = r] /\ mu' = Free
      BY <1>4, <2>2, <3>1 DEF Scan, Return
    <3>4. CallOK(r, filePos')
      BY <2>1, <2>2, <3>2, DataFacts DEF CallOK, Added
    <3> QED
      BY <1>1, <2>1, <3>2, <3>3, <3>4, CallStep DEF Holding
  <2>3. CASE data[filePos].key # call[c].key
    <3>1. PICK r : r = call[c]
      OBVIOUS
    <3>2. call' = [call EXCEPT ![c] = r] /\ mu' = mu
      BY <1>4, <2>3, <3>1 DEF Scan, TableInv, Types
    <3>3. ASSUME NEW i \in 1 .. filePos' - 1 PROVE data[i].key < call[c].key
      <4>1. CASE i = filePos
        BY <1>2, <1>4, <2>1, <2>3, <4>1
      <4>2. CASE i \in 1 .. filePos - 1
        BY <1>2, <4>2
      <4> QED
        BY <1>1, <2>1, <3>3, <4>1, <4>2
    <3>4. CallOK(r, filePos')
      BY <1>1, <3>1, <3>3 DEF CallOK
    <3> QED
      BY <1>1, <2>1, <3>1, <3>2, <3>4, CallStep
  <2> QED
    BY <2>2, <2>3
<1> QED
  BY <1>3, <1>4

LEMMA ReadAllLockKeeps ==
    ASSUME TableInv, NEW c \in Callers, ReadAllLock(c)
    PROVE  TableInv'
<1>1. /\ phase = "open" /\ UNCHANGED <<hashKey, phase, builder, filter>>
      /\ mu = Free /\ mu' = c /\ filePos' = 1 /\ call[c] \in Calls
      /\ CallOK(call[c], filePos) /\ call[c].pc = "idle"
  BY CallFacts DEF ReadAllLock, At
<1>2. PICK r : r = [call[c] EXCEPT !.pc = "reading"]
  OBVIOUS
<1>3. /\ r \in Calls /\ r.pc = "reading" /\ r.left = call[c].left /\ r.right = call[c].right
      /\ r.result = 0 /\ r.all = {}
  BY <1>1, <1>2 DEF Calls, Pcs, CallOK
<1>4. call' = [call EXCEPT ![c] = r]
  <2>1. call \in [Callers -> Calls]
    BY DEF TableInv, Types
  <2> QED
    BY <1>2, <2>1 DEF ReadAllLock, Calls
<1>5. filePos' \in 1 .. Len(data) + 1 /\ Start(1) = 0 /\ {data[j] : j \in 1 .. 1 - 1} = {}
  BY <1>1, DataFacts DEF TableInv, FileInv
<1>6. CallOK(r, filePos')
  BY <1>1, <1>3, <1>5 DEF CallOK
<1> QED
  BY <1>1, <1>3, <1>4, <1>5, <1>6, CallStep

\* ReadAll has read what lies before the file position, byte for byte.
LEMMA ReadNextKeeps ==
    ASSUME TableInv, NEW c \in Callers, ReadNext(c)
    PROVE  TableInv'
<1>1. /\ phase = "open" /\ UNCHANGED <<hashKey, phase, builder, filter>>
      /\ call[c] \in Calls /\ CallOK(call[c], filePos) /\ call[c].pc = "reading" /\ mu = c
      /\ filePos \in 1 .. Len(data) + 1
  BY CallFacts DEF ReadNext, At, Holding
<1>2. /\ Len(data) \in Nat
      /\ call[c].all = {data[j] : j \in 1 .. filePos - 1} /\ call[c].result = Start(filePos)
      /\ call \in [Callers -> Calls]
  BY <1>1, DataFacts DEF CallOK, TableInv, Types
<1>3. CASE call[c].result < bytesWritten /\ filePos <= Len(data)
  <2>1. /\ filePos \in 1 .. Len(data) /\ filePos' = filePos + 1 /\ mu' = mu
        /\ filePos' \in 1 .. Len(data) + 1 /\ filePos' - 1 = filePos
        /\ 1 .. filePos = (1 .. filePos - 1) \cup {filePos}
    BY <1>1, <1>2, <1>3 DEF ReadNext
  <2>2. PICK r : r = [call[c] EXCEPT !.all = @ \cup {data[filePos]},
                                     !.result = @ + RecordSize(data[filePos].val)]
    OBVIOUS
  <2>3. data[filePos] \in Records /\ data[filePos].val \in Nat
    BY <2>1, DataFacts, SSTableAssumption DEF Records
  <2>4. call[c].result + RecordSize(data[filePos].val) \in Nat
    BY <1>1, <2>3 DEF Calls, RecordSize
  <2>5. /\ r \in Calls /\ r.pc = "reading" /\ r.left = call[c].left /\ r.right = call[c].right
        /\ r.all = call[c].all \cup {data[filePos]}
        /\ r.result = call[c].result + RecordSize(data[filePos].val)
    BY <1>1, <2>2, <2>3, <2>4 DEF Calls
  <2>6. call' = [call EXCEPT ![c] = r]
    BY <1>2, <1>3, <2>2 DEF ReadNext, Calls
  <2>7. r.all = {data[j] : j \in 1 .. filePos' - 1}
    BY <1>2, <2>1, <2>5
  <2>8. r.result = Start(filePos')
    <3>1. Start(filePos) = data[filePos].offset
      BY <1>2, <2>1 DEF Start
    <3>2. Start(filePos + 1) = data[filePos].offset + RecordSize(data[filePos].val)
      BY <2>1 DEF TableInv, FileInv
    <3> QED
      BY <1>2, <2>1, <2>5, <3>1, <3>2
  <2>9. CallOK(r, filePos')
    BY <1>1, <2>5, <2>7, <2>8 DEF CallOK
  <2> QED
    BY <1>1, <2>1, <2>5, <2>6, <2>9, CallStep
<1>4. CASE ~(call[c].result < bytesWritten /\ filePos <= Len(data))
  <2>1. mu' = Free /\ filePos' = filePos
    BY <1>4 DEF ReadNext
  <2>2. filePos = Len(data) + 1
    <3> SUFFICES ASSUME filePos \in 1 .. Len(data) PROVE FALSE
      BY <1>1, <1>2
    <3>1. Start(filePos) = data[filePos].offset
      BY <1>2 DEF Start
    <3>2. data[filePos].offset < bytesWritten
      BY DEF TableInv, FileInv
    <3> QED
      BY <1>2, <1>4, <3>1, <3>2
  <2>3. PICK r : r = [call[c] EXCEPT !.pc = "listed"]
    OBVIOUS
  <2>4. /\ r \in Calls /\ r.pc = "listed" /\ r.left = call[c].left /\ r.right = call[c].right
        /\ r.all = call[c].all
    BY <1>1, <2>3 DEF Calls, Pcs
  <2>5. call' = [call EXCEPT ![c] = r]
    BY <1>2, <1>4, <2>3 DEF ReadNext, Calls
  <2>6. Len(data) + 1 - 1 = Len(data)
    BY <1>2
  <2>7. CallOK(r, filePos')
    BY <1>1, <1>2, <2>2, <2>4, <2>6 DEF CallOK
  <2> QED
    BY <1>1, <2>1, <2>4, <2>5, <2>7, CallStep DEF Holding
<1> QED
  BY <1>3, <1>4

\* What a call leaves that could not read the file.
LEMMA FailedFacts ==
    ASSUME NEW k \in Nat, NEW r, r = [Returned(k, FALSE, 0) EXCEPT !.pc = "failed"]
    PROVE  /\ r \in Calls /\ r.pc = "failed" /\ r.left = 0 /\ r.right = -1
<1>1. PICK q : q = Returned(k, FALSE, 0)
  OBVIOUS
<1>2. q \in Calls /\ q.left = 0 /\ q.right = -1
  BY <1>1 DEF Returned, Calls, Pcs
<1>3. r = [q EXCEPT !.pc = "failed"]
  BY <1>1
<1> QED
  BY <1>2, <1>3 DEF Calls, Pcs

LEMMA ReadFailsKeeps ==
    ASSUME TableInv, NEW c \in Callers, ReadFails(c)
    PROVE  TableInv'
<1>1. /\ phase = "open" /\ UNCHANGED <<hashKey, phase, builder, filter, filePos>> /\ mu' = Free
      /\ call[c].pc \in Holding
  BY DEF ReadFails, At, Holding
<1>2. call[c].key \in Nat /\ mu = c /\ filePos \in 1 .. Len(data) + 1
  BY <1>1, CallFacts DEF Calls
<1>3. PICK r : r = [Returned(call[c].key, FALSE, 0) EXCEPT !.pc = "failed"]
  OBVIOUS
<1>4. r \in Calls /\ r.pc = "failed" /\ r.left = 0 /\ r.right = -1
  BY <1>2, <1>3, FailedFacts
<1>5. call' = [call EXCEPT ![c] = r]
  BY <1>3 DEF ReadFails
<1>6. CallOK(r, filePos')
  BY <1>4, DataFacts DEF CallOK
<1> QED
  BY <1>1, <1>2, <1>4, <1>5, <1>6, CallStep DEF Holding

LEMMA DoneKeeps ==
    ASSUME TableInv, NEW c \in Callers, Done(c)
    PROVE  TableInv'
<1>1. PICK r : r = Waiting
  OBVIOUS
<1>2. r \in Calls /\ r.pc = "idle" /\ r.left = 0 /\ r.right = -1 /\ r.result = 0 /\ r.all = {}
  BY <1>1, WaitingFacts
<1>3. /\ call' = [call EXCEPT ![c] = r]
      /\ UNCHANGED <<hashKey, phase, builder, filter, mu, filePos>>
  BY <1>1 DEF Done, Waiting
<1>4. CallOK(r, filePos')
  BY <1>2, DataFacts DEF CallOK
<1> QED
  BY <1>2, <1>3, <1>4, CallFacts, CallStep DEF Holding

LEMMA TableStep == TableInv /\ [Next]_vars => TableInv'
<1> SUFFICES ASSUME TableInv, [Next]_vars PROVE TableInv'
  OBVIOUS
<1>1. CASE UNCHANGED <<hashKey, builder, filter, mu, filePos, call>> /\ phase' \in {phase, "failed", "open"}
           /\ (phase' = "open" => phase \in {"published", "open"})
           /\ (phase' # "open" => phase # "open")
  <2>1. UNCHANGED <<data, index, bytesWritten, lastIndexPos>>
    BY <1>1 DEF builder
  <2>2. \A c \in Callers : CallOK(call[c], filePos)' <=> CallOK(call[c], filePos)
    BY <1>1, <2>1 DEF CallOK, Start, Added
  <2> QED
    BY <1>1, <2>1, <2>2
    DEF TableInv, Types, FileInv, IndexInv, FilterInv, MayContain, CallsInv, Start
<1>2. CASE UNCHANGED vars \/ Fail \/ NewReader
  BY <1>1, <1>2 DEF vars, Fail, NewReader
<1> QED
  BY <1>2, AddKeeps, FinishKeeps, GetBeginKeeps, GetLockKeeps, SearchKeeps, SeekKeeps, ScanKeeps,
     ReadAllLockKeeps, ReadNextKeeps, ReadFailsKeeps, DoneKeeps DEF Next, ReaderStep

-----------------------------------------------------------------------------
(* Theorems *)

LEMMA TableInvAlways == Spec => []TableInv
BY TableInit, TableStep, PTL DEF Spec

\* Builder and Reader keep their types, the bits NewBloomFilter sets lie inside
\* the filter, and the sparse index stays the skeleton of the file.
THEOREM SSTableTypeCorrect == Spec => []TypeOK
BY TableInvAlways, TableInvImplies, PTL

\* Get of reader.go finds every key that was added, with its value, and no other,
\* for any hash function, filter size, index interval and number of callers that
\* move the file position in turn.
THEOREM GetIsCorrect == Spec => []GetCorrect
BY TableInvAlways, TableInvImplies, PTL

\* ReadAll stops at the byte count of the footer with all records and no other.
THEOREM ReadAllIsComplete == Spec => []ReadAllComplete
BY TableInvAlways, TableInvImplies, PTL

-----------------------------------------------------------------------------
(* The holder of r.mu gets nearer to its end *)

\* Who holds r.mu is inside Get or ReadAll, and the interval of a binary search
\* is never less than empty.
HolderInv ==
    /\ mu # Free => call[mu].pc \in Holding
    /\ \A c \in Callers : call[c].pc = "searching" => call[c].left <= call[c].right + 1

\* A step of one call is seen by no other.
LEMMA OneCallMoves ==
    ASSUME TableInv, NEW c \in Callers, NEW r, call' = [call EXCEPT ![c] = r]
    PROVE  call'[c] = r /\ \A d \in Callers \ {c} : call'[d] = call[d]
BY DEF TableInv, Types

LEMMA LockMoves ==
    ASSUME TableInv, NEW c \in Callers, GetLock(c)
    PROVE  /\ mu = Free /\ mu' = c /\ filePos' = filePos
           /\ call'[c].pc = "searching" /\ call'[c].left = 0 /\ call'[c].right = Len(index) - 1
           /\ \A d \in Callers \ {c} : call'[d] = call[d]
<1>1. call \in [Callers -> Calls]
  BY DEF TableInv, Types
<1> QED BY <1>1 DEF GetLock, Calls

\* A round of the binary search narrows the interval around Mid.
LEMMA SearchMoves ==
    ASSUME TableInv, NEW c \in Callers, Search(c)
    PROVE  /\ mu = c /\ mu' = mu /\ filePos' = filePos
           /\ call[c].pc = "searching" /\ call'[c].pc = "searching"
           /\ call[c].left \in Nat /\ call[c].right \in Nat
           /\ call'[c].left \in Nat /\ call'[c].right \in Int
           /\ call'[c].left <= call'[c].right + 1
           /\ call'[c].right - call'[c].left < call[c].right - call[c].left
           /\ \A d \in Callers \ {c} : call'[d] = call[d]
<1> DEFINE q == call[c]
           m == Mid(c)
<1>1. /\ q \in Calls /\ CallOK(q, filePos) /\ q.pc = "searching" /\ mu = c /\ q.left <= q.right
      /\ UNCHANGED <<mu, filePos>> /\ Len(index) \in Nat
  BY CallFacts, DataFacts DEF Search, At, Holding
<1>2. q.left \in Nat /\ q.right \in Nat
  BY <1>1 DEF CallOK
<1>3. m \in Nat /\ q.left <= m /\ m <= q.right
  <2>1. \A a, b \in Nat : a <= b => LET d == (a + b) \div 2 IN d \in Nat /\ a <= d /\ d <= b
    OBVIOUS
  <2>2. m = (q.left + q.right) \div 2
    BY DEF Mid
  <2> HIDE DEF q, m
  <2> QED BY <1>1, <1>2, <2>1, <2>2
<1>4. /\ call'[c] = IF index[m + 1].key <= q.key
                    THEN [q EXCEPT !.left = m + 1, !.result = index[m + 1].offset]
                    ELSE [q EXCEPT !.right = m - 1]
      /\ \A d \in Callers \ {c} : call'[d] = call[d]
  <2>1. PICK r : r = IF index[m + 1].key <= q.key
                     THEN [q EXCEPT !.left = m + 1, !.result = index[m + 1].offset]
                     ELSE [q EXCEPT !.right = m - 1]
    OBVIOUS
  <2>2. call' = [call EXCEPT ![c] = r]
    BY <2>1 DEF Search
  <2>3. call'[c] = r /\ \A d \in Callers \ {c} : call'[d] = call[d]
    BY <2>2, OneCallMoves
  <2> QED BY <2>1, <2>3
<1> HIDE DEF q, m
<1>5. /\ call'[c].pc = "searching"
      /\ \/ call'[c].left = m + 1 /\ call'[c].right = q.right
         \/ call'[c].left = q.left /\ call'[c].right = m - 1
  BY <1>1, <1>4 DEF Calls
<1>6. /\ call'[c].left \in Nat /\ call'[c].right \in Int
      /\ call'[c].left <= call'[c].right + 1
      /\ call'[c].right - call'[c].left < q.right - q.left
  BY <1>2, <1>3, <1>5
<1> QED BY <1>1, <1>2, <1>4, <1>5, <1>6 DEF q

\* The file position is at a record or at the filter block after Seek.
LEMMA SeekMoves ==
    ASSUME TableInv, NEW c \in Callers, Seek(c)
    PROVE  /\ mu = c /\ mu' = mu /\ filePos' \in 1 .. Len(data) + 1
           /\ call[c].pc = "searching" /\ call'[c].pc = "scanning"
           /\ \A d \in Callers \ {c} : call'[d] = call[d]
<1>1. call \in [Callers -> Calls]
  BY DEF TableInv, Types
<1>2. TableInv' /\ data' = data
  BY SeekKeeps DEF Seek, builder
<1>3. filePos' \in 1 .. Len(data) + 1
  BY <1>2 DEF TableInv, Types
<1> QED BY <1>1, <1>3, CallFacts DEF Seek, At, Holding, Calls

\* A round of Get's or ReadAll's loop moves the file position or is the last.
LEMMA LoopMoves ==
    ASSUME TableInv, NEW c \in Callers, Scan(c) \/ ReadNext(c)
    PROVE  /\ mu = c /\ call[c].pc \in {"scanning", "reading"}
           /\ \/ mu' = Free /\ call'[c].pc \in {"returned", "listed"}
              \/ mu' = c /\ call'[c].pc = call[c].pc /\ filePos' = filePos + 1 /\ filePos <= Len(data)
           /\ \A d \in Callers \ {c} : call'[d] = call[d]
<1>1. /\ call \in [Callers -> Calls] /\ call[c] \in Calls /\ mu = c
      /\ filePos \in 1 .. Len(data) + 1 /\ Len(data) \in Nat
  BY CallFacts, DataFacts DEF TableInv, Types, Scan, ReadNext, At, Holding
<1>2. CASE Scan(c)
  <2>1. call[c].pc = "scanning"
    BY <1>2 DEF Scan, At
  <2>2. CASE \E found, val : Return(c, found, val)
    BY <1>1, <2>1, <2>2, OneCallMoves DEF Return, Returned
  <2>3. CASE filePos' = filePos + 1 /\ filePos <= Len(data) /\ UNCHANGED <<call, mu>>
    BY <1>1, <2>1, <2>3
  <2>4. (\E found, val : Return(c, found, val)) \/
        (filePos' = filePos + 1 /\ filePos <= Len(data) /\ UNCHANGED <<call, mu>>)
    <3>1. CASE filePos > Len(data) \/ data[filePos].key > call[c].key
      <4>1. Return(c, FALSE, 0)
        BY <1>2, <3>1 DEF Scan
      <4> QED BY <4>1
    <3>2. CASE ~(filePos > Len(data) \/ data[filePos].key > call[c].key)
      <4>1. CASE data[filePos].key = call[c].key
        <5>1. Return(c, TRUE, data[filePos].val)
          BY <1>2, <3>2, <4>1 DEF Scan
        <5> QED BY <5>1
      <4>2. CASE data[filePos].key # call[c].key
        BY <1>1, <1>2, <3>2, <4>2 DEF Scan
      <4> QED BY <4>1, <4>2
    <3> QED BY <3>1, <3>2
  <2> QED BY <2>2, <2>3, <2>4
<1>3. CASE ReadNext(c)
  <2>1. call[c].pc = "reading"
    BY <1>3 DEF ReadNext, At
  <2> QED BY <1>1, <1>3, <2>1 DEF ReadNext, Calls
<1> QED BY <1>2, <1>3

LEMMA FailMoves ==
    ASSUME TableInv, NEW c \in Callers, ReadFails(c)
    PROVE  /\ mu = c /\ mu' = Free /\ filePos' = filePos
           /\ call[c].pc \in Holding /\ call'[c].pc = "failed"
           /\ \A d \in Callers \ {c} : call'[d] = call[d]
<1>1. call[c].pc \in Holding /\ mu' = Free /\ filePos' = filePos
  BY DEF ReadFails, At, Holding
<1>2. call[c].key \in Nat /\ mu = c
  BY <1>1, CallFacts DEF Calls
<1>3. PICK r : r = [Returned(call[c].key, FALSE, 0) EXCEPT !.pc = "failed"]
  OBVIOUS
<1>4. r.pc = "failed"
  BY <1>2, <1>3, FailedFacts
<1>5. call' = [call EXCEPT ![c] = r]
  BY <1>3 DEF ReadFails
<1> QED BY <1>1, <1>2, <1>4, <1>5, OneCallMoves

LEMMA OutsideMoves ==
    ASSUME TableInv, NEW c \in Callers,
           (\E k \in Keys : GetBegin(c, k)) \/ Done(c)
    PROVE  /\ UNCHANGED <<mu, filePos>> /\ call[c].pc \notin Holding /\ call'[c].pc \notin Holding
           /\ \A d \in Callers \ {c} : call'[d] = call[d]
<1>1. call \in [Callers -> Calls]
  BY DEF TableInv, Types
<1>2. CASE Done(c)
  BY <1>2, OneCallMoves DEF Done, Returned, Holding
<1>3. CASE \E k \in Keys : GetBegin(c, k)
  <2>1. PICK k \in Keys : GetBegin(c, k)
    BY <1>3
  <2>2. /\ UNCHANGED <<mu, filePos>> /\ call[c].pc = "idle"
        /\ call'[c] = IF MayContain(k) THEN [call[c] EXCEPT !.pc = "locking", !.key = k]
                      ELSE Returned(k, FALSE, 0)
        /\ \A d \in Callers \ {c} : call'[d] = call[d]
    BY <2>1, OneCallMoves DEF GetBegin, At
  <2>3. call'[c].pc \in {"locking", "returned"}
    BY <1>1, <2>2 DEF Returned, Calls
  <2> QED BY <2>2, <2>3 DEF Holding
<1> QED BY <1>2, <1>3

LEMMA ListMoves ==
    ASSUME TableInv, NEW c \in Callers, ReadAllLock(c)
    PROVE  /\ mu = Free /\ mu' = c /\ call'[c].pc = "reading"
           /\ \A d \in Callers \ {c} : call'[d] = call[d]
<1>1. call \in [Callers -> Calls]
  BY DEF TableInv, Types
<1> QED BY <1>1 DEF ReadAllLock, Calls

\* The steps of the goroutines, and the steps before there are any.
LEMMA StepKinds ==
    ASSUME [Next]_vars
    PROVE  \/ UNCHANGED <<mu, filePos, call>>
           \/ \E c \in Callers :
                 \/ (\E k \in Keys : GetBegin(c, k)) \/ Done(c)
                 \/ GetLock(c) \/ ReadAllLock(c)
                 \/ Search(c) \/ Seek(c) \/ Scan(c) \/ ReadNext(c) \/ ReadFails(c)
BY DEF Next, vars, Add, Finish, Fail, NewReader, ReaderStep

LEMMA HolderInit == Init => HolderInv
BY WaitingFacts DEF Init, HolderInv, Waiting

LEMMA HolderStep == TableInv /\ HolderInv /\ [Next]_vars => HolderInv'
<1> SUFFICES ASSUME TableInv, HolderInv, [Next]_vars PROVE HolderInv'
  OBVIOUS
<1>1. CASE UNCHANGED <<mu, filePos, call>>
  BY <1>1 DEF HolderInv
<1>2. ASSUME NEW c \in Callers,
             \A d \in Callers \ {c} : call'[d] = call[d],
             mu' = Free \/ (mu' = c /\ call'[c].pc \in Holding)
               \/ (mu' = mu /\ mu # c),
             call'[c].pc = "searching" => call'[c].left <= call'[c].right + 1
      PROVE  HolderInv'
  <2>1. mu \in Callers \cup {Free} /\ Free \notin Callers
    BY CallFacts, SSTableAssumption
  <2>2. mu' # Free => call'[mu'].pc \in Holding
    BY <1>2, <2>1 DEF HolderInv
  <2>3. \A d \in Callers : call'[d].pc = "searching" => call'[d].left <= call'[d].right + 1
    BY <1>2 DEF HolderInv
  <2> QED BY <2>2, <2>3 DEF HolderInv
<1>3. ASSUME NEW c \in Callers, (\E k \in Keys : GetBegin(c, k)) \/ Done(c) PROVE HolderInv'
  <2>1. /\ mu' = mu /\ mu # c /\ call'[c].pc \notin Holding
        /\ \A d \in Callers \ {c} : call'[d] = call[d]
    BY <1>3, OutsideMoves, SSTableAssumption DEF HolderInv
  <2> QED BY <1>2, <2>1 DEF Holding
<1>4. ASSUME NEW c \in Callers, GetLock(c) PROVE HolderInv'
  <2>1. Len(index) \in Nat
    BY DataFacts
  <2> QED BY <1>2, <1>4, <2>1, LockMoves DEF Holding
<1>5. ASSUME NEW c \in Callers, ReadAllLock(c) PROVE HolderInv'
  BY <1>2, <1>5, ListMoves DEF Holding
<1>6. ASSUME NEW c \in Callers, Search(c) PROVE HolderInv'
  BY <1>2, <1>6, SearchMoves DEF Holding
<1>7. ASSUME NEW c \in Callers, Seek(c) PROVE HolderInv'
  BY <1>2, <1>7, SeekMoves DEF Holding
<1>8. ASSUME NEW c \in Callers, Scan(c) \/ ReadNext(c) PROVE HolderInv'
  <2>1. /\ mu' = Free \/ (mu' = c /\ call'[c].pc \in Holding)
        /\ call'[c].pc # "searching" /\ \A d \in Callers \ {c} : call'[d] = call[d]
    BY <1>8, LoopMoves DEF Holding
  <2> QED BY <1>2, <2>1
<1>9. ASSUME NEW c \in Callers, ReadFails(c) PROVE HolderInv'
  BY <1>2, <1>9, FailMoves
<1> QED BY <1>1, <1>3, <1>4, <1>5, <1>6, <1>7, <1>8, <1>9, StepKinds

LEMMA HolderInvAlways == Spec => []HolderInv
BY HolderInit, HolderStep, TableInvAlways, PTL DEF Spec

\* r.mu is held for a bounded number of rounds: every round of the binary search
\* halves at its interval, every round of the loops moves the file position, and
\* no other goroutine moves it meanwhile, for any number of records, entries and
\* callers.
THEOREM HoldersDoAdvance == Spec => HoldersAdvance
<1> DEFINE Advances(c) == mu = c /\ <<call[c], filePos>>' # <<call[c], filePos>> =>
                             RoundsLeft(c) > 0 /\ RoundsLeft(c)' \in 0 .. RoundsLeft(c) - 1
<1>1. ASSUME TableInv, HolderInv, [Next]_vars, NEW c \in Callers PROVE Advances(c)
  <2> SUFFICES ASSUME mu = c, <<call[c], filePos>>' # <<call[c], filePos>>
               PROVE  RoundsLeft(c) > 0 /\ RoundsLeft(c)' \in 0 .. RoundsLeft(c) - 1
    OBVIOUS
  <2>1. /\ call[c].pc \in Holding /\ mu # Free
        /\ Len(data) \in Nat /\ filePos \in 1 .. Len(data) + 1
    BY <1>1, CallFacts, DataFacts, SSTableAssumption DEF HolderInv
  <2>2. Search(c) \/ Seek(c) \/ Scan(c) \/ ReadNext(c) \/ ReadFails(c)
    <3>1. PICK d \in Callers :
                 \/ (\E k \in Keys : GetBegin(d, k)) \/ Done(d)
                 \/ GetLock(d) \/ ReadAllLock(d)
                 \/ Search(d) \/ Seek(d) \/ Scan(d) \/ ReadNext(d) \/ ReadFails(d)
      BY <1>1, StepKinds
    <3>2. ~GetLock(d) /\ ~ReadAllLock(d)
      BY <1>1, <2>1, LockMoves, ListMoves
    <3>3. CASE (\E k \in Keys : GetBegin(d, k)) \/ Done(d)
      <4>1. UNCHANGED filePos /\ d # c /\ call'[c] = call[c]
        BY <1>1, <2>1, <3>3, OutsideMoves
      <4> QED BY <4>1
    <3>4. CASE Search(d) \/ Seek(d) \/ Scan(d) \/ ReadNext(d) \/ ReadFails(d)
      <4>1. mu = d
        BY <1>1, <3>4, SearchMoves, SeekMoves, LoopMoves, FailMoves
      <4> QED BY <3>4, <4>1
    <3> QED BY <3>1, <3>2, <3>3, <3>4
  <2>3. data' = data
    BY <2>2 DEF Search, Seek, Scan, ReadNext, ReadFails, builder
  <2>4. CASE Search(c)
    <3>1. /\ RoundsLeft(c) = call[c].right - call[c].left + 1 + Len(data) + 2
          /\ RoundsLeft(c)' = call'[c].right - call'[c].left + 1 + Len(data) + 2
      BY <1>1, <2>3, <2>4, SearchMoves DEF RoundsLeft
    <3>2. /\ call[c].left \in Nat /\ call[c].right \in Nat
          /\ call'[c].left \in Nat /\ call'[c].right \in Int
          /\ call'[c].left <= call'[c].right + 1
          /\ call'[c].right - call'[c].left < call[c].right - call[c].left
      BY <1>1, <2>4, SearchMoves
    <3>3. \A n, a, b \in Nat, d \in Nat, e \in Int : d <= e + 1 /\ e - d < b - a =>
              b - a + 1 + n + 2 > 0 /\ e - d + 1 + n + 2 \in 0 .. (b - a + 1 + n + 2) - 1
      OBVIOUS
    <3> QED BY ONLY <2>1, <3>1, <3>2, <3>3
  <2>5. CASE Seek(c)
    <3>1. /\ call[c].pc = "searching" /\ call'[c].pc = "scanning"
          /\ filePos' \in 1 .. Len(data) + 1
      BY <1>1, <2>5, SeekMoves
    <3>2. /\ RoundsLeft(c) = call[c].right - call[c].left + 1 + Len(data) + 2
          /\ RoundsLeft(c)' = Len(data) + 2 - filePos'
      BY <2>3, <3>1 DEF RoundsLeft
    <3>3. /\ call[c].left \in Int /\ call[c].right \in Int
          /\ call[c].left <= call[c].right + 1
      BY <1>1, <3>1, CallFacts DEF HolderInv, Calls
    <3>4. \A n \in Nat, a, b \in Int : a <= b + 1 => \A p \in 1 .. n + 1 :
              b - a + 1 + n + 2 > 0 /\ n + 2 - p \in 0 .. (b - a + 1 + n + 2) - 1
      OBVIOUS
    <3> QED BY ONLY <2>1, <3>1, <3>2, <3>3, <3>4
  <2>6. CASE Scan(c) \/ ReadNext(c)
    <3>1. /\ call[c].pc \in {"scanning", "reading"}
          /\ \/ mu' = Free /\ call'[c].pc \in {"returned", "listed"}
             \/ mu' = c /\ call'[c].pc = call[c].pc /\ filePos' = filePos + 1 /\ filePos <= Len(data)
      BY <1>1, <2>6, LoopMoves
    <3>2. RoundsLeft(c) = Len(data) + 2 - filePos
      BY <3>1 DEF RoundsLeft
    <3>3. CASE call'[c].pc \in {"returned", "listed"}
      <4>1. RoundsLeft(c)' = 0
        BY <3>3 DEF RoundsLeft
      <4> QED BY <2>1, <3>2, <4>1
    <3>4. CASE call'[c].pc = call[c].pc /\ filePos' = filePos + 1 /\ filePos <= Len(data)
      <4>1. RoundsLeft(c)' = Len(data) + 2 - (filePos + 1)
        BY <2>3, <3>1, <3>4 DEF RoundsLeft
      <4> QED BY <2>1, <3>2, <3>4, <4>1
    <3> QED BY <3>1, <3>3, <3>4
  <2>7. CASE ReadFails(c)
    <3>1. call[c].pc \in Holding /\ RoundsLeft(c)' = 0
      BY <1>1, <2>7, FailMoves DEF RoundsLeft
    <3>2. call[c].left \in Int /\ call[c].right \in Int
      BY <1>1, CallFacts DEF Calls
    <3>3. CASE call[c].pc = "searching"
      <4>1. /\ call[c].left <= call[c].right + 1
            /\ RoundsLeft(c) = call[c].right - call[c].left + 1 + Len(data) + 2
        BY <1>1, <3>3 DEF HolderInv, RoundsLeft
      <4> QED BY <2>1, <3>1, <3>2, <4>1
    <3>4. CASE call[c].pc # "searching"
      <4>1. RoundsLeft(c) = Len(data) + 2 - filePos
        BY <3>1, <3>4 DEF Holding, RoundsLeft
      <4> QED BY <2>1, <3>1, <4>1
    <3> QED BY <3>3, <3>4
  <2> QED BY <2>2, <2>4, <2>5, <2>6, <2>7
<1>2. TableInv /\ HolderInv /\ [Next]_vars => [\A c \in Callers : Advances(c)]_vars
  BY <1>1
<1> QED BY <1>2, TableInvAlways, HolderInvAlways, PTL DEF Spec, HoldersAdvance
=============================================================================
