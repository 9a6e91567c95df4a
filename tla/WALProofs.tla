------------------------------ MODULE WALProofs ------------------------------
(***************************************************************************)
(* Theorems about WAL: what Recover returns after any number of writes,    *)
(* failed writes, kills and power failures, and that every operation on    *)
(* the file is one of WALMap.                                              *)
(***************************************************************************)
EXTENDS WAL, FiniteSetTheorems, SequenceTheorems, WellFoundedInduction, TLAPS

-----------------------------------------------------------------------------
(* Least and greatest numbers.  The induction is that of WFMin. *)

LessNat == {p \in Nat \X Nat : p[1] < p[2]}

LEMMA LessNatWellFounded == IsWellFoundedOn(LessNat, Nat)
<1>1. OpToRel(<, Nat) = LessNat
  BY DEF OpToRel, LessNat
<1> QED BY <1>1, NatLessThanWellFounded

LEMMA LeastNatural ==
  ASSUME NEW T, T \subseteq Nat, T # {}
  PROVE  \E n \in T : \A m \in T : n <= m
<1>1. PICK n \in T : \A m \in T : ~(<<m, n>> \in LessNat)
  BY LessNatWellFounded, WFMin
<1>2. ASSUME NEW m \in T PROVE n <= m
  <2>1. n \in Nat /\ m \in Nat /\ <<m, n>> \in Nat \X Nat
    OBVIOUS
  <2>2. ~(m < n)
    BY <1>1, <2>1 DEF LessNat
  <2> QED BY <2>1, <2>2
<1> QED BY <1>2

LEMMA GreatestNatural ==
  ASSUME NEW T, NEW b \in Nat, T \subseteq Nat, T # {}, \A m \in T : m <= b
  PROVE  \E n \in T : \A m \in T : m <= n
<1> DEFINE U == {u \in Nat : \A m \in T : m <= u}
<1>1. PICK u \in U : \A v \in U : u <= v
  <2>1. U \subseteq Nat /\ b \in U
    OBVIOUS
  <2> HIDE DEF U
  <2> QED BY <2>1, LeastNatural
<1>2. u \in T
  <2> SUFFICES ASSUME u \notin T PROVE FALSE
    OBVIOUS
  <2>1. \A m \in T : m <= u - 1
    BY <1>1
  <2>2. u \in Nat /\ u # 0
    <3>1. PICK m \in T : TRUE
      OBVIOUS
    <3> QED BY <1>1, <2>1, <3>1
  <2>3. u - 1 \in U
    BY <2>1, <2>2
  <2> QED BY <1>1, <2>2, <2>3
<1> QED BY <1>1, <1>2

-----------------------------------------------------------------------------
(* The records before the first broken one, and what they say of a key *)

LEMMA ValidFacts ==
  ASSUME NEW s \in Seq(Records)
  PROVE  /\ Valid(s) \in 0 .. Len(s)
         /\ \A i \in 1 .. Valid(s) : s[i].whole
         /\ Valid(s) < Len(s) => ~s[Valid(s) + 1].whole
<1> DEFINE P == {n \in 1 .. Len(s) : \A i \in 1 .. n : s[i].whole}
           B == {n \in 1 .. Len(s) : ~s[n].whole}
<1>1. Len(s) \in Nat
  OBVIOUS
<1>0. \A n \in Nat : Cardinality(1 .. n) = n
  <2> TAKE n \in Nat
  <2>1. 1 \in Int /\ n \in Int /\ (1 > n => n = 0)
    OBVIOUS
  <2>2. Cardinality(1 .. n) = IF 1 > n THEN 0 ELSE n - 1 + 1
    BY ONLY <2>1, FS_Interval
  <2> QED BY <2>1, <2>2
<1>2. CASE B = {}
  <2>1. P = 1 .. Len(s)
    BY <1>1, <1>2
  <2>2. Valid(s) = Len(s)
    BY <1>0, <1>1, <2>1 DEF Valid
  <2> QED BY <1>1, <1>2, <2>2
<1>3. CASE B # {}
  <2>1. PICK b \in B : \A m \in B : b <= m
    <3>1. B \subseteq Nat
      BY <1>1
    <3> HIDE DEF B
    <3> QED BY <1>3, <3>1, LeastNatural
  <2>2. b \in 1 .. Len(s) /\ ~s[b].whole /\ b - 1 \in Nat
    BY <1>1
  <2>3. \A i \in 1 .. b - 1 : s[i].whole
    BY <1>1, <2>1, <2>2
  <2>4. P = 1 .. b - 1
    BY <1>1, <2>2, <2>3
  <2>5. Valid(s) = b - 1
    BY <1>0, <2>2, <2>4 DEF Valid
  <2> QED BY <1>1, <2>2, <2>3, <2>5
<1> QED BY <1>2, <1>3

LEMMA ValidIs ==
  ASSUME NEW s \in Seq(Records), NEW v \in 0 .. Len(s),
         \A i \in 1 .. v : s[i].whole, v < Len(s) => ~s[v + 1].whole
  PROVE  Valid(s) = v
<1>1. /\ Valid(s) \in 0 .. Len(s) /\ Len(s) \in Nat
      /\ \A i \in 1 .. Valid(s) : s[i].whole
      /\ Valid(s) < Len(s) => ~s[Valid(s) + 1].whole
  BY ValidFacts
<1>2. ~(Valid(s) < v)
  BY <1>1
<1>3. ~(v < Valid(s))
  BY <1>1
<1> QED BY <1>1, <1>2, <1>3

\* LastValue looks at the last of the first n records for k.
LEMMA LastValueIs ==
  ASSUME NEW s \in Seq(Records), NEW n \in 0 .. Len(s), NEW k
  PROVE  \/ /\ \A i \in 1 .. n : s[i].key # k
            /\ LastValue(s, n, k) = Absent
         \/ \E i \in 1 .. n :
               /\ s[i].key = k /\ \A j \in 1 .. n : s[j].key = k => j <= i
               /\ LastValue(s, n, k) = s[i].val
<1> DEFINE I == {i \in 1 .. n : s[i].key = k}
           c == CHOOSE i \in I : \A j \in I : j <= i
<1>1. CASE I = {}
  BY <1>1 DEF LastValue
<1>2. CASE I # {}
  <2>1. I \subseteq Nat /\ n \in Nat /\ \A m \in I : m <= n
    OBVIOUS
  <2>2. \E i \in I : \A j \in I : j <= i
    <3> HIDE DEF I
    <3> QED BY <1>2, <2>1, GreatestNatural
  <2>3. c \in I /\ \A j \in I : j <= c
    BY <2>2
  <2>4. LastValue(s, n, k) = s[c].val
    BY <1>2 DEF LastValue
  <2> HIDE DEF c
  <2> QED BY <2>3, <2>4
<1> QED BY <1>1, <1>2

LEMMA LastValueUnique ==
  ASSUME NEW s \in Seq(Records), NEW n \in 0 .. Len(s), NEW k, NEW i \in 1 .. n,
         s[i].key = k, \A j \in 1 .. n : s[j].key = k => j <= i
  PROVE  LastValue(s, n, k) = s[i].val
<1>1. PICK h \in 1 .. n : /\ s[h].key = k /\ \A j \in 1 .. n : s[j].key = k => j <= h
                          /\ LastValue(s, n, k) = s[h].val
  BY LastValueIs
<1>2. h = i
  <2>1. h <= i /\ i <= h /\ h \in Nat /\ i \in Nat
    BY <1>1
  <2> QED BY <2>1
<1> QED BY <1>1, <1>2

\* Only the first n records matter.
LEMMA LastValuePrefix ==
  ASSUME NEW s \in Seq(Records), NEW t \in Seq(Records), NEW k,
         NEW n \in 0 .. Len(s), n <= Len(t),
         \A i \in 1 .. n : s[i].key = t[i].key /\ s[i].val = t[i].val
  PROVE  LastValue(s, n, k) = LastValue(t, n, k)
<1>1. n \in 0 .. Len(t)
  OBVIOUS
<1>2. CASE \A i \in 1 .. n : s[i].key # k
  <2>1. LastValue(s, n, k) = Absent
    BY <1>2, LastValueIs
  <2>2. \A i \in 1 .. n : t[i].key # k
    BY <1>2
  <2>3. LastValue(t, n, k) = Absent
    BY <1>1, <2>2, LastValueIs
  <2> QED BY <2>1, <2>3
<1>3. CASE \E i \in 1 .. n : s[i].key = k
  <2>1. PICK h \in 1 .. n : /\ s[h].key = k /\ \A j \in 1 .. n : s[j].key = k => j <= h
                            /\ LastValue(s, n, k) = s[h].val
    BY <1>3, LastValueIs
  <2>2. t[h].key = k /\ \A j \in 1 .. n : t[j].key = k => j <= h
    BY <2>1
  <2>3. LastValue(t, n, k) = t[h].val
    BY <1>1, <2>2, LastValueUnique
  <2> QED BY <2>1, <2>3
<1> QED BY <1>2, <1>3

\* One more record.
LEMMA LastValueAppend ==
  ASSUME NEW s \in Seq(Records), NEW r \in Records, NEW k
  PROVE  LastValue(Append(s, r), Len(s) + 1, k) =
             IF r.key = k THEN r.val ELSE LastValue(s, Len(s), k)
<1> DEFINE t == Append(s, r)
           n == Len(s)
<1>1. /\ t \in Seq(Records) /\ Len(t) = n + 1 /\ n \in Nat /\ t[n + 1] = r
      /\ \A i \in 1 .. n : t[i] = s[i]
  OBVIOUS
<1> HIDE DEF t, n
<1>2. CASE r.key = k
  <2>1. LastValue(t, n + 1, k) = t[n + 1].val
    BY <1>1, <1>2, LastValueUnique
  <2> QED BY <1>1, <1>2, <2>1 DEF t, n
<1>3. CASE r.key # k
  <2>1. \A i \in 1 .. n + 1 : t[i].key = k => i \in 1 .. n
    BY <1>1, <1>3
  <2>2. n + 1 \in 0 .. Len(t) /\ n \in 0 .. Len(t)
    BY <1>1
  <2>3. LastValue(t, n + 1, k) = LastValue(t, n, k)
    <3>1. CASE \A i \in 1 .. n + 1 : t[i].key # k
      <4>1. \A i \in 1 .. n : t[i].key # k
        BY <1>1, <3>1
      <4> QED BY <1>1, <2>2, <3>1, <4>1, LastValueIs
    <3>2. CASE \E i \in 1 .. n + 1 : t[i].key = k
      <4>1. PICK h \in 1 .. n + 1 :
               /\ t[h].key = k /\ \A j \in 1 .. n + 1 : t[j].key = k => j <= h
               /\ LastValue(t, n + 1, k) = t[h].val
        BY <1>1, <2>2, <3>2, LastValueIs
      <4>2. h \in 1 .. n /\ \A j \in 1 .. n : t[j].key = k => j <= h
        BY <1>1, <2>1, <4>1
      <4>3. LastValue(t, n, k) = t[h].val
        BY <1>1, <2>2, <4>1, <4>2, LastValueUnique
      <4> QED BY <4>1, <4>3
    <3> QED BY <3>1, <3>2
  <2>4. LastValue(t, n, k) = LastValue(s, n, k)
    BY <1>1, LastValuePrefix DEF n
  <2> QED BY <1>3, <2>3, <2>4 DEF t, n
<1> QED BY <1>2, <1>3

-----------------------------------------------------------------------------
(* The file operations *)

LEMMA ValidAppend ==
  ASSUME NEW s \in Seq(Records), NEW r \in Records
  PROVE  Valid(Append(s, r)) = IF Valid(s) = Len(s) /\ r.whole THEN Len(s) + 1 ELSE Valid(s)
<1> DEFINE t == Append(s, r)
<1>1. /\ t \in Seq(Records) /\ Len(t) = Len(s) + 1 /\ Len(s) \in Nat /\ t[Len(s) + 1] = r
      /\ \A i \in 1 .. Len(s) : t[i] = s[i]
  OBVIOUS
<1>2. /\ Valid(s) \in 0 .. Len(s) /\ \A i \in 1 .. Valid(s) : s[i].whole
      /\ Valid(s) < Len(s) => ~s[Valid(s) + 1].whole
  BY ValidFacts
<1> HIDE DEF t
<1>3. CASE Valid(s) = Len(s) /\ r.whole
  <2>1. \A i \in 1 .. Len(s) + 1 : t[i].whole
    BY <1>1, <1>2, <1>3
  <2>2. Valid(t) = Len(s) + 1
    BY <1>1, <2>1, ValidIs
  <2> QED BY <1>3, <2>2 DEF t
<1>4. CASE ~(Valid(s) = Len(s) /\ r.whole)
  <2>1. Valid(s) \in 0 .. Len(t) /\ \A i \in 1 .. Valid(s) : t[i].whole
    BY <1>1, <1>2
  <2>2. ~t[Valid(s) + 1].whole
    BY <1>1, <1>2, <1>4
  <2>3. Valid(t) = Valid(s)
    BY <1>1, <2>1, <2>2, ValidIs
  <2> QED BY <1>4, <2>3 DEF t
<1> QED BY <1>3, <1>4

LEMMA AppendKeepsPrefix ==
  ASSUME NEW s \in Seq(Records), NEW r \in Records, NEW n \in 0 .. Len(s), NEW k
  PROVE  LastValue(Append(s, r), n, k) = LastValue(s, n, k)
<1> DEFINE t == Append(s, r)
<1>1. /\ t \in Seq(Records) /\ n <= Len(t)
      /\ \A i \in 1 .. n : s[i].key = t[i].key /\ s[i].val = t[i].val
  OBVIOUS
<1> HIDE DEF t
<1>2. LastValue(s, n, k) = LastValue(t, n, k)
  BY <1>1, LastValuePrefix
<1> QED BY <1>2 DEF t

LEMMA CutFacts ==
  ASSUME NEW s \in Seq(Records), NEW n \in 0 .. Len(s)
  PROVE  LET t == SubSeq(s, 1, n)
         IN  /\ t \in Seq(Records) /\ Len(t) = n /\ \A i \in 1 .. n : t[i] = s[i]
             /\ Valid(t) = IF n <= Valid(s) THEN n ELSE Valid(s)
<1> DEFINE t == SubSeq(s, 1, n)
           v == IF n <= Valid(s) THEN n ELSE Valid(s)
<1>1. t \in Seq(Records) /\ Len(t) = n /\ n \in Nat /\ \A i \in 1 .. n : t[i] = s[i]
  OBVIOUS
<1>2. /\ Valid(s) \in 0 .. Len(s) /\ \A i \in 1 .. Valid(s) : s[i].whole
      /\ Valid(s) < Len(s) => ~s[Valid(s) + 1].whole
  BY ValidFacts
<1> HIDE DEF t
<1>3. v \in 0 .. Len(t)
  BY <1>1, <1>2
<1>4. \A i \in 1 .. v : t[i].whole
  BY <1>1, <1>2
<1>5. v < Len(t) => ~t[v + 1].whole
  BY <1>1, <1>2
<1> HIDE DEF v
<1>6. Valid(t) = v
  BY <1>1, <1>3, <1>4, <1>5, ValidIs
<1> QED BY <1>1, <1>6 DEF t, v

\* What a power failure may leave: a prefix, and a piece of the next record.
LEMMA TornCutFacts ==
  ASSUME NEW s \in Seq(Records), NEW n \in 0 .. Len(s), n < Len(s)
  PROVE  LET t == Append(SubSeq(s, 1, n), [s[n + 1] EXCEPT !.whole = FALSE])
         IN  /\ t \in Seq(Records) /\ Len(t) = n + 1 /\ \A i \in 1 .. n : t[i] = s[i]
             /\ t[n + 1].seq = s[n + 1].seq
             /\ Valid(t) = IF n <= Valid(s) THEN n ELSE Valid(s)
<1> DEFINE c == SubSeq(s, 1, n)
           r == [s[n + 1] EXCEPT !.whole = FALSE]
           t == Append(c, r)
<1>1. /\ c \in Seq(Records) /\ Len(c) = n /\ \A i \in 1 .. n : c[i] = s[i]
      /\ Valid(c) = IF n <= Valid(s) THEN n ELSE Valid(s)
  BY CutFacts
<1>2. s[n + 1] \in Records
  BY ElementOfSeq
<1>3. r \in Records /\ ~r.whole /\ r.seq = s[n + 1].seq
  BY <1>2 DEF Records
<1> HIDE DEF c, r
<1>4. t \in Seq(Records) /\ Len(t) = n + 1 /\ t[n + 1] = r /\ \A i \in 1 .. n : t[i] = s[i]
  BY <1>1, <1>3
<1>5. Valid(t) = Valid(c)
  BY <1>1, <1>3, ValidAppend
<1> QED BY <1>1, <1>3, <1>4, <1>5 DEF c, r

-----------------------------------------------------------------------------
(* Sequence numbers *)

LEMMA SequenceNumbersAreNat ==
  ASSUME NEW s \in Seq(Records)
  PROVE  \A i \in 1 .. Len(s) : s[i].seq \in Nat
<1> TAKE i \in 1 .. Len(s)
<1>1. s[i] \in Records
  BY ElementOfSeq
<1> QED BY <1>1 DEF Records

LEMMA SequenceBound ==
  ASSUME NEW s \in Seq(Records), NEW n \in 0 .. Len(s)
  PROVE  \E b \in Nat : \A i \in 1 .. n : s[i].seq <= b
<1> DEFINE Bounded(m) == \E b \in Nat : \A i \in 1 .. m : s[i].seq <= b
           T == {m \in 0 .. n : ~Bounded(m)}
<1>1. \A i \in 1 .. n : s[i].seq \in Nat
  BY SequenceNumbersAreNat
<1>2. Bounded(0)
  <2>1. 1 .. 0 = {} /\ 0 \in Nat
    OBVIOUS
  <2> QED BY <2>1
<1>3. ASSUME NEW m \in 1 .. n, Bounded(m - 1) PROVE Bounded(m)
  <2>1. PICK b \in Nat : \A i \in 1 .. m - 1 : s[i].seq <= b
    BY <1>3
  <2>2. s[m].seq \in Nat
    BY <1>1
  <2>3. ASSUME NEW i \in 1 .. m PROVE s[i].seq <= b + s[m].seq
    <3>1. i \in 1 .. n
      OBVIOUS
    <3>2. s[i].seq \in Nat
      BY <1>1, <3>1
    <3>3. CASE i = m
      BY <2>2, <3>3
    <3>4. CASE i # m
      <4>1. i \in 1 .. m - 1
        BY <3>4
      <4> QED BY <2>1, <2>2, <3>2, <4>1
    <3> QED BY <3>3, <3>4
  <2>4. b + s[m].seq \in Nat
    BY <2>2
  <2> QED BY <2>3, <2>4
<1> HIDE DEF Bounded
<1> SUFFICES ASSUME T # {} PROVE FALSE
  <2>1. n \in 0 .. n
    OBVIOUS
  <2> QED BY <2>1 DEF Bounded
<1>4. PICK m \in T : \A j \in T : m <= j
  <2>1. T \subseteq Nat
    OBVIOUS
  <2> HIDE DEF T
  <2> QED BY <2>1, LeastNatural
<1>5. m \in 0 .. n /\ m # 0
  BY <1>2, <1>4
<1>6. m \in 1 .. n /\ m - 1 \in 0 .. n /\ ~(m <= m - 1)
  BY <1>5
<1>7. Bounded(m - 1)
  BY <1>4, <1>6
<1> QED BY <1>3, <1>4, <1>6, <1>7

\* Recover's sequence number is that of a record, or the one before, and none
\* of the records it has read has a larger one.
LEMMA HighestFacts ==
  ASSUME NEW s \in Seq(Records), sequenceNumber \in Nat
  PROVE  /\ Highest(s) \in Nat
         /\ \A i \in 1 .. Valid(s) : s[i].seq <= Highest(s)
<1> DEFINE N == {s[i].seq : i \in 1 .. Valid(s)} \cup {sequenceNumber}
<1>1. Valid(s) \in 0 .. Len(s) /\ Len(s) \in Nat
  BY ValidFacts
<1>2. \A i \in 1 .. Valid(s) : s[i].seq \in Nat
  BY <1>1, SequenceNumbersAreNat
<1>3. PICK b \in Nat : \A i \in 1 .. Valid(s) : s[i].seq <= b
  BY <1>1, SequenceBound
<1>4. N \subseteq Nat /\ N # {}
  BY <1>2
<1>5. b + sequenceNumber \in Nat /\ \A m \in N : m <= b + sequenceNumber
  BY <1>2, <1>3
<1>6. \E n \in N : \A m \in N : m <= n
  <2> HIDE DEF N
  <2> QED BY <1>4, <1>5, GreatestNatural
<1>7. Highest(s) \in N /\ \A m \in N : m <= Highest(s)
  BY <1>6 DEF Highest
<1> QED BY <1>2, <1>7

-----------------------------------------------------------------------------
(* The inductive invariant *)

\* Wherever behind the synced records a stop cuts the file, the records left say
\* of each key what was confirmed last, or failed since.
Covered ==
    ~hidden => /\ synced <= Valid(file)
               /\ \A k \in Keys : \A n \in synced .. Valid(file) :
                     LastValue(file, n, k) \in {acked[k]} \cup pending[k]

\* Once the file is recovered no record has a number the next one could get.
Numbered ==
    "early" \notin Events =>
        /\ SequenceIncreases
        /\ handle = "recovered" => \A i \in 1 .. Len(file) : file[i].seq <= sequenceNumber

WALInv == TypeOK /\ Covered /\ Numbered

LEMMA RecordFacts ==
  ASSUME TypeOK, NEW k \in Keys, NEW v \in Values \cup {Nil}, NEW whole \in BOOLEAN
  PROVE  LET r == NewRecord(k, v, whole)
         IN  /\ r \in Records /\ Bytes(v) \in Cells
             /\ r.key = k /\ r.val = Bytes(v) /\ r.whole = whole /\ r.seq = sequenceNumber + 1
<1>1. Bytes(v) \in Cells /\ sequenceNumber + 1 \in Nat
  BY DEF Bytes, Cells, TypeOK
<1> QED BY <1>1 DEF NewRecord, Records

LEMMA PrefixIsCovered ==
  ASSUME TypeOK, Covered, ~hidden, NEW n \in synced .. Valid(file), NEW k \in Keys
  PROVE  LastValue(file, n, k) \in {acked[k]} \cup pending[k]
  BY DEF Covered

\* A record is written and not confirmed: the call failed, or the process died.
LEMMA UnconfirmedKeeps ==
  ASSUME TypeOK, Covered, NEW k \in Keys, NEW v \in Values \cup {Nil}, NEW whole \in BOOLEAN,
         file' = Append(file, NewRecord(k, v, whole)),
         pending' = [pending EXCEPT ![k] = @ \cup {Bytes(v)}],
         UNCHANGED <<synced, acked, hidden>>
  PROVE  /\ Covered' /\ file' \in Seq(Records) /\ synced' \in 0 .. Len(file')
         /\ pending' \in [Keys -> SUBSET Cells]
<1> DEFINE r == NewRecord(k, v, whole)
<1>1. r \in Records /\ Bytes(v) \in Cells /\ r.key = k /\ r.val = Bytes(v) /\ r.whole = whole
  BY RecordFacts
<1> HIDE DEF r
<1>2. file \in Seq(Records) /\ Len(file) \in Nat /\ synced \in 0 .. Len(file)
      /\ pending \in [Keys -> SUBSET Cells]
  BY DEF TypeOK
<1>3. file' = Append(file, r) /\ file' \in Seq(Records) /\ Len(file') = Len(file) + 1
  BY <1>1, <1>2 DEF r
<1>4. pending' \in [Keys -> SUBSET Cells] /\ synced' \in 0 .. Len(file')
  BY <1>1, <1>2, <1>3
<1>5. \A j \in Keys : pending[j] \subseteq pending'[j]
  BY <1>2
<1>6. Bytes(v) \in pending'[k]
  BY <1>2
<1>7. Valid(file) \in 0 .. Len(file)
  BY <1>2, ValidFacts
<1>8. Valid(file') = IF Valid(file) = Len(file) /\ whole THEN Len(file) + 1 ELSE Valid(file)
  BY <1>1, <1>2, <1>3, ValidAppend
<1>9. Covered'
  <2> SUFFICES ASSUME ~hidden
               PROVE  /\ synced <= Valid(file')
                      /\ \A j \in Keys : \A n \in synced .. Valid(file') :
                            LastValue(file', n, j) \in {acked[j]} \cup pending'[j]
    BY DEF Covered
  <2>1. synced <= Valid(file)
    BY DEF Covered
  <2>2. synced <= Valid(file')
    BY <1>2, <1>7, <1>8, <2>1
  <2>3. ASSUME NEW j \in Keys, NEW n \in synced .. Valid(file')
        PROVE  LastValue(file', n, j) \in {acked[j]} \cup pending'[j]
    <3>1. CASE n \in synced .. Valid(file)
      <4>1. n \in 0 .. Len(file)
        BY <1>2, <1>7, <3>1
      <4>2. LastValue(file', n, j) = LastValue(file, n, j)
        BY <1>1, <1>2, <1>3, <4>1, AppendKeepsPrefix
      <4>3. LastValue(file, n, j) \in {acked[j]} \cup pending[j]
        BY <3>1, PrefixIsCovered
      <4> QED BY <1>5, <4>2, <4>3
    <3>2. CASE n \notin synced .. Valid(file)
      <4>1. n = Len(file) + 1 /\ Valid(file) = Len(file)
        BY <1>2, <1>7, <1>8, <2>1, <3>2
      <4>2. LastValue(file', n, j) = IF r.key = j THEN r.val ELSE LastValue(file, Len(file), j)
        BY <1>1, <1>2, <1>3, <4>1, LastValueAppend
      <4>3. Len(file) \in synced .. Valid(file)
        BY <1>2, <4>1
      <4>4. LastValue(file, Len(file), j) \in {acked[j]} \cup pending[j]
        BY <4>3, PrefixIsCovered
      <4>5. CASE j = k
        BY <1>1, <1>6, <4>2, <4>5
      <4>6. CASE j # k
        BY <1>1, <1>5, <4>2, <4>4, <4>6
      <4> QED BY <4>5, <4>6
    <3> QED BY <3>1, <3>2
  <2> QED BY <2>2, <2>3
<1> QED BY <1>3, <1>4, <1>9

\* WriteEntry returns nil.
LEMMA ConfirmedKeeps ==
  ASSUME TypeOK, Covered, NEW k \in Keys, NEW v \in Values \cup {Nil}, WriteEntry(k, v)
  PROVE  /\ Covered' /\ file' \in Seq(Records) /\ synced' \in 0 .. Len(file')
         /\ pending' \in [Keys -> SUBSET Cells] /\ acked' \in [Keys -> Cells \cup {Absent}]
         /\ hidden' \in BOOLEAN
<1> DEFINE r == NewRecord(k, v, TRUE)
<1>1. r \in Records /\ Bytes(v) \in Cells /\ r.key = k /\ r.val = Bytes(v) /\ r.whole = TRUE
  BY RecordFacts
<1>2. file' = Append(file, r) /\ synced' = Len(file') /\ hidden' = (hidden \/ Valid(file) < Len(file))
  BY DEF WriteEntry
<1>3. acked' = [acked EXCEPT ![k] = Bytes(v)] /\ pending' = [pending EXCEPT ![k] = {}]
  BY DEF WriteEntry
<1> HIDE DEF r
<1>4. /\ file \in Seq(Records) /\ Len(file) \in Nat /\ synced \in 0 .. Len(file)
      /\ pending \in [Keys -> SUBSET Cells] /\ acked \in [Keys -> Cells \cup {Absent}]
      /\ hidden \in BOOLEAN
  BY DEF TypeOK
<1>5. file' \in Seq(Records) /\ Len(file') = Len(file) + 1 /\ synced' \in 0 .. Len(file')
  BY <1>1, <1>2, <1>4
<1>6. pending' \in [Keys -> SUBSET Cells] /\ acked' \in [Keys -> Cells \cup {Absent}]
  BY <1>1, <1>3, <1>4
<1>7. Covered'
  <2> SUFFICES ASSUME ~hidden'
               PROVE  /\ synced' <= Valid(file')
                      /\ \A j \in Keys : \A n \in synced' .. Valid(file') :
                            LastValue(file', n, j) \in {acked'[j]} \cup pending'[j]
    BY DEF Covered
  <2>1. ~hidden /\ Valid(file) = Len(file)
    <3>1. Valid(file) \in 0 .. Len(file)
      BY <1>4, ValidFacts
    <3>2. ~(hidden \/ Valid(file) < Len(file))
      BY <1>2, Zenon
    <3>3. ~(Valid(file) < Len(file)) => Valid(file) = Len(file)
      BY <1>4, <3>1
    <3> QED BY <3>2, <3>3
  <2>2. Valid(file') = Len(file) + 1
    BY <1>1, <1>2, <1>4, <2>1, ValidAppend
  <2>3. synced' = Valid(file')
    BY <1>2, <1>5, <2>2
  <2>4. ASSUME NEW j \in Keys
        PROVE  LastValue(file', Len(file) + 1, j) \in {acked'[j]} \cup pending'[j]
    <3>1. LastValue(file', Len(file) + 1, j) =
              IF r.key = j THEN r.val ELSE LastValue(file, Len(file), j)
      BY <1>1, <1>2, <1>4, LastValueAppend
    <3>2. CASE j = k
      BY <1>1, <1>3, <1>4, <3>1, <3>2
    <3>3. CASE j # k
      <4>1. Len(file) \in synced .. Valid(file)
        BY <1>4, <2>1
      <4>2. LastValue(file, Len(file), j) \in {acked[j]} \cup pending[j]
        BY <2>1, <4>1, PrefixIsCovered
      <4> QED BY <1>1, <1>3, <1>4, <3>1, <3>3, <4>2
    <3> QED BY <3>2, <3>3
  <2>5. \A n \in synced' .. Valid(file') : n = Len(file) + 1
    BY <1>4, <2>2, <2>3
  <2> QED BY <1>4, <2>2, <2>3, <2>4, <2>5
<1>8. hidden' \in BOOLEAN
  BY <1>2, <1>4
<1> QED BY <1>5, <1>6, <1>7, <1>8

\* The file is cut behind the synced records, or behind all that Recover reads.
LEMMA CutKeeps ==
  ASSUME TypeOK, Covered, file' \in Seq(Records), NEW n \in 0 .. Len(file), n <= Len(file'),
         \A i \in 1 .. n : file'[i] = file[i],
         Valid(file') = IF n <= Valid(file) THEN n ELSE Valid(file),
         n >= synced \/ n >= Valid(file), synced <= Valid(file) => synced' = synced,
         UNCHANGED <<acked, pending, hidden>>
  PROVE  Covered'
<1>1. file \in Seq(Records) /\ Len(file) \in Nat /\ Len(file') \in Nat /\ synced \in 0 .. Len(file)
  BY DEF TypeOK
<1>2. Valid(file) \in 0 .. Len(file) /\ Valid(file') \in 0 .. Len(file')
  BY <1>1, ValidFacts
<1> SUFFICES ASSUME ~hidden
             PROVE  /\ synced' <= Valid(file')
                    /\ \A k \in Keys : \A m \in synced' .. Valid(file') :
                          LastValue(file', m, k) \in {acked[k]} \cup pending[k]
  BY DEF Covered
<1>3. synced <= Valid(file) /\ synced' = synced
  BY DEF Covered
<1>4. synced' <= Valid(file')
  BY <1>1, <1>2, <1>3
<1>5. ASSUME NEW k \in Keys, NEW m \in synced' .. Valid(file')
      PROVE  LastValue(file', m, k) \in {acked[k]} \cup pending[k]
  <2>1. m \in synced .. Valid(file) /\ m \in 0 .. Len(file) /\ m <= n /\ m <= Len(file')
    BY <1>1, <1>2, <1>3
  <2>2. LastValue(file, m, k) = LastValue(file', m, k)
    BY <1>1, <2>1, LastValuePrefix
  <2> QED BY <2>1, <2>2, PrefixIsCovered
<1> QED BY <1>4, <1>5

-----------------------------------------------------------------------------
(* The numbering *)

LEMMA AppendNumbered ==
  ASSUME TypeOK, Numbered, Writable, NEW r \in Records, r.seq = sequenceNumber + 1,
         file' = Append(file, r), sequenceNumber' \in {sequenceNumber, sequenceNumber + 1},
         sequenceNumber' = sequenceNumber + 1 \/ handle' = "closed"
  PROVE  Numbered'
<1> SUFFICES ASSUME "early" \notin Events
             PROVE  /\ SequenceIncreases'
                    /\ handle' = "recovered" => \A i \in 1 .. Len(file') : file'[i].seq <= sequenceNumber'
  BY DEF Numbered
<1>1. handle = "recovered"
  BY DEF Writable
<1>2. /\ file \in Seq(Records) /\ Len(file) \in Nat /\ Len(file') = Len(file) + 1
      /\ file'[Len(file) + 1] = r /\ \A i \in 1 .. Len(file) : file'[i] = file[i]
  BY DEF TypeOK
<1>3. /\ sequenceNumber \in Nat
      /\ \A i \in 1 .. Len(file) : file[i].seq <= sequenceNumber /\ file[i].seq \in Nat
  <2>1. \A i \in 1 .. Len(file) : file[i].seq \in Nat
    BY <1>2, SequenceNumbersAreNat
  <2> QED BY <1>1, <2>1 DEF Numbered, TypeOK
<1>4. SequenceIncreases'
  <2> SUFFICES ASSUME NEW i \in 1 .. Len(file'), NEW j \in 1 .. Len(file'), i < j
               PROVE  file'[i].seq < file'[j].seq
    BY DEF SequenceIncreases
  <2>1. CASE j = Len(file) + 1
    BY <1>2, <1>3, <2>1
  <2>2. CASE j # Len(file) + 1
    <3>1. i \in 1 .. Len(file) /\ j \in 1 .. Len(file)
      BY <1>2, <2>2
    <3> QED BY <1>2, <3>1 DEF Numbered, SequenceIncreases
  <2> QED BY <2>1, <2>2
<1>5. ASSUME handle' = "recovered", NEW i \in 1 .. Len(file')
      PROVE  file'[i].seq <= sequenceNumber'
  <2>1. sequenceNumber' = sequenceNumber + 1
    BY <1>5
  <2> QED BY <1>2, <1>3, <2>1
<1> QED BY <1>4, <1>5

\* A prefix of the file, with or without a piece of the next record.
LEMMA CutNumbered ==
  ASSUME TypeOK, Numbered, file' \in Seq(Records), Len(file') <= Len(file),
         \A i \in 1 .. Len(file') : file'[i].seq = file[i].seq,
         handle' = "recovered" => \A i \in 1 .. Len(file') : file'[i].seq <= sequenceNumber'
  PROVE  Numbered'
<1> SUFFICES ASSUME "early" \notin Events PROVE SequenceIncreases'
  BY DEF Numbered
<1>1. Len(file) \in Nat /\ Len(file') \in Nat
  BY DEF TypeOK
<1> SUFFICES ASSUME NEW i \in 1 .. Len(file'), NEW j \in 1 .. Len(file'), i < j
             PROVE  file'[i].seq < file'[j].seq
  BY DEF SequenceIncreases
<1>2. i \in 1 .. Len(file) /\ j \in 1 .. Len(file)
  BY <1>1
<1> QED BY <1>2 DEF Numbered, SequenceIncreases

-----------------------------------------------------------------------------
(* The steps *)

LEMMA WALInitially == Init => WALInv
<1> SUFFICES ASSUME Init PROVE WALInv
  OBVIOUS
<1>1. file = <<>> /\ file \in Seq(Records) /\ Len(file) = 0 /\ synced = 0 /\ 1 .. 0 = {}
  BY DEF Init
<1>2. TypeOK
  <2>1. acked \in [Keys -> Cells \cup {Absent}] /\ pending \in [Keys -> SUBSET Cells]
    BY DEF Init
  <2>2. synced \in 0 .. Len(file)
    BY <1>1
  <2>3. hidden \in BOOLEAN
    BY DEF Init
  <2> QED BY <1>1, <2>1, <2>2, <2>3 DEF Init, TypeOK
<1>3. Valid(file) = 0
  <2>1. Valid(file) \in 0 .. Len(file)
    BY <1>1, ValidFacts
  <2> QED BY <1>1, <2>1
<1>4. \A k \in Keys : LastValue(file, 0, k) = Absent
  BY <1>1 DEF LastValue
<1>5. Covered
  BY <1>1, <1>3, <1>4 DEF Covered, Init
<1>6. Numbered
  BY <1>1 DEF Numbered, SequenceIncreases
<1> QED BY <1>2, <1>5, <1>6 DEF WALInv

LEMMA NewWALKeeps == ASSUME WALInv, NewWAL PROVE WALInv'
<1>1. UNCHANGED <<file, synced, calls, stops, acked, pending, hidden>>
      /\ handle' = "opened" /\ sequenceNumber' = 0
  BY DEF NewWAL
<1> QED BY <1>1 DEF WALInv, TypeOK, Covered, Numbered, SequenceIncreases

LEMMA WriteKeeps ==
  ASSUME WALInv, NEW k \in Keys, NEW v \in Values \cup {Nil}, Write(k, v)
  PROVE  WALInv'
<1>1. /\ Writable /\ calls' = calls + 1 /\ sequenceNumber' = sequenceNumber + 1
      /\ UNCHANGED <<handle, stops>>
  BY DEF Write
<1>2. TypeOK /\ Covered /\ Numbered
  BY DEF WALInv
<1>3. calls' \in Nat /\ sequenceNumber' \in Nat /\ stops' \in Nat
      /\ handle' \in {"closed", "opened", "recovered"}
  BY <1>1, <1>2 DEF TypeOK
<1>4. ASSUME NEW whole \in BOOLEAN, file' = Append(file, NewRecord(k, v, whole))
      PROVE  Numbered'
  <2>1. NewRecord(k, v, whole) \in Records /\ NewRecord(k, v, whole).seq = sequenceNumber + 1
    BY <1>2, RecordFacts
  <2> QED BY <1>1, <1>2, <1>4, <2>1, AppendNumbered
<1>5. CASE WriteEntry(k, v)
  <2>1. /\ Covered' /\ file' \in Seq(Records) /\ synced' \in 0 .. Len(file')
        /\ pending' \in [Keys -> SUBSET Cells] /\ acked' \in [Keys -> Cells \cup {Absent}]
        /\ hidden' \in BOOLEAN
    BY <1>2, <1>5, ConfirmedKeeps
  <2>2. Numbered'
    BY <1>4, <1>5 DEF WriteEntry
  <2> QED BY <1>3, <2>1, <2>2 DEF WALInv, TypeOK
<1>6. CASE WriteEntryFails(k, v)
  <2>1. UNCHANGED <<synced, acked, hidden>> /\ pending' = [pending EXCEPT ![k] = @ \cup {Bytes(v)}]
    BY <1>6 DEF WriteEntryFails
  <2>2. CASE file' = file
    <3>1. Bytes(v) \in Cells
      BY <1>2, RecordFacts
    <3>2. pending' \in [Keys -> SUBSET Cells] /\ \A j \in Keys : pending[j] \subseteq pending'[j]
      BY <1>2, <2>1, <3>1 DEF TypeOK
    <3>3. Covered'
      BY <1>2, <2>1, <2>2, <3>2 DEF Covered
    <3>4. Numbered'
      <4>1. \A i \in 1 .. Len(file) : file[i].seq \in Nat
        BY <1>2, SequenceNumbersAreNat DEF TypeOK
      <4> QED BY <1>1, <1>2, <2>2, <4>1 DEF Numbered, SequenceIncreases, TypeOK
    <3> QED BY <1>2, <1>3, <2>1, <2>2, <3>2, <3>3, <3>4 DEF WALInv, TypeOK
  <2>3. ASSUME NEW whole \in BOOLEAN, file' = Append(file, NewRecord(k, v, whole))
        PROVE  WALInv'
    <3>1. /\ Covered' /\ file' \in Seq(Records) /\ synced' \in 0 .. Len(file')
          /\ pending' \in [Keys -> SUBSET Cells]
      BY <1>2, <2>1, <2>3, UnconfirmedKeeps
    <3>2. Numbered'
      BY <1>4, <2>3
    <3> QED BY <1>2, <1>3, <2>1, <3>1, <3>2 DEF WALInv, TypeOK
  <2> QED BY <1>6, <2>2, <2>3 DEF WriteEntryFails
<1> QED BY <1>5, <1>6 DEF Write

LEMMA RecoverKeeps == ASSUME WALInv, Recover PROVE WALInv'
<1>1. /\ sequenceNumber' = Highest(file) /\ UNCHANGED <<calls, stops, acked, pending, hidden>>
  BY DEF Recover
<1>2. TypeOK /\ Covered /\ Numbered /\ file \in Seq(Records) /\ sequenceNumber \in Nat
      /\ Len(file) \in Nat /\ synced \in 0 .. Len(file)
  BY DEF WALInv, TypeOK
<1>3. Valid(file) \in 0 .. Len(file)
  BY <1>2, ValidFacts
<1>4. sequenceNumber' \in Nat /\ \A i \in 1 .. Valid(file) : file[i].seq <= sequenceNumber'
  BY <1>1, <1>2, HighestFacts
<1>5. CASE /\ handle' = "recovered" /\ file' = SubSeq(file, 1, Valid(file))
           /\ synced' = IF synced <= Valid(file) THEN synced ELSE Valid(file)
  <2>1. /\ file' \in Seq(Records) /\ Len(file') = Valid(file)
        /\ \A i \in 1 .. Valid(file) : file'[i] = file[i]
        /\ Valid(file') = Valid(file)
    BY <1>2, <1>3, <1>5, CutFacts
  <2>2. synced' \in 0 .. Len(file') /\ (synced <= Valid(file) => synced' = synced)
    BY <1>2, <1>3, <1>5, <2>1
  <2>3. Covered'
    BY <1>1, <1>2, <1>3, <2>1, <2>2, CutKeeps
  <2>4. Numbered'
    <3>1. Len(file') <= Len(file) /\ \A i \in 1 .. Len(file') : file'[i].seq = file[i].seq
      BY <1>2, <1>3, <2>1
    <3>2. \A i \in 1 .. Len(file') : file'[i].seq <= sequenceNumber'
      BY <1>4, <2>1
    <3> QED BY <1>2, <2>1, <3>1, <3>2, CutNumbered
  <2> QED BY <1>1, <1>2, <1>4, <1>5, <2>1, <2>2, <2>3, <2>4 DEF WALInv, TypeOK
<1>6. CASE handle' = "closed" /\ UNCHANGED <<file, synced>>
  BY <1>1, <1>2, <1>4, <1>6 DEF WALInv, TypeOK, Covered, Numbered, SequenceIncreases
<1> QED BY <1>5, <1>6 DEF Recover

LEMMA RecoverMisreadsKeeps == ASSUME WALInv, RecoverMisreads PROVE WALInv'
<1>1. /\ handle' = "recovered" /\ hidden' = TRUE /\ UNCHANGED <<calls, stops, acked, pending>>
  BY DEF RecoverMisreads
<1>2. PICK n \in 0 .. Len(file) :
         /\ n < Valid(file) /\ file' = SubSeq(file, 1, n)
         /\ sequenceNumber' = Highest(SubSeq(file, 1, n))
         /\ synced' = IF synced <= n THEN synced ELSE n
  BY DEF RecoverMisreads
<1>3. /\ TypeOK /\ Numbered /\ file \in Seq(Records) /\ sequenceNumber \in Nat
      /\ Len(file) \in Nat /\ synced \in 0 .. Len(file) /\ Valid(file) \in 0 .. Len(file)
  BY ValidFacts DEF WALInv, TypeOK
<1>4. /\ SubSeq(file, 1, n) \in Seq(Records) /\ Len(SubSeq(file, 1, n)) = n
      /\ \A i \in 1 .. n : SubSeq(file, 1, n)[i] = file[i]
      /\ Valid(SubSeq(file, 1, n)) = n
  BY <1>2, <1>3, CutFacts
<1>5. sequenceNumber' \in Nat /\ \A i \in 1 .. n : SubSeq(file, 1, n)[i].seq <= sequenceNumber'
  BY <1>2, <1>3, <1>4, HighestFacts
<1>6. synced' \in 0 .. Len(file')
  BY <1>2, <1>3, <1>4
<1>7. Numbered'
  BY <1>2, <1>3, <1>4, <1>5, CutNumbered
<1>8. Covered'
  BY <1>1 DEF Covered
<1> QED BY <1>1, <1>2, <1>3, <1>4, <1>5, <1>6, <1>7, <1>8 DEF WALInv, TypeOK

LEMMA CloseKeeps == ASSUME WALInv, Close PROVE WALInv'
<1>1. /\ UNCHANGED <<file, synced, sequenceNumber, calls, acked, pending, hidden>>
      /\ handle' = "closed" /\ stops' = stops + 1
  BY DEF Close
<1> QED BY <1>1 DEF WALInv, TypeOK, Covered, Numbered, SequenceIncreases

LEMMA KillKeeps == ASSUME WALInv, Kill PROVE WALInv'
<1>1. handle' = "closed" /\ stops' = stops + 1 /\ UNCHANGED <<synced, sequenceNumber, acked, hidden>>
  BY DEF Kill
<1>2. TypeOK /\ Covered /\ Numbered
  BY DEF WALInv
<1>3. CASE UNCHANGED <<file, calls, pending>>
  BY <1>1, <1>3 DEF WALInv, TypeOK, Covered, Numbered, SequenceIncreases
<1>4. ASSUME Writable, calls' = calls + 1,
             NEW k \in Keys, NEW v \in Values \cup {Nil}, NEW whole \in BOOLEAN,
             file' = Append(file, NewRecord(k, v, whole)),
             pending' = [pending EXCEPT ![k] = @ \cup {Bytes(v)}]
      PROVE  WALInv'
  <2>1. /\ Covered' /\ file' \in Seq(Records) /\ synced' \in 0 .. Len(file')
        /\ pending' \in [Keys -> SUBSET Cells]
    BY <1>1, <1>2, <1>4, UnconfirmedKeeps
  <2>2. NewRecord(k, v, whole) \in Records /\ NewRecord(k, v, whole).seq = sequenceNumber + 1
    BY <1>2, RecordFacts
  <2>3. Numbered'
    BY <1>1, <1>2, <1>4, <2>2, AppendNumbered
  <2> QED BY <1>1, <1>2, <1>4, <2>1, <2>3 DEF WALInv, TypeOK
<1> QED BY <1>3, <1>4 DEF Kill

LEMMA PowerLossKeeps == ASSUME WALInv, PowerLoss PROVE WALInv'
<1>1. /\ handle' = "closed" /\ stops' = stops + 1
      /\ UNCHANGED <<synced, sequenceNumber, calls, acked, pending, hidden>>
  BY DEF PowerLoss
<1>2. TypeOK /\ Covered /\ Numbered /\ file \in Seq(Records) /\ Len(file) \in Nat
      /\ synced \in 0 .. Len(file)
  BY DEF WALInv, TypeOK
<1>3. PICK n \in synced .. Len(file) :
          \/ file' = SubSeq(file, 1, n)
          \/ n < Len(file) /\ file' = Append(SubSeq(file, 1, n), [file[n + 1] EXCEPT !.whole = FALSE])
  BY DEF PowerLoss
<1>4. n \in 0 .. Len(file)
  BY <1>2
<1>5. /\ file' \in Seq(Records) /\ n <= Len(file') /\ Len(file') <= Len(file)
      /\ \A i \in 1 .. n : file'[i] = file[i]
      /\ \A i \in 1 .. Len(file') : file'[i].seq = file[i].seq
      /\ Valid(file') = IF n <= Valid(file) THEN n ELSE Valid(file)
  <2>1. CASE file' = SubSeq(file, 1, n)
    BY <1>2, <1>4, <2>1, CutFacts
  <2>2. CASE n < Len(file) /\ file' = Append(SubSeq(file, 1, n), [file[n + 1] EXCEPT !.whole = FALSE])
    <3>1. /\ file' \in Seq(Records) /\ Len(file') = n + 1 /\ \A i \in 1 .. n : file'[i] = file[i]
          /\ file'[n + 1].seq = file[n + 1].seq
          /\ Valid(file') = IF n <= Valid(file) THEN n ELSE Valid(file)
      BY <1>2, <1>4, <2>2, TornCutFacts
    <3> QED BY <1>2, <1>4, <2>2, <3>1
  <2> QED BY <1>3, <2>1, <2>2
<1>6. synced' \in 0 .. Len(file')
  BY <1>1, <1>2, <1>5
<1>7. Covered'
  BY <1>1, <1>2, <1>4, <1>5, CutKeeps
<1>8. Numbered'
  BY <1>1, <1>2, <1>5, CutNumbered
<1> QED BY <1>1, <1>2, <1>5, <1>6, <1>7, <1>8 DEF WALInv, TypeOK

LEMMA WALStep == ASSUME WALInv, [Next]_vars PROVE WALInv'
<1>1. CASE Next
  BY <1>1, NewWALKeeps, RecoverKeeps, RecoverMisreadsKeeps, CloseKeeps, KillKeeps,
     PowerLossKeeps, WriteKeeps DEF Next
<1>2. CASE UNCHANGED vars
  BY <1>2 DEF vars, WALInv, TypeOK, Covered, Numbered, SequenceIncreases
<1> QED BY <1>1, <1>2

LEMMA WALInvariant == Spec => []WALInv
<1>1. Init => WALInv
  BY WALInitially
<1>2. WALInv /\ [Next]_vars => WALInv'
  BY WALStep
<1> QED BY <1>1, <1>2, PTL DEF Spec

-----------------------------------------------------------------------------
(* The theorems *)

\* The log's variables have their types, and the synced records are in the
\* file, whatever fails or stops.
THEOREM WALTypeCorrect == Spec => []TypeOK
<1>1. WALInv => TypeOK
  BY DEF WALInv
<1> QED BY <1>1, WALInvariant, PTL

\* Recover gives, for each key, the last write WriteEntry confirmed or a later
\* one it failed on, at every instant, through any number of short writes,
\* failed Syncs, kills, power failures and failed or interrupted recoveries,
\* for writes before Recover as well; unless a write was confirmed behind a
\* broken record, or Recover could not read one.
THEOREM ConfirmedIsRecovered == Spec => []AckedRecovered
<1>1. WALInv => AckedRecovered
  <2> SUFFICES ASSUME WALInv, ~hidden, NEW k \in Keys
               PROVE  Recovered(file)[k] \in {acked[k]} \cup pending[k]
    BY DEF AckedRecovered
  <2>1. file \in Seq(Records) /\ Len(file) \in Nat /\ synced \in 0 .. Len(file)
    BY DEF WALInv, TypeOK
  <2>2. Valid(file) \in 0 .. Len(file) /\ synced <= Valid(file)
    BY <2>1, ValidFacts DEF WALInv, Covered
  <2>3. Valid(file) \in synced .. Valid(file)
    BY <2>1, <2>2
  <2>4. LastValue(file, Valid(file), k) \in {acked[k]} \cup pending[k]
    BY <2>3, PrefixIsCovered DEF WALInv
  <2> QED BY <2>4 DEF Recovered
<1> QED BY <1>1, WALInvariant, PTL

\* The records are numbered in increasing order across restarts, if the engine
\* writes only after Recover.
THEOREM NumberingContinues == "early" \notin Events => (Spec => []SequenceIncreases)
<1> SUFFICES ASSUME "early" \notin Events PROVE Spec => []SequenceIncreases
  OBVIOUS
<1>1. WALInv => SequenceIncreases
  BY DEF WALInv, Numbered
<1> QED BY <1>1, WALInvariant, PTL

-----------------------------------------------------------------------------
(* WAL implements WALMap *)

LEMMA RecoveredAppend ==
  ASSUME NEW s \in Seq(Records), NEW r \in Records
  PROVE  Recovered(Append(s, r)) =
             IF Valid(s) = Len(s) /\ r.whole THEN [Recovered(s) EXCEPT ![r.key] = r.val]
             ELSE Recovered(s)
<1>1. Valid(Append(s, r)) = IF Valid(s) = Len(s) /\ r.whole THEN Len(s) + 1 ELSE Valid(s)
  BY ValidAppend
<1>2. CASE Valid(s) = Len(s) /\ r.whole
  <2>1. \A k \in Keys : LastValue(Append(s, r), Len(s) + 1, k) =
                            IF r.key = k THEN r.val ELSE LastValue(s, Len(s), k)
    BY LastValueAppend
  <2> QED BY <1>1, <1>2, <2>1 DEF Recovered
<1>3. CASE ~(Valid(s) = Len(s) /\ r.whole)
  <2>1. Valid(s) \in 0 .. Len(s)
    BY ValidFacts
  <2>2. \A k \in Keys : LastValue(Append(s, r), Valid(s), k) = LastValue(s, Valid(s), k)
    BY <2>1, AppendKeepsPrefix
  <2> QED BY <1>1, <1>3, <2>2 DEF Recovered
<1> QED BY <1>2, <1>3

\* A record is appended, whole or not, confirmed or not.
LEMMA AppendIsMapStep ==
  ASSUME TypeOK, NEW k \in Keys, NEW v \in Values \cup {Nil}, NEW whole \in BOOLEAN,
         file' = Append(file, NewRecord(k, v, whole))
  PROVE  Map!Step
<1> DEFINE r == NewRecord(k, v, whole)
<1>1. r \in Records /\ Bytes(v) \in Cells /\ r.key = k /\ r.val = Bytes(v) /\ r.whole = whole
  BY RecordFacts
<1> HIDE DEF r
<1>2. file \in Seq(Records) /\ Len(file) \in Nat /\ file' = Append(file, r) /\ Len(file') = Len(file) + 1
  BY DEF TypeOK, r
<1>3. Valid(file) \in 0 .. Len(file)
  BY <1>2, ValidFacts
<1>4. Valid(file') = IF Valid(file) = Len(file) /\ whole THEN Len(file) + 1 ELSE Valid(file)
  BY <1>1, <1>2, ValidAppend
<1>5. Recovered(file') = IF Valid(file) = Len(file) /\ whole THEN [Recovered(file) EXCEPT ![k] = Bytes(v)]
                         ELSE Recovered(file)
  BY <1>1, <1>2, RecoveredAppend
<1>6. CASE whole
  <2>1. (Valid(file') < Len(file')) = (Valid(file) < Len(file))
    BY <1>2, <1>3, <1>4, <1>6
  <2>2. Recovered(file') = IF Valid(file) < Len(file) THEN Recovered(file)
                           ELSE [Recovered(file) EXCEPT ![k] = Bytes(v)]
    BY <1>2, <1>3, <1>5, <1>6
  <2>3. Map!Append(k, Bytes(v))
    BY <2>1, <2>2 DEF Map!Append
  <2> QED BY <1>1, <2>3 DEF Map!Step, Map!Next
<1>7. CASE ~whole
  <2>1. Valid(file') < Len(file') /\ Recovered(file') = Recovered(file)
    BY <1>2, <1>3, <1>4, <1>5, <1>7
  <2>2. Map!Break
    BY <2>1 DEF Map!Break
  <2> QED BY <2>2 DEF Map!Step, Map!Next
<1> QED BY <1>6, <1>7

LEMMA UnchangedIsMapStep ==
  ASSUME file' = file
  PROVE  Map!Step
<1>1. Recovered(file') = Recovered(file) /\ (Valid(file') < Len(file')) = (Valid(file) < Len(file))
  OBVIOUS
<1> QED BY <1>1 DEF Map!Step

\* Recover cuts off what it did not read.
LEMMA RecoverIsMapStep ==
  ASSUME TypeOK, file' = SubSeq(file, 1, Valid(file))
  PROVE  Map!Step
<1>1. file \in Seq(Records) /\ Valid(file) \in 0 .. Len(file)
  BY ValidFacts DEF TypeOK
<1>2. /\ file' \in Seq(Records) /\ Len(file') = Valid(file)
      /\ \A i \in 1 .. Valid(file) : file'[i] = file[i]
      /\ Valid(file') = Valid(file)
  BY <1>1, CutFacts
<1>3. ASSUME NEW k \in Keys
      PROVE  LastValue(file, Valid(file), k) = LastValue(file', Valid(file), k)
  <2> DEFINE t == file'
             n == Valid(file)
  <2>1. /\ t \in Seq(Records) /\ n \in 0 .. Len(file) /\ n <= Len(t)
        /\ \A i \in 1 .. n : file[i].key = t[i].key /\ file[i].val = t[i].val
    BY <1>1, <1>2
  <2> HIDE DEF t, n
  <2>2. LastValue(file, n, k) = LastValue(t, n, k)
    BY <1>1, <2>1, LastValuePrefix
  <2> QED BY <2>2 DEF t, n
<1>4. Recovered(file') = Recovered(file)
  BY <1>2, <1>3 DEF Recovered
<1>5. ~(Valid(file') < Len(file'))
  BY <1>1, <1>2
<1>6. (Valid(file') < Len(file')) = FALSE
  BY <1>1, <1>2, <1>5
<1>7. Map!Repair
  BY <1>4, <1>6 DEF Map!Repair
<1> QED BY <1>7 DEF Map!Step, Map!Next

\* Each operation on the file, failed and interrupted ones included, is a step
\* of WALMap, the log that module Engine works with, or leaves it as it is; a
\* power failure and a read that fails apart.
THEOREM WALImplementsMap == Spec => ImplementsMap
<1>1. Init => Map!Init
  <2> SUFFICES ASSUME Init PROVE Map!Init
    OBVIOUS
  <2>1. file = <<>> /\ file \in Seq(Records) /\ Len(file) = 0 /\ 1 .. 0 = {}
    BY DEF Init
  <2>2. Valid(file) \in 0 .. Len(file)
    BY <2>1, ValidFacts
  <2>3. Valid(file) = 0
    BY <2>1, <2>2
  <2>4. \A k \in Keys : LastValue(file, 0, k) = Absent
    BY <2>1 DEF LastValue
  <2> QED BY <2>1, <2>3, <2>4 DEF Map!Init, Recovered
<1>2. TypeOK /\ [Next]_vars => [Map!Step \/ PowerLoss \/ RecoverMisreads]_vars
  <2> SUFFICES ASSUME TypeOK, Next PROVE Map!Step \/ PowerLoss \/ RecoverMisreads
    OBVIOUS
  <2>1. CASE NewWAL \/ Close
    BY <2>1, UnchangedIsMapStep DEF NewWAL, Close
  <2>2. CASE Recover
    BY <2>2, UnchangedIsMapStep, RecoverIsMapStep DEF Recover
  <2>3. CASE Kill
    BY <2>3, UnchangedIsMapStep, AppendIsMapStep DEF Kill
  <2>4. ASSUME NEW k \in Keys, NEW v \in Values \cup {Nil}, Write(k, v)
        PROVE  Map!Step
    BY <2>4, UnchangedIsMapStep, AppendIsMapStep DEF Write, WriteEntry, WriteEntryFails
  <2> QED BY <2>1, <2>2, <2>3, <2>4 DEF Next
<1> QED BY <1>1, <1>2, WALTypeCorrect, PTL DEF Spec, ImplementsMap
=============================================================================
