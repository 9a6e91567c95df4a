--------------------------- MODULE ReplicaProofs ---------------------------
(***************************************************************************)
(* Theorems about Replica: for any number of nodes, commands, snapshots,   *)
(* crashes and failing calls, what a replica answers is what the committed *)
(* log says, but for the keys that an error has left behind.               *)
(***************************************************************************)
EXTENDS Replica, SequenceTheorems, WellFoundedInduction, TLAPS

-----------------------------------------------------------------------------
(* Least and greatest numbers.  The induction is that of WFMin. *)

LessNat == {p \in Nat \X Nat : p[1] < p[2]}

LEMMA LessNatWellFounded == IsWellFoundedOn(LessNat, Nat)
<1>1. OpToRel(<, Nat) = LessNat
  BY DEF OpToRel, LessNat
<1> QED BY <1>1, NatLessThanWellFounded

LEMMA LeastNatural ==
  ASSUME NEW T, T \subseteq Nat, T # {}
  PROVE  \E n \in T : \A m \in T : n <= m
<1>1. PICK n \in T : \A m \in T : ~(<<m, n>> \in LessNat)
  BY LessNatWellFounded, WFMin
<1>2. ASSUME NEW m \in T PROVE n <= m
  <2>1. n \in Nat /\ m \in Nat /\ <<m, n>> \in Nat \X Nat
    OBVIOUS
  <2>2. ~(m < n)
    BY <1>1, <2>1 DEF LessNat
  <2> QED BY <2>1, <2>2
<1> QED BY <1>2

LEMMA GreatestNatural ==
  ASSUME NEW T, NEW b \in Nat, T \subseteq Nat, T # {}, \A m \in T : m <= b
  PROVE  \E n \in T : \A m \in T : m <= n
<1> DEFINE U == {u \in Nat : \A m \in T : m <= u}
<1>1. PICK u \in U : \A v \in U : u <= v
  <2>1. U \subseteq Nat /\ b \in U
    OBVIOUS
  <2> HIDE DEF U
  <2> QED BY <2>1, LeastNatural
<1>2. u \in T
  <2> SUFFICES ASSUME u \notin T PROVE FALSE
    OBVIOUS
  <2>1. \A m \in T : m <= u - 1
    BY <1>1
  <2>2. u \in Nat /\ u # 0
    <3>1. PICK m \in T : TRUE
      OBVIOUS
    <3> QED BY <1>1, <2>1, <3>1
  <2>3. u - 1 \in U
    BY <2>1, <2>2
  <2> QED BY <1>1, <2>2, <2>3
<1> QED BY <1>1, <1>2

-----------------------------------------------------------------------------
(* The map that a prefix of a log makes *)

\* StateAt(i)[k] for the log l.
ValueAt(l, i, k) ==
    LET W == {j \in 1 .. i : l[j].key = k}
    IN  IF W = {} THEN Nil ELSE Stored(l[CHOOSE j \in W : \A h \in W : h <= j])

LEMMA ValueAtIs ==
  ASSUME NEW l \in Seq(Commands), NEW i \in 0 .. Len(l), NEW k
  PROVE  \/ (\A j \in 1 .. i : l[j].key # k) /\ ValueAt(l, i, k) = Nil
         \/ \E j \in 1 .. i :
               /\ l[j].key = k /\ \A h \in 1 .. i : l[h].key = k => h <= j
               /\ ValueAt(l, i, k) = Stored(l[j])
<1> DEFINE W == {j \in 1 .. i : l[j].key = k}
           c == CHOOSE j \in W : \A h \in W : h <= j
<1>1. CASE W = {}
  BY <1>1 DEF ValueAt
<1>2. CASE W # {}
  <2>1. W \subseteq Nat /\ i \in Nat /\ \A m \in W : m <= i
    OBVIOUS
  <2>2. \E j \in W : \A h \in W : h <= j
    <3> HIDE DEF W
    <3> QED BY <1>2, <2>1, GreatestNatural
  <2>3. c \in W /\ \A h \in W : h <= c
    BY <2>2
  <2>4. ValueAt(l, i, k) = Stored(l[c])
    BY <1>2 DEF ValueAt
  <2> HIDE DEF c
  <2> QED BY <2>3, <2>4
<1> QED BY <1>1, <1>2

\* Two logs that agree on what is said of k up to i, whatever is beyond.
LEMMA ValueAtAgrees ==
  ASSUME NEW l \in Seq(Commands), NEW m \in Seq(Commands), NEW k,
         NEW i \in 0 .. Len(l), NEW j \in 0 .. Len(m),
         \A h \in 1 .. i : l[h].key = k => h \in 1 .. j /\ l[h] = m[h],
         \A h \in 1 .. j : m[h].key = k => h \in 1 .. i /\ l[h] = m[h]
  PROVE  ValueAt(l, i, k) = ValueAt(m, j, k)
<1>1. \/ (\A h \in 1 .. i : l[h].key # k) /\ ValueAt(l, i, k) = Nil
      \/ \E h \in 1 .. i :
            /\ l[h].key = k /\ \A g \in 1 .. i : l[g].key = k => g <= h
            /\ ValueAt(l, i, k) = Stored(l[h])
  BY ValueAtIs
<1>2. \/ (\A h \in 1 .. j : m[h].key # k) /\ ValueAt(m, j, k) = Nil
      \/ \E h \in 1 .. j :
            /\ m[h].key = k /\ \A g \in 1 .. j : m[g].key = k => g <= h
            /\ ValueAt(m, j, k) = Stored(m[h])
  BY ValueAtIs
<1>3. CASE \A h \in 1 .. i : l[h].key # k
  BY <1>1, <1>2, <1>3
<1>4. CASE \E h \in 1 .. i : l[h].key = k
  <2>1. PICK a \in 1 .. i : /\ l[a].key = k /\ \A g \in 1 .. i : l[g].key = k => g <= a
                            /\ ValueAt(l, i, k) = Stored(l[a])
    BY <1>1, <1>4
  <2>2. PICK b \in 1 .. j : /\ m[b].key = k /\ \A g \in 1 .. j : m[g].key = k => g <= b
                            /\ ValueAt(m, j, k) = Stored(m[b])
    BY <1>2, <2>1
  <2>3. a <= b /\ b <= a /\ a \in Nat /\ b \in Nat
    BY <2>1, <2>2
  <2>4. a = b
    BY <2>3
  <2> QED BY <2>1, <2>2, <2>4
<1> QED BY <1>3, <1>4

\* One more command changes its own key.
LEMMA ValueAtStep ==
  ASSUME NEW l \in Seq(Commands), NEW i \in Nat, i < Len(l), NEW k
  PROVE  ValueAt(l, i + 1, k) = IF l[i + 1].key = k THEN Stored(l[i + 1]) ELSE ValueAt(l, i, k)
<1>1. i \in 0 .. Len(l) /\ i + 1 \in 0 .. Len(l) /\ i + 1 \in 1 .. i + 1
  OBVIOUS
<1>2. CASE l[i + 1].key = k
  <2>1. PICK a \in 1 .. i + 1 : /\ l[a].key = k /\ \A g \in 1 .. i + 1 : l[g].key = k => g <= a
                                /\ ValueAt(l, i + 1, k) = Stored(l[a])
    BY <1>1, <1>2, ValueAtIs
  <2>2. a = i + 1
    BY <1>1, <1>2, <2>1
  <2> QED BY <1>2, <2>1, <2>2
<1>3. CASE l[i + 1].key # k
  <2>1. \A h \in 1 .. i + 1 : l[h].key = k => h \in 1 .. i
    BY <1>3
  <2>2. ValueAt(l, i + 1, k) = ValueAt(l, i, k)
    BY <1>1, <2>1, ValueAtAgrees
  <2> QED BY <1>3, <2>2
<1> QED BY <1>2, <1>3

\* Commands committed later do not matter.
LEMMA ValueAtAppend ==
  ASSUME NEW l \in Seq(Commands), NEW c \in Commands, NEW i \in 0 .. Len(l), NEW k
  PROVE  ValueAt(Append(l, c), i, k) = ValueAt(l, i, k)
<1> DEFINE m == Append(l, c)
<1>1. m \in Seq(Commands) /\ Len(m) = Len(l) + 1 /\ \A h \in 1 .. Len(l) : m[h] = l[h]
  OBVIOUS
<1> HIDE DEF m
<1>2. i \in 0 .. Len(m) /\ \A h \in 1 .. i : h \in 1 .. i /\ m[h] = l[h]
  BY <1>1
<1>3. ValueAt(m, i, k) = ValueAt(l, i, k)
  BY <1>1, <1>2, ValueAtAgrees
<1> QED BY <1>3 DEF m

-----------------------------------------------------------------------------
(* The inductive invariant *)

\* The cell c of k has the value of one moment between entry lo and entry hi, or
\* is a tombstone of an entry after lo that recovery made a zero-length value.
ValueIn(l, k, c, lo, hi) == \E i \in lo .. hi : c = ValueAt(l, i, k)

CellOK(l, k, c, lo, hi) ==
    \/ ValueIn(l, k, c, lo, hi)
    \/ c = Empty /\ \E i \in lo + 1 .. hi : l[i].key = k /\ Stored(l[i]) = Nil

Types ==
    /\ log \in Seq(Commands) /\ up \in [Nodes -> BOOLEAN]
    /\ engine \in [Nodes -> Answers] /\ shut \in [Nodes -> {"open", "closing", "closed"}]
    /\ applied \in [Nodes -> Nat] /\ reach \in [Nodes -> Nat]
    /\ merged \in [Nodes -> SUBSET Keys] /\ lost \in [Nodes -> SUBSET Keys]
    /\ snapshot \in [Nodes -> Snapshots]
    /\ persisting \in [Nodes -> Snapshots \cup {None}]
    /\ restoring \in [Nodes -> Restorations \cup {None}]

\* A snapshot is of committed entries; a key it does not lack is no further
\* behind than its index.
SnapshotOK(l, s) ==
    /\ s.index <= s.reach /\ s.reach <= Len(l)
    /\ \A k \in Keys : ValueIn(l, k, s.state[k], IF k \in s.lacks THEN 0 ELSE s.index, s.reach)

\* What a Restore under way has done so far: after the Purge the engine has of
\* each key that is not to come, and that nothing has taken back since, what the
\* snapshot says, and nothing of later entries.
RestoreOK(n) ==
    LET r == restoring[n]
    IN  /\ SnapshotOK(log, r.from) /\ applied[n] <= r.from.index
        /\ ~r.purged => r.left = {k \in Keys : r.from.state[k] # Nil}
        /\ r.purged =>
             /\ shut[n] = "open" /\ reach[n] = r.from.reach /\ r.from.lacks \subseteq lost[n]
             /\ \A k \in Keys : k \in r.left \/ k \in lost[n] \/ engine[n][k] = r.from.state[k]

Bounds(n) == applied[n] <= reach[n] /\ reach[n] <= Len(log)

ProcessOK(n) ==
    /\ ~up[n] => /\ persisting[n] = None /\ restoring[n] = None
                 /\ applied[n] = 0 /\ shut[n] = "open"

SavedOK(n) ==
    /\ SnapshotOK(log, snapshot[n])
    /\ persisting[n] # None => SnapshotOK(log, persisting[n])

CellsOK(n) == \A k \in Keys : CellOK(log, k, engine[n][k], Floor(n, k), reach[n])

NodeOK(n) ==
    /\ Bounds(n) /\ ProcessOK(n) /\ SavedOK(n) /\ CellsOK(n)
    /\ restoring[n] # None => RestoreOK(n)

ReplicaInv == Types /\ \A n \in Nodes : NodeOK(n)

-----------------------------------------------------------------------------
(* Cells *)

LEMMA CellWiden ==
  ASSUME NEW l, NEW k, NEW c, NEW lo \in Nat, NEW hi \in Nat, NEW low \in Nat, NEW high \in Nat,
         low <= lo, hi <= high, CellOK(l, k, c, lo, hi)
  PROVE  CellOK(l, k, c, low, high)
<1>1. lo .. hi \subseteq low .. high /\ lo + 1 .. hi \subseteq low + 1 .. high
  OBVIOUS
<1> QED BY <1>1 DEF CellOK, ValueIn

LEMMA ValueAppend ==
  ASSUME NEW l \in Seq(Commands), NEW a \in Commands, NEW k, NEW c, NEW lo \in Nat, NEW hi \in Nat,
         hi <= Len(l), ValueIn(l, k, c, lo, hi)
  PROVE  ValueIn(Append(l, a), k, c, lo, hi)
<1>1. PICK i \in lo .. hi : c = ValueAt(l, i, k)
  BY DEF ValueIn
<1>2. i \in 0 .. Len(l)
  OBVIOUS
<1>3. ValueAt(Append(l, a), i, k) = ValueAt(l, i, k)
  BY <1>2, ValueAtAppend
<1> QED BY <1>1, <1>3 DEF ValueIn

LEMMA CellAppend ==
  ASSUME NEW l \in Seq(Commands), NEW a \in Commands, NEW k, NEW c, NEW lo \in Nat, NEW hi \in Nat,
         hi <= Len(l), CellOK(l, k, c, lo, hi)
  PROVE  CellOK(Append(l, a), k, c, lo, hi)
<1>1. CASE ValueIn(l, k, c, lo, hi)
  BY <1>1, ValueAppend DEF CellOK
<1>2. CASE c = Empty /\ \E i \in lo + 1 .. hi : l[i].key = k /\ Stored(l[i]) = Nil
  <2>1. PICK i \in lo + 1 .. hi : l[i].key = k /\ Stored(l[i]) = Nil
    BY <1>2
  <2>2. i \in 1 .. Len(l)
    OBVIOUS
  <2>3. Append(l, a)[i] = l[i]
    BY <2>2
  <2> QED BY <1>2, <2>1, <2>3 DEF CellOK
<1> QED BY <1>1, <1>2 DEF CellOK

LEMMA SnapshotAppend ==
  ASSUME NEW l \in Seq(Commands), NEW c \in Commands, NEW s \in Snapshots, SnapshotOK(l, s)
  PROVE  SnapshotOK(Append(l, c), s)
<1>1. s.index \in Nat /\ s.reach \in Nat /\ Len(Append(l, c)) = Len(l) + 1 /\ Len(l) \in Nat
  BY DEF Snapshots
<1>2. ASSUME NEW k \in Keys
      PROVE  ValueIn(Append(l, c), k, s.state[k], IF k \in s.lacks THEN 0 ELSE s.index, s.reach)
  <2>1. (IF k \in s.lacks THEN 0 ELSE s.index) \in Nat
    BY <1>1
  <2> QED BY <1>1, <2>1, ValueAppend DEF SnapshotOK
<1> QED BY <1>1, <1>2 DEF SnapshotOK

\* An entry of another key takes the floor one further.
LEMMA CellStep ==
  ASSUME NEW l \in Seq(Commands), NEW i \in Nat, NEW hi \in Nat, i < Len(l), i <= hi,
         NEW k, NEW c, l[i + 1].key # k, CellOK(l, k, c, i, hi)
  PROVE  CellOK(l, k, c, i + 1, Larger(hi, i + 1))
<1> DEFINE top == Larger(hi, i + 1)
<1>1. top \in Nat /\ i + 1 <= top /\ hi <= top
  BY DEF Larger
<1> HIDE DEF top
<1>2. i + 1 \in i + 1 .. top /\ \A j \in i .. hi : j = i \/ j \in i + 1 .. top
  BY <1>1
<1>3. ValueAt(l, i + 1, k) = ValueAt(l, i, k)
  BY ValueAtStep
<1>4. CASE ValueIn(l, k, c, i, hi)
  <2>1. PICK j \in i .. hi : c = ValueAt(l, j, k)
    BY <1>4 DEF ValueIn
  <2>2. CASE j = i
    BY <1>2, <1>3, <2>1, <2>2 DEF CellOK, ValueIn, top
  <2>3. CASE j # i
    BY <1>2, <2>1, <2>3 DEF CellOK, ValueIn, top
  <2> QED BY <2>2, <2>3
<1>5. CASE c = Empty /\ \E j \in i + 1 .. hi : l[j].key = k /\ Stored(l[j]) = Nil
  <2>1. PICK j \in i + 1 .. hi : l[j].key = k /\ Stored(l[j]) = Nil
    BY <1>5
  <2>2. j \in i + 1 + 1 .. top
    BY <1>1, <2>1
  <2> QED BY <1>5, <2>1, <2>2 DEF CellOK, top
<1> QED BY <1>4, <1>5 DEF CellOK

\* What ScanAll makes of a cell.
LEMMA CellScanned ==
  ASSUME NEW l \in Seq(Commands), NEW k, NEW c, NEW lo \in Nat, NEW hi \in Nat, hi <= Len(l),
         CellOK(l, k, c, lo, hi)
  PROVE  ValueIn(l, k, IF c = Empty THEN Nil ELSE c, lo, hi)
<1>1. CASE c = Empty /\ \E i \in lo + 1 .. hi : l[i].key = k /\ Stored(l[i]) = Nil
  <2>1. PICK i \in lo + 1 .. hi : l[i].key = k /\ Stored(l[i]) = Nil
    BY <1>1
  <2>2. i - 1 \in Nat /\ i - 1 < Len(l) /\ i - 1 + 1 = i /\ i \in lo .. hi
    BY <2>1
  <2>3. ValueAt(l, i, k) = Nil
    BY <2>1, <2>2, ValueAtStep
  <2> QED BY <1>1, <2>2, <2>3 DEF ValueIn
<1>2. CASE ValueIn(l, k, c, lo, hi)
  <2>1. PICK i \in lo .. hi : c = ValueAt(l, i, k)
    BY <1>2 DEF ValueIn
  <2>2. i \in 0 .. Len(l)
    OBVIOUS
  <2>3. ValueAt(l, i, k) # Empty
    <3>1. \A j \in 1 .. i : Stored(l[j]) # Empty
      BY <2>2, ReplicaAssumption DEF Stored
    <3> QED BY <2>2, <3>1, ValueAtIs, ReplicaAssumption
  <2> QED BY <1>2, <2>1, <2>3
<1> QED BY <1>1, <1>2 DEF CellOK

\* Nothing at all is the state before the first entry.
LEMMA NilIsFirst ==
  ASSUME NEW l, NEW k, NEW hi \in Nat
  PROVE  ValueIn(l, k, Nil, 0, hi)
<1>1. ValueAt(l, 0, k) = Nil /\ 0 \in 0 .. hi
  BY DEF ValueAt
<1> QED BY <1>1 DEF ValueIn

LEMMA HeldIs ==
  ASSUME Types, NEW n \in Nodes, NEW k \in Keys, NEW c \in Held(n, k)
  PROVE  ValueIn(log, k, c, 0, reach[n])
<1>1. PICK i \in 0 .. reach[n] : c = StateAt(i)[k]
  BY DEF Held
<1>2. StateAt(i)[k] = ValueAt(log, i, k)
  BY DEF StateAt, ValueAt
<1> QED BY <1>1, <1>2 DEF ValueIn

LEMMA FloorFacts ==
  ASSUME Types, NEW n \in Nodes, NEW k \in Keys
  PROVE  Floor(n, k) \in Nat /\ Floor(n, k) <= applied[n] /\ 0 <= Floor(n, k)
         /\ applied[n] \in Nat /\ reach[n] \in Nat
BY DEF Floor, Types

-----------------------------------------------------------------------------
(* Steps *)

\* Nothing of node m changes.
Same(m) ==
    /\ log' = log /\ up'[m] = up[m] /\ applied'[m] = applied[m] /\ engine'[m] = engine[m]
    /\ shut'[m] = shut[m] /\ persisting'[m] = persisting[m] /\ snapshot'[m] = snapshot[m]
    /\ restoring'[m] = restoring[m] /\ reach'[m] = reach[m] /\ lost'[m] = lost[m]

LEMMA SameKeepsNodeOK ==
  ASSUME NEW m \in Nodes, NodeOK(m), Same(m)
  PROVE  NodeOK(m)'
BY DEF NodeOK, Same, Bounds, ProcessOK, SavedOK, CellsOK, RestoreOK, Floor, Replacing

Others(n) == \A m \in Nodes \ {n} : Same(m)

LEMMA ApplyKeeps ==
  ASSUME Types, NEW n \in Nodes, NodeOK(n), Apply(n)
  PROVE  Types' /\ NodeOK(n)' /\ Others(n)
<1> DEFINE i == applied[n]
           c == log[i + 1]
           top == Larger(reach[n], i + 1)
<1>1. i \in Nat /\ i < Len(log) /\ c \in Commands /\ reach[n] \in Nat /\ log \in Seq(Commands)
  BY DEF Types, Apply
<1>2. c.key \in Keys /\ Stored(c) \in Values \cup {Nil}
  BY <1>1 DEF Stored, Commands
<1>3. /\ i <= reach[n] /\ reach[n] <= Len(log) /\ top \in Nat /\ i + 1 <= top /\ top <= Len(log)
      /\ reach[n] <= top
  BY <1>1 DEF NodeOK, Bounds, Larger
<1>4. /\ applied' = [applied EXCEPT ![n] = i + 1]
      /\ reach' = [reach EXCEPT ![n] = top]
      /\ UNCHANGED <<log, up, shut, persisting, snapshot, restoring>>
      /\ restoring[n] = None
  BY DEF Apply
<1>5. \/ /\ shut[n] = "open"
         /\ engine' = [engine EXCEPT ![n] = [engine[n] EXCEPT ![c.key] = Stored(c)]]
         /\ merged' = [merged EXCEPT ![n] = merged[n] \ {c.key}]
         /\ lost' = [lost EXCEPT ![n] = lost[n] \ {c.key}]
      \/ lost' = [lost EXCEPT ![n] = lost[n] \cup {c.key}] /\ engine' = engine /\ merged' = merged
  BY DEF Apply
<1>6. [engine[n] EXCEPT ![c.key] = Stored(c)] \in Answers
  BY <1>2 DEF Types, Answers
<1>7. \A k \in Keys : ValueAt(log, i + 1, k) = IF c.key = k THEN Stored(c) ELSE ValueAt(log, i, k)
  BY <1>1, ValueAtStep
<1>8. ASSUME NEW k \in Keys, c.key # k, CellOK(log, k, engine[n][k], i, reach[n])
      PROVE  CellOK(log, k, engine[n][k], i + 1, top)
  BY <1>1, <1>3, <1>8, CellStep
<1>9. \A k \in Keys : CellOK(log, k, engine[n][k], IF k \in lost[n] THEN 0 ELSE i, reach[n])
  BY <1>4 DEF NodeOK, CellsOK, Floor, Replacing
<1> HIDE DEF i, c, top
<1>10. Types'
  <2>1. engine' \in [Nodes -> Answers]
    BY <1>5, <1>6 DEF Types
  <2>2. lost' \in [Nodes -> SUBSET Keys] /\ merged' \in [Nodes -> SUBSET Keys]
    <3>1. /\ lost[n] \ {c.key} \in SUBSET Keys /\ lost[n] \cup {c.key} \in SUBSET Keys
          /\ merged[n] \ {c.key} \in SUBSET Keys
      BY <1>2 DEF Types
    <3>2. /\ lost \in [Nodes -> SUBSET Keys] /\ merged \in [Nodes -> SUBSET Keys]
          /\ \/ lost' = [lost EXCEPT ![n] = lost[n] \ {c.key}]
             \/ lost' = [lost EXCEPT ![n] = lost[n] \cup {c.key}]
          /\ merged' = [merged EXCEPT ![n] = merged[n] \ {c.key}] \/ merged' = merged
      BY <1>5 DEF Types
    <3>3. lost' \in [Nodes -> SUBSET Keys]
      BY <3>1, <3>2
    <3>4. merged' \in [Nodes -> SUBSET Keys]
      BY <3>1, <3>2
    <3> QED BY <3>3, <3>4
  <2>3. i + 1 \in Nat
    BY <1>1
  <2>4. applied' \in [Nodes -> Nat] /\ reach' \in [Nodes -> Nat]
    BY <1>3, <1>4, <2>3 DEF Types
  <2> QED BY <1>4, <2>1, <2>2, <2>4 DEF Types
<1>11. Others(n)
  BY <1>4, <1>5 DEF Types, Others, Same
<1>12. applied'[n] = i + 1 /\ reach'[n] = top /\ restoring'[n] = None
  BY <1>4 DEF Types
<1>13. ASSUME NEW k \in Keys
       PROVE  CellOK(log, k, engine'[n][k], IF k \in lost'[n] THEN 0 ELSE i + 1, top)
  <2>1. CASE k \in lost[n] /\ k # c.key
    <3>1. k \in lost'[n] /\ engine'[n][k] = engine[n][k]
      BY <1>2, <1>5, <2>1 DEF Types, Answers
    <3> QED BY <1>1, <1>3, <1>9, <2>1, <3>1, CellWiden
  <2>2. CASE k \notin lost[n] /\ k # c.key
    <3>1. k \notin lost'[n] /\ engine'[n][k] = engine[n][k]
      BY <1>2, <1>5, <2>2 DEF Types, Answers
    <3> QED BY <1>8, <1>9, <2>2, <3>1
  <2>3. CASE k = c.key /\ k \notin lost'[n]
    <3>1. engine'[n][k] = Stored(c)
      BY <1>2, <1>5, <2>3 DEF Types, Answers
    <3>2. i + 1 \in i + 1 .. top
      BY <1>1, <1>3
    <3> QED BY <1>7, <2>3, <3>1, <3>2 DEF CellOK, ValueIn
  <2>4. CASE k = c.key /\ k \in lost'[n]
    <3>1. engine'[n][k] = engine[n][k]
      BY <1>2, <1>5, <2>4 DEF Types
    <3>2. (IF k \in lost[n] THEN 0 ELSE i) \in Nat
      BY <1>1
    <3> QED BY <1>1, <1>3, <1>9, <2>4, <3>1, <3>2, CellWiden
  <2> QED BY <2>1, <2>2, <2>3, <2>4
<1>14. NodeOK(n)'
  <2>1. Bounds(n)'
    BY <1>3, <1>4, <1>12 DEF Bounds
  <2>2. ProcessOK(n)'
    BY <1>4, <1>5 DEF NodeOK, ProcessOK, Apply
  <2>3. SavedOK(n)'
    BY <1>4 DEF NodeOK, SavedOK
  <2>4. CellsOK(n)'
    BY <1>4, <1>12, <1>13 DEF CellsOK, Floor, Replacing
  <2> QED BY <1>12, <2>1, <2>2, <2>3, <2>4 DEF NodeOK
<1> QED BY <1>10, <1>11, <1>14

\* A step inside the engine: no cell that is not taken back gets worse.
LEMMA EngineKeeps ==
  ASSUME Types, NEW n \in Nodes, NodeOK(n), NEW e \in Answers, NEW K \in SUBSET Keys,
         UNCHANGED <<log, up, applied, shut, persisting, snapshot, restoring, reach>>,
         merged' \in [Nodes -> SUBSET Keys],
         engine' = [engine EXCEPT ![n] = e], lost' = [lost EXCEPT ![n] = lost[n] \cup K],
         \A k \in K : ValueIn(log, k, e[k], 0, reach[n]),
         \A k \in Keys \ K : e[k] = IF engine[n][k] = Empty /\ e[k] # Empty THEN Nil ELSE engine[n][k]
  PROVE  Types' /\ NodeOK(n)' /\ Others(n)
<1>1. engine'[n] = e /\ lost'[n] = lost[n] \cup K
  BY DEF Types
<1>2. Types'
  BY DEF Types
<1>3. Others(n)
  BY DEF Types, Others, Same
<1>4. log \in Seq(Commands) /\ reach[n] \in Nat /\ reach[n] <= Len(log) /\ applied[n] \in Nat
  BY DEF Types, NodeOK, Bounds
<1>5. ASSUME NEW k \in Keys PROVE CellOK(log, k, e[k], Floor(n, k)', reach[n])
  <2>1. CASE k \in K
    BY <1>1, <2>1 DEF Floor, CellOK
  <2>2. CASE k \notin K
    <3>1. Floor(n, k)' = Floor(n, k) /\ Floor(n, k) \in Nat
      BY <1>1, <2>2, FloorFacts DEF Floor, Replacing
    <3>2. CellOK(log, k, engine[n][k], Floor(n, k), reach[n])
      BY DEF NodeOK, CellsOK
    <3>3. CASE e[k] = engine[n][k]
      BY <3>1, <3>2, <3>3
    <3>4. CASE e[k] # engine[n][k]
      <4>1. e[k] = Nil /\ engine[n][k] = Empty
        BY <2>2, <3>4
      <4>2. ValueIn(log, k, Nil, Floor(n, k), reach[n])
        BY <1>4, <3>1, <3>2, <4>1, CellScanned
      <4> QED BY <3>1, <4>1, <4>2 DEF CellOK
    <3> QED BY <3>3, <3>4
  <2> QED BY <2>1, <2>2
<1>6. CellsOK(n)'
  BY <1>1, <1>5 DEF CellsOK
<1>7. restoring'[n] # None => RestoreOK(n)'
  <2> SUFFICES ASSUME restoring[n] # None PROVE RestoreOK(n)'
    OBVIOUS
  <2>1. RestoreOK(n) /\ restoring[n] \in Restorations
    BY DEF NodeOK, Types
  <2>2. restoring[n].from.state \in Store
    BY <2>1 DEF Restorations, Snapshots
  <2>3. restoring[n].purged =>
          \A k \in Keys : k \in restoring[n].left \/ k \in lost'[n] \/ e[k] = restoring[n].from.state[k]
    <3> SUFFICES ASSUME restoring[n].purged, NEW k \in Keys,
                        k \notin restoring[n].left, k \notin lost'[n]
                 PROVE  e[k] = restoring[n].from.state[k]
      OBVIOUS
    <3>1. engine[n][k] = restoring[n].from.state[k] /\ k \notin K
      BY <1>1, <2>1 DEF RestoreOK
    <3>2. engine[n][k] # Empty
      BY <2>2, <3>1, ReplicaAssumption DEF Store
    <3> QED BY <3>1, <3>2
  <2> QED BY <1>1, <2>1, <2>3 DEF RestoreOK
<1>8. Bounds(n)' /\ ProcessOK(n)' /\ SavedOK(n)'
  BY DEF NodeOK, Bounds, ProcessOK, SavedOK
<1> QED BY <1>2, <1>3, <1>6, <1>7, <1>8 DEF NodeOK

LEMMA SettleKeeps ==
  ASSUME Types, NEW n \in Nodes, NodeOK(n), Settle(n)
  PROVE  Types' /\ NodeOK(n)' /\ Others(n)
<1>1. PICK K \in SUBSET {k \in Keys : engine[n][k] = Empty} :
         engine' = [engine EXCEPT ![n] = [k \in Keys |-> IF k \in K THEN Nil ELSE engine[n][k]]]
  BY DEF Settle
<1> DEFINE e == [k \in Keys |-> IF k \in K THEN Nil ELSE engine[n][k]]
<1>2. e \in Answers
  BY DEF Types, Answers
<1>3. \A k \in Keys \ {} : e[k] = IF engine[n][k] = Empty /\ e[k] # Empty THEN Nil ELSE engine[n][k]
  OBVIOUS
<1>4. /\ merged' \in [Nodes -> SUBSET Keys]
      /\ lost' = [lost EXCEPT ![n] = lost[n] \cup {}]
      /\ UNCHANGED <<log, up, applied, shut, persisting, snapshot, restoring, reach>>
  BY DEF Settle, Types
<1>5. engine' = [engine EXCEPT ![n] = e] /\ {} \in SUBSET Keys
  BY <1>1
<1> HIDE DEF e
<1> QED BY <1>2, <1>3, <1>4, <1>5, EngineKeeps

LEMMA CompactKeeps ==
  ASSUME Types, NEW n \in Nodes, NodeOK(n), Compact(n)
  PROVE  Types' /\ NodeOK(n)' /\ Others(n)
<1>1. UNCHANGED <<log, up, applied, engine, shut, persisting, snapshot, restoring, reach, lost>>
      /\ merged' \in [Nodes -> SUBSET Keys]
  BY DEF Compact, Types
<1>2. Types'
  BY <1>1 DEF Types
<1>3. \A m \in Nodes : Same(m)
  BY <1>1 DEF Same
<1> QED BY <1>2, <1>3, SameKeepsNodeOK DEF Others

LEMMA RevertKeeps ==
  ASSUME Types, NEW n \in Nodes, NodeOK(n), Revert(n)
  PROVE  Types' /\ NodeOK(n)' /\ Others(n)
<1>1. PICK K \in SUBSET Keys, s \in Store :
         /\ \A k \in K : s[k] \in Held(n, k)
         /\ engine' = [engine EXCEPT ![n] = [k \in Keys |-> IF k \in K THEN s[k] ELSE engine[n][k]]]
         /\ lost' = [lost EXCEPT ![n] = lost[n] \cup K]
  BY DEF Revert
<1> DEFINE e == [k \in Keys |-> IF k \in K THEN s[k] ELSE engine[n][k]]
<1>2. e \in Answers
  BY DEF Types, Answers, Store
<1>3. \A k \in Keys \ K : e[k] = IF engine[n][k] = Empty /\ e[k] # Empty THEN Nil ELSE engine[n][k]
  OBVIOUS
<1>4. ASSUME NEW k \in K PROVE ValueIn(log, k, e[k], 0, reach[n])
  <2>1. e[k] = s[k] /\ s[k] \in Held(n, k) /\ k \in Keys
    BY <1>1
  <2> QED BY <2>1, HeldIs
<1>5. /\ merged' \in [Nodes -> SUBSET Keys]
      /\ UNCHANGED <<log, up, applied, shut, persisting, snapshot, restoring, reach>>
  BY DEF Revert, Types
<1>6. engine' = [engine EXCEPT ![n] = e]
  BY <1>1
<1> HIDE DEF e
<1> QED BY <1>1, <1>2, <1>3, <1>4, <1>5, <1>6, EngineKeeps

LEMMA SnapshotKeeps ==
  ASSUME Types, NEW n \in Nodes, NodeOK(n), Snapshot(n)
  PROVE  Types' /\ NodeOK(n)' /\ Others(n)
<1>1. PICK L \in SUBSET Keys, state \in Store :
         /\ \A k \in Keys : IF k \in L THEN state[k] \in Held(n, k)
                            ELSE state[k] = IF engine[n][k] = Empty THEN Nil ELSE engine[n][k]
         /\ persisting' = [persisting EXCEPT ![n] =
               [index |-> applied[n], state |-> state, reach |-> reach[n], lacks |-> L \cup lost[n]]]
  BY DEF Snapshot
<1> DEFINE s == [index |-> applied[n], state |-> state, reach |-> reach[n], lacks |-> L \cup lost[n]]
<1>2. /\ UNCHANGED <<log, up, applied, engine, shut, merged, snapshot, restoring, reach, lost>>
      /\ restoring[n] = None /\ up[n]
  BY DEF Snapshot
<1>3. s \in Snapshots /\ applied[n] \in Nat /\ reach[n] \in Nat /\ log \in Seq(Commands)
  BY DEF Types, Snapshots
<1>4. applied[n] <= reach[n] /\ reach[n] <= Len(log)
  BY DEF NodeOK, Bounds
<1>5. ASSUME NEW k \in Keys
      PROVE  ValueIn(log, k, state[k], IF k \in L \cup lost[n] THEN 0 ELSE applied[n], reach[n])
  <2>1. CASE k \in L
    BY <1>1, <2>1, HeldIs
  <2>2. CASE k \notin L
    <3>1. Floor(n, k) = IF k \in L \cup lost[n] THEN 0 ELSE applied[n]
      BY <1>2, <2>2 DEF Floor, Replacing
    <3>2. CellOK(log, k, engine[n][k], Floor(n, k), reach[n]) /\ Floor(n, k) \in Nat
      BY FloorFacts DEF NodeOK, CellsOK
    <3> QED BY <1>1, <1>3, <1>4, <2>2, <3>1, <3>2, CellScanned
  <2> QED BY <2>1, <2>2
<1>6. SnapshotOK(log, s)
  BY <1>4, <1>5 DEF SnapshotOK
<1> HIDE DEF s
<1>7. persisting' = [persisting EXCEPT ![n] = s]
  BY <1>1 DEF s
<1>8. Types'
  BY <1>2, <1>3, <1>7 DEF Types
<1>9. Others(n)
  BY <1>2, <1>7 DEF Types, Others, Same
<1>10. persisting'[n] = s
  BY <1>7 DEF Types
<1>11. Bounds(n)' /\ ProcessOK(n)' /\ SavedOK(n)' /\ CellsOK(n)'
  BY <1>2, <1>6, <1>10 DEF NodeOK, Bounds, ProcessOK, SavedOK, CellsOK, Floor, Replacing
<1> QED BY <1>2, <1>8, <1>9, <1>11 DEF NodeOK

LEMMA PersistKeeps ==
  ASSUME Types, NEW n \in Nodes, NodeOK(n), Persist(n)
  PROVE  Types' /\ NodeOK(n)' /\ Others(n)
<1>1. /\ persisting' = [persisting EXCEPT ![n] = None] /\ persisting[n] # None
      /\ UNCHANGED <<log, up, applied, engine, shut, merged, restoring, reach, lost>>
  BY DEF Persist
<1>2. persisting[n] \in Snapshots /\ snapshot[n] \in Snapshots
  BY <1>1 DEF Types
<1>3. PICK s \in {persisting[n], snapshot[n]} : snapshot' = [snapshot EXCEPT ![n] = s]
  BY DEF Persist, Retain, Types
<1>4. Types'
  BY <1>1, <1>2, <1>3 DEF Types
<1>5. Others(n)
  BY <1>1, <1>3 DEF Types, Others, Same
<1>6. persisting'[n] = None /\ snapshot'[n] = s /\ SnapshotOK(log, s)
  BY <1>1, <1>3 DEF Types, NodeOK, SavedOK
<1>7. SavedOK(n)' /\ Bounds(n)' /\ ProcessOK(n)' /\ CellsOK(n)'
  BY <1>1, <1>6 DEF NodeOK, Bounds, ProcessOK, SavedOK, CellsOK, Floor, Replacing
<1>8. restoring'[n] # None => RestoreOK(n)'
  BY <1>1 DEF NodeOK, RestoreOK
<1> QED BY <1>4, <1>5, <1>7, <1>8 DEF NodeOK

LEMMA RestorationFacts ==
  ASSUME NEW s \in Snapshots, NEW b \in BOOLEAN
  PROVE  /\ Restoration(s, b) \in Restorations /\ ~Restoration(s, b).purged
         /\ Restoration(s, b).from = s
         /\ Restoration(s, b).left = {k \in Keys : s.state[k] # Nil}
         /\ Restoration(s, b) # None
<1> DEFINE r == Restoration(s, b)
<1>1. r = [from |-> s, purged |-> FALSE, left |-> {k \in Keys : s.state[k] # Nil}, booting |-> b]
  BY DEF Restoration
<1>2. r \in Restorations /\ ~r.purged /\ r.from = s /\ r.left = {k \in Keys : s.state[k] # Nil}
  BY <1>1 DEF Restorations
<1> HIDE DEF r
<1>3. r # None
  BY <1>2, ReplicaAssumption
<1> QED BY <1>2, <1>3 DEF r

LEMMA EmptyIsStore == EmptyStore \in Store /\ EmptyStore \in Answers
BY DEF EmptyStore, Store, Answers

\* Before the first entry no key was there.
LEMMA EmptyCells ==
  ASSUME NEW l, NEW k \in Keys, NEW hi \in Nat
  PROVE  CellOK(l, k, EmptyStore[k], 0, hi)
<1>1. EmptyStore[k] = Nil
  BY DEF EmptyStore
<1> QED BY <1>1, NilIsFirst DEF CellOK

LEMMA InstallSnapshotKeeps ==
  ASSUME Types, NEW n \in Nodes, NEW m \in Nodes, NodeOK(n), NodeOK(m), InstallSnapshot(n, m)
  PROVE  Types' /\ NodeOK(n)' /\ Others(n)
<1> DEFINE r == Restoration(snapshot[m], FALSE)
<1>1. /\ UNCHANGED <<log, up, applied, engine, shut, merged, persisting, reach, lost>>
      /\ restoring[n] = None /\ up[n] /\ snapshot[m].index > applied[n]
      /\ restoring' = [restoring EXCEPT ![n] = r]
  BY DEF InstallSnapshot
<1>2. snapshot[n] \in Snapshots /\ snapshot[m] \in Snapshots /\ snapshot[m].index \in Nat
      /\ applied[n] \in Nat
  BY DEF Types, Snapshots
<1>3. PICK s \in {snapshot[n], snapshot[m]} : snapshot' = [snapshot EXCEPT ![n] = s]
  BY DEF InstallSnapshot, Retain
<1>4. /\ r \in Restorations /\ ~r.purged /\ r.from = snapshot[m] /\ r # None
      /\ r.left = {k \in Keys : snapshot[m].state[k] # Nil}
  BY <1>2, RestorationFacts
<1> HIDE DEF r
<1>5. Types'
  BY <1>1, <1>2, <1>3, <1>4 DEF Types
<1>6. Others(n)
  BY <1>1, <1>3 DEF Types, Others, Same
<1>7. restoring'[n] = r /\ snapshot'[n] = s /\ SnapshotOK(log, s) /\ SnapshotOK(log, snapshot[m])
  BY <1>1, <1>3 DEF Types, NodeOK, SavedOK
<1>8. RestoreOK(n)'
  BY <1>1, <1>2, <1>4, <1>7 DEF RestoreOK
<1>9. CellsOK(n)'
  <2> SUFFICES ASSUME NEW k \in Keys PROVE CellOK(log, k, engine[n][k], Floor(n, k)', reach[n])
    BY <1>1 DEF CellsOK
  <2>1. /\ CellOK(log, k, engine[n][k], Floor(n, k), reach[n]) /\ Floor(n, k) \in Nat
        /\ reach[n] \in Nat
    BY FloorFacts DEF NodeOK, CellsOK
  <2>2. Floor(n, k)' \in {0, Floor(n, k)}
    BY <1>1, <1>4, <1>7 DEF Floor, Replacing
  <2> QED BY <2>1, <2>2, CellWiden
<1>10. SavedOK(n)' /\ Bounds(n)' /\ ProcessOK(n)'
  BY <1>1, <1>7 DEF NodeOK, Bounds, ProcessOK, SavedOK
<1> QED BY <1>5, <1>6, <1>8, <1>9, <1>10 DEF NodeOK

LEMMA PurgeCloseKeeps ==
  ASSUME Types, NEW n \in Nodes, NodeOK(n), PurgeClose(n)
  PROVE  Types' /\ NodeOK(n)' /\ Others(n)
<1>1. PICK K \in SUBSET Keys :
         engine' = [engine EXCEPT ![n] = [k \in Keys |-> IF k \in K THEN engine[n][k] ELSE Nil]]
  BY DEF PurgeClose
<1> DEFINE e == [k \in Keys |-> IF k \in K THEN engine[n][k] ELSE Nil]
<1>2. /\ UNCHANGED <<log, up, applied, merged, persisting, snapshot, restoring, reach, lost>>
      /\ up[n] /\ restoring[n] # None /\ ~restoring[n].purged
      /\ shut' = [shut EXCEPT ![n] = "closed"] /\ engine' = [engine EXCEPT ![n] = e]
  BY <1>1 DEF PurgeClose, Purging
<1>3. e \in Answers
  BY DEF Types, Answers
<1>4. ASSUME NEW k \in Keys PROVE CellOK(log, k, e[k], 0, reach[n])
  <2>1. reach[n] \in Nat
    BY DEF Types
  <2>2. CASE k \in K
    <3>1. CellOK(log, k, engine[n][k], Floor(n, k), reach[n]) /\ Floor(n, k) \in Nat
      BY FloorFacts DEF NodeOK, CellsOK
    <3> QED BY <2>1, <2>2, <3>1, CellWiden
  <2>3. CASE k \notin K
    BY <2>1, <2>3, EmptyCells DEF EmptyStore
  <2> QED BY <2>2, <2>3
<1> HIDE DEF e
<1>5. Types' /\ Others(n)
  BY <1>2, <1>3 DEF Types, Others, Same
<1>6. shut'[n] = "closed" /\ engine'[n] = e
  BY <1>2 DEF Types
<1>7. CellsOK(n)'
  <2>1. \A k \in Keys : Floor(n, k)' = 0
    BY <1>2, <1>6 DEF Floor, Replacing
  <2> QED BY <1>2, <1>4, <1>6, <2>1 DEF CellsOK
<1>8. RestoreOK(n)'
  BY <1>2 DEF NodeOK, RestoreOK
<1>9. SavedOK(n)' /\ Bounds(n)' /\ ProcessOK(n)'
  BY <1>2, <1>6 DEF NodeOK, Bounds, ProcessOK, SavedOK
<1> QED BY <1>5, <1>7, <1>8, <1>9 DEF NodeOK

LEMMA PurgeReopenKeeps ==
  ASSUME Types, NEW n \in Nodes, NodeOK(n), PurgeReopen(n)
  PROVE  Types' /\ NodeOK(n)' /\ Others(n)
<1> DEFINE r == restoring[n]
           q == [r EXCEPT !.purged = TRUE]
<1>1. /\ UNCHANGED <<log, up, applied, persisting, snapshot>>
      /\ up[n] /\ r # None /\ ~r.purged
      /\ shut' = [shut EXCEPT ![n] = "open"] /\ engine' = [engine EXCEPT ![n] = EmptyStore]
      /\ merged' = [merged EXCEPT ![n] = {}] /\ restoring' = [restoring EXCEPT ![n] = q]
      /\ reach' = [reach EXCEPT ![n] = r.from.reach] /\ lost' = [lost EXCEPT ![n] = r.from.lacks]
  BY DEF PurgeReopen, Purging
<1>2. /\ r \in Restorations /\ r.from \in Snapshots /\ r.from.reach \in Nat
      /\ r.from.index \in Nat /\ r.from.lacks \in SUBSET Keys /\ applied[n] \in Nat
      /\ Len(log) \in Nat
  BY <1>1 DEF Types, Restorations, Snapshots
<1>3. q \in Restorations /\ q.purged /\ q.from = r.from /\ q.left = r.left
  BY <1>2 DEF Restorations
<1>4. /\ SnapshotOK(log, r.from) /\ applied[n] <= r.from.index
      /\ r.left = {k \in Keys : r.from.state[k] # Nil}
  BY <1>1 DEF NodeOK, RestoreOK
<1> HIDE DEF q, r
<1>5. Types'
  BY <1>1, <1>2, <1>3, EmptyIsStore DEF Types
<1>6. Others(n)
  BY <1>1 DEF Types, Others, Same
<1>7. /\ shut'[n] = "open" /\ engine'[n] = EmptyStore /\ restoring'[n] = q
      /\ reach'[n] = r.from.reach /\ lost'[n] = r.from.lacks
  BY <1>1 DEF Types
<1>8. q # None
  BY <1>3, ReplicaAssumption
<1>9. CellsOK(n)'
  <2>1. \A k \in Keys : Floor(n, k)' = 0
    BY <1>3, <1>7, <1>8 DEF Floor, Replacing
  <2>2. \A k \in Keys : CellOK(log, k, EmptyStore[k], 0, r.from.reach)
    BY <1>2, EmptyCells
  <2>3. log' = log
    BY <1>1
  <2> QED BY <1>7, <2>1, <2>2, <2>3 DEF CellsOK
<1>10. RestoreOK(n)'
  BY <1>1, <1>3, <1>4, <1>7 DEF RestoreOK, EmptyStore
<1>11. Bounds(n)'
  BY <1>1, <1>2, <1>4, <1>7 DEF Bounds, SnapshotOK
<1>12. SavedOK(n)' /\ ProcessOK(n)'
  BY <1>1, <1>7 DEF NodeOK, ProcessOK, SavedOK
<1> QED BY <1>5, <1>6, <1>9, <1>10, <1>11, <1>12 DEF NodeOK

LEMMA RestorePutKeeps ==
  ASSUME Types, NEW n \in Nodes, NodeOK(n), RestorePut(n)
  PROVE  Types' /\ NodeOK(n)' /\ Others(n)
<1> DEFINE r == restoring[n]
<1>1. PICK k \in r.left :
         /\ engine' = [engine EXCEPT ![n] = [engine[n] EXCEPT ![k] = r.from.state[k]]]
         /\ restoring' = [restoring EXCEPT ![n] = [r EXCEPT !.left = r.left \ {k}]]
         /\ merged' = [merged EXCEPT ![n] = merged[n] \ {k}]
  BY DEF RestorePut
<1>2. /\ UNCHANGED <<log, up, applied, shut, persisting, snapshot, reach, lost>>
      /\ up[n] /\ r # None /\ r.purged
  BY DEF RestorePut
<1> DEFINE q == [r EXCEPT !.left = r.left \ {k}]
           e == [engine[n] EXCEPT ![k] = r.from.state[k]]
<1>3. /\ r \in Restorations /\ r.left \in SUBSET Keys /\ k \in Keys
      /\ r.from \in Snapshots /\ r.from.state \in Store /\ r.from.index \in Nat
      /\ r.from.reach \in Nat /\ reach[n] \in Nat /\ engine[n] \in Answers
  BY <1>1, <1>2 DEF Types, Restorations, Snapshots
<1>4. q \in Restorations /\ q.purged /\ q.from = r.from /\ q.left = r.left \ {k}
  BY <1>2, <1>3 DEF Restorations
<1>5. /\ e \in Answers /\ e[k] = r.from.state[k] /\ merged[n] \ {k} \in SUBSET Keys
      /\ \A j \in Keys \ {k} : e[j] = engine[n][j]
  BY <1>3 DEF Types, Answers, Store
<1>6. RestoreOK(n)
  BY <1>2 DEF NodeOK
<1>7. engine' = [engine EXCEPT ![n] = e] /\ restoring' = [restoring EXCEPT ![n] = q]
      /\ merged' = [merged EXCEPT ![n] = merged[n] \ {k}]
  BY <1>1
<1> HIDE DEF q, e
<1>8. Types'
  BY <1>2, <1>4, <1>5, <1>7 DEF Types
<1>9. Others(n)
  BY <1>2, <1>7 DEF Types, Others, Same
<1>10. engine'[n] = e /\ restoring'[n] = q /\ q # None
  BY <1>4, <1>7, ReplicaAssumption DEF Types
<1>11. \A j \in Keys : Floor(n, j)' = 0 /\ Floor(n, j) = 0
  BY <1>2, <1>4, <1>10 DEF Floor, Replacing
<1>12. ASSUME NEW j \in Keys PROVE CellOK(log, j, e[j], 0, reach[n])
  <2>1. CASE j # k
    BY <1>5, <1>11, <2>1 DEF NodeOK, CellsOK
  <2>2. CASE j = k
    <3>1. /\ ValueIn(log, k, r.from.state[k], IF k \in r.from.lacks THEN 0 ELSE r.from.index, reach[n])
          /\ (IF k \in r.from.lacks THEN 0 ELSE r.from.index) \in Nat
      BY <1>2, <1>3, <1>6 DEF RestoreOK, SnapshotOK
    <3>2. CellOK(log, k, e[k], IF k \in r.from.lacks THEN 0 ELSE r.from.index, reach[n])
      BY <1>5, <3>1 DEF CellOK
    <3> QED BY <1>3, <2>2, <3>1, <3>2, CellWiden
  <2> QED BY <2>1, <2>2
<1>13. CellsOK(n)'
  BY <1>2, <1>10, <1>11, <1>12 DEF CellsOK
<1>14. RestoreOK(n)'
  BY <1>2, <1>4, <1>5, <1>6, <1>10 DEF RestoreOK
<1>15. SavedOK(n)' /\ Bounds(n)'
  BY <1>2 DEF NodeOK, SavedOK, Bounds
<1>16. ProcessOK(n)'
  BY <1>2, <1>6 DEF NodeOK, ProcessOK, RestoreOK
<1> QED BY <1>8, <1>9, <1>13, <1>14, <1>15, <1>16 DEF NodeOK

\* What the end of a Restore, or its failure after the Purge, leaves behind.
LEMMA RestoredCells ==
  ASSUME Types, NEW n \in Nodes, NodeOK(n), restoring[n] # None, restoring[n].purged,
         NEW k \in Keys
  PROVE  /\ CellOK(log, k, engine[n][k], 0, reach[n])
         /\ k \in restoring[n].left \/ k \in lost[n]
            \/ CellOK(log, k, engine[n][k], restoring[n].from.index, reach[n])
<1> DEFINE r == restoring[n]
<1>1. RestoreOK(n)
  BY DEF NodeOK
<1>2. CellOK(log, k, engine[n][k], 0, reach[n])
  BY DEF NodeOK, CellsOK, Floor, Replacing
<1>3. ASSUME k \notin r.left, k \notin lost[n]
      PROVE  CellOK(log, k, engine[n][k], r.from.index, reach[n])
  <2>1. engine[n][k] = r.from.state[k] /\ reach[n] = r.from.reach /\ k \notin r.from.lacks
    BY <1>1, <1>3 DEF RestoreOK
  <2>2. ValueIn(log, k, r.from.state[k], r.from.index, r.from.reach)
    BY <1>1, <2>1 DEF RestoreOK, SnapshotOK
  <2> QED BY <2>1, <2>2 DEF CellOK
<1> QED BY <1>2, <1>3

LEMMA RestoreDoneKeeps ==
  ASSUME Types, NEW n \in Nodes, NodeOK(n), RestoreDone(n)
  PROVE  Types' /\ NodeOK(n)' /\ Others(n)
<1> DEFINE r == restoring[n]
<1>1. /\ UNCHANGED <<log, up, engine, shut, merged, persisting, snapshot, reach, lost>>
      /\ up[n] /\ r # None /\ r.purged /\ r.left = {}
      /\ applied' = [applied EXCEPT ![n] = r.from.index]
      /\ restoring' = [restoring EXCEPT ![n] = None]
  BY DEF RestoreDone
<1>2. r.from \in Snapshots /\ r.from.index \in Nat
  BY <1>1 DEF Types, Restorations, Snapshots
<1>3. RestoreOK(n)
  BY <1>1 DEF NodeOK
<1>4. Types'
  BY <1>1, <1>2 DEF Types
<1>5. Others(n)
  BY <1>1 DEF Types, Others, Same
<1>6. applied'[n] = r.from.index /\ restoring'[n] = None
  BY <1>1 DEF Types
<1>7. ASSUME NEW k \in Keys PROVE CellOK(log, k, engine[n][k], Floor(n, k)', reach[n])
  <2>1. Floor(n, k)' = IF k \in lost[n] THEN 0 ELSE r.from.index
    BY <1>1, <1>6 DEF Floor, Replacing
  <2> QED BY <1>1, <2>1, RestoredCells
<1>8. CellsOK(n)'
  BY <1>1, <1>7 DEF CellsOK
<1>9. Bounds(n)'
  BY <1>1, <1>3, <1>6 DEF Bounds, RestoreOK, SnapshotOK
<1>10. SavedOK(n)' /\ ProcessOK(n)'
  BY <1>1, <1>6 DEF NodeOK, SavedOK, ProcessOK
<1> QED BY <1>4, <1>5, <1>6, <1>8, <1>9, <1>10 DEF NodeOK

LEMMA StoppedKeeps ==
  ASSUME Types, NEW n \in Nodes, NodeOK(n), Stopped(n)
  PROVE  Types' /\ NodeOK(n)' /\ Others(n)
<1>1. Types'
  BY EmptyIsStore DEF Stopped, Types
<1>2. Others(n)
  BY DEF Stopped, Types, Others, Same
<1>3. /\ ~up'[n] /\ applied'[n] = 0 /\ engine'[n] = EmptyStore /\ shut'[n] = "open"
      /\ persisting'[n] = None /\ restoring'[n] = None
      /\ log' = log /\ snapshot' = snapshot /\ reach' = reach /\ reach[n] \in Nat
  BY DEF Stopped, Types
<1>4. CellsOK(n)'
  <2>1. \A k \in Keys : Floor(n, k)' = 0
    BY <1>3 DEF Floor
  <2>2. \A k \in Keys : CellOK(log, k, EmptyStore[k], 0, reach[n])
    BY <1>3, EmptyCells
  <2> QED BY <1>3, <2>1, <2>2 DEF CellsOK
<1>5. Bounds(n)' /\ ProcessOK(n)' /\ SavedOK(n)'
  BY <1>3 DEF NodeOK, Bounds, ProcessOK, SavedOK
<1> QED BY <1>1, <1>2, <1>3, <1>4, <1>5 DEF NodeOK

LEMMA RestoreGivenUpKeeps ==
  ASSUME Types, NEW n \in Nodes, NodeOK(n), up[n], restoring[n] # None, RestoreGivenUp(n)
  PROVE  Types' /\ NodeOK(n)' /\ Others(n)
<1> DEFINE r == restoring[n]
<1>1. /\ restoring' = [restoring EXCEPT ![n] = None]
      /\ UNCHANGED <<log, up, applied, merged, persisting, snapshot, reach>>
  BY DEF RestoreGivenUp
<1>2. /\ restoring'[n] = None /\ RestoreOK(n) /\ r.left \in SUBSET Keys
      /\ r.from.index \in Nat /\ reach[n] \in Nat /\ applied[n] \in Nat
  BY <1>1 DEF Types, NodeOK, Restorations, Snapshots
<1>3. SavedOK(n)' /\ Bounds(n)'
  BY <1>1 DEF NodeOK, SavedOK, Bounds
<1>4. \A k \in Keys : Floor(n, k)' = IF k \in lost'[n] THEN 0 ELSE applied[n]
  BY <1>1, <1>2 DEF Floor, Replacing
<1>5. CASE /\ r.purged /\ lost' = [lost EXCEPT ![n] = lost[n] \cup r.left]
           /\ UNCHANGED <<engine, shut>>
  <2>1. Types' /\ lost'[n] = lost[n] \cup r.left
    BY <1>1, <1>2, <1>5 DEF Types
  <2>2. Others(n)
    BY <1>1, <1>5 DEF Types, Others, Same
  <2>3. ASSUME NEW k \in Keys PROVE CellOK(log, k, engine[n][k], Floor(n, k)', reach[n])
    <3>1. applied[n] <= r.from.index
      BY <1>2 DEF RestoreOK
    <3> QED BY <1>2, <1>4, <1>5, <2>1, <3>1, RestoredCells, CellWiden
  <2>4. CellsOK(n)' /\ ProcessOK(n)'
    BY <1>1, <1>5, <2>3 DEF CellsOK, NodeOK, ProcessOK
  <2> QED BY <1>2, <1>3, <2>1, <2>2, <2>4 DEF NodeOK
<1>6. CASE /\ ~r.purged /\ shut[n] = "open" /\ shut' = [shut EXCEPT ![n] = "closing"]
           /\ UNCHANGED <<engine, lost>>
  <2>1. Types' /\ shut'[n] = "closing"
    BY <1>1, <1>6 DEF Types
  <2>2. Others(n)
    BY <1>1, <1>6 DEF Types, Others, Same
  <2>3. \A k \in Keys : Floor(n, k)' = Floor(n, k)
    BY <1>4, <1>6 DEF Floor, Replacing
  <2>4. CellsOK(n)' /\ ProcessOK(n)'
    BY <1>1, <1>6, <2>1, <2>3 DEF CellsOK, NodeOK, ProcessOK
  <2> QED BY <1>2, <1>3, <2>1, <2>2, <2>4 DEF NodeOK
<1>7. CASE /\ ~r.purged /\ UNCHANGED shut /\ lost' = [lost EXCEPT ![n] = Keys]
           /\ engine' = [engine EXCEPT ![n] = EmptyStore] \/ UNCHANGED engine
  <2>1. Types' /\ lost'[n] = Keys /\ engine'[n] \in {EmptyStore, engine[n]}
    BY <1>1, <1>7, EmptyIsStore DEF Types
  <2>2. Others(n)
    BY <1>1, <1>7 DEF Types, Others, Same
  <2>3. CellsOK(n)'
    <3>1. \A k \in Keys : Floor(n, k)' = 0
      BY <1>4, <2>1
    <3>2. reach'[n] = reach[n] /\ log' = log
      BY <1>1
    <3>3. \A k \in Keys : CellOK(log, k, EmptyStore[k], 0, reach[n])
      BY <1>2, EmptyCells
    <3>4. ASSUME NEW k \in Keys PROVE CellOK(log, k, engine[n][k], 0, reach[n])
      <4>1. CellOK(log, k, engine[n][k], Floor(n, k), reach[n]) /\ Floor(n, k) \in Nat
        BY FloorFacts DEF NodeOK, CellsOK
      <4> QED BY <1>2, <4>1, CellWiden
    <3> QED BY <2>1, <3>1, <3>2, <3>3, <3>4 DEF CellsOK
  <2>4. ProcessOK(n)'
    BY <1>1, <1>7 DEF ProcessOK, NodeOK
  <2> QED BY <1>2, <1>3, <2>1, <2>2, <2>3, <2>4 DEF NodeOK
<1> QED BY <1>5, <1>6, <1>7 DEF RestoreGivenUp

LEMMA RestoreFailsKeeps ==
  ASSUME Types, NEW n \in Nodes, NodeOK(n), RestoreFails(n)
  PROVE  Types' /\ NodeOK(n)' /\ Others(n)
BY StoppedKeeps, RestoreGivenUpKeeps DEF RestoreFails

LEMMA CrashKeeps ==
  ASSUME Types, NEW n \in Nodes, NodeOK(n), Crash(n)
  PROVE  Types' /\ NodeOK(n)' /\ Others(n)
BY StoppedKeeps DEF Crash

LEMMA RestartKeeps ==
  ASSUME Types, NEW n \in Nodes, NodeOK(n), Restart(n)
  PROVE  Types' /\ NodeOK(n)' /\ Others(n)
<1> DEFINE r == IF snapshot[n].index = 0 THEN None ELSE Restoration(snapshot[n], TRUE)
<1>1. /\ UNCHANGED <<log, applied, shut, merged, persisting, snapshot, reach, lost>>
      /\ ~up[n] /\ up' = [up EXCEPT ![n] = TRUE]
      /\ restoring' = [restoring EXCEPT ![n] = r]
  BY DEF Restart
<1>2. PICK e \in Answers :
         (\A k \in Keys : e[k] \in Recovered(n, k)) /\ engine' = [engine EXCEPT ![n] = e]
  BY DEF Restart
<1>3. /\ applied[n] = 0 /\ shut[n] = "open" /\ persisting[n] = None
      /\ SnapshotOK(log, snapshot[n]) /\ snapshot[n] \in Snapshots /\ reach[n] \in Nat
      /\ snapshot[n].index \in Nat
  BY <1>1 DEF NodeOK, ProcessOK, SavedOK, Types, Snapshots
<1>4. /\ r \in Restorations \cup {None}
      /\ r # None => /\ ~r.purged /\ r.from = snapshot[n]
                     /\ r.left = {k \in Keys : snapshot[n].state[k] # Nil}
  BY <1>3, RestorationFacts
<1> HIDE DEF r
<1>5. Types'
  BY <1>1, <1>2, <1>4 DEF Types
<1>6. Others(n)
  BY <1>1, <1>2 DEF Types, Others, Same
<1>7. engine'[n] = e /\ restoring'[n] = r
  BY <1>1, <1>2 DEF Types
<1>8. ASSUME NEW k \in Keys PROVE CellOK(log, k, e[k], 0, reach[n])
  <2>1. CASE e[k] \in Held(n, k)
    BY <2>1, HeldIs DEF CellOK
  <2>2. CASE e[k] = Empty /\ \E i \in 1 .. reach[n] : Deletes(i, k)
    BY <2>2 DEF CellOK, Deletes
  <2> QED BY <1>2, <2>1, <2>2 DEF Recovered
<1>9. CellsOK(n)'
  <2>1. \A k \in Keys : Floor(n, k)' = 0
    BY <1>1, <1>3 DEF Floor
  <2> QED BY <1>1, <1>7, <1>8, <2>1 DEF CellsOK
<1>10. restoring'[n] # None => RestoreOK(n)'
  BY <1>1, <1>3, <1>4, <1>7 DEF RestoreOK
<1>11. SavedOK(n)' /\ Bounds(n)'
  BY <1>1 DEF NodeOK, SavedOK, Bounds
<1>12. ProcessOK(n)'
  <2>1. up'[n] /\ shut'[n] = "open"
    BY <1>1, <1>3 DEF Types
  <2> QED BY <2>1 DEF ProcessOK
<1> QED BY <1>5, <1>6, <1>9, <1>10, <1>11, <1>12 DEF NodeOK

LEMMA CommitKeeps ==
  ASSUME Types, NEW c \in Commands, Commit(c), NEW n \in Nodes, NodeOK(n)
  PROVE  Types' /\ NodeOK(n)'
<1>1. /\ log' = Append(log, c)
      /\ UNCHANGED <<up, applied, engine, shut, merged, persisting, snapshot, restoring, reach, lost>>
  BY DEF Commit
<1>2. log \in Seq(Commands) /\ Len(log) \in Nat /\ Len(Append(log, c)) = Len(log) + 1
  BY DEF Types
<1>3. Types'
  BY <1>1 DEF Types
<1>4. /\ snapshot[n] \in Snapshots /\ (persisting[n] # None => persisting[n] \in Snapshots)
      /\ (restoring[n] # None => restoring[n].from \in Snapshots)
      /\ applied[n] \in Nat /\ reach[n] \in Nat
  BY DEF Types, Restorations
<1>5. SavedOK(n)'
  BY <1>1, <1>2, <1>4, SnapshotAppend DEF NodeOK, SavedOK
<1>6. Bounds(n)' /\ ProcessOK(n)'
  BY <1>1, <1>2, <1>4 DEF NodeOK, Bounds, ProcessOK
<1>7. CellsOK(n)'
  <2> SUFFICES ASSUME NEW k \in Keys
               PROVE  CellOK(Append(log, c), k, engine[n][k], Floor(n, k), reach[n])
    BY <1>1 DEF CellsOK, Floor, Replacing
  <2>1. CellOK(log, k, engine[n][k], Floor(n, k), reach[n]) /\ reach[n] <= Len(log)
    BY DEF NodeOK, CellsOK, Bounds
  <2>2. Floor(n, k) \in Nat
    BY FloorFacts
  <2> QED BY <1>2, <1>4, <2>1, <2>2, CellAppend
<1>8. restoring[n] # None => RestoreOK(n)'
  BY <1>1, <1>2, <1>4, SnapshotAppend DEF NodeOK, RestoreOK
<1> QED BY <1>1, <1>3, <1>5, <1>6, <1>7, <1>8 DEF NodeOK

-----------------------------------------------------------------------------
(* The theorems *)

LEMMA ReplicaInvInit == Init => ReplicaInv
<1> SUFFICES ASSUME Init PROVE ReplicaInv
  OBVIOUS
<1>1. NoSnapshot \in Snapshots
  BY EmptyIsStore DEF NoSnapshot, Snapshots
<1>2. Types
  BY <1>1, EmptyIsStore DEF Init, Types
<1>3. log = <<>> /\ Len(log) = 0 /\ \A k \in Keys : EmptyStore[k] = Nil
  BY DEF Init, EmptyStore
<1>4. SnapshotOK(log, NoSnapshot)
  BY <1>3, NilIsFirst DEF SnapshotOK, NoSnapshot
<1>5. ASSUME NEW n \in Nodes PROVE NodeOK(n)
  <2>1. /\ up[n] = TRUE /\ applied[n] = 0 /\ reach[n] = 0 /\ engine[n] = EmptyStore
        /\ shut[n] = "open" /\ persisting[n] = None /\ restoring[n] = None
        /\ snapshot[n] = NoSnapshot
    BY DEF Init
  <2>2. CellsOK(n)
    <3>1. \A k \in Keys : Floor(n, k) = 0
      BY <2>1 DEF Floor
    <3>2. \A k \in Keys : CellOK(log, k, EmptyStore[k], 0, 0)
      BY EmptyCells
    <3> QED BY <2>1, <3>1, <3>2 DEF CellsOK
  <2> QED BY <1>3, <1>4, <2>1, <2>2 DEF NodeOK, Bounds, ProcessOK, SavedOK
<1> QED BY <1>2, <1>5 DEF ReplicaInv

LEMMA ReplicaInvNext == ReplicaInv /\ [Next]_vars => ReplicaInv'
<1> SUFFICES ASSUME ReplicaInv, [Next]_vars PROVE ReplicaInv'
  OBVIOUS
<1>1. Types /\ \A n \in Nodes : NodeOK(n)
  BY DEF ReplicaInv
<1>2. CASE UNCHANGED vars
  <2>1. Types'
    BY <1>1, <1>2 DEF Types, vars
  <2>2. \A m \in Nodes : Same(m)
    BY <1>2 DEF Same, vars
  <2> QED BY <1>1, <2>1, <2>2, SameKeepsNodeOK DEF ReplicaInv
<1>3. ASSUME NEW c \in Commands, Commit(c) PROVE ReplicaInv'
  <2>1. Types'
    BY <1>1, <1>3 DEF Types, Commit
  <2> QED BY <1>1, <1>3, <2>1, CommitKeeps DEF ReplicaInv
<1>4. ASSUME NEW n \in Nodes, Types' /\ NodeOK(n)' /\ Others(n) PROVE ReplicaInv'
  <2>1. ASSUME NEW m \in Nodes, m # n PROVE NodeOK(m)'
    BY <1>1, <1>4, <2>1, SameKeepsNodeOK DEF Others
  <2> QED BY <1>4, <2>1 DEF ReplicaInv
<1>5. ASSUME NEW n \in Nodes, \/ Apply(n) \/ Settle(n) \/ Compact(n) \/ Revert(n)
                              \/ Snapshot(n) \/ Persist(n)
                              \/ Restore(n) \/ RestoreFails(n)
                              \/ Crash(n) \/ Restart(n)
                              \/ \E m \in Nodes : InstallSnapshot(n, m)
      PROVE  ReplicaInv'
  <2>1. Types' /\ NodeOK(n)' /\ Others(n)
    <3>1. CASE Apply(n) \/ Settle(n) \/ Compact(n) \/ Revert(n)
      BY <1>1, <3>1, ApplyKeeps, SettleKeeps, CompactKeeps, RevertKeeps
    <3>2. CASE Snapshot(n) \/ Persist(n) \/ \E m \in Nodes : InstallSnapshot(n, m)
      BY <1>1, <3>2, SnapshotKeeps, PersistKeeps, InstallSnapshotKeeps
    <3>3. CASE Restore(n) \/ RestoreFails(n)
      BY <1>1, <3>3, PurgeCloseKeeps, PurgeReopenKeeps, RestorePutKeeps, RestoreDoneKeeps,
         RestoreFailsKeeps DEF Restore
    <3>4. CASE Crash(n) \/ Restart(n)
      BY <1>1, <3>4, CrashKeeps, RestartKeeps
    <3> QED BY <1>5, <3>1, <3>2, <3>3, <3>4
  <2> QED BY <1>4, <2>1
<1> QED BY <1>2, <1>3, <1>5 DEF Next

\* The state of every replica keeps its types; no node applies what is not
\* committed, and a Restore puts its entries into an engine that Purge has
\* opened again.
THEOREM ReplicaTypeCorrect == Spec => []TypeOK
<1>1. ReplicaInv => TypeOK
  <2> SUFFICES ASSUME ReplicaInv PROVE TypeOK
    OBVIOUS
  <2>1. Types /\ \A n \in Nodes : NodeOK(n)
    BY DEF ReplicaInv
  <2>2. Len(log) \in Nat
    BY <2>1 DEF Types
  <2>3. ASSUME NEW n \in Nodes
        PROVE  /\ applied[n] \in 0 .. reach[n] /\ reach[n] \in 0 .. Len(log)
               /\ snapshot[n].index <= Len(log) /\ snapshot[n].state \in Store
    <3>1. /\ applied[n] \in Nat /\ reach[n] \in Nat /\ snapshot[n].index \in Nat
          /\ snapshot[n].reach \in Nat /\ snapshot[n].state \in Store
      BY <2>1 DEF Types, Snapshots
    <3>2. Bounds(n) /\ SnapshotOK(log, snapshot[n])
      BY <2>1 DEF NodeOK, SavedOK
    <3> QED BY <2>2, <3>1, <3>2 DEF Bounds, SnapshotOK
  <2>4. ASSUME NEW n \in Nodes
        PROVE  /\ ~up[n] => persisting[n] = None /\ restoring[n] = None
               /\ restoring[n] # None /\ restoring[n].purged => shut[n] = "open"
    BY <2>1 DEF NodeOK, ProcessOK, RestoreOK
  <2>5. reach \in [Nodes -> 0 .. Len(log)]
    BY <2>1, <2>3 DEF Types
  <2> QED BY <2>1, <2>3, <2>4, <2>5 DEF Types, TypeOK
<1> QED BY <1>1, ReplicaInvInit, ReplicaInvNext, PTL DEF Spec

\* Apply, Snapshot, Persist, Restore, a Purge that fails half-way, what Open finds
\* after a kill and the replay that follows, on any number of nodes and in any
\* order, leave every key at the value of one moment between the entry applied
\* last and the last one that ever reached the engine; keys that an error or a
\* lacking snapshot left behind may be older, but never another key's.
THEOREM ReplicaFollowsLog == Spec => []ReplicaMatchesLog
<1>1. ReplicaInv => ReplicaMatchesLog
  <2> SUFFICES ASSUME ReplicaInv, NEW n \in Nodes, NEW k \in Keys
               PROVE  \/ \E i \in Floor(n, k) .. reach[n] : engine[n][k] = StateAt(i)[k]
                      \/ /\ engine[n][k] = Empty
                         /\ \E i \in Floor(n, k) + 1 .. reach[n] : Deletes(i, k)
    BY DEF ReplicaMatchesLog
  <2>1. CellOK(log, k, engine[n][k], Floor(n, k), reach[n])
    BY DEF ReplicaInv, NodeOK, CellsOK
  <2>2. \A i : StateAt(i)[k] = ValueAt(log, i, k)
    BY DEF StateAt, ValueAt
  <2> QED BY <2>1, <2>2 DEF CellOK, ValueIn, Deletes
<1> QED BY <1>1, ReplicaInvInit, ReplicaInvNext, PTL DEF Spec

-----------------------------------------------------------------------------
(* Without the events that lose something *)

Lossless == Events \cap {"apply", "restore", "compact", "scan", "revert"} = {}

LosesNothing(n) ==
    /\ lost[n] = {} /\ merged[n] = {} /\ snapshot[n].lacks = {}
    /\ persisting[n] # None => persisting[n].lacks = {}
    /\ restoring[n] # None => restoring[n].from.lacks = {}
    /\ restoring[n] = None => shut[n] = "open"

LosslessInv == ReplicaInv /\ \A n \in Nodes : LosesNothing(n)

LEMMA LosslessNode ==
  ASSUME Lossless, LosslessInv, NEW n \in Nodes,
         \/ Apply(n) \/ Settle(n) \/ Compact(n) \/ Revert(n) \/ Snapshot(n) \/ Persist(n)
         \/ Restore(n) \/ RestoreFails(n) \/ Crash(n) \/ Restart(n)
         \/ \E m \in Nodes : InstallSnapshot(n, m)
  PROVE  \A m \in Nodes : LosesNothing(m)'
<1>0. Types /\ (\A m \in Nodes : NodeOK(m)) /\ \A m \in Nodes : LosesNothing(m)
  BY DEF LosslessInv, ReplicaInv
<1>1. ~ ("apply" \in Events \/ "restore" \in Events \/ "compact" \in Events \/ "scan" \in Events
         \/ "revert" \in Events)
  BY DEF Lossless
<1>2. CASE Apply(n)
  <2>1. /\ shut[n] = "open" /\ \E K : lost' = [lost EXCEPT ![n] = lost[n] \ K]
        /\ \E K : merged' = [merged EXCEPT ![n] = merged[n] \ K]
        /\ UNCHANGED <<shut, persisting, snapshot, restoring>>
    BY <1>0, <1>1, <1>2 DEF Apply, LosesNothing
  <2> QED BY <1>0, <2>1 DEF LosesNothing, Types
<1>3. CASE Settle(n)
  BY <1>0, <1>3 DEF Settle, LosesNothing
<1>4. CASE Snapshot(n)
  <2>1. PICK L \in SUBSET Keys, s \in Store :
           /\ L \subseteq merged[n] \cup lost[n]
           /\ persisting' = [persisting EXCEPT ![n] =
                 [index |-> applied[n], state |-> s, reach |-> reach[n], lacks |-> L \cup lost[n]]]
    BY <1>0, <1>1, <1>4 DEF Snapshot
  <2>2. UNCHANGED <<shut, merged, snapshot, restoring, lost>>
    BY <1>0, <1>4 DEF Snapshot
  <2>3. L \cup lost[n] = {}
    BY <1>0, <2>1 DEF LosesNothing
  <2>4. persisting'[n].lacks = {} /\ \A m \in Nodes \ {n} : persisting'[m] = persisting[m]
    BY <1>0, <2>1, <2>3 DEF Types
  <2> QED BY <1>0, <2>2, <2>4 DEF LosesNothing
<1>5. CASE Persist(n)
  <2>1. PICK s \in {snapshot[n], persisting[n]} : snapshot' = [snapshot EXCEPT ![n] = s]
    BY <1>0, <1>5 DEF Persist, Retain, Types
  <2>2. /\ persisting' = [persisting EXCEPT ![n] = None] /\ persisting[n] # None
        /\ UNCHANGED <<shut, merged, restoring, lost>>
    BY <1>0, <1>5 DEF Persist
  <2> QED BY <1>0, <2>1, <2>2 DEF LosesNothing, Types
<1>6. CASE Restore(n)
  <2>1. CASE PurgeClose(n)
    BY <1>0, <2>1 DEF PurgeClose, Purging, LosesNothing, Types
  <2>2. CASE PurgeReopen(n)
    <3> DEFINE q == [restoring[n] EXCEPT !.purged = TRUE]
    <3>1. /\ restoring[n] # None /\ shut' = [shut EXCEPT ![n] = "open"]
          /\ merged' = [merged EXCEPT ![n] = {}]
          /\ lost' = [lost EXCEPT ![n] = restoring[n].from.lacks]
          /\ restoring' = [restoring EXCEPT ![n] = q]
          /\ UNCHANGED <<persisting, snapshot>>
      BY <1>0, <2>2 DEF PurgeReopen, Purging
    <3>2. q.from = restoring[n].from
      BY <1>0, <3>1 DEF Types, Restorations
    <3> HIDE DEF q
    <3> QED BY <1>0, <3>1, <3>2 DEF LosesNothing, Types
  <2>3. CASE RestorePut(n)
    <3>1. PICK k \in restoring[n].left :
             /\ restoring' = [restoring EXCEPT ![n] =
                    [restoring[n] EXCEPT !.left = restoring[n].left \ {k}]]
             /\ merged' = [merged EXCEPT ![n] = merged[n] \ {k}]
      BY <1>0, <2>3 DEF RestorePut
    <3> DEFINE q == [restoring[n] EXCEPT !.left = restoring[n].left \ {k}]
    <3>2. restoring[n] # None /\ restoring[n] \in Restorations
          /\ UNCHANGED <<shut, persisting, snapshot, lost>>
      BY <1>0, <2>3 DEF RestorePut, Types
    <3>3. q.from = restoring[n].from /\ q \in Restorations
      BY <1>0, <3>1, <3>2 DEF Restorations
    <3>4. restoring' = [restoring EXCEPT ![n] = q] /\ q # None
      BY <1>0, <3>1, <3>3, ReplicaAssumption
    <3> HIDE DEF q
    <3>5. merged'[n] = {} /\ restoring'[n] = q
          /\ \A m \in Nodes \ {n} : merged'[m] = merged[m] /\ restoring'[m] = restoring[m]
      BY <1>0, <3>1, <3>4 DEF LosesNothing, Types
    <3> QED BY <1>0, <3>2, <3>3, <3>4, <3>5 DEF LosesNothing
  <2>4. CASE RestoreDone(n)
    <3>1. shut[n] = "open"
      BY <1>0, <2>4 DEF RestoreDone, NodeOK, RestoreOK
    <3>2. /\ restoring' = [restoring EXCEPT ![n] = None]
          /\ UNCHANGED <<shut, merged, persisting, snapshot, lost>>
      BY <1>0, <2>4 DEF RestoreDone
    <3> QED BY <1>0, <3>1, <3>2 DEF LosesNothing, Types
  <2> QED BY <1>0, <1>6, <2>1, <2>2, <2>3, <2>4 DEF Restore
<1>7. CASE Crash(n)
  BY <1>0, <1>7 DEF Crash, Stopped, LosesNothing, Types
<1>8. CASE Restart(n)
  <2>1. /\ ~up[n] /\ UNCHANGED <<shut, merged, persisting, snapshot, lost>>
        /\ restoring' = [restoring EXCEPT ![n] =
               IF snapshot[n].index = 0 THEN None ELSE Restoration(snapshot[n], TRUE)]
    BY <1>0, <1>8 DEF Restart
  <2>2. snapshot[n] \in Snapshots /\ Restoration(snapshot[n], TRUE).from = snapshot[n]
    BY <1>0, RestorationFacts DEF Types
  <2>3. shut[n] = "open"
    BY <1>0, <2>1 DEF NodeOK, ProcessOK
  <2> QED BY <1>0, <2>1, <2>2, <2>3 DEF LosesNothing, Types
<1>9. ASSUME NEW m \in Nodes, InstallSnapshot(n, m) PROVE \A i \in Nodes : LosesNothing(i)'
  <2>1. PICK s \in {snapshot[n], snapshot[m]} : snapshot' = [snapshot EXCEPT ![n] = s]
    BY <1>0, <1>9 DEF InstallSnapshot, Retain
  <2>2. /\ UNCHANGED <<shut, merged, persisting, lost>>
        /\ restoring' = [restoring EXCEPT ![n] = Restoration(snapshot[m], FALSE)]
    BY <1>0, <1>9 DEF InstallSnapshot
  <2>3. snapshot[m] \in Snapshots /\ Restoration(snapshot[m], FALSE).from = snapshot[m]
        /\ Restoration(snapshot[m], FALSE) # None
    BY <1>0, RestorationFacts DEF Types
  <2> QED BY <1>0, <2>1, <2>2, <2>3 DEF LosesNothing, Types
<1> QED BY <1>1, <1>2, <1>3, <1>4, <1>5, <1>6, <1>7, <1>8, <1>9 DEF Compact, Revert, RestoreFails

LEMMA LosslessNext ==
  ASSUME Lossless
  PROVE  LosslessInv /\ [Next]_vars => LosslessInv'
<1> SUFFICES ASSUME LosslessInv, [Next]_vars PROVE LosslessInv'
  OBVIOUS
<1>1. ReplicaInv'
  BY ReplicaInvNext DEF LosslessInv
<1>2. CASE UNCHANGED vars
  BY <1>1, <1>2 DEF LosslessInv, LosesNothing, vars
<1>3. ASSUME NEW c \in Commands, Commit(c) PROVE LosslessInv'
  BY <1>1, <1>3 DEF LosslessInv, LosesNothing, Commit
<1>4. ASSUME NEW n \in Nodes, \/ Apply(n) \/ Settle(n) \/ Compact(n) \/ Revert(n)
                              \/ Snapshot(n) \/ Persist(n)
                              \/ Restore(n) \/ RestoreFails(n) \/ Crash(n) \/ Restart(n)
                              \/ \E m \in Nodes : InstallSnapshot(n, m)
      PROVE  LosslessInv'
  BY <1>1, <1>4, LosslessNode DEF LosslessInv
<1> QED BY <1>2, <1>3, <1>4 DEF Next

\* The engine of a node that has applied again all that ever reached it is the map
\* that the log says.
CaughtUp ==
    \A n \in Nodes : up[n] /\ restoring[n] = None /\ applied[n] = reach[n] =>
        \A k \in Keys : engine[n][k] = StateAt(applied[n])[k]

\* Where no call of the engine fails and no compaction runs, Crash, Open, the replay
\* from index 0 or from a snapshot, and Restores from other nodes' snapshots lose
\* nothing of any key: no tombstone is taken for a value, and no newer value stays
\* behind an older entry that was applied again.
THEOREM LosslessReplicaIsLog ==
  ASSUME Lossless
  PROVE  Spec => []CaughtUp
<1>1. Init => LosslessInv
  <2> SUFFICES ASSUME Init PROVE LosslessInv
    OBVIOUS
  <2>1. \A n \in Nodes : LosesNothing(n)
    BY DEF Init, LosesNothing, NoSnapshot
  <2> QED BY <2>1, ReplicaInvInit DEF LosslessInv
<1>2. LosslessInv => CaughtUp
  <2> SUFFICES ASSUME LosslessInv, NEW n \in Nodes, restoring[n] = None, applied[n] = reach[n],
                      NEW k \in Keys
               PROVE  engine[n][k] = StateAt(applied[n])[k]
    BY DEF CaughtUp
  <2>1. /\ CellOK(log, k, engine[n][k], Floor(n, k), reach[n]) /\ lost[n] = {}
        /\ applied[n] \in Nat
    BY DEF LosslessInv, LosesNothing, ReplicaInv, NodeOK, CellsOK, Types
  <2>2. Floor(n, k) = applied[n]
    BY <2>1 DEF Floor, Replacing
  <2>3. applied[n] .. reach[n] = {applied[n]} /\ applied[n] + 1 .. reach[n] = {}
    BY <2>1
  <2>4. engine[n][k] = ValueAt(log, applied[n], k)
    BY <2>1, <2>2, <2>3 DEF CellOK, ValueIn
  <2>5. StateAt(applied[n])[k] = ValueAt(log, applied[n], k)
    BY DEF StateAt, ValueAt
  <2> QED BY <2>4, <2>5
<1> QED BY <1>1, <1>2, LosslessNext, PTL DEF Spec

=============================================================================
