-------------------------- MODULE SkipListProofs --------------------------
(***************************************************************************)
(* Theorems about SkipList: for any keys, any number of levels and         *)
(* whatever heights the nodes are given, the levels stay sorted and        *)
(* complete, and Get and the iterator find what was put.                   *)
(***************************************************************************)
EXTENDS SkipList, FiniteSetTheorems, SequenceTheorems, WellFoundedInduction, TLAPS

-----------------------------------------------------------------------------
(* The inductive invariant *)

NodeRecords == [key : Keys, value : Lengths, height : Levels]

CallRecords ==
    [kind : {"put", "get", "scan"}, key : Nat, value : Nat, current : Nat, level : Nat,
     update : [Levels -> Nat], seen : Nat]

Types ==
    /\ nodes \in Seq(NodeRecords)
    /\ next \in [AllNodes -> [Levels -> 1 .. Len(nodes) \cup {End}]]
    /\ level \in Levels /\ size = Len(nodes)
    /\ latest \in [Keys -> Lengths \cup {NotFound}]
    /\ call # Done => call \in CallRecords

\* m is behind n on level i.
Later(m, n, i) == KeyOf(m) > KeyOf(n) /\ Height(m) >= i

\* n's pointer on level i is to the next node behind it there.
NextOK(n, i) ==
    /\ next[n][i] = End => \A m \in AllNodes : ~Later(m, n, i)
    /\ next[n][i] # End => /\ Later(next[n][i], n, i)
                           /\ \A m \in AllNodes : Later(m, n, i) => KeyOf(next[n][i]) <= KeyOf(m)

Links ==
    /\ \A m, n \in AllNodes : KeyOf(m) = KeyOf(n) => m = n
    /\ \A n \in AllNodes : \A i \in Levels : i <= Height(n) => NextOK(n, i)
    /\ \A n \in 1 .. Len(nodes) : nodes[n].height <= level

\* The nodes hold what was put last.
Contents ==
    /\ \A n \in 1 .. Len(nodes) : latest[nodes[n].key] = nodes[n].value
    /\ \A k \in Keys : latest[k] # NotFound => \E n \in 1 .. Len(nodes) : nodes[n].key = k

\* n is where the search for k leaves level i.
Before(n, i, k) ==
    /\ n \in AllNodes /\ Height(n) >= i /\ KeyOf(n) < k
    /\ next[n][i] # End => KeyOf(next[n][i]) >= k

\* The keys that an iterator at n has been at.
Visited(n) == {k \in Keys : latest[k] # NotFound /\ k <= KeyOf(n)}

CallOK ==
    /\ call.current \in AllNodes /\ call.update \in [Levels -> AllNodes]
    /\ call.level \in 0 .. level /\ Height(call.current) >= call.level
    /\ call.kind = "scan" => call.level = 1 /\ call.seen = Cardinality(Visited(call.current))
    /\ call.kind # "scan" => call.key \in Keys /\ KeyOf(call.current) < call.key
    /\ call.kind # "scan" /\ call.level = 0 => Before(call.current, 1, call.key)
    /\ call.kind = "put" =>
          /\ call.value \in Lengths
          /\ \A i \in call.level + 1 .. level : Before(call.update[i], i, call.key)

\* sizeBytes is a sum over the nodes: f has the sums of the first of them.
PartialSums(f) ==
    /\ f \in [0 .. Len(nodes) -> Nat]
    /\ f[0] = 0 /\ f[Len(nodes)] = sizeBytes
    /\ \A i \in 1 .. Len(nodes) : f[i] = f[i - 1] + (nodes[i].key + nodes[i].value)
    /\ \A i, j \in 0 .. Len(nodes) : i <= j => f[i] <= f[j]

ListInv ==
    /\ Types /\ Links /\ Contents
    /\ call # Done => CallOK
    /\ \E f : PartialSums(f)

-----------------------------------------------------------------------------
(* Nodes and their keys *)

LEMMA NodeFacts ==
  ASSUME Types
  PROVE  /\ Len(nodes) \in Nat /\ AllNodes = 0 .. Len(nodes) /\ 0 \in AllNodes
         /\ \A n \in 1 .. Len(nodes) : /\ n \in AllNodes /\ n # 0 /\ nodes[n] \in NodeRecords
                                       /\ nodes[n].key \in Keys /\ nodes[n].value \in Lengths
                                       /\ nodes[n].height \in Levels
         /\ \A n \in AllNodes : n = 0 \/ n \in 1 .. Len(nodes)
<1>1. Len(nodes) \in Nat /\ AllNodes = 0 .. Len(nodes)
  BY DEF Types, AllNodes
<1>2. \A n \in 1 .. Len(nodes) : nodes[n] \in NodeRecords
  BY DEF Types
<1>3. \A n \in 1 .. Len(nodes) : nodes[n].key \in Keys /\ nodes[n].value \in Lengths /\ nodes[n].height \in Levels
  BY <1>2 DEF NodeRecords
<1> QED BY <1>1, <1>2, <1>3

LEMMA KeyFacts ==
  ASSUME Types
  PROVE  /\ KeyOf(0) = 0 /\ Height(0) = MaxLevel
         /\ \A n \in 1 .. Len(nodes) : /\ KeyOf(n) = nodes[n].key /\ KeyOf(n) \in Keys
                                       /\ Height(n) = nodes[n].height
         /\ \A n \in AllNodes : KeyOf(n) \in Nat /\ Height(n) \in Levels
         /\ Keys \subseteq Nat /\ 0 \notin Keys /\ MaxLevel \in Levels /\ 1 \in Levels
         /\ Levels \subseteq Nat
<1>1. Keys \subseteq Nat /\ 0 \notin Keys /\ MaxLevel \in Nat /\ MaxLevel # 0
  BY SkipListAssumption
<1>2. MaxLevel \in Levels /\ 1 \in Levels /\ Levels \subseteq Nat
  BY <1>1 DEF Levels
<1>3. KeyOf(0) = 0 /\ Height(0) = MaxLevel
  BY DEF KeyOf, Height, HeadNode
<1>4. \A n \in 1 .. Len(nodes) : KeyOf(n) = nodes[n].key /\ Height(n) = nodes[n].height
  BY NodeFacts DEF KeyOf, Height, HeadNode
<1>5. \A n \in 1 .. Len(nodes) : KeyOf(n) \in Keys /\ Height(n) \in Levels
  BY <1>4, NodeFacts
<1>6. \A n \in AllNodes : KeyOf(n) \in Nat /\ Height(n) \in Levels
  <2> TAKE n \in AllNodes
  <2>1. CASE n = 0
    BY <1>2, <1>3, <2>1
  <2>2. CASE n \in 1 .. Len(nodes)
    BY <1>1, <1>5, <2>2
  <2> QED BY <2>1, <2>2, NodeFacts
<1> QED BY <1>1, <1>2, <1>3, <1>4, <1>5, <1>6

LEMMA NextFacts ==
  ASSUME Types, NEW n \in AllNodes, NEW i \in Levels
  PROVE  next[n][i] = End \/ next[n][i] \in 1 .. Len(nodes)
BY DEF Types

\* Where a search ends on level 1, the next node has the key or none has.
LEMMA SearchEnds ==
  ASSUME Types, Links, NEW n, NEW k \in Keys, Before(n, 1, k)
  PROVE  IF next[n][1] # End /\ nodes[next[n][1]].key = k
         THEN next[n][1] \in 1 .. Len(nodes)
         ELSE \A m \in 1 .. Len(nodes) : nodes[m].key # k
<1>0. USE KeyFacts, NodeFacts
<1>1. /\ n \in AllNodes /\ NextOK(n, 1) /\ KeyOf(n) < k
      /\ next[n][1] = End \/ next[n][1] \in 1 .. Len(nodes)
      /\ next[n][1] # End => KeyOf(next[n][1]) >= k
  BY NextFacts DEF Before, Links
<1>2. ASSUME NEW m \in 1 .. Len(nodes), nodes[m].key = k
      PROVE  next[n][1] # End /\ KeyOf(next[n][1]) = k
  <2>1. Later(m, n, 1)
    <3>1. Height(m) \in Levels /\ KeyOf(m) = k
      BY <1>2
    <3> QED BY <1>1, <3>1 DEF Later, Levels
  <2>2. next[n][1] # End /\ KeyOf(next[n][1]) <= k
    BY <1>1, <1>2, <2>1 DEF NextOK
  <2>3. KeyOf(next[n][1]) \in Nat /\ k \in Nat /\ KeyOf(next[n][1]) >= k
    BY <1>1, <2>2
  <2> QED BY <2>2, <2>3
<1> QED BY <1>1, <1>2

-----------------------------------------------------------------------------
(* Sums of weights *)

\* f has the sums of the first of N weights.
Sums(f, w, N) ==
    /\ f \in [0 .. N -> Nat] /\ f[0] = 0
    /\ \A i \in 1 .. N : f[i] = f[i - 1] + w[i]
    /\ \A i, j \in 0 .. N : i <= j => f[i] <= f[j]

\* One weight is replaced.
LEMMA SumsReplace ==
  ASSUME NEW N \in Nat, NEW w \in [1 .. N -> Nat], NEW f, Sums(f, w, N), NEW x \in 1 .. N, NEW d \in Nat
  PROVE  \E g : /\ Sums(g, [w EXCEPT ![x] = d], N)
                /\ g[N] = f[N] + d - w[x]
<1> DEFINE o == w[x]
           g == [i \in 0 .. N |-> IF i < x THEN f[i] ELSE f[i] + d - o]
           z == [w EXCEPT ![x] = d]
<1>1. /\ \A i \in 0 .. N : f[i] \in Nat
      /\ f[0] = 0 /\ \A i \in 1 .. N : f[i] = f[i - 1] + w[i]
      /\ \A i, j \in 0 .. N : i <= j => f[i] <= f[j]
  BY DEF Sums
<1>2. o \in Nat /\ x \in Nat /\ x - 1 \in 0 .. N /\ x \in 0 .. N /\ f[x] = f[x - 1] + o
  BY <1>1
<1>3. /\ \A i \in 0 .. N : g[i] = IF i < x THEN f[i] ELSE f[i] + d - o
      /\ z[x] = d /\ \A i \in 1 .. N : i # x => z[i] = w[i]
  OBVIOUS
<1> HIDE DEF o, z
<1>4. \A i \in 0 .. N : g[i] \in Nat
  <2> SUFFICES ASSUME NEW i \in 0 .. N PROVE g[i] \in Nat
    OBVIOUS
  <2>1. f[i] \in Nat /\ f[x] \in Nat /\ f[x - 1] \in Nat
    BY <1>1, <1>2
  <2>2. ~(i < x) => f[x] <= f[i]
    BY <1>1, <1>2
  <2> QED BY <1>2, <1>3, <2>1, <2>2
<1>5. g \in [0 .. N -> Nat]
  BY <1>4
<1>6. g[0] = 0 /\ g[N] = f[N] + d - o
  BY <1>1, <1>3
<1> HIDE DEF g
<1>7. ASSUME NEW i \in 1 .. N PROVE g[i] = g[i - 1] + z[i]
  <2>1. i - 1 \in 0 .. N /\ i \in 0 .. N /\ f[i] \in Nat /\ f[i - 1] \in Nat /\ w[i] \in Nat /\ f[i] = f[i - 1] + w[i]
    BY <1>1
  <2>2. CASE i < x
    BY <1>3, <2>1, <2>2
  <2>3. CASE i = x
    BY <1>2, <1>3, <2>1, <2>3
  <2>4. CASE i > x
    <3>1. ~(i < x) /\ ~(i - 1 < x) /\ i # x
      BY <1>2, <2>4
    <3>2. g[i] = f[i] + d - o /\ g[i - 1] = f[i - 1] + d - o /\ z[i] = w[i]
      BY <1>3, <2>1, <3>1
    <3> QED BY <1>2, <2>1, <3>2
  <2> QED BY <1>2, <2>2, <2>3, <2>4
<1>8. ASSUME NEW i \in 0 .. N, NEW j \in 0 .. N, i <= j PROVE g[i] <= g[j]
  <2>1. f[i] \in Nat /\ f[j] \in Nat /\ f[x] \in Nat /\ f[x - 1] \in Nat /\ f[i] <= f[j]
    BY <1>1, <1>2, <1>8
  <2>2. CASE j < x
    BY <1>2, <1>3, <1>8, <2>1, <2>2
  <2>4. CASE ~(i < x)
    <3>1. g[i] = f[i] + d - o /\ g[j] = f[j] + d - o
      BY <1>3, <1>8, <2>4
    <3> QED BY <1>2, <2>1, <3>1
  <2>3. CASE i < x /\ ~(j < x)
    <3>1. f[i] <= f[x - 1] /\ f[x] <= f[j]
      BY <1>1, <1>2, <2>3
    <3>2. g[i] = f[i] /\ g[j] = f[j] + d - o
      BY <1>3, <2>3
    <3> QED BY <1>2, <2>1, <3>1, <3>2
  <2> QED BY <2>2, <2>3, <2>4
<1>9. Sums(g, z, N) /\ g[N] = f[N] + d - o
  BY <1>5, <1>6, <1>7, <1>8 DEF Sums
<1> QED BY <1>9 DEF o, z

\* A weight is added at the end.
LEMMA SumsExtend ==
  ASSUME NEW N \in Nat, NEW w, NEW f, Sums(f, w, N), NEW d \in Nat, NEW z,
         \A i \in 1 .. N : z[i] = w[i], z[N + 1] = d
  PROVE  \E g : Sums(g, z, N + 1) /\ g[N + 1] = f[N] + d
<1> DEFINE g == [i \in 0 .. N + 1 |-> IF i = N + 1 THEN f[N] + d ELSE f[i]]
<1>1. /\ \A i \in 0 .. N : f[i] \in Nat
      /\ f[0] = 0 /\ \A i \in 1 .. N : f[i] = f[i - 1] + w[i]
      /\ \A i, j \in 0 .. N : i <= j => f[i] <= f[j]
  BY DEF Sums
<1>2. /\ \A i \in 0 .. N : i \in 0 .. N + 1 /\ i # N + 1
      /\ \A i \in 0 .. N + 1 : i = N + 1 \/ i \in 0 .. N
      /\ N + 1 \in 0 .. N + 1 /\ 0 \in 0 .. N /\ N \in 0 .. N
  OBVIOUS
<1>3. g[N + 1] = f[N] + d /\ \A i \in 0 .. N : g[i] = f[i]
  BY <1>2
<1>4. g \in [0 .. N + 1 -> Nat]
  BY <1>1, <1>2
<1> HIDE DEF g
<1>5. ASSUME NEW i \in 1 .. N + 1 PROVE g[i] = g[i - 1] + z[i]
  <2>1. CASE i = N + 1
    BY <1>2, <1>3, <2>1
  <2>2. CASE i # N + 1
    <3>1. i \in 1 .. N /\ i \in 0 .. N /\ i - 1 \in 0 .. N
      BY <2>2
    <3> QED BY <1>1, <1>3, <3>1
  <2> QED BY <2>1, <2>2
<1>6. ASSUME NEW i \in 0 .. N + 1, NEW j \in 0 .. N + 1, i <= j PROVE g[i] <= g[j]
  <2>1. CASE j \in 0 .. N
    <3>1. i \in 0 .. N
      BY <1>6, <2>1
    <3> QED BY <1>1, <1>3, <1>6, <2>1, <3>1
  <2>2. CASE j = N + 1 /\ i = N + 1
    BY <1>1, <1>2, <1>3, <2>2
  <2>3. CASE j = N + 1 /\ i \in 0 .. N
    <3>1. f[i] <= f[N] /\ f[i] \in Nat /\ f[N] \in Nat
      BY <1>1, <1>2, <2>3
    <3> QED BY <1>3, <2>3, <3>1
  <2> QED BY <1>2, <2>1, <2>2, <2>3
<1>7. g[0] = 0
  BY <1>1, <1>2, <1>3
<1>8. Sums(g, z, N + 1)
  BY <1>4, <1>5, <1>6, <1>7 DEF Sums
<1> QED BY <1>3, <1>8

LessNat == {p \in Nat \X Nat : p[1] < p[2]}

LEMMA LeastNat ==
  ASSUME NEW T \in SUBSET Nat, T # {}
  PROVE  \E m \in T : \A x \in T : m <= x
<1>1. OpToRel(<, Nat) = LessNat
  BY DEF OpToRel, LessNat
<1>2. IsWellFoundedOn(LessNat, Nat)
  BY <1>1, NatLessThanWellFounded
<1>3. PICK m \in T : \A x \in T : ~(<<x, m>> \in LessNat)
  BY <1>2, WFMin
<1>4. ASSUME NEW x \in T PROVE m <= x
  <2>1. m \in Nat /\ x \in Nat /\ <<x, m>> \in Nat \X Nat
    OBVIOUS
  <2>2. ~(x < m)
    BY <1>3, <2>1 DEF LessNat
  <2> QED BY <2>1, <2>2
<1> QED BY <1>4

\* The element that a fold takes next.
Chosen(s) == CHOOSE x \in s : TRUE

\* f is what a fold computes over the subsets of S: the sums of their weights.
IsSum(f, S, w) ==
    f = [s \in SUBSET S |-> IF s = {} THEN 0 ELSE w[Chosen(s)] + f[s \ {Chosen(s)}]]

\* There is such a function: on the subsets with at most n elements, for each n.
LEMMA SumExists ==
  ASSUME NEW S, IsFiniteSet(S), NEW w \in [S -> Nat]
  PROVE  \E f : IsSum(f, S, w)
<1> DEFINE Small(n) == {s \in SUBSET S : Cardinality(s) <= n}
           Step(f, s) == IF s = {} THEN 0 ELSE w[Chosen(s)] + f[s \ {Chosen(s)}]
           Good(n) == \E f : f = [s \in Small(n) |-> Step(f, s)]
           Bad == {n \in Nat : ~Good(n)}
<1>1. \A s \in SUBSET S : IsFiniteSet(s) /\ Cardinality(s) \in Nat /\ Cardinality(s) <= Cardinality(S)
  BY FS_Subset, FS_CardinalityType
<1>2. \A s \in SUBSET S : s # {} => /\ Chosen(s) \in s /\ s \ {Chosen(s)} \in SUBSET S
                                    /\ Cardinality(s) # 0
                                    /\ Cardinality(s \ {Chosen(s)}) = Cardinality(s) - 1
  BY <1>1, FS_RemoveElement, FS_EmptySet DEF Chosen
<1>3. Bad = {}
  <2> SUFFICES ASSUME Bad # {} PROVE FALSE
    OBVIOUS
  <2>1. PICK n \in Bad : \A x \in Bad : n <= x
    <3>1. Bad \in SUBSET Nat
      OBVIOUS
    <3> HIDE DEF Bad
    <3> QED BY <3>1, LeastNat
  <2>2. n \in Nat
    OBVIOUS
  <2>3. CASE n = 0
    <3>1. \A s \in Small(0) : s = {}
      BY <1>1, FS_EmptySet
    <3> DEFINE f == [s \in Small(0) |-> 0]
    <3>2. f = [s \in Small(0) |-> Step(f, s)]
      BY <3>1
    <3> HIDE DEF f
    <3>3. Good(0)
      BY <3>2
    <3> QED BY <2>1, <2>3, <3>3
  <2>4. CASE n # 0
    <3>1. n - 1 \in Nat /\ ~(n <= n - 1)
      BY <2>2, <2>4
    <3>2. Good(n - 1)
      BY <2>1, <3>1
    <3>3. PICK f : f = [s \in Small(n - 1) |-> Step(f, s)]
      BY <3>2
    <3> DEFINE g == [s \in Small(n) |-> Step(f, s)]
    <3>4. \A s \in Small(n - 1) : s \in Small(n)
      BY <1>1, <2>2, <3>1
    <3>5. \A s \in Small(n - 1) : f[s] = Step(f, s)
      BY <3>3
    <3>6. \A s \in Small(n - 1) : g[s] = f[s]
      BY <3>4, <3>5
    <3>7. \A s \in Small(n) : s # {} => s \ {Chosen(s)} \in Small(n - 1)
      BY <1>1, <1>2, <2>2, <3>1
    <3>8. \A s \in Small(n) : Step(f, s) = Step(g, s)
      BY <3>6, <3>7
    <3>9. g = [s \in Small(n) |-> Step(g, s)]
      BY <3>8
    <3> HIDE DEF g
    <3> QED BY <2>1, <3>9
  <2> QED BY <2>3, <2>4
<1>4. Cardinality(S) \in Nat
  BY FS_CardinalityType
<1>5. Good(Cardinality(S)) /\ Small(Cardinality(S)) = SUBSET S
  BY <1>1, <1>3, <1>4
<1> QED BY <1>5 DEF IsSum

\* It counts every element once, whichever it takes first.
TakesOut(f, S, w) ==
    /\ f[{}] = 0
    /\ \A s \in SUBSET S : f[s] \in Nat /\ \A x \in s : f[s] = w[x] + f[s \ {x}]

LEMMA SumTakesOut ==
  ASSUME NEW S, IsFiniteSet(S), NEW w \in [S -> Nat], NEW f, IsSum(f, S, w)
  PROVE  TakesOut(f, S, w)
<1> DEFINE OK(s) == f[s] \in Nat /\ \A x \in s : f[s] = w[x] + f[s \ {x}]
           Bad == {n \in Nat : \E s \in SUBSET S : Cardinality(s) = n /\ ~OK(s)}
<1>1. \A s \in SUBSET S : IsFiniteSet(s) /\ Cardinality(s) \in Nat
  BY FS_Subset, FS_CardinalityType
<1>2. \A s \in SUBSET S : \A x \in s : s \ {x} \in SUBSET S /\ Cardinality(s \ {x}) = Cardinality(s) - 1
  BY <1>1, FS_RemoveElement
<1>3. \A s \in SUBSET S : f[s] = IF s = {} THEN 0 ELSE w[Chosen(s)] + f[s \ {Chosen(s)}]
  BY DEF IsSum
<1>4. f[{}] = 0
  BY <1>3
<1>5. ASSUME Bad # {} PROVE FALSE
  <2>1. PICK n \in Bad : \A x \in Bad : n <= x
    <3>1. Bad \in SUBSET Nat
      OBVIOUS
    <3> HIDE DEF Bad
    <3> QED BY <1>5, <3>1, LeastNat
  <2>2. PICK s \in SUBSET S : Cardinality(s) = n /\ ~OK(s)
    OBVIOUS
  <2>3. n \in Nat
    OBVIOUS
  <2>4. ASSUME NEW x \in s PROVE OK(s \ {x})
    <3>1. s \ {x} \in SUBSET S /\ Cardinality(s \ {x}) = n - 1 /\ Cardinality(s \ {x}) \in Nat
      BY <1>1, <1>2, <2>2
    <3>2. n - 1 \notin Bad
      <4> HIDE DEF Bad
      <4> QED BY <2>1, <2>3
    <3>3. n - 1 \in Nat
      BY <3>1
    <3> QED BY <3>1, <3>2, <3>3
  <2> HIDE DEF Bad
  <2>5. s # {}
    BY <1>4, <2>2
  <2> DEFINE c == Chosen(s)
  <2>6. c \in s /\ c \in S /\ w[c] \in Nat
    BY <2>5 DEF Chosen
  <2>7. f[s] = w[c] + f[s \ {c}]
    BY <1>3, <2>5
  <2> HIDE DEF c
  <2>8. f[s \ {c}] \in Nat /\ f[s] \in Nat
    <3>1. OK(s \ {c})
      BY <2>4, <2>6
    <3>2. f[s \ {c}] \in Nat
      BY <3>1
    <3> QED BY <2>6, <2>7, <3>2
  <2>9. ASSUME NEW x \in s PROVE f[s] = w[x] + f[s \ {x}]
    <3>1. CASE x = c
      BY <2>7, <3>1
    <3>2. CASE x # c
      <4>1. x \in s \ {c} /\ c \in s \ {x} /\ (s \ {c}) \ {x} = (s \ {x}) \ {c} /\ x \in S
        BY <2>6, <3>2
      <4>2. f[s \ {c}] = w[x] + f[(s \ {c}) \ {x}]
        BY <2>4, <2>6, <4>1
      <4>3. f[s \ {x}] = w[c] + f[(s \ {x}) \ {c}]
        BY <2>4, <4>1
      <4>4. w[x] \in Nat /\ f[(s \ {c}) \ {x}] \in Nat
        <5>1. (s \ {c}) \ {x} \in SUBSET S /\ Cardinality((s \ {c}) \ {x}) = n - 1 - 1
              /\ Cardinality((s \ {c}) \ {x}) \in Nat
          <6>1. s \ {c} \in SUBSET S /\ Cardinality(s \ {c}) = n - 1
            BY <1>2, <2>2, <2>6
          <6> QED BY <1>1, <1>2, <4>1, <6>1
        <5>2. n - 1 - 1 \notin Bad
          BY <2>1, <2>3
        <5> QED BY <4>1, <5>1, <5>2 DEF Bad
      <4> DEFINE r == f[(s \ {c}) \ {x}]
      <4>5. f[s] = w[c] + (w[x] + r) /\ f[s \ {x}] = w[c] + r /\ r \in Nat /\ w[x] \in Nat
        BY <2>7, <4>1, <4>2, <4>3, <4>4
      <4> HIDE DEF r
      <4> QED BY <2>6, <4>5
    <3> QED BY <3>1, <3>2
  <2> QED BY <2>2, <2>8, <2>9
<1>6. \A s \in SUBSET S : OK(s)
  BY <1>1, <1>5
<1> QED BY <1>4, <1>6 DEF TakesOut

\* e numbers the elements of S.
Numbers(e, N, S) ==
    /\ e \in [1 .. N -> S] /\ S = {e[j] : j \in 1 .. N}
    /\ \A i, j \in 1 .. N : e[i] = e[j] => i = j

\* The fold is the last of the partial sums.
LEMMA SumAlong ==
  ASSUME NEW S, IsFiniteSet(S), NEW w \in [S -> Nat], NEW f, IsSum(f, S, w),
         NEW N \in Nat, NEW e, Numbers(e, N, S),
         NEW g, NEW v, Sums(g, v, N), \A i \in 1 .. N : v[i] = w[e[i]]
  PROVE  f[S] = g[N]
<1>0. e \in [1 .. N -> S] /\ \A i, j \in 1 .. N : e[i] = e[j] => i = j
  BY DEF Numbers
<1> DEFINE First(i) == {e[j] : j \in 1 .. i}
           Bad == {i \in 0 .. N : f[First(i)] # g[i]}
<1>1. /\ f[{}] = 0
      /\ \A s \in SUBSET S : f[s] \in Nat /\ \A x \in s : f[s] = w[x] + f[s \ {x}]
  <2>1. TakesOut(f, S, w)
    BY SumTakesOut
  <2> QED BY <2>1 DEF TakesOut
<1>2. /\ \A i \in 0 .. N : g[i] \in Nat
      /\ g[0] = 0 /\ \A i \in 1 .. N : g[i] = g[i - 1] + v[i]
  BY DEF Sums
<1>3. ASSUME Bad # {} PROVE FALSE
  <2>1. PICK i \in Bad : \A x \in Bad : i <= x
    <3>1. Bad \in SUBSET Nat
      OBVIOUS
    <3> HIDE DEF Bad
    <3> QED BY <1>3, <3>1, LeastNat
  <2>2. i \in 0 .. N /\ f[First(i)] # g[i]
    OBVIOUS
  <2>3. CASE i = 0
    <3>1. First(0) = {}
      OBVIOUS
    <3> QED BY <1>1, <1>2, <2>2, <2>3, <3>1
  <2>4. CASE i # 0
    <3>1. i \in 1 .. N /\ i - 1 \in 0 .. N /\ ~(i <= i - 1)
      BY <2>2, <2>4
    <3>2. f[First(i - 1)] = g[i - 1]
      BY <2>1, <3>1
    <3>3. First(i) \in SUBSET S /\ e[i] \in First(i) /\ e[i] \in S
      BY <1>0, <3>1
    <3>4. First(i) \ {e[i]} = First(i - 1)
      <4>1. \A j \in 1 .. i : j \in 1 .. N /\ (j # i <=> j \in 1 .. i - 1)
        BY <3>1
      <4>2. \A j \in 1 .. i - 1 : j \in 1 .. i /\ j # i
        BY <3>1
      <4>3. \A j \in 1 .. i : j # i => e[j] # e[i]
        BY <1>0, <3>1, <4>1
      <4>4. First(i) \ {e[i]} \subseteq First(i - 1)
        BY <4>1, <4>3
      <4>5. First(i - 1) \subseteq First(i) \ {e[i]}
        BY <4>2, <4>3
      <4> QED BY <4>4, <4>5
    <3> HIDE DEF First, Bad
    <3>5. f[First(i)] = w[e[i]] + f[First(i - 1)]
      <4>1. \A x \in First(i) : f[First(i)] = w[x] + f[First(i) \ {x}]
        BY <1>1, <3>3
      <4> QED BY <3>3, <3>4, <4>1
    <3>6. g[i] = g[i - 1] + w[e[i]] /\ g[i - 1] \in Nat /\ w[e[i]] \in Nat
      BY <1>2, <3>1, <3>3
    <3> QED BY <2>2, <3>2, <3>5, <3>6
  <2> QED BY <2>3, <2>4
<1>4. First(N) = S
  BY DEF Numbers
<1>5. f[First(N)] = g[N]
  <2>1. N \in 0 .. N
    OBVIOUS
  <2>2. Bad = {}
    BY <1>3
  <2> HIDE DEF First
  <2> QED BY <2>1, <2>2
<1> QED
  <2> HIDE DEF First
  <2> QED BY <1>4, <1>5

\* sizeBytes is the sum of the weights of the nodes.
Weights == [i \in 1 .. Len(nodes) |-> nodes[i].key + nodes[i].value]

LEMMA WeightFacts ==
  ASSUME Types
  PROVE  /\ Len(nodes) \in Nat /\ Weights \in [1 .. Len(nodes) -> Nat]
         /\ \A i \in 1 .. Len(nodes) : Weights[i] = nodes[i].key + nodes[i].value
<1>1. \A i \in 1 .. Len(nodes) : nodes[i].key \in Nat /\ nodes[i].value \in Nat
  BY NodeFacts, SkipListAssumption
<1> QED BY <1>1, NodeFacts DEF Weights

-----------------------------------------------------------------------------
(* Steps that only move the call *)

List == <<nodes, next, level, size, sizeBytes, latest>>

LEMMA OnlyCall ==
  ASSUME ListInv, UNCHANGED List, call' # Done => call' \in CallRecords /\ CallOK'
  PROVE  ListInv'
<1>1. UNCHANGED <<nodes, next, level, size, sizeBytes, latest>> /\ AllNodes' = AllNodes
  BY DEF List, AllNodes
<1>2. Types'
  BY <1>1 DEF ListInv, Types
<1>3. Links'
  BY <1>1 DEF ListInv, Links, NextOK, Later, KeyOf, Height
<1>4. Contents'
  BY <1>1 DEF ListInv, Contents
<1>5. \E f : PartialSums(f)'
  BY <1>1 DEF ListInv, PartialSums
<1> QED BY <1>2, <1>3, <1>4, <1>5 DEF ListInv

\* What CallOK says of a call c, whatever the call is now.
CallAt(c) ==
    /\ c.current \in AllNodes /\ c.update \in [Levels -> AllNodes]
    /\ c.level \in 0 .. level /\ Height(c.current) >= c.level
    /\ c.kind = "scan" => c.level = 1 /\ c.seen = Cardinality(Visited(c.current))
    /\ c.kind # "scan" => c.key \in Keys /\ KeyOf(c.current) < c.key
    /\ c.kind # "scan" /\ c.level = 0 => Before(c.current, 1, c.key)
    /\ c.kind = "put" =>
          /\ c.value \in Lengths
          /\ \A i \in c.level + 1 .. level : Before(c.update[i], i, c.key)

LEMMA CallMove ==
  ASSUME ListInv, UNCHANGED List, NEW c \in CallRecords, CallAt(c), call' = c
  PROVE  ListInv'
<1>1. UNCHANGED <<nodes, next, level, size, sizeBytes, latest>> /\ AllNodes' = AllNodes
  BY DEF List, AllNodes
<1>2. CallOK'
  BY <1>1 DEF CallOK, CallAt, Before, Visited, KeyOf, Height
<1> QED BY <1>2, OnlyCall

LEMMA DoneMove ==
  ASSUME ListInv, UNCHANGED List, call' = Done
  PROVE  ListInv'
BY OnlyCall

LEMMA InvParts ==
  ASSUME ListInv
  PROVE  Types /\ Links /\ Contents /\ (call # Done => call \in CallRecords /\ CallAt(call))
<1>1. Types /\ Links /\ Contents /\ (call # Done => CallOK)
  BY DEF ListInv
<1>2. call # Done => call \in CallRecords
  BY <1>1 DEF Types
<1> QED BY <1>1, <1>2 DEF CallOK, CallAt

LEMMA BeginMove ==
  ASSUME ListInv, NEW kind \in {"put", "get", "scan"}, NEW k \in Nat, NEW v \in Nat,
         kind # "scan" => k \in Keys, kind = "put" => v \in Lengths, Begin(kind, k, v)
  PROVE  ListInv'
<1>0. USE InvParts, KeyFacts, NodeFacts
<1> DEFINE c == [kind |-> kind, key |-> k, value |-> v, current |-> HeadNode,
                 level |-> IF kind = "scan" THEN 1 ELSE level,
                 update |-> [i \in Levels |-> HeadNode], seen |-> 0]
<1>1. call' = c /\ UNCHANGED List
  BY DEF Begin, List
<1>2. level \in Levels /\ level \in Nat /\ level >= 1 /\ level <= MaxLevel /\ MaxLevel \in Nat
  BY DEF Types, Levels
<1>3. /\ c \in CallRecords /\ c.kind = kind /\ c.key = k /\ c.value = v /\ c.current = 0 /\ c.seen = 0
      /\ c.level = (IF kind = "scan" THEN 1 ELSE level) /\ c.update = [i \in Levels |-> 0]
  BY <1>2 DEF CallRecords, HeadNode
<1>4. Cardinality(Visited(0)) = 0
  <2>1. Visited(0) = {}
    BY DEF Visited
  <2> QED BY <2>1, FS_EmptySet
<1> HIDE DEF c
<1>5. CallAt(c)
  <2>1. c.current \in AllNodes /\ c.update \in [Levels -> AllNodes]
    BY <1>3
  <2>2. c.level \in 0 .. level /\ Height(c.current) >= c.level /\ c.level # 0
    BY <1>2, <1>3
  <2>3. c.kind = "scan" => c.level = 1 /\ c.seen = Cardinality(Visited(c.current))
    BY <1>3, <1>4
  <2>4. c.kind # "scan" => c.key \in Keys /\ KeyOf(c.current) < c.key
    BY <1>3
  <2>5. c.kind = "put" => c.value \in Lengths /\ c.level + 1 .. level = {}
    BY <1>2, <1>3
  <2> QED BY <2>1, <2>2, <2>3, <2>4, <2>5 DEF CallAt
<1> QED BY <1>1, <1>3, <1>5, CallMove

LEMMA AdvanceMove ==
  ASSUME ListInv, Advance
  PROVE  ListInv'
<1>0. USE InvParts, KeyFacts, NodeFacts
<1> DEFINE c == [call EXCEPT !.current = Ahead]
           n == call.current
           i == call.level
<1>1. /\ call # Done /\ call.kind # "scan" /\ i > 0 /\ Ahead # End /\ nodes[Ahead].key < call.key
      /\ call' = c /\ UNCHANGED List
  BY DEF Advance, Searching, Less, List
<1>2. call \in CallRecords /\ CallAt(call)
  BY <1>1
<1>3. /\ n \in AllNodes /\ i \in 0 .. level /\ Height(n) >= i /\ level \in Levels /\ Height(n) \in Levels
      /\ i \in Nat
  BY <1>2 DEF CallAt, Types, CallRecords
<1>4. i \in Levels
  BY <1>1, <1>3 DEF Levels
<1>5. Ahead = next[n][i] /\ Ahead \in 1 .. Len(nodes)
  BY <1>1, <1>3, <1>4, NextFacts DEF Ahead
<1>6. Later(Ahead, n, i)
  BY <1>1, <1>3, <1>4, <1>5 DEF Links, NextOK
<1>7. Ahead \in AllNodes /\ Height(Ahead) >= i /\ KeyOf(Ahead) < call.key /\ Ahead \in Nat
  BY <1>1, <1>5, <1>6 DEF Later
<1>8. /\ c \in CallRecords /\ c.kind = call.kind /\ c.key = call.key /\ c.value = call.value
      /\ c.level = i /\ c.update = call.update /\ c.current = Ahead
  BY <1>2, <1>7 DEF CallRecords
<1> HIDE DEF c
<1>9. CallAt(c)
  <2>1. c.update \in [Levels -> AllNodes]
    BY <1>2, <1>8 DEF CallAt
  <2>2. c.kind # "scan" /\ c.level # 0 /\ c.key \in Keys /\ c.level \in 0 .. level
    <3>1. call.key \in Keys
      BY <1>1, <1>2 DEF CallAt
    <3>2. i # 0
      BY <1>1, <1>3
    <3> QED BY <1>1, <1>3, <1>8, <3>1, <3>2
  <2>3. c.kind = "put" => /\ c.value \in Lengths
                          /\ \A j \in c.level + 1 .. level : Before(c.update[j], j, c.key)
    BY <1>2, <1>8 DEF CallAt
  <2> QED BY <1>7, <1>8, <2>1, <2>2, <2>3 DEF CallAt
<1> QED BY <1>1, <1>8, <1>9, CallMove

LEMMA DescendMove ==
  ASSUME ListInv, Descend
  PROVE  ListInv'
<1>0. USE InvParts, KeyFacts, NodeFacts
<1> DEFINE n == call.current
           i == call.level
           u == [call.update EXCEPT ![i] = IF call.kind = "put" THEN n ELSE HeadNode]
           c == [call EXCEPT !.level = i - 1, !.update = u]
<1>1. /\ call # Done /\ call.kind # "scan" /\ i > 0 /\ ~(Ahead # End /\ nodes[Ahead].key < call.key)
      /\ UNCHANGED List
  BY DEF Descend, Searching, Less, List
<1>2. call \in CallRecords /\ CallAt(call)
  BY <1>1
<1>3. call' = c
  BY <1>2 DEF Descend, CallRecords
<1>4. /\ n \in AllNodes /\ i \in 0 .. level /\ Height(n) >= i /\ level \in Levels /\ Height(n) \in Levels
      /\ i \in Nat /\ level \in Nat /\ n \in Nat
  BY <1>2 DEF CallAt, Types, CallRecords
<1>5. i \in Levels /\ i - 1 \in Nat /\ i - 1 \in 0 .. level
  BY <1>1, <1>4 DEF Levels
<1>6. Ahead = next[n][i] /\ (Ahead = End \/ Ahead \in 1 .. Len(nodes))
  BY <1>4, <1>5, NextFacts DEF Ahead
<1>7. Before(n, i, call.key) /\ call.key \in Keys
  <2>1. KeyOf(n) < call.key /\ call.key \in Keys
    BY <1>1, <1>2 DEF CallAt
  <2>2. Ahead # End => KeyOf(Ahead) >= call.key
    BY <1>1, <1>6, <2>1
  <2> QED BY <1>4, <1>6, <2>1, <2>2 DEF Before
<1>8. /\ u \in [Levels -> AllNodes] /\ u \in [Levels -> Nat]
      /\ call.kind = "put" => u[i] = n /\ \A j \in Levels \ {i} : u[j] = call.update[j]
  <2>1. call.update \in [Levels -> AllNodes]
    BY <1>2 DEF CallAt
  <2>2. HeadNode \in AllNodes
    BY DEF HeadNode
  <2>3. u \in [Levels -> AllNodes]
    BY <1>4, <1>5, <2>1, <2>2
  <2>4. AllNodes \subseteq Nat
    OBVIOUS
  <2>5. call.kind = "put" => u[i] = n /\ \A j \in Levels \ {i} : u[j] = call.update[j]
    BY <1>5, <2>1
  <2>6. u \in [Levels -> Nat]
    <3> HIDE DEF u
    <3> QED BY <2>3, <2>4
  <2> QED BY <2>3, <2>5, <2>6
<1> HIDE DEF u
<1>9. /\ c \in CallRecords /\ c.kind = call.kind /\ c.key = call.key /\ c.value = call.value
      /\ c.level = i - 1 /\ c.update = u /\ c.current = n
  BY <1>2, <1>5, <1>8 DEF CallRecords
<1> HIDE DEF c
<1>10. c.kind = "put" => /\ c.value \in Lengths
                         /\ \A j \in c.level + 1 .. level : Before(c.update[j], j, c.key)
  <2> SUFFICES ASSUME c.kind = "put", NEW j \in i .. level PROVE c.value \in Lengths /\ Before(u[j], j, c.key)
    BY <1>4, <1>9
  <2>1. c.value \in Lengths
    BY <1>2, <1>9 DEF CallAt
  <2>2. CASE j = i
    BY <1>7, <1>8, <1>9, <2>1, <2>2
  <2>3. CASE j # i
    <3>1. j \in i + 1 .. level /\ j \in Levels \ {i}
      BY <1>4, <1>5, <2>3 DEF Levels
    <3>2. Before(call.update[j], j, call.key)
      BY <1>2, <1>9, <3>1 DEF CallAt
    <3> QED BY <1>8, <1>9, <2>1, <3>1, <3>2
  <2> QED BY <2>2, <2>3
<1>11. c.level = 0 => Before(n, 1, c.key)
  <2>1. c.level = 0 => i = 1
    BY <1>4, <1>9
  <2> QED BY <1>7, <1>9, <2>1
<1>12. CallAt(c)
  <2>1. Height(n) >= i - 1
    BY <1>4, <1>5 DEF Levels
  <2>2. c.kind # "scan" /\ c.key \in Keys /\ KeyOf(n) < c.key
    BY <1>1, <1>7, <1>9 DEF Before
  <2> QED BY <1>4, <1>5, <1>8, <1>9, <1>10, <1>11, <2>1, <2>2 DEF CallAt
<1> QED BY <1>1, <1>3, <1>9, <1>12, CallMove

LEMMA VisitedFinite ==
  ASSUME NEW n
  PROVE  IsFiniteSet(Visited(n)) /\ Cardinality(Visited(n)) \in Nat
<1>1. Visited(n) \subseteq Keys /\ IsFiniteSet(Keys)
  BY SkipListAssumption DEF Visited
<1>2. IsFiniteSet(Visited(n))
  BY <1>1, FS_Subset
<1> QED BY <1>2, FS_CardinalityType

\* The iterator goes from n to the next key.
LEMMA VisitsNext ==
  ASSUME Types, Links, Contents, NEW n \in AllNodes, next[n][1] # End
  PROVE  /\ next[n][1] \in 1 .. Len(nodes)
         /\ Cardinality(Visited(next[n][1])) = Cardinality(Visited(n)) + 1
<1>0. USE KeyFacts, NodeFacts
<1> DEFINE m == next[n][1]
<1>1. 1 <= Height(n) /\ m \in 1 .. Len(nodes) /\ m \in AllNodes
  BY NextFacts DEF Levels
<1>2. NextOK(n, 1)
  BY <1>1 DEF Links
<1>3. KeyOf(m) > KeyOf(n) /\ \A p \in AllNodes : Later(p, n, 1) => KeyOf(m) <= KeyOf(p)
  BY <1>2 DEF NextOK, Later
<1>4. KeyOf(m) \in Keys /\ KeyOf(m) \in Nat /\ KeyOf(n) \in Nat /\ KeyOf(m) = nodes[m].key
  BY <1>1
<1>5. latest[KeyOf(m)] # NotFound
  BY <1>1, <1>4, SkipListAssumption DEF Contents
<1>6. ASSUME NEW k \in Keys, latest[k] # NotFound, k > KeyOf(n) PROVE KeyOf(m) <= k
  <2>1. PICK p \in 1 .. Len(nodes) : nodes[p].key = k
    BY <1>6 DEF Contents
  <2>2. KeyOf(p) = k /\ Height(p) \in Levels /\ p \in AllNodes
    BY <2>1
  <2>3. Later(p, n, 1)
    BY <1>6, <2>2 DEF Later, Levels
  <2> QED BY <1>3, <2>2, <2>3
<1> HIDE DEF m
<1>7. Visited(m) = Visited(n) \cup {KeyOf(m)} /\ KeyOf(m) \notin Visited(n)
  <2>1. \A k \in Keys : k \in Nat
    OBVIOUS
  <2>2. ASSUME NEW k \in Visited(m) PROVE k \in Visited(n) \cup {KeyOf(m)}
    BY <1>4, <1>6, <2>1 DEF Visited
  <2>3. ASSUME NEW k \in Visited(n) PROVE k \in Visited(m)
    BY <1>3, <1>4, <2>1 DEF Visited
  <2>4. KeyOf(m) \in Visited(m)
    BY <1>4, <1>5 DEF Visited
  <2>5. KeyOf(m) \notin Visited(n)
    BY <1>3, <1>4 DEF Visited
  <2> QED BY <2>2, <2>3, <2>4, <2>5
<1>8. Cardinality(Visited(m)) = Cardinality(Visited(n)) + 1
  BY <1>7, VisitedFinite, FS_AddElement
<1> QED BY <1>1, <1>8 DEF m

LEMMA IteratorMove ==
  ASSUME ListInv, IteratorNext
  PROVE  ListInv'
<1>0. USE InvParts, KeyFacts, NodeFacts
<1> DEFINE n == call.current
           m == next[n][1]
           c == [call EXCEPT !.current = m, !.seen = call.seen + 1]
<1>1. /\ call # Done /\ call.kind = "scan" /\ UNCHANGED List
      /\ call' = IF m = End THEN Done ELSE c
  BY DEF IteratorNext, List
<1>2. CASE m = End
  BY <1>1, <1>2, DoneMove
<1>3. CASE m # End
  <2>1. call \in CallRecords /\ CallAt(call) /\ call' = c
    BY <1>1, <1>3
  <2>2. /\ n \in AllNodes /\ call.level = 1 /\ call.seen = Cardinality(Visited(n)) /\ call.seen \in Nat
        /\ call.update \in [Levels -> AllNodes] /\ 1 \in 0 .. level
    BY <1>1, <2>1 DEF CallAt, CallRecords
  <2>3. m \in 1 .. Len(nodes) /\ Cardinality(Visited(m)) = call.seen + 1
    BY <1>3, <2>2, VisitsNext
  <2> HIDE DEF m
  <2>6. m \in Nat /\ m \in AllNodes /\ Height(m) \in Levels
    BY <2>3
  <2>7. Height(m) >= 1
    BY <2>6 DEF Levels
  <2>4. /\ c \in CallRecords /\ c.kind = "scan" /\ c.current = m /\ c.level = 1
        /\ c.seen = call.seen + 1 /\ c.update = call.update
    <3>1. call.seen + 1 \in Nat
      BY ONLY <2>2
    <3> QED BY ONLY <1>1, <2>1, <2>2, <2>6, <3>1 DEF CallRecords
  <2> HIDE DEF c, n
  <2>5. CallAt(c)
    BY <2>2, <2>3, <2>4, <2>6, <2>7 DEF CallAt
  <2> QED BY <1>1, <2>1, <2>4, <2>5, CallMove
<1> QED BY <1>2, <1>3

-----------------------------------------------------------------------------
(* Put *)

\* The searched key is at Found, or nowhere.
LEMMA FoundFacts ==
  ASSUME ListInv, NEW kind \in {"put", "get"}, Searched(kind)
  PROVE  /\ call \in CallRecords /\ CallAt(call) /\ call.kind = kind /\ call.key \in Keys
         /\ IsFound => Found \in 1 .. Len(nodes) /\ nodes[Found].key = call.key
         /\ ~IsFound => \A m \in 1 .. Len(nodes) : nodes[m].key # call.key
<1>1. /\ call \in CallRecords /\ CallAt(call) /\ call.kind = kind /\ kind # "scan" /\ call.level = 0
  BY InvParts DEF Searched
<1>2. call.key \in Keys /\ Before(call.current, 1, call.key)
  BY <1>1 DEF CallAt
<1>3. IF next[call.current][1] # End /\ nodes[next[call.current][1]].key = call.key
      THEN next[call.current][1] \in 1 .. Len(nodes)
      ELSE \A m \in 1 .. Len(nodes) : nodes[m].key # call.key
  BY <1>2, InvParts, SearchEnds
<1> QED BY <1>1, <1>2, <1>3 DEF IsFound, Found

LEMMA OverwriteMove ==
  ASSUME ListInv, Overwrite
  PROVE  ListInv'
<1>0. USE InvParts, KeyFacts, NodeFacts
<1> DEFINE x == Found
           v == call.value
           old == nodes[x].value
           N == Len(nodes)
           y == [nodes[x] EXCEPT !.value = v]
<1>a. /\ x \in 1 .. N /\ nodes[x].key = call.key /\ call.key \in Keys
      /\ CallAt(call) /\ call.kind = "put"
  BY FoundFacts DEF Overwrite
<1>b. v \in Lengths
  BY <1>a DEF CallAt
<1>1. x \in 1 .. N /\ nodes[x].key = call.key /\ call.key \in Keys /\ v \in Lengths
  BY <1>a, <1>b
<1>2. /\ nodes' = [nodes EXCEPT ![x] = y]
      /\ sizeBytes' = sizeBytes + v - old
      /\ latest' = [latest EXCEPT ![call.key] = v] /\ call' = Done
      /\ UNCHANGED <<next, level, size>>
  BY DEF Overwrite
<1>3. y \in NodeRecords /\ y.key = nodes[x].key /\ y.value = v /\ y.height = nodes[x].height
  BY <1>1 DEF NodeRecords
<1> HIDE DEF y, x, v
<1>4. /\ nodes' \in Seq(NodeRecords) /\ Len(nodes') = N /\ nodes'[x] = y
      /\ \A m \in 1 .. N : m # x => nodes'[m] = nodes[m]
  <2>1. nodes \in Seq(NodeRecords)
    BY DEF Types
  <2> QED BY ONLY <1>1, <1>2, <1>3, <2>1
<1>5. /\ \A m \in 1 .. N : nodes'[m].key = nodes[m].key /\ nodes'[m].height = nodes[m].height
      /\ AllNodes' = AllNodes
  BY <1>3, <1>4 DEF AllNodes
<1>6. \A m \in AllNodes : KeyOf(m)' = KeyOf(m) /\ Height(m)' = Height(m)
  BY <1>5 DEF KeyOf, Height, HeadNode
<1>7. Types'
  BY <1>1, <1>2, <1>4, <1>5 DEF Types
<1>8. Links'
  <2>1. ASSUME NEW n \in AllNodes, NEW i \in Levels, NextOK(n, i) PROVE NextOK(n, i)'
    BY <1>2, <1>5, <1>6, <2>1, NextFacts DEF NextOK, Later
  <2> QED BY <1>2, <1>4, <1>5, <1>6, <2>1 DEF Links
<1>9. Contents'
  <2>1. \A k \in Keys : latest'[k] = IF k = call.key THEN v ELSE latest[k]
    BY <1>1, <1>2 DEF Types
  <2>2. ASSUME NEW m \in 1 .. N PROVE latest'[nodes'[m].key] = nodes'[m].value
    <3>1. CASE m = x
      BY <1>1, <1>3, <1>4, <2>1, <3>1
    <3>2. CASE m # x
      <4>1. nodes[m].key # call.key
        <5>1. KeyOf(m) # KeyOf(x)
          BY <1>1, <3>2 DEF Links
        <5> QED BY <1>1, <5>1
      <4> QED BY <1>4, <2>1, <3>2, <4>1 DEF Contents
    <3> QED BY <3>1, <3>2
  <2>3. ASSUME NEW k \in Keys, latest'[k] # NotFound PROVE \E m \in 1 .. N : nodes'[m].key = k
    <3>1. CASE k = call.key
      BY <1>1, <1>3, <1>4, <3>1
    <3>2. CASE k # call.key
      <4>1. latest[k] # NotFound
        BY <2>1, <2>3, <3>2
      <4>2. PICK m \in 1 .. N : nodes[m].key = k
        BY <4>1 DEF Contents
      <4> QED BY <1>5, <4>2
    <3> QED BY <3>1, <3>2
  <2> QED BY <1>4, <2>2, <2>3 DEF Contents
<1>10. \E f : PartialSums(f)'
  <2>1. PICK f : PartialSums(f)
    BY DEF ListInv
  <2>2. N \in Nat /\ Weights \in [1 .. N -> Nat] /\ \A i \in 1 .. N : Weights[i] = nodes[i].key + nodes[i].value
    BY WeightFacts
  <2>3. Sums(f, Weights, N)
    BY <2>1, <2>2 DEF PartialSums, Sums
  <2> DEFINE d == nodes[x].key + v
             z == [Weights EXCEPT ![x] = d]
  <2>4. nodes[x].key \in Nat /\ v \in Nat /\ old \in Nat
    BY <1>1, SkipListAssumption
  <2>5. d \in Nat
    BY <2>4
  <2>6. \A i \in 1 .. N : z[i] = nodes'[i].key + nodes'[i].value
    BY <1>3, <1>4, <2>2
  <2> HIDE DEF d
  <2>7. PICK g : Sums(g, z, N) /\ g[N] = f[N] + d - Weights[x]
    BY ONLY <1>1, <2>2, <2>3, <2>5, SumsReplace
  <2>8. g[N] = sizeBytes'
    <3>1. f[N] = sizeBytes /\ f[N] \in Nat
      BY <2>1, <2>2 DEF PartialSums
    <3>2. Weights[x] = nodes[x].key + old
      BY <1>1, <2>2
    <3>3. sizeBytes' = sizeBytes + v - old
      BY <1>2
    <3> HIDE DEF old, N
    <3> QED BY ONLY <2>4, <2>7, <3>1, <3>2, <3>3 DEF d
  <2> HIDE DEF z
  <2>9. /\ g \in [0 .. N -> Nat] /\ g[0] = 0
        /\ \A i \in 1 .. N : g[i] = g[i - 1] + (nodes'[i].key + nodes'[i].value)
        /\ \A i, j \in 0 .. N : i <= j => g[i] <= g[j]
    BY <2>6, <2>7 DEF Sums
  <2>10. PartialSums(g)'
    BY ONLY <1>4, <2>8, <2>9 DEF PartialSums
  <2> QED BY <2>10
<1> QED BY <1>2, <1>7, <1>8, <1>9, <1>10 DEF ListInv

\* On each level the new node belongs behind Update(i).
LEMMA UpdateBefore ==
  ASSUME ListInv, Searched("put"), NEW i \in Levels
  PROVE  Before(Update(i), i, call.key) /\ Update(i) \in AllNodes /\ NextOK(Update(i), i)
<1>0. USE InvParts, KeyFacts, NodeFacts
<1>1. CallAt(call) /\ call.kind = "put" /\ call.key \in Keys /\ call.level = 0 /\ level \in Nat /\ i \in Nat
  <2>1. CallAt(call) /\ call.kind = "put" /\ call.key \in Keys
    BY FoundFacts
  <2>2. call.level = 0 /\ level \in Nat
    BY DEF Searched, Types, Levels
  <2> QED BY <2>1, <2>2
<1>2. CASE i <= level
  <2>1. Update(i) = call.update[i] /\ i \in call.level + 1 .. level
    BY <1>1, <1>2 DEF Update, Levels
  <2>2. Before(Update(i), i, call.key)
    BY <1>1, <2>1 DEF CallAt
  <2> QED BY <2>2 DEF Before, Links
<1>3. CASE ~(i <= level)
  <2>1. Update(i) = 0 /\ 0 \in AllNodes /\ Height(0) >= i /\ KeyOf(0) < call.key
    BY <1>1, <1>3 DEF Update, HeadNode, Levels
  <2>2. NextOK(0, i)
    BY <2>1 DEF Links
  <2>3. next[0][i] = End
    <3> SUFFICES ASSUME next[0][i] # End PROVE FALSE
      OBVIOUS
    <3>1. next[0][i] \in 1 .. Len(nodes) /\ Height(next[0][i]) >= i
      BY <2>1, <2>2, NextFacts DEF NextOK, Later
    <3>2. Height(next[0][i]) <= level /\ Height(next[0][i]) \in Nat
      BY <3>1 DEF Links
    <3> QED BY <1>1, <1>3, <3>1, <3>2
  <2> QED BY <2>1, <2>2, <2>3 DEF Before
<1> QED BY <1>2, <1>3

\* The new node and the old ones, after Insert with a node of height h.
LEMMA InsertFacts ==
  ASSUME ListInv, Searched("put"), ~IsFound, NEW h \in Levels, NEW p, p = Len(nodes) + 1,
         nodes' = Append(nodes, [key |-> call.key, value |-> call.value, height |-> h]),
         next' = Linked(p, h)
  PROVE  /\ call.key \in Keys /\ call.value \in Lengths
         /\ nodes' \in Seq(NodeRecords) /\ Len(nodes') = p
         /\ AllNodes' = AllNodes \cup {p} /\ p \notin AllNodes
         /\ \A m \in 1 .. Len(nodes) : nodes'[m] = nodes[m] /\ nodes[m].key # call.key
         /\ nodes'[p] = [key |-> call.key, value |-> call.value, height |-> h]
         /\ \A m \in AllNodes : KeyOf(m)' = KeyOf(m) /\ Height(m)' = Height(m) /\ KeyOf(m) # call.key
         /\ KeyOf(p)' = call.key /\ Height(p)' = h
         /\ \A i \in Levels :
               /\ next'[p][i] = IF i <= h THEN next[Update(i)][i] ELSE End
               /\ \A m \in AllNodes : next'[m][i] = IF i <= h /\ m = Update(i) THEN p ELSE next[m][i]
<1>0. USE InvParts, KeyFacts, NodeFacts
<1> DEFINE N == Len(nodes)
           y == [key |-> call.key, value |-> call.value, height |-> h]
<1>1. call.key \in Keys /\ CallAt(call) /\ call.kind = "put" /\ \A m \in 1 .. N : nodes[m].key # call.key
  BY FoundFacts
<1>2. call.value \in Lengths
  BY <1>1 DEF CallAt
<1>3. y \in NodeRecords /\ N \in Nat /\ p = N + 1 /\ nodes \in Seq(NodeRecords)
  BY <1>1, <1>2 DEF NodeRecords, Types
<1> HIDE DEF y
<1>4. nodes' = Append(nodes, y)
  BY DEF y
<1>5. /\ nodes' \in Seq(NodeRecords) /\ Len(nodes') = p /\ nodes'[p] = y
      /\ \A m \in 1 .. N : nodes'[m] = nodes[m]
  BY ONLY <1>3, <1>4, AppendProperties
<1>6. AllNodes' = AllNodes \cup {p} /\ p \notin AllNodes /\ p # 0
  BY ONLY <1>3, <1>5 DEF AllNodes
<1>7. \A m \in AllNodes : KeyOf(m)' = KeyOf(m) /\ Height(m)' = Height(m) /\ KeyOf(m) # call.key
  <2> SUFFICES ASSUME NEW m \in AllNodes
               PROVE  KeyOf(m)' = KeyOf(m) /\ Height(m)' = Height(m) /\ KeyOf(m) # call.key
    OBVIOUS
  <2>1. CASE m = 0
    BY <1>1, <2>1 DEF KeyOf, Height, HeadNode
  <2>2. CASE m \in 1 .. N
    BY <1>1, <1>5, <2>2 DEF KeyOf, Height, HeadNode
  <2> QED BY <2>1, <2>2
<1>8. KeyOf(p)' = call.key /\ Height(p)' = h
  BY <1>3, <1>5, <1>6 DEF KeyOf, Height, HeadNode, y
<1>9. ASSUME NEW i \in Levels
      PROVE  /\ next'[p][i] = IF i <= h THEN next[Update(i)][i] ELSE End
             /\ \A m \in AllNodes : next'[m][i] = IF i <= h /\ m = Update(i) THEN p ELSE next[m][i]
  <2>1. p \in 0 .. p /\ \A m \in AllNodes : m \in 0 .. p /\ m # p
    BY ONLY <1>3 DEF AllNodes
  <2> QED BY ONLY <2>1, <1>9, next' = Linked(p, h) DEF Linked
<1> QED BY <1>1, <1>2, <1>5, <1>6, <1>7, <1>8, <1>9 DEF y

\* The new node is linked in on each of its levels, and on no other.
LEMMA InsertLinks ==
  ASSUME ListInv, Searched("put"), ~IsFound, NEW h \in Levels, NEW p, p = Len(nodes) + 1,
         nodes' = Append(nodes, [key |-> call.key, value |-> call.value, height |-> h]),
         next' = Linked(p, h),
         NEW n \in AllNodes', NEW i \in Levels, i <= Height(n)'
  PROVE  NextOK(n, i)'
<1> DEFINE k == call.key
           u == Update(i)
           q == next'[n][i]
           K(m) == IF m = 0 THEN 0 ELSE nodes'[m].key
           H(m) == IF m = 0 THEN MaxLevel ELSE nodes'[m].height
<1>0. \A m : KeyOf(m)' = K(m) /\ Height(m)' = H(m)
  BY DEF KeyOf, Height, HeadNode
<1>1. /\ k \in Nat /\ p \in Nat /\ p # End /\ i \in Nat /\ h \in Nat /\ AllNodes' = AllNodes \cup {p} /\ p \notin AllNodes
      /\ K(p) = k /\ H(p) = h
      /\ \A m \in AllNodes : /\ K(m) = KeyOf(m) /\ H(m) = Height(m) /\ KeyOf(m) # k
                             /\ KeyOf(m) \in Nat /\ Height(m) \in Nat
  <2>1. Types /\ p \in Nat
    BY InvParts, NodeFacts
  <2> HIDE DEF K, H
  <2> QED BY <1>0, <2>1, InsertFacts, KeyFacts, SkipListAssumption
<1>2. /\ next'[p][i] = IF i <= h THEN next[u][i] ELSE End
      /\ \A m \in AllNodes : next'[m][i] = IF i <= h /\ m = u THEN p ELSE next[m][i]
  BY InsertFacts
<1>3. u \in AllNodes /\ Height(u) >= i /\ KeyOf(u) < k /\ (next[u][i] # End => KeyOf(next[u][i]) >= k)
  BY UpdateBefore DEF Before
<1>4. \A m \in AllNodes : next[m][i] # End => next[m][i] \in AllNodes
  BY InvParts, NextFacts, NodeFacts
<1>5. \A m \in AllNodes : i <= Height(m) => NextOK(m, i)
  BY InvParts DEF Links
<1>6. \A m1, m2 \in AllNodes : KeyOf(m1) = KeyOf(m2) => m1 = m2
  BY InvParts DEF Links
<1> SUFFICES /\ q = End => \A m \in AllNodes' : ~(K(m) > K(n) /\ H(m) >= i)
             /\ q # End => /\ K(q) > K(n) /\ H(q) >= i
                           /\ \A m \in AllNodes' : K(m) > K(n) /\ H(m) >= i => K(q) <= K(m)
  BY DEF NextOK, Later, KeyOf, Height, HeadNode
<1>a. i <= H(n)
  BY <1>0
<1> HIDE DEF k, u, q, K, H
<1>7. CASE n = p
  <2>1. i <= h /\ q = next[u][i] /\ K(n) = k
    BY <1>1, <1>2, <1>7, <1>a DEF q
  <2>2. /\ q = End => \A m \in AllNodes : ~(KeyOf(m) > KeyOf(u) /\ Height(m) >= i)
        /\ q # End => /\ KeyOf(q) > KeyOf(u) /\ Height(q) >= i /\ q \in AllNodes /\ KeyOf(q) >= k
                      /\ \A m \in AllNodes : KeyOf(m) > KeyOf(u) /\ Height(m) >= i => KeyOf(q) <= KeyOf(m)
    BY <1>3, <1>4, <1>5, <2>1 DEF NextOK, Later
  <2> QED BY ONLY <1>1, <1>3, <2>1, <2>2
<1>8. CASE n \in AllNodes /\ i <= h /\ n = u
  <2>1. q = p /\ K(n) = KeyOf(u) /\ q # End
    BY <1>1, <1>2, <1>8 DEF q
  <2>2. \A m \in AllNodes : KeyOf(m) > KeyOf(u) /\ Height(m) >= i => /\ next[u][i] # End
                                                                     /\ KeyOf(next[u][i]) <= KeyOf(m)
    BY <1>3, <1>5 DEF NextOK, Later
  <2>3. \A m \in AllNodes : KeyOf(m) > KeyOf(u) /\ Height(m) >= i => k <= KeyOf(m)
    <3> SUFFICES ASSUME NEW m \in AllNodes, KeyOf(m) > KeyOf(u), Height(m) >= i PROVE k <= KeyOf(m)
      OBVIOUS
    <3>1. next[u][i] \in AllNodes /\ KeyOf(next[u][i]) <= KeyOf(m) /\ KeyOf(next[u][i]) >= k
      BY <1>3, <1>4, <2>2
    <3> QED BY ONLY <1>1, <3>1, m \in AllNodes
  <2> QED BY ONLY <1>1, <1>3, <1>8, <2>1, <2>3
<1>9. CASE n \in AllNodes /\ ~(i <= h /\ n = u)
  <2>1. q = next[n][i] /\ K(n) = KeyOf(n) /\ Height(n) >= i /\ (q # End => q \in AllNodes)
    BY <1>1, <1>2, <1>4, <1>9, <1>a DEF q
  <2>2. /\ q = End => \A m \in AllNodes : ~(KeyOf(m) > KeyOf(n) /\ Height(m) >= i)
        /\ q # End => /\ KeyOf(q) > KeyOf(n) /\ Height(q) >= i
                      /\ \A m \in AllNodes : KeyOf(m) > KeyOf(n) /\ Height(m) >= i => KeyOf(q) <= KeyOf(m)
    BY <1>5, <1>9, <2>1 DEF NextOK, Later
  <2>3. k > KeyOf(n) /\ h >= i => q # End /\ KeyOf(q) <= k
    <3> SUFFICES ASSUME k > KeyOf(n), h >= i PROVE q # End /\ KeyOf(q) <= k
      OBVIOUS
    <3>1. n # u /\ KeyOf(n) # KeyOf(u)
      BY <1>1, <1>3, <1>6, <1>9
    <3>2. KeyOf(n) < KeyOf(u)
      <4> SUFFICES ASSUME KeyOf(n) > KeyOf(u) PROVE FALSE
        BY <1>1, <1>3, <1>9, <3>1
      <4>1. next[u][i] # End /\ KeyOf(next[u][i]) <= KeyOf(n) /\ next[u][i] \in AllNodes
        BY <1>3, <1>4, <1>5, <1>9, <2>1 DEF NextOK, Later
      <4> QED BY ONLY <1>1, <1>3, <1>9, <4>1, k > KeyOf(n)
    <3>3. q # End /\ KeyOf(q) <= KeyOf(u)
      BY ONLY <1>1, <1>3, <1>9, <2>2, <3>2
    <3> QED BY ONLY <1>1, <1>3, <2>1, <3>3
  <2> QED BY ONLY <1>1, <1>9, <2>1, <2>2, <2>3
<1> QED BY <1>1, <1>7, <1>8, <1>9

LEMMA InsertMove ==
  ASSUME ListInv, Insert
  PROVE  ListInv'
<1> DEFINE k == call.key
           v == call.value
           N == Len(nodes)
<1>1. /\ Searched("put") /\ ~IsFound /\ call' = Done
      /\ size' = size + 1 /\ sizeBytes' = sizeBytes + k + v /\ latest' = [latest EXCEPT ![k] = v]
  BY DEF Insert
<1>2. PICK h \in Levels :
          /\ nodes' = Append(nodes, [key |-> k, value |-> v, height |-> h])
          /\ next' = Linked(Len(nodes) + 1, h)
          /\ level' = IF h > level THEN h ELSE level
  BY DEF Insert
<1>3. PICK p : p = N + 1
  OBVIOUS
<1>4. next' = Linked(p, h)
  BY <1>2, <1>3
<1>5. Types /\ Links /\ Contents /\ N \in Nat /\ AllNodes = 0 .. N
  BY InvParts, NodeFacts
<1>6. /\ k \in Keys /\ v \in Lengths /\ nodes' \in Seq(NodeRecords) /\ Len(nodes') = p
      /\ AllNodes' = AllNodes \cup {p} /\ p \notin AllNodes
      /\ \A m \in 1 .. N : nodes'[m] = nodes[m] /\ nodes[m].key # k
      /\ nodes'[p] = [key |-> k, value |-> v, height |-> h]
      /\ \A m \in AllNodes : KeyOf(m)' = KeyOf(m) /\ Height(m)' = Height(m) /\ KeyOf(m) # k
      /\ KeyOf(p)' = k /\ Height(p)' = h
  BY <1>1, <1>2, <1>3, <1>4, InsertFacts
<1>7. 1 .. p = 1 .. N \cup {p}
  BY <1>3, <1>5
<1>8. /\ k \in Nat /\ v \in Nat /\ level \in Nat /\ h \in Nat /\ level \in Levels
      /\ \A m \in 1 .. N : nodes[m].height \in Nat /\ nodes[m].height <= level
  BY <1>5, <1>6, KeyFacts, NodeFacts, SkipListAssumption DEF Types, Links
<1> HIDE DEF k, v
<1>9. Types'
  <2>1. next' \in [AllNodes' -> [Levels -> 1 .. Len(nodes') \cup {End}]]
    <3>1. AllNodes' = 0 .. p /\ \A m \in 0 .. p : m = p \/ m \in AllNodes
      BY <1>3, <1>5, <1>6
    <3>2. ASSUME NEW i \in Levels PROVE Update(i) \in AllNodes /\ \A m \in AllNodes : next[m][i] \in 1 .. p \cup {End}
      BY <1>1, <1>3, <1>5, <1>7, UpdateBefore, NextFacts
    <3>3. p \in 1 .. p
      BY <1>3, <1>5
    <3>4. ASSUME NEW m \in 0 .. p, NEW i \in Levels
          PROVE  (IF m = p THEN (IF i <= h THEN next[Update(i)][i] ELSE End)
                  ELSE IF i <= h /\ m = Update(i) THEN p ELSE next[m][i]) \in 1 .. p \cup {End}
      BY <3>1, <3>2, <3>3
    <3> QED BY <1>4, <1>6, <3>1, <3>4 DEF Linked
  <2>2. level' \in Levels /\ size' = Len(nodes')
    BY <1>1, <1>2, <1>3, <1>5 DEF Types
  <2>3. latest' \in [Keys -> Lengths \cup {NotFound}]
    BY <1>1, <1>5, <1>6 DEF Types
  <2> QED BY <1>1, <1>6, <2>1, <2>2, <2>3 DEF Types
<1>10. Links'
  <2>1. \A m, n \in AllNodes' : KeyOf(m)' = KeyOf(n)' => m = n
    BY <1>5, <1>6 DEF Links
  <2>2. ASSUME NEW n \in AllNodes', NEW i \in Levels, i <= Height(n)' PROVE NextOK(n, i)'
    BY <1>1, <1>2, <1>3, <1>4, <2>2, InsertLinks DEF k, v
  <2>3. ASSUME NEW n \in 1 .. p PROVE nodes'[n].height <= level'
    <3>1. CASE n = p
      BY <1>2, <1>6, <1>8, <3>1
    <3>2. CASE n \in 1 .. N
      BY <1>2, <1>6, <1>8, <3>2
    <3> QED BY <1>7, <3>1, <3>2
  <2> QED BY <1>6, <2>1, <2>2, <2>3 DEF Links
<1>11. Contents'
  <2>1. \A m \in Keys : latest'[m] = IF m = k THEN v ELSE latest[m]
    BY <1>1, <1>5, <1>6 DEF Types
  <2>2. ASSUME NEW m \in 1 .. p PROVE latest'[nodes'[m].key] = nodes'[m].value
    <3>1. CASE m = p
      BY <1>6, <2>1, <3>1
    <3>2. CASE m \in 1 .. N
      BY <1>5, <1>6, <2>1, <3>2, NodeFacts DEF Contents
    <3> QED BY <1>7, <3>1, <3>2
  <2>3. ASSUME NEW m \in Keys, latest'[m] # NotFound PROVE \E n \in 1 .. p : nodes'[n].key = m
    <3>1. CASE m = k
      BY <1>6, <1>7, <3>1
    <3>2. CASE m # k
      <4>1. latest[m] # NotFound
        BY <2>1, <2>3, <3>2
      <4>2. PICK n \in 1 .. N : nodes[n].key = m
        BY <1>5, <4>1 DEF Contents
      <4> QED BY <1>6, <1>7, <4>2
    <3> QED BY <3>1, <3>2
  <2> QED BY <1>6, <2>2, <2>3 DEF Contents
<1>12. \E f : PartialSums(f)'
  <2>1. PICK f : PartialSums(f)
    BY DEF ListInv
  <2>2. N \in Nat /\ Weights \in [1 .. N -> Nat] /\ \A i \in 1 .. N : Weights[i] = nodes[i].key + nodes[i].value
    BY <1>5, WeightFacts
  <2>3. Sums(f, Weights, N)
    BY <2>1, <2>2 DEF PartialSums, Sums
  <2> DEFINE z == [i \in 1 .. p |-> nodes'[i].key + nodes'[i].value]
  <2>4. \A i \in 1 .. p : z[i] = nodes'[i].key + nodes'[i].value
    OBVIOUS
  <2> HIDE DEF z
  <2>5. (\A i \in 1 .. N : z[i] = Weights[i]) /\ z[N + 1] = k + v /\ k + v \in Nat
    BY <1>3, <1>6, <1>7, <1>8, <2>2, <2>4
  <2>6. PICK g : Sums(g, z, N + 1) /\ g[N + 1] = f[N] + (k + v)
    BY ONLY <2>2, <2>3, <2>5, SumsExtend
  <2>7. g[p] = sizeBytes'
    <3>1. f[N] = sizeBytes /\ f[N] \in Nat
      BY <2>1, <2>2 DEF PartialSums
    <3> HIDE DEF N
    <3> QED BY <1>1, <1>3, <1>8, <2>6, <3>1
  <2>8. /\ g \in [0 .. p -> Nat] /\ g[0] = 0
        /\ \A i \in 1 .. p : g[i] = g[i - 1] + (nodes'[i].key + nodes'[i].value)
        /\ \A i, j \in 0 .. p : i <= j => g[i] <= g[j]
    BY <1>3, <2>4, <2>6 DEF Sums
  <2>9. PartialSums(g)'
    BY ONLY <1>6, <2>7, <2>8 DEF PartialSums
  <2> QED BY <2>9
<1> QED BY <1>1, <1>9, <1>10, <1>11, <1>12 DEF ListInv

-----------------------------------------------------------------------------
(* The theorems *)

LEMMA ListInvInit ==
  ASSUME Init
  PROVE  ListInv
<1>1. /\ nodes = <<>> /\ Len(nodes) = 0 /\ AllNodes = {0} /\ 1 .. 0 = {} /\ 0 .. 0 = {0}
      /\ nodes \in Seq(NodeRecords) /\ call = Done
  BY DEF Init, AllNodes
<1>2. next \in [{0} -> [Levels -> {End}]] /\ next[0] \in [Levels -> {End}]
  BY DEF Init, HeadNode
<1>3. Types
  <2>1. level \in Levels
    BY SkipListAssumption DEF Init, Levels
  <2>2. next \in [AllNodes -> [Levels -> 1 .. Len(nodes) \cup {End}]]
    BY <1>1, <1>2
  <2> QED BY <1>1, <2>1, <2>2 DEF Types, Init
<1>4. Links
  <2>1. ASSUME NEW i \in Levels PROVE NextOK(0, i)
    <3>1. next[0][i] = End
      BY <1>2
    <3>2. \A m \in AllNodes : ~Later(m, 0, i)
      BY <1>1 DEF Later, KeyOf, HeadNode
    <3> QED BY <3>1, <3>2 DEF NextOK
  <2> QED BY <1>1, <2>1 DEF Links
<1>5. Contents
  BY <1>1 DEF Contents, Init
<1>6. PartialSums([i \in {0} |-> 0])
  BY <1>1 DEF PartialSums, Init
<1>7. \E f : PartialSums(f)
  BY <1>6
<1> QED BY <1>1, <1>3, <1>4, <1>5, <1>7 DEF ListInv

LEMMA ListInvNext ==
  ASSUME ListInv, [Next]_vars
  PROVE  ListInv'
<1>1. ASSUME NEW k \in Keys, NEW v \in Lengths, Begin("put", k, v) PROVE ListInv'
  BY <1>1, BeginMove, SkipListAssumption
<1>2. ASSUME NEW k \in Keys, Begin("get", k, 0) PROVE ListInv'
  BY <1>2, BeginMove, SkipListAssumption
<1>3. CASE Begin("scan", 0, 0)
  BY <1>3, BeginMove
<1>4. CASE Advance
  BY <1>4, AdvanceMove
<1>5. CASE Descend
  BY <1>5, DescendMove
<1>6. CASE Overwrite
  BY <1>6, OverwriteMove
<1>7. CASE Insert
  BY <1>7, InsertMove
<1>8. CASE GetReturns
  BY <1>8, DoneMove DEF GetReturns, List
<1>9. CASE IteratorNext
  BY <1>9, IteratorMove
<1>10. CASE UNCHANGED vars
  <2>1. UNCHANGED List /\ call' = call /\ UNCHANGED <<nodes, next, level, size, sizeBytes, latest>>
    BY <1>10 DEF vars, List
  <2>2. CASE call = Done
    BY <2>1, <2>2, DoneMove
  <2>3. CASE call # Done
    BY <2>1, <2>3, InvParts, CallMove
  <2> QED BY <2>2, <2>3
<1> QED BY <1>1, <1>2, <1>3, <1>4, <1>5, <1>6, <1>7, <1>8, <1>9, <1>10 DEF Next, Continue

\* The invariant of list, sizes and calls under way holds in every state.
THEOREM ListInvariant == Spec => []ListInv
BY ListInvInit, ListInvNext, PTL DEF Spec

\* No search of Put, Get or an iterator indexes Next of a node beyond its
\* length, and the sizes stay natural numbers: SizeBytes, which Put lowers by
\* the length of the value it replaces, never wraps round.
THEOREM SkipListTypeCorrect == Spec => []TypeOK
<1>1. ASSUME ListInv PROVE TypeOK
  <2>0. USE InvParts, KeyFacts, NodeFacts
  <2>1. PICK f : PartialSums(f)
    BY <1>1 DEF ListInv
  <2>2. sizeBytes \in Nat
    BY <1>1, <2>1 DEF PartialSums
  <2>3. ASSUME call # Done
        PROVE  /\ call.kind \in {"put", "get", "scan"} /\ call.level \in 0 .. level
               /\ call.current \in AllNodes /\ call.update \in [Levels -> AllNodes]
               /\ call.current # HeadNode /\ call.level > 0 => nodes[call.current].height >= call.level
    <3>1. call \in CallRecords /\ CallAt(call)
      BY <1>1, <2>3
    <3>2. /\ call.kind \in {"put", "get", "scan"} /\ call.level \in 0 .. level
          /\ call.current \in AllNodes /\ call.update \in [Levels -> AllNodes] /\ Height(call.current) >= call.level
      BY <3>1 DEF CallRecords, CallAt
    <3> QED BY <3>2 DEF Height
  <2>4. Types
    BY <1>1
  <2> QED BY <2>2, <2>3, <2>4 DEF TypeOK, Types, NodeRecords
<1> QED BY <1>1, ListInvariant, PTL

\* On every level the list goes through exactly the nodes that have the level,
\* in the order of their keys, and no key has two nodes, whatever the heights
\* randomLevel draws.
THEOREM LinksStaySorted == Spec => []LinksSorted
<1>1. ASSUME ListInv PROVE LinksSorted
  <2>1. Types /\ Links
    BY <1>1, InvParts
  <2>2. ASSUME NEW n \in AllNodes, NEW i \in Levels, i <= Height(n)
        PROVE  LET later == {m \in AllNodes : KeyOf(m) > KeyOf(n) /\ Height(m) >= i}
               IN  IF next[n][i] = End THEN later = {}
                   ELSE next[n][i] \in later /\ \A m \in later : KeyOf(next[n][i]) <= KeyOf(m)
    <3>1. NextOK(n, i)
      BY <2>1, <2>2 DEF Links
    <3>2. next[n][i] # End => next[n][i] \in AllNodes
      BY <2>1, NextFacts, NodeFacts
    <3> QED BY <3>1, <3>2 DEF NextOK, Later
  <2> QED BY <2>1, <2>2 DEF LinksSorted, Links
<1> QED BY <1>1, ListInvariant, PTL

\* Get answers with the value of the last Put of its key, and an iterator that
\* ends has been at every key.
THEOREM ReadsFindLatest == Spec => []ReadsCorrect
<1>1. ASSUME ListInv PROVE ReadsCorrect
  <2>0. USE InvParts, KeyFacts, NodeFacts
  <2>1. ASSUME Searched("get") PROVE Answer = latest[call.key]
    <3>1. /\ call.key \in Keys
          /\ IsFound => Found \in 1 .. Len(nodes) /\ nodes[Found].key = call.key
          /\ ~IsFound => \A m \in 1 .. Len(nodes) : nodes[m].key # call.key
      BY <1>1, <2>1, FoundFacts
    <3>2. Contents
      BY <1>1
    <3>3. CASE IsFound
      BY <3>1, <3>2, <3>3 DEF Answer, Contents
    <3>4. CASE ~IsFound
      BY <3>1, <3>2, <3>4 DEF Answer, Contents
    <3> QED BY <3>3, <3>4
  <2>2. ASSUME call # Done, call.kind = "scan", next[call.current][1] = End
        PROVE  call.seen = Cardinality({k \in Keys : latest[k] # NotFound})
    <3> DEFINE n == call.current
    <3>1. CallAt(call) /\ Types /\ Links /\ Contents
      BY <1>1, <2>2
    <3>2. n \in AllNodes /\ call.seen = Cardinality(Visited(n)) /\ 1 <= Height(n)
      BY <2>2, <3>1 DEF CallAt, Levels
    <3>3. \A m \in AllNodes : ~Later(m, n, 1)
      BY <2>2, <3>1, <3>2 DEF Links, NextOK
    <3> HIDE DEF n
    <3>4. ASSUME NEW k \in Keys, latest[k] # NotFound PROVE k <= KeyOf(n)
      <4>1. PICK m \in 1 .. Len(nodes) : nodes[m].key = k
        BY <3>1, <3>4 DEF Contents
      <4>2. m \in AllNodes /\ KeyOf(m) = k /\ Height(m) \in Levels /\ k \in Nat /\ KeyOf(n) \in Nat
        BY <3>1, <3>2, <4>1
      <4>3. Height(m) >= 1
        BY <4>2 DEF Levels
      <4> QED BY <3>3, <4>2, <4>3 DEF Later
    <3>5. Visited(n) = {k \in Keys : latest[k] # NotFound}
      BY <3>4 DEF Visited
    <3> QED BY <3>2, <3>5
  <2> QED BY <2>1, <2>2 DEF ReadsCorrect
<1> QED BY <1>1, ListInvariant, PTL

\* The keys that were put, and their bytes.
PutKeys == {k \in Keys : latest[k] # NotFound}
PutBytes == [k \in PutKeys |-> k + latest[k]]

\* What the fold of SizesExact is.
LEMMA FoldIsSum ==
  ASSUME IsFiniteSet(PutKeys), PutBytes \in [PutKeys -> Nat]
  PROVE  \E f : /\ IsSum(f, PutKeys, PutBytes)
                /\ MapThenSumSet(LAMBDA k : k + latest[k], PutKeys) = f[PutKeys]
<1> DEFINE Sum(f) == f = [s \in SUBSET PutKeys |->
                             IF s = {} THEN 0
                             ELSE (Chosen(s) + latest[Chosen(s)]) + f[s \ {Chosen(s)}]]
           f == CHOOSE h : Sum(h)
<1>1. MapThenSumSet(LAMBDA k : k + latest[k], PutKeys) = f[PutKeys]
  BY DEF MapThenSumSet, MapThenFoldSet, Chosen
<1>2. ASSUME NEW h PROVE Sum(h) <=> IsSum(h, PutKeys, PutBytes)
  <2>1. \A s \in SUBSET PutKeys : s # {} =>
            Chosen(s) \in PutKeys /\ PutBytes[Chosen(s)] = Chosen(s) + latest[Chosen(s)]
    BY DEF PutBytes, Chosen
  <2> QED BY <2>1 DEF IsSum
<1>3. \E h : IsSum(h, PutKeys, PutBytes)
  BY SumExists
<1>4. Sum(f)
  BY <1>2, <1>3
<1> QED BY <1>1, <1>2, <1>4

\* SizeBytes, which decides when the memtable is flushed, and Size are those of
\* the keys put last, after any mix of inserts and overwrites.
THEOREM SizesStayExact == Spec => []SizesExact
<1>1. ASSUME ListInv PROVE SizesExact
  <2>1. Types /\ Links /\ Contents
    BY <1>1, InvParts
  <2> DEFINE N == Len(nodes)
             e == [i \in 1 .. N |-> nodes[i].key]
  <2>2. /\ N \in Nat /\ size = N
        /\ \A i \in 1 .. N : i \in AllNodes /\ i # 0 /\ nodes[i].key \in Keys /\ nodes[i].value \in Lengths
    BY <2>1, NodeFacts DEF Types
  <2>3. \A i \in 1 .. N : nodes[i].key \in PutKeys /\ latest[nodes[i].key] = nodes[i].value
    BY <2>1, <2>2, SkipListAssumption DEF Contents, PutKeys
  <2>4. \A i, j \in 1 .. N : e[i] = e[j] => i = j
    BY <2>1, <2>2 DEF Links, KeyOf, HeadNode
  <2>5. PutKeys = {e[i] : i \in 1 .. N} /\ e \in [1 .. N -> PutKeys]
    BY <2>1, <2>3 DEF Contents, PutKeys
  <2>6. IsFiniteSet(PutKeys)
    BY SkipListAssumption, FS_Subset DEF PutKeys
  <2>7. PutBytes \in [PutKeys -> Nat]
    <3>1. \A k \in PutKeys : k \in Nat /\ latest[k] \in Nat
      BY <2>1, SkipListAssumption DEF PutKeys, Types
    <3>2. \A k \in PutKeys : k + latest[k] \in Nat
      BY <3>1
    <3> QED BY <3>2 DEF PutBytes
  <2>8. \A i \in 1 .. N : PutBytes[e[i]] = nodes[i].key + nodes[i].value
    BY <2>3 DEF PutBytes
  <2>9. size = Cardinality(PutKeys)
    <3>1. e \in Surjection(1 .. N, PutKeys) /\ e \in Injection(1 .. N, PutKeys)
      BY <2>4, <2>5 DEF Surjection, Injection, IsInjective
    <3>2. IsFiniteSet(1 .. N) /\ Cardinality(1 .. N) = N
      <4> HIDE DEF N
      <4>1. 1 \in Int /\ N \in Int /\ N - 1 + 1 = N /\ (1 > N => N = 0)
        BY <2>2
      <4> QED BY <4>1, FS_Interval
    <3> HIDE DEF e
    <3> QED BY <2>2, <3>1, <3>2, FS_Surjection
  <2>10. PICK g : PartialSums(g)
    BY <1>1 DEF ListInv
  <2> DEFINE v == [i \in 1 .. N |-> nodes[i].key + nodes[i].value]
  <2>11. Sums(g, v, N) /\ g[N] = sizeBytes
    BY <2>10 DEF PartialSums, Sums
  <2>12. PICK f : /\ IsSum(f, PutKeys, PutBytes)
                  /\ MapThenSumSet(LAMBDA k : k + latest[k], PutKeys) = f[PutKeys]
    BY <2>6, <2>7, FoldIsSum
  <2>13. \A i \in 1 .. N : v[i] = PutBytes[e[i]]
    BY <2>8
  <2>14. Numbers(e, N, PutKeys)
    BY <2>4, <2>5 DEF Numbers
  <2> HIDE DEF e, v, N
  <2>15. f[PutKeys] = g[N]
    <3>1. N \in Nat /\ IsSum(f, PutKeys, PutBytes) /\ Sums(g, v, N)
      BY <2>2, <2>11, <2>12
    <3> QED BY ONLY <2>6, <2>7, <2>13, <2>14, <3>1, SumAlong
  <2> QED BY <2>9, <2>11, <2>12, <2>15 DEF SizesExact, PutKeys
<1> QED BY <1>1, ListInvariant, PTL

-----------------------------------------------------------------------------
(* Calls get nearer to their end *)

NodesAhead(n) == {m \in AllNodes : KeyOf(m) > KeyOf(n)}

LEMMA AheadFinite ==
  ASSUME Types, NEW n
  PROVE  IsFiniteSet(NodesAhead(n)) /\ Cardinality(NodesAhead(n)) \in Nat
<1>1. Len(nodes) \in Int /\ 0 \in Int
  BY NodeFacts
<1>2. IsFiniteSet(0 .. Len(nodes))
  BY ONLY <1>1, FS_Interval
<1>3. NodesAhead(n) \subseteq 0 .. Len(nodes)
  BY DEF NodesAhead, AllNodes
<1>4. IsFiniteSet(NodesAhead(n))
  BY ONLY <1>2, <1>3, FS_Subset
<1> QED BY <1>4, FS_CardinalityType

\* Fewer nodes are ahead of a later one.
LEMMA AheadShrinks ==
  ASSUME Types, NEW m \in AllNodes, NEW n \in AllNodes, KeyOf(m) > KeyOf(n)
  PROVE  Cardinality(NodesAhead(m)) < Cardinality(NodesAhead(n))
<1>1. KeyOf(m) \in Nat /\ KeyOf(n) \in Nat /\ \A x \in AllNodes : KeyOf(x) \in Nat
  BY KeyFacts
<1>2. NodesAhead(m) \subseteq NodesAhead(n) /\ m \in NodesAhead(n) /\ m \notin NodesAhead(m)
  BY <1>1 DEF NodesAhead
<1>3. /\ IsFiniteSet(NodesAhead(n)) /\ Cardinality(NodesAhead(n)) \in Nat
      /\ Cardinality(NodesAhead(m)) \in Nat
  BY AheadFinite
<1>4. /\ Cardinality(NodesAhead(m)) <= Cardinality(NodesAhead(n))
      /\ Cardinality(NodesAhead(n)) = Cardinality(NodesAhead(m)) => NodesAhead(n) = NodesAhead(m)
  BY <1>2, <1>3, FS_Subset
<1> QED BY <1>2, <1>3, <1>4

\* A call that goes on in the same list.
LEMMA CallShrinks ==
  ASSUME ListInv, call # Done, UNCHANGED List, call'.current \in AllNodes,
         \/ call'.current = call.current /\ call'.level = call.level - 1
         \/ KeyOf(call'.current) > KeyOf(call.current) /\ call'.level = call.level
  PROVE  StepsLeft' < StepsLeft
<1> DEFINE left(c) == Cardinality(NodesAhead(c.current))
<1>1. Types /\ call.level \in Nat /\ call.current \in AllNodes
  BY InvParts DEF CallAt, CallRecords
<1>2. left(call) \in Nat /\ left(call') \in Nat
  BY <1>1, AheadFinite
<1>3. StepsLeft = 1 + call.level + left(call)
  BY DEF StepsLeft, NodesAhead
<1>4. StepsLeft' = IF call' = Done THEN 0 ELSE 1 + call'.level + left(call')
  BY DEF StepsLeft, NodesAhead, List, AllNodes, KeyOf
<1>5. call'.current # call.current => left(call') < left(call)
  BY <1>1, AheadShrinks
<1>6. call'.current = call.current => left(call') = left(call)
  OBVIOUS
<1> HIDE DEF left
<1>7. KeyOf(call.current) \in Nat
  BY <1>1, KeyFacts
<1>8. CASE call'.current = call.current /\ call'.level = call.level - 1
  BY <1>1, <1>2, <1>3, <1>4, <1>6, <1>8
<1>9. CASE KeyOf(call'.current) > KeyOf(call.current) /\ call'.level = call.level
  <2>1. call'.current # call.current
    BY <1>7, <1>9
  <2> QED BY <1>1, <1>2, <1>3, <1>4, <1>5, <1>9, <2>1
<1> QED BY <1>8, <1>9

\* A call that returns.
LEMMA CallReturns ==
  ASSUME ListInv, call # Done, call' = Done
  PROVE  StepsLeft' < StepsLeft
<1>1. Types /\ call.level \in Nat
  BY InvParts DEF CallRecords
<1>2. Cardinality(NodesAhead(call.current)) \in Nat
  BY <1>1, AheadFinite
<1>3. StepsLeft = 1 + call.level + Cardinality(NodesAhead(call.current)) /\ StepsLeft' = 0
  BY DEF StepsLeft, NodesAhead
<1> QED BY <1>1, <1>2, <1>3

\* The next node on a level is a later one.
LEMMA NextIsLater ==
  ASSUME Types, Links, NEW n \in AllNodes, NEW i \in Levels, i <= Height(n), next[n][i] # End
  PROVE  next[n][i] \in AllNodes /\ KeyOf(next[n][i]) > KeyOf(n)
<1>1. next[n][i] \in 1 .. Len(nodes)
  BY NextFacts
<1>2. next[n][i] \in AllNodes
  BY <1>1, NodeFacts
<1> QED BY <1>2 DEF Links, NextOK, Later

\* Put, Get and the iterator never go back and never stand still: a call takes
\* at most a step for each level of the list and each node, however high the
\* nodes are.
THEOREM CallsDoAdvance == Spec => CallsAdvance
<1>1. ASSUME ListInv, Next PROVE call # Done => StepsLeft' < StepsLeft
  <2> SUFFICES ASSUME call # Done PROVE StepsLeft' < StepsLeft
    OBVIOUS
  <2>1. /\ Types /\ Links /\ call \in CallRecords /\ CallAt(call)
        /\ call.current \in AllNodes /\ call.level \in 0 .. level /\ level \in Levels
        /\ call.level <= Height(call.current)
    <3>1. Types /\ Links /\ call \in CallRecords /\ CallAt(call)
      BY <1>1, InvParts
    <3>2. /\ call.current \in AllNodes /\ call.level \in 0 .. level /\ level \in Levels
          /\ Height(call.current) >= call.level
      BY <3>1 DEF CallAt, Types
    <3> QED BY <3>1, <3>2, KeyFacts DEF Levels
  <2>2. CASE Advance
    <3>1. /\ call.level > 0 /\ Ahead # End /\ UNCHANGED List
          /\ call' = [call EXCEPT !.current = Ahead]
      BY <2>2 DEF Advance, Searching, Less, List
    <3>2. call.level \in Levels
      <4>1. call.level \in 1 .. level /\ level \in 1 .. MaxLevel /\ MaxLevel \in Nat
        BY <2>1, <3>1, SkipListAssumption DEF Levels
      <4> QED BY <4>1 DEF Levels
    <3>3. Ahead \in AllNodes /\ KeyOf(Ahead) > KeyOf(call.current)
      BY <2>1, <3>1, <3>2, NextIsLater DEF Ahead
    <3>4. call'.current = Ahead /\ call'.level = call.level
      BY <2>1, <3>1 DEF CallRecords
    <3> QED BY <1>1, <3>1, <3>3, <3>4, CallShrinks
  <2>3. CASE Descend
    <3>1. UNCHANGED List
      BY <2>3 DEF Descend, List
    <3>2. call'.current = call.current /\ call'.level = call.level - 1
      BY <2>1, <2>3 DEF Descend, CallRecords
    <3> QED BY <1>1, <2>1, <3>1, <3>2, CallShrinks
  <2>4. CASE IteratorNext
    <3> DEFINE m == next[call.current][1]
    <3>1. /\ call.kind = "scan" /\ UNCHANGED List
          /\ call' = IF m = End THEN Done ELSE [call EXCEPT !.current = m, !.seen = call.seen + 1]
      BY <2>4 DEF IteratorNext, List
    <3>2. call.level = 1 /\ 1 \in Levels
      BY <2>1, <3>1, KeyFacts DEF CallAt
    <3>3. CASE m = End
      BY <1>1, <3>1, <3>3, CallReturns
    <3>4. CASE m # End
      <4>1. m \in AllNodes /\ KeyOf(m) > KeyOf(call.current)
        BY <2>1, <3>2, <3>4, NextIsLater
      <4>2. call'.current = m /\ call'.level = call.level
        BY <2>1, <3>1, <3>4 DEF CallRecords
      <4> QED BY <1>1, <3>1, <4>1, <4>2, CallShrinks
    <3> QED BY <3>3, <3>4
  <2>5. CASE Overwrite \/ Insert \/ GetReturns
    <3>1. call' = Done
      BY <2>5 DEF Overwrite, Insert, GetReturns
    <3> QED BY <1>1, <3>1, CallReturns
  <2> QED BY <1>1, <2>2, <2>3, <2>4, <2>5 DEF Next, Continue, Begin
<1>2. ListInv /\ [Next]_vars => [call # Done => StepsLeft' < StepsLeft]_vars
  BY <1>1
<1> QED BY <1>2, ListInvariant, PTL DEF Spec, CallsAdvance
=============================================================================
