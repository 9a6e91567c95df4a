------------------------------ MODULE SkipList ------------------------------
(***************************************************************************)
(* The memtable of engine/memtable/skiplist.go: Put, Get and the iterator, *)
(* one loop iteration a step.  A call holds the list's mutex, and those    *)
(* that share it only read, so there is one call at a time.                *)
(*                                                                         *)
(* A key is its rank in the order of bytes.Compare, a value is told from   *)
(* others by its length.  Node 0 is Head, the others are numbered as they  *)
(* are allocated.  Levels count from 1 where the code's count from 0.      *)
(***************************************************************************)
EXTENDS Naturals, Sequences, FiniteSets, FiniteSetsExt

CONSTANTS
    Keys,        \* ranks; for SizeBytes a key is as long as its rank says
    Lengths,     \* lengths of values
    MaxLevel,
    End,         \* the nil pointer
    NotFound,    \* (nil, false)
    Done         \* no call under way

ASSUME SkipListAssumption ==
    /\ Keys \subseteq Nat \ {0} /\ IsFiniteSet(Keys) /\ Lengths \subseteq Nat
    /\ MaxLevel \in Nat \ {0}
    /\ End \notin Nat /\ NotFound \notin Nat

Levels == 1 .. MaxLevel

VARIABLES
    nodes,      \* the nodes behind HeadNode: key, value, len(Next)
    next,       \* Next of each node, End above its length
    level,      \* sl.Level
    size, sizeBytes,
    call,       \* the call under way, and where it is
    latest      \* history: the last value put for each key

vars == <<nodes, next, level, size, sizeBytes, call, latest>>

HeadNode == 0
AllNodes == 0 .. Len(nodes)

Init ==
    /\ nodes = <<>>
    /\ next = [n \in {HeadNode} |-> [i \in Levels |-> End]]
    /\ level = 1 /\ size = 0 /\ sizeBytes = 0
    /\ call = Done /\ latest = [k \in Keys |-> NotFound]

-----------------------------------------------------------------------------
(* The search that Put and Get share *)

Begin(kind, k, v) ==
    /\ call = Done
    /\ call' = [kind |-> kind, key |-> k, value |-> v, current |-> HeadNode,
                level |-> IF kind = "scan" THEN 1 ELSE level,
                update |-> [i \in Levels |-> HeadNode], seen |-> 0]
    /\ UNCHANGED <<nodes, next, level, size, sizeBytes, latest>>

\* current.Next[i] on the level the search is at.
Ahead == next[call.current][call.level]
Less == Ahead # End /\ nodes[Ahead].key < call.key

Searching == call # Done /\ call.kind # "scan" /\ call.level > 0

\* Mutant of Advance: the wrong level's pointer.
AdvanceBelow ==
    /\ Searching /\ Less
    /\ call' = [call EXCEPT !.current = next[call.current][1]]
    /\ UNCHANGED <<nodes, next, level, size, sizeBytes, latest>>

\* Mutant of Advance: the search goes past the key itself.
AdvancePast ==
    /\ Searching /\ Ahead # End /\ nodes[Ahead].key <= call.key
    /\ call' = [call EXCEPT !.current = Ahead]
    /\ UNCHANGED <<nodes, next, level, size, sizeBytes, latest>>

\* The inner loop.
Advance ==
    /\ Searching /\ Less
    /\ call' = [call EXCEPT !.current = Ahead]
    /\ UNCHANGED <<nodes, next, level, size, sizeBytes, latest>>

\* Mutant of Descend: each level is searched from Head.
DescendRestarts ==
    /\ Searching /\ ~Less
    /\ call' = [call EXCEPT !.level = @ - 1, !.current = HeadNode,
                            !.update[call.level] = IF call.kind = "put" THEN call.current ELSE HeadNode]
    /\ UNCHANGED <<nodes, next, level, size, sizeBytes, latest>>

\* The outer loop; Get has no update.
Descend ==
    /\ Searching /\ ~Less
    /\ call' = [call EXCEPT !.level = @ - 1,
                            !.update[call.level] = IF call.kind = "put" THEN call.current ELSE HeadNode]
    /\ UNCHANGED <<nodes, next, level, size, sizeBytes, latest>>

\* The node that has the key, if any has.
Found == next[call.current][1]
IsFound == Found # End /\ nodes[Found].key = call.key
Searched(kind) == call # Done /\ call.kind = kind /\ call.level = 0

-----------------------------------------------------------------------------
(* Put, Get, the iterator *)

\* Mutant of Overwrite: the old value's length stays counted.
OverwriteAddsLength ==
    /\ Searched("put") /\ IsFound
    /\ nodes' = [nodes EXCEPT ![Found].value = call.value]
    /\ sizeBytes' = sizeBytes + call.value
    /\ latest' = [latest EXCEPT ![call.key] = call.value]
    /\ call' = Done
    /\ UNCHANGED <<next, level, size>>

Overwrite ==
    /\ Searched("put") /\ IsFound
    /\ nodes' = [nodes EXCEPT ![Found].value = call.value]
    /\ sizeBytes' = sizeBytes + call.value - nodes[Found].value
    /\ latest' = [latest EXCEPT ![call.key] = call.value]
    /\ call' = Done
    /\ UNCHANGED <<next, level, size>>

\* update, with HeadNode for the levels that the list did not have so far.
Update(i) == IF i <= level THEN call.update[i] ELSE HeadNode

\* Links the new node in behind Update(i) on each of its levels.
Linked(new, height) ==
    [n \in 0 .. new |-> [i \in Levels |->
        IF n = new THEN (IF i <= height THEN next[Update(i)][i] ELSE End)
        ELSE IF i <= height /\ n = Update(i) THEN new ELSE next[n][i]]]

\* Mutant of Insert: the list's level does not follow the new node's.
InsertKeepsLevel ==
    /\ Searched("put") /\ ~IsFound
    /\ \E height \in Levels :
          /\ nodes' = Append(nodes, [key |-> call.key, value |-> call.value, height |-> height])
          /\ next' = Linked(Len(nodes) + 1, height)
    /\ size' = size + 1 /\ sizeBytes' = sizeBytes + call.key + call.value
    /\ latest' = [latest EXCEPT ![call.key] = call.value]
    /\ call' = Done /\ UNCHANGED level

\* randomLevel is any height.
Insert ==
    /\ Searched("put") /\ ~IsFound
    /\ \E height \in Levels :
          /\ nodes' = Append(nodes, [key |-> call.key, value |-> call.value, height |-> height])
          /\ next' = Linked(Len(nodes) + 1, height)
          /\ level' = IF height > level THEN height ELSE level
    /\ size' = size + 1 /\ sizeBytes' = sizeBytes + call.key + call.value
    /\ latest' = [latest EXCEPT ![call.key] = call.value]
    /\ call' = Done

Answer == IF IsFound THEN nodes[Found].value ELSE NotFound

GetReturns ==
    /\ Searched("get") /\ call' = Done
    /\ UNCHANGED <<nodes, next, level, size, sizeBytes, latest>>

\* Iterator.Next, until it returns FALSE.
IteratorNext ==
    /\ call # Done /\ call.kind = "scan"
    /\ LET n == next[call.current][1]
       IN  call' = IF n = End THEN Done ELSE [call EXCEPT !.current = n, !.seen = @ + 1]
    /\ UNCHANGED <<nodes, next, level, size, sizeBytes, latest>>

Continue == Advance \/ Descend \/ Overwrite \/ Insert \/ GetReturns \/ IteratorNext

Next ==
    \/ \E k \in Keys, v \in Lengths : Begin("put", k, v)
    \/ \E k \in Keys : Begin("get", k, 0)
    \/ Begin("scan", 0, 0)
    \/ Continue

Spec == Init /\ [][Next]_vars

-----------------------------------------------------------------------------
(* Properties *)

\* The variables have their types, and no search indexes Next of a node behind
\* its length.
TypeOK ==
    /\ nodes \in Seq([key : Keys, value : Lengths, height : Levels])
    /\ next \in [AllNodes -> [Levels -> 1 .. Len(nodes) \cup {End}]]
    /\ level \in Levels /\ size \in Nat /\ sizeBytes \in Nat
    /\ latest \in [Keys -> Lengths \cup {NotFound}]
    /\ call # Done =>
          /\ call.kind \in {"put", "get", "scan"} /\ call.level \in 0 .. level
          /\ call.current \in AllNodes /\ call.update \in [Levels -> AllNodes]
          /\ call.current # HeadNode /\ call.level > 0 => nodes[call.current].height >= call.level

\* Keys of nodes are compared with 0, the key before all others, for HeadNode.
KeyOf(n) == IF n = HeadNode THEN 0 ELSE nodes[n].key
Height(n) == IF n = HeadNode THEN MaxLevel ELSE nodes[n].height

\* On each level the list goes through all the nodes that have the level, in
\* the order of their keys, and no key has two nodes: what the search, the
\* flush and ScanAll rely on.
LinksSorted ==
    /\ \A m, n \in AllNodes : KeyOf(m) = KeyOf(n) => m = n
    /\ \A n \in AllNodes : \A i \in Levels :
          LET later == {m \in AllNodes : KeyOf(m) > KeyOf(n) /\ Height(m) >= i}
          IN  i <= Height(n) => IF next[n][i] = End THEN later = {}
                                ELSE next[n][i] \in later /\ \A m \in later : KeyOf(next[n][i]) <= KeyOf(m)

\* Get finds the value of the last Put of its key, whatever heights the nodes
\* were given, and an iterator that ends has been at all nodes.
ReadsCorrect ==
    /\ Searched("get") => Answer = latest[call.key]
    /\ call # Done /\ call.kind = "scan" /\ next[call.current][1] = End =>
          call.seen = Cardinality({k \in Keys : latest[k] # NotFound})

\* SizeBytes, which decides when the memtable is flushed, and Size, which
\* decides whether it is, are those of the entries.
SizesExact ==
    LET put == {k \in Keys : latest[k] # NotFound}
    IN  size = Cardinality(put) /\ sizeBytes = MapThenSumSet(LAMBDA k : k + latest[k], put)

\* A call takes at most one step for each level and one for each node ahead,
\* under whichever lock its caller holds: Put, Get and the iterator of a flush
\* never go back, and never stand still.
StepsLeft ==
    IF call = Done THEN 0
    ELSE 1 + call.level + Cardinality({n \in AllNodes : KeyOf(n) > KeyOf(call.current)})
CallsAdvance == [][call # Done => StepsLeft' < StepsLeft]_vars
=============================================================================
