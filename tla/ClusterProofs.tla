--------------------------- MODULE ClusterProofs ---------------------------
(***************************************************************************)
(* Theorems about Cluster: for any number of nodes, terms, requests and    *)
(* crashes, what becomes of a write that is forwarded, of one that is      *)
(* confirmed, and what a read of a leader sees.                            *)
(***************************************************************************)
EXTENDS Cluster, FiniteSetTheorems, SequenceTheorems, WellFoundedInduction, TLAPS

-----------------------------------------------------------------------------
(* Least and greatest numbers.  The induction is that of WFMin. *)

LessNat == {p \in Nat \X Nat : p[1] < p[2]}

LEMMA LessNatWellFounded == IsWellFoundedOn(LessNat, Nat)
<1>1. OpToRel(<, Nat) = LessNat
  BY DEF OpToRel, LessNat
<1> QED BY <1>1, NatLessThanWellFounded

LEMMA LeastNatural ==
  ASSUME NEW T, T \subseteq Nat, T # {}
  PROVE  \E n \in T : \A m \in T : n <= m
<1>1. PICK n \in T : \A m \in T : ~(<<m, n>> \in LessNat)
  BY LessNatWellFounded, WFMin
<1>2. ASSUME NEW m \in T PROVE n <= m
  <2>1. n \in Nat /\ m \in Nat /\ <<m, n>> \in Nat \X Nat
    OBVIOUS
  <2>2. ~(m < n)
    BY <1>1, <2>1 DEF LessNat
  <2> QED BY <2>1, <2>2
<1> QED BY <1>2

LEMMA GreatestNatural ==
  ASSUME NEW T, NEW b \in Nat, T \subseteq Nat, T # {}, \A m \in T : m <= b
  PROVE  \E n \in T : \A m \in T : m <= n
<1> DEFINE U == {u \in Nat : \A m \in T : m <= u}
<1>1. PICK u \in U : \A v \in U : u <= v
  <2>1. U \subseteq Nat /\ b \in U
    OBVIOUS
  <2> HIDE DEF U
  <2> QED BY <2>1, LeastNatural
<1>2. u \in T
  <2> SUFFICES ASSUME u \notin T PROVE FALSE
    OBVIOUS
  <2>1. \A m \in T : m <= u - 1
    BY <1>1
  <2>2. u \in Nat /\ u # 0
    <3>1. PICK m \in T : TRUE
      OBVIOUS
    <3> QED BY <1>1, <2>1, <3>1
  <2>3. u - 1 \in U
    BY <2>1, <2>2
  <2> QED BY <1>1, <2>2, <2>3
<1> QED BY <1>1, <1>2

-----------------------------------------------------------------------------
(* The value that the first entries of a log make *)

\* StateAt(i) for the log l.
CmdAt(l, i) ==
    LET W == {j \in 1 .. i : l[j].cmd # Noop}
    IN  IF W = {} THEN Nil ELSE l[CHOOSE j \in W : \A h \in W : h <= j].cmd

LEMMA StateAtIs ==
  ASSUME NEW i
  PROVE  StateAt(i) = CmdAt(Log(term), i)
BY DEF StateAt, CmdAt, Entry

LEMMA CmdAtIs ==
  ASSUME NEW l, NEW i \in Nat
  PROVE  \/ (\A j \in 1 .. i : l[j].cmd = Noop) /\ CmdAt(l, i) = Nil
         \/ \E j \in 1 .. i :
               /\ l[j].cmd # Noop /\ \A h \in 1 .. i : l[h].cmd # Noop => h <= j
               /\ CmdAt(l, i) = l[j].cmd
<1> DEFINE W == {j \in 1 .. i : l[j].cmd # Noop}
           c == CHOOSE j \in W : \A h \in W : h <= j
<1>1. CASE W = {}
  BY <1>1 DEF CmdAt
<1>2. CASE W # {}
  <2>1. W \subseteq Nat /\ \A m \in W : m <= i
    OBVIOUS
  <2>2. \E j \in W : \A h \in W : h <= j
    <3> HIDE DEF W
    <3> QED BY <1>2, <2>1, GreatestNatural
  <2>3. c \in W /\ \A h \in W : h <= c
    BY <2>2
  <2>4. CmdAt(l, i) = l[c].cmd
    BY <1>2 DEF CmdAt
  <2> HIDE DEF c
  <2> QED BY <2>3, <2>4
<1> QED BY <1>1, <1>2

LEMMA CmdAtAgrees ==
  ASSUME NEW l, NEW m, NEW i \in Nat, \A j \in 1 .. i : l[j] = m[j]
  PROVE  CmdAt(l, i) = CmdAt(m, i)
<1>1. CASE \A j \in 1 .. i : l[j].cmd = Noop
  <2>1. \A j \in 1 .. i : m[j].cmd = Noop
    BY <1>1
  <2>2. CmdAt(l, i) = Nil
    BY <1>1, CmdAtIs
  <2>3. CmdAt(m, i) = Nil
    BY <2>1, CmdAtIs
  <2> QED BY <2>2, <2>3
<1>2. CASE \E j \in 1 .. i : l[j].cmd # Noop
  <2>1. PICK a \in 1 .. i : /\ l[a].cmd # Noop /\ \A h \in 1 .. i : l[h].cmd # Noop => h <= a
                            /\ CmdAt(l, i) = l[a].cmd
    BY <1>2, CmdAtIs
  <2>2. PICK b \in 1 .. i : /\ m[b].cmd # Noop /\ \A h \in 1 .. i : m[h].cmd # Noop => h <= b
                            /\ CmdAt(m, i) = m[b].cmd
    <3>1. m[a].cmd # Noop
      BY <2>1
    <3> QED BY <3>1, CmdAtIs
  <2>3. a <= b /\ b <= a /\ a \in Nat /\ b \in Nat
    BY <2>1, <2>2
  <2>4. a = b
    BY <2>3
  <2> QED BY <2>1, <2>2, <2>4
<1> QED BY <1>1, <1>2

-----------------------------------------------------------------------------
(* The inductive invariant *)

Entries == [term : Nat, cmd : Requests \cup {Noop}]

RaftTypes ==
    /\ up \in [Nodes -> BOOLEAN] /\ joined \subseteq Nodes
    /\ logs \in Seq(Seq(Entries)) /\ commit \in Nat
    /\ view \in [Nodes -> Nat] /\ lead \in [Nodes -> BOOLEAN]
    /\ hint \in [Nodes -> Nodes \cup {Nobody}]

RequestRecords ==
    [pc : {"new", "handling", "forwarding", "proposed", "ok", "error"},
     at : Nodes \cup {Nobody}, term : Nat, index : Nat, via : Nat]

ReadRecords ==
    [pc : {"new", "checked", "done"}, at : Nodes \cup {Nobody}, level : Levels \cup {"none"},
     known : SUBSET Nat, settled : BOOLEAN, result : Requests \cup {Nil}]

ClusterTypes ==
    /\ applied \in [Nodes -> Nat] /\ reach \in [Nodes -> Nat]
    /\ request \in [Requests -> RequestRecords] /\ read \in ReadRecords
    /\ acked \subseteq Nat /\ crashes \in Nat

\* The log of a term has entries of that and earlier terms, in this order,
\* and no write twice.
LogOK(l, t) ==
    /\ \A i \in 1 .. Len(l) : l[i].term \in 1 .. t
    /\ \A i, j \in 1 .. Len(l) : i <= j => l[i].term <= l[j].term
    /\ \A i, j \in 1 .. Len(l) : l[i].cmd = l[j].cmd /\ l[i].cmd # Noop => i = j

LogsOK ==
    /\ commit <= Len(Log(term))
    /\ \A t \in 1 .. term : LogOK(logs[t], t)

\* Whoever has a leader in term w has n.
Owner(w, n) == \A m \in Nodes : view[m] = w /\ hint[m] # Nobody => hint[m] = n

\* A term has one leader, and a node knows of no leader that is behind it.
LeadersOK ==
    \A n \in Nodes :
        /\ view[n] <= term /\ (lead[n] <=> hint[n] = n) /\ (lead[n] => up[n])
        /\ hint[n] # Nobody => view[n] >= 1 /\ view[hint[n]] >= view[n] /\ Owner(view[n], hint[n])

\* A leader's own log has what it has applied.
AppliedOK ==
    \A n \in Nodes :
        /\ applied[n] <= commit /\ reach[n] <= commit
        /\ lead[n] => \A i \in 1 .. applied[n] :
              i <= Len(logs[view[n]]) /\ logs[view[n]][i] = Entry(i)

\* No log has the write r.
Unwritten(r) == \A t \in 1 .. term : \A i \in 1 .. Len(logs[t]) : logs[t][i].cmd # r

\* q may be the state of the call of the write r.
CallOK(q, r) ==
    /\ q.pc = "new" => q.via = 0
    /\ q.pc \in {"new", "handling", "forwarding"} => Unwritten(r)
    /\ q.pc \in {"handling", "forwarding"} =>
          q.at \in Nodes /\ q.via <= view[q.at] /\ Owner(q.via, q.at)
    /\ q.pc = "forwarding" /\ q.via = view[q.at] => hint[q.at] = Nobody
    /\ q.pc = "proposed" =>
          /\ q.at \in Nodes /\ q.term \in 1 .. term /\ q.index \in 1 .. Len(logs[q.term])
          /\ logs[q.term][q.index] = [term |-> q.term, cmd |-> r] /\ Owner(q.term, q.at)
    /\ q.pc = "ok" => \E i \in 1 .. commit : Entry(i).cmd = r

RequestOK(r) == CallOK(request[r], r)

\* An acknowledged entry is committed, and the leader of its term has applied it.
AckedOK ==
    \A a \in acked :
        /\ a \in 1 .. commit
        /\ \A n \in Nodes : lead[n] /\ view[n] = Entry(a).term => a <= applied[n]

ReadOK ==
    /\ read.pc = "checked" => /\ read.at \in Nodes /\ up[read.at]
                              /\ read.settled => \A a \in read.known : a <= applied[read.at]
    /\ read.pc = "done" /\ read.settled => Fresh

ClusterInv ==
    /\ RaftTypes /\ ClusterTypes /\ LogsOK /\ LeadersOK /\ AppliedOK
    /\ \A r \in Requests : RequestOK(r)
    /\ AckedOK /\ ReadOK

-----------------------------------------------------------------------------
(* Logs *)

LEMMA LogPrefix ==
  ASSUME NEW l \in Seq(Entries), NEW t \in Nat, LogOK(l, t), NEW i \in 0 .. Len(l)
  PROVE  LET p == SubSeq(l, 1, i)
         IN  /\ p \in Seq(Entries) /\ Len(p) = i /\ \A j \in 1 .. i : p[j] = l[j]
             /\ LogOK(p, t)
<1> DEFINE p == SubSeq(l, 1, i)
<1>1. p \in Seq(Entries) /\ Len(p) = i /\ i \in Nat /\ \A j \in 1 .. i : p[j] = l[j] /\ j \in 1 .. Len(l)
  OBVIOUS
<1> HIDE DEF p
<1>2. LogOK(p, t)
  BY <1>1 DEF LogOK
<1> QED BY <1>1, <1>2 DEF p

LEMMA LogAppend ==
  ASSUME NEW l \in Seq(Entries), NEW t \in Nat, LogOK(l, t), NEW u \in Nat, u >= 1, t <= u,
         NEW c \in Requests \cup {Noop}, c = Noop \/ \A i \in 1 .. Len(l) : l[i].cmd # c
  PROVE  LET p == Append(l, [term |-> u, cmd |-> c])
         IN  /\ p \in Seq(Entries) /\ Len(p) = Len(l) + 1 /\ \A j \in 1 .. Len(l) : p[j] = l[j]
             /\ p[Len(l) + 1] = [term |-> u, cmd |-> c]
             /\ LogOK(p, u)
<1> DEFINE e == [term |-> u, cmd |-> c]
           p == Append(l, e)
<1>1. e \in Entries /\ e.term = u /\ e.cmd = c
  BY DEF Entries
<1> HIDE DEF e
<1>2. /\ p \in Seq(Entries) /\ Len(p) = Len(l) + 1 /\ Len(l) \in Nat
      /\ \A j \in 1 .. Len(l) : p[j] = l[j]
      /\ p[Len(l) + 1] = e
  BY <1>1
<1> HIDE DEF p
<1>3. \A j \in 1 .. Len(p) : j \in 1 .. Len(l) \/ j = Len(l) + 1
  BY <1>2
<1>4. \A j \in 1 .. Len(p) : p[j].term \in 1 .. u
  <2>1. \A j \in 1 .. Len(l) : p[j].term \in 1 .. t
    BY <1>2 DEF LogOK
  <2> QED BY <1>1, <1>2, <1>3, <2>1
<1>5. \A i, j \in 1 .. Len(p) : i <= j => p[i].term <= p[j].term
  <2> TAKE i, j \in 1 .. Len(p)
  <2>1. CASE j \in 1 .. Len(l)
    BY <1>2, <1>3, <2>1 DEF LogOK
  <2>2. CASE j = Len(l) + 1
    BY <1>1, <1>2, <1>4, <2>2
  <2> QED BY <1>3, <2>1, <2>2
<1>6. \A i, j \in 1 .. Len(p) : p[i].cmd = p[j].cmd /\ p[i].cmd # Noop => i = j
  BY <1>1, <1>2, <1>3 DEF LogOK
<1> QED BY <1>2, <1>4, <1>5, <1>6 DEF LogOK, p, e

LEMMA LogFacts ==
  ASSUME RaftTypes, LogsOK, NEW t \in 0 .. term
  PROVE  Log(t) \in Seq(Entries) /\ Len(Log(t)) \in Nat /\ LogOK(Log(t), t)
<1>1. CASE t = 0
  BY <1>1 DEF Log, LogOK
<1>2. CASE t # 0
  BY <1>2 DEF Log, RaftTypes, LogsOK, term
<1> QED BY <1>1, <1>2

\* The newest leader's log has the committed entries.
LEMMA TopFacts ==
  ASSUME RaftTypes, LogsOK
  PROVE  /\ term \in Nat /\ commit \in Nat /\ Log(term) \in Seq(Entries) /\ commit <= Len(Log(term))
         /\ commit >= 1 => term >= 1
         /\ term >= 1 => Log(term) = logs[term]
<1>1. term \in Nat /\ commit \in Nat /\ commit <= Len(Log(term))
  BY DEF RaftTypes, term, LogsOK
<1>2. Log(term) \in Seq(Entries)
  BY <1>1, LogFacts
<1>3. term = 0 => Len(Log(term)) = 0
  BY DEF Log
<1>4. term >= 1 => Log(term) = logs[term]
  BY <1>1 DEF Log
<1> QED BY <1>1, <1>2, <1>3, <1>4

-----------------------------------------------------------------------------
(* What every step of Raft, and every step of the cluster, does to the logs   *)
(* and to what the nodes know of their leaders; S has the writes it may add.  *)

Steady == commit <= commit' /\ \A i \in 1 .. commit : Entry(i)' = Entry(i)

LogsGrow ==
    /\ term <= term'
    /\ \A t \in 1 .. term :
          /\ Len(logs[t]) <= Len(logs'[t])
          /\ \A i \in 1 .. Len(logs[t]) : logs'[t][i] = logs[t][i]

\* Owner(w, n) after the step.
OwnerNext(w, n) == \A m \in Nodes : view'[m] = w /\ hint'[m] # Nobody => hint'[m] = n

ViewsGrow ==
    \A n \in Nodes :
        /\ view[n] <= view'[n]
        /\ lead'[n] => (lead[n] /\ view'[n] = view[n]) \/ (view'[n] = term' /\ term < term')
        /\ \A w \in 0 .. term : Owner(w, n) => OwnerNext(w, n)

RaftMoves(S) ==
    /\ RaftTypes' /\ LogsOK' /\ LeadersOK'
    /\ Steady /\ LogsGrow /\ ViewsGrow
    /\ \A r \in Requests \ S : Unwritten(r) => Unwritten(r)'

\* No log changes.
LEMMA LogsStay ==
  ASSUME RaftTypes, LogsOK, logs' = logs, commit' \in Nat, commit <= commit',
         commit' <= Len(Log(term))
  PROVE  LogsOK' /\ Steady /\ LogsGrow /\ \A r \in Requests : Unwritten(r) => Unwritten(r)'
<1>1. term' = term /\ term \in Nat /\ Log(term)' = Log(term)
  BY DEF term, Log, RaftTypes
<1>2. LogsOK'
  BY <1>1 DEF LogsOK
<1>3. Steady
  BY <1>1 DEF Steady, Entry
<1>4. LogsGrow
  <2>1. \A t \in 1 .. term : Len(logs[t]) \in Nat
    BY DEF RaftTypes, term
  <2> QED BY <1>1, <2>1 DEF LogsGrow
<1>5. \A r \in Requests : Unwritten(r) => Unwritten(r)'
  BY <1>1 DEF Unwritten
<1> QED BY <1>2, <1>3, <1>4, <1>5

LEMMA ElectMoves ==
  ASSUME RaftTypes, LogsOK, LeadersOK, NEW n \in Nodes, Elect(n)
  PROVE  RaftMoves({})
<1> DEFINE T == term
<1>1. PICK Q \in SUBSET {m \in joined : up[m]} :
         /\ n \in Q
         /\ view' = [m \in Nodes |-> IF m \in Q THEN T + 1 ELSE view[m]]
         /\ lead' = [m \in Nodes |-> m = n \/ (lead[m] /\ m \notin Q)]
         /\ hint' = [m \in Nodes |-> IF m \in Q THEN n ELSE hint[m]]
  BY DEF Elect
<1>0. PICK t \in 0 .. T : \E i \in commit .. Len(Log(t)) :
         /\ SubSeq(Log(t), 1, commit) = SubSeq(Log(T), 1, commit)
         /\ logs' = Append(logs, Append(SubSeq(Log(t), 1, i), [term |-> T + 1, cmd |-> Noop]))
  BY DEF Elect, Committed
<1>2. PICK i \in commit .. Len(Log(t)) :
         /\ SubSeq(Log(t), 1, commit) = SubSeq(Log(T), 1, commit)
         /\ logs' = Append(logs, Append(SubSeq(Log(t), 1, i), [term |-> T + 1, cmd |-> Noop]))
  BY <1>0
<1>3. up' = up /\ joined' = joined /\ commit' = commit
  BY DEF Elect
<1>4. /\ T \in Nat /\ commit \in Nat /\ Log(T) \in Seq(Entries) /\ commit <= Len(Log(T))
      /\ (T >= 1 => Log(T) = logs[T]) /\ T = Len(logs) /\ logs \in Seq(Seq(Entries))
  BY TopFacts DEF RaftTypes, term
<1>5. Log(t) \in Seq(Entries) /\ LogOK(Log(t), t) /\ i \in 0 .. Len(Log(t)) /\ Len(Log(t)) \in Nat
  BY <1>4, LogFacts
<1> DEFINE p == SubSeq(Log(t), 1, i)
           new == Append(p, [term |-> T + 1, cmd |-> Noop])
<1>6. /\ p \in Seq(Entries) /\ Len(p) = i /\ LogOK(p, t)
      /\ \A j \in 1 .. i : p[j] = Log(t)[j]
  BY <1>4, <1>5, LogPrefix
<1>7. \A j \in 1 .. commit : Log(t)[j] = Log(T)[j]
  <2> TAKE j \in 1 .. commit
  <2>1. SubSeq(Log(t), 1, commit)[j] = Log(t)[j] /\ SubSeq(Log(T), 1, commit)[j] = Log(T)[j]
    BY <1>4, <1>5
  <2> QED BY <1>2, <2>1
<1>8. logs' = Append(logs, new)
  BY <1>2
<1> HIDE DEF T, p
<1>9. /\ new \in Seq(Entries) /\ Len(new) = i + 1 /\ \A j \in 1 .. i : new[j] = p[j]
      /\ LogOK(new, T + 1) /\ new[i + 1].cmd = Noop
  <2>1. T + 1 \in Nat /\ T + 1 >= 1 /\ t <= T + 1 /\ t \in Nat /\ Noop \in Requests \cup {Noop}
    BY <1>4
  <2> QED BY <1>6, <2>1, LogAppend
<1> HIDE DEF new
<1>10. /\ logs' \in Seq(Seq(Entries)) /\ Len(logs') = T + 1 /\ logs'[T + 1] = new
       /\ \A u \in 1 .. T : logs'[u] = logs[u]
  BY <1>4, <1>8, <1>9
<1>11. term' = T + 1 /\ Log(term)' = new
  <2>1. term' = T + 1
    BY <1>10 DEF term
  <2>2. T + 1 # 0
    BY <1>4
  <2> QED BY <1>10, <2>1, <2>2 DEF Log
<1>12. RaftTypes'
  <2>1. Q \subseteq Nodes /\ n \in Nodes
    BY DEF RaftTypes
  <2>2. view' \in [Nodes -> Nat] /\ hint' \in [Nodes -> Nodes \cup {Nobody}]
    BY <1>1, <1>4, <2>1 DEF RaftTypes
  <2>3. lead' \in [Nodes -> BOOLEAN]
    BY <1>1, Zenon
  <2> QED BY <1>3, <1>10, <2>2, <2>3 DEF RaftTypes
<1>13. LogsOK'
  <2>1. commit' <= Len(new)
    BY <1>3, <1>4, <1>5, <1>9
  <2>2. \A u \in 1 .. T + 1 : LogOK(logs'[u], u)
    <3> TAKE u \in 1 .. T + 1
    <3>1. CASE u \in 1 .. T
      BY <1>10, <3>1 DEF LogsOK, T
    <3>2. CASE u = T + 1
      BY <1>9, <1>10, <3>2
    <3> QED BY <1>4, <3>1, <3>2
  <2> QED BY <1>11, <2>1, <2>2 DEF LogsOK
<1>14. Steady
  <2>1. \A j \in 1 .. commit : new[j] = Log(T)[j]
    BY <1>4, <1>5, <1>6, <1>7, <1>9
  <2> QED BY <1>3, <1>4, <1>11, <2>1 DEF Steady, Entry, T
<1>15. LogsGrow
  <2>1. \A u \in 1 .. T : Len(logs[u]) \in Nat
    BY <1>4
  <2> QED BY <1>4, <1>10, <1>11, <2>1 DEF LogsGrow, T
<1>16. ASSUME NEW r \in Requests, Unwritten(r) PROVE Unwritten(r)'
  <2> SUFFICES ASSUME NEW u \in 1 .. T + 1, NEW j \in 1 .. Len(logs'[u]) PROVE logs'[u][j].cmd # r
    BY <1>11 DEF Unwritten
  <2>1. CASE u \in 1 .. T
    BY <1>10, <1>16, <2>1 DEF Unwritten, T
  <2>2. CASE u = T + 1
    <3>1. j \in 1 .. i \/ j = i + 1
      BY <1>4, <1>5, <1>9, <1>10, <2>2
    <3>2. CASE j = i + 1
      BY <1>9, <1>10, <2>2, <3>2, ClusterAssumption
    <3>3. CASE j \in 1 .. i
      <4>1. logs'[u][j] = Log(t)[j]
        BY <1>6, <1>9, <1>10, <2>2, <3>3
      <4>2. t # 0
        <5> SUFFICES ASSUME t = 0 PROVE FALSE
          OBVIOUS
        <5>1. Len(Log(t)) = 0
          BY DEF Log
        <5> QED BY <1>4, <1>5, <3>3, <5>1
      <4>3. Log(t) = logs[t] /\ t \in 1 .. T /\ j \in 1 .. Len(logs[t])
        BY <1>4, <1>5, <3>3, <4>2 DEF Log
      <4> QED BY <1>16, <4>1, <4>3 DEF Unwritten, T
    <3> QED BY <3>1, <3>2, <3>3
  <2> QED BY <1>4, <2>1, <2>2
<1>17. \A m \in Nodes : view[m] \in Nat /\ view[m] <= T /\ Nobody # n /\ (m \in Q => up[m])
       /\ hint[m] \in Nodes \cup {Nobody} /\ lead[m] \in BOOLEAN
  BY RaftAssumption DEF LeadersOK, RaftTypes, T
<1>18. \A m \in Nodes : /\ view'[m] = (IF m \in Q THEN T + 1 ELSE view[m])
                        /\ hint'[m] = (IF m \in Q THEN n ELSE hint[m])
                        /\ lead'[m] <=> m = n \/ (lead[m] /\ m \notin Q)
  BY <1>1, <1>17
<1>19. \A m \in Nodes, w \in 0 .. T : Owner(w, m) => OwnerNext(w, m)
  <2> SUFFICES ASSUME NEW m \in Nodes, NEW w \in 0 .. T, Owner(w, m),
                      NEW q \in Nodes, view'[q] = w, hint'[q] # Nobody
               PROVE  hint'[q] = m
    BY DEF OwnerNext
  <2>1. q \notin Q
    BY <1>4, <1>18
  <2> QED BY <1>18, <2>1 DEF Owner
<1>20. ViewsGrow
  BY <1>1, <1>4, <1>11, <1>17, <1>18, <1>19 DEF ViewsGrow, T
<1>21. OwnerNext(T + 1, n)
  <2> SUFFICES ASSUME NEW q \in Nodes, view'[q] = T + 1, hint'[q] # Nobody PROVE hint'[q] = n
    BY DEF OwnerNext
  <2> QED BY <1>4, <1>17, <1>18
<1>22. LeadersOK'
  <2> SUFFICES ASSUME NEW m \in Nodes
               PROVE  /\ view'[m] <= T + 1 /\ (lead'[m] <=> hint'[m] = m) /\ (lead'[m] => up[m])
                      /\ hint'[m] # Nobody => /\ view'[m] >= 1 /\ view'[hint'[m]] >= view'[m]
                                              /\ OwnerNext(view'[m], hint'[m])
    BY <1>3, <1>11 DEF LeadersOK, Owner, OwnerNext
  <2>0. T = term
    BY DEF T
  <2>1. CASE m \in Q
    BY <1>1, <1>4, <1>17, <1>18, <1>21, <2>1
  <2>2. CASE m \notin Q
    <3>1. view'[m] = view[m] /\ hint'[m] = hint[m] /\ (lead'[m] <=> lead[m]) /\ m # n
      BY <1>1, <1>18, <2>2
    <3>2. ASSUME hint[m] # Nobody
          PROVE  /\ view[m] >= 1 /\ view'[hint[m]] >= view[m] /\ OwnerNext(view[m], hint[m])
      <4>1. hint[m] \in Nodes /\ view[m] >= 1 /\ view[hint[m]] >= view[m] /\ Owner(view[m], hint[m])
        BY <1>17, <3>2 DEF LeadersOK
      <4>2. view[m] \in 0 .. T /\ view'[hint[m]] \in Nat /\ view'[hint[m]] >= view[hint[m]]
            /\ view[hint[m]] \in Nat
        BY <1>4, <1>17, <1>18, <4>1
      <4> QED BY <1>17, <1>19, <4>1, <4>2
    <3>3. view[m] <= T + 1 /\ (lead[m] <=> hint[m] = m) /\ (lead[m] => up[m])
      BY <1>4, <1>17 DEF LeadersOK
    <3> QED BY <3>1, <3>2, <3>3
  <2> QED BY <2>1, <2>2
<1> QED BY <1>12, <1>13, <1>14, <1>15, <1>16, <1>20, <1>22 DEF RaftMoves

LEMMA HearMoves ==
  ASSUME RaftTypes, LogsOK, LeadersOK, NEW n \in Nodes, NEW p \in Nodes, Hear(n, p)
  PROVE  RaftMoves({})
<1>1. /\ view' = [view EXCEPT ![n] = view[p]] /\ lead' = [lead EXCEPT ![n] = FALSE]
      /\ hint' = [hint EXCEPT ![n] = p] /\ logs' = logs /\ commit' = commit /\ up' = up /\ joined' = joined
      /\ lead[p] /\ view[p] >= view[n] /\ n # p
  BY DEF Hear
<1>2. RaftTypes'
  BY <1>1 DEF RaftTypes
<1>3. LogsOK' /\ Steady /\ LogsGrow /\ \A r \in Requests : Unwritten(r) => Unwritten(r)'
  BY <1>1, TopFacts, LogsStay
<1>4. term' = term /\ term \in Nat
  BY <1>1, TopFacts DEF term
<1>5. \A m \in Nodes : view[m] \in Nat /\ view[m] <= term /\ Nobody # p /\ hint[m] \in Nodes \cup {Nobody}
  BY RaftAssumption DEF LeadersOK, RaftTypes
<1>6. /\ view'[n] = view[p] /\ hint'[n] = p /\ ~lead'[n]
      /\ \A m \in Nodes \ {n} : view'[m] = view[m] /\ hint'[m] = hint[m] /\ lead'[m] = lead[m]
  BY <1>1 DEF RaftTypes
<1>7. hint[p] = p /\ Owner(view[p], p) /\ view[p] >= 1
  BY <1>1, <1>5 DEF LeadersOK
<1>8. \A m \in Nodes, w \in 0 .. term : Owner(w, m) => OwnerNext(w, m)
  <2> SUFFICES ASSUME NEW m \in Nodes, NEW w \in 0 .. term, Owner(w, m),
                      NEW q \in Nodes, view'[q] = w, hint'[q] # Nobody
               PROVE  hint'[q] = m
    BY DEF OwnerNext
  <2>1. CASE q = n
    BY <1>5, <1>6, <1>7, <2>1 DEF Owner
  <2>2. CASE q # n
    BY <1>6, <2>2 DEF Owner
  <2> QED BY <2>1, <2>2
<1>9. ViewsGrow
  BY <1>1, <1>4, <1>5, <1>6, <1>8 DEF ViewsGrow
<1>10. LeadersOK'
  <2> SUFFICES ASSUME NEW m \in Nodes
               PROVE  /\ view'[m] <= term /\ (lead'[m] <=> hint'[m] = m) /\ (lead'[m] => up[m])
                      /\ hint'[m] # Nobody => /\ view'[m] >= 1 /\ view'[hint'[m]] >= view'[m]
                                              /\ OwnerNext(view'[m], hint'[m])
    BY <1>1, <1>4 DEF LeadersOK, Owner, OwnerNext
  <2>1. CASE m = n
    <3>1. view[p] \in 0 .. term
      BY <1>4, <1>5
    <3> QED BY <1>1, <1>5, <1>6, <1>7, <1>8, <2>1, <3>1
  <2>2. CASE m # n
    <3>1. view'[m] = view[m] /\ hint'[m] = hint[m] /\ lead'[m] = lead[m]
      BY <1>6, <2>2
    <3>2. ASSUME hint[m] # Nobody
          PROVE  view[m] >= 1 /\ view'[hint[m]] >= view[m] /\ OwnerNext(view[m], hint[m])
      <4>1. hint[m] \in Nodes /\ view[m] >= 1 /\ view[hint[m]] >= view[m] /\ Owner(view[m], hint[m])
        BY <1>5, <3>2 DEF LeadersOK
      <4>2. view[m] \in 0 .. term /\ view'[hint[m]] >= view[hint[m]] /\ view'[hint[m]] \in Nat
            /\ view[hint[m]] \in Nat
        BY <1>1, <1>4, <1>5, <1>6, <4>1
      <4> QED BY <1>5, <1>8, <4>1, <4>2
    <3>3. view[m] <= term /\ (lead[m] <=> hint[m] = m) /\ (lead[m] => up[m])
      BY DEF LeadersOK
    <3> QED BY <3>1, <3>2, <3>3
  <2> QED BY <2>1, <2>2
<1> QED BY <1>2, <1>3, <1>9, <1>10 DEF RaftMoves

\* n no longer leads nor has a leader: StepDown and Crash.
LEMMA LosesMoves ==
  ASSUME RaftTypes, LogsOK, LeadersOK, NEW n \in Nodes, lead' = [lead EXCEPT ![n] = FALSE],
         hint' = [hint EXCEPT ![n] = Nobody], up' = up \/ up' = [up EXCEPT ![n] = FALSE],
         UNCHANGED <<joined, logs, commit, view>>
  PROVE  RaftMoves({})
<1>1. RaftTypes'
  BY DEF RaftTypes
<1>2. LogsOK' /\ Steady /\ LogsGrow /\ \A r \in Requests : Unwritten(r) => Unwritten(r)'
  BY TopFacts, LogsStay
<1>3. term' = term /\ term \in Nat
  BY TopFacts DEF term
<1>4. \A m \in Nodes : view[m] \in Nat /\ view[m] <= term /\ hint[m] \in Nodes \cup {Nobody} /\ m # Nobody
  BY RaftAssumption DEF LeadersOK, RaftTypes
<1>5. /\ hint'[n] = Nobody /\ ~lead'[n]
      /\ \A m \in Nodes \ {n} : hint'[m] = hint[m] /\ lead'[m] = lead[m] /\ up'[m] = up[m]
  BY DEF RaftTypes
<1>6. \A m \in Nodes, w \in 0 .. term : Owner(w, m) => OwnerNext(w, m)
  BY <1>5 DEF Owner, OwnerNext
<1>7. ViewsGrow
  BY <1>3, <1>4, <1>5, <1>6 DEF ViewsGrow
<1>8. LeadersOK'
  <2> SUFFICES ASSUME NEW m \in Nodes
               PROVE  /\ view[m] <= term /\ (lead'[m] <=> hint'[m] = m) /\ (lead'[m] => up'[m])
                      /\ hint'[m] # Nobody => /\ view[m] >= 1 /\ view[hint'[m]] >= view[m]
                                              /\ OwnerNext(view[m], hint'[m])
    BY <1>3 DEF LeadersOK, Owner, OwnerNext
  <2>1. CASE m = n
    BY <1>4, <1>5, <2>1
  <2>2. CASE m # n
    <3>1. view[m] \in 0 .. term /\ hint'[m] = hint[m] /\ lead'[m] = lead[m] /\ up'[m] = up[m]
      BY <1>3, <1>4, <1>5, <2>2
    <3> QED BY <1>4, <1>6, <3>1 DEF LeadersOK
  <2> QED BY <2>1, <2>2
<1> QED BY <1>1, <1>2, <1>7, <1>8 DEF RaftMoves

\* Nothing changes but that entries are committed, nodes come up or join.
LEMMA QuietMoves ==
  ASSUME RaftTypes, LogsOK, LeadersOK, RaftTypes', UNCHANGED <<logs, view, lead, hint>>,
         \A n \in Nodes : up[n] => up'[n], commit <= commit', commit' <= Len(Log(term))
  PROVE  RaftMoves({})
<1>1. LogsOK' /\ Steady /\ LogsGrow /\ \A r \in Requests : Unwritten(r) => Unwritten(r)'
  BY LogsStay DEF RaftTypes
<1>2. term' = term
  BY DEF term
<1>3. \A n \in Nodes, w \in 0 .. term : Owner(w, n) => OwnerNext(w, n)
  BY DEF Owner, OwnerNext
<1>4. ViewsGrow
  <2>1. \A n \in Nodes : view[n] \in Nat
    BY DEF RaftTypes
  <2> QED BY <1>2, <1>3, <2>1 DEF ViewsGrow
<1>5. LeadersOK'
  BY <1>2 DEF LeadersOK, Owner
<1> QED BY <1>1, <1>4, <1>5 DEF RaftMoves

LEMMA RaftStepMoves ==
  ASSUME RaftTypes, LogsOK, LeadersOK, RaftStep
  PROVE  RaftMoves({})
<1>1. ASSUME NEW n \in Nodes, StepDown(n) PROVE RaftMoves({})
  BY <1>1, LosesMoves DEF StepDown
<1>2. ASSUME NEW n \in Nodes, Commit(n) PROVE RaftMoves({})
  <2>1. PICK i \in commit + 1 .. Len(Log(term)) : commit' = i
    BY <1>2 DEF Commit
  <2>2. UNCHANGED <<up, joined, logs, view, lead, hint>>
    BY <1>2 DEF Commit
  <2>3. commit \in Nat /\ Len(Log(term)) \in Nat
    BY TopFacts
  <2>4. commit' \in Nat /\ commit <= commit' /\ commit' <= Len(Log(term))
    BY <2>1, <2>3
  <2>5. RaftTypes'
    BY <2>2, <2>4 DEF RaftTypes
  <2> QED BY <2>2, <2>4, <2>5, QuietMoves
<1> QED BY <1>1, <1>2, ElectMoves, HearMoves DEF RaftStep

LEMMA SameMoves ==
  ASSUME RaftTypes, LogsOK, LeadersOK, UNCHANGED raft
  PROVE  RaftMoves({})
<1>1. UNCHANGED <<up, joined, logs, commit, view, lead, hint>>
  BY DEF raft
<1>2. RaftTypes'
  BY <1>1 DEF RaftTypes
<1>3. commit \in Nat /\ commit <= Len(Log(term))
  BY TopFacts
<1> QED BY <1>1, <1>2, <1>3, QuietMoves

\* A leader appends the write r to its log, at the place raft.Apply reports.
LEMMA ProposeMoves ==
  ASSUME RaftTypes, LogsOK, LeadersOK, NEW n \in Nodes, lead[n], NEW r \in Requests,
         Unwritten(r), Propose(n, r), UNCHANGED <<up, joined, commit, view, lead, hint>>
  PROVE  /\ RaftMoves({r})
         /\ view[n] \in 1 .. term' /\ Len(Log(view[n])) + 1 \in 1 .. Len(logs'[view[n]])
         /\ logs'[view[n]][Len(Log(view[n])) + 1] = [term |-> view[n], cmd |-> r]
<1> DEFINE v == view[n]
           l == logs[v]
           e == [term |-> v, cmd |-> r]
           p == Append(l, e)
<1>1. v \in 1 .. term /\ term \in Nat /\ v \in Nat /\ Log(v) = l /\ term = Len(logs) /\ logs \in Seq(Seq(Entries))
  <2>1. v \in Nat /\ v <= term /\ v >= 1
    BY RaftAssumption DEF LeadersOK, RaftTypes
  <2>2. term \in Nat /\ logs \in Seq(Seq(Entries)) /\ term = Len(logs)
    BY DEF RaftTypes, term
  <2> QED BY <2>1, <2>2 DEF Log
<1>2. l \in Seq(Entries) /\ LogOK(l, v) /\ Len(l) \in Nat
  BY <1>1 DEF LogsOK
<1>3. \A i \in 1 .. Len(l) : l[i].cmd # r
  BY <1>1 DEF Unwritten
<1>4. logs' = [logs EXCEPT ![v] = p]
  BY DEF Propose
<1> HIDE DEF v, l
<1>5. /\ p \in Seq(Entries) /\ Len(p) = Len(l) + 1 /\ \A i \in 1 .. Len(l) : p[i] = l[i]
      /\ p[Len(l) + 1] = e /\ LogOK(p, v)
  <2>1. v >= 1 /\ v <= v /\ r \in Requests \cup {Noop}
    BY <1>1
  <2> QED BY <1>1, <1>2, <1>3, <2>1, LogAppend
<1> HIDE DEF p
<1>6. /\ logs' \in Seq(Seq(Entries)) /\ Len(logs') = Len(logs) /\ logs'[v] = p
      /\ \A t \in 1 .. Len(logs) : t # v => logs'[t] = logs[t]
  BY <1>1, <1>4, <1>5
<1>7. term' = term
  BY <1>1, <1>6 DEF term
<1>8. logs[v] = l
  BY DEF l
<1>9. RaftTypes'
  BY <1>6 DEF RaftTypes
<1>10. \A t \in 1 .. term : LogOK(logs'[t], t)
  BY <1>1, <1>5, <1>6 DEF LogsOK
<1>11. LogsGrow
  <2>1. \A t \in 1 .. term : Len(logs[t]) \in Nat
    BY <1>1
  <2>2. \A t \in 1 .. term : /\ Len(logs[t]) <= Len(logs'[t])
                             /\ \A i \in 1 .. Len(logs[t]) : logs'[t][i] = logs[t][i]
    <3> TAKE t \in 1 .. term
    <3>1. CASE t = v
      BY <1>2, <1>5, <1>6, <1>8, <3>1
    <3>2. CASE t # v
      <4>1. t \in 1 .. Len(logs) /\ logs'[t] = logs[t] /\ Len(logs[t]) \in Nat
        BY <1>1, <1>6, <2>1, <3>2
      <4> QED BY <4>1
    <3> QED BY <3>1, <3>2
  <2> QED BY <1>1, <1>7, <2>2 DEF LogsGrow
<1>12. Log(term) = logs[term] /\ Log(term)' = logs'[term] /\ term \in 1 .. term
  BY <1>1, <1>7 DEF Log
<1>13. Len(logs[term]) \in Nat /\ Len(logs'[term]) \in Nat /\ commit <= Len(logs[term]) /\ commit \in Nat
  BY <1>1, <1>6, <1>12, TopFacts
<1>14. LogsOK' /\ Steady
  <2>1. commit' <= Len(logs'[term])
    BY <1>11, <1>12, <1>13 DEF LogsGrow
  <2>2. \A i \in 1 .. commit : logs'[term][i] = logs[term][i]
    BY <1>11, <1>12, <1>13 DEF LogsGrow
  <2> QED BY <1>7, <1>10, <1>12, <1>13, <2>1, <2>2 DEF LogsOK, Steady, Entry
<1>15. ViewsGrow
  <2>1. \A m \in Nodes : view[m] \in Nat
    BY DEF RaftTypes
  <2> QED BY <1>7, <2>1 DEF ViewsGrow, Owner, OwnerNext
<1>16. LeadersOK'
  BY <1>7 DEF LeadersOK, Owner
<1>17. ASSUME NEW q \in Requests \ {r}, Unwritten(q) PROVE Unwritten(q)'
  <2> SUFFICES ASSUME NEW t \in 1 .. term, NEW i \in 1 .. Len(logs'[t]) PROVE logs'[t][i].cmd # q
    BY <1>7 DEF Unwritten
  <2>1. CASE t = v
    <3>1. i \in 1 .. Len(l) \/ i = Len(l) + 1
      BY <1>2, <1>5, <1>6, <2>1
    <3>2. CASE i = Len(l) + 1
      BY <1>5, <1>6, <2>1, <3>2
    <3>3. CASE i \in 1 .. Len(l)
      <4>1. l[i].cmd # q
        BY <1>1, <1>8, <1>17, <3>3 DEF Unwritten
      <4>2. logs'[t][i] = l[i]
        BY <1>5, <1>6, <2>1, <3>3
      <4> QED BY <4>1, <4>2
    <3> QED BY <3>1, <3>2, <3>3
  <2>2. CASE t # v
    BY <1>1, <1>6, <1>17, <2>2 DEF Unwritten
  <2> QED BY <2>1, <2>2
<1>18. RaftMoves({r})
  BY <1>9, <1>11, <1>14, <1>15, <1>16, <1>17 DEF RaftMoves
<1>19. v \in 1 .. term' /\ Len(Log(v)) + 1 \in 1 .. Len(logs'[v]) /\ logs'[v][Len(Log(v)) + 1] = e
  BY <1>1, <1>2, <1>5, <1>6, <1>7
<1> QED BY <1>18, <1>19 DEF v

-----------------------------------------------------------------------------
(* What such a step leaves as it was *)

LEMMA AppliedCarry ==
  ASSUME RaftTypes, LogsOK, LeadersOK, AppliedOK, ClusterTypes, NEW S, RaftMoves(S),
         applied' \in [Nodes -> Nat], \A n \in Nodes : applied'[n] <= applied[n], reach' = reach
  PROVE  AppliedOK'
<1>1. RaftTypes' /\ LogsOK' /\ Steady /\ LogsGrow /\ ViewsGrow
  BY DEF RaftMoves
<1>2. /\ commit \in Nat /\ commit' \in Nat /\ commit <= commit'
      /\ \A i \in 1 .. commit : Entry(i)' = Entry(i)
  BY <1>1 DEF RaftTypes, Steady
<1> SUFFICES ASSUME NEW n \in Nodes
             PROVE  /\ applied'[n] <= commit' /\ reach'[n] <= commit'
                    /\ lead'[n] => \A i \in 1 .. applied'[n] :
                          i <= Len(logs'[view'[n]]) /\ logs'[view'[n]][i] = Entry(i)'
  BY DEF AppliedOK
<1>3. /\ applied[n] \in Nat /\ reach[n] \in Nat /\ applied'[n] \in Nat /\ applied'[n] <= applied[n]
      /\ applied[n] <= commit /\ reach[n] <= commit
  BY DEF ClusterTypes, AppliedOK
<1>4. ASSUME lead[n], view'[n] = view[n], NEW i \in 1 .. applied'[n]
      PROVE  i <= Len(logs'[view'[n]]) /\ logs'[view'[n]][i] = Entry(i)'
  <2>1. i \in 1 .. applied[n] /\ i \in 1 .. commit
    BY <1>2, <1>3
  <2>2. i <= Len(logs[view[n]]) /\ logs[view[n]][i] = Entry(i)
    BY <1>4, <2>1 DEF AppliedOK
  <2>3. view[n] \in 1 .. term
    BY <1>4, RaftAssumption DEF LeadersOK, RaftTypes, term
  <2>4. Len(logs[view[n]]) \in Nat
    BY <2>3 DEF RaftTypes, term
  <2>5. Len(logs'[view[n]]) \in Nat
    <3>1. view[n] \in 1 .. term'
      BY <1>1, <2>3 DEF LogsGrow, RaftTypes, term
    <3> QED BY <1>1, <3>1 DEF RaftTypes, term
  <2>6. i \in 1 .. Len(logs[view[n]])
    BY <2>1, <2>2, <2>4
  <2> QED BY <1>1, <1>2, <1>4, <2>1, <2>2, <2>3, <2>4, <2>5, <2>6 DEF LogsGrow
<1>5. ASSUME view'[n] = term', term < term', NEW i \in 1 .. applied'[n]
      PROVE  i <= Len(logs'[view'[n]]) /\ logs'[view'[n]][i] = Entry(i)'
  <2>1. term' # 0
    BY <1>5, TopFacts DEF term
  <2>2. Log(term)' = logs'[term'] /\ commit' <= Len(Log(term)')
    BY <1>1, <2>1 DEF LogsOK, Log
  <2>3. Len(Log(term)') \in Nat
    BY <1>1, <2>1, <2>2 DEF RaftTypes, term
  <2> QED BY <1>2, <1>3, <1>5, <2>2, <2>3 DEF Entry
<1> QED BY <1>1, <1>2, <1>3, <1>4, <1>5 DEF ViewsGrow

LEMMA RequestCarry ==
  ASSUME RaftTypes, LogsOK, LeadersOK, ClusterTypes, NEW S, RaftMoves(S),
         NEW r \in Requests \ S, RequestOK(r), request'[r] = request[r]
  PROVE  RequestOK(r)'
<1> DEFINE q == request[r]
<1>1. /\ RaftTypes' /\ LogsOK' /\ LeadersOK' /\ Steady /\ LogsGrow /\ ViewsGrow
      /\ (Unwritten(r) => Unwritten(r)') /\ q \in RequestRecords /\ term \in Nat /\ term' \in Nat
  BY DEF RaftMoves, ClusterTypes, RaftTypes, term
<1>2. /\ q.pc = "new" => q.via = 0
      /\ q.pc \in {"new", "handling", "forwarding"} => Unwritten(r)
      /\ q.pc \in {"handling", "forwarding"} =>
            q.at \in Nodes /\ q.via <= view[q.at] /\ Owner(q.via, q.at)
      /\ q.pc = "forwarding" /\ q.via = view[q.at] => hint[q.at] = Nobody
      /\ q.pc = "proposed" =>
            /\ q.at \in Nodes /\ q.term \in 1 .. term /\ q.index \in 1 .. Len(logs[q.term])
            /\ logs[q.term][q.index] = [term |-> q.term, cmd |-> r] /\ Owner(q.term, q.at)
      /\ q.pc = "ok" => \E i \in 1 .. commit : Entry(i).cmd = r
  BY DEF RequestOK, CallOK
<1>3. request'[r] = q
  OBVIOUS
<1>4. q.via \in Nat
  BY <1>1 DEF RequestRecords
<1> HIDE DEF q
<1>5. q.pc \in {"handling", "forwarding"} =>
            q.at \in Nodes /\ q.via <= view'[q.at] /\ OwnerNext(q.via, q.at)
  <2> SUFFICES ASSUME q.pc \in {"handling", "forwarding"}
               PROVE  q.at \in Nodes /\ q.via <= view'[q.at] /\ OwnerNext(q.via, q.at)
    OBVIOUS
  <2>1. q.at \in Nodes /\ q.via <= view[q.at] /\ Owner(q.via, q.at)
    BY <1>2
  <2>2. view[q.at] \in Nat /\ view'[q.at] \in Nat /\ view[q.at] <= view'[q.at] /\ view[q.at] <= term
    BY <1>1, <2>1 DEF RaftTypes, ViewsGrow, LeadersOK
  <2>3. q.via \in 0 .. term
    BY <1>1, <1>4, <2>1, <2>2
  <2> QED BY <1>1, <1>4, <2>1, <2>2, <2>3 DEF ViewsGrow
<1>6. ASSUME q.pc = "forwarding", q.via = view'[q.at] PROVE hint'[q.at] = Nobody
  <2>1. q.at \in Nodes /\ OwnerNext(q.via, q.at) /\ q.via <= view[q.at]
    BY <1>2, <1>5, <1>6
  <2>2. /\ view[q.at] \in Nat /\ view[q.at] <= view'[q.at] /\ view'[q.at] \in Nat
        /\ view[q.at] <= term
    BY <1>1, <2>1 DEF RaftTypes, ViewsGrow, LeadersOK
  <2>3. q.via = view[q.at]
    BY <1>4, <1>6, <2>1, <2>2
  <2>4. ~lead[q.at]
    BY <1>2, <1>6, <2>1, <2>3, RaftAssumption DEF LeadersOK
  <2>5. ~(view'[q.at] = term' /\ term < term')
    BY <1>1, <1>6, <2>2, <2>3
  <2>6. ~lead'[q.at]
    BY <1>1, <2>1, <2>4, <2>5 DEF ViewsGrow
  <2>7. hint'[q.at] # q.at
    BY <1>1, <2>1, <2>6 DEF LeadersOK
  <2> QED BY <1>6, <2>1, <2>7 DEF OwnerNext
<1>7. ASSUME q.pc = "proposed"
      PROVE  /\ q.at \in Nodes /\ q.term \in 1 .. term' /\ q.index \in 1 .. Len(logs'[q.term])
             /\ logs'[q.term][q.index] = [term |-> q.term, cmd |-> r]
             /\ OwnerNext(q.term, q.at)
  <2>1. /\ q.at \in Nodes /\ q.term \in 1 .. term /\ q.index \in 1 .. Len(logs[q.term])
        /\ logs[q.term][q.index] = [term |-> q.term, cmd |-> r] /\ Owner(q.term, q.at)
    BY <1>2, <1>7
  <2>2. q.term \in 1 .. term'
    BY <1>1, <2>1 DEF LogsGrow
  <2>3. Len(logs[q.term]) \in Nat /\ Len(logs'[q.term]) \in Nat
    BY <1>1, <2>1, <2>2 DEF RaftTypes, term
  <2>4. OwnerNext(q.term, q.at)
    BY <1>1, <2>1 DEF ViewsGrow
  <2> QED BY <1>1, <2>1, <2>2, <2>3, <2>4 DEF LogsGrow
<1>8. q.pc = "ok" => \E i \in 1 .. commit' : Entry(i)'.cmd = r
  <2>1. commit \in Nat /\ commit' \in Nat /\ commit <= commit'
        /\ \A i \in 1 .. commit : i \in 1 .. commit' /\ Entry(i)' = Entry(i)
    BY <1>1 DEF RaftTypes, Steady
  <2> QED BY <1>2, <2>1
<1> QED BY <1>1, <1>2, <1>3, <1>5, <1>6, <1>7, <1>8 DEF RequestOK, CallOK, Owner, OwnerNext

LEMMA AckedCarry ==
  ASSUME RaftTypes, LogsOK, LeadersOK, ClusterTypes, AckedOK, NEW S, RaftMoves(S),
         acked' = acked, ClusterTypes', \A n \in Nodes : lead[n] => applied[n] <= applied'[n]
  PROVE  AckedOK'
<1>1. RaftTypes' /\ Steady /\ ViewsGrow /\ term \in Nat /\ term' \in Nat
  BY DEF RaftMoves, RaftTypes, term
<1> SUFFICES ASSUME NEW a \in acked
             PROVE  /\ a \in 1 .. commit'
                    /\ \A n \in Nodes : lead'[n] /\ view'[n] = Entry(a)'.term => a <= applied'[n]
  BY DEF AckedOK
<1>2. a \in 1 .. commit /\ a \in 1 .. commit' /\ Entry(a)' = Entry(a)
  BY <1>1 DEF AckedOK, Steady, RaftTypes
<1>3. Entry(a).term \in 1 .. term
  <2>1. Log(term) \in Seq(Entries) /\ LogOK(Log(term), term) /\ commit <= Len(Log(term))
        /\ Len(Log(term)) \in Nat /\ commit \in Nat
    BY <1>1, LogFacts, TopFacts
  <2>2. a \in 1 .. Len(Log(term))
    BY <1>2, <2>1
  <2> QED BY <2>1, <2>2 DEF LogOK, Entry
<1>4. ASSUME NEW n \in Nodes, lead'[n], view'[n] = Entry(a).term PROVE a <= applied'[n]
  <2>1. ~(view'[n] = term' /\ term < term')
    BY <1>1, <1>3, <1>4
  <2>2. lead[n] /\ view[n] = Entry(a).term
    BY <1>1, <1>4, <2>1 DEF ViewsGrow
  <2>3. a <= applied[n] /\ applied[n] <= applied'[n] /\ applied[n] \in Nat /\ applied'[n] \in Nat
    BY <2>2 DEF AckedOK, ClusterTypes
  <2> QED BY <1>2, <2>3
<1> QED BY <1>2, <1>4

LEMMA StateAtCarry ==
  ASSUME RaftTypes, Steady, NEW i \in 0 .. commit
  PROVE  StateAt(i)' = StateAt(i)
<1> DEFINE l == Log(term)
           m == Log(term)'
<1>1. i \in Nat /\ \A j \in 1 .. i : j \in 1 .. commit
  BY DEF RaftTypes
<1>2. \A j \in 1 .. i : l[j] = m[j]
  BY <1>1 DEF Steady, Entry
<1>3. StateAt(i) = CmdAt(l, i) /\ StateAt(i)' = CmdAt(m, i)
  BY DEF StateAt, CmdAt, Entry
<1> HIDE DEF l, m
<1>4. CmdAt(l, i) = CmdAt(m, i)
  BY <1>1, <1>2, CmdAtAgrees
<1> QED BY <1>3, <1>4

LEMMA ReadCarry ==
  ASSUME RaftTypes, ClusterTypes, ReadOK, NEW S, RaftMoves(S), read' = read, ClusterTypes',
         read.pc = "checked" => up'[read.at] /\ applied[read.at] <= applied'[read.at]
  PROVE  ReadOK'
<1>1. RaftTypes' /\ Steady
  BY DEF RaftMoves
<1>2. commit \in Nat /\ commit' \in Nat /\ commit <= commit'
  BY <1>1 DEF RaftTypes, Steady
<1>3. read.pc = "done" /\ read.settled => Fresh'
  <2> SUFFICES ASSUME Fresh PROVE Fresh'
    BY DEF ReadOK
  <2>1. PICK i \in 0 .. commit : read.result = StateAt(i) /\ \A a \in read.known : a <= i
    BY DEF Fresh
  <2>2. StateAt(i)' = StateAt(i) /\ i \in 0 .. commit'
    BY <1>1, <1>2, StateAtCarry
  <2> QED BY <2>1, <2>2 DEF Fresh
<1>4. read.pc = "checked" =>
         /\ read.at \in Nodes /\ up'[read.at]
         /\ read.settled => \A a \in read.known : a <= applied'[read.at]
  <2> SUFFICES ASSUME read.pc = "checked"
               PROVE  /\ read.at \in Nodes /\ up'[read.at]
                      /\ read.settled => \A a \in read.known : a <= applied'[read.at]
    OBVIOUS
  <2>1. /\ read.at \in Nodes /\ up'[read.at] /\ applied[read.at] <= applied'[read.at]
        /\ read.settled => \A a \in read.known : a <= applied[read.at]
    BY DEF ReadOK
  <2>2. applied[read.at] \in Nat /\ applied'[read.at] \in Nat /\ read.known \subseteq Nat
    BY <2>1 DEF ClusterTypes, ReadRecords
  <2> QED BY <2>1, <2>2
<1> QED BY <1>3, <1>4 DEF ReadOK

-----------------------------------------------------------------------------
(* Steps *)

LEMMA ClusterParts ==
  ASSUME ClusterInv
  PROVE  /\ RaftTypes /\ ClusterTypes /\ LogsOK /\ LeadersOK /\ AppliedOK
         /\ \A r \in Requests : RequestOK(r)
         /\ AckedOK /\ ReadOK /\ RaftTypes /\ term \in Nat
BY DEF ClusterInv, RaftTypes, term

\* Only Raft's variables change.
LEMMA RaftOnly ==
  ASSUME ClusterInv, RaftMoves({}), UNCHANGED <<replica, request, read, acked, crashes>>,
         \A n \in Nodes : up[n] => up'[n]
  PROVE  ClusterInv'
<1>0. USE ClusterParts
<1>1. UNCHANGED <<applied, reach>> /\ ClusterTypes' /\ \A n \in Nodes : applied[n] \in Nat
  BY DEF ClusterTypes, replica
<1>2. AppliedOK'
  BY <1>1, AppliedCarry DEF ClusterTypes
<1>3. AckedOK'
  BY <1>1, AckedCarry
<1>4. ReadOK'
  BY <1>1, ReadCarry DEF ReadOK
<1>5. \A r \in Requests : RequestOK(r)'
  BY RequestCarry
<1> QED BY <1>1, <1>2, <1>3, <1>4, <1>5 DEF ClusterInv, RaftMoves

\* Only the state of one call changes, to q.
LEMMA RequestMove ==
  ASSUME ClusterInv, NEW r \in Requests, NEW q \in RequestRecords, CallOK(q, r),
         request' = [request EXCEPT ![r] = q], UNCHANGED <<raft, replica, read, crashes>>,
         AckedOK', acked' \subseteq Nat
  PROVE  ClusterInv'
<1>0. USE ClusterParts
<1>1. UNCHANGED <<applied, reach>> /\ ClusterTypes' /\ \A n \in Nodes : applied[n] \in Nat
  BY DEF ClusterTypes, replica
<1>2. RaftMoves({}) /\ up' = up
  BY SameMoves DEF raft
<1>3. AppliedOK'
  BY <1>1, <1>2, AppliedCarry DEF ClusterTypes
<1>4. ReadOK'
  BY <1>1, <1>2, ReadCarry DEF ReadOK
<1>5. ASSUME NEW s \in Requests PROVE RequestOK(s)'
  <2>1. CASE s = r
    <3>1. request'[s] = q
      BY <2>1 DEF ClusterTypes
    <3>2. term' = term /\ \A i \in 1 .. commit : Entry(i)' = Entry(i)
      BY DEF raft, term, Entry, Log
    <3> QED BY <2>1, <3>1, <3>2 DEF RequestOK, CallOK, Unwritten, Owner, raft
  <2>2. CASE s # r
    BY <1>2, <2>2, RequestCarry DEF ClusterTypes
  <2> QED BY <2>1, <2>2
<1> QED BY <1>1, <1>2, <1>3, <1>4, <1>5 DEF ClusterInv, RaftMoves

LEMMA SameAcked ==
  ASSUME ClusterInv, UNCHANGED <<raft, replica, acked>>
  PROVE  AckedOK' /\ acked' \subseteq Nat
<1>1. \A i \in Nat : Entry(i)' = Entry(i)
  BY DEF raft, Entry, Log, term
<1> QED BY <1>1, ClusterParts DEF AckedOK, ClusterTypes, raft, replica

LEMMA FinishedFacts ==
  ASSUME NEW answer \in {"ok", "error"}
  PROVE  Finished(answer) \in RequestRecords /\ Finished(answer).pc = answer
BY DEF Finished, NewRequest, RequestRecords

\* A call ends with an error.
LEMMA ErrorMove ==
  ASSUME ClusterInv, NEW r \in Requests, Over(r, "error"),
         UNCHANGED <<raft, replica, read, acked, crashes>>
  PROVE  ClusterInv'
<1>1. Finished("error") \in RequestRecords /\ Finished("error").pc = "error"
  BY FinishedFacts
<1>2. CallOK(Finished("error"), r)
  BY <1>1 DEF CallOK
<1>3. request' = [request EXCEPT ![r] = Finished("error")]
  BY DEF Over
<1> QED BY <1>1, <1>2, <1>3, RequestMove, SameAcked

LEMMA CallMove ==
  ASSUME ClusterInv, NEW r \in Requests, NEW n \in Nodes, Call(r, n)
  PROVE  ClusterInv'
<1> DEFINE p == request[r]
           q == [p EXCEPT !.pc = "handling", !.at = n]
<1>1. /\ request' = [request EXCEPT ![r] = q] /\ UNCHANGED <<raft, replica, read, acked, crashes>>
      /\ p.pc = "new"
  BY DEF Call
<1>2. p \in RequestRecords /\ RequestOK(r)
  BY ClusterParts DEF ClusterTypes
<1>3. q \in RequestRecords /\ q.pc = "handling" /\ q.at = n /\ q.via = p.via
  BY <1>2 DEF RequestRecords
<1>4. p.via = 0 /\ Unwritten(r)
  BY <1>1, <1>2 DEF RequestOK, CallOK
<1>5. Owner(0, n) /\ 0 <= view[n]
  BY ClusterParts DEF Owner, LeadersOK, RaftTypes
<1> HIDE DEF q, p
<1>6. CallOK(q, r)
  BY <1>3, <1>4, <1>5 DEF CallOK
<1> QED BY <1>1, <1>3, <1>6, RequestMove, SameAcked

LEMMA NotLeaderMove ==
  ASSUME ClusterInv, NEW r \in Requests, NotLeader(r)
  PROVE  ClusterInv'
<1> DEFINE p == request[r]
           q == [p EXCEPT !.pc = "forwarding"]
<1>1. /\ request' = [request EXCEPT ![r] = q] /\ UNCHANGED <<raft, replica, read, acked, crashes>>
      /\ p.pc = "handling" /\ ~lead[p.at]
  BY DEF NotLeader
<1>2. p \in RequestRecords /\ RequestOK(r)
  BY ClusterParts DEF ClusterTypes
<1>3. q \in RequestRecords /\ q.pc = "forwarding" /\ q.at = p.at /\ q.via = p.via
  BY <1>2 DEF RequestRecords
<1>4. Unwritten(r) /\ p.at \in Nodes /\ p.via <= view[p.at] /\ Owner(p.via, p.at)
  BY <1>1, <1>2 DEF RequestOK, CallOK
<1>5. p.via = view[p.at] => hint[p.at] = Nobody
  BY <1>1, <1>4, ClusterParts DEF Owner, LeadersOK
<1> HIDE DEF q, p
<1>6. CallOK(q, r)
  BY <1>3, <1>4, <1>5 DEF CallOK
<1> QED BY <1>1, <1>3, <1>6, RequestMove, SameAcked

\* A hop follows the leader of a newer term than the hop before.
LEMMA HopsRise ==
  ASSUME ClusterInv, NEW r \in Requests, request[r].pc = "forwarding", hint[request[r].at] # Nobody
  PROVE  request[r].via < view[request[r].at] /\ request[r].at \in Nodes
<1> DEFINE p == request[r]
<1>1. p \in RequestRecords /\ RequestOK(r)
  BY ClusterParts DEF ClusterTypes
<1>2. p.at \in Nodes /\ p.via <= view[p.at] /\ p.via # view[p.at]
  BY <1>1 DEF RequestOK, CallOK
<1>3. p.via \in Nat /\ view[p.at] \in Nat
  BY <1>1, <1>2, ClusterParts DEF RequestRecords, RaftTypes
<1> QED BY <1>2, <1>3

LEMMA ForwardMove ==
  ASSUME ClusterInv, NEW r \in Requests, Forward(r)
  PROVE  ClusterInv'
<1> DEFINE p == request[r]
           h == hint[p.at]
           q == [p EXCEPT !.pc = "handling", !.at = h, !.via = view[p.at]]
<1>1. UNCHANGED <<raft, replica, read, acked, crashes>> /\ p.pc = "forwarding"
  BY DEF Forward
<1>2. CASE Over(r, "error")
  BY <1>1, <1>2, ErrorMove
<1>3. CASE h # Nobody /\ request' = [request EXCEPT ![r] = q]
  <2>1. p \in RequestRecords /\ RequestOK(r)
    BY ClusterParts DEF ClusterTypes
  <2>2. Unwritten(r) /\ p.at \in Nodes
    BY <1>1, <2>1 DEF RequestOK, CallOK
  <2>3. h \in Nodes /\ view[p.at] \in Nat /\ view[p.at] <= view[h] /\ view[h] \in Nat /\ Owner(view[p.at], h)
    BY <1>3, <2>2, ClusterParts DEF LeadersOK, RaftTypes
  <2>4. q \in RequestRecords /\ q.pc = "handling" /\ q.at = h /\ q.via = view[p.at]
    BY <2>1, <2>3 DEF RequestRecords
  <2> HIDE DEF q, h, p
  <2>5. CallOK(q, r)
    BY <2>2, <2>3, <2>4 DEF CallOK
  <2> QED BY <1>1, <1>3, <2>4, <2>5, RequestMove, SameAcked
<1> QED BY <1>2, <1>3 DEF Forward

LEMMA RespondMove ==
  ASSUME ClusterInv, NEW r \in Requests, Respond(r)
  PROVE  ClusterInv'
<1> DEFINE p == request[r]
           n == p.at
<1>1. UNCHANGED <<raft, replica, read, crashes>> /\ p.pc = "proposed"
  BY DEF Respond
<1>2. CASE Over(r, "error") /\ acked' = acked
  BY <1>1, <1>2, ErrorMove
<1>3. CASE /\ applied[n] >= p.index /\ Entry(p.index) = [term |-> p.term, cmd |-> r]
           /\ Over(r, "ok") /\ acked' = acked \cup {p.index}
  <2>1. p \in RequestRecords /\ RequestOK(r)
    BY ClusterParts DEF ClusterTypes
  <2>2. /\ n \in Nodes /\ p.term \in 1 .. term /\ p.index \in 1 .. Len(logs[p.term])
        /\ Owner(p.term, n)
    BY <1>1, <2>1 DEF RequestOK, CallOK
  <2>3. applied[n] \in Nat /\ applied[n] <= commit /\ commit \in Nat
    BY <2>2, ClusterParts DEF AppliedOK, ClusterTypes, RaftTypes
  <2>4. p.index \in 1 .. applied[n] /\ p.index \in 1 .. commit /\ p.index \in Nat
    BY <1>3, <2>2, <2>3
  <2>6. Entry(p.index).cmd = r /\ Entry(p.index).term = p.term
    BY <1>3
  <2>7. Finished("ok") \in RequestRecords /\ Finished("ok").pc = "ok"
    BY FinishedFacts
  <2>8. CallOK(Finished("ok"), r)
    BY <2>4, <2>6, <2>7 DEF CallOK
  <2>9. request' = [request EXCEPT ![r] = Finished("ok")]
    BY <1>3 DEF Over
  <2>10. ASSUME NEW m \in Nodes, lead[m], view[m] = p.term PROVE m = n
    BY <1>3, <2>2, <2>10, ClusterParts, RaftAssumption DEF LeadersOK, Owner
  <2>11. acked' \subseteq Nat
    BY <1>3, <2>4, ClusterParts DEF ClusterTypes
  <2>12. AckedOK'
    <3>1. \A i \in Nat : Entry(i)' = Entry(i)
      BY <1>1 DEF raft, Entry, Log, term
    <3> SUFFICES ASSUME NEW a \in acked'
                 PROVE  /\ a \in 1 .. commit
                        /\ \A m \in Nodes : lead[m] /\ view[m] = Entry(a).term => a <= applied[m]
      BY <1>1, <2>11, <3>1 DEF AckedOK, raft, replica
    <3>2. CASE a \in acked
      BY <3>2, ClusterParts DEF AckedOK
    <3>3. CASE a = p.index
      BY <2>4, <2>6, <2>10, <3>3
    <3> QED BY <1>3, <3>2, <3>3
  <2> QED BY <1>1, <2>7, <2>8, <2>9, <2>11, <2>12, RequestMove
<1> QED BY <1>2, <1>3 DEF Respond

LEMMA HandleAsLeaderMove ==
  ASSUME ClusterInv, NEW r \in Requests, HandleAsLeader(r)
  PROVE  ClusterInv'
<1> DEFINE p == request[r]
           n == p.at
           place == Len(Log(view[n])) + 1
           q == [p EXCEPT !.pc = "proposed", !.term = view[n], !.index = place]
<1>1. /\ UNCHANGED <<up, joined, commit, view, lead, hint, replica, read, acked, crashes>>
      /\ p.pc = "handling" /\ lead[n]
  BY DEF HandleAsLeader
<1>2. CASE Over(r, "error") /\ logs' = logs
  <2>1. UNCHANGED <<raft, replica, read, acked, crashes>>
    BY <1>1, <1>2 DEF raft
  <2> QED BY <1>2, <2>1, ErrorMove
<1>3. CASE Propose(n, r) /\ request' = [request EXCEPT ![r] = q]
  <2>0. USE ClusterParts
  <2>1. p \in RequestRecords /\ RequestOK(r)
    BY DEF ClusterTypes
  <2>2. Unwritten(r) /\ n \in Nodes
    BY <1>1, <2>1 DEF RequestOK, CallOK
  <2>3. /\ RaftMoves({r})
        /\ view[n] \in 1 .. term' /\ place \in 1 .. Len(logs'[view[n]])
        /\ logs'[view[n]][place] = [term |-> view[n], cmd |-> r]
    BY <1>1, <1>3, <2>2, ProposeMoves
  <2>4. view[n] \in Nat /\ place \in Nat
    BY <2>2, <2>3 DEF RaftTypes
  <2>5. /\ q \in RequestRecords /\ q.pc = "proposed" /\ q.at = n /\ q.term = view[n]
        /\ q.index = place
    BY <2>1, <2>4 DEF RequestRecords
  <2> HIDE DEF q, place
  <2>6. UNCHANGED <<applied, reach>> /\ ClusterTypes' /\ \A m \in Nodes : applied[m] \in Nat
    BY <1>1, <1>3, <2>5 DEF ClusterTypes, replica
  <2>7. AppliedOK'
    BY <2>3, <2>6, AppliedCarry DEF ClusterTypes
  <2>8. AckedOK'
    BY <1>1, <2>3, <2>6, AckedCarry
  <2>9. ReadOK'
    BY <1>1, <2>3, <2>6, ReadCarry DEF ReadOK
  <2>10. ASSUME NEW s \in Requests PROVE RequestOK(s)'
    <3>1. CASE s = r
      <4>1. request'[s] = q
        BY <1>3, <3>1 DEF ClusterTypes
      <4>2. OwnerNext(view[n], n)
        BY <1>1, <2>2, RaftAssumption DEF LeadersOK, Owner, OwnerNext
      <4> QED BY <2>2, <2>3, <2>5, <3>1, <4>1, <4>2 DEF RequestOK, CallOK, Owner, OwnerNext
    <3>2. CASE s # r
      BY <1>3, <2>3, <3>2, RequestCarry DEF ClusterTypes
    <3> QED BY <3>1, <3>2
  <2> QED BY <2>3, <2>6, <2>7, <2>8, <2>9, <2>10 DEF ClusterInv, RaftMoves
<1> QED BY <1>2, <1>3 DEF HandleAsLeader

\* Only the Get changes.
LEMMA ReadMove ==
  ASSUME ClusterInv, UNCHANGED <<raft, replica, request, acked, crashes>>, read' \in ReadRecords, ReadOK'
  PROVE  ClusterInv'
<1>0. USE ClusterParts
<1>1. UNCHANGED <<applied, reach>> /\ ClusterTypes' /\ \A n \in Nodes : applied[n] \in Nat
  BY DEF ClusterTypes, replica
<1>2. RaftMoves({})
  BY SameMoves
<1>3. AppliedOK'
  BY <1>1, <1>2, AppliedCarry DEF ClusterTypes
<1>4. AckedOK'
  BY SameAcked
<1>5. \A r \in Requests : RequestOK(r)'
  BY <1>2, RequestCarry
<1> QED BY <1>1, <1>2, <1>3, <1>4, <1>5 DEF ClusterInv, RaftMoves

\* A leader that has applied the no-op of its term has applied all that was
\* acknowledged in its term and before.
LEMMA SettledKnows ==
  ASSUME ClusterInv, NEW n \in Nodes, lead[n], Settled(n), NEW a \in OwnAcked(n)
  PROVE  a <= applied[n]
<1>0. USE ClusterParts
<1>1. a \in acked /\ Entry(a).term <= view[n] /\ a \in 1 .. commit
  BY DEF OwnAcked, AckedOK
<1>2. PICK i \in 1 .. applied[n] : Entry(i) = [term |-> view[n], cmd |-> Noop]
  BY DEF Settled
<1>3. applied[n] \in Nat /\ view[n] \in Nat /\ applied[n] <= commit /\ Entry(i).term = view[n]
  BY <1>2 DEF ClusterTypes, RaftTypes, AppliedOK
<1>4. LogOK(Log(term), term) /\ commit \in Nat /\ commit <= Len(Log(term)) /\ Len(Log(term)) \in Nat
  BY LogFacts, TopFacts
<1>5. a \in 1 .. Len(Log(term)) /\ i \in 1 .. Len(Log(term)) /\ a \in Nat /\ i \in Nat
  BY <1>1, <1>2, <1>3, <1>4
<1>6. CASE Entry(a).term = view[n]
  BY <1>1, <1>6 DEF AckedOK
<1>7. CASE Entry(a).term # view[n]
  <2>1. Entry(a).term \in Nat /\ Entry(a).term < Entry(i).term
    BY <1>1, <1>3, <1>4, <1>5, <1>7 DEF LogOK, Entry
  <2>2. i <= a => Entry(i).term <= Entry(a).term
    BY <1>4, <1>5 DEF LogOK, Entry
  <2> QED BY <1>2, <1>3, <1>5, <2>1, <2>2
<1> QED BY <1>6, <1>7

LEMMA ReadCheckMove ==
  ASSUME ClusterInv, NEW n \in Nodes, NEW l \in Levels, ReadCheck(n, l)
  PROVE  ClusterInv'
<1> DEFINE s == (lead[n] /\ Settled(n))
           known == OwnAcked(n)
<1>1. /\ read' = [read EXCEPT !.pc = "checked", !.at = n, !.level = l, !.known = known, !.settled = s]
      /\ UNCHANGED <<raft, replica, request, acked, crashes>> /\ up[n]
  BY DEF ReadCheck
<1>2. read \in ReadRecords /\ known \subseteq Nat
  BY ClusterParts DEF ClusterTypes, OwnAcked
<1>3. s \in BOOLEAN /\ (s => \A a \in known : a <= applied[n])
  BY SettledKnows
<1> HIDE DEF s, known
<1>4. /\ read' \in ReadRecords /\ read'.pc = "checked" /\ read'.at = n /\ read'.known = known
      /\ read'.settled = s
  BY <1>1, <1>2, <1>3 DEF ReadRecords
<1>5. up' = up /\ applied' = applied
  BY <1>1 DEF raft, replica
<1>6. ReadOK'
  BY <1>1, <1>3, <1>4, <1>5 DEF ReadOK
<1> QED BY <1>1, <1>4, <1>6, ReadMove

LEMMA StateAtType ==
  ASSUME ClusterInv, NEW i \in 0 .. commit
  PROVE  StateAt(i) \in Requests \cup {Nil}
<1> DEFINE l == Log(term)
<1>1. /\ l \in Seq(Entries) /\ commit \in Nat /\ commit <= Len(l) /\ Len(l) \in Nat
  BY TopFacts, ClusterParts
<1>2. i \in Nat /\ StateAt(i) = CmdAt(l, i)
  BY <1>1, StateAtIs
<1> HIDE DEF l
<1>3. \A j \in 1 .. i : l[j].cmd \in Requests \cup {Noop}
  <2> TAKE j \in 1 .. i
  <2>1. j \in 1 .. Len(l)
    BY <1>1
  <2>2. l[j] \in Entries
    BY <1>1, <2>1
  <2> QED BY <2>2 DEF Entries
<1>4. CmdAt(l, i) = Nil \/ \E j \in 1 .. i : l[j].cmd # Noop /\ CmdAt(l, i) = l[j].cmd
  BY <1>2, CmdAtIs
<1> QED BY <1>2, <1>3, <1>4

LEMMA ReadLocalMove ==
  ASSUME ClusterInv, ReadLocal
  PROVE  ClusterInv'
<1> DEFINE n == read.at
           top == Larger(applied[n], reach[n])
<1>1. read.pc = "checked" /\ UNCHANGED <<raft, replica, request, acked, crashes>>
  BY DEF ReadLocal
<1>2. PICK h \in applied[n] .. top :
         read' = [read EXCEPT !.pc = "done", !.at = Nobody, !.result = StateAt(h)]
  BY DEF ReadLocal, States
<1>3. read \in ReadRecords /\ n \in Nodes /\ (read.settled => \A a \in read.known : a <= applied[n])
      /\ read.known \subseteq Nat
  BY <1>1, ClusterParts DEF ClusterTypes, ReadOK, ReadRecords
<1>4. /\ applied[n] \in Nat /\ reach[n] \in Nat /\ applied[n] <= commit /\ reach[n] <= commit
      /\ commit \in Nat
  BY <1>3, ClusterParts DEF ClusterTypes, AppliedOK, RaftTypes
<1>5. top \in Nat /\ top <= commit
  BY <1>4 DEF Larger
<1>6. h \in 0 .. commit /\ h >= applied[n]
  BY <1>4, <1>5
<1>7. StateAt(h) \in Requests \cup {Nil}
  BY <1>6, StateAtType
<1> HIDE DEF n, top
<1>8. /\ read' \in ReadRecords /\ read'.pc = "done" /\ read'.settled = read.settled
      /\ read'.known = read.known /\ read'.result = StateAt(h)
  BY <1>2, <1>3, <1>7 DEF ReadRecords
<1>9. StateAt(h)' = StateAt(h) /\ commit' = commit
  BY <1>1 DEF StateAt, Entry, Log, term, raft
<1>10. read.settled => \A a \in read.known : a <= h
  BY <1>3, <1>4, <1>6
<1>11. read.settled => Fresh'
  BY <1>6, <1>8, <1>9, <1>10 DEF Fresh
<1>12. ReadOK'
  BY <1>8, <1>11 DEF ReadOK
<1> QED BY <1>1, <1>8, <1>12, ReadMove

LEMMA JoinMove ==
  ASSUME ClusterInv, NEW n \in Nodes, Join(n)
  PROVE  ClusterInv'
<1>0. USE ClusterParts
<1>1. /\ UNCHANGED <<up, logs, commit, view, lead, hint, replica, request, read, acked, crashes>>
      /\ joined' = joined \cup {n}
  BY DEF Join
<1>2. RaftTypes' /\ commit \in Nat /\ commit <= Len(Log(term))
  BY <1>1, TopFacts DEF RaftTypes
<1>3. RaftMoves({})
  BY <1>1, <1>2, QuietMoves
<1> QED BY <1>1, <1>3, RaftOnly

LEMMA ApplyMove ==
  ASSUME ClusterInv, NEW n \in Nodes, Apply(n)
  PROVE  ClusterInv'
<1>0. USE ClusterParts
<1> DEFINE i == applied[n] + 1
<1>1. /\ UNCHANGED <<raft, request, read, acked, crashes>> /\ i <= commit
      /\ i <= Len(Log(view[n])) /\ Log(view[n])[i] = Entry(i)
      /\ applied' = [applied EXCEPT ![n] = i] /\ reach' = [reach EXCEPT ![n] = Larger(reach[n], i)]
  BY DEF Apply
<1>2. applied[n] \in Nat /\ i \in Nat /\ reach[n] \in Nat /\ commit \in Nat /\ reach[n] <= commit
  BY DEF ClusterTypes, RaftTypes, AppliedOK
<1>3. Larger(reach[n], i) \in Nat /\ Larger(reach[n], i) <= commit
  BY <1>1, <1>2 DEF Larger
<1>4. RaftMoves({}) /\ UNCHANGED <<up, joined, logs, commit, view, lead, hint>>
  BY <1>1, SameMoves DEF raft
<1>5. ClusterTypes'
  BY <1>1, <1>2, <1>3 DEF ClusterTypes
<1>6. /\ applied'[n] = i /\ reach'[n] = Larger(reach[n], i)
      /\ \A m \in Nodes \ {n} : applied'[m] = applied[m] /\ reach'[m] = reach[m]
  BY <1>1 DEF ClusterTypes
<1>7. \A m \in Nodes : applied[m] \in Nat /\ applied[m] <= applied'[m]
  BY <1>2, <1>6 DEF ClusterTypes
<1>8. \A j \in Nat : Entry(j)' = Entry(j)
  BY <1>4 DEF Entry, Log, term
<1>9. lead[n] => Log(view[n]) = logs[view[n]]
  <2>1. lead[n] => view[n] >= 1 /\ view[n] \in Nat
    BY RaftAssumption DEF LeadersOK, RaftTypes
  <2>2. lead[n] => view[n] # 0
    BY <2>1
  <2> QED BY <2>2 DEF Log
<1>10. ASSUME NEW m \in Nodes
       PROVE  /\ applied'[m] <= commit /\ reach'[m] <= commit
              /\ lead[m] => \A j \in 1 .. applied'[m] :
                    j <= Len(logs[view[m]]) /\ logs[view[m]][j] = Entry(j)
  <2>1. CASE m = n
    <3>1. \A j \in 1 .. i : j \in 1 .. applied[n] \/ j = i
      BY <1>2
    <3>2. lead[n] => \A j \in 1 .. applied[n] :
                    j <= Len(logs[view[n]]) /\ logs[view[n]][j] = Entry(j)
      BY DEF AppliedOK
    <3> HIDE DEF i
    <3> QED BY <1>1, <1>3, <1>6, <1>9, <2>1, <3>1, <3>2
  <2>2. CASE m # n
    BY <1>6, <2>2 DEF AppliedOK
  <2> QED BY <2>1, <2>2
<1>11. AppliedOK'
  BY <1>4, <1>5, <1>8, <1>10 DEF AppliedOK, ClusterTypes
<1>12. AckedOK'
  BY <1>1, <1>4, <1>5, <1>7, AckedCarry
<1>13. ReadOK'
  BY <1>1, <1>4, <1>5, <1>7, ReadCarry DEF ReadOK
<1>14. \A r \in Requests : RequestOK(r)'
  BY <1>1, <1>4, RequestCarry
<1> QED BY <1>4, <1>5, <1>11, <1>12, <1>13, <1>14 DEF ClusterInv, RaftMoves

LEMMA NewReadFacts == NewRead \in ReadRecords /\ NewRead.pc = "new"
BY DEF NewRead, ReadRecords

LEMMA CrashMove ==
  ASSUME ClusterInv, NEW n \in Nodes, Crash(n)
  PROVE  ClusterInv'
<1>0. USE ClusterParts
<1>1. /\ crashes' = crashes + 1 /\ up' = [up EXCEPT ![n] = FALSE]
      /\ lead' = [lead EXCEPT ![n] = FALSE] /\ hint' = [hint EXCEPT ![n] = Nobody]
      /\ request' = [r \in Requests |->
             IF request[r].at = n /\ request[r].pc \in Running
             THEN Finished("error") ELSE request[r]]
      /\ UNCHANGED <<joined, logs, commit, view, replica, acked>>
      /\ \/ read' = NewRead
         \/ read' = read /\ ~(read.at = n /\ read.pc = "checked")
  BY DEF Crash
<1>2. RaftMoves({})
  BY <1>1, LosesMoves
<1>3. Finished("error") \in RequestRecords /\ Finished("error").pc = "error"
  BY FinishedFacts
<1>4. UNCHANGED <<applied, reach>> /\ ClusterTypes' /\ \A m \in Nodes : applied[m] \in Nat
  BY <1>1, <1>3, NewReadFacts DEF ClusterTypes, replica
<1>5. AppliedOK'
  BY <1>2, <1>4, AppliedCarry DEF ClusterTypes
<1>6. AckedOK'
  BY <1>1, <1>2, <1>4, AckedCarry
<1>7. ReadOK'
  <2>1. CASE read' = NewRead
    BY <2>1, NewReadFacts DEF ReadOK
  <2>2. CASE read' = read /\ ~(read.at = n /\ read.pc = "checked")
    <3>1. read.pc = "checked" => up'[read.at] /\ applied[read.at] <= applied'[read.at]
      BY <1>1, <1>4, <2>2 DEF ReadOK, RaftTypes
    <3> QED BY <1>2, <1>4, <2>2, <3>1, ReadCarry
  <2> QED BY <1>1, <2>1, <2>2
<1>8. ASSUME NEW r \in Requests PROVE RequestOK(r)'
  <2>1. CASE request'[r] = Finished("error")
    BY <1>3, <2>1 DEF RequestOK, CallOK
  <2>2. CASE request'[r] = request[r]
    BY <1>2, <2>2, RequestCarry
  <2> QED BY <1>1, <2>1, <2>2
<1> QED BY <1>2, <1>4, <1>5, <1>6, <1>7, <1>8 DEF ClusterInv, RaftMoves

LEMMA RestartMove ==
  ASSUME ClusterInv, NEW n \in Nodes, Restart(n)
  PROVE  ClusterInv'
<1>0. USE ClusterParts
<1>1. /\ ~up[n] /\ up' = [up EXCEPT ![n] = TRUE]
      /\ UNCHANGED <<joined, logs, commit, view, lead, hint, reach, request, read, acked, crashes>>
  BY DEF Restart
<1>2. PICK i \in 0 .. applied[n] : applied' = [applied EXCEPT ![n] = i]
  BY DEF Restart
<1>3. RaftTypes' /\ commit \in Nat /\ commit <= Len(Log(term)) /\ \A m \in Nodes : up[m] => up'[m]
  BY <1>1, TopFacts DEF RaftTypes
<1>4. RaftMoves({})
  BY <1>1, <1>3, QuietMoves
<1>5. applied[n] \in Nat /\ i \in Nat /\ i <= applied[n]
  BY DEF ClusterTypes
<1>6. ClusterTypes'
  BY <1>1, <1>2, <1>5 DEF ClusterTypes
<1>7. \A m \in Nodes : /\ applied'[m] <= applied[m] /\ applied[m] \in Nat
                       /\ m # n => applied'[m] = applied[m]
  BY <1>2, <1>5 DEF ClusterTypes
<1>8. AppliedOK'
  BY <1>1, <1>4, <1>6, <1>7, AppliedCarry DEF ClusterTypes
<1>9. AckedOK'
  <2>1. \A m \in Nodes : lead[m] => applied[m] <= applied'[m]
    BY <1>1, <1>7 DEF LeadersOK
  <2> QED BY <1>1, <1>4, <1>6, <2>1, AckedCarry
<1>10. ReadOK'
  <2>1. read.pc = "checked" => up'[read.at] /\ applied[read.at] <= applied'[read.at]
    BY <1>1, <1>3, <1>7 DEF ReadOK
  <2> QED BY <1>1, <1>4, <1>6, <2>1, ReadCarry
<1>11. \A r \in Requests : RequestOK(r)'
  BY <1>1, <1>4, RequestCarry
<1> QED BY <1>4, <1>6, <1>8, <1>9, <1>10, <1>11 DEF ClusterInv, RaftMoves

-----------------------------------------------------------------------------
(* The theorems *)

LEMMA ClusterInvInit == Init => ClusterInv
<1> SUFFICES ASSUME Init PROVE ClusterInv
  OBVIOUS
<1>1. NewRequest \in RequestRecords /\ NewRequest.pc = "new" /\ NewRequest.via = 0
  BY DEF NewRequest, RequestRecords
<1>2. NewRead \in ReadRecords /\ NewRead.pc = "new"
  BY NewReadFacts
<1>3. logs = <<>> /\ term = 0 /\ Log(term) = <<>> /\ Len(<<>>) = 0 /\ commit = 0 /\ acked = {}
  BY DEF Init, RaftInit, term, Log
<1>4. RaftTypes
  BY RaftAssumption DEF Init, RaftInit, RaftTypes
<1>5. ClusterTypes
  BY <1>1, <1>2 DEF Init, ClusterTypes
<1>6. LogsOK
  BY <1>3 DEF LogsOK
<1>7. LeadersOK
  BY <1>3, RaftAssumption DEF LeadersOK, Init, RaftInit
<1>8. AppliedOK
  BY <1>3 DEF AppliedOK, Init, RaftInit
<1>9. \A r \in Requests : RequestOK(r)
  BY <1>1, <1>3 DEF RequestOK, CallOK, Unwritten, Init
<1>10. AckedOK /\ ReadOK
  BY <1>2, <1>3 DEF AckedOK, ReadOK, Init
<1> QED BY <1>4, <1>5, <1>6, <1>7, <1>8, <1>9, <1>10 DEF ClusterInv

LEMMA ClusterInvNext == ClusterInv /\ [Next]_vars => ClusterInv'
<1> SUFFICES ASSUME ClusterInv, [Next]_vars PROVE ClusterInv'
  OBVIOUS
<1>1. CASE UNCHANGED vars
  <2>1. UNCHANGED raft /\ UNCHANGED <<replica, request, read, acked, crashes>> /\ up' = up
    BY <1>1 DEF vars, raft
  <2> QED BY <2>1, ClusterParts, SameMoves, RaftOnly
<1>2. CASE RaftStep /\ UNCHANGED <<replica, request, read, acked, crashes>>
  <2>1. up' = up
    BY <1>2 DEF RaftStep, Elect, StepDown, Commit, Hear
  <2> QED BY <1>2, <2>1, ClusterParts, RaftStepMoves, RaftOnly
<1>3. ASSUME NEW r \in Requests, Handler(r) \/ \E n \in Nodes : Call(r, n) PROVE ClusterInv'
  BY <1>3, HandleAsLeaderMove, NotLeaderMove, ForwardMove, RespondMove, CallMove DEF Handler
<1>4. CASE ReadLocal
  BY <1>4, ReadLocalMove
<1>5. ASSUME NEW n \in Nodes, \/ Join(n) \/ Apply(n) \/ Crash(n) \/ Restart(n)
                              \/ \E l \in Levels : ReadCheck(n, l)
      PROVE  ClusterInv'
  BY <1>5, JoinMove, ApplyMove, CrashMove, RestartMove, ReadCheckMove
<1> QED BY <1>1, <1>2, <1>3, <1>4, <1>5 DEF Next

LEMMA ClusterInvariant == Spec => []ClusterInv
BY ClusterInvInit, ClusterInvNext, PTL DEF Spec

\* Put and Delete: however a write is forwarded, and whatever leaders change,
\* crash and restart meanwhile, the log has it at most once, and for good once
\* its client was told so.
THEOREM WritesHappenOnce == Spec => []WritesOnce
<1>1. ClusterInv => WritesOnce
  <2> SUFFICES ASSUME ClusterInv, NEW r \in Requests
               PROVE  /\ Cardinality(Indexes(r)) <= 1
                      /\ request[r].pc = "ok" => Indexes(r) # {}
    BY DEF WritesOnce
  <2>0. USE ClusterParts
  <2>1. LogOK(Log(term), term) /\ commit \in Nat /\ commit <= Len(Log(term)) /\ Len(Log(term)) \in Nat
    BY LogFacts, TopFacts
  <2>2. \A i, j \in Indexes(r) : i = j
    <3>1. r # Noop /\ \A i \in Indexes(r) : i \in 1 .. Len(Log(term)) /\ Log(term)[i].cmd = r
      BY <2>1, ClusterAssumption DEF Indexes, Entry
    <3> QED BY <2>1, <3>1 DEF LogOK
  <2>3. Cardinality(Indexes(r)) <= 1
    <3>1. CASE Indexes(r) = {}
      <4>1. Cardinality(Indexes(r)) = 0
        BY <3>1, FS_EmptySet
      <4> QED BY <4>1
    <3>2. CASE Indexes(r) # {}
      <4>1. PICK i \in Indexes(r) : TRUE
        BY <3>2
      <4>2. Indexes(r) = {i}
        BY <2>2, <4>1
      <4>3. Cardinality(Indexes(r)) = 1
        BY <4>2, FS_Singleton
      <4> QED BY <4>3
    <3> QED BY <3>1, <3>2
  <2>4. request[r].pc = "ok" => Indexes(r) # {}
    BY DEF RequestOK, CallOK, Indexes
  <2> QED BY <2>3, <2>4
<1> QED BY <1>1, ClusterInvariant, PTL

\* The write proxy of kv_server.go counts no hops and needs not: each hop is to
\* the leader of a newer term than the one before.
THEOREM ForwardingRises == Spec => ForwardsToNewerTerms
<1>1. ClusterInv /\ [Next]_vars =>
         [\A r \in Requests : request[r].pc = "forwarding" /\ request'[r].pc = "handling" =>
             request'[r].via > request[r].via]_vars
  <2> SUFFICES ASSUME ClusterInv, Next, NEW r \in Requests, request[r].pc = "forwarding",
                      request'[r].pc = "handling"
               PROVE  request'[r].via > request[r].via
    OBVIOUS
  <2>0. request \in [Requests -> RequestRecords]
    BY ClusterParts DEF ClusterTypes
  <2>1. CASE Forward(r)
    <3>1. \/ hint[request[r].at] # Nobody /\ request'[r].via = view[request[r].at]
          \/ request'[r] = Finished("error")
      BY <2>0, <2>1 DEF Forward, Over, RequestRecords
    <3>2. hint[request[r].at] # Nobody /\ request'[r].via = view[request[r].at]
      BY <3>1, FinishedFacts
    <3>3. request[r].via < view[request[r].at] /\ request[r].at \in Nodes
      BY <3>2, HopsRise
    <3>4. request[r].via \in Nat /\ view[request[r].at] \in Nat
      BY <2>0, <3>3, ClusterParts DEF RequestRecords, RaftTypes
    <3> QED BY <3>2, <3>3, <3>4
  <2>2. CASE request'[r] = request[r]
    BY <2>2
  <2>3. ASSUME NEW s \in Requests, Handler(s) \/ \E n \in Nodes : Call(s, n), s # r
        PROVE  request'[r] = request[r]
    BY <2>0, <2>3 DEF Handler, HandleAsLeader, NotLeader, Forward, Respond, Call, Over
  <2>4. ASSUME NEW n \in Nodes, Crash(n) PROVE request'[r] = request[r]
    BY <2>4, FinishedFacts DEF Crash
  <2>5. ASSUME NEW n \in Nodes, Call(r, n) PROVE FALSE
    BY <2>5 DEF Call
  <2>6. HandleAsLeader(r) \/ NotLeader(r) \/ Respond(r) => FALSE
    BY DEF HandleAsLeader, NotLeader, Respond
  <2>7. ASSUME NEW s \in Requests, Handler(s) \/ \E n \in Nodes : Call(s, n)
        PROVE  Forward(r) \/ request'[r] = request[r]
    BY <2>3, <2>5, <2>6, <2>7 DEF Handler
  <2>8. CASE RaftStep /\ UNCHANGED <<replica, request, read, acked, crashes>>
    BY <2>2, <2>8
  <2>9. CASE ReadLocal
    BY <2>2, <2>9 DEF ReadLocal
  <2>10. ASSUME NEW n \in Nodes, \/ Join(n) \/ Apply(n) \/ Crash(n) \/ Restart(n)
                                 \/ \E l \in Levels : ReadCheck(n, l)
         PROVE  request'[r] = request[r]
    BY <2>4, <2>10 DEF Join, Apply, Restart, ReadCheck
  <2> QED BY <2>1, <2>2, <2>7, <2>8, <2>9, <2>10 DEF Next
<1> QED BY <1>1, ClusterInvariant, PTL DEF Spec, ForwardsToNewerTerms

\* Get: a STRONG read, and a FAST read of a leader others may have replaced,
\* see every write that was acknowledged in the leader's term and before, once
\* the leader has applied the no-op of its term.
THEOREM SettledLeadersReadFresh == Spec => []SettledReadsFresh
<1>1. ClusterInv => SettledReadsFresh
  BY DEF ClusterInv, ReadOK, SettledReadsFresh
<1> QED BY <1>1, ClusterInvariant, PTL
=============================================================================
