-------------------------------- MODULE Raft --------------------------------
(***************************************************************************)
(* HashiCorp Raft as main.go, consensus/fsm.go and server/kv_server.go use *)
(* it: State(), Leader(), VerifyLeader(), Apply() and AddVoter() on one    *)
(* side, an agreed sequence of committed entries on the other.  The        *)
(* library is not part of the repository; what its callers rely on is      *)
(* modelled, and how a quorum comes about is not.                          *)
(*                                                                         *)
(* logs[t] is the log of the leader elected in term t.  A node elected     *)
(* starts from a prefix of one of the earlier logs that has all committed  *)
(* entries, and appends a no-op of its own term.  An older leader that has *)
(* not noticed goes on appending to its own log.                           *)
(***************************************************************************)
EXTENDS Naturals, Sequences, FiniteSets

CONSTANTS
    Nodes, Nobody,
    Members,   \* the nodes that are voters from the start
    Noop,      \* the entry a new leader appends
    MaxTerm    \* bound on elections

ASSUME RaftAssumption ==
    /\ IsFiniteSet(Nodes) /\ Nobody \notin Nodes
    /\ Members \subseteq Nodes /\ Members # {}
    /\ MaxTerm \in Nat

VARIABLES
    up,       \* the process runs
    joined,   \* the voters
    logs,     \* per term: the leader's log, a sequence of entries
    commit,   \* number of committed entries
    view,     \* the term a node is in
    lead,     \* State() = Leader
    hint      \* Leader(), Nobody for ""

raft == <<up, joined, logs, commit, view, lead, hint>>

term == Len(logs)
Log(t) == IF t = 0 THEN <<>> ELSE logs[t]
Entry(i) == Log(term)[i]
Committed == SubSeq(Log(term), 1, commit)

RaftInit ==
    /\ up = [n \in Nodes |-> TRUE] /\ joined = Members
    /\ logs = <<>> /\ commit = 0
    /\ view = [n \in Nodes |-> 0]
    /\ lead = [n \in Nodes |-> FALSE] /\ hint = [n \in Nodes |-> Nobody]

Majority == 2 * Cardinality({n \in joined : up[n]}) > Cardinality(joined)

\* The leader of the newest term: the only one a quorum still follows.
Current(n) == lead[n] /\ view[n] = term

\* n wins an election with the votes of Q, who leave their old term and follow
\* n.  Other nodes may go on believing in an older leader.
Elect(n) ==
    /\ term < MaxTerm /\ ~Current(n)
    /\ \E Q \in SUBSET {m \in joined : up[m]} :
          /\ n \in Q /\ 2 * Cardinality(Q) > Cardinality(joined)
          /\ view' = [m \in Nodes |-> IF m \in Q THEN term + 1 ELSE view[m]]
          /\ lead' = [m \in Nodes |-> m = n \/ (lead[m] /\ m \notin Q)]
          /\ hint' = [m \in Nodes |-> IF m \in Q THEN n ELSE hint[m]]
    /\ \E t \in 0 .. term : \E i \in commit .. Len(Log(t)) :
          /\ SubSeq(Log(t), 1, commit) = Committed
          /\ logs' = Append(logs, Append(SubSeq(Log(t), 1, i), [term |-> term + 1, cmd |-> Noop]))
    /\ UNCHANGED <<up, joined, commit>>

\* n accepts a heartbeat from m, which leads in a term that is not older.
Hear(n, m) ==
    /\ up[n] /\ up[m] /\ n \in joined /\ n # m /\ lead[m] /\ view[m] >= view[n] /\ hint[n] # m
    /\ view' = [view EXCEPT ![n] = view[m]]
    /\ lead' = [lead EXCEPT ![n] = FALSE]
    /\ hint' = [hint EXCEPT ![n] = m]
    /\ UNCHANGED <<up, joined, logs, commit>>

\* A leader cannot reach a quorum for the length of its lease: State() is not
\* Leader, Leader() is "".  (That a follower misses heartbeats and its Leader()
\* is "" has the same effect as a call to the leader that fails.)
StepDown(n) ==
    /\ lead[n]
    /\ lead' = [lead EXCEPT ![n] = FALSE]
    /\ hint' = [hint EXCEPT ![n] = Nobody]
    /\ UNCHANGED <<up, joined, logs, commit, view>>

\* The leader has entries of its own term on a quorum.
Commit(n) ==
    /\ up[n] /\ Current(n) /\ Majority
    /\ \E i \in commit + 1 .. Len(Log(term)) : Entry(i).term = term /\ commit' = i
    /\ UNCHANGED <<up, joined, logs, view, lead, hint>>

\* raft.Apply at a node that takes itself for the leader.
Propose(n, c) ==
    logs' = [logs EXCEPT ![view[n]] = Append(@, [term |-> view[n], cmd |-> c])]

RaftStep ==
    \E n \in Nodes : Elect(n) \/ StepDown(n) \/ Commit(n) \/ \E m \in Nodes : Hear(n, m)
=============================================================================
