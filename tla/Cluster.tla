------------------------------ MODULE Cluster ------------------------------
(***************************************************************************)
(* A cluster of nodes: server/kv_server.go (Put, Delete, Get) and the join *)
(* request of main.go over the replicas.  A write that reaches a follower  *)
(* is forwarded to the node it takes for the leader, under a context of    *)
(* its own, so that a handler lives on when its caller has given up.  A    *)
(* read is checked as its level asks for, and then served by the local     *)
(* engine.                                                                 *)
(***************************************************************************)
EXTENDS Raft

CONSTANTS
    Requests,  \* Put and Delete calls on one key, each with a value of its own
    Nil,       \* no value
    Seed,      \* the node whose address the others are given as -join-addr
    Levels,    \* consistency levels that clients ask for
    MaxCrashes \* bound on crashes

ASSUME ClusterAssumption ==
    /\ Nil \notin Requests /\ Noop \notin Requests /\ Seed \in Members /\ MaxCrashes \in Nat
    /\ Levels \subseteq {"STRONG", "FAST", "EVENTUAL"}

VARIABLES
    applied,  \* per node: entries given to Apply since its engine was rebuilt
    reach,    \* per node: entries that have ever reached its engine
    request,  \* the calls of Put and Delete
    read,     \* a call of Get
    acked,    \* history: the entries that clients were told of
    crashes

replica == <<applied, reach>>
vars == <<raft, replica, request, read, acked, crashes>>

NewRequest == [pc |-> "new", at |-> Nobody, term |-> 0, index |-> 0, via |-> 0]
NewRead == [pc |-> "new", at |-> Nobody, level |-> "none", known |-> {}, settled |-> FALSE,
            result |-> Nil]

Init ==
    /\ RaftInit
    /\ applied = [n \in Nodes |-> 0] /\ reach = [n \in Nodes |-> 0]
    /\ request = [r \in Requests |-> NewRequest] /\ read = NewRead
    /\ acked = {} /\ crashes = 0

Running == {"handling", "forwarding", "proposed"}

Larger(i, j) == IF i < j THEN j ELSE i

\* The key's value after the first i entries, and its values from then on.
StateAt(i) ==
    LET W == {j \in 1 .. i : Entry(j).cmd # Noop}
    IN  IF W = {} THEN Nil ELSE Entry(CHOOSE j \in W : \A h \in W : h <= j).cmd
States(i, j) == {StateAt(h) : h \in i .. j}

-----------------------------------------------------------------------------
(* Put and Delete *)

\* A client calls Put or Delete at node n.
Call(r, n) ==
    /\ request[r].pc = "new" /\ up[n]
    /\ request' = [request EXCEPT ![r].pc = "handling", ![r].at = n]
    /\ UNCHANGED <<raft, replica, read, acked, crashes>>

\* The handler returns, and its locals are gone.
Finished(answer) == [NewRequest EXCEPT !.pc = answer]
Over(r, answer) == request' = [request EXCEPT ![r] = Finished(answer)]

\* State() is Leader: raft.Apply appends the command, or refuses it because
\* leadership was lost just now or its queue is full.
HandleAsLeader(r) ==
    LET n == request[r].at IN
    /\ request[r].pc = "handling" /\ lead[n]
    /\ \/ /\ Propose(n, r)
          /\ request' = [request EXCEPT ![r].pc = "proposed", ![r].term = view[n],
                                        ![r].index = Len(Log(view[n])) + 1]
       \/ Over(r, "error") /\ UNCHANGED logs
    /\ UNCHANGED <<up, joined, commit, view, lead, hint, replica, read, acked, crashes>>

\* State() is not Leader.
NotLeader(r) ==
    /\ request[r].pc = "handling" /\ ~lead[request[r].at]
    /\ request' = [request EXCEPT ![r].pc = "forwarding"]
    /\ UNCHANGED <<raft, replica, read, acked, crashes>>

\* Mutant of Forward: the request goes to a fixed node.
ForwardToSeed(r) ==
    /\ request[r].pc = "forwarding" /\ up[Seed]
    /\ request' = [request EXCEPT ![r].pc = "handling", ![r].at = Seed,
                                  ![r].via = view[request[r].at]]
    /\ UNCHANGED <<raft, replica, read, acked, crashes>>

\* The node Raft takes for the leader by now, which may be the node itself,
\* gets the request; or there is none, or the call fails.
Forward(r) ==
    LET n == request[r].at IN
    /\ request[r].pc = "forwarding"
    /\ \/ /\ hint[n] # Nobody /\ up[hint[n]]
          /\ request' = [request EXCEPT ![r].pc = "handling", ![r].at = hint[n], ![r].via = view[n]]
       \/ Over(r, "error")
    /\ UNCHANGED <<raft, replica, read, acked, crashes>>

\* Mutant of Respond: applyFuture.Error() is not looked at.
RespondWithoutError(r) ==
    LET n == request[r].at IN
    /\ request[r].pc = "proposed"
    /\ (lead[n] /\ view[n] = request[r].term) => applied[n] >= request[r].index
    /\ Over(r, "ok") /\ UNCHANGED acked
    /\ UNCHANGED <<raft, replica, read, crashes>>

\* Mutant of Respond: the entry is committed and need not have been applied.
RespondOnCommit(r) ==
    LET n == request[r].at IN
    /\ request[r].pc = "proposed" /\ lead[n] /\ view[n] = request[r].term
    /\ Current(n) /\ commit >= request[r].index
    /\ Over(r, "ok") /\ acked' = acked \cup {request[r].index}
    /\ UNCHANGED <<raft, replica, read, crashes>>

\* applyFuture is resolved: the entry was applied, by n as the leader or because
\* the state machine had been given it when leadership was lost; or leadership
\* was lost before.  The client learns of success unless its 3 s, or those of a
\* node on the way, are over: the handler does not notice.  (That Put looks at
\* the error of the engine, and Delete does not, matters only for engines that
\* fail.)
Respond(r) ==
    LET n == request[r].at
        isApplied == applied[n] >= request[r].index
    IN
    /\ request[r].pc = "proposed"
    /\ \/ /\ isApplied /\ Entry(request[r].index) = [term |-> request[r].term, cmd |-> r]
          /\ Over(r, "ok") /\ acked' = acked \cup {request[r].index}
       \/ /\ isApplied \/ ~ (lead[n] /\ view[n] = request[r].term)
          /\ Over(r, "error") /\ UNCHANGED acked
    /\ UNCHANGED <<raft, replica, read, crashes>>

-----------------------------------------------------------------------------
(* Get *)

\* n has applied the no-op of the term it leads in.
Settled(n) == \E i \in 1 .. applied[n] : Entry(i) = [term |-> view[n], cmd |-> Noop]

\* The acknowledged entries of terms up to the one n is in.
OwnAcked(n) == {i \in acked : Entry(i).term <= view[n]}

\* VerifyLeader asks a quorum, FAST asks the local Raft, EVENTUAL nobody.  A Get
\* that is refused leaves no trace.
ReadCheck(n, l) ==
    /\ read.pc = "new" /\ up[n]
    /\ l = "STRONG" => Current(n) /\ Majority
    /\ l = "FAST" => lead[n]
    /\ read' = [read EXCEPT !.pc = "checked", !.at = n, !.level = l, !.known = OwnAcked(n),
                            !.settled = lead[n] /\ Settled(n)]
    /\ UNCHANGED <<raft, replica, request, acked, crashes>>

\* db.Get on the local engine, which Replica shows to be somewhere between the
\* entry applied last and those that had reached it before a restart.  This is
\* for a key that no error and no lacking snapshot has left behind, and outside
\* of a Restore.  (A zero-length value that recovery made of a tombstone stands
\* for the Delete.)
ReadLocal ==
    LET n == read.at IN
    /\ read.pc = "checked"
    /\ \E v \in States(applied[n], Larger(applied[n], reach[n])) :
          read' = [read EXCEPT !.pc = "done", !.at = Nobody, !.result = v]
    /\ UNCHANGED <<raft, replica, request, acked, crashes>>

-----------------------------------------------------------------------------
(* Nodes *)

\* The joiner asks the seed until it answers with 200: the seed must lead.
Join(n) ==
    /\ n \notin joined /\ up[n] /\ up[Seed] /\ Current(Seed) /\ Majority
    /\ joined' = joined \cup {n}
    /\ UNCHANGED <<up, logs, commit, view, lead, hint, replica, request, read, acked, crashes>>

\* Raft gives the next entry to the state machine: a committed one that the
\* leader which n follows has, too.
Apply(n) ==
    LET i == applied[n] + 1 IN
    /\ up[n] /\ n \in joined /\ i <= commit
    /\ i <= Len(Log(view[n])) /\ Log(view[n])[i] = Entry(i)
    /\ applied' = [applied EXCEPT ![n] = i]
    /\ reach' = [reach EXCEPT ![n] = Larger(@, i)]
    /\ UNCHANGED <<raft, request, read, acked, crashes>>

\* Handlers die with their process; who waits for them gets an error.
Crash(n) ==
    /\ up[n] /\ crashes < MaxCrashes /\ crashes' = crashes + 1
    /\ up' = [up EXCEPT ![n] = FALSE]
    /\ lead' = [lead EXCEPT ![n] = FALSE] /\ hint' = [hint EXCEPT ![n] = Nobody]
    /\ request' = [r \in Requests |->
           IF request[r].at = n /\ request[r].pc \in Running
           THEN Finished("error") ELSE request[r]]
    /\ read' = IF read.at = n /\ read.pc = "checked" THEN NewRead ELSE read
    /\ UNCHANGED <<joined, logs, commit, view, replica, acked>>

\* The node comes back with its newest snapshot, or with nothing to start
\* from but its engine, and applies the log from there.
Restart(n) ==
    /\ ~up[n]
    /\ up' = [up EXCEPT ![n] = TRUE]
    /\ \E i \in 0 .. applied[n] : applied' = [applied EXCEPT ![n] = i]
    /\ UNCHANGED <<joined, logs, commit, view, lead, hint, reach, request, read, acked, crashes>>

Handler(r) == HandleAsLeader(r) \/ NotLeader(r) \/ Forward(r) \/ Respond(r)

Next ==
    \/ RaftStep /\ UNCHANGED <<replica, request, read, acked, crashes>>
    \/ \E r \in Requests : Handler(r) \/ \E n \in Nodes : Call(r, n)
    \/ ReadLocal
    \/ \E n \in Nodes :
          \/ Join(n) \/ Apply(n) \/ Crash(n) \/ Restart(n)
          \/ \E l \in Levels : ReadCheck(n, l)

Spec == Init /\ [][Next]_vars

-----------------------------------------------------------------------------
(* Properties *)

Indexes(r) == {i \in 1 .. commit : Entry(i).cmd = r}

\* A write is committed at most once however it was forwarded, and a client
\* that was told "ok" has its write in the log for good: elections, crashes and
\* late answers included.
WritesOnce ==
    \A r \in Requests :
        /\ Cardinality(Indexes(r)) <= 1
        /\ request[r].pc = "ok" => Indexes(r) # {}

\* Forwarding cannot go in circles although nothing counts the hops: each hop
\* follows the leader of a newer term than the hop before.
ForwardsToNewerTerms ==
    [][\A r \in Requests :
          request[r].pc = "forwarding" /\ request'[r].pc = "handling" =>
              request'[r].via > request[r].via]_vars

\* The value of a moment when all that the read must know had been applied.
Fresh == \E i \in 0 .. commit : read.result = StateAt(i) /\ \A a \in read.known : a <= i

\* A STRONG read sees every write acknowledged before it, and a FAST read of a
\* leader that others have replaced at least those of its own and earlier
\* terms, once the leader has applied the no-op of its term.
SettledReadsFresh == read.pc = "done" /\ read.level # "EVENTUAL" /\ read.settled => Fresh

\* README.md: Strong "Forces a TCP quorum check to guarantee linearizability
\* and prevent stale reads": a STRONG read sees every write acknowledged
\* before it began.
StrongReadsFresh == read.pc = "done" /\ read.level = "STRONG" => Fresh
=============================================================================
