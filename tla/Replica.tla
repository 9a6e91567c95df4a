------------------------------ MODULE Replica ------------------------------
(***************************************************************************)
(* The Raft state machine of a node: consensus/fsm.go over the engine,     *)
(* and the start of a node in main.go.  Raft calls Apply for one committed *)
(* entry after the other, Snapshot now and then, and Restore with a        *)
(* snapshot from the leader or, at start-up, with the node's own.          *)
(*                                                                         *)
(* The engine is what Engine shows it to be.  While it runs it is a map;   *)
(* but ScanAll lacks what only a merged file has, a flush that is given up *)
(* takes keys back, and Open after a kill finds of each key any value that *)
(* was ever written to it, a tombstone as a zero-length value.             *)
(***************************************************************************)
EXTENDS Naturals, Sequences

CONSTANTS
    Nodes, Keys, Values,
    Nil,         \* no value: a tombstone, or "not found"
    Empty,       \* a zero-length value
    None,        \* no snapshot under way, no Restore under way
    Events,      \* what the environment does in this instance
    MaxLog, MaxFailures   \* bounds on commands, and on crashes and failing Restores

(***************************************************************************)
(* apply: the engine's Put or Delete fails.  restore, persist: the call    *)
(* fails.  compact: a compaction unlinks the file it has merged.  scan: a  *)
(* file that ScanAll cannot open or read is left out.  revert: a flush is  *)
(* given up, or a group of files is merged around an unlinked one.         *)
(***************************************************************************)
AllEvents == {"apply", "restore", "persist", "compact", "scan", "revert"}

\* pb.Command: Nil for DELETE.
Commands == [key : Keys, value : Values \cup {Empty, Nil}]

\* What ScanAll returns, and what Get answers.
Store == [Keys -> Values \cup {Nil}]
Answers == [Keys -> Values \cup {Nil, Empty}]

\* A snapshot, with two histories: no effect of an entry after reach is in it,
\* and the keys in lacks may be behind index.
Snapshots == [index : Nat, state : Store, reach : Nat, lacks : SUBSET Keys]

\* A Restore call: the stream it reads, and the keys still to come from it.
Restorations == [from : Snapshots, purged : BOOLEAN, left : SUBSET Keys, booting : BOOLEAN]

ASSUME ReplicaAssumption ==
    /\ Nil # Empty /\ {Nil, Empty} \cap Values = {}
    /\ None \notin Snapshots /\ None \notin Restorations
    /\ Events \subseteq AllEvents
    /\ MaxLog \in Nat /\ MaxFailures \in Nat

VARIABLES
    log,         \* the committed commands, the same for all nodes
    up,          \* the process runs
    applied,     \* index of the last entry given to Apply
    engine,      \* what Get answers
    shut,        \* "open"; "closing": Close's Flush failed, db.closed stays set;
                 \* "closed": Close has ended, readers are closed, workers gone
    merged,      \* keys whose newest entry is in an unlinked merged file only
    persisting,  \* the snapshot a background goroutine is writing
    snapshot,    \* the newest snapshot on disk; index 0: none
    restoring,   \* the Restore call under way
    reach,       \* history: no effect of a later entry is in the engine or its files
    lost,        \* history: keys that an error or a lacking snapshot left behind
    failures

vars == <<log, up, applied, engine, shut, merged, persisting, snapshot, restoring, reach, lost,
          failures>>

EmptyStore == [k \in Keys |-> Nil]
NoSnapshot == [index |-> 0, state |-> EmptyStore, reach |-> 0, lacks |-> {}]

Init ==
    /\ log = <<>> /\ up = [n \in Nodes |-> TRUE]
    /\ applied = [n \in Nodes |-> 0] /\ engine = [n \in Nodes |-> EmptyStore]
    /\ shut = [n \in Nodes |-> "open"] /\ merged = [n \in Nodes |-> {}]
    /\ persisting = [n \in Nodes |-> None] /\ snapshot = [n \in Nodes |-> NoSnapshot]
    /\ restoring = [n \in Nodes |-> None]
    /\ reach = [n \in Nodes |-> 0] /\ lost = [n \in Nodes |-> {}] /\ failures = 0

Larger(i, j) == IF i < j THEN j ELSE i

-----------------------------------------------------------------------------
(* Apply *)

\* Raft commits a command of some client.
Commit(c) ==
    /\ Len(log) < MaxLog
    /\ log' = Append(log, c)
    /\ UNCHANGED <<up, applied, engine, shut, merged, persisting, snapshot, restoring, reach,
                   lost, failures>>

\* The encoding drops a zero-length value: Unmarshal gives nil, and db.Put of
\* nil is a tombstone.
Stored(c) == IF c.value = Empty THEN Nil ELSE c.value

\* Apply runs db.Put or db.Delete; Raft goes on to the next entry whatever it
\* returns.
Apply(n) ==
    /\ up[n] /\ restoring[n] = None /\ applied[n] < Len(log)
    /\ LET c == log[applied[n] + 1]
       IN  \/ /\ shut[n] = "open"
              /\ engine' = [engine EXCEPT ![n][c.key] = Stored(c)]
              /\ merged' = [merged EXCEPT ![n] = @ \ {c.key}]
              /\ lost' = [lost EXCEPT ![n] = @ \ {c.key}]
           \/ /\ shut[n] # "open" \/ "apply" \in Events
              /\ lost' = [lost EXCEPT ![n] = @ \cup {c.key}]
              /\ UNCHANGED <<engine, merged>>
    /\ applied' = [applied EXCEPT ![n] = @ + 1]
    /\ reach' = [reach EXCEPT ![n] = Larger(@, applied[n] + 1)]
    /\ UNCHANGED <<log, up, shut, persisting, snapshot, restoring, failures>>

-----------------------------------------------------------------------------
(* The engine's own work, as Engine has it *)

\* The map that the first i committed commands make.
StateAt(i) ==
    [k \in Keys |->
        LET W == {j \in 1 .. i : log[j].key = k}
        IN  IF W = {} THEN Nil ELSE Stored(log[CHOOSE j \in W : \A h \in W : h <= j])]

\* The values that a table or a file of n can have for k.
Held(n, k) == {StateAt(i)[k] : i \in 0 .. reach[n]}

\* Entry i is a tombstone of k.
Deletes(i, k) == log[i].key = k /\ Stored(log[i]) = Nil

Working(n) == up[n] /\ shut[n] # "closed"

\* Flush moves zero-length values, which Get finds, to an SSTable, where it does
\* not.
Settle(n) ==
    /\ Working(n)
    /\ \E K \in SUBSET {k \in Keys : engine[n][k] = Empty} \ {{}} :
          engine' = [engine EXCEPT ![n] = [k \in Keys |-> IF k \in K THEN Nil ELSE @[k]]]
    /\ UNCHANGED <<log, up, applied, shut, merged, persisting, snapshot, restoring, reach, lost,
                   failures>>

Compact(n) ==
    /\ Working(n) /\ "compact" \in Events
    /\ \E K \in SUBSET {k \in Keys : engine[n][k] # Empty /\ \E i \in 1 .. reach[n] : log[i].key = k} :
          merged' = [merged EXCEPT ![n] = @ \cup K]
    /\ UNCHANGED <<log, up, applied, engine, shut, persisting, snapshot, restoring, reach, lost,
                   failures>>

\* Entries that only a memtable had are gone, or older ones go before them.
Revert(n) ==
    /\ Working(n) /\ "revert" \in Events
    /\ \E K \in SUBSET Keys \ {{}}, e \in Store :
          /\ \A k \in K : e[k] \in Held(n, k)
          /\ engine' = [engine EXCEPT ![n] = [k \in Keys |-> IF k \in K THEN e[k] ELSE @[k]]]
          /\ lost' = [lost EXCEPT ![n] = @ \cup K]
    /\ UNCHANGED <<log, up, applied, shut, merged, persisting, snapshot, restoring, reach,
                   failures>>

-----------------------------------------------------------------------------
(* Snapshot, Persist, Restore *)

\* ScanAll between two Applies; a closed engine gives an error.  Of a key whose
\* newest entry it does not read (L) it has an older one, or none, and nobody is
\* told; zero-length values are dropped.
Snapshot(n) ==
    /\ up[n] /\ restoring[n] = None /\ shut[n] = "open"
    /\ persisting[n] = None /\ applied[n] > snapshot[n].index
    /\ \E L \in SUBSET Keys, s \in Store :
          /\ merged[n] \subseteq L
          /\ L \subseteq merged[n] \cup lost[n] \/ "scan" \in Events
          /\ \A k \in Keys :
                IF k \in L THEN s[k] \in Held(n, k)
                ELSE s[k] = IF engine[n][k] = Empty THEN Nil ELSE engine[n][k]
          /\ persisting' = [persisting EXCEPT ![n] =
                 [index |-> applied[n], state |-> s, reach |-> reach[n], lacks |-> L \cup lost[n]]]
    /\ UNCHANGED <<log, up, applied, engine, shut, merged, snapshot, restoring, reach, lost,
                   failures>>

\* The snapshot store keeps one snapshot, that of the highest index.
Retain(old, new) == IF new.index > old.index THEN new ELSE old

\* The entries are written while Apply goes on; the sink is closed, which adds
\* the snapshot to the store, or cancelled.
Persist(n) ==
    /\ up[n] /\ persisting[n] # None
    /\ \/ snapshot' = [snapshot EXCEPT ![n] = Retain(@, persisting[n])]
       \/ "persist" \in Events /\ UNCHANGED snapshot
    /\ persisting' = [persisting EXCEPT ![n] = None]
    /\ UNCHANGED <<log, up, applied, engine, shut, merged, restoring, reach, lost, failures>>

Restoration(s, booting) ==
    [from |-> s, purged |-> FALSE, left |-> {k \in Keys : s.state[k] # Nil}, booting |-> booting]

\* The leader no longer has the entries that n lacks and sends its snapshot,
\* which n stores before it calls Restore.
InstallSnapshot(n, m) ==
    /\ up[n] /\ up[m] /\ n # m
    /\ restoring[n] = None /\ snapshot[m].index > applied[n]
    /\ snapshot' = [snapshot EXCEPT ![n] = Retain(@, snapshot[m])]
    /\ restoring' = [restoring EXCEPT ![n] = Restoration(snapshot[m], FALSE)]
    /\ UNCHANGED <<log, up, applied, engine, shut, merged, persisting, reach, lost, failures>>

Purging(n) == up[n] /\ restoring[n] # None /\ ~restoring[n].purged

\* Purge calls Close, which flushes and closes the readers: Get finds nothing any
\* more, but for keys (K) in an active memtable that Flush did not rotate.
PurgeClose(n) ==
    /\ Purging(n) /\ shut[n] = "open"
    /\ shut' = [shut EXCEPT ![n] = "closed"]
    /\ \E K \in SUBSET Keys :
          engine' = [engine EXCEPT ![n] = [k \in Keys |-> IF k \in K THEN @[k] ELSE Nil]]
    /\ UNCHANGED <<log, up, applied, merged, persisting, snapshot, restoring, reach, lost,
                   failures>>

\* Mutants of PurgeReopen: db.closed stays set; the files are not removed.
PurgeStaysClosed(n) ==
    /\ Purging(n) /\ shut[n] # "open"
    /\ engine' = [engine EXCEPT ![n] = EmptyStore]
    /\ merged' = [merged EXCEPT ![n] = {}]
    /\ restoring' = [restoring EXCEPT ![n].purged = TRUE]
    /\ reach' = [reach EXCEPT ![n] = restoring[n].from.reach]
    /\ lost' = [lost EXCEPT ![n] = restoring[n].from.lacks]
    /\ UNCHANGED <<log, up, applied, shut, persisting, snapshot, failures>>

PurgeKeepsFiles(n) ==
    /\ Purging(n) /\ shut[n] # "open"
    /\ \E e \in Store : (\A k \in Keys : e[k] \in Held(n, k)) /\ engine' = [engine EXCEPT ![n] = e]
    /\ shut' = [shut EXCEPT ![n] = "open"]
    /\ restoring' = [restoring EXCEPT ![n].purged = TRUE]
    /\ lost' = [lost EXCEPT ![n] = restoring[n].from.lacks]
    /\ UNCHANGED <<log, up, applied, merged, persisting, snapshot, reach, failures>>

\* On a closed engine Close does nothing, so that a Purge may follow one that
\* failed.  The files are removed, memtables, readers and WAL are made anew.
PurgeReopen(n) ==
    /\ Purging(n) /\ shut[n] # "open"
    /\ engine' = [engine EXCEPT ![n] = EmptyStore]
    /\ shut' = [shut EXCEPT ![n] = "open"]
    /\ merged' = [merged EXCEPT ![n] = {}]
    /\ restoring' = [restoring EXCEPT ![n].purged = TRUE]
    /\ reach' = [reach EXCEPT ![n] = restoring[n].from.reach]
    /\ lost' = [lost EXCEPT ![n] = restoring[n].from.lacks]
    /\ UNCHANGED <<log, up, applied, persisting, snapshot, failures>>

RestorePut(n) ==
    /\ up[n] /\ restoring[n] # None /\ restoring[n].purged
    /\ \E k \in restoring[n].left :
          /\ engine' = [engine EXCEPT ![n][k] = restoring[n].from.state[k]]
          /\ restoring' = [restoring EXCEPT ![n].left = @ \ {k}]
          /\ merged' = [merged EXCEPT ![n] = @ \ {k}]
    /\ UNCHANGED <<log, up, applied, shut, persisting, snapshot, reach, lost, failures>>

\* Mutant of RestoreDone: every error in reading a length is taken for the end.
RestoreEndsEarly(n) ==
    /\ up[n] /\ restoring[n] # None /\ restoring[n].purged
    /\ applied' = [applied EXCEPT ![n] = restoring[n].from.index]
    /\ restoring' = [restoring EXCEPT ![n] = None]
    /\ UNCHANGED <<log, up, engine, shut, merged, persisting, snapshot, reach, lost, failures>>

\* The stream has ended and Restore returns nil: Raft goes on behind the
\* snapshot.
RestoreDone(n) ==
    /\ up[n] /\ restoring[n] # None /\ restoring[n].purged /\ restoring[n].left = {}
    /\ applied' = [applied EXCEPT ![n] = restoring[n].from.index]
    /\ restoring' = [restoring EXCEPT ![n] = None]
    /\ UNCHANGED <<log, up, engine, shut, merged, persisting, snapshot, reach, lost, failures>>

\* All memory is gone.
Stopped(n) ==
    /\ up' = [up EXCEPT ![n] = FALSE]
    /\ applied' = [applied EXCEPT ![n] = 0]
    /\ engine' = [engine EXCEPT ![n] = EmptyStore]
    /\ shut' = [shut EXCEPT ![n] = "open"]
    /\ merged' = [merged EXCEPT ![n] = {}]
    /\ persisting' = [persisting EXCEPT ![n] = None]
    /\ restoring' = [restoring EXCEPT ![n] = None]
    /\ lost' = [lost EXCEPT ![n] = {}]
    /\ UNCHANGED <<log, snapshot, reach>>

\* Restore returns an error while the process runs on: Raft only reports it and
\* lastApplied stays.  Before the Purge has ended, Close's Flush has failed, or
\* RemoveAll, MkdirAll (the engine answers what it still can) or NewWAL (nothing).
RestoreGivenUp(n) ==
    /\ restoring' = [restoring EXCEPT ![n] = None]
    /\ \/ /\ restoring[n].purged
          /\ lost' = [lost EXCEPT ![n] = @ \cup restoring[n].left]
          /\ UNCHANGED <<engine, shut>>
       \/ /\ ~restoring[n].purged /\ shut[n] = "open"
          /\ shut' = [shut EXCEPT ![n] = "closing"]
          /\ UNCHANGED <<engine, lost>>
       \/ /\ ~restoring[n].purged /\ shut[n] # "open"
          /\ engine' = [engine EXCEPT ![n] = EmptyStore] \/ UNCHANGED engine
          /\ lost' = [lost EXCEPT ![n] = Keys]
          /\ UNCHANGED shut
    /\ UNCHANGED <<log, up, applied, merged, persisting, snapshot, reach>>

\* At start-up an error makes NewRaft fail, and main exits.
RestoreFails(n) ==
    /\ up[n] /\ restoring[n] # None /\ "restore" \in Events
    /\ failures < MaxFailures /\ failures' = failures + 1
    /\ IF restoring[n].booting THEN Stopped(n) ELSE RestoreGivenUp(n)

-----------------------------------------------------------------------------
(* The process of a node *)

Crash(n) ==
    /\ up[n] /\ failures < MaxFailures /\ failures' = failures + 1
    /\ Stopped(n)

\* What engine.Open may find of k: merged files are gone, older records come
\* behind newer ones, a logged tombstone is a zero-length value.
Recovered(n, k) ==
    Held(n, k) \cup {c \in {Empty} : \E i \in 1 .. reach[n] : Deletes(i, k)}

\* engine.Open, then NewRaft: restore the newest snapshot, or start at index 0
\* with the engine as it is.
Restart(n) ==
    /\ ~up[n]
    /\ up' = [up EXCEPT ![n] = TRUE]
    /\ \E e \in Answers :
          (\A k \in Keys : e[k] \in Recovered(n, k)) /\ engine' = [engine EXCEPT ![n] = e]
    /\ restoring' = [restoring EXCEPT ![n] =
           IF snapshot[n].index = 0 THEN None ELSE Restoration(snapshot[n], TRUE)]
    /\ UNCHANGED <<log, applied, shut, merged, persisting, snapshot, reach, lost, failures>>

Restore(n) == PurgeClose(n) \/ PurgeReopen(n) \/ RestorePut(n) \/ RestoreDone(n)

Next ==
    \/ \E c \in Commands : Commit(c)
    \/ \E n \in Nodes :
          \/ Apply(n) \/ Settle(n) \/ Compact(n) \/ Revert(n)
          \/ Snapshot(n) \/ Persist(n)
          \/ Restore(n) \/ RestoreFails(n)
          \/ Crash(n) \/ Restart(n)
          \/ \E m \in Nodes : InstallSnapshot(n, m)

Spec == Init /\ [][Next]_vars

\* Raft's state machine goroutine applies what is committed and runs a Restore
\* to its end.  Nobody must write, flush, take snapshots, or restart a node.
FairSpec == Spec /\ \A n \in Nodes : WF_vars(Apply(n)) /\ WF_vars(Restore(n))

-----------------------------------------------------------------------------
(* Properties *)

\* The variables have their types; a node has applied only what is committed; a
\* Restore puts its entries into an engine that Purge has opened again.
TypeOK ==
    /\ log \in Seq(Commands) /\ up \in [Nodes -> BOOLEAN]
    /\ engine \in [Nodes -> Answers] /\ shut \in [Nodes -> {"open", "closing", "closed"}]
    /\ reach \in [Nodes -> 0 .. Len(log)] /\ \A n \in Nodes : applied[n] \in 0 .. reach[n]
    /\ merged \in [Nodes -> SUBSET Keys] /\ lost \in [Nodes -> SUBSET Keys]
    /\ \A n \in Nodes :
          /\ snapshot[n].index <= Len(log) /\ snapshot[n].state \in Store
          /\ ~up[n] => persisting[n] = None /\ restoring[n] = None
          /\ restoring[n] # None /\ restoring[n].purged => shut[n] = "open"

\* A Restore has taken the old content away and has not put in all of the new.
Replacing(n) == restoring[n] # None /\ (restoring[n].purged \/ shut[n] = "closed")

\* The entry that k of node n is not behind.
Floor(n, k) == IF Replacing(n) \/ k \in lost[n] THEN 0 ELSE applied[n]

\* Apply, Snapshot, Persist, Restore and the replay after a restart leave every key
\* of a replica at the value of one moment between the entry applied last and
\* the last one that ever reached this engine, whatever Open found after a kill:
\* once the replay has caught up, the engine is the map that the log says.  A
\* zero-length value is found only where the replay has a Delete still to come.
\* Keys that an error or a lacking snapshot left behind, and all keys from Purge to
\* the end of a Restore, may have older values, but none from another key or from
\* beyond what reached the engine.
ReplicaMatchesLog ==
    \A n \in Nodes : up[n] => \A k \in Keys :
        \/ \E i \in Floor(n, k) .. reach[n] : engine[n][k] = StateAt(i)[k]
        \/ engine[n][k] = Empty /\ \E i \in Floor(n, k) + 1 .. reach[n] : Deletes(i, k)

\* A node that stays up applies everything that was committed, through replays and
\* Restores, and then has of every key the value that the log says, unless an
\* error or a lacking snapshot left the key behind.
ReplicaCatchesUp ==
    \A n \in Nodes : (<>[]up[n]) =>
        <>[](\A k \in Keys : k \in lost[n] \/ engine[n][k] = StateAt(Len(log))[k])
=============================================================================
