----------------------------- MODULE Lifecycle -----------------------------
(***************************************************************************)
(* Opening, purging and closing an engine: Close, Purge and flushWorker of *)
(* engine/stratago.go, compactionWorker of engine/compaction.go.  The flag *)
(* closed, the two channels and the wait group tie the callers of Close to *)
(* the two workers.  Each Purge makes new channels and new workers: a       *)
(* generation.  What a flush or a compaction does is module Engine's.      *)
(***************************************************************************)
EXTENDS Naturals, FiniteSets

CONSTANTS MaxGen   \* bound on generations: one for Open, one for each Purge

ASSUME LifecycleAssumption == MaxGen \in Nat \ {0}

Generations == 1 .. MaxGen
Workers == {"flush", "compact"} \X Generations

VARIABLES
    closed,
    gen,      \* the generation db.flushChan and db.closeChan belong to
    open,     \* the generations whose channels are not closed
    signals,  \* the generations with a signal in flushChan
    worker,   \* the generation of the channel a worker listens on; 0: it is gone
    caller,   \* how far "fsm" is in Purge, and "main" in Close
    botched   \* history: a Close gave up because its Flush failed

lifecycle == <<closed, gen, open, signals, worker, caller, botched>>

\* db.wg.Add(2) and two go statements.
Started(ws, g) == [w \in Workers |-> IF w[2] = g THEN g ELSE ws[w]]

LifecycleInit ==
    /\ closed = FALSE /\ gen = 1 /\ open = {1} /\ signals = {}
    /\ worker = Started([w \in Workers |-> 0], 1)
    /\ caller = [c \in {"fsm", "main"} |-> "idle"] /\ botched = FALSE

\* What wg counts.
Live == {w \in Workers : worker[w] # 0}

-----------------------------------------------------------------------------
(* Callers *)

\* Put or Delete finds the memtable large: a non-blocking send under db.mu.
SignalFlush ==
    /\ caller["fsm"] = "idle" /\ ~closed
    /\ signals' = signals \cup {gen}
    /\ UNCHANGED <<closed, gen, open, worker, caller, botched>>

At(c, pc) == caller' = [caller EXCEPT ![c] = pc]

\* Mutant of Close: the flag is set and not looked at.
CloseAgain(c) ==
    /\ caller[c] = "idle"
    /\ closed' = TRUE /\ At(c, "flush")
    /\ UNCHANGED <<gen, open, signals, worker, botched>>

\* Close: test and set under db.mu.  On a closed engine it returns, and Purge
\* goes on to the files.
Close(c) ==
    /\ caller[c] = "idle"
    /\ closed' = TRUE
    /\ IF ~closed THEN At(c, "flush") ELSE At(c, IF c = "fsm" THEN "files" ELSE "returned")
    /\ UNCHANGED <<gen, open, signals, worker, botched>>

\* Mutant of CloseFlush: the channels stay open.
CloseFlushKeepsChannels(c) ==
    /\ caller[c] = "flush"
    /\ signals' = signals \ {gen} /\ At(c, "wait")
    /\ UNCHANGED <<closed, gen, open, worker, botched>>

\* The final Flush.  When it fails Close returns, and so does Purge; otherwise
\* a pending signal is drained and the channels are closed.
CloseFlush(c) ==
    /\ caller[c] = "flush"
    /\ \/ /\ signals' = signals \ {gen} /\ open' = open \ {gen}
          /\ At(c, "wait") /\ UNCHANGED botched
       \/ /\ botched' = TRUE /\ At(c, IF c = "fsm" THEN "idle" ELSE "returned")
          /\ UNCHANGED <<signals, open>>
    /\ UNCHANGED <<closed, gen, worker>>

\* Mutant of CloseWait: no wait.
CloseDoesNotWait(c) ==
    /\ caller[c] = "wait"
    /\ At(c, IF c = "fsm" THEN "files" ELSE "returned")
    /\ UNCHANGED <<closed, gen, open, signals, worker, botched>>

\* wg.Wait, then the files are closed.
CloseWait(c) ==
    /\ caller[c] = "wait" /\ Live = {}
    /\ At(c, IF c = "fsm" THEN "files" ELSE "returned")
    /\ UNCHANGED <<closed, gen, open, signals, worker, botched>>

\* The rest of Purge, under db.mu: remove the files and start again, or fail
\* and leave the engine closed.
Reopen ==
    /\ caller["fsm"] = "files"
    /\ \/ /\ gen < MaxGen
          /\ gen' = gen + 1 /\ open' = open \cup {gen + 1} /\ closed' = FALSE
          /\ worker' = Started(worker, gen + 1)
       \/ UNCHANGED <<gen, open, closed, worker>>
    /\ At("fsm", "idle")
    /\ UNCHANGED <<signals, botched>>

\* A call of Close or Purge goes on.
Closing(c) == CloseFlush(c) \/ CloseWait(c) \/ (c = "fsm" /\ Reopen)

-----------------------------------------------------------------------------
(* Workers *)

\* A signal: Flush.  "for range db.flushChan" keeps the channel it began with.
FlushWork(w) ==
    /\ w[1] = "flush" /\ worker[w] # 0 /\ worker[w] \in signals
    /\ signals' = signals \ {worker[w]}
    /\ UNCHANGED <<closed, gen, open, worker, caller, botched>>

\* A tick: RunCompaction.  Then the select takes db.closeChan anew.
CompactWork(w) ==
    /\ w[1] = "compact" /\ worker[w] # 0
    /\ worker' = [worker EXCEPT ![w] = gen]
    /\ UNCHANGED <<closed, gen, open, signals, caller, botched>>

\* The channel is closed and empty: wg.Done.
Exit(w) ==
    /\ worker[w] # 0 /\ worker[w] \notin open \cup signals
    /\ worker' = [worker EXCEPT ![w] = 0]
    /\ UNCHANGED <<closed, gen, open, signals, caller, botched>>

-----------------------------------------------------------------------------
(* Properties *)

LifecycleTypeOK ==
    /\ closed \in BOOLEAN /\ botched \in BOOLEAN /\ gen \in Generations
    /\ open \subseteq Generations /\ signals \subseteq open
    /\ worker \in [Workers -> 0 .. MaxGen]
    /\ caller \in [{"fsm", "main"} -> {"idle", "flush", "wait", "files", "returned"}]

\* No Put sends on a closed channel, and no Close closes a channel twice (both
\* would panic), whatever part of earlier Closes and Purges has failed.
ChannelsOpen == 
    (~closed \/ \E c \in DOMAIN caller : caller[c] = "flush") => gen \in open

\* An engine that is not closed has one flush worker and one compaction worker
\* on its present channels, and no worker outlives its generation: unless a
\* Close has given up with its workers running.
WorkersMatch ==
    ~botched =>
        /\ Live \subseteq {"flush", "compact"} \X {gen}
        /\ ~closed => Live = {"flush", "compact"} \X {gen}
        /\ \A w \in Live : worker[w] = gen
=============================================================================
