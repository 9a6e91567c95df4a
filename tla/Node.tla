-------------------------------- MODULE Node --------------------------------
(***************************************************************************)
(* One node's process: requests that use the connection to the leader,     *)
(* Raft's state machine goroutine that purges the engine for a Restore,    *)
(* and the shutdown at the end of main: GracefulStop, KVServer.Close,      *)
(* Raft's Shutdown, the engine's Close.                                    *)
(***************************************************************************)
EXTENDS LeaderConn, Lifecycle

VARIABLES phase   \* how far main is

vars == <<conn, lifecycle, phase>>

Init == ConnInit /\ LifecycleInit /\ phase = "live"

\* GracefulStop accepts no request any more, and waits for the running ones.
Handle(h) ==
    /\ handler[h].pc = "new" => phase = "live"
    /\ Request(h)
    /\ UNCHANGED <<lifecycle, phase>>

\* Restore calls Purge, Apply calls Put or Delete, until Raft has been shut down.
FSMCalls ==
    /\ phase \in {"live", "draining", "raft"}
    /\ Close("fsm") \/ SignalFlush
    /\ UNCHANGED <<conn, phase>>

ClosingGoesOn(c) == Closing(c) /\ UNCHANGED <<conn, phase>>

WorkerWorks(w) == (FlushWork(w) \/ CompactWork(w)) /\ UNCHANGED <<conn, phase>>
WorkerEnds(w) == Exit(w) /\ UNCHANGED <<conn, phase>>

\* SIGINT or SIGTERM.
Signal == phase = "live" /\ phase' = "draining" /\ UNCHANGED <<conn, lifecycle>>

Drained ==
    /\ phase = "draining" /\ \A h \in Handlers : ~Running(h)
    /\ phase' = "raft" /\ ServerClose /\ UNCHANGED lifecycle

\* Mutant of RaftShutdown: the future is not waited for.
RaftShutdownUnawaited ==
    /\ phase = "raft"
    /\ phase' = "engine" /\ UNCHANGED <<conn, lifecycle>>

\* Shutdown's future waits for Raft's goroutines: the state machine's ends when
\* its call has returned.
RaftShutdown ==
    /\ phase = "raft" /\ caller["fsm"] = "idle"
    /\ phase' = "engine" /\ UNCHANGED <<conn, lifecycle>>

EngineClose ==
    /\ phase = "engine" /\ Close("main") /\ UNCHANGED <<conn, phase>>

Exits ==
    /\ phase = "engine" /\ caller["main"] = "returned"
    /\ phase' = "stopped" /\ UNCHANGED <<conn, lifecycle>>

Main == Drained \/ RaftShutdown \/ EngineClose \/ Exits

Next ==
    \/ \E h \in Handlers : Handle(h)
    \/ FSMCalls \/ \E c \in DOMAIN caller : ClosingGoesOn(c)
    \/ phase # "stopped" /\ \E w \in Workers : (WorkerWorks(w) \/ WorkerEnds(w))
    \/ Signal \/ Main

Spec == Init /\ [][Next]_vars

\* A request that runs goes on: its call ends with its context.  Calls of Close
\* and Purge go on, and main does.  A closed channel ends the worker's loop.
\* Raft's loop selects among its channels at random and cannot pass over the one
\* that Shutdown has closed for ever.
Fairness ==
    /\ \A h \in Handlers : WF_vars(Running(h) /\ Handle(h))
    /\ \A c \in {"fsm", "main"} : WF_vars(ClosingGoesOn(c))
    /\ \A w \in Workers : WF_vars(WorkerEnds(w))
    /\ WF_vars(Main) /\ SF_vars(RaftShutdown)

FairSpec == Spec /\ Fairness

-----------------------------------------------------------------------------
(* Properties *)

TypeOK ==
    ConnTypeOK /\ LifecycleTypeOK /\ phase \in {"live", "draining", "raft", "engine", "stopped"}

\* The engine has one caller of Close at a time, and main closes it when no
\* request can reach it any more and Raft is done with it.
ClosesAlone == caller["main"] # "idle" => caller["fsm"] = "idle" /\ \A h \in Handlers : ~Running(h)

\* The signal is followed by the end of the process: no request, Purge, worker
\* or connection keeps main waiting, unless a Close has given up before.
ShutdownCompletes == (phase = "draining") ~> (phase = "stopped" \/ botched)
=============================================================================
