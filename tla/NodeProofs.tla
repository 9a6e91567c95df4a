----------------------------- MODULE NodeProofs -----------------------------
(***************************************************************************)
(* Theorems about Node: the connection to the leader, the engine's workers *)
(* and channels, and the order of a shutdown, for any number of requests,  *)
(* addresses and Purges.                                                   *)
(***************************************************************************)
EXTENDS Node, TLAPS

-----------------------------------------------------------------------------
(* The connection to the leader *)

\* What is cached was dialled for the address it is cached under.
CacheMatches ==
    leaderConn # NoConn => leaderAddr \in Addrs /\ conns[leaderConn].addr = leaderAddr

\* A handler that has not dialled has no connection that anybody could use.
Undialled ==
    \A h \in Handlers : handler[h].pc \in {"new", "lookup", "dial"} =>
        conns[h] = [addr |-> Nobody, open |-> FALSE]

\* A handler on its way has the address of a leader, and one that calls has a
\* connection.
Looked ==
    \A h \in Handlers :
        /\ handler[h].pc \in {"lookup", "dial", "calling"} => handler[h].addr \in Addrs
        /\ handler[h].pc = "calling" => handler[h].conn \in Handlers

ConnInv ==
    /\ ConnTypeOK /\ NoConnectionLeak /\ CallsLeaderLookedUp
    /\ CacheMatches /\ Undialled /\ Looked

\* The facts about a connection that nobody has dialled, and a handler's states.
Fresh == [addr |-> Nobody, open |-> FALSE]
HandlerRec == [pc : {"new", "lookup", "dial", "calling", "failed", "done"},
               addr : Addrs \cup {Nobody}, conn : Handlers \cup {NoConn}]

LEMMA ConnInitially == ConnInit => ConnInv
<1> SUFFICES ASSUME ConnInit PROVE ConnInv
  OBVIOUS
<1>1. \A h \in Handlers : handler[h] = NewHandler /\ conns[h] = Fresh
  BY DEF ConnInit, Fresh
<1>2. NewHandler.pc = "new" /\ NewHandler \in HandlerRec
  BY DEF NewHandler, HandlerRec
<1>3. Fresh \in [addr : Addrs \cup {Nobody}, open : BOOLEAN] /\ Fresh.open = FALSE
  BY DEF Fresh
<1>4. ConnTypeOK
  BY <1>2, <1>3 DEF ConnInit, ConnTypeOK, HandlerRec, Fresh
<1>5. NoConnectionLeak /\ CallsLeaderLookedUp /\ CacheMatches /\ Looked
  BY <1>1, <1>2, <1>3 DEF NoConnectionLeak, CallsLeaderLookedUp, CacheMatches, Looked, ConnInit
<1>6. Undialled
  BY <1>1 DEF Undialled, Fresh
<1> QED BY <1>4, <1>5, <1>6 DEF ConnInv

\* A handler moves while no connection comes into use: those there were keep
\* their addresses, and none is opened.
LEMMA MoveKeeps ==
  ASSUME ConnInv, NEW h \in Handlers, NEW r \in HandlerRec,
         handler' = [handler EXCEPT ![h] = r],
         conns' \in [Handlers -> [addr : Addrs \cup {Nobody}, open : BOOLEAN]],
         \A g \in Handlers : conns'[g].addr = conns[g].addr,
         \A g \in Handlers : conns[g] = Fresh => conns'[g] = Fresh,
         \A g \in Handlers : conns'[g].open => leaderConn' = g,
         leaderConn' \in {leaderConn, NoConn},
         leaderConn' = leaderConn => leaderAddr' = leaderAddr,
         leaderAddr' \in {leaderAddr, Nobody},
         r.pc \in {"new", "lookup", "dial"} => conns[h] = Fresh,
         r.pc \in {"lookup", "dial", "calling"} => r.addr \in Addrs,
         r.pc = "calling" => r.conn \in Handlers /\ conns[r.conn].addr = r.addr
  PROVE  ConnInv'
<1>1. handler \in [Handlers -> HandlerRec]
  BY DEF ConnInv, ConnTypeOK, HandlerRec
<1>2. handler' \in [Handlers -> HandlerRec]
  BY <1>1
<1>3. handler'[h] = r /\ \A g \in Handlers \ {h} : handler'[g] = handler[g]
  BY <1>1
<1>4. ConnTypeOK'
  BY <1>2 DEF ConnInv, ConnTypeOK, HandlerRec
<1>5. NoConnectionLeak'
  BY DEF NoConnectionLeak
<1>6. Looked'
  BY <1>3 DEF ConnInv, Looked
<1>7. CallsLeaderLookedUp'
  BY <1>3 DEF ConnInv, CallsLeaderLookedUp, Looked
<1>8. CacheMatches'
  BY DEF ConnInv, CacheMatches, ConnTypeOK
<1>9. Undialled'
  BY <1>3 DEF ConnInv, Undialled, Fresh
<1> QED BY <1>4, <1>5, <1>6, <1>7, <1>8, <1>9 DEF ConnInv

\* A handler moves and the cache and the connections stay.
LEMMA OnlyMoveKeeps ==
  ASSUME ConnInv, NEW h \in Handlers, NEW r \in HandlerRec,
         handler' = [handler EXCEPT ![h] = r],
         UNCHANGED <<leaderConn, leaderAddr, conns>>,
         r.pc \in {"new", "lookup", "dial"} => conns[h] = Fresh,
         r.pc \in {"lookup", "dial", "calling"} => r.addr \in Addrs,
         r.pc = "calling" => r.conn \in Handlers /\ conns[r.conn].addr = r.addr
  PROVE  ConnInv'
<1>1. conns' \in [Handlers -> [addr : Addrs \cup {Nobody}, open : BOOLEAN]]
  BY DEF ConnInv, ConnTypeOK
<1>2. \A g \in Handlers : conns'[g].open => leaderConn' = g
  BY DEF ConnInv, NoConnectionLeak
<1> QED BY <1>1, <1>2, MoveKeeps

\* A handler returns.
LEMMA ReturnsRecord ==
  ASSUME NEW h \in Handlers, Returns(h)
  PROVE  /\ [NewHandler EXCEPT !.pc = "done"] \in HandlerRec
         /\ [NewHandler EXCEPT !.pc = "done"].pc = "done"
  BY DEF NewHandler, HandlerRec

\* The record of a connection that is closed.
LEMMA ShutRecord ==
  ASSUME NEW a \in Addrs \cup {Nobody}
  PROVE  /\ [addr |-> a, open |-> FALSE] \in [addr : Addrs \cup {Nobody}, open : BOOLEAN]
         /\ [addr |-> a, open |-> FALSE].addr = a
         /\ ~[addr |-> a, open |-> FALSE].open
  OBVIOUS

\* When the cached connection is closed none is open, and what nobody has
\* dialled is as it was.
LEMMA ClosedFacts ==
  ASSUME ConnInv
  PROVE  /\ Closed(leaderConn) \in [Handlers -> [addr : Addrs \cup {Nobody}, open : BOOLEAN]]
         /\ \A g \in Handlers : Closed(leaderConn)[g].addr = conns[g].addr /\ ~Closed(leaderConn)[g].open
         /\ \A g \in Handlers : conns[g] = Fresh => Closed(leaderConn)[g] = Fresh
<1>1. \A g \in Handlers : conns[g] \in [addr : Addrs \cup {Nobody}, open : BOOLEAN]
  BY DEF ConnInv, ConnTypeOK
<1>2. ASSUME NEW g \in Handlers
      PROVE  Closed(leaderConn)[g] = [addr |-> conns[g].addr, open |-> FALSE]
  <2>1. CASE g = leaderConn
    BY <1>1, <2>1 DEF Closed
  <2>2. CASE g # leaderConn
    <3>1. conns[g].open = FALSE
      BY <1>1, <2>2 DEF ConnInv, NoConnectionLeak
    <3> QED BY <1>1, <2>2, <3>1 DEF Closed
  <2> QED BY <2>1, <2>2
<1>3. Closed(leaderConn) = [g \in Handlers |-> Closed(leaderConn)[g]]
  BY DEF Closed
<1>4. Closed(leaderConn) \in [Handlers -> [addr : Addrs \cup {Nobody}, open : BOOLEAN]]
  <2>1. ASSUME NEW g \in Handlers
        PROVE  Closed(leaderConn)[g] \in [addr : Addrs \cup {Nobody}, open : BOOLEAN]
    <3>1. conns[g].addr \in Addrs \cup {Nobody}
      BY <1>1
    <3> QED BY <1>2, <3>1, ShutRecord
  <2> QED BY <1>3, <2>1
<1>5. ASSUME NEW g \in Handlers
      PROVE  Closed(leaderConn)[g].addr = conns[g].addr /\ ~Closed(leaderConn)[g].open
  <2>1. conns[g].addr \in Addrs \cup {Nobody}
    BY <1>1
  <2> QED BY <1>2, <2>1, ShutRecord
<1>6. \A g \in Handlers : conns[g] = Fresh => Closed(leaderConn)[g] = Fresh
  BY <1>2 DEF Fresh
<1> QED BY <1>4, <1>5, <1>6

-----------------------------------------------------------------------------
(* The steps of a request, and KVServer.Close *)

LEMMA LookupKeeps == ASSUME NEW h \in Handlers, ConnInv, Lookup(h) PROVE ConnInv'
<1>1. UNCHANGED <<leaderConn, leaderAddr, conns>> /\ conns[h] = Fresh
  BY DEF Lookup, ConnInv, Undialled, Fresh
<1>2. CASE Returns(h)
  BY <1>1, <1>2, ReturnsRecord, OnlyMoveKeeps DEF Returns
<1>3. ASSUME NEW a \in Addrs,
             handler' = [handler EXCEPT ![h] = [NewHandler EXCEPT !.pc = "lookup", !.addr = a]]
      PROVE  ConnInv'
  <2> DEFINE r == [NewHandler EXCEPT !.pc = "lookup", !.addr = a]
  <2>1. r \in HandlerRec /\ r.pc = "lookup" /\ r.addr = a
    BY DEF NewHandler, HandlerRec
  <2> HIDE DEF r
  <2>2. handler' = [handler EXCEPT ![h] = r]
    BY <1>3 DEF r
  <2> QED BY <1>1, <2>1, <2>2, OnlyMoveKeeps
<1> QED BY <1>2, <1>3 DEF Lookup

\* A handler takes the cached connection.
LEMMA TakeCachedKeeps ==
  ASSUME ConnInv, NEW h \in Handlers, Cached(h), handler[h].pc \in {"lookup", "dial"},
         Calls(h, leaderConn),
         UNCHANGED <<leaderConn, leaderAddr, conns>>
  PROVE  ConnInv'
<1> DEFINE r == [pc |-> "calling", addr |-> handler[h].addr, conn |-> leaderConn]
<1>1. handler[h] \in HandlerRec /\ leaderConn \in Handlers
  BY DEF ConnInv, ConnTypeOK, HandlerRec, Cached
<1>2. r \in HandlerRec
  BY <1>1 DEF HandlerRec
<1>3. handler' = [handler EXCEPT ![h] = r]
  BY DEF Calls
<1>4. r.addr \in Addrs /\ conns[r.conn].addr = r.addr
  BY <1>1 DEF ConnInv, Looked, CacheMatches, Cached
<1>5. r.pc = "calling" /\ r.conn \in Handlers
  BY <1>1
<1> HIDE DEF r
<1> QED BY <1>2, <1>3, <1>4, <1>5, OnlyMoveKeeps

LEMMA ReadCacheKeeps == ASSUME NEW h \in Handlers, ConnInv, ReadCache(h) PROVE ConnInv'
<1>1. CASE Cached(h)
  BY <1>1, TakeCachedKeeps DEF ReadCache
<1>2. CASE ~Cached(h)
  <2> DEFINE r == [handler[h] EXCEPT !.pc = "dial"]
  <2>1. handler[h] \in HandlerRec /\ handler[h].addr \in Addrs /\ conns[h] = Fresh
    BY DEF ConnInv, ConnTypeOK, HandlerRec, Looked, ReadCache, Undialled, Fresh
  <2>2. r \in HandlerRec /\ r.pc = "dial" /\ r.addr = handler[h].addr
    BY <2>1 DEF HandlerRec
  <2>3. handler' = [handler EXCEPT ![h] = r] /\ UNCHANGED <<leaderConn, leaderAddr, conns>>
    BY <1>2 DEF ReadCache
  <2> HIDE DEF r
  <2> QED BY <2>1, <2>2, <2>3, OnlyMoveKeeps
<1> QED BY <1>1, <1>2

LEMMA CallReturnsKeeps == ASSUME NEW h \in Handlers, ConnInv, CallReturns(h) PROVE ConnInv'
<1>1. UNCHANGED <<leaderConn, leaderAddr, conns>>
  BY DEF CallReturns
<1>2. CASE Returns(h)
  BY <1>1, <1>2, ReturnsRecord, OnlyMoveKeeps DEF Returns
<1>3. CASE handler' = [handler EXCEPT ![h].pc = "failed"]
  <2> DEFINE r == [handler[h] EXCEPT !.pc = "failed"]
  <2>1. handler[h] \in HandlerRec
    BY DEF ConnInv, ConnTypeOK, HandlerRec
  <2>2. r \in HandlerRec /\ r.pc = "failed"
    BY <2>1 DEF HandlerRec
  <2>3. handler' = [handler EXCEPT ![h] = r]
    BY <1>3
  <2> HIDE DEF r
  <2> QED BY <1>1, <2>2, <2>3, OnlyMoveKeeps
<1> QED BY <1>2, <1>3 DEF CallReturns

LEMMA InvalidateKeeps == ASSUME NEW h \in Handlers, ConnInv, InvalidateLeader(h) PROVE ConnInv'
<1> DEFINE r == [NewHandler EXCEPT !.pc = "done"]
<1>1. r \in HandlerRec /\ r.pc = "done" /\ handler' = [handler EXCEPT ![h] = r]
  BY ReturnsRecord DEF InvalidateLeader, Returns
<1>2. conns' = Closed(leaderConn) /\ leaderConn' = NoConn
  BY DEF InvalidateLeader
<1>3. leaderAddr' \in {leaderAddr, Nobody} /\ (leaderConn' = leaderConn => leaderAddr' = leaderAddr)
  BY DEF InvalidateLeader
<1> HIDE DEF r
<1> QED BY <1>1, <1>2, <1>3, ClosedFacts, MoveKeeps

LEMMA ServerCloseKeeps == ASSUME ConnInv, ServerClose PROVE ConnInv'
<1>1. conns' = Closed(leaderConn) /\ UNCHANGED <<leaderConn, leaderAddr, handler>>
  BY DEF ServerClose
<1>2. ConnTypeOK'
  BY <1>1, ClosedFacts DEF ConnInv, ConnTypeOK
<1>3. NoConnectionLeak' /\ CallsLeaderLookedUp' /\ CacheMatches' /\ Looked'
  BY <1>1, ClosedFacts
  DEF ConnInv, ConnTypeOK, NoConnectionLeak, CallsLeaderLookedUp, CacheMatches, Looked
<1>4. Undialled'
  BY <1>1, ClosedFacts DEF ConnInv, Undialled, Fresh
<1> QED BY <1>2, <1>3, <1>4 DEF ConnInv

\* The dialled connection is new: no other request had it.
LEMMA NewConnKeeps ==
  ASSUME NEW h \in Handlers, ConnInv, handler[h].pc = "dial",
         conns' = [Closed(leaderConn) EXCEPT ![h] = [addr |-> handler[h].addr, open |-> TRUE]],
         leaderConn' = h, leaderAddr' = handler[h].addr,
         Calls(h, h)
  PROVE  ConnInv'
<1> DEFINE a == handler[h].addr
           r == [pc |-> "calling", addr |-> a, conn |-> h]
           d == [addr |-> a, open |-> TRUE]
<1>1. handler \in [Handlers -> HandlerRec] /\ a \in Addrs
  BY DEF ConnInv, ConnTypeOK, HandlerRec, Looked
<1>2. r \in HandlerRec /\ handler' = [handler EXCEPT ![h] = r]
  BY <1>1 DEF HandlerRec, Calls
<1>3. d \in [addr : Addrs \cup {Nobody}, open : BOOLEAN]
  BY <1>1
<1>4. conns' \in [Handlers -> [addr : Addrs \cup {Nobody}, open : BOOLEAN]]
  BY <1>3, ClosedFacts
<1>5. /\ conns'[h] = d
      /\ \A g \in Handlers \ {h} : conns'[g] = Closed(leaderConn)[g]
  BY ClosedFacts
<1>6. /\ handler' \in [Handlers -> HandlerRec] /\ handler'[h] = r
      /\ \A g \in Handlers \ {h} : handler'[g] = handler[g]
  BY <1>1, <1>2
<1>7. \A g \in Handlers \ {h} : conns'[g].addr = conns[g].addr /\ ~conns'[g].open
  BY <1>5, ClosedFacts
<1>8. d.addr = a /\ d.open /\ r.pc = "calling" /\ r.addr = a /\ r.conn = h
  OBVIOUS
<1> HIDE DEF r, d
<1>9. conns[h].addr = Nobody
  BY DEF ConnInv, Undialled
<1>10. ConnTypeOK'
  BY <1>1, <1>4, <1>6 DEF ConnTypeOK, HandlerRec
<1>11. NoConnectionLeak'
  BY <1>7 DEF NoConnectionLeak
<1>12. CacheMatches'
  BY <1>1, <1>5, <1>8 DEF CacheMatches
<1>13. Looked'
  BY <1>1, <1>6, <1>8 DEF Looked, ConnInv
<1>14. CallsLeaderLookedUp'
  <2> SUFFICES ASSUME NEW g \in Handlers, handler'[g].pc = "calling"
               PROVE  conns'[handler'[g].conn].addr = handler'[g].addr
    BY DEF CallsLeaderLookedUp
  <2>1. CASE g = h
    BY <2>1, <1>5, <1>6, <1>8
  <2>2. CASE g # h
    <3>1. handler[g].addr \in Addrs /\ handler[g].conn \in Handlers
          /\ conns[handler[g].conn].addr = handler[g].addr
      BY <2>2, <1>6 DEF ConnInv, Looked, CallsLeaderLookedUp
    <3>2. handler[g].conn # h
      BY <3>1, <1>9, ConnAssumption
    <3> QED BY <2>2, <3>1, <3>2, <1>6, <1>7
  <2> QED BY <2>1, <2>2
<1>15. Undialled'
  BY <1>5, <1>6, <1>8, ClosedFacts DEF ConnInv, Undialled, Fresh
<1> QED BY <1>10, <1>11, <1>12, <1>13, <1>14, <1>15 DEF ConnInv

LEMMA DialKeeps == ASSUME NEW h \in Handlers, ConnInv, Dial(h) PROVE ConnInv'
<1>1. CASE /\ Cached(h)
           /\ Calls(h, leaderConn)
           /\ UNCHANGED <<leaderConn, leaderAddr, conns>>
  BY <1>1, TakeCachedKeeps DEF Dial
<1>2. CASE /\ conns' = [Closed(leaderConn) EXCEPT ![h] = [addr |-> handler[h].addr, open |-> TRUE]]
           /\ leaderConn' = h /\ leaderAddr' = handler[h].addr
           /\ Calls(h, h)
  BY <1>2, NewConnKeeps DEF Dial
<1>3. CASE /\ conns' = Closed(leaderConn) /\ Returns(h)
           /\ UNCHANGED <<leaderConn, leaderAddr>>
  <2> DEFINE r == [NewHandler EXCEPT !.pc = "done"]
  <2>1. r \in HandlerRec /\ r.pc = "done" /\ handler' = [handler EXCEPT ![h] = r]
    BY <1>3, ReturnsRecord DEF Returns
  <2> HIDE DEF r
  <2> QED BY <1>3, <2>1, ClosedFacts, MoveKeeps
<1> QED BY <1>1, <1>2, <1>3 DEF Dial

LEMMA RequestKeeps == ASSUME NEW h \in Handlers, ConnInv, Request(h) PROVE ConnInv'
  BY LookupKeeps, ReadCacheKeeps, DialKeeps, CallReturnsKeeps, InvalidateKeeps DEF Request

LEMMA ConnStutter == ASSUME ConnInv, UNCHANGED conn PROVE ConnInv'
  BY DEF conn, ConnInv, ConnTypeOK, NoConnectionLeak, CallsLeaderLookedUp, CacheMatches,
         Undialled, Looked

-----------------------------------------------------------------------------
(* The engine's channels and workers *)

Callers == {"fsm", "main"}

\* The engine stays closed while a call of Close or Purge is under way.
FlagHeld == \A c \in Callers : caller[c] \in {"flush", "wait", "files"} => closed

\* An engine that is closed, and that nobody is closing, has no worker.
NoWorkerWhenClosed ==
    ~botched /\ closed /\ (\A c \in Callers : caller[c] \notin {"flush", "wait"}) => Live = {}

LifeInv ==
    /\ LifecycleTypeOK /\ ChannelsOpen /\ WorkersMatch
    /\ FlagHeld /\ NoWorkerWhenClosed

\* What main's order of calls guarantees the engine.
OneCaller == caller["main"] = "idle" \/ caller["fsm"] = "idle"

LEMMA GenerationFacts ==
  /\ Generations \subseteq Nat \ {0} /\ 1 \in Generations
  /\ Workers = {"flush", "compact"} \X Generations
  BY LifecycleAssumption DEF Generations, Workers

LEMMA LifeInitially == LifecycleInit => LifeInv
<1> SUFFICES ASSUME LifecycleInit PROVE LifeInv
  OBVIOUS
<1>1. \A w \in Workers : worker[w] = IF w[2] = 1 THEN 1 ELSE 0
  BY DEF LifecycleInit, Started
<1>2. worker \in [Workers -> 0 .. MaxGen]
  BY <1>1, LifecycleAssumption DEF LifecycleInit, Started
<1>3. LifecycleTypeOK
  BY <1>2, GenerationFacts DEF LifecycleInit, LifecycleTypeOK
<1>4. Live = {"flush", "compact"} \X {1}
  BY <1>1, GenerationFacts DEF Live
<1>5. ChannelsOpen /\ FlagHeld /\ NoWorkerWhenClosed
  BY DEF LifecycleInit, ChannelsOpen, FlagHeld, NoWorkerWhenClosed, Callers
<1>6. WorkersMatch
  BY <1>1, <1>4 DEF LifecycleInit, WorkersMatch, Live
<1> QED BY <1>3, <1>5, <1>6 DEF LifeInv

\* A step of a caller: what it does to caller.
LEMMA AtFacts ==
  ASSUME LifecycleTypeOK, NEW c \in Callers,
         NEW pc \in {"idle", "flush", "wait", "files", "returned"}, At(c, pc)
  PROVE  /\ caller' \in [Callers -> {"idle", "flush", "wait", "files", "returned"}]
         /\ caller'[c] = pc
         /\ \A d \in Callers \ {c} : caller'[d] = caller[d]
  BY DEF LifecycleTypeOK, Callers, At

\* The workers do not change: neither does what is said of them.
LEMMA WorkersStay ==
  ASSUME LifeInv, UNCHANGED <<worker, gen>>, botched' = FALSE => botched = FALSE,
         botched \in BOOLEAN, botched' \in BOOLEAN, ~closed' => ~closed
  PROVE  WorkersMatch' /\ Live' = Live
<1>1. Live' = Live
  BY DEF Live
<1> QED BY <1>1 DEF LifeInv, WorkersMatch

LEMMA SignalFlushKeeps == ASSUME LifeInv, SignalFlush PROVE LifeInv'
<1>1. UNCHANGED <<closed, gen, open, worker, caller, botched>> /\ gen \in open
  BY DEF SignalFlush, LifeInv, ChannelsOpen
<1>2. LifecycleTypeOK'
  BY <1>1 DEF SignalFlush, LifeInv, LifecycleTypeOK
<1>3. WorkersMatch' /\ Live' = Live
  BY <1>1, WorkersStay DEF LifeInv, LifecycleTypeOK
<1>4. ChannelsOpen' /\ FlagHeld' /\ NoWorkerWhenClosed'
  BY <1>1, <1>3 DEF LifeInv, ChannelsOpen, FlagHeld, NoWorkerWhenClosed
<1> QED BY <1>2, <1>3, <1>4 DEF LifeInv

LEMMA CloseKeeps == ASSUME LifeInv, NEW c \in Callers, Close(c) PROVE LifeInv'
<1> DEFINE pc == IF ~closed THEN "flush" ELSE IF c = "fsm" THEN "files" ELSE "returned"
<1>1. UNCHANGED <<gen, open, signals, worker, botched>> /\ closed' = TRUE
  BY DEF Close
<1>2. pc \in {"idle", "flush", "wait", "files", "returned"} /\ At(c, pc) /\ caller[c] = "idle"
  BY DEF Close, LifeInv, LifecycleTypeOK
<1>3. LifecycleTypeOK
  BY DEF LifeInv
<1>4. /\ caller' \in [Callers -> {"idle", "flush", "wait", "files", "returned"}]
      /\ caller'[c] = pc
      /\ \A d \in Callers \ {c} : caller'[d] = caller[d]
  BY <1>2, <1>3, AtFacts
<1>5. LifecycleTypeOK'
  BY <1>1, <1>3, <1>4 DEF LifecycleTypeOK, Callers
<1>6. WorkersMatch' /\ Live' = Live
  BY <1>1, <1>3, WorkersStay DEF LifecycleTypeOK
<1>7. ChannelsOpen'
  <2> SUFFICES ASSUME NEW d \in Callers, caller'[d] = "flush" PROVE gen \in open
    BY <1>1, <1>4 DEF ChannelsOpen
  <2>1. CASE d = c
    BY <2>1, <1>4 DEF LifeInv, ChannelsOpen
  <2>2. CASE d # c
    BY <2>2, <1>3, <1>4 DEF LifeInv, ChannelsOpen, LifecycleTypeOK, Callers
  <2> QED BY <2>1, <2>2
<1>8. FlagHeld'
  BY <1>1 DEF FlagHeld
<1>9. NoWorkerWhenClosed'
  <2> SUFFICES ASSUME ~botched, \A d \in Callers : caller'[d] \notin {"flush", "wait"}
               PROVE  Live = {}
    BY <1>1, <1>6 DEF NoWorkerWhenClosed
  <2>1. closed
    BY <1>4
  <2>2. \A d \in Callers : caller[d] \notin {"flush", "wait"}
    BY <1>2, <1>4
  <2> QED BY <2>1, <2>2 DEF LifeInv, NoWorkerWhenClosed
<1> QED BY <1>5, <1>6, <1>7, <1>8, <1>9 DEF LifeInv

LEMMA CloseFlushKeeps == ASSUME LifeInv, OneCaller, NEW c \in Callers, CloseFlush(c) PROVE LifeInv'
<1>1. UNCHANGED <<closed, gen, worker>> /\ caller[c] = "flush" /\ closed
  BY DEF CloseFlush, LifeInv, FlagHeld
<1>2. LifecycleTypeOK
  BY DEF LifeInv
<1>3. \A d \in Callers \ {c} : caller[d] = "idle"
  BY <1>1 DEF OneCaller, Callers
<1>4. CASE /\ signals' = signals \ {gen} /\ open' = open \ {gen}
           /\ At(c, "wait") /\ UNCHANGED botched
  <2>1. /\ caller' \in [Callers -> {"idle", "flush", "wait", "files", "returned"}]
        /\ caller'[c] = "wait" /\ \A d \in Callers \ {c} : caller'[d] = "idle"
    BY <1>2, <1>3, <1>4, AtFacts
  <2>2. LifecycleTypeOK'
    BY <1>1, <1>2, <1>4, <2>1 DEF LifecycleTypeOK, Callers
  <2>3. WorkersMatch'
    BY <1>1, <1>2, <1>4, WorkersStay DEF LifecycleTypeOK
  <2>4. ChannelsOpen' /\ FlagHeld' /\ NoWorkerWhenClosed'
    BY <1>1, <2>1 DEF ChannelsOpen, FlagHeld, NoWorkerWhenClosed, Callers
  <2> QED BY <2>2, <2>3, <2>4 DEF LifeInv
<1>5. CASE /\ botched' = TRUE /\ At(c, IF c = "fsm" THEN "idle" ELSE "returned")
           /\ UNCHANGED <<signals, open>>
  <2>1. /\ caller' \in [Callers -> {"idle", "flush", "wait", "files", "returned"}]
        /\ caller'[c] \in {"idle", "returned"} /\ \A d \in Callers \ {c} : caller'[d] = "idle"
    BY <1>2, <1>3, <1>5, AtFacts
  <2>2. LifecycleTypeOK'
    BY <1>1, <1>2, <1>5, <2>1 DEF LifecycleTypeOK, Callers
  <2>3. WorkersMatch' /\ NoWorkerWhenClosed'
    BY <1>5 DEF WorkersMatch, NoWorkerWhenClosed
  <2>4. ChannelsOpen' /\ FlagHeld'
    BY <1>1, <2>1 DEF ChannelsOpen, FlagHeld, Callers
  <2> QED BY <2>2, <2>3, <2>4 DEF LifeInv
<1> QED BY <1>4, <1>5 DEF CloseFlush

LEMMA CloseWaitKeeps == ASSUME LifeInv, NEW c \in Callers, CloseWait(c) PROVE LifeInv'
<1> DEFINE pc == IF c = "fsm" THEN "files" ELSE "returned"
<1>1. UNCHANGED <<closed, gen, open, signals, worker, botched>> /\ Live = {} /\ At(c, pc) /\ closed
  BY DEF CloseWait, LifeInv, FlagHeld
<1>2. LifecycleTypeOK
  BY DEF LifeInv
<1>3. /\ caller' \in [Callers -> {"idle", "flush", "wait", "files", "returned"}]
      /\ caller'[c] \in {"files", "returned"} /\ \A d \in Callers \ {c} : caller'[d] = caller[d]
  BY <1>1, <1>2, AtFacts
<1>4. LifecycleTypeOK'
  BY <1>1, <1>2, <1>3 DEF LifecycleTypeOK, Callers
<1>5. WorkersMatch' /\ Live' = Live
  BY <1>1, <1>2, WorkersStay DEF LifecycleTypeOK
<1>6. ChannelsOpen'
  <2> SUFFICES ASSUME NEW d \in Callers, caller'[d] = "flush" PROVE gen \in open
    BY <1>1, <1>3 DEF ChannelsOpen
  <2> QED BY <1>2, <1>3 DEF LifeInv, ChannelsOpen, LifecycleTypeOK, Callers
<1>7. FlagHeld' /\ NoWorkerWhenClosed'
  BY <1>1, <1>5 DEF FlagHeld, NoWorkerWhenClosed
<1> QED BY <1>4, <1>5, <1>6, <1>7 DEF LifeInv

\* Purge starts a new generation on an engine without workers, unless a Close
\* has given up; nobody else is in Close meanwhile.
LEMMA ReopenKeeps == ASSUME LifeInv, OneCaller, Reopen PROVE LifeInv'
<1>1. caller["fsm"] = "files" /\ At("fsm", "idle") /\ UNCHANGED <<signals, botched>> /\ closed
  BY DEF Reopen, LifeInv, FlagHeld, Callers
<1>2. LifecycleTypeOK /\ "fsm" \in Callers
  BY DEF LifeInv, Callers
<1>3. caller["main"] = "idle"
  BY <1>1 DEF OneCaller
<1>4. /\ caller' \in [Callers -> {"idle", "flush", "wait", "files", "returned"}]
      /\ \A d \in Callers : caller'[d] = "idle"
  BY <1>1, <1>2, <1>3, AtFacts DEF Callers
<1>5. ~botched => Live = {}
  BY <1>1, <1>3 DEF LifeInv, NoWorkerWhenClosed, Callers
<1>6. FlagHeld'
  BY <1>4 DEF FlagHeld
<1>7. CASE UNCHANGED <<gen, open, closed, worker>>
  <2>1. LifecycleTypeOK'
    BY <1>1, <1>2, <1>4, <1>7 DEF LifecycleTypeOK, Callers
  <2>2. WorkersMatch' /\ Live' = Live
    BY <1>1, <1>2, <1>7, WorkersStay DEF LifecycleTypeOK
  <2>3. ChannelsOpen' /\ NoWorkerWhenClosed'
    BY <1>1, <1>4, <1>5, <1>7, <2>2 DEF ChannelsOpen, NoWorkerWhenClosed
  <2> QED BY <1>6, <2>1, <2>2, <2>3 DEF LifeInv
<1>8. CASE /\ gen < MaxGen
           /\ gen' = gen + 1 /\ open' = open \cup {gen + 1} /\ closed' = FALSE
           /\ worker' = Started(worker, gen + 1)
  <2>1. gen + 1 \in Generations /\ gen' \in 0 .. MaxGen /\ gen' # 0
    BY <1>2, <1>8, LifecycleAssumption DEF LifecycleTypeOK, Generations
  <2>2. \A w \in Workers : worker'[w] = IF w[2] = gen' THEN gen' ELSE worker[w]
    BY <1>8 DEF Started
  <2>3. worker' \in [Workers -> 0 .. MaxGen]
    <3>1. \A w \in Workers : worker'[w] \in 0 .. MaxGen
      BY <1>2, <2>1, <2>2 DEF LifecycleTypeOK
    <3> QED BY <1>8, <3>1 DEF Started
  <2>4. LifecycleTypeOK'
    BY <1>1, <1>2, <1>4, <1>8, <2>1, <2>3 DEF LifecycleTypeOK, Callers
  <2>5. ASSUME ~botched
        PROVE  /\ Live' = {"flush", "compact"} \X {gen'}
               /\ \A w \in Live' : worker'[w] = gen'
    <3>1. \A w \in Workers : worker[w] = 0
      BY <1>5, <2>5 DEF Live
    <3>2. \A w \in Workers : worker'[w] # 0 <=> w[2] = gen'
      BY <2>1, <2>2, <3>1
    <3>3. Live' = {w \in Workers : w[2] = gen'}
      BY <3>2 DEF Live
    <3>4. gen' \in Generations
      BY <1>8, <2>1
    <3>5. {w \in Workers : w[2] = gen'} = {"flush", "compact"} \X {gen'}
      BY <3>4 DEF Workers
    <3>6. \A w \in Live' : worker'[w] = gen'
      BY <2>2, <3>3
    <3> QED BY <3>3, <3>5, <3>6
  <2>6. WorkersMatch'
    BY <1>1, <2>5 DEF WorkersMatch
  <2>7. ChannelsOpen' /\ NoWorkerWhenClosed'
    BY <1>8 DEF ChannelsOpen, NoWorkerWhenClosed
  <2> QED BY <1>6, <2>4, <2>6, <2>7 DEF LifeInv
<1> QED BY <1>7, <1>8 DEF Reopen

LEMMA FlushWorkKeeps == ASSUME LifeInv, NEW w \in Workers, FlushWork(w) PROVE LifeInv'
<1>1. UNCHANGED <<closed, gen, open, worker, caller, botched>> /\ signals' \subseteq signals
  BY DEF FlushWork
<1>2. LifecycleTypeOK'
  BY <1>1 DEF LifeInv, LifecycleTypeOK
<1>3. WorkersMatch' /\ Live' = Live
  BY <1>1, WorkersStay DEF LifeInv, LifecycleTypeOK
<1>4. ChannelsOpen' /\ FlagHeld' /\ NoWorkerWhenClosed'
  BY <1>1, <1>3 DEF LifeInv, ChannelsOpen, FlagHeld, NoWorkerWhenClosed
<1> QED BY <1>2, <1>3, <1>4 DEF LifeInv

LEMMA CompactWorkKeeps == ASSUME LifeInv, NEW w \in Workers, CompactWork(w) PROVE LifeInv'
<1>1. /\ UNCHANGED <<closed, gen, open, signals, caller, botched>> /\ worker[w] # 0
      /\ worker' = [worker EXCEPT ![w] = gen]
  BY DEF CompactWork
<1>2. LifecycleTypeOK /\ gen \in 0 .. MaxGen /\ gen # 0
  BY LifecycleAssumption DEF LifeInv, LifecycleTypeOK, Generations
<1>3. /\ worker' \in [Workers -> 0 .. MaxGen]
      /\ worker'[w] = gen /\ \A v \in Workers \ {w} : worker'[v] = worker[v]
  BY <1>1, <1>2 DEF LifecycleTypeOK
<1>4. LifecycleTypeOK'
  BY <1>1, <1>2, <1>3 DEF LifecycleTypeOK
<1>5. Live' = Live
  BY <1>1, <1>2, <1>3 DEF Live
<1>6. ~botched => \A v \in Live : worker'[v] = gen
  BY <1>3 DEF LifeInv, WorkersMatch, Live
<1>7. WorkersMatch'
  BY <1>1, <1>5, <1>6 DEF LifeInv, WorkersMatch
<1>8. ChannelsOpen' /\ FlagHeld' /\ NoWorkerWhenClosed'
  BY <1>1, <1>5 DEF LifeInv, ChannelsOpen, FlagHeld, NoWorkerWhenClosed
<1> QED BY <1>4, <1>7, <1>8 DEF LifeInv

\* A worker of an engine that is open listens on an open channel, and stays.
LEMMA ExitKeeps == ASSUME LifeInv, NEW w \in Workers, Exit(w) PROVE LifeInv'
<1>1. /\ UNCHANGED <<closed, gen, open, signals, caller, botched>>
      /\ worker[w] # 0 /\ worker[w] \notin open /\ worker' = [worker EXCEPT ![w] = 0]
  BY DEF Exit
<1>2. LifecycleTypeOK /\ 0 \in 0 .. MaxGen
  BY LifecycleAssumption DEF LifeInv
<1>3. /\ worker' \in [Workers -> 0 .. MaxGen]
      /\ worker'[w] = 0 /\ \A v \in Workers \ {w} : worker'[v] = worker[v]
  BY <1>1, <1>2 DEF LifecycleTypeOK
<1>4. LifecycleTypeOK'
  BY <1>1, <1>2, <1>3 DEF LifecycleTypeOK
<1>5. Live' = Live \ {w}
  BY <1>3 DEF Live
<1>6. ~botched => closed
  BY <1>1, <1>2 DEF LifeInv, WorkersMatch, ChannelsOpen, Live, LifecycleTypeOK
<1>7. ~botched => \A v \in Live' : worker'[v] = gen
  BY <1>3, <1>5 DEF LifeInv, WorkersMatch, Live
<1>8. ~botched => Live' \subseteq {"flush", "compact"} \X {gen}
  BY <1>5 DEF LifeInv, WorkersMatch
<1>9. WorkersMatch'
  BY <1>1, <1>6, <1>7, <1>8 DEF WorkersMatch
<1>10. ChannelsOpen' /\ FlagHeld' /\ NoWorkerWhenClosed'
  BY <1>1, <1>5 DEF LifeInv, ChannelsOpen, FlagHeld, NoWorkerWhenClosed
<1> QED BY <1>4, <1>9, <1>10 DEF LifeInv

LEMMA LifeStutter == ASSUME LifeInv, UNCHANGED lifecycle PROVE LifeInv'
<1>1. UNCHANGED <<closed, gen, open, signals, worker, caller, botched>>
  BY DEF lifecycle
<1>2. WorkersMatch' /\ Live' = Live
  BY <1>1, WorkersStay DEF LifeInv, LifecycleTypeOK
<1> QED BY <1>1, <1>2 DEF LifeInv, LifecycleTypeOK, ChannelsOpen, FlagHeld, NoWorkerWhenClosed

-----------------------------------------------------------------------------
(* The process *)

\* How far main is bounds what the rest of the process may still be doing.
PhaseInv ==
    /\ phase \in {"live", "draining", "raft", "engine", "stopped"}
    /\ phase \in {"raft", "engine", "stopped"} => \A h \in Handlers : ~Running(h)
    /\ phase \in {"engine", "stopped"} => caller["fsm"] = "idle"
    /\ caller["main"] # "idle" => phase \in {"engine", "stopped"}

NodeInv == ConnInv /\ LifeInv /\ PhaseInv

LEMMA PhaseImpliesOneCaller == PhaseInv => OneCaller
  BY DEF PhaseInv, OneCaller

\* A request that does not run, and finds the server drained, never will.
LEMMA HandleKeeps == ASSUME NodeInv, NEW h \in Handlers, Handle(h) PROVE NodeInv'
<1>1. Request(h) /\ UNCHANGED lifecycle /\ UNCHANGED phase
  BY DEF Handle
<1>2. ConnInv' /\ LifeInv'
  BY <1>1, RequestKeeps, LifeStutter DEF NodeInv
<1>3. phase \notin {"raft", "engine", "stopped"}
  <2>1. handler[h].pc # "done"
    BY <1>1 DEF Request, Lookup, ReadCache, Dial, CallReturns, InvalidateLeader
  <2>2. CASE handler[h].pc = "new"
    BY <2>2 DEF Handle
  <2>3. CASE Running(h)
    BY <2>3 DEF NodeInv, PhaseInv
  <2> QED BY <2>1, <2>2, <2>3 DEF Running
<1>4. PhaseInv'
  BY <1>1, <1>3 DEF NodeInv, PhaseInv, lifecycle
<1> QED BY <1>2, <1>4 DEF NodeInv

\* A step of the engine's callers or workers.
LEMMA EngineStepKeeps ==
  ASSUME NodeInv, LifeInv', UNCHANGED <<conn, phase>>,
         phase \in {"engine", "stopped"} => caller'["fsm"] = "idle",
         caller'["main"] # "idle" => phase \in {"engine", "stopped"}
  PROVE  NodeInv'
<1>1. ConnInv'
  BY ConnStutter DEF NodeInv
<1>2. handler' = handler
  BY DEF conn
<1>3. PhaseInv'
  BY <1>2 DEF NodeInv, PhaseInv, Running
<1> QED BY <1>1, <1>3 DEF NodeInv

LEMMA FSMCallsKeeps == ASSUME NodeInv, FSMCalls PROVE NodeInv'
<1>1. phase \in {"live", "draining", "raft"} /\ UNCHANGED <<conn, phase>> /\ caller["main"] = "idle"
  BY DEF FSMCalls, NodeInv, PhaseInv
<1>2. CASE Close("fsm")
  <2>1. LifeInv'
    BY <1>2, CloseKeeps DEF NodeInv, Callers
  <2>2. caller'["main"] = caller["main"]
    BY <1>2 DEF Close, At, NodeInv, LifeInv, LifecycleTypeOK
  <2> QED BY <1>1, <2>1, <2>2, EngineStepKeeps
<1>3. CASE SignalFlush
  <2>1. LifeInv' /\ caller' = caller
    BY <1>3, SignalFlushKeeps DEF NodeInv, SignalFlush
  <2> QED BY <1>1, <2>1, EngineStepKeeps
<1> QED BY <1>2, <1>3 DEF FSMCalls

LEMMA ClosingKeeps == ASSUME NodeInv, NEW c \in Callers, ClosingGoesOn(c) PROVE NodeInv'
<1>1. Closing(c) /\ UNCHANGED <<conn, phase>>
  BY DEF ClosingGoesOn
<1>2. caller[c] # "idle"
  BY <1>1 DEF Closing, CloseFlush, CloseWait, Reopen
<1>3. OneCaller
  BY PhaseImpliesOneCaller DEF NodeInv
<1>4. LifeInv'
  BY <1>1, <1>3, CloseFlushKeeps, CloseWaitKeeps, ReopenKeeps DEF Closing, NodeInv
<1>5. \A d \in Callers \ {c} : caller'[d] = caller[d]
  BY <1>1 DEF Closing, CloseFlush, CloseWait, Reopen, At, NodeInv, LifeInv, LifecycleTypeOK, Callers
<1>6. CASE c = "fsm"
  BY <1>1, <1>2, <1>4, <1>5, <1>6, EngineStepKeeps DEF NodeInv, PhaseInv, Callers
<1>7. CASE c = "main"
  BY <1>1, <1>2, <1>4, <1>5, <1>7, EngineStepKeeps DEF NodeInv, PhaseInv, Callers
<1> QED BY <1>6, <1>7 DEF Callers

LEMMA WorkerKeeps ==
  ASSUME NodeInv, NEW w \in Workers, WorkerWorks(w) \/ WorkerEnds(w)
  PROVE  NodeInv'
<1>1. UNCHANGED <<conn, phase>> /\ (FlushWork(w) \/ CompactWork(w) \/ Exit(w))
  BY DEF WorkerWorks, WorkerEnds
<1>2. LifeInv'
  BY <1>1, FlushWorkKeeps, CompactWorkKeeps, ExitKeeps DEF NodeInv
<1>3. caller' = caller
  BY <1>1 DEF FlushWork, CompactWork, Exit
<1> QED BY <1>1, <1>2, <1>3, EngineStepKeeps DEF NodeInv, PhaseInv

\* A step of main that leaves the engine alone.
LEMMA MainKeeps ==
  ASSUME NodeInv, Signal \/ Drained \/ RaftShutdown \/ Exits
  PROVE  NodeInv'
<1>1. UNCHANGED lifecycle /\ UNCHANGED handler /\ LifeInv'
  BY LifeStutter DEF Signal, Drained, ServerClose, RaftShutdown, Exits, conn, NodeInv
<1>2. ConnInv'
  BY ConnStutter, ServerCloseKeeps DEF Signal, Drained, RaftShutdown, Exits, NodeInv
<1>3. caller' = caller
  BY <1>1 DEF lifecycle
<1>4. PhaseInv'
  BY <1>1, <1>3 DEF Signal, Drained, RaftShutdown, Exits, NodeInv, PhaseInv, Running
<1> QED BY <1>1, <1>2, <1>4 DEF NodeInv

LEMMA EngineCloseKeeps == ASSUME NodeInv, EngineClose PROVE NodeInv'
<1>1. phase = "engine" /\ Close("main") /\ UNCHANGED <<conn, phase>>
  BY DEF EngineClose
<1>2. LifeInv'
  BY <1>1, CloseKeeps DEF NodeInv, Callers
<1>3. caller'["fsm"] = caller["fsm"]
  BY <1>1 DEF Close, At, NodeInv, LifeInv, LifecycleTypeOK
<1> QED BY <1>1, <1>2, <1>3, EngineStepKeeps DEF NodeInv, PhaseInv

LEMMA NodeInitially == Init => NodeInv
<1> SUFFICES ASSUME Init PROVE NodeInv
  OBVIOUS
<1>1. ConnInv /\ LifeInv
  BY ConnInitially, LifeInitially DEF Init
<1>2. PhaseInv
  BY DEF Init, LifecycleInit, PhaseInv
<1> QED BY <1>1, <1>2 DEF NodeInv

LEMMA NodeStep == ASSUME NodeInv, [Next]_vars PROVE NodeInv'
<1>1. DOMAIN caller = Callers
  BY DEF NodeInv, LifeInv, LifecycleTypeOK, Callers
<1>2. CASE \E h \in Handlers : Handle(h)
  BY <1>2, HandleKeeps
<1>3. CASE FSMCalls
  BY <1>3, FSMCallsKeeps
<1>4. CASE \E c \in DOMAIN caller : ClosingGoesOn(c)
  BY <1>1, <1>4, ClosingKeeps
<1>5. CASE phase # "stopped" /\ \E w \in Workers : (WorkerWorks(w) \/ WorkerEnds(w))
  BY <1>5, WorkerKeeps
<1>6. CASE Signal \/ Main
  BY <1>6, MainKeeps, EngineCloseKeeps DEF Main
<1>7. CASE UNCHANGED vars
  <2>1. UNCHANGED <<conn, phase>> /\ UNCHANGED lifecycle
    BY <1>7 DEF vars
  <2>2. LifeInv' /\ caller' = caller
    BY <2>1, LifeStutter DEF NodeInv, lifecycle
  <2> QED BY <2>1, <2>2, EngineStepKeeps DEF NodeInv, PhaseInv
<1> QED BY <1>2, <1>3, <1>4, <1>5, <1>6, <1>7 DEF Next

LEMMA NodeInvariant == Spec => []NodeInv
<1>1. Init => NodeInv
  BY NodeInitially
<1>2. NodeInv /\ [Next]_vars => NodeInv'
  BY NodeStep
<1> QED BY <1>1, <1>2, PTL DEF Spec

\* The state of the process stays in its types, for any number of requests,
\* addresses and Purges.
THEOREM NodeTypeCorrect == Spec => []TypeOK
<1>1. NodeInv => TypeOK
  BY DEF NodeInv, ConnInv, LifeInv, PhaseInv, TypeOK
<1> QED BY <1>1, NodeInvariant, PTL

\* However requests overtake each other in getLeaderClient and
\* invalidateLeader, and with KVServer.Close behind them, a connection that is
\* open is the cached one.
THEOREM ConnectionsDoNotLeak == Spec => []NoConnectionLeak
<1>1. NodeInv => NoConnectionLeak
  BY DEF NodeInv, ConnInv
<1> QED BY <1>1, NodeInvariant, PTL

\* A forwarded write goes to the address its own look at Raft named, whichever
\* request has dialled the connection it uses.
THEOREM CallsGoWhereLookedUp == Spec => []CallsLeaderLookedUp
<1>1. NodeInv => CallsLeaderLookedUp
  BY DEF NodeInv, ConnInv
<1> QED BY <1>1, NodeInvariant, PTL

\* No Put sends on a closed flushChan, and no Close closes a channel again,
\* through any sequence of Purges and failed Closes.
THEOREM ChannelsStayOpen == Spec => []ChannelsOpen
<1>1. NodeInv => ChannelsOpen
  BY DEF NodeInv, LifeInv
<1> QED BY <1>1, NodeInvariant, PTL

\* Unless a Close has given up, each generation of an open engine has its two
\* workers, and no worker of an earlier one is left.
THEOREM WorkersOfThisGeneration == Spec => []WorkersMatch
<1>1. NodeInv => WorkersMatch
  BY DEF NodeInv, LifeInv
<1> QED BY <1>1, NodeInvariant, PTL

\* main's Close of the engine meets no Purge and no request.
THEOREM MainClosesAlone == Spec => []ClosesAlone
<1>1. NodeInv => ClosesAlone
  BY DEF NodeInv, PhaseInv, ClosesAlone
<1> QED BY <1>1, NodeInvariant, PTL
=============================================================================
