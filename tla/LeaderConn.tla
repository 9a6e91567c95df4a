----------------------------- MODULE LeaderConn -----------------------------
(***************************************************************************)
(* The connection that a follower keeps to the leader: getLeaderClient,    *)
(* invalidateLeader and Close of server/kv_server.go.  Handlers of Put and *)
(* Delete share leaderConn and leaderAddr under an RWMutex, and make their *)
(* call outside it.                                                        *)
(***************************************************************************)
EXTENDS Naturals

CONSTANTS
    Handlers,  \* the write requests that reach this node while it follows
    Addrs,     \* addresses of leaders
    Nobody,    \* no leader: ""
    NoConn     \* nil

ASSUME ConnAssumption == Nobody \notin Addrs /\ NoConn \notin Handlers

\* A handler dials at most once; its connection has its name.
VARIABLES
    leaderConn, leaderAddr,
    conns,       \* the connections dialled: where to, and whether still open
    handler      \* program counter, the address looked up, the connection used

conn == <<leaderConn, leaderAddr, conns, handler>>

NewHandler == [pc |-> "new", addr |-> Nobody, conn |-> NoConn]

ConnInit ==
    /\ leaderConn = NoConn /\ leaderAddr = Nobody
    /\ conns = [h \in Handlers |-> [addr |-> Nobody, open |-> FALSE]]
    /\ handler = [h \in Handlers |-> NewHandler]

Returns(h) == handler' = [handler EXCEPT ![h] = [NewHandler EXCEPT !.pc = "done"]]

\* The handler has connection c, and makes its call.
Calls(h, c) == handler' = [handler EXCEPT ![h] = [pc |-> "calling", addr |-> @.addr, conn |-> c]]

\* Close on an open connection, on a closed one, or on nil.
Closed(c) == [h \in Handlers |-> IF h = c THEN [conns[h] EXCEPT !.open = FALSE] ELSE conns[h]]

-----------------------------------------------------------------------------
(* A request *)

\* The first line of getLeaderClient: Raft.Leader() is any node by now, or "".
Lookup(h) ==
    /\ handler[h].pc = "new"
    /\ \/ Returns(h)
       \/ \E a \in Addrs :
             handler' = [handler EXCEPT ![h] = [NewHandler EXCEPT !.pc = "lookup", !.addr = a]]
    /\ UNCHANGED <<leaderConn, leaderAddr, conns>>

Cached(h) == leaderAddr = handler[h].addr /\ leaderConn # NoConn

\* Under the read lock.
ReadCache(h) ==
    /\ handler[h].pc = "lookup"
    /\ IF Cached(h) THEN Calls(h, leaderConn) ELSE handler' = [handler EXCEPT ![h].pc = "dial"]
    /\ UNCHANGED <<leaderConn, leaderAddr, conns>>

\* Mutant of Dial: the second look, under the write lock, forgets the address.
DialAnyAddress(h) ==
    /\ handler[h].pc = "dial"
    /\ \/ /\ leaderConn # NoConn
          /\ Calls(h, leaderConn)
          /\ UNCHANGED <<leaderConn, leaderAddr, conns>>
       \/ /\ leaderConn = NoConn
          /\ conns' = [conns EXCEPT ![h] = [addr |-> handler[h].addr, open |-> TRUE]]
          /\ leaderConn' = h /\ leaderAddr' = handler[h].addr
          /\ Calls(h, h)

\* Mutant of Dial: the stale connection stays open.
DialOverStale(h) ==
    /\ handler[h].pc = "dial" /\ ~Cached(h)
    /\ conns' = [conns EXCEPT ![h] = [addr |-> handler[h].addr, open |-> TRUE]]
    /\ leaderConn' = h /\ leaderAddr' = handler[h].addr
    /\ Calls(h, h)

\* Under the write lock: another handler may have dialled meanwhile; otherwise
\* the stale connection is closed and a new one takes its place.  When
\* NewClient fails the closed one stays cached under its old address.
Dial(h) ==
    /\ handler[h].pc = "dial"
    /\ \/ /\ Cached(h)
          /\ Calls(h, leaderConn)
          /\ UNCHANGED <<leaderConn, leaderAddr, conns>>
       \/ /\ ~Cached(h)
          /\ conns' = [Closed(leaderConn) EXCEPT ![h] = [addr |-> handler[h].addr, open |-> TRUE]]
          /\ leaderConn' = h /\ leaderAddr' = handler[h].addr
          /\ Calls(h, h)
       \/ /\ ~Cached(h)
          /\ conns' = Closed(leaderConn) /\ Returns(h)
          /\ UNCHANGED <<leaderConn, leaderAddr>>

\* The answer comes within 3 s; or the call fails, at once on a connection that
\* is closed, and by its own context at the latest.
CallReturns(h) ==
    /\ handler[h].pc = "calling"
    /\ \/ conns[handler[h].conn].open /\ Returns(h)
       \/ handler' = [handler EXCEPT ![h].pc = "failed"]
    /\ UNCHANGED <<leaderConn, leaderAddr, conns>>

\* Closes whatever is cached by now, which need not be what the call used.
InvalidateLeader(h) ==
    /\ handler[h].pc = "failed"
    /\ conns' = Closed(leaderConn)
    /\ leaderConn' = NoConn
    /\ leaderAddr' = IF leaderConn = NoConn THEN leaderAddr ELSE Nobody
    /\ Returns(h)

Request(h) ==
    Lookup(h) \/ ReadCache(h) \/ Dial(h) \/ CallReturns(h) \/ InvalidateLeader(h)

Running(h) == handler[h].pc \notin {"new", "done"}

\* KVServer.Close.
ServerClose ==
    /\ conns' = Closed(leaderConn)
    /\ UNCHANGED <<leaderConn, leaderAddr, handler>>

-----------------------------------------------------------------------------
(* Properties *)

ConnTypeOK ==
    /\ leaderConn \in Handlers \cup {NoConn}
    /\ leaderAddr \in Addrs \cup {Nobody}
    /\ conns \in [Handlers -> [addr : Addrs \cup {Nobody}, open : BOOLEAN]]
    /\ handler \in [Handlers -> [pc : {"new", "lookup", "dial", "calling", "failed", "done"},
                                 addr : Addrs \cup {Nobody}, conn : Handlers \cup {NoConn}]]

\* A connection that is open is the cached one: however requests overtake each
\* other in getLeaderClient and invalidateLeader, none is left for nobody to
\* close.
NoConnectionLeak == \A h \in Handlers : conns[h].open => leaderConn = h

\* A request goes to the leader that its own look at Raft named, even when it
\* finds a connection that another request has put in the cache between the two
\* looks at it.
CallsLeaderLookedUp ==
    \A h \in Handlers : handler[h].pc = "calling" => conns[handler[h].conn].addr = handler[h].addr
=============================================================================
