----------------------------- MODULE EdgeRuntime -----------------------------
(***************************************************************************)
(* The edge client (internal/client/edge.go): one session loop per token   *)
(* group, the catalogs the targets publish, the local mappings, and the    *)
(* listeners that must follow both.  Everything in edgeRuntime is guarded  *)
(* by its mutex, so one action is one critical section; what happens       *)
(* between two of them (a snapshot of connections closed after the unlock, *)
(* a session looked up before a worker is admitted) is two actions.        *)
(***************************************************************************)
EXTENDS Naturals, FiniteSets

CONSTANTS
  Group,         \* the token groups of cfg.GroupTokens()
  Key,           \* what can be mapped: one service of one group
  GroupOf,       \* GroupOf[k]: the group of k
  Port,          \* local addresses
  NoPort,        \* k is not mapped
  NoCatalog,     \* the target has not published yet
  Conn,          \* local connections that may exist at a time
  MappingLists,  \* the mapping lists an administrator saves
  Attempts,      \* Attempts[g]: bound of the sessions g establishes
  Contested,     \* ports another program may take
  Pending        \* bound of the catalogs read and not yet applied

ASSUME EdgeAssumption ==
  /\ Key # {}
  /\ GroupOf \in [Key -> Group]
  /\ NoPort \notin Port
  /\ \A services \in SUBSET Key : NoCatalog # services
  /\ Attempts \in [Group -> Nat]
  /\ Contested \subseteq Port
  /\ Pending \in Nat
  /\ MappingLists # {}
  /\ MappingLists \subseteq [Key -> Port \cup {NoPort}]
  \* validateMappings refuses a port used twice.
  /\ \A m \in MappingLists : \A j, k \in Key :
       j # k /\ m[j] = m[k] => m[j] = NoPort

VARIABLES
  mappings,  \* rt.mappings: the port each key is mapped to
  session,   \* rt.sessions: the number of the attached session, 0 for none
  online,    \* rt.online
  catalog,   \* rt.catalogIdx
  listener,  \* rt.listeners
  link,      \* link[g]: where the session loop of g is, and its last session
  reader,    \* reader[g][n]: the catalog the stream of session n has read
  conn,      \* conn[c]: serveListener and forward for connection c
  process,   \* runEdgeProcess
  foreign    \* ports another program holds

runtimeVars == <<mappings, session, online, catalog, listener>>
edgeVars == <<runtimeVars, link, reader, conn, process, foreign>>

Catalog(g) == SUBSET {k \in Key : GroupOf[k] = g}
NoListener == [port |-> NoPort, state |-> "none"]
Free == [at |-> "free", key |-> CHOOSE k \in Key : TRUE, session |-> 0,
         socket |-> "shut", copies |-> {}]

LinkAt == {"connecting", "up", "dead", "detached", "ended"}
ConnAt == {"free", "accepted", "fetched", "admitted", "tracked", "stream",
           "bridge", "leaving"}

Listeners == [port : Port \cup {NoPort}, state : {"none", "open", "failed"}]
Conns == [at : ConnAt, key : Key, session : Nat, socket : {"open", "doomed", "shut"},
          copies : SUBSET {"in", "out"}]

\* Type invariant: every variable of the edge keeps its shape.
EdgeTypeOK ==
  /\ mappings \in MappingLists
  /\ session \in [Group -> Nat]
  /\ online \in [Group -> BOOLEAN]
  /\ catalog \in [Group -> (SUBSET Key) \cup {NoCatalog}]
  /\ listener \in [Key -> Listeners]
  /\ link \in [Group -> [at : LinkAt, number : Nat]]
  /\ DOMAIN reader = Group
  /\ \A g \in Group :
       /\ catalog[g] \in Catalog(g) \cup {NoCatalog}
       /\ link[g].number <= Attempts[g]
       /\ reader[g] \in [1 .. Attempts[g] -> Catalog(g) \cup {NoCatalog}]
       /\ session[g] \in {0, link[g].number}
  /\ conn \in [Conn -> Conns]
  /\ process \in {"running", "stopping", "closing", "waiting", "returned"}
  /\ foreign \subseteq Port

EdgeInit ==
  /\ mappings \in MappingLists
  /\ session = [g \in Group |-> 0]
  /\ online = [g \in Group |-> FALSE]
  /\ catalog = [g \in Group |-> NoCatalog]
  /\ listener = [k \in Key |-> NoListener]
  /\ link = [g \in Group |-> [at |-> "connecting", number |-> 0]]
  /\ reader = [g \in Group |-> [n \in 1 .. Attempts[g] |-> NoCatalog]]
  /\ conn = [c \in Conn |-> Free]
  /\ process = "running"
  /\ foreign = {}

-----------------------------------------------------------------------------
(***************************************************************************)
(* reconcileLocked: close every listener that is not wanted as it is, then *)
(* open the wanted ones that are not open.  Listening fails exactly on a   *)
(* port somebody still holds.                                              *)
(***************************************************************************)
Desired(maps, on, cats) ==
  {k \in Key : /\ maps[k] # NoPort
               /\ on[GroupOf[k]]
               /\ cats[GroupOf[k]] # NoCatalog
               /\ k \in cats[GroupOf[k]]}

\* Mutant: an open listener is kept although its entry has changed.
KeptByKey(maps, on, cats) ==
  {k \in Desired(maps, on, cats) : listener[k].state = "open"}

Kept(maps, on, cats) ==
  {k \in Desired(maps, on, cats) :
     listener[k].state = "open" /\ listener[k].port = maps[k]}

Held(keys) == foreign \cup {listener[k].port : k \in keys}

Listen(port, held) ==
  [port |-> port, state |-> IF port \in held THEN "failed" ELSE "open"]

\* The outcome when the ports in held are taken as the wanted ones open.
ReconciledUnder(maps, on, cats, held) ==
  [k \in Key |->
    IF k \notin Desired(maps, on, cats) THEN NoListener
    ELSE IF k \in Kept(maps, on, cats) THEN listener[k]
    ELSE Listen(maps[k], held)]

\* Mutant: opening before closing finds its own ports taken.
ReconciledOpeningFirst(maps, on, cats) ==
  ReconciledUnder(maps, on, cats, Held({k \in Key : listener[k].state = "open"}))

Reconciled(maps, on, cats) ==
  ReconciledUnder(maps, on, cats, Held(Kept(maps, on, cats)))

-----------------------------------------------------------------------------
\* Session g.n is alive: yamux has not seen its connection fail.
Alive(g, n) == link[g] = [at |-> "up", number |-> n]

\* The connections in rt.activeConns: forward has entered and not left.
ActiveConns == {c \in Conn : conn[c].at \in {"tracked", "stream", "bridge", "leaving"}}

\* The workers streams.wait counts.
Workers == ActiveConns \cup {c \in Conn : conn[c].at = "admitted"}

Ended(c) == [conn EXCEPT ![c] = Free]

\* forward is about to run its deferred calls: only its entry matters now.
Returning(c) == [conn EXCEPT ![c] = [Free EXCEPT !.at = "leaving", !.key = conn[c].key]]

\* Mutant: nothing is tracked.
DoomNobody(conns) == conn

\* The snapshot of activeConns a critical section takes, and its use after
\* the unlock: each socket is closed by whichever closes it first.
Doom(conns) ==
  [c \in Conn |-> IF c \in conns /\ conn[c].socket = "open"
                  THEN [conn[c] EXCEPT !.socket = "doomed"] ELSE conn[c]]

CloseDoomed(groups) ==
  [c \in Conn |-> IF conn[c].socket = "doomed" /\ GroupOf[conn[c].key] \in groups
                  THEN [conn[c] EXCEPT !.socket = "shut"] ELSE conn[c]]

\* dialSecure succeeds and runSession attaches session n + 1, under the
\* number recorded.
Attach(g, recorded) ==
  /\ process \in {"running", "stopping"}
  /\ link[g].at = "connecting"
  /\ link[g].number < Attempts[g]
  /\ link' = [link EXCEPT ![g] = [at |-> "up", number |-> @.number + 1]]
  /\ session' = [session EXCEPT ![g] = recorded]
  /\ online' = [online EXCEPT ![g] = TRUE]
  /\ catalog' = [catalog EXCEPT ![g] = NoCatalog]
  /\ listener' = Reconciled(mappings, online', catalog')
  /\ UNCHANGED <<mappings, reader, conn, process, foreign>>

\* Mutant: the session the group had before stays registered.
AttachPrevious(g) == Attach(g, link[g].number)

AttachSession(g) == Attach(g, link[g].number + 1)

\* The connection fails, or the watcher of runAttempt closes it.
LinkFails(g) ==
  /\ link[g].at = "up"
  /\ link' = [link EXCEPT ![g].at = "dead"]
  /\ UNCHANGED <<runtimeVars, reader, conn, process, foreign>>

\* detachSession, up to its unlock: AcceptStream has failed.
Detach(g, conns) ==
  /\ link[g].at = "dead"
  /\ link' = [link EXCEPT ![g].at = "detached"]
  /\ session' = [session EXCEPT ![g] = 0]
  /\ online' = [online EXCEPT ![g] = FALSE]
  /\ catalog' = [catalog EXCEPT ![g] = NoCatalog]
  /\ listener' = Reconciled(mappings, online', catalog')
  /\ conn' = Doom(conns)
  /\ UNCHANGED <<mappings, reader, process, foreign>>

\* Mutant: the local connections are left alone.
DetachForgettingLocals(g) == Detach(g, {})

DetachSession(g) == Detach(g, {c \in ActiveConns : GroupOf[conn[c].key] = g})

\* detachSession after its unlock: close the connections it saw.
CloseActive(g) ==
  /\ link[g].at = "detached"
  /\ link' = [link EXCEPT ![g].at = "connecting"]
  /\ conn' = CloseDoomed({g})
  /\ UNCHANGED <<runtimeVars, reader, process, foreign>>

\* runSessionLoop returns: the context is cancelled.
EndLoop(g) ==
  /\ process # "running"
  /\ link[g].at = "connecting"
  /\ link' = [link EXCEPT ![g].at = "ended"]
  /\ UNCHANGED <<runtimeVars, reader, conn, process, foreign>>

(***************************************************************************)
(* handleInboundStream: the control stream of a session is read by its own *)
(* goroutine, which may still hold a catalog when the session is gone.     *)
(***************************************************************************)
Unapplied ==
  UNION {{<<g, n>> : n \in {i \in 1 .. Attempts[g] : reader[g][i] # NoCatalog}} :
           g \in Group}

ReadCatalog(g) ==
  /\ link[g].at = "up"
  /\ reader[g][link[g].number] = NoCatalog
  /\ Cardinality(Unapplied) < Pending
  /\ \E services \in Catalog(g) :
       reader' = [reader EXCEPT ![g][link[g].number] = services]
  /\ UNCHANGED <<runtimeVars, link, conn, process, foreign>>

\* setCatalog: applied, or dropped when the group is offline.
ApplyCatalog(g, n, apply) ==
  /\ reader[g][n] # NoCatalog
  /\ reader' = [reader EXCEPT ![g][n] = NoCatalog]
  /\ IF apply
     THEN /\ catalog' = [catalog EXCEPT ![g] = reader[g][n]]
          /\ listener' = Reconciled(mappings, online, catalog')
     ELSE UNCHANGED <<catalog, listener>>
  /\ UNCHANGED <<mappings, session, online, link, conn, process, foreign>>

SetCatalog(g, n) == ApplyCatalog(g, n, online[g])

\* setMappings, called by the goroutine that receives hot updates.  It and
\* housekeeping stop some time after the context is done; that they may go
\* on for ever here only adds behaviours.
SetMappings ==
  /\ \E m \in MappingLists :
       /\ m # mappings
       /\ mappings' = m
       /\ listener' = Reconciled(m, online, catalog)
  /\ UNCHANGED <<session, online, catalog, link, reader, conn,
                 process, foreign>>

\* retryFailedListeners, called by housekeeping: all of them, in one lock.
Failed == {k \in Key : listener[k].state = "failed"}
OpenPorts == {listener[k].port : k \in {j \in Key : listener[j].state = "open"}}

RetryUnder(held) ==
  /\ Failed # {}
  /\ listener' = [k \in Key |->
       IF k \in Failed THEN Listen(listener[k].port, held) ELSE listener[k]]
  /\ UNCHANGED <<mappings, session, online, catalog, link, reader, conn,
                 process, foreign>>

\* Mutant: the ports of the failed listeners count as taken.
RetryHoldingAll == RetryUnder(Held(Key))

RetryFailedListeners == RetryUnder(foreign \cup OpenPorts)

\* Another program takes a free port, or gives it back.
TakePort(p) ==
  /\ p \notin foreign \cup OpenPorts
  /\ foreign' = foreign \cup {p}
  /\ UNCHANGED <<runtimeVars, link, reader, conn, process>>

ReleasePort(p) ==
  /\ p \in foreign
  /\ foreign' = foreign \ {p}
  /\ UNCHANGED <<runtimeVars, link, reader, conn, process>>

-----------------------------------------------------------------------------
(***************************************************************************)
(* serveListener and forward, for one local connection.  The session is    *)
(* looked up, the worker admitted and the connection tracked in three      *)
(* steps; the route may drop between any two of them.                      *)
(***************************************************************************)
ConnStep(c, from, to) ==
  /\ conn[c].at = from
  /\ conn' = [conn EXCEPT ![c].at = to]
  /\ UNCHANGED <<runtimeVars, link, reader, process, foreign>>

Accept(c, k) ==
  /\ conn[c].at = "free"
  /\ listener[k].state = "open"
  /\ conn' = [conn EXCEPT ![c] = [Free EXCEPT !.at = "accepted", !.key = k,
                                              !.socket = "open"]]
  /\ UNCHANGED <<runtimeVars, link, reader, process, foreign>>

CurrentSession(c) ==
  /\ conn[c].at = "accepted"
  /\ conn' = IF session[GroupOf[conn[c].key]] = 0 THEN Ended(c)
             ELSE [conn EXCEPT ![c].at = "fetched",
                               ![c].session = session[GroupOf[conn[c].key]]]
  /\ UNCHANGED <<runtimeVars, link, reader, process, foreign>>

\* goIfAvailable, which refuses when other connections hold every slot.
Admit(c) == ConnStep(c, "fetched", "admitted")

RefuseAtLimit(c) ==
  /\ conn[c].at = "fetched"
  /\ conn' = Ended(c)
  /\ UNCHANGED <<runtimeVars, link, reader, process, foreign>>

TrackLocal(c) == ConnStep(c, "admitted", "tracked")

SessionAlive(c) == Alive(GroupOf[conn[c].key], conn[c].session)

OpenStream(c) == SessionAlive(c) /\ ConnStep(c, "tracked", "stream")

OpenFails(c) ==
  /\ conn[c].at = "tracked"
  /\ conn' = Returning(c)
  /\ UNCHANGED <<runtimeVars, link, reader, process, foreign>>

\* The target's answer: ok, or a refusal, an error or the 15 s deadline.
DialAccepted(c) ==
  /\ conn[c].at = "stream"
  /\ SessionAlive(c)
  /\ conn' = [conn EXCEPT ![c].at = "bridge", ![c].copies = {"in", "out"}]
  /\ UNCHANGED <<runtimeVars, link, reader, process, foreign>>

DialRefused(c) ==
  /\ conn[c].at = "stream"
  /\ conn' = Returning(c)
  /\ UNCHANGED <<runtimeVars, link, reader, process, foreign>>

(***************************************************************************)
(* countingBridge: "in" copies the stream to the application and ends when *)
(* the stream does; "out" copies the other way and ends when the local     *)
(* socket does.  A silent application leaves "out" blocked in Read.        *)
(***************************************************************************)
CopyEnds(c, way) ==
  /\ conn[c].at = "bridge"
  /\ way \in conn[c].copies
  /\ conn' = IF conn[c].copies = {way} THEN Returning(c)
             ELSE [conn EXCEPT ![c].copies = @ \ {way}]
  /\ UNCHANGED <<runtimeVars, link, reader, process, foreign>>

InEnds(c) == ~SessionAlive(c) /\ CopyEnds(c, "in")
OutEnds(c) == conn[c].socket = "shut" /\ CopyEnds(c, "out")
RemoteFinishes(c) == SessionAlive(c) /\ CopyEnds(c, "in")

\* The application closes its socket.
AppCloses(c) ==
  /\ conn[c].socket # "shut"
  /\ conn' = [conn EXCEPT ![c].socket = "shut"]
  /\ UNCHANGED <<runtimeVars, link, reader, process, foreign>>

\* The deferred statements of forward and of its worker.
LeaveForward(c) ==
  /\ conn[c].at = "leaving"
  /\ conn' = Ended(c)
  /\ UNCHANGED <<runtimeVars, link, reader, process, foreign>>

-----------------------------------------------------------------------------
Cancel ==
  /\ process = "running"
  /\ process' = "stopping"
  /\ UNCHANGED <<runtimeVars, link, reader, conn, foreign>>

\* workers.Wait has returned; shutdown runs up to its unlock.
WorkersDone == \A g \in Group : link[g].at = "ended"

\* shutdown, up to its unlock.
Shutdown ==
  /\ process = "stopping"
  /\ process' = "closing"
  /\ listener' = [k \in Key |-> NoListener]
  /\ session' = [g \in Group |-> 0]
  /\ conn' = Doom(ActiveConns)
  /\ UNCHANGED <<mappings, online, catalog, link, reader, foreign>>

\* Mutant: the deferred calls in the wrong order, before the loops end.
ShutdownFirst == Shutdown

ShutdownLocked == WorkersDone /\ Shutdown

ShutdownCloses ==
  /\ process = "closing"
  /\ process' = "waiting"
  /\ conn' = CloseDoomed(Group)
  /\ UNCHANGED <<runtimeVars, link, reader, foreign>>

\* Mutant: the process returns without waiting for its workers.
WaitForNone ==
  /\ process = "waiting"
  /\ process' = "returned"
  /\ UNCHANGED <<runtimeVars, link, reader, conn, foreign>>

\* streams.waitForAll returns, and with it runEdgeProcess.
WaitForAll ==
  /\ process = "waiting"
  /\ Workers = {}
  /\ process' = "returned"
  /\ UNCHANGED <<runtimeVars, link, reader, conn, foreign>>

-----------------------------------------------------------------------------
SessionStep(g) ==
  \/ AttachSession(g) \/ LinkFails(g) \/ DetachSession(g) \/ CloseActive(g)
  \/ EndLoop(g) \/ ReadCatalog(g)
  \/ \E n \in 1 .. Attempts[g] : SetCatalog(g, n)

ForwardStep(c) ==
  \/ CurrentSession(c) \/ Admit(c) \/ RefuseAtLimit(c) \/ TrackLocal(c)
  \/ OpenStream(c) \/ OpenFails(c) \/ DialAccepted(c) \/ DialRefused(c)
  \/ InEnds(c) \/ OutEnds(c) \/ LeaveForward(c)

PeerStep(c) ==
  \/ \E k \in Key : Accept(c, k)
  \/ RemoteFinishes(c) \/ AppCloses(c)

ProcessStep ==
  \/ ShutdownLocked \/ ShutdownCloses \/ WaitForAll

EdgeNext ==
  \/ \E g \in Group : SessionStep(g)
  \/ \E c \in Conn : ForwardStep(c) \/ PeerStep(c)
  \/ \E p \in Contested : TakePort(p) \/ ReleasePort(p)
  \/ SetMappings \/ RetryFailedListeners
  \/ Cancel \/ ProcessStep

(***************************************************************************)
(* Fairness: every goroutine of the edge that can take its next step does, *)
(* the watcher closes the connection of a cancelled context, and the       *)
(* ticker of housekeeping fires.  Nothing is assumed of the network, the   *)
(* target, the applications, other programs and the administrator.         *)
(***************************************************************************)
Unwind(g) ==
  \/ process # "running" /\ LinkFails(g)
  \/ DetachSession(g) \/ CloseActive(g) \/ EndLoop(g)

EdgeFairness ==
  /\ \A g \in Group : WF_edgeVars(Unwind(g))
  /\ \A c \in Conn : WF_edgeVars(ForwardStep(c))
  /\ WF_edgeVars(process = "running" /\ RetryFailedListeners)
  /\ WF_edgeVars(ProcessStep)

EdgeSpec == EdgeInit /\ [][EdgeNext]_edgeVars /\ EdgeFairness

-----------------------------------------------------------------------------
(***************************************************************************)
(* Safety.                                                                 *)
(***************************************************************************)

\* The listeners are exactly those that the mappings, the catalog of an
\* attached session and its route call for, on the port last saved,
\* whatever order updates, catalogs and route changes come in
\* (reconcileLocked; docs/architecture.md "Mapping listeners follow the
\* catalog").
ListenersMatch ==
  process \in {"running", "stopping"} =>
    \A k \in Key :
      IF k \in Desired(mappings, online, catalog)
      THEN listener[k].port = mappings[k]
      ELSE listener[k] = NoListener

\* No listener survives the shutdown, and none is opened after it by a
\* helper or an inbound stream that has not noticed yet (shutdown).
NoListenerOnceStopped ==
  process \in {"closing", "waiting", "returned"} =>
    \A k \in Key : listener[k] = NoListener

\* A group whose route is down offers no catalog, although its streams may
\* still deliver one (setCatalog looks at online under the lock).
OfflineOffersNothing ==
  \A g \in Group : ~online[g] => catalog[g] = NoCatalog

\* Once the process returned nothing is forwarded any more, although a
\* worker may be admitted after waitForAll looked.
NoForwardingAfterReturn ==
  process = "returned" => \A c \in Conn : conn[c].at \notin {"stream", "bridge"}

\* A mapping is reported as failed only for a port another program holds:
\* swapping two ports in one save never makes the edge fail on itself.
FailsOnlyOnForeignPorts ==
  [][\A k \in Key :
       listener'[k].state = "failed" /\ listener'[k] # listener[k]
         => listener'[k].port \in foreign]_edgeVars

-----------------------------------------------------------------------------
(***************************************************************************)
(* The inductive invariant behind the safety properties.                   *)
(***************************************************************************)
Closed == process \in {"closing", "waiting", "returned"}

LoopsEnded == Closed => \A g \in Group : link[g].at = "ended"

\* The session registered for a group is the one its loop runs, so detachSession
\* never finds another one and returns early.
RouteRegistered(g) ==
  /\ link[g].at \in {"up", "dead", "detached"} => link[g].number > 0
  /\ online[g] <=> link[g].at \in {"up", "dead"}
  /\ session[g] = IF online[g] THEN link[g].number ELSE 0

\* A socket still open is forwarded by a living session or by one whose detach
\* will see it; whoever put a socket on its list has still to close it.
LocalFollows(c) ==
  LET g == GroupOf[conn[c].key] IN
  /\ conn[c].at = "bridge" <=> conn[c].copies # {}
  /\ conn[c].at \in {"stream", "bridge"} /\ conn[c].socket = "open" =>
       SessionAlive(c) \/ link[g] = [at |-> "dead", number |-> conn[c].session]
  /\ conn[c].socket = "doomed" => link[g].at = "detached" \/ process = "closing"

\* An open listener holds its port alone.
PortOwned(k) ==
  listener[k].state = "open" =>
    /\ listener[k].port \notin foreign
    /\ \A j \in Key : listener[j].state = "open" /\ j # k =>
                        listener[j].port # listener[k].port

\* Loops, routes, catalogs, listeners, ports and local sockets fit together.
EdgeInv ==
  /\ EdgeTypeOK
  /\ LoopsEnded /\ OfflineOffersNothing
  /\ ListenersMatch /\ NoListenerOnceStopped /\ NoForwardingAfterReturn
  /\ \A g \in Group : RouteRegistered(g)
  /\ \A c \in Conn : LocalFollows(c)
  /\ \A k \in Key : PortOwned(k)

(***************************************************************************)
(* Liveness.                                                               *)
(***************************************************************************)

\* A connection whose session is gone ends, even when the application stays
\* silent (forward: "a dropped route closes it promptly instead of leaving
\* its bridge blocked on a local read").
DroppedConnectionsEnd ==
  \A c \in Conn :
    (conn[c].at = "bridge" /\ ~SessionAlive(c)) ~> (conn[c].at = "free")

\* A failed listener recovers once its port is free (housekeeping).
FailedListenersRecover ==
  \A k \in Key :
    (listener[k].state = "failed" /\ listener[k].port \notin foreign)
      ~> (listener[k].state # "failed" \/ listener[k].port \in foreign)

\* A cancelled edge returns: no session, worker or application holds it up.
StoppedEdgeReturns == (process = "stopping") ~> (process = "returned")

=============================================================================
