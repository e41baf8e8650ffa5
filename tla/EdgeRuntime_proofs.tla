-------------------------- MODULE EdgeRuntime_proofs --------------------------
(***************************************************************************)
(* Theorems about EdgeRuntime, for any groups, keys, ports, connections    *)
(* and mapping lists.  ListenersInv is inductive by itself: an ended       *)
(* session loop leaves its group offline, an offline group has no catalog, *)
(* and so nothing is wanted once the edge has shut down, which is why a    *)
(* helper that comes late cannot open a listener any more.  Routes, local  *)
(* sockets and ports follow from it, and give the whole EdgeInv.           *)
(***************************************************************************)
EXTENDS EdgeRuntime, TLAPS

\* What reconcileLocked leaves: every wanted listener on its port, the
\* others closed.
LEMMA ReconciledMatches ==
  ASSUME NEW maps, NEW on, NEW cats, NEW k \in Key
  PROVE  IF k \in Desired(maps, on, cats)
         THEN Reconciled(maps, on, cats)[k].port = maps[k]
         ELSE Reconciled(maps, on, cats)[k] = NoListener
  BY DEF Reconciled, ReconciledUnder, Kept, Listen

\* The listeners it leaves have the right type.
LEMMA ReconciledTyped ==
  ASSUME NEW maps \in [Key -> Port \cup {NoPort}], NEW on, NEW cats,
         listener \in [Key -> Listeners]
  PROVE  Reconciled(maps, on, cats) \in [Key -> Listeners]
<1>1. ASSUME NEW k \in Key PROVE Reconciled(maps, on, cats)[k] \in Listeners
  <2>1. Listen(maps[k], Held(Kept(maps, on, cats))) \in Listeners
    BY DEF Listen, Listeners
  <2>2. NoListener \in Listeners
    BY DEF NoListener, Listeners
  <2> QED
    BY <2>1, <2>2 DEF Reconciled, ReconciledUnder
<1> QED
  BY <1>1 DEF Reconciled, ReconciledUnder

\* It fails only on a port somebody else holds: no two keys share a port.
LEMMA ReconciledFailsOnForeign ==
  ASSUME NEW maps \in MappingLists, NEW on, NEW cats, NEW k \in Key,
         Reconciled(maps, on, cats)[k].state = "failed",
         Reconciled(maps, on, cats)[k] # listener[k]
  PROVE  Reconciled(maps, on, cats)[k].port \in foreign
<1>1. k \in Desired(maps, on, cats) /\ k \notin Kept(maps, on, cats)
  BY DEF Reconciled, ReconciledUnder, NoListener
<1>2. Reconciled(maps, on, cats)[k] = Listen(maps[k], Held(Kept(maps, on, cats)))
  BY <1>1 DEF Reconciled, ReconciledUnder
<1>3. maps[k] \in Held(Kept(maps, on, cats))
  BY <1>2 DEF Listen
<1>4. ASSUME NEW j \in Kept(maps, on, cats) PROVE listener[j].port # maps[k]
  <2>1. j \in Key /\ j # k /\ listener[j].port = maps[j] /\ maps[k] # NoPort
    BY <1>1, <1>4 DEF Kept, Desired
  <2> QED
    BY <2>1, EdgeAssumption
<1> QED
  BY <1>2, <1>3, <1>4 DEF Held, Listen

-----------------------------------------------------------------------------
(***************************************************************************)
(* Types.                                                                  *)
(***************************************************************************)
\* Where a connection is reset to, or ends.
LEMMA FreeTyped == Free \in Conns
<1>1. (CHOOSE k \in Key : TRUE) \in Key
  BY EdgeAssumption
<1> QED
  BY <1>1 DEF Free, Conns, ConnAt

\* Moving one connection, dooming some and closing the doomed keep the type.
LEMMA ConnsTyped ==
  ASSUME EdgeTypeOK, NEW c \in Conn
  PROVE  /\ \A place \in ConnAt : [conn EXCEPT ![c].at = place] \in [Conn -> Conns]
         /\ [conn EXCEPT ![c].socket = "shut"] \in [Conn -> Conns]
         /\ Ended(c) \in [Conn -> Conns]
         /\ Returning(c) \in [Conn -> Conns]
<1>1. conn \in [Conn -> Conns] /\ conn[c] \in Conns
  BY DEF EdgeTypeOK
<1>2. ASSUME NEW place \in ConnAt PROVE [conn[c] EXCEPT !.at = place] \in Conns
  BY <1>1 DEF Conns
<1>3. [conn[c] EXCEPT !.socket = "shut"] \in Conns
  BY <1>1 DEF Conns
<1>4. [Free EXCEPT !.at = "leaving", !.key = conn[c].key] \in Conns
  BY <1>1, FreeTyped DEF Conns, Free, ConnAt
<1> QED
  BY <1>1, <1>2, <1>3, <1>4, FreeTyped DEF Ended, Returning

\* A snapshot of connections and its use keep the type.
LEMMA DoomTyped ==
  ASSUME EdgeTypeOK
  PROVE  /\ \A conns : Doom(conns) \in [Conn -> Conns]
         /\ \A groups : CloseDoomed(groups) \in [Conn -> Conns]
<1>1. ASSUME NEW c \in Conn, NEW place \in {"doomed", "shut"}
      PROVE  conn[c] \in Conns /\ [conn[c] EXCEPT !.socket = place] \in Conns
  <2>1. conn[c] \in Conns
    BY <1>1 DEF EdgeTypeOK
  <2> QED
    BY <1>1, <2>1 DEF Conns
<1> QED
  BY <1>1 DEF Doom, CloseDoomed

\* Initially.
LEMMA EdgeInitTyped == EdgeInit => EdgeTypeOK
<1> USE EdgeAssumption
<1> SUFFICES ASSUME EdgeInit PROVE EdgeTypeOK
    OBVIOUS
<1>1. conn \in [Conn -> Conns]
  BY FreeTyped DEF EdgeInit
<1>2. listener \in [Key -> Listeners]
  BY DEF EdgeInit, NoListener, Listeners
<1>3. ASSUME NEW g \in Group
      PROVE  /\ catalog[g] \in Catalog(g) \cup {NoCatalog} /\ link[g].number <= Attempts[g]
             /\ reader[g] \in [1 .. Attempts[g] -> Catalog(g) \cup {NoCatalog}]
             /\ session[g] \in {0, link[g].number}
  BY DEF EdgeInit
<1>4. mappings \in MappingLists /\ link \in [Group -> [at : LinkAt, number : Nat]]
  BY DEF EdgeInit, LinkAt
<1>5. online \in [Group -> BOOLEAN] /\ session \in [Group -> Nat]
  BY DEF EdgeInit
<1>6. catalog \in [Group -> (SUBSET Key) \cup {NoCatalog}]
  BY DEF EdgeInit
<1>7. DOMAIN reader = Group /\ process = "running" /\ foreign \subseteq Port
  BY DEF EdgeInit
<1> QED
  BY <1>1, <1>2, <1>3, <1>4, <1>5, <1>6, <1>7 DEF EdgeTypeOK

\* Every step keeps the types.
LEMMA EdgeStepTyped == EdgeTypeOK /\ [EdgeNext]_edgeVars => EdgeTypeOK'
<1> USE EdgeAssumption
<1> SUFFICES ASSUME EdgeTypeOK, [EdgeNext]_edgeVars PROVE EdgeTypeOK'
    OBVIOUS
<1>t. /\ mappings \in [Key -> Port \cup {NoPort}] /\ listener \in [Key -> Listeners]
      /\ conn \in [Conn -> Conns]
  BY DEF EdgeTypeOK
<1>g. ASSUME NEW g \in Group
      PROVE  /\ catalog[g] \in Catalog(g) \cup {NoCatalog}
             /\ link[g] \in [at : LinkAt, number : Nat] /\ link[g].number <= Attempts[g]
             /\ reader[g] \in [1 .. Attempts[g] -> Catalog(g) \cup {NoCatalog}]
             /\ session[g] \in {0, link[g].number} /\ Attempts[g] \in Nat
  BY DEF EdgeTypeOK
<1>r. \A on, cats : Reconciled(mappings, on, cats) \in [Key -> Listeners]
  BY <1>t, ReconciledTyped
<1>1. ASSUME UNCHANGED <<runtimeVars, link, reader, foreign>>,
             conn' \in [Conn -> Conns],
             process' \in {"running", "stopping", "closing", "waiting", "returned"}
      PROVE EdgeTypeOK'
  BY <1>1 DEF EdgeTypeOK, runtimeVars
<1>2. ASSUME NEW g \in Group, AttachSession(g) PROVE EdgeTypeOK'
  <2>1. /\ link' = [link EXCEPT ![g] = [at |-> "up", number |-> @.number + 1]]
        /\ session' = [session EXCEPT ![g] = link[g].number + 1]
        /\ online' = [online EXCEPT ![g] = TRUE]
        /\ catalog' = [catalog EXCEPT ![g] = NoCatalog]
        /\ listener' = Reconciled(mappings, online', catalog')
        /\ link[g].number < Attempts[g]
    BY <1>2 DEF AttachSession, Attach
  <2>2. link[g].number + 1 \in Nat /\ link[g].number + 1 <= Attempts[g]
    BY <1>g, <2>1
  <2>3. link' \in [Group -> [at : LinkAt, number : Nat]] /\ session' \in [Group -> Nat]
    BY <2>1, <2>2 DEF EdgeTypeOK, LinkAt
  <2>4. online' \in [Group -> BOOLEAN] /\ catalog' \in [Group -> (SUBSET Key) \cup {NoCatalog}]
    <3>1. online' \in [Group -> BOOLEAN]
      BY <2>1 DEF EdgeTypeOK
    <3>2. catalog' \in [Group -> (SUBSET Key) \cup {NoCatalog}]
      BY <2>1 DEF EdgeTypeOK
    <3> QED
      BY <3>1, <3>2
  <2>5. ASSUME NEW h \in Group
        PROVE  /\ catalog'[h] \in Catalog(h) \cup {NoCatalog}
               /\ link'[h].number <= Attempts[h]
               /\ session'[h] \in {0, link'[h].number}
    BY <1>g, <2>1, <2>2 DEF EdgeTypeOK
  <2> QED
    BY <1>2, <1>r, <2>1, <2>3, <2>4, <2>5 DEF AttachSession, Attach, EdgeTypeOK, Catalog
<1>3. ASSUME NEW g \in Group, NEW place \in LinkAt, link' = [link EXCEPT ![g].at = place],
             UNCHANGED <<runtimeVars, reader, process, foreign>>,
             conn' \in [Conn -> Conns]
      PROVE EdgeTypeOK'
  <2>1. link' \in [Group -> [at : LinkAt, number : Nat]]
    <3>1. [link[g] EXCEPT !.at = place] \in [at : LinkAt, number : Nat]
      BY <1>g
    <3> QED
      BY <1>3, <3>1 DEF EdgeTypeOK
  <2>2. ASSUME NEW h \in Group PROVE link'[h].number = link[h].number
    BY <1>3, <1>g DEF EdgeTypeOK
  <2> QED
    BY <1>3, <2>1, <2>2 DEF EdgeTypeOK, runtimeVars, Catalog
<1>4. ASSUME NEW g \in Group, DetachSession(g) PROVE EdgeTypeOK'
  <2>1. /\ link' = [link EXCEPT ![g].at = "detached"]
        /\ session' = [session EXCEPT ![g] = 0]
        /\ online' = [online EXCEPT ![g] = FALSE]
        /\ catalog' = [catalog EXCEPT ![g] = NoCatalog]
        /\ listener' = Reconciled(mappings, online', catalog')
    BY <1>4 DEF DetachSession, Detach
  <2>2. link' \in [Group -> [at : LinkAt, number : Nat]] /\ session' \in [Group -> Nat]
    BY <2>1 DEF EdgeTypeOK, LinkAt
  <2>3. online' \in [Group -> BOOLEAN] /\ catalog' \in [Group -> (SUBSET Key) \cup {NoCatalog}]
    <3>1. online' \in [Group -> BOOLEAN]
      BY <2>1 DEF EdgeTypeOK
    <3>2. catalog' \in [Group -> (SUBSET Key) \cup {NoCatalog}]
      BY <2>1 DEF EdgeTypeOK
    <3> QED
      BY <3>1, <3>2
  <2>4. ASSUME NEW h \in Group
        PROVE  /\ catalog'[h] \in Catalog(h) \cup {NoCatalog}
               /\ link'[h].number <= Attempts[h]
               /\ session'[h] \in {0, link'[h].number}
    <3>1. link'[h].number = link[h].number
      BY <1>g, <2>1 DEF EdgeTypeOK
    <3> QED
      BY <1>g, <2>1, <3>1 DEF EdgeTypeOK
  <2>5. conn' \in [Conn -> Conns]
    BY <1>4, DoomTyped DEF DetachSession, Detach
  <2> QED
    BY <1>4, <1>r, <2>1, <2>2, <2>3, <2>4, <2>5 DEF DetachSession, Detach, EdgeTypeOK, Catalog
<1>5. ASSUME NEW g \in Group, LinkFails(g) \/ CloseActive(g) \/ EndLoop(g) PROVE EdgeTypeOK'
  <2>1. CASE LinkFails(g)
    BY <1>3, <1>t, <2>1 DEF LinkFails, LinkAt
  <2>2. CASE CloseActive(g)
    BY <1>3, <2>2, DoomTyped DEF CloseActive, LinkAt
  <2>3. CASE EndLoop(g)
    BY <1>3, <1>t, <2>3 DEF EndLoop, LinkAt
  <2> QED
    BY <1>5, <2>1, <2>2, <2>3
<1>6. ASSUME NEW g \in Group, ReadCatalog(g) PROVE EdgeTypeOK'
  <2>1. PICK services \in Catalog(g) :
          reader' = [reader EXCEPT ![g][link[g].number] = services]
    BY <1>6 DEF ReadCatalog
  <2>2. DOMAIN reader' = Group
    BY <2>1 DEF EdgeTypeOK
  <2>3. ASSUME NEW h \in Group
        PROVE reader'[h] \in [1 .. Attempts[h] -> Catalog(h) \cup {NoCatalog}]
    BY <1>g, <2>1 DEF EdgeTypeOK
  <2> QED
    BY <1>6, <2>2, <2>3 DEF ReadCatalog, EdgeTypeOK, runtimeVars, Catalog
<1>7. ASSUME NEW g \in Group, NEW n \in 1 .. Attempts[g], SetCatalog(g, n) PROVE EdgeTypeOK'
  <2>1. reader' = [reader EXCEPT ![g][n] = NoCatalog]
    BY <1>7 DEF SetCatalog, ApplyCatalog
  <2>2. DOMAIN reader' = Group
    BY <2>1 DEF EdgeTypeOK
  <2>3. ASSUME NEW h \in Group
        PROVE reader'[h] \in [1 .. Attempts[h] -> Catalog(h) \cup {NoCatalog}]
    BY <1>g, <2>1 DEF EdgeTypeOK
  <2>4. reader[g][n] \in Catalog(g)
    BY <1>7, <1>g DEF SetCatalog, ApplyCatalog
  <2>5. /\ catalog' \in [Group -> (SUBSET Key) \cup {NoCatalog}]
        /\ \A h \in Group : catalog'[h] \in Catalog(h) \cup {NoCatalog}
        /\ listener' \in [Key -> Listeners]
    <3>1. CASE online[g]
      <4>1. catalog' = [catalog EXCEPT ![g] = reader[g][n]]
            /\ listener' = Reconciled(mappings, online, catalog')
        BY <1>7, <3>1 DEF SetCatalog, ApplyCatalog
      <4> QED
        BY <1>g, <1>r, <2>4, <4>1 DEF EdgeTypeOK, Catalog
    <3>2. CASE ~online[g]
      BY <1>7, <1>g, <1>t, <3>2 DEF SetCatalog, ApplyCatalog, EdgeTypeOK
    <3> QED
      BY <3>1, <3>2
  <2> QED
    BY <1>7, <2>2, <2>3, <2>5 DEF SetCatalog, ApplyCatalog, EdgeTypeOK, Catalog
<1>8. CASE SetMappings
  <2>1. PICK m \in MappingLists : mappings' = m /\ listener' = Reconciled(m, online, catalog)
    BY <1>8 DEF SetMappings
  <2>2. m \in [Key -> Port \cup {NoPort}]
    OBVIOUS
  <2>3. Reconciled(m, online, catalog) \in [Key -> Listeners]
    BY <1>t, <2>2, ReconciledTyped
  <2> QED
    BY <1>8, <2>1, <2>3 DEF SetMappings, EdgeTypeOK, Catalog
<1>9. CASE RetryFailedListeners
  <2>1. ASSUME NEW k \in Key, NEW held PROVE Listen(listener[k].port, held) \in Listeners
    BY <1>t DEF Listen, Listeners
  <2>2. listener' \in [Key -> Listeners]
    BY <1>9, <1>t, <2>1 DEF RetryFailedListeners, RetryUnder
  <2> QED
    BY <1>9, <2>2 DEF RetryFailedListeners, RetryUnder, EdgeTypeOK, Catalog
<1>10. ASSUME NEW p \in Contested, TakePort(p) \/ ReleasePort(p) PROVE EdgeTypeOK'
  BY <1>10 DEF TakePort, ReleasePort, EdgeTypeOK, runtimeVars, Catalog
<1>11. ASSUME NEW c \in Conn, ForwardStep(c) \/ PeerStep(c) PROVE EdgeTypeOK'
  <2>1. conn' \in [Conn -> Conns]
    <3>0. /\ Ended(c) \in [Conn -> Conns] /\ Returning(c) \in [Conn -> Conns]
          /\ [conn EXCEPT ![c].socket = "shut"] \in [Conn -> Conns]
      BY ConnsTyped
    <3>1. ASSUME NEW from, NEW to \in ConnAt, ConnStep(c, from, to) PROVE conn' \in [Conn -> Conns]
      BY <3>1, ConnsTyped DEF ConnStep
    <3>2. conn[c] \in Conns
      BY <1>t
    <3>3. ASSUME NEW k \in Key, Accept(c, k) PROVE conn' \in [Conn -> Conns]
      <4>1. [Free EXCEPT !.at = "accepted", !.key = k, !.socket = "open"] \in Conns
        BY FreeTyped DEF Free, Conns, ConnAt
      <4> QED
        BY <1>t, <3>3, <4>1 DEF Accept
    <3>4. CASE CurrentSession(c)
      <4>1. GroupOf[conn[c].key] \in Group
        BY <3>2 DEF Conns
      <4>2. session[GroupOf[conn[c].key]] \in Nat
        BY <4>1 DEF EdgeTypeOK
      <4> DEFINE next == [conn[c] EXCEPT !.at = "fetched",
                                         !.session = session[GroupOf[conn[c].key]]]
      <4>3. next \in Conns
        BY <3>2, <4>2 DEF Conns, ConnAt
      <4>4. conn' = Ended(c) \/ conn' = [conn EXCEPT ![c] = next]
        BY <1>t, <3>2, <3>4 DEF CurrentSession, Conns
      <4> HIDE DEF next
      <4>5. [conn EXCEPT ![c] = next] \in [Conn -> Conns]
        BY <1>t, <4>3
      <4> QED
        BY <3>0, <4>4, <4>5
    <3>5. CASE DialAccepted(c)
      <4> DEFINE next == [conn[c] EXCEPT !.at = "bridge", !.copies = {"in", "out"}]
      <4>1. next \in Conns
        BY <3>2 DEF Conns, ConnAt
      <4>2. conn' = [conn EXCEPT ![c] = next]
        BY <1>t, <3>2, <3>5 DEF DialAccepted, Conns
      <4> HIDE DEF next
      <4> QED
        BY <1>t, <4>1, <4>2
    <3>6. ASSUME NEW way, CopyEnds(c, way) PROVE conn' \in [Conn -> Conns]
      <4> DEFINE next == [conn[c] EXCEPT !.copies = conn[c].copies \ {way}]
      <4>1. next \in Conns
        BY <3>2 DEF Conns
      <4>2. conn' = Returning(c) \/ conn' = [conn EXCEPT ![c] = next]
        BY <1>t, <3>2, <3>6 DEF CopyEnds, Conns
      <4> HIDE DEF next
      <4>5. [conn EXCEPT ![c] = next] \in [Conn -> Conns]
        BY <1>t, <4>1
      <4> QED
        BY <3>0, <4>2, <4>5
    <3>7. ASSUME Admit(c) \/ TrackLocal(c) \/ OpenStream(c) PROVE conn' \in [Conn -> Conns]
      BY <3>1, <3>7 DEF Admit, TrackLocal, OpenStream, ConnAt
    <3>8. ASSUME RefuseAtLimit(c) \/ OpenFails(c) \/ DialRefused(c) \/ LeaveForward(c)
                 \/ AppCloses(c)
          PROVE conn' \in [Conn -> Conns]
      BY <3>0, <3>8 DEF RefuseAtLimit, OpenFails, DialRefused, LeaveForward, AppCloses
    <3>9. ASSUME InEnds(c) \/ OutEnds(c) \/ RemoteFinishes(c) PROVE conn' \in [Conn -> Conns]
      BY <3>6, <3>9 DEF InEnds, OutEnds, RemoteFinishes
    <3> QED
      BY <1>11, <3>3, <3>4, <3>5, <3>7, <3>8, <3>9 DEF ForwardStep, PeerStep
  <2>2. UNCHANGED <<runtimeVars, link, reader, process, foreign>>
    BY <1>11
    DEF ForwardStep, PeerStep, Accept, CurrentSession, DialAccepted, CopyEnds, Admit,
        RefuseAtLimit, TrackLocal, OpenStream, OpenFails, DialRefused, InEnds, OutEnds,
        LeaveForward, RemoteFinishes, AppCloses, ConnStep
  <2>3. process' \in {"running", "stopping", "closing", "waiting", "returned"}
    BY <2>2 DEF EdgeTypeOK
  <2> QED
    BY <1>1, <2>1, <2>2, <2>3
<1>12. CASE ShutdownLocked
  <2>1. /\ listener' \in [Key -> Listeners] /\ session' \in [Group -> Nat]
        /\ \A g \in Group : session'[g] = 0
    BY <1>12 DEF ShutdownLocked, Shutdown, NoListener, Listeners
  <2>2. conn' \in [Conn -> Conns]
    BY <1>12, DoomTyped DEF ShutdownLocked, Shutdown
  <2> QED
    BY <1>12, <2>1, <2>2 DEF ShutdownLocked, Shutdown, EdgeTypeOK, Catalog
<1>13. CASE Cancel \/ ShutdownCloses \/ WaitForAll
  <2>1. CASE Cancel
    BY <1>1, <1>t, <2>1 DEF Cancel
  <2>2. CASE ShutdownCloses
    BY <1>1, <2>2, DoomTyped DEF ShutdownCloses
  <2>3. CASE WaitForAll
    BY <1>1, <1>t, <2>3 DEF WaitForAll
  <2> QED
    BY <1>13, <2>1, <2>2, <2>3
<1>14. CASE UNCHANGED edgeVars
  BY <1>14 DEF edgeVars, runtimeVars, EdgeTypeOK, Catalog
<1> QED
  BY <1>2, <1>4, <1>5, <1>6, <1>7, <1>8, <1>9, <1>10, <1>11, <1>12, <1>13, <1>14
  DEF EdgeNext, SessionStep, ProcessStep

\* Every variable of the edge keeps its type (internal/client/edge.go).
THEOREM EdgeTypeCorrect == EdgeSpec => []EdgeTypeOK
  BY EdgeInitTyped, EdgeStepTyped, PTL DEF EdgeSpec

-----------------------------------------------------------------------------
(***************************************************************************)
(* The part of the invariant that the listeners depend on.                 *)
(***************************************************************************)
RoutesDown ==
  \A g \in Group : link[g].at \in {"connecting", "detached", "ended"} => ~online[g]

ListenersInv ==
  /\ EdgeTypeOK
  /\ LoopsEnded
  /\ RoutesDown
  /\ OfflineOffersNothing
  /\ ListenersMatch
  /\ NoListenerOnceStopped
  /\ NoForwardingAfterReturn

\* Nothing is wanted once every session loop has ended.
LEMMA NothingDesired ==
  ASSUME NEW maps, NEW k \in Key, ~online[GroupOf[k]]
  PROVE  k \notin Desired(maps, online, catalog)
  BY DEF Desired

\* Initially.
LEMMA ListenersInit == EdgeInit => ListenersInv
<1> USE EdgeAssumption
<1> SUFFICES ASSUME EdgeInit PROVE ListenersInv
    OBVIOUS
<1>1. LoopsEnded /\ NoListenerOnceStopped /\ NoForwardingAfterReturn
  BY DEF EdgeInit, LoopsEnded, NoListenerOnceStopped, NoForwardingAfterReturn, Closed
<1>2. RoutesDown /\ OfflineOffersNothing
  BY DEF EdgeInit, RoutesDown, OfflineOffersNothing
<1>3. ListenersMatch
  BY DEF EdgeInit, ListenersMatch, Desired
<1> QED
  BY <1>1, <1>2, <1>3, EdgeInitTyped DEF ListenersInv

\* A step that only moves connections keeps it: a session that ended is not
\* alive, so nothing can start to forward once the process has returned.
LEMMA ConnStepInv ==
  ASSUME ListenersInv, EdgeTypeOK', NEW c \in Conn, ForwardStep(c) \/ PeerStep(c)
  PROVE  ListenersInv'
<1> USE EdgeAssumption
<1>1. UNCHANGED <<runtimeVars, link, reader, process, foreign>>
  BY DEF ForwardStep, PeerStep, Accept, CurrentSession, DialAccepted, CopyEnds, Admit,
         RefuseAtLimit, TrackLocal, OpenStream, OpenFails, DialRefused, InEnds, OutEnds,
         LeaveForward, RemoteFinishes, AppCloses, ConnStep
<1>2. /\ LoopsEnded' /\ RoutesDown' /\ OfflineOffersNothing' /\ ListenersMatch'
      /\ NoListenerOnceStopped'
  BY <1>1
  DEF ListenersInv, LoopsEnded, RoutesDown, OfflineOffersNothing, ListenersMatch,
      NoListenerOnceStopped, Closed, Desired, runtimeVars
<1>3. NoForwardingAfterReturn'
  <2> SUFFICES ASSUME process = "returned", NEW d \in Conn,
                      conn'[d].at \in {"stream", "bridge"}
               PROVE  FALSE
    BY <1>1 DEF NoForwardingAfterReturn
  <2>1. conn[d].at \notin {"stream", "bridge"} /\ conn[c].at \notin {"stream", "bridge"}
    BY DEF ListenersInv, NoForwardingAfterReturn
  <2>2. /\ conn \in [Conn -> Conns]
        /\ conn[c] \in Conns
    BY DEF ListenersInv, EdgeTypeOK
  <2>3. ~SessionAlive(c)
    <3>1. GroupOf[conn[c].key] \in Group
      BY <2>2 DEF Conns
    <3>2. link[GroupOf[conn[c].key]].at = "ended"
      BY <3>1 DEF ListenersInv, LoopsEnded, Closed
    <3> QED
      BY <3>2 DEF SessionAlive, Alive
  <2>4. /\ ~OpenStream(c) /\ ~DialAccepted(c) /\ ~DialRefused(c)
        /\ ~InEnds(c) /\ ~OutEnds(c) /\ ~RemoteFinishes(c)
    BY <2>1, <2>3
    DEF OpenStream, DialAccepted, DialRefused, InEnds, OutEnds, RemoteFinishes, CopyEnds
  <2>5. ASSUME NEW e \in Conn, NEW from, NEW to \in {"admitted", "tracked"}, ConnStep(c, from, to)
        PROVE  conn'[d].at \notin {"stream", "bridge"}
    BY <2>1, <2>2, <2>5 DEF ConnStep
  <2>6. CASE Admit(c) \/ TrackLocal(c)
    BY <2>5, <2>6 DEF Admit, TrackLocal
  <2>7. CASE CurrentSession(c)
    BY <2>1, <2>2, <2>7 DEF CurrentSession, Ended, Free, Conns
  <2>8. CASE RefuseAtLimit(c) \/ OpenFails(c) \/ LeaveForward(c)
    <3>1. conn' = Ended(c) \/ conn' = Returning(c)
      BY <2>8 DEF RefuseAtLimit, OpenFails, LeaveForward
    <3>2. Free.at = "free" /\ [Free EXCEPT !.at = "leaving", !.key = conn[c].key].at = "leaving"
      BY DEF Free
    <3>3. conn'[d] \in {conn[d], Free, [Free EXCEPT !.at = "leaving", !.key = conn[c].key]}
      BY <2>2, <3>1 DEF Ended, Returning
    <3> QED
      BY <2>1, <3>2, <3>3
  <2>9. CASE AppCloses(c)
    BY <2>1, <2>2, <2>9 DEF AppCloses, Conns
  <2>10. ASSUME NEW k \in Key, Accept(c, k) PROVE FALSE
    BY <2>1, <2>2, <2>10 DEF Accept, Free
  <2> QED
    BY <2>4, <2>6, <2>7, <2>8, <2>9, <2>10 DEF ForwardStep, PeerStep
<1> QED
  BY <1>2, <1>3 DEF ListenersInv

\* Closing local connections starts no forwarding.
LEMMA ClosingForwardsNothing ==
  ASSUME EdgeTypeOK, NEW S, conn' = Doom(S) \/ conn' = CloseDoomed(S), NEW c \in Conn
  PROVE  conn'[c].at = conn[c].at
<1>1. conn[c] \in Conns
  BY DEF EdgeTypeOK
<1> QED
  BY <1>1 DEF Doom, CloseDoomed, Conns

\* Every step keeps it.
LEMMA ListenersStep == ListenersInv /\ [EdgeNext]_edgeVars => ListenersInv'
<1> USE EdgeAssumption
<1> SUFFICES ASSUME ListenersInv, [EdgeNext]_edgeVars PROVE ListenersInv'
    OBVIOUS
<1>t. EdgeTypeOK /\ EdgeTypeOK'
  BY EdgeStepTyped DEF ListenersInv
<1>u. /\ LoopsEnded /\ RoutesDown /\ OfflineOffersNothing /\ ListenersMatch
      /\ NoListenerOnceStopped /\ NoForwardingAfterReturn
  BY DEF ListenersInv
<1>w. ASSUME NEW g \in Group, link[g].at # "ended" PROVE ~Closed
  BY <1>u, <1>w DEF LoopsEnded
<1>m. ASSUME NEW maps, listener' = Reconciled(maps, online', catalog'), mappings' = maps,
             ~Closed, process' = process
      PROVE  /\ ListenersMatch' /\ NoListenerOnceStopped' /\ LoopsEnded'
             /\ NoForwardingAfterReturn'
  <2>1. ListenersMatch'
    BY <1>m, ReconciledMatches DEF ListenersMatch, Desired
  <2> QED
    BY <1>m, <2>1 DEF NoListenerOnceStopped, LoopsEnded, Closed, NoForwardingAfterReturn
<1>2. ASSUME NEW g \in Group, AttachSession(g) PROVE ListenersInv'
  <2>1. /\ link' = [link EXCEPT ![g] = [at |-> "up", number |-> @.number + 1]]
        /\ online' = [online EXCEPT ![g] = TRUE]
        /\ catalog' = [catalog EXCEPT ![g] = NoCatalog]
        /\ listener' = Reconciled(mappings, online', catalog')
        /\ process' = process /\ mappings' = mappings /\ link[g].at = "connecting"
    BY <1>2 DEF AttachSession, Attach
  <2>2. ListenersMatch' /\ NoListenerOnceStopped' /\ LoopsEnded' /\ NoForwardingAfterReturn'
    BY <1>w, <1>m, <2>1
  <2>3. RoutesDown' /\ OfflineOffersNothing'
    BY <1>t, <1>u, <2>1 DEF EdgeTypeOK, RoutesDown, OfflineOffersNothing
  <2> QED
    BY <1>t, <2>2, <2>3 DEF ListenersInv
<1>3. ASSUME NEW g \in Group, DetachSession(g) PROVE ListenersInv'
  <2>1. /\ link' = [link EXCEPT ![g].at = "detached"]
        /\ online' = [online EXCEPT ![g] = FALSE]
        /\ catalog' = [catalog EXCEPT ![g] = NoCatalog]
        /\ listener' = Reconciled(mappings, online', catalog')
        /\ process' = process /\ mappings' = mappings /\ link[g].at = "dead"
    BY <1>3 DEF DetachSession, Detach
  <2>2. ListenersMatch' /\ NoListenerOnceStopped' /\ LoopsEnded' /\ NoForwardingAfterReturn'
    BY <1>w, <1>m, <2>1
  <2>3. RoutesDown' /\ OfflineOffersNothing'
    BY <1>t, <1>u, <2>1 DEF EdgeTypeOK, RoutesDown, OfflineOffersNothing
  <2> QED
    BY <1>t, <2>2, <2>3 DEF ListenersInv
<1>4. ASSUME NEW g \in Group, LinkFails(g) \/ CloseActive(g) \/ EndLoop(g) PROVE ListenersInv'
  <2>1. PICK place \in {"dead", "connecting", "ended"} :
          /\ link' = [link EXCEPT ![g].at = place]
          /\ UNCHANGED <<runtimeVars, process, foreign>>
          /\ link[g].at # "ended"
          /\ place # "dead" => link[g].at \in {"connecting", "detached"}
    BY <1>4 DEF LinkFails, CloseActive, EndLoop
  <2>2. ~Closed /\ ~Closed'
    BY <1>w, <2>1 DEF Closed
  <2>3. RoutesDown'
    BY <1>t, <1>u, <2>1 DEF EdgeTypeOK, RoutesDown, runtimeVars
  <2>4. ListenersMatch' /\ OfflineOffersNothing'
    BY <1>u, <2>1 DEF ListenersMatch, OfflineOffersNothing, Desired, runtimeVars
  <2>5. NoListenerOnceStopped' /\ LoopsEnded' /\ NoForwardingAfterReturn'
    BY <2>2 DEF NoListenerOnceStopped, LoopsEnded, Closed, NoForwardingAfterReturn
  <2> QED
    BY <1>t, <2>3, <2>4, <2>5 DEF ListenersInv
<1>5. ASSUME NEW g \in Group, ReadCatalog(g) PROVE ListenersInv'
  <2>1. UNCHANGED <<runtimeVars, link, conn, process, foreign>>
    BY <1>5 DEF ReadCatalog
  <2> QED
    BY <1>t, <1>u, <2>1
    DEF ListenersInv, LoopsEnded, RoutesDown, OfflineOffersNothing, ListenersMatch,
        NoListenerOnceStopped, NoForwardingAfterReturn, Closed, Desired, runtimeVars
<1>6. ASSUME NEW g \in Group, NEW n \in 1 .. Attempts[g], SetCatalog(g, n) PROVE ListenersInv'
  <2>1. UNCHANGED <<mappings, session, online, link, conn, process, foreign>>
    BY <1>6 DEF SetCatalog, ApplyCatalog
  <2>2. LoopsEnded' /\ RoutesDown' /\ NoForwardingAfterReturn'
    BY <1>u, <2>1 DEF LoopsEnded, RoutesDown, NoForwardingAfterReturn, Closed
  <2>3. CASE online[g]
    <3>1. /\ catalog' = [catalog EXCEPT ![g] = reader[g][n]]
          /\ listener' = Reconciled(mappings, online', catalog')
      BY <1>6, <2>1, <2>3 DEF SetCatalog, ApplyCatalog
    <3>2. link[g].at # "ended"
      BY <1>u, <2>3 DEF RoutesDown
    <3>3. ListenersMatch' /\ NoListenerOnceStopped'
      BY <1>w, <1>m, <2>1, <3>1, <3>2
    <3>4. OfflineOffersNothing'
      BY <1>t, <1>u, <2>1, <2>3, <3>1 DEF EdgeTypeOK, OfflineOffersNothing
    <3> QED
      BY <1>t, <2>2, <3>3, <3>4 DEF ListenersInv
  <2>4. CASE ~online[g]
    <3>1. UNCHANGED <<catalog, listener>>
      BY <1>6, <2>4 DEF SetCatalog, ApplyCatalog
    <3>2. ListenersMatch' /\ NoListenerOnceStopped' /\ OfflineOffersNothing'
      BY <1>u, <2>1, <3>1
      DEF ListenersMatch, NoListenerOnceStopped, OfflineOffersNothing, Desired
    <3> QED
      BY <1>t, <2>2, <3>2 DEF ListenersInv
  <2> QED
    BY <2>3, <2>4
<1>7. CASE SetMappings
  <2>1. PICK m \in MappingLists :
          /\ mappings' = m /\ listener' = Reconciled(m, online, catalog)
          /\ UNCHANGED <<session, online, catalog, link, conn, process, foreign>>
    BY <1>7 DEF SetMappings
  <2>2. LoopsEnded' /\ RoutesDown' /\ NoForwardingAfterReturn' /\ OfflineOffersNothing'
    BY <1>u, <2>1
    DEF LoopsEnded, RoutesDown, NoForwardingAfterReturn, OfflineOffersNothing, Closed
  <2>3. ListenersMatch'
    BY <2>1, ReconciledMatches DEF ListenersMatch, Desired
  <2>4. NoListenerOnceStopped'
    <3> SUFFICES ASSUME Closed, NEW k \in Key PROVE listener'[k] = NoListener
      BY <2>1 DEF NoListenerOnceStopped, Closed
    <3>1. ~online[GroupOf[k]]
      BY <1>u DEF LoopsEnded, RoutesDown
    <3> QED
      BY <2>1, <3>1, NothingDesired, ReconciledMatches
  <2> QED
    BY <1>t, <2>2, <2>3, <2>4 DEF ListenersInv
<1>8. CASE RetryFailedListeners
  <2>1. UNCHANGED <<mappings, session, online, catalog, link, conn, process, foreign>>
    BY <1>8 DEF RetryFailedListeners, RetryUnder
  <2>2. ASSUME NEW k \in Key
        PROVE  /\ listener'[k].port = listener[k].port
               /\ listener[k] = NoListener => listener'[k] = NoListener
    BY <1>8 DEF RetryFailedListeners, RetryUnder, Failed, Listen, NoListener
  <2>3. ListenersMatch' /\ NoListenerOnceStopped'
    BY <1>u, <2>1, <2>2 DEF ListenersMatch, NoListenerOnceStopped, Desired
  <2> QED
    BY <1>t, <1>u, <2>1, <2>3
    DEF ListenersInv, LoopsEnded, RoutesDown, OfflineOffersNothing, NoForwardingAfterReturn, Closed
<1>9. ASSUME NEW p \in Contested, TakePort(p) \/ ReleasePort(p) PROVE ListenersInv'
  <2>1. UNCHANGED <<runtimeVars, link, reader, conn, process>>
    BY <1>9 DEF TakePort, ReleasePort
  <2> QED
    BY <1>t, <1>u, <2>1
    DEF ListenersInv, LoopsEnded, RoutesDown, OfflineOffersNothing, ListenersMatch,
        NoListenerOnceStopped, NoForwardingAfterReturn, Closed, Desired, runtimeVars
<1>10. ASSUME NEW c \in Conn, ForwardStep(c) \/ PeerStep(c) PROVE ListenersInv'
  BY <1>10, <1>t, ConnStepInv
<1>11. CASE Cancel
  BY <1>11, <1>t, <1>u
  DEF Cancel, ListenersInv, LoopsEnded, RoutesDown, OfflineOffersNothing, ListenersMatch,
      NoListenerOnceStopped, NoForwardingAfterReturn, Closed, Desired, runtimeVars
<1>12. CASE ShutdownLocked
  BY <1>12, <1>t, <1>u
  DEF ShutdownLocked, Shutdown, WorkersDone, ListenersInv, LoopsEnded, RoutesDown,
      OfflineOffersNothing, ListenersMatch, NoListenerOnceStopped, NoForwardingAfterReturn, Closed
<1>13. CASE ShutdownCloses \/ WaitForAll
  <2>1. UNCHANGED <<runtimeVars, link>> /\ process' \in {"waiting", "returned"} /\ Closed
    BY <1>13 DEF ShutdownCloses, WaitForAll, Closed
  <2>2. NoForwardingAfterReturn'
    <3>1. CASE ShutdownCloses
      BY <3>1 DEF ShutdownCloses, NoForwardingAfterReturn
    <3>2. CASE WaitForAll
      BY <3>2 DEF WaitForAll, Workers, ActiveConns, NoForwardingAfterReturn
    <3> QED
      BY <1>13, <3>1, <3>2
  <2> QED
    BY <1>t, <1>u, <2>1, <2>2
    DEF ListenersInv, LoopsEnded, RoutesDown, OfflineOffersNothing, ListenersMatch,
        NoListenerOnceStopped, Closed, runtimeVars
<1>14. CASE UNCHANGED edgeVars
  BY <1>14, <1>t, <1>u
  DEF edgeVars, runtimeVars, ListenersInv, LoopsEnded, RoutesDown, OfflineOffersNothing,
      ListenersMatch, NoListenerOnceStopped, NoForwardingAfterReturn, Closed, Desired
<1> QED
  BY <1>2, <1>3, <1>4, <1>5, <1>6, <1>7, <1>8, <1>9, <1>10, <1>11, <1>12, <1>13, <1>14
  DEF EdgeNext, SessionStep, ProcessStep

\* A listener that fails was refused a port somebody else holds.
LEMMA StepFailsOnForeign ==
  ListenersInv /\ ListenersInv' /\ [EdgeNext]_edgeVars
    => \A k \in Key : listener'[k].state = "failed" /\ listener'[k] # listener[k]
                        => listener'[k].port \in foreign
<1> USE EdgeAssumption
<1> SUFFICES ASSUME ListenersInv, ListenersInv', [EdgeNext]_edgeVars, NEW k \in Key,
                    listener'[k].state = "failed", listener'[k] # listener[k]
             PROVE  listener'[k].port \in foreign
    OBVIOUS
<1>t. EdgeTypeOK /\ EdgeTypeOK' /\ listener[k] \in Listeners
  BY DEF ListenersInv, EdgeTypeOK
<1>1. CASE \E m \in MappingLists : \E on, cats : listener' = Reconciled(m, on, cats)
  BY <1>1, ReconciledFailsOnForeign
<1>2. ASSUME NEW g \in Group, SessionStep(g), listener' # listener
      PROVE  \E m \in MappingLists : \E on, cats : listener' = Reconciled(m, on, cats)
  <2>1. mappings \in MappingLists
    BY <1>t DEF EdgeTypeOK
  <2>2. listener' = Reconciled(mappings, online', catalog')
        \/ listener' = Reconciled(mappings, online, catalog')
    BY <1>2
    DEF SessionStep, AttachSession, Attach, LinkFails, DetachSession, Detach, CloseActive,
        EndLoop, ReadCatalog, SetCatalog, ApplyCatalog, runtimeVars
  <2> QED
    BY <2>1, <2>2
<1>3. CASE SetMappings
  BY <1>1, <1>3 DEF SetMappings
<1>4. ~RetryFailedListeners
  <2> SUFFICES ASSUME RetryFailedListeners PROVE listener'[k] = listener[k]
    OBVIOUS
  <2>1. CASE k \in Failed
    <3>1. listener[k].state = "failed" /\ listener'[k] = [port |-> listener[k].port, state |-> "failed"]
      BY <2>1 DEF RetryFailedListeners, RetryUnder, Listen, Failed
    <3> QED
      BY <1>t, <3>1 DEF Listeners
  <2>2. CASE k \notin Failed
    BY <2>2 DEF RetryFailedListeners, RetryUnder
  <2> QED
    BY <2>1, <2>2
<1>5. ~ShutdownLocked
  BY DEF ShutdownLocked, Shutdown, NoListener
<1>6. ~\E c \in Conn : ForwardStep(c) \/ PeerStep(c)
  BY DEF ForwardStep, PeerStep, Accept, CurrentSession, DialAccepted, CopyEnds, Admit,
         RefuseAtLimit, TrackLocal, OpenStream, OpenFails, DialRefused, InEnds, OutEnds,
         LeaveForward, RemoteFinishes, AppCloses, ConnStep, runtimeVars
<1>7. /\ ~\E p \in Contested : TakePort(p) \/ ReleasePort(p)
      /\ ~Cancel /\ ~ShutdownCloses /\ ~WaitForAll /\ ~UNCHANGED edgeVars
  BY DEF TakePort, ReleasePort, Cancel, ShutdownCloses, WaitForAll, edgeVars, runtimeVars
<1> QED
  BY <1>1, <1>2, <1>3, <1>4, <1>5, <1>6, <1>7 DEF EdgeNext, ProcessStep

-----------------------------------------------------------------------------
(***************************************************************************)
(* Routes, local sockets and ports.                                        *)
(***************************************************************************)

\* Closing a snapshot changes no connection but its socket.
LEMMA DoomMarks ==
  ASSUME conn \in [Conn -> Conns], NEW S, conn' = Doom(S), NEW c \in Conn
  PROVE  /\ UNCHANGED <<conn[c].at, conn[c].key, conn[c].session, conn[c].copies>>
         /\ conn'[c].socket = IF c \in S /\ conn[c].socket = "open"
                              THEN "doomed" ELSE conn[c].socket
BY DEF Doom, Conns

LEMMA CloseDoomedShuts ==
  ASSUME conn \in [Conn -> Conns], NEW S, conn' = CloseDoomed(S), NEW c \in Conn
  PROVE  /\ UNCHANGED <<conn[c].at, conn[c].key, conn[c].session, conn[c].copies>>
         /\ conn'[c].socket = IF conn[c].socket = "doomed" /\ GroupOf[conn[c].key] \in S
                              THEN "shut" ELSE conn[c].socket
BY DEF CloseDoomed, Conns

\* A session loop moves on: routes follow it.
LEMMA RoutesStep ==
  ASSUME EdgeTypeOK, \A g \in Group : RouteRegistered(g), LoopsEnded, [EdgeNext]_edgeVars
  PROVE  \A g \in Group : RouteRegistered(g)'
<1> SUFFICES ASSUME NEW g \in Group PROVE RouteRegistered(g)'
  OBVIOUS
<1>t. /\ link \in [Group -> [at : LinkAt, number : Nat]]
      /\ session \in [Group -> Nat] /\ online \in [Group -> BOOLEAN]
  BY DEF EdgeTypeOK
<1>1. ASSUME NEW h \in Group, AttachSession(h) PROVE RouteRegistered(g)'
  BY <1>1, <1>t DEF AttachSession, Attach, RouteRegistered
<1>2. ASSUME NEW h \in Group, DetachSession(h) PROVE RouteRegistered(g)'
  BY <1>2, <1>t DEF DetachSession, Detach, RouteRegistered
<1>3. ASSUME NEW h \in Group, LinkFails(h) \/ CloseActive(h) \/ EndLoop(h)
      PROVE  RouteRegistered(g)'
  BY <1>3, <1>t DEF LinkFails, CloseActive, EndLoop, RouteRegistered, runtimeVars
<1>4. CASE ShutdownLocked
  BY <1>4, <1>t DEF ShutdownLocked, Shutdown, WorkersDone, RouteRegistered
<1>5. CASE UNCHANGED <<session, online, link>>
  BY <1>5 DEF RouteRegistered
<1>6. ASSUME NEW h \in Group, ReadCatalog(h) \/ \E n \in 1 .. Attempts[h] : SetCatalog(h, n)
      PROVE  UNCHANGED <<session, online, link>>
  BY <1>6 DEF ReadCatalog, SetCatalog, ApplyCatalog, runtimeVars
<1>7. ASSUME NEW c \in Conn, ForwardStep(c) \/ PeerStep(c)
      PROVE  UNCHANGED <<session, online, link>>
  BY <1>7
  DEF ForwardStep, PeerStep, Accept, CurrentSession, DialAccepted, CopyEnds, Admit,
      RefuseAtLimit, TrackLocal, OpenStream, OpenFails, DialRefused, InEnds, OutEnds,
      LeaveForward, RemoteFinishes, AppCloses, ConnStep, runtimeVars
<1>8. ASSUME \/ SetMappings \/ RetryFailedListeners \/ Cancel \/ ShutdownCloses
             \/ WaitForAll \/ UNCHANGED edgeVars
             \/ \E p \in Contested : TakePort(p) \/ ReleasePort(p)
      PROVE  UNCHANGED <<session, online, link>>
  BY <1>8
  DEF SetMappings, RetryFailedListeners, RetryUnder, Cancel, ShutdownCloses, WaitForAll,
      TakePort, ReleasePort, edgeVars, runtimeVars
<1> QED
  BY <1>1, <1>2, <1>3, <1>4, <1>5, <1>6, <1>7, <1>8
  DEF EdgeNext, SessionStep, ProcessStep

\* Local sockets, while the connections go on by themselves.
LEMMA LocalsForward ==
  ASSUME EdgeTypeOK, \A c \in Conn : LocalFollows(c), \A g \in Group : RouteRegistered(g),
         NEW c \in Conn, ForwardStep(c) \/ PeerStep(c), NEW d \in Conn
  PROVE  LocalFollows(d)'
<1>t. conn \in [Conn -> Conns] /\ link \in [Group -> [at : LinkAt, number : Nat]]
  BY DEF EdgeTypeOK
<1>0. UNCHANGED <<session, link, process>>
  BY DEF ForwardStep, PeerStep, Accept, CurrentSession, DialAccepted, CopyEnds, Admit,
         RefuseAtLimit, TrackLocal, OpenStream, OpenFails, DialRefused, InEnds, OutEnds,
         LeaveForward, RemoteFinishes, AppCloses, ConnStep, runtimeVars
<1>f. /\ Free.at = "free" /\ Free.copies = {} /\ Free.socket = "shut"
      /\ Free \in Conns
  BY FreeTyped DEF Free
<1>u. LocalFollows(c) /\ LocalFollows(d) /\ conn[c] \in Conns
  BY <1>t
<1>d. conn'[d] = conn[d] => LocalFollows(d)'
  BY <1>0, <1>u DEF LocalFollows, SessionAlive, Alive
<1>1. ASSUME NEW k \in Key, Accept(c, k) PROVE LocalFollows(d)'
  <2>1. conn' = [conn EXCEPT ![c] = [Free EXCEPT !.at = "accepted", !.key = k,
                                                !.socket = "open"]]
    BY <1>1 DEF Accept
  <2>2. conn'[c].at = "accepted" /\ conn'[c].socket = "open" /\ conn'[c].copies = {}
    BY <1>t, <1>f, <2>1 DEF Free
  <2> QED
    BY <1>d, <1>t, <2>1, <2>2 DEF LocalFollows
<1>2. CASE \/ RefuseAtLimit(c) \/ OpenFails(c) \/ DialRefused(c) \/ LeaveForward(c)
           \/ conn' = Ended(c) \/ conn' = Returning(c)
  <2>1. conn' = Ended(c) \/ conn' = Returning(c)
    BY <1>2 DEF RefuseAtLimit, OpenFails, DialRefused, LeaveForward
  <2>2. /\ conn'[c].at \in {"free", "leaving"}
        /\ conn'[c].socket = "shut" /\ conn'[c].copies = {}
    <3> DEFINE left == [Free EXCEPT !.at = "leaving", !.key = conn[c].key]
    <3>1. left.at = "leaving" /\ left.socket = "shut" /\ left.copies = {}
      BY DEF Free
    <3>2. conn'[c] = Free \/ conn'[c] = left
      BY <1>t, <2>1 DEF Ended, Returning
    <3> QED
      BY <1>f, <3>1, <3>2
  <2>3. d # c => conn'[d] = conn[d]
    BY <1>t, <2>1 DEF Ended, Returning
  <2> QED
    BY <1>d, <2>2, <2>3 DEF LocalFollows
<1>3. CASE CurrentSession(c) /\ conn' # Ended(c)
  <2>1. /\ conn[c].at = "accepted"
        /\ conn' = [conn EXCEPT ![c].at = "fetched",
                                ![c].session = session[GroupOf[conn[c].key]]]
    BY <1>3 DEF CurrentSession
  <2>2. /\ conn'[c].at = "fetched" /\ conn'[c].key = conn[c].key
        /\ conn'[c].socket = conn[c].socket /\ conn'[c].copies = conn[c].copies
    BY <1>t, <2>1 DEF Conns
  <2> QED
    BY <1>0, <1>d, <1>t, <1>u, <2>1, <2>2 DEF LocalFollows
<1>4. ASSUME NEW from, NEW to, ConnStep(c, from, to),
             from \in {"fetched", "admitted", "tracked"},
             to \in {"admitted", "tracked", "stream"},
             to = "stream" => SessionAlive(c)
      PROVE  LocalFollows(d)'
  <2>1. /\ conn[c].at = from /\ conn' = [conn EXCEPT ![c].at = to]
    BY <1>4 DEF ConnStep
  <2>2. /\ conn'[c].at = to /\ UNCHANGED <<conn[c].key, conn[c].session>>
        /\ conn'[c].socket = conn[c].socket /\ conn'[c].copies = conn[c].copies
    BY <1>t, <2>1 DEF Conns
  <2>3. to = "stream" => SessionAlive(c)'
    BY <1>0, <1>4, <2>2 DEF SessionAlive, Alive
  <2> QED
    BY <1>0, <1>4, <1>d, <1>t, <1>u, <2>1, <2>2, <2>3 DEF LocalFollows
<1>5. CASE DialAccepted(c)
  <2>1. /\ SessionAlive(c)
        /\ conn' = [conn EXCEPT ![c].at = "bridge", ![c].copies = {"in", "out"}]
    BY <1>5 DEF DialAccepted
  <2>2. /\ conn'[c].at = "bridge" /\ UNCHANGED <<conn[c].key, conn[c].session>>
        /\ conn'[c].socket = conn[c].socket /\ conn'[c].copies # {}
    BY <1>t, <2>1 DEF Conns
  <2>3. SessionAlive(c)'
    BY <1>0, <2>1, <2>2 DEF SessionAlive, Alive
  <2> QED
    BY <1>0, <1>d, <1>t, <1>u, <2>1, <2>2, <2>3 DEF LocalFollows
<1>6. CASE InEnds(c) \/ OutEnds(c) \/ RemoteFinishes(c)
  <2>1. PICK way \in {"in", "out"} : CopyEnds(c, way)
    BY <1>6 DEF InEnds, OutEnds, RemoteFinishes
  <2>2. CASE conn[c].copies = {way}
    BY <1>2, <2>1, <2>2 DEF CopyEnds
  <2>3. CASE conn[c].copies # {way}
    <3>1. /\ conn[c].at = "bridge" /\ way \in conn[c].copies
          /\ conn' = [conn EXCEPT ![c].copies = @ \ {way}]
      BY <2>1, <2>3 DEF CopyEnds
    <3>2. /\ UNCHANGED <<conn[c].at, conn[c].key, conn[c].session, conn[c].socket>>
          /\ conn'[c].copies # {}
      BY <1>t, <2>3, <3>1 DEF Conns
    <3>3. SessionAlive(c)' <=> SessionAlive(c)
      BY <1>0, <3>2 DEF SessionAlive, Alive
    <3> QED
      BY <1>0, <1>d, <1>t, <1>u, <3>1, <3>2, <3>3 DEF LocalFollows
  <2> QED
    BY <2>2, <2>3
<1>7. CASE AppCloses(c)
  <2>1. conn' = [conn EXCEPT ![c].socket = "shut"]
    BY <1>7 DEF AppCloses
  <2>2. /\ UNCHANGED <<conn[c].at, conn[c].key, conn[c].session, conn[c].copies>>
        /\ conn'[c].socket = "shut"
    BY <1>t, <2>1 DEF Conns
  <2> QED
    BY <1>d, <1>t, <1>u, <2>1, <2>2 DEF LocalFollows
<1>8. CASE Admit(c) \/ TrackLocal(c) \/ OpenStream(c)
  BY <1>4, <1>8 DEF Admit, TrackLocal, OpenStream
<1> QED
  BY <1>1, <1>2, <1>3, <1>5, <1>6, <1>7, <1>8 DEF ForwardStep, PeerStep

\* Local sockets, while a session loop or the shutdown goes on.
LEMMA LocalsStep ==
  ASSUME EdgeTypeOK, \A c \in Conn : LocalFollows(c), \A g \in Group : RouteRegistered(g),
         LoopsEnded, [EdgeNext]_edgeVars
  PROVE  \A c \in Conn : LocalFollows(c)'
<1> SUFFICES ASSUME NEW c \in Conn PROVE LocalFollows(c)'
  OBVIOUS
<1> USE EdgeAssumption
<1>t. /\ conn \in [Conn -> Conns] /\ link \in [Group -> [at : LinkAt, number : Nat]]
      /\ conn[c] \in Conns /\ GroupOf[conn[c].key] \in Group
      /\ conn[c].at \in {"stream", "bridge"} => c \in ActiveConns
  BY DEF EdgeTypeOK, Conns, ActiveConns
<1> DEFINE h == GroupOf[conn[c].key]
           Forwarded == conn[c].at \in {"stream", "bridge"} /\ conn[c].socket = "open"
<1>u. /\ conn[c].at = "bridge" <=> conn[c].copies # {}
      /\ Forwarded => link[h].at \in {"up", "dead"} /\ link[h].number = conn[c].session
      /\ conn[c].socket = "doomed" => link[h].at = "detached" \/ process = "closing"
  <2>1. LocalFollows(c)
    OBVIOUS
  <2>2. SessionAlive(c) => link[h] = [at |-> "up", number |-> conn[c].session]
    BY DEF SessionAlive, Alive
  <2> QED
    BY <2>1, <2>2 DEF LocalFollows
<1>v. ASSUME UNCHANGED <<conn[c].at, conn[c].key, conn[c].session, conn[c].copies>>,
             conn'[c].socket = "open" => conn[c].socket = "open",
             Forwarded /\ conn'[c].socket = "open" =>
               link'[h] \in {[at |-> "up", number |-> conn[c].session],
                            [at |-> "dead", number |-> conn[c].session]},
             conn'[c].socket = "doomed" => link'[h].at = "detached" \/ process' = "closing"
      PROVE  LocalFollows(c)'
  BY <1>u, <1>v DEF LocalFollows, SessionAlive, Alive
<1>w. Forwarded => link[h] \in {[at |-> "up", number |-> conn[c].session],
                                [at |-> "dead", number |-> conn[c].session]}
  BY <1>t, <1>u
<1>k. /\ h = GroupOf[conn[c].key] /\ h \in Group
      /\ Forwarded <=> conn[c].at \in {"stream", "bridge"} /\ conn[c].socket = "open"
  BY <1>t
<1> HIDE DEF h, Forwarded
<1>1. ASSUME NEW g \in Group, AttachSession(g) PROVE LocalFollows(c)'
  <2>1. /\ link[g].at = "connecting" /\ UNCHANGED <<conn, process>>
        /\ \A i \in Group : i # g => link'[i] = link[i]
        /\ process \in {"running", "stopping"}
    BY <1>1, <1>t DEF AttachSession, Attach
  <2> QED
    BY <1>k, <1>u, <1>v, <1>w, <2>1
<1>2. ASSUME NEW g \in Group, LinkFails(g) PROVE LocalFollows(c)'
  <2>1. /\ link[g].at = "up" /\ UNCHANGED <<conn, process>>
        /\ \A i \in Group : link'[i] = IF i = g
                                       THEN [at |-> "dead", number |-> link[g].number]
                                       ELSE link[i]
    BY <1>2, <1>t DEF LinkFails
  <2> QED
    BY <1>k, <1>u, <1>v, <1>w, <2>1
<1>3. ASSUME NEW g \in Group, DetachSession(g) PROVE LocalFollows(c)'
  <2>1. /\ link[g].at = "dead" /\ link'[g].at = "detached" /\ process' = process
        /\ \A i \in Group : i # g => link'[i] = link[i]
        /\ conn' = Doom({d \in ActiveConns : GroupOf[conn[d].key] = g})
    BY <1>3, <1>t DEF DetachSession, Detach
  <2>2. /\ UNCHANGED <<conn[c].at, conn[c].key, conn[c].session, conn[c].copies>>
        /\ conn'[c].socket =
             IF c \in {d \in ActiveConns : GroupOf[conn[d].key] = g}
                  /\ conn[c].socket = "open"
             THEN "doomed" ELSE conn[c].socket
    BY <1>t, <2>1, DoomMarks
  <2> QED
    BY <1>t, <1>k, <1>u, <1>v, <1>w, <2>1, <2>2
<1>4. ASSUME NEW g \in Group, CloseActive(g) PROVE LocalFollows(c)'
  <2>1. /\ link[g].at = "detached" /\ link'[g].at = "connecting" /\ process' = process
        /\ \A i \in Group : i # g => link'[i] = link[i]
        /\ conn' = CloseDoomed({g})
    BY <1>4, <1>t DEF CloseActive
  <2>2. /\ UNCHANGED <<conn[c].at, conn[c].key, conn[c].session, conn[c].copies>>
        /\ conn'[c].socket = IF conn[c].socket = "doomed" /\ GroupOf[conn[c].key] \in {g}
                             THEN "shut" ELSE conn[c].socket
    BY <1>t, <2>1, CloseDoomedShuts
  <2> QED
    BY <1>t, <1>k, <1>u, <1>v, <1>w, <2>1, <2>2
<1>5. ASSUME NEW g \in Group, EndLoop(g) PROVE LocalFollows(c)'
  <2>1. /\ link[g].at = "connecting" /\ UNCHANGED <<conn, process>>
        /\ \A i \in Group : i # g => link'[i] = link[i]
    BY <1>5, <1>t DEF EndLoop
  <2> QED
    BY <1>k, <1>u, <1>v, <1>w, <2>1
<1>6. CASE ShutdownLocked
  <2>1. /\ process' = "closing" /\ link' = link /\ conn' = Doom(ActiveConns)
    BY <1>6 DEF ShutdownLocked, Shutdown
  <2>2. /\ UNCHANGED <<conn[c].at, conn[c].key, conn[c].session, conn[c].copies>>
        /\ conn'[c].socket = "open" => conn[c].socket = "open"
    BY <1>t, <2>1, DoomMarks
  <2> QED
    BY <1>t, <1>k, <1>u, <1>v, <1>w, <2>1, <2>2
<1>7. CASE ShutdownCloses
  <2>1. link' = link /\ conn' = CloseDoomed(Group)
    BY <1>7 DEF ShutdownCloses
  <2>2. /\ UNCHANGED <<conn[c].at, conn[c].key, conn[c].session, conn[c].copies>>
        /\ conn'[c].socket = IF conn[c].socket = "doomed" THEN "shut" ELSE conn[c].socket
    BY <1>t, <2>1, CloseDoomedShuts
  <2> QED
    BY <1>t, <1>k, <1>u, <1>v, <1>w, <2>1, <2>2
<1>8. CASE UNCHANGED <<conn, link>> /\ (process' = process \/ process # "closing")
  BY <1>8, <1>u DEF LocalFollows, SessionAlive, Alive
<1>9. ASSUME NEW g \in Group, ReadCatalog(g) \/ \E n \in 1 .. Attempts[g] : SetCatalog(g, n)
      PROVE  UNCHANGED <<conn, link, process>>
  BY <1>9 DEF ReadCatalog, SetCatalog, ApplyCatalog, runtimeVars
<1>10. ASSUME \/ SetMappings \/ RetryFailedListeners \/ Cancel \/ WaitForAll
              \/ UNCHANGED edgeVars
              \/ \E p \in Contested : TakePort(p) \/ ReleasePort(p)
       PROVE  UNCHANGED <<conn, link>> /\ (process' = process \/ process # "closing")
  BY <1>10
  DEF SetMappings, RetryFailedListeners, RetryUnder, Cancel, WaitForAll, TakePort,
      ReleasePort, edgeVars, runtimeVars
<1>11. ASSUME NEW d \in Conn, ForwardStep(d) \/ PeerStep(d) PROVE LocalFollows(c)'
  BY <1>11, LocalsForward
<1> QED
  BY <1>1, <1>2, <1>3, <1>4, <1>5, <1>6, <1>7, <1>8, <1>9, <1>10, <1>11
  DEF EdgeNext, SessionStep, ProcessStep

\* No two open listeners share a port: the saved list gives each its own.
LEMMA PortsApart ==
  ListenersInv =>
    \A j, k \in Key :
      listener[j].state = "open" /\ listener[k].state = "open" /\ j # k
        => listener[j].port # listener[k].port
<1> SUFFICES ASSUME ListenersInv, NEW j \in Key, NEW k \in Key, j # k,
                    listener[j].state = "open", listener[k].state = "open"
             PROVE  listener[j].port # listener[k].port
  OBVIOUS
<1>1. ~Closed
  BY DEF ListenersInv, NoListenerOnceStopped, Closed, NoListener
<1>2. \A i \in {j, k} : i \in Desired(mappings, online, catalog)
                          /\ listener[i].port = mappings[i]
  BY <1>1 DEF ListenersInv, ListenersMatch, Closed, NoListener, EdgeTypeOK
<1> QED
  BY <1>2, EdgeAssumption DEF Desired, ListenersInv, EdgeTypeOK

\* An open listener holds a port nobody else holds.
LEMMA PortsStep ==
  ASSUME ListenersInv, \A k \in Key : PortOwned(k), [EdgeNext]_edgeVars
  PROVE  \A k \in Key : PortOwned(k)'
<1> SUFFICES ASSUME NEW k \in Key, listener'[k].state = "open"
             PROVE  listener'[k].port \notin foreign'
  <2>1. ListenersInv'
    BY ListenersStep
  <2>2. (\A j, k \in Key :
           listener[j].state = "open" /\ listener[k].state = "open" /\ j # k
             => listener[j].port # listener[k].port)'
    BY <2>1, PortsApart, PTL
  <2> QED
    BY <2>2 DEF PortOwned
<1>u. listener[k].state = "open" => listener[k].port \notin foreign
  BY DEF PortOwned
<1>r. ASSUME NEW maps, NEW on, NEW cats, listener' = Reconciled(maps, on, cats),
             foreign' = foreign
      PROVE  listener'[k].port \notin foreign'
  <2>1. CASE k \in Kept(maps, on, cats)
    BY <1>r, <1>u, <2>1 DEF Reconciled, ReconciledUnder, Kept
  <2>2. CASE k \notin Kept(maps, on, cats)
    BY <1>r, <2>2 DEF Reconciled, ReconciledUnder, Listen, NoListener, Held
  <2> QED
    BY <2>1, <2>2
<1>1. ASSUME NEW g \in Group, SessionStep(g) PROVE listener'[k].port \notin foreign'
  <2>1. CASE UNCHANGED listener
    BY <1>1, <1>u, <2>1
    DEF SessionStep, AttachSession, Attach, LinkFails, DetachSession, Detach, CloseActive,
        EndLoop, ReadCatalog, SetCatalog, ApplyCatalog
  <2>2. CASE ~UNCHANGED listener
    <3>1. /\ foreign' = foreign
          /\ \/ listener' = Reconciled(mappings, online', catalog')
             \/ listener' = Reconciled(mappings, online, catalog')
      BY <1>1, <2>2
      DEF SessionStep, AttachSession, Attach, LinkFails, DetachSession, Detach,
          CloseActive, EndLoop, ReadCatalog, SetCatalog, ApplyCatalog, runtimeVars
    <3> QED
      BY <1>r, <3>1
  <2> QED
    BY <2>1, <2>2
<1>2. CASE SetMappings
  BY <1>2, <1>r DEF SetMappings
<1>3. CASE RetryFailedListeners
  BY <1>3, <1>u DEF RetryFailedListeners, RetryUnder, Listen
<1>4. ASSUME NEW p \in Contested, TakePort(p) \/ ReleasePort(p)
      PROVE  listener'[k].port \notin foreign'
  <2>1. listener' = listener
    BY <1>4 DEF TakePort, ReleasePort, runtimeVars
  <2> QED
    BY <1>4, <1>u, <2>1 DEF TakePort, ReleasePort, OpenPorts
<1>5. CASE ShutdownLocked
  BY <1>5 DEF ShutdownLocked, Shutdown, NoListener
<1>6. CASE UNCHANGED <<listener, foreign>>
  BY <1>6, <1>u
<1>7. ASSUME NEW c \in Conn, ForwardStep(c) \/ PeerStep(c)
      PROVE  UNCHANGED <<listener, foreign>>
  BY <1>7
  DEF ForwardStep, PeerStep, Accept, CurrentSession, DialAccepted, CopyEnds, Admit,
      RefuseAtLimit, TrackLocal, OpenStream, OpenFails, DialRefused, InEnds, OutEnds,
      LeaveForward, RemoteFinishes, AppCloses, ConnStep, runtimeVars
<1>8. ASSUME Cancel \/ ShutdownCloses \/ WaitForAll \/ UNCHANGED edgeVars
      PROVE  UNCHANGED <<listener, foreign>>
  BY <1>8 DEF Cancel, ShutdownCloses, WaitForAll, edgeVars, runtimeVars
<1> QED
  BY <1>1, <1>2, <1>3, <1>4, <1>5, <1>6, <1>7, <1>8 DEF EdgeNext, ProcessStep

-----------------------------------------------------------------------------
(***************************************************************************)
(* The whole invariant.                                                    *)
(***************************************************************************)
LEMMA EdgeInitInv == EdgeInit => EdgeInv
<1> SUFFICES ASSUME EdgeInit PROVE EdgeInv
  OBVIOUS
<1>1. ListenersInv
  BY ListenersInit
<1>2. ASSUME NEW g \in Group PROVE RouteRegistered(g)
  BY DEF EdgeInit, RouteRegistered
<1>3. ASSUME NEW c \in Conn PROVE LocalFollows(c)
  BY DEF EdgeInit, LocalFollows, Free
<1>4. ASSUME NEW k \in Key PROVE PortOwned(k)
  BY DEF EdgeInit, PortOwned, NoListener
<1> QED
  BY <1>1, <1>2, <1>3, <1>4 DEF EdgeInv, ListenersInv

LEMMA EdgeListens == EdgeInv => ListenersInv
BY DEF EdgeInv, ListenersInv, RoutesDown, RouteRegistered

LEMMA EdgeStepInv == EdgeInv /\ [EdgeNext]_edgeVars => EdgeInv'
<1> SUFFICES ASSUME EdgeInv, [EdgeNext]_edgeVars PROVE EdgeInv'
  OBVIOUS
<1>1. /\ EdgeTypeOK /\ LoopsEnded
      /\ \A g \in Group : RouteRegistered(g)
      /\ \A c \in Conn : LocalFollows(c)
      /\ \A k \in Key : PortOwned(k)
  BY DEF EdgeInv
<1>3. ListenersInv
  BY EdgeListens
<1>4. ListenersInv'
  BY <1>3, ListenersStep
<1>5. \A g \in Group : RouteRegistered(g)'
  BY <1>1, RoutesStep
<1>6. \A c \in Conn : LocalFollows(c)'
  BY <1>1, LocalsStep
<1>7. \A k \in Key : PortOwned(k)'
  BY <1>1, <1>3, PortsStep
<1> QED
  BY <1>4, <1>5, <1>6, <1>7 DEF EdgeInv, ListenersInv

\* The session registered for a group is the one its loop runs, an open socket is
\* forwarded by a living session or by one whose detach will close it, and an open
\* listener owns its port; with loops, catalogs and listeners, the edge's invariant.
THEOREM EdgeInvariant == EdgeSpec => []EdgeInv
BY EdgeInitInv, EdgeStepInv, PTL DEF EdgeSpec

\* When shutdown waits for the workers, each connection that is still forwarded has
\* lost its session and its socket: no silent application keeps the edge waiting.
THEOREM NothingHoldsShutdown ==
  EdgeSpec => [](process = "waiting" =>
                   \A c \in Conn : conn[c].at \in {"stream", "bridge"} =>
                     conn[c].socket = "shut" /\ ~SessionAlive(c))
<1>1. EdgeInv => (process = "waiting" =>
                    \A c \in Conn : conn[c].at \in {"stream", "bridge"} =>
                      conn[c].socket = "shut" /\ ~SessionAlive(c))
  <2> SUFFICES ASSUME EdgeInv, process = "waiting", NEW c \in Conn,
                      conn[c].at \in {"stream", "bridge"}
               PROVE  conn[c].socket = "shut" /\ ~SessionAlive(c)
    OBVIOUS
  <2>1. conn[c] \in Conns /\ GroupOf[conn[c].key] \in Group
    BY EdgeAssumption DEF EdgeInv, EdgeTypeOK, Conns
  <2>2. link[GroupOf[conn[c].key]].at = "ended"
    BY <2>1 DEF EdgeInv, LoopsEnded, Closed
  <2>3. ~SessionAlive(c)
    BY <2>2 DEF SessionAlive, Alive
  <2>4. LocalFollows(c)
    BY DEF EdgeInv
  <2>5. conn[c].socket # "open" /\ conn[c].socket # "doomed"
    BY <2>2, <2>3, <2>4 DEF LocalFollows
  <2> QED
    BY <2>1, <2>3, <2>5 DEF Conns
<1> QED
  BY <1>1, EdgeInvariant, PTL

-----------------------------------------------------------------------------
\* The listeners are exactly the wanted ones, each on the port last saved,
\* whatever order updates, catalogs and route changes come in.
THEOREM ListenersMatchCorrect == EdgeSpec => []ListenersMatch
<1>1. EdgeInv => ListenersMatch
  BY DEF EdgeInv
<1> QED
  BY <1>1, EdgeInvariant, PTL

\* No listener survives the shutdown or is opened after it.
THEOREM NoListenerOnceStoppedCorrect == EdgeSpec => []NoListenerOnceStopped
<1>1. EdgeInv => NoListenerOnceStopped
  BY DEF EdgeInv
<1> QED
  BY <1>1, EdgeInvariant, PTL

\* A group whose route is down offers no catalog.
THEOREM OfflineOffersNothingCorrect == EdgeSpec => []OfflineOffersNothing
<1>1. EdgeInv => OfflineOffersNothing
  BY DEF EdgeInv
<1> QED
  BY <1>1, EdgeInvariant, PTL

\* Nothing is forwarded after runEdgeProcess returned.
THEOREM NoForwardingAfterReturnCorrect == EdgeSpec => []NoForwardingAfterReturn
<1>1. EdgeInv => NoForwardingAfterReturn
  BY DEF EdgeInv
<1> QED
  BY <1>1, EdgeInvariant, PTL

\* A mapping fails only on a port another program holds.
THEOREM FailsOnlyOnForeignPortsCorrect == EdgeSpec => FailsOnlyOnForeignPorts
<1>1. ListenersInv /\ ListenersInv' /\ [EdgeNext]_edgeVars
        => [\A k \in Key :
              listener'[k].state = "failed" /\ listener'[k] # listener[k]
                => listener'[k].port \in foreign]_edgeVars
  BY StepFailsOnForeign
<1> QED
  BY <1>1, EdgeListens, EdgeInvariant, PTL DEF EdgeSpec, FailsOnlyOnForeignPorts

=============================================================================
