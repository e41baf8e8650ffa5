----------------------------- MODULE TargetPool -----------------------------
(***************************************************************************)
(* The target client (internal/client/target.go): the pool of sessions of  *)
(* one token group, the list of services every session publishes, and the  *)
(* streams the paired edge opens.  A slot of the pool is one               *)
(* runSessionLoop; launching a slot, reporting its events, publishing the  *)
(* catalog and serving a stream are goroutines that interleave.            *)
(***************************************************************************)
EXTENDS Naturals, FiniteSets

CONSTANTS
  MaxSlots,      \* maxTargetSessions
  Service,
  ServiceLists,  \* the service lists an administrator saves
  MaxEdits,      \* bound of the edits
  Served,        \* slots the relay may pair with an edge
  Carrying,      \* slots whose edges open streams
  NoList         \* the edge has not been sent a catalog

Slot == 1 .. MaxSlots
Visibility == {"absent", "hidden", "published"}

ASSUME TargetAssumption ==
  /\ MaxSlots \in Nat \ {0}
  /\ MaxEdits \in Nat
  /\ Served \subseteq Slot /\ Carrying \subseteq Slot
  /\ Service # {}
  /\ ServiceLists # {}
  /\ ServiceLists \subseteq [Service -> Visibility]
  /\ \A list \in SUBSET Service : NoList # list

VARIABLES
  services,   \* rt.services: how the group sees each service
  edits,      \* the edits so far; edit n closed the n-th channel rt.changed
  started,    \* slots launched
  ready,      \* pool.ready
  expanded,   \* pool.expanded
  slot,       \* slot[s]: where its session loop is
  alive,      \* alive[s]: the connection of its session has not failed
  publisher,  \* publisher[s]: publishLoop of its session
  orphan,     \* orphan[s]: a publishLoop of an ended session has not returned
  received,   \* received[s]: the catalog the edge of its session got last
  stream,     \* stream[s]: one stream of its session
  target      \* runTargetProcess

poolVars == <<started, ready, expanded>>
targetVars == <<services, edits, poolVars, slot, alive, publisher, orphan,
                received, stream, target>>

(***************************************************************************)
(* "paired": dialSecure has returned and target_ready is not yet reported; *)
(* "expanding": report has unlocked and is about to call onReady;          *)
(* "draining": AcceptStream failed, waitForAll holds runSession back.      *)
(***************************************************************************)
SlotAt == {"unused", "connecting", "paired", "expanding", "serving", "draining",
           "backoff", "stopped"}

InSession(s) == slot[s] \in {"paired", "expanding", "serving", "draining"}

Published(list) == {v \in Service : list[v] = "published"}

\* publishLoop: no goroutine, about to take a snapshot, about to write the
\* one it took, waiting on the channel that edit n + 1 closes, or returned
\* because a write failed ("failed").  Nobody joins this goroutine.
NoPublisher == [at |-> "none", list |-> {}, edit |-> 0]
Publishing == [at : {"none", "snapshot", "write", "wait", "failed"},
               list : SUBSET Service, edit : 0 .. MaxEdits]

(***************************************************************************)
(* A stream: "asked" for one service, "dialing" it, or bridged.  "up"      *)
(* copies the stream to the backend, "down" the other way.                 *)
(***************************************************************************)
NoStream == [at |-> "none", service |-> CHOOSE v \in Service : TRUE, copies |-> {}]
Streams == [at : {"none", "asked", "dialing", "bridge"}, service : Service,
            copies : SUBSET {"up", "down"}]

\* Type invariant: every variable of the target keeps its shape.
TargetTypeOK ==
  /\ services \in ServiceLists
  /\ edits \in 0 .. MaxEdits
  /\ started \in 0 .. MaxSlots
  /\ ready \in [Slot -> BOOLEAN]
  /\ expanded \subseteq Slot
  /\ slot \in [Slot -> SlotAt]
  /\ alive \in [Slot -> BOOLEAN]
  /\ publisher \in [Slot -> Publishing]
  /\ orphan \in [Slot -> BOOLEAN]
  /\ received \in [Slot -> (SUBSET Service) \cup {NoList}]
  /\ stream \in [Slot -> Streams]
  /\ target \in {"running", "stopping", "returned"}
  /\ \A s \in Slot : slot[s] = "unused" <=> s > started

TargetInit ==
  /\ services \in ServiceLists
  /\ edits = 0
  /\ started = 1
  /\ ready = [s \in Slot |-> FALSE]
  /\ expanded = {}
  /\ slot = [s \in Slot |-> IF s = 1 THEN "connecting" ELSE "unused"]
  /\ alive = [s \in Slot |-> FALSE]
  /\ publisher = [s \in Slot |-> NoPublisher]
  /\ orphan = [s \in Slot |-> FALSE]
  /\ received = [s \in Slot |-> NoList]
  /\ stream = [s \in Slot |-> NoStream]
  /\ target = "running"

-----------------------------------------------------------------------------
(***************************************************************************)
(* The session loop of slot s and the reports of the pool.                 *)
(***************************************************************************)
\* dialSecure returns: the relay has paired the slot with an edge.
Pair(s) ==
  /\ s \in Served
  /\ slot[s] = "connecting"
  /\ target # "returned"
  /\ slot' = [slot EXCEPT ![s] = "paired"]
  /\ alive' = [alive EXCEPT ![s] = TRUE]
  /\ UNCHANGED <<services, edits, poolVars, publisher, orphan, received, stream,
                 target>>

\* report(target_ready), up to the unlock; publishLoop starts after it.
Report(s, grows) ==
  /\ slot[s] = "paired"
  /\ ready' = [ready EXCEPT ![s] = TRUE]
  /\ expanded' = expanded \cup {s}
  /\ slot' = [slot EXCEPT ![s] = IF grows THEN "expanding" ELSE "serving"]
  /\ publisher' = [publisher EXCEPT ![s].at = IF grows THEN @ ELSE "snapshot"]
  /\ UNCHANGED <<services, edits, started, alive, orphan, received, stream, target>>

\* Mutant: growing the pool at every pairing.
ReportAlwaysGrowing(s) == Report(s, TRUE)

ReportReady(s) == Report(s, s \notin expanded)

\* onReady: launch one slot more, unless the pool is full or cancelled.
LaunchWithin(s, limit) ==
  /\ slot[s] = "expanding"
  /\ IF started < limit /\ target = "running"
     THEN /\ started' = started + 1
          /\ slot' = [slot EXCEPT ![s] = "serving", ![started + 1] = "connecting"]
     ELSE /\ slot' = [slot EXCEPT ![s] = "serving"]
          /\ UNCHANGED started
  /\ publisher' = [publisher EXCEPT ![s].at = "snapshot"]
  /\ UNCHANGED <<services, edits, ready, expanded, alive, orphan, received, stream,
                 target>>

\* Mutant: an off-by-one, the last slot is never launched.
LaunchOneShort(s) == LaunchWithin(s, MaxSlots - 1)

Launch(s) == LaunchWithin(s, MaxSlots)

\* The connection fails, or the watcher of runAttempt closes it.
SessionFails(s) ==
  /\ InSession(s) /\ alive[s]
  /\ alive' = [alive EXCEPT ![s] = FALSE]
  /\ UNCHANGED <<services, edits, poolVars, slot, publisher, orphan, received,
                 stream, target>>

\* AcceptStream fails and the session is closed.  A publishLoop that has not
\* returned can do nothing but return.
StopServing(s) ==
  /\ slot[s] = "serving" /\ ~alive[s]
  /\ slot' = [slot EXCEPT ![s] = "draining"]
  /\ publisher' = [publisher EXCEPT ![s] = NoPublisher]
  /\ orphan' = [orphan EXCEPT
       ![s] = @ \/ publisher[s].at \in {"snapshot", "write", "wait"}]
  /\ received' = [received EXCEPT ![s] = NoList]
  /\ UNCHANGED <<services, edits, poolVars, alive, stream, target>>

\* runSession returns; report(client_reconnecting) or the end of the loop.
LeaveSession(s) ==
  /\ slot[s] = "draining"
  /\ slot' = [slot EXCEPT ![s] = IF target = "running" THEN "backoff" ELSE "stopped"]
  /\ ready' = [ready EXCEPT ![s] = @ /\ target # "running"]
  /\ UNCHANGED <<services, edits, started, expanded, alive, publisher, orphan,
                 received, stream, target>>

\* Mutant: without streams.waitForAll.
LeaveWithStreams(s) == LeaveSession(s)

EndSession(s) == stream[s].at = "none" /\ LeaveSession(s)

\* The retry timer, or a dial that failed and its timer.
Retry(s) ==
  /\ slot[s] = "backoff"
  /\ target = "running"
  /\ slot' = [slot EXCEPT ![s] = "connecting"]
  /\ UNCHANGED <<services, edits, poolVars, alive, publisher, orphan, received, stream,
                 target>>

StopFrom(s, places) ==
  /\ slot[s] \in places
  /\ target = "stopping"
  /\ slot' = [slot EXCEPT ![s] = "stopped"]
  /\ UNCHANGED <<services, edits, poolVars, alive, publisher, orphan, received, stream,
                 target>>

\* Mutant: a dial that does not look at the context.
StopAfterBackoff(s) == StopFrom(s, {"backoff"})

StopSlot(s) == StopFrom(s, {"connecting", "backoff"})

-----------------------------------------------------------------------------
(***************************************************************************)
(* setServices and publishLoop.  The snapshot and the channel that the     *)
(* next edit closes are taken in one critical section.                     *)
(***************************************************************************)
SetServices ==
  /\ edits < MaxEdits
  /\ target # "returned"
  /\ \E list \in ServiceLists :
       /\ list # services
       /\ services' = list
  /\ edits' = edits + 1
  /\ UNCHANGED <<poolVars, slot, alive, publisher, orphan, received,
                 stream, target>>

Snapshot(s) ==
  /\ publisher[s].at = "snapshot"
  /\ publisher' = [publisher EXCEPT
       ![s] = [at |-> "write", list |-> Published(services), edit |-> edits]]
  /\ UNCHANGED <<services, edits, poolVars, slot, alive, orphan, received, stream,
                 target>>

\* WriteCatalog, then waiting on the channel of edit n.
Write(s, n) ==
  /\ publisher[s].at = "write"
  /\ alive[s]
  /\ received' = [received EXCEPT ![s] = publisher[s].list]
  /\ publisher' = [publisher EXCEPT ![s] = [at |-> "wait", list |-> {}, edit |-> n]]
  /\ UNCHANGED <<services, edits, poolVars, slot, alive, orphan, stream, target>>

\* Mutant: waiting on the channel found after the write.
WriteThenListen(s) == Write(s, edits)

WriteCatalog(s) == Write(s, publisher[s].edit)

\* The session or the target ended; the write fails or the wait is over.
PublisherEnds(s) ==
  /\ \/ publisher[s].at \in {"write", "wait"} /\ ~alive[s]
     \/ publisher[s].at = "wait" /\ target # "running"
  /\ publisher' = [publisher EXCEPT ![s] = NoPublisher]
  /\ UNCHANGED <<services, edits, poolVars, slot, alive, orphan, received, stream,
                 target>>

\* A write fails although the session lives: a catalog over the limit, or a
\* connection that stalls longer than a write may take.  The session goes on.
PublisherFails(s) ==
  /\ publisher[s].at = "write"
  /\ alive[s]
  /\ publisher' = [publisher EXCEPT ![s] = [NoPublisher EXCEPT !.at = "failed"]]
  /\ UNCHANGED <<services, edits, poolVars, slot, alive, orphan, received, stream,
                 target>>

\* The last publishLoop of the ended sessions of slot s returns.
OrphanReturns(s) ==
  /\ orphan[s]
  /\ orphan' = [orphan EXCEPT ![s] = FALSE]
  /\ UNCHANGED <<services, edits, poolVars, slot, alive, publisher, received, stream,
                 target>>

Changed(s) ==
  /\ publisher[s].at = "wait"
  /\ publisher[s].edit < edits
  /\ publisher' = [publisher EXCEPT ![s].at = "snapshot"]
  /\ UNCHANGED <<services, edits, poolVars, slot, alive, orphan, received, stream,
                 target>>

-----------------------------------------------------------------------------
(***************************************************************************)
(* handleStream, for one stream of slot s.                                 *)
(***************************************************************************)
StreamMoves(s, next) ==
  /\ stream' = [stream EXCEPT ![s] = next]
  /\ UNCHANGED <<services, edits, poolVars, slot, alive, publisher, orphan, received,
                 target>>

\* The edge opens a stream for a service, of its catalog or not.
OpenStream(s, v) ==
  /\ s \in Carrying
  /\ slot[s] = "serving" /\ alive[s]
  /\ stream[s].at = "none"
  /\ StreamMoves(s, [NoStream EXCEPT !.at = "asked", !.service = v])

\* findServiceFor: the service must be in the list of now.
FindService(s) ==
  /\ stream[s].at = "asked"
  /\ services[stream[s].service] = "published"
  /\ StreamMoves(s, [stream[s] EXCEPT !.at = "dialing"])

RefuseService(s) ==
  /\ stream[s].at = "asked"
  /\ services[stream[s].service] # "published" \/ ~alive[s]
  /\ StreamMoves(s, NoStream)

\* A dial of a cancelled context fails.
DialBackend(s) ==
  /\ stream[s].at = "dialing"
  /\ target = "running"
  /\ alive[s]
  /\ StreamMoves(s, [stream[s] EXCEPT !.at = "bridge", !.copies = {"up", "down"}])

\* The dial fails or times out, or its status cannot be written.
DialFails(s) ==
  /\ stream[s].at = "dialing"
  /\ StreamMoves(s, NoStream)

CopyEnds(s, way) ==
  /\ stream[s].at = "bridge"
  /\ way \in stream[s].copies
  /\ StreamMoves(s, IF stream[s].copies = {way} THEN NoStream
                    ELSE [stream[s] EXCEPT !.copies = @ \ {way}])

\* Mutant: the end of a session does not end the copy from its streams.
UpEndsLast(s) == ~alive[s] /\ "down" \notin stream[s].copies /\ CopyEnds(s, "up")

\* The stream ends with its session, or because the edge half-closed it.
UpEnds(s) == ~alive[s] /\ CopyEnds(s, "up")
EdgeFinishes(s) == alive[s] /\ CopyEnds(s, "up")

\* The backend closes its connection, or sends data a dead stream refuses.
BackendEnds(s) == CopyEnds(s, "down")

-----------------------------------------------------------------------------
Cancel ==
  /\ target = "running"
  /\ target' = "stopping"
  /\ UNCHANGED <<services, edits, poolVars, slot, alive, publisher, orphan, received,
                 stream>>

\* workers.Wait returns: every slot launched has stopped.
Return ==
  /\ target = "stopping"
  /\ \A s \in 1 .. started : slot[s] = "stopped"
  /\ target' = "returned"
  /\ UNCHANGED <<services, edits, poolVars, slot, alive, publisher, orphan, received,
                 stream>>

LoopStep(s) ==
  \/ ReportReady(s) \/ Launch(s) \/ StopServing(s) \/ EndSession(s)
  \/ Retry(s) \/ StopSlot(s)

PublishStep(s) ==
  Snapshot(s) \/ WriteCatalog(s) \/ Changed(s) \/ PublisherEnds(s)

StreamStep(s) ==
  FindService(s) \/ RefuseService(s) \/ DialBackend(s) \/ DialFails(s)

PeerStep(s) ==
  \/ Pair(s) \/ SessionFails(s) \/ PublisherFails(s)
  \/ \E v \in Service : OpenStream(s, v)
  \/ UpEnds(s) \/ EdgeFinishes(s) \/ BackendEnds(s)

TargetNext ==
  \/ \E s \in Slot :
       \/ LoopStep(s) \/ PublishStep(s) \/ OrphanReturns(s)
       \/ StreamStep(s) \/ PeerStep(s)
  \/ SetServices \/ Cancel \/ Return

(***************************************************************************)
(* Fairness: the goroutines of the target run, dials and preambles have    *)
(* deadlines, and the watcher closes the connections of a cancelled        *)
(* context.  Nothing is assumed of relay, edges, backends and              *)
(* administrator.                                                          *)
(***************************************************************************)
TargetFairness ==
  /\ \A s \in Slot : WF_targetVars(LoopStep(s))
  /\ \A s \in Served :
       /\ WF_targetVars(PublishStep(s))
       /\ WF_targetVars(OrphanReturns(s))
       /\ WF_targetVars(target # "running" /\ SessionFails(s))
  /\ \A s \in Carrying : WF_targetVars(StreamStep(s))
  /\ WF_targetVars(Return)

\* A backend reads what it is sent: the copy to it is not blocked in Write when
\* the session ends.
BackendsRead == \A s \in Carrying : WF_targetVars(UpEnds(s))

\* A backend that is told nothing more will come closes its end in time.
BackendsClose ==
  \A s \in Carrying : WF_targetVars("up" \notin stream[s].copies /\ BackendEnds(s))

TargetSpec == TargetInit /\ [][TargetNext]_targetVars /\ TargetFairness
ReadingSpec == TargetSpec /\ BackendsRead
PoliteSpec == ReadingSpec /\ BackendsClose

-----------------------------------------------------------------------------
(***************************************************************************)
(* Safety.                                                                 *)
(***************************************************************************)

\* A pool that may still grow always has, or is about to launch, a slot
\* that never served an edge: a reconnecting slot, two slots that pair at
\* once and a flapping network never use up the spare (launch, report).
HotStandby ==
  target = "running" /\ started < MaxSlots =>
    \E s \in 1 .. started : s \notin expanded \/ slot[s] = "expanding"

\* The slots about to launch another.
Expanding == {s \in Slot : slot[s] = "expanding"}

\* A slot grows the pool once, however often it reconnects
\* (docs/release-v0.3.1.md: "Each adaptive pool slot triggers growth once,
\* preventing network flaps from multiplying standby sockets").
GrowsOncePerSlot ==
  started + Cardinality(Expanding) <= 1 + Cardinality(expanded)

\* No stream of a session is left when its slot dials again: the console
\* hears of the reconnection after the last event of the old streams, and a
\* stream never meets the session that follows (streams.waitForAll).
NoStreamOutlivesItsSession ==
  \A s \in Slot : stream[s].at # "none" => slot[s] \in {"serving", "draining"}

-----------------------------------------------------------------------------
(***************************************************************************)
(* The inductive invariant behind the safety properties.                   *)
(***************************************************************************)
OnlyLaunchedGrew == expanded \subseteq 1 .. started

\* A session loop ends only when the target is cancelled, nothing runs once it has
\* returned, and the pool counts as connected the sessions it was told of that have
\* not ended.
SlotOrdered(s) ==
  /\ alive[s] => slot[s] \in {"paired", "expanding", "serving"}
  /\ ready[s] => slot[s] \in {"expanding", "serving", "draining", "stopped"}
  /\ slot[s] \in {"expanding", "serving", "draining"} => ready[s]
  /\ slot[s] = "stopped" => target # "running"
  /\ target = "returned" => slot[s] \in {"unused", "stopped"}
  /\ stream[s].at = "bridge" <=> stream[s].copies # {}

\* No edit is lost on a session that is served: its publisher holds the newest
\* list, waits because the edge has it, or finds its channel closed; it has not
\* returned before its session or the target ended, unless a write failed.
EditPending(s) ==
  /\ publisher[s].at # "none" => slot[s] = "serving"
  /\ slot[s] = "serving" /\ publisher[s].at = "none" =>
       ~alive[s] \/ target # "running"
  /\ publisher[s].edit <= edits
  /\ publisher[s].edit = edits =>
       /\ publisher[s].at = "write" => publisher[s].list = Published(services)
       /\ publisher[s].at = "wait" => received[s] = Published(services)

\* Slots, growth, reports, catalogs and streams of the pool fit together.
PoolInv ==
  /\ TargetTypeOK
  /\ OnlyLaunchedGrew
  /\ HotStandby /\ GrowsOncePerSlot /\ NoStreamOutlivesItsSession
  /\ \A s \in Slot : SlotOrdered(s) /\ EditPending(s)

(***************************************************************************)
(* Liveness.  []<>(P => Q) is P ~> Q where P lasts until Q; it costs TLC   *)
(* far less.                                                               *)
(***************************************************************************)

\* Every live session ends up with the newest list, whenever it was edited:
\* while the slot pairs, between a snapshot and its write, or while the
\* publisher waits (publishLoop: "again after every service edit").  Only a
\* write that failed while the session lives ends its publisher early.
EditsReachSessions ==
  \A s \in Slot :
    []<>(slot[s] = "serving" =>
           \/ received[s] = Published(services)
           \/ ~alive[s] \/ publisher[s].at = "failed")

\* A slot whose session is gone dials again, or the pool stops
\* (docs/architecture.md: "Clients reconnect after a failed session").
LostSlotsReconnect ==
  \A s \in Slot :
    []<>(~alive[s] => slot[s] \in {"unused", "connecting", "stopped"})

\* A lost session does not keep its slot from dialling again while nobody stops
\* the target (docs/architecture.md:170: "Clients reconnect after a failed session
\* with exponential delays from one to fifteen seconds"), whatever the backends
\* of its streams do.
RunningSlotsReconnect ==
  \A s \in Slot :
    (InSession(s) /\ ~alive[s] /\ target = "running")
      ~> (slot[s] = "connecting" \/ target # "running")

\* A cancelled target returns, and the publishers it did not wait for end.
StoppedTargetReturns ==
  []<>(target # "running" => target = "returned" /\ \A s \in Slot : ~orphan[s])

=============================================================================
