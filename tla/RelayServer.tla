----------------------------- MODULE RelayServer -----------------------------
(***************************************************************************)
(* The relay's session lifecycle (internal/relay/server.go): what the      *)
(* goroutines of one participant do to the groups, the registry, the       *)
(* participant table and the console's peer list.                          *)
(*                                                                         *)
(*   handler  handleWebSocket and awaitParticipant, one per connection     *)
(*   reader   readParticipant, the only reader of the socket               *)
(*   keeper   keepAlive, stateless                                         *)
(*   flusher  flushPeerMetadata, after pings that refresh a session's label *)
(*   bridge   bridge, owned by the session whose join completed the pair,  *)
(*            and its two copies relayFrames                               *)
(*   kicker   one DisconnectPeer call of the administrator at a time       *)
(*                                                                         *)
(* Admission by token is a separate component: a session of this module    *)
(* has passed authorize.  The request context of a hijacked connection is  *)
(* not cancelled before its handler returns, so the ctx.Done() branches of *)
(* awaitParticipant never win and are left out.                            *)
(***************************************************************************)
EXTENDS RelayGroups, RelayRegistry

CONSTANTS
  Events,     \* outside events that may happen: a subset of EventKind
  Kickable,   \* sessions the administrator may disconnect
  Labelling   \* sessions whose client refreshes its label

EventKind == {"data", "break", "shutdown", "misbehave"}

ASSUME EventsAssumption ==
  /\ Events \subseteq EventKind
  /\ Kickable \subseteq Session /\ Labelling \subseteq Session

VARIABLES
  handler,        \* handler[p]: where p's handler goroutine is
  reader,         \* reader[p]: where p's read pump is
  bridge,         \* bridge[p]: where the bridge p owns is
  console,        \* console[p]: p's row in the Manager's peer table
  serverClosed,   \* Server.closed
  kick,           \* the administrator's DisconnectPeer call
  copies,         \* copies[p]: the roles whose frames the bridge p owns copies
  refresh         \* refresh[p]: the status p's flushPeerMetadata has read

flowVars == <<copies, refresh>>
serverVars == <<handler, reader, bridge, console, serverClosed, kick, flowVars>>
vars == <<participantVars, groups, registryVars, serverVars>>

(***************************************************************************)
(* Handler positions, in program order.  "hello" waits for the client's    *)
(* hello, "expired" is the pair timeout that won registry.remove and has   *)
(* still to close, "leaving" to "left" are the deferred calls.  A bridge   *)
(* that could not greet goes to "closeEdge", one whose first copy ended to *)
(* "stopEdge", and waits for the other copy when it is "joining".  A row   *)
(* is "stale" when it says that a session waits which it said is paired.   *)
(***************************************************************************)
HandlerAt ==
  {"new", "hello", "grouped", "queued", "tracked", "await", "serving",
   "expired", "leaving", "dequeued", "left", "gone"}
ReaderAt == {"none", "reading", "early", "offering", "exiting", "stopped"}
BridgeAt ==
  {"none", "elected", "starting", "greetEdge", "greetTarget", "greeted",
   "closeEdge", "closeTarget", "relaying", "stopEdge", "stopTarget", "joining",
   "ended"}
RefreshAt == {"none", "waiting", "paired"}
ConsoleRow == {"absent", "waiting", "paired", "stale"}

\* Past groups.join and not past groups.leave.
InGroup(p) == handler[p] \in
  {"grouped", "queued", "tracked", "await", "serving", "expired", "leaving",
   "dequeued"}

\* Past registry.join and not past the handler's registry.remove.
InRegistry(p) == handler[p] \in
  {"queued", "tracked", "await", "serving", "expired", "leaving"}

\* The keys of Server.participants.
Tracked(p) == handler[p] \in
  {"tracked", "await", "serving", "expired", "leaving"}

\* The keys of Server.connections, unless closeConnections cleared them.
Connected(p) == handler[p] \notin {"new", "gone"}

\* The reported channel is closed.
Reported(p) == handler[p] \in
  {"await", "serving", "expired", "leaving", "dequeued", "left", "gone"}

\* The two ends of the bridge p owns.
EdgeEnd(p) == IF RoleOf[p] = "edge" THEN p ELSE peer[p]
TargetEnd(p) == IF RoleOf[p] = "edge" THEN peer[p] ELSE p
EndOf(p, role) == IF role = "edge" THEN EdgeEnd(p) ELSE TargetEnd(p)

ServerTypeOK ==
  /\ handler \in [Session -> HandlerAt]
  /\ reader \in [Session -> ReaderAt]
  /\ bridge \in [Session -> BridgeAt]
  /\ console \in [Session -> ConsoleRow]
  /\ serverClosed \in BOOLEAN
  /\ kick \in [at : {"idle", "code", "text", "close"},
               session : Session \cup {NoSession}]
  /\ copies \in [Session -> SUBSET Role]
  /\ refresh \in [Session -> RefreshAt]

\* The handler, read pump, bridge, console and registry state of every session
\* stays within the shapes the code can produce.
TypeOK ==
  ParticipantTypeOK /\ GroupsTypeOK /\ RegistryTypeOK /\ ServerTypeOK

Init ==
  /\ ParticipantInit
  /\ GroupsInit
  /\ RegistryInit
  /\ handler = [p \in Session |-> "new"]
  /\ reader = [p \in Session |-> "none"]
  /\ bridge = [p \in Session |-> "none"]
  /\ console = [p \in Session |-> "absent"]
  /\ serverClosed = FALSE
  /\ kick = [at |-> "idle", session |-> NoSession]
  /\ copies = [p \in Session |-> {}]
  /\ refresh = [p \in Session |-> "none"]

-----------------------------------------------------------------------------
(***************************************************************************)
(* The handler goroutine.                                                  *)
(***************************************************************************)
HandlerStep(p, from, to) ==
  /\ handler[p] = from
  /\ handler' = [handler EXCEPT ![p] = to]

\* Upgrade and trackConnection, which refuses once the server is closed.
Connect(p) ==
  /\ HandlerStep(p, "new", IF serverClosed THEN "gone" ELSE "hello")
  /\ connOpen' = [connOpen EXCEPT ![p] = ~serverClosed]
  /\ UNCHANGED <<done, armedCode, armedText, frame, groups, registryVars,
                 reader, bridge, console, serverClosed, kick, flowVars>>

\* No hello within the deadline, or one that is refused.
FailHello(p) ==
  /\ HandlerStep(p, "hello", "gone")
  /\ connOpen' = [connOpen EXCEPT ![p] = FALSE]
  /\ UNCHANGED <<done, armedCode, armedText, frame, groups, registryVars,
                 reader, bridge, console, serverClosed, kick, flowVars>>

\* The hello is read and accepted, and groups.join admits the session.
EnterGroup(p) ==
  /\ HandlerStep(p, "hello", "grouped")
  /\ JoinGroup(p)
  /\ UNCHANGED <<participantVars, registryVars, reader, bridge, console,
                 serverClosed, kick, flowVars>>

\* groups.join refuses it: a live process of another instance serves.
RejectDuplicate(p) ==
  /\ HandlerStep(p, "hello", "gone")
  /\ RefuseTarget(p)
  /\ CloseWith(p, "duplicate")
  /\ UNCHANGED <<registryVars, reader, bridge, console, serverClosed, kick,
                 flowVars>>

\* Mutant: both ends of the pair start a bridge.
EnqueueElectingBoth(p) ==
  /\ HandlerStep(p, "grouped", "queued")
  /\ \/ JoinWaits(p) /\ UNCHANGED bridge
     \/ \E q \in Session :
          /\ JoinPairs(p, q)
          /\ bridge' = [bridge EXCEPT ![p] = "elected", ![q] = "elected"]
  /\ UNCHANGED <<participantVars, groups, reader, console, serverClosed, kick,
                 flowVars>>

\* registry.join; the session that completes the pair is the bridge owner.
Enqueue(p) ==
  /\ HandlerStep(p, "grouped", "queued")
  /\ \/ JoinWaits(p) /\ UNCHANGED bridge
     \/ \E q \in Session :
          /\ JoinPairs(p, q)
          /\ bridge' = [bridge EXCEPT ![p] = "elected"]
  /\ UNCHANGED <<participantVars, groups, reader, console, serverClosed, kick,
                 flowVars>>

\* trackParticipant, then the keep-alive and read goroutines start.
Track(p) ==
  /\ HandlerStep(p, "queued", "tracked")
  /\ reader' = [reader EXCEPT ![p] = "reading"]
  /\ UNCHANGED <<participantVars, groups, registryVars, bridge, console,
                 serverClosed, kick, flowVars>>

\* emitPeerConnected, close(reported), and the bridge goroutine starts.
Report(p) ==
  /\ HandlerStep(p, "tracked", "await")
  /\ console' = [console EXCEPT ![p] = "waiting"]
  /\ bridge' = [bridge EXCEPT ![p] = IF @ = "elected" THEN "starting" ELSE @]
  /\ UNCHANGED <<participantVars, groups, registryVars, reader, serverClosed,
                 kick, flowVars>>

(***************************************************************************)
(* awaitParticipant.  Its select takes any channel that is ready: a closed *)
(* paired, a closed done, and for an edge the pair timer.                  *)
(***************************************************************************)
AwaitPaired(p) ==
  /\ Paired(p)
  /\ HandlerStep(p, "await", "serving")
  /\ UNCHANGED <<participantVars, groups, registryVars, reader, bridge, console,
                 serverClosed, kick, flowVars>>

\* Mutant: once paired, nobody waits for done.
AwaitDoneUnpaired(p) ==
  /\ done[p]
  /\ HandlerStep(p, "await", "leaving")
  /\ UNCHANGED <<participantVars, groups, registryVars, reader, bridge, console,
                 serverClosed, kick, flowVars>>

AwaitDone(p) ==
  /\ done[p]
  /\ \E from \in {"await", "serving"} : HandlerStep(p, from, "leaving")
  /\ UNCHANGED <<participantVars, groups, registryVars, reader, bridge, console,
                 serverClosed, kick, flowVars>>

\* Mutant: the timer closes the edge whatever registry.remove answered.
AwaitTimeoutUnchecked(p) ==
  /\ RoleOf[p] = "edge"
  /\ HandlerStep(p, "await", "expired")
  /\ RemoveWaiting(p)
  /\ UNCHANGED <<participantVars, groups, reader, bridge, console, serverClosed,
                 kick, flowVars>>

\* Mutant: the roles are swapped, edges wait without a timer.
AwaitTimeoutOfTargets(p) ==
  /\ RoleOf[p] = "target"
  /\ HandlerStep(p, "await", IF Waiting(p) THEN "expired" ELSE "serving")
  /\ RemoveWaiting(p)
  /\ UNCHANGED <<participantVars, groups, reader, bridge, console, serverClosed,
                 kick, flowVars>>

\* The timer of an edge fires and registry.remove decides the race.
AwaitTimeout(p) ==
  /\ RoleOf[p] = "edge"
  /\ HandlerStep(p, "await", IF Waiting(p) THEN "expired" ELSE "serving")
  /\ RemoveWaiting(p)
  /\ UNCHANGED <<participantVars, groups, reader, bridge, console, serverClosed,
                 kick, flowVars>>

CloseExpired(p) ==
  /\ HandlerStep(p, "expired", "leaving")
  /\ CloseWith(p, "tryAgain")
  /\ UNCHANGED <<groups, registryVars, reader, bridge, console, serverClosed,
                 kick, flowVars>>

(***************************************************************************)
(* The deferred calls, in order.  untrackParticipant only shortens the     *)
(* list DisconnectPeer looks in and commutes with registry.remove; the     *)
(* final untrackConnection and peer.close find a session that is done.     *)
(***************************************************************************)
UntrackAndDequeue(p) ==
  /\ HandlerStep(p, "leaving", "dequeued")
  /\ RemoveWaiting(p)
  /\ UNCHANGED <<participantVars, groups, reader, bridge, console, serverClosed,
                 kick, flowVars>>

ExitGroup(p) ==
  /\ HandlerStep(p, "dequeued", "left")
  /\ LeaveGroup(p)
  /\ UNCHANGED <<participantVars, registryVars, reader, bridge, console,
                 serverClosed, kick, flowVars>>

EmitDisconnected(p) ==
  /\ HandlerStep(p, "left", "gone")
  /\ console' = [console EXCEPT ![p] = "absent"]
  /\ CloseWith(p, "normal")
  /\ UNCHANGED <<groups, registryVars, reader, bridge, serverClosed, kick,
                 flowVars>>

Handler(p) ==
  \/ FailHello(p) \/ EnterGroup(p) \/ RejectDuplicate(p)
  \/ Enqueue(p) \/ Track(p) \/ Report(p)
  \/ AwaitPaired(p) \/ AwaitDone(p) \/ AwaitTimeout(p) \/ CloseExpired(p)
  \/ UntrackAndDequeue(p) \/ ExitGroup(p) \/ EmitDisconnected(p)

-----------------------------------------------------------------------------
(***************************************************************************)
(* The read pump and the keep-alive ticker.                                *)
(***************************************************************************)
ReaderStep(p, from, to) ==
  /\ reader[p] = from
  /\ reader' = [reader EXCEPT ![p] = to]

ReadError(p) ==
  /\ ~connOpen[p]
  /\ ReaderStep(p, "reading", "exiting")
  /\ Abort(p)
  /\ UNCHANGED <<groups, registryVars, handler, bridge, console, serverClosed,
                 kick, flowVars>>

\* The client sends a text frame.
ReadNonBinary(p) ==
  /\ "misbehave" \in Events
  /\ connOpen[p]
  /\ ReaderStep(p, "reading", "exiting")
  /\ CloseWith(p, "policy")
  /\ UNCHANGED <<groups, registryVars, handler, bridge, console, serverClosed,
                 kick, flowVars>>

\* A data frame arrives and paired is still open ...
ReadEarly(p) ==
  /\ "misbehave" \in Events
  /\ connOpen[p]
  /\ ~Paired(p)
  /\ ReaderStep(p, "reading", "early")
  /\ UNCHANGED <<participantVars, groups, registryVars, handler, bridge,
                 console, serverClosed, kick, flowVars>>

\* ... so the session is closed, even if it was paired meanwhile.
CloseEarly(p) ==
  /\ ReaderStep(p, "early", "exiting")
  /\ CloseWith(p, "policy")
  /\ UNCHANGED <<groups, registryVars, handler, bridge, console, serverClosed,
                 kick, flowVars>>

ReadFrame(p) ==
  /\ "data" \in Events
  /\ connOpen[p]
  /\ Paired(p)
  /\ ReaderStep(p, "reading", "offering")
  /\ UNCHANGED <<participantVars, groups, registryVars, handler, bridge,
                 console, serverClosed, kick, flowVars>>

\* A copy of the bridge takes the frame and writes it to the other end.
OfferTaken(p) ==
  /\ ReaderStep(p, "offering", "reading")
  /\ \E o \in {p, peer[p]} : RoleOf[p] \in copies[o]
  /\ UNCHANGED <<participantVars, groups, registryVars, handler, bridge,
                 console, serverClosed, kick, flowVars>>

\* Mutant: the hand-over gives up only while a copy could still take the frame.
OfferAbortedWhileCopied(p) ==
  /\ done[p]
  /\ ReaderStep(p, "offering", "exiting")
  /\ \E o \in {p, peer[p]} : RoleOf[p] \in copies[o]
  /\ UNCHANGED <<participantVars, groups, registryVars, handler, bridge,
                 console, serverClosed, kick, flowVars>>

OfferAborted(p) ==
  /\ done[p]
  /\ ReaderStep(p, "offering", "exiting")
  /\ UNCHANGED <<participantVars, groups, registryVars, handler, bridge,
                 console, serverClosed, kick, flowVars>>

\* The reader's deferred registry.remove and close(frames).
ReaderExit(p) ==
  /\ ReaderStep(p, "exiting", "stopped")
  /\ RemoveWaiting(p)
  /\ UNCHANGED <<participantVars, groups, handler, bridge, console,
                 serverClosed, kick, flowVars>>

Reader(p) ==
  \/ ReadError(p) \/ CloseEarly(p) \/ OfferTaken(p) \/ OfferAborted(p)
  \/ ReaderExit(p)

\* A ping cannot be written.
KeepAliveFails(p) ==
  /\ reader[p] # "none"
  /\ ~connOpen[p] /\ ~done[p]
  /\ Abort(p)
  /\ UNCHANGED <<groups, registryVars, serverVars>>

-----------------------------------------------------------------------------
(***************************************************************************)
(* The bridge goroutine of the owner p.                                    *)
(***************************************************************************)
BridgeStep(p, from, to) ==
  /\ bridge[p] = from
  /\ bridge' = [bridge EXCEPT ![p] = to]

\* Mutant: the bridge does not wait for the reports.
BridgeStartUnreported(p) ==
  /\ BridgeStep(p, "starting", "greetEdge")
  /\ UNCHANGED <<participantVars, groups, registryVars, handler, reader,
                 console, serverClosed, kick, flowVars>>

BridgeStart(p) ==
  /\ BridgeStep(p, "starting", "greetEdge")
  /\ Reported(EdgeEnd(p)) /\ Reported(TargetEnd(p))
  /\ UNCHANGED <<participantVars, groups, registryVars, handler, reader,
                 console, serverClosed, kick, flowVars>>

\* The target's hello goes to the edge, then the edge's to the target.
GreetEdge(p) ==
  /\ BridgeStep(p, "greetEdge", "greetTarget")
  /\ ~done[EdgeEnd(p)]
  /\ UNCHANGED <<participantVars, groups, registryVars, handler, reader,
                 console, serverClosed, kick, flowVars>>

GreetTarget(p) ==
  /\ BridgeStep(p, "greetTarget", "greeted")
  /\ ~done[TargetEnd(p)]
  /\ UNCHANGED <<participantVars, groups, registryVars, handler, reader,
                 console, serverClosed, kick, flowVars>>

\* Either write may fail or miss its ten-second deadline.
GreetFails(p) ==
  /\ \E from \in {"greetEdge", "greetTarget"} : BridgeStep(p, from, "closeEdge")
  /\ UNCHANGED <<participantVars, groups, registryVars, handler, reader,
                 console, serverClosed, kick, flowVars>>

\* emitPeersPaired, then the two relayFrames goroutines start.
EmitPaired(p) ==
  /\ BridgeStep(p, "greeted", "relaying")
  /\ console' = [console EXCEPT ![EdgeEnd(p)] = "paired",
                                ![TargetEnd(p)] = "paired"]
  /\ copies' = [copies EXCEPT ![p] = Role]
  /\ UNCHANGED <<participantVars, groups, registryVars, handler, reader,
                 serverClosed, kick, refresh>>

\* emitPeerStats: an update, which writes the rows that are still there.
StatsRows(p) ==
  [q \in Session |->
     IF q \in {EdgeEnd(p), TargetEnd(p)} /\ console[q] # "absent"
     THEN "paired" ELSE console[q]]

\* The bridge's ticker finds frames counted since its last report.  How many
\* were is left out: any tick may find some.
EmitStats(p) ==
  /\ "data" \in Events
  /\ bridge[p] = "relaying"
  /\ console' = StatsRows(p)
  /\ UNCHANGED <<participantVars, groups, registryVars, handler, reader, bridge,
                 serverClosed, kick, flowVars>>

\* closeParticipants(edge, target).
CloseEdgeEnd(p) ==
  /\ \/ BridgeStep(p, "closeEdge", "closeTarget")
     \/ BridgeStep(p, "stopEdge", "stopTarget")
  /\ CloseWith(EdgeEnd(p), "normal")
  /\ UNCHANGED <<groups, registryVars, handler, reader, console, serverClosed,
                 kick, flowVars>>

\* Mutant: the edge is closed twice, the target never.
CloseEdgeEndAgain(p) ==
  /\ \/ BridgeStep(p, "closeTarget", "ended")
     \/ BridgeStep(p, "stopTarget", "joining")
  /\ CloseWith(EdgeEnd(p), "normal")
  /\ UNCHANGED <<groups, registryVars, handler, reader, console, serverClosed,
                 kick, flowVars>>

CloseTargetEnd(p) ==
  /\ \/ BridgeStep(p, "closeTarget", "ended")
     \/ BridgeStep(p, "stopTarget", "joining")
  /\ CloseWith(TargetEnd(p), "normal")
  /\ UNCHANGED <<groups, registryVars, handler, reader, console, serverClosed,
                 kick, flowVars>>

\* The second copy has sent its error too.  Frames counted since the last tick
\* are reported.
BridgeEnds(p) ==
  /\ BridgeStep(p, "joining", "ended")
  /\ copies[p] = {}
  /\ \/ UNCHANGED console
     \/ "data" \in Events /\ console' = StatsRows(p)
  /\ UNCHANGED <<participantVars, groups, registryVars, handler, reader,
                 serverClosed, kick, flowVars>>

Bridge(p) ==
  \/ BridgeStart(p) \/ GreetEdge(p) \/ GreetTarget(p) \/ GreetFails(p)
  \/ EmitPaired(p) \/ CloseEdgeEnd(p) \/ CloseTargetEnd(p) \/ BridgeEnds(p)

-----------------------------------------------------------------------------
(***************************************************************************)
(* relayFrames: the copy of the frames of one end of the bridge p owns.    *)
(* The bridge leaves its loop with the error of the copy that ends first.  *)
(***************************************************************************)
CopyStops(p, role) ==
  /\ role \in copies[p]
  /\ copies' = [copies EXCEPT ![p] = @ \ {role}]
  /\ bridge' = [bridge EXCEPT ![p] = IF @ = "relaying" THEN "stopEdge" ELSE @]
  /\ UNCHANGED <<participantVars, groups, registryVars, handler, console,
                 serverClosed, kick, refresh>>

\* The source is done, or its reader has closed frames.
CopyEnds(p, role) ==
  /\ CopyStops(p, role)
  /\ done[EndOf(p, role)] \/ reader[EndOf(p, role)] = "stopped"
  /\ UNCHANGED reader

\* The frame it took cannot be written: the other socket is closed, or its
\* client does not read before the write deadline.
CopyFails(p, role) ==
  /\ CopyStops(p, role)
  /\ ReaderStep(EndOf(p, role), "offering", "reading")

Relaying(p) ==
  EmitStats(p) \/ \E role \in Role : CopyEnds(p, role) \/ CopyFails(p, role)

-----------------------------------------------------------------------------
(***************************************************************************)
(* flushPeerMetadata, some time after a ping that carries a new label; the *)
(* end of the session cuts that time short.  It reads whether the session  *)
(* is paired and emits that status later: the row may have changed in      *)
(* between.  One refresh at a time: the limit of one in five seconds is    *)
(* far longer than the time between the two.                               *)
(***************************************************************************)
RefreshStatus(p) ==
  /\ p \in Labelling
  /\ reader[p] \notin {"none", "stopped"}
  /\ refresh[p] = "none"
  /\ refresh' =
       [refresh EXCEPT ![p] = IF Paired(p) THEN "paired" ELSE "waiting"]
  /\ UNCHANGED <<participantVars, groups, registryVars, handler, reader, bridge,
                 console, serverClosed, kick, copies>>

\* What becomes of a row that is written with a status read earlier.
Refreshed(row, status) ==
  CASE row = "absent" -> "absent"
    [] row \in {"paired", "stale"} /\ status = "waiting" -> "stale"
    [] OTHER -> status

\* The update writes the row, with its status, if the row is still there.
RefreshEmit(p) ==
  /\ refresh[p] # "none"
  /\ refresh' = [refresh EXCEPT ![p] = "none"]
  /\ console' = [console EXCEPT ![p] = Refreshed(@, refresh[p])]
  /\ UNCHANGED <<participantVars, groups, registryVars, handler, reader, bridge,
                 serverClosed, kick, copies>>

Flusher(p) == RefreshStatus(p) \/ RefreshEmit(p)

-----------------------------------------------------------------------------
(***************************************************************************)
(* DisconnectPeer: find the session, arm the code, store the text, close.  *)
(***************************************************************************)
KickStep(from, to, p) ==
  /\ kick.at = from
  /\ kick' = [at |-> to, session |-> p]
  /\ UNCHANGED <<groups, registryVars, handler, reader, bridge, console,
                 serverClosed, flowVars>>

KickLookup(p) ==
  /\ p \in Kickable
  /\ Tracked(p)
  /\ KickStep("idle", "code", p)
  /\ UNCHANGED participantVars

KickArmCode ==
  \/ /\ KickStep("code", "text", kick.session)
     /\ ArmCode(kick.session, "kicked")
  \/ /\ KickStep("code", "close", kick.session)
     /\ armedCode[kick.session] # "none"
     /\ UNCHANGED participantVars

KickArmText ==
  /\ KickStep("text", "close", kick.session)
  /\ ArmText(kick.session, "kicked")

KickClose ==
  /\ KickStep("close", "idle", NoSession)
  /\ CloseWith(kick.session, "kicked")

Kicker == KickArmCode \/ KickArmText \/ KickClose

-----------------------------------------------------------------------------
Break(p) ==
  /\ "break" \in Events
  /\ BreakConnection(p)
  /\ UNCHANGED <<groups, registryVars, serverVars>>

\* Close, or the end of Run's context: closeConnections.
Shutdown ==
  /\ "shutdown" \in Events
  /\ ~serverClosed
  /\ serverClosed' = TRUE
  /\ connOpen' = [p \in Session |-> connOpen[p] /\ ~Connected(p)]
  /\ UNCHANGED <<done, armedCode, armedText, frame, groups, registryVars,
                 handler, reader, bridge, console, kick, flowVars>>

\* Every session of the bounded instance has come and gone.
Finished ==
  /\ \A p \in Session : handler[p] = "gone"
  /\ UNCHANGED vars

Next ==
  \/ \E p \in Session :
       \/ Connect(p) \/ Handler(p) \/ Reader(p) \/ KeepAliveFails(p)
       \/ ReadNonBinary(p) \/ ReadEarly(p) \/ ReadFrame(p)
       \/ Bridge(p) \/ Relaying(p) \/ Flusher(p) \/ KickLookup(p) \/ Break(p)
  \/ Kicker
  \/ Shutdown
  \/ Finished

Spec == Init /\ [][Next]_vars

(***************************************************************************)
(* A goroutine that can run does: the Go scheduler, the pair timer, the    *)
(* hello and write deadlines and the keep-alive ticker.  Nothing obliges a *)
(* client to connect, send or refresh its label, the network to break, or  *)
(* an administrator to act.                                                *)
(***************************************************************************)
Fairness ==
  /\ \A p \in Session :
       /\ WF_vars(Handler(p))
       /\ WF_vars(Reader(p))
       /\ WF_vars(KeepAliveFails(p))
       /\ WF_vars(Bridge(p))
       /\ \A role \in Role : WF_vars(CopyEnds(p, role))
       /\ WF_vars(RefreshEmit(p))
  /\ WF_vars(Kicker)

FairSpec == Spec /\ Fairness

-----------------------------------------------------------------------------
(***************************************************************************)
(* Safety.                                                                 *)
(***************************************************************************)

\* "Exactly one target process may be active" per token (groups.go:14): two
\* live target sessions of one token that passed groups.join belong to one
\* process instance, whichever of the token's values each of them presented.
OneTargetProcess ==
  \A p, q \in Session :
    /\ p # q /\ GroupOf(p) = GroupOf(q)
    /\ RoleOf[p] = "target" /\ RoleOf[q] = "target"
    /\ InGroup(p) /\ InGroup(q)
    /\ ~done[p] /\ ~done[q]
    => InstanceOf[p] = InstanceOf[q] /\ InstanceOf[p] # NoInstance

\* registry.join pairs one edge with one target of the same route, and the
\* two agree on it: a session is never bridged to two others, to its own role
\* or to a session of another token value, whose keys it could not use.
PeersMatched ==
  \A p \in Session : Paired(p) =>
    /\ peer[peer[p]] = p
    /\ RoleOf[peer[p]] = Opposite(RoleOf[p])
    /\ RouteOf[peer[p]] = RouteOf[p]

\* Exactly one end of a pair was elected to run the bridge (registry.go:99).
OneBridgePerPair ==
  \A p \in Session :
    /\ Paired(p) => (bridge[p] = "none") # (bridge[peer[p]] = "none")
    /\ ~Paired(p) => bridge[p] = "none"

\* Rendezvous is complete: of an edge and a target of one route that are both
\* registered and alive, one has a peer, unless the edge's pair timeout has
\* already taken it out of the queue.
NoMissedMatch ==
  \A e, t \in Session :
    /\ RoleOf[e] = "edge" /\ RoleOf[t] = "target" /\ RouteOf[e] = RouteOf[t]
    /\ InRegistry(e) /\ InRegistry(t) /\ ~done[e] /\ ~done[t]
    /\ handler[e] # "expired"
    => Paired(e) \/ Paired(t)

\* "Pairing won the registry race at the timeout boundary" (server.go:559):
\* only an edge that no target ever claimed is closed with "pair timeout".
TimeoutOnlyUnpaired ==
  \A p \in Session : handler[p] = "expired" \/ frame[p].code = "tryAgain" =>
    ~Paired(p) /\ ~Waiting(p)

\* A handler that returned left nothing of its session in the registry or in
\* a group, where a later session would be paired or compared with it.
NothingLeftBehind ==
  \A p \in Session : handler[p] = "gone" =>
    ~Waiting(p) /\ \A t \in Token : p \notin groups[t].targets \cup groups[t].edges

\* The console's table has no row for a session whose handler returned: the
\* peers a session adds are removed "after shutdown" (docs/testing.md:65).
NoGhostPeer ==
  \A p \in Session : handler[p] = "gone" => console[p] = "absent"

-----------------------------------------------------------------------------
(***************************************************************************)
(* The inductive invariant behind the safety properties.                   *)
(***************************************************************************)

\* A session that has not joined the registry yet.
Early(p) == handler[p] \in {"new", "hello", "grouped"}

\* Nobody can close a session before groups.join, or read from it before it is
\* tracked; whoever stopped reading or is leaving has closed it; no code is
\* armed that only the pair timeout sends.  groups.members offers a session to
\* a revocation between the two joins, so it may be closed there.
LifeOrdered(p) ==
  /\ handler[p] \in {"new", "hello"} => ~done[p]
  /\ Early(p) => reader[p] = "none"
  /\ reader[p] \in {"exiting", "stopped"} => done[p]
  /\ handler[p] \in {"leaving", "dequeued", "left"} => done[p]
  /\ armedCode[p] # "tryAgain"
  /\ frame[p].code # "none" => done[p]

\* A pair is mutual, of one route and of both roles, and both ends joined.
PairMatched(p) ==
  Paired(p) =>
    /\ peer[peer[p]] = p
    /\ RoleOf[peer[p]] = Opposite(RoleOf[p])
    /\ RouteOf[peer[p]] = RouteOf[p]
    /\ ~Early(p)

\* Exactly one end of a pair was elected to run the bridge.
BridgeElected(p) ==
  /\ Paired(p) => (bridge[p] = "none") # (bridge[peer[p]] = "none")
  /\ ~Paired(p) => bridge[p] = "none"

\* Only edges time out, and one that did was never claimed and left the queue.
TimedOutAlone(p) ==
  /\ handler[p] = "expired" => RoleOf[p] = "edge" /\ ~Paired(p)
  /\ frame[p].code = "tryAgain" =>
       /\ ~Paired(p) /\ ~Waiting(p)
       /\ handler[p] \in {"leaving", "dequeued", "left", "gone"}

\* A queue holds unpaired sessions of its route and role whose handler has
\* still to clean up.
QueuedRightly(q, r, role) ==
  q \in waiting[r][role] =>
    /\ RouteOf[q] = r /\ RoleOf[q] = role
    /\ ~Paired(q)
    /\ handler[q] \in {"queued", "tracked", "await", "leaving"}

\* A registered living session that is not paired waits in its queue.
QueuedUnlessPaired(p) ==
  InRegistry(p) /\ ~done[p] /\ ~Paired(p) /\ handler[p] # "expired" => Waiting(p)

\* How the registry, the pairs and the goroutines of all sessions fit together.
PairingInv ==
  /\ \A p \in Session :
       /\ LifeOrdered(p) /\ PairMatched(p) /\ BridgeElected(p)
       /\ TimedOutAlone(p) /\ QueuedUnlessPaired(p)
  /\ \A r \in Route, role \in Role, q \in Session : QueuedRightly(q, r, role)
  /\ \A r \in Route : waiting[r]["edge"] = {} \/ waiting[r]["target"] = {}
  /\ kick.at # "idle" => kick.session \in Session /\ ~Early(kick.session)

\* A group's targets are of its instance; without an instance it has at most
\* one; members belong to the token and have not left.
GroupMatched(t) ==
  /\ \A q \in groups[t].targets :
       /\ RoleOf[q] = "target" /\ GroupOf(q) = t /\ InGroup(q)
       /\ InstanceOf[q] = groups[t].instance
  /\ \A q \in groups[t].edges :
       RoleOf[q] = "edge" /\ GroupOf(q) = t /\ InGroup(q)
  /\ groups[t].instance = NoInstance =>
       \A p, q \in groups[t].targets : p = q

\* A living session that joined is listed by its group; only targets are pruned.
MemberListed(p) ==
  InGroup(p) =>
    /\ RoleOf[p] = "target" /\ ~done[p] => p \in groups[GroupOf(p)].targets
    /\ RoleOf[p] = "edge" => p \in groups[GroupOf(p)].edges

\* Groups hold exactly what the duplicate check and a revocation need to see.
GroupInv ==
  /\ \A t \in Token : GroupMatched(t)
  /\ \A p \in Session : MemberListed(p)

-----------------------------------------------------------------------------
\* A bridge waits for both reports, has closed both ends when it waits for its
\* second copy, and returns after both copies.
BridgeOrdered(p) ==
  /\ bridge[p] = "elected" => handler[p] \in {"queued", "tracked"}
  /\ bridge[p] \notin {"none", "elected"} => Reported(p)
  /\ bridge[p] \notin {"none", "elected", "starting"} => Reported(peer[p])
  /\ bridge[p] \in {"closeTarget", "stopTarget", "joining", "ended"} =>
       done[EdgeEnd(p)]
  /\ bridge[p] \in {"joining", "ended"} => done[TargetEnd(p)]
  /\ bridge[p] = "relaying" => copies[p] = Role
  /\ copies[p] # {} =>
       bridge[p] \in {"relaying", "stopEdge", "stopTarget", "joining"}

\* p is an end of a pair whose bridge got as far as emitPeersPaired.
BridgedPair(p) ==
  /\ Paired(p)
  /\ \E o \in {p, peer[p]} : bridge[o] \in
       {"relaying", "stopEdge", "stopTarget", "joining", "ended"}

\* A session has a row from its report to the return of its handler; only the
\* pairing of its bridge can write it again after that.  No row says "paired"
\* of a session that was never paired, and while a bridge relays the rows of
\* both ends say it: a report never overtakes the pairing.  The exception is a
\* session whose refresh read "waiting" before and emitted it after the pairing
\* (server.go:434); its row is stale until the next refresh or statistics.
RowRight(p) ==
  /\ ~Reported(p) => console[p] = "absent"
  /\ Reported(p) /\ handler[p] # "gone" => console[p] # "absent"
  /\ console[p] # "absent" /\ handler[p] = "gone" => BridgedPair(p)
  /\ console[p] \in {"paired", "stale"} \/ refresh[p] = "paired" => Paired(p)
  /\ Paired(p) /\ "relaying" \in {bridge[p], bridge[peer[p]]} =>
       console[p] \in {"paired", "stale"} \/ handler[p] = "gone"

\* No socket outlives its session.  closeWith closes the socket in the call that
\* closes done, up to a second later: the two are one step.
SocketClosed(p) == done[p] \/ handler[p] = "gone" => ~connOpen[p]

\* The whole relay: types, groups, pairs, bridges, console rows and sockets.
RelayInv ==
  /\ TypeOK /\ GroupInv /\ PairingInv
  /\ \A p \in Session : BridgeOrdered(p) /\ RowRight(p) /\ SocketClosed(p)

(***************************************************************************)
(* Action properties.                                                      *)
(***************************************************************************)

\* A session the administrator armed while it was alive ends with the kick's
\* code, whichever of the concurrent paths closes it first (registry.go:110).
KickCodeDelivered ==
  [][\A p \in Session :
       /\ kick.at \in {"text", "close"} /\ kick.session = p
       /\ ~done[p] /\ done'[p]
       => frame'[p].code = "kicked"]_vars

-----------------------------------------------------------------------------
(***************************************************************************)
(* Refinement: the relay implements Rendezvous.  A closed session that     *)
(* still sits in a queue is over; pruning it is invisible.                 *)
(***************************************************************************)
AbstractStatus(p) ==
  CASE frame[p].code = "tryAgain" -> "expired"
    [] frame[p].code # "tryAgain" /\ done[p] -> "over"
    [] ~done[p] /\ handler[p] = "expired" -> "expired"
    [] ~done[p] /\ handler[p] # "expired" /\ Paired(p) -> "matched"
    [] ~done[p] /\ handler[p] # "expired" /\ ~Paired(p) ->
         IF Waiting(p) THEN "waiting" ELSE "outside"

Abstract ==
  INSTANCE Rendezvous WITH
    status <- [p \in Session |-> AbstractStatus(p)],
    partner <- peer, since <- seat, clock <- arrivals

\* The goroutines of all sessions together match sessions as Rendezvous says:
\* who waited longest is claimed first, and a living waiter leaves the queue
\* only claimed or expired.
RendezvousKept == Abstract!AbstractSpec

-----------------------------------------------------------------------------
(***************************************************************************)
(* Liveness.  What each property waits from, P, lasts until what it waits  *)
(* for, Q: so P ~> Q is []<>(P => Q), which TLC checks without a tableau.  *)
(***************************************************************************)

\* A connection that breaks, or that the server closes, frees its place: the
\* handler removes the session everywhere and returns (server.go:31-35).
BrokenSessionsLeave ==
  \A p \in Session : []<>~(Connected(p) /\ ~connOpen[p])

\* The two ends of a pair end together.
PairsEndTogether ==
  \A p \in Session : []<>(Paired(p) => (done[p] <=> done[peer[p]]))

\* An edge does not wait for ever: it is claimed or it is closed.
EdgesServedOrClosed ==
  \A p \in Session :
    []<>(RoleOf[p] = "edge" /\ InRegistry(p) => Paired(p) \/ done[p])

\* No goroutine outlives its session: a read pump blocked on handing over a
\* frame, a copy without frames, a bridge waiting for its two copies and a
\* refresh all end once the handler returned.
GoroutinesEnd ==
  \A p \in Session :
    []<>(handler[p] = "gone" =>
           /\ reader[p] \in {"none", "stopped"}
           /\ bridge[p] \in {"none", "ended"} /\ copies[p] = {}
           /\ refresh[p] = "none")

=============================================================================
