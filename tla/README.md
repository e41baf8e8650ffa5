# Molex: formal models

TLA+ models of [molex](https://github.com/suifei/molex), the TLC runs that check
them on small instances, and TLAPS proofs of theorems about them for instances
of any size. Paths below are relative to the repository root; `relay/` is short
for `src/internal/relay/`, and likewise for the other packages.

## 1. The system

Molex tunnels TCP services from a *Target* process to *Edge* processes through a
*Relay*. All three are roles of one Go program, run under a *service manager*
that a web console drives. Clients authenticate with a token; a token's value is
also the key of an opaque *route*, and the relay pairs one edge session with one
target session of the same route. The paired ends run an encrypted record
channel and a yamux session through it that the relay cannot read.

| Component | Source | State it keeps | Operations | Hard behaviour |
|---|---|---|---|---|
| Participant | `relay/registry.go` | `done`, socket, armed close code and text, peer | `closeWith`, `abort`, `armClose` | Any of five goroutines may close it; the first one decides the frame |
| Groups | `relay/groups.go` | per token: target instance, targets, edges | `join`, `leave`, `members` | One target *process* per token while dead sessions linger |
| Registry | `relay/registry.go` | per route: queues of unpaired edges and targets | `join`, `remove` | FIFO pairing, pruning of closed waiters, timeout races |
| Server | `relay/server.go` | connections, participants, `closed` | handler, read pump, keep-alive, bridge, kick, sweep | Goroutines of two sessions interleave; deferred clean-up on each path |
| Tokens | `relay/tokens.go` | credentials with expiry and a previous value | `replace`, `lookup`, `expiredIDs` | Revocation against admission; overlap of two values |
| Metadata | `relay/server.go` | pending label updates per session | `queue`/`flushPeerMetadata` | A stale status may be reported after a newer one |
| Manager | `service/manager.go` | running runtime, generation, status, events, peers | `Start`, `Stop`, `Update*`, event intake | Late events of an old runtime; hot-update channels |
| Edge | `client/edge.go` | sessions, catalogs, mappings, listeners, local connections | attach/detach, `setCatalog`, `setMappings`, retries, `forward`, `shutdown` | Updates, routes and catalogs in any order; connections of a lost route; shutdown |
| Target | `client/target.go` | pool of sessions, service table, streams | pool growth, publication, streams | Grow once per slot; edits racing with the publisher; streams that hold a session |
| Session loop | `client/client.go`, `client/retry.go` | retry delay, aggregate state | dial, back off, report | Reset after a stable session; permanent errors |
| Stream group | `client/stream_group.go` | count of streams | `goIfAvailable`, `waitForAll` | Admission against the final wait |
| Record channel | `protocol/record_conn.go` | keys, sequence numbers, buffers | handshake, `Read`, `Write` | Sequence numbers never repeat; truncation |
| Console auth | `webui/auth.go` | cookie sessions, login failures | create, validate, limit | Check and record are separate calls |
| Console API | `webui/api.go` | the configuration file | setup, login, save, start, stop, edit lists, rotate tokens | Read-modify-write of one file by all handlers; a file that cannot be read |
| Console server | `webui/server.go` | subscribers, console mode | publish, subscribe, lock mode | Bounded buffers drop events |
| Configuration | `config/config.go` | none | `Normalized`, `Validate`, `VisibleTo` | Mutual constraints of token, service, mapping lists |
| Telemetry, audit, diagnostics, CLI, frontend | `telemetry/`, `client/diagnostics.go`, `cmd/`, `frontend/` | logs and views | — | not modelled: I/O and presentation |

How they interact: a relay session's handler calls groups and registry (each
behind its own mutex), and starts a read pump, a keep-alive ticker and — at the
session that completed a pair — a bridge with two copies; a ping with a new label starts
a refresh. They meet in channels (`done`,
`paired`, `reported`, `frames`), and report to the manager by a callback that
the manager serialises. The administrator's kick and the token updates come in
from console goroutines through the manager.

What makes each part correct:

- *Groups*: two live target sessions admitted to a token are one process.
- *Registry*: pairs are mutual, of one route and opposite roles; no living edge
  and target of a route both wait; the oldest living waiter is claimed; nobody is
  dropped from the queue but by being claimed, expiring or dying.
- *Server*: one bridge per pair; a session ends everywhere once it ends anywhere;
  its peer ends too; no goroutine is left; the close reason and the console's rows
  are those of the last thing that happened.
- *Tokens*: sessions of a revoked token or of a value that ran out leave, and are told
  why; a value in its window is accepted.
- *Manager*: one client at a time; status and peers are those of the current generation; the
  last list saved reaches the client; no save blocks.
- *Edge*: the listeners are those the mappings, the catalogs and the routes call for; the edge
  does not fail on its own ports; connections of a lost route end; a stopped edge listens and
  forwards no more, and returns.
- *Target*: a spare session is kept while the pool may grow, growth is counted once per slot;
  every session gets the newest list; a lost session is replaced; a stopped target returns.
- *Record channel*: no nonce is used twice under a key; the reader gets a prefix of what was
  written.
- *Console*: attempts per address are bounded; no lost update of the file.

## 2. Modules

```
RelayParticipant   a session: done, socket, armed close, frame
   |       \
RelayGroups  RelayRegistry      the two shared tables, one step per mutex section
    \        /
   RelayServer  ......implements......  Rendezvous
       |     |                              RelayTokens   token values, deadlines
       |  MCRelayServer                         |
       |                                        |
   RelayRevocation = RelayServer + RelayTokens + update and sweep
             |
       MCRelayRevocation

EdgeRuntime <- MCEdgeRuntime        TargetPool <- MCTargetPool
Console     <- MCConsole            RecordChannel <- MCRecordChannel
                                    RecordChannel ..implements.. ByteStream

RelayServer  <-  RelayServer_proofs  <-  RelayPairing_proofs
                                     <-  RelayKick_proofs  <-  RelayRevocation_proofs
EdgeRuntime <- EdgeRuntime_proofs   TargetPool <- TargetPool_proofs
Console <- Console_proofs           RecordChannel <- RecordChannel_proofs
```

The relay, the two clients, the console and the record channel are separate models, joined
where the code joins them through an unreliable network: to a client the relay is a party that
pairs or drops a session at any time (`AttachSession`, `Pair`, `LinkFails`, `SessionFails`), to
the relay a client is a connection, to the console a client is a runtime that applies updates,
reports and ends. `Rendezvous` and `ByteStream` are what one side may rely on of the other.

| Module | Models | Correspondence |
|---|---|---|
| `RelayParticipant` | `participant` and `closeWith` | `CloseWith` is `closeWith` (first caller wins); `ArmCode` and `ArmText` are the two halves of `armClose` |
| `RelayGroups` | `groupSet` | `JoinGroup` and `RefuseTarget` are the outcomes of `join`; `LeaveGroup` is `leave` |
| `RelayRegistry` | `registry` | `JoinPairs` and `JoinWaits` are the outcomes of `join`; `RemoveWaiting` is `remove` |
| `RelayServer` | the goroutines of each session | `handler`, `reader`, `bridge` are program counters of `handleWebSocket` + `awaitParticipant`, `readParticipant`, `bridge`; `copies[p]` are the `relayFrames` goroutines of `p`'s bridge that run, named by the role they read from; `refresh[p]` is the status `flushPeerMetadata` has read and not yet emitted; `console` is the session's row of the manager's peer table |
| `Rendezvous` | what the relay promises about pairing | the reference the server is shown to implement |
| `RelayTokens` | `tokenStore` and the console's changes of the token list | `tokens` is the configuration, `store` is `byHash` (`StoreOf` is `replace`), `MayAuthorize` is `authorize`; a token value is the route it stands for |
| `RelayRevocation` | `RelayServer` composed with `RelayTokens` | `Authorize` precedes `Connect`; `drop[d]` is the position of `UpdateTokens` or of the sweep in `dropExpiredLegacy` and `dropInactiveGroups` |
| `EdgeRuntime` | `edgeRuntime`, its session loops, `serveListener`, `forward` | the variables are the maps of `edgeRuntime`; `link[g]` is the position of `runSessionLoop` + `runSession`, `reader[g][n]` the catalog `handleInboundStream` of session `n` holds, `conn[c]` one local connection from `Accept` to the end of `countingBridge`; `Reconciled` is `reconcileLocked` |
| `TargetPool` | `targetPoolReporter`, `targetRuntime`, a pool of one group | `slot[s]` is the position of `runSessionLoop` + `runSession` + `report`, `publisher[s]` that of `publishLoop` of its session, `orphan[s]` tells of one whose session has ended, `stream[s]` that of `handleStream` + `bridge`; an edit number stands for the channel `changed` it closes |
| `Console` | the handlers of `webui/api.go` around `actionMu`, and `Manager` | `request[r]` is the position of a handler and the configuration in its hands; `runtime[n]` and `channel[n]` are the goroutine and the update channel of generation `n` |
| `RecordChannel` | one direction of a `RecordConn` | `call[c]` is one call of `Write`; `wire` the frames that left; `readBuf`, `rxSeq` as in the code |
| `ByteStream` | what a direction of a secure connection promises | the reference `RecordChannel` is shown to implement |
| `MC*` | the instances TLC checks | see section 3 |
| `*_proofs` | the proofs of section 4 | |

Choices a reader should know of:

- A slice in arrival order is a set plus `seat`, the arrival number of each
  member, because a session is appended at most once and slices are only filtered.
- A mutex section is one step. `closeWith` is one step: its observers see either
  `done` open or the frame chosen. The socket it closes, up to a second after `done` for the
  control frame, is closed in the same step: a write that still gets through in between is one the
  model makes before the close. The two loads of `armClose`'s fields have, in one
  step, the same outcomes as in two. `armClose` itself is two steps, since a close
  between them is visible.
- Close texts are named after the code they are passed with.
- `abort()` passes code 0, which only suppresses the frame; it is `"normal"`.
- `Opposite` and `Waiting` describe one route; a route is the opaque key of one
  token value and `TokenOf` maps the values of a rotated token to the same token.
- The request context of a hijacked connection ends with its handler, so
  `awaitParticipant`'s `ctx.Done()` branches never win and are left out.
- `untrackParticipant` is merged with the `registry.remove` after it. Labels, traffic counters
  and the HTTP upgrade are left out; authorisation is in `RelayRevocation`. A statistics event may
  come at any tick while a bridge relays, and once more when it ends, whatever was counted.
- A bridge leaves its loop with the error of the copy that ends first, closes both ends
  (`"stopEdge"`, `"stopTarget"`) and waits for the other copy (`"joining"`); one that could not write its
  hellos only closes (`"closeEdge"`, `"closeTarget"`). A frame is handed to a copy and
  written, or fails to be written, in one step: what a copy holds nobody else sees.
- `flushPeerMetadata` is two steps, as the status is read (`relay/server.go:435`) before the update is
  applied to the row (`service/manager.go:408`): an update that read "waiting" may be applied after
  the bridge's "paired". The row is then `"stale"`: it says "waiting" and the model remembers
  that it said "paired" before. An update writes only rows that are there. The buffer and the limit of
  one refresh in five seconds say how often this happens, not in which order; the limit keeps two refreshes
  of one session apart.
- `groups.join` and `registry.join` cannot fail otherwise: `registry.join` returns nil.
- Saving the token list and rebuilding the store (`config.Save`, then `UpdateTokens`) are one step: both
  happen under `actionMu`, and while the relay runs nobody reads the tokens of the file but the
  handlers that wait for it. `tokens` is the list the store was built from.
- Time is a counter that stops at `MaxTime`; a deadline is one of its values, 0 is "none".
  Token values are random, so a rotation issues a value never used before.
- In `RelayRevocation` the two halves of `armClose` are one step: they differ in the text,
  which `RelayServer` is about. Loops over empty lists are skipped, and requests that change
  nothing, which only repeat the pass of the sweep, are left out.
- `EdgeRuntime`: everything under `rt.mu` is one step; what a critical section collects and uses
  after the unlock is two (a `"doomed"` socket is in a list somebody is about to close). The order in
  which a map is walked only matters for ports, and ports of different mappings are
  distinct (`validateMappings`, an assumption on `MappingLists`). `listener.state = "failed"` is a
  listener with `lastErr`. `setMappings` and `housekeeping` may still run after the context
  is done, as their `select` may choose the update or the tick.
- The bridges of both clients are two copies; a copy that ends half-closes its destination,
  which the other party may answer or not, so that what it does is nondeterministic.
- `TargetPool`: one group, one stream per session; streams of a session do not
  interact but through `waitForAll`. `"hidden"` is a service that exists and is not visible to the
  group. `publishLoop` is joined by nobody: when `AcceptStream` fails its goroutine may outlive
  `runSession` and `runTargetProcess` (`orphan`, one flag for all the ended sessions of a slot), but it can only
  return. A write that fails while the session lives (a catalog over the limit, which `config.Load` also
  has, or a stalled connection) ends it early (`PublisherFails`). A dial takes the context, so a cancelled target
  reaches no backend. The hot-update channel is in `Console`; an edit is one step of `setServices` up to
  `close(changed)`, as every publisher looks at the list under the same lock.
- `Console`: a list handler writes the managed list and keeps the other settings of
  the file, a generic one the reverse; `NoRequest.read` tells whether the file could be read.
  Validation is one of the reasons `WriteFails` stands for. The update channel of a
  generation is kept apart from its successor's, since a handler may hold the old one.
- `RecordChannel`: a record opens exactly under the nonce it was sealed with, as the AEAD
  promises; its nonce is its number, since each direction has its key and prefix. Frames
  once written stay in `wire`, so the relay may deliver any of them at any time.
  A failed write leaves a part of a frame that opens under no nonce.
- Definitions commented "Mutant:" are plausible bugs. No specification uses them; each is
  a form of the definition after it under which a listed property must fail.

## 3. Runs

A relay *session* is one accepted connection, so a client that reconnects uses another session;
that bounds every behaviour without a bound in a guard, and `Finished` is the state in which all
sessions are over. Two sessions suffice for what happens within a pair, three for a competition
for one place. Connection failures, pair timers, hello timeouts and write failures may strike at
any step. `Events`, `Kickable` and `Labelling` say what the outside does in a run. The other models name their bounds as constants: `Attempts`, `Pending`, `MaxSlots`,
`MaxEdits`, `MaxStarts`, `MaxSeq`, `MaxTime`, `MaxChanges`.

| Run | Instance | Checks | Result |
|---|---|---|---|
| `RelayRivals` | two targets of one process and a target of another, which uses the rotated value; a kick of the first; failures, shutdown | `OneTargetProcess`, `NothingLeftBehind`, `KickCodeDelivered` | holds, 1.7 M states |
| `RelayEdges` | two symmetric edges and a target; failures | `PeersMatched`, `OneBridgePerPair`, `NoMissedMatch`, `TimeoutOnlyUnpaired`, and `RendezvousKept`: the server implements `Rendezvous` | holds, 1.7 M |
| `RelayLive` | an edge, which refreshes its label, and a target; data frames, premature data, text frames, failures; fairness | `RelayInv`, `BrokenSessionsLeave`, `PairsEndTogether`, `EdgesServedOrClosed`, `GoroutinesEnd` | holds, 335 k |
| `RevokeLive` | one target, three token values, two changes of any kind, a clock of two instants, failures; fairness | `RevocationInv`, `RevokedSessionsLeave`, `LegacySessionsLeave`, `DropsDeliver` | holds, 349 k |
| `Edge` | two groups with a service each, the first reconnects once; two ports, one of which another program may take; a save that moves a mapping to the other's port; one local connection; one catalog still on its way; a stop | `EdgeInv`, `ListenersMatch`, `NoListenerOnceStopped`, `NoForwardingAfterReturn`, `FailsOnlyOnForeignPorts`, `DroppedConnectionsEnd`, `FailedListenersRecover`, `StoppedEdgeReturns` | holds, 259 k |
| `Target` | a pool of three slots, two of which the relay pairs, one with streams; a service that is hidden or published, two edits, a stop; polite backends | `PoolInv`, `HotStandby`, `GrowsOncePerSlot`, `NoStreamOutlivesItsSession`, `EditsReachSessions`, `LostSlotsReconnect`, `StoppedTargetReturns` | holds, 403 k |
| `Console` | two requests at a time, two managed lists, two settings, two starts | `ConsoleInv`, `OneRuntime`, `StatusOfThisRuntime`, `SectionsKept`, `SavedListsApplied`, `RequestsAnswered` | holds, 80 k |
| `Records` | three concurrent writers, two of them of two records, a counter that ends at three | `NonceUnique`, and `StreamKept`: the record layer implements `ByteStream` | holds, 724 |
| `RelayGhost` | an edge and a target; failures | `NoGhostPeer` | **violated** |
| `RevokeRotated` | one target, one change; fairness | `RotatedOutSessionsLeave` | **violated** |
| `TargetStuck` | two slots, one of which pairs, no edit; backends that read but need not close; fairness | `RunningSlotsReconnect` | **violated** |
| `ConsoleWipe` | as `Console` | `ManagedListsKept` | **violated** |

`RelayInv`, `RevocationInv`, `EdgeInv`, `PoolInv` and `ConsoleInv` are the inductive invariants of
section 4, types included; the runs check every part of them before the provers do.

Why these bounds reach the interesting cases:

- *Relay*: a label refresh is one read and one write of a row, so one labelling session of the pair meets
  every order of them with the pairing and the end of the session. A shutdown closes all sockets at once and
  refuses new ones, which is a failure of every connection; it is checked with the three sessions of
  `RelayRivals`, and the theorems, which bound neither `Events` nor `Labelling`, cover every combination.
- *Revocation* is about one session and its token: two changes make a rotation followed by an
  expiry, by a second rotation (the third value) or by a deletion, and two instants a deadline that passes. With
  one session, that every member is armed before any is closed cannot go wrong in the run, and the second loop of a drop meets a session that another goroutine closed, but not
  a peer closed by its bridge; nobody is kicked (`Kickable` is empty), so the kick in
  `ClosedWithReason` is not met either. These cases rest on the theorems of section 4.
- *Edge*: two keys and two ports are the least in which a save moves a mapping to a port the
  edge still holds, a reconciliation must close before it listens, and the route of one group is
  lost while the other's stays. A second connection of a group is needed for a catalog that arrives
  late. A single local connection meets every cause that ends one: the
  target, the route, the session, the save, the stop, the limit of streams.
- *Target*: `HotStandby` speaks of a pool that may still grow. With a maximum of three it does so while two
  slots pair at once, one reconnects beside the other, and a flapping one pairs again; the third slot is the
  spare, which the relay never pairs (`Served`), and the maximum is reached when it is launched. Two
  edits for one that comes while the other is being published on either slot. What a stream
  does to its slot does not depend on the others, so one slot carries streams (`Carrying`).
- *Console*: two requests are all that can race around one mutex, as a third only waits; two
  starts give a runtime and its successor, and so late reports and a handler that still holds the
  channel of the first.
- *Records*: `MaxSeq` stands for 2<sup>64</sup> - 1; the five records the writers want exceed it. Which of
  the frames on the wire the relay delivers, and how often, is free.

Deadlock is checked except in `Target` and `TargetStuck`, where the process stops and nothing
is left to do, and in `Records`, where the connection ends.

### Fairness

- `FairSpec` is weak fairness of each goroutine of the relay, of each copy of a bridge and of a refresh that has begun: the Go scheduler runs what
  can run, and timers and deadlines fire. In particular a broken connection is noticed by the
  read deadline or a failing ping. Nothing is assumed of clients, the network or the
  administrator, except that a `DisconnectPeer` call which has begun goes on.
  `FairRevocationSpec` adds that `UpdateTokens` returns, that the sweep's ticker keeps firing and
  that the clock advances.
- `EdgeFairness`: a session that is over or whose context is done unwinds, a local connection
  makes the steps the edge's code can make, the ticker of `housekeeping` fires while the edge
  runs, a stop goes on. Nothing is assumed of the network, the target, the applications and
  other programs. So `DroppedConnectionsEnd` holds although the application is silent, and
  `FailedListenersRecover` speaks of a port that stays free.
- `TargetFairness`: the same for slots, publishers and streams; dials and reads of
  preambles have deadlines, and a catalog fits the window of its stream, so that writing it does not wait
  for the edge. `ReadingSpec` adds `BackendsRead`: a backend reads what it is sent, so that the copy to it
  is not blocked in `Write` when the session ends. `PoliteSpec` adds `BackendsClose`: a backend whose input was
  half-closed closes its end. `Target` checks `PoliteSpec`; `TargetStuck` shows what happens when backends only read.
  Nothing obliges a write to fail, the relay to pair or a backend to answer.
- The liveness properties of `RelayLive`, `RevokeLive` and `Target` are written `[]<>(P => Q)`. What they wait from, `P`, lasts until
  what they wait for, `Q`, so each is equivalent to `P ~> Q`, and far cheaper for TLC.
- `ConsoleFairness`: a handler that holds `actionMu` goes on; a client that ended is reaped.
  It is strong for `Lock`, as `sync.Mutex` hands over to the longest waiter, and for
  `Applies`, as a receiver that waits on a Go channel is handed the value by the send itself.

### What the violated runs show

- `RelayGhost`: a pair is bridged, the hellos are written, and before the bridge
  reports the pair one end dies and its handler reports it gone. The bridge's
  "paired" upsert then inserts the row again (`service/manager.go:406`), and no later event
  removes it. `docs/testing.md:65` promises the removal.
- `RevokeRotated`: a session that was admitted before the rotation has `legacyToken` false,
  so `dropExpiredLegacy` never takes it, and its token is active. It stays after the grace
  window, contrary to `docs/security.md:58`; only sessions admitted during the window leave
  (`LegacySessionsLeave` holds).
- `TargetStuck`: a session of a target that nobody stops is lost while a stream's backend is silent. The copy from the backend
  stays in `Read`, `bridge` closes the backend only after both copies ended
  (`client/client.go:296-312`), and `waitForAll` (`client/target.go:402`) keeps `runSession` from
  returning. The slot does not dial again and keeps its place in the pool, until the backend
  speaks or closes; a stop waits for it too. The edge closes its tracked
  connections for this very case (`client/edge.go:430`). `docs/architecture.md:170` says clients
  reconnect after a failed session.
- `ConsoleWipe`: `mergeManagedLists` returns the browser's configuration as it is when the
  file cannot be read, and `handleConfig` then saves it: one failed read lets a stale
  browser replace the managed list, which the comment at `webui/api.go:291` excludes.

Other behaviour of the code that its documents or comments describe differently, seen while
modelling and not the subject of a run:

- `armClose` publishes the code before the text (`relay/registry.go:110-118`), so that another close
  between the two sends the kick's code with its own text. The code is always delivered
  (`KickCodeDelivered`).
- A session authorised before its token is disabled, and joined after `UpdateTokens` listed the
  groups, lives until the next sweep, up to thirty seconds, though `relay/server.go:98-99` says
  "immediately". `RevokedSessionsLeave` holds.
- The previous value of an expired token is accepted until its own window ends
  (`relay/tokens.go:70-77`, `97`, against `docs/security.md:57`): its holders are admitted and dropped again by
  every sweep. `StoreDecides` says what the store owes (`Owed`) and what it may accept at most (`Permitted`);
  this case lies between the two and is claimed neither way. With the document's reading, `Owed` in both places,
  `RevokeLive` fails.
- A second rotation overwrites the previous value, whose window is cut short for new connections
  (`webui/api.go:711`, against `docs/security.md:58`). The sessions admitted with it are judged by the token and not by their
  value (`legacyExpired`, `relay/tokens.go:125`), so they stay until the window of the *newer* previous
  value closes. `LegacySessionsLeave` therefore waits until no window of the token is open (`Rotating`); asked
  for the session's own value, `RevokeLive` fails.
- A label refresh that read its status before the pairing may write "waiting" over the "paired" of the bridge
  (`relay/server.go:434-449`). `RowRight` allows exactly this one exception, the `"stale"` row; the next
  refresh or statistics event corrects it, and an idle pair may show it until then.
- An event of the current runtime that comes after `Stop` replaces "stopping"
  (`service/manager.go:371`), until the runtime returns.
- `flushPeerMetadata` drops a whole refresh that comes within five seconds of the last one
  (`relay/server.go:417-421`) and nothing sends it again: after two quick edits of the services
  the count in the console stays old until the next edit or reconnect, against the comment at
  `client/target.go:264-266`.

## 4. Proofs

The proofs are for instances of any size. They assume of the constants what the module declares:
`SessionAssumption` and `EventsAssumption` (relay), `TokensAssumption` and `RevocationAssumption`
(revocation), `EdgeAssumption`, `TargetAssumption`, `ConsoleAssumption`, `RecordAssumption`. Two of
their conjuncts are more than types: every token's first value is its own, and different services
of a mapping list have different ports, which `validateMappings` enforces.

Relay:

1. `TypeCorrect`: `TypeOK` is inductive. Each operation of the components has a typing
   lemma; each actor has a case.
2. `GroupsCorrect`: `GroupInv` is inductive relative to `TypeOK`. It says that a
   group's targets all have its instance, that one without an instance has one
   target at most, that members are sessions between `groups.join` and `groups.leave`, and
   that no living target is missing. `OneTargetProcess` alone is not inductive: a
   join compares with the *recorded* instance, so the record must be related to the
   members, and the members to the living targets.
3. `OneTargetProcessCorrect`: two living targets are both listed, so both have the
   group's instance, and it is not the empty one as they are two.
4. `PairingCorrect`: `PairingInv` is inductive relative to `TypeOK`. Its parts need each
   other: a bridge may close `peer[p]` because pairs are mutual and their ends have joined
   (`PairMatched`); a claim is exclusive because queues hold unpaired sessions of one
   route and role (`QueuedRightly`); no match is missed because a route's two queues are never both
   occupied and every living unpaired session is queued (`QueuedUnlessPaired`). Steps fall in
   four kinds, each with a lemma: quiet ones, passages of a handler, closes, and
   changes of the registry.
5. `PeersMatchedCorrect`, `OneBridgeCorrect`, `NoMissedMatchCorrect`,
   `TimeoutOnlyUnpairedCorrect`, `NothingLeftBehindCorrect` follow.
6. `RendezvousCorrect`: the relay implements `Rendezvous`, for any sessions. A status is a function of
   `done`, the frame, the handler, the pair and the queue (`StatusBefore`, `StatusAfter`), so that a step is
   invisible (`NothingSeen`, `CleanupUnseen`), ends one session (`CloseEnds`, `ExpiredCloses`), lets an
   edge give up (`TimeoutGivesUp`) or is a join (`EnqueueMatches`), whose active sessions of the
   opposite queue are exactly the candidates of `Rendezvous`. `PairingInv` is what excludes the other
   outcomes: a waiter is never paired, a session that is done never waits again.
7. `KickCodeDeliveredCorrect`: an armed code never changes, and a close of an armed session,
   by whichever goroutine, sends it (`ArmingKept`, proved for every action of
   `RelayServer`); `KickArmed` relates the position of the call to the code it armed.
8. `RelayInvCorrect`: `RowsInv`, the last conjunct of `RelayInv`, is inductive relative to `TypeOK` and
   `PairingInv`. A bridge may only relay once both handlers have reported, which is what makes the
   "paired" row come after the "waiting" one (`BridgeOrdered`); while it relays, until the handler of an end returns, its
   row says "paired", or said so until a refresh whose status was older wrote over it (`RowRight`, and
   `RowsRewritten` for the two writers that are not in order); no refresh calls a session paired that never was;
   it returns when both copies have; and whoever closes a session closes its socket
   (`SocketClosed`). `RowRight` also says exactly which row may be left over: one that
   `emitPeersPaired` wrote, the finding of `RelayGhost`. Handlers, readers, bridges and the administrator have a lemma
   each, and each step is one of three kinds: a handler that passes, a bridge that moves on, a close.

Tokens and revocation (`RelayRevocation_proofs`):

9. `AllTypeCorrect`: the types of the composition, from those of `RelayServer` and one
   lemma for the store, whose entries are typed because the list it is built from is.
10. `StoreDecidesCorrect`: at every instant `authorize` accepts every value the configuration's token list owes
    admission and none it does not permit, `activeIDs` are the tokens in force, and no question has two answers. It needs `TokensDistinct`, as two
    tokens with one value would overwrite each other in the map, which in turn needs that a value once issued
    is never issued again; and `StoreCurrent`, that the store is the image of the list at each change.
11. `RevocationCorrect`: `RevocationInv` relates the two goroutines that revoke (`UpdateTokens` and
    the sweep) to the sessions. `DropsAdmitted` says that whom they hold has joined its group, so that a close
    of theirs finds a session the pairing invariant covers; `MembersArmed` that the members passed in
    the first loop, and those still to pass in the second, carry an armed code; `DropOrdered` that the
    lists of one pass are not mixed with the next one's; `LegacyRotated` that a previous value never
    becomes a current one again, without which a session marked legacy might be a rightful one.
12. `SafeUnderRevocation` and `RelayInvUnderRevocation`: every state property of items 1-5 and 8 holds of the
    composition as well, for any tokens and changes.
13. `DropsJustCorrect`: `UpdateTokens` closes only sessions of tokens that are not in force, since
    `actionMu` keeps the next change waiting until the call is over, and `dropExpiredLegacy` only sessions whose
    value nobody accepts any more. The sweep's pass of `dropInactiveGroups` is left out of it on purpose: it
    reads the active tokens, then lists the groups, and a token enabled in between has sessions it
    has just admitted closed. Clients retry, so the code heals by itself.
14. `DropsDeliverCorrect`: a session that a drop or a kick armed ends with a code that tells
    why, whoever closes it first (`ClosedWithReason`); a pass takes up every session of a token out of
    force, and does not turn from one before it ended (`NobodyForgotten`). The latter is what
    `RevokedSessionsLeave` needs besides fairness.

Two properties of `RelayServer` do not carry over, as TLC shows on the composition: `RendezvousKept`, because a
drop may close a session between its two joins, which then enters the queue already closed
(the invariants above allow it: waiters that are done are pruned); and `KickCodeDelivered`, because a session
that a drop armed before the kick ends with "disabled". `ClosedWithReason` is what remains true.

Edge (`EdgeRuntime_proofs`):

15. `EdgeTypeCorrect` and `EdgeInvariant`. `EdgeInv` is a chain: the process shuts its listeners once every
    session loop has ended (`LoopsEnded`), a loop that has left its session left no route (`RoutesDown`), and
    without a route there is no catalog (`OfflineOffersNothing`) and nothing is desired. That is why a
    `setMappings` or a tick that comes after the shutdown opens no listener
    (`NoListenerOnceStoppedCorrect`) and why nothing is forwarded once the edge returned
    (`NoForwardingAfterReturnCorrect`), neither of which is inductive alone. Three parts stand beside it.
    `RouteRegistered`: while a loop is in a session, the route the edge shows for the group is that session's, so that
    the early return of `detachSession` for a session that was replaced is never taken.
    `LocalFollows`: a socket that is still open belongs to a living session or to one whose loop has yet to
    detach it, and one on a list is in the hands of a detach or of the shutdown. `PortOwned`: an open listener has its
    port alone.
16. `NothingHoldsShutdown`: when the shutdown has closed the sockets on its list, no local connection
    still waits for its application. It is what `StoppedEdgeReturns` and `DroppedConnectionsEnd` rest on besides
    fairness, for any number of connections.
17. `ListenersMatchCorrect`: every step that changes a mapping, a catalog or a route ends in
    `Reconciled`, whatever it found.
18. `FailsOnlyOnForeignPortsCorrect`: what `Reconciled` keeps is on the ports of the new list, which
    are distinct, so a listener it opens collides with a foreign one only.

Target (`TargetPool_proofs`):

19. `TargetTypeCorrect` and `PoolInvariant`. `PoolInv` joins `HotStandby`,
    `GrowsOncePerSlot` and `NoStreamOutlivesItsSession` with `OnlyLaunchedGrew`: the slots that grew the pool were
    launched. So the slot a growth launches has not grown, and takes over as the spare, and counting
    is by the cardinality of `expanded`. `SlotOrdered` ties a slot's loop to the pool's count and to
    the target: a loop ends only with the target, and `NothingAfterReturn` follows: no session is alive and no
    stream is left, so a `publishLoop` that nobody joined has nothing to write to.
20. `WaitingPublishersAreCurrent`: `EditPending` says that a slot which serves a living session of a running
    target has a publisher, unless a write failed, and that one which holds the channel of the current edit holds, or has written, the
    list of that edit. So no edit is lost between a snapshot and its write: what `EditsReachSessions` rests on
    besides fairness.

Console (`Console_proofs`):

21. `ConsoleTypeCorrect`; `OneRuntimeCorrect` and `StatusCorrect`, whose conjunction is inductive: an
    event or an end of another generation is discarded because the current one is the newest that runs.
22. `SectionsKeptCorrect`: `FileInv` says that a handler between `Lock` and its answer holds `actionMu`
    (`Holding`) and that the part of its copy it does not edit is still the one in the file, if it could be read
    (`CopyFresh`).
23. `ConsoleInvariant`: `HandlerCurrent` adds that a generic handler that has found nothing running
    still finds nothing running when it writes and starts, and that the generation a handler pushes to or
    stops is the current one, although both are read under one mutex and used after it: the holder
    of `actionMu` is the only one that starts. `UpdatePending` then follows the saved list from the
    file through the handler and the channel to the client. `StartRuntime` replaces the channels, which loses no
    update since no handler can be about to push.
24. `AnsweredSavesArrive` (what `SavedListsApplied` rests on besides fairness) and
    `SettingsOfRunningClientKept` follow.

Record channel (`RecordChannel_proofs`):

25. `RecordInvariant`: `WriteInv` says that only the holder of `writeMu` has a nonce, which is the count of
    records written, that a whole record on the wire is the chunk at its number in the
    stream, and that at most one torn record exists, the next one. `ReadInv` says that what was
    read, with `readBuf`, is the first `rxSeq` chunks.
26. `NonceUniqueCorrect` follows; `StreamKeptCorrect` is the step simulation of `ByteStream`: sending is its
    write, a `Read` of buffered or fresh bytes its read, everything else a stutter.

Only model-checked: the liveness properties, since fairness and `ENABLED` are out of the prover's
reach. Of most of them the part that is not about fairness is proved: that the update, the
edit, the session to drop or the socket to close is always in somebody's hands (items 14, 16, 20, 23). Every
state and action property of a passing run has a theorem. Nothing here is defined by
recursion, so no induction over data is left out.

## 5. Plan

Done: the relay's sessions with the rows they write and refresh in the console, admission and revocation, the edge's runtime, the target's pool, the
manager with the console's handlers, the record channel; an inductive invariant and theorems for each.

Left, in this order:

1. The reports of the target's pool and of several groups (`client/target.go`, `client/client.go`), which are computed under a lock and
   emitted after it, and `retry.go` as a function of the attempts.
2. `ConsoleAuth`: the login limiter, whose check and update are separate, and the cookie sessions.
3. `EventFeed`: subscribers with bounded buffers, against the poll of the browser.

## 6. Not modelled

- Cryptography: hashes, key agreement, key derivation and AEAD are assumed to do their job.
- Byte formats (`protocol/tunnel.go`, `protocol/relay_metadata.go`), log and audit file, probes, the
  command line, the browser frontend: input, output and presentation without shared state.
- The third-party WebSocket and yamux libraries: they appear as connections that deliver in order until they break.
- Time other than the deadlines of tokens: retry delays, read and write deadlines and timers are
  steps that may come at any moment. That is more than the code does, so what is shown holds for every
  choice of durations.
- Login, sessions and the limiter, and the fan-out of events: `publish` drops an event when a subscriber's buffer is
  full, and the browser polls the status every 2.5 seconds in any case (`frontend/src/App.tsx:189`).
- Normalisation and validation, beyond the facts used above (visibility of a service, distinct ports,
  distinct values): pure functions of one document.
