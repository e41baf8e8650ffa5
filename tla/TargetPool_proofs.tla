-------------------------- MODULE TargetPool_proofs --------------------------
(***************************************************************************)
(* Theorems about TargetPool, for any number of slots, services and edits. *)
(* GrowthInv is inductive by itself: only launched slots have grown the    *)
(* pool, so a slot that is launched has not, and takes over as the spare   *)
(* from the one that launched it.  Session loops, publishers and streams   *)
(* follow the slots, and give the whole PoolInv.                           *)
(***************************************************************************)
EXTENDS TargetPool, FiniteSetTheorems, TLAPS

\* A publisher of a slot moves on, be it of a session that has ended.
Publishes(s) == PublishStep(s) \/ PublisherFails(s) \/ OrphanReturns(s)

\* A stream of a slot is opened or moves on.
Streaming(s) ==
  \/ StreamStep(s) \/ UpEnds(s) \/ EdgeFinishes(s) \/ BackendEnds(s)
  \/ \E v \in Service : OpenStream(s, v)

\* The fields of the records that handlers change.
LEMMA RecordsTyped ==
  ASSUME NEW v \in Service
  PROVE  /\ NoStream \in Streams /\ NoPublisher \in Publishing
         /\ [NoStream EXCEPT !.at = "asked", !.service = v] \in Streams
<1> USE TargetAssumption
<1>1. (CHOOSE w \in Service : TRUE) \in Service
  OBVIOUS
<1>2. NoStream \in Streams
  BY <1>1 DEF NoStream, Streams
<1>3. NoPublisher \in Publishing
  BY DEF NoPublisher, Publishing
<1>4. [NoStream EXCEPT !.at = "asked", !.service = v] \in Streams
  BY <1>1 DEF NoStream, Streams
<1> QED
  BY <1>2, <1>3, <1>4

\* A step that changes the slots only, leaving used slots used.
LEMMA SlotMoves ==
  ASSUME TargetTypeOK, NEW s \in Slot, NEW place \in SlotAt, slot[s] # "unused",
         place # "unused", slot' = [slot EXCEPT ![s] = place], started' = started
  PROVE  /\ slot' \in [Slot -> SlotAt]
         /\ \A r \in Slot : slot'[r] = "unused" <=> r > started'
  BY DEF TargetTypeOK

\* Launching slot started + 1 from slot s.
LEMMA SlotLaunched ==
  ASSUME TargetTypeOK, NEW s \in Slot, slot[s] = "expanding", started < MaxSlots,
         slot' = [slot EXCEPT ![s] = "serving", ![started + 1] = "connecting"],
         started' = started + 1
  PROVE  /\ started + 1 \in Slot /\ started' \in 0 .. MaxSlots
         /\ slot[started + 1] = "unused"
         /\ slot' \in [Slot -> SlotAt]
         /\ \A r \in Slot : slot'[r] = "unused" <=> r > started'
<1> USE TargetAssumption
<1>1. started \in 0 .. MaxSlots /\ started + 1 \in Slot
  BY DEF TargetTypeOK, Slot
<1>2. slot[started + 1] = "unused"
  BY <1>1 DEF TargetTypeOK, Slot
<1>3. slot' \in [Slot -> SlotAt]
  BY DEF TargetTypeOK, SlotAt
<1>4. ASSUME NEW r \in Slot PROVE slot'[r] = "unused" <=> r > started'
  <2>1. slot[r] = "unused" <=> r > started
    BY DEF TargetTypeOK
  <2>2. slot'[r] = IF r = started + 1 THEN "connecting" ELSE IF r = s THEN "serving" ELSE slot[r]
    BY <1>1 DEF TargetTypeOK
  <2> QED
    BY <1>1, <2>1, <2>2 DEF Slot
<1> QED
  BY <1>1, <1>2, <1>3, <1>4

\* Initially.
LEMMA TargetInitTyped == TargetInit => TargetTypeOK
<1> USE TargetAssumption
<1> SUFFICES ASSUME TargetInit PROVE TargetTypeOK
    OBVIOUS
<1>1. stream \in [Slot -> Streams] /\ publisher \in [Slot -> Publishing]
  BY RecordsTyped DEF TargetInit
<1>2. /\ slot \in [Slot -> SlotAt] /\ \A s \in Slot : slot[s] = "unused" <=> s > started
      /\ started \in 0 .. MaxSlots
  BY DEF TargetInit, SlotAt, Slot
<1>3. /\ ready \in [Slot -> BOOLEAN] /\ alive \in [Slot -> BOOLEAN] /\ expanded \subseteq Slot
      /\ orphan \in [Slot -> BOOLEAN]
      /\ received \in [Slot -> (SUBSET Service) \cup {NoList}]
  BY DEF TargetInit
<1>4. services \in ServiceLists /\ edits \in 0 .. MaxEdits /\ target = "running"
  BY DEF TargetInit
<1> QED
  BY <1>1, <1>2, <1>3, <1>4 DEF TargetTypeOK

\* The session loop keeps the types.
LEMMA LoopTyped ==
  ASSUME TargetTypeOK, NEW s \in Slot, LoopStep(s) \/ Pair(s) \/ SessionFails(s)
  PROVE  TargetTypeOK'
<1> USE TargetAssumption
<1>t. publisher[s] \in Publishing /\ NoPublisher \in Publishing
  BY RecordsTyped DEF TargetTypeOK
<1>p. ASSUME NEW place \in {"snapshot", "none"}
      PROVE  [publisher EXCEPT ![s].at = place] \in [Slot -> Publishing]
  <2>1. [publisher[s] EXCEPT !.at = place] \in Publishing
    BY <1>t DEF Publishing
  <2> QED
    BY <2>1 DEF TargetTypeOK
<1>1. CASE ReportReady(s)
  <2>1. /\ slot' \in [Slot -> SlotAt]
        /\ \A r \in Slot : slot'[r] = "unused" <=> r > started'
    <3>1. PICK place \in {"expanding", "serving"} : slot' = [slot EXCEPT ![s] = place]
      BY <1>1 DEF ReportReady, Report
    <3> QED
      BY <1>1, <3>1, SlotMoves DEF ReportReady, Report, SlotAt
  <2>2. publisher' \in [Slot -> Publishing]
    <3>1. publisher' = publisher \/ publisher' = [publisher EXCEPT ![s].at = "snapshot"]
      <4>1. publisher[s].at = publisher[s].at /\ publisher \in [Slot -> Publishing]
        BY DEF TargetTypeOK
      <4>2. [publisher EXCEPT ![s].at = publisher[s].at] = publisher
        BY <1>t, <4>1 DEF Publishing
      <4> QED
        BY <1>1, <4>2 DEF ReportReady, Report
    <3> QED
      BY <1>p, <3>1 DEF TargetTypeOK
  <2> QED
    BY <1>1, <2>1, <2>2 DEF ReportReady, Report, TargetTypeOK
<1>2. CASE Launch(s)
  <2>1. publisher' \in [Slot -> Publishing]
    BY <1>2, <1>p DEF Launch, LaunchWithin
  <2>2. /\ slot' \in [Slot -> SlotAt] /\ started' \in 0 .. MaxSlots
        /\ \A r \in Slot : slot'[r] = "unused" <=> r > started'
    <3>1. CASE started < MaxSlots /\ target = "running"
      BY <1>2, <3>1, SlotLaunched DEF Launch, LaunchWithin
    <3>2. CASE ~(started < MaxSlots /\ target = "running")
      <4>1. slot' = [slot EXCEPT ![s] = "serving"] /\ started' = started
        BY <1>2, <3>2 DEF Launch, LaunchWithin
      <4> QED
        BY <1>2, <4>1, SlotMoves DEF Launch, LaunchWithin, SlotAt, TargetTypeOK
    <3> QED
      BY <3>1, <3>2
  <2> QED
    BY <1>2, <2>1, <2>2 DEF Launch, LaunchWithin, TargetTypeOK
<1>3. CASE StopServing(s)
  <2>1. /\ slot' \in [Slot -> SlotAt]
        /\ \A r \in Slot : slot'[r] = "unused" <=> r > started'
    BY <1>3, SlotMoves DEF StopServing, SlotAt, poolVars
  <2>2. /\ publisher' \in [Slot -> Publishing]
        /\ received' \in [Slot -> (SUBSET Service) \cup {NoList}]
    BY <1>3, <1>t DEF StopServing, TargetTypeOK
  <2>3. orphan' \in [Slot -> BOOLEAN]
    <3>1. (orphan[s] \/ publisher[s].at \in {"snapshot", "write", "wait"}) \in BOOLEAN
      OBVIOUS
    <3> QED
      BY <1>3, <3>1 DEF StopServing, TargetTypeOK
  <2> QED
    BY <1>3, <2>1, <2>2, <2>3 DEF StopServing, TargetTypeOK, poolVars
<1>4. CASE EndSession(s)
  <2>1. PICK place \in {"backoff", "stopped"} : slot' = [slot EXCEPT ![s] = place]
    BY <1>4 DEF EndSession, LeaveSession
  <2>2. /\ slot' \in [Slot -> SlotAt]
        /\ \A r \in Slot : slot'[r] = "unused" <=> r > started'
    BY <1>4, <2>1, SlotMoves DEF EndSession, LeaveSession, SlotAt
  <2>3. ready' \in [Slot -> BOOLEAN]
    BY <1>4 DEF EndSession, LeaveSession, TargetTypeOK
  <2> QED
    BY <1>4, <2>2, <2>3 DEF EndSession, LeaveSession, TargetTypeOK
<1>5. CASE Retry(s) \/ StopSlot(s) \/ Pair(s)
  <2>1. PICK place \in {"connecting", "stopped", "paired"} : slot' = [slot EXCEPT ![s] = place]
    BY <1>5 DEF Retry, StopSlot, StopFrom, Pair
  <2>2. /\ slot' \in [Slot -> SlotAt]
        /\ \A r \in Slot : slot'[r] = "unused" <=> r > started'
    BY <1>5, <2>1, SlotMoves DEF Retry, StopSlot, StopFrom, Pair, SlotAt, poolVars
  <2>3. alive' \in [Slot -> BOOLEAN]
    BY <1>5 DEF Retry, StopSlot, StopFrom, Pair, TargetTypeOK
  <2> QED
    BY <1>5, <2>2, <2>3 DEF Retry, StopSlot, StopFrom, Pair, TargetTypeOK, poolVars
<1>6. CASE SessionFails(s)
  BY <1>6 DEF SessionFails, TargetTypeOK, poolVars
<1> QED
  BY <1>1, <1>2, <1>3, <1>4, <1>5, <1>6 DEF LoopStep

\* The publisher and the streams keep the types.
LEMMA StreamsTyped ==
  ASSUME TargetTypeOK, NEW s \in Slot, Publishes(s) \/ Streaming(s)
  PROVE  TargetTypeOK'
<1> USE TargetAssumption
<1>t. publisher[s] \in Publishing /\ stream[s] \in Streams
  BY DEF TargetTypeOK
<1>n. NoStream \in Streams
  BY RecordsTyped
<1>1. CASE Snapshot(s)
  <2>1. [at |-> "write", list |-> Published(services), edit |-> edits] \in Publishing
    BY DEF Publishing, Published, TargetTypeOK
  <2> QED
    BY <1>1, <2>1 DEF Snapshot, TargetTypeOK, poolVars
<1>2. CASE WriteCatalog(s)
  <2>1. [at |-> "wait", list |-> {}, edit |-> publisher[s].edit] \in Publishing
    BY <1>t DEF Publishing
  <2>2. publisher[s].list \in SUBSET Service
    BY <1>t DEF Publishing
  <2>3. received' \in [Slot -> (SUBSET Service) \cup {NoList}]
    BY <1>2, <2>2 DEF WriteCatalog, Write, TargetTypeOK
  <2>4. publisher' \in [Slot -> Publishing]
    BY <1>2, <2>1 DEF WriteCatalog, Write, TargetTypeOK
  <2> QED
    BY <1>2, <2>3, <2>4 DEF WriteCatalog, Write, TargetTypeOK, poolVars
<1>3. CASE Changed(s)
  <2>1. [publisher[s] EXCEPT !.at = "snapshot"] \in Publishing
    BY <1>t DEF Publishing
  <2> QED
    BY <1>3, <2>1 DEF Changed, TargetTypeOK, poolVars
<1>4. ASSUME NEW next \in Streams, StreamMoves(s, next) PROVE TargetTypeOK'
  BY <1>4 DEF StreamMoves, TargetTypeOK, poolVars
<1>5. ASSUME NEW way, CopyEnds(s, way) PROVE TargetTypeOK'
  <2>1. [stream[s] EXCEPT !.copies = stream[s].copies \ {way}] \in Streams
    BY <1>t DEF Streams
  <2>2. \E next \in Streams : StreamMoves(s, next)
    BY <1>5, <1>n, <2>1 DEF CopyEnds
  <2> QED
    BY <1>4, <2>2
<1>6. ASSUME NEW v \in Service, OpenStream(s, v) PROVE TargetTypeOK'
  BY <1>4, <1>6, RecordsTyped DEF OpenStream
<1>7. CASE FindService(s) \/ DialBackend(s)
  <2>1. /\ [stream[s] EXCEPT !.at = "dialing"] \in Streams
        /\ [stream[s] EXCEPT !.at = "bridge", !.copies = {"up", "down"}] \in Streams
    BY <1>t DEF Streams
  <2> QED
    BY <1>4, <1>7, <2>1 DEF FindService, DialBackend
<1>8. CASE RefuseService(s) \/ DialFails(s)
  BY <1>4, <1>8, <1>n DEF RefuseService, DialFails
<1>9. CASE UpEnds(s) \/ EdgeFinishes(s) \/ BackendEnds(s)
  BY <1>5, <1>9 DEF UpEnds, EdgeFinishes, BackendEnds
<1>10. CASE PublisherEnds(s) \/ PublisherFails(s)
  <2>1. NoPublisher \in Publishing /\ [NoPublisher EXCEPT !.at = "failed"] \in Publishing
    BY DEF NoPublisher, Publishing
  <2>2. publisher' \in [Slot -> Publishing]
    BY <1>10, <2>1 DEF PublisherEnds, PublisherFails, TargetTypeOK
  <2> QED
    BY <1>10, <2>2 DEF PublisherEnds, PublisherFails, TargetTypeOK, poolVars
<1>11. CASE OrphanReturns(s)
  BY <1>11 DEF OrphanReturns, TargetTypeOK, poolVars
<1> QED
  BY <1>1, <1>2, <1>3, <1>6, <1>7, <1>8, <1>9, <1>10, <1>11
  DEF Publishes, Streaming, PublishStep, StreamStep

\* Every step keeps the types.
LEMMA TargetStepTyped == TargetTypeOK /\ [TargetNext]_targetVars => TargetTypeOK'
<1> USE TargetAssumption
<1> SUFFICES ASSUME TargetTypeOK, [TargetNext]_targetVars PROVE TargetTypeOK'
    OBVIOUS
<1>1. CASE SetServices
  <2>1. edits' \in 0 .. MaxEdits
    BY <1>1 DEF SetServices, TargetTypeOK
  <2> QED
    BY <1>1, <2>1 DEF SetServices, TargetTypeOK, poolVars
<1>2. CASE Cancel \/ Return
  BY <1>2 DEF Cancel, Return, TargetTypeOK, poolVars
<1>3. CASE UNCHANGED targetVars
  BY <1>3 DEF targetVars, poolVars, TargetTypeOK
<1> QED
  BY <1>1, <1>2, <1>3, LoopTyped, StreamsTyped DEF TargetNext, PeerStep, Publishes, Streaming

\* Every variable of the target keeps its type (internal/client/target.go).
THEOREM TargetTypeCorrect == TargetSpec => []TargetTypeOK
  BY TargetInitTyped, TargetStepTyped, PTL DEF TargetSpec

-----------------------------------------------------------------------------
(***************************************************************************)
(* Growth: the part of the invariant that the spare slot depends on.       *)
(***************************************************************************)
GrowthInv ==
  /\ TargetTypeOK
  /\ OnlyLaunchedGrew
  /\ HotStandby
  /\ GrowsOncePerSlot
  /\ NoStreamOutlivesItsSession

\* The sets counted are finite.
LEMMA PoolFinite ==
  ASSUME TargetTypeOK
  PROVE  /\ IsFiniteSet(expanded) /\ Cardinality(expanded) \in Nat
         /\ IsFiniteSet(Expanding) /\ Cardinality(Expanding) \in Nat
<1> USE TargetAssumption
<1>1. IsFiniteSet(Slot)
  BY FS_Interval DEF Slot
<1>2. IsFiniteSet(expanded) /\ IsFiniteSet(Expanding)
  BY <1>1, FS_Subset DEF Expanding, TargetTypeOK
<1> QED
  BY <1>2, FS_CardinalityType

\* Initially the one slot is the spare.
LEMMA GrowthInit == TargetInit => GrowthInv
<1> USE TargetAssumption
<1> SUFFICES ASSUME TargetInit PROVE GrowthInv
    OBVIOUS
<1>1. TargetTypeOK
  BY TargetInitTyped
<1>2. OnlyLaunchedGrew /\ HotStandby
  BY DEF TargetInit, OnlyLaunchedGrew, HotStandby
<1>3. GrowsOncePerSlot
  <2>1. Expanding = {} /\ expanded = {} /\ started = 1
    BY DEF TargetInit, Expanding
  <2> QED
    BY <2>1, FS_EmptySet DEF GrowsOncePerSlot
<1>4. NoStreamOutlivesItsSession
  BY DEF TargetInit, NoStreamOutlivesItsSession, NoStream
<1> QED
  BY <1>1, <1>2, <1>3, <1>4 DEF GrowthInv

\* A step that neither starts nor ends growing and launches nothing.
LEMMA PoolQuiet ==
  ASSUME GrowthInv, TargetTypeOK', UNCHANGED <<started, expanded>>,
         target' = "running" => target = "running",
         \A s \in Slot : slot'[s] = "expanding" <=> slot[s] = "expanding"
  PROVE  OnlyLaunchedGrew' /\ HotStandby' /\ GrowsOncePerSlot'
<1>1. Expanding' = Expanding
  BY DEF Expanding
<1>2. OnlyLaunchedGrew' /\ GrowsOncePerSlot'
  BY <1>1 DEF GrowthInv, OnlyLaunchedGrew, GrowsOncePerSlot
<1>3. HotStandby'
  <2> SUFFICES ASSUME target = "running", started < MaxSlots
               PROVE  \E s \in 1 .. started : s \notin expanded \/ slot'[s] = "expanding"
    BY DEF HotStandby
  <2>1. PICK s \in 1 .. started : s \notin expanded \/ slot[s] = "expanding"
    BY DEF GrowthInv, HotStandby
  <2>2. s \in Slot
    BY TargetAssumption DEF GrowthInv, TargetTypeOK, Slot
  <2> QED
    BY <2>1, <2>2
<1> QED
  BY <1>2, <1>3

\* A report keeps the pool's invariant: the slot grows the pool if it has
\* not done so.
LEMMA ReportKeepsPool ==
  ASSUME GrowthInv, TargetTypeOK', NEW s \in Slot, ReportReady(s)
  PROVE  OnlyLaunchedGrew' /\ HotStandby' /\ GrowsOncePerSlot'
<1> USE TargetAssumption
<1>t. /\ TargetTypeOK /\ s \in 1 .. started /\ started \in Nat
      /\ slot \in [Slot -> SlotAt]
  BY DEF GrowthInv, TargetTypeOK, ReportReady, Report, Slot
<1>1. CASE s \in expanded
  <2>1. expanded' = expanded /\ started' = started /\ slot' = [slot EXCEPT ![s] = "serving"]
        /\ target' = target /\ slot[s] = "paired"
    BY <1>1 DEF ReportReady, Report
  <2>2. \A r \in Slot : slot'[r] = "expanding" <=> slot[r] = "expanding"
    BY <1>t, <2>1
  <2> QED
    BY <2>1, <2>2, PoolQuiet
<1>2. CASE s \notin expanded
  <2>1. /\ expanded' = expanded \cup {s} /\ started' = started
        /\ slot' = [slot EXCEPT ![s] = "expanding"] /\ slot[s] = "paired"
    BY <1>2 DEF ReportReady, Report
  <2>2. Expanding' = Expanding \cup {s} /\ s \notin Expanding
    BY <1>t, <2>1 DEF Expanding
  <2>3. /\ Cardinality(Expanding') = Cardinality(Expanding) + 1
        /\ Cardinality(expanded') = Cardinality(expanded) + 1
    BY <1>t, <1>2, <2>1, <2>2, PoolFinite, FS_AddElement
  <2>4. GrowsOncePerSlot'
    BY <1>t, <2>1, <2>3, PoolFinite DEF GrowthInv, GrowsOncePerSlot
  <2>5. OnlyLaunchedGrew'
    BY <1>t, <2>1 DEF GrowthInv, OnlyLaunchedGrew
  <2>6. HotStandby'
    BY <1>t, <2>1 DEF HotStandby
  <2> QED
    BY <2>4, <2>5, <2>6
<1> QED
  BY <1>1, <1>2

\* Launching keeps it: the slot launched has not grown the pool.
LEMMA LaunchKeepsPool ==
  ASSUME GrowthInv, TargetTypeOK', NEW s \in Slot, Launch(s)
  PROVE  OnlyLaunchedGrew' /\ HotStandby' /\ GrowsOncePerSlot'
<1> USE TargetAssumption
<1>t. /\ TargetTypeOK /\ started \in 0 .. MaxSlots /\ slot[s] = "expanding"
      /\ expanded' = expanded /\ target' = target /\ s \in Expanding
      /\ slot \in [Slot -> SlotAt]
  BY DEF GrowthInv, TargetTypeOK, Launch, LaunchWithin, Expanding
<1>1. ASSUME Expanding' = Expanding \ {s}
      PROVE  Cardinality(Expanding') = Cardinality(Expanding) - 1
  BY <1>t, <1>1, PoolFinite, FS_RemoveElement
<1>2. CASE started < MaxSlots /\ target = "running"
  <2>1. /\ started' = started + 1
        /\ slot' = [slot EXCEPT ![s] = "serving", ![started + 1] = "connecting"]
    BY <1>2 DEF Launch, LaunchWithin
  <2>2. started + 1 \in Slot /\ slot[started + 1] = "unused"
    BY <1>t, <1>2, <2>1, SlotLaunched
  <2>3. Expanding' = Expanding \ {s}
    BY <1>t, <2>1, <2>2 DEF Expanding
  <2>4. GrowsOncePerSlot'
    BY <1>t, <1>1, <2>1, <2>3, PoolFinite DEF GrowthInv, GrowsOncePerSlot
  <2>5. started + 1 \notin expanded
    BY <1>t DEF GrowthInv, OnlyLaunchedGrew
  <2> QED
    BY <1>t, <2>1, <2>4, <2>5 DEF GrowthInv, OnlyLaunchedGrew, HotStandby
<1>3. CASE ~(started < MaxSlots /\ target = "running")
  <2>1. started' = started /\ slot' = [slot EXCEPT ![s] = "serving"]
    BY <1>3 DEF Launch, LaunchWithin
  <2>2. Expanding' = Expanding \ {s}
    BY <1>t, <2>1 DEF Expanding
  <2>3. GrowsOncePerSlot'
    BY <1>t, <1>1, <2>1, <2>2, PoolFinite DEF GrowthInv, GrowsOncePerSlot
  <2> QED
    BY <1>t, <1>3, <2>1, <2>3 DEF GrowthInv, OnlyLaunchedGrew, HotStandby
<1> QED
  BY <1>2, <1>3

\* Every step keeps what the pool promises.
LEMMA PoolKept ==
  ASSUME GrowthInv, TargetTypeOK', [TargetNext]_targetVars
  PROVE  OnlyLaunchedGrew' /\ HotStandby' /\ GrowsOncePerSlot'
<1>t. slot \in [Slot -> SlotAt]
  BY DEF GrowthInv, TargetTypeOK
<1>1. ASSUME NEW s \in Slot,
             \/ StopServing(s) \/ EndSession(s) \/ Retry(s) \/ StopSlot(s)
             \/ Pair(s) \/ SessionFails(s)
      PROVE  OnlyLaunchedGrew' /\ HotStandby' /\ GrowsOncePerSlot'
  <2>2. \A r \in Slot : slot'[r] = "expanding" <=> slot[r] = "expanding"
    <3>1. ASSUME NEW place \in {"draining", "backoff", "stopped", "connecting", "paired"},
                 slot[s] # "expanding", slot' = [slot EXCEPT ![s] = place]
          PROVE  \A r \in Slot : slot'[r] = "expanding" <=> slot[r] = "expanding"
      BY <1>t, <3>1
    <3>2. CASE StopServing(s)
      BY <3>1, <3>2 DEF StopServing
    <3>3. CASE EndSession(s)
      BY <3>1, <3>3 DEF EndSession, LeaveSession
    <3>4. CASE Retry(s) \/ StopSlot(s) \/ Pair(s)
      BY <3>1, <3>4 DEF Retry, StopSlot, StopFrom, Pair
    <3>5. CASE SessionFails(s)
      BY <3>5 DEF SessionFails
    <3> QED
      BY <1>1, <3>2, <3>3, <3>4, <3>5
  <2>3. UNCHANGED <<started, expanded, target>>
    BY <1>1 DEF StopServing, EndSession, LeaveSession, Retry, StopSlot, StopFrom, Pair,
                SessionFails, poolVars
  <2> QED
    BY <2>2, <2>3, PoolQuiet
<1>2. ASSUME NEW s \in Slot, Publishes(s) \/ Streaming(s)
      PROVE  UNCHANGED <<slot, started, expanded, target>>
  <2>1. CASE Publishes(s)
    BY <2>1
    DEF Publishes, PublishStep, Snapshot, WriteCatalog, Write, Changed, PublisherEnds,
        PublisherFails, OrphanReturns, poolVars
  <2>2. CASE Streaming(s)
    BY <2>2
    DEF Streaming, StreamStep, FindService, RefuseService, DialBackend, DialFails, UpEnds,
        EdgeFinishes, BackendEnds, CopyEnds, OpenStream, StreamMoves, poolVars
  <2> QED
    BY <1>2, <2>1, <2>2
<1>3. ASSUME SetServices \/ Cancel \/ Return \/ UNCHANGED targetVars
      PROVE  /\ UNCHANGED <<slot, started, expanded>>
             /\ target' = "running" => target = "running"
  BY <1>3 DEF SetServices, Cancel, Return, targetVars, poolVars
<1>4. ASSUME UNCHANGED <<slot, started, expanded>>,
             target' = "running" => target = "running"
      PROVE  OnlyLaunchedGrew' /\ HotStandby' /\ GrowsOncePerSlot'
  BY <1>4, PoolQuiet
<1> QED
  BY <1>1, <1>2, <1>3, <1>4, ReportKeepsPool, LaunchKeepsPool
  DEF TargetNext, LoopStep, PeerStep, Publishes, Streaming

\* No step leaves a stream behind its session.
LEMMA StreamsKept ==
  ASSUME GrowthInv, TargetTypeOK', [TargetNext]_targetVars
  PROVE  NoStreamOutlivesItsSession'
<1> USE TargetAssumption
<1> SUFFICES ASSUME NEW r \in Slot, stream'[r].at # "none"
             PROVE  slot'[r] \in {"serving", "draining"}
    BY DEF NoStreamOutlivesItsSession
<1>t. /\ TargetTypeOK /\ slot \in [Slot -> SlotAt] /\ stream \in [Slot -> Streams]
      /\ stream[r].at # "none" => slot[r] \in {"serving", "draining"}
  BY DEF GrowthInv, TargetTypeOK, NoStreamOutlivesItsSession
<1>1. ASSUME NEW s \in Slot, LoopStep(s) \/ Pair(s) \/ SessionFails(s)
      PROVE  slot'[r] \in {"serving", "draining"}
  <2>1. stream' = stream /\ slot[r] \in {"serving", "draining"}
    BY <1>1, <1>t
    DEF LoopStep, ReportReady, Report, Launch, LaunchWithin, StopServing, EndSession,
        LeaveSession, Retry, StopSlot, StopFrom, Pair, SessionFails
  <2>2. CASE Launch(s)
    <3>1. CASE started < MaxSlots /\ target = "running"
      <4>1. slot' = [slot EXCEPT ![s] = "serving", ![started + 1] = "connecting"]
            /\ slot[s] = "expanding" /\ started' = started + 1
        BY <2>2, <3>1 DEF Launch, LaunchWithin
      <4>2. slot[started + 1] = "unused"
        BY <1>t, <3>1, <4>1, SlotLaunched
      <4> QED
        BY <1>t, <2>1, <4>1, <4>2
    <3>2. CASE ~(started < MaxSlots /\ target = "running")
      BY <1>t, <2>1, <2>2, <3>2 DEF Launch, LaunchWithin
    <3> QED
      BY <3>1, <3>2
  <2>3. CASE EndSession(s)
    BY <1>t, <2>1, <2>3 DEF EndSession, LeaveSession
  <2>4. CASE ReportReady(s) \/ StopServing(s) \/ Retry(s) \/ StopSlot(s) \/ Pair(s)
             \/ SessionFails(s)
    BY <1>t, <2>1, <2>4
    DEF ReportReady, Report, StopServing, Retry, StopSlot, StopFrom, Pair, SessionFails
  <2> QED
    BY <1>1, <2>2, <2>3, <2>4 DEF LoopStep
<1>2. ASSUME NEW s \in Slot, NEW next, StreamMoves(s, next),
             stream[s].at # "none" \/ slot[s] = "serving"
      PROVE  slot'[r] \in {"serving", "draining"}
  BY <1>2, <1>t DEF StreamMoves
<1>3. ASSUME NEW s \in Slot,
             StreamStep(s) \/ UpEnds(s) \/ EdgeFinishes(s) \/ BackendEnds(s)
      PROVE  slot'[r] \in {"serving", "draining"}
  BY <1>2, <1>3
  DEF StreamStep, FindService, RefuseService, DialBackend, DialFails, UpEnds,
      EdgeFinishes, BackendEnds, CopyEnds
<1>4. ASSUME NEW s \in Slot, NEW v \in Service, OpenStream(s, v)
      PROVE  slot'[r] \in {"serving", "draining"}
  BY <1>2, <1>4 DEF OpenStream
<1>5. ASSUME NEW s \in Slot, Publishes(s) PROVE slot'[r] \in {"serving", "draining"}
  BY <1>5, <1>t
  DEF Publishes, PublishStep, Snapshot, WriteCatalog, Write, Changed, PublisherEnds,
      PublisherFails, OrphanReturns
<1>6. CASE SetServices \/ Cancel \/ Return \/ UNCHANGED targetVars
  BY <1>6, <1>t DEF SetServices, Cancel, Return, targetVars
<1> QED
  BY <1>1, <1>3, <1>4, <1>5, <1>6 DEF TargetNext, PeerStep, Publishes

LEMMA GrowthStep == GrowthInv /\ [TargetNext]_targetVars => GrowthInv'
<1> SUFFICES ASSUME GrowthInv, [TargetNext]_targetVars PROVE GrowthInv'
    OBVIOUS
<1>1. TargetTypeOK'
  BY TargetStepTyped DEF GrowthInv
<1> QED
  BY <1>1, PoolKept, StreamsKept DEF GrowthInv

-----------------------------------------------------------------------------
(***************************************************************************)
(* Session loops, publishers and streams of the pool.                      *)
(***************************************************************************)
LoopsInv == \A s \in Slot : SlotOrdered(s) /\ EditPending(s)

\* The slots after a launch: the new one was unused.
LEMMA LaunchMoves ==
  ASSUME TargetTypeOK, NEW s \in Slot, Launch(s), NEW r \in Slot
  PROVE  \/ r = s /\ slot'[r] = "serving"
         \/ r # s /\ slot'[r] = slot[r]
         \/ r # s /\ slot[r] = "unused" /\ slot'[r] = "connecting"
<1>t. slot \in [Slot -> SlotAt] /\ slot[s] = "expanding"
  BY DEF TargetTypeOK, Launch, LaunchWithin
<1>1. CASE started < MaxSlots /\ target = "running"
  <2>1. /\ started' = started + 1
        /\ slot' = [slot EXCEPT ![s] = "serving", ![started + 1] = "connecting"]
    BY <1>1 DEF Launch, LaunchWithin
  <2>2. started + 1 \in Slot /\ slot[started + 1] = "unused"
    BY <1>t, <1>1, <2>1, SlotLaunched
  <2> QED
    BY <1>t, <2>1, <2>2
<1>2. CASE ~(started < MaxSlots /\ target = "running")
  BY <1>t, <1>2 DEF Launch, LaunchWithin
<1> QED
  BY <1>1, <1>2

\* The session loop of a slot moves on.
LEMMA LoopKeepsOrder ==
  ASSUME TargetTypeOK, NoStreamOutlivesItsSession, LoopsInv, NEW s \in Slot,
         LoopStep(s) \/ Pair(s) \/ SessionFails(s)
  PROVE  LoopsInv'
<1>t. /\ slot \in [Slot -> SlotAt] /\ ready \in [Slot -> BOOLEAN]
      /\ alive \in [Slot -> BOOLEAN] /\ publisher \in [Slot -> Publishing]
      /\ publisher[s] \in Publishing /\ stream \in [Slot -> Streams]
      /\ received \in [Slot -> (SUBSET Service) \cup {NoList}]
      /\ edits \in Nat
  BY TargetAssumption DEF TargetTypeOK
<1>u. \A r \in Slot : SlotOrdered(r) /\ EditPending(r)
  BY DEF LoopsInv
<1> SUFFICES ASSUME NEW r \in Slot PROVE SlotOrdered(r)' /\ EditPending(r)'
  BY DEF LoopsInv
<1>0. UNCHANGED <<services, edits, stream, target>>
  BY DEF LoopStep, ReportReady, Report, Launch, LaunchWithin, StopServing, EndSession,
         LeaveSession, Retry, StopSlot, StopFrom, Pair, SessionFails
<1>1. CASE ReportReady(s)
  <2>1. /\ slot[s] = "paired" /\ UNCHANGED <<alive, received>>
        /\ ready'[r] = IF r = s THEN TRUE ELSE ready[r]
        /\ slot'[r] = IF r # s THEN slot[r]
                      ELSE IF s \notin expanded THEN "expanding" ELSE "serving"
    BY <1>t, <1>1 DEF ReportReady, Report
  <2>2. publisher'[s] = IF s \notin expanded THEN [publisher[s] EXCEPT !.at = publisher[s].at]
                        ELSE [publisher[s] EXCEPT !.at = "snapshot"]
    BY <1>t, <1>1 DEF ReportReady, Report
  <2>3. /\ publisher'[s].at = IF s \notin expanded THEN publisher[s].at ELSE "snapshot"
        /\ publisher'[s].edit = publisher[s].edit
    BY <1>t, <2>2 DEF Publishing
  <2>4. r # s => publisher'[r] = publisher[r]
    BY <1>t, <1>1 DEF ReportReady, Report
  <2>5. SlotOrdered(r)'
    BY <1>0, <1>u, <2>1 DEF SlotOrdered
  <2>6. EditPending(r)'
    BY <1>0, <1>u, <2>1, <2>3, <2>4 DEF EditPending
  <2> QED
    BY <2>5, <2>6
<1>2. CASE Launch(s)
  <2>1. /\ slot[s] = "expanding" /\ UNCHANGED <<ready, alive, received>>
        /\ publisher'[r] = IF r = s THEN [publisher[s] EXCEPT !.at = "snapshot"]
                           ELSE publisher[r]
    BY <1>t, <1>2 DEF Launch, LaunchWithin
  <2>2. r = s => publisher'[r].at = "snapshot" /\ publisher'[r].edit = publisher[r].edit
    BY <1>t, <2>1 DEF Publishing
  <2>3. \/ r = s /\ slot'[r] = "serving"
        \/ r # s /\ slot'[r] = slot[r]
        \/ r # s /\ slot[r] = "unused" /\ slot'[r] = "connecting"
    BY <1>2, LaunchMoves
  <2>4. SlotOrdered(r)'
    BY <1>0, <1>u, <2>1, <2>3 DEF SlotOrdered
  <2>5. EditPending(r)'
    BY <1>0, <1>u, <2>1, <2>2, <2>3 DEF EditPending
  <2> QED
    BY <2>4, <2>5
<1>3. CASE StopServing(s)
  <2>1. /\ slot[s] = "serving" /\ ~alive[s] /\ UNCHANGED <<ready, alive>>
        /\ slot'[r] = IF r = s THEN "draining" ELSE slot[r]
        /\ publisher'[r] = IF r = s THEN NoPublisher ELSE publisher[r]
        /\ r # s => received'[r] = received[r]
    BY <1>t, <1>3 DEF StopServing, poolVars
  <2>2. NoPublisher.at = "none" /\ NoPublisher.edit = 0
    BY DEF NoPublisher
  <2>3. SlotOrdered(r)'
    BY <1>0, <1>u, <2>1 DEF SlotOrdered
  <2>4. EditPending(r)'
    BY <1>0, <1>t, <1>u, <2>1, <2>2 DEF EditPending
  <2> QED
    BY <2>3, <2>4
<1>4. CASE EndSession(s)
  <2>1. /\ slot[s] = "draining" /\ UNCHANGED <<alive, publisher, received>>
        /\ slot'[r] = IF r # s THEN slot[r]
                      ELSE IF target = "running" THEN "backoff" ELSE "stopped"
        /\ ready'[r] = IF r # s THEN ready[r] ELSE ready[s] /\ target # "running"
    BY <1>t, <1>4 DEF EndSession, LeaveSession
  <2>2. SlotOrdered(r)'
    BY <1>0, <1>u, <2>1 DEF SlotOrdered
  <2>3. EditPending(r)'
    BY <1>0, <1>u, <2>1 DEF EditPending
  <2> QED
    BY <2>2, <2>3
<1>5. CASE Retry(s) \/ StopSlot(s)
  <2>1. /\ slot[s] \in {"connecting", "backoff"}
        /\ UNCHANGED <<ready, alive, publisher, received>>
        /\ \/ /\ target = "running"
              /\ slot'[r] = (IF r = s THEN "connecting" ELSE slot[r])
           \/ /\ target = "stopping"
              /\ slot'[r] = (IF r = s THEN "stopped" ELSE slot[r])
    BY <1>t, <1>5 DEF Retry, StopSlot, StopFrom, poolVars
  <2>2. SlotOrdered(r)'
    BY <1>0, <1>u, <2>1 DEF SlotOrdered
  <2>3. EditPending(r)'
    BY <1>0, <1>u, <2>1 DEF EditPending
  <2> QED
    BY <2>2, <2>3
<1>6. CASE Pair(s)
  <2>1. /\ slot[s] = "connecting" /\ target # "returned"
        /\ UNCHANGED <<ready, publisher, received>>
        /\ slot'[r] = IF r = s THEN "paired" ELSE slot[r]
        /\ alive'[r] = IF r = s THEN TRUE ELSE alive[r]
    BY <1>t, <1>6 DEF Pair, poolVars
  <2>2. SlotOrdered(r)'
    BY <1>0, <1>u, <2>1 DEF SlotOrdered
  <2>3. EditPending(r)'
    BY <1>0, <1>u, <2>1 DEF EditPending
  <2> QED
    BY <2>2, <2>3
<1>7. CASE SessionFails(s)
  <2>1. /\ UNCHANGED <<slot, ready, publisher, received>>
        /\ alive'[r] = IF r = s THEN FALSE ELSE alive[r]
    BY <1>t, <1>7 DEF SessionFails, poolVars
  <2>2. SlotOrdered(r)'
    BY <1>0, <1>u, <2>1 DEF SlotOrdered
  <2>3. EditPending(r)'
    BY <1>0, <1>u, <2>1 DEF EditPending
  <2> QED
    BY <2>2, <2>3
<1> QED
  BY <1>1, <1>2, <1>3, <1>4, <1>5, <1>6, <1>7 DEF LoopStep

\* The publisher of a session moves on.
LEMMA PublisherKeepsOrder ==
  ASSUME TargetTypeOK, LoopsInv, NEW s \in Slot, Publishes(s)
  PROVE  LoopsInv'
<1>t. /\ publisher \in [Slot -> Publishing] /\ publisher[s] \in Publishing
      /\ received \in [Slot -> (SUBSET Service) \cup {NoList}] /\ edits \in Nat
  BY TargetAssumption DEF TargetTypeOK
<1>0. UNCHANGED <<services, edits, ready, slot, alive, stream, target>>
  BY DEF Publishes, PublishStep, Snapshot, WriteCatalog, Write, Changed, PublisherEnds,
         PublisherFails, OrphanReturns, poolVars
<1>u. \A r \in Slot : SlotOrdered(r) /\ EditPending(r)
  BY DEF LoopsInv
<1> SUFFICES ASSUME NEW r \in Slot PROVE EditPending(r)'
  BY <1>0, <1>u DEF LoopsInv, SlotOrdered
<1>1. CASE Snapshot(s)
  <2>1. /\ publisher[s].at = "snapshot" /\ received' = received
        /\ publisher'[r] = IF r = s
             THEN [at |-> "write", list |-> Published(services), edit |-> edits]
             ELSE publisher[r]
    BY <1>t, <1>1 DEF Snapshot
  <2> QED
    BY <1>0, <1>t, <1>u, <2>1 DEF EditPending, Published
<1>2. CASE WriteCatalog(s)
  <2>1. /\ publisher[s].at = "write"
        /\ received'[r] = IF r = s THEN publisher[s].list ELSE received[r]
        /\ publisher'[r] = IF r = s
             THEN [at |-> "wait", list |-> {}, edit |-> publisher[s].edit]
             ELSE publisher[r]
    BY <1>t, <1>2 DEF WriteCatalog, Write
  <2> QED
    BY <1>0, <1>t, <1>u, <2>1 DEF EditPending, Published
<1>3. CASE Changed(s)
  <2>1. /\ publisher[s].at = "wait" /\ received' = received
        /\ publisher'[r] = IF r = s THEN [publisher[s] EXCEPT !.at = "snapshot"]
                           ELSE publisher[r]
    BY <1>t, <1>3 DEF Changed
  <2>2. r = s => publisher'[r].at = "snapshot" /\ publisher'[r].edit = publisher[r].edit
    BY <1>t, <2>1 DEF Publishing
  <2> QED
    BY <1>0, <1>u, <2>1, <2>2 DEF EditPending
<1>4. CASE PublisherEnds(s)
  <2>1. /\ received' = received
        /\ r = s => ~alive[s] \/ target # "running"
        /\ publisher'[r] = IF r = s THEN NoPublisher ELSE publisher[r]
    BY <1>t, <1>4 DEF PublisherEnds
  <2>2. NoPublisher.at = "none" /\ NoPublisher.edit = 0
    BY DEF NoPublisher
  <2> QED
    BY <1>0, <1>t, <1>u, <2>1, <2>2 DEF EditPending
<1>5. CASE PublisherFails(s)
  <2>1. /\ received' = received /\ publisher[s].at = "write"
        /\ publisher'[r] = IF r = s THEN [NoPublisher EXCEPT !.at = "failed"]
                           ELSE publisher[r]
    BY <1>t, <1>5 DEF PublisherFails
  <2>2. /\ [NoPublisher EXCEPT !.at = "failed"].at = "failed"
        /\ [NoPublisher EXCEPT !.at = "failed"].edit = 0
    BY DEF NoPublisher
  <2> QED
    BY <1>0, <1>t, <1>u, <2>1, <2>2 DEF EditPending
<1>6. CASE OrphanReturns(s)
  BY <1>0, <1>6, <1>u DEF OrphanReturns, EditPending
<1> QED
  BY <1>1, <1>2, <1>3, <1>4, <1>5, <1>6 DEF Publishes, PublishStep

\* A stream of a session moves on.
LEMMA StreamKeepsOrder ==
  ASSUME TargetTypeOK, LoopsInv, NEW s \in Slot, Streaming(s)
  PROVE  LoopsInv'
<1>t. stream \in [Slot -> Streams] /\ stream[s] \in Streams
  BY DEF TargetTypeOK
<1>n. NoStream.at = "none" /\ NoStream.copies = {}
  BY DEF NoStream
<1>u. \A r \in Slot : SlotOrdered(r) /\ EditPending(r)
  BY DEF LoopsInv
<1>1. PICK next : StreamMoves(s, next) /\ (next.at = "bridge" <=> next.copies # {})
  <2>1. ASSUME NEW v \in Service, OpenStream(s, v)
        PROVE  \E next : StreamMoves(s, next) /\ (next.at = "bridge" <=> next.copies # {})
    <3>1. /\ [NoStream EXCEPT !.at = "asked", !.service = v].at = "asked"
          /\ [NoStream EXCEPT !.at = "asked", !.service = v].copies = {}
      BY DEF NoStream
    <3> QED
      BY <2>1, <3>1 DEF OpenStream
  <2>2. CASE RefuseService(s) \/ DialFails(s)
    BY <1>n, <2>2 DEF RefuseService, DialFails
  <2>3. CASE FindService(s)
    <3>1. /\ stream[s].copies = {}
          /\ StreamMoves(s, [stream[s] EXCEPT !.at = "dialing"])
      BY <1>u, <2>3 DEF FindService, SlotOrdered
    <3>2. /\ [stream[s] EXCEPT !.at = "dialing"].at = "dialing"
          /\ [stream[s] EXCEPT !.at = "dialing"].copies = {}
      BY <1>t, <3>1 DEF Streams
    <3> QED
      BY <3>1, <3>2
  <2>4. CASE DialBackend(s)
    <3>1. /\ [stream[s] EXCEPT !.at = "bridge", !.copies = {"up", "down"}].at = "bridge"
          /\ [stream[s] EXCEPT !.at = "bridge", !.copies = {"up", "down"}].copies # {}
      BY <1>t DEF Streams
    <3> QED
      BY <2>4, <3>1 DEF DialBackend
  <2>5. ASSUME NEW way, CopyEnds(s, way)
        PROVE  \E next : StreamMoves(s, next) /\ (next.at = "bridge" <=> next.copies # {})
    <3>1. CASE stream[s].copies = {way}
      BY <1>n, <2>5, <3>1 DEF CopyEnds
    <3>2. CASE stream[s].copies # {way}
      <4>1. /\ stream[s].at = "bridge" /\ way \in stream[s].copies
            /\ StreamMoves(s, [stream[s] EXCEPT !.copies = stream[s].copies \ {way}])
        BY <2>5, <3>2 DEF CopyEnds
      <4>2. /\ [stream[s] EXCEPT !.copies = stream[s].copies \ {way}].at = "bridge"
            /\ [stream[s] EXCEPT !.copies = stream[s].copies \ {way}].copies # {}
        BY <1>t, <3>2, <4>1 DEF Streams
      <4> QED
        BY <4>1, <4>2
    <3> QED
      BY <3>1, <3>2
  <2> QED
    BY <2>1, <2>2, <2>3, <2>4, <2>5
    DEF Streaming, StreamStep, UpEnds, EdgeFinishes, BackendEnds
<1> SUFFICES ASSUME NEW r \in Slot PROVE SlotOrdered(r)' /\ EditPending(r)'
  BY DEF LoopsInv
<1>2. /\ stream'[r] = IF r = s THEN next ELSE stream[r]
      /\ UNCHANGED <<services, edits, ready, slot, alive, publisher, received, target>>
  BY <1>t, <1>1 DEF StreamMoves, poolVars
<1> QED
  BY <1>1, <1>2, <1>u DEF SlotOrdered, EditPending, Published

\* Every step keeps it.
LEMMA LoopsStep ==
  ASSUME TargetTypeOK, NoStreamOutlivesItsSession, LoopsInv, [TargetNext]_targetVars
  PROVE  LoopsInv'
<1>u. \A r \in Slot : SlotOrdered(r) /\ EditPending(r)
  BY DEF LoopsInv
<1>1. CASE SetServices
  <2>1. /\ edits' = edits + 1 /\ edits \in Nat
        /\ UNCHANGED <<ready, slot, alive, publisher, received, stream, target>>
    BY <1>1, TargetAssumption DEF SetServices, poolVars, TargetTypeOK
  <2>2. ASSUME NEW r \in Slot PROVE SlotOrdered(r)' /\ EditPending(r)'
    <3>1. publisher[r].edit <= edits /\ publisher[r].edit \in Nat
      BY <1>u, TargetAssumption DEF EditPending, TargetTypeOK, Publishing
    <3> QED
      BY <1>u, <2>1, <3>1 DEF SlotOrdered, EditPending
  <2> QED
    BY <2>2 DEF LoopsInv
<1>2. CASE Cancel
  BY <1>2, <1>u DEF Cancel, poolVars, LoopsInv, SlotOrdered, EditPending
<1>3. CASE Return
  <2>1. /\ target' = "returned" /\ target = "stopping"
        /\ UNCHANGED <<services, edits, ready, slot, alive, publisher, received, stream>>
        /\ \A s \in 1 .. started : slot[s] = "stopped"
    BY <1>3 DEF Return, poolVars
  <2>2. ASSUME NEW r \in Slot PROVE slot[r] \in {"unused", "stopped"}
    BY <2>1, TargetAssumption DEF TargetTypeOK, Slot
  <2> QED
    BY <1>u, <2>1, <2>2 DEF LoopsInv, SlotOrdered, EditPending
<1>4. CASE UNCHANGED targetVars
  BY <1>4, <1>u DEF targetVars, poolVars, LoopsInv, SlotOrdered, EditPending
<1> QED
  BY <1>1, <1>2, <1>3, <1>4, LoopKeepsOrder, PublisherKeepsOrder, StreamKeepsOrder
  DEF TargetNext, PeerStep, Publishes, Streaming

LEMMA PoolInit == TargetInit => PoolInv
<1> SUFFICES ASSUME TargetInit PROVE PoolInv
  OBVIOUS
<1>1. GrowthInv
  BY GrowthInit
<1>2. ASSUME NEW s \in Slot PROVE SlotOrdered(s) /\ EditPending(s)
  BY DEF TargetInit, SlotOrdered, EditPending, NoPublisher, NoStream
<1> QED
  BY <1>1, <1>2 DEF PoolInv, GrowthInv

LEMMA PoolStep == PoolInv /\ [TargetNext]_targetVars => PoolInv'
<1> SUFFICES ASSUME PoolInv, [TargetNext]_targetVars PROVE PoolInv'
  OBVIOUS
<1>1. GrowthInv /\ LoopsInv /\ TargetTypeOK /\ NoStreamOutlivesItsSession
  BY DEF PoolInv, GrowthInv, LoopsInv
<1>2. GrowthInv' /\ LoopsInv'
  BY <1>1, GrowthStep, LoopsStep
<1> QED
  BY <1>2 DEF PoolInv, GrowthInv, LoopsInv

-----------------------------------------------------------------------------
\* A session loop ends only with the target, the pool counts the sessions it was
\* told of, a publisher has the newest list, has sent it or finds its channel
\* closed, and nothing runs after the return; with types, growth and streams.
THEOREM PoolInvariant == TargetSpec => []PoolInv
  BY PoolInit, PoolStep, PTL DEF TargetSpec

\* A pool that may still grow always has, or is about to launch, a spare.
THEOREM HotStandbyCorrect == TargetSpec => []HotStandby
<1>1. PoolInv => HotStandby
  BY DEF PoolInv
<1> QED
  BY <1>1, PoolInvariant, PTL

\* A slot grows the pool once, however often it reconnects.
THEOREM GrowsOncePerSlotCorrect == TargetSpec => []GrowsOncePerSlot
<1>1. PoolInv => GrowsOncePerSlot
  BY DEF PoolInv
<1> QED
  BY <1>1, PoolInvariant, PTL

\* No stream is left when its slot dials again.
THEOREM NoStreamOutlivesCorrect == TargetSpec => []NoStreamOutlivesItsSession
<1>1. PoolInv => NoStreamOutlivesItsSession
  BY DEF PoolInv
<1> QED
  BY <1>1, PoolInvariant, PTL

\* Once the target returned no session is alive and no stream runs, so whatever a
\* publishLoop that nobody waited for still does, it has no edge to do it to.
THEOREM NothingAfterReturn ==
  TargetSpec => [](target = "returned" =>
                     \A s \in Slot : ~alive[s] /\ stream[s].at = "none")
<1>1. PoolInv => (target = "returned" =>
                    \A s \in Slot : ~alive[s] /\ stream[s].at = "none")
  <2> SUFFICES ASSUME PoolInv, target = "returned", NEW s \in Slot
               PROVE  ~alive[s] /\ stream[s].at = "none"
    OBVIOUS
  <2>1. slot[s] \in {"unused", "stopped"} /\ ~alive[s]
    BY DEF PoolInv, SlotOrdered
  <2>2. stream[s].at = "none"
    BY <2>1 DEF PoolInv, NoStreamOutlivesItsSession
  <2> QED
    BY <2>1, <2>2
<1> QED
  BY <1>1, PoolInvariant, PTL

\* A serving session whose publisher waits on a channel that no edit has closed
\* has sent its edge the newest list: an edit is never lost between a snapshot and
\* its write.
THEOREM WaitingPublishersAreCurrent ==
  TargetSpec => [](\A s \in Slot :
                     publisher[s].at = "wait" /\ publisher[s].edit = edits =>
                       received[s] = Published(services))
<1>1. PoolInv => \A s \in Slot :
                   publisher[s].at = "wait" /\ publisher[s].edit = edits =>
                     received[s] = Published(services)
  BY DEF PoolInv, EditPending
<1> QED
  BY <1>1, PoolInvariant, PTL

=============================================================================
