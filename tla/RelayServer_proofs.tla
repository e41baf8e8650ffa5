------------------------- MODULE RelayServer_proofs -------------------------
(***************************************************************************)
(* Machine-checked theorems about RelayServer, for any sets of sessions,   *)
(* routes, tokens and instances and any choice of outside events.          *)
(***************************************************************************)
EXTENDS RelayServer, TLAPS

-----------------------------------------------------------------------------
(***************************************************************************)
(* The operations of the components keep the types of their variables.     *)
(***************************************************************************)
LEMMA CloseWithType ==
  ASSUME ParticipantTypeOK, NEW p, NEW code \in CloseCode, CloseWith(p, code)
  PROVE  ParticipantTypeOK'
<1>1. ASSUME p \in Session
      PROVE  ClosingFrame(p, code) \in [code : MaybeCode, text : MaybeCode]
  BY <1>1 DEF ParticipantTypeOK, ClosingFrame, MaybeCode
<1>2. CASE done[p]
  BY <1>2 DEF ParticipantTypeOK, CloseWith
<1>3. CASE ~done[p]
  BY <1>1, <1>3 DEF ParticipantTypeOK, CloseWith
<1>q. QED
  BY <1>2, <1>3

LEMMA ArmType ==
  ASSUME ParticipantTypeOK, NEW p, ArmCode(p, "kicked") \/ ArmText(p, "kicked")
  PROVE  ParticipantTypeOK'
BY DEF ParticipantTypeOK, ArmCode, ArmText, MaybeCode, CloseCode

LEMMA GroupOfType ==
  ASSUME NEW p \in Session
  PROVE  GroupOf(p) \in Token
BY SessionAssumption DEF GroupOf

LEMMA JoinGroupType ==
  ASSUME GroupsTypeOK, NEW p \in Session,
         JoinGroup(p) \/ RefuseTarget(p) \/ LeaveGroup(p)
  PROVE  GroupsTypeOK'
<1> DEFINE t == GroupOf(p)
<1>1. t \in Token
  BY GroupOfType
<1>2. groups[t] \in [instance : Instance \cup {NoInstance},
                     targets : SUBSET Session, edges : SUBSET Session]
  BY <1>1 DEF GroupsTypeOK
<1>3. InstanceOf[p] \in Instance \cup {NoInstance}
  BY SessionAssumption
<1> HIDE DEF t
<1>4. CASE JoinAsEdge(p)
  BY <1>1, <1>2, <1>4 DEF GroupsTypeOK, JoinAsEdge, t
<1>5. CASE JoinAsTarget(p)
  BY <1>1, <1>2, <1>3, <1>5 DEF GroupsTypeOK, JoinAsTarget, LiveTargets, t
<1>6. CASE RefuseTarget(p)
  BY <1>1, <1>2, <1>6 DEF GroupsTypeOK, RefuseTarget, LiveTargets, t
<1>7. CASE LeaveGroup(p)
  BY <1>1, <1>2, <1>7 DEF GroupsTypeOK, LeaveGroup, t
<1>q. QED
  BY <1>4, <1>5, <1>6, <1>7 DEF JoinGroup

LEMMA RegistryType ==
  ASSUME RegistryTypeOK, NEW p \in Session,
         \/ JoinWaits(p)
         \/ \E q \in Session : JoinPairs(p, q)
         \/ RemoveWaiting(p)
  PROVE  RegistryTypeOK'
<1>1. RouteOf[p] \in Route /\ RoleOf[p] \in Role
  BY SessionAssumption
<1>2. waiting[RouteOf[p]] \in [Role -> SUBSET Session]
  BY <1>1 DEF RegistryTypeOK
<1>3. CASE JoinWaits(p)
  BY <1>1, <1>2, <1>3 DEF RegistryTypeOK, JoinWaits, Active
<1>4. ASSUME NEW q \in Session, JoinPairs(p, q) PROVE RegistryTypeOK'
  BY <1>1, <1>2, <1>4 DEF RegistryTypeOK, JoinPairs, Active, Opposite, Role
<1>5. CASE RemoveWaiting(p)
  BY <1>1, <1>2, <1>5 DEF RegistryTypeOK, RemoveWaiting
<1>q. QED
  BY <1>3, <1>4, <1>5

\* A copy, the bridge's ticker and a refresh leave everything alone but the
\* bridge, its copies, a reader, the rows and the refresh.
LEMMA RelayingFrame ==
  ASSUME NEW p, Relaying(p) \/ Flusher(p)
  PROVE  UNCHANGED <<participantVars, groups, registryVars, handler,
                     serverClosed, kick>>
BY DEF Relaying, EmitStats, CopyEnds, CopyFails, CopyStops, Flusher,
       RefreshStatus, RefreshEmit

LEMMA ServerType ==
  ASSUME TypeOK, Next
  PROVE  ServerTypeOK'
<1> USE DEF TypeOK, ServerTypeOK, HandlerAt, ReaderAt, BridgeAt, ConsoleRow,
            RefreshAt, flowVars
<1>1. ASSUME NEW p \in Session, Handler(p) \/ Connect(p) PROVE ServerTypeOK'
  BY <1>1
     DEF Handler, HandlerStep, Connect, FailHello, EnterGroup, RejectDuplicate,
         Enqueue, Track, Report, AwaitPaired, AwaitDone, AwaitTimeout,
         CloseExpired, UntrackAndDequeue, ExitGroup, EmitDisconnected
<1>2. ASSUME NEW p \in Session,
             \/ Reader(p) \/ ReadNonBinary(p) \/ ReadEarly(p) \/ ReadFrame(p)
      PROVE  ServerTypeOK'
  BY <1>2
     DEF Reader, ReaderStep, ReadError, CloseEarly, OfferTaken, OfferAborted,
         ReaderExit, ReadNonBinary, ReadEarly, ReadFrame
<1>3. ASSUME NEW p \in Session, Bridge(p) PROVE ServerTypeOK'
  BY <1>3
     DEF Bridge, BridgeStep, BridgeStart, GreetEdge, GreetTarget, GreetFails,
         EmitPaired, BridgeEnds, StatsRows, CloseEdgeEnd, CloseTargetEnd
<1>4. ASSUME NEW p \in Session, Relaying(p) PROVE ServerTypeOK'
  BY <1>4
     DEF Relaying, EmitStats, StatsRows, CopyEnds, CopyFails, CopyStops, ReaderStep
<1>5. ASSUME NEW p \in Session, Flusher(p) PROVE ServerTypeOK'
  BY <1>5 DEF Flusher, RefreshStatus, RefreshEmit, Refreshed
<1>6. ASSUME NEW p \in Session, KickLookup(p) PROVE ServerTypeOK'
  BY <1>6 DEF KickLookup, KickStep
<1>7. CASE Kicker
  BY <1>7 DEF Kicker, KickArmCode, KickArmText, KickClose, KickStep
<1>8. ASSUME NEW p \in Session, KeepAliveFails(p) \/ Break(p)
      PROVE  ServerTypeOK'
  BY <1>8 DEF KeepAliveFails, Break, serverVars
<1>9. CASE Shutdown
  BY <1>9 DEF Shutdown
<1>10. CASE Finished
  BY <1>10 DEF Finished, vars, serverVars
<1>q. QED
  BY <1>1, <1>2, <1>3, <1>4, <1>5, <1>6, <1>7, <1>8, <1>9, <1>10 DEF Next

LEMMA ParticipantType ==
  ASSUME TypeOK, Next
  PROVE  ParticipantTypeOK'
<1> USE DEF TypeOK, participantVars
<1>1. {"normal", "policy", "tryAgain", "kicked", "duplicate"} \subseteq CloseCode
  BY DEF CloseCode
<1>2. ASSUME UNCHANGED participantVars PROVE ParticipantTypeOK'
  BY <1>2 DEF ParticipantTypeOK
<1>3. ASSUME NEW p \in Session, Connect(p) \/ FailHello(p) \/ Break(p)
      PROVE  ParticipantTypeOK'
  BY <1>3
     DEF ParticipantTypeOK, Connect, FailHello, Break, BreakConnection,
         ServerTypeOK
<1>4. CASE Shutdown
  BY <1>4 DEF ParticipantTypeOK, Shutdown, Connected
<1>5. ASSUME NEW p \in Session, Handler(p) PROVE ParticipantTypeOK'
  <2>1. CASE FailHello(p)
    BY <1>3, <2>1
  <2>2. CASE RejectDuplicate(p) \/ CloseExpired(p) \/ EmitDisconnected(p)
    BY <1>1, <2>2, CloseWithType
       DEF RejectDuplicate, CloseExpired, EmitDisconnected
  <2>3. CASE ~(\/ FailHello(p) \/ RejectDuplicate(p) \/ CloseExpired(p)
               \/ EmitDisconnected(p))
    BY <1>2, <1>5, <2>3
       DEF Handler, EnterGroup, Enqueue, Track, Report, AwaitPaired, AwaitDone,
           AwaitTimeout, UntrackAndDequeue, ExitGroup
  <2>q. QED
    BY <2>1, <2>2, <2>3
<1>6. ASSUME NEW p \in Session,
             \/ Reader(p) \/ ReadNonBinary(p) \/ ReadEarly(p) \/ ReadFrame(p)
             \/ KeepAliveFails(p)
      PROVE  ParticipantTypeOK'
  <2>1. CASE ReadError(p) \/ ReadNonBinary(p) \/ CloseEarly(p) \/ KeepAliveFails(p)
    BY <1>1, <2>1, CloseWithType
       DEF ReadError, ReadNonBinary, CloseEarly, KeepAliveFails, Abort
  <2>2. CASE ~(\/ ReadError(p) \/ ReadNonBinary(p) \/ CloseEarly(p)
               \/ KeepAliveFails(p))
    BY <1>2, <1>6, <2>2
       DEF Reader, OfferTaken, OfferAborted, ReaderExit, ReadEarly, ReadFrame
  <2>q. QED
    BY <2>1, <2>2
<1>7. ASSUME NEW p \in Session, Bridge(p) \/ Relaying(p) \/ Flusher(p)
      PROVE  ParticipantTypeOK'
  <2>1. CASE CloseEdgeEnd(p)
    BY <1>1, <2>1, CloseWithType DEF CloseEdgeEnd
  <2>2. CASE CloseTargetEnd(p)
    BY <1>1, <2>2, CloseWithType DEF CloseTargetEnd
  <2>3. CASE ~(CloseEdgeEnd(p) \/ CloseTargetEnd(p))
    BY <1>2, <1>7, <2>3, RelayingFrame
       DEF Bridge, BridgeStart, GreetEdge, GreetTarget, GreetFails, EmitPaired,
           BridgeEnds
  <2>q. QED
    BY <2>1, <2>2, <2>3
<1>8. ASSUME NEW p \in Session, KickLookup(p) PROVE ParticipantTypeOK'
  BY <1>2, <1>8 DEF KickLookup
<1>9. CASE Kicker
  BY <1>1, <1>2, <1>9, ArmType, CloseWithType
     DEF Kicker, KickArmCode, KickArmText, KickClose
<1>10. CASE Finished
  BY <1>2, <1>10 DEF Finished, vars
<1>q. QED
  BY <1>3, <1>4, <1>5, <1>6, <1>7, <1>8, <1>9, <1>10 DEF Next

LEMMA SharedType ==
  ASSUME TypeOK, Next
  PROVE  GroupsTypeOK' /\ RegistryTypeOK'
<1> USE DEF TypeOK
<1>1. ASSUME UNCHANGED groups PROVE GroupsTypeOK'
  BY <1>1 DEF GroupsTypeOK
<1>2. ASSUME UNCHANGED registryVars PROVE RegistryTypeOK'
  BY <1>2 DEF RegistryTypeOK, registryVars
<1>3. ASSUME NEW p \in Session, Handler(p)
      PROVE  GroupsTypeOK' /\ RegistryTypeOK'
  <2>1. CASE EnterGroup(p) \/ RejectDuplicate(p) \/ ExitGroup(p)
    BY <1>2, <2>1, JoinGroupType DEF EnterGroup, RejectDuplicate, ExitGroup
  <2>2. CASE Enqueue(p) \/ AwaitTimeout(p) \/ UntrackAndDequeue(p)
    BY <1>1, <2>2, RegistryType DEF Enqueue, AwaitTimeout, UntrackAndDequeue
  <2>3. CASE \/ FailHello(p) \/ Track(p) \/ Report(p) \/ AwaitPaired(p)
             \/ AwaitDone(p) \/ CloseExpired(p) \/ EmitDisconnected(p)
    BY <1>1, <1>2, <2>3
       DEF FailHello, Track, Report, AwaitPaired, AwaitDone, CloseExpired,
           EmitDisconnected
  <2>q. QED
    BY <1>3, <2>1, <2>2, <2>3 DEF Handler
<1>4. ASSUME NEW p \in Session, Reader(p)
      PROVE  GroupsTypeOK' /\ RegistryTypeOK'
  <2>1. CASE ReaderExit(p)
    BY <1>1, <2>1, RegistryType DEF ReaderExit
  <2>2. CASE ~ReaderExit(p)
    BY <1>1, <1>2, <1>4, <2>2
       DEF Reader, ReadError, CloseEarly, OfferTaken, OfferAborted
  <2>q. QED
    BY <2>1, <2>2
<1>5. CASE ~\E p \in Session : Handler(p) \/ Reader(p)
  BY <1>1, <1>2, <1>5, RelayingFrame
     DEF Next, Connect, KeepAliveFails, ReadNonBinary, ReadEarly, ReadFrame,
         Bridge, BridgeStart, GreetEdge, GreetTarget, GreetFails, EmitPaired,
         BridgeEnds, CloseEdgeEnd, CloseTargetEnd, KickLookup,
         KickStep, Kicker, KickArmCode, KickArmText, KickClose, Break, Shutdown,
         Finished, vars
<1>q. QED
  BY <1>3, <1>4, <1>5

LEMMA TypedInit ==
  Init => TypeOK
<1> SUFFICES ASSUME Init PROVE TypeOK
  OBVIOUS
<1>1. ParticipantTypeOK
  BY DEF Init, ParticipantInit, ParticipantTypeOK, NoFrame, MaybeCode
<1>2. GroupsTypeOK
  BY DEF Init, GroupsInit, GroupsTypeOK, EmptyGroup
<1>3. RegistryTypeOK
  BY DEF Init, RegistryInit, RegistryTypeOK
<1>4. ServerTypeOK
  BY DEF Init, ServerTypeOK, HandlerAt, ReaderAt, BridgeAt, ConsoleRow, RefreshAt
<1>q. QED
  BY <1>1, <1>2, <1>3, <1>4 DEF TypeOK

LEMMA TypedStep ==
  TypeOK /\ [Next]_vars => TypeOK'
<1>1. ASSUME TypeOK, Next PROVE TypeOK'
  BY <1>1, ServerType, ParticipantType, SharedType DEF TypeOK
<1>2. ASSUME TypeOK, UNCHANGED vars PROVE TypeOK'
  BY <1>2
     DEF TypeOK, ParticipantTypeOK, GroupsTypeOK, RegistryTypeOK,
         ServerTypeOK, vars, participantVars, registryVars, serverVars, flowVars
<1>q. QED
  BY <1>1, <1>2

\* Every variable keeps its type, for any constants.
THEOREM TypeCorrect == Spec => []TypeOK
BY TypedInit, TypedStep, PTL DEF Spec

-----------------------------------------------------------------------------
(***************************************************************************)
(* GroupInv is inductive relative to TypeOK: membership follows InGroup,   *)
(* and done is never reset, so only joins and leaves disturb it.           *)
(***************************************************************************)
LEMMA DoneGrows ==
  ASSUME TypeOK, Next
  PROVE  \A s \in Session : done[s] => done'[s]
<1> SUFFICES ASSUME NEW s \in Session, done[s] PROVE done'[s]
  OBVIOUS
<1>1. ASSUME NEW p, NEW code, CloseWith(p, code) PROVE done'[s]
  BY <1>1 DEF CloseWith, TypeOK, ParticipantTypeOK
<1>2. ASSUME done' = done PROVE done'[s]
  BY <1>2
<1>3. ASSUME NEW p \in Session, Handler(p) \/ Connect(p) PROVE done'[s]
  BY <1>1, <1>2, <1>3
     DEF Handler, Connect, FailHello, EnterGroup, RejectDuplicate, Enqueue,
         Track, Report, AwaitPaired, AwaitDone, AwaitTimeout, CloseExpired,
         UntrackAndDequeue, ExitGroup, EmitDisconnected, participantVars
<1>4. ASSUME NEW p \in Session,
             \/ Reader(p) \/ ReadNonBinary(p) \/ ReadEarly(p) \/ ReadFrame(p)
             \/ KeepAliveFails(p)
      PROVE  done'[s]
  BY <1>1, <1>2, <1>4
     DEF Reader, ReadError, CloseEarly, OfferTaken, OfferAborted, ReaderExit,
         ReadNonBinary, ReadEarly, ReadFrame, KeepAliveFails, Abort,
         participantVars
<1>5. ASSUME NEW p \in Session, Bridge(p) \/ Relaying(p) \/ Flusher(p)
      PROVE  done'[s]
  BY <1>1, <1>2, <1>5, RelayingFrame
     DEF Bridge, BridgeStart, GreetEdge, GreetTarget, GreetFails, EmitPaired,
         BridgeEnds, CloseEdgeEnd, CloseTargetEnd, participantVars
<1>6. CASE Kicker \/ Shutdown \/ Finished
           \/ \E p \in Session : KickLookup(p) \/ Break(p)
  BY <1>1, <1>2, <1>6
     DEF Kicker, KickArmCode, KickArmText, KickClose, ArmCode, ArmText,
         Shutdown, Finished, vars, KickLookup, Break, BreakConnection,
         participantVars
<1>q. QED
  BY <1>3, <1>4, <1>5, <1>6 DEF Next

\* Whoever is in a group stays in it as long as nobody joins or leaves.
LEMMA GroupStable ==
  ASSUME GroupsTypeOK, GroupInv, groups' = groups,
         \A s \in Session : done[s] => done'[s],
         \A s \in Session : InGroup(s)' = InGroup(s)
  PROVE  GroupInv'
<1>1. \A t \in Token :
        groups[t].targets \subseteq Session /\ groups[t].edges \subseteq Session
  BY DEF GroupsTypeOK
<1>q. QED
  BY <1>1 DEF GroupInv, GroupMatched, MemberListed

\* Only EnterGroup and ExitGroup change a group's membership; RejectDuplicate
\* prunes it.
LEMMA GroupUntouched ==
  ASSUME TypeOK, Next,
         ~ \E p \in Session : EnterGroup(p) \/ RejectDuplicate(p) \/ ExitGroup(p)
  PROVE  groups' = groups /\ \A s \in Session : InGroup(s)' = InGroup(s)
<1>1. ASSUME handler' = handler
      PROVE  \A s \in Session : InGroup(s)' = InGroup(s)
  BY <1>1 DEF InGroup
<1>2. ASSUME NEW p \in Session, Handler(p) \/ Connect(p)
      PROVE  groups' = groups /\ \A s \in Session : InGroup(s)' = InGroup(s)
  BY <1>2
     DEF Handler, HandlerStep, Connect, FailHello, Enqueue, Track, Report,
         AwaitPaired, AwaitDone, AwaitTimeout, CloseExpired, UntrackAndDequeue,
         EmitDisconnected, InGroup, TypeOK, ServerTypeOK
<1>3. CASE ~ \E p \in Session : Handler(p) \/ Connect(p)
  BY <1>1, <1>3, RelayingFrame
     DEF Next, Reader, ReadError, CloseEarly, OfferTaken, OfferAborted,
         ReaderExit, ReadNonBinary, ReadEarly, ReadFrame, KeepAliveFails,
         Bridge, BridgeStart, GreetEdge, GreetTarget, GreetFails, EmitPaired,
         BridgeEnds, CloseEdgeEnd, CloseTargetEnd, KickLookup,
         KickStep, Kicker, KickArmCode, KickArmText, KickClose, Break, Shutdown,
         Finished, vars, serverVars
<1>q. QED
  BY <1>2, <1>3

\* The pointwise effect of a handler step on InGroup.
LEMMA InGroupStep ==
  ASSUME TypeOK, NEW p \in Session, NEW from, NEW to, HandlerStep(p, from, to)
  PROVE  /\ \A s \in Session \ {p} : InGroup(s)' = InGroup(s)
         /\ handler'[p] = to
BY DEF HandlerStep, InGroup, TypeOK, ServerTypeOK

LEMMA EnterGroupKeeps ==
  ASSUME TypeOK, GroupInv, NEW p \in Session, EnterGroup(p)
  PROVE  GroupInv'
<1> DEFINE g == GroupOf(p)
<1>0. /\ g \in Token
      /\ groups \in [Token -> [instance : Instance \cup {NoInstance},
                               targets : SUBSET Session,
                               edges : SUBSET Session]]
  BY GroupOfType DEF TypeOK, GroupsTypeOK
<1>1. done' = done
  BY DEF EnterGroup, participantVars
<1>2. InGroup(p)' /\ ~InGroup(p) /\ \A s \in Session \ {p} : InGroup(s)' = InGroup(s)
  BY InGroupStep DEF EnterGroup, HandlerStep, InGroup
<1> HIDE DEF g
<1>3. CASE JoinAsEdge(p)
  <2>1. /\ groups'[g] = [groups[g] EXCEPT !.edges = @ \cup {p}]
        /\ \A t \in Token \ {g} : groups'[t] = groups[t]
    BY <1>0, <1>3 DEF JoinAsEdge, g
  <2>2. RoleOf[p] = "edge"
    BY <1>3 DEF JoinAsEdge
  <2>3. GroupMatched(g)'
    BY <1>0, <1>2, <2>1, <2>2 DEF GroupInv, GroupMatched, g
  <2>4. ASSUME NEW t \in Token \ {g} PROVE GroupMatched(t)'
    BY <1>0, <1>2, <2>1, <2>4 DEF GroupInv, GroupMatched
  <2>5. ASSUME NEW s \in Session PROVE MemberListed(s)'
    <3>1. GroupOf(s) \in Token /\ (s # p => MemberListed(s))
      BY <2>5, GroupOfType DEF GroupInv
    <3>2. CASE s = p
      BY <1>0, <2>1, <2>2, <3>2 DEF MemberListed, g
    <3>3. CASE s # p
      BY <1>0, <1>1, <1>2, <2>1, <3>1, <3>3 DEF MemberListed
    <3>q. QED
      BY <3>2, <3>3
  <2>q. QED
    BY <2>3, <2>4, <2>5 DEF GroupInv
<1>4. CASE JoinAsTarget(p)
  <2>1. /\ groups'[g] =
             [instance |-> IF LiveTargets(g) = {}
                             THEN InstanceOf[p] ELSE groups[g].instance,
              targets  |-> LiveTargets(g) \cup {p},
              edges    |-> groups[g].edges]
        /\ \A t \in Token \ {g} : groups'[t] = groups[t]
    BY <1>0, <1>4 DEF JoinAsTarget, g
  <2>2. RoleOf[p] = "target"
    BY <1>4 DEF JoinAsTarget
  <2>3. \/ LiveTargets(g) = {}
        \/ InstanceOf[p] # NoInstance /\ InstanceOf[p] = groups[g].instance
    BY <1>4 DEF JoinAsTarget, MayServe, g
  <2>4. LiveTargets(g) = {q \in groups[g].targets : ~done[q]}
    BY DEF LiveTargets
  <2>5. GroupMatched(g)'
    BY <1>0, <1>2, <2>1, <2>2, <2>3, <2>4 DEF GroupInv, GroupMatched, g
  <2>6. ASSUME NEW t \in Token \ {g} PROVE GroupMatched(t)'
    BY <1>0, <1>2, <2>1, <2>6 DEF GroupInv, GroupMatched
  <2>7. ASSUME NEW s \in Session PROVE MemberListed(s)'
    <3>1. CASE s = p
      BY <1>0, <2>1, <2>2, <3>1 DEF MemberListed, g
    <3>2. CASE s # p
      BY <1>0, <1>1, <1>2, <2>1, <2>4, <2>7, <3>2, GroupOfType
         DEF GroupInv, MemberListed
    <3>q. QED
      BY <3>1, <3>2
  <2>q. QED
    BY <2>5, <2>6, <2>7 DEF GroupInv
<1>q. QED
  BY <1>3, <1>4 DEF EnterGroup, JoinGroup

LEMMA RejectDuplicateKeeps ==
  ASSUME TypeOK, GroupInv, NEW p \in Session, RejectDuplicate(p)
  PROVE  GroupInv'
<1> DEFINE g == GroupOf(p)
<1>0. /\ g \in Token
      /\ groups \in [Token -> [instance : Instance \cup {NoInstance},
                               targets : SUBSET Session,
                               edges : SUBSET Session]]
  BY GroupOfType DEF TypeOK, GroupsTypeOK
<1>1. \A s \in Session : done[s] => done'[s]
  BY DEF RejectDuplicate, CloseWith, TypeOK, ParticipantTypeOK
<1>2. \A s \in Session : InGroup(s)' = InGroup(s)
  BY InGroupStep DEF RejectDuplicate, HandlerStep, InGroup
<1>3. /\ groups'[g] = [groups[g] EXCEPT !.targets = {q \in @ : ~done[q]}]
      /\ \A t \in Token \ {g} : groups'[t] = groups[t]
  BY <1>0 DEF RejectDuplicate, RefuseTarget, LiveTargets, g
<1>4. {q \in groups[g].targets : ~done[q]} # {}
  BY DEF RejectDuplicate, RefuseTarget, MayServe, LiveTargets, g
<1> HIDE DEF g
<1>5. GroupMatched(g)'
  BY <1>0, <1>2, <1>3, <1>4 DEF GroupInv, GroupMatched
<1>6. ASSUME NEW t \in Token \ {g} PROVE GroupMatched(t)'
  BY <1>0, <1>2, <1>3, <1>4, <1>6 DEF GroupInv, GroupMatched
<1>7. ASSUME NEW s \in Session PROVE MemberListed(s)'
  BY <1>0, <1>1, <1>2, <1>3, <1>7, GroupOfType DEF GroupInv, MemberListed
<1>q. QED
  BY <1>5, <1>6, <1>7 DEF GroupInv

LEMMA ExitGroupKeeps ==
  ASSUME TypeOK, GroupInv, NEW p \in Session, ExitGroup(p)
  PROVE  GroupInv'
<1> DEFINE g == GroupOf(p)
<1>0. /\ g \in Token
      /\ groups \in [Token -> [instance : Instance \cup {NoInstance},
                               targets : SUBSET Session,
                               edges : SUBSET Session]]
  BY GroupOfType DEF TypeOK, GroupsTypeOK
<1>1. done' = done
  BY DEF ExitGroup, participantVars
<1>2. ~InGroup(p)' /\ \A s \in Session \ {p} : InGroup(s)' = InGroup(s)
  <2>1. HandlerStep(p, "dequeued", "left")
    BY DEF ExitGroup
  <2>2. handler'[p] = "left" /\ \A s \in Session \ {p} : InGroup(s)' = InGroup(s)
    BY <2>1, InGroupStep
  <2>q. QED
    BY <2>2 DEF InGroup
<1>3. /\ groups'[g] =
           [instance |-> IF groups[g].targets \ {p} = {}
                           THEN NoInstance ELSE groups[g].instance,
            targets  |-> groups[g].targets \ {p},
            edges    |-> groups[g].edges \ {p}]
      /\ \A t \in Token \ {g} : groups'[t] = groups[t]
  BY <1>0 DEF ExitGroup, LeaveGroup, g
<1> HIDE DEF g
<1>4. GroupOf(p) = g
  BY DEF g
<1>5. GroupMatched(g)'
  BY <1>0, <1>2, <1>3, <1>4 DEF GroupInv, GroupMatched
<1>6. ASSUME NEW t \in Token \ {g} PROVE GroupMatched(t)'
  BY <1>0, <1>2, <1>3, <1>4, <1>6 DEF GroupInv, GroupMatched
<1>7. ASSUME NEW s \in Session PROVE MemberListed(s)'
  BY <1>0, <1>1, <1>2, <1>3, <1>7, GroupOfType DEF GroupInv, MemberListed
<1>q. QED
  BY <1>5, <1>6, <1>7 DEF GroupInv

LEMMA GroupsInitInv ==
  Init => GroupInv
BY DEF Init, GroupsInit, EmptyGroup, GroupInv, GroupMatched, MemberListed, InGroup

LEMMA GroupsStep ==
  TypeOK /\ GroupInv /\ [Next]_vars => GroupInv'
<1>1. ASSUME TypeOK, GroupInv, Next PROVE GroupInv'
  <2>1. CASE \E p \in Session :
               EnterGroup(p) \/ RejectDuplicate(p) \/ ExitGroup(p)
    BY <1>1, <2>1, EnterGroupKeeps, RejectDuplicateKeeps, ExitGroupKeeps
  <2>2. CASE ~ \E p \in Session :
                 EnterGroup(p) \/ RejectDuplicate(p) \/ ExitGroup(p)
    BY <1>1, <2>2, GroupUntouched, DoneGrows, GroupStable DEF TypeOK
  <2>q. QED
    BY <2>1, <2>2
<1>2. ASSUME TypeOK, GroupInv, UNCHANGED vars PROVE GroupInv'
  BY <1>2, GroupStable DEF TypeOK, vars, participantVars, serverVars, InGroup
<1>q. QED
  BY <1>1, <1>2

\* A group never mixes instances and never loses or keeps a session it should
\* not, for any number of sessions, tokens and instances.
THEOREM GroupsCorrect == Spec => []GroupInv
BY GroupsInitInv, GroupsStep, TypeCorrect, PTL DEF Spec

LEMMA GroupsServeOne ==
  TypeOK /\ GroupInv => OneTargetProcess
<1> SUFFICES ASSUME TypeOK, GroupInv, NEW p \in Session, NEW q \in Session,
                    p # q, GroupOf(p) = GroupOf(q),
                    RoleOf[p] = "target", RoleOf[q] = "target",
                    InGroup(p), InGroup(q), ~done[p], ~done[q]
             PROVE  InstanceOf[p] = InstanceOf[q] /\ InstanceOf[p] # NoInstance
  BY DEF OneTargetProcess
<1>1. GroupOf(p) \in Token
  BY GroupOfType
<1>2. {p, q} \subseteq groups[GroupOf(p)].targets
  BY DEF GroupInv, MemberListed
<1>q. QED
  BY <1>1, <1>2 DEF GroupInv, GroupMatched

\* "Exactly one target process may be active" per token, whatever the number
\* of sessions: two living targets are both in the group and of its instance,
\* which is not the empty one because they are two.
THEOREM OneTargetProcessCorrect == Spec => []OneTargetProcess
BY GroupsServeOne, TypeCorrect, GroupsCorrect, PTL

=============================================================================
