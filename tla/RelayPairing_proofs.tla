------------------------- MODULE RelayPairing_proofs -------------------------
(***************************************************************************)
(* PairingInv is an invariant of RelayServer, for any sets of sessions,    *)
(* routes, tokens and instances, and what follows from it, up to the       *)
(* refinement of Rendezvous.                                               *)
(***************************************************************************)
EXTENDS RelayServer_proofs

-----------------------------------------------------------------------------
\* Every session has a route and a role, and the two roles are opposite.
LEMMA RolesAndRoutes ==
  /\ \A s \in Session : RouteOf[s] \in Route /\ RoleOf[s] \in Role
  /\ \A role \in Role : Opposite(role) \in Role /\ Opposite(role) # role
  /\ Role = {"edge", "target"}
BY SessionAssumption DEF Role, Opposite

\* The pointwise effect of a step of one goroutine.
LEMMA HandlerMove ==
  ASSUME TypeOK, NEW p \in Session, NEW from, NEW to, HandlerStep(p, from, to)
  PROVE  /\ handler[p] = from
         /\ \A s \in Session : handler'[s] = IF s = p THEN to ELSE handler[s]
BY DEF HandlerStep, TypeOK, ServerTypeOK

LEMMA ReaderMove ==
  ASSUME TypeOK, NEW p \in Session, NEW from, NEW to, ReaderStep(p, from, to)
  PROVE  /\ reader[p] = from
         /\ \A s \in Session : reader'[s] = IF s = p THEN to ELSE reader[s]
BY DEF ReaderStep, TypeOK, ServerTypeOK

LEMMA BridgeMove ==
  ASSUME TypeOK, NEW p \in Session, NEW from, NEW to, BridgeStep(p, from, to),
         from # "none", to # "none"
  PROVE  \A s \in Session : bridge'[s] = "none" <=> bridge[s] = "none"
BY DEF BridgeStep, TypeOK, ServerTypeOK

-----------------------------------------------------------------------------
(***************************************************************************)
(* What the shared operations do to the parts the invariant speaks of.     *)
(***************************************************************************)
LEMMA CloseWithEffect ==
  ASSUME ParticipantTypeOK, NEW p \in Session, NEW code \in CloseCode,
         CloseWith(p, code)
  PROVE  /\ done' = [done EXCEPT ![p] = TRUE]
         /\ armedCode' = armedCode
         /\ \A s \in Session :
              \/ frame'[s] = frame[s]
              \/ s = p /\ frame'[s].code \in {code, armedCode[p]}
<1>1. CASE done[p]
  BY <1>1 DEF ParticipantTypeOK, CloseWith
<1>2. CASE ~done[p]
  BY <1>2 DEF ParticipantTypeOK, CloseWith, ClosingFrame
<1>q. QED
  BY <1>1, <1>2

LEMMA RemoveWaitingEffect ==
  ASSUME RegistryTypeOK, NEW p \in Session, RemoveWaiting(p)
  PROVE  /\ \A r \in Route, role \in Role :
              waiting'[r][role] = IF r = RouteOf[p] THEN waiting[r][role] \ {p}
                                                    ELSE waiting[r][role]
         /\ peer' = peer
BY SessionAssumption DEF RegistryTypeOK, RemoveWaiting

LEMMA JoinWaitsEffect ==
  ASSUME RegistryTypeOK, NEW p \in Session, JoinWaits(p)
  PROVE  /\ \A q \in waiting[RouteOf[p]][Opposite(RoleOf[p])] : done[q]
         /\ \A r \in Route, role \in Role :
              waiting'[r][role] =
                IF r # RouteOf[p] THEN waiting[r][role]
                ELSE IF role = RoleOf[p]
                  THEN {q \in waiting[r][role] : ~done[q]} \cup {p}
                  ELSE {}
         /\ peer' = peer
BY SessionAssumption DEF RegistryTypeOK, JoinWaits, Active

LEMMA JoinPairsEffect ==
  ASSUME RegistryTypeOK, NEW p \in Session, NEW q \in Session, JoinPairs(p, q)
  PROVE  /\ q \in waiting[RouteOf[p]][Opposite(RoleOf[p])] /\ ~done[q]
         /\ \A r \in Route, role \in Role :
              waiting'[r][role] =
                IF r # RouteOf[p] THEN waiting[r][role]
                ELSE {s \in waiting[r][role] : ~done[s]} \
                       IF role = RoleOf[p] THEN {} ELSE {q}
         /\ peer' = [peer EXCEPT ![p] = q, ![q] = p]
<1>1. RouteOf[p] \in Route /\ RoleOf[p] \in Role
  BY SessionAssumption
<1>2. \A role \in Role : role # RoleOf[p] <=> role = Opposite(RoleOf[p])
  BY <1>1 DEF Role, Opposite
<1>q. QED
  BY <1>1, <1>2 DEF RegistryTypeOK, JoinPairs, IsOldest, Active

-----------------------------------------------------------------------------
(***************************************************************************)
(* Three kinds of steps keep PairingInv without touching the registry.     *)
(***************************************************************************)

\* A step of a read pump, of a bridge, or of the administrator before closing.
LEMMA QuietKeeps ==
  ASSUME TypeOK, PairingInv,
         handler' = handler, done' = done, frame' = frame, UNCHANGED registryVars,
         \A s \in Session : armedCode'[s] \in {armedCode[s], "kicked", "disabled"},
         \A s \in Session :
           \/ reader'[s] = reader[s]
           \/ reader[s] # "none" /\ (reader'[s] \in {"exiting", "stopped"} => done[s]),
         \A s \in Session : bridge'[s] = "none" <=> bridge[s] = "none",
         kick'.at # "idle" => kick'.session \in Session /\ ~Early(kick'.session)
  PROVE  PairingInv'
<1> USE DEF PairingInv
<1>0. UNCHANGED <<waiting, peer>>
  BY DEF registryVars
<1>1. ASSUME NEW s \in Session PROVE LifeOrdered(s)'
  BY <1>1 DEF LifeOrdered, Early
<1>2. ASSUME NEW s \in Session PROVE PairMatched(s)'
  BY <1>0, <1>2 DEF PairMatched, Paired, Early
<1>3. ASSUME NEW s \in Session PROVE BridgeElected(s)'
  BY <1>0, <1>3 DEF BridgeElected, Paired, TypeOK, RegistryTypeOK
<1>4. ASSUME NEW s \in Session PROVE TimedOutAlone(s)' /\ QueuedUnlessPaired(s)'
  BY <1>0, <1>4 DEF TimedOutAlone, QueuedUnlessPaired, Paired, Waiting, InRegistry
<1>5. ASSUME NEW r \in Route, NEW role \in Role, NEW q \in Session
      PROVE  QueuedRightly(q, r, role)'
  BY <1>0, <1>5 DEF QueuedRightly, Paired
<1>6. \A r \in Route : waiting'[r]["edge"] = {} \/ waiting'[r]["target"] = {}
  BY <1>0
<1>7. (kick.at # "idle" => kick.session \in Session /\ ~Early(kick.session))'
  BY DEF Early
<1>q. QED
  BY <1>1, <1>2, <1>3, <1>4, <1>5, <1>6, <1>7

\* A step of a handler between two calls that change the registry.
Passage(p, from, to) ==
  \/ <<from, to>> \in
       {<<"new", "hello">>, <<"new", "gone">>, <<"hello", "gone">>,
        <<"hello", "grouped">>, <<"queued", "tracked">>, <<"tracked", "await">>,
        <<"dequeued", "left">>, <<"left", "gone">>}
  \/ from = "await" /\ to = "serving" /\ Paired(p)
  \/ from \in {"await", "serving"} /\ to = "leaving" /\ done[p]

LEMMA PassageKeeps ==
  ASSUME TypeOK, PairingInv, NEW p \in Session, NEW from, NEW to,
         HandlerStep(p, from, to), Passage(p, from, to),
         done' = done, frame' = frame, armedCode' = armedCode,
         UNCHANGED registryVars, kick' = kick,
         \A s \in Session :
           reader'[s] = reader[s] \/ (s = p /\ from = "queued" /\ reader'[s] = "reading"),
         \A s \in Session : bridge'[s] = "none" <=> bridge[s] = "none"
  PROVE  PairingInv'
<1> USE DEF PairingInv
<1>0. UNCHANGED <<waiting, peer>>
  BY DEF registryVars
<1>h. /\ handler[p] = from
      /\ \A s \in Session : handler'[s] = IF s = p THEN to ELSE handler[s]
  BY HandlerMove
<1>e. \A s \in Session : Early(s)' => Early(s)
  BY <1>h DEF Passage, Early
<1>1. ASSUME NEW s \in Session PROVE LifeOrdered(s)'
  BY <1>h, <1>e, <1>1 DEF LifeOrdered, Early, Passage
<1>2. ASSUME NEW s \in Session PROVE PairMatched(s)'
  BY <1>0, <1>e, <1>2 DEF PairMatched, Paired
<1>3. ASSUME NEW s \in Session PROVE BridgeElected(s)'
  BY <1>0, <1>3 DEF BridgeElected, Paired, TypeOK, RegistryTypeOK
<1>4. ASSUME NEW s \in Session PROVE TimedOutAlone(s)'
  BY <1>0, <1>h, <1>4 DEF TimedOutAlone, Paired, Waiting, Passage
<1>5. ASSUME NEW s \in Session PROVE QueuedUnlessPaired(s)'
  BY <1>0, <1>h, <1>5
     DEF QueuedUnlessPaired, Paired, Waiting, InRegistry, Passage
<1>6. ASSUME NEW r \in Route, NEW role \in Role, NEW q \in Session
      PROVE  QueuedRightly(q, r, role)'
  BY <1>0, <1>h, <1>6 DEF QueuedRightly, Paired, Passage
<1>7. \A r \in Route : waiting'[r]["edge"] = {} \/ waiting'[r]["target"] = {}
  BY <1>0
<1>8. (kick.at # "idle" => kick.session \in Session /\ ~Early(kick.session))'
  BY <1>e
<1>q. QED
  BY <1>1, <1>2, <1>3, <1>4, <1>5, <1>6, <1>7, <1>8

\* A close of a session that has joined its group.
LEMMA CloseKeeps ==
  ASSUME TypeOK, PairingInv, NEW p \in Session, handler[p] \notin {"new", "hello"},
         NEW code \in CloseCode \ {"tryAgain"}, CloseWith(p, code),
         handler' = handler, UNCHANGED registryVars,
         kick' = kick \/ kick'.at = "idle",
         \A s \in Session :
           \/ reader'[s] = reader[s]
           \/ s = p /\ reader[s] # "none" /\ reader'[s] = "exiting",
         \A s \in Session : bridge'[s] = "none" <=> bridge[s] = "none"
  PROVE  PairingInv'
<1> USE DEF PairingInv
<1>0. UNCHANGED <<waiting, peer>>
  BY DEF registryVars
<1>c. /\ done' = [done EXCEPT ![p] = TRUE]
      /\ armedCode' = armedCode
      /\ \A s \in Session :
           frame'[s] = frame[s] \/ (s = p /\ frame'[s].code \in {code, armedCode[p]})
  <2>1. code \in CloseCode
    OBVIOUS
  <2>2. ParticipantTypeOK
    BY DEF TypeOK
  <2> HIDE DEF PairingInv
  <2>q. QED
    BY <2>1, <2>2, CloseWithEffect
<1>d. done'[p] /\ \A s \in Session \ {p} : done'[s] = done[s]
  BY <1>c DEF TypeOK, ParticipantTypeOK
<1>f. \A s \in Session : frame'[s] = frame[s] \/ (s = p /\ frame'[s].code # "tryAgain")
  BY <1>c DEF LifeOrdered
<1>1. ASSUME NEW s \in Session PROVE LifeOrdered(s)'
  BY <1>c, <1>d, <1>1 DEF LifeOrdered, Early
<1>2. ASSUME NEW s \in Session PROVE PairMatched(s)'
  BY <1>0, <1>2 DEF PairMatched, Paired, Early
<1>3. ASSUME NEW s \in Session PROVE BridgeElected(s)'
  BY <1>0, <1>3 DEF BridgeElected, Paired, TypeOK, RegistryTypeOK
<1>4. ASSUME NEW s \in Session PROVE TimedOutAlone(s)'
  BY <1>0, <1>f, <1>4 DEF TimedOutAlone, Paired, Waiting
<1>5. ASSUME NEW s \in Session PROVE QueuedUnlessPaired(s)'
  BY <1>0, <1>d, <1>5 DEF QueuedUnlessPaired, Paired, Waiting, InRegistry
<1>6. ASSUME NEW r \in Route, NEW role \in Role, NEW q \in Session
      PROVE  QueuedRightly(q, r, role)'
  BY <1>0, <1>6 DEF QueuedRightly, Paired
<1>7. \A r \in Route : waiting'[r]["edge"] = {} \/ waiting'[r]["target"] = {}
  BY <1>0
<1>8. (kick.at # "idle" => kick.session \in Session /\ ~Early(kick.session))'
  BY DEF Early
<1>q. QED
  BY <1>1, <1>2, <1>3, <1>4, <1>5, <1>6, <1>7, <1>8

-----------------------------------------------------------------------------
(***************************************************************************)
(* The handler's own closes, and the steps that change the registry.       *)
(***************************************************************************)
LEMMA RejectKeeps ==
  ASSUME TypeOK, PairingInv, NEW p \in Session, RejectDuplicate(p)
  PROVE  PairingInv'
<1> USE DEF PairingInv
<1>0. UNCHANGED <<waiting, peer, reader, bridge, kick>>
  BY DEF RejectDuplicate, registryVars
<1>h. /\ handler[p] = "hello"
      /\ \A s \in Session : handler'[s] = IF s = p THEN "gone" ELSE handler[s]
  BY HandlerMove DEF RejectDuplicate
<1>c. /\ done' = [done EXCEPT ![p] = TRUE]
      /\ armedCode' = armedCode
      /\ \A s \in Session :
           \/ frame'[s] = frame[s]
           \/ s = p /\ frame'[s].code \in {"duplicate", armedCode[p]}
  <2>1. CloseWith(p, "duplicate") /\ "duplicate" \in CloseCode
    BY DEF RejectDuplicate, CloseCode
  <2>q. QED
    BY <2>1, CloseWithEffect DEF TypeOK
<1>d. done'[p] /\ \A s \in Session \ {p} : done'[s] = done[s]
  BY <1>c DEF TypeOK, ParticipantTypeOK
<1>f. \A s \in Session : frame'[s] = frame[s] \/ (s = p /\ frame'[s].code # "tryAgain")
  <2>1. armedCode[p] # "tryAgain"
    BY DEF LifeOrdered
  <2>q. QED
    BY <1>c, <2>1
<1>e. \A s \in Session : Early(s)' <=> Early(s) /\ s # p
  BY <1>h DEF Early
<1>1. ASSUME NEW s \in Session PROVE LifeOrdered(s)'
  BY <1>0, <1>c, <1>d, <1>h, <1>e, <1>1 DEF LifeOrdered
<1>2. ASSUME NEW s \in Session PROVE PairMatched(s)'
  BY <1>0, <1>e, <1>2 DEF PairMatched, Paired
<1>3. ASSUME NEW s \in Session PROVE BridgeElected(s)'
  BY <1>0, <1>3 DEF BridgeElected, Paired
<1>4. ASSUME NEW s \in Session PROVE TimedOutAlone(s)'
  BY <1>0, <1>f, <1>h, <1>4 DEF TimedOutAlone, Paired, Waiting
<1>5. ASSUME NEW s \in Session PROVE QueuedUnlessPaired(s)'
  BY <1>0, <1>d, <1>h, <1>5 DEF QueuedUnlessPaired, Paired, Waiting, InRegistry
<1>6. ASSUME NEW r \in Route, NEW role \in Role, NEW q \in Session
      PROVE  QueuedRightly(q, r, role)'
  BY <1>0, <1>h, <1>6 DEF QueuedRightly, Paired
<1>7. \A r \in Route : waiting'[r]["edge"] = {} \/ waiting'[r]["target"] = {}
  BY <1>0
<1>8. (kick.at # "idle" => kick.session \in Session /\ ~Early(kick.session))'
  BY <1>0, <1>e
<1>q. QED
  BY <1>1, <1>2, <1>3, <1>4, <1>5, <1>6, <1>7, <1>8

LEMMA ExpireKeeps ==
  ASSUME TypeOK, PairingInv, NEW p \in Session, CloseExpired(p)
  PROVE  PairingInv'
<1> USE DEF PairingInv
<1>0. UNCHANGED <<waiting, peer, reader, bridge, kick>>
  BY DEF CloseExpired, registryVars
<1>h. /\ handler[p] = "expired"
      /\ \A s \in Session : handler'[s] = IF s = p THEN "leaving" ELSE handler[s]
  BY HandlerMove DEF CloseExpired
<1>c. /\ done' = [done EXCEPT ![p] = TRUE]
      /\ armedCode' = armedCode
      /\ \A s \in Session : frame'[s] = frame[s] \/ s = p
  <2>1. CloseWith(p, "tryAgain") /\ "tryAgain" \in CloseCode
    BY DEF CloseExpired, CloseCode
  <2>q. QED
    BY <2>1, CloseWithEffect DEF TypeOK
<1>d. done'[p] /\ \A s \in Session \ {p} : done'[s] = done[s]
  BY <1>c DEF TypeOK, ParticipantTypeOK
<1>e. \A s \in Session : Early(s)' <=> Early(s)
  BY <1>h DEF Early
<1>w. ~Paired(p) /\ ~Waiting(p)
  BY <1>h, RolesAndRoutes DEF TimedOutAlone, QueuedRightly, Waiting
<1>1. ASSUME NEW s \in Session PROVE LifeOrdered(s)'
  BY <1>0, <1>c, <1>d, <1>h, <1>e, <1>1 DEF LifeOrdered, Early
<1>2. ASSUME NEW s \in Session PROVE PairMatched(s)'
  BY <1>0, <1>e, <1>2 DEF PairMatched, Paired
<1>3. ASSUME NEW s \in Session PROVE BridgeElected(s)'
  BY <1>0, <1>3 DEF BridgeElected, Paired
<1>4. ASSUME NEW s \in Session PROVE TimedOutAlone(s)'
  BY <1>0, <1>c, <1>h, <1>w, <1>4 DEF TimedOutAlone, Paired, Waiting
<1>5. ASSUME NEW s \in Session PROVE QueuedUnlessPaired(s)'
  BY <1>0, <1>d, <1>h, <1>5 DEF QueuedUnlessPaired, Paired, Waiting, InRegistry
<1>6. ASSUME NEW r \in Route, NEW role \in Role, NEW q \in Session
      PROVE  QueuedRightly(q, r, role)'
  BY <1>0, <1>h, <1>6 DEF QueuedRightly, Paired
<1>7. \A r \in Route : waiting'[r]["edge"] = {} \/ waiting'[r]["target"] = {}
  BY <1>0
<1>8. (kick.at # "idle" => kick.session \in Session /\ ~Early(kick.session))'
  BY <1>0, <1>e
<1>q. QED
  BY <1>1, <1>2, <1>3, <1>4, <1>5, <1>6, <1>7, <1>8

\* registry.remove by the pair timer, by the handler's cleanup or by the read
\* pump: of a session that is done, or that an expired timer takes out.
LEMMA RemoveKeeps ==
  ASSUME TypeOK, PairingInv, NEW p \in Session,
         AwaitTimeout(p) \/ UntrackAndDequeue(p) \/ ReaderExit(p)
  PROVE  PairingInv'
<1> USE DEF PairingInv
<1>0. UNCHANGED <<done, armedCode, frame, bridge, kick>>
  BY DEF AwaitTimeout, UntrackAndDequeue, ReaderExit, participantVars
<1>t. RegistryTypeOK
  BY DEF TypeOK
<1>w. /\ \A r \in Route, role \in Role :
           waiting'[r][role] = IF r = RouteOf[p] THEN waiting[r][role] \ {p}
                                                 ELSE waiting[r][role]
      /\ peer' = peer
  BY <1>t, RemoveWaitingEffect DEF AwaitTimeout, UntrackAndDequeue, ReaderExit
<1>x. \A s \in Session : Waiting(s)' <=> Waiting(s) /\ s # p
  <2> SUFFICES ASSUME NEW s \in Session
               PROVE  Waiting(s)' <=> Waiting(s) /\ s # p
    OBVIOUS
  <2>1. waiting'[RouteOf[s]][RoleOf[s]] =
          IF RouteOf[s] = RouteOf[p] THEN waiting[RouteOf[s]][RoleOf[s]] \ {p}
                                     ELSE waiting[RouteOf[s]][RoleOf[s]]
    BY <1>w, RolesAndRoutes
  <2>q. QED
    BY <2>1 DEF Waiting
<1>h. \/ /\ handler[p] = "await" /\ reader' = reader /\ RoleOf[p] = "edge"
         /\ \A s \in Session : handler'[s] =
              IF s # p THEN handler[s]
              ELSE IF Waiting(p) THEN "expired" ELSE "serving"
      \/ /\ handler[p] = "leaving" /\ done[p] /\ reader' = reader
         /\ \A s \in Session :
              handler'[s] = IF s # p THEN handler[s] ELSE "dequeued"
      \/ /\ handler' = handler /\ done[p] /\ reader[p] = "exiting"
         /\ \A s \in Session :
              reader'[s] = IF s # p THEN reader[s] ELSE "stopped"
  <2>1. CASE AwaitTimeout(p)
    BY <2>1, HandlerMove DEF AwaitTimeout
  <2>2. CASE UntrackAndDequeue(p)
    <3>1. HandlerStep(p, "leaving", "dequeued") /\ reader' = reader
      BY <2>2 DEF UntrackAndDequeue
    <3>2. /\ handler[p] = "leaving"
          /\ \A s \in Session : handler'[s] = IF s = p THEN "dequeued" ELSE handler[s]
      BY <3>1, HandlerMove
    <3>q. QED
      BY <3>1, <3>2 DEF LifeOrdered
  <2>3. CASE ReaderExit(p)
    <3>1. ReaderStep(p, "exiting", "stopped") /\ handler' = handler
      BY <2>3 DEF ReaderExit
    <3>2. /\ reader[p] = "exiting"
          /\ \A s \in Session : reader'[s] = IF s = p THEN "stopped" ELSE reader[s]
      BY <3>1, ReaderMove
    <3>q. QED
      BY <3>1, <3>2 DEF LifeOrdered
  <2>q. QED
    BY <2>1, <2>2, <2>3
<1>e. \A s \in Session : Early(s)' <=> Early(s)
  BY <1>h DEF Early
<1>1. ASSUME NEW s \in Session PROVE LifeOrdered(s)'
  BY <1>0, <1>h, <1>e, <1>1 DEF LifeOrdered
<1>2. ASSUME NEW s \in Session PROVE PairMatched(s)'
  BY <1>w, <1>e, <1>2 DEF PairMatched, Paired
<1>3. ASSUME NEW s \in Session PROVE BridgeElected(s)'
  BY <1>0, <1>w, <1>3 DEF BridgeElected, Paired
<1>4. ASSUME NEW s \in Session PROVE TimedOutAlone(s)'
  <2>1. Waiting(p) => ~Paired(p)
    BY RolesAndRoutes DEF Waiting, QueuedRightly
  <2>q. QED
    BY <1>0, <1>w, <1>x, <1>h, <1>4, <2>1 DEF TimedOutAlone, Paired
<1>5. ASSUME NEW s \in Session PROVE QueuedUnlessPaired(s)'
  BY <1>0, <1>w, <1>x, <1>h, <1>5 DEF QueuedUnlessPaired, Paired, InRegistry
<1>6. ASSUME NEW r \in Route, NEW role \in Role, NEW q \in Session
      PROVE  QueuedRightly(q, r, role)'
  <2>1. q \in waiting'[r][role] => q \in waiting[r][role] /\ q # p
    <3>1. QueuedRightly(q, r, role)
      BY <1>6
    <3>2. waiting'[r][role] = IF r = RouteOf[p] THEN waiting[r][role] \ {p}
                                                ELSE waiting[r][role]
      BY <1>w, <1>6
    <3>q. QED
      BY <3>1, <3>2 DEF QueuedRightly
  <2>q. QED
    BY <1>w, <1>h, <1>6, <2>1 DEF QueuedRightly, Paired
<1>7. \A r \in Route : waiting'[r]["edge"] = {} \/ waiting'[r]["target"] = {}
  BY <1>w, RolesAndRoutes
<1>8. (kick.at # "idle" => kick.session \in Session /\ ~Early(kick.session))'
  BY <1>0, <1>e
<1>q. QED
  BY <1>1, <1>2, <1>3, <1>4, <1>5, <1>6, <1>7, <1>8

\* registry.join of a session nobody can be paired with.
LEMMA WaitKeeps ==
  ASSUME TypeOK, PairingInv, NEW p \in Session,
         HandlerStep(p, "grouped", "queued"), JoinWaits(p),
         UNCHANGED <<participantVars, bridge, reader, kick>>
  PROVE  PairingInv'
<1> USE DEF PairingInv
<1>0. UNCHANGED <<done, armedCode, frame, bridge, reader, kick>>
  BY DEF participantVars
<1>h. /\ handler[p] = "grouped"
      /\ \A s \in Session : handler'[s] = IF s = p THEN "queued" ELSE handler[s]
  BY HandlerMove
<1>w. /\ \A q \in waiting[RouteOf[p]][Opposite(RoleOf[p])] : done[q]
      /\ \A r \in Route, role \in Role :
           waiting'[r][role] =
             IF r # RouteOf[p] THEN waiting[r][role]
             ELSE IF role = RoleOf[p]
               THEN {q \in waiting[r][role] : ~done[q]} \cup {p}
               ELSE {}
      /\ peer' = peer
  BY JoinWaitsEffect DEF TypeOK
<1>e. /\ \A s \in Session : Early(s)' <=> Early(s) /\ s # p
      /\ Early(p)
  BY <1>h DEF Early
<1>p. ~Paired(p) /\ frame[p].code # "tryAgain"
  BY <1>h, <1>e DEF PairMatched, TimedOutAlone
<1>1. ASSUME NEW s \in Session PROVE LifeOrdered(s)'
  BY <1>0, <1>h, <1>e, <1>1 DEF LifeOrdered
<1>2. ASSUME NEW s \in Session PROVE PairMatched(s)'
  BY <1>w, <1>e, <1>2 DEF PairMatched, Paired
<1>3. ASSUME NEW s \in Session PROVE BridgeElected(s)'
  BY <1>0, <1>w, <1>3 DEF BridgeElected, Paired
<1>4. ASSUME NEW s \in Session
      PROVE  s # p /\ ~done[s] => (Waiting(s)' <=> Waiting(s))
  <2>1. waiting'[RouteOf[s]][RoleOf[s]] =
          IF RouteOf[s] # RouteOf[p] THEN waiting[RouteOf[s]][RoleOf[s]]
          ELSE IF RoleOf[s] = RoleOf[p]
            THEN {q \in waiting[RouteOf[s]][RoleOf[s]] : ~done[q]} \cup {p}
            ELSE {}
    BY <1>w, RolesAndRoutes
  <2>2. RoleOf[s] # RoleOf[p] => RoleOf[s] = Opposite(RoleOf[p])
    BY RolesAndRoutes DEF Opposite
  <2>q. QED
    BY <1>w, <2>1, <2>2 DEF Waiting
<1>5. ASSUME NEW s \in Session PROVE Waiting(s)' => Waiting(s) \/ s = p
  <2>1. waiting'[RouteOf[s]][RoleOf[s]] =
          IF RouteOf[s] # RouteOf[p] THEN waiting[RouteOf[s]][RoleOf[s]]
          ELSE IF RoleOf[s] = RoleOf[p]
            THEN {q \in waiting[RouteOf[s]][RoleOf[s]] : ~done[q]} \cup {p}
            ELSE {}
    BY <1>w, RolesAndRoutes
  <2>q. QED
    BY <2>1 DEF Waiting
<1>6. Waiting(p)'
  <2>1. waiting'[RouteOf[p]][RoleOf[p]] =
          {q \in waiting[RouteOf[p]][RoleOf[p]] : ~done[q]} \cup {p}
    BY <1>w, RolesAndRoutes
  <2>q. QED
    BY <2>1 DEF Waiting
<1>7. ASSUME NEW s \in Session PROVE TimedOutAlone(s)'
  BY <1>0, <1>w, <1>h, <1>p, <1>5, <1>7 DEF TimedOutAlone, Paired
<1>8. ASSUME NEW s \in Session PROVE QueuedUnlessPaired(s)'
  BY <1>0, <1>w, <1>h, <1>4, <1>6, <1>8 DEF QueuedUnlessPaired, Paired, InRegistry
<1>9. ASSUME NEW r \in Route, NEW role \in Role, NEW q \in Session
      PROVE  QueuedRightly(q, r, role)'
  <2>1. q \in waiting'[r][role] =>
          \/ q \in waiting[r][role] /\ q # p
          \/ q = p /\ r = RouteOf[p] /\ role = RoleOf[p]
    <3>1. QueuedRightly(q, r, role)
      BY <1>9
    <3>2. waiting'[r][role] =
            IF r # RouteOf[p] THEN waiting[r][role]
            ELSE IF role = RoleOf[p]
              THEN {s \in waiting[r][role] : ~done[s]} \cup {p}
              ELSE {}
      BY <1>w, <1>9
    <3>q. QED
      BY <1>h, <3>1, <3>2 DEF QueuedRightly
  <2>2. QueuedRightly(q, r, role)
    BY <1>9
  <2>q. QED
    BY <1>w, <1>h, <1>p, <1>9, <2>1, <2>2 DEF QueuedRightly, Paired
<1>10. ASSUME NEW r \in Route
       PROVE  waiting'[r]["edge"] = {} \/ waiting'[r]["target"] = {}
  BY <1>w, <1>10, RolesAndRoutes
<1>11. (kick.at # "idle" => kick.session \in Session /\ ~Early(kick.session))'
  BY <1>0, <1>e
<1>q. QED
  BY <1>1, <1>2, <1>3, <1>7, <1>8, <1>9, <1>10, <1>11

\* registry.join that claims the oldest waiting session and elects the bridge.
LEMMA PairKeeps ==
  ASSUME TypeOK, PairingInv, NEW p \in Session, NEW c \in Session,
         HandlerStep(p, "grouped", "queued"), JoinPairs(p, c),
         bridge' = [bridge EXCEPT ![p] = "elected"],
         UNCHANGED <<participantVars, reader, kick>>
  PROVE  PairingInv'
<1> USE DEF PairingInv
<1>0. UNCHANGED <<done, armedCode, frame, reader, kick>>
  BY DEF participantVars
<1>h. /\ handler[p] = "grouped"
      /\ \A s \in Session : handler'[s] = IF s = p THEN "queued" ELSE handler[s]
  BY HandlerMove
<1>w. /\ c \in waiting[RouteOf[p]][Opposite(RoleOf[p])] /\ ~done[c]
      /\ \A r \in Route, role \in Role :
           waiting'[r][role] =
             IF r # RouteOf[p] THEN waiting[r][role]
             ELSE {s \in waiting[r][role] : ~done[s]} \
                    IF role = RoleOf[p] THEN {} ELSE {c}
      /\ peer' = [peer EXCEPT ![p] = c, ![c] = p]
  BY JoinPairsEffect DEF TypeOK
<1>e. /\ \A s \in Session : Early(s)' <=> Early(s) /\ s # p
      /\ Early(p)
  BY <1>h DEF Early
<1>p. ~Paired(p) /\ frame[p].code # "tryAgain"
  BY <1>h, <1>e DEF PairMatched, TimedOutAlone
<1>c. /\ RouteOf[c] = RouteOf[p] /\ RoleOf[c] = Opposite(RoleOf[p])
      /\ ~Paired(c) /\ handler[c] \in {"queued", "tracked", "await", "leaving"}
      /\ c # p
  <2>1. QueuedRightly(c, RouteOf[p], Opposite(RoleOf[p]))
    BY RolesAndRoutes
  <2>q. QED
    BY <1>w, <2>1, RolesAndRoutes DEF QueuedRightly
<1>x. /\ peer'[p] = c /\ peer'[c] = p
      /\ \A s \in Session \ {p, c} : peer'[s] = peer[s] /\ peer[s] \notin {p, c}
  <2>1. \A s \in Session : Paired(s) => peer[s] \in Session /\ Paired(peer[s])
    BY SessionAssumption DEF TypeOK, RegistryTypeOK, PairMatched, Paired
  <2>q. QED
    BY <1>w, <1>c, <1>p, <2>1, SessionAssumption DEF TypeOK, RegistryTypeOK, Paired
<1>1. ASSUME NEW s \in Session PROVE LifeOrdered(s)'
  BY <1>0, <1>h, <1>e, <1>1 DEF LifeOrdered
<1>2. ASSUME NEW s \in Session PROVE PairMatched(s)'
  <2>1. CASE s \in {p, c}
    <3>1. RoleOf[p] = Opposite(RoleOf[c])
      BY <1>c, RolesAndRoutes DEF Opposite
    <3>2. ~Early(p)' /\ ~Early(c)'
      BY <1>h, <1>c DEF Early
    <3>q. QED
      BY <1>x, <1>c, <2>1, <3>1, <3>2 DEF PairMatched
  <2>2. CASE s \notin {p, c}
    BY <1>x, <1>e, <1>2, <2>2 DEF PairMatched, Paired, TypeOK, RegistryTypeOK
  <2>q. QED
    BY <2>1, <2>2
<1>b. /\ bridge'[p] # "none" /\ bridge'[c] = "none"
      /\ \A s \in Session \ {p} : bridge'[s] = bridge[s]
  BY <1>c DEF BridgeElected, TypeOK, ServerTypeOK
<1>3. ASSUME NEW s \in Session PROVE BridgeElected(s)'
  <2>1. CASE s \in {p, c}
    BY <1>x, <1>b, <2>1, SessionAssumption DEF BridgeElected, Paired
  <2>2. CASE s \notin {p, c}
    BY <1>x, <1>b, <1>3, <2>2 DEF BridgeElected, Paired, TypeOK, RegistryTypeOK
  <2>q. QED
    BY <2>1, <2>2
<1>4. ASSUME NEW s \in Session
      PROVE  /\ s # c /\ ~done[s] /\ Waiting(s) => Waiting(s)'
             /\ Waiting(s)' => Waiting(s) /\ s # c
  <2>1. waiting'[RouteOf[s]][RoleOf[s]] =
          IF RouteOf[s] # RouteOf[p] THEN waiting[RouteOf[s]][RoleOf[s]]
          ELSE {q \in waiting[RouteOf[s]][RoleOf[s]] : ~done[q]} \
                 IF RoleOf[s] = RoleOf[p] THEN {} ELSE {c}
    BY <1>w, RolesAndRoutes
  <2>q. QED
    BY <1>c, <2>1, RolesAndRoutes DEF Waiting
<1>5. ASSUME NEW s \in Session PROVE TimedOutAlone(s)'
  <2>1. frame[c].code # "tryAgain"
    BY <1>w DEF LifeOrdered
  <2>q. QED
    BY <1>0, <1>x, <1>h, <1>c, <1>p, <1>4, <1>5, <2>1 DEF TimedOutAlone, Paired
<1>6. ASSUME NEW s \in Session PROVE QueuedUnlessPaired(s)'
  BY <1>0, <1>x, <1>h, <1>4, <1>6, SessionAssumption
     DEF QueuedUnlessPaired, Paired, InRegistry
<1>7. ASSUME NEW r \in Route, NEW role \in Role, NEW q \in Session
      PROVE  QueuedRightly(q, r, role)'
  <2>1. QueuedRightly(q, r, role)
    BY <1>7
  <2>2. waiting'[r][role] =
          IF r # RouteOf[p] THEN waiting[r][role]
          ELSE {s \in waiting[r][role] : ~done[s]} \
                 IF role = RoleOf[p] THEN {} ELSE {c}
    BY <1>w, <1>7
  <2>3. q \in waiting'[r][role] => q \in waiting[r][role] /\ q # p /\ q # c
    BY <1>h, <1>c, <2>1, <2>2, RolesAndRoutes DEF QueuedRightly
  <2>q. QED
    BY <1>x, <1>h, <1>7, <2>1, <2>3 DEF QueuedRightly, Paired
<1>8. ASSUME NEW r \in Route
      PROVE  waiting'[r]["edge"] = {} \/ waiting'[r]["target"] = {}
  <2>1. \A role \in Role : waiting'[r][role] \subseteq waiting[r][role]
    <3>1. ASSUME NEW role \in Role
          PROVE  waiting'[r][role] =
                   IF r # RouteOf[p] THEN waiting[r][role]
                   ELSE {s \in waiting[r][role] : ~done[s]} \
                          IF role = RoleOf[p] THEN {} ELSE {c}
      BY <1>w, <1>8, <3>1
    <3>q. QED
      BY <3>1
  <2>2. /\ waiting'[r]["edge"] \subseteq waiting[r]["edge"]
        /\ waiting'[r]["target"] \subseteq waiting[r]["target"]
    BY <2>1, RolesAndRoutes
  <2>3. waiting[r]["edge"] = {} \/ waiting[r]["target"] = {}
    BY <1>8
  <2>q. QED
    BY <2>2, <2>3
<1>9. (kick.at # "idle" => kick.session \in Session /\ ~Early(kick.session))'
  BY <1>0, <1>e
<1>q. QED
  BY <1>1, <1>2, <1>3, <1>5, <1>6, <1>7, <1>8, <1>9

-----------------------------------------------------------------------------
(***************************************************************************)
(* Every step keeps PairingInv, actor by actor.                            *)
(***************************************************************************)
LEMMA HandlerKeeps ==
  ASSUME TypeOK, PairingInv, NEW p \in Session, Handler(p) \/ Connect(p)
  PROVE  PairingInv'
<1>b. \A s \in Session : LifeOrdered(s) /\ BridgeElected(s)
  BY DEF PairingInv
<1>1. CASE Connect(p)
  BY <1>1, PassageKeeps DEF Connect, Passage
<1>2. CASE FailHello(p)
  BY <1>2, PassageKeeps DEF FailHello, Passage
<1>3. CASE EnterGroup(p)
  BY <1>3, PassageKeeps DEF EnterGroup, Passage, participantVars
<1>4. CASE RejectDuplicate(p)
  BY <1>4, RejectKeeps
<1>5. CASE Enqueue(p)
  BY <1>5, WaitKeeps, PairKeeps DEF Enqueue
<1>6. CASE Track(p)
  <2>1. \A s \in Session : reader'[s] = reader[s] \/ (s = p /\ reader'[s] = "reading")
    BY <1>6 DEF Track, TypeOK, ServerTypeOK
  <2>q. QED
    BY <1>6, <2>1, PassageKeeps DEF Track, Passage, participantVars
<1>7. CASE Report(p)
  <2>1. \A s \in Session : bridge'[s] = "none" <=> bridge[s] = "none"
    BY <1>7 DEF Report, TypeOK, ServerTypeOK
  <2>q. QED
    BY <1>7, <2>1, PassageKeeps DEF Report, Passage, participantVars
<1>8. CASE AwaitPaired(p)
  BY <1>8, PassageKeeps DEF AwaitPaired, Passage, participantVars
<1>9. CASE AwaitDone(p)
  BY <1>9, PassageKeeps DEF AwaitDone, Passage, participantVars
<1>10. CASE AwaitTimeout(p) \/ UntrackAndDequeue(p)
  BY <1>10, RemoveKeeps
<1>11. CASE CloseExpired(p)
  BY <1>11, ExpireKeeps
<1>12. CASE ExitGroup(p)
  BY <1>12, PassageKeeps DEF ExitGroup, Passage, participantVars
<1>13. CASE EmitDisconnected(p)
  <2>1. done[p]
    BY <1>13, <1>b DEF EmitDisconnected, HandlerStep, LifeOrdered
  <2>2. UNCHANGED participantVars
    BY <1>13, <2>1 DEF EmitDisconnected, CloseWith, participantVars
  <2>q. QED
    BY <1>13, <2>2, PassageKeeps DEF EmitDisconnected, Passage, participantVars
<1>q. QED
  BY <1>1, <1>2, <1>3, <1>4, <1>5, <1>6, <1>7, <1>8, <1>9, <1>10, <1>11, <1>12,
     <1>13 DEF Handler

LEMMA ReaderKeeps ==
  ASSUME TypeOK, PairingInv, NEW p \in Session,
         \/ Reader(p) \/ ReadNonBinary(p) \/ ReadEarly(p) \/ ReadFrame(p)
         \/ KeepAliveFails(p)
  PROVE  PairingInv'
<1>c. {"normal", "policy"} \subseteq CloseCode \ {"tryAgain"}
  BY DEF CloseCode
<1>e. reader[p] # "none" => ~Early(p)
  BY DEF PairingInv, LifeOrdered
<1>k. kick' = kick =>
        (kick'.at # "idle" => kick'.session \in Session /\ ~Early(kick'.session))
  BY DEF PairingInv
<1>1. CASE ReadError(p) \/ ReadNonBinary(p) \/ CloseEarly(p)
  <2>1. /\ CloseWith(p, "normal") \/ CloseWith(p, "policy")
        /\ \E from \in {"reading", "early"} : ReaderStep(p, from, "exiting")
        /\ UNCHANGED <<handler, registryVars, kick, bridge>>
    BY <1>1 DEF ReadError, ReadNonBinary, CloseEarly, Abort
  <2>2. /\ reader[p] # "none"
        /\ \A s \in Session : reader'[s] = reader[s] \/ (s = p /\ reader'[s] = "exiting")
    BY <2>1, ReaderMove
  <2>q. QED
    BY <1>c, <1>e, <2>1, <2>2, CloseKeeps DEF Early
<1>2. CASE KeepAliveFails(p)
  <2>1. CloseWith(p, "normal") /\ reader[p] # "none"
        /\ UNCHANGED <<handler, registryVars, kick, bridge, reader>>
    BY <1>2 DEF KeepAliveFails, Abort, serverVars
  <2>q. QED
    BY <1>c, <1>e, <2>1, CloseKeeps DEF Early
<1>3. CASE ReadEarly(p) \/ ReadFrame(p) \/ OfferTaken(p) \/ OfferAborted(p)
  <2>1. /\ \E from \in {"reading", "offering"}, to \in {"early", "offering", "reading"} :
             \/ ReaderStep(p, from, to)
             \/ ReaderStep(p, from, "exiting") /\ done[p]
        /\ UNCHANGED <<participantVars, handler, registryVars, kick, bridge>>
    BY <1>3 DEF ReadEarly, ReadFrame, OfferTaken, OfferAborted
  <2>2. \A s \in Session :
           \/ reader'[s] = reader[s]
           \/ reader[s] # "none" /\ (reader'[s] \in {"exiting", "stopped"} => done[s])
    BY <2>1, ReaderMove
  <2>q. QED
    BY <1>k, <2>1, <2>2, QuietKeeps DEF participantVars, Early
<1>4. CASE ReaderExit(p)
  BY <1>4, RemoveKeeps
<1>q. QED
  BY <1>1, <1>2, <1>3, <1>4 DEF Reader

LEMMA BridgeKeeps ==
  ASSUME TypeOK, PairingInv, NEW p \in Session, Bridge(p)
  PROVE  PairingInv'
<1>c. "normal" \in CloseCode \ {"tryAgain"}
  BY DEF CloseCode
<1>k. kick' = kick /\ handler' = handler =>
        (kick'.at # "idle" => kick'.session \in Session /\ ~Early(kick'.session))
  BY DEF PairingInv
<1>1. CASE ~(CloseEdgeEnd(p) \/ CloseTargetEnd(p))
  <2>1. /\ \E from, to \in BridgeAt \ {"none"} : BridgeStep(p, from, to)
        /\ UNCHANGED <<participantVars, handler, registryVars, kick, reader>>
    BY <1>1
       DEF Bridge, BridgeStart, GreetEdge, GreetTarget, GreetFails, EmitPaired,
           BridgeEnds, BridgeAt
  <2>2. \A s \in Session : bridge'[s] = "none" <=> bridge[s] = "none"
    BY <2>1, BridgeMove
  <2>q. QED
    BY <1>k, <2>1, <2>2, QuietKeeps DEF participantVars
<1>2. CASE CloseEdgeEnd(p) \/ CloseTargetEnd(p)
  <2>1. PICK q \in {EdgeEnd(p), TargetEnd(p)} : CloseWith(q, "normal")
    BY <1>2 DEF CloseEdgeEnd, CloseTargetEnd
  <2>2. /\ \E from, to \in BridgeAt \ {"none"} : BridgeStep(p, from, to)
        /\ UNCHANGED <<handler, registryVars, kick, reader>>
    BY <1>2 DEF CloseEdgeEnd, CloseTargetEnd, BridgeAt
  <2>3. \A s \in Session : bridge'[s] = "none" <=> bridge[s] = "none"
    BY <2>2, BridgeMove
  <2>4. Paired(p)
    BY <2>2 DEF PairingInv, BridgeElected, BridgeStep
  <2>5. peer[p] \in Session /\ Paired(peer[p])
    BY <2>4, SessionAssumption
       DEF PairingInv, PairMatched, Paired, TypeOK, RegistryTypeOK
  <2>6. q \in Session /\ ~Early(q)
    BY <2>1, <2>4, <2>5 DEF EdgeEnd, TargetEnd, PairingInv, PairMatched
  <2>q. QED
    BY <1>c, <2>1, <2>2, <2>3, <2>6, CloseKeeps DEF Early
<1>q. QED
  BY <1>1, <1>2

\* How a copy, the ticker and a refresh move bridges and readers.
LEMMA RelayingMoves ==
  ASSUME TypeOK, NEW p \in Session, Relaying(p) \/ Flusher(p), NEW s \in Session
  PROVE  /\ \/ bridge'[s] = bridge[s]
            \/ bridge[s] = "relaying" /\ bridge'[s] = "stopEdge"
         /\ \/ reader'[s] = reader[s]
            \/ reader[s] = "offering" /\ reader'[s] = "reading"
<1>1. CASE EmitStats(p) \/ Flusher(p)
  BY <1>1 DEF EmitStats, Flusher, RefreshStatus, RefreshEmit
<1>2. ASSUME NEW role \in Role, CopyStops(p, role)
      PROVE  \/ bridge'[s] = bridge[s]
             \/ bridge[s] = "relaying" /\ bridge'[s] = "stopEdge"
  BY <1>2 DEF CopyStops, TypeOK, ServerTypeOK
<1>3. ASSUME NEW e, ReaderStep(e, "offering", "reading")
      PROVE  \/ reader'[s] = reader[s]
             \/ reader[s] = "offering" /\ reader'[s] = "reading"
  BY <1>3 DEF ReaderStep, TypeOK, ServerTypeOK
<1>q. QED
  BY <1>1, <1>2, <1>3 DEF Relaying, CopyEnds, CopyFails

LEMMA RelayingKeeps ==
  ASSUME TypeOK, PairingInv, NEW p \in Session, Relaying(p) \/ Flusher(p)
  PROVE  PairingInv'
<1>1. UNCHANGED <<participantVars, handler, registryVars, kick>>
  BY RelayingFrame
<1>2. kick'.at # "idle" => kick'.session \in Session /\ ~Early(kick'.session)
  BY <1>1 DEF PairingInv
<1>q. QED
  BY <1>1, <1>2, RelayingMoves, QuietKeeps DEF participantVars

LEMMA KickKeeps ==
  ASSUME TypeOK, PairingInv, Kicker \/ \E p \in Session : KickLookup(p)
  PROVE  PairingInv'
<1>k. kick.at # "idle" => kick.session \in Session /\ ~Early(kick.session)
  BY DEF PairingInv
<1>1. ASSUME NEW p \in Session, KickLookup(p) PROVE PairingInv'
  <2>1. /\ kick'.session = p
        /\ UNCHANGED <<participantVars, handler, reader, bridge, registryVars>>
        /\ ~Early(p)
    BY <1>1 DEF KickLookup, KickStep, Tracked, Early
  <2>q. QED
    BY <2>1, QuietKeeps DEF participantVars, Early
<1>2. CASE KickArmCode \/ KickArmText
  <2>1. /\ kick'.session = kick.session /\ kick.at # "idle"
        /\ UNCHANGED <<done, frame, handler, reader, bridge, registryVars>>
        /\ \/ armedCode' = armedCode
           \/ armedCode' = [armedCode EXCEPT ![kick.session] = "kicked"]
    BY <1>2
       DEF KickArmCode, KickArmText, KickStep, ArmCode, ArmText, participantVars
  <2>2. \A s \in Session : armedCode'[s] \in {armedCode[s], "kicked"}
    BY <2>1 DEF TypeOK, ParticipantTypeOK
  <2>q. QED
    BY <1>k, <2>1, <2>2, QuietKeeps DEF Early
<1>3. CASE KickClose
  <2>1. /\ kick.at # "idle" /\ kick'.at = "idle"
        /\ CloseWith(kick.session, "kicked")
        /\ UNCHANGED <<handler, reader, bridge, registryVars>>
    BY <1>3 DEF KickClose, KickStep
  <2>2. "kicked" \in CloseCode \ {"tryAgain"}
    BY DEF CloseCode
  <2>q. QED
    BY <1>k, <2>1, <2>2, CloseKeeps DEF Early
<1>q. QED
  BY <1>1, <1>2, <1>3 DEF Kicker

LEMMA PairingInit ==
  Init => PairingInv
<1> SUFFICES ASSUME Init PROVE PairingInv
  OBVIOUS
<1>1. \A r \in Route, role \in Role : waiting[r][role] = {}
  BY DEF Init, RegistryInit
<1>2. \A r \in Route : waiting[r]["edge"] = {}
  BY <1>1, RolesAndRoutes
<1>3. \A s \in Session :
        LifeOrdered(s) /\ PairMatched(s) /\ BridgeElected(s) /\ TimedOutAlone(s)
          /\ QueuedUnlessPaired(s)
  BY DEF Init, ParticipantInit, RegistryInit, NoFrame, LifeOrdered, PairMatched,
         BridgeElected, TimedOutAlone, QueuedUnlessPaired, Paired, InRegistry
<1>q. QED
  BY <1>1, <1>2, <1>3 DEF PairingInv, QueuedRightly, Init

LEMMA PairingStep ==
  TypeOK /\ PairingInv /\ [Next]_vars => PairingInv'
<1> SUFFICES ASSUME TypeOK, PairingInv, [Next]_vars PROVE PairingInv'
  OBVIOUS
<1>1. ASSUME NEW p \in Session, Handler(p) \/ Connect(p) PROVE PairingInv'
  BY <1>1, HandlerKeeps
<1>2. ASSUME NEW p \in Session,
             \/ Reader(p) \/ ReadNonBinary(p) \/ ReadEarly(p) \/ ReadFrame(p)
             \/ KeepAliveFails(p)
      PROVE  PairingInv'
  BY <1>2, ReaderKeeps
<1>3. ASSUME NEW p \in Session, Bridge(p) \/ Relaying(p) \/ Flusher(p)
      PROVE  PairingInv'
  BY <1>3, BridgeKeeps, RelayingKeeps
<1>4. CASE Kicker \/ \E p \in Session : KickLookup(p)
  BY <1>4, KickKeeps
<1>5. CASE Shutdown \/ (\E p \in Session : Break(p)) \/ UNCHANGED vars
  <2>1. UNCHANGED <<done, armedCode, frame, handler, reader, bridge, kick,
                    registryVars>>
    BY <1>5
       DEF Shutdown, Break, BreakConnection, serverVars, vars, participantVars
  <2>2. kick'.at # "idle" => kick'.session \in Session /\ ~Early(kick'.session)
    BY <2>1 DEF PairingInv
  <2>q. QED
    BY <2>1, <2>2, QuietKeeps
<1>q. QED
  BY <1>1, <1>2, <1>3, <1>4, <1>5 DEF Next, Finished

\* The registry, the pairs and the goroutines of all sessions fit together at
\* all times: the inductive invariant behind the pairing properties.
THEOREM PairingCorrect == Spec => []PairingInv
BY PairingInit, PairingStep, TypeCorrect, PTL DEF Spec

-----------------------------------------------------------------------------
(***************************************************************************)
(* What PairingInv says about the relay.                                   *)
(***************************************************************************)

LEMMA PairsMatch ==
  PairingInv => PeersMatched
BY DEF PairingInv, PairMatched, PeersMatched

\* registry.join pairs one edge with one target of the same route, and the two
\* agree on it.
THEOREM PeersMatchedCorrect == Spec => []PeersMatched
BY PairsMatch, PairingCorrect, PTL

LEMMA PairsElect ==
  PairingInv => OneBridgePerPair
BY DEF PairingInv, BridgeElected, OneBridgePerPair

\* Exactly one end of a pair is elected to run the bridge.
THEOREM OneBridgeCorrect == Spec => []OneBridgePerPair
BY PairsElect, PairingCorrect, PTL

LEMMA QueuesMeet ==
  PairingInv => NoMissedMatch
<1> SUFFICES ASSUME PairingInv, NEW e \in Session, NEW t \in Session,
                    RoleOf[e] = "edge", RoleOf[t] = "target",
                    RouteOf[e] = RouteOf[t], InRegistry(e), InRegistry(t),
                    ~done[e], ~done[t], handler[e] # "expired",
                    ~Paired(e), ~Paired(t)
             PROVE  FALSE
  BY DEF NoMissedMatch
<1>1. handler[t] # "expired"
  BY DEF PairingInv, TimedOutAlone
<1>2. Waiting(e) /\ Waiting(t)
  BY <1>1 DEF PairingInv, QueuedUnlessPaired
<1>3. \/ waiting[RouteOf[e]]["edge"] = {}
      \/ waiting[RouteOf[e]]["target"] = {}
  BY RolesAndRoutes DEF PairingInv
<1>q. QED
  BY <1>2, <1>3 DEF Waiting

\* No living edge and target of one route both wait unpaired: both would be in
\* the queues, and the queues of a route are never both occupied.
THEOREM NoMissedMatchCorrect == Spec => []NoMissedMatch
BY QueuesMeet, PairingCorrect, PTL

LEMMA TimeoutsAlone ==
  PairingInv => TimeoutOnlyUnpaired
<1> SUFFICES ASSUME PairingInv, NEW p \in Session
             PROVE  handler[p] = "expired" \/ frame[p].code = "tryAgain" =>
                      ~Paired(p) /\ ~Waiting(p)
  BY DEF TimeoutOnlyUnpaired
<1>1. TimedOutAlone(p) /\ QueuedRightly(p, RouteOf[p], RoleOf[p])
  BY RolesAndRoutes DEF PairingInv
<1>q. QED
  BY <1>1 DEF TimedOutAlone, QueuedRightly, Waiting

\* Only a session that no one claimed, and no one still can, is timed out.
THEOREM TimeoutOnlyUnpairedCorrect == Spec => []TimeoutOnlyUnpaired
BY TimeoutsAlone, PairingCorrect, PTL

LEMMA HandlersCleanUp ==
  PairingInv /\ GroupInv => NothingLeftBehind
<1> SUFFICES ASSUME PairingInv, GroupInv, NEW p \in Session, handler[p] = "gone"
             PROVE  /\ ~Waiting(p)
                    /\ \A t \in Token :
                         p \notin groups[t].targets \cup groups[t].edges
  BY DEF NothingLeftBehind
<1>1. QueuedRightly(p, RouteOf[p], RoleOf[p])
  BY RolesAndRoutes DEF PairingInv
<1>2. ~InGroup(p)
  BY DEF InGroup
<1>3. \A t \in Token : GroupMatched(t)
  BY DEF GroupInv
<1>q. QED
  BY <1>1, <1>2, <1>3 DEF QueuedRightly, Waiting, GroupMatched

\* A handler that returned has left both the registry and the groups.
THEOREM NothingLeftBehindCorrect == Spec => []NothingLeftBehind
BY HandlersCleanUp, PairingCorrect, GroupsCorrect, PTL

-----------------------------------------------------------------------------
(***************************************************************************)
(* As long as no token is revoked, a session that joins the registry is    *)
(* alive: its reader, its bridge, the pair timer and the administrator can *)
(* close it only later.                                                    *)
(***************************************************************************)
AliveUntilJoined == \A p \in Session : Early(p) => ~done[p]

LEMMA CloseJoinedOnly ==
  ASSUME TypeOK, AliveUntilJoined, NEW p \in Session, ~Early(p)', NEW code,
         CloseWith(p, code), \A s \in Session : Early(s)' => Early(s)
  PROVE  AliveUntilJoined'
BY DEF CloseWith, AliveUntilJoined, TypeOK, ParticipantTypeOK

LEMMA JoinsAlive ==
  ASSUME TypeOK, PairingInv, AliveUntilJoined, [Next]_vars
  PROVE  AliveUntilJoined'
<1>n. ASSUME done' = done, \A s \in Session : Early(s)' => Early(s)
      PROVE  AliveUntilJoined'
  BY <1>n DEF AliveUntilJoined
<1>1. ASSUME NEW p \in Session, Handler(p) \/ Connect(p) PROVE AliveUntilJoined'
  <2>1. \A s \in Session : Early(s)' => Early(s)
    BY <1>1
    DEF Handler, Connect, FailHello, EnterGroup, RejectDuplicate, Enqueue, Track,
        Report, AwaitPaired, AwaitDone, AwaitTimeout, CloseExpired,
        UntrackAndDequeue, ExitGroup, EmitDisconnected, HandlerStep, Early, TypeOK,
        ServerTypeOK
  <2>2. CASE RejectDuplicate(p) \/ CloseExpired(p) \/ EmitDisconnected(p)
    <3>1. ~Early(p)' /\ \E code \in CloseCode : CloseWith(p, code)
      BY <2>2
      DEF RejectDuplicate, CloseExpired, EmitDisconnected, HandlerStep, Early, TypeOK,
          ServerTypeOK, CloseCode
    <3> QED
      BY <2>1, <3>1, CloseJoinedOnly
  <2>3. CASE ~(RejectDuplicate(p) \/ CloseExpired(p) \/ EmitDisconnected(p))
    <3>1. done' = done
      BY <1>1, <2>3
      DEF Handler, Connect, FailHello, EnterGroup, Enqueue, Track, Report,
          AwaitPaired, AwaitDone, AwaitTimeout, UntrackAndDequeue, ExitGroup,
          participantVars
    <3> QED
      BY <1>n, <2>1, <3>1
  <2> QED
    BY <2>2, <2>3
<1>2. ASSUME NEW p \in Session,
             \/ Reader(p) \/ ReadNonBinary(p) \/ ReadEarly(p) \/ ReadFrame(p)
             \/ KeepAliveFails(p)
      PROVE  AliveUntilJoined'
  <2>1. handler' = handler /\ reader[p] # "none"
    BY <1>2
    DEF Reader, ReadError, CloseEarly, OfferTaken, OfferAborted, ReaderExit,
        ReadNonBinary, ReadEarly, ReadFrame, KeepAliveFails, ReaderStep, serverVars
  <2>2. ~Early(p)' /\ \A s \in Session : Early(s)' => Early(s)
    BY <2>1 DEF PairingInv, LifeOrdered, Early
  <2>3. done' = done \/ \E code \in CloseCode : CloseWith(p, code)
    BY <1>2
    DEF Reader, ReadError, CloseEarly, OfferTaken, OfferAborted, ReaderExit,
        ReadNonBinary, ReadEarly, ReadFrame, KeepAliveFails, Abort, participantVars,
        CloseCode
  <2> QED
    BY <1>n, <2>2, <2>3, CloseJoinedOnly
<1>3. ASSUME NEW p \in Session, Bridge(p) PROVE AliveUntilJoined'
  <2>1. handler' = handler /\ bridge[p] # "none"
    BY <1>3
    DEF Bridge, BridgeStart, GreetEdge, GreetTarget, GreetFails, EmitPaired,
        BridgeEnds, CloseEdgeEnd, CloseTargetEnd, BridgeStep
  <2>2. \A q \in {EdgeEnd(p), TargetEnd(p)} : q \in Session /\ ~Early(q)
    <3>1. Paired(p) /\ peer[p] \in Session
      BY <2>1 DEF PairingInv, BridgeElected, Paired, TypeOK, RegistryTypeOK
    <3>2. ~Early(p) /\ Paired(peer[p])
      BY <3>1, SessionAssumption DEF PairingInv, PairMatched, Paired
    <3>3. ~Early(peer[p])
      BY <3>1, <3>2 DEF PairingInv, PairMatched
    <3> QED
      BY <3>1, <3>2, <3>3 DEF EdgeEnd, TargetEnd
  <2>3. \/ done' = done
        \/ \E q \in {EdgeEnd(p), TargetEnd(p)} : CloseWith(q, "normal")
    BY <1>3
    DEF Bridge, BridgeStart, GreetEdge, GreetTarget, GreetFails, EmitPaired,
        BridgeEnds, CloseEdgeEnd, CloseTargetEnd, participantVars
  <2>4. \A s \in Session : Early(s)' <=> Early(s)
    BY <2>1 DEF Early
  <2> QED
    BY <1>n, <2>2, <2>3, <2>4, CloseJoinedOnly
<1>4. CASE Kicker
  <2>1. /\ kick.session \in Session /\ ~Early(kick.session)
        /\ handler' = handler
        /\ done' = done \/ CloseWith(kick.session, "kicked")
    BY <1>4
    DEF Kicker, KickArmCode, KickArmText, KickClose, KickStep, ArmCode, ArmText,
        participantVars, PairingInv
  <2>2. \A s \in Session : Early(s)' <=> Early(s)
    BY <2>1 DEF Early
  <2> QED
    BY <1>n, <2>1, <2>2, CloseJoinedOnly
<1>5. CASE \/ Shutdown \/ Finished \/ UNCHANGED vars
           \/ \E p \in Session : KickLookup(p) \/ Break(p)
  <2>1. UNCHANGED <<handler, done>>
    BY <1>5
    DEF Shutdown, Finished, vars, serverVars, participantVars, KickLookup, KickStep,
        Break, BreakConnection
  <2> QED
    BY <1>n, <2>1 DEF Early
<1>6. ASSUME NEW p \in Session, Relaying(p) \/ Flusher(p) PROVE AliveUntilJoined'
  <2>1. UNCHANGED <<handler, done>>
    BY <1>6, RelayingFrame DEF participantVars
  <2> QED
    BY <1>n, <2>1 DEF Early
<1> QED
  BY <1>1, <1>2, <1>3, <1>4, <1>5, <1>6 DEF Next

LEMMA AliveCorrect == Spec => []AliveUntilJoined
<1>1. Init => AliveUntilJoined
  BY DEF Init, ParticipantInit, AliveUntilJoined
<1> QED
  BY <1>1, JoinsAlive, TypeCorrect, PairingCorrect, PTL DEF Spec

-----------------------------------------------------------------------------
(***************************************************************************)
(* The relay implements Rendezvous.  A step gives one session another      *)
(* status, pairs two, or is invisible: a session that is done is over      *)
(* wherever its goroutines still are and whatever queue it still sits in.  *)
(***************************************************************************)

\* The status of a session, before and after a step; only a session that is
\* done has been sent a frame.
LEMMA StatusBefore ==
  ASSUME PairingInv, NEW s \in Session
  PROVE  AbstractStatus(s) =
           IF frame[s].code = "tryAgain" THEN "expired"
           ELSE IF done[s] THEN "over"
           ELSE IF handler[s] = "expired" THEN "expired"
           ELSE IF Paired(s) THEN "matched"
           ELSE IF Waiting(s) THEN "waiting" ELSE "outside"
<1>1. frame[s].code = "tryAgain" => done[s]
  BY DEF PairingInv, LifeOrdered
<1> QED
  BY <1>1 DEF AbstractStatus

LEMMA StatusAfter ==
  ASSUME PairingInv', NEW s \in Session
  PROVE  AbstractStatus(s)' =
           IF frame'[s].code = "tryAgain" THEN "expired"
           ELSE IF done'[s] THEN "over"
           ELSE IF handler'[s] = "expired" THEN "expired"
           ELSE IF Paired(s)' THEN "matched"
           ELSE IF Waiting(s)' THEN "waiting" ELSE "outside"
<1>1. frame'[s].code = "tryAgain" => done'[s]
  BY DEF PairingInv, LifeOrdered
<1> QED
  BY <1>1 DEF AbstractStatus

\* A session nothing happens to keeps its status; of one that is done, the
\* handler and the queues no longer matter.
LEMMA StatusKept ==
  ASSUME PairingInv, PairingInv', NEW s \in Session,
         peer'[s] = peer[s], done'[s] = done[s], frame'[s] = frame[s],
         \/ done[s]
         \/ /\ handler'[s] = "expired" <=> handler[s] = "expired"
            /\ Waiting(s)' <=> Waiting(s)
  PROVE  AbstractStatus(s)' = AbstractStatus(s)
BY StatusBefore, StatusAfter DEF Paired

\* A step that keeps every status is invisible.
LEMMA Invisible ==
  ASSUME \A s \in Session : AbstractStatus(s)' = AbstractStatus(s),
         UNCHANGED <<peer, seat, arrivals>>
  PROVE  UNCHANGED Abstract!abstractVars
BY DEF Abstract!abstractVars

\* A session that gets another status is seen.
LEMMA StatusMoves ==
  ASSUME NEW p \in Session, AbstractStatus(p)' # AbstractStatus(p)
  PROVE  [s \in Session |-> AbstractStatus(s)]' # [s \in Session |-> AbstractStatus(s)]
<1> DEFINE st == [s \in Session |-> AbstractStatus(s)]
<1>1. st[p] = AbstractStatus(p) /\ st'[p] = AbstractStatus(p)'
  OBVIOUS
<1> HIDE DEF st
<1>2. st' # st
  BY <1>1
<1> QED
  BY <1>2 DEF st

\* A step that closes one living session ends it.
LEMMA Ends ==
  ASSUME NEW p \in Session, AbstractStatus(p) # "over", AbstractStatus(p)' = "over",
         \A s \in Session \ {p} : AbstractStatus(s)' = AbstractStatus(s),
         UNCHANGED <<peer, seat, arrivals>>
  PROVE  Abstract!AbstractNext
<1>1. Abstract!End(p)
  BY DEF Abstract!End
<1> QED
  BY <1>1, StatusMoves DEF Abstract!AbstractNext

\* A close with any code but that of the pair timeout.
LEMMA CloseEnds ==
  ASSUME TypeOK, PairingInv, PairingInv', NEW p \in Session,
         NEW code \in CloseCode \ {"tryAgain"}, CloseWith(p, code),
         UNCHANGED registryVars,
         \A s \in Session : handler'[s] = "expired" <=> handler[s] = "expired"
  PROVE  [Abstract!AbstractNext]_(Abstract!abstractVars)
<1>1. UNCHANGED <<waiting, peer, seat, arrivals>>
  BY DEF registryVars
<1>2. \A s \in Session : Waiting(s)' <=> Waiting(s)
  BY <1>1 DEF Waiting
<1>3. CASE done[p]
  <2>1. UNCHANGED <<done, frame>>
    BY <1>3 DEF CloseWith
  <2> QED
    BY <1>1, <1>2, <2>1, StatusKept, Invisible
<1>4. CASE ~done[p]
  <2>1. /\ done' = [done EXCEPT ![p] = TRUE]
        /\ frame' = [frame EXCEPT ![p] = ClosingFrame(p, code)]
    BY <1>4 DEF CloseWith
  <2>2. done'[p] /\ frame'[p].code # "tryAgain" /\ frame[p].code # "tryAgain"
    <3>1. armedCode[p] # "tryAgain" /\ frame[p].code = "none"
      BY <1>4 DEF PairingInv, LifeOrdered
    <3> QED
      BY <2>1, <3>1 DEF ClosingFrame, TypeOK, ParticipantTypeOK
  <2>3. AbstractStatus(p) # "over" /\ AbstractStatus(p)' = "over"
    BY <1>4, <2>2, StatusBefore, StatusAfter
  <2>4. ASSUME NEW s \in Session \ {p} PROVE AbstractStatus(s)' = AbstractStatus(s)
    BY <1>1, <1>2, <2>1, StatusKept DEF TypeOK, ParticipantTypeOK
  <2> QED
    BY <1>1, <2>3, <2>4, Ends
<1> QED
  BY <1>3, <1>4

\* The registry of a step that closes nobody and moves no queue.
LEMMA NothingSeen ==
  ASSUME PairingInv, PairingInv', UNCHANGED <<done, frame, registryVars>>,
         \A s \in Session : handler'[s] = "expired" <=> handler[s] = "expired"
  PROVE  UNCHANGED Abstract!abstractVars
<1>1. UNCHANGED <<waiting, peer, seat, arrivals>>
  BY DEF registryVars
<1> QED
  BY <1>1, StatusKept, Invisible DEF Waiting

\* registry.join: p waits if it has no candidate, or is matched with the
\* candidate that has waited longest.  The active sessions of the opposite
\* queue are the candidates.
LEMMA EnqueueMatches ==
  ASSUME TypeOK, PairingInv, PairingInv', AliveUntilJoined, NEW p \in Session, Enqueue(p)
  PROVE  Abstract!AbstractNext
<1> DEFINE other == Opposite(RoleOf[p])
<1>1. /\ UNCHANGED <<done, frame>>
      /\ handler[p] = "grouped"
      /\ \A s \in Session : handler'[s] = IF s = p THEN "queued" ELSE handler[s]
  BY HandlerMove DEF Enqueue, participantVars
<1>2. /\ ~done[p] /\ frame[p].code # "tryAgain" /\ ~Paired(p) /\ ~Waiting(p)
  BY <1>1, RolesAndRoutes
  DEF PairingInv, LifeOrdered, PairMatched, QueuedRightly, Waiting, Early,
      AliveUntilJoined
<1>3. AbstractStatus(p) = "outside"
  BY <1>1, <1>2, StatusBefore
<1>4. \A s \in Session : AbstractStatus(s) = "waiting" <=> Waiting(s) /\ ~done[s]
  <2> SUFFICES ASSUME NEW s \in Session
               PROVE  AbstractStatus(s) = "waiting" <=> Waiting(s) /\ ~done[s]
    OBVIOUS
  <2>1. Waiting(s) => ~Paired(s) /\ handler[s] # "expired"
    BY RolesAndRoutes DEF PairingInv, QueuedRightly, Waiting
  <2>2. frame[s].code = "tryAgain" => done[s]
    BY DEF PairingInv, LifeOrdered
  <2> QED
    BY <2>1, <2>2, StatusBefore
<1>5. Abstract!Candidates(p) = Active(RouteOf[p], other)
  <2>1. ASSUME NEW s \in Session
        PROVE  RouteOf[s] = RouteOf[p] /\ RoleOf[s] # RoleOf[p] /\ Waiting(s)
                 <=> s \in waiting[RouteOf[p]][other]
    <3>1. RoleOf[s] # RoleOf[p] <=> RoleOf[s] = other
      BY RolesAndRoutes DEF Opposite
    <3>2. QueuedRightly(s, RouteOf[p], other)
      BY RolesAndRoutes DEF PairingInv
    <3> QED
      BY <3>1, <3>2 DEF QueuedRightly, Waiting
  <2>2. waiting[RouteOf[p]][other] \subseteq Session
    BY RolesAndRoutes DEF TypeOK, RegistryTypeOK
  <2> QED
    BY <1>4, <2>1, <2>2 DEF Abstract!Candidates, Active
<1>6. CASE JoinWaits(p)
  <2>1. /\ Active(RouteOf[p], other) = {} /\ peer' = peer
        /\ arrivals' = arrivals + 1 /\ seat' = [seat EXCEPT ![p] = arrivals + 1]
    BY <1>6 DEF JoinWaits
  <2>w. \A r \in Route, role \in Role :
          waiting'[r][role] =
            IF r # RouteOf[p] THEN waiting[r][role]
            ELSE IF role = RoleOf[p]
              THEN {x \in waiting[r][role] : ~done[x]} \cup {p}
              ELSE {}
    BY <1>6, JoinWaitsEffect DEF TypeOK
  <2>2. ASSUME NEW s \in Session, s # p, ~done[s] PROVE Waiting(s)' <=> Waiting(s)
    <3>1. CASE RouteOf[s] = RouteOf[p] /\ RoleOf[s] = other
      <4>1. s \notin waiting[RouteOf[p]][other]
        BY <2>1, <2>2 DEF Active
      <4> QED
        BY <2>w, <2>2, <3>1, <4>1, RolesAndRoutes DEF Waiting
    <3>2. CASE ~(RouteOf[s] = RouteOf[p] /\ RoleOf[s] = other)
      <4>1. RouteOf[s] = RouteOf[p] => RoleOf[s] = RoleOf[p]
        BY <3>2, RolesAndRoutes DEF Opposite
      <4>2. waiting'[RouteOf[s]][RoleOf[s]] =
              IF RouteOf[s] # RouteOf[p] THEN waiting[RouteOf[s]][RoleOf[s]]
              ELSE {x \in waiting[RouteOf[s]][RoleOf[s]] : ~done[x]} \cup {p}
        BY <2>w, <4>1, RolesAndRoutes
      <4> QED
        BY <2>2, <4>2 DEF Waiting
    <3> QED
      BY <3>1, <3>2
  <2>3. Waiting(p)'
    BY <2>w, RolesAndRoutes DEF Waiting
  <2>4. AbstractStatus(p)' = "waiting"
    BY <1>1, <1>2, <2>1, <2>3, StatusAfter DEF Paired
  <2>5. ASSUME NEW s \in Session \ {p} PROVE AbstractStatus(s)' = AbstractStatus(s)
    BY <1>1, <2>1, <2>2, StatusKept
  <2>6. Abstract!Wait(p)
    BY <1>3, <1>5, <2>1, <2>4, <2>5 DEF Abstract!Wait
  <2> QED
    BY <1>3, <2>4, <2>6, StatusMoves DEF Abstract!AbstractNext
<1>7. ASSUME NEW q \in Session, JoinPairs(p, q) PROVE Abstract!AbstractNext
  <2>1. /\ q \in Active(RouteOf[p], other)
        /\ \A s \in Active(RouteOf[p], other) : seat[q] <= seat[s]
        /\ peer' = [peer EXCEPT ![p] = q, ![q] = p]
        /\ UNCHANGED <<seat, arrivals>>
    BY <1>7 DEF JoinPairs, IsOldest
  <2>2. ~done[q] /\ frame[q].code # "tryAgain" /\ handler[q] # "expired" /\ q # p
    <3>1. QueuedRightly(q, RouteOf[p], other)
      BY RolesAndRoutes DEF PairingInv
    <3> QED
      BY <2>1, <3>1, <1>1 DEF Active, QueuedRightly, PairingInv, LifeOrdered
  <2>3. peer'[p] = q /\ peer'[q] = p /\ \A s \in Session \ {p, q} : peer'[s] = peer[s]
    BY <2>1, <2>2 DEF TypeOK, RegistryTypeOK
  <2>4. Paired(p)' /\ Paired(q)'
    BY <2>3, SessionAssumption DEF Paired
  <2>5. AbstractStatus(p)' = "matched" /\ AbstractStatus(q)' = "matched"
    BY <1>1, <1>2, <2>2, <2>4, StatusAfter
  <2>6. ASSUME NEW s \in Session \ {p, q} PROVE AbstractStatus(s)' = AbstractStatus(s)
    <3>0. \A r \in Route, role \in Role :
            waiting'[r][role] =
              IF r # RouteOf[p] THEN waiting[r][role]
              ELSE {x \in waiting[r][role] : ~done[x]} \
                     IF role = RoleOf[p] THEN {} ELSE {q}
      BY <1>7, JoinPairsEffect DEF TypeOK
    <3>1. waiting'[RouteOf[s]][RoleOf[s]] =
            IF RouteOf[s] # RouteOf[p] THEN waiting[RouteOf[s]][RoleOf[s]]
            ELSE {x \in waiting[RouteOf[s]][RoleOf[s]] : ~done[x]} \
                   IF RoleOf[s] = RoleOf[p] THEN {} ELSE {q}
      BY <3>0, RolesAndRoutes
    <3>2. ~done[s] => (Waiting(s)' <=> Waiting(s))
      BY <2>6, <3>1 DEF Waiting
    <3> QED
      BY <1>1, <2>3, <3>2, StatusKept
  <2>7. Abstract!Match(p, q)
    BY <1>3, <1>5, <2>1, <2>5, <2>6, <2>2 DEF Abstract!Match
  <2> QED
    BY <1>3, <2>5, <2>7, StatusMoves DEF Abstract!AbstractNext
<1> QED
  BY <1>6, <1>7 DEF Enqueue

\* registry.remove takes p out of its queue and nobody else.
LEMMA OnlyRemoved ==
  ASSUME TypeOK, NEW p \in Session, RemoveWaiting(p)
  PROVE  /\ UNCHANGED <<peer, seat, arrivals>>
         /\ ~Waiting(p)'
         /\ \A s \in Session \ {p} : Waiting(s)' <=> Waiting(s)
<1>1. \A r \in Route, role \in Role :
        waiting'[r][role] = IF r = RouteOf[p] THEN waiting[r][role] \ {p}
                                              ELSE waiting[r][role]
  BY RemoveWaitingEffect DEF TypeOK
<1>2. \A s \in Session :
        waiting'[RouteOf[s]][RoleOf[s]] =
          IF RouteOf[s] = RouteOf[p] THEN waiting[RouteOf[s]][RoleOf[s]] \ {p}
                                     ELSE waiting[RouteOf[s]][RoleOf[s]]
  BY <1>1, RolesAndRoutes
<1>3. UNCHANGED <<peer, seat, arrivals>>
  BY DEF RemoveWaiting
<1>4. ~Waiting(p)'
  BY <1>2 DEF Waiting
<1>5. ASSUME NEW s \in Session \ {p} PROVE Waiting(s)' <=> Waiting(s)
  BY <1>2 DEF Waiting
<1> QED
  BY <1>3, <1>4, <1>5

\* A goroutine that cleans up after a session that is done is not seen.
LEMMA CleanupUnseen ==
  ASSUME TypeOK, PairingInv, PairingInv', NEW p \in Session, done[p], RemoveWaiting(p),
         UNCHANGED <<done, frame>>,
         \A s \in Session : handler'[s] = "expired" <=> handler[s] = "expired"
  PROVE  UNCHANGED Abstract!abstractVars
<1>1. /\ UNCHANGED <<peer, seat, arrivals>>
      /\ \A s \in Session \ {p} : Waiting(s)' <=> Waiting(s)
  BY OnlyRemoved
<1>2. \A s \in Session : AbstractStatus(s)' = AbstractStatus(s)
  BY <1>1, StatusKept
<1> QED
  BY <1>1, <1>2, Invisible

\* The pair timer: an edge that still waits gives up; one that was claimed or
\* closed meanwhile does not.
LEMMA TimeoutGivesUp ==
  ASSUME TypeOK, PairingInv, PairingInv', NEW p \in Session, AwaitTimeout(p)
  PROVE  [Abstract!AbstractNext]_(Abstract!abstractVars)
<1>1. /\ UNCHANGED <<done, frame>>
      /\ handler[p] = "await" /\ RoleOf[p] = "edge" /\ RemoveWaiting(p)
      /\ \A s \in Session :
           handler'[s] = IF s # p THEN handler[s]
                         ELSE IF Waiting(p) THEN "expired" ELSE "serving"
  BY HandlerMove DEF AwaitTimeout, participantVars
<1>2. /\ UNCHANGED <<peer, seat, arrivals>> /\ ~Waiting(p)'
      /\ \A s \in Session \ {p} : Waiting(s)' <=> Waiting(s)
  BY <1>1, OnlyRemoved
<1>3. \A s \in Session \ {p} : AbstractStatus(s)' = AbstractStatus(s)
  BY <1>1, <1>2, StatusKept
<1>4. CASE done[p] \/ ~Waiting(p)
  <2>1. AbstractStatus(p)' = AbstractStatus(p)
    BY <1>1, <1>2, <1>4, StatusKept
  <2> QED
    BY <1>2, <1>3, <2>1, Invisible
<1>5. CASE ~done[p] /\ Waiting(p)
  <2>1. ~Paired(p) /\ frame[p].code # "tryAgain"
    BY <1>5, RolesAndRoutes DEF PairingInv, QueuedRightly, LifeOrdered, Waiting
  <2>2. AbstractStatus(p) = "waiting" /\ AbstractStatus(p)' = "expired"
    BY <1>1, <1>5, <2>1, StatusBefore, StatusAfter
  <2>3. Abstract!GiveUp(p)
    BY <1>1, <1>2, <1>3, <2>2 DEF Abstract!GiveUp
  <2> QED
    BY <2>2, <2>3, StatusMoves DEF Abstract!AbstractNext
<1> QED
  BY <1>4, <1>5

\* Closing an edge that gave up tells it to try again, unless it was closed
\* or armed meanwhile, which ends it like any other session.
LEMMA ExpiredCloses ==
  ASSUME TypeOK, PairingInv, PairingInv', NEW p \in Session, CloseExpired(p)
  PROVE  [Abstract!AbstractNext]_(Abstract!abstractVars)
<1>1. /\ handler[p] = "expired" /\ CloseWith(p, "tryAgain")
      /\ \A s \in Session : handler'[s] = IF s = p THEN "leaving" ELSE handler[s]
      /\ UNCHANGED <<waiting, peer, seat, arrivals>>
  BY HandlerMove DEF CloseExpired, registryVars
<1>2. \A s \in Session : Waiting(s)' <=> Waiting(s)
  BY <1>1 DEF Waiting
<1>3. CASE done[p]
  <2>1. UNCHANGED <<done, frame>>
    BY <1>1, <1>3 DEF CloseWith
  <2> QED
    BY <1>1, <1>2, <1>3, <2>1, StatusKept, Invisible
<1>4. CASE ~done[p]
  <2>1. /\ done' = [done EXCEPT ![p] = TRUE]
        /\ frame' = [frame EXCEPT ![p] = ClosingFrame(p, "tryAgain")]
    BY <1>1, <1>4 DEF CloseWith
  <2>2. ASSUME NEW s \in Session \ {p} PROVE AbstractStatus(s)' = AbstractStatus(s)
    BY <1>1, <1>2, <2>1, StatusKept DEF TypeOK, ParticipantTypeOK
  <2>3. AbstractStatus(p) = "expired"
    BY <1>1, <1>4, StatusBefore
  <2>4. done'[p]
    BY <2>1 DEF TypeOK, ParticipantTypeOK
  <2>5. CASE frame'[p].code = "tryAgain"
    BY <1>1, <2>2, <2>3, <2>5, StatusAfter, Invisible
  <2>6. CASE frame'[p].code # "tryAgain"
    BY <1>1, <2>2, <2>3, <2>4, <2>6, StatusAfter, Ends
  <2> QED
    BY <2>5, <2>6
<1> QED
  BY <1>3, <1>4

\* The steps of a session's handler.
LEMMA HandlerMapped ==
  ASSUME TypeOK, PairingInv, PairingInv', AliveUntilJoined, NEW p \in Session,
         Handler(p) \/ Connect(p)
  PROVE  [Abstract!AbstractNext]_(Abstract!abstractVars)
<1>1. CASE \/ Connect(p) \/ FailHello(p) \/ EnterGroup(p) \/ Track(p) \/ Report(p)
           \/ AwaitPaired(p) \/ AwaitDone(p) \/ ExitGroup(p)
  <2>1. /\ UNCHANGED <<done, frame, registryVars>>
        /\ \E from, to \in HandlerAt \ {"expired"} : HandlerStep(p, from, to)
    BY <1>1
    DEF Connect, FailHello, EnterGroup, Track, Report, AwaitPaired, AwaitDone, ExitGroup,
        participantVars, HandlerAt
  <2>2. \A s \in Session : handler'[s] = "expired" <=> handler[s] = "expired"
    BY <2>1, HandlerMove
  <2> QED
    BY <2>1, <2>2, NothingSeen
<1>2. CASE RejectDuplicate(p) \/ EmitDisconnected(p)
  <2>1. /\ UNCHANGED registryVars
        /\ \E from, to \in HandlerAt \ {"expired"} : HandlerStep(p, from, to)
        /\ CloseWith(p, "duplicate") \/ CloseWith(p, "normal")
    BY <1>2 DEF RejectDuplicate, EmitDisconnected, HandlerAt
  <2>2. \A s \in Session : handler'[s] = "expired" <=> handler[s] = "expired"
    BY <2>1, HandlerMove
  <2>3. {"duplicate", "normal"} \subseteq CloseCode \ {"tryAgain"}
    BY DEF CloseCode
  <2> QED
    BY <2>1, <2>2, <2>3, CloseEnds
<1>3. CASE UntrackAndDequeue(p)
  <2>1. /\ handler[p] = "leaving" /\ RemoveWaiting(p) /\ UNCHANGED <<done, frame>>
        /\ \A s \in Session : handler'[s] = "expired" <=> handler[s] = "expired"
    BY <1>3, HandlerMove DEF UntrackAndDequeue, participantVars
  <2>2. done[p]
    BY <2>1 DEF PairingInv, LifeOrdered
  <2> QED
    BY <2>1, <2>2, CleanupUnseen
<1> QED
  BY <1>1, <1>2, <1>3, EnqueueMatches, TimeoutGivesUp, ExpiredCloses DEF Handler

\* The steps of the other goroutines.
LEMMA OthersMapped ==
  ASSUME TypeOK, PairingInv, PairingInv', NEW p \in Session,
         \/ Reader(p) \/ ReadNonBinary(p) \/ ReadEarly(p) \/ ReadFrame(p)
         \/ KeepAliveFails(p) \/ Bridge(p) \/ Relaying(p) \/ Flusher(p)
  PROVE  [Abstract!AbstractNext]_(Abstract!abstractVars)
<1>c. {"normal", "policy"} \subseteq CloseCode \ {"tryAgain"}
  BY DEF CloseCode
<1>1. handler' = handler
  BY RelayingFrame
     DEF Reader, ReadError, CloseEarly, OfferTaken, OfferAborted, ReaderExit,
         ReadNonBinary, ReadEarly, ReadFrame, KeepAliveFails, Bridge, BridgeStart,
         GreetEdge, GreetTarget, GreetFails, EmitPaired, CloseEdgeEnd,
         CloseTargetEnd, BridgeEnds, serverVars
<1>2. CASE ReadError(p) \/ ReadNonBinary(p) \/ CloseEarly(p) \/ KeepAliveFails(p)
  <2>1. /\ CloseWith(p, "normal") \/ CloseWith(p, "policy")
        /\ UNCHANGED registryVars
    BY <1>2 DEF ReadError, ReadNonBinary, CloseEarly, KeepAliveFails, Abort
  <2> QED
    BY <1>c, <1>1, <2>1, CloseEnds
<1>3. CASE \/ ReadEarly(p) \/ ReadFrame(p) \/ OfferTaken(p) \/ OfferAborted(p)
           \/ BridgeStart(p) \/ GreetEdge(p) \/ GreetTarget(p) \/ GreetFails(p)
           \/ EmitPaired(p) \/ BridgeEnds(p) \/ Relaying(p) \/ Flusher(p)
  <2>1. UNCHANGED <<done, frame, registryVars>>
    BY <1>3, RelayingFrame
    DEF ReadEarly, ReadFrame, OfferTaken, OfferAborted, BridgeStart, GreetEdge,
        GreetTarget, GreetFails, EmitPaired, BridgeEnds, participantVars
  <2> QED
    BY <1>1, <2>1, NothingSeen
<1>4. CASE ReaderExit(p)
  <2>1. reader[p] = "exiting" /\ RemoveWaiting(p) /\ UNCHANGED <<done, frame>>
    BY <1>4 DEF ReaderExit, ReaderStep, participantVars
  <2>2. done[p]
    BY <2>1 DEF PairingInv, LifeOrdered
  <2> QED
    BY <1>1, <2>1, <2>2, CleanupUnseen
<1>5. CASE CloseEdgeEnd(p) \/ CloseTargetEnd(p)
  <2>1. PICK q \in {EdgeEnd(p), TargetEnd(p)} : CloseWith(q, "normal")
    BY <1>5 DEF CloseEdgeEnd, CloseTargetEnd
  <2>2. bridge[p] # "none" /\ UNCHANGED registryVars
    BY <1>5 DEF CloseEdgeEnd, CloseTargetEnd, BridgeStep
  <2>3. Paired(p)
    BY <2>2 DEF PairingInv, BridgeElected
  <2>4. q \in Session
    BY <2>1, <2>3 DEF EdgeEnd, TargetEnd, Paired, TypeOK, RegistryTypeOK
  <2> QED
    BY <1>c, <1>1, <2>1, <2>2, <2>4, CloseEnds
<1> QED
  BY <1>2, <1>3, <1>4, <1>5 DEF Reader, Bridge

\* The steps of the administrator, the network and the server.
LEMMA OutsideMapped ==
  ASSUME TypeOK, PairingInv, PairingInv',
         \/ Kicker \/ Shutdown \/ UNCHANGED vars
         \/ \E p \in Session : KickLookup(p) \/ Break(p)
  PROVE  [Abstract!AbstractNext]_(Abstract!abstractVars)
<1>1. handler' = handler /\ UNCHANGED registryVars
  BY DEF Kicker, KickArmCode, KickArmText, KickClose, KickLookup, KickStep, Break,
         Shutdown, serverVars, vars
<1>2. CASE KickClose
  <2>1. kick.session \in Session /\ CloseWith(kick.session, "kicked")
    BY <1>2 DEF KickClose, KickStep, PairingInv
  <2>2. "kicked" \in CloseCode \ {"tryAgain"}
    BY DEF CloseCode
  <2> QED
    BY <1>1, <2>1, <2>2, CloseEnds
<1>3. CASE ~KickClose
  <2>1. UNCHANGED <<done, frame>>
    BY <1>3
    DEF Kicker, KickArmCode, KickArmText, ArmCode, ArmText, KickLookup, Break,
        BreakConnection, Shutdown, participantVars, vars
  <2> QED
    BY <1>1, <2>1, NothingSeen
<1> QED
  BY <1>2, <1>3

\* The goroutines of all sessions together match sessions as Rendezvous says:
\* first come, first served, and nobody leaves the queue but claimed, expired
\* or over.
THEOREM RendezvousCorrect == Spec => RendezvousKept
<1>1. Init => Abstract!AbstractInit
  <2> SUFFICES ASSUME Init PROVE Abstract!AbstractInit
    OBVIOUS
  <2>1. \A s \in Session : AbstractStatus(s) = "outside"
    BY RolesAndRoutes
    DEF Init, ParticipantInit, RegistryInit, NoFrame, AbstractStatus, Paired, Waiting
  <2> QED
    BY <2>1 DEF Abstract!AbstractInit, Init, RegistryInit
<1>2. TypeOK /\ PairingInv /\ PairingInv' /\ AliveUntilJoined /\ [Next]_vars
        => [Abstract!AbstractNext]_(Abstract!abstractVars)
  BY HandlerMapped, OthersMapped, OutsideMapped DEF Next, Finished
<1> QED
  BY <1>1, <1>2, TypeCorrect, PairingCorrect, AliveCorrect, PTL
  DEF Spec, RendezvousKept, Abstract!AbstractSpec

-----------------------------------------------------------------------------
(***************************************************************************)
(* Bridges, console rows and sockets.                                      *)
(***************************************************************************)
RowsInv == \A p \in Session : BridgeOrdered(p) /\ RowRight(p) /\ SocketClosed(p)

\* closeWith leaves no socket open.
LEMMA CloseShuts ==
  ASSUME TypeOK, RowsInv, NEW p \in Session, NEW code, CloseWith(p, code)
  PROVE  /\ \A s \in Session : done[s] => done'[s]
         /\ \A s \in Session :
              (connOpen'[s] = connOpen[s] /\ done'[s] = done[s]) \/ ~connOpen'[s]
         /\ done'[p] /\ ~connOpen'[p]
BY DEF TypeOK, ParticipantTypeOK, RowsInv, SocketClosed, CloseWith

\* A socket stays closed where a step closes it, leaves it alone or opens it for a
\* living session.
SocketsMove ==
  \A s \in Session :
    \/ /\ connOpen'[s] = connOpen[s] /\ done'[s] = done[s]
       /\ handler'[s] = "gone" => handler[s] = "gone"
    \/ ~connOpen'[s]
    \/ ~done'[s] /\ handler'[s] # "gone"

\* A handler moves on without a report, or returns without having joined.
HandlerPasses(s) ==
  \/ handler'[s] = handler[s]
  \/ /\ Reported(s)' <=> Reported(s)
     /\ handler[s] # "gone" /\ handler'[s] # "gone"
     /\ \/ handler[s] \notin {"queued", "tracked"}
        \/ handler'[s] \in {"queued", "tracked"}
  \/ handler[s] \in {"new", "hello"} /\ handler'[s] = "gone"

\* A step that starts or ends no bridge and writes no row.
LEMMA RowsKept ==
  ASSUME TypeOK, PairingInv, RowsInv,
         UNCHANGED <<peer, bridge, console, flowVars>>,
         \A s \in Session : done[s] => done'[s],
         \A s \in Session : HandlerPasses(s),
         SocketsMove
  PROVE  RowsInv'
<1>1. \A s \in Session : peer[s] \in Session \cup {NoSession}
  BY DEF TypeOK, RegistryTypeOK
<1>2. \A s \in Session : Reported(s) => Reported(s)'
  BY DEF HandlerPasses, Reported
<1>3. \A s \in Session : bridge[s] # "none" => Paired(s) /\ peer[s] \in Session /\ ~Early(s)
  BY <1>1 DEF PairingInv, BridgeElected, PairMatched, Paired
<1>4. ASSUME NEW s \in Session PROVE BridgeOrdered(s)'
  BY <1>2, <1>3, <1>4
     DEF RowsInv, BridgeOrdered, HandlerPasses, EdgeEnd, TargetEnd, Early, flowVars
<1>5. ASSUME NEW s \in Session PROVE RowRight(s)'
  <2>1. BridgedPair(s)' <=> BridgedPair(s)
    BY DEF BridgedPair, Paired
  <2>2. RowRight(s)
    BY DEF RowsInv
  <2>q. QED
    BY <1>2, <2>1, <2>2 DEF RowRight, HandlerPasses, Reported, Paired, flowVars
<1>6. ASSUME NEW s \in Session PROVE SocketClosed(s)'
  BY DEF RowsInv, SocketClosed, SocketsMove
<1>q. QED
  BY <1>4, <1>5, <1>6 DEF RowsInv

\* A row that is there may be rewritten: a pair's as "paired", and by a late
\* refresh as one that has been.
RowMoves(s) ==
  \/ console'[s] = console[s]
  \/ console[s] # "absent" /\ console'[s] = "paired" /\ Paired(s)
  \/ console[s] \in {"paired", "stale"} /\ console'[s] = "stale"

LEMMA RowsRewritten ==
  ASSUME TypeOK, PairingInv, RowsInv,
         UNCHANGED <<peer, handler>>,
         \A s \in Session : BridgeOrdered(s)',
         \A s \in Session : BridgedPair(s) => BridgedPair(s)',
         \A s \in Session : bridge'[s] = "relaying" => bridge[s] = "relaying",
         \A s \in Session : RowMoves(s),
         \A s \in Session : refresh'[s] = "paired" => Paired(s),
         SocketsMove
  PROVE  RowsInv'
<1>1. ASSUME NEW s \in Session PROVE RowRight(s)'
  <2>1. RowRight(s)
    BY DEF RowsInv
  <2>2. Paired(s) => peer[s] \in Session
    BY DEF Paired, TypeOK, RegistryTypeOK
  <2>3. Paired(s) /\ "relaying" \in {bridge'[s], bridge'[peer[s]]} =>
          "relaying" \in {bridge[s], bridge[peer[s]]}
    BY <2>2
  <2>4. /\ Reported(s)' <=> Reported(s)
        /\ Paired(s)' <=> Paired(s)
    BY DEF Reported, Paired
  <2>5. /\ console'[s] = "absent" <=> console[s] = "absent"
        /\ console'[s] \in {"paired", "stale"} => Paired(s)
        /\ console[s] \in {"paired", "stale"} => console'[s] \in {"paired", "stale"}
    BY <2>1 DEF RowMoves, RowRight
  <2>q. QED
    BY <2>1, <2>3, <2>4, <2>5 DEF RowRight
<1>2. ASSUME NEW s \in Session PROVE SocketClosed(s)'
  BY DEF RowsInv, SocketClosed, SocketsMove
<1>q. QED
  BY <1>1, <1>2 DEF RowsInv

\* The bridge of p moves on from "starting", but not from "relaying"; both ends
\* have reported.
LEMMA BridgeMovesOn ==
  ASSUME TypeOK, PairingInv, RowsInv, NEW p \in Session, NEW from, NEW to,
         BridgeStep(p, from, to),
         from \notin {"none", "elected", "relaying", "ended"},
         to \in {"greetEdge", "greetTarget", "greeted", "closeEdge", "closeTarget",
                 "stopTarget", "joining", "ended"},
         from \in {"stopEdge", "stopTarget", "joining"} <=> to \in {"stopTarget", "joining"}
           \/ (from = "joining" /\ to = "ended" /\ copies[p] = {}),
         Reported(peer[p]),
         to \in {"closeTarget", "stopTarget", "joining", "ended"} => done'[EdgeEnd(p)],
         to \in {"joining", "ended"} => done'[TargetEnd(p)],
         UNCHANGED <<peer, handler, flowVars>>,
         \A s \in Session : RowMoves(s),
         \A s \in Session : done[s] => done'[s],
         SocketsMove
  PROVE  RowsInv'
<1>1. \A s \in Session : bridge'[s] = IF s = p THEN to ELSE bridge[s]
  BY DEF BridgeStep, TypeOK, ServerTypeOK
<1>2. \A s \in Session : /\ peer[s] \in Session \cup {NoSession}
                         /\ bridge[s] # "none" => Paired(s) /\ peer[s] \in Session
  BY DEF TypeOK, RegistryTypeOK, PairingInv, BridgeElected, Paired
<1>3. bridge[p] = from
  BY DEF BridgeStep
<1>4. ASSUME NEW s \in Session PROVE BridgeOrdered(s)'
  <2>1. BridgeOrdered(s)
    BY DEF RowsInv
  <2>2. CASE s = p
    BY <1>1, <1>2, <1>3, <2>1, <2>2
       DEF BridgeOrdered, Reported, EdgeEnd, TargetEnd, flowVars
  <2>3. CASE s # p
    BY <1>1, <1>2, <2>1, <2>3
       DEF BridgeOrdered, Reported, EdgeEnd, TargetEnd, flowVars
  <2>q. QED
    BY <2>2, <2>3
<1>5. ASSUME NEW s \in Session, BridgedPair(s) PROVE BridgedPair(s)'
  BY <1>1, <1>2, <1>3, <1>5 DEF BridgedPair, Paired
<1>6. \A s \in Session : /\ bridge'[s] = "relaying" => bridge[s] = "relaying"
                         /\ refresh'[s] = "paired" => Paired(s)
  BY <1>1 DEF RowsInv, RowRight, flowVars
<1>q. QED
  BY <1>4, <1>5, <1>6, RowsRewritten

\* emitPeerStats writes rows of a pair that are there.
LEMMA StatsMoveRows ==
  ASSUME TypeOK, PairingInv, NEW p \in Session, Paired(p), console' = StatsRows(p)
  PROVE  \A s \in Session : RowMoves(s)
<1>1. \A s \in {EdgeEnd(p), TargetEnd(p)} \cap Session : Paired(s)
  BY SessionAssumption
     DEF EdgeEnd, TargetEnd, PairingInv, PairMatched, Paired, TypeOK, RegistryTypeOK
<1>q. QED
  BY <1>1 DEF StatsRows, RowMoves

\* A copy stops, the ticker reports, or a refresh reads or emits its status.
LEMMA RelayingRows ==
  ASSUME TypeOK, PairingInv, RowsInv, NEW p \in Session, Relaying(p) \/ Flusher(p)
  PROVE  RowsInv'
<1>1. UNCHANGED <<done, connOpen, peer, handler>>
  BY RelayingFrame DEF participantVars, registryVars
<1>2. SocketsMove
  BY <1>1 DEF SocketsMove
<1>3. \A s \in Session : \/ bridge'[s] = bridge[s]
                         \/ bridge[s] = "relaying" /\ bridge'[s] = "stopEdge"
  BY RelayingMoves
<1>4. \A s \in Session : peer[s] \in Session \cup {NoSession}
  BY DEF TypeOK, RegistryTypeOK
<1>5. ASSUME NEW s \in Session, BridgedPair(s) PROVE BridgedPair(s)'
  BY <1>1, <1>3, <1>4, <1>5 DEF BridgedPair, Paired
<1>6. \A s \in Session :
        \/ copies'[s] = copies[s] /\ bridge'[s] = bridge[s]
        \/ copies'[s] \subseteq copies[s] /\ bridge'[s] # "relaying"
  <2>1. ASSUME NEW role \in Role, CopyStops(p, role)
        PROVE  \A s \in Session :
                 \/ copies'[s] = copies[s] /\ bridge'[s] = bridge[s]
                 \/ copies'[s] \subseteq copies[s] /\ bridge'[s] # "relaying"
    BY <2>1 DEF CopyStops, TypeOK, ServerTypeOK
  <2>2. CASE EmitStats(p) \/ Flusher(p)
    <3>1. UNCHANGED <<copies, bridge>>
      BY <2>2 DEF EmitStats, Flusher, RefreshStatus, RefreshEmit, flowVars
    <3>q. QED
      BY <3>1
  <2>q. QED
    BY <2>1, <2>2 DEF Relaying, CopyEnds, CopyFails
<1>7. ASSUME NEW s \in Session PROVE BridgeOrdered(s)'
  <2>1. BridgeOrdered(s) /\ (bridge[s] # "none" => Paired(s) /\ peer[s] \in Session)
    BY <1>4 DEF RowsInv, PairingInv, BridgeElected, Paired
  <2>q. QED
    BY <1>1, <1>3, <1>6, <2>1 DEF BridgeOrdered, Reported, EdgeEnd, TargetEnd
<1>8. ASSUME NEW s \in Session PROVE RowMoves(s) /\ (refresh'[s] = "paired" => Paired(s))
  <2>1. refresh[s] = "paired" => Paired(s)
    BY DEF RowsInv, RowRight
  <2>2. CASE EmitStats(p)
    <3>1. Paired(p)
      BY <2>2 DEF EmitStats, PairingInv, BridgeElected
    <3>q. QED
      BY <2>1, <2>2, <3>1, StatsMoveRows DEF EmitStats, flowVars
  <2>3. ASSUME NEW role \in Role, CopyStops(p, role)
        PROVE  RowMoves(s) /\ (refresh'[s] = "paired" => Paired(s))
    BY <2>1, <2>3 DEF CopyStops, RowMoves
  <2>4. CASE RefreshStatus(p)
    BY <2>1, <2>4 DEF RefreshStatus, RowMoves, TypeOK, ServerTypeOK
  <2>5. CASE RefreshEmit(p)
    <3>1. /\ console'[s] = IF s = p THEN Refreshed(console[p], refresh[p]) ELSE console[s]
          /\ refresh'[s] = IF s = p THEN "none" ELSE refresh[s]
          /\ refresh[p] \in {"waiting", "paired"}
          /\ console[p] \in {"absent", "waiting", "paired", "stale"}
      BY <2>5 DEF RefreshEmit, TypeOK, ServerTypeOK, RefreshAt, ConsoleRow
    <3>2. CASE s = p
      BY <2>1, <3>1, <3>2 DEF RowMoves, Refreshed
    <3>q. QED
      BY <2>1, <3>1, <3>2 DEF RowMoves
  <2>q. QED
    BY <2>2, <2>3, <2>4, <2>5 DEF Relaying, CopyEnds, CopyFails, Flusher
<1>9. \A s \in Session : bridge'[s] = "relaying" => bridge[s] = "relaying"
  BY <1>3
<1>q. QED
  BY <1>1, <1>2, <1>5, <1>7, <1>8, <1>9, RowsRewritten

\* emitPeersPaired: both ends have reported, so no report follows it.
LEMMA EmitPairedRows ==
  ASSUME TypeOK, PairingInv, RowsInv, NEW p \in Session, EmitPaired(p)
  PROVE  RowsInv'
<1>1. /\ bridge[p] = "greeted"
      /\ \A s \in Session : bridge'[s] = IF s = p THEN "relaying" ELSE bridge[s]
      /\ \A s \in Session : copies'[s] = IF s = p THEN Role ELSE copies[s]
      /\ UNCHANGED <<peer, handler, done, connOpen, refresh>>
  BY DEF EmitPaired, BridgeStep, TypeOK, ServerTypeOK, participantVars, registryVars
<1>2. \A s \in Session : /\ peer[s] \in Session \cup {NoSession}
                         /\ bridge[s] # "none" => Paired(s) /\ peer[s] \in Session
                         /\ Paired(s) => peer[peer[s]] = s
  BY DEF TypeOK, RegistryTypeOK, PairingInv, BridgeElected, PairMatched, Paired
<1>3. Reported(p) /\ Reported(peer[p]) /\ Paired(p) /\ peer[p] \in Session
  BY <1>1, <1>2 DEF RowsInv, BridgeOrdered
<1>4. \A s \in Session :
        console'[s] = IF s \in {p, peer[p]} THEN "paired" ELSE console[s]
  BY <1>3 DEF EmitPaired, EdgeEnd, TargetEnd, TypeOK, ServerTypeOK
<1>5. ASSUME NEW s \in Session PROVE BridgeOrdered(s)'
  BY <1>1, <1>2, <1>3, <1>5
     DEF RowsInv, BridgeOrdered, Reported, EdgeEnd, TargetEnd
<1>6. ASSUME NEW s \in Session PROVE RowRight(s)'
  <2>0. RowRight(s)
    BY DEF RowsInv
  <2>1. CASE s \in {p, peer[p]}
    <3>1. BridgedPair(s)'
      BY <1>1, <1>2, <1>3, <2>1, SessionAssumption DEF BridgedPair, Paired
    <3>2. Reported(s)
      BY <1>3, <2>1
    <3>q. QED
      BY <1>1, <1>4, <2>1, <3>1, <3>2 DEF RowRight, Reported, BridgedPair
  <2>2. CASE s \notin {p, peer[p]}
    <3>1. BridgedPair(s) => BridgedPair(s)'
      BY <1>1, <1>2 DEF BridgedPair, Paired
    <3>2. Paired(s) => peer[s] \in Session \ {p}
      BY <1>2, <2>2 DEF Paired
    <3>3. Paired(s) /\ "relaying" \in {bridge'[s], bridge'[peer[s]]} =>
            "relaying" \in {bridge[s], bridge[peer[s]]}
      BY <1>1, <2>2, <3>2
    <3>q. QED
      BY <1>1, <1>4, <2>0, <2>2, <3>1, <3>3 DEF RowRight, Reported, Paired
  <2>q. QED
    BY <2>1, <2>2
<1>7. ASSUME NEW s \in Session PROVE SocketClosed(s)'
  BY <1>1 DEF RowsInv, SocketClosed
<1>q. QED
  BY <1>5, <1>6, <1>7 DEF RowsInv

\* The session that completes the pair is elected; neither end has a paired row.
LEMMA EnqueueRows ==
  ASSUME TypeOK, PairingInv, RowsInv, NEW p \in Session, Enqueue(p)
  PROVE  RowsInv'
<1>1. /\ handler[p] = "grouped"
      /\ \A s \in Session : handler'[s] = IF s = p THEN "queued" ELSE handler[s]
      /\ UNCHANGED <<done, connOpen, console, flowVars>>
  BY DEF Enqueue, HandlerStep, TypeOK, ServerTypeOK, participantVars
<1>2. /\ \A s \in Session : HandlerPasses(s)
      /\ SocketsMove
  BY <1>1 DEF HandlerPasses, SocketsMove, Reported
<1>3. \A s \in Session : /\ peer[s] \in Session \cup {NoSession}
                         /\ bridge[s] # "none" => Paired(s)
                         /\ Paired(s) => peer[peer[s]] = s /\ ~Early(s)
  BY DEF TypeOK, RegistryTypeOK, PairingInv, BridgeElected, PairMatched, Paired
<1>4. CASE JoinWaits(p) /\ UNCHANGED bridge
  BY <1>1, <1>2, <1>4, RowsKept DEF JoinWaits
<1>5. ASSUME NEW q \in Session, JoinPairs(p, q), bridge' = [bridge EXCEPT ![p] = "elected"]
      PROVE  RowsInv'
  <2>1. /\ q # p /\ ~Paired(p) /\ ~Paired(q) /\ bridge[p] = "none" /\ bridge[q] = "none"
        /\ \A s \in Session :
             peer'[s] = IF s = p THEN q ELSE IF s = q THEN p ELSE peer[s]
    <3>1. RegistryTypeOK
      BY DEF TypeOK
    <3>2. /\ q \in waiting[RouteOf[p]][Opposite(RoleOf[p])]
          /\ peer' = [peer EXCEPT ![p] = q, ![q] = p]
      BY <1>5, <3>1, JoinPairsEffect DEF JoinPairs
    <3>3. RouteOf[p] \in Route /\ Opposite(RoleOf[p]) \in Role
      BY RolesAndRoutes DEF Opposite, Role
    <3>4. ~Paired(q) /\ handler[q] # "grouped"
      BY <3>2, <3>3 DEF PairingInv, QueuedRightly
    <3>5. ~Paired(p)
      BY <1>1, <1>3 DEF Early
    <3>q. QED
      BY <1>1, <1>3, <3>2, <3>4, <3>5 DEF TypeOK, RegistryTypeOK
  <2>2. \A s \in Session : bridge'[s] = IF s = p THEN "elected" ELSE bridge[s]
    BY <1>5 DEF TypeOK, ServerTypeOK
  <2>3. ASSUME NEW s \in Session \ {p, q}
        PROVE  /\ Paired(s)' <=> Paired(s)
               /\ peer'[s] = peer[s] /\ bridge'[s] = bridge[s]
               /\ Paired(s) => peer[s] \in Session \ {p, q}
                                 /\ bridge'[peer[s]] = bridge[peer[s]]
    BY <1>3, <2>1, <2>2, SessionAssumption DEF Paired
  <2>4. \A s \in Session : Reported(s)' <=> Reported(s)
    BY <1>1 DEF Reported
  <2>5. ASSUME NEW s \in Session PROVE BridgeOrdered(s)'
    <3>1. CASE s = p
      BY <1>1, <2>1, <2>2, <3>1 DEF RowsInv, BridgeOrdered, flowVars
    <3>2. CASE s = q
      BY <1>1, <2>1, <2>2, <3>2 DEF RowsInv, BridgeOrdered, flowVars
    <3>3. CASE s \notin {p, q}
      <4>1. bridge[s] = "none" \/ Paired(s)
        BY <1>3
      <4>q. QED
        BY <1>1, <2>3, <2>4, <3>3, <4>1
           DEF RowsInv, BridgeOrdered, EdgeEnd, TargetEnd, flowVars
    <3>q. QED
      BY <3>1, <3>2, <3>3
  <2>6. ASSUME NEW s \in Session PROVE RowRight(s)'
    <3>0. RowRight(s)
      BY DEF RowsInv
    <3>1. CASE s = p
      <4>1. ~Reported(p) /\ console[p] = "absent" /\ handler'[p] = "queued"
        BY <1>1, <3>0, <3>1 DEF RowRight, Reported
      <4>2. bridge'[p] = "elected" /\ bridge'[peer'[p]] = "none"
        BY <2>1, <2>2
      <4>q. QED
        BY <1>1, <2>1, <2>4, <3>1, <4>1, <4>2, SessionAssumption
           DEF RowRight, Paired
    <3>2. CASE s = q
      <4>1. /\ console[q] \notin {"paired", "stale"} /\ handler'[q] = handler[q]
            /\ handler[q] = "gone" => console[q] = "absent"
        BY <1>1, <2>1, <3>0, <3>2 DEF RowRight, BridgedPair
      <4>2. bridge'[q] = "none" /\ bridge'[peer'[q]] = "elected"
        BY <2>1, <2>2
      <4>q. QED
        BY <1>1, <2>1, <2>4, <3>0, <3>2, <4>1, <4>2, SessionAssumption
           DEF RowRight, Paired
    <3>3. CASE s \notin {p, q}
      <4>1. BridgedPair(s)' <=> BridgedPair(s)
        BY <2>3, <3>3 DEF BridgedPair
      <4>q. QED
        BY <1>1, <2>3, <2>4, <3>0, <3>3, <4>1 DEF RowRight, flowVars
    <3>q. QED
      BY <3>1, <3>2, <3>3
  <2>7. ASSUME NEW s \in Session PROVE SocketClosed(s)'
    BY <1>2 DEF RowsInv, SocketClosed, SocketsMove
  <2>q. QED
    BY <2>5, <2>6, <2>7 DEF RowsInv
<1>q. QED
  BY <1>4, <1>5 DEF Enqueue

\* The report: the pair's bridge waits for it, so it has not written the row yet.
LEMMA ReportRows ==
  ASSUME TypeOK, PairingInv, RowsInv, NEW p \in Session, Report(p)
  PROVE  RowsInv'
<1>1. /\ handler[p] = "tracked"
      /\ \A s \in Session : handler'[s] = IF s = p THEN "await" ELSE handler[s]
      /\ \A s \in Session : console'[s] = IF s = p THEN "waiting" ELSE console[s]
      /\ \A s \in Session :
           bridge'[s] = IF s = p /\ bridge[p] = "elected" THEN "starting" ELSE bridge[s]
      /\ UNCHANGED <<peer, done, connOpen, copies, refresh>>
  BY DEF Report, flowVars, HandlerStep, TypeOK, ServerTypeOK, participantVars, registryVars
<1>2. \A s \in Session : /\ peer[s] \in Session \cup {NoSession}
                         /\ bridge[s] # "none" => Paired(s) /\ peer[s] \in Session
                         /\ Paired(s) => peer[peer[s]] = s
  BY DEF TypeOK, RegistryTypeOK, PairingInv, BridgeElected, PairMatched, Paired
<1>3. ~Reported(p) /\ \A s \in Session : Reported(s)' <=> Reported(s) \/ s = p
  BY <1>1 DEF Reported
<1>4. ASSUME NEW s \in Session PROVE BridgeOrdered(s)'
  BY <1>1, <1>2, <1>3, <1>4 DEF RowsInv, BridgeOrdered, EdgeEnd, TargetEnd
<1>5. ASSUME NEW s \in Session PROVE RowRight(s)'
  <2>0. RowRight(s)
    BY DEF RowsInv
  <2>1. CASE s = p
    <3>1. bridge[p] # "relaying"
      BY <1>3 DEF RowsInv, BridgeOrdered
    <3>2. Paired(p) => bridge[peer[p]] # "relaying"
      BY <1>2, <1>3 DEF RowsInv, BridgeOrdered, Paired
    <3>3. Paired(p) => bridge'[p] # "relaying" /\ bridge'[peer[p]] # "relaying"
      BY <1>1, <1>2, <3>1, <3>2 DEF Paired
    <3>q. QED
      BY <1>1, <1>3, <2>0, <2>1, <3>3 DEF RowRight, Paired
  <2>2. CASE s # p
    <3>1. BridgedPair(s) => BridgedPair(s)'
      BY <1>1, <1>2 DEF BridgedPair, Paired
    <3>2. Paired(s) /\ "relaying" \in {bridge'[s], bridge'[peer[s]]} =>
            "relaying" \in {bridge[s], bridge[peer[s]]}
      BY <1>1, <1>2 DEF Paired
    <3>q. QED
      BY <1>1, <1>3, <2>0, <2>2, <3>1, <3>2 DEF RowRight, Paired
  <2>q. QED
    BY <2>1, <2>2
<1>6. ASSUME NEW s \in Session PROVE SocketClosed(s)'
  BY <1>1 DEF RowsInv, SocketClosed
<1>q. QED
  BY <1>4, <1>5, <1>6 DEF RowsInv

\* The handler returns: it removes the row and closes the session.
LEMMA DisconnectedRows ==
  ASSUME TypeOK, PairingInv, RowsInv, NEW p \in Session, EmitDisconnected(p)
  PROVE  RowsInv'
<1>1. /\ handler[p] = "left"
      /\ \A s \in Session : handler'[s] = IF s = p THEN "gone" ELSE handler[s]
      /\ \A s \in Session : console'[s] = IF s = p THEN "absent" ELSE console[s]
      /\ UNCHANGED <<peer, bridge, copies, refresh>>
      /\ CloseWith(p, "normal")
  BY DEF EmitDisconnected, flowVars, HandlerStep, TypeOK, ServerTypeOK, registryVars
<1>2. /\ \A s \in Session : done[s] => done'[s]
      /\ \A s \in Session :
           (connOpen'[s] = connOpen[s] /\ done'[s] = done[s]) \/ ~connOpen'[s]
      /\ ~connOpen'[p]
  BY <1>1, CloseShuts
<1>3. \A s \in Session : bridge[s] # "none" => Paired(s) /\ peer[s] \in Session
  BY DEF TypeOK, RegistryTypeOK, PairingInv, BridgeElected, Paired
<1>4. \A s \in Session : Reported(s)' <=> Reported(s)
  BY <1>1 DEF Reported
<1>5. ASSUME NEW s \in Session PROVE BridgeOrdered(s)'
  BY <1>1, <1>2, <1>3, <1>4, <1>5 DEF RowsInv, BridgeOrdered, EdgeEnd, TargetEnd
<1>6. ASSUME NEW s \in Session PROVE RowRight(s)'
  BY <1>1, <1>4, <1>6 DEF RowsInv, RowRight, BridgedPair, Paired
<1>7. ASSUME NEW s \in Session PROVE SocketClosed(s)'
  BY <1>1, <1>2 DEF RowsInv, SocketClosed
<1>q. QED
  BY <1>5, <1>6, <1>7 DEF RowsInv


-----------------------------------------------------------------------------
(***************************************************************************)
(* Every step keeps RowsInv, actor by actor.                               *)
(***************************************************************************)

\* A step of p's handler that reports nothing and, unless it is refused, stays.
LEMMA PassingRows ==
  ASSUME TypeOK, PairingInv, RowsInv, NEW p \in Session, NEW from, NEW to,
         HandlerStep(p, from, to),
         UNCHANGED <<peer, bridge, console, flowVars>>,
         \/ /\ from \in {"new", "hello"} /\ to \in {"hello", "grouped"}
            /\ ~done'[p]
         \/ /\ from \in {"new", "hello"} /\ to = "gone" /\ ~connOpen'[p]
         \/ /\ from = "queued" /\ to = "tracked"
         \/ /\ from \in {"await", "serving", "expired", "leaving", "dequeued"}
            /\ to \in {"serving", "expired", "leaving", "dequeued", "left"},
         \A s \in Session : done[s] => done'[s],
         \A s \in Session :
           \/ connOpen'[s] = connOpen[s] /\ done'[s] = done[s]
           \/ ~connOpen'[s]
           \/ s = p /\ ~done'[s] /\ to # "gone"
  PROVE  RowsInv'
<1>1. /\ handler[p] = from
      /\ \A s \in Session : handler'[s] = IF s = p THEN to ELSE handler[s]
  BY HandlerMove
<1>2. \A s \in Session : HandlerPasses(s)
  BY <1>1 DEF HandlerPasses, Reported
<1>3. SocketsMove
  BY <1>1 DEF SocketsMove
<1>q. QED
  BY <1>2, <1>3, RowsKept

LEMMA HandlerRows ==
  ASSUME TypeOK, PairingInv, RowsInv, NEW p \in Session, Handler(p) \/ Connect(p)
  PROVE  RowsInv'
<1>b. handler[p] \in {"new", "hello"} => ~done[p]
  BY DEF PairingInv, LifeOrdered
<1>1. CASE Connect(p)
  <2>1. \A s \in Session : connOpen'[s] = IF s = p THEN ~serverClosed ELSE connOpen[s]
    BY <1>1 DEF Connect, TypeOK, ParticipantTypeOK
  <2>2. HandlerStep(p, "new", IF serverClosed THEN "gone" ELSE "hello")
        /\ UNCHANGED <<done, peer, bridge, console, flowVars>> /\ ~done[p]
    BY <1>1, <1>b DEF Connect, HandlerStep, registryVars
  <2>3. CASE serverClosed
    BY <2>1, <2>2, <2>3, PassingRows
  <2>4. CASE ~serverClosed
    BY <2>1, <2>2, <2>4, PassingRows
  <2>q. QED
    BY <2>3, <2>4
<1>2. CASE FailHello(p)
  <2>1. \A s \in Session : connOpen'[s] = IF s = p THEN FALSE ELSE connOpen[s]
    BY <1>2 DEF FailHello, TypeOK, ParticipantTypeOK
  <2>q. QED
    BY <1>2, <2>1, PassingRows DEF FailHello, registryVars
<1>3. CASE EnterGroup(p)
  <2>1. HandlerStep(p, "hello", "grouped") /\ ~done[p]
        /\ UNCHANGED <<done, connOpen, peer, bridge, console, flowVars>>
    BY <1>3, <1>b DEF EnterGroup, HandlerStep, participantVars, registryVars
  <2>q. QED
    BY <2>1, PassingRows
<1>4. CASE RejectDuplicate(p)
  <2>1. HandlerStep(p, "hello", "gone") /\ CloseWith(p, "duplicate")
        /\ UNCHANGED <<peer, bridge, console, flowVars>>
    BY <1>4 DEF RejectDuplicate, registryVars
  <2>q. QED
    BY <2>1, CloseShuts, PassingRows
<1>5. CASE Enqueue(p)
  BY <1>5, EnqueueRows
<1>6. CASE Track(p)
  BY <1>6, PassingRows DEF Track, participantVars, registryVars
<1>7. CASE Report(p)
  BY <1>7, ReportRows
<1>8. CASE AwaitPaired(p) \/ AwaitDone(p) \/ ExitGroup(p)
  <2>1. /\ \E from \in {"await", "serving", "dequeued"},
             to \in {"serving", "leaving", "left"} : HandlerStep(p, from, to)
        /\ UNCHANGED <<done, connOpen, peer, bridge, console, flowVars>>
    BY <1>8 DEF AwaitPaired, AwaitDone, ExitGroup, participantVars, registryVars
  <2>q. QED
    BY <2>1, PassingRows
<1>9. CASE AwaitTimeout(p) \/ UntrackAndDequeue(p)
  <2>1. /\ \E from \in {"await", "leaving"},
             to \in {"serving", "expired", "dequeued"} : HandlerStep(p, from, to)
        /\ RemoveWaiting(p)
        /\ UNCHANGED <<done, connOpen, bridge, console, flowVars>>
    BY <1>9 DEF AwaitTimeout, UntrackAndDequeue, participantVars
  <2>2. peer' = peer
    BY <2>1, RemoveWaitingEffect DEF TypeOK
  <2>q. QED
    BY <2>1, <2>2, PassingRows
<1>10. CASE CloseExpired(p)
  <2>1. HandlerStep(p, "expired", "leaving") /\ CloseWith(p, "tryAgain")
        /\ UNCHANGED <<peer, bridge, console, flowVars>>
    BY <1>10 DEF CloseExpired, registryVars
  <2>q. QED
    BY <2>1, CloseShuts, PassingRows
<1>11. CASE EmitDisconnected(p)
  BY <1>11, DisconnectedRows
<1>q. QED
  BY <1>1, <1>2, <1>3, <1>4, <1>5, <1>6, <1>7, <1>8, <1>9, <1>10, <1>11 DEF Handler

\* A step of another goroutine that closes at most one session.
LEMMA OutsideRows ==
  ASSUME TypeOK, PairingInv, RowsInv,
         UNCHANGED <<handler, peer, bridge, console, flowVars>>,
         \/ UNCHANGED done /\ \A s \in Session : connOpen'[s] = connOpen[s] \/ ~connOpen'[s]
         \/ \E q \in Session, code \in CloseCode : CloseWith(q, code)
  PROVE  RowsInv'
<1>1. /\ \A s \in Session : done[s] => done'[s]
      /\ \A s \in Session :
           (connOpen'[s] = connOpen[s] /\ done'[s] = done[s]) \/ ~connOpen'[s]
  BY CloseShuts
<1>2. SocketsMove /\ \A s \in Session : HandlerPasses(s)
  BY <1>1 DEF SocketsMove, HandlerPasses
<1>q. QED
  BY <1>1, <1>2, RowsKept

LEMMA ReaderRows ==
  ASSUME TypeOK, PairingInv, RowsInv, NEW p \in Session,
         \/ Reader(p) \/ ReadNonBinary(p) \/ ReadEarly(p) \/ ReadFrame(p)
         \/ KeepAliveFails(p)
  PROVE  RowsInv'
<1>1. CASE ReadError(p) \/ ReadNonBinary(p) \/ CloseEarly(p) \/ KeepAliveFails(p)
  <2>1. /\ \E code \in {"normal", "policy"} : CloseWith(p, code)
        /\ UNCHANGED <<handler, peer, bridge, console, flowVars>>
    BY <1>1
       DEF ReadError, ReadNonBinary, CloseEarly, KeepAliveFails, Abort, serverVars,
           registryVars
  <2>q. QED
    BY <2>1, OutsideRows DEF CloseCode
<1>2. CASE ReadEarly(p) \/ ReadFrame(p) \/ OfferTaken(p) \/ OfferAborted(p)
  <2>1. UNCHANGED <<done, connOpen, handler, peer, bridge, console, flowVars>>
    BY <1>2
       DEF ReadEarly, ReadFrame, OfferTaken, OfferAborted, participantVars,
           registryVars
  <2>q. QED
    BY <2>1, OutsideRows
<1>3. CASE ReaderExit(p)
  <2>1. UNCHANGED <<done, connOpen, handler, bridge, console, flowVars>> /\ peer' = peer
    BY <1>3, RemoveWaitingEffect DEF ReaderExit, participantVars, TypeOK
  <2>q. QED
    BY <2>1, OutsideRows
<1>q. QED
  BY <1>1, <1>2, <1>3 DEF Reader

LEMMA BridgeRows ==
  ASSUME TypeOK, PairingInv, RowsInv, NEW p \in Session, Bridge(p)
  PROVE  RowsInv'
<1>1. bridge[p] # "none" =>
        /\ Paired(p) /\ peer[p] \in Session
        /\ EdgeEnd(p) \in Session /\ TargetEnd(p) \in Session
  BY DEF TypeOK, RegistryTypeOK, PairingInv, BridgeElected, Paired, EdgeEnd, TargetEnd
<1>2. bridge[p] \notin {"none", "elected", "starting"} => Reported(peer[p])
  BY DEF RowsInv, BridgeOrdered
<1>m. console' = console => \A s \in Session : RowMoves(s)
  BY DEF RowMoves
<1>3. CASE BridgeStart(p)
  <2>1. Reported(peer[p])
    BY <1>3 DEF BridgeStart, EdgeEnd, TargetEnd
  <2>2. BridgeStep(p, "starting", "greetEdge")
        /\ UNCHANGED <<done, connOpen, peer, handler, console, flowVars>>
    BY <1>3 DEF BridgeStart, participantVars, registryVars
  <2>3. SocketsMove
    BY <2>2 DEF SocketsMove
  <2>q. QED
    BY <1>m, <2>1, <2>2, <2>3, BridgeMovesOn
<1>4. CASE GreetEdge(p) \/ GreetTarget(p) \/ GreetFails(p)
  <2>1. PICK from \in {"greetEdge", "greetTarget"},
             to \in {"greetTarget", "greeted", "closeEdge"} :
          BridgeStep(p, from, to)
    BY <1>4 DEF GreetEdge, GreetTarget, GreetFails
  <2>2. UNCHANGED <<done, connOpen, peer, handler, console, flowVars>>
    BY <1>4 DEF GreetEdge, GreetTarget, GreetFails, participantVars, registryVars
  <2>3. SocketsMove /\ Reported(peer[p])
    BY <1>2, <2>1, <2>2 DEF SocketsMove, BridgeStep
  <2>q. QED
    BY <1>m, <2>1, <2>2, <2>3, BridgeMovesOn
<1>5. CASE EmitPaired(p)
  BY <1>5, EmitPairedRows
<1>6. CASE CloseEdgeEnd(p)
  <2>1. /\ \/ BridgeStep(p, "closeEdge", "closeTarget")
           \/ BridgeStep(p, "stopEdge", "stopTarget")
        /\ CloseWith(EdgeEnd(p), "normal") /\ EdgeEnd(p) \in Session
        /\ UNCHANGED <<peer, handler, console, flowVars>> /\ Reported(peer[p])
    BY <1>1, <1>2, <1>6 DEF CloseEdgeEnd, BridgeStep, registryVars
  <2>2. /\ \A s \in Session : done[s] => done'[s]
        /\ SocketsMove /\ done'[EdgeEnd(p)]
    BY <2>1, CloseShuts DEF SocketsMove
  <2>3. CASE BridgeStep(p, "closeEdge", "closeTarget")
    BY <1>m, <2>1, <2>2, <2>3, BridgeMovesOn
  <2>4. CASE BridgeStep(p, "stopEdge", "stopTarget")
    BY <1>m, <2>1, <2>2, <2>4, BridgeMovesOn
  <2>q. QED
    BY <2>1, <2>3, <2>4
<1>7. CASE CloseTargetEnd(p)
  <2>1. /\ \/ BridgeStep(p, "closeTarget", "ended")
           \/ BridgeStep(p, "stopTarget", "joining")
        /\ CloseWith(TargetEnd(p), "normal")
        /\ TargetEnd(p) \in Session /\ EdgeEnd(p) \in Session
        /\ UNCHANGED <<peer, handler, console, flowVars>> /\ Reported(peer[p])
    BY <1>1, <1>2, <1>7 DEF CloseTargetEnd, BridgeStep, registryVars
  <2>2. done[EdgeEnd(p)]
    BY <2>1 DEF RowsInv, BridgeOrdered, BridgeStep
  <2>3. /\ \A s \in Session : done[s] => done'[s]
        /\ SocketsMove /\ done'[TargetEnd(p)]
    BY <2>1, CloseShuts DEF SocketsMove
  <2>4. CASE BridgeStep(p, "closeTarget", "ended")
    BY <1>m, <2>1, <2>2, <2>3, <2>4, BridgeMovesOn
  <2>5. CASE BridgeStep(p, "stopTarget", "joining")
    BY <1>m, <2>1, <2>2, <2>3, <2>5, BridgeMovesOn
  <2>q. QED
    BY <2>1, <2>4, <2>5
<1>8. CASE BridgeEnds(p)
  <2>1. /\ BridgeStep(p, "joining", "ended") /\ bridge[p] = "joining"
        /\ copies[p] = {}
        /\ UNCHANGED <<done, connOpen, peer, handler, flowVars>>
    BY <1>8 DEF BridgeEnds, BridgeStep, participantVars, registryVars
  <2>2. /\ done[EdgeEnd(p)] /\ done[TargetEnd(p)] /\ Reported(peer[p])
        /\ SocketsMove
    BY <1>2, <2>1 DEF RowsInv, BridgeOrdered, SocketsMove
  <2>3. \A s \in Session : RowMoves(s)
    BY <1>1, <1>m, <1>8, <2>1, StatsMoveRows DEF BridgeEnds
  <2>q. QED
    BY <2>1, <2>2, <2>3, BridgeMovesOn
<1>q. QED
  BY <1>3, <1>4, <1>5, <1>6, <1>7, <1>8 DEF Bridge

LEMMA KickRows ==
  ASSUME TypeOK, PairingInv, RowsInv,
         \/ Kicker \/ Shutdown \/ UNCHANGED vars
         \/ \E p \in Session : KickLookup(p) \/ Break(p)
  PROVE  RowsInv'
<1>1. UNCHANGED <<handler, peer, bridge, console, flowVars>>
  BY DEF Kicker, KickArmCode, KickArmText, KickClose, KickLookup, KickStep, Break,
         Shutdown, serverVars, registryVars, vars
<1>2. CASE KickClose
  <2>1. kick.session \in Session /\ CloseWith(kick.session, "kicked")
    BY <1>2 DEF KickClose, KickStep, PairingInv
  <2>q. QED
    BY <1>1, <2>1, OutsideRows DEF CloseCode
<1>3. CASE ~KickClose
  <2>1. UNCHANGED done
    BY <1>3
       DEF Kicker, KickArmCode, KickArmText, ArmCode, ArmText, KickLookup, Break,
           BreakConnection, Shutdown, participantVars, vars
  <2>2. ASSUME NEW s \in Session PROVE connOpen'[s] = connOpen[s] \/ ~connOpen'[s]
    BY <1>3
       DEF Kicker, KickArmCode, KickArmText, ArmCode, ArmText, KickLookup, Break,
           BreakConnection, Shutdown, participantVars, vars, TypeOK,
           ParticipantTypeOK
  <2>q. QED
    BY <1>1, <2>1, <2>2, OutsideRows
<1>q. QED
  BY <1>2, <1>3

LEMMA RowsInit ==
  Init => RowsInv
<1> SUFFICES ASSUME Init, NEW s \in Session
             PROVE  BridgeOrdered(s) /\ RowRight(s) /\ SocketClosed(s)
  BY DEF RowsInv
<1>1. /\ handler[s] = "new" /\ bridge[s] = "none" /\ console[s] = "absent"
      /\ ~connOpen[s] /\ ~Paired(s)
  BY DEF Init, ParticipantInit, RegistryInit, Paired
<1>q. QED
  BY <1>1 DEF BridgeOrdered, RowRight, SocketClosed, Reported, Init

LEMMA RowsStep ==
  TypeOK /\ PairingInv /\ RowsInv /\ [Next]_vars => RowsInv'
<1> SUFFICES ASSUME TypeOK, PairingInv, RowsInv, [Next]_vars PROVE RowsInv'
  OBVIOUS
<1>1. ASSUME NEW p \in Session, Handler(p) \/ Connect(p) PROVE RowsInv'
  BY <1>1, HandlerRows
<1>2. ASSUME NEW p \in Session,
             \/ Reader(p) \/ ReadNonBinary(p) \/ ReadEarly(p) \/ ReadFrame(p)
             \/ KeepAliveFails(p)
      PROVE  RowsInv'
  BY <1>2, ReaderRows
<1>3. ASSUME NEW p \in Session, Bridge(p) \/ Relaying(p) \/ Flusher(p)
      PROVE  RowsInv'
  BY <1>3, BridgeRows, RelayingRows
<1>4. CASE \/ Kicker \/ Shutdown \/ UNCHANGED vars
           \/ \E p \in Session : KickLookup(p) \/ Break(p)
  BY <1>4, KickRows
<1>q. QED
  BY <1>1, <1>2, <1>3, <1>4 DEF Next, Finished

\* A bridge starts after both reports and returns with both ends closed and both
\* copies ended.  A row is there from the report on, and while its bridge relays
\* it is the one the pairing wrote, which nothing but a refresh that read its
\* status before may turn back.  No socket outlives its session.  With the groups
\* and the pairs this is the whole relay's invariant.
THEOREM RelayInvCorrect == Spec => []RelayInv
<1>1. TypeOK /\ GroupInv /\ PairingInv /\ RowsInv => RelayInv
  BY DEF RelayInv, RowsInv
<1>q. QED
  BY <1>1, RowsInit, RowsStep, TypeCorrect, GroupsCorrect, PairingCorrect, PTL DEF Spec

=============================================================================
