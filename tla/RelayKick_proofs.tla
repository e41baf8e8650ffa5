-------------------------- MODULE RelayKick_proofs --------------------------
(***************************************************************************)
(* Close reasons: a code that armClose published stays, and whoever closes *)
(* the session first sends it.                                             *)
(***************************************************************************)
EXTENDS RelayServer_proofs

ArmingKept ==
  \A p \in Session :
    armedCode[p] # "none" =>
      /\ armedCode'[p] = armedCode[p]
      /\ ~done[p] /\ done'[p] => frame'[p].code = armedCode[p]

LEMMA CloseKeepsArming ==
  ASSUME ParticipantTypeOK, NEW p, NEW code, CloseWith(p, code)
  PROVE  ArmingKept
BY DEF ParticipantTypeOK, CloseWith, ClosingFrame, ArmingKept

LEMMA ServerKeepsArming ==
  ASSUME TypeOK, Next
  PROVE  ArmingKept
<1>1. ParticipantTypeOK
  BY DEF TypeOK
<1>2. ASSUME UNCHANGED <<done, armedCode>> PROVE ArmingKept
  BY <1>2 DEF ArmingKept
<1>3. ASSUME NEW p \in Session, Handler(p) \/ Connect(p) PROVE ArmingKept
  BY <1>1, <1>2, <1>3, CloseKeepsArming
     DEF Handler, Connect, FailHello, EnterGroup, RejectDuplicate, Enqueue,
         Track, Report, AwaitPaired, AwaitDone, AwaitTimeout, CloseExpired,
         UntrackAndDequeue, ExitGroup, EmitDisconnected, participantVars
<1>4. ASSUME NEW p \in Session,
             \/ Reader(p) \/ ReadNonBinary(p) \/ ReadEarly(p) \/ ReadFrame(p)
             \/ KeepAliveFails(p)
      PROVE  ArmingKept
  BY <1>1, <1>2, <1>4, CloseKeepsArming
     DEF Reader, ReadError, CloseEarly, OfferTaken, OfferAborted, ReaderExit,
         ReadNonBinary, ReadEarly, ReadFrame, KeepAliveFails, Abort,
         participantVars
<1>5. ASSUME NEW p \in Session, Bridge(p) \/ Relaying(p) \/ Flusher(p)
      PROVE  ArmingKept
  BY <1>1, <1>2, <1>5, CloseKeepsArming, RelayingFrame
     DEF Bridge, BridgeStart, GreetEdge, GreetTarget, GreetFails, EmitPaired,
         BridgeEnds, CloseEdgeEnd, CloseTargetEnd, participantVars
<1>6. CASE KickArmCode
  BY <1>1, <1>2, <1>6
     DEF KickArmCode, ArmCode, ParticipantTypeOK, ArmingKept,
         participantVars
<1>7. CASE KickClose
  BY <1>1, <1>7, CloseKeepsArming DEF KickClose
<1>8. CASE KickArmText \/ Shutdown \/ Finished
           \/ \E p \in Session : KickLookup(p) \/ Break(p)
  BY <1>2, <1>8
     DEF KickArmText, ArmText, Shutdown, Finished, vars, KickLookup, Break,
         BreakConnection, participantVars
<1>q. QED
  BY <1>3, <1>4, <1>5, <1>6, <1>7, <1>8 DEF Next, Kicker

-----------------------------------------------------------------------------
(***************************************************************************)
(* The administrator's call.                                               *)
(***************************************************************************)
KickArmed ==
  /\ \A p \in Session : armedCode[p] \in {"none", "kicked"}
  /\ kick.at # "idle" => kick.session \in Session
  /\ kick.at \in {"text", "close"} => armedCode[kick.session] = "kicked"

\* A step of a session's own goroutines arms nothing and leaves the call alone.
LEMMA SessionArmsNothing ==
  ASSUME NEW p \in Session,
         \/ Handler(p) \/ Connect(p) \/ Reader(p) \/ ReadNonBinary(p)
         \/ ReadEarly(p) \/ ReadFrame(p) \/ KeepAliveFails(p)
         \/ Bridge(p) \/ Relaying(p) \/ Flusher(p) \/ Break(p)
  PROVE  armedCode' = armedCode /\ kick' = kick
<1>1. ASSUME NEW q, NEW code, CloseWith(q, code) PROVE armedCode' = armedCode
  BY <1>1 DEF CloseWith
<1>2. CASE Handler(p) \/ Connect(p)
  BY <1>1, <1>2
     DEF Handler, Connect, FailHello, EnterGroup, RejectDuplicate, Enqueue,
         Track, Report, AwaitPaired, AwaitDone, AwaitTimeout, CloseExpired,
         UntrackAndDequeue, ExitGroup, EmitDisconnected, participantVars
<1>3. CASE \/ Reader(p) \/ ReadNonBinary(p) \/ ReadEarly(p) \/ ReadFrame(p)
           \/ KeepAliveFails(p)
  BY <1>1, <1>3
     DEF Reader, ReadError, CloseEarly, OfferTaken, OfferAborted, ReaderExit,
         ReadNonBinary, ReadEarly, ReadFrame, KeepAliveFails, Abort,
         participantVars, serverVars
<1>4. CASE Bridge(p) \/ Relaying(p) \/ Flusher(p) \/ Break(p)
  BY <1>1, <1>4, RelayingFrame
     DEF Bridge, BridgeStart, GreetEdge, GreetTarget, GreetFails, EmitPaired,
         BridgeEnds, CloseEdgeEnd, CloseTargetEnd, Break,
         BreakConnection, participantVars, serverVars
<1>q. QED
  BY <1>2, <1>3, <1>4

LEMMA KickArmedStep ==
  ASSUME TypeOK, KickArmed, [Next]_vars
  PROVE  KickArmed'
<1>1. ParticipantTypeOK /\ ServerTypeOK
  BY DEF TypeOK
<1>2. CASE armedCode' = armedCode /\ kick' = kick
  BY <1>2 DEF KickArmed
<1>3. ASSUME NEW p \in Session, KickLookup(p) PROVE KickArmed'
  BY <1>3 DEF KickLookup, KickStep, KickArmed, participantVars
<1>4. CASE KickArmCode
  <2>1. kick.session \in Session /\ kick'.session = kick.session
    BY <1>4 DEF KickArmCode, KickStep, KickArmed
  <2>q. QED
    BY <1>1, <1>4, <2>1
       DEF KickArmCode, ArmCode, KickStep, KickArmed, ParticipantTypeOK,
           participantVars
<1>5. CASE KickArmText
  BY <1>5 DEF KickArmText, KickStep, ArmText, KickArmed
<1>6. CASE KickClose
  BY <1>6 DEF KickClose, KickStep, CloseWith, KickArmed
<1>7. CASE Shutdown \/ Finished \/ UNCHANGED vars
  BY <1>2, <1>7 DEF Shutdown, Finished, vars, participantVars, serverVars
<1>q. QED
  BY <1>2, <1>3, <1>4, <1>5, <1>6, <1>7, SessionArmsNothing DEF Next, Kicker

\* A session armed by DisconnectPeer while it lived ends with the kick's code,
\* whichever of its goroutines, its bridge or the call itself closes it.
THEOREM KickCodeDeliveredCorrect == Spec => KickCodeDelivered
<1> DEFINE Delivered ==
      \A p \in Session :
        /\ kick.at \in {"text", "close"} /\ kick.session = p
        /\ ~done[p] /\ done'[p]
        => frame'[p].code = "kicked"
<1>1. Init => KickArmed
  BY DEF Init, ParticipantInit, KickArmed
<1>2. TypeOK /\ KickArmed /\ [Next]_vars => [Delivered]_vars
  BY ServerKeepsArming DEF KickArmed, ArmingKept
<1>3. TypeOK /\ KickArmed /\ [Next]_vars => KickArmed'
  BY KickArmedStep
<1>q. QED
  BY <1>1, <1>2, <1>3, TypedInit, TypedStep, PTL DEF Spec, KickCodeDelivered

=============================================================================
