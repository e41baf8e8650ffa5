-------------------------- MODULE RelayParticipant --------------------------
(***************************************************************************)
(* One relay participant: the WebSocket session of one Target or Edge      *)
(* connection (internal/relay/registry.go, type participant), with the     *)
(* single way it ends, closeWith.                                          *)
(*                                                                         *)
(* A session is admitted once and ends once: a client that reconnects is a *)
(* new participant with a new id, hence another member of Session.  What a *)
(* session is (its role, the route of the token value it presented, the    *)
(* token that owns the route, the process instance it reports) does not    *)
(* change while it lives, so these are functions given as constants.       *)
(***************************************************************************)

CONSTANTS
  Session,      \* participants, one per accepted WebSocket
  Route,        \* opaque route keys, one per token value
  Token,        \* token ids
  Instance,     \* random ids of target processes
  NoSession,    \* "no peer": the nil of peer atomic.Pointer
  NoInstance,   \* the empty instance of a client that reports none
  RoleOf,       \* RoleOf[p]: "edge" or "target"
  RouteOf,      \* RouteOf[p]: the route of p's hello
  TokenOf,      \* TokenOf[r]: the token id a route's value belongs to
  InstanceOf    \* InstanceOf[p]: the instance in p's relay metadata

Role == {"edge", "target"}

ASSUME SessionAssumption ==
  /\ NoSession \notin Session
  /\ NoInstance \notin Instance
  /\ RoleOf \in [Session -> Role]
  /\ RouteOf \in [Session -> Route]
  /\ TokenOf \in [Route -> Token]
  /\ InstanceOf \in [Session -> Instance \cup {NoInstance}]

(***************************************************************************)
(* Close codes: "normal" is 1000, and also the 0 of abort(), which only    *)
(* suppresses the close frame; "policy" 1008, "tryAgain" 1013, the         *)
(* application codes "kicked" 4401, "disabled" 4403 and "duplicate" 4409;  *)
(* "none" stands for no code yet.  A text is named by the code it is       *)
(* passed with; that of close() and abort() is empty.                      *)
(***************************************************************************)
CloseCode == {"normal", "policy", "tryAgain", "kicked", "disabled", "duplicate"}
MaybeCode == CloseCode \cup {"none"}

VARIABLES
  done,       \* done[p]: the done channel is closed
  connOpen,   \* connOpen[p]: the WebSocket is usable
  armedCode,  \* armedCode[p]: the code armClose won with, or "none"
  armedText,  \* armedText[p]: the text armClose stored, or "none"
  frame       \* frame[p]: the close frame closeWith decided to send

participantVars == <<done, connOpen, armedCode, armedText, frame>>

NoFrame == [code |-> "none", text |-> "none"]

ParticipantTypeOK ==
  /\ done \in [Session -> BOOLEAN]
  /\ connOpen \in [Session -> BOOLEAN]
  /\ armedCode \in [Session -> MaybeCode]
  /\ armedText \in [Session -> MaybeCode]
  /\ frame \in [Session -> [code : MaybeCode, text : MaybeCode]]

ParticipantInit ==
  /\ done = [p \in Session |-> FALSE]
  /\ connOpen = [p \in Session |-> FALSE]
  /\ armedCode = [p \in Session |-> "none"]
  /\ armedText = [p \in Session |-> "none"]
  /\ frame = [p \in Session |-> NoFrame]

-----------------------------------------------------------------------------
\* Mutant: the caller's code wins over the armed one.
CallersFrame(p, code) ==
  [code |-> code,
   text |-> IF armedText[p] = "none" THEN code ELSE armedText[p]]

(***************************************************************************)
(* closeWith(code, reason): the first caller decides the frame, closes     *)
(* done and the socket; later callers do nothing (sync.Once).  An armed    *)
(* code overrides the caller's; an armed text overrides its reason.        *)
(***************************************************************************)
ClosingFrame(p, code) ==
  [code |-> IF armedCode[p] = "none" THEN code ELSE armedCode[p],
   text |-> IF armedCode[p] = "none" \/ armedText[p] = "none"
              THEN code ELSE armedText[p]]

CloseWith(p, code) ==
  /\ IF done[p]
       THEN UNCHANGED <<done, connOpen, frame>>
       ELSE /\ done' = [done EXCEPT ![p] = TRUE]
            /\ connOpen' = [connOpen EXCEPT ![p] = FALSE]
            /\ frame' = [frame EXCEPT ![p] = ClosingFrame(p, code)]
  /\ UNCHANGED <<armedCode, armedText>>

\* abort(): closeWith(0, "").
Abort(p) == CloseWith(p, "normal")

(***************************************************************************)
(* armClose is two steps: a compare-and-swap of the code, then, for the    *)
(* caller that won it, a store of the text.                                *)
(***************************************************************************)
ArmCode(p, code) ==
  /\ armedCode[p] = "none"
  /\ armedCode' = [armedCode EXCEPT ![p] = code]
  /\ UNCHANGED <<done, connOpen, armedText, frame>>

ArmText(p, code) ==
  /\ armedText' = [armedText EXCEPT ![p] = code]
  /\ UNCHANGED <<done, connOpen, armedCode, frame>>

\* The network, or the client, breaks the connection; nobody is told.
BreakConnection(p) ==
  /\ connOpen[p]
  /\ connOpen' = [connOpen EXCEPT ![p] = FALSE]
  /\ UNCHANGED <<done, armedCode, armedText, frame>>

=============================================================================
