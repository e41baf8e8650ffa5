--------------------------- MODULE RelayRevocation ---------------------------
(***************************************************************************)
(* Admission and revocation: the sessions of RelayServer, admitted by the  *)
(* token values of RelayTokens, and the two goroutines that disconnect     *)
(* those whose token was revoked (internal/relay/server.go):               *)
(*                                                                         *)
(*   update  UpdateTokens, called by the console, one call at a time       *)
(*   sweep   sweepExpiredTokens, every thirty seconds                      *)
(*                                                                         *)
(* Both run dropInactiveGroups; sweep runs dropExpiredLegacy before it.    *)
(* They interleave with each other and with every goroutine of RelayServer.*)
(* armClose is one step here: its two halves differ in the text only,      *)
(* which RelayServer is about.                                             *)
(***************************************************************************)
EXTENDS RelayServer, RelayTokens

CONSTANT MaxChanges   \* bound of the administrator's changes

ASSUME RevocationAssumption == MaxChanges \in Nat

VARIABLES
  admission,  \* admission[p]: how authorize admitted p
  drop,       \* drop[d]: the position and the local variables of goroutine d
  changes     \* how many changes the administrator may still make

revocationVars == <<admission, drop, changes>>
allVars == <<vars, tokenVars, revocationVars>>

Dropper == {"update", "sweep"}

(***************************************************************************)
(* Positions, in program order.  "filter" asks legacyExpired for each      *)
(* candidate; "arm" and "close" are the two loops over the members of one  *)
(* group, or over the legacy sessions; "active" is about to call           *)
(* activeIDs, "list" tokenIDs and "next" takes the next group.             *)
(***************************************************************************)
DropAt == {"idle", "filter", "arm", "close", "active", "list", "next"}

Idle == [at |-> "idle", legacy |-> FALSE, active |-> {}, ids |-> {},
         members |-> {}, left |-> {}]

DropState ==
  [at : DropAt, legacy : BOOLEAN, active : SUBSET Token, ids : SUBSET Token,
   members : SUBSET Session, left : SUBSET Session]

RevocationTypeOK ==
  /\ admission \in [Session -> {"none", "current", "legacy"}]
  /\ drop \in [Dropper -> DropState]
  /\ changes \in 0 .. MaxChanges

\* The sessions, the token store and the two droppers keep their types.
AllTypeOK == TypeOK /\ TokensTypeOK /\ RevocationTypeOK

RevocationInit ==
  /\ Init
  /\ TokensInit
  /\ admission = [p \in Session |-> "none"]
  /\ drop = [d \in Dropper |-> Idle]
  /\ changes = MaxChanges

-----------------------------------------------------------------------------
\* authorize accepts the value p presents; the upgrade follows later.
Authorize(p) ==
  /\ admission[p] = "none"
  /\ MayAuthorize(RouteOf[p])
  /\ admission' = [admission EXCEPT ![p] =
       IF IsLegacy(RouteOf[p]) THEN "legacy" ELSE "current"]
  /\ UNCHANGED <<vars, tokenVars, drop, changes>>

\* A step of RelayServer; only an authorized session connects.
ServerStep ==
  /\ Next
  /\ \A p \in Session :
       handler[p] = "new" /\ admission[p] = "none" => handler'[p] = "new"
  /\ UNCHANGED <<tokenVars, revocationVars>>

TimePasses ==
  /\ Tick
  /\ UNCHANGED <<vars, revocationVars>>

\* The console saves a change and calls UpdateTokens, which replaces the store.
Change ==
  /\ changes > 0
  /\ drop["update"].at = "idle"
  /\ ChangeTokens
  /\ changes' = changes - 1
  /\ drop' = [drop EXCEPT !["update"].at = "active"]
  /\ UNCHANGED <<vars, admission>>

-----------------------------------------------------------------------------
(***************************************************************************)
(* dropExpiredLegacy.                                                      *)
(***************************************************************************)
DropStep(d, from) ==
  /\ drop[d].at = from
  /\ UNCHANGED <<tokenVars, admission, changes>>

\* The tracked sessions that were admitted with a previous value.  Without any
\* the loops that follow do nothing.
SweepBegin ==
  LET candidates == {p \in Session : Tracked(p) /\ admission[p] = "legacy"} IN
  /\ DropStep("sweep", "idle")
  /\ drop' = [drop EXCEPT !["sweep"] =
       [Idle EXCEPT !.at = IF candidates = {} THEN "active" ELSE "filter",
                    !.legacy = candidates # {}, !.left = candidates]]
  /\ UNCHANGED vars

FilterLegacy ==
  /\ DropStep("sweep", "filter")
  /\ \E p \in drop["sweep"].left :
       drop' = [drop EXCEPT
         !["sweep"].left = @ \ {p},
         !["sweep"].members =
           IF LegacyExpired(GroupOf(p)) THEN @ \cup {p} ELSE @]
  /\ UNCHANGED vars

FilterDone ==
  /\ DropStep("sweep", "filter")
  /\ drop["sweep"].left = {}
  /\ drop' = [drop EXCEPT !["sweep"].at = "arm",
                          !["sweep"].left = drop["sweep"].members]
  /\ UNCHANGED vars

-----------------------------------------------------------------------------
(***************************************************************************)
(* dropInactiveGroups, and the loops it shares with dropExpiredLegacy.     *)
(***************************************************************************)
DropActive(d) ==
  /\ DropStep(d, "active")
  /\ drop' = [drop EXCEPT ![d].at = "list", ![d].active = ActiveTokens]
  /\ UNCHANGED vars

DropList(d) ==
  /\ DropStep(d, "list")
  /\ drop' = [drop EXCEPT ![d].at = "next", ![d].active = {},
       ![d].ids = {t \in Token : groups[t] # EmptyGroup} \ drop[d].active]
  /\ UNCHANGED vars

\* groups.members; an empty group is passed over.
DropGroup(d) ==
  /\ DropStep(d, "next")
  /\ \E t \in drop[d].ids :
       LET members == groups[t].targets \cup groups[t].edges IN
       drop' = [drop EXCEPT ![d].at = IF members = {} THEN "next" ELSE "arm",
                            ![d].ids = @ \ {t},
                            ![d].members = members, ![d].left = members]
  /\ UNCHANGED vars

DropDone(d) ==
  /\ DropStep(d, "next")
  /\ drop[d].ids = {}
  /\ drop' = [drop EXCEPT ![d] = Idle]
  /\ UNCHANGED vars

\* armClose of one member.
DropArm(d) ==
  /\ DropStep(d, "arm")
  /\ \E p \in drop[d].left :
       /\ drop' = [drop EXCEPT ![d].left = @ \ {p}]
       /\ IF armedCode[p] = "none"
            THEN /\ armedCode' = [armedCode EXCEPT ![p] = "disabled"]
                 /\ armedText' = [armedText EXCEPT ![p] = "disabled"]
            ELSE UNCHANGED <<armedCode, armedText>>
  /\ UNCHANGED <<done, connOpen, frame, groups, registryVars, serverVars>>

\* Mutant: members are closed before they are armed.
CloseUnarmed(d) ==
  /\ DropStep(d, "arm")
  /\ drop' = [drop EXCEPT ![d].at = "close", ![d].left = drop[d].members,
                          ![d].members = {}]
  /\ UNCHANGED vars

\* Every member is armed: the closing loop begins.
DropArmed(d) ==
  /\ DropStep(d, "arm")
  /\ drop[d].left = {}
  /\ drop' = [drop EXCEPT ![d].at = "close", ![d].left = drop[d].members,
                          ![d].members = {}]
  /\ UNCHANGED vars

\* closeWith of one member.
DropClose(d) ==
  /\ DropStep(d, "close")
  /\ \E p \in drop[d].left :
       /\ CloseWith(p, "disabled")
       /\ drop' = [drop EXCEPT ![d].left = @ \ {p}]
  /\ UNCHANGED <<groups, registryVars, serverVars>>

\* The loop is over: back to the groups, or on to dropInactiveGroups.
DropClosed(d) ==
  /\ DropStep(d, "close")
  /\ drop[d].left = {}
  /\ drop' = [drop EXCEPT ![d].legacy = FALSE,
                          ![d].at = IF drop[d].legacy THEN "active" ELSE "next"]
  /\ UNCHANGED vars

DropInactiveGroups(d) ==
  \/ DropActive(d) \/ DropList(d) \/ DropGroup(d) \/ DropDone(d)
  \/ DropArm(d) \/ DropArmed(d) \/ DropClose(d) \/ DropClosed(d)

Sweep == SweepBegin \/ FilterLegacy \/ FilterDone \/ DropInactiveGroups("sweep")

RevocationNext ==
  \/ ServerStep
  \/ \E p \in Session : Authorize(p)
  \/ TimePasses
  \/ Change
  \/ DropInactiveGroups("update")
  \/ Sweep

RevocationSpec == RevocationInit /\ [][RevocationNext]_allVars

(***************************************************************************)
(* The goroutines of RelayServer run as there, UpdateTokens returns, and   *)
(* the sweep's ticker keeps firing.  Nobody has to change a token.  The    *)
(* clock advances.                                                         *)
(***************************************************************************)
RevocationFairness ==
  /\ Fairness
  /\ WF_allVars(DropInactiveGroups("update"))
  /\ WF_allVars(Sweep)
  /\ WF_allVars(TimePasses)

FairRevocationSpec == RevocationSpec /\ RevocationFairness

-----------------------------------------------------------------------------
\* The administrator disabled or deleted t.
Revoked(t) == ~ \E e \in tokens : e.id = t /\ ~e.disabled

(***************************************************************************)
(* The invariant behind the safety properties.                             *)
(***************************************************************************)

\* A code only an administrator's call or a drop arms.
Actionable(p) == armedCode[p] \in {"disabled", "kicked"}

\* The members a drop has armed, and those it has still to close, are armed.
MembersArmed(d) ==
  /\ drop[d].at = "arm" =>
       \A p \in drop[d].members \ drop[d].left : Actionable(p)
  /\ drop[d].at = "close" => \A p \in drop[d].left : Actionable(p)

\* No other code is armed, and whom the administrator kicks is armed.
CodesArmed ==
  /\ \A p \in Session : armedCode[p] \in {"none", "disabled", "kicked"}
  /\ kick.at \in {"text", "close"} => Actionable(kick.session)

\* Tokens are listed for one pass of dropInactiveGroups, and dropExpiredLegacy
\* comes before it.
DropOrdered(d) ==
  /\ drop[d].legacy => drop[d].at \in {"filter", "arm", "close"}
  /\ drop[d].at = "filter" => drop[d].legacy
  /\ drop[d].at \in {"idle", "filter", "active", "list"} \/ drop[d].legacy =>
       drop[d].ids = {}

\* The sessions in a drop's hands have joined their group.
DropsAdmitted ==
  \A d \in Dropper, p \in Session :
    p \in drop[d].members \cup drop[d].left => handler[p] \notin {"new", "hello"}

\* r was rotated out for good.
Outdated(r) ==
  /\ r \in issued
  /\ \A t \in tokens :
       r # t.value /\ (r = t.previous => t.graceEnd = NoDeadline \/ Passed(t.graceEnd))

\* A previous value never becomes a current one again.
LegacyRotated ==
  \A p \in Session : admission[p] = "legacy" =>
    RouteOf[p] \in issued /\ \A t \in tokens : t.value # RouteOf[p]

\* Whom UpdateTokens drops has lost its token: no change overtakes the call.
UpdateJust ==
  /\ ~drop["update"].legacy
  /\ drop["update"].at = "list" =>
       \A t \in Token \ drop["update"].active : ~InForce(t)
  /\ \A t \in drop["update"].ids : ~InForce(t)
  /\ drop["update"].at \in {"arm", "close"} =>
       \A p \in drop["update"].members \cup drop["update"].left :
         ~InForce(GroupOf(p))

\* Whom dropExpiredLegacy looks at was admitted with a previous value, and whom
\* it drops with one that nobody accepts any more.
SweepJust ==
  drop["sweep"].legacy =>
    /\ \A p \in drop["sweep"].members \cup drop["sweep"].left :
         admission[p] = "legacy"
    /\ \A p \in drop["sweep"].members : Outdated(RouteOf[p])
    /\ drop["sweep"].at # "filter" =>
         \A p \in drop["sweep"].left : Outdated(RouteOf[p])

\* Only a sweep's pass of dropInactiveGroups may act on a list that changed
\* meanwhile, and close a session that the administrator has just let in again.
DropsJust == UpdateJust /\ SweepJust

\* The sessions, the registry, the groups, the token store and the two drops fit
\* together.
RevocationInv ==
  /\ AllTypeOK
  /\ GroupInv /\ PairingInv
  /\ TokensDistinct /\ StoreCurrent /\ StoreDecides
  /\ CodesArmed /\ \A d \in Dropper : MembersArmed(d) /\ DropOrdered(d)
  /\ DropsAdmitted /\ LegacyRotated /\ DropsJust

-----------------------------------------------------------------------------
\* A session a drop has still to close, or that the administrator's call armed,
\* ends, if it ends now, with a code that tells the client why.
ClosedWithReason ==
  \A p \in Session :
    /\ \/ \E d \in Dropper : drop[d].at = "close" /\ p \in drop[d].left
       \/ kick.at \in {"text", "close"} /\ kick.session = p
    /\ ~done[p] /\ done'[p]
    => frame'[p].code \in {"disabled", "kicked"}

\* d has still to look at p's group, to arm p or to close it.
Pending(d, p) ==
  \/ drop[d].at = "list" /\ GroupOf(p) \notin drop[d].active
  \/ GroupOf(p) \in drop[d].ids
  \/ drop[d].at \in {"filter", "arm"} /\ p \in drop[d].members
  \/ drop[d].at = "close" /\ p \in drop[d].left

\* A drop sets out to close every session whose token is not in force, and
\* does not turn from one before the session ended.
NobodyForgotten ==
  \A d \in Dropper, p \in Session :
    /\ InGroup(p) /\ ~done[p]
    /\ \/ Pending(d, p)
       \/ drop[d].at = "active" /\ drop'[d].at # "active" /\ ~InForce(GroupOf(p))
    => done'[p] \/ Pending(d, p)'

\* "kicks and revocations pre-arm the close code so clients always receive the
\* actionable reason" (docs/architecture.md:174): closing one end of a pair
\* makes the bridge close the other with a normal code, so a member a drop has
\* yet to close must end with an actionable code, whoever closes it; and every
\* member the drop set out to close is closed.
DropsDeliver == [][ClosedWithReason /\ NobodyForgotten]_allVars

(***************************************************************************)
(* Liveness.  A session stays in its group until it is done, so that       *)
(* []<>(P => Q) says the same as P ~> Q here, and costs TLC far less.      *)
(***************************************************************************)

\* A group whose token is not in force does not keep a session: the update
\* drops it, or, if the session joined behind its back, a sweep does.
RevokedSessionsLeave ==
  \A p \in Session :
    []<>(InGroup(p) => done[p] \/ InForce(GroupOf(p)))

\* The grace window of t's last rotation is open.
Rotating(t) == \E e \in tokens : e.id = t /\ InWindow(e, e.previous)

\* A session admitted with a previous value is dropped once no grace window of its
\* token is open, even if the store forgot the value before the sweep ran.  The
\* window has to be that of the token: legacyExpired (tokens.go:125) asks for the
\* token and not for the value, so a second rotation keeps a session of the value
\* before the previous one, which nobody accepts any more, until its own window ends.
LegacySessionsLeave ==
  \A p \in Session :
    []<>(InGroup(p) /\ admission[p] = "legacy" => done[p] \/ Rotating(GroupOf(p)))

\* "After expiry the old value is rejected and remaining legacy sessions are
\* disconnected" (docs/security.md:58): a session whose value is no longer
\* accepted does not stay, even if it was admitted before the rotation.
RotatedOutSessionsLeave ==
  \A p \in Session :
    InGroup(p) /\ ~MayAuthorize(RouteOf[p])
      ~> done[p] \/ MayAuthorize(RouteOf[p])

=============================================================================
