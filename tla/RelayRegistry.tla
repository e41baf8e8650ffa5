---------------------------- MODULE RelayRegistry ----------------------------
(***************************************************************************)
(* The rendezvous registry (internal/relay/registry.go, type registry):    *)
(* per route, the unpaired edges and the unpaired targets in arrival       *)
(* order.  Every operation holds registry.mu, so each is one step.         *)
(*                                                                         *)
(* A slice of participants is the set of its members; seat[p] is the       *)
(* arrival number p took when it was appended, so "earlier in the slice"   *)
(* is "smaller seat".  A session is appended at most once.                 *)
(***************************************************************************)
EXTENDS Naturals, RelayParticipant

VARIABLES
  waiting,   \* waiting[r] = [edge, target]: the two queues of route r
  seat,      \* seat[p]: p's arrival number, 0 if it was never queued
  arrivals,  \* how many sessions were appended so far
  peer       \* peer[p]: the session p is paired with, or NoSession

registryVars == <<waiting, seat, arrivals, peer>>

RegistryTypeOK ==
  /\ waiting \in [Route -> [Role -> SUBSET Session]]
  /\ seat \in [Session -> Nat]
  /\ arrivals \in Nat
  /\ peer \in [Session -> Session \cup {NoSession}]

RegistryInit ==
  /\ waiting = [r \in Route |-> [role \in Role |-> {}]]
  /\ seat = [p \in Session |-> 0]
  /\ arrivals = 0
  /\ peer = [p \in Session |-> NoSession]

Opposite(role) == IF role = "edge" THEN "target" ELSE "edge"

Paired(p) == peer[p] # NoSession

Waiting(p) == p \in waiting[RouteOf[p]][RoleOf[p]]

\* Mutant: closed members are not pruned.
Unpruned(r, role) == waiting[r][role]

\* activeParticipants: the members of a queue that are not closed.
Active(r, role) == {q \in waiting[r][role] : ~done[q]}

\* popParticipant's choice: the active member that arrived first.
IsOldest(q, r, role) ==
  /\ q \in Active(r, role)
  /\ \A other \in Active(r, role) : seat[q] <= seat[other]

-----------------------------------------------------------------------------
\* Mutant: the claimed session stays in its queue.
JoinPairsKeepingPeer(p, q) ==
  LET r == RouteOf[p] IN
  /\ IsOldest(q, r, Opposite(RoleOf[p]))
  /\ waiting' = [waiting EXCEPT ![r] = [role \in Role |-> Active(r, role)]]
  /\ peer' = [peer EXCEPT ![p] = q, ![q] = p]
  /\ UNCHANGED <<seat, arrivals>>

\* Mutant: only the head of the opposite queue is looked at, and a closed head
\* counts as an empty queue.
JoinWaitsBehindClosedHead(p) ==
  LET r == RouteOf[p]
      other == Opposite(RoleOf[p]) IN
  /\ \/ Active(r, other) = {}
     \/ \E q \in waiting[r][other] :
          done[q] /\ \A q2 \in waiting[r][other] : seat[q] <= seat[q2]
  /\ waiting' = [waiting EXCEPT ![r][RoleOf[p]] = @ \cup {p}]
  /\ arrivals' = arrivals + 1
  /\ seat' = [seat EXCEPT ![p] = arrivals + 1]
  /\ UNCHANGED peer

\* join when the opposite queue has an active member: pair with the oldest.
JoinPairs(p, q) ==
  LET r == RouteOf[p]
      mine == RoleOf[p]
      other == Opposite(mine) IN
  /\ IsOldest(q, r, other)
  /\ waiting' = [waiting EXCEPT ![r] =
       [role \in Role |-> IF role = other THEN Active(r, other) \ {q}
                                          ELSE Active(r, mine)]]
  /\ peer' = [peer EXCEPT ![p] = q, ![q] = p]
  /\ UNCHANGED <<seat, arrivals>>

\* join when nobody of the opposite role waits: take a place in the queue.
JoinWaits(p) ==
  LET r == RouteOf[p]
      mine == RoleOf[p]
      other == Opposite(mine) IN
  /\ Active(r, other) = {}
  /\ waiting' = [waiting EXCEPT ![r] =
       [role \in Role |-> IF role = mine THEN Active(r, mine) \cup {p} ELSE {}]]
  /\ arrivals' = arrivals + 1
  /\ seat' = [seat EXCEPT ![p] = arrivals + 1]
  /\ UNCHANGED peer

\* remove: its result is whether p was in one of the queues, i.e. Waiting(p).
RemoveWaiting(p) ==
  /\ waiting' = [waiting EXCEPT ![RouteOf[p]] =
                   [role \in Role |-> @[role] \ {p}]]
  /\ UNCHANGED <<seat, arrivals, peer>>

=============================================================================
