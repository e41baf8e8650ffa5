----------------------------- MODULE Rendezvous -----------------------------
(***************************************************************************)
(* What the relay's rendezvous promises, without queues, goroutines or     *)
(* sockets: sessions of two roles arrive on routes; each is matched with   *)
(* at most one session of the other role on its route, always the one that *)
(* has waited longest; only an edge that was never matched gives up; a     *)
(* session that ended is never matched.                                    *)
(***************************************************************************)
EXTENDS Naturals

CONSTANTS Session, NoSession, RoleOf, RouteOf

VARIABLES
  status,    \* "outside", "waiting", "matched", "expired" or "over"
  partner,   \* partner[p]: the session p was matched with, or NoSession
  since,     \* since[p]: the arrival number p waits with
  clock      \* the last arrival number

abstractVars == <<status, partner, since, clock>>

AbstractInit ==
  /\ status = [p \in Session |-> "outside"]
  /\ partner = [p \in Session |-> NoSession]
  /\ since = [p \in Session |-> 0]
  /\ clock = 0

\* The sessions p could be matched with.
Candidates(p) ==
  {q \in Session : /\ status[q] = "waiting"
                   /\ RouteOf[q] = RouteOf[p]
                   /\ RoleOf[q] # RoleOf[p]}

Wait(p) ==
  /\ status[p] = "outside"
  /\ Candidates(p) = {}
  /\ status' = [status EXCEPT ![p] = "waiting"]
  /\ clock' = clock + 1
  /\ since' = [since EXCEPT ![p] = clock + 1]
  /\ UNCHANGED partner

Match(p, q) ==
  /\ status[p] = "outside"
  /\ q \in Candidates(p)
  /\ \A other \in Candidates(p) : since[q] <= since[other]
  /\ status' = [status EXCEPT ![p] = "matched", ![q] = "matched"]
  /\ partner' = [partner EXCEPT ![p] = q, ![q] = p]
  /\ UNCHANGED <<since, clock>>

GiveUp(p) ==
  /\ RoleOf[p] = "edge"
  /\ status[p] = "waiting"
  /\ status' = [status EXCEPT ![p] = "expired"]
  /\ UNCHANGED <<partner, since, clock>>

\* Turned away, disconnected, broken: a session may end at any time.
End(p) ==
  /\ status[p] # "over"
  /\ status' = [status EXCEPT ![p] = "over"]
  /\ UNCHANGED <<partner, since, clock>>

\* Every step changes a status; said first, it spares TLC the search for a step
\* when the detailed specification takes one that nobody sees.
AbstractNext ==
  /\ status' # status
  /\ \E p \in Session :
       \/ Wait(p)
       \/ \E q \in Session : Match(p, q)
       \/ GiveUp(p)
       \/ End(p)

AbstractSpec == AbstractInit /\ [][AbstractNext]_abstractVars

=============================================================================
