----------------------------- MODULE RelayGroups -----------------------------
(***************************************************************************)
(* The relay's groups (internal/relay/groups.go): per token, the live      *)
(* connections of one Target process and of any number of Edges.  Every    *)
(* operation holds groupSet.mu, so each is one step.  An absent map entry  *)
(* is an entry with no member.                                             *)
(***************************************************************************)
EXTENDS RelayParticipant

VARIABLE groups   \* groups[t] = [instance, targets, edges]

EmptyGroup == [instance |-> NoInstance, targets |-> {}, edges |-> {}]

GroupsTypeOK ==
  groups \in [Token -> [instance : Instance \cup {NoInstance},
                        targets : SUBSET Session, edges : SUBSET Session]]

GroupsInit == groups = [t \in Token |-> EmptyGroup]

GroupOf(p) == TokenOf[RouteOf[p]]

\* The targets pruneDead keeps.
LiveTargets(t) == {q \in groups[t].targets : ~done[q]}

\* Mutant: any instance may join a served token.
MayServeWithAnyInstance(p) ==
  LiveTargets(GroupOf(p)) = {} \/ InstanceOf[p] # NoInstance

\* A target may join an unserved token, or the process that serves it.
MayServe(p) ==
  LET t == GroupOf(p) IN
  \/ LiveTargets(t) = {}
  \/ InstanceOf[p] # NoInstance /\ InstanceOf[p] = groups[t].instance

-----------------------------------------------------------------------------
JoinAsEdge(p) ==
  /\ RoleOf[p] = "edge"
  /\ groups' = [groups EXCEPT ![GroupOf(p)].edges = @ \cup {p}]

JoinAsTarget(p) ==
  /\ RoleOf[p] = "target"
  /\ MayServe(p)
  /\ groups' = [groups EXCEPT ![GroupOf(p)] =
       [instance |-> IF LiveTargets(GroupOf(p)) = {}
                       THEN InstanceOf[p] ELSE @.instance,
        targets  |-> LiveTargets(GroupOf(p)) \cup {p},
        edges    |-> @.edges]]

\* join's successful outcome.
JoinGroup(p) == JoinAsEdge(p) \/ JoinAsTarget(p)

\* Mutant: the target is added before the duplicate check.
RefuseAddedTarget(p) ==
  /\ RoleOf[p] = "target"
  /\ ~ MayServe(p)
  /\ groups' = [groups EXCEPT ![GroupOf(p)].targets =
                  LiveTargets(GroupOf(p)) \cup {p}]

\* join's errDuplicateTarget outcome; the pruning before it stays.
RefuseTarget(p) ==
  /\ RoleOf[p] = "target"
  /\ ~ MayServe(p)
  /\ groups' = [groups EXCEPT ![GroupOf(p)].targets = LiveTargets(GroupOf(p))]

LeaveGroup(p) ==
  groups' = [groups EXCEPT ![GroupOf(p)] =
       [instance |-> IF @.targets \ {p} = {} THEN NoInstance ELSE @.instance,
        targets  |-> @.targets \ {p},
        edges    |-> @.edges \ {p}]]

=============================================================================
