----------------------- MODULE RelayRevocation_proofs -----------------------
(***************************************************************************)
(* Machine-checked theorems about RelayRevocation, for any sets of         *)
(* sessions, tokens and token values, any clock bound and any number of    *)
(* changes.                                                                *)
(***************************************************************************)
EXTENDS RelayRevocation, RelayPairing_proofs, RelayKick_proofs

-----------------------------------------------------------------------------
(***************************************************************************)
(* Types.                                                                  *)
(***************************************************************************)
LEMMA StoreOfType ==
  ASSUME NEW list \in SUBSET TokenEntry
  PROVE  StoreOf(list) \subseteq StoreEntry
<1>1. ASSUME NEW t \in list
      PROVE  {CurrentEntry(t)} \cup PreviousEntries(t) \subseteq StoreEntry
  <2>1. t \in TokenEntry
    OBVIOUS
  <2>2. CurrentEntry(t) \in StoreEntry
    BY <2>1 DEF TokenEntry, StoreEntry, CurrentEntry
  <2>3. ASSUME NEW e \in PreviousEntries(t) PROVE e \in StoreEntry
    <3>1. t.previous # NoRoute /\ e = PreviousEntry(t)
      BY DEF PreviousEntries, HasPrevious
    <3>2. t.previous \in Route /\ t.disabled \in BOOLEAN /\ t.graceEnd \in Deadline
      BY <2>1, <3>1 DEF TokenEntry
    <3>q. QED
      BY <3>1, <3>2 DEF StoreEntry, PreviousEntry
  <2>q. QED
    BY <2>2, <2>3
<1>q. QED
  BY <1>1 DEF StoreOf

LEMMA ChangeType ==
  ASSUME TokensTypeOK, ChangeTokens
  PROVE  TokensTypeOK'
<1> USE DEF TokensTypeOK
<1>1. ASSUME NEW list \in SUBSET TokenEntry, SaveTokens(list)
      PROVE  tokens' \subseteq TokenEntry /\ store' \subseteq StoreEntry
                /\ now' \in 1 .. MaxTime
  BY <1>1, StoreOfType DEF SaveTokens
<1>2. PICK t \in tokens :
        \/ SetDisabled(t, ~t.disabled)
        \/ \E expires \in Deadline : SetLifetime(t, expires)
        \/ DeleteToken(t)
        \/ \E value \in Route, graceEnd \in Deadline :
             RotateToken(t, value, graceEnd)
  BY DEF ChangeTokens
<1>3. t \in TokenEntry
  OBVIOUS
<1>4. CASE SetDisabled(t, ~t.disabled)
  <2>1. [t EXCEPT !.disabled = ~t.disabled] \in TokenEntry
    BY <1>3 DEF TokenEntry
  <2>q. QED
    BY <1>1, <1>4, <2>1 DEF SetDisabled, ReplaceToken
<1>5. ASSUME NEW expires \in Deadline, SetLifetime(t, expires)
      PROVE  TokensTypeOK'
  <2>1. [t EXCEPT !.expires = expires] \in TokenEntry
    BY <1>3 DEF TokenEntry
  <2>q. QED
    BY <1>1, <1>5, <2>1 DEF SetLifetime, ReplaceToken
<1>6. CASE DeleteToken(t)
  BY <1>1, <1>6 DEF DeleteToken
<1>7. ASSUME NEW value \in Route, NEW graceEnd \in Deadline,
             RotateToken(t, value, graceEnd)
      PROVE  TokensTypeOK'
  <2>1. [t EXCEPT !.value = value, !.previous = t.value, !.graceEnd = graceEnd]
          \in TokenEntry
    BY <1>3 DEF TokenEntry
  <2>q. QED
    BY <1>1, <1>7, <2>1 DEF RotateToken, ReplaceToken
<1>q. QED
  BY <1>2, <1>4, <1>5, <1>6, <1>7

LEMMA TokensInitType ==
  ASSUME TokensInit
  PROVE  TokensTypeOK
<1>0. NoDeadline \in Deadline
  BY TokensAssumption DEF NoDeadline, Deadline
<1>1. tokens \subseteq TokenEntry
  <2>1. ASSUME NEW t \in Token
        PROVE  [id |-> t, value |-> FirstRoute[t], disabled |-> FALSE,
                expires |-> NoDeadline, previous |-> NoRoute,
                graceEnd |-> NoDeadline] \in TokenEntry
    <3>1. FirstRoute[t] \in Route
      BY TokensAssumption
    <3>q. QED
      BY <1>0, <3>1 DEF TokenEntry
  <2>q. QED
    BY <2>1 DEF TokensInit
<1>2. issued \subseteq Route
  BY TokensAssumption DEF TokensInit
<1>3. store \subseteq StoreEntry
  BY <1>1, StoreOfType DEF TokensInit
<1>4. now \in 1 .. MaxTime
  BY TokensAssumption DEF TokensInit
<1>q. QED
  BY <1>1, <1>2, <1>3, <1>4 DEF TokensTypeOK

\* A drop step keeps the types of the droppers.
LEMMA DropStateType ==
  ASSUME AllTypeOK, NEW d \in Dropper, DropInactiveGroups(d)
  PROVE  drop' \in [Dropper -> DropState]
<1>1. drop \in [Dropper -> DropState] /\ drop[d] \in DropState
  BY DEF AllTypeOK, RevocationTypeOK
<1>2. ActiveTokens \subseteq Token
  BY SessionAssumption DEF AllTypeOK, ActiveTokens, TokensTypeOK, StoreEntry
<1>3. \A t \in Token : groups[t].targets \cup groups[t].edges \subseteq Session
  BY DEF AllTypeOK, TypeOK, GroupsTypeOK
<1>4. Idle \in DropState
  BY DEF Idle, DropState, DropAt
<1> USE DEF DropState, DropAt
<1>5. CASE DropActive(d)
  BY <1>1, <1>2, <1>5 DEF DropActive
<1>6. CASE DropList(d)
  BY <1>1, <1>6 DEF DropList
<1>7. CASE DropGroup(d)
  <2> DEFINE Members(t) == groups[t].targets \cup groups[t].edges
             At(t) == IF Members(t) = {} THEN "next" ELSE "arm"
  <2>1. PICK t \in drop[d].ids :
          drop' = [drop EXCEPT ![d].at = At(t), ![d].ids = @ \ {t},
                               ![d].members = Members(t), ![d].left = Members(t)]
    BY <1>7 DEF DropGroup
  <2>2. Members(t) \in SUBSET Session /\ At(t) \in {"next", "arm"}
    BY <1>1, <1>3
  <2> HIDE DEF Members, At
  <2>q. QED
    BY <1>1, <2>1, <2>2
<1>8. CASE DropDone(d)
  BY <1>1, <1>4, <1>8 DEF DropDone
<1>9. CASE DropArm(d)
  BY <1>1, <1>9 DEF DropArm
<1>10. CASE DropArmed(d)
  BY <1>1, <1>10 DEF DropArmed
<1>11. CASE DropClose(d)
  BY <1>1, <1>11 DEF DropClose
<1>12. CASE DropClosed(d)
  BY <1>1, <1>12 DEF DropClosed
<1>q. QED
  BY <1>5, <1>6, <1>7, <1>8, <1>9, <1>10, <1>11, <1>12 DEF DropInactiveGroups

LEMMA SweepStateType ==
  ASSUME AllTypeOK, SweepBegin \/ FilterLegacy \/ FilterDone
  PROVE  drop' \in [Dropper -> DropState]
<1>1. /\ drop \in [Dropper -> DropState]
      /\ "sweep" \in Dropper /\ drop["sweep"] \in DropState
  BY DEF AllTypeOK, RevocationTypeOK, Dropper
<1>2. Idle \in DropState
  BY DEF Idle, DropState, DropAt
<1> USE DEF DropState, DropAt
<1>3. CASE SweepBegin
  BY <1>1, <1>2, <1>3 DEF SweepBegin
<1>4. CASE FilterLegacy
  <2>1. PICK p \in Session, m \in SUBSET Session :
          drop' = [drop EXCEPT !["sweep"].left = @ \ {p}, !["sweep"].members = m]
    BY <1>1, <1>4 DEF FilterLegacy
  <2>q. QED
    BY <1>1, <2>1
<1>5. CASE FilterDone
  BY <1>1, <1>5 DEF FilterDone
<1>q. QED
  BY <1>3, <1>4, <1>5

\* A drop step changes the participants only, and keeps their types.
LEMMA DropKeepsTypes ==
  ASSUME AllTypeOK, NEW d \in Dropper, DropInactiveGroups(d) \/ Sweep
  PROVE  TypeOK'
<1> USE DEF AllTypeOK, TypeOK
<1>1. ASSUME UNCHANGED vars PROVE TypeOK'
  BY <1>1
     DEF vars, participantVars, registryVars, serverVars, flowVars,
         ParticipantTypeOK, GroupsTypeOK, RegistryTypeOK, ServerTypeOK
<1>2. ASSUME UNCHANGED <<groups, registryVars, serverVars>>
      PROVE  GroupsTypeOK' /\ RegistryTypeOK' /\ ServerTypeOK'
  BY <1>2
     DEF registryVars, serverVars, flowVars, GroupsTypeOK, RegistryTypeOK, ServerTypeOK
<1>3. ASSUME NEW e \in Dropper, DropArm(e) PROVE TypeOK'
  <2>1. ParticipantTypeOK'
    BY <1>3 DEF DropArm, ParticipantTypeOK, MaybeCode, CloseCode
  <2>q. QED
    BY <1>2, <1>3, <2>1 DEF DropArm
<1>4. ASSUME NEW e \in Dropper, DropClose(e) PROVE TypeOK'
  <2>1. "disabled" \in CloseCode
    BY DEF CloseCode
  <2>2. ParticipantTypeOK'
    BY <1>4, <2>1, CloseWithType DEF DropClose
  <2>q. QED
    BY <1>2, <1>4, <2>2 DEF DropClose
<1>5. "sweep" \in Dropper
  BY DEF Dropper
<1>6. ASSUME NEW e \in Dropper, DropInactiveGroups(e) PROVE TypeOK'
  BY <1>1, <1>3, <1>4, <1>6
     DEF DropInactiveGroups, DropActive, DropList, DropGroup, DropDone,
         DropArmed, DropClosed
<1>7. CASE SweepBegin \/ FilterLegacy \/ FilterDone
  BY <1>1, <1>7 DEF SweepBegin, FilterLegacy, FilterDone
<1>q. QED
  BY <1>5, <1>6, <1>7 DEF Sweep

LEMMA AllTypedInit ==
  RevocationInit => AllTypeOK
<1> SUFFICES ASSUME RevocationInit PROVE AllTypeOK
  OBVIOUS
<1>1. TypeOK /\ TokensTypeOK
  BY TypedInit, TokensInitType DEF RevocationInit
<1>2. Idle \in DropState
  BY DEF Idle, DropState, DropAt
<1>3. RevocationTypeOK
  BY <1>2, RevocationAssumption DEF RevocationInit, RevocationTypeOK
<1>q. QED
  BY <1>1, <1>3 DEF AllTypeOK

LEMMA AllTypedStep ==
  AllTypeOK /\ [RevocationNext]_allVars => AllTypeOK'
<1> SUFFICES ASSUME AllTypeOK, [RevocationNext]_allVars PROVE AllTypeOK'
  OBVIOUS
<1> USE DEF AllTypeOK
<1>1. ASSUME UNCHANGED vars PROVE TypeOK'
  BY <1>1, TypedStep
<1>2. ASSUME UNCHANGED tokenVars PROVE TokensTypeOK'
  BY <1>2 DEF tokenVars, TokensTypeOK
<1>3. ASSUME UNCHANGED revocationVars PROVE RevocationTypeOK'
  BY <1>3 DEF revocationVars, RevocationTypeOK
<1>4. CASE ServerStep
  BY <1>2, <1>3, <1>4, TypedStep DEF ServerStep
<1>5. ASSUME NEW p \in Session, Authorize(p) PROVE AllTypeOK'
  BY <1>1, <1>2, <1>5 DEF Authorize, RevocationTypeOK
<1>6. CASE TimePasses
  <2>1. TokensTypeOK'
    BY <1>6, TokensAssumption DEF TimePasses, Tick, TokensTypeOK
  <2>q. QED
    BY <1>1, <1>3, <1>6, <2>1 DEF TimePasses
<1>7. CASE Change
  <2>1. RevocationTypeOK'
    <3>1. "update" \in Dropper /\ "active" \in DropAt
      BY DEF Dropper, DropAt
    <3>2. drop' \in [Dropper -> DropState]
      BY <1>7, <3>1 DEF Change, RevocationTypeOK, DropState
    <3>3. changes' \in 0 .. MaxChanges
      BY <1>7, RevocationAssumption DEF Change, RevocationTypeOK
    <3>q. QED
      BY <1>7, <3>2, <3>3 DEF Change, RevocationTypeOK
  <2>q. QED
    BY <1>1, <1>7, <2>1, ChangeType DEF Change
<1>8. ASSUME \/ DropInactiveGroups("update")
             \/ Sweep
      PROVE  AllTypeOK'
  <2>1. {"update", "sweep"} \subseteq Dropper
    BY DEF Dropper
  <2>2. TypeOK'
    BY <1>8, <2>1, DropKeepsTypes
  <2>3. drop' \in [Dropper -> DropState]
    BY <1>8, <2>1, DropStateType, SweepStateType DEF Sweep
  <2>4. UNCHANGED <<tokenVars, admission, changes>>
    BY <1>8
       DEF Sweep, SweepBegin, FilterLegacy, FilterDone, DropInactiveGroups,
           DropActive, DropList, DropGroup, DropDone, DropArm, DropArmed,
           DropClose, DropClosed, DropStep
  <2>q. QED
    BY <1>2, <2>2, <2>3, <2>4 DEF RevocationTypeOK
<1>9. CASE UNCHANGED allVars
  BY <1>1, <1>2, <1>3, <1>9 DEF allVars
<1>q. QED
  BY <1>4, <1>5, <1>6, <1>7, <1>8, <1>9 DEF RevocationNext

\* Every variable of the composition keeps its type.
THEOREM AllTypeCorrect == RevocationSpec => []AllTypeOK
BY AllTypedInit, AllTypedStep, PTL DEF RevocationSpec

-----------------------------------------------------------------------------
(***************************************************************************)
(* The token store.                                                        *)
(***************************************************************************)

\* A change deletes a token, keeps its values or rotates them, and rebuilds the
\* store.
LEMMA ChangeEffect ==
  ASSUME TokensTypeOK, ChangeTokens
  PROVE  /\ now' = now /\ store' = StoreOf(tokens')
         /\ \E t \in tokens :
              \/ tokens' = tokens \ {t} /\ issued' = issued
              \/ \E u \in TokenEntry :
                   /\ tokens' = (tokens \ {t}) \cup {u} /\ u.id = t.id
                   /\ \/ /\ issued' = issued /\ u.value = t.value
                         /\ u.previous = t.previous /\ u.graceEnd = t.graceEnd
                      \/ /\ u.value \in Route \ issued /\ TokenOf[u.value] = t.id
                         /\ u.previous = t.value /\ issued' = issued \cup {u.value}
<1> USE DEF TokensTypeOK
<1>1. PICK t \in tokens :
        \/ SetDisabled(t, ~t.disabled)
        \/ \E expires \in Deadline : SetLifetime(t, expires)
        \/ DeleteToken(t)
        \/ \E value \in Route, graceEnd \in Deadline :
             RotateToken(t, value, graceEnd)
  BY DEF ChangeTokens
<1>2. t \in TokenEntry
  OBVIOUS
<1>3. CASE SetDisabled(t, ~t.disabled)
  <2> DEFINE u == [t EXCEPT !.disabled = ~t.disabled]
  <2>1. /\ u \in TokenEntry /\ u.id = t.id /\ u.value = t.value
        /\ u.previous = t.previous /\ u.graceEnd = t.graceEnd
    BY <1>2 DEF TokenEntry
  <2>2. /\ tokens' = (tokens \ {t}) \cup {u} /\ issued' = issued
        /\ now' = now /\ store' = StoreOf(tokens')
    BY <1>3 DEF SetDisabled, ReplaceToken, SaveTokens
  <2> HIDE DEF u
  <2>q. QED
    BY <2>1, <2>2
<1>4. ASSUME NEW expires \in Deadline, SetLifetime(t, expires)
      PROVE  /\ now' = now /\ store' = StoreOf(tokens') /\ issued' = issued
             /\ \E u \in TokenEntry :
                  /\ tokens' = (tokens \ {t}) \cup {u} /\ u.id = t.id
                  /\ u.value = t.value
                  /\ u.previous = t.previous /\ u.graceEnd = t.graceEnd
  <2> DEFINE u == [t EXCEPT !.expires = expires]
  <2>1. /\ u \in TokenEntry /\ u.id = t.id /\ u.value = t.value
        /\ u.previous = t.previous /\ u.graceEnd = t.graceEnd
    BY <1>2 DEF TokenEntry
  <2>2. /\ tokens' = (tokens \ {t}) \cup {u} /\ issued' = issued
        /\ now' = now /\ store' = StoreOf(tokens')
    BY <1>4 DEF SetLifetime, ReplaceToken, SaveTokens
  <2> HIDE DEF u
  <2>q. QED
    BY <2>1, <2>2
<1>5. CASE DeleteToken(t)
  BY <1>5 DEF DeleteToken, SaveTokens
<1>6. ASSUME NEW value \in Route, NEW graceEnd \in Deadline,
             RotateToken(t, value, graceEnd)
      PROVE  /\ now' = now /\ store' = StoreOf(tokens')
             /\ \E u \in TokenEntry :
                  /\ tokens' = (tokens \ {t}) \cup {u} /\ u.id = t.id
                  /\ u.value \in Route \ issued /\ TokenOf[u.value] = t.id
                  /\ u.previous = t.value /\ issued' = issued \cup {u.value}
  <2> DEFINE u == [t EXCEPT !.value = value, !.previous = t.value,
                            !.graceEnd = graceEnd]
  <2>1. /\ u \in TokenEntry /\ u.id = t.id /\ u.value = value
        /\ u.previous = t.value
    BY <1>2 DEF TokenEntry
  <2>2. /\ tokens' = (tokens \ {t}) \cup {u} /\ issued' = issued \cup {value}
        /\ value \notin issued /\ TokenOf[value] = t.id
        /\ now' = now /\ store' = StoreOf(tokens')
    BY <1>6 DEF RotateToken, ReplaceToken, SaveTokens
  <2> HIDE DEF u
  <2>q. QED
    BY <2>1, <2>2
<1>q. QED
  BY <1>1, <1>3, <1>4, <1>5, <1>6

\* The entries of a store, spelled out.
LEMMA InStoreOf ==
  ASSUME NEW list, NEW e
  PROVE  e \in StoreOf(list) <=>
           \E t \in list :
             \/ e = CurrentEntry(t)
             \/ HasPrevious(t) /\ ~Passed(t.graceEnd) /\ e = PreviousEntry(t)
BY DEF StoreOf, PreviousEntries

\* An entry of the store stands for a listed token's current or previous value.
LEMMA EntryOfToken ==
  ASSUME StoreCurrent, NEW e \in store
  PROVE  \E t \in tokens :
           e = CurrentEntry(t) \/ (HasPrevious(t) /\ e = PreviousEntry(t))
<1>1. CASE e \in StoreOf(tokens)
  BY <1>1, InStoreOf
<1>2. CASE e \notin StoreOf(tokens)
  BY <1>2 DEF StoreCurrent
<1>q. QED
  BY <1>1, <1>2

\* A deadline stays passed.
LEMMA PassedStays ==
  ASSUME TokensTypeOK, NEW deadline \in Deadline, Passed(deadline),
         now' = now \/ Tick
  PROVE  Passed(deadline)'
BY TokensAssumption DEF TokensTypeOK, Passed, Tick, Deadline, NoDeadline

\* A change keeps every token listed once and its values apart.
LEMMA DistinctStays ==
  ASSUME TokensTypeOK, TokensDistinct, ChangeTokens
  PROVE  TokensDistinct'
<1> USE DEF TokensTypeOK
<1>1. PICK t \in tokens :
        \/ tokens' = tokens \ {t} /\ issued' = issued
        \/ \E u \in TokenEntry :
             /\ tokens' = (tokens \ {t}) \cup {u} /\ u.id = t.id
             /\ \/ /\ issued' = issued /\ u.value = t.value
                   /\ u.previous = t.previous /\ u.graceEnd = t.graceEnd
                \/ /\ u.value \in Route \ issued /\ TokenOf[u.value] = t.id
                   /\ u.previous = t.value /\ issued' = issued \cup {u.value}
  BY ChangeEffect
<1>2. CASE tokens' = tokens \ {t} /\ issued' = issued
  BY <1>2 DEF TokensDistinct
<1>3. ASSUME NEW u \in TokenEntry,
             tokens' = (tokens \ {t}) \cup {u}, u.id = t.id,
             \/ /\ issued' = issued /\ u.value = t.value
                /\ u.previous = t.previous /\ u.graceEnd = t.graceEnd
             \/ /\ u.value \in Route \ issued /\ TokenOf[u.value] = t.id
                /\ u.previous = t.value /\ issued' = issued \cup {u.value}
      PROVE  TokensDistinct'
  <2>1. /\ u.value \in issued' /\ TokenOf[u.value] = u.id
        /\ u.previous # NoRoute =>
             /\ u.previous \in issued' /\ TokenOf[u.previous] = u.id
             /\ u.previous # u.value
    BY <1>3 DEF TokensDistinct
  <2>2. issued \subseteq issued'
    BY <1>3
  <2>q. QED
    BY <1>3, <2>1, <2>2 DEF TokensDistinct
<1>q. QED
  BY <1>1, <1>2, <1>3

\* Rebuilding and the clock keep the store in step with the list.
LEMMA StoreStep ==
  ASSUME TokensTypeOK, TokensDistinct, StoreCurrent,
         ChangeTokens \/ Tick \/ UNCHANGED tokenVars
  PROVE  TokensDistinct' /\ StoreCurrent'
<1> USE DEF TokensTypeOK
<1>1. CASE ChangeTokens
  <2>1. now' = now /\ store' = StoreOf(tokens')
    BY <1>1, ChangeEffect
  <2>2. StoreOf(tokens)' = StoreOf(tokens')
    BY <2>1 DEF StoreOf, PreviousEntries, Passed
  <2>q. QED
    BY <1>1, <2>1, <2>2, DistinctStays DEF StoreCurrent
<1>2. CASE Tick
  <2>0. UNCHANGED <<tokens, issued, store>>
    BY <1>2 DEF Tick
  <2>1. TokensDistinct'
    BY <2>0 DEF TokensDistinct
  <2>2. ASSUME NEW t \in tokens, Passed(t.graceEnd) PROVE Passed(t.graceEnd)'
    <3>1. t.graceEnd \in Deadline
      BY DEF TokenEntry
    <3>q. QED
      BY <1>2, <2>2, <3>1, PassedStays
  <2>3. ASSUME NEW e
        PROVE  e \in StoreOf(tokens)' <=>
                 \E t \in tokens :
                   \/ e = CurrentEntry(t)
                   \/ /\ HasPrevious(t) /\ ~Passed(t.graceEnd)'
                      /\ e = PreviousEntry(t)
    BY <2>0 DEF StoreOf, PreviousEntries, CurrentEntry, PreviousEntry, HasPrevious
  <2>4. StoreOf(tokens)' \subseteq StoreOf(tokens)
    BY <2>2, <2>3, InStoreOf
  <2>5. ASSUME NEW e \in store, e \notin StoreOf(tokens)'
        PROVE  \E t \in tokens :
                 HasPrevious(t) /\ Passed(t.graceEnd)' /\ e = PreviousEntry(t)
    BY <2>2, <2>3, <2>5, InStoreOf DEF StoreCurrent
  <2>6. StoreCurrent'
    BY <2>0, <2>4, <2>5 DEF StoreCurrent, HasPrevious, PreviousEntry
  <2>q. QED
    BY <2>1, <2>6
<1>3. CASE UNCHANGED tokenVars
  <2>1. UNCHANGED <<tokens, issued, store, now>>
    BY <1>3 DEF tokenVars
  <2>2. StoreOf(tokens)' = StoreOf(tokens)
    BY <2>1
       DEF StoreOf, PreviousEntries, CurrentEntry, PreviousEntry, HasPrevious, Passed
  <2>q. QED
    BY <2>1, <2>2
       DEF TokensDistinct, StoreCurrent, Passed, HasPrevious, PreviousEntry
<1>q. QED
  BY <1>1, <1>2, <1>3

LEMMA StoreInit ==
  TokensInit => TokensDistinct /\ StoreCurrent
<1> SUFFICES ASSUME TokensInit PROVE TokensDistinct /\ StoreCurrent
  OBVIOUS
<1>1. ASSUME NEW t \in tokens
      PROVE  \E k \in Token :
               t = [id |-> k, value |-> FirstRoute[k], disabled |-> FALSE,
                    expires |-> NoDeadline, previous |-> NoRoute,
                    graceEnd |-> NoDeadline]
  BY DEF TokensInit
<1>2. TokensDistinct
  <2>1. ASSUME NEW t \in tokens
        PROVE  /\ t.value = FirstRoute[t.id] /\ t.id \in Token
               /\ t.previous = NoRoute
    BY <1>1
  <2>2. ASSUME NEW t \in tokens, NEW u \in tokens, t.id = u.id PROVE t = u
    <3>1. \A v \in tokens :
            v = [id |-> v.id, value |-> FirstRoute[v.id], disabled |-> FALSE,
                 expires |-> NoDeadline, previous |-> NoRoute,
                 graceEnd |-> NoDeadline]
      BY <1>1
    <3>q. QED
      BY <2>2, <3>1
  <2>q. QED
    BY <2>1, <2>2, TokensAssumption DEF TokensInit, TokensDistinct
<1>q. QED
  BY <1>2 DEF TokensInit, StoreCurrent

\* What lookup, activeIDs and legacyExpired answer.
LEMMA StoreAnswers ==
  TokensTypeOK /\ TokensDistinct /\ StoreCurrent => StoreDecides
<1> SUFFICES ASSUME TokensTypeOK, TokensDistinct, StoreCurrent PROVE StoreDecides
  OBVIOUS
<1> USE DEF TokensTypeOK
<1>1. ASSUME NEW value \in Route
      PROVE  /\ (\E t \in tokens : Owed(t, value)) => MayAuthorize(value)
             /\ MayAuthorize(value) => \E t \in tokens : Permitted(t, value)
  <2>1. ASSUME MayAuthorize(value) PROVE \E t \in tokens : Permitted(t, value)
    <3>1. PICK e \in store :
            /\ e.value = value /\ ~(e.legacy /\ Passed(e.expires))
            /\ ~e.disabled /\ ~(~e.legacy /\ Passed(e.expires))
      BY <2>1 DEF MayAuthorize, Lookup
    <3>2. PICK t \in tokens :
            e = CurrentEntry(t) \/ (HasPrevious(t) /\ e = PreviousEntry(t))
      BY EntryOfToken
    <3>q. QED
      BY <3>1, <3>2 DEF Permitted, InWindow, CurrentEntry, HasPrevious, PreviousEntry
  <2>2. ASSUME NEW t \in tokens, Owed(t, value) PROVE MayAuthorize(value)
    <3>1. CASE value = t.value
      <4>1. CurrentEntry(t) \in store
        BY InStoreOf DEF StoreCurrent
      <4>q. QED
        BY <2>2, <3>1, <4>1 DEF Owed, MayAuthorize, Lookup, CurrentEntry
    <3>2. CASE InWindow(t, value)
      <4>1. PreviousEntry(t) \in store
        BY <1>1, <3>2, InStoreOf, TokensAssumption DEF InWindow, StoreCurrent, HasPrevious
      <4>q. QED
        BY <2>2, <3>2, <4>1 DEF Owed, InWindow, MayAuthorize, Lookup, PreviousEntry
    <3>q. QED
      BY <2>2, <3>1, <3>2 DEF Owed
  <2>q. QED
    BY <2>1, <2>2
<1>2. ActiveTokens = {t \in Token : InForce(t)}
  <2>1. ASSUME NEW k \in ActiveTokens PROVE k \in Token /\ InForce(k)
    <3>1. PICK e \in store :
            TokenOf[e.value] = k /\ ~e.disabled /\ ~e.legacy /\ ~Passed(e.expires)
      BY <2>1 DEF ActiveTokens
    <3>2. PICK t \in tokens : e = CurrentEntry(t)
      BY <3>1, EntryOfToken DEF PreviousEntry
    <3>3. t.id = k /\ ~t.disabled /\ ~Passed(t.expires) /\ t \in TokenEntry
      BY <3>1, <3>2 DEF CurrentEntry, TokensDistinct
    <3>q. QED
      BY <3>3 DEF InForce, TokenEntry
  <2>2. ASSUME NEW k \in Token, InForce(k) PROVE k \in ActiveTokens
    <3>1. PICK t \in tokens : t.id = k /\ ~t.disabled /\ ~Passed(t.expires)
      BY <2>2 DEF InForce
    <3>2. CurrentEntry(t) \in store
      BY InStoreOf DEF StoreCurrent
    <3>3. TokenOf[CurrentEntry(t).value] = k
      BY <3>1 DEF TokensDistinct, CurrentEntry
    <3>q. QED
      BY <3>1, <3>2, <3>3 DEF ActiveTokens, CurrentEntry
  <2>q. QED
    BY <2>1, <2>2
<1>3. ASSUME NEW e \in store, NEW f \in store,
             \/ e.value = f.value
             \/ e.legacy /\ f.legacy /\ TokenOf[e.value] = TokenOf[f.value]
      PROVE  e = f
  <2>1. PICK t \in tokens :
          e = CurrentEntry(t) \/ (HasPrevious(t) /\ e = PreviousEntry(t))
    BY EntryOfToken
  <2>2. PICK u \in tokens :
          f = CurrentEntry(u) \/ (HasPrevious(u) /\ f = PreviousEntry(u))
    BY EntryOfToken
  <2>3. TokenOf[e.value] = t.id /\ TokenOf[f.value] = u.id
    BY <2>1, <2>2 DEF TokensDistinct, CurrentEntry, HasPrevious, PreviousEntry
  <2>4. t = u
    BY <1>3, <2>3 DEF TokensDistinct
  <2>5. HasPrevious(t) => t.previous # t.value
    BY DEF TokensDistinct, HasPrevious
  <2>6. /\ CurrentEntry(t).value = t.value /\ ~CurrentEntry(t).legacy
        /\ PreviousEntry(t).value = t.previous
    BY DEF CurrentEntry, PreviousEntry
  <2>q. QED
    BY <1>3, <2>1, <2>2, <2>4, <2>5, <2>6
<1>q. QED
  BY <1>1, <1>2, <1>3 DEF StoreDecides

-----------------------------------------------------------------------------
(***************************************************************************)
(* Arming before closing.                                                  *)
(***************************************************************************)
ArmedInv == CodesArmed /\ \A d \in Dropper : MembersArmed(d)

\* Arming is kept, and whom the administrator kicks stays armed.
LEMMA KickedStays ==
  ASSUME PairingInv, CodesArmed, ArmingKept, UNCHANGED kick,
         \A p \in Session : armedCode'[p] \in {armedCode[p], "disabled"}
  PROVE  CodesArmed'
BY DEF PairingInv, CodesArmed, Actionable, ArmingKept

LEMMA ServerKeepsCodes ==
  ASSUME TypeOK, PairingInv, CodesArmed, Next
  PROVE  CodesArmed'
<1>1. ASSUME NEW p, NEW code, CloseWith(p, code) PROVE armedCode' = armedCode
  BY <1>1 DEF CloseWith
<1>k. kick.at # "idle" => kick.session \in Session
  BY DEF PairingInv
<1>2. ASSUME armedCode' = armedCode,
             \/ kick'.at \notin {"text", "close"}
             \/ kick' = kick
             \/ kick.at = "text" /\ kick'.session = kick.session
      PROVE  CodesArmed'
  BY <1>2 DEF CodesArmed, Actionable
<1>3. CASE KickArmCode
  <2>1. kick.at = "code" /\ kick'.session = kick.session
    BY <1>3 DEF KickArmCode, KickStep
  <2>2. CASE /\ armedCode[kick.session] = "none"
             /\ armedCode' = [armedCode EXCEPT ![kick.session] = "kicked"]
    BY <1>k, <2>1, <2>2 DEF TypeOK, ParticipantTypeOK, CodesArmed, Actionable
  <2>3. CASE armedCode[kick.session] # "none" /\ armedCode' = armedCode
    BY <1>k, <2>1, <2>3 DEF CodesArmed, Actionable
  <2>q. QED
    BY <1>3, <2>2, <2>3 DEF KickArmCode, ArmCode, participantVars
<1>4. CASE ~KickArmCode
  <2>1. ASSUME NEW p \in Session,
               \/ Handler(p) \/ Connect(p)
               \/ Reader(p) \/ ReadNonBinary(p) \/ ReadEarly(p) \/ ReadFrame(p)
               \/ KeepAliveFails(p) \/ Break(p)
        PROVE  armedCode' = armedCode /\ kick' = kick
    BY <1>1, <2>1
       DEF Handler, Connect, FailHello, EnterGroup, RejectDuplicate, Enqueue,
           Track, Report, AwaitPaired, AwaitDone, AwaitTimeout, CloseExpired,
           UntrackAndDequeue, ExitGroup, EmitDisconnected, Reader, ReadError,
           CloseEarly, OfferTaken, OfferAborted, ReaderExit, ReadNonBinary,
           ReadEarly, ReadFrame, KeepAliveFails, Abort, Break,
           BreakConnection, participantVars, serverVars
  <2>2. ASSUME NEW p \in Session, Bridge(p) \/ Relaying(p) \/ Flusher(p)
        PROVE  armedCode' = armedCode /\ kick' = kick
    BY <1>1, <2>2, RelayingFrame
       DEF Bridge, BridgeStart, GreetEdge, GreetTarget, GreetFails, EmitPaired,
           BridgeEnds, CloseEdgeEnd, CloseTargetEnd, participantVars
  <2>3. ASSUME NEW p \in Session, KickLookup(p)
        PROVE  armedCode' = armedCode /\ kick'.at = "code"
    BY <2>3 DEF KickLookup, KickStep, participantVars
  <2>4. CASE KickArmText
    BY <1>2, <2>4 DEF KickArmText, KickStep, ArmText
  <2>5. CASE KickClose
    BY <1>1, <1>2, <2>5 DEF KickClose, KickStep
  <2>6. CASE Shutdown
    BY <1>2, <2>6 DEF Shutdown
  <2>7. CASE Finished
    BY <1>2, <2>7 DEF Finished, vars, participantVars, serverVars
  <2>q. QED
    BY <1>2, <1>4, <2>1, <2>2, <2>3, <2>4, <2>5, <2>6, <2>7 DEF Next, Kicker
<1>q. QED
  BY <1>3, <1>4

\* A dropper that does not step keeps its members armed.
LEMMA OthersArmed ==
  ASSUME AllTypeOK, ArmingKept, NEW d \in Dropper, MembersArmed(d),
         drop'[d] = drop[d]
  PROVE  MembersArmed(d)'
<1>1. drop[d].members \subseteq Session /\ drop[d].left \subseteq Session
  BY DEF AllTypeOK, RevocationTypeOK, DropState
<1>2. \A p \in Session : Actionable(p) => Actionable(p)'
  BY DEF ArmingKept, Actionable
<1>q. QED
  BY <1>1, <1>2 DEF MembersArmed

\* The dropper that steps: it moves a member from "left" only after arming it,
\* and begins to close when none is left.
LEMMA DropArming ==
  ASSUME AllTypeOK, PairingInv, ArmedInv, NEW d \in Dropper, DropInactiveGroups(d)
  PROVE  ArmingKept /\ CodesArmed' /\ MembersArmed(d)'
<1>1. /\ drop \in [Dropper -> DropState]
      /\ drop[d].members \subseteq Session /\ drop[d].left \subseteq Session
  BY DEF AllTypeOK, RevocationTypeOK, DropState
<1>2. ParticipantTypeOK /\ CodesArmed /\ MembersArmed(d)
  BY DEF AllTypeOK, TypeOK, ArmedInv
<1>3. ASSUME UNCHANGED vars PROVE ArmingKept /\ CodesArmed'
  BY <1>2, <1>3
     DEF vars, participantVars, serverVars, ArmingKept, CodesArmed, Actionable
<1>4. CASE DropActive(d) \/ DropList(d) \/ DropDone(d) \/ DropClosed(d)
  <2>1. drop'[d].at \notin {"arm", "close"}
    BY <1>1, <1>4
       DEF DropActive, DropList, DropDone, DropClosed, Idle, DropState
  <2>2. ArmingKept /\ CodesArmed'
    BY <1>3, <1>4 DEF DropActive, DropList, DropDone, DropClosed
  <2>q. QED
    BY <2>1, <2>2 DEF MembersArmed
<1>5. CASE DropGroup(d)
  <2>1. drop'[d].at # "close" /\ drop'[d].members = drop'[d].left
    <3> DEFINE Members(t) == groups[t].targets \cup groups[t].edges
    <3>1. PICK t \in drop[d].ids, at \in {"next", "arm"} :
            drop' = [drop EXCEPT ![d].at = at, ![d].ids = @ \ {t},
                                 ![d].members = Members(t), ![d].left = Members(t)]
      BY <1>5 DEF DropGroup
    <3> HIDE DEF Members
    <3>q. QED
      BY <1>1, <3>1 DEF DropState
  <2>2. ArmingKept /\ CodesArmed'
    BY <1>3, <1>5 DEF DropGroup
  <2>q. QED
    BY <2>1, <2>2 DEF MembersArmed
<1>6. CASE DropArm(d)
  <2>1. PICK p \in drop[d].left :
          /\ drop' = [drop EXCEPT ![d].left = @ \ {p}]
          /\ \/ armedCode[p] = "none"
                /\ armedCode' = [armedCode EXCEPT ![p] = "disabled"]
             \/ armedCode[p] # "none" /\ armedCode' = armedCode
    BY <1>6 DEF DropArm
  <2>2. ArmingKept /\ CodesArmed' /\ Actionable(p)'
    <3>1. ArmingKept /\ Actionable(p)'
      BY <1>1, <1>2, <1>6, <2>1
         DEF DropArm, ParticipantTypeOK, ArmingKept, CodesArmed, Actionable
    <3>2. UNCHANGED kick /\ \A q \in Session : armedCode'[q] \in {armedCode[q], "disabled"}
      BY <1>2, <1>6, <2>1 DEF DropArm, serverVars, ParticipantTypeOK
    <3>q. QED
      BY <1>2, <3>1, <3>2, KickedStays
  <2>3. /\ drop'[d].at = "arm" /\ drop'[d].members = drop[d].members
        /\ drop'[d].left = drop[d].left \ {p}
    BY <1>1, <1>6, <2>1 DEF DropArm, DropStep, DropState
  <2>4. \A q \in drop[d].members \ drop[d].left : Actionable(q)'
    BY <1>1, <1>2, <1>6, <2>2
       DEF DropArm, DropStep, MembersArmed, ArmingKept, Actionable
  <2>q. QED
    BY <2>2, <2>3, <2>4 DEF MembersArmed
<1>7. CASE DropArmed(d)
  <2>1. /\ drop[d].at = "arm" /\ drop[d].left = {} /\ drop'[d].at = "close"
        /\ drop'[d].left = drop[d].members
    BY <1>1, <1>7 DEF DropArmed, DropStep, DropState
  <2>2. ArmingKept /\ CodesArmed' /\ armedCode' = armedCode
    BY <1>3, <1>7 DEF DropArmed, vars, participantVars
  <2>q. QED
    BY <1>2, <2>1, <2>2 DEF MembersArmed, Actionable
<1>8. CASE DropClose(d)
  <2>1. PICK p \in drop[d].left :
          CloseWith(p, "disabled") /\ drop' = [drop EXCEPT ![d].left = @ \ {p}]
    BY <1>8 DEF DropClose
  <2>2. ArmingKept /\ armedCode' = armedCode
    BY <1>2, <2>1, CloseKeepsArming DEF CloseWith
  <2>3. /\ drop[d].at = "close" /\ drop'[d].at = "close"
        /\ drop'[d].left \subseteq drop[d].left
    BY <1>1, <1>8, <2>1 DEF DropClose, DropStep, DropState
  <2>4. UNCHANGED kick
    BY <1>8 DEF DropClose, serverVars
  <2>q. QED
    BY <1>2, <2>2, <2>3, <2>4 DEF MembersArmed, CodesArmed, Actionable
<1>q. QED
  BY <1>4, <1>5, <1>6, <1>7, <1>8 DEF DropInactiveGroups

\* The sweep's first loops touch no session, and FilterDone has armed none yet.
LEMMA SweepArming ==
  ASSUME AllTypeOK, PairingInv, ArmedInv, SweepBegin \/ FilterLegacy \/ FilterDone
  PROVE  ArmingKept /\ CodesArmed' /\ MembersArmed("sweep")'
<1>1. drop \in [Dropper -> DropState] /\ "sweep" \in Dropper
  BY DEF AllTypeOK, RevocationTypeOK, Dropper
<1>2. UNCHANGED vars
  BY DEF SweepBegin, FilterLegacy, FilterDone
<1>3. ArmingKept /\ CodesArmed'
  BY <1>2
     DEF vars, participantVars, serverVars, ArmingKept, ArmedInv, CodesArmed, Actionable
<1>4. CASE SweepBegin
  <2>1. drop'["sweep"].at \in {"active", "filter"}
    BY <1>1, <1>4 DEF SweepBegin, Idle
  <2>q. QED
    BY <1>3, <2>1 DEF MembersArmed
<1>5. CASE FilterLegacy
  <2>1. drop'["sweep"].at = "filter"
    BY <1>1, <1>5 DEF FilterLegacy, DropStep, DropState
  <2>q. QED
    BY <1>3, <2>1 DEF MembersArmed
<1>6. CASE FilterDone
  <2>1. drop'["sweep"].at = "arm" /\ drop'["sweep"].left = drop'["sweep"].members
    BY <1>1, <1>6 DEF FilterDone, DropState
  <2>q. QED
    BY <1>3, <2>1 DEF MembersArmed
<1>q. QED
  BY <1>4, <1>5, <1>6

LEMMA ArmedStep ==
  AllTypeOK /\ PairingInv /\ ArmedInv /\ [RevocationNext]_allVars =>
    /\ ArmedInv'
    /\ ArmingKept
<1> SUFFICES ASSUME AllTypeOK, PairingInv, ArmedInv, [RevocationNext]_allVars
             PROVE  ArmedInv' /\ ArmingKept
  OBVIOUS
<1>1. TypeOK /\ CodesArmed /\ drop \in [Dropper -> DropState]
  BY DEF AllTypeOK, RevocationTypeOK, ArmedInv
<1>2. CASE UNCHANGED vars /\ UNCHANGED drop
  BY <1>2 DEF vars, participantVars, serverVars, ArmedInv, CodesArmed, MembersArmed,
              Actionable, ArmingKept
<1>3. CASE ServerStep
  <2>1. ArmingKept /\ CodesArmed'
    BY <1>1, <1>3, ServerKeepsArming, ServerKeepsCodes DEF ServerStep
  <2>2. drop' = drop
    BY <1>3 DEF ServerStep, revocationVars
  <2>q. QED
    BY <2>1, <2>2, OthersArmed DEF ArmedInv
<1>4. CASE Change
  <2>1. ArmingKept /\ CodesArmed'
    BY <1>1, <1>4
       DEF Change, vars, participantVars, serverVars, ArmingKept, CodesArmed, Actionable
  <2>2. /\ drop'["update"].at = "active"
        /\ \A d \in Dropper \ {"update"} : drop'[d] = drop[d]
    BY <1>1, <1>4 DEF Change, Dropper, DropState
  <2>3. MembersArmed("update")'
    BY <2>2 DEF MembersArmed
  <2>q. QED
    BY <2>1, <2>2, <2>3, OthersArmed DEF ArmedInv
<1>5. ASSUME NEW d \in Dropper, DropInactiveGroups(d)
      PROVE  ArmedInv' /\ ArmingKept
  <2>1. ArmingKept /\ CodesArmed' /\ MembersArmed(d)'
    BY <1>5, DropArming
  <2>2. \A e \in Dropper \ {d} : drop'[e] = drop[e]
    BY <1>1, <1>5
       DEF DropInactiveGroups, DropActive, DropList, DropGroup, DropDone,
           DropArm, DropArmed, DropClose, DropClosed
  <2>q. QED
    BY <2>1, <2>2, OthersArmed DEF ArmedInv
<1>6. CASE SweepBegin \/ FilterLegacy \/ FilterDone
  <2>1. ArmingKept /\ CodesArmed' /\ MembersArmed("sweep")'
    BY <1>6, SweepArming
  <2>2. \A e \in Dropper \ {"sweep"} : drop'[e] = drop[e]
    BY <1>1, <1>6 DEF SweepBegin, FilterLegacy, FilterDone
  <2>q. QED
    BY <2>1, <2>2, OthersArmed DEF ArmedInv
<1>7. {"update", "sweep"} \subseteq Dropper
  BY DEF Dropper
<1>8. CASE TimePasses \/ \E p \in Session : Authorize(p)
  BY <1>2, <1>8 DEF TimePasses, Authorize, revocationVars
<1>9. CASE UNCHANGED allVars
  BY <1>2, <1>9 DEF allVars, revocationVars
<1>q. QED
  BY <1>3, <1>4, <1>5, <1>6, <1>7, <1>8, <1>9 DEF RevocationNext, Sweep

-----------------------------------------------------------------------------
(***************************************************************************)
(* The sessions, the groups and the registry, beside the drops.            *)
(***************************************************************************)

\* A handler does not return to the positions before groups.join.
LEMMA HandlersAdvance ==
  ASSUME TypeOK, Next, NEW p \in Session, handler[p] \notin {"new", "hello"}
  PROVE  handler'[p] \notin {"new", "hello"}
<1>1. ASSUME NEW q \in Session, NEW from, NEW to, HandlerStep(q, from, to),
             to \notin {"new", "hello"} \/ from = "new"
      PROVE  handler'[p] \notin {"new", "hello"}
  BY <1>1 DEF HandlerStep, TypeOK, ServerTypeOK
<1>2. CASE handler' = handler
  BY <1>2
<1>3. ASSUME NEW q \in Session, Connect(q)
      PROVE  handler'[p] \notin {"new", "hello"}
  <2>1. \E to : HandlerStep(q, "new", to)
    BY <1>3 DEF Connect
  <2>q. QED
    BY <1>1, <2>1
<1>4. ASSUME NEW q \in Session, AwaitTimeout(q)
      PROVE  handler'[p] \notin {"new", "hello"}
  <2>1. \E to \in {"expired", "serving"} : HandlerStep(q, "await", to)
    BY <1>4 DEF AwaitTimeout
  <2>q. QED
    BY <1>1, <2>1
<1>5. ASSUME NEW q \in Session, Handler(q)
      PROVE  handler'[p] \notin {"new", "hello"}
  BY <1>1, <1>4, <1>5
     DEF Handler, FailHello, EnterGroup, RejectDuplicate, Enqueue, Track, Report,
         AwaitPaired, AwaitDone, CloseExpired, UntrackAndDequeue, ExitGroup,
         EmitDisconnected
<1>6. ASSUME NEW q \in Session,
             \/ Reader(q) \/ ReadNonBinary(q) \/ ReadEarly(q) \/ ReadFrame(q)
             \/ KeepAliveFails(q) \/ KickLookup(q) \/ Break(q)
      PROVE  handler' = handler
  BY <1>6
     DEF Reader, ReadError, CloseEarly, OfferTaken, OfferAborted, ReaderExit,
         ReadNonBinary, ReadEarly, ReadFrame, KeepAliveFails, KickLookup, KickStep,
         Break, serverVars
<1>7. ASSUME NEW q \in Session, Bridge(q) \/ Relaying(q) \/ Flusher(q)
      PROVE  handler' = handler
  BY <1>7, RelayingFrame
     DEF Bridge, BridgeStart, GreetEdge, GreetTarget, GreetFails, EmitPaired,
         BridgeEnds, CloseEdgeEnd, CloseTargetEnd
<1>8. CASE Kicker
  BY <1>2, <1>8 DEF Kicker, KickArmCode, KickArmText, KickClose, KickStep
<1>9. CASE Shutdown \/ Finished
  BY <1>2, <1>9 DEF Shutdown, Finished, vars, serverVars
<1>q. QED
  BY <1>2, <1>3, <1>5, <1>6, <1>7, <1>8, <1>9 DEF Next

\* A drop disturbs neither the groups nor the pairs: what it arms and closes has
\* joined.
LEMMA DropKeepsSessions ==
  ASSUME AllTypeOK, GroupInv, PairingInv, DropsAdmitted,
         NEW d \in Dropper, DropInactiveGroups(d)
  PROVE  GroupInv' /\ PairingInv'
<1>1. TypeOK /\ GroupsTypeOK /\ ParticipantTypeOK
  BY DEF AllTypeOK, TypeOK
<1>2. drop[d].left \subseteq Session
  BY DEF AllTypeOK, RevocationTypeOK, DropState
<1>3. ASSUME UNCHANGED vars PROVE GroupInv' /\ PairingInv'
  BY <1>1, <1>3, GroupsStep, PairingStep
<1>4. ASSUME UNCHANGED <<groups, serverVars>>, \A s \in Session : done[s] => done'[s]
      PROVE  GroupInv'
  BY <1>1, <1>4, GroupStable DEF serverVars, InGroup
<1>5. ASSUME UNCHANGED kick, UNCHANGED handler
      PROVE  kick'.at # "idle" => kick'.session \in Session /\ ~Early(kick'.session)
  BY <1>5 DEF PairingInv
<1>6. CASE DropArm(d)
  <2>1. \A s \in Session : armedCode'[s] \in {armedCode[s], "kicked", "disabled"}
    BY <1>1, <1>6 DEF DropArm, ParticipantTypeOK
  <2>2. UNCHANGED <<done, frame, registryVars, groups, serverVars>>
        /\ UNCHANGED <<handler, reader, bridge, kick>>
    BY <1>6 DEF DropArm, serverVars
  <2>3. kick'.at # "idle" => kick'.session \in Session /\ ~Early(kick'.session)
    BY <1>5, <2>2
  <2>4. PairingInv'
    BY <1>1, <2>1, <2>2, <2>3, QuietKeeps
  <2>q. QED
    BY <1>4, <2>2, <2>4
<1>7. CASE DropClose(d)
  <2>1. PICK p \in drop[d].left : CloseWith(p, "disabled")
    BY <1>7 DEF DropClose
  <2>2. p \in Session /\ handler[p] \notin {"new", "hello"}
    BY <1>2, <2>1 DEF DropsAdmitted
  <2>3. UNCHANGED <<groups, registryVars, serverVars>>
        /\ UNCHANGED <<handler, reader, bridge, kick>>
    BY <1>7 DEF DropClose, serverVars
  <2>4. "disabled" \in CloseCode \ {"tryAgain"}
    BY DEF CloseCode
  <2>5. PairingInv'
    BY <1>1, <2>1, <2>2, <2>3, <2>4, CloseKeeps
  <2>6. \A s \in Session : done[s] => done'[s]
    BY <1>1, <2>1, <2>2, <2>4, CloseWithEffect DEF ParticipantTypeOK
  <2>q. QED
    BY <1>4, <2>3, <2>5, <2>6
<1>q. QED
  BY <1>3, <1>6, <1>7
     DEF DropInactiveGroups, DropActive, DropList, DropGroup, DropDone, DropArmed,
         DropClosed

LEMMA SessionsStep ==
  ASSUME AllTypeOK, GroupInv, PairingInv, DropsAdmitted, [RevocationNext]_allVars
  PROVE  GroupInv' /\ PairingInv'
<1>1. TypeOK
  BY DEF AllTypeOK
<1>2. ASSUME [Next]_vars PROVE GroupInv' /\ PairingInv'
  BY <1>1, <1>2, GroupsStep, PairingStep
<1>3. CASE ServerStep
  BY <1>2, <1>3 DEF ServerStep
<1>4. ASSUME NEW d \in Dropper, DropInactiveGroups(d) PROVE GroupInv' /\ PairingInv'
  BY <1>4, DropKeepsSessions
<1>5. {"update", "sweep"} \subseteq Dropper
  BY DEF Dropper
<1>6. CASE SweepBegin \/ FilterLegacy \/ FilterDone \/ TimePasses \/ Change
           \/ (\E p \in Session : Authorize(p)) \/ UNCHANGED allVars
  BY <1>2, <1>6
     DEF SweepBegin, FilterLegacy, FilterDone, TimePasses, Change, Authorize, allVars
<1>q. QED
  BY <1>3, <1>4, <1>5, <1>6 DEF RevocationNext, Sweep

-----------------------------------------------------------------------------
(***************************************************************************)
(* What the droppers hold.                                                 *)
(***************************************************************************)

\* The members DropGroup takes from the group of t.
MembersOf(t) == groups[t].targets \cup groups[t].edges

\* What the next value of drop[d] holds, field by field.
Becomes(d, at, legacy, active, ids, members, left) ==
  /\ drop'[d].at = at /\ drop'[d].legacy = legacy
  /\ drop'[d].active = active /\ drop'[d].ids = ids
  /\ drop'[d].members = members /\ drop'[d].left = left

\* A step of dropInactiveGroups, by its local variables.
LEMMA DropMove ==
  ASSUME AllTypeOK, NEW d \in Dropper, DropInactiveGroups(d)
  PROVE  /\ UNCHANGED <<tokenVars, admission, changes, handler>>
         /\ \A e \in Dropper \ {d} : drop'[e] = drop[e]
         /\ \/ /\ drop[d].at = "active"
               /\ Becomes(d, "list", drop[d].legacy, ActiveTokens, drop[d].ids,
                          drop[d].members, drop[d].left)
            \/ /\ drop[d].at = "list"
               /\ Becomes(d, "next", drop[d].legacy, {},
                    {t \in Token : groups[t] # EmptyGroup} \ drop[d].active,
                    drop[d].members, drop[d].left)
            \/ /\ drop[d].at = "next"
               /\ \E t \in drop[d].ids, at \in {"next", "arm"} :
                    /\ at = "next" <=> MembersOf(t) = {}
                    /\ Becomes(d, at, drop[d].legacy, drop[d].active,
                               drop[d].ids \ {t}, MembersOf(t), MembersOf(t))
            \/ /\ drop[d].at = "next" /\ drop[d].ids = {}
               /\ Becomes(d, "idle", FALSE, {}, {}, {}, {})
            \/ /\ drop[d].at = "arm"
               /\ \E p \in drop[d].left :
                    Becomes(d, "arm", drop[d].legacy, drop[d].active, drop[d].ids,
                            drop[d].members, drop[d].left \ {p})
            \/ /\ drop[d].at = "arm" /\ drop[d].left = {}
               /\ Becomes(d, "close", drop[d].legacy, drop[d].active, drop[d].ids,
                          {}, drop[d].members)
            \/ /\ drop[d].at = "close"
               /\ \E p \in drop[d].left :
                    /\ done'[p]
                    /\ Becomes(d, "close", drop[d].legacy, drop[d].active,
                               drop[d].ids, drop[d].members, drop[d].left \ {p})
            \/ /\ drop[d].at = "close" /\ drop[d].left = {}
               /\ \/ drop[d].legacy /\ drop'[d].at = "active"
                  \/ ~drop[d].legacy /\ drop'[d].at = "next"
               /\ Becomes(d, drop'[d].at, FALSE, drop[d].active, drop[d].ids,
                          drop[d].members, drop[d].left)
<1> USE DEF Becomes
<1>1. /\ drop \in [Dropper -> DropState] /\ drop[d] \in DropState
      /\ drop[d].left \subseteq Session
      /\ drop[d] = [at |-> drop[d].at, legacy |-> drop[d].legacy,
                    active |-> drop[d].active, ids |-> drop[d].ids,
                    members |-> drop[d].members, left |-> drop[d].left]
      /\ ParticipantTypeOK
  BY DEF AllTypeOK, TypeOK, RevocationTypeOK, DropState
<1>2. UNCHANGED <<tokenVars, admission, changes, handler>>
  BY DEF DropInactiveGroups, DropActive, DropList, DropGroup, DropDone, DropArm,
         DropArmed, DropClose, DropClosed, DropStep, vars, serverVars
<1>3. \A e \in Dropper \ {d} : drop'[e] = drop[e]
  BY <1>1
     DEF DropInactiveGroups, DropActive, DropList, DropGroup, DropDone, DropArm,
         DropArmed, DropClose, DropClosed
<1>4. CASE DropActive(d)
  BY <1>1, <1>2, <1>3, <1>4 DEF DropActive, DropStep
<1>5. CASE DropList(d)
  BY <1>1, <1>2, <1>3, <1>5 DEF DropList, DropStep
<1>6. CASE DropGroup(d)
  <2>1. PICK t \in drop[d].ids :
          drop' = [drop EXCEPT
            ![d].at = IF MembersOf(t) = {} THEN "next" ELSE "arm",
            ![d].ids = drop[d].ids \ {t},
            ![d].members = MembersOf(t), ![d].left = MembersOf(t)]
    BY <1>1, <1>6 DEF DropGroup, MembersOf
  <2> DEFINE at == IF MembersOf(t) = {} THEN "next" ELSE "arm"
  <2>2. at \in {"next", "arm"} /\ (at = "next" <=> MembersOf(t) = {})
    OBVIOUS
  <2>3. Becomes(d, at, drop[d].legacy, drop[d].active, drop[d].ids \ {t},
                MembersOf(t), MembersOf(t))
    BY <1>1, <2>1
  <2> HIDE DEF at
  <2>q. QED
    BY <1>2, <1>3, <1>6, <2>2, <2>3 DEF DropGroup, DropStep
<1>7. CASE DropDone(d)
  BY <1>1, <1>2, <1>3, <1>7 DEF DropDone, DropStep, Idle
<1>8. CASE DropArm(d)
  BY <1>1, <1>2, <1>3, <1>8 DEF DropArm, DropStep
<1>9. CASE DropArmed(d)
  BY <1>1, <1>2, <1>3, <1>9 DEF DropArmed, DropStep
<1>10. CASE DropClose(d)
  <2>1. PICK p \in drop[d].left :
          CloseWith(p, "disabled") /\ drop' = [drop EXCEPT ![d].left = @ \ {p}]
    BY <1>10 DEF DropClose
  <2>2. "disabled" \in CloseCode
    BY DEF CloseCode
  <2>3. done'[p]
    BY <1>1, <2>1, <2>2, CloseWithEffect DEF ParticipantTypeOK
  <2>4. Becomes(d, drop[d].at, drop[d].legacy, drop[d].active, drop[d].ids,
                drop[d].members, drop[d].left \ {p})
    BY <1>1, <2>1
  <2>q. QED
    BY <1>2, <1>3, <1>10, <2>3, <2>4 DEF DropClose, DropStep
<1>11. CASE DropClosed(d)
  BY <1>1, <1>2, <1>3, <1>11 DEF DropClosed, DropStep
<1>q. QED
  BY <1>4, <1>5, <1>6, <1>7, <1>8, <1>9, <1>10, <1>11 DEF DropInactiveGroups

\* The tracked sessions admitted with a previous value.
Candidates == {p \in Session : Tracked(p) /\ admission[p] = "legacy"}

\* A step of dropExpiredLegacy before its loops, by its local variables.
LEMMA SweepMove ==
  ASSUME AllTypeOK, SweepBegin \/ FilterLegacy \/ FilterDone
  PROVE  /\ UNCHANGED <<vars, tokenVars, admission, changes>>
         /\ drop'["update"] = drop["update"]
         /\ \/ /\ drop["sweep"].at = "idle"
               /\ Becomes("sweep", IF Candidates = {} THEN "active" ELSE "filter",
                          Candidates # {}, {}, {}, {}, Candidates)
            \/ /\ drop["sweep"].at = "filter"
               /\ \E p \in drop["sweep"].left :
                    /\ Becomes("sweep", "filter", drop["sweep"].legacy,
                               drop["sweep"].active, drop["sweep"].ids,
                               drop'["sweep"].members, drop["sweep"].left \ {p})
                    /\ \/ drop'["sweep"].members = drop["sweep"].members
                          /\ ~LegacyExpired(GroupOf(p))
                       \/ drop'["sweep"].members = drop["sweep"].members \cup {p}
                          /\ LegacyExpired(GroupOf(p))
            \/ /\ drop["sweep"].at = "filter" /\ drop["sweep"].left = {}
               /\ Becomes("sweep", "arm", drop["sweep"].legacy,
                          drop["sweep"].active, drop["sweep"].ids,
                          drop["sweep"].members, drop["sweep"].members)
<1> USE DEF Becomes
<1>1. /\ drop \in [Dropper -> DropState] /\ "sweep" \in Dropper /\ "update" \in Dropper
      /\ drop["sweep"] = [at |-> drop["sweep"].at, legacy |-> drop["sweep"].legacy,
                          active |-> drop["sweep"].active, ids |-> drop["sweep"].ids,
                          members |-> drop["sweep"].members,
                          left |-> drop["sweep"].left]
  BY DEF AllTypeOK, RevocationTypeOK, Dropper, DropState
<1>2. UNCHANGED <<vars, tokenVars, admission, changes>>
  BY DEF SweepBegin, FilterLegacy, FilterDone, DropStep
<1>3. drop'["update"] = drop["update"]
  BY <1>1 DEF SweepBegin, FilterLegacy, FilterDone
<1>4. CASE SweepBegin
  BY <1>1, <1>2, <1>3, <1>4 DEF SweepBegin, DropStep, Candidates, Idle
<1>5. CASE FilterLegacy
  <2>1. PICK p \in drop["sweep"].left :
          drop' = [drop EXCEPT
            !["sweep"].left = drop["sweep"].left \ {p},
            !["sweep"].members = IF LegacyExpired(GroupOf(p))
                                   THEN drop["sweep"].members \cup {p}
                                   ELSE drop["sweep"].members]
    BY <1>1, <1>5 DEF FilterLegacy
  <2> DEFINE m == IF LegacyExpired(GroupOf(p)) THEN drop["sweep"].members \cup {p}
                                               ELSE drop["sweep"].members
  <2>2. drop' = [drop EXCEPT !["sweep"].left = drop["sweep"].left \ {p},
                             !["sweep"].members = m]
    BY <2>1
  <2> HIDE DEF m
  <2>3. /\ Becomes("sweep", drop["sweep"].at, drop["sweep"].legacy,
                   drop["sweep"].active, drop["sweep"].ids, m,
                   drop["sweep"].left \ {p})
        /\ drop'["sweep"].members = m
    BY <1>1, <2>2
  <2>q. QED
    BY <1>2, <1>3, <1>5, <2>3 DEF FilterLegacy, DropStep, m
<1>6. CASE FilterDone
  BY <1>1, <1>2, <1>3, <1>6 DEF FilterDone, DropStep
<1>q. QED
  BY <1>4, <1>5, <1>6

\* The other steps leave the droppers alone, but for the console's call.
LEMMA OutsideMove ==
  ASSUME AllTypeOK,
         \/ ServerStep \/ TimePasses \/ Change
         \/ (\E p \in Session : Authorize(p)) \/ UNCHANGED allVars
  PROVE  /\ drop'["sweep"] = drop["sweep"]
         /\ \/ ~Change /\ drop' = drop
            \/ /\ Change /\ drop["update"].at = "idle"
               /\ Becomes("update", "active", drop["update"].legacy,
                          drop["update"].active, drop["update"].ids,
                          drop["update"].members, drop["update"].left)
<1>1. /\ drop \in [Dropper -> DropState] /\ "sweep" \in Dropper /\ "update" \in Dropper
      /\ drop["update"] \in DropState
  BY DEF AllTypeOK, RevocationTypeOK, Dropper
<1>2. CASE Change
  <2>1. drop' = [drop EXCEPT !["update"].at = "active"] /\ drop["update"].at = "idle"
    BY <1>2 DEF Change
  <2>q. QED
    BY <1>1, <1>2, <2>1 DEF Becomes, DropState
<1>3. CASE ~Change
  BY <1>3 DEF ServerStep, TimePasses, Authorize, allVars, revocationVars
<1>q. QED
  BY <1>2, <1>3

\* The positions of the droppers stay in step with their variables.
LEMMA OrderedStep ==
  ASSUME AllTypeOK, \A d \in Dropper : DropOrdered(d), [RevocationNext]_allVars
  PROVE  \A d \in Dropper : DropOrdered(d)'
<1>1. ASSUME NEW d \in Dropper, DropOrdered(d), drop'[d] = drop[d] PROVE DropOrdered(d)'
  BY <1>1 DEF DropOrdered
<1>2. /\ drop \in [Dropper -> DropState] /\ Dropper = {"update", "sweep"}
      /\ \A d \in Dropper : drop[d] \in DropState
  BY DEF AllTypeOK, RevocationTypeOK, Dropper
<1>3. CASE \/ ServerStep \/ TimePasses \/ Change
           \/ (\E p \in Session : Authorize(p)) \/ UNCHANGED allVars
  BY <1>1, <1>2, <1>3, OutsideMove DEF DropOrdered, Becomes
<1>4. ASSUME NEW d \in Dropper, DropInactiveGroups(d)
      PROVE  \A e \in Dropper : DropOrdered(e)'
  <2>1. DropOrdered(d)'
    BY <1>2, <1>4, DropMove DEF DropOrdered, Becomes
  <2>q. QED
    BY <1>1, <1>4, <2>1, DropMove
<1>5. CASE SweepBegin \/ FilterLegacy \/ FilterDone
  <2>1. DropOrdered("sweep")'
    BY <1>2, <1>5, SweepMove DEF DropOrdered, Becomes
  <2>q. QED
    BY <1>1, <1>2, <1>5, <2>1, SweepMove
<1>q. QED
  BY <1>2, <1>3, <1>4, <1>5 DEF RevocationNext, Sweep

\* Whom a dropper holds has joined: groups list members only, and candidates are
\* tracked.
LEMMA AdmittedStep ==
  ASSUME AllTypeOK, GroupInv, DropsAdmitted, [RevocationNext]_allVars
  PROVE  DropsAdmitted'
<1>1. /\ drop \in [Dropper -> DropState] /\ Dropper = {"update", "sweep"}
      /\ \A d \in Dropper : drop[d] \in DropState
      /\ TypeOK
  BY DEF AllTypeOK, RevocationTypeOK, Dropper
<1>2. \A p \in Session : handler[p] \notin {"new", "hello"} =>
                           handler'[p] \notin {"new", "hello"}
  <2>1. CASE ServerStep
    BY <1>1, <2>1, HandlersAdvance DEF ServerStep
  <2>2. CASE ~ServerStep
    BY <1>1, <2>2, DropMove, SweepMove
       DEF RevocationNext, Sweep, Authorize, TimePasses, Change, allVars, vars,
           serverVars
  <2>q. QED
    BY <2>1, <2>2
<1>3. \A t \in Token : \A p \in Session :
        p \in MembersOf(t) => handler[p] \notin {"new", "hello"}
  BY DEF GroupInv, GroupMatched, MembersOf, InGroup
<1>4. ASSUME \A d \in Dropper :
               drop'[d].members \cup drop'[d].left \subseteq
                 drop[d].members \cup drop[d].left
                   \cup {p \in Session : handler[p] \notin {"new", "hello"}}
      PROVE  DropsAdmitted'
  BY <1>2, <1>4 DEF DropsAdmitted
<1>5. CASE \/ ServerStep \/ TimePasses \/ Change
           \/ (\E p \in Session : Authorize(p)) \/ UNCHANGED allVars
  BY <1>1, <1>4, <1>5, OutsideMove DEF Becomes
<1>6. ASSUME NEW d \in Dropper, DropInactiveGroups(d) PROVE DropsAdmitted'
  <2>1. \A t \in drop[d].ids :
          MembersOf(t) \subseteq {p \in Session : handler[p] \notin {"new", "hello"}}
    BY <1>1, <1>3 DEF DropState, MembersOf, TypeOK, GroupsTypeOK
  <2>2. drop'[d].members \cup drop'[d].left \subseteq
          drop[d].members \cup drop[d].left
            \cup {p \in Session : handler[p] \notin {"new", "hello"}}
    <3>1. \/ drop'[d].members \cup drop'[d].left \subseteq
               drop[d].members \cup drop[d].left
          \/ \E t \in drop[d].ids :
               drop'[d].members = MembersOf(t) /\ drop'[d].left = MembersOf(t)
      BY <1>6, DropMove DEF Becomes
    <3>q. QED
      BY <2>1, <3>1
  <2>3. \A e \in Dropper \ {d} : drop'[e] = drop[e]
    BY <1>6, DropMove
  <2>q. QED
    BY <1>4, <2>2, <2>3
<1>7. CASE SweepBegin \/ FilterLegacy \/ FilterDone
  <2>1. Candidates \subseteq {p \in Session : handler[p] \notin {"new", "hello"}}
    BY DEF Candidates, Tracked
  <2>2. drop'["sweep"].members \cup drop'["sweep"].left \subseteq
          drop["sweep"].members \cup drop["sweep"].left
            \cup {p \in Session : handler[p] \notin {"new", "hello"}}
    BY <1>1, <1>7, <2>1, SweepMove DEF Becomes
  <2>3. drop'["update"] = drop["update"]
    BY <1>7, SweepMove
  <2>q. QED
    BY <1>1, <1>4, <2>2, <2>3
<1>q. QED
  BY <1>1, <1>5, <1>6, <1>7 DEF RevocationNext, Sweep

-----------------------------------------------------------------------------
(***************************************************************************)
(* Whom the drops close.                                                   *)
(***************************************************************************)

\* A value that authorize takes for a previous one is no token's current value.
LEMMA LegacyIsRotated ==
  ASSUME TokensTypeOK, TokensDistinct, StoreCurrent, NEW r \in Route, IsLegacy(r)
  PROVE  r \in issued /\ \A t \in tokens : t.value # r
<1>1. PICK e \in store : e.value = r /\ e.legacy
  BY DEF IsLegacy, Lookup
<1>2. PICK t \in tokens : HasPrevious(t) /\ e = PreviousEntry(t)
  BY <1>1, EntryOfToken DEF CurrentEntry
<1>3. r = t.previous /\ t.previous # NoRoute
  BY <1>1, <1>2 DEF PreviousEntry, HasPrevious
<1>4. ASSUME NEW u \in tokens, u.value = r PROVE FALSE
  <2>1. u.id = t.id
    BY <1>3, <1>4 DEF TokensDistinct
  <2>q. QED
    BY <1>3, <1>4, <2>1 DEF TokensDistinct
<1>q. QED
  BY <1>3, <1>4 DEF TokensDistinct

\* An issued value that is nobody's current one is never issued again.
LEMMA RotatedStays ==
  ASSUME TokensTypeOK, ChangeTokens \/ Tick \/ UNCHANGED tokenVars,
         NEW r \in issued, \A t \in tokens : t.value # r
  PROVE  r \in issued' /\ \A t \in tokens' : t.value # r
<1>1. CASE Tick \/ UNCHANGED tokenVars
  BY <1>1 DEF Tick, tokenVars
<1>2. CASE ChangeTokens
  BY <1>2, ChangeEffect
<1>q. QED
  BY <1>1, <1>2

\* What was rotated out for good stays out.
LEMMA OutdatedStays ==
  ASSUME TokensTypeOK, ChangeTokens \/ Tick \/ UNCHANGED tokenVars,
         NEW r, Outdated(r)
  PROVE  Outdated(r)'
<1>1. r \in issued /\ \A t \in tokens : r # t.value
  BY DEF Outdated
<1>2. r \in issued' /\ \A t \in tokens' : r # t.value
  BY <1>1, RotatedStays
<1>3. \A t \in tokens : t.graceEnd \in Deadline
  BY DEF TokensTypeOK, TokenEntry
<1>4. \A t \in tokens : Passed(t.graceEnd) => Passed(t.graceEnd)'
  BY <1>3, PassedStays, ChangeEffect DEF tokenVars
<1>5. ASSUME NEW t \in tokens', r = t.previous
      PROVE  t.graceEnd = NoDeadline \/ Passed(t.graceEnd)'
  <2>1. CASE Tick \/ UNCHANGED tokenVars
    BY <1>4, <1>5, <2>1 DEF Outdated, Tick, tokenVars
  <2>2. CASE ChangeTokens
    <3>1. \/ t \in tokens
          \/ \E u \in tokens : t.previous = u.previous /\ t.graceEnd = u.graceEnd
          \/ \E u \in tokens : t.previous = u.value
      BY <1>5, <2>2, ChangeEffect
    <3>q. QED
      BY <1>1, <1>4, <1>5, <3>1 DEF Outdated
  <2>q. QED
    BY <2>1, <2>2
<1>q. QED
  BY <1>2, <1>5 DEF Outdated

\* legacyExpired says that the previous value p came with is outdated.
LEMMA ExpiredIsOutdated ==
  ASSUME TokensTypeOK, TokensDistinct, StoreCurrent, LegacyRotated,
         NEW p \in Session, admission[p] = "legacy", LegacyExpired(GroupOf(p))
  PROVE  Outdated(RouteOf[p])
<1>1. RouteOf[p] \in issued /\ \A t \in tokens : t.value # RouteOf[p]
  BY DEF LegacyRotated
<1>2. RouteOf[p] \in Route /\ RouteOf[p] # NoRoute
  BY SessionAssumption, TokensAssumption
<1>3. ASSUME NEW t \in tokens, RouteOf[p] = t.previous, t.graceEnd # NoDeadline
      PROVE  Passed(t.graceEnd)
  <2>1. CASE PreviousEntry(t) \in store
    <3>1. /\ TokenOf[PreviousEntry(t).value] = GroupOf(p)
          /\ PreviousEntry(t).legacy /\ PreviousEntry(t).expires = t.graceEnd
      BY <1>3 DEF PreviousEntry, GroupOf
    <3>q. QED
      BY <2>1, <3>1 DEF LegacyExpired
  <2>2. CASE PreviousEntry(t) \notin store
    BY <1>2, <1>3, <2>2, InStoreOf DEF StoreCurrent, HasPrevious
  <2>q. QED
    BY <2>1, <2>2
<1>q. QED
  BY <1>1, <1>3 DEF Outdated

\* Only an administrator puts a token in force.
LEMMA ForceStaysLost ==
  ASSUME TokensTypeOK, Tick \/ UNCHANGED tokenVars, NEW t, ~InForce(t)
  PROVE  ~InForce(t)'
<1>1. tokens' = tokens
  BY DEF Tick, tokenVars
<1>2. \A e \in tokens : Passed(e.expires) => Passed(e.expires)'
  <2>1. \A e \in tokens : e.expires \in Deadline
    BY DEF TokensTypeOK, TokenEntry
  <2>q. QED
    BY <2>1, PassedStays DEF tokenVars
<1>q. QED
  BY <1>1, <1>2 DEF InForce

LEMMA LegacyStep ==
  ASSUME AllTypeOK, TokensDistinct, StoreCurrent, LegacyRotated,
         [RevocationNext]_allVars
  PROVE  LegacyRotated'
<1>1. TokensTypeOK /\ admission \in [Session -> {"none", "current", "legacy"}]
  BY DEF AllTypeOK, RevocationTypeOK
<1>2. ASSUME admission' = admission, ChangeTokens \/ Tick \/ UNCHANGED tokenVars
      PROVE  LegacyRotated'
  BY <1>1, <1>2, RotatedStays DEF LegacyRotated
<1>3. ASSUME NEW p \in Session, Authorize(p) PROVE LegacyRotated'
  <2>1. UNCHANGED <<tokens, issued>>
    BY <1>3 DEF Authorize, tokenVars
  <2>2. RouteOf[p] \in Route
    BY SessionAssumption
  <2>3. \A q \in Session : admission'[q] = "legacy" =>
          admission[q] = "legacy" \/ (q = p /\ IsLegacy(RouteOf[p]))
    BY <1>1, <1>3 DEF Authorize
  <2>q. QED
    BY <1>1, <2>1, <2>2, <2>3, LegacyIsRotated DEF LegacyRotated
<1>4. ASSUME NEW d \in Dropper, DropInactiveGroups(d) PROVE LegacyRotated'
  BY <1>2, <1>4, DropMove
<1>5. CASE SweepBegin \/ FilterLegacy \/ FilterDone
  BY <1>2, <1>5, SweepMove
<1>6. CASE ServerStep \/ TimePasses \/ Change \/ UNCHANGED allVars
  BY <1>2, <1>6
     DEF ServerStep, TimePasses, Change, allVars, revocationVars
<1>7. {"update", "sweep"} \subseteq Dropper
  BY DEF Dropper
<1>q. QED
  BY <1>3, <1>4, <1>5, <1>6, <1>7 DEF RevocationNext, Sweep

\* The update's pass: activeIDs answers as the list says, no change follows before
\* the pass is over, and a group lists members of its token only.
LEMMA UpdateStep ==
  ASSUME AllTypeOK, GroupInv, StoreDecides, \A d \in Dropper : DropOrdered(d),
         UpdateJust, [RevocationNext]_allVars
  PROVE  UpdateJust'
<1>1. /\ Dropper = {"update", "sweep"} /\ "update" \in Dropper
      /\ drop["update"] \in DropState
      /\ TokensTypeOK
  BY DEF AllTypeOK, RevocationTypeOK, Dropper
<1>2. drop["update"].ids \subseteq Token
  BY <1>1 DEF DropState
<1>3. drop["update"].members \cup drop["update"].left \subseteq Session
  BY <1>1 DEF DropState
<1>4. ASSUME drop'["update"] = drop["update"], Tick \/ UNCHANGED tokenVars
      PROVE  UpdateJust'
  BY <1>1, <1>4, ForceStaysLost DEF UpdateJust
<1>5. CASE Change
  <2>1. /\ drop["update"].at = "idle"
        /\ Becomes("update", "active", drop["update"].legacy, drop["update"].active,
                   drop["update"].ids, drop["update"].members, drop["update"].left)
    BY <1>5, OutsideMove DEF Change
  <2>2. drop["update"].ids = {}
    BY <1>1, <2>1 DEF DropOrdered
  <2>q. QED
    BY <2>1, <2>2 DEF UpdateJust, Becomes
<1>6. CASE DropInactiveGroups("update")
  <2>1. UNCHANGED tokenVars
    BY <1>1, <1>6, DropMove
  <2>2. \A t \in Token : InForce(t)' <=> InForce(t)
    BY <2>1 DEF InForce, tokenVars, Passed
  <2>3. \A p \in Session : GroupOf(p) \in Token
    BY SessionAssumption DEF GroupOf
  <2>4. ~drop'["update"].legacy
    BY <1>1, <1>6, DropMove DEF UpdateJust, Becomes
  <2>5. drop'["update"].at = "list" =>
          \A t \in Token \ drop'["update"].active : ~InForce(t)
    <3>1. ActiveTokens = {t \in Token : InForce(t)}
      BY DEF StoreDecides
    <3>2. drop'["update"].at = "list" => drop'["update"].active = ActiveTokens
      BY <1>1, <1>6, DropMove DEF UpdateJust, Becomes
    <3>q. QED
      BY <3>1, <3>2
  <2>6. \A t \in drop'["update"].ids : t \in Token /\ ~InForce(t)
    <3>1. \/ drop'["update"].ids \subseteq drop["update"].ids
          \/ /\ drop["update"].at = "list"
             /\ drop'["update"].ids \subseteq Token \ drop["update"].active
      BY <1>1, <1>6, DropMove DEF Becomes
    <3>q. QED
      BY <1>2, <3>1 DEF UpdateJust
  <2>7. drop'["update"].at \in {"arm", "close"} =>
          \A p \in drop'["update"].members \cup drop'["update"].left :
            p \in Session /\ ~InForce(GroupOf(p))
    <3>1. CASE /\ drop["update"].at \in {"arm", "close"}
               /\ drop'["update"].members \cup drop'["update"].left \subseteq
                    drop["update"].members \cup drop["update"].left
      BY <1>3, <3>1 DEF UpdateJust
    <3>2. ASSUME NEW t \in drop["update"].ids,
                 drop'["update"].members = MembersOf(t),
                 drop'["update"].left = MembersOf(t)
          PROVE  \A p \in drop'["update"].members \cup drop'["update"].left :
                   p \in Session /\ ~InForce(GroupOf(p))
      <4>1. t \in Token /\ ~InForce(t)
        BY <1>2 DEF UpdateJust
      <4>2. \A p \in MembersOf(t) : p \in Session /\ GroupOf(p) = t
        BY <4>1 DEF MembersOf, GroupInv, GroupMatched, AllTypeOK, TypeOK, GroupsTypeOK
      <4>q. QED
        BY <3>2, <4>1, <4>2
    <3>3. \/ drop'["update"].at \notin {"arm", "close"}
          \/ /\ drop["update"].at \in {"arm", "close"}
             /\ drop'["update"].members \cup drop'["update"].left \subseteq
                  drop["update"].members \cup drop["update"].left
          \/ \E t \in drop["update"].ids :
               drop'["update"].members = MembersOf(t)
                 /\ drop'["update"].left = MembersOf(t)
      BY <1>1, <1>6, DropMove DEF Becomes
    <3>q. QED
      BY <3>1, <3>2, <3>3
  <2>q. QED
    BY <2>2, <2>3, <2>4, <2>5, <2>6, <2>7 DEF UpdateJust
<1>7. CASE DropInactiveGroups("sweep")
  <2>1. drop'["update"] = drop["update"] /\ UNCHANGED tokenVars
    BY <1>1, <1>7, DropMove
  <2>q. QED
    BY <1>4, <2>1
<1>8. CASE SweepBegin \/ FilterLegacy \/ FilterDone
  BY <1>4, <1>8, SweepMove
<1>9. CASE \/ ServerStep \/ TimePasses
           \/ (\E p \in Session : Authorize(p)) \/ UNCHANGED allVars
  <2>1. drop' = drop /\ (Tick \/ UNCHANGED tokenVars)
    BY <1>9 DEF ServerStep, TimePasses, Authorize, allVars, revocationVars
  <2>q. QED
    BY <1>4, <2>1
<1>q. QED
  BY <1>5, <1>6, <1>7, <1>8, <1>9 DEF RevocationNext, Sweep

\* The sweep's pass over the legacy sessions: what it found outdated stays so,
\* whatever the administrator changes meanwhile.
LEMMA SweepStep ==
  ASSUME AllTypeOK, TokensDistinct, StoreCurrent, LegacyRotated,
         \A d \in Dropper : DropOrdered(d), SweepJust, [RevocationNext]_allVars
  PROVE  SweepJust'
<1>1. /\ Dropper = {"update", "sweep"} /\ "sweep" \in Dropper
      /\ drop["sweep"] \in DropState
      /\ TokensTypeOK
      /\ admission \in [Session -> {"none", "current", "legacy"}]
  BY DEF AllTypeOK, RevocationTypeOK, Dropper
<1>2. drop["sweep"].members \cup drop["sweep"].left \subseteq Session
  BY <1>1 DEF DropState
<1>3. ASSUME drop'["sweep"] = drop["sweep"],
             \A p \in Session : admission[p] = "legacy" => admission'[p] = "legacy",
             ChangeTokens \/ Tick \/ UNCHANGED tokenVars
      PROVE  SweepJust'
  BY <1>1, <1>2, <1>3, OutdatedStays DEF SweepJust
<1>4. ASSUME UNCHANGED <<tokenVars, admission>>
      PROVE  \A p \in Session : /\ admission'[p] = admission[p]
                                /\ Outdated(RouteOf[p]) => Outdated(RouteOf[p])'
  BY <1>1, <1>4, OutdatedStays
<1>5. CASE DropInactiveGroups("sweep")
  <2>1. UNCHANGED <<tokenVars, admission>>
    BY <1>1, <1>5, DropMove
  <2>2. drop'["sweep"].legacy =>
          /\ drop["sweep"].legacy /\ drop["sweep"].at # "filter"
          /\ drop["sweep"].at \in {"arm", "close"}
    BY <1>1, <1>5, DropMove DEF DropOrdered, Becomes
  <2>3. drop["sweep"].at \in {"arm", "close"} /\ drop'["sweep"].legacy =>
          /\ drop'["sweep"].members \subseteq drop["sweep"].members
          /\ drop'["sweep"].left \subseteq drop["sweep"].members \cup drop["sweep"].left
    BY <1>1, <1>5, DropMove DEF Becomes
  <2>q. QED
    BY <1>2, <1>4, <2>1, <2>2, <2>3 DEF SweepJust
<1>6. CASE SweepBegin \/ FilterLegacy \/ FilterDone
  <2>1. UNCHANGED <<tokenVars, admission>>
    BY <1>6, SweepMove
  <2>2. Candidates \subseteq Session /\ \A p \in Candidates : admission[p] = "legacy"
    BY DEF Candidates
  <2>3. CASE Becomes("sweep", IF Candidates = {} THEN "active" ELSE "filter",
                     Candidates # {}, {}, {}, {}, Candidates)
    BY <1>4, <2>1, <2>2, <2>3 DEF SweepJust, Becomes
  <2>4. ASSUME drop["sweep"].at = "filter", NEW p \in drop["sweep"].left,
               drop'["sweep"].at = "filter",
               drop'["sweep"].left = drop["sweep"].left \ {p},
               \/ drop'["sweep"].members = drop["sweep"].members
               \/ /\ drop'["sweep"].members = drop["sweep"].members \cup {p}
                  /\ LegacyExpired(GroupOf(p))
        PROVE  SweepJust'
    <3>1. drop["sweep"].legacy /\ p \in Session /\ admission[p] = "legacy"
      BY <1>1, <1>2, <2>4 DEF DropOrdered, SweepJust
    <3>2. LegacyExpired(GroupOf(p)) => Outdated(RouteOf[p])
      BY <1>1, <3>1, ExpiredIsOutdated
    <3>q. QED
      BY <1>2, <1>4, <2>1, <2>4, <3>1, <3>2 DEF SweepJust
  <2>5. CASE /\ drop["sweep"].at = "filter"
             /\ Becomes("sweep", "arm", drop["sweep"].legacy,
                        drop["sweep"].active, drop["sweep"].ids,
                        drop["sweep"].members, drop["sweep"].members)
    BY <1>2, <1>4, <2>1, <2>5 DEF SweepJust, Becomes
  <2>q. QED
    BY <1>6, <2>3, <2>4, <2>5, SweepMove DEF Becomes
<1>7. CASE DropInactiveGroups("update")
  <2>1. "update" \in Dropper /\ "sweep" \in Dropper \ {"update"}
    BY <1>1
  <2>2. /\ \A e \in Dropper \ {"update"} : drop'[e] = drop[e]
        /\ UNCHANGED <<tokenVars, admission>>
    BY <1>7, <2>1, DropMove
  <2>q. QED
    BY <1>3, <2>1, <2>2
<1>8. ASSUME NEW p \in Session, Authorize(p) PROVE SweepJust'
  <2>1. \A q \in Session : admission[q] = "legacy" => admission'[q] = "legacy"
    BY <1>1, <1>8 DEF Authorize
  <2>q. QED
    BY <1>3, <1>8, <2>1 DEF Authorize
<1>9. CASE ServerStep \/ TimePasses \/ Change \/ UNCHANGED allVars
  <2>1. drop'["sweep"] = drop["sweep"]
    BY <1>9, OutsideMove
  <2>2. admission' = admission /\ (ChangeTokens \/ Tick \/ UNCHANGED tokenVars)
    BY <1>9 DEF ServerStep, TimePasses, Change, allVars, revocationVars
  <2>q. QED
    BY <1>3, <2>1, <2>2
<1>q. QED
  BY <1>5, <1>6, <1>7, <1>8, <1>9 DEF RevocationNext, Sweep

-----------------------------------------------------------------------------
(***************************************************************************)
(* The theorems.                                                           *)
(***************************************************************************)
LEMMA TokenSteps ==
  ASSUME AllTypeOK, [RevocationNext]_allVars
  PROVE  ChangeTokens \/ Tick \/ UNCHANGED tokenVars
<1>1. {"update", "sweep"} \subseteq Dropper
  BY DEF Dropper
<1>2. ASSUME NEW d \in Dropper, DropInactiveGroups(d) PROVE UNCHANGED tokenVars
  BY <1>2, DropMove
<1>3. CASE SweepBegin \/ FilterLegacy \/ FilterDone
  BY <1>3, SweepMove
<1>4. CASE \/ ServerStep \/ TimePasses \/ Change
           \/ (\E p \in Session : Authorize(p)) \/ UNCHANGED allVars
  BY <1>4 DEF ServerStep, TimePasses, Change, Authorize, allVars
<1>q. QED
  BY <1>1, <1>2, <1>3, <1>4 DEF RevocationNext, Sweep

\* The store that UpdateTokens built answers, at any later time, as the list of
\* tokens says: clock and store never disagree about a lifetime or about a grace
\* window, and no answer depends on the order in which the map is walked.
THEOREM StoreDecidesCorrect == RevocationSpec => []StoreDecides
<1> DEFINE StoreInv == AllTypeOK /\ TokensDistinct /\ StoreCurrent
<1>1. RevocationInit => StoreInv
  BY AllTypedInit, StoreInit DEF RevocationInit
<1>2. StoreInv /\ [RevocationNext]_allVars => StoreInv'
  <2> SUFFICES ASSUME StoreInv, [RevocationNext]_allVars PROVE StoreInv'
    OBVIOUS
  <2>1. TokensTypeOK /\ (ChangeTokens \/ Tick \/ UNCHANGED tokenVars)
    BY TokenSteps DEF AllTypeOK
  <2>q. QED
    BY <2>1, StoreStep, AllTypedStep
<1>3. StoreInv => StoreDecides
  BY StoreAnswers DEF AllTypeOK
<1> HIDE DEF StoreInv
<1>q. QED
  BY <1>1, <1>2, <1>3, PTL DEF RevocationSpec

LEMMA RevocationStarts ==
  RevocationInit /\ StoreDecides => RevocationInv
<1> SUFFICES ASSUME RevocationInit, StoreDecides PROVE RevocationInv
  OBVIOUS
<1>1. AllTypeOK /\ GroupInv /\ PairingInv /\ TokensDistinct /\ StoreCurrent
  BY AllTypedInit, GroupsInitInv, PairingInit, StoreInit DEF RevocationInit
<1>2. CodesArmed
  BY DEF RevocationInit, Init, ParticipantInit, CodesArmed
<1>3. /\ \A d \in Dropper : drop[d] = Idle
      /\ drop["update"] = Idle /\ drop["sweep"] = Idle
  BY DEF RevocationInit, Dropper
<1>4. \A d \in Dropper : MembersArmed(d) /\ DropOrdered(d)
  BY <1>3 DEF Idle, MembersArmed, DropOrdered
<1>5. DropsAdmitted /\ LegacyRotated
  BY <1>3 DEF Idle, DropsAdmitted, LegacyRotated, RevocationInit
<1>6. DropsJust
  BY <1>3 DEF Idle, DropsJust, UpdateJust, SweepJust
<1>q. QED
  BY <1>1, <1>2, <1>4, <1>5, <1>6 DEF RevocationInv

LEMMA RevocationStep ==
  ASSUME RevocationInv, [RevocationNext]_allVars, StoreDecides'
  PROVE  RevocationInv'
<1>0. /\ AllTypeOK /\ TokensTypeOK /\ GroupInv /\ PairingInv
      /\ TokensDistinct /\ StoreCurrent /\ StoreDecides
      /\ ArmedInv /\ \A d \in Dropper : DropOrdered(d)
      /\ DropsAdmitted /\ LegacyRotated /\ UpdateJust /\ SweepJust
  BY DEF RevocationInv, ArmedInv, DropsJust, AllTypeOK
<1>1. AllTypeOK'
  BY <1>0, AllTypedStep
<1>2. GroupInv' /\ PairingInv'
  BY <1>0, SessionsStep
<1>3. TokensDistinct' /\ StoreCurrent'
  BY <1>0, TokenSteps, StoreStep
<1>4. ArmedInv'
  BY <1>0, ArmedStep
<1>5. \A d \in Dropper : DropOrdered(d)'
  BY <1>0, OrderedStep
<1>6. DropsAdmitted'
  BY <1>0, AdmittedStep
<1>7. LegacyRotated'
  BY <1>0, LegacyStep
<1>8. UpdateJust' /\ SweepJust'
  BY <1>0, UpdateStep, SweepStep
<1>q. QED
  BY <1>1, <1>2, <1>3, <1>4, <1>5, <1>6, <1>7, <1>8
     DEF RevocationInv, ArmedInv, DropsJust

\* The sessions, the registry, the groups, the token store and the two goroutines
\* that revoke fit together, whatever the administrator changes, when the clock
\* advances, and however all of them interleave.
THEOREM RevocationCorrect == RevocationSpec => []RevocationInv
<1>1. StoreDecides /\ RevocationInit => RevocationInv
  BY RevocationStarts
<1>2. RevocationInv /\ [RevocationNext]_allVars /\ StoreDecides' => RevocationInv'
  BY RevocationStep
<1>q. QED
  BY <1>1, <1>2, StoreDecidesCorrect, PTL DEF RevocationSpec

\* Revocation breaks none of the relay's safety properties: the pairs, the
\* election of the bridge, the timeouts and the single process of a token hold
\* although a drop may close a session between its two joins.
THEOREM SafeUnderRevocation ==
  RevocationSpec =>
    [](/\ OneTargetProcess /\ PeersMatched /\ OneBridgePerPair /\ NoMissedMatch
       /\ TimeoutOnlyUnpaired /\ NothingLeftBehind)
<1>1. RevocationInv =>
        /\ OneTargetProcess /\ PeersMatched /\ OneBridgePerPair /\ NoMissedMatch
        /\ TimeoutOnlyUnpaired /\ NothingLeftBehind
  BY GroupsServeOne, PairsMatch, PairsElect, QueuesMeet, TimeoutsAlone,
     HandlersCleanUp
     DEF RevocationInv, AllTypeOK
<1>q. QED
  BY <1>1, RevocationCorrect, PTL

\* A drop opens no socket, moves no bridge and touches no row of the console.
LEMMA DropKeepsRows ==
  ASSUME AllTypeOK, PairingInv, RowsInv, NEW d \in Dropper, DropInactiveGroups(d)
  PROVE  RowsInv'
<1>1. TypeOK
  BY DEF AllTypeOK
<1>2. CASE DropArm(d)
  BY <1>1, <1>2, OutsideRows DEF DropArm, serverVars, registryVars
<1>3. CASE DropClose(d)
  <2>1. PICK p \in drop[d].left : CloseWith(p, "disabled")
    BY <1>3 DEF DropClose
  <2>2. p \in Session
    BY <2>1 DEF AllTypeOK, RevocationTypeOK, DropState
  <2>3. UNCHANGED <<handler, peer, bridge, console, flowVars>> /\ "disabled" \in CloseCode
    BY <1>3 DEF DropClose, serverVars, registryVars, CloseCode
  <2>q. QED
    BY <1>1, <2>1, <2>2, <2>3, OutsideRows
<1>4. CASE UNCHANGED vars
  BY <1>1, <1>4, RowsStep
<1>q. QED
  BY <1>2, <1>3, <1>4
     DEF DropInactiveGroups, DropActive, DropList, DropGroup, DropDone, DropArmed,
         DropClosed

LEMMA RowsUnderRevocation ==
  ASSUME AllTypeOK, PairingInv, RowsInv, [RevocationNext]_allVars
  PROVE  RowsInv'
<1>1. ASSUME [Next]_vars PROVE RowsInv'
  BY <1>1, RowsStep DEF AllTypeOK
<1>2. CASE ServerStep
  BY <1>1, <1>2 DEF ServerStep
<1>3. ASSUME NEW d \in Dropper, DropInactiveGroups(d) PROVE RowsInv'
  BY <1>3, DropKeepsRows
<1>4. {"update", "sweep"} \subseteq Dropper
  BY DEF Dropper
<1>5. CASE SweepBegin \/ FilterLegacy \/ FilterDone \/ TimePasses \/ Change
           \/ (\E p \in Session : Authorize(p)) \/ UNCHANGED allVars
  BY <1>1, <1>5
     DEF SweepBegin, FilterLegacy, FilterDone, TimePasses, Change, Authorize, allVars
<1>q. QED
  BY <1>2, <1>3, <1>4, <1>5 DEF RevocationNext, Sweep

\* The relay's whole invariant survives revocation: its bridges still start after
\* both reports and return with both ends closed, its rows follow the sessions but
\* for a refresh that read its status before the pairing, and a session a drop
\* closed keeps no socket.
THEOREM RelayInvUnderRevocation == RevocationSpec => []RelayInv
<1>1. RevocationInit => RowsInv
  BY RowsInit DEF RevocationInit
<1>2. RevocationInv /\ RowsInv /\ [RevocationNext]_allVars => RowsInv'
  BY RowsUnderRevocation DEF RevocationInv
<1>3. RevocationInv /\ RowsInv => RelayInv
  BY DEF RevocationInv, AllTypeOK, RelayInv, RowsInv
<1>q. QED
  BY <1>1, <1>2, <1>3, RevocationCorrect, PTL DEF RevocationSpec

\* UpdateTokens drops only sessions of tokens that are not in force, and
\* dropExpiredLegacy only sessions whose value nobody accepts any more, although
\* both walk lists they took before other goroutines went on.
THEOREM DropsJustCorrect == RevocationSpec => []DropsJust
<1>1. RevocationInv => DropsJust
  BY DEF RevocationInv
<1>q. QED
  BY <1>1, RevocationCorrect, PTL

\* The dropper that steps goes on to the session, or has just closed it.
LEMMA DropGoesOn ==
  ASSUME RevocationInv, NEW d \in Dropper, DropInactiveGroups(d),
         NEW p \in Session, InGroup(p), ~done[p],
         \/ Pending(d, p)
         \/ drop[d].at = "active" /\ ~InForce(GroupOf(p))
  PROVE  done'[p] \/ Pending(d, p)'
<1>1. GroupOf(p) \in Token /\ RoleOf[p] \in {"edge", "target"}
  BY SessionAssumption DEF GroupOf, Role
<1>2. p \in MembersOf(GroupOf(p)) /\ groups[GroupOf(p)] # EmptyGroup
  <2>1. p \in MembersOf(GroupOf(p))
    BY <1>1 DEF RevocationInv, GroupInv, MemberListed, MembersOf
  <2>q. QED
    BY <2>1 DEF MembersOf, EmptyGroup
<1>3. AllTypeOK /\ DropOrdered(d) /\ StoreDecides
  BY DEF RevocationInv
<1>4. drop[d].at \in {"active", "list"} => drop[d].ids = {}
  BY <1>3 DEF DropOrdered
<1>5. CASE drop[d].at = "active"
  <2>1. ~InForce(GroupOf(p))
    BY <1>4, <1>5 DEF Pending
  <2>2. GroupOf(p) \notin ActiveTokens
    BY <1>3, <2>1 DEF StoreDecides
  <2>3. drop'[d].at = "list" /\ drop'[d].active = ActiveTokens
    BY <1>3, <1>5, DropMove DEF Becomes
  <2>q. QED
    BY <2>2, <2>3 DEF Pending, GroupOf
<1>6. CASE drop[d].at = "list"
  <2>1. GroupOf(p) \notin drop[d].active
    BY <1>4, <1>6 DEF Pending
  <2>2. drop'[d].ids = {t \in Token : groups[t] # EmptyGroup} \ drop[d].active
    BY <1>3, <1>6, DropMove DEF Becomes
  <2>3. GroupOf(p) \in drop'[d].ids
    BY <1>1, <1>2, <2>1, <2>2
  <2>q. QED
    BY <2>3 DEF Pending, GroupOf
<1>7. CASE drop[d].at = "next"
  <2>1. GroupOf(p) \in drop[d].ids
    BY <1>7 DEF Pending
  <2>2. PICK t \in drop[d].ids, at \in {"next", "arm"} :
          /\ at = "next" <=> MembersOf(t) = {}
          /\ Becomes(d, at, drop[d].legacy, drop[d].active,
                     drop[d].ids \ {t}, MembersOf(t), MembersOf(t))
    BY <1>3, <1>7, <2>1, DropMove
  <2>3. CASE t = GroupOf(p)
    <3>1. at = "arm"
      BY <1>2, <2>2, <2>3
    <3>2. drop'[d].at = "arm" /\ p \in drop'[d].members
      BY <1>2, <2>2, <2>3, <3>1 DEF Becomes
    <3>q. QED
      BY <3>2 DEF Pending
  <2>4. CASE t # GroupOf(p)
    BY <2>1, <2>2, <2>4 DEF Becomes, Pending, GroupOf
  <2>q. QED
    BY <2>3, <2>4
<1>8. CASE drop[d].at = "arm"
  <2>1. GroupOf(p) \in drop[d].ids \/ p \in drop[d].members
    BY <1>8 DEF Pending
  <2>2. /\ drop'[d].ids = drop[d].ids
        /\ \/ drop'[d].at = "arm" /\ drop'[d].members = drop[d].members
           \/ drop'[d].at = "close" /\ drop'[d].left = drop[d].members
    BY <1>3, <1>8, DropMove DEF Becomes
  <2>q. QED
    BY <2>1, <2>2 DEF Pending, GroupOf
<1>9. CASE drop[d].at = "close"
  <2>1. GroupOf(p) \in drop[d].ids \/ p \in drop[d].left
    BY <1>9 DEF Pending
  <2>2. /\ drop'[d].ids = drop[d].ids
        /\ \/ \E q \in drop[d].left : /\ done'[q] /\ drop'[d].at = "close"
                                      /\ drop'[d].left = drop[d].left \ {q}
           \/ drop[d].left = {}
    BY <1>3, <1>9, DropMove DEF Becomes
  <2>q. QED
    BY <2>1, <2>2 DEF Pending, GroupOf
<1>q. QED
  BY <1>3, <1>5, <1>6, <1>7, <1>8, <1>9, DropMove

LEMMA DropsGoOn ==
  ASSUME RevocationInv, [RevocationNext]_allVars
  PROVE  NobodyForgotten
<1> SUFFICES ASSUME NEW d \in Dropper, NEW p \in Session, InGroup(p), ~done[p],
                    \/ Pending(d, p)
                    \/ /\ drop[d].at = "active" /\ drop'[d].at # "active"
                       /\ ~InForce(GroupOf(p))
             PROVE  done'[p] \/ Pending(d, p)'
  BY DEF NobodyForgotten
<1>1. AllTypeOK /\ DropOrdered(d) /\ Dropper = {"update", "sweep"}
  BY DEF RevocationInv, Dropper
<1>2. CASE drop'[d] = drop[d]
  BY <1>2 DEF Pending, GroupOf
<1>3. ASSUME NEW e \in Dropper, DropInactiveGroups(e)
      PROVE  done'[p] \/ Pending(d, p)'
  <2>1. CASE e = d
    BY <1>3, <2>1, DropGoesOn
  <2>2. CASE e # d
    BY <1>1, <1>2, <1>3, <2>2, DropMove
  <2>q. QED
    BY <2>1, <2>2
<1>4. CASE SweepBegin \/ FilterLegacy \/ FilterDone
  <2>1. CASE d = "update"
    BY <1>1, <1>2, <1>4, <2>1, SweepMove
  <2>2. CASE d = "sweep"
    <3>1. drop["sweep"].at = "idle" => drop["sweep"].ids = {}
      BY <1>1, <2>2 DEF DropOrdered
    <3>2. /\ drop["sweep"].at = "filter"
          /\ drop'["sweep"].ids = drop["sweep"].ids
          /\ drop["sweep"].members \subseteq drop'["sweep"].members
          /\ drop'["sweep"].at \in {"filter", "arm"}
      BY <1>1, <1>4, <2>2, <3>1, SweepMove DEF Becomes, Pending
    <3>q. QED
      BY <2>2, <3>2 DEF Pending, GroupOf
  <2>q. QED
    BY <1>1, <2>1, <2>2
<1>5. CASE \/ ServerStep \/ TimePasses \/ Change
           \/ (\E q \in Session : Authorize(q)) \/ UNCHANGED allVars
  <2>1. CASE d = "update" /\ Change
    <3>1. drop["update"].at = "idle" /\ drop["update"].ids = {}
      BY <1>1, <1>5, <2>1, OutsideMove DEF DropOrdered
    <3>q. QED
      BY <2>1, <3>1 DEF Pending
  <2>q. QED
    BY <1>1, <1>2, <1>5, <2>1, OutsideMove
<1>q. QED
  BY <1>1, <1>3, <1>4, <1>5 DEF RevocationNext, Sweep

\* However the drops interleave with the bridges, the read pumps, the pair timers,
\* the kicks and each other: a session that a drop or a kick has armed is told
\* why it ends, every session of a token out of force is taken up by the next
\* pass, and no pass turns from a session before it ended.
THEOREM DropsDeliverCorrect == RevocationSpec => DropsDeliver
<1>1. RevocationInv /\ [RevocationNext]_allVars => ClosedWithReason
  <2> SUFFICES ASSUME RevocationInv, [RevocationNext]_allVars PROVE ClosedWithReason
    OBVIOUS
  <2>1. AllTypeOK /\ PairingInv /\ ArmedInv
    BY DEF RevocationInv, ArmedInv
  <2>2. ArmingKept
    BY <2>1, ArmedStep
  <2>q. QED
    BY <2>1, <2>2
       DEF ArmedInv, CodesArmed, MembersArmed, Actionable, ArmingKept,
           ClosedWithReason
<1>2. RevocationInv /\ [RevocationNext]_allVars => NobodyForgotten
  BY DropsGoOn
<1>q. QED
  BY <1>1, <1>2, RevocationCorrect, PTL DEF RevocationSpec, DropsDeliver

=============================================================================
