----------------------------- MODULE RelayTokens -----------------------------
(***************************************************************************)
(* The relay's token values: the administrator's list of tokens, as the    *)
(* console changes it (internal/webui/api.go), and the tokenStore built    *)
(* from it (internal/relay/tokens.go).                                     *)
(*                                                                         *)
(* A token value is the route it stands for.  Values are random, so a new  *)
(* one was never issued before; TokenOf names the token each will be       *)
(* issued for.  Time is counted in abstract units; 0 is Go's zero Time,    *)
(* which means "no deadline".                                              *)
(***************************************************************************)
EXTENDS Naturals, RelayParticipant

CONSTANTS
  NoRoute,    \* the empty previous value
  FirstRoute, \* FirstRoute[t]: the value t is created with
  Changes,    \* changes the administrator makes: a subset of ChangeKind
  MaxTime     \* bound of the clock

ChangeKind == {"disable", "lifetime", "delete", "rotate"}

ASSUME TokensAssumption ==
  /\ NoRoute \notin Route
  /\ FirstRoute \in [Token -> Route]
  /\ \A t \in Token : TokenOf[FirstRoute[t]] = t
  /\ Changes \subseteq ChangeKind
  /\ MaxTime \in Nat \ {0}

VARIABLES
  tokens,   \* the tokens of the configuration
  issued,   \* the values issued so far
  store,    \* tokenStore.byHash: the entry of each known value
  now       \* the clock

tokenVars == <<tokens, issued, store, now>>

NoDeadline == 0
Deadline == 0 .. MaxTime + 1

TokenEntry ==
  [id : Token, value : Route, disabled : BOOLEAN, expires : Deadline,
   previous : Route \cup {NoRoute}, graceEnd : Deadline]

StoreEntry ==
  [value : Route, disabled : BOOLEAN, legacy : BOOLEAN, expires : Deadline]

TokensTypeOK ==
  /\ tokens \subseteq TokenEntry
  /\ issued \subseteq Route
  /\ store \subseteq StoreEntry
  /\ now \in 1 .. MaxTime

\* A deadline that has passed.
Passed(deadline) == deadline # NoDeadline /\ now >= deadline

-----------------------------------------------------------------------------
\* replace: the current value of a token, and the previous one while its grace
\* window is open.
CurrentEntry(t) ==
  [value |-> t.value, disabled |-> t.disabled, legacy |-> FALSE,
   expires |-> t.expires]

PreviousEntry(t) ==
  [value |-> t.previous, disabled |-> t.disabled, legacy |-> TRUE,
   expires |-> t.graceEnd]

\* A previous value with a grace window, open or closed.
HasPrevious(t) == t.previous # NoRoute /\ t.graceEnd # NoDeadline

PreviousEntries(t) ==
  IF HasPrevious(t) /\ ~Passed(t.graceEnd) THEN {PreviousEntry(t)} ELSE {}

StoreOf(list) == UNION {{CurrentEntry(t)} \cup PreviousEntries(t) : t \in list}

\* Mutant: a previous value stays known until the store is rebuilt.
LookupUnexpired(value) == {e \in store : e.value = value}

\* lookup: an expired previous value is as unknown as any other.
Lookup(value) ==
  {e \in store : e.value = value /\ ~(e.legacy /\ Passed(e.expires))}

\* authorize: known, enabled, and not a current value past its lifetime.
MayAuthorize(value) ==
  \E e \in Lookup(value) : ~e.disabled /\ ~(~e.legacy /\ Passed(e.expires))

\* Whether an authorized value is a previous one.
IsLegacy(value) == \E e \in Lookup(value) : e.legacy

\* Mutant: a previous value in its grace window keeps the token active.
ActiveWithLegacy ==
  {TokenOf[e.value] : e \in {s \in store : ~s.disabled /\ ~Passed(s.expires)}}

\* activeIDs.
ActiveTokens ==
  {TokenOf[e.value] :
     e \in {s \in store : ~s.disabled /\ ~s.legacy /\ ~Passed(s.expires)}}

\* Mutant: without a previous value the answer is "not expired".
LegacySeenExpired(t) ==
  \E e \in store : TokenOf[e.value] = t /\ e.legacy /\ Passed(e.expires)

\* legacyExpired: no previous value of the token is in its grace window.
LegacyExpired(t) ==
  \A e \in store : TokenOf[e.value] = t /\ e.legacy => Passed(e.expires)

TokensInit ==
  /\ tokens = {[id |-> t, value |-> FirstRoute[t], disabled |-> FALSE,
                expires |-> NoDeadline, previous |-> NoRoute,
                graceEnd |-> NoDeadline] : t \in Token}
  /\ issued = {FirstRoute[t] : t \in Token}
  /\ store = StoreOf(tokens)
  /\ now = 1

-----------------------------------------------------------------------------
(***************************************************************************)
(* The console's changes.  Each saves the list, then calls UpdateTokens,   *)
(* which first rebuilds the store.  They hold actionMu, and nobody else    *)
(* reads the tokens of the file, so "tokens" is the list the store was     *)
(* built from: it changes when the store does, a moment after the file.    *)
(***************************************************************************)
SaveTokens(list) ==
  /\ tokens' = list
  /\ store' = StoreOf(list)
  /\ UNCHANGED now

ReplaceToken(t, changed) == SaveTokens((tokens \ {t}) \cup {changed})

SetDisabled(t, disabled) ==
  /\ ReplaceToken(t, [t EXCEPT !.disabled = disabled])
  /\ UNCHANGED issued

\* A lifetime is unlimited or ends in the future.
SetLifetime(t, expires) ==
  /\ expires = NoDeadline \/ expires > now
  /\ ReplaceToken(t, [t EXCEPT !.expires = expires])
  /\ UNCHANGED issued

DeleteToken(t) ==
  /\ SaveTokens(tokens \ {t})
  /\ UNCHANGED issued

\* A new value; the current one becomes the previous one, for a grace window.
RotateToken(t, value, graceEnd) ==
  /\ value \notin issued /\ TokenOf[value] = t.id
  /\ graceEnd > now
  /\ ReplaceToken(t, [t EXCEPT !.value = value, !.previous = t.value,
                               !.graceEnd = graceEnd])
  /\ issued' = issued \cup {value}

\* A request that changes nothing only repeats the pass of the sweep.
ChangeTokens ==
  \E t \in tokens :
    \/ /\ "disable" \in Changes
       /\ SetDisabled(t, ~t.disabled)
    \/ /\ "lifetime" \in Changes
       /\ \E expires \in Deadline \ {t.expires} : SetLifetime(t, expires)
    \/ "delete" \in Changes /\ DeleteToken(t)
    \/ /\ "rotate" \in Changes
       /\ \E value \in Route, graceEnd \in Deadline :
            RotateToken(t, value, graceEnd)

Tick ==
  /\ now < MaxTime
  /\ now' = now + 1
  /\ UNCHANGED <<tokens, issued, store>>

-----------------------------------------------------------------------------
(***************************************************************************)
(* What the store says of the list it was built from.                      *)
(***************************************************************************)

\* A token is listed once, and its values were issued for it and differ.
TokensDistinct ==
  /\ \A t, u \in tokens : t.id = u.id => t = u
  /\ \A t \in tokens :
       /\ t.value \in issued /\ TokenOf[t.value] = t.id
       /\ t.previous # NoRoute =>
            /\ t.previous \in issued /\ TokenOf[t.previous] = t.id
            /\ t.previous # t.value

\* The store is what replace would build now, and previous values of listed
\* tokens whose grace window closed since it was built.
StoreCurrent ==
  /\ StoreOf(tokens) \subseteq store
  /\ \A e \in store \ StoreOf(tokens) :
       \E t \in tokens : HasPrevious(t) /\ Passed(t.graceEnd) /\ e = PreviousEntry(t)

\* value is t's previous one and its grace window is open.
InWindow(t, value) ==
  value = t.previous /\ t.graceEnd # NoDeadline /\ ~Passed(t.graceEnd)

\* A client that presents value must be let in: t is enabled and within its
\* lifetime, and value is its current one or in its grace window.
Owed(t, value) ==
  ~t.disabled /\ ~Passed(t.expires) /\ (value = t.value \/ InWindow(t, value))

\* No value is let in but the current one of an enabled token within its lifetime
\* and the previous one of an enabled token in its grace window.
Permitted(t, value) ==
  /\ ~t.disabled
  /\ \/ value = t.value /\ ~Passed(t.expires)
     \/ InWindow(t, value)

\* t is enabled and within its lifetime.
InForce(t) == \E e \in tokens : e.id = t /\ ~e.disabled /\ ~Passed(e.expires)

\* The store, rebuilt only when the list is saved, decides at any time as the
\* list says, and has one answer to each question whatever the order its map is
\* walked in: one entry per value and one previous value per token.  Between Owed
\* and Permitted lies one case, which is not claimed either way: the previous value
\* of a token past its lifetime.  authorize lets it in, where docs/security.md:57
\* says that letting a token expire "blocks reconnection".
StoreDecides ==
  /\ \A value \in Route :
       /\ (\E t \in tokens : Owed(t, value)) => MayAuthorize(value)
       /\ MayAuthorize(value) => \E t \in tokens : Permitted(t, value)
  /\ ActiveTokens = {t \in Token : InForce(t)}
  /\ \A e, f \in store :
       \/ e.value = f.value
       \/ e.legacy /\ f.legacy /\ TokenOf[e.value] = TokenOf[f.value]
       => e = f

=============================================================================
