----------------------------- MODULE ByteStream -----------------------------
(***************************************************************************)
(* What one direction of a secure connection promises: the reader is given *)
(* the chunks the writers wrote, in that order, none lost, repeated or     *)
(* altered, up to the point where the connection fails.                    *)
(***************************************************************************)
EXTENDS Naturals, Sequences

VARIABLES
  written,    \* the chunks written so far
  delivered   \* the chunks given to the reader so far

streamVars == <<written, delivered>>

\* s is an initial part of t.
Begins(s, t) == Len(s) <= Len(t) /\ \A i \in 1 .. Len(s) : s[i] = t[i]

StreamInit == written = <<>> /\ delivered = <<>>

WriteMore == Begins(written, written') /\ UNCHANGED delivered

DeliverMore ==
  /\ Begins(delivered, delivered')
  /\ Begins(delivered', written)
  /\ UNCHANGED written

StreamSpec == StreamInit /\ [][WriteMore \/ DeliverMore]_streamVars

=============================================================================
