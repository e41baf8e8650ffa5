---------------------------- MODULE RecordChannel ----------------------------
(***************************************************************************)
(* One direction of a RecordConn (internal/protocol/record_conn.go), from  *)
(* the Write calls at one end to the Read calls at the other.  Each end    *)
(* counts records; the count is the nonce and the authenticated data of    *)
(* the record.  Between the ends the frames pass a relay that is trusted   *)
(* with nothing: a frame once written may be handed to the reader at any   *)
(* time, any number of times, in any order, or never.                      *)
(***************************************************************************)
EXTENDS Naturals, Sequences

CONSTANTS
  Call,     \* the calls of Write: yamux frames, key confirmation
  Chunks,   \* Chunks[c]: the chunks of maxPlaintextRecord bytes c writes
  MaxSeq,   \* math.MaxUint64
  NoCall, NoChunk

ASSUME RecordAssumption ==
  /\ MaxSeq \in Nat
  /\ Chunks \in [Call -> Nat \ {0}]
  /\ NoCall \notin Call
  /\ NoChunk \notin Call \X Nat

VARIABLES
  lock,    \* writeMu
  call,    \* call[c]: where Write is, the chunks it wrote, its nonce
  txSeq,   \* c.txSeq
  dead,    \* a write of the WebSocket has failed
  wire,    \* the records of which bytes have left
  stream,  \* the chunks written whole, in order
  rxSeq,   \* c.rxSeq
  readBuf, \* the chunk readBuf holds the end of
  got      \* the chunks Read has returned to the last byte

writerVars == <<lock, call, txSeq, dead, wire, stream>>
readerVars == <<rxSeq, readBuf, got>>
recordVars == <<writerVars, readerVars>>

Chunk == Call \X Nat
CallState == [at : {"idle", "loop", "sealed", "returned"}, done : Nat, seq : Nat]
Record == [seq : Nat, chunk : Chunk, whole : BOOLEAN]

RecordTypeOK ==
  /\ lock \in Call \cup {NoCall}
  /\ call \in [Call -> CallState]
  /\ txSeq \in 0 .. MaxSeq
  /\ dead \in BOOLEAN
  /\ wire \subseteq Record
  /\ stream \in Seq(Chunk)
  /\ rxSeq \in 0 .. MaxSeq
  /\ readBuf \in Chunk \cup {NoChunk}
  /\ got \in Seq(Chunk)

\* newRecordConn.
RecordInit ==
  /\ lock = NoCall
  /\ call = [c \in Call |-> [at |-> "idle", done |-> 0, seq |-> 0]]
  /\ txSeq = 0
  /\ dead = FALSE
  /\ wire = {}
  /\ stream = <<>>
  /\ rxSeq = 0
  /\ readBuf = NoChunk
  /\ got = <<>>

-----------------------------------------------------------------------------
(***************************************************************************)
(* Write.                                                                  *)
(***************************************************************************)
\* An uint64.
Successor(n) == IF n = MaxSeq THEN 0 ELSE n + 1

Enter(c) ==
  /\ call[c].at = "idle"
  /\ call' = [call EXCEPT ![c].at = "loop"]
  /\ lock' = c
  /\ UNCHANGED <<txSeq, dead, wire, stream, readerVars>>

\* Mutant: without writeMu.
EnterUnlocked(c) == Enter(c)

WriteLock(c) == lock = NoCall /\ Enter(c)

\* Mutant: the nonce space is taken to be endless.
SealUnchecked(c) ==
  /\ call[c].at = "loop"
  /\ call' = [call EXCEPT ![c].at = "sealed", ![c].seq = txSeq]
  /\ UNCHANGED <<lock, txSeq, dead, wire, stream, readerVars>>

Seal(c) ==
  /\ call[c].at = "loop"
  /\ txSeq # MaxSeq
  /\ call' = [call EXCEPT ![c].at = "sealed", ![c].seq = txSeq]
  /\ UNCHANGED <<lock, txSeq, dead, wire, stream, readerVars>>

\* "send nonce space exhausted".
Exhausted(c) ==
  /\ call[c].at = "loop"
  /\ txSeq = MaxSeq
  /\ call' = [call EXCEPT ![c].at = "returned"]
  /\ lock' = NoCall
  /\ UNCHANGED <<txSeq, dead, wire, stream, readerVars>>

Sealed(c, whole) ==
  [seq |-> call[c].seq, chunk |-> <<c, call[c].done + 1>>, whole |-> whole]

\* WriteMessage succeeds.
Send(c) ==
  /\ call[c].at = "sealed"
  /\ ~dead
  /\ wire' = wire \cup {Sealed(c, TRUE)}
  /\ stream' = Append(stream, Sealed(c, TRUE).chunk)
  /\ txSeq' = Successor(txSeq)
  /\ IF call[c].done + 1 = Chunks[c]
     THEN /\ call' = [call EXCEPT ![c].at = "returned", ![c].done = @ + 1]
          /\ lock' = NoCall
     ELSE /\ call' = [call EXCEPT ![c].at = "loop", ![c].done = @ + 1]
          /\ UNCHANGED lock
  /\ UNCHANGED <<dead, readerVars>>

\* WriteMessage fails, having written nothing or a part; the library fails
\* every later write of the connection without writing anything.
SendFails(c) ==
  /\ call[c].at = "sealed"
  /\ dead' = TRUE
  /\ \/ ~dead /\ wire' = wire \cup {Sealed(c, FALSE)}
     \/ UNCHANGED wire
  /\ call' = [call EXCEPT ![c].at = "returned"]
  /\ lock' = NoCall
  /\ UNCHANGED <<txSeq, stream, readerVars>>

-----------------------------------------------------------------------------
(***************************************************************************)
(* Read.  A call takes from readBuf what is left there; only when nothing  *)
(* is, it receives a record.  A record that does not open is refused with  *)
(* an error and changes nothing.                                           *)
(***************************************************************************)
\* rx.Open under the nonce and the data of rxSeq.
Opens(r) == r.whole /\ r.seq = rxSeq

\* The chunk r carries is returned to its end or only in part.
ReadFrom(r) ==
  /\ rxSeq # MaxSeq
  /\ Opens(r)
  /\ rxSeq' = Successor(rxSeq)
  /\ \/ /\ got' = Append(got, r.chunk)
        /\ readBuf' = NoChunk
     \/ /\ readBuf' = r.chunk
        /\ UNCHANGED got
  /\ UNCHANGED writerVars

\* Mutant: a record is received although the last one is not read out.
ReadOver(r) == ReadFrom(r)

ReadRecord(r) == readBuf = NoChunk /\ ReadFrom(r)

\* The last bytes of readBuf.
ReadRest ==
  /\ readBuf # NoChunk
  /\ got' = Append(got, readBuf)
  /\ readBuf' = NoChunk
  /\ UNCHANGED <<rxSeq, writerVars>>

RecordNext ==
  \/ \E c \in Call :
       WriteLock(c) \/ Seal(c) \/ Exhausted(c) \/ Send(c) \/ SendFails(c)
  \/ \E r \in wire : ReadRecord(r)
  \/ ReadRest

RecordSpec == RecordInit /\ [][RecordNext]_recordVars

-----------------------------------------------------------------------------
\* No nonce protects two records, whichever calls write at once and however
\* they fail: "unique AES-GCM nonces" (docs/security.md).  A failed write
\* leaves its number to the next one, of which nothing may leave any more.
NonceUnique == \A a, b \in wire : a.seq = b.seq => a = b

Stream == INSTANCE ByteStream WITH written <- stream, delivered <- got

\* "Any changed, removed, duplicated, or reordered record causes
\* authentication or stream failure" (docs/architecture.md): whatever the
\* relay does to the frames and however Read calls cut the chunks, what was
\* read is the beginning of what was written.
StreamKept == Stream!StreamSpec

=============================================================================
