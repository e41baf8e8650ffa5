------------------------- MODULE RecordChannel_proofs -------------------------
(***************************************************************************)
(* Theorems about RecordChannel, for any calls, chunks and counter limit.  *)
(* WriteInv says that only the call that holds the lock has a nonce, which *)
(* is the count of the records written; that a record written whole sits   *)
(* in the stream at its number; and that there is one torn record at most, *)
(* the next one, after which nothing is written.  ReadInv says that what   *)
(* was read and what readBuf holds are the first rxSeq chunks.             *)
(***************************************************************************)
EXTENDS RecordChannel, SequenceTheorems, TLAPS

WriteInv ==
  /\ \A c \in Call : call[c].at \in {"loop", "sealed"} <=> lock = c
  /\ \A c \in Call : call[c].at = "sealed" => call[c].seq = txSeq /\ txSeq # MaxSeq
  /\ txSeq = Len(stream)
  /\ \A r \in wire :
       IF r.whole THEN r.seq < txSeq /\ r.chunk = stream[r.seq + 1]
       ELSE dead /\ r.seq = txSeq
  /\ \A a, b \in wire : ~a.whole /\ ~b.whole => a = b

ReadInv ==
  /\ rxSeq <= txSeq
  /\ readBuf = NoChunk => Len(got) = rxSeq
  /\ readBuf # NoChunk =>
       rxSeq # 0 /\ Len(got) = rxSeq - 1 /\ readBuf = stream[rxSeq]
  /\ \A i \in 1 .. Len(got) : got[i] = stream[i]

RecordInv == RecordTypeOK /\ WriteInv /\ ReadInv

\* Initially.
LEMMA RecordInitInv == RecordInit => RecordInv
<1> USE RecordAssumption
<1> SUFFICES ASSUME RecordInit PROVE RecordInv
    OBVIOUS
<1>1. RecordTypeOK
  <2>1. call \in [Call -> CallState]
    BY DEF RecordInit, CallState
  <2>2. stream \in Seq(Chunk) /\ got \in Seq(Chunk)
    BY DEF RecordInit
  <2>3. 0 \in 0 .. MaxSeq
    OBVIOUS
  <2> QED
    BY <2>1, <2>2, <2>3 DEF RecordInit, RecordTypeOK
<1>2. WriteInv /\ ReadInv
  BY DEF RecordInit, WriteInv, ReadInv
<1> QED
  BY <1>1, <1>2 DEF RecordInv

\* The state of a call keeps its type.
LEMMA CallTyped ==
  ASSUME RecordTypeOK, NEW c \in Call, NEW place \in {"loop", "sealed", "returned"}
  PROVE  /\ [call EXCEPT ![c].at = place] \in [Call -> CallState]
         /\ [call EXCEPT ![c].at = place, ![c].done = @ + 1] \in [Call -> CallState]
         /\ [call EXCEPT ![c].at = place, ![c].seq = txSeq] \in [Call -> CallState]
<1>1. call[c] \in CallState /\ txSeq \in Nat
  BY RecordAssumption DEF RecordTypeOK
<1>2. [call[c] EXCEPT !.at = place] \in CallState
  BY <1>1 DEF CallState
<1>3. [call[c] EXCEPT !.at = place, !.seq = txSeq] \in CallState
  BY <1>1 DEF CallState
<1>4. [call[c] EXCEPT !.at = place, !.done = call[c].done + 1] \in CallState
  <2>1. call[c].done + 1 \in Nat
    BY <1>1 DEF CallState
  <2> QED
    BY <1>1, <2>1 DEF CallState
<1> QED
  BY <1>2, <1>3, <1>4 DEF RecordTypeOK

\* A record about to leave.
LEMMA SealedTyped ==
  ASSUME RecordTypeOK, NEW c \in Call, NEW whole \in BOOLEAN
  PROVE  Sealed(c, whole) \in Record /\ Sealed(c, whole).chunk \in Chunk
<1>1. call[c] \in CallState
  BY DEF RecordTypeOK
<1>2. call[c].done + 1 \in Nat /\ call[c].seq \in Nat
  BY <1>1 DEF CallState
<1> QED
  BY <1>2 DEF Sealed, Record, Chunk

\* A step of the writers.
LEMMA WriterInv ==
  ASSUME RecordInv, NEW c \in Call,
         WriteLock(c) \/ Seal(c) \/ Exhausted(c) \/ Send(c) \/ SendFails(c)
  PROVE  RecordInv'
<1> USE RecordAssumption
<1>t. /\ RecordTypeOK /\ WriteInv /\ ReadInv
      /\ call \in [Call -> CallState] /\ stream \in Seq(Chunk) /\ got \in Seq(Chunk)
      /\ txSeq \in 0 .. MaxSeq /\ rxSeq \in 0 .. MaxSeq /\ wire \subseteq Record
  BY DEF RecordInv, RecordTypeOK
<1>r. UNCHANGED readerVars
  BY DEF WriteLock, Enter, Seal, Exhausted, Send, SendFails
<1>1. ASSUME UNCHANGED <<txSeq, stream>> PROVE ReadInv'
  BY <1>1, <1>r, <1>t DEF ReadInv, readerVars
<1>2. CASE WriteLock(c) \/ Seal(c) \/ Exhausted(c)
  <2>1. UNCHANGED <<txSeq, dead, wire, stream>>
    BY <1>2 DEF WriteLock, Enter, Seal, Exhausted
  <2>2. RecordTypeOK'
    <3>1. call' \in [Call -> CallState]
      <4>1. /\ [call EXCEPT ![c].at = "loop"] \in [Call -> CallState]
            /\ [call EXCEPT ![c].at = "returned"] \in [Call -> CallState]
            /\ [call EXCEPT ![c].at = "sealed", ![c].seq = txSeq] \in [Call -> CallState]
        BY <1>t, CallTyped
      <4> QED
        BY <1>2, <4>1 DEF WriteLock, Enter, Seal, Exhausted
    <3>2. lock' \in Call \cup {NoCall}
      BY <1>2, <1>t DEF WriteLock, Enter, Seal, Exhausted, RecordTypeOK
    <3> QED
      BY <1>r, <1>t, <2>1, <3>1, <3>2 DEF RecordTypeOK, readerVars
  <2>3. /\ \A d \in Call : call'[d].at \in {"loop", "sealed"} <=> lock' = d
        /\ \A d \in Call : call'[d].at = "sealed" => call'[d].seq = txSeq /\ txSeq # MaxSeq
    <3>1. call[c] \in CallState
      BY <1>t
    <3>2. CASE WriteLock(c)
      BY <1>t, <3>1, <3>2 DEF WriteLock, Enter, WriteInv, CallState
    <3>3. CASE Seal(c)
      BY <1>t, <3>1, <3>3 DEF Seal, WriteInv, CallState
    <3>4. CASE Exhausted(c)
      BY <1>t, <3>1, <3>4 DEF Exhausted, WriteInv, CallState
    <3> QED
      BY <1>2, <3>2, <3>3, <3>4
  <2>4. WriteInv'
    BY <1>t, <2>1, <2>3 DEF WriteInv
  <2> QED
    BY <1>1, <2>1, <2>2, <2>4 DEF RecordInv
<1>3. CASE Send(c)
  <2> DEFINE sent == Sealed(c, TRUE)
  <2>1. /\ call[c].at = "sealed" /\ ~dead /\ wire' = wire \cup {sent}
        /\ stream' = Append(stream, sent.chunk) /\ txSeq' = Successor(txSeq) /\ dead' = dead
    BY <1>3 DEF Send
  <2>2. sent \in Record /\ sent.chunk \in Chunk /\ sent.seq = call[c].seq /\ sent.whole
    BY <1>t, SealedTyped DEF Sealed
  <2>3. lock = c /\ call[c].seq = txSeq /\ txSeq # MaxSeq /\ txSeq = Len(stream)
    BY <1>t, <2>1 DEF WriteInv
  <2>4. txSeq' = txSeq + 1 /\ txSeq' \in 0 .. MaxSeq
    BY <1>t, <2>1, <2>3 DEF Successor
  <2> HIDE DEF sent
  <2>5. /\ stream' \in Seq(Chunk) /\ Len(stream') = txSeq' /\ stream'[txSeq + 1] = sent.chunk
        /\ \A i \in 1 .. Len(stream) : stream'[i] = stream[i]
    BY <1>t, <2>1, <2>2, <2>3, <2>4
  <2>6. /\ call' \in [Call -> CallState] /\ lock' \in Call \cup {NoCall}
        /\ \A d \in Call : call'[d].at \in {"loop", "sealed"} <=> lock' = d
        /\ \A d \in Call : call'[d].at # "sealed"
    <3>1. CASE call[c].done + 1 = Chunks[c]
      <4>1. call' = [call EXCEPT ![c].at = "returned", ![c].done = @ + 1] /\ lock' = NoCall
        BY <1>3, <3>1 DEF Send
      <4>2. ASSUME NEW d \in Call PROVE d # c => call[d].at \notin {"loop", "sealed"}
        BY <1>t, <2>3 DEF WriteInv
      <4>3. call' \in [Call -> CallState]
        BY <1>t, <4>1, CallTyped
      <4> QED
        BY <1>t, <4>1, <4>2, <4>3 DEF CallState
    <3>2. CASE call[c].done + 1 # Chunks[c]
      <4>1. call' = [call EXCEPT ![c].at = "loop", ![c].done = @ + 1] /\ lock' = lock
        BY <1>3, <3>2 DEF Send
      <4>2. ASSUME NEW d \in Call PROVE d # c => call[d].at \notin {"loop", "sealed"}
        BY <1>t, <2>3 DEF WriteInv
      <4>3. call' \in [Call -> CallState]
        BY <1>t, <4>1, CallTyped
      <4> QED
        BY <1>t, <2>3, <4>1, <4>2, <4>3 DEF CallState
    <3> QED
      BY <3>1, <3>2
  <2>7. RecordTypeOK'
    BY <1>r, <1>t, <2>1, <2>2, <2>4, <2>5, <2>6 DEF RecordTypeOK, readerVars
  <2>8. ASSUME NEW r \in wire'
        PROVE  r.whole /\ r.seq < txSeq' /\ r.chunk = stream'[r.seq + 1]
    <3>1. CASE r \in wire
      <4>1. r.whole /\ r.seq < txSeq /\ r.chunk = stream[r.seq + 1] /\ r.seq \in Nat
        BY <1>t, <2>1, <3>1 DEF WriteInv, Record
      <4>2. r.seq + 1 \in 1 .. Len(stream)
        BY <1>t, <2>3, <4>1
      <4> QED
        BY <1>t, <2>4, <2>5, <4>1, <4>2
    <3>2. CASE r = sent
      BY <1>t, <2>2, <2>3, <2>4, <2>5, <3>2
    <3> QED
      BY <2>1, <2>8, <3>1, <3>2
  <2>9. WriteInv'
    BY <2>5, <2>6, <2>8 DEF WriteInv
  <2>10. ReadInv'
    <3>1. UNCHANGED <<rxSeq, readBuf, got>>
      BY <1>r DEF readerVars
    <3>2. rxSeq <= txSeq'
      BY <1>t, <2>4 DEF ReadInv
    <3>3. Len(got) \in Nat /\ Len(got) <= Len(stream)
      BY <1>t, <2>3 DEF ReadInv
    <3>4. readBuf # NoChunk => rxSeq \in 1 .. Len(stream)
      BY <1>t, <2>3 DEF ReadInv
    <3>5. ASSUME NEW i \in 1 .. Len(got) PROVE stream'[i] = stream[i]
      <4>1. i \in 1 .. Len(stream)
        BY <1>t, <3>3
      <4> QED
        BY <2>5, <4>1
    <3> QED
      BY <1>t, <2>5, <3>1, <3>2, <3>4, <3>5 DEF ReadInv
  <2> QED
    BY <2>7, <2>9, <2>10 DEF RecordInv
<1>4. CASE SendFails(c)
  <2> DEFINE torn == Sealed(c, FALSE)
  <2>1. /\ call[c].at = "sealed" /\ dead' = TRUE /\ lock' = NoCall
        /\ \/ ~dead /\ wire' = wire \cup {torn}
           \/ wire' = wire
        /\ call' = [call EXCEPT ![c].at = "returned"]
        /\ UNCHANGED <<txSeq, stream>>
    BY <1>4 DEF SendFails
  <2>2. torn \in Record /\ torn.seq = call[c].seq /\ ~torn.whole
    BY <1>t, SealedTyped DEF Sealed
  <2>3. lock = c /\ call[c].seq = txSeq
    BY <1>t, <2>1 DEF WriteInv
  <2> HIDE DEF torn
  <2>4. RecordTypeOK'
    BY <1>r, <1>t, <2>1, <2>2, CallTyped DEF RecordTypeOK, readerVars
  <2>5. /\ \A d \in Call : call'[d].at \in {"loop", "sealed"} <=> lock' = d
        /\ \A d \in Call : call'[d].at # "sealed"
    BY <1>t, <2>1, <2>3 DEF WriteInv, CallState
  <2>6. ASSUME NEW r \in wire'
        PROVE  IF r.whole THEN r.seq < txSeq /\ r.chunk = stream[r.seq + 1]
               ELSE r.seq = txSeq
    BY <1>t, <2>1, <2>2, <2>3 DEF WriteInv
  <2>7. \A a, b \in wire' : ~a.whole /\ ~b.whole => a = b
    <3>1. CASE ~dead /\ wire' = wire \cup {torn}
      BY <1>t, <3>1 DEF WriteInv
    <3>2. CASE wire' = wire
      BY <1>t, <3>2 DEF WriteInv
    <3> QED
      BY <2>1, <3>1, <3>2
  <2>8. WriteInv'
    BY <1>t, <2>1, <2>5, <2>6, <2>7 DEF WriteInv
  <2> QED
    BY <1>1, <2>1, <2>4, <2>8 DEF RecordInv
<1> QED
  BY <1>2, <1>3, <1>4

\* A step of the reader: what it is given is the next chunk of the stream.
LEMMA ReaderInv ==
  ASSUME RecordInv, ReadRest \/ \E r \in wire : ReadRecord(r)
  PROVE  RecordInv' /\ Stream!DeliverMore
<1> USE RecordAssumption
<1>t. /\ RecordTypeOK /\ WriteInv /\ ReadInv
      /\ stream \in Seq(Chunk) /\ got \in Seq(Chunk)
      /\ txSeq \in 0 .. MaxSeq /\ rxSeq \in 0 .. MaxSeq /\ wire \subseteq Record
      /\ readBuf \in Chunk \cup {NoChunk} /\ txSeq = Len(stream) /\ rxSeq <= txSeq
      /\ NoChunk \notin Chunk
  BY DEF RecordInv, RecordTypeOK, WriteInv, ReadInv, Chunk
<1>w. UNCHANGED writerVars
  BY DEF ReadRest, ReadRecord, ReadFrom
<1>a. WriteInv'
  BY <1>t, <1>w DEF WriteInv, writerVars
<1>g. ASSUME NEW k \in Chunk, got' = Append(got, k), Len(got) + 1 <= Len(stream),
             k = stream[Len(got) + 1]
      PROVE  /\ got' \in Seq(Chunk) /\ Len(got') = Len(got) + 1
             /\ \A i \in 1 .. Len(got') : got'[i] = stream[i]
             /\ Stream!DeliverMore
  <2>1. /\ got' \in Seq(Chunk) /\ Len(got') = Len(got) + 1 /\ got'[Len(got) + 1] = k
        /\ \A i \in 1 .. Len(got) : got'[i] = got[i]
    BY <1>t, <1>g
  <2>2. \A i \in 1 .. Len(got) : got[i] = stream[i]
    BY <1>t DEF ReadInv
  <2>3. \A i \in 1 .. Len(got') : got'[i] = stream[i]
    BY <1>t, <1>g, <2>1, <2>2
  <2>4. Stream!Begins(got, got') /\ Stream!Begins(got', stream)
    BY <1>t, <1>g, <2>1, <2>3 DEF Stream!Begins
  <2> QED
    BY <1>w, <2>1, <2>3, <2>4 DEF Stream!DeliverMore, writerVars
<1>1. CASE ReadRest
  <2>1. /\ readBuf # NoChunk /\ got' = Append(got, readBuf) /\ readBuf' = NoChunk
        /\ rxSeq' = rxSeq
    BY <1>1 DEF ReadRest
  <2>2. rxSeq # 0 /\ Len(got) = rxSeq - 1 /\ readBuf = stream[rxSeq] /\ readBuf \in Chunk
    BY <1>t, <2>1 DEF ReadInv
  <2>3. Len(got) + 1 = rxSeq
    BY <1>t, <2>2
  <2>4. /\ got' \in Seq(Chunk) /\ Len(got') = rxSeq
        /\ \A i \in 1 .. Len(got') : got'[i] = stream[i]
        /\ Stream!DeliverMore
    BY <1>g, <1>t, <2>1, <2>2, <2>3
  <2>5. RecordTypeOK'
    BY <1>t, <1>w, <2>1, <2>4 DEF RecordTypeOK, writerVars
  <2>6. ReadInv'
    BY <1>t, <1>w, <2>1, <2>4 DEF ReadInv, writerVars
  <2> QED
    BY <1>a, <2>4, <2>5, <2>6 DEF RecordInv
<1>2. ASSUME NEW r \in wire, ReadRecord(r) PROVE RecordInv' /\ Stream!DeliverMore
  <2>1. /\ readBuf = NoChunk /\ rxSeq # MaxSeq /\ r.whole /\ r.seq = rxSeq
        /\ rxSeq' = Successor(rxSeq)
    BY <1>2 DEF ReadRecord, ReadFrom, Opens
  <2>2. rxSeq < txSeq /\ r.chunk = stream[rxSeq + 1]
    BY <1>t, <2>1 DEF WriteInv
  <2>3. rxSeq' = rxSeq + 1 /\ rxSeq' \in 0 .. MaxSeq /\ rxSeq' # 0
    BY <1>t, <2>1 DEF Successor
  <2>4. Len(got) = rxSeq /\ r.chunk \in Chunk
    <3>1. r \in Record
      BY <1>t
    <3> QED
      BY <1>t, <2>1, <3>1 DEF ReadInv, Record
  <2>5. CASE got' = Append(got, r.chunk) /\ readBuf' = NoChunk
    <3>1. /\ got' \in Seq(Chunk) /\ Len(got') = rxSeq'
          /\ \A i \in 1 .. Len(got') : got'[i] = stream[i]
          /\ Stream!DeliverMore
      BY <1>g, <1>t, <2>2, <2>3, <2>4, <2>5
    <3>2. RecordTypeOK'
      BY <1>t, <1>w, <2>3, <2>5, <3>1 DEF RecordTypeOK, writerVars
    <3>3. ReadInv'
      BY <1>t, <1>w, <2>2, <2>3, <2>5, <3>1 DEF ReadInv, writerVars
    <3> QED
      BY <1>a, <3>1, <3>2, <3>3 DEF RecordInv
  <2>6. CASE readBuf' = r.chunk /\ got' = got
    <3>1. RecordTypeOK'
      BY <1>t, <1>w, <2>3, <2>4, <2>6 DEF RecordTypeOK, writerVars
    <3>2. ReadInv'
      BY <1>t, <1>w, <2>2, <2>3, <2>4, <2>6 DEF ReadInv, writerVars
    <3>3. Stream!Begins(got, got') /\ Stream!Begins(got', stream)
      BY <1>t, <2>2, <2>4, <2>6 DEF Stream!Begins, ReadInv
    <3> QED
      BY <1>a, <1>w, <2>6, <3>1, <3>2, <3>3 DEF RecordInv, Stream!DeliverMore, writerVars
  <2> QED
    BY <1>2, <2>5, <2>6 DEF ReadRecord, ReadFrom
<1> QED
  BY <1>1, <1>2

\* A step of the writers only adds to the stream.
LEMMA WriterExtends ==
  ASSUME RecordInv, NEW c \in Call,
         WriteLock(c) \/ Seal(c) \/ Exhausted(c) \/ Send(c) \/ SendFails(c)
  PROVE  Stream!WriteMore
<1>t. stream \in Seq(Chunk) /\ RecordTypeOK
  BY DEF RecordInv, RecordTypeOK
<1>1. got' = got
  BY DEF WriteLock, Enter, Seal, Exhausted, Send, SendFails, readerVars
<1>2. CASE Send(c)
  <2>1. stream' = Append(stream, Sealed(c, TRUE).chunk) /\ Sealed(c, TRUE).chunk \in Chunk
    BY <1>2, <1>t, SealedTyped DEF Send
  <2>2. Stream!Begins(stream, stream')
    BY <1>t, <2>1 DEF Stream!Begins
  <2> QED
    BY <1>1, <2>2 DEF Stream!WriteMore
<1>3. CASE ~Send(c)
  <2>1. stream' = stream
    BY <1>3 DEF WriteLock, Enter, Seal, Exhausted, SendFails
  <2>2. Stream!Begins(stream, stream')
    BY <1>t, <2>1 DEF Stream!Begins
  <2> QED
    BY <1>1, <2>2 DEF Stream!WriteMore
<1> QED
  BY <1>2, <1>3

\* Every step keeps the invariant and is a step of the abstract stream.
LEMMA RecordStep ==
  ASSUME RecordInv, [RecordNext]_recordVars
  PROVE  RecordInv' /\ [Stream!WriteMore \/ Stream!DeliverMore]_(Stream!streamVars)
<1>1. CASE UNCHANGED recordVars
  <2>1. UNCHANGED <<lock, call, txSeq, dead, wire, stream, rxSeq, readBuf, got>>
    BY <1>1 DEF recordVars, writerVars, readerVars
  <2>2. RecordTypeOK' /\ WriteInv' /\ ReadInv'
    BY <2>1 DEF RecordInv, RecordTypeOK, WriteInv, ReadInv
  <2> QED
    BY <2>1, <2>2 DEF RecordInv, Stream!streamVars
<1>2. CASE RecordNext
  BY <1>2, WriterInv, ReaderInv, WriterExtends DEF RecordNext
<1> QED
  BY <1>1, <1>2

-----------------------------------------------------------------------------
\* The inductive invariant, types included, holds throughout.
THEOREM RecordInvariant == RecordSpec => []RecordInv
<1>1. RecordInv /\ [RecordNext]_recordVars => RecordInv'
  BY RecordStep
<1> QED
  BY <1>1, RecordInitInv, PTL DEF RecordSpec

\* No nonce ever protects two records.
THEOREM NonceUniqueCorrect == RecordSpec => []NonceUnique
<1>1. RecordInv => NonceUnique
  <2> SUFFICES ASSUME RecordInv, NEW a \in wire, NEW b \in wire, a.seq = b.seq
               PROVE  a = b
    BY DEF NonceUnique
  <2>1. a \in Record /\ b \in Record /\ txSeq \in Nat
    BY RecordAssumption DEF RecordInv, RecordTypeOK
  <2>2. CASE a.whole /\ b.whole
    <3>1. a.chunk = b.chunk
      BY <2>2 DEF RecordInv, WriteInv
    <3> QED
      BY <2>1, <2>2, <3>1 DEF Record
  <2>3. CASE ~a.whole /\ ~b.whole
    BY <2>3 DEF RecordInv, WriteInv
  <2>4. a.whole <=> b.whole
    BY <2>1 DEF RecordInv, WriteInv, Record
  <2> QED
    BY <2>2, <2>3, <2>4
<1> QED
  BY <1>1, RecordInvariant, PTL

\* The channel implements the abstract stream.
THEOREM StreamKeptCorrect == RecordSpec => StreamKept
<1>1. RecordInit => Stream!StreamInit
  BY DEF RecordInit, Stream!StreamInit
<1>2. RecordInv /\ [RecordNext]_recordVars
        => [Stream!WriteMore \/ Stream!DeliverMore]_(Stream!streamVars)
  BY RecordStep
<1> QED
  BY <1>1, <1>2, RecordInvariant, PTL DEF RecordSpec, StreamKept, Stream!StreamSpec

=============================================================================
