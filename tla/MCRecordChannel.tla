--------------------------- MODULE MCRecordChannel ---------------------------
(* Three concurrent calls of Write, two of two chunks, and a counter that    *)
(* ends before the last chunk.                                               *)
EXTENDS RecordChannel, TLC

CONSTANTS c1, c2, c3

TwoLong == (c1 :> 2) @@ (c2 :> 2) @@ (c3 :> 1)

=============================================================================
