----------------------------- MODULE MCIngestion ----------------------------
(***************************************************************************)
(* Small instances of ingestion for TLC.                                   *)
(***************************************************************************)
EXTENDS IngestionSystem, TLC

CONSTANTS i1, i2, i3, p, q, w1, w2, w3, w4, b1, b2, b3, b4, b5

R(i, x) == [id |-> i, payload |-> x]

(* In chunks of two: w1 repeats a row in its first chunk, w2 repeats one   *)
(* across chunks and shares rows with w1, w3 contradicts w2 on i3, and w4  *)
(* contradicts itself within a chunk and w1 in the next.                   *)
AcceptedRecords ==
    w1 :> <<R(i1, p), R(i1, p), R(i2, p)>> @@
    w2 :> <<R(i2, p), R(i3, p), R(i2, p)>> @@
    w3 :> <<R(i3, q)>> @@
    w4 :> <<R(i1, p), R(i1, q), R(i2, q)>>

(* b1 and b5 regenerate the same raw file.                                 *)
RawFiles == b1 :> w1 @@ b2 :> w2 @@ b3 :> w3 @@ b4 :> w4 @@ b5 :> w1
RawFilesIn == [b \in Bundles |-> RawFiles[b]]
=============================================================================
