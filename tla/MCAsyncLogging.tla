--------------------------- MODULE MCAsyncLogging ---------------------------
(***************************************************************************)
(* AsyncLogging with three threads, two of which share a bucket.           *)
(***************************************************************************)
EXTENDS AsyncLogging

CONSTANTS t1, t2, t3

SharedBucket == t1 :> 0 @@ t2 :> 0 @@ t3 :> 1
=============================================================================
