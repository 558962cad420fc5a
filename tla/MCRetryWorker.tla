--------------------------- MODULE MCRetryWorker ---------------------------
(***************************************************************************)
(* RetryWorker for TLC.                                                    *)
(***************************************************************************)
EXTENDS RetryWorker

\* A track of 2 and one of 1 do not share a chunk of 2.
TrackSizes == [x \in Track |-> IF x = 2 THEN 2 ELSE 1]
=============================================================================
