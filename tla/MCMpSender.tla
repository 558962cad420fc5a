---------------------------- MODULE MCMpSender ----------------------------
(***************************************************************************)
(* Small instances of MpSender for TLC.                                    *)
(***************************************************************************)
EXTENDS MpSender

\* One large record among small ones.
LargeSize == [r \in Record |-> IF r = 2 THEN 2 ELSE 1]
=============================================================================
