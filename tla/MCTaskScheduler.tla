-------------------------- MODULE MCTaskScheduler --------------------------
(***************************************************************************)
(* TaskScheduler for TLC.                                                  *)
(***************************************************************************)
EXTENDS TaskScheduler

CONSTANT t1  \* a task
=============================================================================
