--------------------------- MODULE MCAlertFlush ---------------------------
(***************************************************************************)
(* Small instances of AlertFlush for TLC.                                  *)
(***************************************************************************)
EXTENDS AlertFlush

CONSTANT e1  \* a fingerprint

OnceRule   == [strategy |-> "once", window |-> 0, limit |-> 0]
WindowRule == [strategy |-> "window", window |-> 1, limit |-> 0]
LimitRule  == [strategy |-> "limit", window |-> 1, limit |-> 2]

TwoRules == {OnceRule, WindowRule}
OneRule  == {LimitRule}
=============================================================================
