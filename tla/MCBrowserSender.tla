-------------------------- MODULE MCBrowserSender --------------------------
(***************************************************************************)
(* Small instances of BrowserSender for TLC.                               *)
(***************************************************************************)
EXTENDS BrowserSender

CONSTANTS a, b  \* pages

\* One size for every record, and one large record among small ones.
UnitSize  == [r \in Record |-> 1]
LargeSize == [r \in Record |-> IF r = 2 THEN 3 ELSE 1]
=============================================================================
