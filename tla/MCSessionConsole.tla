------------------------- MODULE MCSessionConsole -------------------------
\* A small instance of SessionConsole.
EXTENDS SessionConsole
=============================================================================
