------------------------------ MODULE Delivery ------------------------------
(***************************************************************************)
(* What the client SDK promises of a record that it accepts for its stored *)
(* queue, whatever the host is made of: packages/core/src/browser/index.ts *)
(* and packages/core/src/mp-uni/index.ts.                                  *)
(*                                                                         *)
(* The record is held until a request that carried it is confirmed or      *)
(* until it is dropped: by a limit, or with the memory it was in.  A       *)
(* confirmed record may still be held, for the queue could not be written, *)
(* and be confirmed again: delivery is at least once.  A record that is no *)
(* longer held never comes back.                                           *)
(***************************************************************************)
CONSTANT Record

VARIABLES
  held,       \* accepted and still to be sent
  delivered,  \* a request that carried them was confirmed
  dropped     \* given up

vars == <<held, delivered, dropped>>

Accepted == held \cup delivered \cup dropped

Init == held = {} /\ delivered = {} /\ dropped = {}

\* A new record comes in, and limits may drop others, or it, at once.
Accept(r) ==
  /\ r \in Record \ Accepted
  /\ held' \subseteq held \cup {r}
  /\ dropped' = dropped \cup ((held \cup {r}) \ held')
  /\ UNCHANGED delivered

\* A request is confirmed: only what it carried is taken off.
Confirm(S) ==
  /\ delivered' = delivered \cup S
  /\ held' \subseteq held
  /\ dropped \subseteq dropped' /\ dropped' \subseteq dropped \cup held
  /\ held \ held' \subseteq S \cup dropped'

Lose ==
  /\ held' \subseteq held
  /\ dropped' = dropped \cup (held \ held')
  /\ UNCHANGED delivered

Next == \/ \E r \in Record : Accept(r)
        \/ \E S \in SUBSET Accepted : Confirm(S)
        \/ Lose

Spec == Init /\ [][Next]_vars
=============================================================================
